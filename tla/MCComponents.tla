----------------------------- MODULE MCComponents -----------------------------
(* One run for the components that share no state with each other: the       *)
(* initial state chooses a component, and only that one moves.               *)
EXTENDS Experience, LiveMaintenance, OAuthConfig, AuthorityMigration,
        PrincipalScope, TLC

CONSTANTS s1, s2, s3, r1, r2

MCRunOf == (s1 :> r1) @@ (s2 :> r1) @@ (s3 :> r2)

(* Operators and rows of the maintenance lanes are alike. *)
LaneSymmetry == Permutations(Operators) \cup Permutations(Items)

VARIABLE part      \* the component that moves

componentVars == <<part, expVars, maintVars, oauthVars, migrationVars, scopeVars>>

ComponentsInit ==
    /\ part \in {"experience", "maintenance", "oauth", "migration", "scope"}
    /\ ExperienceInit /\ MaintenanceInit /\ OAuthInit
    /\ MigrationInit /\ ScopeInit
    /\ part # "maintenance" => truth1 = [i \in Items |-> 0]

ComponentsNext ==
    \/ /\ part = "experience" /\ ExperienceNext
       /\ UNCHANGED <<part, maintVars, oauthVars, migrationVars, scopeVars>>
    \/ /\ part = "maintenance" /\ MaintenanceNext
       /\ UNCHANGED <<part, expVars, oauthVars, migrationVars, scopeVars>>
    \/ /\ part = "oauth" /\ OAuthNext
       /\ UNCHANGED <<part, expVars, maintVars, migrationVars, scopeVars>>
    \/ /\ part = "migration" /\ MigrationNext
       /\ UNCHANGED <<part, expVars, maintVars, oauthVars, scopeVars>>
    \/ /\ part = "scope" /\ ScopeNext
       /\ UNCHANGED <<part, expVars, maintVars, oauthVars, migrationVars>>

ComponentsSpec == ComponentsInit /\ [][ComponentsNext]_componentVars

===============================================================================
