----------------------------- MODULE OAuthConfig -----------------------------
(***************************************************************************)
(* auth login and auth logout (auth-commands.ts,                           *)
(* auth-config-transaction.ts): three files, written one after the other.  *)
(* Login stores the session, then a backup of the API-key configuration    *)
(* next to it, then the OpenClaw configuration; logout restores the        *)
(* configuration from the backup, then deletes the session, then the       *)
(* backup.  A command may be killed after any of these writes.  One        *)
(* command runs at a time (the files have no lock); the user may edit the  *)
(* configuration at any moment, and an edit made while login waits for the *)
(* browser is overwritten by what login read before.                       *)
(***************************************************************************)
EXTENDS Naturals

CONSTANTS
    Paths,     \* OAuth file paths --oauth-path or the configuration may name
    Keys,      \* API-key llm configurations
    NoLlm,     \* no llm configuration at all
    NoPath

ASSUME OAuthAssumption == NoLlm \notin Keys /\ NoPath \notin Paths

VARIABLES
    config,    \* openclaw.json: the llm configuration and the OAuth path
    session,   \* paths with a session file
    backup,    \* llm backup next to each path: [had, llm]
    command,   \* the running command
    replaced   \* history: the API-key configuration the last login replaced

oauthVars == <<config, session, backup, command, replaced>>

NoBackup == "none"
Resting == [pc |-> "none", from |-> NoPath, to |-> NoPath, llm |-> NoLlm, write |-> FALSE]
IsOAuth == config.path # NoPath

Llms == Keys \cup {NoLlm}

OAuthTypeOK ==
    /\ config \in [llm : Llms, path : Paths \cup {NoPath}]
    /\ session \subseteq Paths
    /\ backup \in [Paths -> Llms \cup {NoBackup}]
    /\ command \in [pc : {"none", "browser", "session", "backup", "restored", "removed"},
                    from : Paths \cup {NoPath}, to : Paths \cup {NoPath},
                    llm : Llms \cup {NoBackup}, write : BOOLEAN]
    /\ replaced \in Llms \cup {NoBackup}

---------------------------------------------------------------------------
(* The user edits openclaw.json: another API key, none, or a key written   *)
(* over an OAuth login.                                                    *)
EditConfig(k) ==
    /\ config # [llm |-> k, path |-> NoPath]
    /\ config' = [llm |-> k, path |-> NoPath]
    /\ UNCHANGED <<session, backup, command, replaced>>

(* Mutant: only a first login writes a backup. *)
WritesBackupFirst(p) == ~IsOAuth

(* prepareOAuthLoginBackup: a first login backs up what it replaces; a     *)
(* login from OAuth carries the existing backup to the new path.           *)
WritesBackup(p) == ~IsOAuth \/ config.path # p

(* login up to the browser: planOAuthLoginConfig, prepareOAuthLoginBackup. *)
LoginPlan(p) ==
    /\ command = Resting
    /\ IsOAuth => backup[config.path] # NoBackup
    /\ command' = [pc |-> "browser", from |-> config.path, to |-> p,
                   llm |-> IF IsOAuth THEN backup[config.path] ELSE config.llm,
                   write |-> WritesBackup(p)]
    /\ UNCHANGED <<config, session, backup, replaced>>

(* performOAuthLogin saves the session file. *)
LoginSession ==
    /\ command.pc = "browser"
    /\ session' = session \cup {command.to}
    /\ command' = [command EXCEPT !.pc = "session"]
    /\ UNCHANGED <<config, backup, replaced>>

(* saveOauthLlmBackup *)
LoginBackup ==
    /\ command.pc = "session"
    /\ backup' = IF command.write THEN [backup EXCEPT ![command.to] = command.llm] ELSE backup
    /\ command' = [command EXCEPT !.pc = "backup"]
    /\ UNCHANGED <<config, session, replaced>>

(* saveOpenClawConfig: one atomic rename. *)
LoginConfig ==
    /\ command.pc = "backup"
    /\ config' = [llm |-> NoLlm, path |-> command.to]
    /\ replaced' = IF command.from = NoPath THEN command.llm ELSE replaced
    /\ command' = Resting
    /\ UNCHANGED <<session, backup>>

(* performOAuthLogoutConfigTransaction, up to the configuration's rename.  *)
(* p is the configured path, the default one, or what --oauth-path names,  *)
(* which in OAuth mode may be another path than the configured: then the   *)
(* backup next to p is restored, which may be that of an earlier login,    *)
(* and the files of the configured path stay.  In API-key mode logout only *)
(* cleans up p.                                                            *)
LogoutConfig(p) ==
    /\ command = Resting
    /\ IsOAuth => backup[p] # NoBackup
    /\ config' = IF IsOAuth THEN [llm |-> backup[p], path |-> NoPath] ELSE config
    /\ command' = [Resting EXCEPT !.pc = "restored", !.from = config.path, !.to = p]
    /\ UNCHANGED <<session, backup, replaced>>

LogoutSession ==
    /\ command.pc = "restored"
    /\ session' = session \ {command.to}
    /\ command' = [command EXCEPT !.pc = "removed"]
    /\ UNCHANGED <<config, backup, replaced>>

LogoutBackup ==
    /\ command.pc = "removed"
    /\ backup' = [backup EXCEPT ![command.to] = NoBackup]
    /\ command' = Resting
    /\ UNCHANGED <<config, session, replaced>>

(* The command is killed, or one of its writes throws. *)
CommandKilled ==
    /\ command # Resting
    /\ command' = Resting
    /\ UNCHANGED <<config, session, backup, replaced>>

---------------------------------------------------------------------------
OAuthInit ==
    /\ config = [llm |-> NoLlm, path |-> NoPath]
    /\ session = {} /\ backup = [p \in Paths |-> NoBackup]
    /\ command = Resting /\ replaced = NoLlm

OAuthNext ==
    \/ \E k \in Keys \cup {NoLlm} : EditConfig(k)
    \/ \E p \in Paths : LoginPlan(p)
    \/ LoginSession \/ LoginBackup \/ LoginConfig
    \/ \E p \in Paths : LogoutConfig(p)
    \/ LogoutSession \/ LogoutBackup
    \/ CommandKilled

OAuthSpec == OAuthInit /\ [][OAuthNext]_oauthVars

---------------------------------------------------------------------------
(* Whatever was killed on the way, an OAuth configuration can be logged    *)
(* out of: next to the path it names is a session, and a backup of the     *)
(* very configuration the first login replaced, also after logins that     *)
(* moved from path to path.                                                *)
LogoutIsPossible ==
    IsOAuth => config.path \in session /\ backup[config.path] = replaced

===============================================================================
