------------------------------ MODULE Experience ------------------------------
(***************************************************************************)
(* The V2 experience store: snapshots handed to subagents, the episode     *)
(* each of them ends with, the parent's verdict on it, and the playbooks   *)
(* built from verified episodes (subagent-experience-service.ts,           *)
(* sqlite-experience-v2.ts).  A service call reads the row it is about,    *)
(* builds the new one, and saves it in a transaction that compares the     *)
(* stored row with the one it read; two processes (a gateway and the       *)
(* operator's command) open the same file, so the row may have changed in  *)
(* between.                                                                *)
(***************************************************************************)
EXTENDS Naturals, FiniteSets

CONSTANTS
    Snaps, RunOf,      \* snapshot ids, and the run each belongs to
    MaxEpisode,        \* episode ids are 1..MaxEpisode, in order of creation
    MaxPlaybook,       \* playbook ids are 1..MaxPlaybook, in order of creation
    MaxCandidate,      \* playbooks built from episodes (the others are successors)
    Agents,            \* processes with the file open
    NoSnap

ASSUME ExperienceAssumption ==
    {MaxEpisode, MaxPlaybook, MaxCandidate} \subseteq Nat /\ NoSnap \notin Snaps /\ DOMAIN RunOf = Snaps

VARIABLES snaps, episodes, playbooks, pending

expVars == <<snaps, episodes, playbooks, pending>>

Episodes == 1..MaxEpisode
Playbooks == 1..MaxPlaybook
NoEpisode == [snap |-> NoSnap, good |-> FALSE, verdict |-> "pending"]
NoPlaybook == [life |-> "absent", reviewed |-> FALSE, evidence |-> {}, pred |-> 0, succ |-> 0,
               version |-> 0]
Nothing == [op |-> "none", id |-> 0, seen |-> NoPlaybook, flag |-> FALSE]

PlaybookRow ==
    [life : {"absent", "candidate", "promoted", "quarantined", "superseded"}, reviewed : BOOLEAN,
     evidence : SUBSET Episodes, pred : 0..MaxPlaybook, succ : 0..MaxPlaybook, version : Nat]

ExperienceTypeOK ==
    /\ snaps \in [Snaps -> {"none", "active", "revoked"}]
    /\ episodes \in [Episodes -> [snap : Snaps \cup {NoSnap}, good : BOOLEAN,
                                  verdict : {"pending", "parent_verified", "disputed"}]]
    /\ playbooks \in [Playbooks -> PlaybookRow]
    /\ pending \in [Agents -> [op : {"none", "end", "promote", "quarantine", "supersede"},
                               id : Snaps \cup 0..MaxPlaybook, seen : PlaybookRow, flag : BOOLEAN]]

Stored == {e \in Episodes : episodes[e].snap # NoSnap}
Verified(e) == episodes[e].good /\ episodes[e].verdict = "parent_verified"

(* episodeId and playbookId come from clock.id: the next unused ones. *)
FreshEpisode(e) == episodes[e].snap = NoSnap /\ 1..e - 1 \subseteq Stored
FreshPlaybook(p) == playbooks[p].life = "absent" /\ \A q \in 1..p - 1 : playbooks[q].life # "absent"

---------------------------------------------------------------------------
(* Snapshots and episodes. *)

(* prepareSpawn: the snapshot is active from its first row on. *)
PrepareSpawn(s) ==
    /\ snaps[s] = "none"
    /\ snaps' = [snaps EXCEPT ![s] = "active"]
    /\ UNCHANGED <<episodes, playbooks, pending>>

(* onSubagentEnded: requireSnapshot finds the snapshot active and the call *)
(* goes on to its transaction.                                             *)
RequireSnapshot(a, s) ==
    /\ pending[a] = Nothing /\ snaps[s] = "active"
    /\ pending' = [pending EXCEPT ![a] = [Nothing EXCEPT !.op = "end", !.id = s]]
    /\ UNCHANGED <<snaps, episodes, playbooks>>

(* Mutant: the transaction relies on the read before it. *)
StillActiveUnchecked(s) == TRUE

(* finalizeSnapshot's check of the stored row, repeated by the UPDATE's    *)
(* WHERE status='active'.                                                  *)
StillActive(s) == snaps[s] = "active"

(* finalizeSnapshot: the snapshot is revoked and its episode inserted in   *)
(* one transaction, or the call throws.  good: the outcome is success and  *)
(* there are tool receipts and evidence.                                   *)
FinalizeSnapshot(a, e) ==
    /\ pending[a].op = "end" /\ FreshEpisode(e)
    /\ pending' = [pending EXCEPT ![a] = Nothing]
    /\ \E good \in BOOLEAN :
          LET s == pending[a].id IN
          IF StillActive(s)
          THEN /\ snaps' = [snaps EXCEPT ![s] = "revoked"]
               /\ episodes' = [episodes EXCEPT ![e] =
                     [snap |-> s, good |-> good, verdict |-> "pending"]]
          ELSE UNCHANGED <<snaps, episodes>>
    /\ UNCHANGED <<playbooks>>

(* verifyByParent: the parent's verdict.  updateEpisode's comparison makes *)
(* the read and the write one step: an episode changes once, from pending. *)
Accepts(e, accepted) == accepted /\ episodes[e].good

VerifyByParent(e, accepted) ==
    /\ e \in Stored /\ episodes[e].verdict = "pending"
    /\ episodes' = [episodes EXCEPT ![e].verdict =
          IF Accepts(e, accepted) THEN "parent_verified" ELSE "disputed"]
    /\ UNCHANGED <<snaps, playbooks, pending>>

---------------------------------------------------------------------------
(* Playbooks. *)

(* assertPlaybookEvidence *)
Evidence(E) == E # {} /\ \A e \in E : Verified(e)

(* createPlaybookCandidate and savePlaybook: nothing the evidence shows    *)
(* can change again, so the read and the transaction are one step.         *)
CreateCandidate(p, E) ==
    /\ FreshPlaybook(p) /\ Evidence(E)
    /\ Cardinality({q \in Playbooks : playbooks[q].version = 1}) < MaxCandidate
    /\ playbooks' = [playbooks EXCEPT ![p] =
          [NoPlaybook EXCEPT !.life = "candidate", !.evidence = E, !.version = 1]]
    /\ UNCHANGED <<snaps, episodes, pending>>

(* Mutant: two episodes of one run are enough. *)
RepeatVerifiedByEpisode(E) == Cardinality({e \in E : Verified(e)}) >= 2

(* Repeated success: two runs, however many episodes each of them has. *)
RepeatVerified(E) == Cardinality({RunOf[episodes[e].snap] : e \in {f \in E : Verified(f)}}) >= 2

(* promotePlaybook, quarantinePlaybook (recordFeedback with a failure is   *)
(* one), supersedePlaybook: the service reads the playbook and decides.    *)
DecideOn(a, p, op, reviewed) ==
    LET pb == playbooks[p] IN
    /\ pending[a] = Nothing
    /\ \/ /\ op = "promote" /\ pb.life = "candidate"
          /\ reviewed \/ RepeatVerified(pb.evidence)
       \/ op = "quarantine" /\ pb.life \in {"candidate", "promoted"} /\ ~reviewed
       \/ op = "supersede" /\ pb.life = "promoted" /\ ~reviewed
    /\ pending' = [pending EXCEPT ![a] =
          [Nothing EXCEPT !.op = op, !.id = p, !.seen = pb, !.flag = reviewed]]
    /\ UNCHANGED <<snaps, episodes, playbooks>>

(* Mutant: the row is saved over whatever is stored. *)
UnchangedSinceAny(a) == TRUE

(* The comparison of the stored row with the one the service read. *)
UnchangedSince(a) == playbooks[pending[a].id] = pending[a].seen

Give(a, pb) ==
    /\ pending' = [pending EXCEPT ![a] = Nothing]
    /\ playbooks' = [playbooks EXCEPT ![pending[a].id] = IF UnchangedSince(a) THEN pb ELSE @]
    /\ UNCHANGED <<snaps, episodes>>

(* updatePlaybook after promotePlaybook; the transaction counts the runs   *)
(* again.                                                                  *)
SavePromotion(a) ==
    LET pb == pending[a].seen
        reviewed == pb.reviewed \/ pending[a].flag IN
    /\ pending[a].op = "promote"
    /\ reviewed \/ RepeatVerified(pb.evidence)
    /\ Give(a, [pb EXCEPT !.life = "promoted", !.reviewed = reviewed])

(* updatePlaybook after quarantinePlaybook. *)
SaveQuarantine(a) ==
    /\ pending[a].op = "quarantine"
    /\ Give(a, [pending[a].seen EXCEPT !.life = "quarantined"])

(* supersedePlaybook: the successor is a new candidate with the next       *)
(* version and the predecessor's evidence; both rows or none.              *)
SaveSuccessor(a, p) ==
    LET old == pending[a].id  pb == pending[a].seen IN
    /\ pending[a].op = "supersede" /\ FreshPlaybook(p)
    /\ pending' = [pending EXCEPT ![a] = Nothing]
    /\ playbooks' = IF UnchangedSince(a)
                    THEN [playbooks EXCEPT
                            ![old] = [pb EXCEPT !.life = "superseded", !.succ = p],
                            ![p] = [pb EXCEPT !.life = "candidate", !.reviewed = FALSE,
                                              !.pred = old, !.version = @ + 1]]
                    ELSE playbooks
    /\ UNCHANGED <<snaps, episodes>>

(* The process is killed: what it had read is gone, the file is as the     *)
(* last transaction left it.                                               *)
AgentCrash(a) ==
    /\ pending[a] # Nothing
    /\ pending' = [pending EXCEPT ![a] = Nothing]
    /\ UNCHANGED <<snaps, episodes, playbooks>>

---------------------------------------------------------------------------
ExperienceInit ==
    /\ snaps = [s \in Snaps |-> "none"]
    /\ episodes = [e \in Episodes |-> NoEpisode]
    /\ playbooks = [p \in Playbooks |-> NoPlaybook]
    /\ pending = [a \in Agents |-> Nothing]

ExperienceNext ==
    \/ \E s \in Snaps : PrepareSpawn(s)
    \/ \E a \in Agents, s \in Snaps : RequireSnapshot(a, s)
    \/ \E a \in Agents, e \in Episodes : FinalizeSnapshot(a, e)
    \/ \E e \in Episodes, accepted \in BOOLEAN : VerifyByParent(e, accepted)
    \/ \E p \in Playbooks, E \in SUBSET Episodes : CreateCandidate(p, E)
    \/ \E a \in Agents, p \in Playbooks, op \in {"promote", "quarantine", "supersede"},
          reviewed \in BOOLEAN : DecideOn(a, p, op, reviewed)
    \/ \E a \in Agents : SavePromotion(a)
    \/ \E a \in Agents : SaveQuarantine(a)
    \/ \E a \in Agents, p \in Playbooks : SaveSuccessor(a, p)
    \/ \E a \in Agents : AgentCrash(a)

ExperienceSpec == ExperienceInit /\ [][ExperienceNext]_expVars

---------------------------------------------------------------------------
(* A subagent's end is recorded once: of two callers that both found the   *)
(* snapshot active (a redelivered subagent_ended, or the operator's        *)
(* command) one finalizes it and the other throws, so every revoked        *)
(* snapshot has exactly one episode and every other one none.              *)
OneEpisodePerSnapshot ==
    \A s \in Snaps : Cardinality({e \in Stored : episodes[e].snap = s}) =
                     IF snaps[s] = "revoked" THEN 1 ELSE 0

(* A playbook that is or was in force was earned: an operator reviewed it, *)
(* or verified successes of two different runs stand behind it; a run that *)
(* spawned two children counts once.                                       *)
PromotedIsEarned ==
    \A p \in Playbooks : playbooks[p].life \in {"promoted", "superseded"} =>
        \/ playbooks[p].reviewed
        \/ \E e, f \in playbooks[p].evidence :
              /\ Verified(e) /\ Verified(f)
              /\ RunOf[episodes[e].snap] # RunOf[episodes[f].snap]

(* The versions of a playbook form a line: concurrent supersedes of one    *)
(* version leave one successor, and a superseded version names the very    *)
(* playbook that names it.                                                 *)
LineageIsLine ==
    \A p \in Playbooks :
        /\ playbooks[p].life = "superseded" =>
              LET q == playbooks[p].succ IN
              q # 0 /\ playbooks[q].pred = p /\ playbooks[q].version = playbooks[p].version + 1
        /\ playbooks[p].pred # 0 =>
              LET q == playbooks[p].pred IN
              playbooks[q].life = "superseded" /\ playbooks[q].succ = p

===============================================================================
