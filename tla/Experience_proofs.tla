--------------------------- MODULE Experience_proofs ---------------------------
(* What the gateway learns from: the experience store's episodes and playbooks *)
(* (Experience), the state reflection keeps (ReflectionState) and what prompts  *)
(* are shown (AutoRecall), for any number of snapshots, playbooks, agents,      *)
(* errors, loads, scope filters, sessions and prompts.                          *)
EXTENDS Experience, ReflectionState, AutoRecall, FiniteSetTheorems, SequenceTheorems, TLAPS

-----------------------------------------------------------------------------
(* Sets of one and of two *)

LEMMA OneElement ==
    ASSUME NEW S, NEW x \in S, \A y \in S : y = x
    PROVE  Cardinality(S) = 1
<1>1. S = {x}
  OBVIOUS
<1> QED  BY <1>1, FS_Singleton

LEMMA TwoElements ==
    ASSUME NEW S, Cardinality(S) >= 2
    PROVE  \E x, y \in S : x # y
<1> SUFFICES ASSUME \A x, y \in S : x = y PROVE FALSE
  OBVIOUS
<1>1. CASE S = {}
  BY <1>1, FS_EmptySet
<1>2. CASE S # {}
  <2>1. PICK x \in S : TRUE
    BY <1>2
  <2>2. Cardinality(S) = 1
    BY OneElement
  <2> QED  BY <2>2
<1> QED  BY <1>1, <1>2

-----------------------------------------------------------------------------
(* Experience *)

(* An unused id has nothing, and a call in progress is about something. *)
RowsAreSound ==
    /\ \A e \in Episodes : episodes[e].snap = NoSnap => episodes[e] = NoEpisode
    /\ \A p \in Playbooks : playbooks[p].life = "absent" => playbooks[p] = NoPlaybook

CallsAreSound ==
    \A a \in Agents :
        /\ pending[a].op = "end" => pending[a].id \in Snaps
        /\ pending[a].op \in {"promote", "quarantine", "supersede"} => pending[a].id \in Playbooks
        /\ pending[a].op = "promote" => pending[a].seen.life = "candidate"
        /\ pending[a].op = "quarantine" => pending[a].seen.life \in {"candidate", "promoted"}
        /\ pending[a].op = "supersede" => pending[a].seen.life = "promoted"

(* OneEpisodePerSnapshot, without counting. *)
EpisodesMatchSnapshots ==
    /\ \A e, f \in Stored : episodes[e].snap = episodes[f].snap => e = f
    /\ \A s \in Snaps : snaps[s] = "revoked" <=> \E e \in Stored : episodes[e].snap = s

ExperienceInv ==
    /\ ExperienceTypeOK
    /\ RowsAreSound
    /\ CallsAreSound
    /\ EpisodesMatchSnapshots
    /\ LineageIsLine
    /\ PromotedIsEarned

LEMMA ExperienceInvInit == ExperienceInit => ExperienceInv
<1> SUFFICES ASSUME ExperienceInit PROVE ExperienceInv
  OBVIOUS
<1> USE ExperienceAssumption DEF ExperienceInit, NoPlaybook, NoEpisode, Nothing
<1>1. ExperienceTypeOK
  BY DEF ExperienceTypeOK, PlaybookRow
<1>2. RowsAreSound /\ CallsAreSound
  BY DEF RowsAreSound, CallsAreSound
<1>3. EpisodesMatchSnapshots
  BY DEF EpisodesMatchSnapshots, Stored
<1>4. LineageIsLine /\ PromotedIsEarned
  BY DEF LineageIsLine, PromotedIsEarned
<1> QED  BY <1>1, <1>2, <1>3, <1>4 DEF ExperienceInv

LEMMA NothingIsACall ==
    /\ NoPlaybook \in PlaybookRow
    /\ Nothing \in [op : {"none", "end", "promote", "quarantine", "supersede"},
                    id : Snaps \cup 0..MaxPlaybook, seen : PlaybookRow, flag : BOOLEAN]
BY ExperienceAssumption DEF NoPlaybook, Nothing, PlaybookRow

(* Two verified successes of different runs, and what keeps them. *)
LEMMA RepeatedRuns ==
    ASSUME NEW E \in SUBSET Episodes, RepeatVerified(E)
    PROVE  \E e, f \in E : /\ Verified(e) /\ Verified(f)
                           /\ RunOf[episodes[e].snap] # RunOf[episodes[f].snap]
<1> DEFINE runs == {RunOf[episodes[e].snap] : e \in {f \in E : Verified(f)}}
<1>1. PICK x, y \in runs : x # y
  <2>1. Cardinality(runs) >= 2
    BY DEF RepeatVerified
  <2> QED  BY <2>1, TwoElements
<1> QED  BY <1>1

LEMMA EarnedStays ==
    ASSUME PromotedIsEarned, UNCHANGED playbooks, ExperienceTypeOK,
           \A e \in Episodes : Verified(e) => episodes'[e] = episodes[e]
    PROVE  PromotedIsEarned'
BY DEF PromotedIsEarned, Verified, ExperienceTypeOK, PlaybookRow

(* A change of a playbook that keeps its links, and does not supersede it. *)
LEMMA LinesStay ==
    ASSUME ExperienceTypeOK, LineageIsLine,
           \A q \in Playbooks :
              /\ playbooks'[q].pred = playbooks[q].pred
              /\ playbooks'[q].succ = playbooks[q].succ
              /\ playbooks'[q].version = playbooks[q].version
              /\ playbooks'[q].life = "superseded" <=> playbooks[q].life = "superseded"
    PROVE  LineageIsLine'
<1>1. \A n \in 0..MaxPlaybook : n # 0 => n \in Playbooks
  BY ExperienceAssumption DEF Playbooks
<1>2. \A p \in Playbooks : {playbooks[p].succ, playbooks[p].pred} \subseteq 0..MaxPlaybook
  BY DEF ExperienceTypeOK, PlaybookRow
<1>3. ASSUME NEW p \in Playbooks, playbooks'[p].life = "superseded"
      PROVE  /\ playbooks'[p].succ # 0 /\ playbooks'[playbooks'[p].succ].pred = p
             /\ playbooks'[playbooks'[p].succ].version = playbooks'[p].version + 1
  <2> DEFINE q == playbooks[p].succ
  <2>1. /\ q # 0 /\ playbooks[q].pred = p /\ playbooks[q].version = playbooks[p].version + 1
        /\ playbooks'[p].succ = q
    <3>1. playbooks[p].life = "superseded" /\ playbooks'[p].succ = q
      BY <1>3
    <3> QED  BY <3>1 DEF LineageIsLine
  <2>2. q \in Playbooks
    BY <1>1, <1>2, <2>1
  <2>3. /\ playbooks'[q].pred = playbooks[q].pred /\ playbooks'[q].version = playbooks[q].version
        /\ playbooks'[p].version = playbooks[p].version
    BY <2>2
  <2> QED  BY <2>1, <2>3
<1>4. ASSUME NEW p \in Playbooks, playbooks'[p].pred # 0
      PROVE  /\ playbooks'[playbooks'[p].pred].life = "superseded"
             /\ playbooks'[playbooks'[p].pred].succ = p
  <2> DEFINE q == playbooks[p].pred
  <2>1. /\ q # 0 /\ playbooks[q].life = "superseded" /\ playbooks[q].succ = p
        /\ playbooks'[p].pred = q
    <3>1. q # 0 /\ playbooks'[p].pred = q
      BY <1>4
    <3> QED  BY <3>1 DEF LineageIsLine
  <2>2. q \in Playbooks
    BY <1>1, <1>2, <2>1
  <2> QED  BY <2>1, <2>2
<1> QED  BY <1>3, <1>4 DEF LineageIsLine

LEMMA ExperienceInvStep == ExperienceInv /\ [ExperienceNext]_expVars => ExperienceInv'
<1> SUFFICES ASSUME ExperienceInv, [ExperienceNext]_expVars PROVE ExperienceInv'
  OBVIOUS
<1> USE NothingIsACall, ExperienceAssumption DEF ExperienceInv
<1>1. ASSUME NEW s \in Snaps, PrepareSpawn(s) PROVE ExperienceInv'
  BY <1>1, EarnedStays DEF PrepareSpawn, ExperienceTypeOK, RowsAreSound, CallsAreSound,
     EpisodesMatchSnapshots, Stored, LineageIsLine
<1>2. ASSUME NEW a \in Agents, NEW s \in Snaps, RequireSnapshot(a, s) PROVE ExperienceInv'
  <2> USE <1>2 DEF RequireSnapshot
  <2>1. ExperienceTypeOK' /\ CallsAreSound'
    BY DEF ExperienceTypeOK, CallsAreSound, Nothing
  <2> QED  BY <2>1, EarnedStays DEF RowsAreSound, EpisodesMatchSnapshots, Stored, LineageIsLine
<1>3. ASSUME NEW a \in Agents, NEW e \in Episodes, FinalizeSnapshot(a, e) PROVE ExperienceInv'
  <2> DEFINE s == pending[a].id
  <2> USE <1>3 DEF FinalizeSnapshot
  <2>1. s \in Snaps /\ episodes[e] = NoEpisode /\ e \notin Stored
    BY DEF CallsAreSound, RowsAreSound, FreshEpisode, Stored
  <2>2. CallsAreSound'
    BY DEF CallsAreSound, Nothing, ExperienceTypeOK
  <2>3. CASE UNCHANGED <<snaps, episodes>>
    BY <2>2, <2>3, EarnedStays DEF ExperienceTypeOK, RowsAreSound, EpisodesMatchSnapshots, Stored,
       LineageIsLine
  <2>4. ASSUME NEW good \in BOOLEAN, StillActive(s),
               snaps' = [snaps EXCEPT ![s] = "revoked"],
               episodes' = [episodes EXCEPT ![e] = [snap |-> s, good |-> good, verdict |-> "pending"]]
        PROVE  ExperienceInv'
    <3> USE <2>1, <2>4
    <3>1. ExperienceTypeOK' /\ RowsAreSound' /\ LineageIsLine'
      BY DEF ExperienceTypeOK, RowsAreSound, LineageIsLine
    <3>2. EpisodesMatchSnapshots'
      <4>1. Stored' = Stored \cup {e} /\ \A f \in Stored : episodes'[f] = episodes[f]
        BY DEF Stored, ExperienceTypeOK
      <4>2. episodes'[e].snap = s /\ \A f \in Stored : episodes[f].snap # s
        BY DEF EpisodesMatchSnapshots, StillActive, ExperienceTypeOK
      <4>3. snaps'[s] = "revoked" /\ \A t \in Snaps : t # s => snaps'[t] = snaps[t]
        BY DEF ExperienceTypeOK
      <4> QED  BY <4>1, <4>2, <4>3 DEF EpisodesMatchSnapshots
    <3>3. PromotedIsEarned'
      <4>1. \A f \in Episodes : Verified(f) => f # e
        BY DEF Verified, NoEpisode
      <4> QED  BY <4>1, EarnedStays DEF ExperienceTypeOK
    <3> QED  BY <2>2, <3>1, <3>2, <3>3
  <2> QED  BY <2>3, <2>4
<1>4. ASSUME NEW e \in Episodes, NEW accepted \in BOOLEAN, VerifyByParent(e, accepted)
      PROVE  ExperienceInv'
  <2> USE <1>4 DEF VerifyByParent
  <2>1. /\ Stored' = Stored
        /\ \A f \in Episodes : episodes'[f].snap = episodes[f].snap
        /\ \A f \in Episodes : f # e => episodes'[f] = episodes[f]
    BY DEF Stored, ExperienceTypeOK
  <2>2. ExperienceTypeOK' /\ CallsAreSound' /\ LineageIsLine'
    BY DEF ExperienceTypeOK, CallsAreSound, LineageIsLine
  <2>3. RowsAreSound'
    BY <2>1 DEF RowsAreSound, Stored
  <2>4. EpisodesMatchSnapshots'
    BY <2>1 DEF EpisodesMatchSnapshots, Stored
  <2>5. PromotedIsEarned'
    BY <2>1, EarnedStays DEF Verified
  <2> QED  BY <2>2, <2>3, <2>4, <2>5
<1>5. ASSUME NEW p \in Playbooks, NEW E \in SUBSET Episodes, CreateCandidate(p, E)
      PROVE  ExperienceInv'
  <2> DEFINE pb == [NoPlaybook EXCEPT !.life = "candidate", !.evidence = E, !.version = 1]
  <2> USE <1>5 DEF CreateCandidate
  <2>1. /\ playbooks[p] = NoPlaybook
        /\ playbooks' = [playbooks EXCEPT ![p] = pb]
        /\ pb \in PlaybookRow /\ pb.life = "candidate" /\ pb.pred = 0
    BY DEF FreshPlaybook, RowsAreSound, NoPlaybook, PlaybookRow
  <2> HIDE <1>5 DEF CreateCandidate
  <2>2. UNCHANGED <<snaps, episodes, pending>>
    BY <1>5 DEF CreateCandidate
  <2> HIDE DEF pb
  <2>3. ExperienceTypeOK' /\ RowsAreSound' /\ CallsAreSound' /\ EpisodesMatchSnapshots'
    BY <2>1, <2>2 DEF ExperienceTypeOK, RowsAreSound, CallsAreSound, EpisodesMatchSnapshots, Stored
  <2>4. LineageIsLine'
    BY SMTT(30), <2>1, <2>2 DEF LineageIsLine, ExperienceTypeOK, NoPlaybook, PlaybookRow, Playbooks
  <2>5. PromotedIsEarned'
    BY <2>1, <2>2 DEF PromotedIsEarned, ExperienceTypeOK, Verified
  <2> QED  BY <2>3, <2>4, <2>5
<1>6. ASSUME NEW a \in Agents, NEW p \in Playbooks, NEW op \in {"promote", "quarantine", "supersede"},
             NEW reviewed \in BOOLEAN, DecideOn(a, p, op, reviewed)
      PROVE  ExperienceInv'
  <2> USE <1>6 DEF DecideOn
  <2>1. ExperienceTypeOK'
    <3>1. p \in 0..MaxPlaybook /\ playbooks[p] \in PlaybookRow
      BY DEF Playbooks, ExperienceTypeOK
    <3> DEFINE call == [Nothing EXCEPT !.op = op, !.id = p, !.seen = playbooks[p], !.flag = reviewed]
    <3>2. pending' = [pending EXCEPT ![a] = call]
      OBVIOUS
    <3>3. call \in [op : {"none", "end", "promote", "quarantine", "supersede"},
                    id : Snaps \cup 0..MaxPlaybook, seen : PlaybookRow, flag : BOOLEAN]
      BY <3>1
    <3> HIDE DEF call
    <3> QED  BY <3>2, <3>3 DEF ExperienceTypeOK
  <2>2. CallsAreSound'
    BY DEF CallsAreSound, Nothing, ExperienceTypeOK
  <2> QED  BY <2>1, <2>2, EarnedStays DEF RowsAreSound, EpisodesMatchSnapshots, Stored, LineageIsLine
<1>7. ASSUME NEW a \in Agents, SavePromotion(a) PROVE ExperienceInv'
  <2> DEFINE p == pending[a].id
             reviewed == playbooks[p].reviewed \/ pending[a].flag
  <2>1. /\ p \in Playbooks /\ pending' = [pending EXCEPT ![a] = Nothing]
        /\ UNCHANGED <<snaps, episodes>>
    BY <1>7 DEF SavePromotion, CallsAreSound, Give
  <2>2. CallsAreSound' /\ EpisodesMatchSnapshots'
    BY <2>1 DEF CallsAreSound, Nothing, ExperienceTypeOK, EpisodesMatchSnapshots, Stored
  <2>3. CASE UNCHANGED playbooks
    BY <2>1, <2>2, <2>3, EarnedStays DEF LineageIsLine, ExperienceTypeOK, RowsAreSound
  <2>4. CASE UnchangedSince(a)
    <3> DEFINE pb == [playbooks[p] EXCEPT !.life = "promoted", !.reviewed = reviewed]
    <3>1. /\ playbooks' = [playbooks EXCEPT ![p] = pb]
          /\ reviewed \/ RepeatVerified(playbooks[p].evidence)
          /\ playbooks[p].life = "candidate"
      BY <1>7, <2>1, <2>4 DEF SavePromotion, Give, UnchangedSince, CallsAreSound
    <3>2. /\ pb.pred = playbooks[p].pred /\ pb.succ = playbooks[p].succ
          /\ pb.evidence = playbooks[p].evidence /\ pb.version = playbooks[p].version
          /\ pb.life = "promoted" /\ pb.reviewed = reviewed
      BY <2>1 DEF ExperienceTypeOK, PlaybookRow
    <3>5. pb \in PlaybookRow
      BY <2>1 DEF ExperienceTypeOK, PlaybookRow
    <3> HIDE DEF pb
    <3>6. ExperienceTypeOK' /\ RowsAreSound'
      BY <2>1, <3>1, <3>2, <3>5 DEF ExperienceTypeOK, RowsAreSound
    <3>3. LineageIsLine'
      BY <2>1, <3>1, <3>2, LinesStay DEF ExperienceTypeOK
    <3>4. PromotedIsEarned'
      <4>1. reviewed \/ \E e, f \in playbooks[p].evidence :
                            /\ Verified(e) /\ Verified(f)
                            /\ RunOf[episodes[e].snap] # RunOf[episodes[f].snap]
        BY <2>1, <3>1, RepeatedRuns DEF ExperienceTypeOK, PlaybookRow
      <4>2. playbooks'[p] = pb /\ \A q \in Playbooks \ {p} : playbooks'[q] = playbooks[q]
        BY <2>1, <3>1 DEF ExperienceTypeOK
      <4>3. \A e \in Episodes : Verified(e)' <=> Verified(e)
        BY <2>1 DEF Verified
      <4>4. playbooks[p].evidence \subseteq Episodes
        BY <2>1 DEF ExperienceTypeOK, PlaybookRow
      <4>5. ASSUME NEW q \in Playbooks \ {p}, playbooks'[q].life \in {"promoted", "superseded"}
            PROVE  \/ playbooks'[q].reviewed
                   \/ \E e, f \in playbooks'[q].evidence :
                         /\ Verified(e)' /\ Verified(f)'
                         /\ RunOf[episodes'[e].snap] # RunOf[episodes'[f].snap]
        BY <2>1, <4>2, <4>5 DEF PromotedIsEarned, Verified
      <4>6. \/ playbooks'[p].reviewed
            \/ \E e, f \in playbooks'[p].evidence :
                  /\ Verified(e)' /\ Verified(f)'
                  /\ RunOf[episodes'[e].snap] # RunOf[episodes'[f].snap]
        BY ZenonT(60), <2>1, <3>2, <4>1, <4>2, <4>3, <4>4
      <4> QED  BY <4>5, <4>6 DEF PromotedIsEarned
    <3> QED  BY <2>2, <3>3, <3>4, <3>6
  <2> QED  BY <1>7, <2>3, <2>4 DEF SavePromotion, Give, ExperienceTypeOK
<1>8. ASSUME NEW a \in Agents, SaveQuarantine(a) PROVE ExperienceInv'
  <2> DEFINE p == pending[a].id
  <2>1. /\ p \in Playbooks /\ pending' = [pending EXCEPT ![a] = Nothing]
        /\ UNCHANGED <<snaps, episodes>>
    BY <1>8 DEF SaveQuarantine, CallsAreSound, Give
  <2>2. CallsAreSound' /\ EpisodesMatchSnapshots'
    BY <2>1 DEF CallsAreSound, Nothing, ExperienceTypeOK, EpisodesMatchSnapshots, Stored
  <2>3. CASE UNCHANGED playbooks
    BY <2>1, <2>2, <2>3, EarnedStays DEF LineageIsLine, ExperienceTypeOK, RowsAreSound
  <2>4. CASE UnchangedSince(a)
    <3> DEFINE pb == [playbooks[p] EXCEPT !.life = "quarantined"]
    <3>1. /\ playbooks' = [playbooks EXCEPT ![p] = pb]
          /\ playbooks[p].life \in {"candidate", "promoted"}
      BY <1>8, <2>1, <2>4 DEF SaveQuarantine, Give, UnchangedSince, CallsAreSound
    <3>2. /\ pb.pred = playbooks[p].pred /\ pb.succ = playbooks[p].succ
          /\ pb.version = playbooks[p].version /\ pb.life = "quarantined"
      BY <2>1 DEF ExperienceTypeOK, PlaybookRow
    <3>5. pb \in PlaybookRow
      BY <2>1 DEF ExperienceTypeOK, PlaybookRow
    <3> HIDE DEF pb
    <3>6. ExperienceTypeOK' /\ RowsAreSound'
      BY <2>1, <3>1, <3>2, <3>5 DEF ExperienceTypeOK, RowsAreSound
    <3>3. LineageIsLine'
      BY <2>1, <3>1, <3>2, LinesStay DEF ExperienceTypeOK
    <3>4. PromotedIsEarned'
      BY <2>1, <3>1, <3>2 DEF PromotedIsEarned, ExperienceTypeOK, Verified
    <3> QED  BY <2>2, <3>3, <3>4, <3>6
  <2> QED  BY <1>8, <2>3, <2>4 DEF SaveQuarantine, Give, ExperienceTypeOK
<1>9. ASSUME NEW a \in Agents, NEW p \in Playbooks, SaveSuccessor(a, p) PROVE ExperienceInv'
  <2> DEFINE old == pending[a].id
  <2>1. /\ old \in Playbooks /\ pending' = [pending EXCEPT ![a] = Nothing]
        /\ UNCHANGED <<snaps, episodes>> /\ playbooks[p] = NoPlaybook
    BY <1>9 DEF SaveSuccessor, CallsAreSound, FreshPlaybook, RowsAreSound
  <2>2. CallsAreSound' /\ EpisodesMatchSnapshots'
    BY <2>1 DEF CallsAreSound, Nothing, ExperienceTypeOK, EpisodesMatchSnapshots, Stored
  <2>3. CASE UNCHANGED playbooks
    BY <2>1, <2>2, <2>3, EarnedStays DEF LineageIsLine, ExperienceTypeOK, RowsAreSound
  <2>4. CASE UnchangedSince(a)
    <3> DEFINE from == [playbooks[old] EXCEPT !.life = "superseded", !.succ = p]
               to == [playbooks[old] EXCEPT !.life = "candidate", !.reviewed = FALSE,
                                            !.pred = old, !.version = @ + 1]
    <3>1. /\ playbooks' = [playbooks EXCEPT ![old] = from, ![p] = to]
          /\ playbooks[old].life = "promoted"
      BY <1>9, <2>1, <2>4 DEF SaveSuccessor, UnchangedSince, CallsAreSound
    <3>2. /\ from \in PlaybookRow /\ to \in PlaybookRow /\ old # p
          /\ from.life = "superseded" /\ from.succ = p /\ from.pred = playbooks[old].pred
          /\ from.version = playbooks[old].version /\ from.reviewed = playbooks[old].reviewed
          /\ from.evidence = playbooks[old].evidence
          /\ to.life = "candidate" /\ to.pred = old /\ to.version = playbooks[old].version + 1
      <4>1. playbooks[old] \in PlaybookRow /\ old # p /\ old \in 0..MaxPlaybook /\ p \in 0..MaxPlaybook
        BY <2>1, <3>1 DEF ExperienceTypeOK, Playbooks, NoPlaybook
      <4>2. playbooks[old].version + 1 \in Nat
        BY <4>1 DEF PlaybookRow
      <4> QED  BY <4>1, <4>2 DEF PlaybookRow
    <3> HIDE DEF from, to
    <3>3. ExperienceTypeOK' /\ RowsAreSound'
      BY <2>1, <3>1, <3>2 DEF ExperienceTypeOK, RowsAreSound
    <3>4. /\ playbooks'[old] = from /\ playbooks'[p] = to
          /\ \A r \in Playbooks \ {old, p} : playbooks'[r] = playbooks[r]
      BY <2>1, <3>1, <3>2 DEF ExperienceTypeOK
    <3>5. LineageIsLine'
      <4>1. \A n \in 0..MaxPlaybook : n # 0 => n \in Playbooks
        BY ExperienceAssumption DEF Playbooks
      <4>2. \A r \in Playbooks : {playbooks[r].succ, playbooks[r].pred} \subseteq 0..MaxPlaybook
        BY DEF ExperienceTypeOK, PlaybookRow
      <4>3. ASSUME NEW r \in Playbooks, playbooks'[r].life = "superseded"
            PROVE  /\ playbooks'[r].succ # 0 /\ playbooks'[playbooks'[r].succ].pred = r
                   /\ playbooks'[playbooks'[r].succ].version = playbooks'[r].version + 1
        <5>1. CASE r = old
          BY <2>1, <3>2, <3>4, <5>1 DEF Playbooks
        <5>2. CASE r # old
          <6> DEFINE q == playbooks[r].succ
          <6>1. r # p /\ playbooks'[r] = playbooks[r]
            BY <3>2, <3>4, <4>3, <5>2
          <6>2. q # 0 /\ playbooks[q].pred = r /\ playbooks[q].version = playbooks[r].version + 1
            BY <4>3, <6>1 DEF LineageIsLine
          <6>3. q \in Playbooks /\ q # p
            BY <2>1, <4>1, <4>2, <6>2 DEF NoPlaybook, Playbooks
          <6>4. playbooks'[q].pred = playbooks[q].pred /\ playbooks'[q].version = playbooks[q].version
            BY <3>2, <3>4, <6>3
          <6> QED  BY <6>1, <6>2, <6>4
        <5> QED  BY <5>1, <5>2
      <4>4. ASSUME NEW r \in Playbooks, playbooks'[r].pred # 0
            PROVE  /\ playbooks'[playbooks'[r].pred].life = "superseded"
                   /\ playbooks'[playbooks'[r].pred].succ = r
        <5>1. CASE r = p
          BY <3>2, <3>4, <5>1
        <5>2. CASE r # p
          <6> DEFINE q == playbooks[r].pred
          <6>1. playbooks'[r].pred = q
            BY <3>2, <3>4, <5>2
          <6>2. q # 0 /\ playbooks[q].life = "superseded" /\ playbooks[q].succ = r
            BY <4>4, <6>1 DEF LineageIsLine
          <6>3. q \in Playbooks /\ q # old /\ q # p
            BY <2>1, <3>1, <4>1, <4>2, <6>2 DEF NoPlaybook
          <6> QED  BY <3>4, <6>1, <6>2, <6>3
        <5> QED  BY <5>1, <5>2
      <4> QED  BY <4>3, <4>4 DEF LineageIsLine
    <3>6. PromotedIsEarned'
      <4>1. ASSUME NEW q \in Playbooks, playbooks'[q].life \in {"promoted", "superseded"}
            PROVE  \/ playbooks'[q].reviewed
                   \/ \E e, f \in playbooks'[q].evidence :
                         /\ Verified(e)' /\ Verified(f)'
                         /\ RunOf[episodes'[e].snap] # RunOf[episodes'[f].snap]
        <5>1. /\ q # p /\ playbooks[q].life \in {"promoted", "superseded"}
              /\ playbooks'[q].reviewed = playbooks[q].reviewed
              /\ playbooks'[q].evidence = playbooks[q].evidence
          BY ZenonT(60), <3>1, <3>2, <3>4, <4>1
        <5> QED  BY <2>1, <5>1 DEF PromotedIsEarned, Verified
      <4> QED  BY <4>1 DEF PromotedIsEarned
    <3> QED  BY <2>2, <3>3, <3>5, <3>6
  <2> QED  BY <1>9, <2>3, <2>4 DEF SaveSuccessor
<1>10. ASSUME NEW a \in Agents, AgentCrash(a) PROVE ExperienceInv'
  <2> USE <1>10 DEF AgentCrash
  <2>1. ExperienceTypeOK' /\ CallsAreSound'
    BY DEF ExperienceTypeOK, CallsAreSound, Nothing
  <2> QED  BY <2>1, EarnedStays DEF RowsAreSound, EpisodesMatchSnapshots, Stored, LineageIsLine
<1>11. CASE UNCHANGED expVars
  BY <1>11, EarnedStays DEF expVars, ExperienceTypeOK, RowsAreSound, CallsAreSound,
     EpisodesMatchSnapshots, Stored, LineageIsLine
<1> QED
  BY <1>1, <1>2, <1>3, <1>4, <1>5, <1>6, <1>7, <1>8, <1>9, <1>10, <1>11 DEF ExperienceNext

LEMMA ExperienceInvCorrect == ExperienceSpec => []ExperienceInv
BY ExperienceInvInit, ExperienceInvStep, PTL DEF ExperienceSpec

(* However subagents end, are reported twice and are judged, and however many  *)
(* processes have the file open, a revoked snapshot has exactly one episode    *)
(* and any other has none.                                                     *)
THEOREM EpisodesAreSingle == ExperienceSpec => []OneEpisodePerSnapshot
<1>1. ASSUME ExperienceInv PROVE OneEpisodePerSnapshot
  <2> SUFFICES ASSUME NEW s \in Snaps
               PROVE  Cardinality({e \in Stored : episodes[e].snap = s}) =
                      IF snaps[s] = "revoked" THEN 1 ELSE 0
    BY DEF OneEpisodePerSnapshot
  <2> DEFINE Ended == {e \in Stored : episodes[e].snap = s}
  <2>1. CASE snaps[s] = "revoked"
    <3>1. PICK e \in Ended : TRUE
      BY <1>1, <2>1 DEF ExperienceInv, EpisodesMatchSnapshots
    <3>2. \A f \in Ended : f = e
      BY <1>1, <3>1 DEF ExperienceInv, EpisodesMatchSnapshots
    <3> QED  BY <2>1, <3>1, <3>2, OneElement
  <2>2. CASE snaps[s] # "revoked"
    <3>1. Ended = {}
      BY <1>1, <2>2 DEF ExperienceInv, EpisodesMatchSnapshots
    <3> QED  BY <2>2, <3>1, FS_EmptySet
  <2> QED  BY <2>1, <2>2
<1> QED  BY <1>1, ExperienceInvCorrect, PTL

(* Calls that read a playbook, judge it and save it later never put one in     *)
(* force without a review or verified successes of two runs.                   *)
THEOREM PromotionsAreEarned == ExperienceSpec => []PromotedIsEarned
BY ExperienceInvCorrect, PTL DEF ExperienceInv

(* Concurrent promotions, quarantines and successions leave every playbook in  *)
(* one line of versions.                                                       *)
THEOREM LineagesAreLines == ExperienceSpec => []LineageIsLine
BY ExperienceInvCorrect, PTL DEF ExperienceInv

-----------------------------------------------------------------------------
(* ReflectionState *)

Entry == [id : 1..MaxErrors, hash : Hashes]

(* The entries of a session carry the last numbers there are. *)
Numbered(s, r) ==
    /\ s \in Seq(Entry) /\ r \in Nat /\ Len(s) <= r
    /\ \A k \in 1..Len(s) : s[k].id = r - Len(s) + k

EntriesAreTheLast ==
    /\ Len(errors.entries) <= MaxEntries /\ errors.injected <= Len(errors.entries)
    /\ Numbered(errors.entries, recorded)

ToldIsRecorded == told \subseteq 1..recorded

(* A load carries what is stored now, unless it is late. *)
LoadsAreFresh ==
    \A l \in Loads :
        /\ loading[l].read # Unset => loading[l].key # NoKey
        /\ loading[l].read # Unset /\ storing[loading[l].key[1]] = 0 /\ ~loading[l].late
           => loading[l].read.own = stored[loading[l].key[1]]

ReflectionInv ==
    /\ ReflectionTypeOK
    /\ EntriesAreTheLast
    /\ ToldIsRecorded
    /\ PendingIsUntold
    /\ LoadsAreFresh
    /\ StaleOnlyByRace

(* The numbers from a position of such a list on are an interval. *)
LEMMA NumbersAreAnInterval ==
    ASSUME NEW s, NEW r, Numbered(s, r), NEW j \in 0..Len(s)
    PROVE  NumbersAfter(s, j) = (r - Len(s) + j + 1)..r
<1> DEFINE n == Len(s)
<1> USE DEF Numbered, NumbersAfter
<1>1. n \in Nat
  OBVIOUS
<1>2. ASSUME NEW k \in (j + 1)..n PROVE s[k].id \in (r - n + j + 1)..r
  BY <1>1
<1>3. ASSUME NEW x \in (r - n + j + 1)..r PROVE x \in NumbersAfter(s, j)
  <2> DEFINE k == x - r + n
  <2>1. k \in (j + 1)..n /\ k \in 1..n /\ r - n + k = x
    BY <1>1
  <2> QED  BY <2>1
<1> QED  BY <1>2, <1>3

LEMMA ReflectionInvInit == ReflectionInit => ReflectionInv
<1> SUFFICES ASSUME ReflectionInit PROVE ReflectionInv
  OBVIOUS
<1> USE ReflectionAssumption DEF ReflectionInit, NoErrors, NotLoading, Unset
<1>1. ReflectionTypeOK
  BY DEF ReflectionTypeOK
<1>2. EntriesAreTheLast /\ ToldIsRecorded /\ PendingIsUntold
  BY DEF EntriesAreTheLast, Numbered, Entry, ToldIsRecorded, PendingIsUntold, PendingNow, NumbersAfter
<1> QED  BY <1>1, <1>2 DEF ReflectionInv, LoadsAreFresh, StaleOnlyByRace

LEMMA ListedNumbers ==
    ASSUME EntriesAreTheLast, ReflectionTypeOK
    PROVE  /\ PendingNow = (recorded - Len(errors.entries) + errors.injected + 1)..recorded
           /\ NumbersAfter(errors.entries, 0) = (recorded - Len(errors.entries) + 1)..recorded
<1> DEFINE n == Len(errors.entries)
<1>0. Numbered(errors.entries, recorded) /\ errors.injected <= n /\ errors.injected \in Nat
  BY DEF EntriesAreTheLast, ReflectionTypeOK
<1>1. n \in Nat /\ recorded \in Nat /\ errors.injected \in 0..n /\ 0 \in 0..n
  BY <1>0 DEF Numbered
<1>2. NumbersAfter(errors.entries, errors.injected) = (recorded - n + errors.injected + 1)..recorded
  BY <1>0, <1>1, NumbersAreAnInterval
<1>3. NumbersAfter(errors.entries, 0) = (recorded - n + 0 + 1)..recorded
  BY <1>0, <1>1, NumbersAreAnInterval
<1>4. recorded - n + 0 + 1 = recorded - n + 1
  BY <1>1
<1> QED  BY <1>2, <1>3, <1>4 DEF PendingNow

LEMMA AddErrorStep ==
    ASSUME ReflectionInv, NEW hash \in Hashes, NEW dedupe \in BOOLEAN, AddError(hash, dedupe)
    PROVE  ReflectionInv'
<1> USE ReflectionAssumption DEF ReflectionInv
<1> DEFINE n == Len(errors.entries)
           j == errors.injected
           last == [id |-> recorded + 1, hash |-> hash]
           all == Append(errors.entries, last)
           removed == IF Len(all) > MaxEntries THEN Len(all) - MaxEntries ELSE 0
           kept == SubSeq(all, removed + 1, Len(all))
           m == Len(kept)
           jj == IF j > removed THEN j - removed ELSE 0
<1>1. /\ errors.entries \in Seq(Entry) /\ n \in Nat /\ j \in Nat /\ recorded \in Nat
      /\ n <= MaxEntries /\ n <= recorded /\ j <= n /\ recorded < MaxErrors
  BY DEF ReflectionTypeOK, Entry, EntriesAreTheLast, Numbered, AddError
<1>2. /\ all \in Seq(Entry) /\ Len(all) = n + 1
      /\ \A k \in 1..n + 1 : all[k].id = recorded - n + k
  <2>1. last \in Entry
    BY <1>1 DEF Entry
  <2> HIDE DEF last
  <2>2. /\ all \in Seq(Entry) /\ Len(all) = n + 1 /\ all[n + 1] = last
        /\ \A k \in 1..n : all[k] = errors.entries[k]
    BY <1>1, <2>1, AppendProperties
  <2>3. last.id = recorded + 1 /\ \A k \in 1..n : errors.entries[k].id = recorded - n + k
    BY DEF last, EntriesAreTheLast, Numbered
  <2> HIDE DEF all
  <2>4. ASSUME NEW k \in 1..n + 1 PROVE all[k].id = recorded - n + k
    <3>1. CASE k = n + 1
      BY <1>1, <2>2, <2>3, <3>1
    <3>2. CASE k \in 1..n
      BY <2>2, <2>3, <3>2
    <3> QED  BY <1>1, <3>1, <3>2
  <2> QED  BY <2>2, <2>4
<1>3. removed \in {0, 1} /\ removed <= n /\ n + 1 - removed <= MaxEntries
  BY <1>1, <1>2
<1>4. errors' = [entries |-> kept, injected |-> jj,
                 seen |-> IF removed = 0 THEN errors.seen \cup {hash}
                          ELSE {e.hash : e \in ToSet(kept)}]
  BY DEF AddError, InjectedAfter
<1>5. told' = told /\ recorded' = recorded + 1 /\ UNCHANGED sliceVars
  BY DEF AddError
<1> HIDE DEF removed, all
<1>6. /\ kept \in Seq(Entry) /\ m = n + 1 - removed
      /\ \A k \in 1..m : kept[k] = all[removed + k]
  <2>1. /\ removed + 1 \in Int /\ Len(all) \in Int
        /\ \A k \in (removed + 1)..Len(all) : all[k] \in Entry
    BY <1>1, <1>2, <1>3
  <2>2. /\ kept \in Seq(Entry) /\ Len(kept) = Len(all) - (removed + 1) + 1
        /\ \A k \in 1..Len(all) - (removed + 1) + 1 : kept[k] = all[removed + 1 + k - 1]
    BY <1>1, <1>2, <1>3, <2>1, SubSeqProperties
  <2>3. Len(all) - (removed + 1) + 1 = n + 1 - removed
    BY <1>1, <1>2, <1>3
  <2>4. ASSUME NEW k \in 1..n + 1 - removed PROVE kept[k] = all[removed + k]
    <3>1. removed + 1 + k - 1 = removed + k
      BY <1>1, <1>3
    <3> QED  BY <2>2, <2>3, <3>1
  <2> QED  BY <2>2, <2>3, <2>4
<1> HIDE DEF kept
<1>7. /\ m \in Nat /\ m <= MaxEntries /\ m <= recorded + 1 /\ jj \in 0..m
  BY SMTT(30), <1>1, <1>3, <1>6
<1>8. Numbered(kept, recorded + 1)
  <2>1. ASSUME NEW k \in 1..m PROVE kept[k].id = recorded + 1 - m + k
    <3>1. removed + k \in 1..n + 1 /\ recorded - n + (removed + k) = recorded + 1 - m + k
      BY <1>1, <1>3, <1>6
    <3> QED  BY <1>2, <1>6, <3>1
  <2> QED  BY SMTT(30), <1>1, <1>6, <1>7, <2>1 DEF Numbered
<1>9. /\ PendingNow = (recorded - n + j + 1)..recorded
      /\ NumbersAfter(errors.entries, 0) = (recorded - n + 1)..recorded
  BY <1>1, ListedNumbers
<1>10. EntriesAreTheLast'
  BY <1>4, <1>5, <1>7, <1>8 DEF EntriesAreTheLast, Numbered
<1>11. /\ PendingNow' = ((recorded + 1) - m + jj + 1)..(recorded + 1)
       /\ NumbersAfter(kept, 0) = ((recorded + 1) - m + 1)..(recorded + 1)
  <2> DEFINE r == recorded + 1
  <2>1. Numbered(kept, r) /\ jj \in 0..Len(kept) /\ 0 \in 0..Len(kept)
    BY <1>7, <1>8
  <2> HIDE DEF r, jj
  <2>2. NumbersAfter(kept, jj) = (r - Len(kept) + jj + 1)..r
    BY <2>1, NumbersAreAnInterval
  <2>3. NumbersAfter(kept, 0) = (r - Len(kept) + 0 + 1)..r
    BY <2>1, NumbersAreAnInterval
  <2>4. PendingNow' = NumbersAfter(kept, jj)
    BY <1>4 DEF PendingNow, NumbersAfter
  <2>5. r - m + 0 + 1 = r - m + 1
    BY <1>1, <1>7 DEF r
  <2>6. NumbersAfter(kept, 0) = (r - m + 1)..r
    BY <2>3, <2>5
  <2>7. PendingNow' = (r - m + jj + 1)..r
    BY <2>2, <2>4
  <2> QED  BY <2>6, <2>7 DEF r
<1>12. PendingIsUntold' /\ ToldIsRecorded'
  <2>1. /\ (recorded + 1) - m = recorded - n + removed
        /\ jj = IF j > removed THEN j - removed ELSE 0
    BY <1>1, <1>3, <1>6
  <2> DEFINE base == recorded - n
  <2>2. base \in Nat /\ base + n = recorded
    BY <1>1
  <2> HIDE DEF n, j, m, jj, base
  <2>3. ASSUME NEW x \in PendingNow' PROVE x \notin told
    <3>1. x \in PendingNow \/ x = recorded + 1
      BY <1>1, <1>3, <1>9, <1>11, <2>1, <2>2 DEF base
    <3> QED  BY <1>1, <3>1 DEF PendingIsUntold, ToldIsRecorded
  <2>4. ASSUME NEW x \in NumbersAfter(kept, 0), x \notin PendingNow'
        PROVE  x \in NumbersAfter(errors.entries, 0) /\ x \notin PendingNow
    BY <1>1, <1>3, <1>9, <1>11, <2>1, <2>2, <2>4 DEF base
  <2>5. errors'.entries = kept
    BY <1>4
  <2>6. ToldIsRecorded'
    BY <1>1, <1>5 DEF ToldIsRecorded
  <2> QED  BY <1>5, <2>3, <2>4, <2>5, <2>6 DEF PendingIsUntold
<1>14. ReflectionTypeOK'
  <2>2. errors'.seen \subseteq Hashes
    <3>1. \A k \in DOMAIN kept : kept[k] \in Entry
      BY <1>6
    <3>2. errors.seen \subseteq Hashes
      BY DEF ReflectionTypeOK
    <3> QED  BY <1>4, <3>1, <3>2 DEF ToSet, Entry
  <2>3. errors'.entries \in Seq([id : 1..MaxErrors, hash : Hashes]) /\ errors'.injected \in Nat
    BY <1>4, <1>6, <1>7 DEF Entry
  <2>4. recorded' \in 0..MaxErrors
    BY <1>1, <1>5
  <2> QED  BY <1>5, <2>2, <2>3, <2>4 DEF ReflectionTypeOK, sliceVars
<1>15. LoadsAreFresh' /\ StaleOnlyByRace'
  BY <1>5 DEF LoadsAreFresh, StaleOnlyByRace, sliceVars
<1> QED  BY <1>10, <1>12, <1>14, <1>15

LEMMA PendingErrorsStep == ReflectionInv /\ PendingErrors => ReflectionInv'
<1> SUFFICES ASSUME ReflectionInv, PendingErrors PROVE ReflectionInv'
  OBVIOUS
<1> USE DEF ReflectionInv
<1> DEFINE n == Len(errors.entries)
           j == errors.injected
           listed == NumbersAfter(errors.entries, 0)
<1>1. /\ errors' = [errors EXCEPT !.injected = n] /\ UNCHANGED <<recorded, sliceVars>>
      /\ told' = told \cup NumbersAfter(errors.entries, FirstTold)
  BY DEF PendingErrors
<1>2. /\ n \in Nat /\ j \in 0..n /\ recorded \in 0..MaxErrors /\ n <= recorded
      /\ MaxReminder \in Nat \ {0} /\ Numbered(errors.entries, recorded)
  BY ReflectionAssumption DEF ReflectionTypeOK, EntriesAreTheLast, Numbered
<1>3. /\ FirstTold \in 0..n /\ j <= FirstTold
      /\ FirstTold # j => FirstTold = n - MaxReminder
  BY <1>2 DEF FirstTold
<1>4. /\ NumbersAfter(errors.entries, FirstTold) = (recorded - n + FirstTold + 1)..recorded
      /\ PendingNow = (recorded - n + j + 1)..recorded
      /\ listed = (recorded - n + 1)..recorded
  BY <1>2, <1>3, NumbersAreAnInterval, ListedNumbers
<1>5. errors'.entries = errors.entries /\ errors'.injected = n /\ errors'.seen = errors.seen
  BY <1>1 DEF ReflectionTypeOK
<1>6. PendingNow' = {}
  BY <1>2, <1>5 DEF PendingNow, NumbersAfter
<1>7. told' \subseteq 1..recorded
  BY <1>1, <1>2, <1>3, <1>4 DEF ToldIsRecorded
<1>8. ASSUME NEW x \in listed, x \notin told'
      PROVE  \E m \in told' : m >= x + MaxReminder /\ (m - MaxReminder + 1)..m \subseteq told'
  <2>1. CASE x \in PendingNow
    <3> HIDE DEF n, j, listed
    <3>1. /\ recorded >= x + MaxReminder /\ FirstTold = n - MaxReminder
      BY <1>1, <1>2, <1>3, <1>4, <1>8, <2>1
    <3>2. (recorded - MaxReminder + 1)..recorded \subseteq told' /\ recorded \in told'
      BY <1>1, <1>2, <1>3, <1>4, <3>1
    <3> QED  BY <3>1, <3>2
  <2>2. CASE x \notin PendingNow
    BY <1>1, <1>8, <2>2 DEF PendingIsUntold
  <2> QED  BY <2>1, <2>2
<1>9. PendingIsUntold' /\ ToldIsRecorded'
  BY <1>1, <1>5, <1>6, <1>7, <1>8 DEF PendingIsUntold, ToldIsRecorded
<1>10. EntriesAreTheLast'
  BY <1>1, <1>2, <1>5 DEF EntriesAreTheLast, Numbered
<1>11. ReflectionTypeOK'
  <2>1. told' \subseteq 1..MaxErrors
    BY <1>2, <1>7, ReflectionAssumption
  <2> HIDE DEF n
  <2> QED  BY <1>1, <1>2, <1>5, <2>1 DEF ReflectionTypeOK, sliceVars
<1>12. LoadsAreFresh' /\ StaleOnlyByRace'
  BY <1>1 DEF LoadsAreFresh, StaleOnlyByRace, sliceVars
<1> QED  BY <1>9, <1>10, <1>11, <1>12

(* When a store of an agent comes back, a load that read before is late.       *)
LEMMA LateLoads ==
    ASSUME ReflectionInv, NEW a \in Reflectors, LoadsAreLate(a), UNCHANGED stored,
           \A b \in Reflectors : b # a => storing'[b] = storing[b]
    PROVE  /\ loading' \in [Loads -> [key : CacheKeys \cup {NoKey}, read : Slices \cup {Unset}, late : BOOLEAN]]
           /\ LoadsAreFresh'
<1>1. ASSUME NEW l \in Loads
      PROVE  /\ loading'[l] \in [key : CacheKeys \cup {NoKey}, read : Slices \cup {Unset}, late : BOOLEAN]
             /\ loading'[l].key = loading[l].key /\ loading'[l].read = loading[l].read
             /\ loading'[l].late = (loading[l].late \/ (loading[l].read # Unset /\ loading[l].key[1] = a))
  BY DEF ReflectionInv, ReflectionTypeOK, LoadsAreLate
<1>2. ASSUME NEW l \in Loads, loading[l].read # Unset
      PROVE  loading[l].key # NoKey /\ loading[l].key[1] \in Reflectors
  BY <1>2 DEF ReflectionInv, ReflectionTypeOK, LoadsAreFresh, CacheKeys
<1>3. LoadsAreFresh'
  BY <1>1, <1>2 DEF ReflectionInv, LoadsAreFresh
<1> QED  BY <1>1, <1>3 DEF LoadsAreLate

LEMMA ReflectionInvStep == ReflectionInv /\ [ReflectionNext]_reflectionVars => ReflectionInv'
<1> SUFFICES ASSUME ReflectionInv, [ReflectionNext]_reflectionVars PROVE ReflectionInv'
  OBVIOUS
<1> USE DEF ReflectionInv
<1>1. ASSUME NEW hash \in Hashes, NEW dedupe \in BOOLEAN, AddError(hash, dedupe)
      PROVE  ReflectionInv'
  BY <1>1, AddErrorStep
<1>2. CASE PendingErrors
  BY <1>2, PendingErrorsStep
<1>3. CASE ForgetSession
  BY <1>3, ReflectionAssumption DEF ForgetSession, NoErrors, ReflectionTypeOK, EntriesAreTheLast,
     Numbered, ToldIsRecorded, PendingIsUntold, PendingNow, NumbersAfter, LoadsAreFresh,
     StaleOnlyByRace, sliceVars
<1>4. ASSUME UNCHANGED errorVars
      PROVE  EntriesAreTheLast' /\ ToldIsRecorded' /\ PendingIsUntold'
  BY <1>4 DEF errorVars, EntriesAreTheLast, ToldIsRecorded, PendingIsUntold, PendingNow
<1>5. ASSUME NEW l \in Loads, NEW k \in CacheKeys, StartLoad(l, k) PROVE ReflectionInv'
  BY <1>4, <1>5 DEF StartLoad, ReflectionTypeOK, LoadsAreFresh, StaleOnlyByRace, errorVars, NotLoading
<1>6. ASSUME NEW l \in Loads, ReadReflections(l) PROVE ReflectionInv'
  <2> DEFINE read == [own |-> stored[loading[l].key[1]], main |-> stored[Main]]
  <2>1. loading[l].key \in CacheKeys /\ loading[l].key[1] \in Reflectors
    BY <1>6 DEF ReadReflections, ReflectionTypeOK, CacheKeys
  <2>2. read \in Slices /\ read.own = stored[loading[l].key[1]]
    BY <2>1, ReflectionAssumption DEF ReflectionTypeOK, Slices
  <2>3. loading' = [loading EXCEPT ![l].read = read] /\ UNCHANGED <<errorVars, stored, slices, storing, excused>>
    BY <1>6 DEF ReadReflections
  <2> HIDE DEF read
  <2>4. loading' \in [Loads -> [key : CacheKeys \cup {NoKey}, read : Slices \cup {Unset}, late : BOOLEAN]]
    BY <2>2, <2>3 DEF ReflectionTypeOK
  <2>5. ReflectionTypeOK' /\ StaleOnlyByRace'
    BY <2>3, <2>4 DEF ReflectionTypeOK, StaleOnlyByRace, errorVars
  <2>6. /\ loading'[l].key = loading[l].key /\ loading'[l].read = read
        /\ \A x \in Loads : x # l => loading'[x] = loading[x]
    BY <2>3 DEF ReflectionTypeOK
  <2>7. LoadsAreFresh'
    BY <1>6, <2>2, <2>3, <2>6 DEF LoadsAreFresh, ReadReflections
  <2> QED  BY <1>4, <2>3, <2>5, <2>7
<1>7. ASSUME NEW l \in Loads, SetSlices(l) PROVE ReflectionInv'
  <2> DEFINE key == loading[l].key
  <2>1. key \in CacheKeys
    BY <1>7 DEF SetSlices, ReflectionTypeOK, LoadsAreFresh
  <2>2. /\ slices' = [slices EXCEPT ![key] = loading[l].read]
        /\ excused' = IF loading[l].late THEN excused \cup {key} ELSE excused \ {key}
        /\ loading' = [loading EXCEPT ![l] = NotLoading]
        /\ loading[l].read # Unset /\ UNCHANGED <<errorVars, stored, storing>>
    BY <1>7 DEF SetSlices
  <2> HIDE DEF key
  <2>3. ReflectionTypeOK' /\ LoadsAreFresh'
    BY <2>1, <2>2 DEF ReflectionTypeOK, LoadsAreFresh, errorVars, NotLoading
  <2>4. slices'[key] = loading[l].read /\ \A k \in CacheKeys \ {key} : slices'[k] = slices[k]
    BY <2>1, <2>2 DEF ReflectionTypeOK
  <2>5. StaleOnlyByRace'
    BY <2>1, <2>2, <2>4 DEF StaleOnlyByRace, LoadsAreFresh, key
  <2> QED  BY <1>4, <2>2, <2>3, <2>5
<1>8. ASSUME NEW l \in Loads, LoadFails(l) PROVE ReflectionInv'
  BY <1>4, <1>8 DEF LoadFails, ReflectionTypeOK, LoadsAreFresh, StaleOnlyByRace, errorVars, NotLoading
<1>9. ASSUME NEW a \in Reflectors, StoreReflection(a) PROVE ReflectionInv'
  <2>1. /\ \A b \in Reflectors : b # a => stored'[b] = stored[b] /\ storing'[b] = storing[b]
        /\ storing'[a] # 0
    BY <1>9 DEF StoreReflection, ReflectionTypeOK
  <2>2. ReflectionTypeOK'
    BY <1>9, ReflectionAssumption DEF StoreReflection, ReflectionTypeOK, errorVars
  <2>3. \A l \in Loads : loading[l].read # Unset => loading[l].key[1] \in Reflectors
    BY DEF LoadsAreFresh, ReflectionTypeOK, CacheKeys
  <2>4. LoadsAreFresh' /\ StaleOnlyByRace'
    BY <1>9, <2>1, <2>3 DEF StoreReflection, LoadsAreFresh, StaleOnlyByRace, CacheKeys
  <2> QED  BY <1>4, <1>9, <2>2, <2>4 DEF StoreReflection
<1>10. ASSUME NEW a \in Reflectors, InvalidateAgent(a) PROVE ReflectionInv'
  <2>1. storing' = [storing EXCEPT ![a] = storing[a] - 1] /\ LoadsAreLate(a) /\ storing[a] > 0
        /\ slices' = [k \in CacheKeys |-> IF k[1] = a THEN Unset ELSE slices[k]]
        /\ excused' = excused \ KeysOf(a) /\ UNCHANGED <<errorVars, stored>>
    BY <1>10 DEF InvalidateAgent, KeysOf
  <2>2. storing' \in [Reflectors -> Nat] /\ \A b \in Reflectors : b # a => storing'[b] = storing[b]
    BY <2>1 DEF ReflectionTypeOK
  <2>3. LoadsAreFresh' /\ loading' \in [Loads -> [key : CacheKeys \cup {NoKey}, read : Slices \cup {Unset}, late : BOOLEAN]]
    BY <2>1, <2>2, LateLoads
  <2>4. ReflectionTypeOK'
    BY <2>1, <2>2, <2>3 DEF ReflectionTypeOK, errorVars
  <2>5. StaleOnlyByRace'
    BY <2>1, <2>2 DEF StaleOnlyByRace, KeysOf, CacheKeys
  <2> QED  BY <1>4, <2>1, <2>3, <2>4, <2>5
<1>11. ASSUME NEW a \in Reflectors, StoreFails(a) PROVE ReflectionInv'
  <2>1. storing' = [storing EXCEPT ![a] = storing[a] - 1] /\ LoadsAreLate(a) /\ storing[a] > 0
        /\ excused' = excused \cup {k \in CacheKeys : k[1] = a /\ slices[k] # Unset}
        /\ UNCHANGED <<errorVars, stored, slices>>
    BY <1>11 DEF StoreFails
  <2>2. storing' \in [Reflectors -> Nat] /\ \A b \in Reflectors : b # a => storing'[b] = storing[b]
    BY <2>1 DEF ReflectionTypeOK
  <2>3. LoadsAreFresh' /\ loading' \in [Loads -> [key : CacheKeys \cup {NoKey}, read : Slices \cup {Unset}, late : BOOLEAN]]
    BY <2>1, <2>2, LateLoads
  <2>4. ReflectionTypeOK'
    BY <2>1, <2>2, <2>3 DEF ReflectionTypeOK, errorVars
  <2>5. StaleOnlyByRace'
    BY <2>1, <2>2 DEF StaleOnlyByRace, CacheKeys
  <2> QED  BY <1>4, <2>1, <2>3, <2>4, <2>5
<1>12. ASSUME NEW k \in CacheKeys, EvictSlices(k) PROVE ReflectionInv'
  BY <1>4, <1>12 DEF EvictSlices, ReflectionTypeOK, LoadsAreFresh, StaleOnlyByRace, errorVars
<1>13. CASE UNCHANGED reflectionVars
  BY <1>4, <1>13 DEF reflectionVars, errorVars, ReflectionTypeOK, LoadsAreFresh, StaleOnlyByRace
<1> QED
  BY <1>1, <1>2, <1>3, <1>5, <1>6, <1>7, <1>8, <1>9, <1>10, <1>11, <1>12, <1>13
  DEF ReflectionNext, ErrorsNext, SlicesNext

LEMMA ReflectionInvCorrect == ReflectionSpec => []ReflectionInv
BY ReflectionInvInit, ReflectionInvStep, PTL DEF ReflectionSpec

(* However errors are recorded, told and forgotten, and however often the list *)
(* is cut, nothing pending was told before, and nothing goes untold unless a   *)
(* prompt was told of MaxReminder newer ones instead.                          *)
THEOREM PromptsTellTheUntold == ReflectionSpec => []PendingIsUntold
BY ReflectionInvCorrect, PTL DEF ReflectionInv

(* However loads, stores, failures and evictions interleave, an agent's own    *)
(* reflections are cached as they are stored, once no store of it is under     *)
(* way, except where a late load or a failed store left a value behind.        *)
THEOREM SlicesAreFresh == ReflectionSpec => []StaleOnlyByRace
BY ReflectionInvCorrect, PTL DEF ReflectionInv

-----------------------------------------------------------------------------
(* Auto-recall                                                                 *)

(* A state object is named by a prompt that has come, and prompts come in      *)
(* order.                                                                      *)
ObjectsAreMade ==
    /\ \A p \in Prompts : recall[p].pc = "idle" => recall[p] = NoRecall
    /\ \A p \in Prompts : recall[p].tracked # NoState => recall[recall[p].tracked].pc # "idle"
    /\ \A x \in Chats : sessionStates[x] # NoState => recall[sessionStates[x]].pc # "idle"
    /\ \A p, q \in Prompts : p < q /\ recall[q].pc # "idle" => recall[p].pc # "idle"

(* Later prompts of an object have later turns.                                *)
TurnsGrow ==
    /\ \A p \in Prompts : recall[p].tracked # NoState =>
           recall[p].currentTurn <= turn[recall[p].tracked]
    /\ \A p, q \in Prompts :
           p < q /\ recall[p].tracked # NoState /\ recall[p].tracked = recall[q].tracked
               => recall[p].currentTurn < recall[q].currentTurn

(* What was shown is in the object's history, at the turn it was shown or a    *)
(* later one.                                                                  *)
ShownIsRecorded ==
    MinRepeated > 0 =>
        \A p \in Prompts : recall[p].tracked # NoState =>
            \A m \in recall[p].shown : history[recall[p].tracked][m] >= recall[p].currentTurn

(* Two showings with one object are far enough apart.                          *)
ShowingsAreApart ==
    \A p, q \in Prompts :
        p < q /\ recall[p].tracked # NoState /\ recall[p].tracked = recall[q].tracked
              /\ recall[p].shown \cap recall[q].shown # {}
            => recall[q].currentTurn - recall[p].currentTurn >= MinRepeated

(* The prompts of one life of a session share an object, which is in the map   *)
(* while that life lasts, unless another life's object came back.              *)
OneObject(r) ==
    /\ r.life <= lives[r.chat]
    /\ r.life = lives[r.chat] /\ <<r.chat, r.life>> \notin outlived
           => sessionStates[r.chat] = r.tracked

SameLife(r, s) == r.chat = s.chat /\ r.life = s.life /\ <<r.chat, r.life>> \notin outlived

LivesShareObjects ==
    /\ \A p \in Prompts : recall[p].chat # NoChat <=> recall[p].tracked # NoState
    /\ \A p \in Prompts : recall[p].chat # NoChat => OneObject(recall[p])
    /\ \A p, q \in Prompts : recall[p].chat # NoChat /\ SameLife(recall[p], recall[q])
                              => recall[p].tracked = recall[q].tracked
    /\ \A x \in Chats, l \in Nat : <<x, l>> \in outlived => l <= lives[x]

RecallInv == RecallTypeOK /\ ObjectsAreMade /\ TurnsGrow /\ ShownIsRecorded
             /\ ShowingsAreApart /\ LivesShareObjects

LEMMA RecallInvInit == RecallInit => RecallInv
BY RecallAssumption
DEF RecallInit, RecallInv, RecallTypeOK, ObjectsAreMade, TurnsGrow, ShownIsRecorded, ShowingsAreApart,
    LivesShareObjects, OneObject, SameLife, NoRecall, NoState, Never, Prompts

LEMMA RecallInvStep == RecallInv /\ [RecallNext]_recallVars => RecallInv'
<1> SUFFICES ASSUME RecallInv, [RecallNext]_recallVars PROVE RecallInv'
  OBVIOUS
<1> USE RecallAssumption
<1>1. RecallTypeOK /\ ObjectsAreMade /\ TurnsGrow /\ ShownIsRecorded /\ ShowingsAreApart /\ LivesShareObjects
  BY DEF RecallInv
<1>2. ASSUME NEW p \in Prompts, NEW x \in Chats, BeforePromptBuild(p, x) PROVE RecallInv'
  <2> DEFINE object == IF sessionStates[x] = NoState THEN p ELSE sessionStates[x]
             r == [NoRecall EXCEPT !.pc = "retrieving", !.chat = x, !.tracked = object,
                                   !.currentTurn = turn[object] + 1, !.life = lives[x]]
  <2>1. object \in Prompts /\ object # NoState /\ p \in Nat
    BY <1>1 DEF RecallTypeOK, Prompts, NoState
  <2>2. /\ r.pc = "retrieving" /\ r.chat = x /\ r.tracked = object /\ r.shown = {}
        /\ r.currentTurn = turn[object] + 1 /\ r.life = lives[x] /\ r.currentTurn \in Nat
        /\ r \in [pc : {"idle", "retrieving", "done", "timed_out"}, chat : Chats \cup {NoChat},
                  tracked : Prompts \cup {NoState}, currentTurn : Nat, life : Nat, shown : SUBSET Memories]
    <3> HIDE DEF object
    <3>1. turn[object] + 1 \in Nat
      BY <1>1, <2>1 DEF RecallTypeOK
    <3>2. lives[x] \in Nat
      BY <1>1 DEF RecallTypeOK
    <3> QED  BY <2>1, <3>1, <3>2 DEF NoRecall
  <2> HIDE DEF r
  <2>3. /\ recall[p].pc = "idle" /\ recall[p] = NoRecall
        /\ turn' = [turn EXCEPT ![object] = @ + 1]
        /\ sessionStates' = [sessionStates EXCEPT ![x] = object]
        /\ recall' = [recall EXCEPT ![p] = r]
        /\ UNCHANGED <<history, lives, outlived>>
    BY <1>1, <1>2 DEF BeforePromptBuild, NextPrompt, ObjectsAreMade, r
  <2>4. \A q \in Prompts : q # p /\ recall[q].pc # "idle" => q < p
    BY <1>1, <2>3 DEF ObjectsAreMade, Prompts
  <2>5. \A q \in 1..(p - 1) : recall[q].pc # "idle"
    BY <1>2 DEF BeforePromptBuild, NextPrompt
  <2>6. recall'[p] = r /\ \A q \in Prompts : q # p => recall'[q] = recall[q]
    BY <1>1, <2>3 DEF RecallTypeOK
  <2>7. turn'[object] = turn[object] + 1 /\ \A o \in Prompts : o # object => turn'[o] = turn[o]
    BY <1>1, <2>1, <2>3 DEF RecallTypeOK
  <2>8. sessionStates'[x] = object /\ \A y \in Chats : y # x => sessionStates'[y] = sessionStates[y]
    BY <1>1, <2>3 DEF RecallTypeOK
  <2> HIDE DEF object
  <2>9. RecallTypeOK'
    BY <1>1, <2>1, <2>2, <2>3 DEF RecallTypeOK
  <2>10. ObjectsAreMade'
    <3>1. object = p \/ recall[object].pc # "idle"
      BY <1>1 DEF ObjectsAreMade, object
    <3>2. \A q \in Prompts : recall[q].pc # "idle" => recall'[q].pc # "idle"
      BY <2>2, <2>6
    <3>3. \A q \in Prompts : recall'[q].pc = "idle" => recall'[q] = NoRecall
      BY <1>1, <2>2, <2>6 DEF ObjectsAreMade
    <3>4. \A q \in Prompts : recall'[q].tracked # NoState => recall'[recall'[q].tracked].pc # "idle"
      <4>1. recall'[object].pc # "idle"
        BY <2>1, <2>2, <2>6, <3>1, <3>2
      <4>2. ASSUME NEW q \in Prompts, recall[q].tracked # NoState PROVE recall'[recall[q].tracked].pc # "idle"
        <5>1. recall[q].tracked \in Prompts /\ recall[recall[q].tracked].pc # "idle"
          BY <1>1, <4>2 DEF ObjectsAreMade, RecallTypeOK
        <5> QED  BY <3>2, <5>1
      <4> QED  BY <2>2, <2>6, <4>1, <4>2
    <3>5. \A y \in Chats : sessionStates'[y] # NoState => recall'[sessionStates'[y]].pc # "idle"
      <4>1. recall'[object].pc # "idle"
        BY <2>1, <2>2, <2>6, <3>1, <3>2
      <4>2. ASSUME NEW y \in Chats, sessionStates[y] # NoState PROVE recall'[sessionStates[y]].pc # "idle"
        <5>1. sessionStates[y] \in Prompts /\ recall[sessionStates[y]].pc # "idle"
          BY <1>1, <4>2 DEF ObjectsAreMade, RecallTypeOK
        <5> QED  BY <3>2, <5>1
      <4> QED  BY <2>8, <4>1, <4>2
    <3>6. \A q, s \in Prompts : q < s /\ recall'[s].pc # "idle" => recall'[q].pc # "idle"
      BY <1>1, <2>2, <2>4, <2>5, <2>6 DEF ObjectsAreMade, Prompts
    <3> QED  BY <3>3, <3>4, <3>5, <3>6 DEF ObjectsAreMade
  <2>11. \A q \in Prompts : recall[q].tracked # NoState => q # p /\ q < p
    BY <1>1, <2>3, <2>4 DEF ObjectsAreMade, NoRecall
  <2>12. \A q \in Prompts : recall[q].tracked # NoState => recall[q].currentTurn <= turn'[recall[q].tracked]
    <3> TAKE q \in Prompts
    <3>1. recall[q].tracked \in Prompts \cup {NoState} /\ recall[q].currentTurn \in Nat
          /\ \A o \in Prompts : turn[o] \in Nat
      BY <1>1 DEF RecallTypeOK
    <3>2. recall[q].tracked # NoState => recall[q].currentTurn <= turn[recall[q].tracked]
      BY <1>1 DEF TurnsGrow
    <3> QED  BY <2>7, <3>1, <3>2
  <2>13. \A q \in Prompts : recall[q].tracked = object => recall[q].currentTurn < r.currentTurn
    <3>1. turn[object] \in Nat /\ \A q \in Prompts : recall[q].currentTurn \in Nat
      BY <1>1, <2>1 DEF RecallTypeOK
    <3>2. \A q \in Prompts : recall[q].tracked = object => recall[q].currentTurn <= turn[object]
      BY <1>1, <2>1 DEF TurnsGrow
    <3> QED  BY <2>2, <3>1, <3>2
  <2>14. TurnsGrow'
    <3>1. \A q \in Prompts : recall'[q].tracked # NoState => recall'[q].currentTurn <= turn'[recall'[q].tracked]
      BY <2>2, <2>6, <2>7, <2>12
    <3>2. \A q, s \in Prompts :
              q < s /\ recall'[q].tracked # NoState /\ recall'[q].tracked = recall'[s].tracked
                  => recall'[q].currentTurn < recall'[s].currentTurn
      BY <1>1, <2>2, <2>6, <2>11, <2>13 DEF TurnsGrow, Prompts
    <3> QED  BY <3>1, <3>2 DEF TurnsGrow
  <2>15. ShownIsRecorded' /\ ShowingsAreApart'
    BY <1>1, <2>2, <2>3, <2>6 DEF ShownIsRecorded, ShowingsAreApart
  <2>16. LivesShareObjects'
    <3>1. recall[p].chat = NoChat /\ x # NoChat
      BY <2>3 DEF NoRecall
    <3>2. \A q \in Prompts :
              recall[q].chat = x /\ recall[q].life = lives[x] /\ <<x, lives[x]>> \notin outlived
                  => recall[q].tracked = object
      BY <1>1, <3>1 DEF LivesShareObjects, OneObject, SameLife, object
    <3>3. \A q \in Prompts : recall'[q].chat # NoChat =>
              /\ recall'[q].tracked # NoState
              /\ recall'[q].life <= lives[recall'[q].chat]
              /\ recall'[q].life = lives[recall'[q].chat] /\ <<recall'[q].chat, recall'[q].life>> \notin outlived
                    => sessionStates'[recall'[q].chat] = recall'[q].tracked
      <4> TAKE q \in Prompts
      <4>1. CASE q = p
        BY <1>1, <2>1, <2>2, <2>6, <2>8, <4>1 DEF RecallTypeOK
      <4>2. CASE q # p /\ recall[q].chat = x
        BY <1>1, <2>6, <2>8, <3>1, <3>2, <4>2 DEF LivesShareObjects, OneObject, SameLife
      <4>3. CASE q # p /\ recall[q].chat # x
        BY <1>1, <2>6, <2>8, <4>3 DEF LivesShareObjects, OneObject, SameLife, RecallTypeOK
      <4> QED  BY <4>1, <4>2, <4>3
    <3>4. \A q, s \in Prompts :
              recall'[q].chat # NoChat /\ SameLife(recall'[q], recall'[s])
                 => recall'[q].tracked = recall'[s].tracked
      BY <1>1, <2>2, <2>6, <3>2 DEF LivesShareObjects, OneObject, SameLife
    <3>5. \A q \in Prompts : recall'[q].chat # NoChat <=> recall'[q].tracked # NoState
      BY <1>1, <2>1, <2>2, <2>6, <3>1 DEF LivesShareObjects
    <3>6. \A y \in Chats, l \in Nat : <<y, l>> \in outlived' => l <= lives'[y]
      BY <1>1, <2>3 DEF LivesShareObjects
    <3>7. \A q \in Prompts : recall'[q].chat # NoChat => OneObject(recall[q])'
      BY <2>3, <3>3 DEF OneObject
    <3>8. \A q, s \in Prompts : recall'[q].chat # NoChat /\ SameLife(recall[q], recall[s])'
              => recall'[q].tracked = recall'[s].tracked
      BY <2>3, <3>4 DEF SameLife
    <3> QED  BY <3>5, <3>6, <3>7, <3>8 DEF LivesShareObjects
  <2> QED  BY <2>9, <2>10, <2>14, <2>15, <2>16 DEF RecallInv
<1>3. ASSUME NEW p \in Prompts, BeforePromptBuildUntracked(p) PROVE RecallInv'
  <2> DEFINE r == [NoRecall EXCEPT !.pc = "retrieving", !.currentTurn = 1]
  <2>1. /\ r.pc = "retrieving" /\ r.chat = NoChat /\ r.tracked = NoState /\ r.shown = {}
        /\ r \in [pc : {"idle", "retrieving", "done", "timed_out"}, chat : Chats \cup {NoChat},
                  tracked : Prompts \cup {NoState}, currentTurn : Nat, life : Nat, shown : SUBSET Memories]
    BY DEF NoRecall
  <2> HIDE DEF r
  <2>2. /\ recall[p].pc = "idle" /\ recall' = [recall EXCEPT ![p] = r]
        /\ UNCHANGED <<sessionStates, turn, history, lives, outlived>>
        /\ \A q \in 1..(p - 1) : recall[q].pc # "idle"
    BY <1>3 DEF BeforePromptBuildUntracked, NextPrompt, r
  <2>3. recall'[p] = r /\ \A q \in Prompts : q # p => recall'[q] = recall[q]
    BY <1>1, <2>2 DEF RecallTypeOK
  <2>4. RecallTypeOK'
    BY <1>1, <2>1, <2>2 DEF RecallTypeOK
  <2>5. \A q \in Prompts : recall[q].pc # "idle" => recall'[q].pc # "idle"
    BY <2>1, <2>3
  <2>6. ObjectsAreMade'
    <3>1. \A q \in Prompts : recall'[q].tracked # NoState => recall'[recall'[q].tracked].pc # "idle"
      BY <1>1, <2>1, <2>3, <2>5 DEF ObjectsAreMade, RecallTypeOK
    <3>2. \A y \in Chats : sessionStates'[y] # NoState => recall'[sessionStates'[y]].pc # "idle"
      BY <1>1, <2>2, <2>5 DEF ObjectsAreMade, RecallTypeOK
    <3>3. \A q, s \in Prompts : q < s /\ recall'[s].pc # "idle" => recall'[q].pc # "idle"
      BY <1>1, <2>1, <2>2, <2>3 DEF ObjectsAreMade, Prompts
    <3> QED  BY <1>1, <2>1, <2>3, <3>1, <3>2, <3>3 DEF ObjectsAreMade
  <2>7. TurnsGrow'
    BY <1>1, <2>1, <2>2, <2>3 DEF TurnsGrow
  <2>8. ShownIsRecorded' /\ ShowingsAreApart'
    BY <1>1, <2>1, <2>2, <2>3 DEF ShownIsRecorded, ShowingsAreApart
  <2>9. LivesShareObjects'
    BY <1>1, <2>1, <2>2, <2>3 DEF LivesShareObjects, OneObject, SameLife
  <2> QED  BY <2>4, <2>6, <2>7, <2>8, <2>9 DEF RecallInv
<1>4. ASSUME NEW p \in Prompts, RecallWork(p) PROVE RecallInv'
  <2> DEFINE r == recall[p]
  <2>1. PICK selected \in SUBSET {m \in Memories : MayShow(r, m)} :
          /\ r.pc = "retrieving"
          /\ recall' = [recall EXCEPT ![p].pc = "done", ![p].shown = selected]
          /\ IF MinRepeated > 0 /\ r.tracked # NoState /\ selected # {}
             THEN /\ history' = [history EXCEPT ![r.tracked] =
                         [m \in Memories |-> IF m \in selected THEN r.currentTurn ELSE @[m]]]
                  /\ sessionStates' = [sessionStates EXCEPT ![r.chat] = r.tracked]
                  /\ outlived' = outlived \cup
                         IF sessionStates[r.chat] \in {NoState, r.tracked} THEN {}
                         ELSE {<<r.chat, lives[r.chat]>>}
             ELSE UNCHANGED <<history, sessionStates, outlived>>
          /\ UNCHANGED <<turn, lives>>
    BY <1>4 DEF RecallWork
  <2>2. /\ recall'[p].pc = "done" /\ recall'[p].shown = selected /\ recall'[p].chat = r.chat
        /\ recall'[p].tracked = r.tracked /\ recall'[p].currentTurn = r.currentTurn
        /\ recall'[p].life = r.life
        /\ \A q \in Prompts : q # p => recall'[q] = recall[q]
    BY <1>1, <2>1 DEF RecallTypeOK
  <2>3. r.tracked \in Prompts \cup {NoState} /\ r.chat \in Chats \cup {NoChat} /\ r.currentTurn \in Nat
        /\ (\A q \in Prompts : recall[q].currentTurn \in Nat /\ recall[q].tracked \in Prompts \cup {NoState}
                               /\ recall[q].shown \subseteq Memories)
        /\ (\A o \in Prompts, m \in Memories : history[o][m] \in Int)
        /\ (\A y \in Chats : lives[y] \in 0..MaxEnds)
    BY <1>1 DEF RecallTypeOK, Never
  <2>4. r.tracked # NoState => r.chat \in Chats
    BY <1>1, <2>1, <2>3 DEF LivesShareObjects, OneObject, SameLife
  <2>5. RecallTypeOK'
    <3>1. recall' \in [Prompts ->
           [pc : {"idle", "retrieving", "done", "timed_out"}, chat : Chats \cup {NoChat},
            tracked : Prompts \cup {NoState}, currentTurn : Nat, life : Nat,
            shown : SUBSET Memories]]
      <4>1. selected \in SUBSET Memories
        OBVIOUS
      <4>2. [recall[p] EXCEPT !.pc = "done", !.shown = selected] \in
               [pc : {"idle", "retrieving", "done", "timed_out"}, chat : Chats \cup {NoChat},
                tracked : Prompts \cup {NoState}, currentTurn : Nat, life : Nat, shown : SUBSET Memories]
        BY ZenonT(60), <1>1, <4>1 DEF RecallTypeOK
      <4>3. recall' = [recall EXCEPT ![p] = [recall[p] EXCEPT !.pc = "done", !.shown = selected]]
        BY <1>1, <2>1 DEF RecallTypeOK
      <4> QED  BY <1>1, <4>2, <4>3 DEF RecallTypeOK
    <3>2. history' \in [Prompts -> [Memories -> Nat \cup {Never}]]
      BY SMTT(30), <1>1, <2>1, <2>3 DEF RecallTypeOK
    <3>3. sessionStates' \in [Chats -> Prompts \cup {NoState}]
      BY <1>1, <2>1, <2>3 DEF RecallTypeOK
    <3>4. outlived' \subseteq Chats \X (0..MaxEnds)
      <4>1. CASE MinRepeated > 0 /\ r.tracked # NoState /\ selected # {}
        BY <1>1, <2>1, <2>3, <2>4, <4>1 DEF RecallTypeOK
      <4> QED  BY <1>1, <2>1, <4>1 DEF RecallTypeOK
    <3> QED  BY <1>1, <2>1, <3>1, <3>2, <3>3, <3>4 DEF RecallTypeOK
  <2>6. \A q \in Prompts : /\ recall'[q].tracked = recall[q].tracked
                           /\ recall'[q].currentTurn = recall[q].currentTurn
                           /\ recall'[q].chat = recall[q].chat /\ recall'[q].life = recall[q].life
                           /\ recall'[q].pc = "idle" <=> recall[q].pc = "idle"
                           /\ q # p => recall'[q] = recall[q]
    BY <2>1, <2>2
  <2>7. ObjectsAreMade'
    <3>1. \A y \in Chats : sessionStates'[y] # NoState => recall[sessionStates'[y]].pc # "idle"
      BY <1>1, <2>1, <2>3, <2>4 DEF ObjectsAreMade, RecallTypeOK
    <3>2. \A q \in Prompts : recall'[q].pc = "idle" => recall'[q] = NoRecall
      BY ZenonT(60), <1>1, <2>1, <2>2, <2>6 DEF ObjectsAreMade
    <3>3. \A q \in Prompts : recall'[q].tracked # NoState => recall'[recall'[q].tracked].pc # "idle"
      <4> SUFFICES ASSUME NEW q \in Prompts, recall[q].tracked # NoState
                   PROVE  recall'[recall[q].tracked].pc # "idle"
        BY <2>6
      <4>1. recall[q].tracked \in Prompts /\ recall[recall[q].tracked].pc # "idle"
        BY <1>1, <2>3 DEF ObjectsAreMade
      <4> QED  BY <2>6, <4>1
    <3>4. \A y \in Chats : sessionStates'[y] # NoState => recall'[sessionStates'[y]].pc # "idle"
      <4> SUFFICES ASSUME NEW y \in Chats, sessionStates'[y] # NoState
                   PROVE  recall'[sessionStates'[y]].pc # "idle"
        OBVIOUS
      <4>1. sessionStates'[y] \in Prompts
        BY <2>5 DEF RecallTypeOK
      <4> QED  BY <2>6, <3>1, <4>1
    <3>5. \A q, s \in Prompts : q < s /\ recall'[s].pc # "idle" => recall'[q].pc # "idle"
      BY <1>1, <2>6 DEF ObjectsAreMade
    <3> QED  BY <3>2, <3>3, <3>4, <3>5 DEF ObjectsAreMade
  <2>8. TurnsGrow'
    BY ZenonT(60), <1>1, <2>1, <2>6 DEF TurnsGrow
  <2>9. ASSUME MinRepeated > 0, r.tracked # NoState
        PROVE  /\ \A m \in selected : history'[r.tracked][m] = r.currentTurn
               /\ \A m \in selected : r.currentTurn - history[r.tracked][m] >= MinRepeated
               /\ \A o \in Prompts, m \in Memories :
                      o # r.tracked \/ m \notin selected => history'[o][m] = history[o][m]
    <3>1. \A m \in selected : ~Redundant(history[r.tracked][m], r.currentTurn)
      BY <2>9 DEF MayShow
    <3>2. \A m \in selected : r.currentTurn - history[r.tracked][m] >= MinRepeated
      BY <2>3, <2>9, <3>1 DEF Redundant
    <3>3. \A m \in selected : history'[r.tracked][m] = r.currentTurn
      BY <1>1, <2>1, <2>3, <2>9 DEF RecallTypeOK
    <3>4. \A o \in Prompts, m \in Memories :
              o # r.tracked \/ m \notin selected => history'[o][m] = history[o][m]
      BY <1>1, <2>1, <2>3, <2>9 DEF RecallTypeOK
    <3> QED  BY <3>2, <3>3, <3>4
  <2>10. ShownIsRecorded'
    <3> SUFFICES ASSUME MinRepeated > 0, NEW q \in Prompts, recall[q].tracked # NoState,
                        NEW m \in recall'[q].shown
                 PROVE  history'[recall[q].tracked][m] >= recall[q].currentTurn
      BY <2>6 DEF ShownIsRecorded
    <3>1. CASE q = p
      BY <2>2, <2>3, <2>9, <3>1
    <3>2. CASE q # p
      <4>1. m \in Memories /\ history[recall[q].tracked][m] >= recall[q].currentTurn
        BY <1>1, <2>3, <2>6, <3>2 DEF ShownIsRecorded
      <4>2. CASE r.tracked # NoState
        BY <2>3, <2>9, <4>1, <4>2
      <4>3. CASE r.tracked = NoState
        BY <2>1, <4>1, <4>3
      <4> QED  BY <4>2, <4>3
    <3> QED  BY <3>1, <3>2
  <2>11. ShowingsAreApart'
    <3> SUFFICES ASSUME NEW q \in Prompts, NEW s \in Prompts, q < s, recall[q].tracked # NoState,
                        recall[q].tracked = recall[s].tracked,
                        NEW m \in Memories, m \in recall'[q].shown, m \in recall'[s].shown
                 PROVE  recall[s].currentTurn - recall[q].currentTurn >= MinRepeated
      <4>1. \A q \in Prompts : recall'[q].shown \subseteq Memories
        BY <2>5 DEF RecallTypeOK
      <4> QED  BY <2>6, <4>1 DEF ShowingsAreApart
    <3>1. recall[q].currentTurn < recall[s].currentTurn
      BY <1>1 DEF TurnsGrow
    <3>2. CASE MinRepeated = 0
      BY <2>3, <3>1, <3>2
    <3>3. CASE MinRepeated > 0 /\ q # p /\ s # p
      BY <1>1, <2>6, <3>3 DEF ShowingsAreApart
    <3>4. CASE MinRepeated > 0 /\ s = p
      <4>1. m \in selected /\ m \in recall[q].shown
        BY <2>2, <2>6, <3>4, <3>1, <2>3
      <4>2. history[r.tracked][m] >= recall[q].currentTurn
        BY <1>1, <3>4, <4>1 DEF ShownIsRecorded
      <4>3. r.currentTurn - history[r.tracked][m] >= MinRepeated
        BY <2>9, <3>4, <4>1
      <4> QED  BY <2>3, <3>4, <4>2, <4>3
    <3>5. CASE MinRepeated > 0 /\ q = p
      <4>1. m \in selected /\ m \in recall[s].shown
        BY <2>2, <2>6, <3>5, <3>1, <2>3
      <4>2. history[r.tracked][m] >= recall[s].currentTurn
        BY <1>1, <3>5, <4>1 DEF ShownIsRecorded
      <4>3. r.currentTurn - history[r.tracked][m] >= MinRepeated
        BY <2>9, <3>5, <4>1
      <4> QED  BY <2>3, <3>1, <3>5, <4>2, <4>3
    <3> QED  BY <3>2, <3>3, <3>4, <3>5
  <2>12. LivesShareObjects'
    <3>1. outlived \subseteq outlived'
      BY <2>1
    <3>2. \A y \in Chats : <<y, lives[y]>> \notin outlived' /\ sessionStates[y] # NoState
              => sessionStates'[y] = sessionStates[y]
      BY <1>1, <2>1, <2>3, <2>4 DEF RecallTypeOK
    <3>3. \A q \in Prompts : recall[q].chat # NoChat =>
              /\ recall[q].tracked # NoState
              /\ recall[q].life <= lives[recall[q].chat]
              /\ recall[q].life = lives[recall[q].chat] /\ <<recall[q].chat, recall[q].life>> \notin outlived'
                    => sessionStates'[recall[q].chat] = recall[q].tracked
      BY <1>1, <3>1, <3>2 DEF LivesShareObjects, OneObject, SameLife, RecallTypeOK
    <3>4. \A y \in Chats, l \in Nat : <<y, l>> \in outlived' => l <= lives[y]
      BY <1>1, <2>1, <2>3 DEF LivesShareObjects, OneObject, SameLife
    <3>5. \A q \in Prompts : recall'[q].chat # NoChat <=> recall'[q].tracked # NoState
      BY <1>1, <2>6 DEF LivesShareObjects
    <3>6. \A q \in Prompts : recall'[q].chat # NoChat => OneObject(recall[q])'
      <4> TAKE q \in Prompts
      <4>1. /\ recall'[q].tracked = recall[q].tracked /\ recall'[q].chat = recall[q].chat
            /\ recall'[q].life = recall[q].life /\ lives' = lives
        BY <2>1, <2>6
      <4> QED  BY <3>3, <4>1 DEF OneObject
    <3>7. \A q, s \in Prompts : recall'[q].chat # NoChat /\ SameLife(recall[q], recall[s])'
              => recall'[q].tracked = recall'[s].tracked
      BY <1>1, <2>6, <3>1 DEF LivesShareObjects, SameLife
    <3>8. \A y \in Chats, l \in Nat : <<y, l>> \in outlived' => l <= lives'[y]
      BY <2>1, <3>4
    <3> QED  BY <3>5, <3>6, <3>7, <3>8 DEF LivesShareObjects
  <2> QED  BY <2>5, <2>7, <2>8, <2>10, <2>11, <2>12 DEF RecallInv
<1>5. ASSUME NEW p \in Prompts, RecallTimeout(p) PROVE RecallInv'
  <2>1. /\ recall[p].pc = "retrieving" /\ recall' = [recall EXCEPT ![p].pc = "timed_out"]
        /\ UNCHANGED <<sessionStates, turn, history, lives, outlived>>
    BY <1>5 DEF RecallTimeout
  <2>2. \A q \in Prompts : /\ recall'[q].tracked = recall[q].tracked
                           /\ recall'[q].currentTurn = recall[q].currentTurn
                           /\ recall'[q].chat = recall[q].chat /\ recall'[q].life = recall[q].life
                           /\ recall'[q].shown = recall[q].shown
                           /\ recall'[q].pc = "idle" <=> recall[q].pc = "idle"
                           /\ q # p => recall'[q] = recall[q]
    BY <1>1, <2>1 DEF RecallTypeOK
  <2>3. RecallTypeOK'
    BY ZenonT(60), <1>1, <2>1 DEF RecallTypeOK
  <2>4. ObjectsAreMade'
    BY <1>1, <2>1, <2>2 DEF ObjectsAreMade, RecallTypeOK
  <2>5. TurnsGrow' /\ ShownIsRecorded' /\ ShowingsAreApart'
    BY <1>1, <2>1, <2>2 DEF TurnsGrow, ShownIsRecorded, ShowingsAreApart
  <2>6. LivesShareObjects'
    BY <1>1, <2>1, <2>2 DEF LivesShareObjects, OneObject, SameLife
  <2> QED  BY <2>3, <2>4, <2>5, <2>6 DEF RecallInv
<1>6. ASSUME NEW x \in Chats, DropState(x) PROVE RecallInv'
  <2>1. /\ lives[x] < MaxEnds /\ sessionStates' = [sessionStates EXCEPT ![x] = NoState]
        /\ lives' = [lives EXCEPT ![x] = @ + 1] /\ UNCHANGED <<turn, history, recall, outlived>>
    BY <1>6 DEF DropState
  <2>2. RecallTypeOK'
    BY <1>1, <2>1 DEF RecallTypeOK
  <2>3. lives[x] \in Nat /\ lives'[x] = lives[x] + 1 /\ \A y \in Chats : y # x => lives'[y] = lives[y]
    BY <1>1, <2>1 DEF RecallTypeOK
  <2>4. \A y \in Chats : y # x => sessionStates'[y] = sessionStates[y]
    BY <1>1, <2>1 DEF RecallTypeOK
  <2>5. ObjectsAreMade'
    BY <1>1, <2>1 DEF ObjectsAreMade, RecallTypeOK
  <2>6. TurnsGrow' /\ ShownIsRecorded' /\ ShowingsAreApart'
    BY <1>1, <2>1 DEF TurnsGrow, ShownIsRecorded, ShowingsAreApart
  <2>7. \A q \in Prompts : recall[q].chat # NoChat =>
              /\ recall[q].life <= lives'[recall[q].chat]
              /\ recall[q].life = lives'[recall[q].chat] /\ <<recall[q].chat, recall[q].life>> \notin outlived
                    => sessionStates'[recall[q].chat] = recall[q].tracked
    <3> SUFFICES ASSUME NEW q \in Prompts, recall[q].chat # NoChat
                 PROVE  /\ recall[q].life <= lives'[recall[q].chat]
                        /\ recall[q].life = lives'[recall[q].chat] /\ <<recall[q].chat, recall[q].life>> \notin outlived
                              => sessionStates'[recall[q].chat] = recall[q].tracked
      OBVIOUS
    <3>1. recall[q].chat \in Chats /\ recall[q].life \in Nat
      BY <1>1 DEF RecallTypeOK
    <3>2. recall[q].life <= lives[recall[q].chat]
      BY <1>1 DEF LivesShareObjects, OneObject, SameLife
    <3>3. CASE recall[q].chat = x
      BY <2>3, <3>1, <3>2, <3>3
    <3>4. CASE recall[q].chat # x
      BY <1>1, <2>3, <2>4, <3>1, <3>2, <3>4 DEF LivesShareObjects, OneObject, SameLife
    <3> QED  BY <3>3, <3>4
  <2>8. \A y \in Chats, l \in Nat : <<y, l>> \in outlived => l <= lives'[y]
    BY <1>1, <2>3 DEF LivesShareObjects, OneObject, SameLife, RecallTypeOK
  <2>9. LivesShareObjects'
    BY <1>1, <2>1, <2>7, <2>8 DEF LivesShareObjects, OneObject, SameLife
  <2> QED  BY <2>2, <2>5, <2>6, <2>9 DEF RecallInv
<1>7. CASE UNCHANGED recallVars
  BY <1>1, <1>7 DEF recallVars, RecallInv, RecallTypeOK, ObjectsAreMade, TurnsGrow, ShownIsRecorded,
     ShowingsAreApart, LivesShareObjects, OneObject, SameLife
<1> QED  BY <1>2, <1>3, <1>4, <1>5, <1>6, <1>7 DEF RecallNext

LEMMA RecallInvCorrect == RecallSpec => []RecallInv
BY RecallInvInit, RecallInvStep, PTL DEF RecallSpec

(* However the recalls of a session overlap, answer out of order or time out,  *)
(* no memory is shown again too soon within a life of the session, unless      *)
(* another life's object came back.                                            *)
THEOREM NothingIsShownAgainSoon == RecallSpec => []NotShownAgainSoon
<1>1. RecallInv => NotShownAgainSoon
  BY DEF RecallInv, LivesShareObjects, SameLife, ShowingsAreApart, NotShownAgainSoon
<1> QED  BY <1>1, RecallInvCorrect, PTL

===============================================================================
