------------------------------ MODULE AutoRecall ------------------------------
(***************************************************************************)
(* The hooks of auto-recall (auto-recall-hooks.ts): each prompt of a       *)
(* session raises its turn and recalls memories under a timeout; what was  *)
(* shown is remembered with its turn, so that it is not shown again too    *)
(* soon.  The state of a session is one object in a bounded map, which the *)
(* recalls of the session share and keep over their await.                 *)
(***************************************************************************)
EXTENDS Integers

CONSTANTS
    Chats,          \* session boundaries
    Memories,
    MinRepeated,    \* autoRecallMinRepeated: turns between two showings
    MaxPrompts,     \* bound: prompts are 1..MaxPrompts, in order
    MaxEnds,        \* bound: times the state of a session is dropped
    NoChat          \* a prompt whose session cannot be resolved

ASSUME RecallAssumption ==
    /\ MinRepeated \in Nat /\ MaxPrompts \in Nat /\ MaxEnds \in Nat
    /\ NoChat \notin Chats

Prompts == 1..MaxPrompts
NoState == 0        \* no entry; a state object is named by the prompt that made it
Never == -999       \* the turn of a memory that was not shown

VARIABLES
    sessionStates,  \* Chats -> the object in the map
    turn,           \* of each object
    history,        \* of each object: the turn each memory was shown at
    recall,         \* of each prompt: its recall
    lives,          \* history: how often each session's state was dropped
    outlived        \* history: <<session, life>> that got another life's object back

recallVars == <<sessionStates, turn, history, recall, lives, outlived>>

NoRecall == [pc |-> "idle", chat |-> NoChat, tracked |-> NoState, currentTurn |-> 0,
             life |-> 0, shown |-> {}]

RecallTypeOK ==
    /\ sessionStates \in [Chats -> Prompts \cup {NoState}]
    /\ turn \in [Prompts -> Nat]
    /\ history \in [Prompts -> [Memories -> Nat \cup {Never}]]
    /\ recall \in [Prompts ->
           [pc : {"idle", "retrieving", "done", "timed_out"}, chat : Chats \cup {NoChat},
            tracked : Prompts \cup {NoState}, currentTurn : Nat, life : Nat,
            shown : SUBSET Memories]]
    /\ lives \in [Chats -> 0..MaxEnds]
    /\ outlived \subseteq Chats \X (0..MaxEnds)

RecallInit ==
    /\ sessionStates = [x \in Chats |-> NoState]
    /\ turn = [o \in Prompts |-> 0]
    /\ history = [o \in Prompts |-> [m \in Memories |-> Never]]
    /\ recall = [p \in Prompts |-> NoRecall]
    /\ lives = [x \in Chats |-> 0]
    /\ outlived = {}

---------------------------------------------------------------------------
NextPrompt(p) == recall[p].pc = "idle" /\ \A q \in 1..(p - 1) : recall[q].pc # "idle"

(* before_prompt_build up to its await: take the session's state or make   *)
(* one, and raise its turn.                                                *)
BeforePromptBuild(p, x) ==
    LET object == IF sessionStates[x] = NoState THEN p ELSE sessionStates[x] IN
    /\ NextPrompt(p)
    /\ turn' = [turn EXCEPT ![object] = @ + 1]
    /\ sessionStates' = [sessionStates EXCEPT ![x] = object]
    /\ recall' = [recall EXCEPT ![p] = [NoRecall EXCEPT
           !.pc = "retrieving", !.chat = x, !.tracked = object,
           !.currentTurn = turn[object] + 1, !.life = lives[x]]]
    /\ UNCHANGED <<history, lives, outlived>>

(* The same without a session: nothing is tracked.                         *)
BeforePromptBuildUntracked(p) ==
    /\ NextPrompt(p)
    /\ recall' = [recall EXCEPT ![p] =
           [NoRecall EXCEPT !.pc = "retrieving", !.currentTurn = 1]]
    /\ UNCHANGED <<sessionStates, turn, history, lives, outlived>>

(* Mutant: a turn later than the prompt's own is taken for no showing.     *)
RedundantUnlessLater(lastTurn, currentTurn) ==
    lastTurn <= currentTurn /\ currentTurn - lastTurn < MinRepeated

(* Was the memory shown too recently?  Of two overlapping recalls the      *)
(* earlier prompt can ask after the later one has shown it.                *)
Redundant(lastTurn, currentTurn) == currentTurn - lastTurn < MinRepeated

MayShow(r, m) ==
    MinRepeated > 0 /\ r.tracked # NoState => ~Redundant(history[r.tracked][m], r.currentTurn)

(* The retrieval answers in time.  Filtering, selection, the record of     *)
(* what is shown and the showing are one synchronous step; the object goes *)
(* back into the map, whatever is there by now.  The filters of governance *)
(* and budget, or a retrieval that fails, leave any part of what may be    *)
(* shown.                                                                  *)
RecallWork(p) ==
    LET r == recall[p]
        records == MinRepeated > 0 /\ r.tracked # NoState IN
    /\ r.pc = "retrieving"
    /\ \E selected \in SUBSET {m \in Memories : MayShow(r, m)} :
         /\ recall' = [recall EXCEPT ![p].pc = "done", ![p].shown = selected]
         /\ IF records /\ selected # {}
            THEN /\ history' = [history EXCEPT ![r.tracked] =
                        [m \in Memories |-> IF m \in selected THEN r.currentTurn ELSE @[m]]]
                 /\ sessionStates' = [sessionStates EXCEPT ![r.chat] = r.tracked]
                 /\ outlived' = outlived \cup
                        IF sessionStates[r.chat] \in {NoState, r.tracked} THEN {}
                        ELSE {<<r.chat, lives[r.chat]>>}
            ELSE UNCHANGED <<history, sessionStates, outlived>>
    /\ UNCHANGED <<turn, lives>>

(* The timeout aborts: whatever the retrieval answers later, throwIfAborted *)
(* ends the recall before it reads or records anything.                     *)
RecallTimeout(p) ==
    /\ recall[p].pc = "retrieving"
    /\ recall' = [recall EXCEPT ![p].pc = "timed_out"]
    /\ UNCHANGED <<sessionStates, turn, history, lives, outlived>>

(* session_end, or the eviction of a state that is idle for too long or    *)
(* the oldest of too many.  Recalls in progress keep the object.           *)
DropState(x) ==
    /\ sessionStates[x] # NoState /\ lives[x] < MaxEnds
    /\ sessionStates' = [sessionStates EXCEPT ![x] = NoState]
    /\ lives' = [lives EXCEPT ![x] = @ + 1]
    /\ UNCHANGED <<turn, history, recall, outlived>>

RecallNext ==
    \/ \E p \in Prompts :
         \/ \E x \in Chats : BeforePromptBuild(p, x)
         \/ BeforePromptBuildUntracked(p)
         \/ RecallWork(p)
         \/ RecallTimeout(p)
    \/ \E x \in Chats : DropState(x)

RecallSpec == RecallInit /\ [][RecallNext]_recallVars

---------------------------------------------------------------------------
(* No memory is shown at two prompts of a session that are less than       *)
(* MinRepeated turns apart, however the session's recalls overlap, answer  *)
(* out of order or time out - as long as the session's state was not       *)
(* dropped between the prompts, and no recall from before such a drop came *)
(* back later and put its own object in the place of the new one.          *)
NotShownAgainSoon ==
    \A p, q \in Prompts : p < q =>
        LET r == recall[p]
            s == recall[q]
            sameLife == r.chat # NoChat /\ r.chat = s.chat /\ r.life = s.life IN
        r.shown \cap s.shown # {} /\ sameLife /\ <<r.chat, r.life>> \notin outlived
            => s.currentTurn - r.currentTurn >= MinRepeated

===============================================================================
