--------------------------- MODULE ReflectionState ---------------------------
(***************************************************************************)
(* The state reflection keeps in the gateway (reflection-runtime-state.ts):*)
(* the tool errors of a session, a bounded list with the count of those    *)
(* that need not be told any more, and the cache of what each agent reads  *)
(* of the stored reflections, filled after an awaited read of the store    *)
(* and dropped when a reflection of that agent is stored.  An agent reads  *)
(* its own reflections and those of "main" or of nobody.                   *)
(***************************************************************************)
EXTENDS Naturals, Sequences, SequencesExt

CONSTANTS
    Hashes,        \* signatures of tool errors
    MaxEntries,    \* 30 in the code: errors kept for a session
    MaxReminder,   \* errorReminderMaxEntries: errors one prompt is told of
    MaxErrors,     \* bound: errors recorded in a behaviour
    Reflectors,    \* agents that reflect
    Main,          \* the one whose reflections, and nobody's, all agents read
    Filters,       \* scope filters they read under
    Loads,         \* calls of loadAgentSlices in progress at the same time
    MaxStored,     \* bound: versions 1..MaxStored of reflections, of all owners
    NoKey          \* a load that is not running

ASSUME ReflectionAssumption ==
    /\ MaxEntries \in Nat \ {0} /\ MaxReminder \in Nat \ {0}
    /\ MaxErrors \in Nat /\ MaxStored \in Nat \ {0}
    /\ Main \in Reflectors /\ NoKey \notin Reflectors \X Filters

CacheKeys == Reflectors \X Filters

(* What a read of the store returns, a version for each of the two owners. *)
Slices == [own : 1..MaxStored, main : 1..MaxStored]
Unset == [own |-> 0, main |-> 0]

VARIABLES
    errors,      \* ErrorState: entries, lastInjectedCount, signatureSet
    recorded,    \* errors recorded so far, which numbers them
    told,        \* numbers of the errors some prompt has been told of
    stored,      \* version of each owner's reflections in the store
    slices,      \* #agentSlices: what is cached under each key
    loading,     \* Loads -> the key it loads, what it has read, and whether
                 \* a store of the agent came back after that read
    storing,     \* stores of each agent whose calls have not all come back
    excused      \* keys whose cached value no drop has reached

reflectionVars == <<errors, recorded, told, stored, slices, loading, storing, excused>>
errorVars == <<errors, recorded, told>>
sliceVars == <<stored, slices, loading, storing, excused>>

NoErrors == [entries |-> <<>>, injected |-> 0, seen |-> {}]
NotLoading == [key |-> NoKey, read |-> Unset, late |-> FALSE]

ReflectionTypeOK ==
    /\ errors.entries \in Seq([id : 1..MaxErrors, hash : Hashes])
    /\ errors.injected \in Nat /\ errors.seen \subseteq Hashes
    /\ recorded \in 0..MaxErrors /\ told \subseteq 1..MaxErrors
    /\ stored \in [Reflectors -> 1..MaxStored]
    /\ slices \in [CacheKeys -> Slices \cup {Unset}]
    /\ loading \in [Loads -> [key : CacheKeys \cup {NoKey}, read : Slices \cup {Unset}, late : BOOLEAN]]
    /\ storing \in [Reflectors -> Nat] /\ excused \subseteq CacheKeys

---------------------------------------------------------------------------
(* Mutant: the count stays when the list is cut. *)
InjectedUnmoved(injected, removed) == injected

(* addError.  The oldest entries go beyond MaxEntries, and the count of    *)
(* those already counted as told moves with them.                          *)
InjectedAfter(injected, removed) == IF injected > removed THEN injected - removed ELSE 0

AddError(hash, dedupe) ==
    /\ recorded < MaxErrors
    /\ ~(dedupe /\ hash \in errors.seen)
    /\ LET all == Append(errors.entries, [id |-> recorded + 1, hash |-> hash])
           removed == IF Len(all) > MaxEntries THEN Len(all) - MaxEntries ELSE 0
           kept == SubSeq(all, removed + 1, Len(all))
       IN errors' = [entries |-> kept,
                     injected |-> InjectedAfter(errors.injected, removed),
                     seen |-> IF removed = 0 THEN errors.seen \cup {hash}
                              ELSE {e.hash : e \in ToSet(kept)}]
    /\ recorded' = recorded + 1
    /\ UNCHANGED <<told, sliceVars>>

(* The numbers of the entries behind the j-th. *)
NumbersAfter(entries, j) == {entries[k].id : k \in (j + 1)..Len(entries)}

PendingNow == NumbersAfter(errors.entries, errors.injected)

(* pending.slice(-maxEntries): of the pending entries a prompt is told of  *)
(* the last MaxReminder.                                                   *)
FirstTold ==
    IF Len(errors.entries) - errors.injected > MaxReminder
    THEN Len(errors.entries) - MaxReminder ELSE errors.injected

PendingErrors ==
    /\ PendingNow # {}
    /\ errors' = [errors EXCEPT !.injected = Len(errors.entries)]
    /\ told' = told \cup NumbersAfter(errors.entries, FirstTold)
    /\ UNCHANGED <<recorded, sliceVars>>

(* clearSession, the session's time to live, too many sessions.            *)
ForgetSession ==
    /\ errors # NoErrors
    /\ errors' = NoErrors
    /\ UNCHANGED <<recorded, told, sliceVars>>

---------------------------------------------------------------------------
(* loadAgentSlices: a cached value, or an awaited read, then the set.      *)
StartLoad(l, k) ==
    /\ loading[l] = NotLoading
    /\ slices[k] = Unset
    /\ loading' = [loading EXCEPT ![l] = [NotLoading EXCEPT !.key = k]]
    /\ UNCHANGED <<errorVars, stored, slices, storing, excused>>

(* isOwnedByAgent: the agent's own reflections, and those of main or nobody. *)
ReadReflections(l) ==
    /\ loading[l].key # NoKey /\ loading[l].read = Unset
    /\ loading' = [loading EXCEPT ![l].read = [own |-> stored[loading[l].key[1]], main |-> stored[Main]]]
    /\ UNCHANGED <<errorVars, stored, slices, storing, excused>>

SetSlices(l) ==
    LET k == loading[l].key IN
    /\ loading[l].read # Unset
    /\ slices' = [slices EXCEPT ![k] = loading[l].read]
    /\ excused' = IF loading[l].late THEN excused \cup {k} ELSE excused \ {k}
    /\ loading' = [loading EXCEPT ![l] = NotLoading]
    /\ UNCHANGED <<errorVars, stored, storing>>

(* The read throws; the hook goes on without the slices.                   *)
LoadFails(l) ==
    /\ loading[l].key # NoKey
    /\ loading' = [loading EXCEPT ![l] = NotLoading]
    /\ UNCHANGED <<errorVars, stored, slices, storing, excused>>

(* A reflection of the agent is stored, in several awaited calls; when they *)
(* have all come back the cache is dropped, and not when one has thrown.    *)
(* Versions count the stores of all owners.                                 *)
StoreReflection(a) ==
    /\ \E v \in 2..MaxStored :
          /\ \A b \in Reflectors : stored[b] < v
          /\ \E b \in Reflectors : stored[b] = v - 1
          /\ stored' = [stored EXCEPT ![a] = v]
    /\ storing' = [storing EXCEPT ![a] = @ + 1]
    /\ UNCHANGED <<errorVars, slices, loading, excused>>

(* Mutant: only the key of one scope filter is dropped. *)
KeysOfOneFilter(a) == {k \in CacheKeys : k[1] = a /\ k[2] = CHOOSE f \in Filters : TRUE}

(* invalidateAgent drops the agent's keys of every filter, and those only, *)
(* although the others' values hold what they read of main's reflections.  *)
KeysOf(a) == {k \in CacheKeys : k[1] = a}

(* The loads of the agent that have read and not yet set are late now.     *)
LoadsAreLate(a) ==
    loading' = [l \in Loads |-> [loading[l] EXCEPT
        !.late = @ \/ (loading[l].read # Unset /\ loading[l].key[1] = a)]]

InvalidateAgent(a) ==
    /\ storing[a] > 0
    /\ storing' = [storing EXCEPT ![a] = @ - 1]
    /\ slices' = [k \in CacheKeys |-> IF k \in KeysOf(a) THEN Unset ELSE slices[k]]
    /\ excused' = excused \ KeysOf(a)
    /\ LoadsAreLate(a)
    /\ UNCHANGED <<errorVars, stored>>

StoreFails(a) ==
    /\ storing[a] > 0
    /\ storing' = [storing EXCEPT ![a] = @ - 1]
    /\ excused' = excused \cup {k \in CacheKeys : k[1] = a /\ slices[k] # Unset}
    /\ LoadsAreLate(a)
    /\ UNCHANGED <<errorVars, stored, slices>>

(* The time to live of a cached value, and the limit of the cache.         *)
EvictSlices(k) ==
    /\ slices[k] # Unset
    /\ slices' = [slices EXCEPT ![k] = Unset]
    /\ excused' = excused \ {k}
    /\ UNCHANGED <<errorVars, stored, loading, storing>>

ReflectionInit ==
    /\ errors = NoErrors /\ recorded = 0 /\ told = {}
    /\ stored = [a \in Reflectors |-> 1] /\ slices = [k \in CacheKeys |-> Unset]
    /\ loading = [l \in Loads |-> NotLoading] /\ excused = {}
    /\ storing = [a \in Reflectors |-> 0]

ErrorsNext ==
    \/ \E hash \in Hashes, dedupe \in BOOLEAN : AddError(hash, dedupe)
    \/ PendingErrors \/ ForgetSession

SlicesNext ==
    \/ \E l \in Loads : \/ \E k \in CacheKeys : StartLoad(l, k)
                        \/ ReadReflections(l) \/ SetSlices(l) \/ LoadFails(l)
    \/ \E a \in Reflectors : StoreReflection(a) \/ InvalidateAgent(a) \/ StoreFails(a)
    \/ \E k \in CacheKeys : EvictSlices(k)

ReflectionNext == ErrorsNext \/ SlicesNext

ReflectionSpec == ReflectionInit /\ [][ReflectionNext]_reflectionVars

---------------------------------------------------------------------------
(* Between two prompts the list may drop its oldest entries, and a prompt  *)
(* is told of no more than MaxReminder.  What is pending has been told to  *)
(* no prompt, and an error of the list that is pending no more was told or *)
(* stood behind MaxReminder newer errors that all were.                    *)
PendingIsUntold ==
    /\ PendingNow \cap told = {}
    /\ \A n \in NumbersAfter(errors.entries, 0) \ (PendingNow \cup told) :
          \E m \in told : m >= n + MaxReminder /\ (m - MaxReminder + 1)..m \subseteq told

(* While no store of an agent is under way, what its keys hold of its own  *)
(* reflections is what is stored: an older value stays only until the next *)
(* load, drop or expiry of its key, where a load that had read before the  *)
(* drop set it afterwards, or a store that failed half way never dropped   *)
(* it.  Of main's reflections, which the other agents' values hold too, it *)
(* says this for main's own keys alone.                                    *)
StaleOnlyByRace ==
    \A k \in CacheKeys :
        slices[k] # Unset /\ storing[k[1]] = 0 /\ k \notin excused =>
            slices[k].own = stored[k[1]]

===============================================================================
