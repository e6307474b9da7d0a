------------------------------- MODULE MCGateway -------------------------------
(* One run for what the gateway keeps in its processes and shares with none  *)
(* of the other parts here: the initial state chooses the writers of the     *)
(* memory store, the reflection state or auto-recall, and only that one      *)
(* moves.                                                                    *)
EXTENDS MCMemoryStore, ReflectionState, AutoRecall

VARIABLE part      \* what moves

gatewayVars == <<part, vars, reflectionVars, recallVars>>

GatewayInit ==
    /\ part \in {"store", "errors", "slices", "recall"}
    /\ Init /\ ReflectionInit /\ RecallInit

GatewayNext ==
    \/ part = "store" /\ Next /\ UNCHANGED <<part, reflectionVars, recallVars>>
    \/ part = "errors" /\ ErrorsNext /\ UNCHANGED <<part, vars, recallVars>>
    \/ part = "slices" /\ SlicesNext /\ UNCHANGED <<part, vars, recallVars>>
    \/ part = "recall" /\ RecallNext /\ UNCHANGED <<part, vars, reflectionVars>>

GatewaySpec == GatewayInit /\ [][GatewayNext]_gatewayVars

===============================================================================
