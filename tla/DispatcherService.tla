-------------------------- MODULE DispatcherService --------------------------
(***************************************************************************)
(* What ConsumerDispatcher promises the code that feeds it, without rings,  *)
(* barriers or threads: an input is accepted only while fewer than          *)
(* SlotCount inputs are pending, and accepted inputs are completed one      *)
(* after the other, in the order of acceptance, each exactly once, with a   *)
(* result that says whether some consumer aborted it.                       *)
(***************************************************************************)
EXTENDS Integers, Sequences

CONSTANT SlotCount

VARIABLES
    running,      \* shutdown has not been called
    accepted,     \* number of inputs accepted, which is the id of the last
    completed     \* results handed to processingComplete, in order

vars == <<running, accepted, completed>>

Init ==
    /\ running = TRUE
    /\ accepted = 0
    /\ completed = <<>>

Accept ==
    /\ accepted - Len(completed) < SlotCount
    /\ accepted' = accepted + 1
    /\ UNCHANGED <<running, completed>>

Complete ==
    /\ Len(completed) < accepted
    /\ \E status \in {"Normal", "Aborted"} :
           completed' = Append(completed, [id |-> Len(completed) + 1, status |-> status])
    /\ UNCHANGED <<running, accepted>>

Stop ==
    /\ running
    /\ running' = FALSE
    /\ UNCHANGED <<accepted, completed>>

Next == Accept \/ Complete \/ Stop

(* Completion is promised only while the dispatcher runs: after shutdown    *)
(* the pending inputs may be abandoned.                                     *)
Spec == Init /\ [][Next]_vars

FairSpec == Spec /\ WF_vars(running /\ Complete)
=============================================================================
