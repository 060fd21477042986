------------------------ MODULE DiscoveryInterpretedRun ------------------------
(***************************************************************************)
(* All that DiscoveryCoordinator sees of the interpretation of a run, from *)
(* the claim of the run to its end: one flag that says whether a queue is  *)
(* open, callbacks and ticks that set it, and who ends the run by it.      *)
(***************************************************************************)
EXTENDS Integers

VARIABLES
    status,   \* of the scheduled_job row
    open,     \* whether an interpretation queue is open
    provider  \* whether the last feed has completed

vars == <<status, open, provider>>

Init ==
    /\ status = "running"
    /\ ~ open
    /\ ~ provider

\* CallbackProgress: observations may open a queue, and close none.
Progress ==
    /\ status = "running"
    /\ open' \in BOOLEAN
    /\ open => open'
    /\ UNCHANGED <<status, provider>>

\* CallbackCompletion, of the last feed or of another one.
Completion(last) ==
    /\ status = "running"
    /\ provider' = (provider \/ last)
    /\ status' = IF last /\ ~ open THEN "completed" ELSE "running"
    /\ UNCHANGED open

\* InterpretationSettles: a tick leaves a queue open or it does not, and its cost
\* receipt could be stored or not.
Settles(left, receipt) ==
    /\ status \in {"running", "cancel_requested"}
    /\ open' = left
    /\ status' = IF left THEN status
                 ELSE IF status = "cancel_requested" THEN "cancelled"
                 ELSE IF receipt /\ provider THEN "completed" ELSE status
    /\ UNCHANGED provider

\* CancelRun and Pause.
Stop ==
    /\ status = "running"
    /\ status' = "cancel_requested"
    /\ UNCHANGED <<open, provider>>

\* The deadline, or CallbackCancelled.
End ==
    /\ \/ status \in {"running", "cancel_requested"} /\ status' = "failed"
       \/ status = "cancel_requested" /\ status' = "cancelled"
    /\ UNCHANGED <<open, provider>>

Next ==
    \/ Progress
    \/ \E last \in BOOLEAN : Completion(last)
    \/ \E left \in BOOLEAN, receipt \in BOOLEAN : Settles(left, receipt)
    \/ Stop
    \/ End

Spec == Init /\ [][Next]_vars
================================================================================
