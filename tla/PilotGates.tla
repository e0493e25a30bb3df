----------------------------- MODULE PilotGates -----------------------------
(***************************************************************************)
(* What the operations of the pilot promise: gates in a row.  A gate is    *)
(* tried once; the next one is tried only after it is passed; a gate that  *)
(* is not passed stops the row for good.                                   *)
(***************************************************************************)
EXTENDS Naturals

CONSTANT Last      \* number of gates

VARIABLES
    passed,   \* how many gates are behind
    try       \* the attempt at the next one

gates == <<passed, try>>

Init == passed = 0 /\ try = "NONE"

Queue == /\ passed < Last /\ try = "NONE"
         /\ try' = "QUEUED" /\ UNCHANGED passed

Run == try = "QUEUED" /\ try' = "RUNNING" /\ UNCHANGED passed

Pass == try = "RUNNING" /\ try' = "NONE" /\ passed' = passed + 1

Stop == try = "RUNNING" /\ try' = "STOPPED" /\ UNCHANGED passed

Next == Queue \/ Run \/ Pass \/ Stop

Spec == Init /\ [][Next]_gates
=============================================================================
