----------------------------- MODULE MCDialogue -----------------------------
(* Dialogue on small instances: one configuration for what holds when      *)
(* handlers overlap, one for the answer that an interjection silences.     *)
(* To have the interesting company at a time and not all of it, some of    *)
(* the handlers never come: their pc is "done" from the start.             *)
EXTENDS Dialogue

CONSTANT Absent     \* sets of handlers: those of one of them never come

MCInit ==
    /\ Init /\ lastMsg = NoMsg
    /\ \E away \in Absent :
          h = [p \in Proc |-> IF p \in away THEN [Idle EXCEPT !.pc = "done"] ELSE Idle]

MCSpec == MCInit /\ [][DNext]_dvars
MCFairSpec == MCSpec /\ DFairness
=============================================================================
