----------------------------- MODULE MCFrontier -----------------------------
(* Instances of Frontier for TLC: worker ids equal to the processes.       *)
EXTENDS Frontier, TLC

CONSTANTS p1, p2

MCProcess == {p1, p2}
MCWorkerOf == [p \in MCProcess |-> p]

=============================================================================
