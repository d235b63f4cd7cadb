------------------------------ MODULE MCProcess -----------------------------
(* Process for TLC: init, main, idle and three more PCBs.                  *)
EXTENDS Process, TLC

CONSTANTS init, main, idle, p1, p2, p3

MCThreads == {init, main, idle, p1, p2, p3}
MCPriority == [t \in MCThreads |-> 0]
Slots == Permutations({p1, p2, p3})
MCExitCodes == {0, 255}
=============================================================================
