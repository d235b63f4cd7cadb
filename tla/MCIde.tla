-------------------------------- MODULE MCIde -------------------------------
(* Ide for TLC: the kernel thread m, processes p and q, and idle.          *)
EXTENDS Ide, TLC

CONSTANTS m, p, q, idle, a, b

MCThreads == {m, p, q, idle}
MCPriority == [t \in MCThreads |-> 0]
MCOrder == <<p, idle, q>>

DuoThreads == {m, p, idle}
DuoPriority == [t \in DuoThreads |-> 0]
DuoOrder == <<p, idle>>

\* the process moves two sectors at a time
DuoCounts == (m :> {1}) @@ (p :> {2})

SoloThreads == {p, idle}
SoloPriority == [t \in SoloThreads |-> 0]
SoloOrder == <<idle>>
SoloCounts == p :> {1}
=============================================================================
