-------------------------------- MODULE Mutex -------------------------------
(***************************************************************************)
(* What the reentrant locks of thread/sync.c promise: a lock has at most   *)
(* one owner, its owner may take it again, and it is free once the owner   *)
(* has given back every hold.                                              *)
(***************************************************************************)
EXTENDS Naturals

CONSTANTS Threads, Locks, NULL

VARIABLES owner, depth

Free(l) == owner[l] = NULL

Init ==
    /\ owner = [l \in Locks |-> NULL]
    /\ depth = [l \in Locks |-> 0]

Take(t, l) ==
    /\ Free(l)
    /\ owner' = [owner EXCEPT ![l] = t]
    /\ depth' = [depth EXCEPT ![l] = 1]

TakeAgain(t, l) ==
    /\ owner[l] = t
    /\ depth' = [depth EXCEPT ![l] = @ + 1]
    /\ UNCHANGED owner

GiveBack(t, l) ==
    /\ owner[l] = t /\ depth[l] > 1
    /\ depth' = [depth EXCEPT ![l] = @ - 1]
    /\ UNCHANGED owner

Leave(t, l) ==
    /\ owner[l] = t /\ depth[l] = 1
    /\ owner' = [owner EXCEPT ![l] = NULL]
    /\ depth' = [depth EXCEPT ![l] = 0]

Next ==
    \E t \in Threads, l \in Locks :
        Take(t, l) \/ TakeAgain(t, l) \/ GiveBack(t, l) \/ Leave(t, l)

Spec == Init /\ [][Next]_<<owner, depth>>
=============================================================================
