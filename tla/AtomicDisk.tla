----------------------------- MODULE AtomicDisk -----------------------------
(***************************************************************************)
(* What a disk promises its users for one sector: a read or a write takes  *)
(* effect at one moment between its call and its return, on the sector it  *)
(* was called for.                                                         *)
(***************************************************************************)
EXTENDS Naturals, Sequences

CONSTANTS Users, Sectors, Values

VARIABLES disk,  \* the sectors
          op,    \* "read" or "write" from the call to the effect, else "none"
          lba,   \* the sector of each user's operation
          buf    \* each user's buffer

vars == <<disk, op, lba, buf>>

Init ==
    /\ disk \in [Sectors -> Values]
    /\ op = [t \in Users |-> "none"]
    /\ lba = [t \in Users |-> 0]
    /\ buf = [t \in Users |-> <<>>]

Call(t, o, s, b) ==
    /\ op[t] = "none"
    /\ op' = [op EXCEPT ![t] = o]
    /\ lba' = [lba EXCEPT ![t] = s]
    /\ buf' = [buf EXCEPT ![t] = b]
    /\ UNCHANGED disk

Read(t) ==
    /\ op[t] = "read"
    /\ buf' = [buf EXCEPT ![t] = <<disk[lba[t]]>>]
    /\ op' = [op EXCEPT ![t] = "none"]
    /\ UNCHANGED <<disk, lba>>

Write(t) ==
    /\ op[t] = "write"
    /\ disk' = [disk EXCEPT ![lba[t]] = buf[t][1]]
    /\ op' = [op EXCEPT ![t] = "none"]
    /\ UNCHANGED <<lba, buf>>

\* the caller goes on
Return(t) ==
    /\ op[t] = "none"
    /\ lba' = [lba EXCEPT ![t] = 0]
    /\ buf' = [buf EXCEPT ![t] = <<>>]
    /\ UNCHANGED <<disk, op>>

Next == \E t \in Users :
    \/ Read(t) \/ Write(t) \/ Return(t)
    \/ \E s \in Sectors :
          \/ Call(t, "read", s, <<>>)
          \/ \E v \in Values : Call(t, "write", s, <<v>>)

Spec == Init /\ [][Next]_vars
=============================================================================
