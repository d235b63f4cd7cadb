-------------------------------- MODULE Fifo --------------------------------
(***************************************************************************)
(* What a queue of characters promises: bounded, first in first out,       *)
(* nothing lost and nothing invented once it is accepted. seen[r] is the   *)
(* last character handed to reader r.                                      *)
(***************************************************************************)
EXTENDS Naturals, Sequences

CONSTANTS Chars, Readers, Capacity, None

VARIABLES content, seen

Init == content = <<>> /\ seen = [r \in Readers |-> None]

Put(c) ==
    /\ Len(content) < Capacity
    /\ content' = Append(content, c)
    /\ UNCHANGED seen

Get(r) ==
    /\ content # <<>>
    /\ content' = Tail(content)
    /\ seen' = [seen EXCEPT ![r] = Head(content)]

Next == (\E c \in Chars : Put(c)) \/ (\E r \in Readers : Get(r))

Spec == Init /\ [][Next]_<<content, seen>>
=============================================================================
