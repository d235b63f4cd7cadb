------------------------------- MODULE Bitmap -------------------------------
(***************************************************************************)
(* lib/kernel/bitmap.c. A bitmap of n bits is the set of those of its bits *)
(* that are 1. The set may hold bit n as well, the first one past the end: *)
(* bitmap_scan() looks at it.                                              *)
(***************************************************************************)
EXTENDS Integers, FiniteSetsExt

bitmap_set(bits, i, value) == IF value = 1 THEN bits \cup {i} ELSE bits \ {i}

SetRange(bits, start, cnt) == bits \cup start..(start + cnt - 1)

ClearRange(bits, start, cnt) == bits \ (start..(start + cnt - 1))

\* Mutant of bitmap_scan: count goes on over a used bit.
ScanOverUsed(bits, n, cnt) ==
    LET free == (0..(n - 1)) \ bits
        first == Min(free)
    IN  IF free = {} THEN -1
        ELSE IF first + cnt - 1 <= n THEN first
        ELSE -1

\* The lowest free bit; for more than one bit, the first cnt free bits in a row from
\* there on. bit_left counts one test too many, so the loop tests bit n too.
bitmap_scan(bits, n, cnt) ==
    LET free == (0..(n - 1)) \ bits
        first == Min(free)
        count[i \in first..n] ==
            IF i = first THEN 1
            ELSE IF i \in bits THEN 0
            ELSE count[i - 1] + 1
        hits == {i \in (first + 1)..n : count[i] = cnt}
    IN  IF free = {} THEN -1
        ELSE IF cnt = 1 THEN first
        ELSE IF hits = {} THEN -1
        ELSE Min(hits) - cnt + 1

\* What bitmap_scan() promises: cnt free bits of the bitmap in a row, the first there are.
IsFirstFit(bits, n, cnt, start) ==
    LET starts == {i \in 0..(n - cnt) : (i..(i + cnt - 1)) \cap bits = {}}
    IN  IF starts = {} THEN start = -1 ELSE start = Min(starts)
=============================================================================
