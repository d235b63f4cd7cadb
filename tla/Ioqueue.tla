------------------------------- MODULE Ioqueue ------------------------------
(***************************************************************************)
(* device/ioqueue.c: the circular buffer behind the keyboard and the       *)
(* pipes, as operators on a record q. Every caller has the interrupts      *)
(* masked, so an operator is what happens up to the next thread_block();   *)
(* it returns the scheduler and the queue, [k, q].                         *)
(***************************************************************************)
EXTENDS Sync

CONSTANTS BufSize,  \* bufsize
          Chars     \* what a byte of buf can hold

ASSUME IoqueueAssumption == BufSize \in Nat /\ BufSize >= 2

IoqType == [lock : LockType,
            producer : Threads \cup {NULL}, consumer : Threads \cup {NULL},
            buf : [0..BufSize-1 -> Chars \cup {NULL}],
            head : 0..BufSize-1, tail : 0..BufSize-1]

ioqueue_init == [lock |-> lock_init, producer |-> NULL, consumer |-> NULL,
                 buf |-> [i \in 0..BufSize-1 |-> NULL], head |-> 0, tail |-> 0]

next_pos(pos) == (pos + 1) % BufSize

\* Mutant of ioq_full: misses the full queue at the end of the buffer.
FullWithoutWrap(q) == q.head + 1 = q.tail

ioq_full(q) == next_pos(q.head) = q.tail

ioq_empty(q) == q.head = q.tail

ioq_length(q) ==
    IF q.head >= q.tail THEN q.head - q.tail ELSE q.head + BufSize - q.tail

\* who is "producer" or "consumer"
ioq_wait(k, q, who) ==
    IF q[who] # NULL THEN [k |-> Panic(k), q |-> q]
    ELSE [k |-> thread_block(k, "BLOCKED"), q |-> [q EXCEPT ![who] = k.cur]]

\* Mutant of ioq_wake: the waiter is not reset to NULL.
WakeKeepsWaiter(k, q, who) ==
    IF q[who] = NULL THEN [k |-> k, q |-> q] ELSE [k |-> thread_unblock(k, q[who]), q |-> q]

ioq_wake(k, q, who) ==
    IF q[who] = NULL THEN [k |-> k, q |-> q]
    ELSE [k |-> thread_unblock(k, q[who]), q |-> [q EXCEPT ![who] = NULL]]

\* The body of the while loop of ioq_getchar() and ioq_putchar() up to the point
\* where the thread sleeps: on the lock, or, as its owner, in ioq_wait(). The loop
\* test is not repeated between the two.
GetsLock(q) == q.lock.sema.value # 0

WaitReady(k, q, who) ==
    LET a == lock_acquire(k, q.lock)
        b == [q EXCEPT !.lock = a.l]
    IN  IF GetsLock(q) THEN ioq_wait(a.k, b, who) ELSE [k |-> a.k, q |-> b]

\* the end of the loop's body, after ioq_wait() returned
EndWait(k, q) ==
    LET r == lock_release(k, q.lock) IN [k |-> r.k, q |-> [q EXCEPT !.lock = r.l]]

\* ioq_getchar() and ioq_putchar() after their loop
FirstChar(q) == q.buf[q.tail]

\* Mutant of TakeChar: no producer is woken.
TakeSilently(k, q) == [k |-> k, q |-> [q EXCEPT !.tail = next_pos(@)]]

TakeChar(k, q) == ioq_wake(k, [q EXCEPT !.tail = next_pos(@)], "producer")

\* Mutant of StoreChar: no consumer is woken.
StoreSilently(k, q, c) ==
    [k |-> k, q |-> [q EXCEPT !.buf[q.head] = c, !.head = next_pos(@)]]

StoreChar(k, q, c) ==
    ioq_wake(k, [q EXCEPT !.buf[q.head] = c, !.head = next_pos(@)], "consumer")

\* The chars in the queue, the oldest first.
Content(q) == [i \in 1..ioq_length(q) |-> q.buf[(q.tail + i - 1) % BufSize]]
=============================================================================
