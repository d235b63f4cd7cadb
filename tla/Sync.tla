-------------------------------- MODULE Sync --------------------------------
(***************************************************************************)
(* thread/sync.c: semaphores and reentrant locks on top of the scheduler.  *)
(* A semaphore operation touches the semaphore and the scheduler record    *)
(* together with interrupts masked, so it returns the pair [k, s].         *)
(***************************************************************************)
EXTENDS Thread

CONSTANT NULL

ASSUME SyncAssumption == NULL \notin Threads

SemaType == [value : Nat, waiters : Seq(Threads)]

LockType == [holder : Threads \cup {NULL}, repeat : Nat, sema : SemaType]

sema_init(v) == [value |-> v, waiters |-> <<>>]

lock_init == [holder |-> NULL, repeat |-> 0, sema |-> sema_init(1)]

\* The body of sema_down()'s while loop: the running thread queues up and
\* blocks. It comes back to the loop test when another thread wakes it.
sema_sleep(k, s) ==
    IF k.cur \in Range(s.waiters)
    THEN [k |-> Panic(k), s |-> s]
    ELSE [k |-> thread_block(k, "BLOCKED"),
          s |-> [s EXCEPT !.waiters = Append(@, k.cur)]]

\* sema_down() after its loop: value-- and ASSERT(value == 0).
sema_take(k, s) ==
    [k |-> IF s.value = 1 THEN k ELSE Panic(k),
     s |-> [s EXCEPT !.value = @ - 1]]

\* One pass of sema_down(): sleep on 0, else take.
sema_down(k, s) == IF s.value = 0 THEN sema_sleep(k, s) ELSE sema_take(k, s)

\* Mutant of sema_up: no waiter is woken.
SemaUpWakesNobody(k, s) == [k |-> k, s |-> [s EXCEPT !.value = 1]]

\* sema_up(): the longest waiter becomes READY, but the value is raised, not
\* handed over: any thread may take it before the woken one runs.
sema_up(k, s) ==
    IF s.value # 0 THEN [k |-> Panic(k), s |-> s]
    ELSE IF s.waiters = <<>> THEN [k |-> k, s |-> [s EXCEPT !.value = 1]]
    ELSE [k |-> thread_unblock(k, Head(s.waiters)),
          s |-> [value |-> 1, waiters |-> Tail(s.waiters)]]

-----------------------------------------------------------------------------
(***************************************************************************)
(* The lock operations of a caller that has the interrupts masked all the  *)
(* time (a system call, an interrupt handler): no step can come between    *)
(* their statements. They return [k, l]. Module Locks has the callers that *)
(* can be interrupted.                                                     *)
(***************************************************************************)

\* One pass of lock_acquire(): the caller owns the lock, or sleeps in sema_down().
lock_acquire(k, l) ==
    IF l.holder = k.cur THEN [k |-> k, l |-> [l EXCEPT !.repeat = @ + 1]]
    ELSE LET r == sema_down(k, l.sema)
         IN  IF l.sema.value = 0 THEN [k |-> r.k, l |-> [l EXCEPT !.sema = r.s]]
             ELSE [k |-> IF l.repeat = 0 THEN r.k ELSE Panic(r.k),
                   l |-> [holder |-> k.cur, repeat |-> 1, sema |-> r.s]]

lock_release(k, l) ==
    IF l.holder # k.cur \/ l.repeat = 0 THEN [k |-> Panic(k), l |-> l]
    ELSE IF l.repeat > 1 THEN [k |-> k, l |-> [l EXCEPT !.repeat = @ - 1]]
    ELSE LET r == sema_up(k, l.sema)
         IN  [k |-> r.k, l |-> [holder |-> NULL, repeat |-> 0, sema |-> r.s]]
=============================================================================
