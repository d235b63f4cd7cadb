--------------------------------- MODULE Pipe -------------------------------
(***************************************************************************)
(* shell/pipe.c: pipe_read() and pipe_write() of processes that share one  *)
(* pipe. Both run as system calls with the interrupts masked; a writer can *)
(* sleep in ioq_putchar().                                                 *)
(*                                                                         *)
(* pc[t]: "user", "put" in the loop of pipe_write(), "get" in the loop of  *)
(* pipe_read(), "lock" and "wait" asleep in ioq_putchar(); "idle", "hlt".  *)
(***************************************************************************)
EXTENDS Ioqueue

CONSTANTS Writers, Readers,  \* the processes at the two ends
          Counts,            \* the count arguments of read() and write()
          BootOrder, First   \* thread_ready_list and the running thread

ASSUME PipeAssumption ==
    /\ Writers \cup Readers \subseteq Threads \ {Idle} /\ First \in Threads \ {Idle}
    /\ Counts \subseteq Nat \ {0}
    /\ BootOrder \in Seq(Threads) /\ NoDup(BootOrder)
    /\ Range(BootOrder) = Threads \ {First}

VARIABLES sched,  \* the scheduler record of module Thread
          ioq,    \* the queue in the page fd_inode points to
          pc,     \* where each thread is
          left,   \* bytes the running read() or write() still moves
          out,    \* the next byte of each writer's buffer
          got     \* the last byte each reader was given

vars == <<sched, ioq, pc, left, out, got>>

Init ==
    /\ sched = [status |-> [t \in Threads |-> IF t = First THEN "RUNNING" ELSE "READY"],
                ready  |-> BootOrder, cur |-> First, ticks |-> Priority, panic |-> FALSE]
    /\ ioq = ioqueue_init
    /\ pc = [t \in Threads |-> IF t = Idle THEN "idle" ELSE "user"]
    /\ left = [t \in Threads |-> 0]
    /\ out \in [Writers -> Chars]
    /\ got = [r \in Readers |-> NULL]

MIN(a, b) == IF a < b THEN a ELSE b

Running(t, label) == sched.cur = t /\ ~sched.panic /\ pc[t] = label

-----------------------------------------------------------------------------
\* pipe_write() up to its loop
WriteSize(q, count) == MIN(count, BufSize - ioq_length(q))

pipe_write(t, count) ==
    /\ Running(t, "user")
    /\ left' = [left EXCEPT ![t] = WriteSize(ioq, count)]
    /\ pc' = [pc EXCEPT ![t] = "put"]
    /\ UNCHANGED <<sched, ioq, out, got>>

\* one ioq_putchar() that finds room
PutChar(t) ==
    /\ Running(t, "put") /\ ~ioq_full(ioq)
    /\ LET r == StoreChar(sched, ioq, out[t]) IN sched' = r.k /\ ioq' = r.q
    /\ left' = [left EXCEPT ![t] = @ - 1]
    /\ \E c \in Chars : out' = [out EXCEPT ![t] = c]
    /\ pc' = [pc EXCEPT ![t] = IF left[t] = 1 THEN "user" ELSE "put"]
    /\ UNCHANGED got

\* the loop of ioq_putchar(): get the lock, then sleep until there is room
AwaitRoom(t) ==
    /\ (Running(t, "put") /\ ioq_full(ioq)) \/ Running(t, "lock")
    /\ LET r == WaitReady(sched, ioq, "producer") IN sched' = r.k /\ ioq' = r.q
    /\ pc' = [pc EXCEPT ![t] = IF GetsLock(ioq) THEN "wait" ELSE "lock"]
    /\ UNCHANGED <<left, out, got>>

RoomCame(t) ==
    /\ Running(t, "wait")
    /\ LET r == EndWait(sched, ioq) IN sched' = r.k /\ ioq' = r.q
    /\ pc' = [pc EXCEPT ![t] = "put"]
    /\ UNCHANGED <<left, out, got>>

-----------------------------------------------------------------------------

\* pipe_read() up to its loop; an empty pipe returns 0 at once
pipe_read(t, count) ==
    LET size == MIN(ioq_length(ioq), count)
    IN  /\ Running(t, "user") /\ size > 0
        /\ left' = [left EXCEPT ![t] = size]
        /\ pc' = [pc EXCEPT ![t] = "get"]
        /\ UNCHANGED <<sched, ioq, out, got>>

\* one ioq_getchar(); its own loop is not entered, since size is at most ioq_length() and
\* nobody else takes bytes
GetChar(t) ==
    /\ Running(t, "get") /\ ~ioq_empty(ioq)
    /\ got' = [got EXCEPT ![t] = FirstChar(ioq)]
    /\ LET r == TakeChar(sched, ioq) IN sched' = r.k /\ ioq' = r.q
    /\ left' = [left EXCEPT ![t] = @ - 1]
    /\ pc' = [pc EXCEPT ![t] = IF left[t] = 1 THEN "user" ELSE "get"]
    /\ UNCHANGED out

-----------------------------------------------------------------------------
IdleBlock ==
    /\ Running(Idle, "idle")
    /\ sched' = thread_block(sched, "BLOCKED")
    /\ pc' = [pc EXCEPT ![Idle] = "hlt"]
    /\ UNCHANGED <<ioq, left, out, got>>

Tick ==
    /\ ~sched.panic /\ pc[sched.cur] \in {"user", "idle", "hlt"}
    /\ sched' = intr_timer_handler(sched)
    /\ \/ pc' = pc
       \/ pc[sched.cur] = "hlt" /\ pc' = [pc EXCEPT ![Idle] = "idle"]
    /\ UNCHANGED <<ioq, left, out, got>>

Writing(t) == PutChar(t) \/ AwaitRoom(t) \/ RoomCame(t)

\* a reader that keeps reading
Reading(t) == GetChar(t) \/ \E n \in Counts : pipe_read(t, n)

Next ==
    \/ Tick \/ IdleBlock
    \/ \E t \in Writers : Writing(t) \/ \E n \in Counts : pipe_write(t, n)
    \/ \E t \in Readers : Reading(t)

Spec == Init /\ [][Next]_vars

(***************************************************************************)
(* Fairness: the timer request stays pending, the CPU executes a system    *)
(* call that has begun, and the program at the reading end keeps reading.  *)
(***************************************************************************)
FairSpec ==
    /\ Spec
    /\ SF_vars(Tick) /\ SF_vars(IdleBlock)
    /\ \A t \in Writers : WF_vars(Writing(t))
    /\ \A t \in Readers : SF_vars(Reading(t))

-----------------------------------------------------------------------------
(* Properties                                                              *)

\* every variable has the shape its C declaration gives it
TypeOK ==
    /\ sched \in SchedType
    /\ ioq \in IoqType
    /\ pc \in [Threads -> {"user", "put", "get", "lock", "wait", "idle", "hlt"}]
    /\ left \in [Threads -> 0..BufSize]
    /\ out \in [Writers -> Chars]
    /\ got \in [Readers -> Chars \cup {NULL}]

\* No ASSERT of ioqueue.c, sync.c or thread.c fires under readers and writers, and
\* every variable has its type.
SchedulerSound == TypeOK /\ SchedInv(sched)

\* The bytes come out as they went in, the reader and the writer interleaved.
F == INSTANCE Fifo WITH content <- Content(ioq), seen <- got,
                        Capacity <- BufSize - 1, None <- NULL

ImplementsFifo == F!Spec

\* A write() returns as long as a program keeps reading the other end.
WriteReturns == \A t \in Writers : (pc[t] # "user") ~> (pc[t] = "user")
=============================================================================
