------------------------------- MODULE Thread -------------------------------
(***************************************************************************)
(* The scheduler of thread/thread.c as operators on one record,            *)
(*                                                                         *)
(*   k = [status, ready, cur, ticks, panic]                                *)
(*                                                                         *)
(* status  PCB field status of every thread; "DIED" also stands for a PCB  *)
(*         that does not exist (not yet created, or freed by thread_exit)  *)
(* ready   thread_ready_list, first element = next to run                  *)
(* cur     running_thread()                                                *)
(* ticks   PCB field ticks, what is left of the time slice                 *)
(* panic   an ASSERT or a PANIC fired: panic_spin() masks the interrupts   *)
(*         and loops, so nothing runs any more                             *)
(*                                                                         *)
(* Every primitive below runs with interrupts masked, so it is one atomic  *)
(* step of the module that calls it; switch_to() is the change of cur, and *)
(* what the thread switched out does next is the caller's pc.              *)
(***************************************************************************)
EXTENDS Naturals, Sequences, Functions

CONSTANTS Threads,   \* every PCB the run may use
          Idle,      \* idle_thread
          Priority   \* PCB field priority: the length of a time slice

ASSUME ThreadAssumption ==
    /\ Idle \in Threads
    /\ Priority \in [Threads -> Nat]

Status == {"RUNNING", "READY", "BLOCKED", "WAITING", "HANGING", "DIED"}

\* the states thread_block() puts a thread in and thread_unblock() accepts
Asleep == {"BLOCKED", "WAITING", "HANGING"}

SchedType == [status : [Threads -> Status],
              ready  : Seq(Threads),
              cur    : Threads,
              ticks  : [Threads -> Nat],
              panic  : BOOLEAN]

Panic(k) == [k EXCEPT !.panic = TRUE]

thread_unblock(k, t) ==
    IF k.status[t] \in Asleep /\ t \notin Range(k.ready)
    THEN [k EXCEPT !.ready = <<t>> \o @, !.status[t] = "READY"]
    ELSE Panic(k)

\* Mutants of Requeue: without the test of TASK_RUNNING; to the front of the list.
RequeueAlways(k) ==
    [k EXCEPT !.ready = Append(@, k.cur), !.status[k.cur] = "READY"]

RequeueFront(k) ==
    IF k.status[k.cur] # "RUNNING" THEN k
    ELSE [k EXCEPT !.ready = <<k.cur>> \o @, !.ticks[k.cur] = Priority[k.cur],
                   !.status[k.cur] = "READY"]

\* a thread that is still RUNNING used up its slice: to the back of the list
Requeue(k) ==
    IF k.status[k.cur] # "RUNNING" THEN k
    ELSE IF k.cur \in Range(k.ready) THEN Panic(k)
    ELSE [k EXCEPT !.ready = Append(@, k.cur),
                   !.ticks[k.cur] = Priority[k.cur],
                   !.status[k.cur] = "READY"]

\* the idle thread runs when no other can
WakeIdle(k) == IF k.ready = <<>> THEN thread_unblock(k, Idle) ELSE k

RunNext(k) ==
    [k EXCEPT !.ready = Tail(@),
              !.cur = Head(k.ready),
              !.status[Head(k.ready)] = "RUNNING"]

schedule(k) ==
    LET r == Requeue(k)
        w == WakeIdle(r)
    IN  IF r.panic THEN r
        ELSE IF w.panic THEN w
        ELSE RunNext(w)

thread_block(k, stat) == schedule([k EXCEPT !.status[k.cur] = stat])

thread_yield(k) ==
    IF k.cur \in Range(k.ready) THEN Panic(k)
    ELSE schedule([k EXCEPT !.ready = Append(@, k.cur),
                            !.status[k.cur] = "READY"])

\* the timer interrupt, device/timer.c
intr_timer_handler(k) ==
    IF k.ticks[k.cur] = 0
    THEN schedule(k)
    ELSE [k EXCEPT !.ticks[k.cur] = @ - 1]

\* init_task() and the linking of a new PCB: thread_create(),
\* process_execute() and copy_process()
thread_start(k, t) ==
    IF t \in Range(k.ready) THEN Panic(k)
    ELSE [k EXCEPT !.ready = Append(@, t),
                   !.status[t] = "READY",
                   !.ticks[t] = Priority[t]]

\* thread_exit(t, false): the PCB of t leaves the ready list and is freed
thread_exit(k, t) ==
    [k EXCEPT !.status[t] = "DIED",
              !.ready = IF t \in Range(@) THEN SelectSeq(@, LAMBDA u : u # t) ELSE @]

-----------------------------------------------------------------------------
(***************************************************************************)
(* What the scheduler promises in every state in which interrupts can be   *)
(* taken.                                                                  *)
(***************************************************************************)

\* The CPU has exactly one RUNNING thread, the one running_thread() returns.
OneRunning(k) == \A t \in Threads : k.status[t] = "RUNNING" <=> t = k.cur

\* A thread is READY exactly when its tag is linked in thread_ready_list.
ReadyListed(k) == \A t \in Threads : k.status[t] = "READY" <=> t \in Range(k.ready)

\* No thread is linked twice in thread_ready_list.
NoDup(s) == IsInjective(s)

\* idle() only ever sleeps in TASK_BLOCKED, so schedule() can wake it.
IdleWakeable(k) == k.status[Idle] \in {"RUNNING", "READY", "BLOCKED"}

SchedInv(k) ==
    /\ OneRunning(k)
    /\ ReadyListed(k)
    /\ NoDup(k.ready)
    /\ IdleWakeable(k)
    /\ ~k.panic
=============================================================================
