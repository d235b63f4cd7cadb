-------------------------------- MODULE Locks -------------------------------
(***************************************************************************)
(* Threads that use the reentrant locks of thread/sync.c under the         *)
(* round-robin scheduler, the timer interrupt and the idle thread.         *)
(*                                                                         *)
(* lock_acquire() and lock_release() mask the interrupts only inside       *)
(* sema_down() and sema_up(). A kernel thread (KThreads) runs the rest of  *)
(* them with interrupts on, so every access to holder and                  *)
(* holder_repeat_nr is a step of its own, after which the timer may switch *)
(* threads. A process enters the kernel through an interrupt gate and      *)
(* keeps interrupts masked until it returns to user mode.                  *)
(*                                                                         *)
(* pc[t]:  "run"      outside the lock operations                          *)
(*         "down"     lock_acquire() is about to call sema_down()          *)
(*         "asleep"   inside sema_down(), after thread_block()             *)
(*         "own" "count"            lock_acquire() after sema_down()       *)
(*         "again"                  lock_acquire() by the holder           *)
(*         "disown" "zero" "up"     lock_release() of the last hold        *)
(*         "idle" "hlt"             the two halves of idle()'s loop        *)
(***************************************************************************)
EXTENDS Sync

CONSTANTS Locks,      \* the struct lock objects
          KThreads,   \* threads that run kernel code with interrupts on
          Main,       \* the thread that runs first
          BootOrder,  \* thread_ready_list when the timer is started
          MaxRepeat   \* bound: how deeply a thread nests one lock

ASSUME LocksAssumption ==
    /\ NULL \notin Locks
    /\ Main \in Threads \ {Idle}
    /\ KThreads \subseteq Threads
    /\ MaxRepeat \in Nat \ {0}
    /\ BootOrder \in Seq(Threads)
    /\ NoDup(BootOrder)
    /\ Range(BootOrder) = Threads \ {Main}

VARIABLES sched,  \* the scheduler record of module Thread
          lock,   \* [Locks -> LockType]
          pc,     \* where each thread is
          arg     \* the lock each thread's operation is about, NULL outside one

vars == <<sched, lock, pc, arg>>

Init ==
    /\ sched = [status |-> [t \in Threads |-> IF t = Main THEN "RUNNING" ELSE "READY"],
                ready  |-> BootOrder,
                cur    |-> Main,
                ticks  |-> Priority,
                panic  |-> FALSE]
    /\ lock = [l \in Locks |-> lock_init]
    /\ pc = [t \in Threads |-> IF t = Idle THEN "idle" ELSE "run"]
    /\ arg = [t \in Threads |-> NULL]

Running(t) == sched.cur = t /\ ~sched.panic

Goto(t, label) == pc' = [pc EXCEPT ![t] = label]

\* the lock operation returns to its caller
Return(t) ==
    /\ Goto(t, "run")
    /\ arg' = [arg EXCEPT ![t] = NULL]

Holds(t) == {l \in Locks : lock[l].holder = t}

-----------------------------------------------------------------------------
\* lock_acquire(l), also by a thread that holds other locks or l itself
Acquire(t, l) ==
    /\ Running(t) /\ pc[t] = "run"
    /\ lock[l].holder = t => lock[l].repeat < MaxRepeat
    /\ arg' = [arg EXCEPT ![t] = l]
    /\ Goto(t, IF lock[l].holder # t THEN "down" ELSE "again")
    /\ UNCHANGED <<sched, lock>>

Again(t) ==
    /\ Running(t) /\ pc[t] = "again"
    /\ lock' = [lock EXCEPT ![arg[t]].repeat = @ + 1]
    /\ Return(t)
    /\ UNCHANGED sched

\* Mutant of Down: an if instead of the while around thread_block().
DownTestsOnce(t) ==
    /\ Running(t) /\ pc[t] \in {"down", "asleep"}
    /\ LET s == lock[arg[t]].sema
           sleeps == s.value = 0 /\ pc[t] = "down"
           r == IF sleeps THEN sema_sleep(sched, s)
                ELSE [k |-> sched, s |-> [s EXCEPT !.value = 0]]
       IN  /\ sched' = r.k
           /\ lock' = [lock EXCEPT ![arg[t]].sema = r.s]
           /\ Goto(t, IF sleeps THEN "asleep" ELSE "own")
    /\ UNCHANGED arg

Down(t) ==
    /\ Running(t) /\ pc[t] \in {"down", "asleep"}
    /\ LET s == lock[arg[t]].sema
           r == sema_down(sched, s)
       IN  /\ sched' = r.k
           /\ lock' = [lock EXCEPT ![arg[t]].sema = r.s]
           /\ Goto(t, IF s.value = 0 THEN "asleep" ELSE "own")
    /\ UNCHANGED arg

Own(t) ==
    /\ Running(t) /\ pc[t] = "own"
    /\ lock' = [lock EXCEPT ![arg[t]].holder = t]
    /\ Goto(t, "count")
    /\ UNCHANGED <<sched, arg>>

Count(t) ==
    /\ Running(t) /\ pc[t] = "count"
    /\ sched' = IF lock[arg[t]].repeat = 0 THEN sched ELSE Panic(sched)
    /\ lock' = [lock EXCEPT ![arg[t]].repeat = 1]
    /\ Return(t)

\* lock_release(l), called by the holder
Release(t, l) ==
    /\ Running(t) /\ pc[t] = "run"
    /\ l \in Holds(t)
    /\ \/ /\ lock[l].repeat > 1
          /\ lock' = [lock EXCEPT ![l].repeat = @ - 1]
          /\ UNCHANGED <<sched, pc, arg>>
       \/ /\ lock[l].repeat <= 1
          /\ sched' = IF lock[l].repeat = 1 THEN sched ELSE Panic(sched)
          /\ arg' = [arg EXCEPT ![t] = l]
          /\ Goto(t, "disown")
          /\ UNCHANGED lock

Disown(t) ==
    /\ Running(t) /\ pc[t] = "disown"
    /\ lock' = [lock EXCEPT ![arg[t]].holder = NULL]
    /\ Goto(t, "zero")
    /\ UNCHANGED <<sched, arg>>

Zero(t) ==
    /\ Running(t) /\ pc[t] = "zero"
    /\ lock' = [lock EXCEPT ![arg[t]].repeat = 0]
    /\ Goto(t, "up")
    /\ UNCHANGED <<sched, arg>>

Up(t) ==
    /\ Running(t) /\ pc[t] = "up"
    /\ LET r == sema_up(sched, lock[arg[t]].sema)
       IN  /\ sched' = r.k
           /\ lock' = [lock EXCEPT ![arg[t]].sema = r.s]
    /\ Return(t)

\* thread_yield(), e.g. from mtime_sleep() with a lock held
Yield(t) ==
    /\ Running(t) /\ pc[t] = "run"
    /\ sched' = thread_yield(sched)
    /\ UNCHANGED <<lock, pc, arg>>

\* idle(): thread_block(TASK_BLOCKED), then sti; hlt until an interrupt
IdleBlock ==
    /\ Running(Idle) /\ pc[Idle] = "idle"
    /\ sched' = thread_block(sched, "BLOCKED")
    /\ Goto(Idle, "hlt")
    /\ UNCHANGED <<lock, arg>>

-----------------------------------------------------------------------------
\* EFLAGS.IF while t runs
IntrOn(t) ==
    \/ t \in KThreads /\ pc[t] # "asleep"
    \/ pc[t] = "run" /\ Holds(t) = {}
    \/ pc[t] = "hlt"

\* the timer interrupt; it ends idle()'s hlt unless it came just before it
Tick ==
    /\ ~sched.panic /\ IntrOn(sched.cur)
    /\ sched' = intr_timer_handler(sched)
    /\ \/ pc' = pc
       \/ pc[sched.cur] = "hlt" /\ Goto(sched.cur, "idle")
    /\ UNCHANGED <<lock, arg>>

\* the steps inside a lock operation, which the CPU takes without a choice
Step(t) ==
    \/ Again(t) \/ Down(t) \/ Own(t) \/ Count(t)
    \/ Disown(t) \/ Zero(t) \/ Up(t)

Workers == Threads \ {Idle}

Next ==
    \/ Tick
    \/ IdleBlock
    \/ \E t \in Workers :
          \/ Step(t)
          \/ Yield(t)
          \/ \E l \in Locks : Acquire(t, l) \/ Release(t, l)

Spec == Init /\ [][Next]_vars

-----------------------------------------------------------------------------
\* thread t has taken lock l: from sema_down()'s value-- to sema_up()'s value++
Inside(t, l) ==
    \/ arg[t] = l /\ pc[t] \in {"own", "count", "disown", "zero", "up"}
    \/ lock[l].holder = t

\* The refinement mapping to Mutex: the owner is the thread inside, the depth is
\* holder_repeat_nr, which is 0 while the owner enters or leaves.
Owner(l) ==
    IF \E t \in Threads : Inside(t, l)
    THEN CHOOSE t \in Threads : Inside(t, l)
    ELSE NULL

Depth(l) ==
    IF \E t \in Threads : Inside(t, l)
    THEN IF lock[l].repeat = 0 THEN 1 ELSE lock[l].repeat
    ELSE 0

M == INSTANCE Mutex WITH owner <- [l \in Locks |-> Owner(l)],
                         depth <- [l \in Locks |-> Depth(l)]

\* every variable has the shape its C declaration gives it
TypeOK ==
    /\ sched \in SchedType
    /\ lock \in [Locks -> LockType]
    /\ pc \in [Threads -> {"run", "down", "asleep", "own", "count", "again",
                           "disown", "zero", "up", "idle", "hlt"}]
    /\ arg \in [Threads -> Locks \cup {NULL}]

\* No ASSERT or PANIC of thread.c or sync.c ever fires, one thread is RUNNING,
\* and thread_ready_list links exactly the READY threads, each once.
SchedulerSound == SchedInv(sched)

\* A lock never has two owners, although holder and holder_repeat_nr are read
\* and written with interrupts on (sync.c:61-85).
MutualExclusion ==
    \A l \in Locks : \A t, u \in Threads : Inside(t, l) /\ Inside(u, l) => t = u

\* general_tag is one list_elem shared by the ready list and every waiters
\* list (thread.h:92): a thread must never be linked in two of them, or twice
\* in one.
TagInOneList ==
    /\ \A l \in Locks : NoDup(lock[l].sema.waiters)
    /\ \A l \in Locks : Range(lock[l].sema.waiters) \cap Range(sched.ready) = {}
    /\ \A l, m \in Locks :
          l # m => Range(lock[l].sema.waiters) \cap Range(lock[m].sema.waiters) = {}

\* No lost wakeup: a lock's semaphore is 0 only while a thread is inside, whose
\* release will wake a sleeper; and when threads sleep on it although it is 1, a
\* thread already woken is on its way to take it (sync.c:25-36 against 48-56).
NoLostWakeup ==
    \A l \in Locks :
        /\ lock[l].sema.value = 0 => \E t \in Threads : Inside(t, l)
        /\ lock[l].sema.value = 1 /\ lock[l].sema.waiters # <<>> =>
              \E t \in Threads :
                  /\ pc[t] = "asleep" /\ arg[t] = l
                  /\ sched.status[t] \in {"READY", "RUNNING"}

\* lock_acquire() and lock_release(), with all their interleavings, implement
\* the reentrant mutual exclusion of module Mutex (sync.c:61-85).
ImplementsMutex == M!Spec

\* The inductive invariant behind the safety properties. For a thread: where it
\* is asleep and what it works on.
ThreadInv(t) ==
    /\ IF pc[t] \in {"run", "idle", "hlt"} THEN arg[t] = NULL ELSE arg[t] \in Locks
    /\ pc[t] \in {"idle", "hlt"} <=> t = Idle
    /\ t # Idle => /\ sched.status[t] \notin {"WAITING", "HANGING", "DIED"}
                   /\ sched.status[t] = "BLOCKED" => pc[t] = "asleep"

\* For a lock: a free lock carries nothing of its last owner.
LockInv(l) ==
    /\ NoDup(lock[l].sema.waiters)
    /\ lock[l].sema.value \in {0, 1}
    /\ lock[l].sema.value = 1 => lock[l].holder = NULL /\ lock[l].repeat = 0

\* For a thread and a lock: what holder, holder_repeat_nr and waiters say of it.
HoldInv(t, l) ==
    /\ t \in Range(lock[l].sema.waiters) <=>
          t # Idle /\ pc[t] = "asleep" /\ arg[t] = l /\ sched.status[t] = "BLOCKED"
    /\ lock[l].holder = t =>
          \/ arg[t] # l /\ lock[l].repeat > 0
          \/ arg[t] = l /\ pc[t] \in {"count", "again", "disown"}
    /\ arg[t] = l =>
          /\ pc[t] = "own" => lock[l].holder = NULL /\ lock[l].repeat = 0
          /\ pc[t] = "count" => lock[l].holder = t /\ lock[l].repeat = 0
          /\ pc[t] = "again" => lock[l].holder = t /\ lock[l].repeat > 0
          /\ pc[t] = "disown" => lock[l].holder = t /\ lock[l].repeat = 1
          /\ pc[t] = "zero" => lock[l].holder = NULL /\ lock[l].repeat = 1
          /\ pc[t] = "up" => lock[l].holder = NULL /\ lock[l].repeat = 0
    /\ Inside(t, l) => lock[l].sema.value = 0

IInv ==
    /\ TypeOK
    /\ SchedulerSound
    /\ \A t \in Threads : ThreadInv(t)
    /\ \A l \in Locks : LockInv(l)
    /\ \A t \in Threads, l \in Locks : HoldInv(t, l)
    /\ MutualExclusion
    /\ NoLostWakeup
=============================================================================
