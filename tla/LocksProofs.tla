----------------------------- MODULE LocksProofs ----------------------------
(***************************************************************************)
(* For any set of threads, any set of locks and any nesting bound, the     *)
(* locks of thread/sync.c under the scheduler of thread/thread.c keep IInv *)
(* and with it every safety property of module Locks.                      *)
(***************************************************************************)
EXTENDS Locks, ThreadProofs

-----------------------------------------------------------------------------
(* The fields of a lock                                                    *)

\* What LockType says of the fields of a struct lock.
LEMMA LockRecord ==
    ASSUME NEW f \in [Locks -> LockType], NEW l \in Locks
    PROVE  /\ f[l].holder \in Threads \cup {NULL} /\ f[l].repeat \in Nat
           /\ f[l].sema \in SemaType
           /\ f[l].sema.value \in Nat /\ f[l].sema.waiters \in Seq(Threads)
BY DEF LockType, SemaType

-----------------------------------------------------------------------------
(* Steps of one thread that leave the scheduler and the semaphores alone   *)

\* The part of the invariant that such a step cannot disturb.
LEMMA QuietStep ==
    ASSUME IInv, TypeOK', sched' = sched,
           \A u \in Threads : ThreadInv(u)',
           \A u \in Threads, m \in Locks : HoldInv(u, m)' /\ (Inside(u, m)' <=> Inside(u, m)),
           \A m \in Locks : /\ lock'[m].sema = lock[m].sema
                            /\ lock[m].sema.value = 1 => /\ lock'[m].holder = NULL
                                                         /\ lock'[m].repeat = 0,
           \A u \in Threads : pc[u] = "asleep" => pc'[u] = "asleep" /\ arg'[u] = arg[u]
    PROVE  IInv'
<1>1. SchedulerSound' /\ MutualExclusion'
  BY DEF IInv, SchedulerSound, MutualExclusion
<1>2. \A m \in Locks : LockInv(m)'
  BY DEF IInv, LockInv
<1>3. NoLostWakeup'
  <2> SUFFICES ASSUME NEW m \in Locks
               PROVE  /\ lock'[m].sema.value = 0 => \E u \in Threads : Inside(u, m)'
                      /\ lock'[m].sema.value = 1 /\ lock'[m].sema.waiters # <<>> =>
                            \E u \in Threads : /\ pc'[u] = "asleep" /\ arg'[u] = m
                                               /\ sched'.status[u] \in {"READY", "RUNNING"}
    BY DEF NoLostWakeup
  <2>1. lock'[m].sema = lock[m].sema
    OBVIOUS
  <2>2. lock[m].sema.value = 0 => \E u \in Threads : Inside(u, m)
    BY DEF IInv, NoLostWakeup
  <2>3. lock[m].sema.value = 1 /\ lock[m].sema.waiters # <<>> =>
           \E u \in Threads : /\ pc[u] = "asleep" /\ arg[u] = m
                              /\ sched.status[u] \in {"READY", "RUNNING"}
    BY DEF IInv, NoLostWakeup
  <2> QED BY <2>1, <2>2, <2>3
<1> QED BY <1>1, <1>2, <1>3 DEF IInv

\* What a thread's step from label a to label b knows of the thread.
LEMMA AtLabel ==
    ASSUME IInv, NEW t \in Workers, Running(t)
    PROVE  /\ t \in Threads /\ t # Idle /\ t = sched.cur /\ sched.status[t] = "RUNNING"
           /\ ~sched.panic /\ sched \in SchedType /\ SchedInv(sched)
           /\ lock \in [Locks -> LockType] /\ pc[t] \notin {"idle", "hlt"}
           /\ pc[t] # "run" => arg[t] \in Locks
<1>1. t \in Threads /\ t # Idle /\ t = sched.cur /\ ~sched.panic
  BY DEF Workers, Running
<1>2. sched \in SchedType /\ SchedInv(sched) /\ lock \in [Locks -> LockType]
  BY DEF IInv, TypeOK, SchedulerSound
<1>3. ThreadInv(t)
  BY <1>1 DEF IInv
<1> QED BY <1>1, <1>2, <1>3 DEF ThreadInv, SchedInv, OneRunning

\* The call of lock_acquire() by any thread keeps the invariant.
LEMMA AcquireInv ==
    ASSUME IInv, NEW t \in Workers, NEW l \in Locks, Acquire(t, l)
    PROVE  IInv'
<1>1. /\ Running(t) /\ pc[t] = "run"
      /\ arg' = [arg EXCEPT ![t] = l]
      /\ pc' = [pc EXCEPT ![t] = IF lock[l].holder # t THEN "down" ELSE "again"]
      /\ sched' = sched /\ lock' = lock
  BY DEF Acquire, Goto
<1>2. t \in Threads /\ t # Idle /\ sched.status[t] = "RUNNING"
  BY <1>1, AtLabel
<1>3. TypeOK'
  BY <1>1 DEF IInv, TypeOK
<1>4. \A u \in Threads :
         /\ arg'[u] = IF u = t THEN l ELSE arg[u]
         /\ pc'[u] = IF u # t THEN pc[u] ELSE IF lock[l].holder # t THEN "down" ELSE "again"
  BY <1>1 DEF IInv, TypeOK
<1>5. ASSUME NEW u \in Threads PROVE ThreadInv(u)'
  BY <1>1, <1>2, <1>4 DEF IInv, ThreadInv
<1>6. ASSUME NEW u \in Threads, NEW m \in Locks
      PROVE  HoldInv(u, m)' /\ (Inside(u, m)' <=> Inside(u, m))
  <2>1. HoldInv(u, m) /\ HoldInv(t, m) /\ arg[t] # m
    BY <1>1, <1>2, LocksAssumption DEF IInv, ThreadInv
  <2>2. Inside(u, m)' <=> Inside(u, m)
    BY <1>1, <1>4, <2>1 DEF Inside
  <2> QED BY <1>1, <1>2, <1>4, <2>1, <2>2 DEF HoldInv
<1>7. \A m \in Locks : lock[m].sema.value = 1 => lock[m].holder = NULL /\ lock[m].repeat = 0
  BY DEF IInv, LockInv
<1> QED BY <1>1, <1>3, <1>4, <1>5, <1>6, <1>7, QuietStep

\* A thread inside lock l: nobody else is, and the semaphore is 0.
LEMMA InsideFacts ==
    ASSUME IInv, NEW t \in Threads, NEW l \in Locks, Inside(t, l)
    PROVE  /\ lock[l].sema.value = 0
           /\ \A u \in Threads : u # t => ~Inside(u, l)
           /\ \A m \in Locks : HoldInv(t, m)
           /\ \A m \in Locks : lock[m].sema.value = 1 => lock[m].holder = NULL /\ lock[m].repeat = 0
BY DEF IInv, HoldInv, MutualExclusion, LockInv

\* A step inside lock_acquire() or lock_release() by the thread t that is inside
\* lock l: it only has to answer for what holder and holder_repeat_nr say of t.
LEMMA InnerStep ==
    ASSUME IInv, NEW t \in Workers, NEW l \in Locks, Running(t), Inside(t, l),
           pc[t] \notin {"down", "asleep"}, pc[t] = "run" \/ arg[t] = l,
           NEW b \in {"run", "own", "count", "again", "disown", "zero", "up"},
           NEW x, x = IF b = "run" THEN NULL ELSE l,
           sched' = sched, pc' = [pc EXCEPT ![t] = b], arg' = [arg EXCEPT ![t] = x],
           lock' \in [Locks -> LockType],
           \A m \in Locks : lock'[m].sema = lock[m].sema,
           \A m \in Locks \ {l} : lock'[m].holder = lock[m].holder /\ lock'[m].repeat = lock[m].repeat,
           lock'[l].holder \in {t, NULL}, HoldInv(t, l)', Inside(t, l)'
    PROVE  IInv'
<1>1. t \in Threads /\ t # Idle /\ sched.status[t] = "RUNNING"
  BY AtLabel
<1>2. TypeOK'
  <2>1. x \in Locks \cup {NULL}
    OBVIOUS
  <2> QED BY <1>1, <2>1 DEF IInv, TypeOK
<1>3. \A u \in Threads : /\ arg'[u] = IF u = t THEN x ELSE arg[u]
                         /\ pc'[u] = IF u = t THEN b ELSE pc[u]
  BY DEF IInv, TypeOK
<1>4. /\ lock[l].sema.value = 0 /\ (\A u \in Threads : u # t => ~Inside(u, l))
      /\ \A m \in Locks : lock[m].sema.value = 1 => lock[m].holder = NULL /\ lock[m].repeat = 0
  BY <1>1, InsideFacts
<1>5. ASSUME NEW u \in Threads PROVE ThreadInv(u)'
  <2>1. ThreadInv(u)
    BY DEF IInv
  <2> QED BY <1>1, <1>3, <2>1 DEF ThreadInv
<1>6. ASSUME NEW u \in Threads, NEW m \in Locks
      PROVE  HoldInv(u, m)' /\ (Inside(u, m)' <=> Inside(u, m))
  <2>1. HoldInv(u, m) /\ ThreadInv(u) /\ ThreadInv(t)
    BY <1>1 DEF IInv
  <2>2. CASE u = t /\ m = l
    BY <2>2
  <2>3. CASE u = t /\ m # l
    <3>1. arg[t] # m /\ arg'[t] # m
      BY <1>1, <1>3, <2>1, <2>3, LocksAssumption DEF ThreadInv
    <3>2. Inside(u, m)' <=> Inside(u, m)
      BY <2>3, <3>1 DEF Inside
    <3> QED BY <1>1, <1>3, <2>1, <2>3, <3>1, <3>2 DEF HoldInv
  <2>4. CASE u # t /\ m # l
    <3>1. Inside(u, m)' <=> Inside(u, m)
      BY <1>3, <2>4 DEF Inside
    <3> QED BY <1>3, <2>1, <2>4, <3>1 DEF HoldInv
  <2>5. CASE u # t /\ m = l
    <3>1. ~Inside(u, l) /\ lock'[l].holder # u /\ arg'[u] = arg[u] /\ pc'[u] = pc[u]
      BY <1>3, <1>4, <2>5, SyncAssumption
    <3>2. ~Inside(u, l)'
      BY <3>1 DEF Inside
    <3> QED BY <2>1, <2>5, <3>1, <3>2 DEF HoldInv, Inside
  <2> QED BY <2>2, <2>3, <2>4, <2>5
<1>7. \A m \in Locks : lock[m].sema.value = 1 => lock'[m].holder = NULL /\ lock'[m].repeat = 0
  <2> TAKE m \in Locks
  <2> QED BY <1>4
<1>8. \A u \in Threads : pc[u] = "asleep" => pc'[u] = "asleep" /\ arg'[u] = arg[u]
  BY <1>3
<1> QED BY <1>2, <1>5, <1>6, <1>7, <1>8, QuietStep

\* The holder's nested lock_acquire() keeps the invariant.
LEMMA AgainInv ==
    ASSUME IInv, NEW t \in Workers, Again(t)
    PROVE  IInv'
<1>1. /\ Running(t) /\ pc[t] = "again" /\ pc' = [pc EXCEPT ![t] = "run"]
      /\ lock' = [lock EXCEPT ![arg[t]].repeat = lock[arg[t]].repeat + 1]
      /\ arg' = [arg EXCEPT ![t] = NULL] /\ sched' = sched
  BY DEF Again, Return, Goto
<1>2. /\ t \in Threads /\ arg[t] \in Locks /\ lock \in [Locks -> LockType]
      /\ sched.status[t] = "RUNNING"
  BY <1>1, AtLabel
<1>3. PICK l \in Locks : arg[t] = l
  BY <1>2
<1>4. HoldInv(t, l) /\ lock[l].repeat \in Nat
  BY <1>2, LockRecord DEF IInv
<1>5. Inside(t, l)
  BY <1>1, <1>2, <1>3, <1>4 DEF Inside, HoldInv, IInv, TypeOK
<1>6. /\ lock' \in [Locks -> LockType]
      /\ \A m \in Locks : /\ lock'[m].repeat = IF m = l THEN lock[l].repeat + 1 ELSE lock[m].repeat
                          /\ lock'[m].holder = lock[m].holder /\ lock'[m].sema = lock[m].sema
  BY <1>1, <1>2, <1>3, <1>4 DEF LockType
<1>7. pc'[t] = "run" /\ arg'[t] = NULL /\ arg'[t] # l
  BY <1>1, <1>2, <1>5, LocksAssumption DEF IInv, TypeOK
<1>8. lock'[l].holder = t
  BY <1>1, <1>2, <1>3, <1>4, <1>6 DEF HoldInv
<1>9. HoldInv(t, l)' /\ Inside(t, l)'
  BY <1>1, <1>2, <1>3, <1>4, <1>5, <1>6, <1>7, <1>8, SyncAssumption DEF HoldInv, Inside
<1> QED BY <1>1, <1>3, <1>5, <1>6, <1>8, <1>9, InnerStep

\* lock_acquire() setting holder keeps the invariant.
LEMMA OwnInv ==
    ASSUME IInv, NEW t \in Workers, Own(t)
    PROVE  IInv'
<1>1. /\ Running(t) /\ pc[t] = "own" /\ pc' = [pc EXCEPT ![t] = "count"]
      /\ lock' = [lock EXCEPT ![arg[t]].holder = t]
      /\ arg' = arg /\ sched' = sched
  BY DEF Own, Goto
<1>2. /\ t \in Threads /\ arg[t] \in Locks /\ lock \in [Locks -> LockType]
      /\ sched.status[t] = "RUNNING"
  BY <1>1, AtLabel
<1>3. PICK l \in Locks : arg[t] = l
  BY <1>2
<1>4. HoldInv(t, l) /\ lock[l].repeat \in Nat
  BY <1>2, LockRecord DEF IInv
<1>5. Inside(t, l) /\ arg' = [arg EXCEPT ![t] = l]
  BY <1>1, <1>2, <1>3, <1>4 DEF Inside, HoldInv, IInv, TypeOK
<1>6. /\ lock' \in [Locks -> LockType]
      /\ \A m \in Locks : /\ lock'[m].holder = IF m = l THEN t ELSE lock[m].holder
                          /\ lock'[m].repeat = lock[m].repeat /\ lock'[m].sema = lock[m].sema
  BY <1>1, <1>2, <1>3, <1>4 DEF LockType
<1>7. pc'[t] = "count" /\ arg'[t] = l
  BY <1>1, <1>2, <1>5, LocksAssumption DEF IInv, TypeOK
<1>8. lock'[l].holder = t
  BY <1>1, <1>2, <1>3, <1>4, <1>6 DEF HoldInv
<1>9. HoldInv(t, l)' /\ Inside(t, l)'
  BY <1>1, <1>2, <1>3, <1>4, <1>5, <1>6, <1>7, <1>8, SyncAssumption DEF HoldInv, Inside
<1> QED BY <1>1, <1>3, <1>5, <1>6, <1>8, <1>9, InnerStep

\* lock_acquire() setting holder_repeat_nr keeps the invariant, and its ASSERT holds.
LEMMA CountInv ==
    ASSUME IInv, NEW t \in Workers, Count(t)
    PROVE  IInv'
<1>1. /\ Running(t) /\ pc[t] = "count" /\ pc' = [pc EXCEPT ![t] = "run"]
      /\ lock' = [lock EXCEPT ![arg[t]].repeat = 1]
      /\ arg' = [arg EXCEPT ![t] = NULL] /\ sched' = IF lock[arg[t]].repeat = 0 THEN sched ELSE Panic(sched)
  BY DEF Count, Return, Goto
<1>2. /\ t \in Threads /\ arg[t] \in Locks /\ lock \in [Locks -> LockType]
      /\ sched.status[t] = "RUNNING"
  BY <1>1, AtLabel
<1>3. PICK l \in Locks : arg[t] = l
  BY <1>2
<1>4. HoldInv(t, l) /\ lock[l].repeat \in Nat
  BY <1>2, LockRecord DEF IInv
<1>5. Inside(t, l) /\ sched' = sched
  BY <1>1, <1>2, <1>3, <1>4 DEF Inside, HoldInv, IInv, TypeOK
<1>6. /\ lock' \in [Locks -> LockType]
      /\ \A m \in Locks : /\ lock'[m].repeat = IF m = l THEN 1 ELSE lock[m].repeat
                          /\ lock'[m].holder = lock[m].holder /\ lock'[m].sema = lock[m].sema
  BY <1>1, <1>2, <1>3, <1>4 DEF LockType
<1>7. pc'[t] = "run" /\ arg'[t] = NULL /\ arg'[t] # l
  BY <1>1, <1>2, <1>5, LocksAssumption DEF IInv, TypeOK
<1>8. lock'[l].holder = t
  BY <1>1, <1>2, <1>3, <1>4, <1>6 DEF HoldInv
<1>9. HoldInv(t, l)' /\ Inside(t, l)'
  BY <1>1, <1>2, <1>3, <1>4, <1>5, <1>6, <1>7, <1>8, SyncAssumption DEF HoldInv, Inside
<1> QED BY <1>1, <1>3, <1>5, <1>6, <1>8, <1>9, InnerStep

\* lock_release() resetting holder keeps the invariant.
LEMMA DisownInv ==
    ASSUME IInv, NEW t \in Workers, Disown(t)
    PROVE  IInv'
<1>1. /\ Running(t) /\ pc[t] = "disown" /\ pc' = [pc EXCEPT ![t] = "zero"]
      /\ lock' = [lock EXCEPT ![arg[t]].holder = NULL]
      /\ arg' = arg /\ sched' = sched
  BY DEF Disown, Goto
<1>2. /\ t \in Threads /\ arg[t] \in Locks /\ lock \in [Locks -> LockType]
      /\ sched.status[t] = "RUNNING"
  BY <1>1, AtLabel
<1>3. PICK l \in Locks : arg[t] = l
  BY <1>2
<1>4. HoldInv(t, l) /\ lock[l].repeat \in Nat
  BY <1>2, LockRecord DEF IInv
<1>5. Inside(t, l) /\ arg' = [arg EXCEPT ![t] = l]
  BY <1>1, <1>2, <1>3, <1>4 DEF Inside, HoldInv, IInv, TypeOK
<1>6. /\ lock' \in [Locks -> LockType]
      /\ \A m \in Locks : /\ lock'[m].holder = IF m = l THEN NULL ELSE lock[m].holder
                          /\ lock'[m].repeat = lock[m].repeat /\ lock'[m].sema = lock[m].sema
  BY <1>1, <1>2, <1>3, <1>4 DEF LockType
<1>7. pc'[t] = "zero" /\ arg'[t] = l
  BY <1>1, <1>2, <1>5, LocksAssumption DEF IInv, TypeOK
<1>8. lock'[l].holder = NULL
  BY <1>1, <1>2, <1>3, <1>4, <1>6 DEF HoldInv
<1>9. HoldInv(t, l)' /\ Inside(t, l)'
  BY <1>1, <1>2, <1>3, <1>4, <1>5, <1>6, <1>7, <1>8, SyncAssumption DEF HoldInv, Inside
<1> QED BY <1>1, <1>3, <1>5, <1>6, <1>8, <1>9, InnerStep

\* lock_release() resetting holder_repeat_nr keeps the invariant.
LEMMA ZeroInv ==
    ASSUME IInv, NEW t \in Workers, Zero(t)
    PROVE  IInv'
<1>1. /\ Running(t) /\ pc[t] = "zero" /\ pc' = [pc EXCEPT ![t] = "up"]
      /\ lock' = [lock EXCEPT ![arg[t]].repeat = 0]
      /\ arg' = arg /\ sched' = sched
  BY DEF Zero, Goto
<1>2. /\ t \in Threads /\ arg[t] \in Locks /\ lock \in [Locks -> LockType]
      /\ sched.status[t] = "RUNNING"
  BY <1>1, AtLabel
<1>3. PICK l \in Locks : arg[t] = l
  BY <1>2
<1>4. HoldInv(t, l) /\ lock[l].repeat \in Nat
  BY <1>2, LockRecord DEF IInv
<1>5. Inside(t, l) /\ arg' = [arg EXCEPT ![t] = l]
  BY <1>1, <1>2, <1>3, <1>4 DEF Inside, HoldInv, IInv, TypeOK
<1>6. /\ lock' \in [Locks -> LockType]
      /\ \A m \in Locks : /\ lock'[m].repeat = IF m = l THEN 0 ELSE lock[m].repeat
                          /\ lock'[m].holder = lock[m].holder /\ lock'[m].sema = lock[m].sema
  BY <1>1, <1>2, <1>3, <1>4 DEF LockType
<1>7. pc'[t] = "up" /\ arg'[t] = l
  BY <1>1, <1>2, <1>5, LocksAssumption DEF IInv, TypeOK
<1>8. lock'[l].holder = NULL
  BY <1>1, <1>2, <1>3, <1>4, <1>6 DEF HoldInv
<1>9. HoldInv(t, l)' /\ Inside(t, l)'
  BY <1>1, <1>2, <1>3, <1>4, <1>5, <1>6, <1>7, <1>8, SyncAssumption DEF HoldInv, Inside
<1> QED BY <1>1, <1>3, <1>5, <1>6, <1>8, <1>9, InnerStep

\* The call of lock_release() by the holder keeps the invariant, and its ASSERT holds.
LEMMA ReleaseInv ==
    ASSUME IInv, NEW t \in Workers, NEW l \in Locks, Release(t, l)
    PROVE  IInv'
<1>1. Running(t) /\ pc[t] = "run" /\ lock[l].holder = t
  BY DEF Release, Holds
<1>2. /\ t \in Threads /\ lock \in [Locks -> LockType] /\ sched.status[t] = "RUNNING"
      /\ arg[t] = NULL /\ arg[t] # l
  BY <1>1, AtLabel, LocksAssumption DEF IInv, ThreadInv
<1>3. Inside(t, l) /\ HoldInv(t, l) /\ lock[l].repeat \in Nat
  BY <1>1, <1>2, LockRecord DEF Inside, IInv
<1>4. lock[l].repeat > 0
  BY <1>1, <1>2, <1>3 DEF HoldInv
<1>5. CASE lock[l].repeat > 1
  <2>1. /\ lock' = [lock EXCEPT ![l].repeat = lock[l].repeat - 1]
        /\ sched' = sched /\ pc' = pc /\ arg' = arg
    BY <1>5, <1>3 DEF Release
  <2>2. pc' = [pc EXCEPT ![t] = "run"] /\ arg' = [arg EXCEPT ![t] = NULL]
    BY <1>1, <1>2, <2>1 DEF IInv, TypeOK
  <2>3. lock[l].repeat - 1 \in Nat /\ lock[l].repeat - 1 > 0
    BY <1>3, <1>5
  <2>4. /\ lock' \in [Locks -> LockType]
        /\ \A m \in Locks : /\ lock'[m].repeat = IF m = l THEN lock[l].repeat - 1 ELSE lock[m].repeat
                            /\ lock'[m].holder = lock[m].holder /\ lock'[m].sema = lock[m].sema
    BY <1>2, <2>1, <2>3 DEF LockType
  <2>5. HoldInv(t, l)' /\ Inside(t, l)'
    BY <1>1, <1>2, <1>3, <2>1, <2>3, <2>4 DEF HoldInv, Inside
  <2>6. sched' = sched /\ lock'[l].holder = t
    BY <1>1, <2>1, <2>4
  <2> QED BY <1>1, <1>3, <2>2, <2>4, <2>5, <2>6, InnerStep
<1>6. CASE lock[l].repeat = 1
  <2>1. /\ lock' = lock /\ sched' = sched
        /\ pc' = [pc EXCEPT ![t] = "disown"] /\ arg' = [arg EXCEPT ![t] = l]
    BY <1>6 DEF Release, Goto
  <2>2. pc'[t] = "disown" /\ arg'[t] = l
    BY <1>2, <2>1 DEF IInv, TypeOK
  <2>3. HoldInv(t, l)' /\ Inside(t, l)'
    BY <1>1, <1>2, <1>3, <1>6, <2>1, <2>2 DEF HoldInv, Inside
  <2> QED BY <1>1, <1>2, <1>3, <2>1, <2>3, InnerStep
<1> QED BY <1>3, <1>4, <1>5, <1>6

-----------------------------------------------------------------------------
(* Steps that only move the CPU between threads                            *)

\* A step that only switches threads, and puts nobody but the idle thread to sleep,
\* keeps the invariant.
LEMMA SchedStep ==
    ASSUME IInv, sched' \in SchedType, SchedInv(sched'), SameSleepers(sched, sched'),
           lock' = lock, arg' = arg,
           pc' = pc \/ \E b \in {"idle", "hlt"} : pc' = [pc EXCEPT ![Idle] = b]
    PROVE  IInv'
<1>1. TypeOK'
  BY DEF IInv, TypeOK
<1>2. /\ \A u \in Threads \ {Idle} : pc'[u] = pc[u]
      /\ pc[Idle] \in {"idle", "hlt"} /\ pc'[Idle] \in {"idle", "hlt"}
  BY ThreadAssumption DEF IInv, TypeOK, ThreadInv
<1>3. \A u \in Threads \ {Idle} : \A st \in {"BLOCKED", "WAITING", "HANGING", "DIED"} :
         sched'.status[u] = st <=> sched.status[u] = st
  BY DEF SameSleepers, Asleep
<1>4. ASSUME NEW u \in Threads PROVE ThreadInv(u)'
  <2>1. ThreadInv(u)
    BY DEF IInv
  <2> QED BY <1>2, <1>3, <2>1 DEF ThreadInv
<1>5. ASSUME NEW u \in Threads, NEW m \in Locks
      PROVE  HoldInv(u, m)' /\ (Inside(u, m)' <=> Inside(u, m))
  <2>1. HoldInv(u, m)
    BY DEF IInv
  <2>2. CASE u = Idle
    BY <1>2, <2>1, <2>2 DEF HoldInv, Inside
  <2>3. CASE u # Idle
    <3>1. pc'[u] = pc[u] /\ (sched'.status[u] = "BLOCKED" <=> sched.status[u] = "BLOCKED")
      BY <1>2, <1>3, <2>3
    <3> QED BY <2>1, <2>3, <3>1 DEF HoldInv, Inside
  <2> QED BY <2>2, <2>3
<1>6. SchedulerSound' /\ MutualExclusion'
  BY <1>5 DEF IInv, SchedulerSound, MutualExclusion
<1>7. \A m \in Locks : LockInv(m)'
  BY DEF IInv, LockInv
<1>8. NoLostWakeup'
  <2> SUFFICES ASSUME NEW m \in Locks
               PROVE  /\ lock[m].sema.value = 0 => \E u \in Threads : Inside(u, m)'
                      /\ lock[m].sema.value = 1 /\ lock[m].sema.waiters # <<>> =>
                            \E u \in Threads : /\ pc'[u] = "asleep" /\ arg[u] = m
                                               /\ sched'.status[u] \in {"READY", "RUNNING"}
    BY DEF NoLostWakeup
  <2>1. lock[m].sema.value = 0 => \E u \in Threads : Inside(u, m)
    BY DEF IInv, NoLostWakeup
  <2>2. ASSUME NEW u \in Threads, pc[u] = "asleep", sched.status[u] \in {"READY", "RUNNING"}
        PROVE  pc'[u] = "asleep" /\ sched'.status[u] \in {"READY", "RUNNING"}
    <3>1. u # Idle
      BY <1>2, <2>2
    <3>2. sched'.status[u] \in Status /\ sched'.status[u] \notin {"BLOCKED", "WAITING", "HANGING", "DIED"}
      BY <1>3, <2>2, <3>1, SchedRecord
    <3> QED BY <1>2, <2>2, <3>1, <3>2 DEF Status
  <2>3. lock[m].sema.value = 1 /\ lock[m].sema.waiters # <<>> =>
           \E u \in Threads : /\ pc[u] = "asleep" /\ arg[u] = m
                              /\ sched.status[u] \in {"READY", "RUNNING"}
    BY DEF IInv, NoLostWakeup
  <2> QED BY <1>5, <2>1, <2>2, <2>3
<1> QED BY <1>1, <1>4, <1>5, <1>6, <1>7, <1>8 DEF IInv

\* thread_yield() keeps the invariant.
LEMMA YieldInv ==
    ASSUME IInv, NEW t \in Workers, Yield(t)
    PROVE  IInv'
<1>1. sched \in SchedType /\ SchedInv(sched)
  BY DEF IInv, TypeOK, SchedulerSound
<1>2. sched' = thread_yield(sched) /\ lock' = lock /\ pc' = pc /\ arg' = arg
  BY DEF Yield
<1>3. sched' \in SchedType /\ SchedInv(sched') /\ SameSleepers(sched, sched')
  BY <1>1, <1>2, YieldSound, Zenon
<1> QED BY <1>2, <1>3, SchedStep

\* The timer interrupt keeps the invariant wherever it can be taken.
LEMMA TickInv ==
    ASSUME IInv, Tick
    PROVE  IInv'
<1>1. sched \in SchedType /\ SchedInv(sched)
  BY DEF IInv, TypeOK, SchedulerSound
<1>2. /\ sched' = intr_timer_handler(sched) /\ lock' = lock /\ arg' = arg
      /\ pc' = pc \/ (pc[sched.cur] = "hlt" /\ pc' = [pc EXCEPT ![sched.cur] = "idle"])
  BY DEF Tick, Goto
<1>3. sched' \in SchedType /\ SchedInv(sched') /\ SameSleepers(sched, sched')
  BY <1>1, <1>2, TimerSound, Zenon
<1>4. pc[sched.cur] = "hlt" => sched.cur = Idle
  BY <1>1, SchedRecord DEF IInv, ThreadInv
<1> QED BY <1>2, <1>3, <1>4, SchedStep

\* idle()'s thread_block() keeps the invariant.
LEMMA IdleBlockInv ==
    ASSUME IInv, IdleBlock
    PROVE  IInv'
<1>1. sched \in SchedType /\ SchedInv(sched)
  BY DEF IInv, TypeOK, SchedulerSound
<1>2. /\ sched' = thread_block(sched, "BLOCKED") /\ lock' = lock /\ arg' = arg
      /\ pc' = [pc EXCEPT ![Idle] = "hlt"] /\ sched.cur = Idle
  BY DEF IdleBlock, Goto, Running
<1>3. "BLOCKED" \in Asleep
  BY DEF Asleep
<1>4. sched' \in SchedType /\ SchedInv(sched') /\ FallsAsleep(sched, sched', "BLOCKED")
  BY <1>1, <1>2, <1>3, BlockSound, Zenon
<1>5. SameSleepers(sched, sched')
  BY <1>2, <1>4 DEF SameSleepers, FallsAsleep
<1> QED BY <1>2, <1>4, <1>5, SchedStep

-----------------------------------------------------------------------------
(* sema_down() and sema_up()                                               *)

\* One pass of sema_down(), whether it sleeps or takes the semaphore, keeps the
\* invariant, and its ASSERTs hold.
LEMMA DownInv ==
    ASSUME IInv, NEW t \in Workers, Down(t)
    PROVE  IInv'
<1>1. Running(t) /\ pc[t] \in {"down", "asleep"} /\ arg' = arg
  BY DEF Down
<1>2. /\ t \in Threads /\ t # Idle /\ t = sched.cur /\ sched.status[t] = "RUNNING"
      /\ sched \in SchedType /\ SchedInv(sched) /\ lock \in [Locks -> LockType]
      /\ arg[t] \in Locks
  BY <1>1, AtLabel
<1>3. PICK l \in Locks : arg[t] = l
  BY <1>2
<1>4. /\ HoldInv(t, l) /\ LockInv(l) /\ lock[l].sema \in SemaType
      /\ lock[l].sema.waiters \in Seq(Threads)
  BY <1>2, LockRecord DEF IInv
<1>5. t \notin Range(lock[l].sema.waiters) /\ lock[l].holder # t
  BY <1>1, <1>2, <1>3, <1>4 DEF HoldInv
<1>6. CASE lock[l].sema.value = 0
  <2> DEFINE w == Append(lock[l].sema.waiters, t)
  <2>1. /\ sched' = thread_block(sched, "BLOCKED")
        /\ lock' = [lock EXCEPT ![l].sema = [lock[l].sema EXCEPT !.waiters = w]]
        /\ pc' = [pc EXCEPT ![t] = "asleep"]
    BY <1>2, <1>3, <1>5, <1>6 DEF Down, sema_down, sema_sleep, Goto
  <2>2. w \in Seq(Threads) /\ Range(w) = Range(lock[l].sema.waiters) \cup {t} /\ NoDup(w)
    BY <1>2, <1>4, <1>5, AppendTag DEF LockInv
  <2> HIDE DEF w
  <2>3. [lock[l].sema EXCEPT !.waiters = w] = [value |-> 0, waiters |-> w]
    BY <1>4, <1>6 DEF SemaType
  <2>4. /\ lock' \in [Locks -> LockType]
        /\ \A m \in Locks : /\ lock'[m].holder = lock[m].holder /\ lock'[m].repeat = lock[m].repeat
                            /\ m # l => lock'[m].sema = lock[m].sema
        /\ lock'[l].sema.value = 0 /\ lock'[l].sema.waiters = w
    <3>1. [value |-> 0, waiters |-> w] \in SemaType
      BY <2>2 DEF SemaType
    <3> QED BY <1>2, <2>1, <2>3, <3>1 DEF LockType
  <2>5. "BLOCKED" \in Asleep
    BY DEF Asleep
  <2>6. sched' \in SchedType /\ SchedInv(sched') /\ FallsAsleep(sched, sched', "BLOCKED")
    BY <1>2, <2>1, <2>5, BlockSound, Zenon
  <2>7. TypeOK' /\ \A u \in Threads : pc'[u] = IF u = t THEN "asleep" ELSE pc[u]
    BY <1>1, <1>2, <2>1, <2>4, <2>6 DEF IInv, TypeOK
  <2>8. \A u \in Threads \ {Idle} : \A st \in {"BLOCKED", "WAITING", "HANGING", "DIED"} :
           sched'.status[u] = st <=> IF u = t THEN st = "BLOCKED" ELSE sched.status[u] = st
    BY <1>2, <2>6 DEF FallsAsleep, Asleep
  <2>9. ASSUME NEW u \in Threads PROVE ThreadInv(u)'
    <3>1. ThreadInv(u) /\ ThreadInv(t)
      BY <1>2 DEF IInv
    <3> QED BY <1>1, <1>2, <1>3, <2>7, <2>8, <3>1, LocksAssumption DEF ThreadInv
  <2>10. ASSUME NEW u \in Threads, NEW m \in Locks
         PROVE  HoldInv(u, m)' /\ (Inside(u, m)' <=> Inside(u, m))
    <3>1. HoldInv(u, m) /\ ThreadInv(u)
      BY DEF IInv
    <3>2. Inside(u, m)' <=> Inside(u, m)
      BY <1>1, <2>4, <2>7 DEF Inside
    <3>3. CASE u = t /\ m = l
      <4>1. t \in Range(lock'[l].sema.waiters) /\ sched'.status[t] = "BLOCKED"
        BY <1>2, <2>2, <2>4, <2>8
      <4> QED BY <1>1, <1>2, <1>3, <1>5, <2>4, <2>7, <3>1, <3>2, <3>3, <4>1 DEF HoldInv
    <3>4. CASE u = t /\ m # l
      BY <1>1, <1>2, <1>3, <2>4, <2>7, <2>8, <3>1, <3>2, <3>4 DEF HoldInv
    <3>5. CASE u # t
      <4>1. u \in Range(lock'[m].sema.waiters) <=> u \in Range(lock[m].sema.waiters)
        BY <2>2, <2>4, <3>5
      <4>2. pc'[u] = pc[u] /\ lock'[m].sema.value = lock[m].sema.value
        BY <1>6, <2>4, <2>7, <3>5
      <4>3. u # Idle => (sched'.status[u] = "BLOCKED" <=> sched.status[u] = "BLOCKED")
        BY <2>8, <3>5
      <4> QED BY <1>1, <2>4, <3>1, <3>2, <4>1, <4>2, <4>3 DEF HoldInv
    <3> QED BY <3>3, <3>4, <3>5
  <2>11. SchedulerSound' /\ MutualExclusion'
    BY <2>6, <2>10 DEF IInv, SchedulerSound, MutualExclusion
  <2>12. ASSUME NEW m \in Locks PROVE LockInv(m)'
    <3>1. LockInv(m)
      BY DEF IInv
    <3> QED BY <1>4, <2>2, <2>4, <3>1 DEF LockInv
  <2>13. NoLostWakeup'
    <3> SUFFICES ASSUME NEW m \in Locks
                 PROVE  /\ lock'[m].sema.value = 0 => \E u \in Threads : Inside(u, m)'
                        /\ lock'[m].sema.value = 1 /\ lock'[m].sema.waiters # <<>> =>
                              \E u \in Threads : /\ pc'[u] = "asleep" /\ arg'[u] = m
                                                 /\ sched'.status[u] \in {"READY", "RUNNING"}
      BY DEF NoLostWakeup
    <3>1. /\ lock[m].sema.value = 0 => \E u \in Threads : Inside(u, m)
          /\ lock[m].sema.value = 1 /\ lock[m].sema.waiters # <<>> =>
                \E u \in Threads : /\ pc[u] = "asleep" /\ arg[u] = m
                                   /\ sched.status[u] \in {"READY", "RUNNING"}
      BY DEF IInv, NoLostWakeup
    <3>2. CASE m = l
      BY <1>6, <2>4, <2>10, <3>1, <3>2
    <3>3. CASE m # l
      <4>1. ASSUME NEW u \in Threads, pc[u] = "asleep", arg[u] = m,
                   sched.status[u] \in {"READY", "RUNNING"}
            PROVE  pc'[u] = "asleep" /\ sched'.status[u] \in {"READY", "RUNNING"}
        <5>1. u # t /\ u # Idle
          BY <1>3, <3>3, <4>1 DEF IInv, ThreadInv
        <5>2. sched'.status[u] \in Status /\ sched'.status[u] \notin {"BLOCKED", "WAITING", "HANGING", "DIED"}
          BY <2>6, <2>8, <4>1, <5>1, SchedRecord
        <5> QED BY <2>7, <4>1, <5>1, <5>2 DEF Status
      <4> QED BY <1>1, <2>4, <2>10, <3>1, <3>3, <4>1
    <3> QED BY <3>2, <3>3
  <2> QED BY <2>7, <2>9, <2>10, <2>11, <2>12, <2>13 DEF IInv
<1>7. CASE lock[l].sema.value = 1
  <2>1. /\ sched' = sched /\ pc' = [pc EXCEPT ![t] = "own"]
        /\ lock' = [lock EXCEPT ![l].sema = [lock[l].sema EXCEPT !.value = 1 - 1]]
    BY <1>3, <1>7 DEF Down, sema_down, sema_take, Goto
  <2>2. [lock[l].sema EXCEPT !.value = 1 - 1] = [value |-> 0, waiters |-> lock[l].sema.waiters]
    BY <1>4 DEF SemaType
  <2>3. /\ lock' \in [Locks -> LockType]
        /\ \A m \in Locks : /\ lock'[m].holder = lock[m].holder /\ lock'[m].repeat = lock[m].repeat
                            /\ m # l => lock'[m].sema = lock[m].sema
        /\ lock'[l].sema.value = 0 /\ lock'[l].sema.waiters = lock[l].sema.waiters
    <3>1. [value |-> 0, waiters |-> lock[l].sema.waiters] \in SemaType
      BY <1>4 DEF SemaType
    <3> QED BY <1>2, <2>1, <2>2, <3>1 DEF LockType
  <2>4. TypeOK' /\ \A u \in Threads : pc'[u] = IF u = t THEN "own" ELSE pc[u]
    BY <1>1, <1>2, <2>1, <2>3 DEF IInv, TypeOK
  <2>5. lock[l].holder = NULL /\ lock[l].repeat = 0
    BY <1>4, <1>7 DEF LockInv
  <2>6. \A u \in Threads : ~Inside(u, l)
    BY <1>7 DEF IInv, HoldInv
  <2>7. ASSUME NEW u \in Threads PROVE ThreadInv(u)'
    <3>1. ThreadInv(u)
      BY DEF IInv
    <3> QED BY <1>1, <1>2, <1>3, <2>1, <2>4, <3>1 DEF ThreadInv
  <2>8. \A u \in Threads, m \in Locks : Inside(u, m)' <=> Inside(u, m) \/ (u = t /\ m = l)
    BY <1>1, <1>3, <2>3, <2>4 DEF Inside
  <2>9. ASSUME NEW u \in Threads, NEW m \in Locks PROVE HoldInv(u, m)'
    <3>1. HoldInv(u, m)
      BY DEF IInv
    <3>2. u \in Range(lock'[m].sema.waiters) <=> u \in Range(lock[m].sema.waiters)
      BY <2>3
    <3>3. Inside(u, m)' => lock'[m].sema.value = 0
      BY <2>3, <2>8, <3>1 DEF HoldInv
    <3>4. CASE u = t
      BY <1>1, <1>2, <1>3, <2>1, <2>3, <2>4, <2>5, <3>1, <3>2, <3>3, <3>4 DEF HoldInv
    <3>5. CASE u # t
      BY <1>1, <2>1, <2>3, <2>4, <3>1, <3>2, <3>3, <3>5 DEF HoldInv
    <3> QED BY <3>4, <3>5
  <2>10. SchedulerSound' /\ MutualExclusion'
    BY <2>1, <2>6, <2>8 DEF IInv, SchedulerSound, MutualExclusion
  <2>11. ASSUME NEW m \in Locks PROVE LockInv(m)'
    <3>1. LockInv(m)
      BY DEF IInv
    <3> QED BY <2>3, <3>1 DEF LockInv
  <2>12. NoLostWakeup'
    <3> SUFFICES ASSUME NEW m \in Locks
                 PROVE  /\ lock'[m].sema.value = 0 => \E u \in Threads : Inside(u, m)'
                        /\ lock'[m].sema.value = 1 /\ lock'[m].sema.waiters # <<>> =>
                              \E u \in Threads : /\ pc'[u] = "asleep" /\ arg'[u] = m
                                                 /\ sched'.status[u] \in {"READY", "RUNNING"}
      BY DEF NoLostWakeup
    <3>1. /\ lock[m].sema.value = 0 => \E u \in Threads : Inside(u, m)
          /\ lock[m].sema.value = 1 /\ lock[m].sema.waiters # <<>> =>
                \E u \in Threads : /\ pc[u] = "asleep" /\ arg[u] = m
                                   /\ sched.status[u] \in {"READY", "RUNNING"}
      BY DEF IInv, NoLostWakeup
    <3>2. CASE m = l
      BY <1>2, <2>3, <2>8, <3>2
    <3>3. CASE m # l
      BY <1>1, <1>3, <2>1, <2>3, <2>4, <2>8, <3>1, <3>3
    <3> QED BY <3>2, <3>3
  <2> QED BY <2>4, <2>7, <2>9, <2>10, <2>11, <2>12 DEF IInv
<1> QED BY <1>4, <1>6, <1>7 DEF LockInv

\* lock_release()'s sema_up(): the lock becomes free and its longest sleeper
\* READY.
LEMMA UpInv ==
    ASSUME IInv, NEW t \in Workers, Up(t)
    PROVE  IInv'
<1>1. Running(t) /\ pc[t] = "up" /\ pc' = [pc EXCEPT ![t] = "run"] /\ arg' = [arg EXCEPT ![t] = NULL]
  BY DEF Up, Return, Goto
<1>2. /\ t \in Threads /\ t # Idle /\ t = sched.cur /\ sched.status[t] = "RUNNING"
      /\ sched \in SchedType /\ SchedInv(sched) /\ lock \in [Locks -> LockType]
      /\ arg[t] \in Locks
  BY <1>1, AtLabel
<1>3. PICK l \in Locks : arg[t] = l
  BY <1>2
<1> DEFINE s == lock[l].sema
           woken == IF s.waiters = <<>> THEN {} ELSE {Head(s.waiters)}
           rest == IF s.waiters = <<>> THEN <<>> ELSE Tail(s.waiters)
<1>4. Inside(t, l) /\ HoldInv(t, l) /\ LockInv(l) /\ s \in SemaType /\ s.waiters \in Seq(Threads)
  BY <1>1, <1>2, <1>3, LockRecord DEF Inside, IInv
<1>5. s.value = 0 /\ lock[l].holder = NULL /\ lock[l].repeat = 0
  BY <1>1, <1>3, <1>4 DEF HoldInv
<1>6. \A u \in Threads : u # t => ~Inside(u, l)
  BY <1>2, <1>4, InsideFacts
<1>7. /\ rest \in Seq(Threads) /\ NoDup(rest) /\ Range(rest) = Range(s.waiters) \ woken
      /\ woken \subseteq Range(s.waiters)
  <2>1. CASE s.waiters = <<>>
    BY <1>4, <2>1 DEF LockInv
  <2>2. CASE s.waiters # <<>>
    BY <1>4, <2>2, PopTag DEF LockInv
  <2> QED BY <2>1, <2>2
<1>8. \A u \in woken : u \in Threads /\ u # Idle /\ pc[u] = "asleep" /\ arg[u] = l
                       /\ sched.status[u] = "BLOCKED"
  <2> SUFFICES ASSUME NEW u \in woken
               PROVE  u \in Threads /\ u # Idle /\ pc[u] = "asleep" /\ arg[u] = l
                      /\ sched.status[u] = "BLOCKED"
    OBVIOUS
  <2>1. u \in Range(s.waiters) /\ u \in Threads
    BY <1>4, <1>7, RangeOfSeq
  <2>2. HoldInv(u, l)
    BY <2>1 DEF IInv
  <2> QED BY <2>1, <2>2 DEF HoldInv
<1>9. /\ sched' \in SchedType /\ SchedInv(sched')
      /\ \A u \in Threads : sched'.status[u] = IF u \in woken THEN "READY" ELSE sched.status[u]
      /\ lock' = [lock EXCEPT ![l].sema = [value |-> 1, waiters |-> rest]]
  <2>1. CASE s.waiters = <<>>
    <3>1. sched' = sched /\ lock' = [lock EXCEPT ![l].sema = [s EXCEPT !.value = 1]]
      BY <1>3, <1>5, <2>1 DEF Up, sema_up
    <3>2. [s EXCEPT !.value = 1] = [value |-> 1, waiters |-> s.waiters]
      BY <1>4 DEF SemaType
    <3> QED BY <1>2, <2>1, <3>1, <3>2
  <2>2. CASE s.waiters # <<>>
    <3>1. /\ sched' = thread_unblock(sched, Head(s.waiters))
          /\ lock' = [lock EXCEPT ![l].sema = [value |-> 1, waiters |-> Tail(s.waiters)]]
      BY <1>3, <1>5, <2>2 DEF Up, sema_up
    <3>2. Head(s.waiters) \in Threads /\ sched.status[Head(s.waiters)] \in Asleep
      BY <1>8, <2>2 DEF Asleep
    <3>3. /\ sched' \in SchedType /\ SchedInv(sched')
          /\ \A u \in Threads : sched'.status[u] =
                IF u = Head(s.waiters) THEN "READY" ELSE sched.status[u]
      BY <1>2, <3>1, <3>2, WakeSound, ZenonT(30)
    <3> QED BY <2>2, <3>1, <3>3
  <2> QED BY <2>1, <2>2
<1> HIDE DEF woken, rest
<1>10. /\ lock' \in [Locks -> LockType]
       /\ \A m \in Locks : /\ lock'[m].holder = lock[m].holder /\ lock'[m].repeat = lock[m].repeat
                           /\ m # l => lock'[m].sema = lock[m].sema
       /\ lock'[l].sema.value = 1 /\ lock'[l].sema.waiters = rest
  <2>1. [value |-> 1, waiters |-> rest] \in SemaType
    BY <1>7 DEF SemaType
  <2> QED BY <1>2, <1>9, <2>1 DEF LockType
<1>11. TypeOK' /\ \A u \in Threads : /\ pc'[u] = IF u = t THEN "run" ELSE pc[u]
                                     /\ arg'[u] = IF u = t THEN NULL ELSE arg[u]
  BY <1>1, <1>2, <1>9, <1>10 DEF IInv, TypeOK
<1>12. ASSUME NEW u \in Threads PROVE ThreadInv(u)'
  <2>1. ThreadInv(u)
    BY DEF IInv
  <2> QED BY <1>1, <1>2, <1>8, <1>9, <1>11, <2>1 DEF ThreadInv
<1>13. ASSUME NEW u \in Threads, NEW m \in Locks
       PROVE  Inside(u, m)' <=> Inside(u, m) /\ ~(u = t /\ m = l)
  <2>1. lock[l].holder # t
    BY <1>2, <1>5, SyncAssumption
  <2>2. lock'[m].holder = lock[m].holder
    BY <1>10
  <2>3. CASE u # t
    <3>1. pc'[u] = pc[u] /\ arg'[u] = arg[u]
      BY <1>11, <2>3
    <3> QED BY <2>2, <2>3, <3>1 DEF Inside
  <2>4. CASE u = t
    <3>1. pc'[u] = "run" /\ pc[u] = "up" /\ arg[u] = l
      BY <1>1, <1>3, <1>11, <2>4
    <3> QED BY <2>1, <2>2, <2>4, <3>1 DEF Inside
  <2> QED BY <2>3, <2>4
<1>14. ASSUME NEW u \in Threads, NEW m \in Locks PROVE HoldInv(u, m)'
  <2>1. HoldInv(u, m) /\ t \notin woken
    BY <1>1, <1>8 DEF IInv
  <2>2. CASE u = t
    <3>1. arg'[t] # m /\ t \notin Range(lock'[m].sema.waiters)
      BY <1>2, <1>7, <1>10, <1>11, <2>1, <2>2, LocksAssumption DEF HoldInv
    <3>2. lock'[m].holder = t => m # l
      BY <1>2, <1>5, <1>10, SyncAssumption
    <3> QED BY <1>1, <1>2, <1>3, <1>9, <1>10, <1>11, <1>13, <2>1, <2>2, <3>1, <3>2 DEF HoldInv
  <2>3. CASE u # t /\ m # l
    <3>1. u \in woken => arg[u] # m
      BY <1>8, <2>3
    <3> QED BY <1>9, <1>10, <1>11, <1>13, <2>1, <2>3, <3>1 DEF HoldInv
  <2>4. CASE u # t /\ m = l
    <3>1. ~Inside(u, l) /\ ~Inside(u, l)'
      BY <1>6, <1>13, <2>4
    <3>2. u \in Range(lock'[l].sema.waiters) <=> u \in Range(lock[l].sema.waiters) /\ u \notin woken
      BY <1>7, <1>10
    <3> QED BY <1>9, <1>10, <1>11, <2>1, <2>4, <3>1, <3>2 DEF HoldInv, Inside
  <2> QED BY <2>2, <2>3, <2>4
<1>15. SchedulerSound' /\ MutualExclusion'
  BY <1>9, <1>13 DEF IInv, SchedulerSound, MutualExclusion
<1>16. ASSUME NEW m \in Locks PROVE LockInv(m)'
  <2>1. LockInv(m)
    BY DEF IInv
  <2> QED BY <1>5, <1>7, <1>10, <2>1 DEF LockInv
<1>17. NoLostWakeup'
  <2> SUFFICES ASSUME NEW m \in Locks
               PROVE  /\ lock'[m].sema.value = 0 => \E u \in Threads : Inside(u, m)'
                      /\ lock'[m].sema.value = 1 /\ lock'[m].sema.waiters # <<>> =>
                            \E u \in Threads : /\ pc'[u] = "asleep" /\ arg'[u] = m
                                               /\ sched'.status[u] \in {"READY", "RUNNING"}
    BY DEF NoLostWakeup
  <2>1. /\ lock[m].sema.value = 0 => \E u \in Threads : Inside(u, m)
        /\ lock[m].sema.value = 1 /\ lock[m].sema.waiters # <<>> =>
              \E u \in Threads : /\ pc[u] = "asleep" /\ arg[u] = m
                                 /\ sched.status[u] \in {"READY", "RUNNING"}
    BY DEF IInv, NoLostWakeup
  <2>2. CASE m = l
    <3>1. rest # <<>> => woken # {}
      BY DEF rest, woken
    <3>2. \A u \in woken : u \in Threads /\ u # t /\ pc'[u] = "asleep" /\ arg'[u] = l
                           /\ sched'.status[u] = "READY"
      BY <1>1, <1>8, <1>9, <1>11
    <3> QED BY <1>10, <2>2, <3>1, <3>2
  <2>3. CASE m # l
    <3>1. ASSUME NEW u \in Threads, pc[u] = "asleep", arg[u] = m,
                 sched.status[u] \in {"READY", "RUNNING"}
          PROVE  pc'[u] = "asleep" /\ arg'[u] = m /\ sched'.status[u] \in {"READY", "RUNNING"}
      BY <1>1, <1>9, <1>11, <3>1
    <3> QED BY <1>10, <1>13, <2>1, <2>3, <3>1
  <2> QED BY <2>2, <2>3
<1> QED BY <1>11, <1>12, <1>14, <1>15, <1>16, <1>17 DEF IInv

-----------------------------------------------------------------------------
(* The invariant and what follows from it                                  *)

\* After thread_init() the invariant holds: every lock is free and the threads
\* other than the running one are READY in the order they were created.
LEMMA InitInv == Init => IInv
<1> SUFFICES ASSUME Init PROVE IInv
  OBVIOUS
<1>1. /\ sched.status = [t \in Threads |-> IF t = Main THEN "RUNNING" ELSE "READY"]
      /\ sched.ready = BootOrder /\ sched.cur = Main /\ sched.ticks = Priority
      /\ sched.panic = FALSE
  BY DEF Init
<1>2. /\ lock \in [Locks -> LockType]
      /\ \A l \in Locks : /\ lock[l].holder = NULL /\ lock[l].repeat = 0
                          /\ lock[l].sema.value = 1 /\ lock[l].sema.waiters = <<>>
  BY DEF Init, lock_init, sema_init, LockType, SemaType
<1>3. \A t \in Threads : /\ pc[t] = IF t = Idle THEN "idle" ELSE "run"
                         /\ arg[t] = NULL
                         /\ sched.status[t] = IF t = Main THEN "RUNNING" ELSE "READY"
  BY <1>1 DEF Init
<1>4. TypeOK
  <2>1. sched \in SchedType
    BY ThreadAssumption, LocksAssumption DEF Init, SchedType, Status
  <2> QED BY <1>2, <2>1 DEF Init, TypeOK
<1>5. SchedulerSound
  <2>1. OneRunning(sched) /\ ReadyListed(sched)
    BY <1>1, <1>3, LocksAssumption DEF OneRunning, ReadyListed
  <2>2. IdleWakeable(sched)
    BY <1>3, ThreadAssumption DEF IdleWakeable
  <2> QED BY <1>1, <2>1, <2>2, LocksAssumption DEF SchedulerSound, SchedInv
<1>6. \A t \in Threads : ThreadInv(t)
  BY <1>3 DEF ThreadInv
<1>7. \A l \in Locks : LockInv(l)
  BY <1>2 DEF LockInv, NoDup, IsInjective
<1>8. \A t \in Threads, l \in Locks : ~Inside(t, l)
  BY <1>2, <1>3, SyncAssumption DEF Inside
<1>9. \A t \in Threads, l \in Locks : HoldInv(t, l)
  <2>1. \A l \in Locks : Range(lock[l].sema.waiters) = {}
    BY <1>2 DEF Range
  <2> QED BY <1>2, <1>3, <1>8, <2>1, SyncAssumption DEF HoldInv
<1>10. MutualExclusion /\ NoLostWakeup
  BY <1>2, <1>8 DEF MutualExclusion, NoLostWakeup
<1> QED BY <1>4, <1>5, <1>6, <1>7, <1>9, <1>10 DEF IInv

\* Every step of the threads, the idle thread and the timer keeps the invariant.
LEMMA NextInv == IInv /\ [Next]_vars => IInv'
<1> SUFFICES ASSUME IInv, [Next]_vars PROVE IInv'
  OBVIOUS
<1>1. CASE Tick
  BY <1>1, TickInv
<1>2. CASE IdleBlock
  BY <1>2, IdleBlockInv
<1>3. ASSUME NEW t \in Workers, Step(t) PROVE IInv'
  BY <1>3, AgainInv, DownInv, OwnInv, CountInv, DisownInv, ZeroInv, UpInv DEF Step
<1>4. ASSUME NEW t \in Workers, Yield(t) PROVE IInv'
  BY <1>4, YieldInv
<1>5. ASSUME NEW t \in Workers, NEW l \in Locks, Acquire(t, l) PROVE IInv'
  BY <1>5, AcquireInv
<1>6. ASSUME NEW t \in Workers, NEW l \in Locks, Release(t, l) PROVE IInv'
  BY <1>6, ReleaseInv
<1>7. CASE UNCHANGED vars
  <2>1. sched' = sched /\ lock' = lock /\ pc' = pc /\ arg' = arg
    BY <1>7 DEF vars
  <2>2. TypeOK' /\ SchedulerSound'
    BY <2>1 DEF IInv, TypeOK, SchedulerSound
  <2>3. \A t \in Threads, l \in Locks : Inside(t, l)' <=> Inside(t, l)
    BY <2>1 DEF Inside
  <2>4. \A t \in Threads : ThreadInv(t)'
    BY <2>1 DEF IInv, ThreadInv
  <2>5. \A l \in Locks : LockInv(l)'
    BY <2>1 DEF IInv, LockInv
  <2>6. ASSUME NEW t \in Threads, NEW l \in Locks PROVE HoldInv(t, l)'
    <3>1. HoldInv(t, l)
      BY DEF IInv
    <3> QED BY <2>1, <2>3, <3>1 DEF HoldInv
  <2>7. MutualExclusion'
    BY <2>3 DEF IInv, MutualExclusion
  <2>8. NoLostWakeup'
    BY <2>1, <2>3 DEF IInv, NoLostWakeup
  <2> QED BY <2>2, <2>4, <2>5, <2>6, <2>7, <2>8 DEF IInv
<1> QED BY <1>1, <1>2, <1>3, <1>4, <1>5, <1>6, <1>7 DEF Next

\* IInv is an invariant of the locks under the scheduler.
THEOREM Invariant == Spec => []IInv
<1> QED BY InitInv, NextInv, PTL DEF Spec

\* Type correctness of the PCBs, the ready list and the locks.
THEOREM TypeCorrect == Spec => []TypeOK
<1>1. IInv => TypeOK
  BY DEF IInv
<1> QED BY Invariant, <1>1, PTL

\* No ASSERT or PANIC of thread.c and sync.c is ever reached, one thread is
\* RUNNING, and the ready list links the READY threads, each once.
THEOREM SchedulerAlwaysSound == Spec => []SchedulerSound
<1>1. IInv => SchedulerSound
  BY DEF IInv
<1> QED BY Invariant, <1>1, PTL

\* lock_acquire() and lock_release() give mutual exclusion although they work on
\* holder and holder_repeat_nr with interrupts on.
THEOREM LocksExclude == Spec => []MutualExclusion
<1>1. IInv => MutualExclusion
  BY DEF IInv
<1> QED BY Invariant, <1>1, PTL

\* sema_up() and sema_down() lose no wakeup.
THEOREM WakeupsKept == Spec => []NoLostWakeup
<1>1. IInv => NoLostWakeup
  BY DEF IInv
<1> QED BY Invariant, <1>1, PTL

\* general_tag is never linked in two lists, nor twice in one.
THEOREM TagsInOneList == Spec => []TagInOneList
<1>1. IInv => TagInOneList
  <2> SUFFICES ASSUME IInv PROVE TagInOneList
    OBVIOUS
  <2>1. lock \in [Locks -> LockType]
    BY DEF IInv, TypeOK
  <2>2. \A l \in Locks : NoDup(lock[l].sema.waiters)
    BY DEF IInv, LockInv
  <2>3. ASSUME NEW l \in Locks, NEW t \in Range(lock[l].sema.waiters)
        PROVE  t \in Threads /\ arg[t] = l /\ sched.status[t] = "BLOCKED"
    <3>1. t \in Threads
      BY <2>1, LockRecord, RangeOfSeq
    <3> QED BY <3>1 DEF IInv, HoldInv
  <2>4. \A t \in Threads : sched.status[t] = "BLOCKED" => t \notin Range(sched.ready)
    BY DEF IInv, SchedulerSound, SchedInv, ReadyListed
  <2> QED BY <2>2, <2>3, <2>4 DEF TagInOneList
<1> QED BY Invariant, <1>1, PTL
=============================================================================
