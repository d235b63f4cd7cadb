----------------------------- MODULE ThreadProofs ---------------------------
(***************************************************************************)
(* Lemmas about the scheduler primitives of module Thread: each of them    *)
(* takes a sound scheduler record to a sound one, fires no ASSERT, and     *)
(* puts only the running thread to sleep.                                  *)
(***************************************************************************)
EXTENDS Thread, SequenceTheorems, TLAPS

-----------------------------------------------------------------------------
(* thread_ready_list and the waiters lists as duplicate-free sequences     *)

\* list_append(): one more element, at the end; no duplicate arises when the
\* element was not linked.
LEMMA AppendTag ==
    ASSUME NEW S, NEW s \in Seq(S), NEW e \in S
    PROVE  /\ Append(s, e) \in Seq(S)
           /\ Append(s, e) # <<>>
           /\ Range(Append(s, e)) = Range(s) \cup {e}
           /\ NoDup(s) /\ e \notin Range(s) => NoDup(Append(s, e))
<1> DEFINE a == Append(s, e)
<1>1. a \in Seq(S) /\ a # <<>> /\ Len(a) = Len(s) + 1 /\ Len(s) \in Nat
      /\ (\A i \in 1..Len(s) : a[i] = s[i]) /\ a[Len(s) + 1] = e
  BY AppendProperties, LenProperties
<1>2. DOMAIN a = 1..(Len(s) + 1) /\ DOMAIN s = 1..Len(s)
  BY <1>1, LenProperties
<1> HIDE DEF a
<1>3. Range(a) = Range(s) \cup {e}
  <2>1. \A x \in Range(a) : x \in Range(s) \cup {e}
    BY <1>1, <1>2 DEF Range
  <2>2. \A x \in Range(s) : x \in Range(a)
    BY <1>1, <1>2 DEF Range
  <2>3. e \in Range(a)
    BY <1>1, <1>2 DEF Range
  <2> QED BY <2>1, <2>2, <2>3
<1>4. NoDup(s) /\ e \notin Range(s) => NoDup(a)
  BY <1>1, <1>2 DEF Range, NoDup, IsInjective
<1> QED BY <1>1, <1>3, <1>4 DEF a

\* list_push(): one more element, at the front.
LEMMA PushTag ==
    ASSUME NEW S, NEW s \in Seq(S), NEW e \in S
    PROVE  /\ <<e>> \o s \in Seq(S)
           /\ <<e>> \o s # <<>>
           /\ Head(<<e>> \o s) = e
           /\ Range(<<e>> \o s) = Range(s) \cup {e}
           /\ NoDup(s) /\ e \notin Range(s) => NoDup(<<e>> \o s)
<1> DEFINE a == <<e>> \o s
<1>0. <<e>> \in Seq(S) /\ Len(<<e>>) = 1 /\ <<e>>[1] = e
  OBVIOUS
<1>1. a \in Seq(S) /\ Len(a) = 1 + Len(s) /\ Len(s) \in Nat
      /\ a[1] = e /\ (\A i \in 1..Len(s) : a[i + 1] = s[i])
  <2>1. a \in Seq(S) /\ Len(a) = 1 + Len(s)
        /\ \A i \in 1..(1 + Len(s)) : a[i] = IF i <= 1 THEN <<e>>[i] ELSE s[i - 1]
    BY <1>0, ConcatProperties
  <2>2. Len(s) \in Nat
    BY LenProperties
  <2> HIDE DEF a
  <2> QED BY <2>1, <2>2, <1>0
<1>2. DOMAIN a = 1..(Len(s) + 1) /\ DOMAIN s = 1..Len(s)
  BY <1>1, LenProperties
<1> HIDE DEF a
<1>3. a # <<>> /\ Head(a) = e
  BY <1>1
<1>4. Range(a) = Range(s) \cup {e}
  <2>1. \A x \in Range(a) : x \in Range(s) \cup {e}
    <3> SUFFICES ASSUME NEW i \in 1..(Len(s) + 1) PROVE a[i] \in Range(s) \cup {e}
      BY <1>2 DEF Range
    <3>1. CASE i = 1
      BY <3>1, <1>1
    <3>2. CASE i # 1
      <4>1. i - 1 \in 1..Len(s) /\ a[(i - 1) + 1] = s[i - 1] /\ (i - 1) + 1 = i
        BY <3>2, <1>1
      <4> QED BY <4>1, <1>2 DEF Range
    <3> QED BY <3>1, <3>2
  <2>2. \A x \in Range(s) : x \in Range(a)
    BY <1>1, <1>2 DEF Range
  <2>3. e \in Range(a)
    BY <1>1, <1>2 DEF Range
  <2> QED BY <2>1, <2>2, <2>3
<1>5. ASSUME NoDup(s), e \notin Range(s) PROVE NoDup(a)
  <2> SUFFICES ASSUME NEW i \in 1..(Len(s) + 1), NEW j \in 1..(Len(s) + 1), a[i] = a[j]
               PROVE  i = j
    BY <1>2 DEF NoDup, IsInjective
  <2>1. \A n \in 2..(Len(s) + 1) : n - 1 \in 1..Len(s) /\ a[n] = s[n - 1]
    <3> TAKE n \in 2..(Len(s) + 1)
    <3>1. n - 1 \in 1..Len(s) /\ (n - 1) + 1 = n
      BY <1>1
    <3> QED BY <3>1, <1>1
  <2>2. \A n \in 2..(Len(s) + 1) : a[n] # e
    BY <2>1, <1>2, <1>5 DEF Range
  <2>3. CASE i = 1 \/ j = 1
    BY <2>2, <2>3, <1>1
  <2>4. CASE i # 1 /\ j # 1
    <3>1. i \in 2..(Len(s) + 1) /\ j \in 2..(Len(s) + 1)
      BY <2>4, <1>1
    <3>2. s[i - 1] = s[j - 1] /\ i - 1 \in DOMAIN s /\ j - 1 \in DOMAIN s
      BY <3>1, <2>1, <1>2
    <3>3. i - 1 = j - 1
      BY <3>2, <1>5 DEF NoDup, IsInjective
    <3> QED BY <3>3, <1>1
  <2> QED BY <2>3, <2>4
<1> QED BY <1>1, <1>3, <1>4, <1>5 DEF a

\* list_pop(): the first element leaves, the others stay in order.
LEMMA PopTag ==
    ASSUME NEW S, NEW s \in Seq(S), s # <<>>, NoDup(s)
    PROVE  /\ Head(s) \in Range(s)
           /\ Head(s) \in S
           /\ Tail(s) \in Seq(S)
           /\ NoDup(Tail(s))
           /\ Range(Tail(s)) = Range(s) \ {Head(s)}
<1> DEFINE r == Tail(s)
<1>1. Head(s) \in S /\ r \in Seq(S) /\ Len(r) = Len(s) - 1
      /\ (\A i \in 1..Len(r) : r[i] = s[i + 1])
  BY HeadTailProperties
<1>2. Len(s) \in Nat /\ Len(s) > 0 /\ Head(s) = s[1]
  BY LenProperties, EmptySeq
<1>3. DOMAIN r = 1..(Len(s) - 1) /\ DOMAIN s = 1..Len(s)
  BY <1>1, LenProperties
<1> HIDE DEF r
<1>4. Head(s) \in Range(s)
  BY <1>2, <1>3 DEF Range
<1>5. \A i \in 1..(Len(s) - 1) : r[i] = s[i + 1] /\ i + 1 \in 1..Len(s)
  BY <1>1, <1>2
<1>6. NoDup(r)
  <2> SUFFICES ASSUME NEW i \in 1..(Len(s) - 1), NEW j \in 1..(Len(s) - 1), r[i] = r[j]
               PROVE  i = j
    BY <1>3 DEF NoDup, IsInjective
  <2>1. i + 1 = j + 1
    BY <1>5, <1>3 DEF NoDup, IsInjective
  <2> QED BY <2>1, <1>2
<1>7. \A x \in Range(r) : x \in Range(s) \ {Head(s)}
  <2> SUFFICES ASSUME NEW i \in 1..(Len(s) - 1) PROVE r[i] \in Range(s) \ {s[1]}
    BY <1>3, <1>2 DEF Range
  <2>1. r[i] \in Range(s)
    BY <1>5, <1>3 DEF Range
  <2>2. i + 1 # 1 /\ 1 \in DOMAIN s /\ i + 1 \in DOMAIN s
    BY <1>5, <1>3, <1>2
  <2>3. s[i + 1] # s[1]
    BY <2>2 DEF NoDup, IsInjective
  <2> QED BY <2>1, <2>3, <1>5
<1>8. \A x \in Range(s) \ {Head(s)} : x \in Range(r)
  <2> SUFFICES ASSUME NEW i \in 1..Len(s), s[i] # s[1] PROVE s[i] \in Range(r)
    BY <1>3, <1>2 DEF Range
  <2>1. i - 1 \in 1..(Len(s) - 1) /\ (i - 1) + 1 = i
    BY <1>2
  <2>2. r[i - 1] = s[i]
    BY <2>1, <1>5
  <2> QED BY <2>1, <2>2, <1>3 DEF Range
<1> QED BY <1>1, <1>4, <1>6, <1>7, <1>8 DEF r

-----------------------------------------------------------------------------
(* The primitives on the scheduler record                                  *)

\* What holds when schedule() is entered: as SchedInv, except that the running
\* thread may already have given up the CPU.
PreSched(k) ==
    /\ \A t \in Threads : k.status[t] = "RUNNING" => t = k.cur
    /\ ReadyListed(k)
    /\ NoDup(k.ready)
    /\ IdleWakeable(k)
    /\ ~k.panic

\* k and n have the same sleeping threads, the idle thread aside
SameSleepers(k, n) ==
    \A t \in Threads \ {Idle} : \A st \in Asleep \cup {"DIED"} :
        n.status[t] = st <=> k.status[t] = st

\* in n the thread that ran in k sleeps in state stat; the other sleepers are
\* the same, the idle thread aside
FallsAsleep(k, n, stat) ==
    \A t \in Threads \ {Idle} : \A st \in Asleep \cup {"DIED"} :
        n.status[t] = st <=> IF t = k.cur THEN st = stat ELSE k.status[t] = st

\* a scheduler record is determined by its fields
LEMMA SchedRecord ==
    ASSUME NEW k \in SchedType
    PROVE  /\ k.status \in [Threads -> Status] /\ k.ready \in Seq(Threads)
           /\ k.cur \in Threads /\ k.ticks \in [Threads -> Nat] /\ k.panic \in BOOLEAN
BY DEF SchedType

\* thread_unblock() of a sleeping thread passes its ASSERTs, links it at the
\* front of the ready list and changes the status of no other thread.
LEMMA UnblockSound ==
    ASSUME NEW k \in SchedType, NEW t \in Threads,
           ReadyListed(k), NoDup(k.ready), ~k.panic, k.status[t] \in Asleep
    PROVE  LET n == thread_unblock(k, t) IN
           /\ n \in SchedType
           /\ n.status = [k.status EXCEPT ![t] = "READY"]
           /\ n.ready = <<t>> \o k.ready
           /\ n.cur = k.cur /\ n.ticks = k.ticks /\ ~n.panic
           /\ ReadyListed(n) /\ NoDup(n.ready)
           /\ n.ready # <<>>
<1> DEFINE n == thread_unblock(k, t)
<1>1. t \notin Range(k.ready)
  BY DEF ReadyListed, Asleep
<1>2. n = [k EXCEPT !.ready = <<t>> \o k.ready, !.status[t] = "READY"]
  BY <1>1 DEF thread_unblock
<1>3. n = [status |-> [k.status EXCEPT ![t] = "READY"], ready |-> <<t>> \o k.ready,
           cur |-> k.cur, ticks |-> k.ticks, panic |-> k.panic]
  BY <1>2 DEF SchedType
<1> HIDE DEF n
<1>4. /\ n.status = [k.status EXCEPT ![t] = "READY"] /\ n.ready = <<t>> \o k.ready
      /\ n.cur = k.cur /\ n.ticks = k.ticks /\ n.panic = k.panic
  BY <1>3
<1>5. /\ n.ready \in Seq(Threads) /\ n.ready # <<>>
      /\ Range(n.ready) = Range(k.ready) \cup {t} /\ NoDup(n.ready)
  BY <1>1, <1>4, SchedRecord, PushTag
<1>6. n \in SchedType
  <2>1. n.status \in [Threads -> Status]
    BY <1>4, SchedRecord DEF Status
  <2> QED BY <1>3, <1>4, <1>5, <2>1, SchedRecord DEF SchedType
<1>7. ReadyListed(n)
  BY <1>4, <1>5, SchedRecord DEF ReadyListed
<1> QED BY <1>4, <1>5, <1>6, <1>7 DEF n

\* schedule(): first part, the running thread goes to the back of the list.
LEMMA RequeueSound ==
    ASSUME NEW k \in SchedType, PreSched(k)
    PROVE  LET r == Requeue(k) IN
           /\ r \in SchedType /\ PreSched(r) /\ SameSleepers(k, r)
           /\ \A t \in Threads : r.status[t] # "RUNNING"
           /\ r.status[Idle] = "BLOCKED" <=> k.status[Idle] = "BLOCKED"
<1> DEFINE r == Requeue(k)
<1>1. CASE k.status[k.cur] # "RUNNING"
  <2>1. r = k
    BY <1>1 DEF Requeue
  <2> QED BY <1>1, <2>1 DEF PreSched, SameSleepers
<1>2. CASE k.status[k.cur] = "RUNNING"
  <2>1. k.cur \in Threads /\ k.cur \notin Range(k.ready)
    BY <1>2, SchedRecord DEF PreSched, ReadyListed
  <2>2. r = [k EXCEPT !.ready = Append(k.ready, k.cur),
                      !.ticks[k.cur] = Priority[k.cur],
                      !.status[k.cur] = "READY"]
    BY <1>2, <2>1 DEF Requeue
  <2>3. r = [status |-> [k.status EXCEPT ![k.cur] = "READY"],
             ready |-> Append(k.ready, k.cur), cur |-> k.cur,
             ticks |-> [k.ticks EXCEPT ![k.cur] = Priority[k.cur]], panic |-> k.panic]
    BY <2>2 DEF SchedType
  <2> HIDE DEF r
  <2>4. /\ r.status = [k.status EXCEPT ![k.cur] = "READY"]
        /\ r.ready = Append(k.ready, k.cur) /\ r.cur = k.cur
        /\ r.ticks = [k.ticks EXCEPT ![k.cur] = Priority[k.cur]] /\ r.panic = k.panic
    BY <2>3
  <2>5. /\ r.ready \in Seq(Threads) /\ Range(r.ready) = Range(k.ready) \cup {k.cur}
        /\ NoDup(r.ready)
    BY <2>1, <2>4, SchedRecord, AppendTag DEF PreSched
  <2>6. r \in SchedType
    <3>1. r.status \in [Threads -> Status]
      BY <2>4, SchedRecord DEF Status
    <3>2. r.ticks \in [Threads -> Nat]
      BY <2>4, <2>1, SchedRecord, ThreadAssumption
    <3> QED BY <2>3, <2>4, <2>5, <3>1, <3>2, SchedRecord DEF SchedType
  <2>7. \A t \in Threads : r.status[t] = IF t = k.cur THEN "READY" ELSE k.status[t]
    BY <2>4, SchedRecord
  <2>8. ReadyListed(r)
    BY <2>5, <2>7 DEF ReadyListed, PreSched
  <2>9. \A t \in Threads : r.status[t] # "RUNNING"
    BY <2>7 DEF PreSched
  <2>10. SameSleepers(k, r)
    BY <1>2, <2>7 DEF SameSleepers, Asleep
  <2>11. IdleWakeable(r) /\ (r.status[Idle] = "BLOCKED" <=> k.status[Idle] = "BLOCKED")
    BY <1>2, <2>7, ThreadAssumption DEF IdleWakeable, PreSched
  <2> QED BY <2>4, <2>5, <2>6, <2>8, <2>9, <2>10, <2>11 DEF PreSched, r
<1> QED BY <1>1, <1>2

\* schedule(): last part, the first READY thread gets the CPU.
LEMMA RunNextSound ==
    ASSUME NEW k \in SchedType, ReadyListed(k), NoDup(k.ready), IdleWakeable(k), ~k.panic,
           k.ready # <<>>, \A t \in Threads : k.status[t] # "RUNNING"
    PROVE  LET n == RunNext(k) IN
           /\ n \in SchedType /\ SchedInv(n)
           /\ n.cur = Head(k.ready)
           /\ \A t \in Threads : n.status[t] = IF t = n.cur THEN "RUNNING" ELSE k.status[t]
           /\ k.status[n.cur] = "READY"
<1> DEFINE n == RunNext(k)
<1>1. /\ Head(k.ready) \in Threads /\ Head(k.ready) \in Range(k.ready)
      /\ Tail(k.ready) \in Seq(Threads) /\ NoDup(Tail(k.ready))
      /\ Range(Tail(k.ready)) = Range(k.ready) \ {Head(k.ready)}
  BY SchedRecord, PopTag
<1>2. n = [status |-> [k.status EXCEPT ![Head(k.ready)] = "RUNNING"],
           ready |-> Tail(k.ready), cur |-> Head(k.ready),
           ticks |-> k.ticks, panic |-> k.panic]
  <2>1. n = [k EXCEPT !.ready = Tail(k.ready), !.cur = Head(k.ready),
                      !.status[Head(k.ready)] = "RUNNING"]
    BY DEF RunNext
  <2> HIDE DEF n
  <2> QED BY <1>1, <2>1 DEF SchedType
<1> HIDE DEF n
<1>3. /\ n.status = [k.status EXCEPT ![Head(k.ready)] = "RUNNING"]
      /\ n.ready = Tail(k.ready) /\ n.cur = Head(k.ready)
      /\ n.ticks = k.ticks /\ n.panic = k.panic
  BY <1>2
<1>4. n \in SchedType
  <2>1. n.status \in [Threads -> Status]
    BY <1>3, SchedRecord DEF Status
  <2> QED BY <1>1, <1>2, <1>3, <2>1, SchedRecord DEF SchedType
<1>5. \A t \in Threads : n.status[t] = IF t = n.cur THEN "RUNNING" ELSE k.status[t]
  BY <1>3, SchedRecord
<1>6. k.status[n.cur] = "READY"
  BY <1>1, <1>3 DEF ReadyListed
<1>7. OneRunning(n)
  BY <1>5 DEF OneRunning
<1>8. ReadyListed(n)
  BY <1>1, <1>3, <1>5 DEF ReadyListed
<1>9. IdleWakeable(n)
  BY <1>5, ThreadAssumption DEF IdleWakeable
<1> QED BY <1>1, <1>3, <1>4, <1>5, <1>6, <1>7, <1>8, <1>9 DEF SchedInv, n

\* schedule() from any state in which it is called finds a thread to run (the
\* idle thread is BLOCKED whenever no other is READY) and fires no ASSERT.
LEMMA ScheduleSound ==
    ASSUME NEW k \in SchedType, PreSched(k)
    PROVE  LET n == schedule(k) IN
           n \in SchedType /\ SchedInv(n) /\ SameSleepers(k, n)
<1> DEFINE r == Requeue(k)
           w == WakeIdle(r)
           n == schedule(k)
<1>1. /\ r \in SchedType /\ PreSched(r) /\ SameSleepers(k, r)
      /\ \A t \in Threads : r.status[t] # "RUNNING"
  BY RequeueSound
<1> HIDE DEF r
<1>2. /\ w \in SchedType /\ ReadyListed(w) /\ NoDup(w.ready) /\ IdleWakeable(w) /\ ~w.panic
      /\ w.ready # <<>> /\ (\A t \in Threads : w.status[t] # "RUNNING")
      /\ SameSleepers(r, w)
  <2>1. CASE r.ready # <<>>
    <3>1. w = r
      BY <2>1 DEF WakeIdle
    <3> QED BY <1>1, <2>1, <3>1 DEF PreSched, SameSleepers
  <2>2. CASE r.ready = <<>>
    <3>1. w = thread_unblock(r, Idle)
      BY <2>2 DEF WakeIdle
    <3>2. r.status[Idle] = "BLOCKED"
      <4>1. Range(r.ready) = {}
        BY <2>2 DEF Range
      <4> QED BY <1>1, <4>1, ThreadAssumption DEF PreSched, IdleWakeable, ReadyListed
    <3>3. /\ w \in SchedType /\ w.status = [r.status EXCEPT ![Idle] = "READY"]
          /\ ReadyListed(w) /\ NoDup(w.ready) /\ w.ready # <<>> /\ ~w.panic
      <4>1. /\ r \in SchedType /\ Idle \in Threads /\ r.status[Idle] \in Asleep
            /\ ReadyListed(r) /\ NoDup(r.ready) /\ ~r.panic
        BY <1>1, <3>2, ThreadAssumption DEF PreSched, Asleep
      <4> QED BY <3>1, <4>1, UnblockSound, ZenonT(30)
    <3> HIDE DEF w
    <3>4. \A t \in Threads : w.status[t] = IF t = Idle THEN "READY" ELSE r.status[t]
      BY <1>1, <3>3, SchedRecord
    <3> QED BY <1>1, <3>3, <3>4, ThreadAssumption DEF IdleWakeable, SameSleepers
  <2> QED BY <2>1, <2>2
<1>3. ~r.panic
  BY <1>1 DEF PreSched
<1>4. n = RunNext(w)
  BY <1>2, <1>3 DEF schedule, r
<1> HIDE DEF w, n
<1>5. /\ n \in SchedType /\ SchedInv(n) /\ w.status[n.cur] = "READY"
      /\ \A t \in Threads : n.status[t] = IF t = n.cur THEN "RUNNING" ELSE w.status[t]
  BY <1>2, <1>4, RunNextSound
<1>6. SameSleepers(w, n)
  BY <1>5 DEF SameSleepers, Asleep
<1>7. SameSleepers(k, n)
  BY <1>1, <1>2, <1>6 DEF SameSleepers
<1> QED BY <1>5, <1>7 DEF n

\* thread_block(): the running thread sleeps in the given state, the sleepers
\* are otherwise the same, and another thread runs.
LEMMA BlockSound ==
    ASSUME NEW k \in SchedType, SchedInv(k), NEW stat \in Asleep,
           k.cur = Idle => stat = "BLOCKED"
    PROVE  LET n == thread_block(k, stat) IN
           n \in SchedType /\ SchedInv(n) /\ FallsAsleep(k, n, stat)
<1> DEFINE b == [k EXCEPT !.status[k.cur] = stat]
           n == thread_block(k, stat)
<1>1. /\ b \in SchedType /\ b.cur = k.cur /\ b.ready = k.ready /\ ~b.panic
      /\ \A t \in Threads : b.status[t] = IF t = k.cur THEN stat ELSE k.status[t]
  <2>1. k.cur \in Threads /\ ~k.panic /\ stat \in Status
    BY SchedRecord DEF SchedInv, Asleep, Status
  <2> QED BY <2>1, SchedRecord DEF SchedType
<1> HIDE DEF b
<1>2. PreSched(b)
  <2>1. ReadyListed(b)
    BY <1>1 DEF SchedInv, ReadyListed, OneRunning, Asleep
  <2>2. IdleWakeable(b)
    BY <1>1, ThreadAssumption DEF SchedInv, IdleWakeable, Asleep
  <2> QED BY <1>1, <2>1, <2>2 DEF PreSched, SchedInv, OneRunning, Asleep
<1>3. n = schedule(b)
  BY DEF thread_block, b
<1> HIDE DEF n
<1>4. n \in SchedType /\ SchedInv(n) /\ SameSleepers(b, n)
  BY <1>1, <1>2, <1>3, ScheduleSound
<1>5. FallsAsleep(k, n, stat)
  BY <1>1, <1>4 DEF SameSleepers, FallsAsleep
<1> QED BY <1>4, <1>5 DEF n

\* thread_yield(): nobody falls asleep and nobody wakes, the idle thread aside.
LEMMA YieldSound ==
    ASSUME NEW k \in SchedType, SchedInv(k)
    PROVE  LET n == thread_yield(k) IN
           n \in SchedType /\ SchedInv(n) /\ SameSleepers(k, n)
<1> DEFINE b == [k EXCEPT !.ready = Append(k.ready, k.cur), !.status[k.cur] = "READY"]
           n == thread_yield(k)
<1>1. k.cur \in Threads /\ k.cur \notin Range(k.ready) /\ k.status[k.cur] = "RUNNING" /\ ~k.panic
  BY SchedRecord DEF SchedInv, OneRunning, ReadyListed
<1>2. n = schedule(b)
  BY <1>1 DEF thread_yield
<1>3. /\ Append(k.ready, k.cur) \in Seq(Threads)
      /\ Range(Append(k.ready, k.cur)) = Range(k.ready) \cup {k.cur}
      /\ NoDup(Append(k.ready, k.cur))
  BY <1>1, SchedRecord, AppendTag DEF SchedInv
<1>4. /\ b \in SchedType /\ b.ready = Append(k.ready, k.cur) /\ b.cur = k.cur /\ ~b.panic
      /\ \A t \in Threads : b.status[t] = IF t = k.cur THEN "READY" ELSE k.status[t]
  BY <1>1, <1>3, SchedRecord DEF SchedType, Status
<1> HIDE DEF b, n
<1>5. PreSched(b)
  <2>1. ReadyListed(b)
    BY <1>3, <1>4 DEF SchedInv, ReadyListed
  <2>2. IdleWakeable(b)
    BY <1>4, ThreadAssumption DEF SchedInv, IdleWakeable
  <2> QED BY <1>3, <1>4, <2>1, <2>2 DEF PreSched, SchedInv, OneRunning
<1>6. SameSleepers(k, b)
  BY <1>1, <1>4 DEF SameSleepers, Asleep
<1>7. n \in SchedType /\ SchedInv(n) /\ SameSleepers(b, n)
  BY <1>2, <1>4, <1>5, ScheduleSound
<1> QED BY <1>6, <1>7 DEF SameSleepers, n

\* The timer interrupt, with or without a switch, changes no thread's sleep.
LEMMA TimerSound ==
    ASSUME NEW k \in SchedType, SchedInv(k)
    PROVE  LET n == intr_timer_handler(k) IN
           n \in SchedType /\ SchedInv(n) /\ SameSleepers(k, n)
<1> DEFINE n == intr_timer_handler(k)
<1>1. CASE k.ticks[k.cur] = 0
  <2>1. n = schedule(k)
    BY <1>1 DEF intr_timer_handler
  <2>2. PreSched(k)
    BY DEF SchedInv, PreSched, OneRunning
  <2> QED BY <2>1, <2>2, ScheduleSound
<1>2. CASE k.ticks[k.cur] # 0
  <2>1. n = [k EXCEPT !.ticks[k.cur] = @ - 1]
    BY <1>2 DEF intr_timer_handler
  <2>2. k.cur \in Threads /\ k.ticks[k.cur] - 1 \in Nat
    BY <1>2, SchedRecord
  <2> HIDE DEF n
  <2>3. /\ n \in SchedType /\ n.status = k.status /\ n.ready = k.ready
        /\ n.cur = k.cur /\ n.panic = k.panic
    BY <2>1, <2>2, SchedRecord DEF SchedType
  <2>4. SchedInv(n)
    BY <2>3 DEF SchedInv, OneRunning, ReadyListed, IdleWakeable
  <2> QED BY <2>3, <2>4 DEF SameSleepers, n
<1> QED BY <1>1, <1>2

\* thread_unblock() of a sleeper keeps the scheduler sound and wakes only it.
LEMMA WakeSound ==
    ASSUME NEW k \in SchedType, SchedInv(k), NEW t \in Threads, k.status[t] \in Asleep
    PROVE  LET n == thread_unblock(k, t) IN
           /\ n \in SchedType /\ SchedInv(n) /\ n.cur = k.cur
           /\ \A u \in Threads : n.status[u] = IF u = t THEN "READY" ELSE k.status[u]
<1> DEFINE n == thread_unblock(k, t)
<1>1. /\ n \in SchedType /\ n.status = [k.status EXCEPT ![t] = "READY"]
      /\ n.cur = k.cur /\ ReadyListed(n) /\ NoDup(n.ready) /\ ~n.panic
  BY UnblockSound DEF SchedInv
<1> HIDE DEF n
<1>2. \A u \in Threads : n.status[u] = IF u = t THEN "READY" ELSE k.status[u]
  BY <1>1, SchedRecord
<1>3. OneRunning(n)
  BY <1>1, <1>2 DEF SchedInv, OneRunning, Asleep
<1>4. IdleWakeable(n)
  BY <1>2, ThreadAssumption DEF SchedInv, IdleWakeable
<1> QED BY <1>1, <1>2, <1>3, <1>4 DEF SchedInv, n
=============================================================================
