--------------------------------- MODULE Ide --------------------------------
(***************************************************************************)
(* device/ide.c: threads that read and write the disks of one channel, the *)
(* disk interrupt, and busy_wait() with the sleep of device/timer.c.       *)
(*                                                                         *)
(* A process works with the interrupts masked, a kernel thread (KThreads)  *)
(* with interrupts on. The lock operations are single steps here, as       *)
(* module Locks shows they may be taken to be.                             *)
(*                                                                         *)
(* pc[t]: "user"; "lock" lock_acquire(); "cmd" select and cmd_out();       *)
(* "down" sema_down(disk_done); "poll" the loop of busy_wait(); "sleep"    *)
(* the loop of ticks_to_sleep(); "data" the transfer; "unlock"; "idle",    *)
(* "hlt". Asleep in "lock" and "down", a thread stays there.               *)
(***************************************************************************)
EXTENDS Sync

CONSTANTS Users,       \* the threads that use the disk
          KThreads,    \* those of them, and idle, with interrupts on
          Sectors,     \* sectors of the channel's disks: 0..n
          Values,      \* what a sector can hold
          Ops,         \* a subset of {"read", "write"}
          Counts,      \* the sec_cnt arguments of each user
          TimeLimit,   \* busy_wait(): time_limit
          MaxBusy,     \* bound: the disk answers within that many ticks
          BootOrder, First

ASSUME IdeAssumption ==
    /\ Users \subseteq Threads \ {Idle} /\ First \in Threads \ {Idle}
    /\ Idle \in KThreads /\ KThreads \subseteq Threads
    /\ Sectors \subseteq Nat /\ Counts \in [Users -> SUBSET (Nat \ {0})]
    /\ TimeLimit \in Nat /\ MaxBusy \in Nat /\ MaxBusy + 1 < TimeLimit
    /\ BootOrder \in Seq(Threads) /\ NoDup(BootOrder)
    /\ Range(BootOrder) = Threads \ {First}

VARIABLES sched,    \* the scheduler record of module Thread
          chan,     \* the channel: lock, disk_done, expecting_intr
          dev,      \* the disk: phase, sector, sector buffer, pending interrupt, age
          store,    \* what is on the disk
          pc,       \* where each thread is
          req,      \* the arguments of ide_read() or ide_write(), and i
          buf,      \* the memory behind the argument buf, sector by sector
          polls,    \* what is left of time_limit
          ticked    \* whether the tick that ticks_to_sleep() waits for came

vars == <<sched, chan, dev, store, pc, req, buf, polls, ticked>>

NoReq == [op |-> "none", lba |-> 0, cnt |-> 0, i |-> 0]

Init ==
    /\ sched = [status |-> [t \in Threads |-> IF t = First THEN "RUNNING" ELSE "READY"],
                ready  |-> BootOrder, cur |-> First, ticks |-> Priority, panic |-> FALSE]
    /\ chan = [lock |-> lock_init, done |-> sema_init(0), expecting |-> FALSE]
    /\ dev = [phase |-> "ready", lba |-> 0, data |-> NULL, irq |-> FALSE, age |-> 0]
    /\ store \in [Sectors -> Values]
    /\ pc = [t \in Threads |-> IF t = Idle THEN "idle" ELSE "user"]
    /\ req = [t \in Users |-> NoReq]
    /\ buf = [t \in Users |-> <<>>]
    /\ polls = [t \in Users |-> 0]
    /\ ticked = [t \in Users |-> FALSE]

Running(t, label) == sched.cur = t /\ ~sched.panic /\ pc[t] = label

Goto(t, label) == pc' = [pc EXCEPT ![t] = label]

-----------------------------------------------------------------------------
(* The disk (external): BSY in the phases "reading", "preparing" and       *)
(* "writing", DRQ in "full" (data to fetch) and "wants" (data to send)     *)

Busy == dev.phase \in {"reading", "preparing", "writing"}

Drq == dev.phase \in {"full", "wants"}

DevReads ==
    /\ dev.phase = "reading"
    /\ dev' = [dev EXCEPT !.phase = "full", !.data = store[dev.lba], !.irq = TRUE, !.age = 0]
    /\ UNCHANGED <<sched, chan, store, pc, req, buf, polls, ticked>>

DevPrepares ==
    /\ dev.phase = "preparing"
    /\ dev' = [dev EXCEPT !.phase = "wants", !.age = 0]
    /\ UNCHANGED <<sched, chan, store, pc, req, buf, polls, ticked>>

DevWrites ==
    /\ dev.phase = "writing"
    /\ store' = [store EXCEPT ![dev.lba] = dev.data]
    /\ dev' = [dev EXCEPT !.phase = "ready", !.data = NULL, !.irq = TRUE, !.age = 0]
    /\ UNCHANGED <<sched, chan, pc, req, buf, polls, ticked>>

-----------------------------------------------------------------------------
(* ide_read() and ide_write(): _ide_read() or _ide_write() for each sector *)

ide_read(t, lba, cnt) ==
    /\ Running(t, "user") /\ "read" \in Ops
    /\ req' = [req EXCEPT ![t] = [op |-> "read", lba |-> lba, cnt |-> cnt, i |-> 0]]
    /\ buf' = [buf EXCEPT ![t] = <<>>]
    /\ Goto(t, "lock")
    /\ UNCHANGED <<sched, chan, dev, store, polls, ticked>>

ide_write(t, lba, data) ==
    /\ Running(t, "user") /\ "write" \in Ops
    /\ req' = [req EXCEPT ![t] = [op |-> "write", lba |-> lba, cnt |-> Len(data), i |-> 0]]
    /\ buf' = [buf EXCEPT ![t] = data]
    /\ Goto(t, "lock")
    /\ UNCHANGED <<sched, chan, dev, store, polls, ticked>>

\* the sector the i-th call of _ide_read() or _ide_write() is given: lba, whatever i is
SectorOf(r) == r.lba

\* Mutant of Lock: the channel is used without its lock.
LockSkipped(t) ==
    /\ Running(t, "lock")
    /\ Goto(t, "cmd")
    /\ UNCHANGED <<sched, chan, dev, store, req, buf, polls, ticked>>

Lock(t) ==
    /\ Running(t, "lock")
    /\ LET r == lock_acquire(sched, chan.lock)
       IN  sched' = r.k /\ chan' = [chan EXCEPT !.lock = r.l]
    /\ Goto(t, IF chan.lock.sema.value = 0 THEN "lock" ELSE "cmd")
    /\ UNCHANGED <<dev, store, req, buf, polls, ticked>>

\* select_disk(), select_sector(), cmd_out(); busy_wait() starts at once on a write
Command(t) ==
    /\ Running(t, "cmd")
    /\ chan' = [chan EXCEPT !.expecting = TRUE]
    /\ dev' = [dev EXCEPT !.phase = IF req[t].op = "read" THEN "reading" ELSE "preparing",
                          !.lba = SectorOf(req[t])]
    /\ polls' = [polls EXCEPT ![t] = TimeLimit]
    /\ Goto(t, IF req[t].op = "read" THEN "down" ELSE "poll")
    /\ UNCHANGED <<sched, store, req, buf, ticked>>

\* sema_down(&disk_done): before the transfer of a read, after that of a write
Down(t) ==
    /\ Running(t, "down")
    /\ LET r == sema_down(sched, chan.done)
       IN  sched' = r.k /\ chan' = [chan EXCEPT !.done = r.s]
    /\ Goto(t, CASE chan.done.value = 0 -> "down"
                 [] chan.done.value # 0 /\ req[t].op = "read" -> "poll"
                 [] OTHER -> "unlock")
    /\ UNCHANGED <<dev, store, req, buf, polls, ticked>>

\* Mutant of Poll: looks at DRQ without looking at BSY first.
PollWithoutBusy(t) ==
    /\ Running(t, "poll")
    /\ polls' = [polls EXCEPT ![t] = @ - 1]
    /\ sched' = IF Drq THEN sched ELSE Panic(sched)
    /\ Goto(t, "data")
    /\ UNCHANGED <<chan, dev, store, req, buf, ticked>>

\* one pass of busy_wait()'s loop. The condition time_limit -= 10 >= 0 takes 1 from
\* time_limit; a false answer is a PANIC of the caller.
Poll(t) ==
    /\ Running(t, "poll")
    /\ polls' = [polls EXCEPT ![t] = @ - 1]
    /\ sched' = IF polls[t] = 1 \/ (~Busy /\ ~Drq) THEN Panic(sched) ELSE sched
    /\ ticked' = [ticked EXCEPT ![t] = FALSE]
    /\ Goto(t, IF Busy THEN "sleep" ELSE "data")
    /\ UNCHANGED <<chan, dev, store, req, buf>>

\* one pass of ticks_to_sleep()'s loop; 10 ms are one tick
Sleep(t) ==
    /\ Running(t, "sleep")
    /\ sched' = IF ticked[t] THEN sched ELSE thread_yield(sched)
    /\ Goto(t, IF ticked[t] THEN "poll" ELSE "sleep")
    /\ UNCHANGED <<chan, dev, store, req, buf, polls, ticked>>

\* read_from_sector() or write2sector(); reading the last word ends DRQ
Transfer(t) ==
    /\ Running(t, "data")
    /\ IF req[t].op = "read"
       THEN /\ buf' = [buf EXCEPT ![t] = Append(@, dev.data)]
            /\ dev' = [dev EXCEPT !.phase = "ready", !.data = NULL]
            /\ Goto(t, "unlock")
       ELSE /\ dev' = [dev EXCEPT !.phase = "writing", !.data = buf[t][req[t].i + 1]]
            /\ Goto(t, "down")
            /\ UNCHANGED buf
    /\ UNCHANGED <<sched, chan, store, req, polls, ticked>>

\* lock_release(), and on to the next sector, or back to the caller, who uses buf
\* up; the locals of the call are gone
Unlock(t) ==
    /\ Running(t, "unlock")
    /\ LET r == lock_release(sched, chan.lock)
       IN  sched' = r.k /\ chan' = [chan EXCEPT !.lock = r.l]
    /\ IF req[t].i + 1 < req[t].cnt
       THEN /\ req' = [req EXCEPT ![t].i = @ + 1]
            /\ Goto(t, "lock")
            /\ UNCHANGED <<buf, polls, ticked>>
       ELSE /\ req' = [req EXCEPT ![t] = NoReq]
            /\ buf' = [buf EXCEPT ![t] = <<>>]
            /\ polls' = [polls EXCEPT ![t] = 0]
            /\ ticked' = [ticked EXCEPT ![t] = FALSE]
            /\ Goto(t, "user")
    /\ UNCHANGED <<dev, store>>

Step(t) ==
    \/ Lock(t) \/ Command(t) \/ Down(t) \/ Poll(t)
    \/ Sleep(t) \/ Transfer(t) \/ Unlock(t)

-----------------------------------------------------------------------------
(* Interrupts                                                              *)

IntrOn(t) == t \in KThreads \/ pc[t] = "user"

EndHlt ==
    \/ pc' = pc
    \/ pc[sched.cur] = "hlt" /\ Goto(sched.cur, "idle")

\* Mutant of intr_hd_handler: expecting_intr is not reset.
HandlerKeepsExpecting ==
    /\ ~sched.panic /\ IntrOn(sched.cur) /\ dev.irq
    /\ LET r == sema_up(sched, chan.done)
       IN  sched' = r.k /\ chan' = [chan EXCEPT !.done = r.s]
    /\ dev' = [dev EXCEPT !.irq = FALSE]
    /\ EndHlt
    /\ UNCHANGED <<store, req, buf, polls, ticked>>

intr_hd_handler ==
    /\ ~sched.panic /\ IntrOn(sched.cur) /\ dev.irq
    /\ LET r == IF chan.expecting THEN sema_up(sched, chan.done)
                ELSE [k |-> sched, s |-> chan.done]
       IN  sched' = r.k /\ chan' = [chan EXCEPT !.expecting = FALSE, !.done = r.s]
    /\ dev' = [dev EXCEPT !.irq = FALSE]
    /\ EndHlt
    /\ UNCHANGED <<store, req, buf, polls, ticked>>

Tick ==
    /\ ~sched.panic /\ IntrOn(sched.cur)
    /\ Busy => dev.age < MaxBusy
    /\ sched' = intr_timer_handler(sched)
    /\ ticked' = [t \in Users |-> pc[t] = "sleep"]
    /\ dev' = IF Busy THEN [dev EXCEPT !.age = @ + 1] ELSE dev
    /\ EndHlt
    /\ UNCHANGED <<chan, store, req, buf, polls>>

IdleBlock ==
    /\ Running(Idle, "idle")
    /\ sched' = thread_block(sched, "BLOCKED")
    /\ Goto(Idle, "hlt")
    /\ UNCHANGED <<chan, dev, store, req, buf, polls, ticked>>

Device == DevReads \/ DevPrepares \/ DevWrites

Call(t) ==
    \E lba \in Sectors, n \in Counts[t] :
        /\ lba + n - 1 \in Sectors
        /\ \/ ide_read(t, lba, n)
           \/ \E data \in [1..n -> Values] : ide_write(t, lba, data)

Next ==
    \/ Device \/ intr_hd_handler \/ Tick \/ IdleBlock
    \/ \E t \in Users : Call(t) \/ Step(t)

Spec == Init /\ [][Next]_vars

(***************************************************************************)
(* Fairness: interrupt requests stay pending, the disk answers, a thread   *)
(* that keeps getting the CPU executes instructions.                       *)
(***************************************************************************)
FairSpec ==
    /\ Spec
    /\ SF_vars(Tick) /\ SF_vars(IdleBlock) /\ SF_vars(intr_hd_handler)
    /\ WF_vars(Device)
    /\ \A t \in Users : SF_vars(Step(t))

-----------------------------------------------------------------------------
(* Properties                                                              *)

\* every variable has the shape its C declaration gives it
TypeOK ==
    /\ sched \in SchedType
    /\ chan \in [lock : LockType, done : SemaType, expecting : BOOLEAN]
    /\ dev.phase \in {"ready", "reading", "full", "preparing", "wants", "writing"}
    /\ store \in [Sectors -> Values]
    /\ polls \in [Users -> 0..TimeLimit]
    /\ buf \in [Users -> Seq(Values)]

\* No PANIC of _ide_read() or _ide_write() and no ASSERT of sync.c fires: whoever
\* polls finds DRQ, and no interrupt raises disk_done twice. Every variable has its type.
SchedulerSound == TypeOK /\ SchedInv(sched)

\* disk_done belongs to the command that waits for it: it is raised only for the
\* lock's holder, and no interrupt is left over for the next command.
InterruptsMatch ==
    /\ chan.lock.holder = NULL =>
          /\ chan.done.value = 0 /\ chan.done.waiters = <<>>
          /\ ~chan.expecting /\ ~dev.irq /\ dev.phase = "ready"
    /\ \A t \in Range(chan.done.waiters) : chan.lock.holder = t

\* the operation of t from its call to the moment it takes effect: the transfer of
\* a read, the disk's own write
Pending(t) ==
    IF \/ pc[t] \in {"user", "unlock"}
       \/ pc[t] = "down" /\ req[t].op = "write" /\ dev.phase # "writing"
    THEN "none" ELSE req[t].op

\* the sector that t reads or writes now, in its buffer
Moved(t) ==
    LET r == req[t]
    IN  IF r.op = "none" \/ (r.op = "read" /\ Len(buf[t]) = r.i) THEN <<>>
        ELSE <<buf[t][r.i + 1]>>

D == INSTANCE AtomicDisk WITH
        disk <- store, op <- [t \in Users |-> Pending(t)],
        lba <- [t \in Users |-> SectorOf(req[t])], buf <- [t \in Users |-> Moved(t)]

\* Sector by sector, reads and writes that interleave act like operations on an atomic
\* disk: none gets the data, the sector or the interrupt of another. (The sector is the
\* same for the whole of a call, see SectorOf.)
ImplementsAtomicDisk == D!Spec

\* Whoever owns the channel releases it, unless busy_wait() goes to sleep: the
\* interrupt that ends a command is neither lost nor taken by another one.
ChannelFreed ==
    (chan.lock.holder # NULL) ~>
        (chan.lock.holder = NULL \/ \E t \in Users : pc[t] = "sleep")

\* busy_wait() ends, by its answer or by its timeout of 30 s.
BusyWaitEnds ==
    \A t \in Users : (pc[t] \in {"poll", "sleep"}) ~> (pc[t] \notin {"poll", "sleep"})
=============================================================================
