------------------------------- MODULE Process ------------------------------
(***************************************************************************)
(* The life of a process: userprog/fork.c, userprog/wait_exit.c,           *)
(* thread/pid.c and the boot order of thread_init().                       *)
(*                                                                         *)
(* A process in user mode runs with interrupts on. A system call enters    *)
(* through an interrupt gate, so sys_fork(), sys_exit() and one pass of    *)
(* sys_wait()'s loop are each one step; sys_wait() can be interrupted only *)
(* where it blocks. The open files of a process are not modelled here.     *)
(*                                                                         *)
(* kfree counts the free pages of the kernel pool, for the PCB, the page   *)
(* directory and the vaddr bitmap of each process. The pages of the user   *)
(* image and its page tables, and a kernel address space too fragmented    *)
(* for the vaddr bitmap, are left out.                                     *)
(*                                                                         *)
(* A system call would also wait for the pool and pid locks when main(),   *)
(* which alone runs kernel code with interrupts on, holds one; what that   *)
(* wait does is module Locks.                                              *)
(***************************************************************************)
EXTENDS Thread, Integers, FiniteSetsExt

CONSTANTS InitProc,     \* the process running init(), pid 1
          Main,         \* the kernel's main thread, pid 2
          MaxPid,       \* bits of pid_bitmap_bits
          KPages,       \* free pages of the kernel pool after the boot
          BitmapBytes,  \* btmp_bytes_len of a vaddr bitmap
          PageSize,     \* PG_SIZE
          ExitCodes     \* the arguments of sys_exit()

ASSUME ProcessAssumption ==
    /\ {InitProc, Main} \subseteq Threads \ {Idle} /\ InitProc # Main
    /\ MaxPid \in Nat /\ MaxPid >= 3
    /\ KPages \in Nat /\ PageSize \in Nat \ {0}
    /\ BitmapBytes \in Nat /\ BitmapBytes >= PageSize
    /\ ExitCodes \subseteq Int

VARIABLES sched,  \* the scheduler record of module Thread
          pcb,    \* the PCB fields pid, parent_pid and exit_status
          all,    \* thread_all_list
          pids,   \* the pids set in pid_bitmap_bits
          kfree,  \* free pages of the kernel pool
          pc      \* "init" before init()'s fork, "user", "wait" inside
                  \* sys_wait(), "idle" and "hlt" in idle()

vars == <<sched, pcb, all, pids, kfree, pc>>

NoParent == -1

Procs == Threads \ {Idle, Main}

DIV_ROUND_UP(a, b) == (a + b - 1) \div b

\* A PCB page that is not in use
NoPcb == [pid |-> 0, parent |-> NoParent, exit |-> 0]

BitmapPages == DIV_ROUND_UP(BitmapBytes, PageSize)

Int8(n) == ((n + 128) % 256) - 128

\* thread_init() and main() up to the start of the timer
Init ==
    /\ all = <<InitProc, Main, Idle>>
    /\ sched = [status |-> [t \in Threads |-> CASE t = Main -> "RUNNING"
                                                [] t \in {InitProc, Idle} -> "READY"
                                                [] OTHER -> "DIED"],
                ready  |-> <<InitProc, Idle>>,
                cur    |-> Main,
                ticks  |-> Priority,
                panic  |-> FALSE]
    /\ pcb = [t \in Threads |-> [NoPcb EXCEPT !.pid = CASE t = InitProc -> 1
                                                         [] t = Main -> 2
                                                         [] t = Idle -> 3
                                                         [] OTHER -> 0]]
    /\ pids = {1, 2, 3}
    /\ kfree = KPages
    /\ pc = [t \in Threads |-> CASE t = InitProc -> "init"
                                 [] t = Idle -> "idle"
                                 [] OTHER -> "user"]

-----------------------------------------------------------------------------

\* allocate_pid(): the lowest free bit; bitmap_scan()'s -1 is not checked
allocate_pid ==
    LET free == (1..MaxPid) \ pids
    IN  IF free = {} THEN 0 ELSE Min(free)

\* pid2thread(): the first PCB of thread_all_list with this pid
WithPid(n) == {t \in Range(all) : pcb[t].pid = n}

Children(n) == {t \in Range(all) : pcb[t].parent = n}

\* Mutant of Hanging: any process that hangs, whoever its parent is.
HangingAnywhere(n) == {t \in Range(all) : sched.status[t] = "HANGING"}

Hanging(n) == {t \in Children(n) : sched.status[t] = "HANGING"}

\* list_traversal() stops at the first match
First(S) == all[Min({i \in DOMAIN all : all[i] \in S})]

Running(t, label) == sched.cur = t /\ ~sched.panic /\ pc[t] = label

\* where a program calls fork(): init() does it once, any other at will
Forking(t) == t \in Procs /\ Running(t, IF t = InitProc THEN "init" ELSE "user")

-----------------------------------------------------------------------------
(* sys_fork()                                                              *)

\* The page allocations of sys_fork() in order: PCB, buffer, vaddr bitmap, page
\* directory. Nothing is given back when a later one fails, and malloc_page()
\* has then taken the last free pages. The pid is allocated before the bitmap.
ForkFails(t) ==
    /\ Forking(t)
    /\ kfree < 3 + BitmapPages
    /\ kfree' = 0
    /\ pids' = IF kfree < 2 THEN pids ELSE pids \cup ({allocate_pid} \ {0})
    /\ pc' = [pc EXCEPT ![t] = "user"]
    /\ UNCHANGED <<sched, pcb, all>>

\* copy_pcb_vaddrbitmap_stack0()
ChildPcb(t) == [pcb[t] EXCEPT !.pid = allocate_pid, !.parent = pcb[t].pid]

\* copy_process() and the linking of the child; the buffer page is freed again
Fork(t, c) ==
    /\ Forking(t)
    /\ c \in Procs \ Range(all)
    /\ kfree >= 3 + BitmapPages
    /\ pids' = pids \cup ({allocate_pid} \ {0})
    /\ pcb' = [pcb EXCEPT ![c] = ChildPcb(t)]
    /\ sched' = thread_start(sched, c)
    /\ all' = Append(all, c)
    /\ kfree' = kfree - (2 + BitmapPages)
    /\ pc' = [pc EXCEPT ![t] = "user", ![c] = "user"]

-----------------------------------------------------------------------------
(* sys_exit()                                                              *)

\* Mutants of Adopt: the children keep their parent; only those that run move on.
AdoptNobody(p, n) == p

AdoptTheLiving(p, n) ==
    [t \in Threads |->
        IF t \in Range(all) /\ p[t].parent = n /\ sched.status[t] # "HANGING"
        THEN [p[t] EXCEPT !.parent = 1] ELSE p[t]]

\* list_traversal() with init_adopt_a_child()
Adopt(p, n) ==
    [t \in Threads |-> IF t \in Range(all) /\ p[t].parent = n
                       THEN [p[t] EXCEPT !.parent = 1] ELSE p[t]]

\* Mutant of WakeParent: looks for a BLOCKED parent.
WakeBlockedParent(k, parents) ==
    IF parents = {} THEN Panic(k)
    ELSE LET u == First(parents)
         IN  IF k.status[u] = "BLOCKED" THEN thread_unblock(k, u) ELSE k

\* wake the parent if it waits; a NULL parent is a page fault in the kernel
WakeParent(k, parents) ==
    IF parents = {} THEN Panic(k)
    ELSE LET u == First(parents)
         IN  IF k.status[u] = "WAITING" THEN thread_unblock(k, u) ELSE k

\* Mutant of release_prog_resource: frees the page directory too, as wait() will.
ReleasePgdirToo(free) == free + BitmapPages + 1

\* the kernel pages that sys_exit() itself frees: those of the vaddr bitmap
release_prog_resource(free) == free + BitmapBytes \div PageSize

Exit(t, code) ==
    /\ Running(t, "user") /\ t \in Procs \ {InitProc}
    /\ pcb' = Adopt([pcb EXCEPT ![t].exit = Int8(code)], pcb[t].pid)
    /\ kfree' = release_prog_resource(kfree)
    /\ LET k == IF pcb[t].parent = NoParent THEN Panic(sched)
                ELSE WakeParent(sched, WithPid(pcb'[t].parent))
       IN  sched' = IF k.panic THEN k ELSE thread_block(k, "HANGING")
    /\ UNCHANGED <<all, pids, pc>>

-----------------------------------------------------------------------------
(* sys_wait(): one pass of its loop                                        *)

\* a child hangs: thread_exit(child, false) frees its page directory, its PCB
\* and its pid
Reap(t) ==
    /\ Running(t, "user") \/ Running(t, "wait")
    /\ t \in Procs
    /\ Hanging(pcb[t].pid) # {}
    /\ LET c == First(Hanging(pcb[t].pid))
       IN  /\ sched' = thread_exit(sched, c)
           /\ all' = SelectSeq(all, LAMBDA u : u # c)
           /\ pids' = pids \ {pcb[c].pid}
           /\ pcb' = [pcb EXCEPT ![c] = NoPcb]
    /\ kfree' = kfree + 2
    /\ pc' = [pc EXCEPT ![t] = "user"]

WaitFails(t) ==
    /\ Running(t, "user") \/ Running(t, "wait")
    /\ t \in Procs
    /\ Children(pcb[t].pid) = {}
    /\ pc' = [pc EXCEPT ![t] = "user"]
    /\ UNCHANGED <<sched, pcb, all, pids, kfree>>

WaitBlocks(t) ==
    /\ Running(t, "user") \/ Running(t, "wait")
    /\ t \in Procs
    /\ Children(pcb[t].pid) # {} /\ Hanging(pcb[t].pid) = {}
    /\ sched' = thread_block(sched, "WAITING")
    /\ pc' = [pc EXCEPT ![t] = "wait"]
    /\ UNCHANGED <<pcb, all, pids, kfree>>

Wait(t) == Reap(t) \/ WaitFails(t) \/ WaitBlocks(t)

-----------------------------------------------------------------------------
\* main(): thread_exit(running_thread(), true). Its PCB is not a pool page.
MainExit ==
    /\ Running(Main, "user")
    /\ sched' = schedule(thread_exit(sched, Main))
    /\ all' = SelectSeq(all, LAMBDA u : u # Main)
    /\ pids' = pids \ {pcb[Main].pid}
    /\ pcb' = [pcb EXCEPT ![Main] = NoPcb]
    /\ UNCHANGED <<kfree, pc>>

IdleBlock ==
    /\ Running(Idle, "idle")
    /\ sched' = thread_block(sched, "BLOCKED")
    /\ pc' = [pc EXCEPT ![Idle] = "hlt"]
    /\ UNCHANGED <<pcb, all, pids, kfree>>

Tick ==
    /\ ~sched.panic /\ pc[sched.cur] # "wait"
    /\ sched' = intr_timer_handler(sched)
    /\ \/ pc' = pc
       \/ pc[sched.cur] = "hlt" /\ pc' = [pc EXCEPT ![Idle] = "idle"]
    /\ UNCHANGED <<pcb, all, pids, kfree>>

Next ==
    \/ Tick \/ IdleBlock \/ MainExit
    \/ \E t \in Procs :
          \/ \E c \in Procs : Fork(t, c)
          \/ ForkFails(t)
          \/ \E code \in ExitCodes : Exit(t, code)
          \/ Wait(t)

Spec == Init /\ [][Next]_vars

(***************************************************************************)
(* Fairness: the timer request stays pending until it is taken, and a      *)
(* process inside sys_wait() that gets the CPU goes on.                    *)
(***************************************************************************)
Fairness ==
    /\ SF_vars(Tick) /\ SF_vars(IdleBlock)
    /\ \A t \in Procs : WF_vars(pc[t] = "wait" /\ Wait(t))

FairSpec == Spec /\ Fairness

-----------------------------------------------------------------------------
(* Properties                                                              *)

Live == Range(all)
Roots == {InitProc, Main, Idle}

\* every variable has the shape its C declaration gives it, exit_status its 8 bits
TypeOK ==
    /\ sched \in SchedType
    /\ pcb \in [Threads -> [pid : 0..MaxPid, parent : {NoParent} \cup 1..MaxPid,
                            exit : -128..127]]
    /\ all \in Seq(Threads)
    /\ pids \subseteq 1..MaxPid
    /\ kfree \in 0..KPages
    /\ pc \in [Threads -> {"init", "user", "wait", "idle", "hlt"}]

\* No ASSERT or PANIC of the scheduler, fork(), exit() or wait() fires, pid2thread()
\* in sys_exit() never returns NULL, and a thread has a PCB in thread_all_list
\* exactly while it is alive. Two live threads never have the same pid, and the pid of a
\* live thread is never free, although pids are reused as soon as wait() released them.
ProcessesSound ==
    /\ TypeOK /\ SchedInv(sched)
    /\ NoDup(all)
    /\ \A t \in Threads : t \in Live <=> sched.status[t] # "DIED"
    /\ \A t, u \in Live : pcb[t].pid = pcb[u].pid => t = u
    /\ \A t \in Live : pcb[t].pid \in pids

\* The parent_pid of a process always names a live process that has not exited:
\* sys_exit() hands the children over before the pid can be reused.
ParentAlive ==
    \A t \in Live \ Roots : \E p \in Live \cap Procs :
        pcb[p].pid = pcb[t].parent /\ sched.status[p] # "HANGING"

\* init, which adopts the children of every process that exits, does not sleep in wait()
\* while one of its children has exited already.
NoLostOrphan ==
    sched.status[InitProc] = "WAITING" => Hanging(pcb[InitProc].pid) = {}

\* the pages of a live process: PCB, page directory and, until it exits, its bitmap
PagesOf(t) == IF sched.status[t] = "HANGING" THEN 2 ELSE 2 + BitmapPages

\* exit() and wait() together never free a page the process did not own.
NoOverFree ==
    kfree + MapThenSumSet(PagesOf, Live \ Roots) <= KPages

\* A process that has exited never runs again: its PCB stays HANGING until the
\* wait() of its parent, and no one else, frees it.
ExitIsFinal ==
    [][\A t \in Procs : sched.status[t] = "HANGING" =>
         \/ sched'.status[t] = "HANGING"
         \/ sched'.status[t] = "DIED" /\ pcb[sched.cur].pid = pcb[t].parent]_vars

\* A process in wait() with a child that has exited returns from wait().
WaitReturns ==
    \A p \in Procs \ {InitProc} :
        (pc[p] = "wait" /\ Hanging(pcb[p].pid) # {}) ~> (pc[p] # "wait")

\* A process that was made READY runs again: unblocking puts threads at the front of the
\* list (thread.c:221), yet nobody at the back starves, because a slice is only refilled
\* when a thread goes to the back.
ReadyRuns ==
    \A t \in Procs \ {InitProc} : sched.status[t] = "READY" ~> sched.status[t] = "RUNNING"
=============================================================================
