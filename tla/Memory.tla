------------------------------- MODULE Memory -------------------------------
(***************************************************************************)
(* The pages of kernel/memory.c: the two pools of page frames, the bitmaps *)
(* of virtual pages and the page tables, as fork(), exec(), exit(), wait() *)
(* and malloc() of whole pages change them, together with the kernel's     *)
(* main thread.                                                            *)
(*                                                                         *)
(* A system call runs with the interrupts masked: it is one step, unless   *)
(* it has to wait for a pool's lock. main() runs with interrupts on and    *)
(* can be interrupted between bitmap_scan() and bitmap_set(); its labels   *)
(* are in main.pc. So does start_process() of the first process. Lock      *)
(* operations are single steps, as module Locks shows they may be taken to *)
(* be.                                                                     *)
(*                                                                         *)
(* A frame is <<pool, bit>>: pfree() finds the pool of an address by       *)
(* comparing it with the start of the user pool. A page is the number of   *)
(* its bit in a bitmap of virtual pages. Main also names the address space *)
(* of the kernel, whose page tables all exist from the boot on.            *)
(***************************************************************************)
EXTENDS Bitmap, Sequences, Functions

CONSTANTS Procs,        \* the PCBs the run may use
          FirstProc,    \* the process made by process_execute(init)
          Main,         \* the kernel's main thread
          NULL,
          KernelBits,   \* bits of kernel_pool's bitmap, and of kernel_vaddr's
          UserBits,     \* bits of user_pool's bitmap
          UserPages,    \* bits of a process's vaddr bitmap; the last is the stack
          TableSpan,    \* pages that one page table maps
          BitmapPages,  \* pages of a process's vaddr bitmap: DIV_ROUND_UP
          BitmapFreed,  \* of which release_prog_resource() frees: rounded down
          Image,        \* the pages of the segments that exec() loads, in order
          Sizes,        \* page_cnt of a large malloc() in a program
          MainSizes,    \* and in main()
          MaxCalls      \* bound: system calls and calls of main() in a behaviour

\* what the code's constants satisfy
MemoryAssumption ==
    /\ FirstProc \in Procs /\ Main \notin Procs /\ NULL \notin Procs \cup {Main}
    /\ {KernelBits, UserBits, UserPages, TableSpan, BitmapPages} \subseteq Nat \ {0}
    /\ BitmapFreed \in 1..BitmapPages
    /\ Image \in Seq(0..(UserPages - 2))
    /\ Sizes \cup MainSizes \subseteq Nat \ {0}
    /\ MaxCalls \in Nat

VARIABLES mem,     \* bits: the bitmaps of the pools; for each address space, vaddr: the
                   \* bitmap of virtual pages, pt: page table entries, pd: page tables
          lock,    \* the holder of each pool's lock
          state,   \* "none", "new", "start" in start_process(), "user", "stuck" on a
                   \* lock, "dead" (TASK_HANGING)
          own,     \* the kernel pages of a process: PCB, vaddr bitmap, page directory
          ptrs,    \* what malloc() returned and the program still has: <<page, count>>
          main,    \* label, arguments and locals of main()'s malloc() and free(), and g,
                   \* the frame that start_process() found for a page table
          panic,   \* an ASSERT, a page fault in the kernel, or a page table at address 0
          calls,   \* (bound) the calls so far, of processes and of main()
          short,   \* (history) a request for pages failed
          raced    \* (history) the kernel's pool or addresses changed between a scan and
                   \* the set that goes with it

vars == <<mem, lock, state, own, ptrs, main, panic, calls, short, raced>>

Spaces == Procs \cup {Main}

Empty == [x \in {} |-> x]

Stack == UserPages - 1

PoolOf(s) == IF s = Main THEN "kernel" ELSE "user"

PoolBits(pool) == IF pool = "kernel" THEN KernelBits ELSE UserBits

PageBits(s) == IF s = Main THEN KernelBits ELSE UserPages

-----------------------------------------------------------------------------
(* Operators on mem. A request in progress is [m, ok, bad]: ok is FALSE    *)
(* once it failed, bad is TRUE once an ASSERT fired or NULL was used.      *)

Request(m) == [m |-> m, ok |-> TRUE, bad |-> FALSE]

With(f, x, y) == [z \in DOMAIN f \cup {x} |-> IF z = x THEN y ELSE f[z]]

Without(f, S) == Restrict(f, DOMAIN f \ S)

\* the frame, or a bit -1 for NULL
palloc(m, pool) == <<pool, bitmap_scan(m.bits[pool], PoolBits(pool), 1)>>

Take(m, f) == [m EXCEPT !.bits[f[1]] = bitmap_set(@, f[2], 1)]

pfree(m, f) == [m EXCEPT !.bits[f[1]] = bitmap_set(@, f[2], 0)]

\* page v of space s gets frame f; a missing page table gets frame g, and NULL is not
\* looked for
Mapped(m, s, v, f, g) ==
    LET t == v \div TableSpan
        missing == s # Main /\ t \notin DOMAIN m.pd[s]
        n == IF missing /\ g[2] # -1 THEN [Take(m, g) EXCEPT !.pd[s] = With(@, t, g)] ELSE m
    IN  [m   |-> [n EXCEPT !.pt[s] = With(@, v, f)],
         ok  |-> TRUE,
         bad |-> (missing /\ g[2] = -1) \/ v \in DOMAIN m.pt[s]]

\* the page table comes from the kernel pool, whose lock the caller does not have
page_table_add(m, s, v, f) == Mapped(m, s, v, f, palloc(m, "kernel"))

\* palloc() and page_table_add() for page v of space s
AddPage(r, s, v) ==
    LET f == palloc(r.m, PoolOf(s))
    IN  IF r.bad \/ ~r.ok THEN r
        ELSE IF f[2] = -1 THEN [r EXCEPT !.ok = FALSE]
        ELSE page_table_add(Take(r.m, f), s, v, f)

\* Mutant of vaddr_get: the last page of the run is not marked.
VaddrMarksLess(m, s, n) ==
    LET start == bitmap_scan(m.vaddr[s], PageBits(s), n)
    IN  [m |-> IF start = -1 THEN m ELSE [m EXCEPT !.vaddr[s] = SetRange(@, start, n - 1)],
         v |-> start]

\* vaddr_get(): marks the pages and returns the first
vaddr_get(m, s, n) ==
    LET start == bitmap_scan(m.vaddr[s], PageBits(s), n)
    IN  [m |-> IF start = -1 THEN m ELSE [m EXCEPT !.vaddr[s] = SetRange(@, start, n)],
         v |-> start]

\* malloc_page(): when a page is missing the range stays marked, and the pages before
\* it stay mapped. Result: the request, and the first page or -1.
MappedPages(r, v) == [r |-> r, v |-> IF r.ok THEN v ELSE -1]

MapPages(m, s, n, g) ==
    LET step[i \in 0..n] == IF i = 0 THEN Request(g.m) ELSE AddPage(step[i - 1], s, g.v + i - 1)
    IN  IF g.v = -1 THEN [r |-> [Request(m) EXCEPT !.ok = FALSE], v |-> -1]
        ELSE MappedPages(step[n], g.v)

malloc_page(m, s, n) == MapPages(m, s, n, vaddr_get(m, s, n))

\* Mutant of mfree_page: the loop frees one page too many.
FreesOneMore(m, s, v, n) ==
    LET pages == (v..(v + n)) \cap DOMAIN m.pt[s]
        frames == {m.pt[s][x] : x \in pages}
    IN  [m EXCEPT !.bits = [pool \in DOMAIN @ |-> @[pool] \ {f[2] : f \in {g \in frames : g[1] = pool}}],
                  !.pt[s] = Without(@, pages),
                  !.vaddr[s] = ClearRange(@, v, n + 1)]

\* mfree_page(): pfree() and page_table_pte_remove() for each page, vaddr_remove()
mfree_page(m, s, v, n) ==
    LET pages == v..(v + n - 1)
        frames == {m.pt[s][x] : x \in pages}
    IN  [m EXCEPT !.bits = [pool \in DOMAIN @ |-> @[pool] \ {f[2] : f \in {g \in frames : g[1] = pool}}],
                  !.pt[s] = Without(@, pages),
                  !.vaddr[s] = ClearRange(@, v, n)]

\* get_a_page() for a process: the page is marked whether it was or not
get_a_page(r, p, v) ==
    IF r.bad \/ ~r.ok THEN r
    ELSE AddPage([r EXCEPT !.m.vaddr[p] = bitmap_set(@, v, 1)], p, v)

-----------------------------------------------------------------------------
(* The boot: process_execute(init) up to its start, main() not yet at work *)

\* PCB, vaddr bitmap and page directory; bit KernelBits lies past the end of the
\* bitmap kernel_vaddr, in memory that nobody initialises
KernelPagesOf(start) == [pcb |-> start, bitmap |-> start + 1, pgdir |-> start + 1 + BitmapPages]

Booted == 2 + BitmapPages

Init ==
    /\ \E past \in SUBSET {KernelBits} :
          mem = [bits  |-> [kernel |-> 0..(Booted - 1), user |-> {}],
                 vaddr |-> [s \in Spaces |-> IF s = Main THEN 0..(Booted - 1) \cup past ELSE {}],
                 pt    |-> [s \in Spaces |-> IF s = Main
                                            THEN [v \in 0..(Booted - 1) |-> <<"kernel", v>>]
                                            ELSE Empty],
                 pd    |-> [s \in Spaces |-> Empty]]
    /\ lock = [kernel |-> NULL, user |-> NULL]
    /\ state = [p \in Procs |-> IF p = FirstProc THEN "new" ELSE "none"]
    /\ own = [p \in Procs |-> IF p = FirstProc THEN KernelPagesOf(0) ELSE NULL]
    /\ ptrs = [s \in Spaces |-> {}]
    /\ main = [pc |-> "out", n |-> 0, v |-> 0, i |-> 0, f |-> NULL, g |-> NULL]
    /\ panic = FALSE /\ calls = 0 /\ short = FALSE /\ raced = FALSE

-----------------------------------------------------------------------------
(* System calls                                                            *)

Free(pool, p) == lock[pool] \in {NULL, p}

\* main() has scanned a bitmap, or loaded a byte of it, and not yet stored the result
InWindow == main.pc \in {"vset", "pset", "free"}

KernelChanged(m) == m.bits.kernel # mem.bits.kernel \/ m.vaddr[Main] # mem.vaddr[Main]

\* the end of a system call that did the request r
Done(r) ==
    /\ mem' = r.m
    /\ panic' = r.bad
    /\ short' = (short \/ ~r.ok)
    /\ raced' = (raced \/ (InWindow /\ KernelChanged(r.m)))

Calls(p) == ~panic /\ calls < MaxCalls /\ state[p] = "user"

\* start_process(), with interrupts on: get_a_page() for the stack, up to the scan for the
\* frame of the page table. What it does to the user pool and to the process's own bitmap
\* before that main() does not see; it is in the second step.
StartProcess(p) ==
    /\ ~panic /\ state[p] = "new" /\ Free("user", p)
    /\ lock' = [lock EXCEPT !.user = p]
    /\ state' = [state EXCEPT ![p] = "start"]
    /\ main' = [main EXCEPT !.g = palloc(mem, "kernel")]
    /\ UNCHANGED <<mem, own, ptrs, panic, calls, short, raced>>

\* the set of that frame, and the rest
StackMapped(p) ==
    /\ ~panic /\ state[p] = "start"
    /\ LET f == palloc(mem, "user")
           m == [Take(mem, f) EXCEPT !.vaddr[p] = bitmap_set(@, Stack, 1)]
       IN  Done(Mapped(m, p, Stack, f, main.g))
    /\ lock' = [lock EXCEPT !.user = NULL]
    /\ state' = [state EXCEPT ![p] = "user"]
    /\ main' = [main EXCEPT !.g = NULL]
    /\ UNCHANGED <<own, ptrs, calls>>

\* sys_malloc() of n pages
Malloc(p, n) ==
    /\ Calls(p) /\ Free("user", p)
    /\ LET a == malloc_page(mem, p, n)
       IN  /\ Done(a.r)
           /\ ptrs' = IF a.v = -1 THEN ptrs ELSE [ptrs EXCEPT ![p] = @ \cup {<<a.v, n>>}]
    /\ calls' = calls + 1
    /\ UNCHANGED <<lock, state, own, main>>

\* sys_free() of what malloc() returned
FreePages(p, a) ==
    /\ Calls(p) /\ Free("user", p)
    /\ Done(Request(mfree_page(mem, p, a[1], a[2])))
    /\ ptrs' = [ptrs EXCEPT ![p] = @ \ {a}]
    /\ calls' = calls + 1
    /\ UNCHANGED <<lock, state, own, main>>

\* get_a_page() that finds the pool empty returns without lock_release()
ExecLock(p, ok) == IF ok THEN lock ELSE [lock EXCEPT !.user = p]

\* sys_execv(): segment_load() takes the pages that are not there yet. The new program
\* knows no pointer of the old one; the old pages stay until exit().
Exec(p) ==
    /\ Calls(p) /\ Free("user", p)
    /\ LET step[i \in 0..Len(Image)] ==
               IF i = 0 THEN Request(mem)
               ELSE IF Image[i] \in DOMAIN step[i - 1].m.pt[p] THEN step[i - 1]
               ELSE get_a_page(step[i - 1], p, Image[i])
           r == step[Len(Image)]
       IN  /\ Done(r)
           /\ lock' = ExecLock(p, r.ok)
           /\ ptrs' = IF r.ok THEN [ptrs EXCEPT ![p] = {}] ELSE ptrs
    /\ calls' = calls + 1
    /\ UNCHANGED <<state, own, main>>

\* the kernel pages of sys_fork() in order: PCB, buffer, vaddr bitmap, page directory
ForkNeeds == <<1, 1, BitmapPages, 1>>

\* Nothing is given back when a later request fails.
ForkGets(q, a) == [r |-> a.r, v |-> Append(q.v, a.v)]

ForkRequest(q, n) == IF ~q.r.ok THEN q ELSE ForkGets(q, malloc_page(q.r.m, Main, n))

ForkKernel ==
    LET step[i \in 0..4] ==
            IF i = 0 THEN [r |-> Request(mem), v |-> <<>>]
            ELSE ForkRequest(step[i - 1], ForkNeeds[i])
    IN  step[4]

\* one page of copy_body_stack3(): every marked page is read in the parent's space and
\* written in the child's, whether it is mapped or not
CopyPage(r, p, c, v) ==
    LET a == AddPage(r, c, v)
    IN  IF r.bad \/ v \notin r.m.vaddr[p] THEN r
        ELSE [a EXCEPT !.bad = @ \/ ~a.ok \/ v \notin DOMAIN r.m.pt[p]]

copy_body_stack3(m, p, c) ==
    LET step[i \in 0..UserPages] ==
            IF i = 0 THEN Request([m EXCEPT !.vaddr[c] = m.vaddr[p]])
            ELSE CopyPage(step[i - 1], p, c, i - 1)
    IN  step[UserPages]

\* the buffer page is given back after the copy r
ForkCopied(r, buffer) == Done(IF r.bad THEN r ELSE [r EXCEPT !.m = mfree_page(@, Main, buffer, 1)])

Forked(p, c, k) ==
    /\ k.r.ok
    /\ ForkCopied(copy_body_stack3(k.r.m, p, c), k.v[2])
    /\ own' = [own EXCEPT ![c] = [pcb |-> k.v[1], bitmap |-> k.v[3], pgdir |-> k.v[4]]]

Fork(p, c) ==
    /\ Calls(p) /\ Free("kernel", p) /\ Free("user", p)
    /\ state[c] = "none"
    /\ Forked(p, c, ForkKernel)
    /\ state' = [state EXCEPT ![c] = "user"]
    /\ ptrs' = [ptrs EXCEPT ![c] = ptrs[p]]
    /\ calls' = calls + 1
    /\ UNCHANGED <<lock, main>>

ForkFails(p) ==
    /\ Calls(p) /\ Free("kernel", p)
    /\ ~ForkKernel.r.ok
    /\ Done(ForkKernel.r)
    /\ calls' = calls + 1
    /\ UNCHANGED <<lock, state, own, ptrs, main>>

\* the first page to copy waits for the user pool's lock, which is never released
ForkSticks(p) ==
    /\ Calls(p) /\ Free("kernel", p) /\ ~Free("user", p)
    /\ ForkKernel.r.ok
    /\ Done(ForkKernel.r)
    /\ state' = [state EXCEPT ![p] = "stuck"]
    /\ calls' = calls + 1
    /\ UNCHANGED <<lock, own, ptrs, main>>

\* Mutant of release_prog_resource: the page tables are forgotten.
ReleaseKeepsTables(m, p) ==
    LET frames == Range(m.pt[p])
        n == [m EXCEPT !.bits.user = @ \ {f[2] : f \in frames},
                       !.pt[p] = Empty, !.pd[p] = Empty, !.vaddr[p] = {}]
    IN  mfree_page(n, Main, own[p].bitmap, BitmapFreed)

\* every frame the page tables name, the page tables, and the vaddr bitmap without its
\* last page; no lock is taken
release_prog_resource(m, p) ==
    LET n == [m EXCEPT !.bits.user = @ \ {f[2] : f \in Range(m.pt[p])},
                       !.bits.kernel = @ \ {f[2] : f \in Range(m.pd[p])},
                       !.pt[p] = Empty, !.pd[p] = Empty, !.vaddr[p] = {}]
    IN  mfree_page(n, Main, own[p].bitmap, BitmapFreed)

\* sys_exit(); init never exits
Exit(p) ==
    /\ Calls(p) /\ p # FirstProc
    /\ Done(Request(release_prog_resource(mem, p)))
    /\ state' = [state EXCEPT ![p] = "dead"]
    /\ ptrs' = [ptrs EXCEPT ![p] = {}]
    /\ calls' = calls + 1
    /\ UNCHANGED <<lock, own, main>>

\* sys_wait(): thread_exit(c, false), again without a lock
Wait(p, c) ==
    /\ Calls(p) /\ state[c] = "dead"
    /\ Done(Request(mfree_page(mfree_page(mem, Main, own[c].pgdir, 1), Main, own[c].pcb, 1)))
    /\ state' = [state EXCEPT ![c] = "none"]
    /\ own' = [own EXCEPT ![c] = NULL]
    /\ calls' = calls + 1
    /\ UNCHANGED <<lock, ptrs, main>>

-----------------------------------------------------------------------------
(* main(): sys_malloc() and sys_free() of whole pages in a kernel thread   *)

MainAt(label) == ~panic /\ main.pc = label

MainGoto(label) == main' = [main EXCEPT !.pc = label]

MainMalloc(n) ==
    /\ MainAt("out") /\ lock.kernel = NULL /\ calls < MaxCalls
    /\ calls' = calls + 1
    /\ lock' = [lock EXCEPT !.kernel = Main]
    /\ main' = [main EXCEPT !.pc = "vscan", !.n = n, !.i = 0]
    /\ UNCHANGED <<mem, state, own, ptrs, panic, short, raced>>

\* vaddr_get()
MainVScan ==
    /\ MainAt("vscan")
    /\ LET v == bitmap_scan(mem.vaddr[Main], KernelBits, main.n)
       IN  /\ main' = [main EXCEPT !.pc = IF v = -1 THEN "unlock" ELSE "vset", !.v = v]
           /\ short' = (short \/ v = -1)
    /\ UNCHANGED <<mem, lock, state, own, ptrs, panic, calls, raced>>

MainVSet ==
    /\ MainAt("vset")
    /\ mem' = [mem EXCEPT !.vaddr[Main] = SetRange(@, main.v, main.n)]
    /\ MainGoto("pscan")
    /\ UNCHANGED <<lock, state, own, ptrs, panic, calls, short, raced>>

\* palloc() up to its scan, or the end of malloc_page()'s loop
MainPScan ==
    /\ MainAt("pscan")
    /\ LET f == palloc(mem, "kernel")
       IN  IF main.i = main.n
           THEN /\ ptrs' = [ptrs EXCEPT ![Main] = @ \cup {<<main.v, main.n>>}]
                /\ MainGoto("unlock")
                /\ UNCHANGED short
           ELSE /\ main' = [main EXCEPT !.pc = IF f[2] = -1 THEN "unlock" ELSE "pset", !.f = f]
                /\ short' = (short \/ f[2] = -1)
                /\ UNCHANGED ptrs
    /\ UNCHANGED <<mem, lock, state, own, panic, calls, raced>>

\* the rest of palloc(), and page_table_add()
MainPSet ==
    /\ MainAt("pset")
    /\ LET r == page_table_add(Take(mem, main.f), Main, main.v + main.i, main.f)
       IN  mem' = r.m /\ panic' = r.bad
    /\ main' = [main EXCEPT !.pc = "pscan", !.i = @ + 1]
    /\ raced' = (raced \/ main.g # NULL)
    /\ UNCHANGED <<lock, state, own, ptrs, calls, short>>

MainFree(a) ==
    /\ MainAt("out") /\ lock.kernel = NULL /\ calls < MaxCalls
    /\ calls' = calls + 1
    /\ lock' = [lock EXCEPT !.kernel = Main]
    /\ main' = [main EXCEPT !.pc = "free", !.v = a[1], !.n = a[2]]
    /\ ptrs' = [ptrs EXCEPT ![Main] = @ \ {a}]
    /\ UNCHANGED <<mem, state, own, panic, short, raced>>

MainFreeSet ==
    /\ MainAt("free")
    /\ mem' = mfree_page(mem, Main, main.v, main.n)
    /\ MainGoto("unlock")
    /\ UNCHANGED <<lock, state, own, ptrs, panic, calls, short, raced>>

MainUnlock ==
    /\ MainAt("unlock")
    /\ lock' = [lock EXCEPT !.kernel = NULL]
    /\ main' = [main EXCEPT !.pc = "out", !.n = 0, !.v = 0, !.i = 0, !.f = NULL]
    /\ UNCHANGED <<mem, state, own, ptrs, panic, calls, short, raced>>

MainStep ==
    \/ \E n \in MainSizes : MainMalloc(n)
    \/ \E a \in ptrs[Main] : MainFree(a)
    \/ MainVScan \/ MainVSet \/ MainPScan \/ MainPSet
    \/ MainFreeSet \/ MainUnlock

Next ==
    \/ MainStep
    \/ \E p \in Procs :
          \/ StartProcess(p) \/ StackMapped(p) \/ Exec(p) \/ Exit(p) \/ ForkFails(p) \/ ForkSticks(p)
          \/ \E n \in Sizes : Malloc(p, n)
          \/ \E a \in ptrs[p] : FreePages(p, a)
          \/ \E c \in Procs \ {p} : Fork(p, c) \/ Wait(p, c)

Spec == Init /\ [][Next]_vars

-----------------------------------------------------------------------------
(* Properties                                                              *)

\* every variable has the shape its C declaration gives it
TypeOK ==
    /\ mem.bits.kernel \subseteq 0..(KernelBits - 1)
    /\ mem.bits.user \subseteq 0..(UserBits - 1)
    /\ mem.vaddr[Main] \subseteq 0..KernelBits
    /\ lock \in [{"kernel", "user"} -> Spaces \cup {NULL}]
    /\ state \in [Procs -> {"none", "new", "start", "user", "stuck", "dead"}]
    /\ \A s \in Spaces : ptrs[s] \subseteq (0..KernelBits) \X (Sizes \cup MainSizes)
    /\ {panic, short, raced} \subseteq BOOLEAN

\* the page table entries and page directory entries that name frame f
Uses(f) ==
    UNION {{<<s, "pt", v>> : v \in {x \in DOMAIN mem.pt[s] : mem.pt[s][x] = f}} : s \in Spaces}
    \cup
    UNION {{<<s, "pd", t>> : t \in {x \in DOMAIN mem.pd[s] : mem.pd[s][x] = f}} : s \in Spaces}

\* Every variable has its type, and a frame is used at one place exactly while its bit is
\* set: whatever order processes fork, exec, exit and fail in, no frame is handed out twice,
\* freed under somebody, or lost. This holds until the kernel's pool changes between a scan
\* and its set, since page_table_add(), exit() and wait() take no lock.
FrameOnce ==
    TypeOK /\ (~panic /\ ~raced =>
        \A pool \in {"kernel", "user"} : \A i \in 0..(PoolBits(pool) - 1) :
            Cardinality(Uses(<<pool, i>>)) = IF i \in mem.bits[pool] THEN 1 ELSE 0)

\* What malloc() returned stays mapped until it is freed, and no two allocations of a
\* program overlap, in the child of a fork() as in the parent. A mapped page is marked in
\* its bitmap, or fork() would not copy it and malloc() would hand it out again; as long as
\* no request has failed, a marked page is mapped, or fork() would read it and fault.
AllocationsSound ==
    ~panic /\ ~raced => \A s \in Spaces :
        /\ \A a \in ptrs[s] : a[1]..(a[1] + a[2] - 1) \subseteq DOMAIN mem.pt[s]
        /\ \A a, b \in ptrs[s] :
              a # b => (a[1]..(a[1] + a[2] - 1)) \cap (b[1]..(b[1] + b[2] - 1)) = {}
        /\ DOMAIN mem.pt[s] \subseteq mem.vaddr[s]
        /\ ~short /\ s # Main => mem.vaddr[s] = DOMAIN mem.pt[s]

\* The kernel faults or asserts only when a request for pages has failed before, or when
\* the kernel pool is empty and page_table_add() does not look at palloc()'s NULL.
FaultsOnlyShort == panic => short \/ raced \/ mem.bits.kernel = 0..(KernelBits - 1)

\* In the address space of a process bitmap_scan() returns the first run of free pages that
\* is long enough and lies in the bitmap, although it tests a bit past the end: the page of
\* the stack, the last one, is marked before the first malloc() and stays so, through
\* fork(), exec() and free().
ScanSound ==
    \A p \in Procs :
        /\ \A n \in Sizes :
              IsFirstFit(mem.vaddr[p], UserPages, n, bitmap_scan(mem.vaddr[p], UserPages, n))
        /\ DOMAIN mem.pt[p] \subseteq 0..(UserPages - 1)
=============================================================================
