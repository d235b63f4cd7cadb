------------------------------ MODULE MCMemory ------------------------------
(***************************************************************************)
(* Locks, Memory and Heap for TLC, one of them in a behaviour: three       *)
(* threads and idle on two locks; the pages of init, one child and main(); *)
(* the blocks of init and its child, in arenas of two blocks and of one.   *)
(***************************************************************************)
EXTENDS Locks, TLC

CONSTANTS kthread, proc, idle, l1, l2,              \* of Locks
          init, child, main_thread, data, small, big,
          Procs, FirstProc, KernelBits, UserBits, UserPages, TableSpan, BitmapPages,
          BitmapFreed, Sizes, MainSizes, MaxCalls   \* see Memory

VARIABLES level,                                    \* "locks", "pages" or "blocks"
          mMem, mLock, mState, mOwn, mPtrs, mMain, mPanic, mCalls, mShort, mRaced,
          hAlive, hPage, hMarked, hEnds, hHeld, hPanic, hCrossed

mVars == <<mMem, mLock, mState, mOwn, mPtrs, mMain, mPanic, mCalls, mShort, mRaced>>
hVars == <<hAlive, hPage, hMarked, hEnds, hHeld, hPanic, hCrossed>>

MCThreads  == {main_thread, kthread, proc, idle}
MCPriority == [t \in MCThreads |-> IF t = proc THEN 1 ELSE 0]
MCOrder    == <<kthread, idle, proc>>
MCKThreads == {main_thread, kthread, idle}

Mem == INSTANCE Memory WITH
        Image <- <<0, 1>>, mem <- mMem, lock <- mLock, state <- mState, own <- mOwn,
        ptrs <- mPtrs, main <- mMain, panic <- mPanic, calls <- mCalls, short <- mShort,
        raced <- mRaced

ASSUME MCMemoryAssumption == Mem!MemoryAssumption

H == INSTANCE Heap WITH
        First <- FirstProc, Data <- data, PerArena <- small :> 2 @@ big :> 1,
        Pages <- {0, 1}, Frames <- 4,
        alive <- hAlive, page <- hPage, marked <- hMarked, ends <- hEnds, held <- hHeld,
        panic <- hPanic, crossed <- hCrossed

MCInit ==
    /\ level \in {"locks", "pages", "blocks"} /\ Init /\ Mem!Init /\ H!Init
    /\ level # "pages" => KernelBits \notin mMem.vaddr[Main]

MCNext ==
    /\ UNCHANGED level
    /\ \/ level = "locks" /\ Next /\ UNCHANGED <<mVars, hVars>>
       \/ level = "pages" /\ Mem!Next /\ UNCHANGED <<vars, hVars>>
       \/ level = "blocks" /\ H!Next /\ UNCHANGED <<vars, mVars>>

MCSpec == MCInit /\ [][MCNext]_<<vars, mVars, hVars, level>>

\* A behaviour is not followed further once the kernel's pool changed between a scan and
\* its set, or a block went to the list of another process.
NotRaced == ~mRaced /\ ~hCrossed

-----------------------------------------------------------------------------
(* The properties of Memory and Heap, which explain them                   *)

\* Whatever order processes fork, exec, exit and fail in, a frame is used at one place
\* exactly while its bit is set.
FrameOnce == level = "pages" => Mem!FrameOnce

\* What malloc() gave a program stays mapped and disjoint, in the child of a fork() as in
\* the parent, and the bitmap of an address space agrees with its page tables.
AllocationsSound == level = "pages" => Mem!AllocationsSound

\* No ASSERT of the pools fires and the kernel does not fault, unless a request for pages
\* failed.
FaultsOnlyShort == level = "pages" => Mem!FaultsOnlyShort

\* In a process's address space bitmap_scan() returns the first run of free pages that lies
\* in the bitmap, although it tests a bit past the end.
ScanSound == level = "pages" => Mem!ScanSound

\* The ASSERTs of sys_malloc() and sys_free() hold, and no call follows a pointer to nowhere,
\* until a child frees a block that it has from fork().
HeapAsserts == level = "blocks" => H!AssertsHold

\* A free list of sys_malloc() holds exactly the free blocks of its class, both ways,
\* arena->cnt is their number, and an arena that is free goes back.
ListsExact == level = "blocks" => H!ListsExact

\* sys_malloc() and sys_free() never write into a block that a program has.
DataIntact == level = "blocks" => H!DataIntact
=============================================================================
