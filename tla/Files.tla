-------------------------------- MODULE Files -------------------------------
(***************************************************************************)
(* Calls of several processes on files of one directory: fs/file.c and     *)
(* fs/fs.c at the points where a call sleeps on the disk, in ide_read() or *)
(* ide_write(). Between two such points a call is one step; no lock is     *)
(* held over them. The writes of the bitmaps and of a new directory's own  *)
(* block are left out: no call reads them back. Blocks and bytes are in    *)
(* module Fs.                                                              *)
(*   dir    the entries in the block of the directory, [name, i]           *)
(*   table  the inodes that the table on the disk has                      *)
(*   k      the kernel's memory: bits, the bitmap of inodes; obj, the      *)
(*          inodes in memory; open, the list open_inodes; ft, file_table;  *)
(*          seen, which calls met each other (below); bad, why the kernel  *)
(*          stopped                                                        *)
(*   fd     the local descriptors of each process: slots of ft, or 0       *)
(*   st     where each process is: "none" before fork(), "user", or asleep *)
(*          in a call: "load" an inode to open; "dread", "dwrite" the      *)
(*          block of the directory; "pread", "pwrite" the table for the    *)
(*          inode of the directory; "iread", "iwrite" for that of the      *)
(*          file; "release", "rload" an inode that is to be released;      *)
(*          "done" before the return. job is "mkdir" or "unlink", snap     *)
(*          what was read                                                  *)
(* No process creates a file: its inode would be in the memory of that     *)
(* process (inode_close of module Inode). The files are those of main().   *)
(***************************************************************************)
EXTENDS Integers, Sequences, FiniteSets, SequencesExt

CONSTANTS Procs,     \* the processes; 1 runs at first
          Files,     \* the entries of the files, [name, i, type]
          Names,     \* of directories that are made
          Numbers,   \* of inodes, 0 is that of a blank inode
          Slots,     \* of file_table, from 1 on
          Locals,    \* local descriptors
          Objects,   \* names of inodes in memory
          MaxCalls   \* bound: number of calls

VARIABLES dir, table, k, fd, st, calls

vars == <<dir, table, k, fd, st, calls>>

User == [at |-> "user", job |-> "", name |-> "", w |-> FALSE, g |-> 0, i |-> 0, o |-> 0, snap |-> {}]

Entry(name, i, type) == [name |-> name, i |-> i, type |-> type]

NoFile == [o |-> 0, w |-> FALSE]

Init ==
    /\ dir = Files /\ table = {e.i : e \in Files} /\ calls = 0
    /\ k = [bits |-> {e.i : e \in Files}, obj |-> <<>>, open |-> <<>>, ft |-> [g \in Slots |-> NoFile],
            seen |-> {}, bad |-> ""]
    /\ fd = [p \in Procs |-> [l \in Locals |-> 0]]
    /\ \E a \in SUBSET Procs :
          1 \in a /\ st = [p \in Procs |-> IF p \in a THEN User ELSE [User EXCEPT !.at = "none"]]

See(m, cond, what) == IF cond THEN [m EXCEPT !.seen = @ \cup {what}] ELSE m

Others(p, labels) == {r \in Procs \ {p} : st[r].at \in labels}

\* Two calls met in a way that the code does not expect; they are not followed further.
Met == k.seen \cap {"slot", "twice", "gone", "dir", "table", "name"} # {}

Call(p) ==
    /\ ~Met /\ k.bad = "" /\ st[p].at = "user"
    /\ calls < MaxCalls /\ calls' = calls + 1

Sleeps(p, label) ==
    /\ ~Met /\ k.bad = "" /\ st[p].at = label
    /\ UNCHANGED calls

-----------------------------------------------------------------------------
(* The tables                                                              *)

FreeSlots(m) == {g \in Slots : m.ft[g].o = 0}

get_free_slot_in_global(m) == Min(FreeSlots(m))

\* the slot is one that an open() in flight will use
SeeSlot(m, p, g) == See(m, \E r \in Others(p, {"load"}) : st[r].g = g, "slot")

Cached(m, i) == SelectSeq(m.open, LAMBDA o : m.obj[o].no = i)

AddObject(m, o, x) == [m EXCEPT !.obj = [y \in DOMAIN @ \cup {o} |-> IF y = o THEN x ELSE @[y]]]

NewObject(i) == [no |-> i, cnt |-> 1, deny |-> FALSE]

FreeObject(m) == Min(Objects \ DOMAIN m.obj)

\* an inode from the table goes to the head of the list; "twice" is seen when it is there
Load(m, i) ==
    LET o == FreeObject(m)
    IN  [AddObject(See(m, Cached(m, i) # <<>>, "twice"), o, NewObject(IF i \in table THEN i ELSE 0))
            EXCEPT !.open = <<o>> \o @]

inode_close(m, o) ==
    IF o \notin DOMAIN m.obj THEN [m EXCEPT !.bad = "freed"]
    ELSE IF m.obj[o].cnt > 1 THEN [m EXCEPT !.obj[o].cnt = @ - 1]
    ELSE [m EXCEPT !.open = Remove(@, o), !.obj = [y \in DOMAIN @ \ {o} |-> @[y]]]

WriterSlots(m, o) == {g \in Slots : m.ft[g].o = o /\ m.ft[g].w}

\* file_close(): the slot is free for all who have it; write_deny is cleared by anybody
file_close(m, g) ==
    LET o == m.ft[g].o
    IN  IF o = 0 THEN [m EXCEPT !.bad = "null"]
        ELSE IF o \notin DOMAIN m.obj THEN [m EXCEPT !.bad = "freed"]
        ELSE LET c == See(m, WriterSlots(m, o) \ {g} # {}, "cleared")
             IN  [inode_close([c EXCEPT !.obj[o].deny = FALSE], o) EXCEPT !.ft[g] = NoFile]

FreeLocals(p) == {l \in Locals : fd[p][l] = 0}

\* pcb_fd_install(); without a local descriptor the slot stays taken
Install(p, m, g) ==
    IF FreeLocals(p) = {} THEN k' = See(m, TRUE, "full") /\ UNCHANGED fd
    ELSE k' = m /\ fd' = [fd EXCEPT ![p][Min(FreeLocals(p))] = g]

\* the end of file_open(): a second writer is refused, with the slot taken
Opened(p, m, g, o, w) ==
    LET e == [m EXCEPT !.ft[g] = [o |-> o, w |-> w]]
    IN  /\ IF w /\ m.obj[o].deny THEN k' = See(e, TRUE, "refused") /\ UNCHANGED fd
           ELSE Install(p, [e EXCEPT !.obj[o].deny = @ \/ w], g)
        /\ st' = [st EXCEPT ![p] = User]

-----------------------------------------------------------------------------
(* open() and close()                                                      *)

\* "gone" is seen when the file is being unlinked
Meets(m, p, i) ==
    See(m, \E r \in Procs \ {p} : st[r].job = "unlink" /\ st[r].i = i, "gone")

\* the directory was searched; the inode is in memory
OpenCached(p, name, w) ==
    /\ Call(p) /\ FreeSlots(k) # {}
    /\ \E e \in dir :
          /\ e.name = name /\ e.type = "file" /\ Cached(k, e.i) # <<>>
          /\ LET o == Head(Cached(k, e.i))
                 g == get_free_slot_in_global(k)
             IN  Opened(p, [Meets(SeeSlot(k, p, g), p, e.i) EXCEPT !.obj[o].cnt = @ + 1], g, o, w)
    /\ UNCHANGED <<dir, table>>

\* it is not: the slot is chosen, but it is taken after the inode was read
OpenMiss(p, name, w) ==
    /\ Call(p) /\ FreeSlots(k) # {}
    /\ \E e \in dir :
          /\ e.name = name /\ e.type = "file" /\ Cached(k, e.i) = <<>>
          /\ LET g == get_free_slot_in_global(k)
             IN  /\ st' = [st EXCEPT ![p] = [User EXCEPT !.at = "load", !.w = w, !.g = g, !.i = e.i]]
                 /\ k' = Meets(SeeSlot(k, p, g), p, e.i)
    /\ UNCHANGED <<dir, table, fd>>

OpenLoaded(p) ==
    /\ Sleeps(p, "load")
    /\ LET m == Load(k, st[p].i) IN Opened(p, m, st[p].g, Head(m.open), st[p].w)
    /\ UNCHANGED <<dir, table>>

sys_close(p, l) ==
    /\ Call(p) /\ fd[p][l] # 0
    /\ k' = file_close(k, fd[p][l])
    /\ fd' = [fd EXCEPT ![p][l] = 0]
    /\ UNCHANGED <<dir, table, st>>

-----------------------------------------------------------------------------
(* Reading and writing sectors: what was read before is written back       *)

ReadDir(p) ==
    /\ Sleeps(p, "dread")
    /\ st' = [st EXCEPT ![p] = IF st[p].job = "unlink" /\ \A e \in dir : e.i # st[p].i
                               THEN [@ EXCEPT !.at = "release"]
                               ELSE [@ EXCEPT !.at = "dwrite", !.snap = dir]]
    /\ UNCHANGED <<dir, table, k, fd>>

\* sync_dir_entry() adds the entry, delete_dir_entry() removes the one with the number;
\* "dir" is seen when the block was written in between
WriteDir(p) ==
    /\ Sleeps(p, "dwrite")
    /\ dir' = IF st[p].job = "mkdir" THEN st[p].snap \cup {Entry(st[p].name, st[p].i, "dir")}
              ELSE {e \in st[p].snap : e.i # st[p].i}
    /\ k' = See(k, dir # st[p].snap, "dir")
    /\ st' = [st EXCEPT ![p].at = "pread", ![p].snap = {}]
    /\ UNCHANGED <<table, fd>>

ReadTable(p) ==
    /\ \E label \in {"pread", "iread"} :
          /\ Sleeps(p, label)
          /\ st' = [st EXCEPT ![p].at = IF label = "pread" THEN "pwrite" ELSE "iwrite", ![p].snap = table]
    /\ UNCHANGED <<dir, table, k, fd>>

\* inode_sync() of the directory
WriteParent(p) ==
    /\ Sleeps(p, "pwrite")
    /\ table' = st[p].snap
    /\ k' = See(k, table # st[p].snap, "table")
    /\ st' = [st EXCEPT ![p].at = IF st[p].job = "mkdir" THEN "iread" ELSE "release", ![p].snap = {}]
    /\ UNCHANGED <<dir, fd>>

\* inode_sync() of a new file, inode_delete() of an old one
WriteInode(p) ==
    /\ Sleeps(p, "iwrite")
    /\ table' = IF st[p].job = "mkdir" THEN st[p].snap \cup {st[p].i} ELSE st[p].snap \ {st[p].i}
    /\ k' = See(k, table # st[p].snap, "table")
    /\ st' = [st EXCEPT ![p].at = "done", ![p].snap = {}]
    /\ UNCHANGED <<dir, fd>>

-----------------------------------------------------------------------------
(* mkdir()                                                                 *)

\* up to the read of the parent's block: the number is taken; "name" is seen when the same
\* directory is being made
sys_mkdir(p, name) ==
    LET i == Min(Numbers \ k.bits)
        rival == \E r \in Procs \ {p} : st[r].job = "mkdir" /\ st[r].name = name
    IN  /\ Call(p) /\ Numbers \ k.bits # {}
        /\ \A e \in dir : e.name # name
        /\ k' = [See(k, rival, "name") EXCEPT !.bits = @ \cup {i}]
        /\ st' = [st EXCEPT ![p] = [User EXCEPT !.at = "dread", !.job = "mkdir", !.name = name, !.i = i]]
        /\ UNCHANGED <<dir, table, fd>>

MkdirDone(p) ==
    /\ Sleeps(p, "done") /\ st[p].job = "mkdir"
    /\ st' = [st EXCEPT ![p] = User]
    /\ UNCHANGED <<dir, table, k, fd>>

-----------------------------------------------------------------------------
(* unlink()                                                                *)

\* Mutant of Busy: the loop over file_table starts one slot late.
BusyLater(i) ==
    \E g \in Slots \ {1} : k.ft[g].o \in DOMAIN k.obj /\ k.obj[k.ft[g].o].no = i

Busy(i) == \E g \in Slots : k.ft[g].o \in DOMAIN k.obj /\ k.obj[k.ft[g].o].no = i

\* "gone" is seen when an open() of the file is in flight, which the test cannot see
sys_unlink(p, name) ==
    /\ Call(p)
    /\ \E e \in dir :
          /\ e.name = name /\ e.type = "file" /\ ~Busy(e.i)
          /\ st' = [st EXCEPT ![p] = [User EXCEPT !.at = "dread", !.job = "unlink", !.i = e.i]]
          /\ k' = See(Meets(k, p, e.i), \E r \in Others(p, {"load"}) : st[r].i = e.i, "gone")
    /\ UNCHANGED <<dir, table, fd>>

\* inode_release(): the inode is opened, and its bit cleared
Released(p, m, o) ==
    /\ k' = IF m.obj[o].no # st[p].i THEN [m EXCEPT !.bad = "assert"] ELSE [m EXCEPT !.bits = @ \ {st[p].i}]
    /\ st' = [st EXCEPT ![p].at = "iread", ![p].o = o]

ReleaseOpen(p) ==
    LET hits == Cached(k, st[p].i)
    IN  /\ Sleeps(p, "release")
        /\ IF hits # <<>> THEN Released(p, [k EXCEPT !.obj[Head(hits)].cnt = @ + 1], Head(hits))
           ELSE st' = [st EXCEPT ![p].at = "rload"] /\ UNCHANGED k
        /\ UNCHANGED <<dir, table, fd>>

ReleaseLoaded(p) ==
    /\ Sleeps(p, "rload")
    /\ LET m == Load(k, st[p].i) IN Released(p, m, Head(m.open))
    /\ UNCHANGED <<dir, table, fd>>

UnlinkDone(p) ==
    /\ Sleeps(p, "done") /\ st[p].job = "unlink"
    /\ k' = inode_close(k, st[p].o)
    /\ st' = [st EXCEPT ![p] = User]
    /\ UNCHANGED <<dir, table, fd>>

-----------------------------------------------------------------------------
(* fork() and exit()                                                       *)

\* update_inode_open_cnts()
Counted(m, f) ==
    [m EXCEPT !.obj = [o \in DOMAIN @ |->
        [@[o] EXCEPT !.cnt = @ + Cardinality({l \in Locals : f[l] # 0 /\ m.ft[f[l]].o = o})]]]

sys_fork(p, c) ==
    LET held == {l \in Locals : fd[p][l] # 0}
        null == \E l \in held : k.ft[fd[p][l]].o = 0
    IN  /\ Call(p) /\ st[c].at = "none"
        /\ k' = IF null THEN [k EXCEPT !.bad = "null"] ELSE See(Counted(k, fd[p]), held # {}, "shared")
        /\ fd' = [fd EXCEPT ![c] = fd[p]]
        /\ st' = [st EXCEPT ![c] = User]
        /\ UNCHANGED <<dir, table>>

\* release_prog_resource() closes the descriptors one after the other
CloseAll(m, f) ==
    FoldLeft(LAMBDA acc, l : IF f[l] = 0 \/ acc.bad # "" THEN acc ELSE file_close(acc, f[l]),
             m, SetToSortSeq(Locals, LAMBDA x, y : x < y))

sys_exit(p) ==
    /\ Call(p)
    /\ k' = CloseAll(k, fd[p])
    /\ fd' = [fd EXCEPT ![p] = [l \in Locals |-> 0]]
    /\ st' = [st EXCEPT ![p].at = "none"]
    /\ UNCHANGED <<dir, table>>

FileNames == {e.name : e \in Files}

Next ==
    \/ \E p \in Procs, name \in FileNames, w \in BOOLEAN : OpenCached(p, name, w) \/ OpenMiss(p, name, w)
    \/ \E p \in Procs : OpenLoaded(p) \/ \E l \in Locals : sys_close(p, l)
    \/ \E p \in Procs : ReadDir(p) \/ WriteDir(p) \/ ReadTable(p) \/ WriteParent(p) \/ WriteInode(p)
    \/ \E p \in Procs : (\E name \in Names : sys_mkdir(p, name)) \/ MkdirDone(p)
    \/ \E p \in Procs : (\E name \in FileNames : sys_unlink(p, name))
    \/ \E p \in Procs : ReleaseOpen(p) \/ ReleaseLoaded(p) \/ UnlinkDone(p)
    \/ \E p, c \in Procs : sys_fork(p, c)
    \/ \E p \in Procs : sys_exit(p)

-----------------------------------------------------------------------------
(* Properties                                                              *)

Descriptors == {<<p, l>> \in Procs \X Locals : fd[p][l] # 0}

SlotOf(x) == fd[x[1]][x[2]]

ObjectOf(x) == k.ft[SlotOf(x)].o

\* Types of the state.
TypeOK ==
    /\ table \subseteq Numbers /\ k.bits \subseteq Numbers
    /\ DOMAIN k.obj \subseteq Objects /\ ToSet(k.open) = DOMAIN k.obj
    /\ \A p \in Procs, l \in Locals : fd[p][l] \in Slots \cup {0}

\* Until two calls meet,
\* - a name is in the directory once, and the number of every entry is marked, once;
\* - an inode is in memory once;
\* - a file that somebody has open is still in the directory;
\* - two writers have a file open only if fork() shared it, or a close() cleared write_deny;
\* and if fork() did not share an open file, each descriptor has a slot of its own with an
\* inode in it, the kernel does not stop, and i_open_cnts is the number of descriptors and
\* of calls at work, unless an open() failed after it took its slot.
FilesSound ==
    TypeOK /\ (~Met =>
    /\ \A a, b \in dir : a.name = b.name \/ a.i = b.i => a = b
    /\ {e.i : e \in dir} \subseteq k.bits
    /\ \A o, q \in DOMAIN k.obj : k.obj[o].no = k.obj[q].no => o = q
    /\ \A x \in Descriptors :
          ObjectOf(x) # 0 => k.obj[ObjectOf(x)].no \in {e.i : e \in dir}
    /\ \A x, y \in Descriptors :
          x # y /\ ObjectOf(x) = ObjectOf(y) /\ ObjectOf(x) # 0
                /\ k.ft[SlotOf(x)].w /\ k.ft[SlotOf(y)].w
          => k.seen \cap {"cleared", "shared"} # {}
    /\ "shared" \notin k.seen =>
          /\ k.bad = ""
          /\ \A x, y \in Descriptors : SlotOf(x) = SlotOf(y) => x = y
          /\ \A x \in Descriptors : ObjectOf(x) # 0
          /\ k.seen \cap {"refused", "full"} = {} =>
                \A o \in DOMAIN k.obj :
                    k.obj[o].cnt = Cardinality({x \in Descriptors : ObjectOf(x) = o})
                                   + Cardinality({p \in Procs : st[p].o = o}))
=============================================================================
