--------------------------------- MODULE Fs ---------------------------------
(***************************************************************************)
(* fs/fs.c: the calls of the file system, one at a time, by one thread of  *)
(* the kernel or one process, on one partition that was formatted and      *)
(* mounted. A call is one step, and so is a restart of the system between  *)
(* two calls.                                                              *)
(*   d      the partition (module Inode)                                   *)
(*   dh     the directory that opendir() returned, or NoDir                *)
(*   cwd    cwd_inode_nr                                                   *)
(*   last   the call that returned, its path and whether it succeeded      *)
(*   tree   what is on the disk, read as a tree: path to [type, ino, data] *)
(*   calls  the number of calls                                            *)
(* A call that stops the kernel changes nothing but d.bad. A descriptor is *)
(* the entry of file_table that it stands for.                             *)
(***************************************************************************)
EXTENDS File

CONSTANTS Names,      \* the names of files and directories
          Pools,      \* of a caller: "kernel" of a thread, "user" of a process
          Boots,      \* sequences of names: the files of the root made before
          Paths,      \* the paths that calls are made with
          DataPaths,  \* those of the files that are written
          Modes,      \* <<flag, O_CREAT or not>> of open()
          Counts,     \* numbers of bytes to write
          Reads,      \* numbers of bytes to read
          MaxDepth,   \* bound: names of a path
          MaxCalls    \* bound: number of calls

ASSUME ConstantsAssumption ==
    /\ Direct \in Nat \ {0} /\ Two \in Nat \ {0} /\ PerBlock >= 2
    /\ NBlocks \in Nat \ {0} /\ NInodes \in Nat \ {0} /\ B \in Nat \ {0}
    /\ NBlocks % BitsPerSector \in 1..(BitsPerSector - 2) /\ SectorWords >= InodeWords
    /\ PosWidth > B * Flatten
    /\ Root = Min(Objects)
    /\ \A p \in Paths : \A k \in DOMAIN p : p[k] \in Names

VARIABLES d, dh, cwd, last, tree, calls

vars == <<d, dh, cwd, last, tree, calls>>

NoDir == [o |-> 0, root |-> FALSE]

-----------------------------------------------------------------------------
(* What is on the disk                                                     *)

Entries(e, i) == {c.e : c \in ToSet(Scan(e, Load(e, i)))} \ {NoEntry}

Children(e, i) == {x \in Entries(e, i) : x.name \notin Dots}

\* the paths of at most two names, with the entry that each leads to
Nodes(e) ==
    LET top == Children(e, 0)
    IN  {<<<<x.name>>, x>> : x \in top}
        \cup UNION {{<<<<x.name, y.name>>, y>> : y \in Children(e, x.ino)} :
                     x \in {z \in top : z.type = "dir"}}

Content(e, x) ==
    LET flat == Flat(e, x)
    IN  [k \in 1..x.size |-> e.blk[flat[(k - 1) \div B]][(k - 1) % B]]

Node(e, x) ==
    [type |-> x.type, ino |-> x.ino,
     data |-> IF x.type = "file" THEN Content(e, Load(e, x.ino)) ELSE <<>>]

TreeOf(e, nodes) ==
    [p \in {n[1] : n \in nodes} |-> Node(e, (CHOOSE n \in nodes : n[1] = p)[2])]

DiskTree(e) == TreeOf(e, Nodes(e))

-----------------------------------------------------------------------------
(* Formatting and mounting                                                 *)

\* The bits that are set past the last block of the partition: all but the one next to it.
PastEnd == {b \in AllBits : b - 1 > NBlocks}

\* The bit b of the first sector of the bitmap, in the last sector.
InLast(b) == b + (BitmapSectors - 1) * BitsPerSector

\* partition_format(). The bitmap of the blocks and the inode table have several sectors,
\* of which the last is written over the first: the bit of the first block is lost, unless
\* the bitmap has one sector only, and so is the inode of the root directory. Its block has
\* the dots, but is not pointed to. What is in the other sectors of the bitmap does not
\* matter, since they are never read.
Formatted ==
    [dbits  |-> {b \in 1..BitsPerSector : InLast(b) \in PastEnd \/ InLast(b) = 1},
     dibits |-> {0},
     blk    |-> [b \in Blocks |-> IF b = 1 THEN DotBlock(0, 0) ELSE EmptyBlock],
     tab    |-> [a \in TableWords |-> 0]]

\* mount_partition() reads the first sector of the bitmap for every one of them
Restored(dbits) == {b \in AllBits : ((b - 1) % BitsPerSector) + 1 \in dbits}

\* the bits of a partition without files
Reserved == Restored(Formatted.dbits)

\* mount_partition(), open_root_dir() and the rest of fs_init(), from what is on the disk
Mounted(e, pool) ==
    LET blank == [bits |-> Restored(e.dbits), ibits |-> e.dibits,
                  dbits |-> e.dbits, dibits |-> e.dibits,
                  blk |-> e.blk, tab |-> e.tab, obj |-> <<>>, open |-> <<>>,
                  file |-> [g \in Slots |-> NoFile], pool |-> pool, seen |-> {}, bad |-> ""]
    IN  inode_open(blank, 0).d

\* A file in the root directory, as loadelf2fs() makes it at the start of the system; it is
\* left empty, to spare the blocks.
CloseFile(f) == file_close(f.d, f.fd)

MakeFile(e, name) == CloseFile(file_create(e, RootDir, name, "r"))

Booted(e, names) ==
    LET made[k \in 0..Len(names)] == IF k = 0 THEN e ELSE MakeFile(made[k - 1], names[k])
    IN  made[Len(names)]

Init ==
    /\ \E pool \in Pools, names \in Boots :
          d = [Booted(Mounted(Formatted, "kernel"), names) EXCEPT !.pool = pool]
    /\ dh = NoDir /\ cwd = 0 /\ calls = 0 /\ tree = DiskTree(d)
    /\ last = [call |-> "boot", path |-> <<>>, ok |-> TRUE]

\* A call that left [d, ok] returns, or stops the kernel. Calls that change nothing are not
\* counted.
Return(call, path, r) ==
    /\ d.bad = "" /\ calls < MaxCalls
    /\ d' = IF r.d.bad = "" THEN r.d ELSE [d EXCEPT !.bad = r.d.bad]
    /\ tree' = DiskTree(d')
    /\ calls' = IF r.ok \/ d' # d THEN calls + 1 ELSE calls
    /\ last' = IF r.ok /\ r.d.bad = "" THEN [call |-> call, path |-> path, ok |-> TRUE]
               ELSE [call |-> "", path |-> <<>>, ok |-> FALSE]

Success(e) == [d |-> e, ok |-> TRUE]

Failure(e) == [d |-> e, ok |-> FALSE]

\* the call fails and closes the directory that the search s left open
GiveUp(s) == Failure(dir_close(s.d, s.parent))

-----------------------------------------------------------------------------
(* Files; s is what search_file() found                                    *)

CreatedFile(s, f) == [d |-> dir_close(f.d, s.parent), ok |-> f.fd # -1]

\* a file that exists is opened with its directory left open
OpenedFile(s, f) == [d |-> IF s.parent.root THEN f.d ELSE See(f.d, "leak"), ok |-> f.fd # -1]

OpenFile(s, p, flag, creat) ==
    IF s.type = "dir" \/ s.depth # Len(p) \/ (s.i # -1) = creat THEN GiveUp(s)
    ELSE IF creat THEN CreatedFile(s, file_create(s.d, s.parent, Last(p), flag))
    ELSE OpenedFile(s, file_open(s.d, s.i, flag))

\* the path of a directory ends with a slash, and is refused
sys_open(p, flag, creat) ==
    /\ Return(IF creat THEN "create" ELSE "open", p,
              IF p = <<>> THEN Failure(d) ELSE OpenFile(search_file(d, p), p, flag, creat))
    /\ UNCHANGED <<dh, cwd>>

\* the path of an open file, for last
PathOf(g) == CHOOSE p \in DOMAIN tree : tree[p].ino = d.obj[d.file[g].o].no

sys_close(g) ==
    /\ d.file[g].o # 0
    /\ Return("close", <<>>, Success(file_close(d, g)))
    /\ UNCHANGED <<dh, cwd>>

\* bytes that tell where they belong: the file and the position
sys_write(g, n) ==
    LET x == d.obj[d.file[g].o]
    IN  /\ d.file[g].o # 0
        /\ Return("write", PathOf(g),
                  IF Writes(d.file[g].flag)
                  THEN file_write(d, g, [k \in 1..n |-> <<x.no, x.size + k>>]) ELSE Failure(d))
        /\ UNCHANGED <<dh, cwd>>

sys_read(g, n) ==
    /\ d.file[g].o # 0
    /\ Return("read", PathOf(g), file_read(d, g, n))
    /\ UNCHANGED <<dh, cwd>>

\* SEEK_SET; a position at the end of the file or after it is refused
sys_lseek(g, pos) ==
    /\ d.file[g].o # 0
    /\ Return("lseek", PathOf(g),
              IF pos > d.obj[d.file[g].o].size - 1 THEN Failure(d)
              ELSE Success([d EXCEPT !.file[g].pos = pos]))
    /\ UNCHANGED <<dh, cwd>>

\* a file that is open is refused
UnlinkFile(s) ==
    LET busy == \E g \in Slots : d.file[g].o # 0 /\ d.obj[d.file[g].o].no = s.i
    IN  IF s.i = 0 THEN Failure(Bad(d, "root"))
        ELSE IF s.i = -1 \/ s.type = "dir" \/ busy THEN GiveUp(s)
        ELSE Success(dir_close(inode_release(delete_dir_entry(s.d, s.parent, s.i), s.i), s.parent))

sys_unlink(p) ==
    /\ Return("unlink", p, UnlinkFile(search_file(d, p)))
    /\ UNCHANGED <<dh, cwd>>

-----------------------------------------------------------------------------
(* Directories                                                             *)

\* a step failed: the number i is given back, a block is not
UndoDir(s, e, i) == GiveUp([s EXCEPT !.d = See([e EXCEPT !.ibits = @ \ {i}], "full")])

\* e is what sync_dir_entry() left; the inodes of both directories go to the disk
NewDir(s, e, i, b) ==
    LET new == [no |-> i, size |-> 2, ptr |-> [NoPtrs EXCEPT ![0] = b]]
    IN  IF ~e.ok THEN UndoDir(s, e.d, i)
        ELSE Success(dir_close(sync_inodes(SyncInode(inode_sync(e.d, s.parent.o), new)), s.parent))

\* b took the block with the dots
DirBlock(s, name, i, b) ==
    LET dots == DotBlock(i, s.d.obj[s.parent.o].no)
    IN  IF b.b = NoBlock THEN UndoDir(s, b.d, i)
        ELSE IF b.b = 1 THEN Failure(Bad(d, "block0"))
        ELSE NewDir(s, sync_dir_entry([sync_blocks(b.d, b.b) EXCEPT !.blk[b.b] = dots],
                                      s.parent, Entry(name, i, "dir")), i, b.b)

\* a took the number
MakeDir(s, p, a) ==
    IF s.i # -1 \/ s.depth # Len(p) \/ a.i = -1 THEN GiveUp(s)
    ELSE DirBlock(s, Last(p), a.i, block_bitmap_alloc(a.d))

MakeDirAt(s, p) == MakeDir(s, p, inode_bitmap_alloc(s.d))

sys_mkdir(p) ==
    /\ Return("mkdir", p, MakeDirAt(search_file(d, p), p))
    /\ UNCHANGED <<dh, cwd>>

\* r opened the directory; "orphan" is seen when someone else has it open
Removed(s, r, gone) ==
    IF gone.bad # "" THEN Failure(gone)
    ELSE Success(dir_close(dir_close(IF r.d.obj[r.h.o].cnt > 1 THEN See(gone, "orphan") ELSE gone, r.h),
                           s.parent))

\* whether the directory is open, or some thread's current one, is not asked
RemoveDir(s, r) ==
    IF dir_is_empty(r.d, r.h) THEN Removed(s, r, dir_remove(r.d, s.parent, r.h))
    ELSE Failure(dir_close(dir_close(r.d, r.h), s.parent))

RemoveDirAt(s) ==
    IF s.i = 0 THEN Failure(Bad(d, "root"))
    ELSE IF s.i = -1 \/ s.type = "file" THEN GiveUp(s)
    ELSE RemoveDir(s, dir_open(s.d, s.i))

sys_rmdir(p) ==
    /\ Return("rmdir", p, RemoveDirAt(search_file(d, p)))
    /\ UNCHANGED <<dh, cwd>>

OpenedDir(s, r) == [d |-> dir_close(r.d, s.parent), ok |-> TRUE, h |-> r.h]

OpenDirAt(s) ==
    IF s.type # "dir" THEN [d |-> dir_close(s.d, s.parent), ok |-> FALSE, h |-> dh]
    ELSE OpenedDir(s, dir_open(s.d, s.i))

\* r is [d, ok, h]
ReturnDir(p, r) == Return("opendir", p, r) /\ dh' = r.h

sys_opendir(p) ==
    /\ dh = NoDir
    /\ ReturnDir(p, IF p = <<>> THEN [d |-> d, ok |-> TRUE, h |-> RootDir]
                    ELSE OpenDirAt(search_file(d, p)))
    /\ UNCHANGED cwd

sys_closedir ==
    /\ dh # NoDir
    /\ Return("closedir", <<>>, Success(dir_close(d, dh)))
    /\ dh' = NoDir
    /\ UNCHANGED cwd

ChangeDir(p, s) ==
    /\ Return("chdir", p, [d |-> dir_close(s.d, s.parent), ok |-> s.type = "dir"])
    /\ cwd' = IF s.type = "dir" THEN s.i ELSE cwd

sys_chdir(p) == ChangeDir(p, search_file(d, p)) /\ UNCHANGED dh

\* The system is started again. "lost" is seen when a block in use is not marked any more,
\* "copied" when a block is marked that is not in use.
Reboot ==
    LET used == UNION {BlocksOf(d, Load(d, i)) : i \in d.dibits}
        bits == Restored(d.dbits)
        seen == (d.seen \cap {"full", "copied"})
                \cup (IF used \subseteq bits THEN {} ELSE {"lost"})
                \cup (IF bits \subseteq used \cup Reserved THEN {} ELSE {"copied"})
    IN  /\ Return("boot", <<>>, Success([Mounted(d, d.pool) EXCEPT !.seen = seen]))
        /\ dh' = NoDir /\ cwd' = 0

TreeCalls ==
    \/ \E p \in Paths, creat \in BOOLEAN : sys_open(p, "r", creat)
    \/ \E g \in Slots : sys_close(g)
    \/ \E p \in Paths : sys_unlink(p)
    \/ \E p \in Paths : sys_mkdir(p)
    \/ \E p \in Paths : sys_rmdir(p)
    \/ \E p \in Paths : sys_opendir(p)
    \/ sys_closedir
    \/ \E p \in Paths : sys_chdir(p)
    \/ Reboot

DataCalls ==
    \/ \E p \in DataPaths, m \in Modes : sys_open(p, m[1], m[2])
    \/ \E g \in Slots : sys_close(g)
    \/ \E g \in Slots, n \in Counts : sys_write(g, n)
    \/ \E g \in Slots, n \in Reads : sys_read(g, n)
    \/ \E g \in Slots, n \in Reads : sys_lseek(g, n)
    \/ \E p \in DataPaths : sys_unlink(p)
    \/ Reboot

Next == TreeCalls \/ DataCalls

Spec == Init /\ [][Next]_vars

-----------------------------------------------------------------------------
(* The path of a directory                                                 *)

\* the inode that inode_open() gives
InodeAt(i) ==
    LET hits == SelectSeq(d.open, LAMBDA o : d.obj[o].no = i)
        x == d.obj[Head(hits)]
    IN  IF hits = <<>> THEN Load(d, i) ELSE [no |-> x.no, size |-> x.size, ptr |-> x.ptr]

get_parent_dir_inode_nr(i) == d.blk[InodeAt(i).ptr[0]][2].ino

\* the name of the first entry with this number
get_child_dir_name(up, i) ==
    Head(SelectSeq(Scan(d, InodeAt(up)), LAMBDA c : c.e.ino = i)).e.name

\* the names from the root to the directory i, at most MaxDepth of them
sys_getcwd(i) ==
    LET up[n \in 0..MaxDepth] ==
            IF n = 0 THEN i ELSE LET j == up[n - 1] IN IF j = 0 THEN 0 ELSE get_parent_dir_inode_nr(j)
        depth == Cardinality({n \in 0..MaxDepth : up[n] # 0})
    IN  [k \in 1..depth |-> get_child_dir_name(up[depth - k + 1], up[depth - k])]

(***************************************************************************)
(* The shell's paths: a path is the sequence of names that path_parse()    *)
(* cuts it into, and ".." takes the last name away without asking the disk *)
(***************************************************************************)
wash_path(names) ==
    FoldLeft(LAMBDA clear, n : IF n = "." \/ (n = ".." /\ clear = <<>>) THEN clear
                               ELSE IF n = ".." THEN Front(clear) ELSE Append(clear, n),
             <<>>, names)

\* a relative path, in a directory with path here
make_clear_abs_path(here, names) == wash_path(here \o names)

-----------------------------------------------------------------------------
(* Properties                                                              *)

\* Types of the state.
TypeOK ==
    /\ d.bits \subseteq AllBits /\ d.dbits \subseteq AllBits
    /\ d.ibits \subseteq 0..(NInodes - 1) /\ d.dibits \subseteq 0..(NInodes - 1)
    /\ DOMAIN d.blk = Blocks /\ DOMAIN d.tab = TableWords
    /\ DOMAIN d.obj \subseteq Objects /\ ToSet(d.open) = DOMAIN d.obj
    /\ \A o \in DOMAIN d.obj : d.obj[o].cnt \in Nat \ {0} /\ d.obj[o].ptr \in [0..Direct -> Blocks \cup {NoBlock}]
    /\ \A g \in Slots : d.file[g].o \in DOMAIN d.obj \cup {0} /\ d.file[g].pos \in 0..(PosWidth - 1)
    /\ d.seen \subseteq {"stale", "full", "refused", "leak", "orphan", "lost", "copied", "dropped"}
    /\ cwd \in 0..(NInodes - 1) /\ dh.o \in Objects \cup {0}

\* The calls make the changes of the abstract tree and no others, and a restart between two
\* calls loses none of them (sys_open, sys_mkdir, sys_rmdir, sys_unlink, file_write,
\* mount_partition).
T == INSTANCE Tree
        WITH tree <- [p \in DOMAIN tree |-> [type |-> tree[p].type, data |-> tree[p].data]],
             last <- last

ImplementsTree == T!TreeSpec

LiveInodes == {0} \cup {tree[p].ino : p \in DOMAIN tree}

LiveDirs == {0} \cup {tree[p].ino : p \in {q \in DOMAIN tree : tree[q].type = "dir"}}


\* A directory holds each name once, its size is the number of its entries, and its dots
\* lead to itself and to its parent; the root has none.
DirsSound ==
    \A i \in LiveDirs :
        LET used == {c \in ToSet(Scan(d, Load(d, i))) : c.e.type # "unknown"}
            all == {c.e : c \in used}
        IN  /\ Cardinality(used) = Cardinality({e.name : e \in all})
            /\ Load(d, i).size = Cardinality(used)
            /\ i # 0 => Entry(".", i, "dir") \in all
            /\ \A e \in all : (e.type = "dir" /\ e.name \notin Dots)
                              => Entry("..", i, "dir") \in Entries(d, e.ino)

\* What inode_sync() wrote is what the next inode_open() will read: an inode in memory is
\* the one on the disk, unless a write failed half way or the number is no longer that of
\* the inode.
SyncedIsRead ==
    d.seen \cap {"full", "stale"} = {} =>
        \A i \in {d.obj[o].no : o \in DOMAIN d.obj} \cap LiveInodes : InodeAt(i) = Load(d, i)

\* SyncedIsRead. An inode is in memory once, and its count is the number of those who have
\* it open, unless sys_open() left a directory open. A number is handed out while an inode
\* with it is in memory only if a directory was removed that someone had open.
CacheSound ==
    /\ SyncedIsRead
    /\ \A o \in DOMAIN d.obj :
          /\ "stale" \notin d.seen => \A q \in DOMAIN d.obj : d.obj[q].no = d.obj[o].no => q = o
          /\ "leak" \notin d.seen =>
             d.obj[o].cnt = Cardinality({g \in Slots : d.file[g].o = o})
                            + (IF o = Root THEN 1 ELSE 0)
                            + (IF dh.o = o /\ ~dh.root THEN 1 ELSE 0)
    /\ "stale" \in d.seen => "orphan" \in d.seen


\* file_write() gives a block to a pointer that is NULL: "never: used block size < alloc
\* blocks size" (file.c:316).
NeverTwiceAllocated == d.bad # "retry"

\* A name is in the tree until an unlink() or a rmdir(): adding an entry to a directory
\* keeps those that are there.
NamesKept == [][last'.call \in {"unlink", "rmdir"} \/ DOMAIN tree \subseteq DOMAIN tree']_tree

\* Reading an open file gives the bytes of the file at that position, whichever blocks and
\* table they are in.
FilesReadBack ==
    \A g \in Slots : d.file[g].o # 0 =>
        LET all == Content(d, d.obj[d.file[g].o])
        IN  \A p \in 0..(Len(all) - 1), n \in Reads :
                LET r == file_read([d EXCEPT !.file[g].pos = p], g, n)
                IN  r.ok => r.bytes = SubSeq(all, p + 1, Min({p + n, Len(all)}))

\* Reading a directory gives all its names, unless a pointer that became NULL is followed by
\* one in use.
ListingComplete ==
    \A i \in LiveDirs :
        LET flat == Flat(d, Load(d, i))
        IN  (\A k \in 1..(Flatten - 1) : flat[k - 1] = NoBlock => flat[k] = NoBlock)
            => dir_read(d, Load(d, i)) = {e.name : e \in Entries(d, i)}

\* the inodes at the end of a path, by the entries of the directories on the way
Reached(entries, i, names) ==
    FoldLeft(LAMBDA at, n : {e.ino : e \in {x \in UNION {entries[j] : j \in at \cap DOMAIN entries} : x.name = n}},
             {i}, names)

SamePlace(entries, here, names) ==
    LET at == Reached(entries, cwd, names)
    IN  at # {} => at = Reached(entries, 0, make_clear_abs_path(here, names))

WashedLeads(entries, here) ==
    \A names \in [1..2 -> Names \cup Dots] : SamePlace(entries, here, names)

\* A relative path leads from the current directory, by its entries "." and ".." too, to
\* where the path that the shell makes of it leads from the root.
PathsWashed ==
    cwd \in LiveDirs => WashedLeads([i \in LiveDirs |-> Entries(d, i)], sys_getcwd(cwd))

\* The calls that read return what is there: file_read() the bytes, dir_read() the names,
\* sys_getcwd() a path that leads to the current directory while it exists, and the shell's
\* make_clear_abs_path() one to the same file.
ReadsBack ==
    /\ FilesReadBack /\ ListingComplete /\ PathsWashed
    /\ cwd \in LiveDirs \ {0} =>
          LET path == sys_getcwd(cwd) IN path \in DOMAIN tree /\ tree[path].ino = cwd
=============================================================================
