-------------------------------- MODULE File --------------------------------
(***************************************************************************)
(* fs/file.c: the open files, and the bytes of a file, on the partition d  *)
(* of module Inode. An entry of file_table is [o, pos, flag], o the inode. *)
(* A block of a file is a function from 0..(B-1) to bytes.                 *)
(***************************************************************************)
EXTENDS Dir

CONSTANTS B,        \* BLOCK_SIZE
          Slots,    \* the entries of file_table that files may use
          PosWidth  \* 2^32: fd_pos is a uint32_t

Flatten == Direct + Two        \* FLATTEN_PTRS

NoFile == [o |-> 0, pos |-> 0, flag |-> ""]

Writes(flag) == flag = "w"

get_free_slot_in_global(d) ==
    LET free == {g \in Slots : d.file[g].o = 0} IN IF free = {} THEN -1 ELSE Min(free)

-----------------------------------------------------------------------------
(* Creating, opening, closing: the results are [d, fd], fd is -1 or the    *)
(* entry of file_table                                                     *)

\* the inodes of the directory and of the file, and the bitmap, go to the disk
SyncCreated(d, parent, o) == sync_inodes(inode_sync(inode_sync(d, parent), o))

NoFd(d) == [d |-> d, fd |-> -1]

\* s is what sync_dir_entry() left, for the number i, the new inode o and the entry g
Created(d, h, s, i, o, g) ==
    LET e == [s.d EXCEPT !.obj = [x \in DOMAIN @ \cup {o} |-> IF x = o THEN NewObject(d, i) ELSE @[x]]]
    IN  IF ~s.ok THEN NoFd(See([s.d EXCEPT !.ibits = @ \ {i}, !.file[g] = NoFile], "full"))
        ELSE [d |-> [SyncCreated(e, h.o, o) EXCEPT !.open = <<o>> \o @], fd |-> g]

\* a is the number that was taken, g the entry of file_table
CreateAt(d, h, name, flag, a, g) ==
    LET o == FreeObject(d)
    IN  IF a.i = -1 THEN NoFd(d)
        ELSE IF g = -1 THEN NoFd([a.d EXCEPT !.ibits = @ \ {a.i}])
        ELSE Created(d, h, sync_dir_entry([a.d EXCEPT !.file[g] = [o |-> o, pos |-> 0, flag |-> flag]],
                                          h, Entry(name, a.i, "file")), a.i, o, g)

\* number, inode, entry of file_table, entry of the directory
file_create(d, h, name, flag) ==
    CreateAt(d, h, name, flag, inode_bitmap_alloc(d), get_free_slot_in_global(d))

\* a second writer is refused, but keeps the entry of file_table and its count of the inode
OpenAt(d, o, flag, g) ==
    LET e == [d EXCEPT !.file[g] = [o |-> o, pos |-> 0, flag |-> flag]]
    IN  IF Writes(flag) /\ e.obj[o].deny THEN NoFd(See(e, "refused"))
        ELSE [d |-> [e EXCEPT !.obj[o].deny = @ \/ Writes(flag)], fd |-> g]

Opened(r, flag, g) == OpenAt(r.d, r.o, flag, g)

file_open(d, i, flag) ==
    LET g == get_free_slot_in_global(d)
    IN  IF g = -1 THEN NoFd(d) ELSE Opened(inode_open(d, i), flag, g)

file_close(d, g) ==
    LET o == d.file[g].o
        e == inode_close([d EXCEPT !.obj[o].deny = FALSE], o)
    IN  [e EXCEPT !.file[g] = NoFile]

-----------------------------------------------------------------------------
(* Writing: always at the end of the file                                  *)

NoTable == [k \in TablePtrs |-> NoBlock]

\* Pointer i of the inode o gets the block that a took; p is what was done before. The
\* bitmap is written after every block.
SetPointer(p, a, o, i) ==
    LET e == Check(a.d, i >= Direct \/ p.d.obj[o].ptr[i] = NoBlock, "retry")
    IN  IF ~p.ok \/ a.b = NoBlock THEN [p EXCEPT !.ok = FALSE]
        ELSE IF i < Direct
        THEN [p EXCEPT !.d = sync_blocks([e EXCEPT !.obj[o].ptr[i] = a.b], a.b)]
        ELSE [p EXCEPT !.d = sync_blocks(e, a.b), !.tab[i] = a.b]

GrowOne(p, o, i) == SetPointer(p, block_bitmap_alloc(p.d), o, i)

\* New blocks for the pointers first..last of the inode o. The pointers of the table are
\* collected in tab.
Grow(d, o, first, last, tab) ==
    LET step[i \in (first - 1)..last] ==
            IF i < first THEN [d |-> d, tab |-> tab, ok |-> TRUE] ELSE GrowOne(step[i - 1], o, i)
    IN  step[last]

\* the table goes to block b
WriteTable(g, b) == [d |-> IF g.ok THEN [g.d EXCEPT !.blk[b] = g.tab] ELSE g.d, ok |-> g.ok]

\* t took a block for the table; its bit is not written to the disk itself
AddTable(d, o, first, last, t) ==
    LET e == [Check(t.d, d.obj[o].ptr[Direct] = NoBlock, "retry") EXCEPT !.obj[o].ptr[Direct] = t.b]
    IN  IF t.b = NoBlock THEN [d |-> d, ok |-> FALSE]
        ELSE WriteTable(Grow(e, o, first, last, NoTable), t.b)

\* The blocks for n bytes more, and one that stays empty when the last is full.
AddBlocks(d, o, n) ==
    LET x == d.obj[o]
        has == x.size \div B + 1
        will == (x.size + n) \div B + 1
        known == Check(d, x.ptr[Direct] # NoBlock, "table")
    IN  IF will > Flatten THEN [d |-> Bad(d, "size"), ok |-> FALSE]
        ELSE IF will = has THEN [d |-> IF has <= Direct THEN d ELSE known, ok |-> TRUE]
        ELSE IF will <= Direct
        THEN Grow(Check(d, x.ptr[has - 1] # NoBlock, "table"), o, has, will - 1, NoTable)
        ELSE IF has <= Direct THEN AddTable(d, o, has, will - 1, block_bitmap_alloc(d))
        ELSE IF known.bad # "" THEN [d |-> known, ok |-> FALSE]
        ELSE WriteTable(Grow(known, o, has, will - 1, d.blk[x.ptr[Direct]]), x.ptr[Direct])

\* Mutant of Filled: a block that is not empty is not read before it is written.
FilledUnread(old, i, size, bytes) ==
    [j \in 0..(B - 1) |->
        LET k == i * B + j - size + 1 IN IF k \in DOMAIN bytes THEN bytes[k] ELSE <<>>]

\* block i of a file of this size, with the bytes that go to it
Filled(old, i, size, bytes) ==
    [j \in 0..(B - 1) |->
        LET k == i * B + j - size + 1
        IN  IF k <= 0 THEN old[j] ELSE IF k \in DOMAIN bytes THEN bytes[k] ELSE <<>>]

\* the bytes go to the blocks of the positions size, size + 1, ...
PutBytes(d, o, bytes) ==
    LET x == d.obj[o]
        flat == Flat(d, x)
        hit == {(x.size + k - 1) \div B : k \in 1..Len(bytes)}
    IN  [d EXCEPT !.blk = [b \in DOMAIN @ |->
                              IF \E i \in hit : flat[i] = b
                              THEN Filled(@[b], CHOOSE i \in hit : flat[i] = b, x.size, bytes)
                              ELSE @[b]],
                  !.obj[o].size = @ + Len(bytes)]

\* fd_pos is left at the last byte, and the inode goes to the disk, by a buffer of one sector
WriteDone(d, g, o) ==
    inode_sync([Check(d, ~Crosses(d.obj[o].no), "overrun")
                  EXCEPT !.file[g].pos = (d.obj[o].size + PosWidth - 1) % PosWidth], o)

\* a file with a table had its blocks in it before
Kept(e, o) ==
    Check(e, e.obj[o].ptr[Direct] # NoBlock => e.obj[o].size \div B >= Direct, "unwritten")

\* [d, ok]; r is what AddBlocks() did. A write that finds no block fails, but what it took
\* stays taken, in memory.
WriteAfter(r, g, o, bytes) ==
    IF r.d.bad # "" THEN [d |-> r.d, ok |-> FALSE]
    ELSE IF ~r.ok THEN [d |-> See(r.d, "full"), ok |-> FALSE]
    ELSE [d |-> WriteDone(Kept(PutBytes(r.d, o, bytes), o), g, o), ok |-> TRUE]

\* the first block of an empty file
FirstBlock(d, o, a) ==
    IF a.b = NoBlock THEN [d |-> d, ok |-> FALSE]
    ELSE IF a.b = 1 THEN [d |-> Bad(d, "block0"), ok |-> FALSE]
    ELSE [d |-> sync_blocks([a.d EXCEPT !.obj[o].ptr[0] = a.b], a.b), ok |-> TRUE]

WriteFrom(f, g, o, bytes) ==
    IF ~f.ok THEN f ELSE WriteAfter(AddBlocks(f.d, o, Len(bytes)), g, o, bytes)

file_write(d, g, bytes) ==
    LET o == d.file[g].o
    IN  IF d.obj[o].size + Len(bytes) > B * Flatten THEN [d |-> d, ok |-> FALSE]
        ELSE WriteFrom(IF d.obj[o].ptr[0] # NoBlock THEN [d |-> d, ok |-> TRUE]
                       ELSE FirstBlock(d, o, block_bitmap_alloc(d)), g, o, bytes)

-----------------------------------------------------------------------------
(* Reading                                                                 *)

\* the pointers that are loaded for the blocks s..e, those not loaded are NULL
Loaded(d, x, s, e) ==
    [i \in 0..(Flatten - 1) |->
        IF i < Direct THEN IF s <= i /\ i <= e THEN x.ptr[i] ELSE NoBlock
        ELSE IF e >= Direct THEN Flat(d, x)[i] ELSE NoBlock]

\* Mutant of Fetch: a block is copied from its start.
FetchAligned(d, all, pos, n) ==
    [k \in 1..n |-> d.blk[all[(pos + k - 1) \div B]][(k - 1) % B]]

\* n bytes from pos on, by way of the loaded pointers
Fetch(d, all, pos, n) ==
    [k \in 1..n |-> d.blk[all[(pos + k - 1) \div B]][(pos + k - 1) % B]]

\* [d, ok, bytes]: at most count bytes from fd_pos on
file_read(d, g, count) ==
    LET f == d.file[g]
        x == d.obj[f.o]
        over == (f.pos + count) % PosWidth > x.size
        n == IF over THEN (x.size + PosWidth - f.pos) % PosWidth ELSE count
        s == f.pos \div B
        e == ((f.pos + n) % PosWidth) \div B
        all == Loaded(d, x, s, e)
        c == Check(Check(d, s < Flatten - 1 /\ e < Flatten - 1, "index"),
                   (s # e /\ e >= Direct) => x.ptr[Direct] # NoBlock, "table")
    IN  IF over /\ n = 0 THEN [d |-> d, ok |-> FALSE, bytes |-> <<>>]
        ELSE IF c.bad # "" THEN [d |-> c, ok |-> FALSE, bytes |-> <<>>]
        ELSE [d     |-> [d EXCEPT !.file[g].pos = f.pos + n],
              ok    |-> TRUE,
              bytes |-> Fetch(d, all, f.pos, n)]
=============================================================================
