------------------------------- MODULE Inode --------------------------------
(***************************************************************************)
(* fs/inode.c, and the bitmaps of fs/file.c: the state of a partition as a *)
(* record d, and the operators that change it.                             *)
(*   bits, ibits     the bitmaps of blocks and of inodes in memory         *)
(*   dbits, dibits   the same on the disk                                  *)
(*   blk             the blocks: the entries of a directory, the bytes of  *)
(*                   a file, or the pointers of an indirect table, which   *)
(*                   go on from Direct                                     *)
(*   tab             the words of the inode table on the disk              *)
(*   obj             the inodes in memory: i_no, i_size, i_sectors,        *)
(*                   i_open_cnts, write_deny, and the pool they are in     *)
(*   open            the list open_inodes, a sequence of names of obj      *)
(*   file            file_table: the entries in use                        *)
(*   pool            the pool that the caller's sys_malloc() takes from    *)
(*   seen            what happened earlier: see the operators              *)
(*   bad             why the kernel stopped (an ASSERT fired, a loop does  *)
(*                   not end, a table was never written), or ""            *)
(* A block is the number of its bit plus one, 0 is no block. A bitmap has  *)
(* whole sectors, and the bits past the last block are set except for one. *)
(* The size of a directory is counted in entries, that of a file in bytes. *)
(*                                                                         *)
(* ide_read() and ide_write() of several sectors read and write one sector *)
(* each time (module Ide); the operators below say what that makes of an   *)
(* inode in two sectors, and module Fs of a bitmap.                        *)
(***************************************************************************)
EXTENDS Bitmap, Sequences, SequencesExt

CONSTANTS Direct,        \* DIRECT_PTRS
          Two,           \* TWO_PTRS, the pointers of an indirect table
          NBlocks,       \* data blocks of the partition
          NInodes,       \* MAX_FILES_PER_PART
          BitsPerSector, \* bits of a bitmap in one sector
          SectorWords,   \* words of a sector
          InodeWidth,    \* 2^8: inode_sync() keeps the number in a uint8_t
          Objects        \* names of inodes in memory

NoBlock == 0

NoPtrs == [i \in 0..Direct |-> NoBlock]

\* block_bitmap_sects; the last sector is not full
BitmapSectors == (NBlocks \div BitsPerSector) + 1

\* the bits of the bitmap, and the blocks that they let the code use
AllBits == 1..(BitmapSectors * BitsPerSector)

Blocks == 1..(NBlocks + 1)

FreeObject(d) == Min(Objects \ DOMAIN d.obj)

Bad(d, why) == IF d.bad = "" THEN [d EXCEPT !.bad = why] ELSE d

Check(d, cond, why) == IF cond THEN d ELSE Bad(d, why)

See(d, what) == [d EXCEPT !.seen = @ \cup {what}]

-----------------------------------------------------------------------------
(* Bitmaps                                                                 *)

TakeBlock(d, b) == [d |-> IF b = NoBlock THEN d ELSE [d EXCEPT !.bits = @ \cup {b}], b |-> b]

\* block, or 0: the bit is set in memory
block_bitmap_alloc(d) ==
    TakeBlock(d, bitmap_scan({b - 1 : b \in d.bits}, Cardinality(AllBits), 1) + 1)

\* "stale" is seen when the number is still that of an inode in memory
TakeNumber(d, i) ==
    LET e == [d EXCEPT !.ibits = @ \cup {i}]
    IN  [d |-> IF i = -1 THEN d
               ELSE IF \E o \in DOMAIN d.obj : d.obj[o].no = i THEN See(e, "stale")
               ELSE e,
         i |-> i]

inode_bitmap_alloc(d) == TakeNumber(d, bitmap_scan(d.ibits, NInodes, 1))

SectorOf(b) == (b - 1) \div BitsPerSector


\* bitmap_sync(): the sector of the bitmap that holds the bit of block b
sync_blocks(d, b) ==
    LET sector == {x \in AllBits : SectorOf(x) = SectorOf(b)}
    IN  [d EXCEPT !.dbits = (@ \ sector) \cup (d.bits \cap sector)]

\* all inodes are in one sector
sync_inodes(d) == [d EXCEPT !.dibits = d.ibits]

-----------------------------------------------------------------------------
(* Inodes                                                                  *)

(* The words of struct inode are i_no, i_size, i_open_cnts, write_deny,    *)
(* i_sectors and the two of inode_tag.                                     *)

InodeWords == Direct + 7

TableWords == 0..(((NInodes * InodeWords) \div SectorWords + 1) * SectorWords - 1)

\* inode_locate(): the first word of inode i, and how many of its words are past the end of
\* the sector (two_sec)
FirstWord(i) == i * InodeWords

Over(i) == (FirstWord(i) % SectorWords) + InodeWords - SectorWords

Crosses(i) == Over(i) > 0

\* Word j of inode i as a read gives it: the second of two sectors is the first one again.
Word(d, i, j) ==
    d.tab[FirstWord(i) - (FirstWord(i) % SectorWords) + ((FirstWord(i) + j) % SectorWords)]

Load(d, i) ==
    [no |-> Word(d, i, 0), size |-> Word(d, i, 1), ptr |-> [k \in 0..Direct |-> Word(d, i, 4 + k)]]

\* The words w of inode i are written. Of two sectors the second is written over the first:
\* what stays is the end of the inode, at the beginning of the sector.
Store(d, i, w) ==
    LET first == FirstWord(i)
        sector == first - (first % SectorWords)
        at == IF Crosses(i) THEN sector..(sector + Over(i) - 1) ELSE first..(first + InodeWords - 1)
        skip == IF Crosses(i) THEN InodeWords - Over(i) ELSE 0
    IN  [d EXCEPT !.tab = [a \in DOMAIN @ |-> IF a \in at THEN w[a - Min(at) + skip] ELSE @[a]]]

\* as inode_sync() writes it, without what is for the memory only
Words(x) ==
    [j \in 0..(InodeWords - 1) |->
        IF j = 0 THEN x.no ELSE IF j = 1 THEN x.size
        ELSE IF j \in 4..(4 + Direct) THEN x.ptr[j - 4] ELSE 0]

SyncInode(d, x) == Store(d, x.no % InodeWidth, Words(x))

inode_sync(d, o) == SyncInode(d, d.obj[o])

\* inode_delete()
inode_delete(d, i) == Store(d, i, [j \in 0..(InodeWords - 1) |-> 0])

\* the first of the list with this number, or a new one from the disk
inode_open(d, i) ==
    LET hits == SelectSeq(d.open, LAMBDA o : d.obj[o].no = i)
        o == IF hits # <<>> THEN Head(hits) ELSE FreeObject(d)
        x == Load(d, i)
        new == [no |-> x.no, size |-> x.size, ptr |-> x.ptr,
                cnt |-> 1, deny |-> Word(d, i, 3) # 0, pool |-> "kernel"]
    IN  [o |-> o,
         d |-> IF hits # <<>> THEN [d EXCEPT !.obj[o].cnt = @ + 1]
               ELSE [d EXCEPT !.obj = [q \in DOMAIN @ \cup {o} |-> IF q = o THEN new ELSE @[q]],
                              !.open = <<o>> \o @]]

\* Mutant of inode_close: the count only goes down to be freed.
CloseKeepsCount(d, o) ==
    IF d.obj[o].cnt > 1 THEN d
    ELSE [d EXCEPT !.open = Remove(@, o), !.obj = [x \in DOMAIN @ \ {o} |-> @[x]]]

\* the last one to close frees the inode, and expects it in the kernel's pool
inode_close(d, o) ==
    LET last == d.obj[o].cnt = 1
    IN  IF ~last THEN [d EXCEPT !.obj[o].cnt = @ - 1]
        ELSE IF d.obj[o].pool # "kernel" THEN Bad(d, "pool")
        ELSE [d EXCEPT !.open = Remove(@, o),
                       !.obj = [x \in DOMAIN @ \ {o} |-> @[x]]]

\* the blocks that an inode points to, in order, those of the indirect table included
Flat(d, x) ==
    LET table == x.ptr[Direct]
    IN  [i \in 0..(Direct + Two - 1) |->
            IF i < Direct THEN x.ptr[i]
            ELSE IF table = NoBlock THEN NoBlock
            ELSE d.blk[table][i]]

TablePtrs == Direct..(Direct + Two - 1)

BlocksOf(d, x) == ({x.ptr[Direct]} \cup {Flat(d, x)[i] : i \in 0..(Direct + Two - 1)}) \ {NoBlock}

\* clears the bits of the blocks and of the inode, and the inode on the disk; the inode
\* in memory is left as it is for those who still have it
Free(r, i, free) ==
    LET synced == FoldSet(LAMBDA b, acc : sync_blocks(acc, b), [r.d EXCEPT !.bits = @ \ free], free)
        e == sync_inodes([synced EXCEPT !.ibits = @ \ {i}])
    IN  inode_close(Check(inode_delete(e, i), 1 \notin free, "zero"), r.o)

Release(r, i) ==
    LET x == r.d.obj[r.o]
    IN  IF x.no # i THEN Bad(r.d, "number") ELSE Free(r, i, BlocksOf(r.d, x))

inode_release(d, i) == Release(inode_open(d, i), i)

\* inode_init() for a new file
NewObject(d, i) ==
    [no |-> i, size |-> 0, ptr |-> NoPtrs, cnt |-> 1, deny |-> FALSE, pool |-> d.pool]
=============================================================================
