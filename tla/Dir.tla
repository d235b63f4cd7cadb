-------------------------------- MODULE Dir ---------------------------------
(***************************************************************************)
(* fs/dir.c, and search_file() of fs/fs.c: directories as blocks of        *)
(* PerBlock entries. A struct dir is [o, root]: the inode, and whether it  *)
(* is root_dir, which dir_close() leaves alone. A path is the sequence of  *)
(* the names that path_parse() cuts from it.                               *)
(***************************************************************************)
EXTENDS Inode

CONSTANTS PerBlock,  \* entries of a directory in one block
          Root       \* the object of root_dir.inode

NoEntry == [name |-> "", ino |-> 0, type |-> "unknown"]

Entry(name, i, type) == [name |-> name, ino |-> i, type |-> type]

RootDir == [o |-> Root, root |-> TRUE]

EmptyBlock == [k \in 1..PerBlock |-> NoEntry]

\* the block that mkdir() and partition_format() write
DotBlock(i, parent) ==
    [EmptyBlock EXCEPT ![1] = Entry(".", i, "dir"), ![2] = Entry("..", parent, "dir")]

dir_open(d, i) ==
    LET r == inode_open(d, i) IN [d |-> r.d, h |-> [o |-> r.o, root |-> FALSE]]

dir_close(d, h) == IF h.root THEN d ELSE inode_close(d, h.o)

\* the entries of a directory in the order of its blocks: [i, b, k, e] is entry e, at place k
\* of block b, which pointer i leads to
Scan(d, x) ==
    LET flat == Flat(d, x)
        used == SelectSeq([n \in 1..(Direct + Two) |-> n - 1], LAMBDA i : flat[i] # NoBlock)
    IN  [n \in 1..(Len(used) * PerBlock) |->
            LET i == used[((n - 1) \div PerBlock) + 1]
                k == ((n - 1) % PerBlock) + 1
            IN  [i |-> i, b |-> flat[i], k |-> k, e |-> d.blk[flat[i]][k]]]

\* the first entry with the name, or NoEntry
search_dir_entry(d, h, name) ==
    LET hits == SelectSeq(Scan(d, d.obj[h.o]), LAMBDA c : c.e.name = name)
    IN  IF hits = <<>> THEN NoEntry ELSE Head(hits).e

-----------------------------------------------------------------------------
(* Adding an entry. The result is [d, ok].                                 *)

FreeSlots(d, b) == {k \in 1..PerBlock : d.blk[b][k].type = "unknown"}

\* Mutant of EntryInSlot: the size of the directory is not counted up.
EntryUncounted(d, o, b, e) ==
    [d EXCEPT !.blk[b][Min(FreeSlots(d, b))] = e]

EntryInSlot(d, o, b, e) ==
    [d EXCEPT !.blk[b][Min(FreeSlots(d, b))] = e, !.obj[o].size = @ + 1]

\* the block that a took for the entry, at direct pointer i
EntryInHole(d, o, i, e, a) ==
    IF a.b = NoBlock THEN [d |-> d, ok |-> FALSE]
    ELSE [d  |-> [sync_blocks(a.d, a.b) EXCEPT !.obj[o].ptr[i] = a.b,
                                               !.blk[a.b] = [EmptyBlock EXCEPT ![1] = e],
                                               !.obj[o].size = @ + 1],
          ok |-> TRUE]

\* The direct blocks are full: a table and a block. The table that the directory has
\* already is not looked at, since its pointers are never loaded: "dropped" is seen when
\* its entries go with it.
EntryInTable(o, e, t, a) ==
    LET n == IF a.d.obj[o].ptr[Direct] = NoBlock THEN a.d ELSE See(a.d, "dropped")
    IN  IF a.b = NoBlock
        THEN [d |-> [n EXCEPT !.bits = @ \ {t.b}, !.obj[o].ptr[Direct] = NoBlock], ok |-> FALSE]
        ELSE [d  |-> [sync_blocks(n, a.b)
                        EXCEPT !.obj[o].ptr[Direct] = t.b,
                               !.blk[t.b] = [k \in TablePtrs |-> IF k = Direct THEN a.b ELSE NoBlock],
                               !.blk[a.b] = [EmptyBlock EXCEPT ![1] = e],
                               !.obj[o].size = @ + 1],
              ok |-> TRUE]

EntryIndirect(d, o, e, t) ==
    IF t.b = NoBlock THEN [d |-> d, ok |-> FALSE]
    ELSE EntryInTable(o, e, t, block_bitmap_alloc(sync_blocks(t.d, t.b)))

\* the first direct pointer that is NULL, or whose block has a free entry
sync_dir_entry(d, h, e) ==
    LET ptr == d.obj[h.o].ptr
        room == {i \in 0..(Direct - 1) : ptr[i] = NoBlock \/ FreeSlots(d, ptr[i]) # {}}
        i == Min(room)
    IN  IF room = {} THEN EntryIndirect(d, h.o, e, block_bitmap_alloc(d))
        ELSE IF ptr[i] = NoBlock THEN EntryInHole(d, h.o, i, e, block_bitmap_alloc(d))
        ELSE [d |-> EntryInSlot(d, h.o, ptr[i], e), ok |-> TRUE]

-----------------------------------------------------------------------------
(* Deleting an entry, and reading                                          *)

Dots == {".", ".."}

\* The last entry of a block takes the block with it, unless the block has the dots. For
\* a block of the indirect table the loop that counts the table's pointers never ends.
DeleteAt(d, o, c) ==
    LET block == d.blk[c.b]
        used == {k \in 1..PerBlock : block[k].type # "unknown" /\ block[k].name \notin Dots}
        first == \E k \in 1..PerBlock : block[k].name = "."
        once == {k \in used : block[k].ino = c.e.ino} = {c.k}
        e == IF Cardinality(used) # 1 \/ first
             THEN [d EXCEPT !.blk[c.b][c.k] = NoEntry]
             ELSE [sync_blocks([d EXCEPT !.bits = @ \ {c.b}], c.b) EXCEPT !.obj[o].ptr[c.i] = NoBlock]
    IN  IF ~once THEN Bad(d, "twice")
        ELSE IF c.i >= Direct /\ Cardinality(used) = 1 THEN Bad(d, "loop")
        ELSE IF d.obj[o].size = 0 THEN Bad(d, "empty")
        ELSE inode_sync([e EXCEPT !.obj[o].size = @ - 1], o)

DeleteFirst(d, o, hits) == IF hits = <<>> THEN d ELSE DeleteAt(d, o, Head(hits))

\* the first entry with the number i
delete_dir_entry(d, h, i) ==
    DeleteFirst(d, h.o,
                SelectSeq(Scan(d, d.obj[h.o]),
                          LAMBDA c : c.e.name \notin Dots /\ c.e.type # "unknown" /\ c.e.ino = i))

\* The blocks that dir_read() looks at: a NULL pointer makes it skip the next one too.
ReadBlocks(d, x) ==
    LET flat == Flat(d, x)
        last == IF x.ptr[Direct] = NoBlock THEN Direct - 1 ELSE Direct + Two - 1
        visited[i \in 0..last] ==
            IF i = 0 THEN TRUE ELSE ~(visited[i - 1] /\ flat[i - 1] = NoBlock)
    IN  {i \in 0..last : visited[i] /\ flat[i] # NoBlock}

\* the names that reading the directory from its start to the end gives
dir_read(d, x) ==
    LET blocks == ReadBlocks(d, x)
        seen == SelectSeq(Scan(d, x), LAMBDA c : c.i \in blocks /\ c.e.type # "unknown")
    IN  {seen[n].e.name : n \in 1..Min({Len(seen), x.size})}


dir_is_empty(d, h) == d.obj[h.o].size = 2

\* dir_remove() of an empty directory
dir_remove(d, parent, h) ==
    LET x == d.obj[h.o]
        e == Check(d, \A i \in 1..Direct : x.ptr[i] = NoBlock, "remove")
    IN  IF e.bad # "" THEN e ELSE inode_release(delete_dir_entry(d, parent, x.no), x.no)

-----------------------------------------------------------------------------
(* Following a path                                                        *)

\* After some names of a path the directory h is open, with number i, in directory up; at
\* is the place of the first name that was not one of a directory.
Start(d) == [d |-> d, h |-> RootDir, up |-> 0, i |-> 0, at |-> 0]

Enter(w, e, r) == [d |-> r.d, h |-> r.h, up |-> w.i, i |-> e.ino, at |-> 0]

\* e is the entry of name k
Follow(w, k, e) ==
    IF e.type # "dir" THEN [w EXCEPT !.at = k]
    ELSE Enter(w, e, dir_open(dir_close(w.d, w.h), e.ino))

LookUp(w, k, name) == IF w.at # 0 THEN w ELSE Follow(w, k, search_dir_entry(w.d, w.h, name))

\* What search_file() leaves in its record: the inode number or -1, the type, the parent
\* directory, which is open, and the number of names it looked up. A regular file ends
\* the search, whatever follows it in the path.
Record(d, i, type, parent, depth) ==
    [d |-> d, i |-> i, type |-> type, parent |-> parent, depth |-> depth]

\* the last directory is closed, and its parent opened again
FoundDir(w, r, depth) == Record(r.d, w.i, "dir", r.h, depth)

\* e is the entry at which the search stopped
FoundEntry(w, e) ==
    IF e.type = "file" THEN Record(w.d, e.ino, "file", w.h, w.at)
    ELSE Record(w.d, -1, "unknown", w.h, w.at)

Found(w, path) ==
    IF w.at = 0 THEN FoundDir(w, dir_open(dir_close(w.d, w.h), w.up), Len(path))
    ELSE FoundEntry(w, search_dir_entry(w.d, w.h, path[w.at]))

search_file(d, path) ==
    LET walk[k \in 0..Len(path)] ==
            IF k = 0 THEN Start(d) ELSE LookUp(walk[k - 1], k, path[k])
    IN  IF path \in {<<>>, <<".">>, <<"..">>} THEN Record(d, 0, "dir", RootDir, 0)
        ELSE Found(walk[Len(path)], path)
=============================================================================
