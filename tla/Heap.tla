-------------------------------- MODULE Heap --------------------------------
(***************************************************************************)
(* The heap of a process: sys_malloc() and sys_free() of kernel/memory.c,  *)
(* on the doubly linked lists of lib/kernel/list.c, with fork() and        *)
(* exit(). Each call holds the pool's lock with the interrupts masked and  *)
(* is one step.                                                            *)
(*                                                                         *)
(* The lists are kept at the level of pointers, because a fork() splits    *)
(* them: a free block's links are in the user memory of each process,      *)
(* while head and tail are in the kernel memory of the process that made   *)
(* the arena (u_block_desc of its PCB), and fork() copies the arena's desc *)
(* with the page. A node is                                                *)
(*   <<"head", p, d>>, <<"tail", p, d>>   the ends of the list of class d  *)
(*   <<"blk", g, i>>                      block i of the arena at page g   *)
(* and following anything else is a page fault. A program's block holds    *)
(* its data where a free one has its links.                                *)
(***************************************************************************)
EXTENDS Integers, FiniteSets, FiniteSetsExt, Functions

CONSTANTS Procs, First,   \* the processes, and the one that runs at first
          NULL, Data,     \* a null pointer; what a program keeps in a block
          PerArena,       \* blocks_per_arena of each size class
          Pages,          \* the virtual pages of the heap
          Frames          \* the frames of the user pool

VARIABLES alive,    \* the processes
          page,     \* the mapped pages of each process: header, and links of the blocks
          marked,   \* the pages marked in its vaddr bitmap
          ends,     \* of each list, head.next and tail.prev
          held,     \* the blocks that a program has: <<page, block>>, block 0 for a large one
          panic,    \* an ASSERT or a page fault in the kernel
          crossed   \* (history) a process freed a block of an arena that it has from fork()

vars == <<alive, page, marked, ends, held, panic, crossed>>

Classes == DOMAIN PerArena

Lists == Procs \X Classes

Head(l) == <<"head", l[1], l[2]>>
Tail(l) == <<"tail", l[1], l[2]>>
Block(g, i) == <<"blk", g, i>>

-----------------------------------------------------------------------------
(* Lists. x is what a call of process p works on: x.page is the memory of  *)
(* p, x.ends the kernel's, x.bad becomes TRUE at an ASSERT or a fault.     *)

\* the address can be read and written
Reachable(x, n) ==
    IF n \in {NULL, Data} THEN FALSE
    ELSE IF n[1] = "blk" THEN n[2] \in DOMAIN x.page /\ n[3] \in DOMAIN x.page[n[2]].link
    ELSE n[2] \in alive

NextOf(x, n) ==
    CASE n[1] = "head" -> x.ends[<<n[2], n[3]>>].next
      [] n[1] = "tail" -> NULL
      [] OTHER -> x.page[n[2]].link[n[3]].next

PrevOf(x, n) ==
    CASE n[1] = "head" -> NULL
      [] n[1] = "tail" -> x.ends[<<n[2], n[3]>>].prev
      [] OTHER -> x.page[n[2]].link[n[3]].prev

SetNext(x, n, y) ==
    IF x.bad \/ ~Reachable(x, n) THEN [x EXCEPT !.bad = TRUE]
    ELSE IF n[1] = "head" THEN [x EXCEPT !.ends[<<n[2], n[3]>>].next = y]
    ELSE [x EXCEPT !.page[n[2]].link[n[3]].next = y]

SetPrev(x, n, y) ==
    IF x.bad \/ ~Reachable(x, n) THEN [x EXCEPT !.bad = TRUE]
    ELSE IF n[1] = "tail" THEN [x EXCEPT !.ends[<<n[2], n[3]>>].prev = y]
    ELSE [x EXCEPT !.page[n[2]].link[n[3]].prev = y]

list_init(l) == [next |-> Tail(l), prev |-> Head(l)]

list_empty(x, l) == NextOf(x, Head(l)) = Tail(l)

list_insert_before(x, before, elem) ==
    LET prev == PrevOf(x, before)
    IN  SetPrev(SetNext(SetPrev(SetNext(x, prev, elem), elem, prev), elem, before), before, elem)

list_append(x, l, elem) ==
    IF x.bad \/ l[1] \notin alive THEN [x EXCEPT !.bad = TRUE]
    ELSE list_insert_before(x, Tail(l), elem)

\* Mutant of list_remove: the link back is left as it was.
RemoveOneWay(x, elem) ==
    IF x.bad \/ ~Reachable(x, elem) THEN [x EXCEPT !.bad = TRUE]
    ELSE SetNext(x, PrevOf(x, elem), NextOf(x, elem))

list_remove(x, elem) ==
    IF x.bad \/ ~Reachable(x, elem) THEN [x EXCEPT !.bad = TRUE]
    ELSE SetPrev(SetNext(x, PrevOf(x, elem), NextOf(x, elem)), NextOf(x, elem), PrevOf(x, elem))

\* more steps than there are nodes that a walk could pass
WalkBound == Cardinality(Pages) * Max({PerArena[d] : d \in Classes}) + 1

\* the nodes after the head, in the order a loop over the list meets them; it stays where
\* it cannot go on, at the tail or at an address that faults
Walk(x, l) ==
    LET at[k \in 0..WalkBound] ==
            IF k = 0 THEN NextOf(x, Head(l))
            ELSE LET n == at[k - 1]
                 IN  IF n = Tail(l) \/ ~Reachable(x, n) THEN n ELSE NextOf(x, n)
    IN  at

\* 1, 0, or -1 for a loop that faults or does not end
elem_find(x, l, elem) ==
    LET at == Walk(x, l)
    IN  IF elem \in Range(at) THEN 1
        ELSE IF at[WalkBound] = Tail(l) THEN 0
        ELSE -1
-----------------------------------------------------------------------------
(* Arenas                                                                  *)

Links(d) == [i \in 1..PerArena[d] |-> [prev |-> NULL, next |-> NULL]]

UsedFrames == FoldSet(LAMBDA p, n : n + Cardinality(DOMAIN page[p]), 0, Procs)

MapPage(f, g, a) == [h \in DOMAIN f \cup {g} |-> IF h = g THEN a ELSE f[h]]

\* a new arena for list l at page g: each block is found absent and appended
NewArena(x, l, g) ==
    LET n == PerArena[l[2]]
        arena == [desc |-> l, large |-> FALSE, cnt |-> n, link |-> Links(l[2])]
        step[i \in 0..n] ==
            IF i = 0 THEN [x EXCEPT !.page = MapPage(@, g, arena)]
            ELSE LET y == step[i - 1]
                 IN  IF y.bad \/ elem_find(y, l, Block(g, i)) # 0 THEN [y EXCEPT !.bad = TRUE]
                     ELSE list_append(y, l, Block(g, i))
    IN  step[n]

\* list_pop(), memset() and the count; the program fills the block
TakeBlock(x, l) ==
    LET b == NextOf(x, Head(l))
        y == list_remove(x, b)
    IN  IF y.bad \/ b[1] # "blk" THEN [y EXCEPT !.bad = TRUE]
        ELSE [y EXCEPT !.page[b[2]].link[b[3]] = [prev |-> Data, next |-> Data],
                       !.page[b[2]].cnt = @ - 1]

\* Mutant of EmptyArena: the page goes back with its blocks still in the list.
EmptyArenaListed(x, l, g) == [x EXCEPT !.page = Restrict(@, DOMAIN @ \ {g})]

\* all blocks of the arena at g are free: each is found and removed, then the page freed
EmptyArena(x, l, g) ==
    LET n == PerArena[l[2]]
        step[i \in 0..n] ==
            IF i = 0 THEN x
            ELSE LET y == step[i - 1]
                 IN  IF y.bad \/ elem_find(y, l, Block(g, i)) # 1 THEN [y EXCEPT !.bad = TRUE]
                     ELSE list_remove(y, Block(g, i))
    IN  IF step[n].bad THEN step[n]
        ELSE [step[n] EXCEPT !.page = Restrict(@, DOMAIN @ \ {g})]

ReturnBlock(x, g, i) ==
    LET l == x.page[g].desc
        y == list_append(x, l, Block(g, i))
        z == [y EXCEPT !.page[g].cnt = @ + 1]
    IN  IF y.bad THEN y
        ELSE IF z.page[g].cnt = PerArena[l[2]] THEN EmptyArena(z, l, g)
        ELSE z
-----------------------------------------------------------------------------
(* System calls                                                            *)

Init ==
    /\ alive = {First}
    /\ page = [p \in Procs |-> [g \in {} |-> NULL]]
    /\ marked = [p \in Procs |-> {}]
    /\ ends = [l \in Lists |-> list_init(l)]
    /\ held = [p \in Procs |-> {}]
    /\ panic = FALSE /\ crossed = FALSE

Calls(p) == ~panic /\ p \in alive

Work(p) == [page |-> page[p], ends |-> ends, bad |-> FALSE]

\* the state after a call of p that did x
Commit(p, x) ==
    /\ page' = [page EXCEPT ![p] = x.page]
    /\ ends' = x.ends
    /\ panic' = x.bad

\* malloc_page() in a process finds no page
Short(p) == Pages \subseteq marked[p] \/ UsedFrames >= Frames

\* it marks the page all the same, when it is a frame that is missing
ShortMark(p) ==
    IF Pages \subseteq marked[p] THEN marked
    ELSE [marked EXCEPT ![p] = @ \cup {Min(Pages \ @)}]

\* sys_malloc() of a small block of class d
Malloc(p, d) ==
    /\ Calls(p)
    /\ LET l == <<p, d>>
           new == list_empty(Work(p), l)
           g == Min(Pages \ marked[p])
           x == IF new THEN NewArena(Work(p), l, g) ELSE Work(p)
           b == NextOf(x, Head(l))
       IN  /\ ~(new /\ Short(p))
           /\ Commit(p, TakeBlock(x, l))
           /\ marked' = IF new THEN [marked EXCEPT ![p] = @ \cup {g}] ELSE marked
           /\ held' = [held EXCEPT ![p] = @ \cup {<<b[2], b[3]>>}]
    /\ UNCHANGED <<alive, crossed>>

\* sys_malloc() of a whole page: a header and no list
MallocLarge(p) ==
    /\ Calls(p) /\ ~Short(p)
    /\ LET g == Min(Pages \ marked[p])
           arena == [desc |-> NULL, large |-> TRUE, cnt |-> 1, link |-> <<>>]
       IN  /\ page' = [page EXCEPT ![p] = MapPage(@, g, arena)]
           /\ marked' = [marked EXCEPT ![p] = @ \cup {g}]
           /\ held' = [held EXCEPT ![p] = @ \cup {<<g, 0>>}]
    /\ UNCHANGED <<alive, ends, panic, crossed>>

\* sys_malloc() that returns NULL
MallocFails(p) ==
    /\ Calls(p) /\ Short(p)
    /\ marked' = ShortMark(p)
    /\ UNCHANGED <<alive, page, ends, held, panic, crossed>>

\* sys_free() of a block that the program has: it goes to the list of the process that made
\* the arena
Free(p, b) ==
    /\ Calls(p)
    /\ LET a == page[p][b[1]]
           x == Work(p)
           y == IF a.large THEN [x EXCEPT !.page = Restrict(@, DOMAIN @ \ {b[1]})]
                ELSE ReturnBlock(x, b[1], b[2])
       IN  /\ Commit(p, y)
           /\ crossed' = (crossed \/ (~a.large /\ a.desc[1] # p))
           /\ marked' = [marked EXCEPT ![p] = @ \ (DOMAIN page[p] \ DOMAIN y.page)]
    /\ held' = [held EXCEPT ![p] = @ \ {b}]
    /\ UNCHANGED alive

\* Mutant of Fork: the child's lists are the copies of the parent's.
ForkKeepsLists(p, c) ==
    /\ Calls(p) /\ c \notin alive
    /\ UsedFrames + Cardinality(DOMAIN page[p]) <= Frames
    /\ alive' = alive \cup {c}
    /\ page' = [page EXCEPT ![c] = page[p]]
    /\ marked' = [marked EXCEPT ![c] = marked[p]]
    /\ held' = [held EXCEPT ![c] = held[p]]
    /\ ends' = [l \in Lists |-> IF l[1] = c THEN ends[<<p, l[2]>>] ELSE ends[l]]
    /\ UNCHANGED <<panic, crossed>>

\* fork(): the pages are copied as they are, the child's own lists start empty
Fork(p, c) ==
    /\ Calls(p) /\ c \notin alive
    /\ UsedFrames + Cardinality(DOMAIN page[p]) <= Frames
    /\ alive' = alive \cup {c}
    /\ page' = [page EXCEPT ![c] = page[p]]
    /\ marked' = [marked EXCEPT ![c] = marked[p]]
    /\ held' = [held EXCEPT ![c] = held[p]]
    /\ ends' = [l \in Lists |-> IF l[1] = c THEN list_init(l) ELSE ends[l]]
    /\ UNCHANGED <<panic, crossed>>

\* exit(), and the wait() of the parent that frees the PCB
Exit(p) ==
    /\ Calls(p) /\ p # First
    /\ alive' = alive \ {p}
    /\ page' = [page EXCEPT ![p] = [g \in {} |-> NULL]]
    /\ marked' = [marked EXCEPT ![p] = {}]
    /\ held' = [held EXCEPT ![p] = {}]
    /\ UNCHANGED <<ends, panic, crossed>>

Next ==
    \E p \in Procs :
        \/ \E d \in Classes : Malloc(p, d)
        \/ MallocLarge(p) \/ MallocFails(p) \/ Exit(p)
        \/ \E b \in held[p] : Free(p, b)
        \/ \E c \in Procs : Fork(p, c)

Spec == Init /\ [][Next]_vars

-----------------------------------------------------------------------------
(* Properties                                                              *)

\* every variable has the shape its C declaration gives it
TypeOK ==
    /\ First \in alive /\ alive \subseteq Procs
    /\ \A p \in Procs : DOMAIN page[p] \subseteq marked[p] /\ marked[p] \subseteq Pages
    /\ DOMAIN ends = Lists
    /\ panic \in BOOLEAN /\ crossed \in BOOLEAN

\* The ASSERTs of sys_malloc() and sys_free() hold: a new block is not in the list yet, the
\* blocks of an arena whose count says they are all free are all found, and no call
\* follows a pointer to nowhere. A child that frees a block it has from fork() can break
\* them: the block goes to the parent's list, by addresses of the child's memory.
AssertsHold == panic => crossed

\* blocks of the arena at page g that process p does not have
FreeBlocks(p, g) == {i \in DOMAIN page[p][g].link : <<g, i>> \notin held[p]}

\* The free list of a class holds exactly the free blocks of the arenas that the process
\* made for it, each once, and reads the same backwards. The count of an arena is the number
\* of its free blocks, also in the copy of a child, and an arena whose blocks are all free
\* goes back to the pool. Every variable has its type.
ListsExact ==
    TypeOK /\ (~panic /\ ~crossed => \A p \in alive :
        /\ \A d \in Classes :
              LET l == <<p, d>>
                  x == Work(p)
                  at == Walk(x, l)
                  nodes == Range(at) \ {Tail(l)}
                  mine == {g \in DOMAIN page[p] : page[p][g].desc = l}
              IN  /\ at[WalkBound] = Tail(l)
                  /\ nodes = UNION {{Block(g, i) : i \in FreeBlocks(p, g)} : g \in mine}
                  /\ \A n \in nodes \cup {Head(l)} : PrevOf(x, NextOf(x, n)) = n
        /\ \A g \in DOMAIN page[p] :
              LET a == page[p][g]
              IN  ~a.large => /\ a.cnt = Cardinality(FreeBlocks(p, g))
                              /\ a.cnt < PerArena[a.desc[2]])

\* The data of a program stays as it is until the program frees the block: no other
\* malloc() or free() writes a link there.
DataIntact ==
    ~panic /\ ~crossed => \A p \in alive : \A b \in held[p] :
        b[1] \in DOMAIN page[p] /\
        (b[2] # 0 => page[p][b[1]].link[b[2]] = [prev |-> Data, next |-> Data])
=============================================================================
