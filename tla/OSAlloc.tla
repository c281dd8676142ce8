------------------------------- MODULE OSAlloc -------------------------------
(* The heaps of an arena (libraries/os/src/os_alloc.c).  A call runs with     *)
(* interrupts disabled and is one step.                                       *)
(*                                                                            *)
(* An address is counted in units of ALIGNMENT bytes from the arena's start;  *)
(* a cell's header takes one unit.  Of memory the headers of the cells on the *)
(* lists are kept: the function cell has just those addresses in its domain,  *)
(* so that a read of any other word as a header is an error.  The current     *)
(* heap, which a handle of -1 stands for, is left to the caller.              *)

EXTENDS Integers, SequencesExt

CONSTANTS
  NumHeaps,   \* OSHeapInfo.numHeaps
  ArenaSize,  \* the units of the arena
  NULL

ASSUME OSAllocAssumption ==
  NumHeaps \in Nat \ {0} /\ ArenaSize \in Nat /\ NULL \notin Int

VARIABLES
  cell,         \* Cell.prev, Cell.next and Cell.size at an address
  heapArray     \* HeapDesc.size, HeapDesc.free and HeapDesc.allocated

vars == <<cell, heapArray>>

HEADERSIZE == 1
MINOBJSIZE == 2

Heap == 0..(NumHeaps - 1)
Unit == 0..(ArenaSize - 1)
Units(start, end) == start..(end - 1)
NoHeap == [size |-> -1, free |-> NULL, allocated |-> NULL]

TypeOK ==
  /\ DOMAIN cell \subseteq Unit
  /\ \A a \in DOMAIN cell :
       cell[a] \in [prev : Unit \cup {NULL}, next : Unit \cup {NULL}, size : 1..ArenaSize]
  /\ heapArray \in [Heap -> [size : -1..ArenaSize, free : Unit \cup {NULL},
                             allocated : Unit \cup {NULL}]]

\* The state OS_InitAlloc leaves.
Init ==
  /\ cell = <<>>
  /\ heapArray = [h \in Heap |-> NoHeap]

-----------------------------------------------------------------------------
(* The lists of cells.  A list is a record of the headers and its first cell. *)

List(headers, first) == [cell |-> headers, list |-> first]

\* The cells of list d in their order.
Path(d) ==
  LET node[n \in 1..Cardinality(DOMAIN d.cell)] ==
        IF n = 1 THEN d.list
        ELSE LET a == node[n - 1] IN IF a = NULL THEN NULL ELSE d.cell[a].next
  IN SelectSeq(node, LAMBDA a : a # NULL)

SetNext(c, a, b) == IF a = NULL THEN c ELSE [c EXCEPT ![a].next = b]

\* A slip: nothing links back.
SetPrevNever(c, a, b) == c
SetPrev(c, a, b) == IF a = NULL THEN c ELSE [c EXCEPT ![a].prev = b]

Write(c, a, prev, next, size) == (a :> [prev |-> prev, next |-> next, size |-> size]) @@ c
Forget(c, addresses) == Restrict(c, DOMAIN c \ addresses)

DLAddFront(d, a) ==
  List(SetPrev([d.cell EXCEPT ![a].next = d.list, ![a].prev = NULL], d.list, a), a)

DLExtract(d, a) ==
  LET prev == d.cell[a].prev
      next == d.cell[a].next
      c == SetPrev(d.cell, next, prev)
  IN IF prev = NULL THEN List(c, next) ELSE List(SetNext(c, prev, next), d.list)

\* Cell a goes where the addresses rise, and is joined with what it touches.
DLInsert(d, a) ==
  LET behind == SelectSeq(Path(d), LAMBDA b : a <= b)
      before == SelectSeq(Path(d), LAMBDA b : b < a)
      next == IF behind = <<>> THEN NULL ELSE Head(behind)
      prev == IF before = <<>> THEN NULL ELSE Last(before)
      joinsNext == next # NULL /\ a + d.cell[a].size = next
      size == d.cell[a].size + IF joinsNext THEN d.cell[next].size ELSE 0
      after == IF joinsNext THEN d.cell[next].next ELSE next
      joinsPrev == prev # NULL /\ prev + d.cell[prev].size = a
      c == SetPrev(Write(d.cell, a, prev, after, size), after, a)
      joined == SetPrev([c EXCEPT ![prev].size = @ + size, ![prev].next = after], after, prev)
  IN IF prev = NULL THEN List(Forget(c, IF joinsNext THEN {next} ELSE {}), a)
     ELSE List(Forget(IF joinsPrev THEN joined ELSE SetNext(c, prev, a),
                      (IF joinsNext THEN {next} ELSE {}) \cup (IF joinsPrev THEN {a} ELSE {})),
               d.list)

\* The test of DLOverlap: does the cell begin or end in the range?
RangeOverlap(aStart, aEnd, bStart, bEnd) ==
  \/ bStart <= aStart /\ aStart < bEnd
  \/ bStart < aEnd /\ aEnd <= bEnd

FreeList(h) == List(cell, heapArray[h].free)
AllocatedList(h) == List(cell, heapArray[h].allocated)
Active == {h \in Heap : heapArray[h].size >= 0}
Cells(h) == ToSet(Path(FreeList(h))) \cup ToSet(Path(AllocatedList(h)))
CellUnits(a) == Units(a, a + cell[a].size)
Pool(h) == IF h \in Active THEN UNION {CellUnits(a) : a \in Cells(h)} ELSE {}

DLOverlap(h, start, end) ==
  \E a \in ToSet(Path(AllocatedList(h))) : RangeOverlap(a, a + cell[a].size, start, end)

\* A slip: a range inside a cell passes.
ApartByHeaders(start, end, cells) == \A a \in cells : end <= a \/ a < start

\* The range has no memory of these cells.
Apart(start, end, cells) == \A a \in cells : end <= a \/ a + cell[a].size <= start

-----------------------------------------------------------------------------
\* size includes the header.  The first free cell that is large enough is cut,
\* or taken whole when the rest would be too small for a cell.
OS_AllocFromHeap(h, size) ==
  LET d == FreeList(h)
      fits == SelectSeq(Path(d), LAMBDA a : size <= cell[a].size)
      a == Head(fits)
      leftover == cell[a].size - size
      whole == DLExtract(d, a)
      c == Write([cell EXCEPT ![a].size = size], a + size, cell[a].prev, cell[a].next, leftover)
      cut == List(SetNext(SetPrev(c, cell[a].next, a + size), cell[a].prev, a + size),
                  IF cell[a].prev = NULL THEN a + size ELSE d.list)
      rest == IF leftover < MINOBJSIZE THEN whole ELSE cut
      given == DLAddFront(List(rest.cell, heapArray[h].allocated), a)
  IN /\ h \in Active
     /\ fits # <<>>
     /\ cell' = given.cell
     /\ heapArray' = [heapArray EXCEPT ![h].free = rest.list, ![h].allocated = given.list]

\* One cell goes from the allocated list to the free list.
ToFree(h, s, a) ==
  LET rest == DLExtract(List(s.cell, s.allocated), a)
      free == DLInsert(List(rest.cell, s.free), a)
  IN [cell |-> free.cell, free |-> free.list, allocated |-> rest.list]

FreeCells(h, cells) ==
  LET s == FoldLeft(LAMBDA t, a : ToFree(h, t, a),
                    [cell |-> cell, free |-> heapArray[h].free, allocated |-> heapArray[h].allocated],
                    cells)
  IN /\ cell' = s.cell
     /\ heapArray' = [heapArray EXCEPT ![h].free = s.free, ![h].allocated = s.allocated]

OS_FreeToHeap(h, a) ==
  /\ h \in Active /\ a \in ToSet(Path(AllocatedList(h)))
  /\ FreeCells(h, <<a>>)

OS_FreeAllToHeap(h) ==
  /\ h \in Active
  /\ FreeCells(h, Path(AllocatedList(h)))

\* What OS_AllocFixed does with one free cell of heap h: a cell is cut out of the
\* heap up to one unit beyond the range, where less than a cell would be left.
CarveCell(h, s, a) ==
  LET d == List(s.cell, s.heaps[h].free)
      c == s.cell[a]
      cellEnd == a + c.size
      front == s.start - HEADERSIZE <= a /\ a < s.end
      back == s.start <= cellEnd /\ cellEnd < s.end + MINOBJSIZE
      rest == DLExtract(d, a)
      moved == SetNext(SetPrev(Write(s.cell, s.end, c.prev, c.next, cellEnd - s.end),
                               c.next, s.end), c.prev, s.end)
      split == SetPrev(Write([s.cell EXCEPT ![a].next = s.end, ![a].size = s.start - a],
                             s.end, a, c.next, cellEnd - s.end), c.next, s.end)
  IN CASE s.done \/ cellEnd <= s.start -> s
       [] s.end <= a /\ ~s.done /\ cellEnd > s.start -> [s EXCEPT !.done = TRUE]
       [] OTHER ->
            CASE front /\ back ->
                   [s EXCEPT !.cell = Forget(rest.cell, {a}), !.heaps[h].free = rest.list,
                             !.heaps[h].size = @ - c.size,
                             !.start = IF a < @ THEN a ELSE @, !.end = IF @ < cellEnd THEN cellEnd ELSE @]
              [] front /\ ~back ->
                   [s EXCEPT !.cell = Forget(moved, {a}),
                             !.heaps[h].free = IF c.prev = NULL THEN s.end ELSE @,
                             !.heaps[h].size = @ - (s.end - a),
                             !.start = IF a < @ THEN a ELSE @, !.done = TRUE]
              [] ~front /\ back ->
                   [s EXCEPT !.cell[a].size = s.start - a,
                             !.heaps[h].size = @ - (cellEnd - s.start),
                             !.end = IF @ < cellEnd THEN cellEnd ELSE @]
              [] OTHER ->
                   [s EXCEPT !.cell = split, !.heaps[h].size = @ - (s.end - s.start), !.done = TRUE]

Carve(s, h) ==
  IF h \notin Active THEN s
  ELSE FoldLeft(LAMBDA t, a : CarveCell(h, t, a), [s EXCEPT !.done = FALSE], Path(FreeList(h)))

\* OS_AllocFixed finds no cell in its way.
FixedPasses(start, end) == \A h \in Active : ~DLOverlap(h, start, end)

OS_AllocFixed(start, end) ==
  LET s == FoldLeft(Carve,
                    [cell |-> cell, heaps |-> heapArray, start |-> start, end |-> end, done |-> FALSE],
                    [i \in 1..NumHeaps |-> i - 1])
  IN /\ FixedPasses(start, end)
     /\ cell' = s.cell
     /\ heapArray' = s.heaps

\* A heap that is one free cell.
FreshHeap(h, start, end, others) ==
  /\ cell' = Write(others, start, NULL, NULL, end - start)
  /\ heapArray' = [heapArray EXCEPT
       ![h] = [size |-> end - start, free |-> start, allocated |-> NULL]]

OS_CreateHeap(start, end) ==
  /\ MINOBJSIZE <= end - start /\ Apart(start, end, DOMAIN cell)
  /\ \E h \in Heap \ Active :
       /\ \A i \in Heap \ Active : h <= i
       /\ FreshHeap(h, start, end, cell)

OS_DestroyHeap(h) ==
  /\ h \in Active
  /\ cell' = Forget(cell, Cells(h))
  /\ heapArray' = [heapArray EXCEPT ![h] = NoHeap]

OS_AddToHeap(h, start, end) ==
  LET d == DLInsert(List(Write(cell, start, NULL, NULL, end - start), heapArray[h].free), start)
  IN /\ h \in Active /\ MINOBJSIZE <= end - start /\ Apart(start, end, DOMAIN cell)
     /\ cell' = d.cell
     /\ heapArray' = [heapArray EXCEPT ![h].free = d.list, ![h].size = @ + (end - start)]

\* The heap is given the range, whatever it had.
OS_ClearHeap(h, start, end) ==
  /\ h \in Active /\ MINOBJSIZE <= end - start /\ Apart(start, end, DOMAIN cell \ Cells(h))
  /\ FreshHeap(h, start, end, Forget(cell, Cells(h)))

\* OS_ClearAlloc, and OS_InitAlloc over the same arena.
OS_InitAlloc ==
  /\ cell' = <<>>
  /\ heapArray' = [h \in Heap |-> NoHeap]

-----------------------------------------------------------------------------
Next ==
  \/ \E h \in Heap :
       \/ \E size \in MINOBJSIZE..ArenaSize : OS_AllocFromHeap(h, size)
       \/ \E a \in DOMAIN cell : OS_FreeToHeap(h, a)
       \/ OS_FreeAllToHeap(h)
       \/ OS_DestroyHeap(h)
  \/ \E start, end \in 0..ArenaSize :
       /\ start < end
       /\ \/ OS_AllocFixed(start, end)
          \/ OS_CreateHeap(start, end)
          \/ \E h \in Heap : OS_AddToHeap(h, start, end) \/ OS_ClearHeap(h, start, end)
  \/ OS_InitAlloc

Spec == Init /\ [][Next]_vars

-----------------------------------------------------------------------------
\* OS_CheckHeap finds nothing wrong with a heap: both lists are linked both ways,
\* their cells are large enough and in the arena, the free cells are in the order
\* of their addresses and do not touch, and all sizes add up to the heap's.  In
\* the code each call that changes a heap keeps it so.
OS_CheckHeap(h) ==
  LET free == Path(FreeList(h))
      allocated == Path(AllocatedList(h))
      Linked(s) == \A i \in DOMAIN s :
        /\ cell[s[i]].prev = (IF i = 1 THEN NULL ELSE s[i - 1])
        /\ MINOBJSIZE <= cell[s[i]].size
        /\ s[i] + cell[s[i]].size <= ArenaSize
  IN /\ Linked(free) /\ Linked(allocated)
     /\ \A i \in 1..(Len(free) - 1) : free[i] + cell[free[i]].size < free[i + 1]
     /\ FoldLeft(LAMBDA n, a : n + cell[a].size, 0, free \o allocated) = heapArray[h].size
HeapsChecked == \A h \in Active : OS_CheckHeap(h)

\* Blocks stay as they were given until they are freed, by whatever calls for
\* this heap and others.
Blocks == INSTANCE OSBlocks WITH
  pool <- [h \in Heap |-> Pool(h)],
  blocks <- [h \in Heap |-> {CellUnits(a) : a \in ToSet(Path(AllocatedList(h)))}]
KeepsBlocks == Blocks!Spec

\* OS_AllocFixed refuses a range that has memory of a block.
FixedIsFree ==
  \A start, end \in 0..ArenaSize :
    start < end /\ FixedPasses(start, end) =>
      \A h \in Active, a \in DOMAIN cell :
        a \in ToSet(Path(AllocatedList(h))) => Units(start, end) \cap CellUnits(a) = {}
=============================================================================
