------------------------------ MODULE ZoneHeap ------------------------------
(***************************************************************************)
(* The heap that holds the compiled methods of the virtual machine (and,   *)
(* in heaps of their own, their dependencies, debugging information and    *)
(* send stubs).  A chunk of blocks is free or used; free chunks are kept   *)
(* in lists by size, the longer ones in one list for all.  Adjacent free   *)
(* chunks are combined only when a request fails, and eagerly from then    *)
(* on.  The heap is walked, block by block, by sweepers that free the      *)
(* chunk they stand on, and it finds the chunk that an address is in.      *)
(***************************************************************************)
EXTENDS ChunkMap, Sequences, Functions

CONSTANTS
  N,         \* blocks of the heap
  nfree,     \* lists of free chunks of one size
  Objects,   \* what is stored in chunks
  Sizes,     \* the sizes that are asked for, in blocks
  Nowhere,   \* the place of an object that is not stored
  Unknown    \* what is found by reading outside the map

ASSUME ZoneHeapAssumption ==
  /\ N \in Nat \ {0} /\ nfree \in 1..(N - 1)
  /\ N < MaxDistance * MaxDistance * MaxDistance
  /\ Sizes \subseteq 1..N
  /\ Nowhere \notin 0..(N - 1)

VARIABLES
  heapMap,      \* the byte of each block
  freeList,     \* the lists of free chunks; the last one is bigList
  lastCombine,  \* the result of the last combination of chunks
  combineMode,  \* combine whenever a chunk is freed
  blocksUsed,   \* bytesUsed, in blocks
  at,           \* where each object is
  freed,        \* the chunk just freed, until something else is done
  full          \* the last thing done was a request that failed

vars == <<heapMap, freeList, lastCombine, combineMode, blocksUsed, at, freed, full>>

bigList == nfree + 1
heapEnd == N
Blocks == 0..(N - 1)

\* What an operation works on.
Heaps ==
  [map : [(-1)..N -> Byte], free : [1..bigList -> Seq(Blocks)], last : Blocks]
Heap == [map |-> heapMap, free |-> freeList, last |-> lastCombine]
Becomes(h) == heapMap' = h.map /\ freeList' = h.free /\ lastCombine' = h.last

Lowest(S) == IF S = {} THEN Nowhere ELSE CHOOSE i \in S : \A j \in S : i <= j

ListFor(n) == IF n <= nfree THEN n ELSE bigList

\* A list of chunks without those in S.
Unlinked(list, S) ==
  LET f[s \in (0..Len(list)) \X Seq(Range(list))] ==
        IF s[1] = Len(list) THEN s[2]
        ELSE LET d == list[s[1] + 1]
             IN  f[<<s[1] + 1, IF d \in S THEN s[2] ELSE Append(s[2], d)>>]
  IN f[<<0, <<>>>>]

keepInFreeList(h, S) == h

\* The chunks in S are removed from the lists they are in.
removeFromFreeList(h, S) ==
  [h EXCEPT !.free = [i \in 1..bigList |-> Unlinked(h.free[i], S)]]

addToFreeList(h, c) ==
  [h EXCEPT !.free[ListFor(size(h.map, c))] = Append(@, c)]

Mark(h, c, n, s) == [h EXCEPT !.map = markSize(h.map, c, n, s)]
-----------------------------------------------------------------------------
(* Combining.                                                              *)

FirstFreeIsOwn(m, c) == c

\* The first of the free chunks that end where c starts, and the end of
\* those that follow c.  The sentinels are used.
FirstFree(m, c) ==
  LET f[x \in Blocks] ==
        IF x = 0 \/ prev(m, x) \notin Blocks \/ IsUsed(m, prev(m, x))
        THEN x ELSE f[prev(m, x)]
  IN f[c]
EndOfFree(m, c) == Onward(m, next(m, c), UsedIn(m))

\* c and its free neighbours.
Run(m, c) == ChunksBetween(m, FirstFree(m, c), EndOfFree(m, c))
CombinedSize(m, c) == EndOfFree(m, c) - FirstFree(m, c)

\* They become one chunk.
combine(h, c) ==
  LET first == FirstFree(h.map, c)
      run == Run(h.map, c)
      unlinked == [removeFromFreeList(h, run) EXCEPT !.map = invalidate(h.map, run)]
      marked == Mark(unlinked, first, CombinedSize(h.map, c), unused)
  IN IF run = {c} THEN h ELSE [addToFreeList(marked, first) EXCEPT !.last = first]

\* Where combineAll is: the heap, the list it goes through, the chunks of the
\* list still to come, the size of the biggest chunk so far.  What combine
\* adds to the end of the list has been combined.
Combining == [heap : Heaps, list : 1..bigList, todo : Seq(Blocks), biggest : 0..N]

CombineNext(s) ==
  LET c == Head(s.todo)
      n == CombinedSize(s.heap.map, c)
  IN IF s.todo = <<>>
     THEN [heap |-> s.heap, list |-> s.list + 1,
           todo |-> s.heap.free[s.list + 1], biggest |-> s.biggest]
     ELSE [heap |-> combine(s.heap, c), list |-> s.list,
           todo |-> Unlinked(Tail(s.todo), Run(s.heap.map, c)),
           biggest |-> IF n > s.biggest THEN n ELSE s.biggest]

\* All lists but bigList, whose chunks are always combined.
combineAll(h) ==
  LET f[s \in Combining] ==
        IF s.list = bigList \/ CombineNext(s) \notin Combining THEN s ELSE f[CombineNext(s)]
  IN f[[heap |-> h, list |-> 1, todo |-> h.free[1], biggest |-> 0]]
-----------------------------------------------------------------------------
(* Allocating.                                                             *)

LargerFound(h, n) ==
  LET exact == {i \in n..nfree : h.free[i] # <<>>}
      list == h.free[bigList]
      big == {k \in DOMAIN list : size(h.map, list[k]) > n}
  IN IF exact # {} THEN Head(h.free[Lowest(exact)])
     ELSE IF big # {} THEN list[Lowest(big)] ELSE Nowhere

\* A chunk that will do: the first one of the first list that has one.
Found(h, n) ==
  LET exact == {i \in n..nfree : h.free[i] # <<>>}
      list == h.free[bigList]
      big == {k \in DOMAIN list : size(h.map, list[k]) >= n}
  IN IF exact # {} THEN Head(h.free[Lowest(exact)])
     ELSE IF big # {} THEN list[Lowest(big)] ELSE Nowhere

\* The first n blocks of the free chunk c are used, the rest stays free.
Split(h, c, n) ==
  LET rest == size(h.map, c) - n
      taken == Mark(removeFromFreeList(h, {c}), c, n, used)
  IN IF rest = 0 THEN taken
     ELSE addToFreeList(Mark(taken, c + n, rest, unused), c + n)

NeedsCombining(h, n) == ~combineMode /\ Found(h, n) = Nowhere
AfterCombining(h, n) == IF NeedsCombining(h, n) THEN combineAll(h).heap ELSE h

allocate(x, n) ==
  LET h == AfterCombining(Heap, n)
      found == Found(h, n)
      tried == NeedsCombining(Heap, n)
      fits == found # Nowhere /\ (tried => combineAll(Heap).biggest >= n)
  IN /\ at[x] = Nowhere
     /\ Becomes(IF fits THEN Split(h, found, n) ELSE h)
     /\ at' = IF fits THEN [at EXCEPT ![x] = found] ELSE at
     /\ blocksUsed' = IF fits THEN blocksUsed + n ELSE blocksUsed
     /\ combineMode' = (combineMode \/ tried)
     /\ full' = ~fits
     /\ freed' = Nowhere

deallocate(x) ==
  LET c == at[x]
      n == size(heapMap, c)
      h == addToFreeList(Mark(Heap, c, n, unused), c)
  IN /\ c # Nowhere
     /\ Becomes(IF combineMode \/ n > nfree THEN combine(h, c) ELSE h)
     /\ at' = [at EXCEPT ![x] = Nowhere]
     /\ blocksUsed' = blocksUsed - n
     /\ freed' = c
     /\ full' = FALSE
     /\ UNCHANGED combineMode

nonCombiningMode ==
  /\ combineMode' = FALSE
  /\ freed' = Nowhere /\ full' = FALSE
  /\ UNCHANGED <<heapMap, freeList, lastCombine, blocksUsed, at>>
-----------------------------------------------------------------------------
(* Compacting: used chunks are moved down, in order.                       *)

\* Where compact is: the map, where the next used chunk goes and where it is
\* to be looked for, and where the objects are.
Sliding == [map : [(-1)..N -> Byte], free : 0..N, from : 0..N,
            at : [Objects -> Blocks \cup {Nowhere}]]

SlideNext(s) ==
  LET n == size(s.map, s.from) IN
  IF ~IsUsed(s.map, s.from) THEN [s EXCEPT !.from = next(s.map, s.from)]
  ELSE [map |-> markUsed(s.map, s.free, n), free |-> s.free + n, from |-> s.from + n,
        at |-> [x \in Objects |-> IF at[x] = s.from THEN s.free ELSE s.at[x]]]

SlideDown ==
  LET f[s \in Sliding] ==
        IF s.from = heapEnd \/ SlideNext(s) \notin Sliding THEN s ELSE f[SlideNext(s)]
      first == Onward(heapMap, 0, DOMAIN heapMap \ UsedIn(heapMap))
  IN f[[map |-> heapMap, free |-> first, from |-> first, at |-> at]]

compact ==
  LET slid == SlideDown
      rest == N - slid.free
      cleared == [map |-> markUnused(slid.map, slid.free, rest),
                  free |-> [i \in 1..bigList |-> <<>>], last |-> 0]
  IN /\ blocksUsed # N
     /\ Becomes(addToFreeList(cleared, slid.free))
     /\ at' = slid.at
     /\ freed' = Nowhere /\ full' = FALSE
     /\ UNCHANGED <<combineMode, blocksUsed>>
-----------------------------------------------------------------------------
(* Walking.                                                                *)

FirstFrom(m, c) ==
  LET end == Onward(m, c, UsedIn(m)) IN IF end = heapEnd THEN Nowhere ELSE end

\* From the last combined chunk, up to the first one after p.
PastFrom(m, p) == Onward(m, lastCombine, (p + 1)..heapEnd)

nextUsedIfValid(p) ==
  IF ~ReadsInside(heapMap, p) THEN Unknown
  ELSE FirstFrom(heapMap, IF isValid(heapMap, p) /\ ~contains(heapMap, lastCombine, p)
                          THEN next(heapMap, p) ELSE PastFrom(heapMap, p))

\* Whether p was combined is looked at before its byte, which may be stale.
nextUsed(p) ==
  IF contains(heapMap, lastCombine, p) THEN FirstFrom(heapMap, PastFrom(heapMap, p))
  ELSE IF ~ReadsInside(heapMap, p) THEN Unknown
  ELSE FirstFrom(heapMap, IF isValid(heapMap, p) THEN next(heapMap, p)
                          ELSE PastFrom(heapMap, p))

firstUsed ==
  IF blocksUsed = 0 THEN Nowhere
  ELSE IF IsUsed(heapMap, 0) THEN 0 ELSE nextUsed(0)
-----------------------------------------------------------------------------
EmptyMap ==
  LET blank == [b \in -1..N |-> IF b \in Blocks THEN 0 ELSE used]
  IN markUnused(blank, 0, N)

\* clear
Init ==
  /\ heapMap = EmptyMap
  /\ freeList = [i \in 1..bigList |-> IF i = ListFor(N) THEN <<0>> ELSE <<>>]
  /\ lastCombine = 0 /\ combineMode = FALSE /\ blocksUsed = 0
  /\ at = [x \in Objects |-> Nowhere]
  /\ freed = Nowhere /\ full = FALSE

Next ==
  \/ \E x \in Objects : deallocate(x) \/ \E n \in Sizes : allocate(x, n)
  \/ compact \/ nonCombiningMode

Spec == Init /\ [][Next]_vars
-----------------------------------------------------------------------------
(* Properties.                                                             *)

\* The chunks, and those that callers hold.
Chunks == ChunksBetween(heapMap, 0, heapEnd)
Used == {at[x] : x \in Objects} \ {Nowhere}

\* Walked up or down the map is cut into chunks, of which the used ones are
\* those that callers hold, and the free ones are each in the list for its
\* size, once; and a combined chunk is one of them.
MapAgrees ==
  /\ \A c \in Chunks : isValid(heapMap, c) /\ prev(heapMap, next(heapMap, c)) = c
  /\ {c \in Chunks : IsUsed(heapMap, c)} = Used
  /\ \A i \in 1..bigList :
       /\ IsInjective(freeList[i])
       /\ Range(freeList[i]) =
            {c \in Chunks \ Used : ListFor(size(heapMap, c)) = i}
  /\ lastCombine \in Chunks

\* Free chunks that touch are left only while chunks are not combined, and
\* one of the two is then so small that it is in a list of its own.
Combined ==
  \A c \in Chunks \ Used :
    LET d == next(heapMap, c) IN
    d # heapEnd /\ ~IsUsed(heapMap, d) =>
      ~combineMode /\ (size(heapMap, c) <= nfree \/ size(heapMap, d) <= nfree)

\* Any address in a used chunk leads to its start, through whatever bytes
\* the chunks that were there before it left.
FindsStart ==
  \A c \in Used : \A b \in c..(next(heapMap, c) - 1) : findStart(heapMap, b, heapEnd) = c

\* A sweeper that frees the chunk it stands on still gets to the next one,
\* and never looks at a byte outside the map.
SweepGoesOn ==
  /\ firstUsed = Lowest(Used)
  /\ \A p \in Used \cup ({freed} \ {Nowhere}) :
       nextUsed(p) = Lowest({u \in Used : u > p})

\* What its callers see is an allocator that fails only when no free blocks
\* in a row are enough, and whose compaction keeps the order of the objects.
Abstract ==
  INSTANCE AbstractHeap WITH
    place <- [x \in Objects |-> IF at[x] = Nowhere THEN <<>>
                                ELSE <<at[x], size(heapMap, at[x])>>],
    inUse <- blocksUsed
IsHeap == Abstract!Spec
=============================================================================
