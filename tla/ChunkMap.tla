------------------------------ MODULE ChunkMap ------------------------------
(***************************************************************************)
(* The map a heap of the code zone keeps of its chunks: one byte for each  *)
(* block.  The first and the last byte of a chunk hold its size and        *)
(* whether it is used, in one byte if it is shorter than maxOneByteLen,    *)
(* and else in four.  The bytes between hold a distance to the first one.  *)
(* A map is a function from the blocks 0 .. N-1 and the sentinels -1 and N.*)
(***************************************************************************)
EXTENDS Integers

CONSTANTS MaxDistance,    \* 128: also the base of the digits of a size
          maxOneByteLen   \* 62

unused == MaxDistance
unusedOvfl == unused + maxOneByteLen
used == unusedOvfl + 2
usedOvfl == used + maxOneByteLen
invalid == usedOvfl + 1

minHeaderSize == 1
maxHeaderSize == 4

Byte == 0..invalid

ASSUME ChunkMapAssumption ==
  /\ maxOneByteLen \in Nat /\ MaxDistance \in Nat
  /\ 2 * maxHeaderSize < maxOneByteLen /\ maxOneByteLen <= MaxDistance
  /\ MaxDistance <= 2 * maxOneByteLen + 4   \* a digit fits in a byte

IsUsed(m, c) == m[c] >= used
Ovfl(m, c) == IF IsUsed(m, c) THEN usedOvfl ELSE unusedOvfl

Digits(m, first) ==
  LET n(i) == m[first + i] - unused
  IN (n(0) * MaxDistance + n(1)) * MaxDistance + n(2)

size(m, c) ==
  IF m[c] = Ovfl(m, c) THEN Digits(m, c + 1)
  ELSE m[c] + 1 - (IF IsUsed(m, c) THEN used ELSE unused)

next(m, c) == c + size(m, c)
prev(m, c) ==
  c - (IF m[c - 1] = Ovfl(m, c - 1) THEN Digits(m, c - 4) ELSE size(m, c - 1))

contains(m, c, b) == c <= b /\ b < next(m, c)

\* A map may be asked about a byte that is no header: what it would read off
\* its ends is unknown.
isValid(m, c) ==
  /\ m[c] # invalid /\ m[c] >= MaxDistance
  /\ LET e == next(m, c) - 1 IN
     /\ m[c] = m[e]
     /\ m[c] = Ovfl(m, c) => \A i \in 1..3 : m[c + i] = m[e - 4 + i]

\* Whether isValid stays in the map.
ReadsInside(m, c) ==
  m[c] # invalid /\ m[c] >= MaxDistance
    => (m[c] = Ovfl(m, c) => c + 3 \in DOMAIN m) /\ next(m, c) - 1 \in DOMAIN m
-----------------------------------------------------------------------------
headerSize(n) == IF n < maxOneByteLen THEN minHeaderSize ELSE maxHeaderSize

Header(n, s) ==
  IF n < maxOneByteLen THEN <<s + n - 1>>
  ELSE <<IF s = used THEN usedOvfl ELSE unusedOvfl,
         unused + n \div (MaxDistance * MaxDistance),
         unused + ((n \div MaxDistance) % MaxDistance),
         unused + (n % MaxDistance)>>

FarDistance(i) == IF i < MaxDistance THEN i ELSE MaxDistance - 1

\* The distance in byte i of a used chunk: never into its header.
Distance(i) == IF i < MaxDistance THEN i ELSE MaxDistance - maxHeaderSize

\* The byte i of a chunk that is marked, whose header has h bytes.  In an
\* unused chunk only the first distance is written, the rest is stale.
markSize(m, c, n, s) ==
  LET head == Header(n, s)
      h == headerSize(n)
      Marked(i) ==
        IF i < h THEN head[i + 1]
        ELSE IF i = n - 1 THEN head[1]
        ELSE IF i >= n - h THEN head[i - n + h + 2]
        ELSE IF s = used THEN Distance(i)
        ELSE IF i = h THEN h
        ELSE m[c + i]
  IN [b \in DOMAIN m |-> IF b \in c..(c + n - 1) THEN Marked(b - c) ELSE m[b]]

markUsed(m, c, n) == markSize(m, c, n, used)
markUnused(m, c, n) == markSize(m, c, n, unused)

\* The chunks in S do not look valid any more.
invalidate(m, S) == [b \in DOMAIN m |-> IF b \in S THEN invalid ELSE m[b]]
-----------------------------------------------------------------------------
(* Loops over the map.  A loop ends where it would leave the map, which    *)
(* none does as long as chunks fill the map (ZoneHeap: MapAgrees).         *)

UsedIn(m) == {x \in DOMAIN m : IsUsed(m, x)}

\* From the chunk c on the first one that is in goal.
Onward(m, c, goal) ==
  LET f[x \in DOMAIN m] ==
        IF x \in goal \/ next(m, x) \notin DOMAIN m THEN x ELSE f[next(m, x)]
  IN f[c]

\* The chunks from one block up to another.
ChunksBetween(m, from, to) == {c \in from..(to - 1) : Onward(m, from, c..to) = c}

\* The start of the chunk that byte b is in: down the distances, or, from
\* within a header, first up to the next distance.
WalkDown(m, b) ==
  LET f[x \in DOMAIN m] ==
        IF m[x] \in 1..(MaxDistance - 1) /\ x - m[x] \in DOMAIN m
        THEN f[x - m[x]] ELSE x
  IN f[b]

findStart(m, b, end) ==
  LET up[x \in DOMAIN m] == IF m[x] >= MaxDistance /\ x < end THEN up[x + 1] ELSE x
      back[x \in DOMAIN m] ==
        IF contains(m, x, b) \/ prev(m, x) \notin DOMAIN m THEN x ELSE back[prev(m, x)]
  IN IF m[b] < MaxDistance THEN WalkDown(m, b)
     ELSE back[IF up[b] < end THEN WalkDown(m, up[b]) ELSE up[b]]
=============================================================================
