--------------------------- MODULE CodeZoneProofs ----------------------------
(***************************************************************************)
(* Proofs about CodeZone, for any number of nmethods, methods and          *)
(* activations: whatever flushes, replaces, invalidates or moves nmethods, *)
(* no activation, inline cache, entry of the code table or route that is   *)
(* not stale is left behind.                                               *)
(*                                                                         *)
(* The invariant is about a zone, since the operations are functions of    *)
(* one.  What refers to nmethods refers to those that are there            *)
(* (FramesOK, LinksOK, RoutesOK); the code table has just those that may   *)
(* be found (TableOK); and an nmethod that has left the chains of          *)
(* dependencies, so that a change will miss it, is a zombie or invalid and *)
(* has no callers (ChainOK, LinksOK).  TableOK is up to the nmethods of E: *)
(* the one that is being recompiled is out of the code table while its     *)
(* successor is allocated.                                                 *)
(***************************************************************************)
EXTENDS CodeZone, FiniteSetTheorems, TLAPS

ZoneType ==
  [code : [Addresses -> Nmethod \cup {None}], table : [Keys -> Addresses \cup {None}],
   routes : [Keys -> Link \cup {None}], frames : SUBSET Frame]

FramesOK(z) == \A f \in z.frames : Meets(f) /\ f.at \in Nmethods(z)

LinksOK(z) ==
  \A a \in Nmethods(z) :
    LET n == z.code[a] IN
    n.calls # None =>
      /\ Meets(n.calls) /\ n.calls.at \in Nmethods(z)
      /\ z.code[n.calls.at].key = Sends[n.key] /\ z.code[n.calls.at].chained

ChainOK(z) ==
  \A a \in Nmethods(z) :
    LET n == z.code[a] IN
    /\ n.chained => ~n.old
    /\ ~n.chained => n.zombie \/ n.invalid

\* What a lookup for k may find.
Found(n, k) == n.key = k /\ ~n.zombie /\ ~n.invalid /\ ~n.old

TableOK(z, E) ==
  \A k \in Keys, a \in Addresses :
    z.table[k] = a <=> a \in Nmethods(z) \ E /\ Found(z.code[a], k)

RoutesOK(z) ==
  \A k \in Keys :
    LET a == z.routes[k].is IN
    z.routes[k] # None => a \in Nmethods(z) /\ z.code[a].key = k /\ ~z.code[a].old

ZoneOK(z, E) ==
  z \in ZoneType /\ FramesOK(z) /\ LinksOK(z) /\ ChainOK(z) /\ TableOK(z, E) /\ RoutesOK(z)

ZoneInv == ZoneOK(Zone, {})
-----------------------------------------------------------------------------
(* What the operations on a zone do.                                       *)

LEMMA Nones ==
  None \notin Addresses /\ None \notin Link /\ None \notin Frame /\ None \notin Nmethod
BY NoneAssumption

LEMMA Fields ==
  ASSUME NEW z \in ZoneType
  PROVE  /\ z.code \in [Addresses -> Nmethod \cup {None}]
         /\ z.table \in [Keys -> Addresses \cup {None}]
         /\ z.routes \in [Keys -> Link \cup {None}]
         /\ z.frames \in SUBSET Frame
         /\ \A a \in Nmethods(z) : a \in Addresses /\ z.code[a] \in Nmethod
BY DEF ZoneType, Nmethods

IsCode(c) == c = [a \in Addresses |-> c[a]]
WithCode(z, c) == [z EXCEPT !.code = c]

\* The nmethods of A are replaced by those of c.
LEMMA UpdateEffect ==
  ASSUME NEW z \in ZoneType, NEW A \in SUBSET Nmethods(z), NEW c, IsCode(c),
         \A a \in A : c[a] \in Nmethod,
         \A a \in Addresses \ A : c[a] = z.code[a]
  PROVE  LET y == WithCode(z, c) IN
         /\ y \in ZoneType /\ y.code = c
         /\ y.table = z.table /\ y.routes = z.routes /\ y.frames = z.frames
         /\ Nmethods(y) = Nmethods(z)
<1> DEFINE y == WithCode(z, c)
<1>0. c \in [Addresses -> Nmethod \cup {None}]
  <2>1. \A a \in Addresses : c[a] \in Nmethod \cup {None}
    BY Fields
  <2>2. QED  BY <2>1 DEF IsCode
<1>1. /\ y \in ZoneType /\ y.code = c
      /\ y.table = z.table /\ y.routes = z.routes /\ y.frames = z.frames
  BY <1>0 DEF ZoneType, WithCode
<1>2. \A a \in Addresses : c[a] # None <=> z.code[a] # None
  BY Nones DEF Nmethods
<1>3. QED  BY <1>1, <1>2 DEF Nmethods

\* What stays when only nmethods are changed.
SameBut(z, y) ==
  /\ y \in ZoneType
  /\ y.table = z.table /\ y.routes = z.routes /\ y.frames = z.frames
  /\ Nmethods(y) = Nmethods(z)

\* The links to the nmethods of A are undone.
LEMMA UncalledEffect ==
  ASSUME NEW z \in ZoneType, NEW A \in SUBSET Nmethods(z)
  PROVE  LET y == remove_me_from_inline_cache(z, A) IN
         /\ SameBut(z, y)
         /\ \A a \in Nmethods(z) :
              LET m == z.code[a] n == y.code[a] IN
              /\ n.key = m.key /\ n.zombie = m.zombie /\ n.invalid = m.invalid
              /\ n.chained = m.chained /\ n.old = m.old
              /\ n.calls = IF m.calls # None /\ m.calls.at \in A THEN None ELSE m.calls
<1> DEFINE S == {a \in Nmethods(z) : z.code[a].calls # None /\ z.code[a].calls.at \in A}
           c == [a \in Addresses |-> IF a \in S THEN [z.code[a] EXCEPT !.calls = None]
                                           ELSE z.code[a]]
           y == remove_me_from_inline_cache(z, A)
<1>1. y = WithCode(z, c)
  BY DEF WithCode, Updated, remove_me_from_inline_cache
<1> HIDE DEF y
<1>2. S \in SUBSET Nmethods(z)
  OBVIOUS
<1>3. ASSUME NEW a \in S
      PROVE  /\ a \in Addresses /\ z.code[a] \in Nmethod
             /\ c[a] = [z.code[a] EXCEPT !.calls = None]
  BY <1>2, Fields
<1>4. IsCode(c) /\ \A a \in Addresses \ S : c[a] = z.code[a]
  BY DEF IsCode
<1> HIDE DEF c
<1>5. ASSUME NEW a \in S
      PROVE  LET m == z.code[a] n == c[a] IN
             /\ n \in Nmethod
             /\ n.key = m.key /\ n.zombie = m.zombie /\ n.invalid = m.invalid
             /\ n.chained = m.chained /\ n.old = m.old
             /\ n.calls = None
  BY <1>3 DEF Nmethod
<1>6. SameBut(z, y) /\ y.code = c
  <2>1. \A a \in S : c[a] \in Nmethod
    BY <1>5
  <2> HIDE DEF S
  <2>2. QED  BY <1>1, <1>2, <1>4, <2>1, UpdateEffect DEF SameBut
<1>7. ASSUME NEW a \in Nmethods(z)
      PROVE  LET m == z.code[a] n == c[a] IN
             /\ n.key = m.key /\ n.zombie = m.zombie /\ n.invalid = m.invalid
             /\ n.chained = m.chained /\ n.old = m.old
             /\ n.calls = IF m.calls # None /\ m.calls.at \in A THEN None ELSE m.calls
  <2>1. CASE a \in S
    BY <1>5, <2>1
  <2>2. CASE a \notin S
    BY <1>4, <2>2, Fields
  <2>3. QED  BY <2>1, <2>2
<1>8. QED  BY <1>6, <1>7 DEF y

Off(z, A) ==
  [z EXCEPT !.code = Updated(z, A, LAMBDA n : [n EXCEPT !.listed = FALSE, !.chained = FALSE])]

LEMMA OffEffect ==
  ASSUME NEW z \in ZoneType, NEW A \in SUBSET Nmethods(z)
  PROVE  LET y == Off(z, A) IN
         /\ SameBut(z, y)
         /\ \A a \in Nmethods(z) :
              LET m == z.code[a] n == y.code[a] IN
              /\ n.key = m.key /\ n.calls = m.calls /\ n.zombie = m.zombie
              /\ n.invalid = m.invalid /\ n.old = m.old
              /\ n.chained <=> m.chained /\ a \notin A
<1> DEFINE c == [a \in Addresses |->
                  IF a \in A THEN [z.code[a] EXCEPT !.listed = FALSE, !.chained = FALSE]
                  ELSE z.code[a]]
           y == Off(z, A)
<1>1. y = WithCode(z, c)
  BY DEF WithCode, Updated, Off
<1> HIDE DEF y
<1>2. A \in SUBSET Nmethods(z)
  OBVIOUS
<1>3. ASSUME NEW a \in A
      PROVE  /\ a \in Addresses /\ z.code[a] \in Nmethod
             /\ c[a] = [z.code[a] EXCEPT !.listed = FALSE, !.chained = FALSE]
  BY <1>2, Fields
<1>4. IsCode(c) /\ \A a \in Addresses \ A : c[a] = z.code[a]
  BY DEF IsCode
<1> HIDE DEF c
<1>5. ASSUME NEW a \in A
      PROVE  LET m == z.code[a] n == c[a] IN
             /\ n \in Nmethod
             /\ n.key = m.key /\ n.calls = m.calls /\ n.zombie = m.zombie
             /\ n.invalid = m.invalid /\ n.old = m.old
             /\ ~n.chained
  BY <1>3 DEF Nmethod
<1>6. SameBut(z, y) /\ y.code = c
  <2>1. \A a \in A : c[a] \in Nmethod
    BY <1>5
  <2>2. QED  BY <1>1, <1>2, <1>4, <2>1, UpdateEffect DEF SameBut
<1>7. ASSUME NEW a \in Nmethods(z)
      PROVE  LET m == z.code[a] n == c[a] IN
             /\ n.key = m.key /\ n.calls = m.calls /\ n.zombie = m.zombie
             /\ n.invalid = m.invalid /\ n.old = m.old
             /\ n.chained <=> m.chained /\ a \notin A
  <2>1. CASE a \in A
    BY <1>5, <2>1
  <2>2. CASE a \notin A
    BY <1>4, <2>2, Fields
  <2>3. QED  BY <2>1, <2>2
<1>8. QED  BY <1>6, <1>7 DEF y

Zombified(z, A) ==
  [z EXCEPT !.code = Updated(z, A, LAMBDA n : [n EXCEPT !.zombie = TRUE, !.listed = TRUE])]

LEMMA ZombifiedEffect ==
  ASSUME NEW z \in ZoneType, NEW A \in SUBSET Nmethods(z)
  PROVE  LET y == Zombified(z, A) IN
         /\ SameBut(z, y)
         /\ \A a \in Nmethods(z) :
              LET m == z.code[a] n == y.code[a] IN
              /\ n.key = m.key /\ n.calls = m.calls /\ n.invalid = m.invalid
              /\ n.chained = m.chained /\ n.old = m.old
              /\ n.zombie <=> m.zombie \/ a \in A
<1> DEFINE c == [a \in Addresses |->
                  IF a \in A THEN [z.code[a] EXCEPT !.zombie = TRUE, !.listed = TRUE]
                  ELSE z.code[a]]
           y == Zombified(z, A)
<1>1. y = WithCode(z, c)
  BY DEF WithCode, Updated, Zombified
<1> HIDE DEF y
<1>2. A \in SUBSET Nmethods(z)
  OBVIOUS
<1>3. ASSUME NEW a \in A
      PROVE  /\ a \in Addresses /\ z.code[a] \in Nmethod
             /\ c[a] = [z.code[a] EXCEPT !.zombie = TRUE, !.listed = TRUE]
  BY <1>2, Fields
<1>4. IsCode(c) /\ \A a \in Addresses \ A : c[a] = z.code[a]
  BY DEF IsCode
<1> HIDE DEF c
<1>5. ASSUME NEW a \in A
      PROVE  LET m == z.code[a] n == c[a] IN
             /\ n \in Nmethod
             /\ n.key = m.key /\ n.calls = m.calls /\ n.invalid = m.invalid
             /\ n.chained = m.chained /\ n.old = m.old
             /\ n.zombie
  BY <1>3 DEF Nmethod
<1>6. SameBut(z, y) /\ y.code = c
  <2>1. \A a \in A : c[a] \in Nmethod
    BY <1>5
  <2>2. QED  BY <1>1, <1>2, <1>4, <2>1, UpdateEffect DEF SameBut
<1>7. ASSUME NEW a \in Nmethods(z)
      PROVE  LET m == z.code[a] n == c[a] IN
             /\ n.key = m.key /\ n.calls = m.calls /\ n.invalid = m.invalid
             /\ n.chained = m.chained /\ n.old = m.old
             /\ n.zombie <=> m.zombie \/ a \in A
  <2>1. CASE a \in A
    BY <1>5, <2>1
  <2>2. CASE a \notin A
    BY <1>4, <2>2, Fields
  <2>3. QED  BY <2>1, <2>2
<1>8. QED  BY <1>6, <1>7 DEF y

Unlisted(z, A) ==
  [z EXCEPT !.code = Updated(z, A, LAMBDA n : [n EXCEPT !.listed = FALSE])]

LEMMA UnlistedEffect ==
  ASSUME NEW z \in ZoneType, NEW A \in SUBSET Nmethods(z)
  PROVE  LET y == Unlisted(z, A) IN
         /\ SameBut(z, y)
         /\ \A a \in Nmethods(z) :
              LET m == z.code[a] n == y.code[a] IN
              /\ n.key = m.key /\ n.calls = m.calls /\ n.zombie = m.zombie
              /\ n.invalid = m.invalid /\ n.chained = m.chained /\ n.old = m.old
<1> DEFINE c == [a \in Addresses |->
                  IF a \in A THEN [z.code[a] EXCEPT !.listed = FALSE]
                  ELSE z.code[a]]
           y == Unlisted(z, A)
<1>1. y = WithCode(z, c)
  BY DEF WithCode, Updated, Unlisted
<1> HIDE DEF y
<1>2. A \in SUBSET Nmethods(z)
  OBVIOUS
<1>3. ASSUME NEW a \in A
      PROVE  /\ a \in Addresses /\ z.code[a] \in Nmethod
             /\ c[a] = [z.code[a] EXCEPT !.listed = FALSE]
  BY <1>2, Fields
<1>4. IsCode(c) /\ \A a \in Addresses \ A : c[a] = z.code[a]
  BY DEF IsCode
<1> HIDE DEF c
<1>5. ASSUME NEW a \in A
      PROVE  LET m == z.code[a] n == c[a] IN
             /\ n \in Nmethod
             /\ n.key = m.key /\ n.calls = m.calls /\ n.zombie = m.zombie
             /\ n.invalid = m.invalid /\ n.chained = m.chained /\ n.old = m.old
  BY <1>3 DEF Nmethod
<1>6. SameBut(z, y) /\ y.code = c
  <2>1. \A a \in A : c[a] \in Nmethod
    BY <1>5
  <2>2. QED  BY <1>1, <1>2, <1>4, <2>1, UpdateEffect DEF SameBut
<1>7. ASSUME NEW a \in Nmethods(z)
      PROVE  LET m == z.code[a] n == c[a] IN
             /\ n.key = m.key /\ n.calls = m.calls /\ n.zombie = m.zombie
             /\ n.invalid = m.invalid /\ n.chained = m.chained /\ n.old = m.old
  <2>1. CASE a \in A
    BY <1>5, <2>1
  <2>2. CASE a \notin A
    BY <1>4, <2>2, Fields
  <2>3. QED  BY <2>1, <2>2
<1>8. QED  BY <1>6, <1>7 DEF y

MadeInvalid(z, A) ==
  [z EXCEPT !.code = Updated(z, A, LAMBDA n : [n EXCEPT !.invalid = TRUE])]

LEMMA InvalidEffect ==
  ASSUME NEW z \in ZoneType, NEW A \in SUBSET Nmethods(z)
  PROVE  LET y == MadeInvalid(z, A) IN
         /\ SameBut(z, y)
         /\ \A a \in Nmethods(z) :
              LET m == z.code[a] n == y.code[a] IN
              /\ n.key = m.key /\ n.calls = m.calls /\ n.zombie = m.zombie
              /\ n.chained = m.chained /\ n.old = m.old
              /\ n.invalid <=> m.invalid \/ a \in A
<1> DEFINE c == [a \in Addresses |->
                  IF a \in A THEN [z.code[a] EXCEPT !.invalid = TRUE]
                  ELSE z.code[a]]
           y == MadeInvalid(z, A)
<1>1. y = WithCode(z, c)
  BY DEF WithCode, Updated, MadeInvalid
<1> HIDE DEF y
<1>2. A \in SUBSET Nmethods(z)
  OBVIOUS
<1>3. ASSUME NEW a \in A
      PROVE  /\ a \in Addresses /\ z.code[a] \in Nmethod
             /\ c[a] = [z.code[a] EXCEPT !.invalid = TRUE]
  BY <1>2, Fields
<1>4. IsCode(c) /\ \A a \in Addresses \ A : c[a] = z.code[a]
  BY DEF IsCode
<1> HIDE DEF c
<1>5. ASSUME NEW a \in A
      PROVE  LET m == z.code[a] n == c[a] IN
             /\ n \in Nmethod
             /\ n.key = m.key /\ n.calls = m.calls /\ n.zombie = m.zombie
             /\ n.chained = m.chained /\ n.old = m.old
             /\ n.invalid
  BY <1>3 DEF Nmethod
<1>6. SameBut(z, y) /\ y.code = c
  <2>1. \A a \in A : c[a] \in Nmethod
    BY <1>5
  <2>2. QED  BY <1>1, <1>2, <1>4, <2>1, UpdateEffect DEF SameBut
<1>7. ASSUME NEW a \in Nmethods(z)
      PROVE  LET m == z.code[a] n == c[a] IN
             /\ n.key = m.key /\ n.calls = m.calls /\ n.zombie = m.zombie
             /\ n.chained = m.chained /\ n.old = m.old
             /\ n.invalid <=> m.invalid \/ a \in A
  <2>1. CASE a \in A
    BY <1>5, <2>1
  <2>2. CASE a \notin A
    BY <1>4, <2>2, Fields
  <2>3. QED  BY <2>1, <2>2
<1>8. QED  BY <1>6, <1>7 DEF y

MadeOld(z, A) ==
  [z EXCEPT !.code = Updated(z, A, LAMBDA n : [n EXCEPT !.old = TRUE])]

LEMMA OldEffect ==
  ASSUME NEW z \in ZoneType, NEW A \in SUBSET Nmethods(z)
  PROVE  LET y == MadeOld(z, A) IN
         /\ SameBut(z, y)
         /\ \A a \in Nmethods(z) :
              LET m == z.code[a] n == y.code[a] IN
              /\ n.key = m.key /\ n.calls = m.calls /\ n.zombie = m.zombie
              /\ n.invalid = m.invalid /\ n.chained = m.chained
              /\ n.old <=> m.old \/ a \in A
<1> DEFINE c == [a \in Addresses |->
                  IF a \in A THEN [z.code[a] EXCEPT !.old = TRUE]
                  ELSE z.code[a]]
           y == MadeOld(z, A)
<1>1. y = WithCode(z, c)
  BY DEF WithCode, Updated, MadeOld
<1> HIDE DEF y
<1>2. A \in SUBSET Nmethods(z)
  OBVIOUS
<1>3. ASSUME NEW a \in A
      PROVE  /\ a \in Addresses /\ z.code[a] \in Nmethod
             /\ c[a] = [z.code[a] EXCEPT !.old = TRUE]
  BY <1>2, Fields
<1>4. IsCode(c) /\ \A a \in Addresses \ A : c[a] = z.code[a]
  BY DEF IsCode
<1> HIDE DEF c
<1>5. ASSUME NEW a \in A
      PROVE  LET m == z.code[a] n == c[a] IN
             /\ n \in Nmethod
             /\ n.key = m.key /\ n.calls = m.calls /\ n.zombie = m.zombie
             /\ n.invalid = m.invalid /\ n.chained = m.chained
             /\ n.old
  BY <1>3 DEF Nmethod
<1>6. SameBut(z, y) /\ y.code = c
  <2>1. \A a \in A : c[a] \in Nmethod
    BY <1>5
  <2>2. QED  BY <1>1, <1>2, <1>4, <2>1, UpdateEffect DEF SameBut
<1>7. ASSUME NEW a \in Nmethods(z)
      PROVE  LET m == z.code[a] n == c[a] IN
             /\ n.key = m.key /\ n.calls = m.calls /\ n.zombie = m.zombie
             /\ n.invalid = m.invalid /\ n.chained = m.chained
             /\ n.old <=> m.old \/ a \in A
  <2>1. CASE a \in A
    BY <1>5, <2>1
  <2>2. CASE a \notin A
    BY <1>4, <2>2, Fields
  <2>3. QED  BY <2>1, <2>2
<1>8. QED  BY <1>6, <1>7 DEF y

\* The links to the nmethod at x are changed to b.
LEMMA ForwardedEffect ==
  ASSUME NEW z \in ZoneType, NEW x \in Addresses, NEW b \in Addresses
  PROVE  LET y == Forwarded(z, x, b) IN
         /\ SameBut(z, y)
         /\ \A a \in Nmethods(z) :
              LET m == z.code[a] n == y.code[a] IN
              /\ n.key = m.key /\ n.zombie = m.zombie /\ n.invalid = m.invalid
              /\ n.chained = m.chained /\ n.old = m.old
              /\ n.calls = IF m.calls # None /\ m.calls.at = x THEN Ref(b) ELSE m.calls
<1> DEFINE S == {a \in Nmethods(z) : z.code[a].calls # None /\ z.code[a].calls.at = x}
           c == [a \in Addresses |-> IF a \in S THEN [z.code[a] EXCEPT !.calls = Ref(b)]
                                           ELSE z.code[a]]
           y == Forwarded(z, x, b)
<1>0. Ref(b) \in Link
  BY DEF Ref, Link
<1>1. y = WithCode(z, c)
  BY DEF WithCode, Updated, Forwarded
<1> HIDE DEF y
<1>2. S \in SUBSET Nmethods(z)
  OBVIOUS
<1>3. ASSUME NEW a \in S
      PROVE  /\ a \in Addresses /\ z.code[a] \in Nmethod
             /\ c[a] = [z.code[a] EXCEPT !.calls = Ref(b)]
  BY <1>2, Fields
<1>4. IsCode(c) /\ \A a \in Addresses \ S : c[a] = z.code[a]
  BY DEF IsCode
<1> HIDE DEF c
<1>5. ASSUME NEW a \in S
      PROVE  LET m == z.code[a] n == c[a] IN
             /\ n \in Nmethod
             /\ n.key = m.key /\ n.zombie = m.zombie /\ n.invalid = m.invalid
             /\ n.chained = m.chained /\ n.old = m.old
             /\ n.calls = Ref(b)
  BY <1>3, <1>0 DEF Nmethod
<1>6. SameBut(z, y) /\ y.code = c
  <2>1. \A a \in S : c[a] \in Nmethod
    BY <1>5
  <2> HIDE DEF S
  <2>2. QED  BY <1>1, <1>2, <1>4, <2>1, UpdateEffect DEF SameBut
<1>7. ASSUME NEW a \in Nmethods(z)
      PROVE  LET m == z.code[a] n == c[a] IN
             /\ n.key = m.key /\ n.zombie = m.zombie /\ n.invalid = m.invalid
             /\ n.chained = m.chained /\ n.old = m.old
             /\ n.calls = IF m.calls # None /\ m.calls.at = x THEN Ref(b) ELSE m.calls
  <2>1. CASE a \in S
    BY <1>5, <2>1
  <2>2. CASE a \notin S
    BY <1>4, <2>2, Fields
  <2>3. QED  BY <2>1, <2>2
<1>8. QED  BY <1>6, <1>7 DEF y

\* The entries of the code table for the nmethods of A are removed.
LEMMA RemovedEffect ==
  ASSUME NEW z \in ZoneType, NEW A
  PROVE  LET y == removeFromCodeTable(z, A) IN
         /\ y \in ZoneType
         /\ y.code = z.code /\ y.frames = z.frames /\ y.routes = z.routes
         /\ Nmethods(y) = Nmethods(z)
         /\ \A k \in Keys : y.table[k] = IF z.table[k] \in A THEN None ELSE z.table[k]
<1> DEFINE t == [k \in Keys |-> IF z.table[k] \in A THEN None ELSE z.table[k]]
           y == removeFromCodeTable(z, A)
<1>1. t \in [Keys -> Addresses \cup {None}]
  BY Fields
<1> HIDE DEF t
<1>2. y = [z EXCEPT !.table = t]
  BY DEF removeFromCodeTable, t
<1>3. y \in ZoneType /\ y.code = z.code /\ y.frames = z.frames /\ y.routes = z.routes /\ y.table = t
  BY <1>1, <1>2 DEF ZoneType
<1>4. QED  BY <1>3 DEF Nmethods, t

\* What unlink and makeZombie have in common: the nmethods of A are out of
\* the code table.
OutOfTable(z, y, A) ==
  /\ y \in ZoneType
  /\ y.routes = z.routes /\ y.frames = z.frames
  /\ Nmethods(y) = Nmethods(z)
  /\ \A k \in Keys : y.table[k] = IF z.table[k] \in A THEN None ELSE z.table[k]
  /\ \A a \in Nmethods(z) :
       LET m == z.code[a] n == y.code[a] IN
       n.key = m.key /\ n.invalid = m.invalid /\ n.old = m.old

\* unlink takes the nmethods of A out of every list.
LEMMA UnlinkEffect ==
  ASSUME NEW z \in ZoneType, NEW A \in SUBSET Nmethods(z)
  PROVE  LET y == unlink(z, A) IN
         /\ OutOfTable(z, y, A)
         /\ \A a \in Nmethods(z) :
              LET m == z.code[a] n == y.code[a] IN
              /\ n.zombie = m.zombie
              /\ n.chained <=> m.chained /\ a \notin A
              /\ n.calls = IF m.calls # None /\ m.calls.at \in A THEN None ELSE m.calls
<1> DEFINE x == removeFromCodeTable(z, A)
           w == remove_me_from_inline_cache(x, A)
           y == unlink(z, A)
<1>1. /\ x \in ZoneType /\ A \in SUBSET Nmethods(x)
      /\ x.code = z.code /\ x.frames = z.frames /\ x.routes = z.routes
      /\ Nmethods(x) = Nmethods(z)
      /\ \A k \in Keys : x.table[k] = IF z.table[k] \in A THEN None ELSE z.table[k]
  BY RemovedEffect
<1> HIDE DEF x
<1>2. /\ SameBut(x, w)
      /\ \A a \in Nmethods(z) :
           LET m == z.code[a] n == w.code[a] IN
           /\ n.key = m.key /\ n.zombie = m.zombie /\ n.invalid = m.invalid
           /\ n.chained = m.chained /\ n.old = m.old
           /\ n.calls = IF m.calls # None /\ m.calls.at \in A THEN None ELSE m.calls
  BY <1>1, UncalledEffect
<1>3. w \in ZoneType /\ A \in SUBSET Nmethods(w)
  BY <1>1, <1>2 DEF SameBut
<1>4. y = Off(w, A)
  BY DEF unlink, Off, x
<1> HIDE DEF w, y
<1>5. /\ SameBut(w, y)
      /\ \A a \in Nmethods(w) :
           LET m == w.code[a] n == y.code[a] IN
           /\ n.key = m.key /\ n.calls = m.calls /\ n.zombie = m.zombie
           /\ n.invalid = m.invalid /\ n.old = m.old
           /\ n.chained <=> m.chained /\ a \notin A
  BY <1>3, <1>4, OffEffect
<1>6. OutOfTable(z, y, A)
  BY <1>1, <1>2, <1>5 DEF SameBut, OutOfTable
<1>7. QED  BY <1>1, <1>2, <1>5, <1>6 DEF SameBut, y

\* makeZombie without unlinking, and with.
LEMMA ZombieEffect ==
  ASSUME NEW z \in ZoneType, NEW A \in SUBSET Nmethods(z)
  PROVE  LET new == {a \in A : ~z.code[a].zombie}
             y == makeZombie(z, A, FALSE)
         IN
         /\ OutOfTable(z, y, new)
         /\ \A a \in Nmethods(z) :
              LET m == z.code[a] n == y.code[a] IN
              /\ n.calls = m.calls /\ n.chained = m.chained
              /\ n.zombie <=> m.zombie \/ a \in A
<1> DEFINE new == {a \in A : ~z.code[a].zombie}
           x == removeFromCodeTable(z, new)
           y == makeZombie(z, A, FALSE)
<1>1. /\ x \in ZoneType /\ new \in SUBSET Nmethods(x)
      /\ x.code = z.code /\ x.frames = z.frames /\ x.routes = z.routes
      /\ Nmethods(x) = Nmethods(z)
      /\ \A k \in Keys : x.table[k] = IF z.table[k] \in new THEN None ELSE z.table[k]
  BY RemovedEffect
<1>2. y = Zombified(x, new)
  BY DEF makeZombie, Zombified
<1> HIDE DEF x, y
<1>3. /\ SameBut(x, y)
      /\ \A a \in Nmethods(z) :
           LET m == z.code[a] n == y.code[a] IN
           /\ n.key = m.key /\ n.calls = m.calls /\ n.invalid = m.invalid
           /\ n.chained = m.chained /\ n.old = m.old
           /\ n.zombie <=> m.zombie \/ a \in new
  <2> HIDE DEF new
  <2>1. QED  BY <1>1, <1>2, ZombifiedEffect
<1>4. OutOfTable(z, y, new)
  BY <1>1, <1>3 DEF SameBut, OutOfTable
<1>5. QED  BY <1>3, <1>4 DEF y

LEMMA UnlinkedZombieEffect ==
  ASSUME NEW z \in ZoneType, NEW A \in SUBSET Nmethods(z)
  PROVE  LET new == {a \in A : ~z.code[a].zombie}
             y == makeZombie(z, A, TRUE)
         IN
         /\ OutOfTable(z, y, new)
         /\ \A a \in Nmethods(z) :
              LET m == z.code[a] n == y.code[a] IN
              /\ n.calls = IF m.calls # None /\ m.calls.at \in new THEN None ELSE m.calls
              /\ n.chained <=> m.chained /\ a \notin new
              /\ n.zombie <=> m.zombie \/ a \in A
<1> DEFINE new == {a \in A : ~z.code[a].zombie}
           x == unlink(z, new)
           y == makeZombie(z, A, TRUE)
<1>1. /\ OutOfTable(z, x, new) /\ new \in SUBSET Nmethods(z)
      /\ \A a \in Nmethods(z) :
           LET m == z.code[a] n == x.code[a] IN
           /\ n.zombie = m.zombie
           /\ n.chained <=> m.chained /\ a \notin new
           /\ n.calls = IF m.calls # None /\ m.calls.at \in new THEN None ELSE m.calls
  <2>1. new \in SUBSET Nmethods(z)
    OBVIOUS
  <2> HIDE DEF new
  <2>2. QED  BY <2>1, UnlinkEffect
<1>2. y = Zombified(x, new)
  BY DEF makeZombie, Zombified
<1> HIDE DEF x, y
<1>3. /\ SameBut(x, y)
      /\ \A a \in Nmethods(x) :
           LET m == x.code[a] n == y.code[a] IN
           /\ n.key = m.key /\ n.calls = m.calls /\ n.invalid = m.invalid
           /\ n.chained = m.chained /\ n.old = m.old
           /\ n.zombie <=> m.zombie \/ a \in new
  <2>1. x \in ZoneType /\ new \in SUBSET Nmethods(x)
    BY <1>1 DEF OutOfTable
  <2> HIDE DEF new
  <2>2. QED  BY <1>2, <2>1, ZombifiedEffect
<1>4. OutOfTable(z, y, new)
  BY <1>1, <1>3 DEF SameBut, OutOfTable
<1>5. ASSUME NEW a \in Nmethods(z)
      PROVE  LET m == z.code[a] n == y.code[a] IN
             /\ n.calls = IF m.calls # None /\ m.calls.at \in new THEN None ELSE m.calls
             /\ n.chained <=> m.chained /\ a \notin new
             /\ n.zombie <=> m.zombie \/ a \in A
  <2>1. a \in Nmethods(x)
    BY <1>1 DEF OutOfTable
  <2>2. z.code[a].zombie \/ a \in new <=> z.code[a].zombie \/ a \in A
    OBVIOUS
  <2> HIDE DEF new
  <2>3. QED  BY <1>1, <1>3, <2>1, <2>2
<1>6. QED  BY <1>4, <1>5 DEF y

\* The nmethods of A are freed, when nothing refers to them.
LEMMA FreeEffect ==
  ASSUME NEW z \in ZoneType, NEW A \in SUBSET Nmethods(z),
         \A a \in Nmethods(z) : z.code[a].calls = None \/ z.code[a].calls.is \notin A,
         \A k \in Keys : z.routes[k] = None \/ z.routes[k].is \notin A,
         \A f \in z.frames : f.is \notin A
  PROVE  LET y == Free(z, A) IN
         /\ y \in ZoneType
         /\ y.table = z.table /\ y.routes = z.routes /\ y.frames = z.frames
         /\ Nmethods(y) = Nmethods(z) \ A
         /\ \A a \in Nmethods(y) : y.code[a] = z.code[a]
<1>1. Forget(z, A) = z
  <2>1. [k \in Keys |-> Lost(z.routes[k], A)] = z.routes
    BY Fields DEF Lost
  <2>2. {Lost(f, A) : f \in z.frames} = z.frames
    BY DEF Lost
  <2>3. Updated(z, Nmethods(z), LAMBDA n : [n EXCEPT !.calls = Lost(@, A)]) = z.code
    <3>1. ASSUME NEW a \in Nmethods(z)
          PROVE  [z.code[a] EXCEPT !.calls = Lost(@, A)] = z.code[a]
      <4>1. Lost(z.code[a].calls, A) = z.code[a].calls
        BY DEF Lost
      <4>2. z.code[a] \in Nmethod
        BY Fields
      <4>3. QED  BY <4>1, <4>2 DEF Nmethod
    <3>2. QED  BY <3>1, Fields DEF Updated
  <2>4. [z EXCEPT !.code = z.code, !.routes = z.routes, !.frames = z.frames] = z
    BY DEF ZoneType
  <2>5. QED  BY <2>1, <2>2, <2>3, <2>4 DEF Forget
<1> DEFINE c == [a \in Addresses |-> IF a \in A THEN None ELSE z.code[a]]
           y == Free(z, A)
<1>2. y = WithCode(z, c)
  BY <1>1 DEF Free, WithCode, Updated
<1>3. c \in [Addresses -> Nmethod \cup {None}]
  BY Fields
<1>4. \A a \in Addresses : c[a] = IF a \in A THEN None ELSE z.code[a]
  OBVIOUS
<1> HIDE DEF c, y
<1>5. /\ y \in ZoneType /\ y.code = c
      /\ y.table = z.table /\ y.routes = z.routes /\ y.frames = z.frames
  BY <1>2, <1>3 DEF ZoneType, WithCode
<1>6. Nmethods(y) = Nmethods(z) \ A
  BY <1>4, <1>5 DEF Nmethods
<1>7. \A a \in Nmethods(y) : y.code[a] = z.code[a]
  BY <1>4, <1>5 DEF Nmethods
<1>8. QED  BY <1>5, <1>6, <1>7 DEF y

-----------------------------------------------------------------------------
(* The operations that remove nmethods keep the zone in order.             *)

\* What a zone has lost is no more than nmethods and entries of the table.
Shrunk(z, y) ==
  /\ y.frames = z.frames
  /\ Nmethods(y) \subseteq Nmethods(z)
  /\ \A a \in Nmethods(y) : y.code[a].key = z.code[a].key
  /\ \A k \in Keys : z.table[k] = None => y.table[k] = None

\* A flush frees what is not active and makes zombies of the rest.
LEMMA FlushKeeps ==
  ASSUME NEW z, NEW E, ZoneOK(z, E), NEW A \in SUBSET Nmethods(z)
  PROVE  LET y == flush(z, A) IN
         /\ ZoneOK(y, E \ A) /\ Shrunk(z, y)
         /\ Nmethods(y) = Nmethods(z) \ (A \cap Inactive(z))
<1> DEFINE gone == A \cap Inactive(z)
           kept == A \ gone
           r == NewGeneration(z, A)
           b == [z EXCEPT !.routes = r]
           m == makeZombie(b, kept, FALSE)
           u == unlink(m, gone)
           y == flush(z, A)
           new == {a \in kept : ~b.code[a].zombie}
<1>0. /\ z \in ZoneType /\ FramesOK(z) /\ LinksOK(z) /\ ChainOK(z) /\ TableOK(z, E)
      /\ RoutesOK(z)
  BY DEF ZoneOK
<1>1. /\ b \in ZoneType /\ b.code = z.code /\ b.table = z.table /\ b.frames = z.frames
      /\ b.routes = r /\ Nmethods(b) = Nmethods(z)
      /\ A = {} => r = z.routes
      /\ A # {} => \A k \in Keys : r[k] = None
  <2>1. r \in [Keys -> Link \cup {None}]
    BY <1>0, Fields DEF NewGeneration
  <2>2. (A = {} => r = z.routes) /\ (A # {} => \A k \in Keys : r[k] = None)
    BY DEF NewGeneration
  <2> HIDE DEF r
  <2>3. QED  BY <1>0, <2>1, <2>2 DEF ZoneType, Nmethods
<1>2. y = Free(u, gone)
  BY DEF flush
<1> HIDE DEF b, y, r
<1>3. kept \in SUBSET Nmethods(b) /\ gone \in SUBSET Nmethods(z) /\ new \in SUBSET kept
  BY <1>1 DEF Inactive
<1>4. /\ OutOfTable(b, m, new)
      /\ \A a \in Nmethods(b) :
           LET i == b.code[a] n == m.code[a] IN
           /\ n.calls = i.calls /\ n.chained = i.chained
           /\ n.zombie <=> i.zombie \/ a \in kept
  <2> HIDE DEF kept
  <2>1. QED  BY <1>1, <1>3, ZombieEffect
<1> HIDE DEF m
<1>5. m \in ZoneType /\ gone \in SUBSET Nmethods(m)
  BY <1>1, <1>3, <1>4 DEF OutOfTable
<1>6. /\ OutOfTable(m, u, gone)
      /\ \A a \in Nmethods(m) :
           LET i == m.code[a] n == u.code[a] IN
           /\ n.zombie = i.zombie
           /\ n.chained <=> i.chained /\ a \notin gone
           /\ n.calls = IF i.calls # None /\ i.calls.at \in gone THEN None ELSE i.calls
  <2> HIDE DEF gone
  <2>1. QED  BY <1>5, UnlinkEffect
<1> HIDE DEF u
\* What becomes of the nmethods.
<1>7. /\ u \in ZoneType /\ Nmethods(u) = Nmethods(z) /\ u.frames = z.frames /\ u.routes = r
      /\ \A a \in Nmethods(z) :
           LET i == z.code[a] n == u.code[a] IN
           /\ n.key = i.key /\ n.invalid = i.invalid /\ n.old = i.old
           /\ n.zombie <=> i.zombie \/ a \in kept
           /\ n.chained <=> i.chained /\ a \notin gone
           /\ n.calls = IF i.calls # None /\ i.calls.at \in gone THEN None ELSE i.calls
  <2> HIDE DEF kept, gone, new
  <2>1. QED  BY <1>1, <1>4, <1>6 DEF OutOfTable
<1>8. \A k \in Keys : u.table[k] = IF z.table[k] \in new \cup gone THEN None ELSE z.table[k]
  <2>1. \A k \in Keys : m.table[k] = IF z.table[k] \in new THEN None ELSE z.table[k]
    BY <1>1, <1>4 DEF OutOfTable
  <2>2. \A k \in Keys : u.table[k] = IF m.table[k] \in gone THEN None ELSE m.table[k]
    BY <1>6 DEF OutOfTable
  <2>3. None \notin gone
    BY <1>3, Nones DEF Nmethods
  <2> HIDE DEF new, gone
  <2>4. QED  BY <2>1, <2>2, <2>3
<1>9. \A k \in Keys : u.table[k] = IF z.table[k] \in A THEN None ELSE z.table[k]
  <2>1. ASSUME NEW k \in Keys, z.table[k] \in A  PROVE  ~z.code[z.table[k]].zombie
    BY <1>0, <2>1 DEF TableOK, Found, Nmethods
  <2>2. \A k \in Keys : z.table[k] \in A <=> z.table[k] \in new \cup gone
    BY <1>1, <2>1
  <2>3. QED  BY <1>8, <2>2
\* Nothing refers to what is freed.
<1>10. \A f \in z.frames : f.is = f.at /\ f.at \in Nmethods(z) /\ f.at \notin gone
  BY <1>0 DEF FramesOK, Meets, Inactive, Active
<1>11. \A a \in Nmethods(z) : z.code[a].calls # None =>
         z.code[a].calls.is = z.code[a].calls.at
  BY <1>0 DEF LinksOK, Meets
<1>12. /\ y \in ZoneType
       /\ y.table = u.table /\ y.routes = u.routes /\ y.frames = u.frames
       /\ Nmethods(y) = Nmethods(u) \ gone
       /\ \A a \in Nmethods(y) : y.code[a] = u.code[a]
  <2>1. \A k \in Keys : u.routes[k] = None \/ u.routes[k].is \notin gone
    <3>1. CASE A = {}
      BY <3>1
    <3>2. CASE A # {}
      BY <1>1, <1>7, <3>2
    <3>3. QED  BY <3>1, <3>2
  <2>2. \A a \in Nmethods(u) : u.code[a].calls = None \/ u.code[a].calls.is \notin gone
    <3> HIDE DEF gone, kept
    <3>1. QED  BY <1>7, <1>11
  <2>3. \A f \in u.frames : f.is \notin gone
    BY <1>7, <1>10
  <2>4. gone \in SUBSET Nmethods(u)
    BY <1>3, <1>7
  <2> HIDE DEF gone
  <2>5. QED  BY <1>2, <1>7, <2>1, <2>2, <2>3, <2>4, FreeEffect
<1>13. /\ y \in ZoneType /\ y.frames = z.frames /\ y.routes = r
       /\ Nmethods(y) = Nmethods(z) \ gone
       /\ \A k \in Keys : y.table[k] = IF z.table[k] \in A THEN None ELSE z.table[k]
       /\ \A a \in Nmethods(y) :
           LET i == z.code[a] n == y.code[a] IN
           /\ n.key = i.key /\ n.invalid = i.invalid /\ n.old = i.old
           /\ n.zombie <=> i.zombie \/ a \in A
           /\ n.chained <=> i.chained
           /\ n.calls = IF i.calls # None /\ i.calls.at \in gone THEN None ELSE i.calls
  <2>1. \A a \in Nmethods(y) : a \in Nmethods(z) /\ a \notin gone /\ (a \in kept <=> a \in A)
    BY <1>7, <1>12
  <2> HIDE DEF gone, kept
  <2>2. QED  BY <1>7, <1>9, <1>12, <2>1
<1>14. FramesOK(y)
  BY <1>0, <1>10, <1>13 DEF FramesOK
<1>15. LinksOK(y)
  <2> SUFFICES ASSUME NEW a \in Nmethods(y), y.code[a].calls # None
               PROVE  LET n == y.code[a] IN
                      /\ Meets(n.calls) /\ n.calls.at \in Nmethods(y)
                      /\ y.code[n.calls.at].key = Sends[n.key] /\ y.code[n.calls.at].chained
    BY DEF LinksOK
  <2> HIDE DEF gone
  <2>1. /\ a \in Nmethods(z) /\ z.code[a].calls # None /\ y.code[a].calls = z.code[a].calls
        /\ z.code[a].calls.at \notin gone
    BY <1>13
  <2>2. /\ Meets(z.code[a].calls) /\ z.code[a].calls.at \in Nmethods(z)
        /\ z.code[z.code[a].calls.at].key = Sends[z.code[a].key]
        /\ z.code[z.code[a].calls.at].chained
    BY <1>0, <2>1 DEF LinksOK
  <2>3. QED  BY <1>13, <2>1, <2>2
<1>16. ChainOK(y)
  BY <1>0, <1>13 DEF ChainOK
<1>17. TableOK(y, E \ A)
  <2> SUFFICES ASSUME NEW k \in Keys, NEW a \in Addresses
               PROVE  y.table[k] = a <=> a \in Nmethods(y) \ (E \ A) /\ Found(y.code[a], k)
    BY DEF TableOK
  <2>1. z.table[k] = a <=> a \in Nmethods(z) \ E /\ Found(z.code[a], k)
    BY <1>0 DEF TableOK
  <2>2. CASE a \in A
    BY <1>13, <2>1, <2>2, Nones DEF Found
  <2>3. CASE a \notin A
    <3>1. a \in Nmethods(y) <=> a \in Nmethods(z)
      BY <1>13, <2>3
    <3>2. a \in Nmethods(y) => (Found(y.code[a], k) <=> Found(z.code[a], k))
      BY <1>13, <2>3 DEF Found
    <3>3. y.table[k] = a <=> z.table[k] = a
      BY <1>13, <2>3, Nones
    <3>4. QED  BY <2>1, <2>3, <3>1, <3>2, <3>3
  <2>4. QED  BY <2>2, <2>3
<1>18. RoutesOK(y)
  <2>1. CASE A = {}
    BY <1>0, <1>1, <1>13, <2>1 DEF RoutesOK
  <2>2. CASE A # {}
    BY <1>1, <1>13, <2>2 DEF RoutesOK
  <2>3. QED  BY <2>1, <2>2
<1>19. Shrunk(z, y)
  BY <1>13 DEF Shrunk
<1>20. QED  BY <1>13, <1>14, <1>15, <1>16, <1>17, <1>18, <1>19 DEF ZoneOK, y

LEMMA ShrunkMore ==
  ASSUME NEW x, NEW y, NEW z, Shrunk(x, y), Shrunk(y, z)
  PROVE  Shrunk(x, z)
BY DEF Shrunk

LEMMA UnlistedKeeps ==
  ASSUME NEW z, NEW E, ZoneOK(z, E), NEW A \in SUBSET Nmethods(z)
  PROVE  LET y == Unlisted(z, A) IN
         ZoneOK(y, E) /\ Shrunk(z, y) /\ Nmethods(y) = Nmethods(z)
<1> DEFINE y == Unlisted(z, A)
<1>0. z \in ZoneType
  BY DEF ZoneOK
<1>1. /\ SameBut(z, y)
      /\ \A a \in Nmethods(z) :
           LET m == z.code[a] n == y.code[a] IN
           /\ n.key = m.key /\ n.calls = m.calls /\ n.zombie = m.zombie
           /\ n.invalid = m.invalid /\ n.chained = m.chained /\ n.old = m.old
  BY <1>0, UnlistedEffect
<1> HIDE DEF y
<1>2. y \in ZoneType /\ FramesOK(y) /\ RoutesOK(y) /\ ChainOK(y)
  BY <1>1 DEF SameBut, ZoneOK, FramesOK, RoutesOK, ChainOK
<1>3. LinksOK(y)
  <2> SUFFICES ASSUME NEW a \in Nmethods(y), y.code[a].calls # None
               PROVE  LET n == y.code[a] IN
                      /\ Meets(n.calls) /\ n.calls.at \in Nmethods(y)
                      /\ y.code[n.calls.at].key = Sends[n.key] /\ y.code[n.calls.at].chained
    BY DEF LinksOK
  <2>1. /\ a \in Nmethods(z) /\ z.code[a].calls # None /\ y.code[a].calls = z.code[a].calls
    BY <1>1 DEF SameBut
  <2>2. /\ Meets(z.code[a].calls) /\ z.code[a].calls.at \in Nmethods(z)
        /\ z.code[z.code[a].calls.at].key = Sends[z.code[a].key]
        /\ z.code[z.code[a].calls.at].chained
    BY <2>1 DEF LinksOK, ZoneOK
  <2>3. QED  BY <1>1, <2>1, <2>2 DEF SameBut
<1>4. TableOK(y, E)
  BY <1>1 DEF SameBut, ZoneOK, TableOK, Found
<1>5. Shrunk(z, y)
  BY <1>1 DEF SameBut, Shrunk
<1>6. QED  BY <1>1, <1>2, <1>3, <1>4, <1>5 DEF ZoneOK, SameBut, y

\* The nmethods of E are active.
InUse(z, E) == \A a \in E : Active(z, a)

LEMMA InUseStays ==
  ASSUME NEW y, NEW z, NEW E, InUse(z, E), Shrunk(z, y)
  PROVE  InUse(y, E)
BY DEF InUse, Active, Shrunk

LEMMA InactiveFlushKeeps ==
  ASSUME NEW z, NEW E, ZoneOK(z, E), InUse(z, E), NEW A \in SUBSET Inactive(z)
  PROVE  LET y == flush(z, A) IN
         ZoneOK(y, E) /\ Shrunk(z, y) /\ Nmethods(y) = Nmethods(z) \ A
<1>1. A \in SUBSET Nmethods(z) /\ E \ A = E /\ A \cap Inactive(z) = A
  BY DEF Inactive, InUse
<1>2. QED  BY <1>1, FlushKeeps

LEMMA SweeperKeeps ==
  ASSUME NEW z, NEW E, ZoneOK(z, E), InUse(z, E), NEW V \in SUBSET Nmethods(z)
  PROVE  LET y == sweeper(z, V) IN
         /\ ZoneOK(y, E) /\ Shrunk(z, y)
         /\ V \cap Inactive(z) = {} => Nmethods(y) = Nmethods(z)
<1> DEFINE dead == {a \in V \cap Inactive(z) : Unreachable(z, a)}
           used == V \ Inactive(z)
           swept == flush(z, dead)
           y == sweeper(z, V)
<1>1. dead \in SUBSET Inactive(z) /\ used \in SUBSET Nmethods(z) /\ used \cap dead = {}
  OBVIOUS
<1>2. y = Unlisted(swept, used)
  BY DEF sweeper, Unlisted
<1>3. ZoneOK(swept, E) /\ Shrunk(z, swept) /\ Nmethods(swept) = Nmethods(z) \ dead
  <2> HIDE DEF dead
  <2>1. QED  BY <1>1, InactiveFlushKeeps
<1>4. used \in SUBSET Nmethods(swept)
  BY <1>1, <1>3
<1> HIDE DEF y, swept, used
<1>5. ZoneOK(y, E) /\ Shrunk(swept, y) /\ Nmethods(y) = Nmethods(swept)
  BY <1>2, <1>3, <1>4, UnlistedKeeps
<1>6. Shrunk(z, y)
  BY <1>3, <1>5, ShrunkMore
<1>7. V \cap Inactive(z) = {} => Nmethods(y) = Nmethods(z)
  BY <1>3, <1>5
<1>8. QED  BY <1>5, <1>6, <1>7 DEF y

LEMMA SweepsKeep ==
  ASSUME NEW z, NEW E, ZoneOK(z, E), InUse(z, E), NEW y \in Sweeps(z)
  PROVE  ZoneOK(y, E) /\ Shrunk(z, y)
<1>1. PICK V \in SUBSET Nmethods(z) : y = sweeper(z, V)
  BY DEF Sweeps, SweepChanges
<1>2. QED  BY <1>1, SweeperKeeps

LEMMA FlushZombiesKeeps ==
  ASSUME NEW z, NEW E, ZoneOK(z, E), InUse(z, E)
  PROVE  ZoneOK(flushZombies(z), E) /\ Shrunk(z, flushZombies(z))
<1>1. Zombies(z) \cap Inactive(z) \in SUBSET Inactive(z)
  OBVIOUS
<1>2. QED  BY <1>1, InactiveFlushKeeps DEF flushZombies

LEMMA ReclaimsKeep ==
  ASSUME NEW z, NEW E, ZoneOK(z, E), InUse(z, E), NEW y \in Reclaims(z)
  PROVE  ZoneOK(y, E) /\ Shrunk(z, y)
<1>1. PICK V \in SUBSET (Zombies(z) \ Inactive(z)), W \in SUBSET Inactive(z) :
        y = flush(sweeper(z, V), W)
  BY DEF Reclaims
<1> DEFINE x == sweeper(z, V)
<1>2. V \in SUBSET Nmethods(z) /\ V \cap Inactive(z) = {}
  BY DEF Zombies
<1>3. ZoneOK(x, E) /\ Shrunk(z, x) /\ Nmethods(x) = Nmethods(z)
  BY <1>2, SweeperKeeps
<1> HIDE DEF x
<1>4. W \in SUBSET Inactive(x)
  BY <1>3 DEF Inactive, Active, Shrunk
<1>5. InUse(x, E)
  BY <1>3, InUseStays
<1>6. y = flush(x, W)
  BY <1>1 DEF x
<1>7. ZoneOK(y, E) /\ Shrunk(x, y)
  BY <1>3, <1>4, <1>5, <1>6, InactiveFlushKeeps
<1>8. QED  BY <1>3, <1>7, ShrunkMore

LEMMA AfterReclaimKeeps ==
  ASSUME NEW z, NEW E, ZoneOK(z, E), InUse(z, E), NEW y \in AfterReclaim(z)
  PROVE  ZoneOK(y, E) /\ Shrunk(z, y)
<1>1. ZoneOK(flushZombies(z), E) /\ Shrunk(z, flushZombies(z))
  BY FlushZombiesKeeps
<1>2. InUse(flushZombies(z), E)
  BY <1>1, InUseStays
<1>3. ZoneOK(y, E) /\ Shrunk(flushZombies(z), y)
  BY <1>1, <1>2, ReclaimsKeep DEF AfterReclaim
<1>4. QED  BY <1>1, <1>3, ShrunkMore

\* An allocation may sweep, flush and reclaim, and loses nothing in use.
LEMMA AllocKeeps ==
  ASSUME NEW z, NEW E, ZoneOK(z, E), InUse(z, E), NEW y \in AfterAlloc(z)
  PROVE  ZoneOK(y, E) /\ Shrunk(z, y)
BY SweepsKeep, AfterReclaimKeeps DEF AfterAlloc

\* _Flush and _FlushUnused.
LEMMA ZombiesKeep ==
  ASSUME NEW z, ZoneOK(z, {}), NEW A \in SUBSET Nmethods(z)
  PROVE  ZoneOK(makeZombie(z, A, TRUE), {})
<1> DEFINE new == {a \in A : ~z.code[a].zombie}
           y == makeZombie(z, A, TRUE)
<1>0. /\ z \in ZoneType /\ FramesOK(z) /\ LinksOK(z) /\ ChainOK(z) /\ TableOK(z, {})
      /\ RoutesOK(z)
  BY DEF ZoneOK
<1>1. /\ OutOfTable(z, y, new)
      /\ \A a \in Nmethods(z) :
           LET m == z.code[a] n == y.code[a] IN
           /\ n.calls = IF m.calls # None /\ m.calls.at \in new THEN None ELSE m.calls
           /\ n.chained <=> m.chained /\ a \notin new
           /\ n.zombie <=> m.zombie \/ a \in A
  BY <1>0, UnlinkedZombieEffect
<1>2. new \subseteq A /\ \A a \in A \ new : z.code[a].zombie
  OBVIOUS
<1> HIDE DEF new, y
<1>3. y \in ZoneType /\ FramesOK(y) /\ RoutesOK(y)
  BY <1>0, <1>1 DEF OutOfTable, FramesOK, RoutesOK
<1>4. ChainOK(y)
  BY <1>0, <1>1, <1>2 DEF OutOfTable, ChainOK
<1>5. LinksOK(y)
  <2> SUFFICES ASSUME NEW a \in Nmethods(y), y.code[a].calls # None
               PROVE  LET n == y.code[a] IN
                      /\ Meets(n.calls) /\ n.calls.at \in Nmethods(y)
                      /\ y.code[n.calls.at].key = Sends[n.key] /\ y.code[n.calls.at].chained
    BY DEF LinksOK
  <2>1. /\ a \in Nmethods(z) /\ z.code[a].calls # None /\ y.code[a].calls = z.code[a].calls
        /\ z.code[a].calls.at \notin new
    BY <1>1 DEF OutOfTable
  <2>2. /\ Meets(z.code[a].calls) /\ z.code[a].calls.at \in Nmethods(z)
        /\ z.code[z.code[a].calls.at].key = Sends[z.code[a].key]
        /\ z.code[z.code[a].calls.at].chained
    BY <1>0, <2>1 DEF LinksOK
  <2>3. QED  BY <1>1, <2>1, <2>2 DEF OutOfTable
<1>6. TableOK(y, {})
  <2> SUFFICES ASSUME NEW k \in Keys, NEW a \in Addresses
               PROVE  y.table[k] = a <=> a \in Nmethods(y) \ {} /\ Found(y.code[a], k)
    BY DEF TableOK
  <2>1. z.table[k] = a <=> a \in Nmethods(z) /\ Found(z.code[a], k)
    BY <1>0 DEF TableOK
  <2>2. y.table[k] = a <=> z.table[k] = a /\ a \notin new
    BY <1>1, Nones DEF OutOfTable
  <2>3. QED  BY <1>1, <1>2, <2>1, <2>2 DEF OutOfTable, Found
<1>7. QED  BY <1>3, <1>4, <1>5, <1>6 DEF ZoneOK, y

-----------------------------------------------------------------------------
(* The operations that add nmethods and references to them do so, too.     *)

\* The send of the nmethod at b is linked to x.
LEMMA LinkedEffect ==
  ASSUME NEW z \in ZoneType, NEW b \in Nmethods(z), NEW x \in Addresses
  PROVE  LET y == Linked(z, b, x) IN
         /\ SameBut(z, y)
         /\ \A a \in Nmethods(z) :
              LET m == z.code[a] n == y.code[a] IN
              /\ n.key = m.key /\ n.zombie = m.zombie /\ n.invalid = m.invalid
              /\ n.chained = m.chained /\ n.old = m.old
              /\ n.calls = IF a = b THEN Ref(x) ELSE m.calls
<1> DEFINE S == {b}
           c == [a \in Addresses |-> IF a \in S THEN [z.code[a] EXCEPT !.calls = Ref(x)]
                                           ELSE z.code[a]]
           y == Linked(z, b, x)
<1>0. Ref(x) \in Link
  BY DEF Ref, Link
<1>1. y = WithCode(z, c)
  BY Fields DEF WithCode, Linked
<1> HIDE DEF y
<1>2. S \in SUBSET Nmethods(z)
  OBVIOUS
<1>3. ASSUME NEW a \in S
      PROVE  /\ a \in Addresses /\ z.code[a] \in Nmethod
             /\ c[a] = [z.code[a] EXCEPT !.calls = Ref(x)]
  BY <1>2, Fields
<1>4. IsCode(c) /\ \A a \in Addresses \ S : c[a] = z.code[a]
  BY DEF IsCode
<1> HIDE DEF c
<1>5. ASSUME NEW a \in S
      PROVE  LET m == z.code[a] n == c[a] IN
             /\ n \in Nmethod
             /\ n.key = m.key /\ n.zombie = m.zombie /\ n.invalid = m.invalid
             /\ n.chained = m.chained /\ n.old = m.old
             /\ n.calls = Ref(x)
  BY <1>0, <1>3 DEF Nmethod
<1>6. SameBut(z, y) /\ y.code = c
  <2>1. \A a \in S : c[a] \in Nmethod
    BY <1>5
  <2> HIDE DEF S
  <2>2. QED  BY <1>1, <1>2, <1>4, <2>1, UpdateEffect DEF SameBut
<1>7. ASSUME NEW a \in Nmethods(z)
      PROVE  LET m == z.code[a] n == c[a] IN
             /\ n.key = m.key /\ n.zombie = m.zombie /\ n.invalid = m.invalid
             /\ n.chained = m.chained /\ n.old = m.old
             /\ n.calls = IF a = b THEN Ref(x) ELSE m.calls
  <2>1. CASE a \in S
    BY <1>5, <2>1
  <2>2. CASE a \notin S
    BY <1>4, <2>2, Fields
  <2>3. QED  BY <2>1, <2>2
<1>8. QED  BY <1>6, <1>7 DEF y

\* Links are changed to b, for those whose sends find it.
LEMMA RelinkKeeps ==
  ASSUME NEW z, NEW E, ZoneOK(z, E), NEW b \in Nmethods(z), z.code[b].chained,
         NEW y, SameBut(z, y),
         \A a \in Nmethods(z) :
           LET m == z.code[a] n == y.code[a] IN
           /\ n.key = m.key /\ n.zombie = m.zombie /\ n.invalid = m.invalid
           /\ n.chained = m.chained /\ n.old = m.old
           /\ \/ n.calls = m.calls
              \/ n.calls = Ref(b) /\ z.code[b].key = Sends[m.key]
  PROVE  ZoneOK(y, E)
<1>1. y \in ZoneType /\ FramesOK(y) /\ RoutesOK(y) /\ ChainOK(y)
  BY DEF SameBut, ZoneOK, FramesOK, RoutesOK, ChainOK
<1>2. LinksOK(y)
  <2> SUFFICES ASSUME NEW a \in Nmethods(y), y.code[a].calls # None
               PROVE  LET n == y.code[a] IN
                      /\ Meets(n.calls) /\ n.calls.at \in Nmethods(y)
                      /\ y.code[n.calls.at].key = Sends[n.key] /\ y.code[n.calls.at].chained
    BY DEF LinksOK
  <2>1. a \in Nmethods(z) /\ y.code[a].key = z.code[a].key
    BY DEF SameBut
  <2>2. CASE y.code[a].calls = z.code[a].calls
    <3>1. /\ Meets(z.code[a].calls) /\ z.code[a].calls.at \in Nmethods(z)
          /\ z.code[z.code[a].calls.at].key = Sends[z.code[a].key]
          /\ z.code[z.code[a].calls.at].chained
      BY <2>1, <2>2 DEF LinksOK, ZoneOK
    <3>2. QED  BY <2>1, <2>2, <3>1 DEF SameBut
  <2>3. CASE y.code[a].calls = Ref(b) /\ z.code[b].key = Sends[z.code[a].key]
    BY <2>1, <2>3 DEF SameBut, Ref, Meets
  <2>4. QED  BY <2>1, <2>2, <2>3
<1>3. TableOK(y, E)
  BY DEF SameBut, ZoneOK, TableOK, Found
<1>4. QED  BY <1>1, <1>2, <1>3 DEF ZoneOK

LEMMA LinkedKeeps ==
  ASSUME NEW z, NEW E, ZoneOK(z, E), NEW a \in Nmethods(z), NEW b \in Nmethods(z),
         z.code[b].chained, z.code[b].key = Sends[z.code[a].key]
  PROVE  LET y == Linked(z, a, b) IN ZoneOK(y, E) /\ SameBut(z, y)
<1> DEFINE y == Linked(z, a, b)
<1>1. z \in ZoneType /\ b \in Addresses
  BY DEF ZoneOK, Nmethods
<1>2. /\ SameBut(z, y)
      /\ \A x \in Nmethods(z) :
           LET m == z.code[x] n == y.code[x] IN
           /\ n.key = m.key /\ n.zombie = m.zombie /\ n.invalid = m.invalid
           /\ n.chained = m.chained /\ n.old = m.old
           /\ n.calls = IF x = a THEN Ref(b) ELSE m.calls
  BY <1>1, LinkedEffect
<1> HIDE DEF y
<1>3. ASSUME NEW x \in Nmethods(z)
      PROVE  \/ y.code[x].calls = z.code[x].calls
             \/ y.code[x].calls = Ref(b) /\ z.code[b].key = Sends[z.code[x].key]
  BY <1>2
<1>4. ZoneOK(y, E)
  BY <1>2, <1>3, RelinkKeeps
<1>5. QED  BY <1>2, <1>4 DEF y

LEMMA ForwardedKeeps ==
  ASSUME NEW z, NEW E, ZoneOK(z, E), NEW a \in Nmethods(z), NEW b \in Nmethods(z),
         z.code[b].chained, z.code[b].key = z.code[a].key
  PROVE  LET y == Forwarded(z, a, b) IN ZoneOK(y, E) /\ SameBut(z, y)
<1> DEFINE y == Forwarded(z, a, b)
<1>1. z \in ZoneType /\ a \in Addresses /\ b \in Addresses
  BY DEF ZoneOK, Nmethods
<1>2. /\ SameBut(z, y)
      /\ \A x \in Nmethods(z) :
           LET m == z.code[x] n == y.code[x] IN
           /\ n.key = m.key /\ n.zombie = m.zombie /\ n.invalid = m.invalid
           /\ n.chained = m.chained /\ n.old = m.old
           /\ n.calls = IF m.calls # None /\ m.calls.at = a THEN Ref(b) ELSE m.calls
  BY <1>1, ForwardedEffect
<1> HIDE DEF y
<1>3. ASSUME NEW x \in Nmethods(z)
      PROVE  \/ y.code[x].calls = z.code[x].calls
             \/ y.code[x].calls = Ref(b) /\ z.code[b].key = Sends[z.code[x].key]
  BY <1>2 DEF ZoneOK, LinksOK
<1>4. ZoneOK(y, E)
  BY <1>2, <1>3, RelinkKeeps
<1>5. QED  BY <1>2, <1>4 DEF y

\* The activations, and the routes, are changed to others that are in order.
LEMMA FramesKeep ==
  ASSUME NEW z, NEW E, ZoneOK(z, E), NEW F \in SUBSET Frame,
         \A f \in F : Meets(f) /\ f.at \in Nmethods(z)
  PROVE  LET y == [z EXCEPT !.frames = F] IN
         /\ ZoneOK(y, E) /\ y.frames = F /\ y.code = z.code /\ Nmethods(y) = Nmethods(z)
<1> DEFINE y == [z EXCEPT !.frames = F]
<1>1. /\ y \in ZoneType /\ y.frames = F
      /\ y.code = z.code /\ y.table = z.table /\ y.routes = z.routes
  BY DEF ZoneOK, ZoneType
<1> HIDE DEF y
<1>2. Nmethods(y) = Nmethods(z)
  BY <1>1 DEF Nmethods
<1>3. ZoneOK(y, E)
  BY <1>1, <1>2 DEF ZoneOK, FramesOK, LinksOK, ChainOK, TableOK, RoutesOK
<1>4. QED  BY <1>1, <1>2, <1>3 DEF y

LEMMA RoutesKeep ==
  ASSUME NEW z, NEW E, ZoneOK(z, E), NEW R \in [Keys -> Link \cup {None}],
         \A k \in Keys : R[k] # None =>
           LET a == R[k].is IN
           a \in Nmethods(z) /\ z.code[a].key = k /\ ~z.code[a].old
  PROVE  LET y == [z EXCEPT !.routes = R] IN
         /\ ZoneOK(y, E) /\ y.frames = z.frames /\ Nmethods(y) = Nmethods(z)
<1> DEFINE y == [z EXCEPT !.routes = R]
<1>1. /\ y \in ZoneType /\ y.routes = R
      /\ y.code = z.code /\ y.table = z.table /\ y.frames = z.frames
  BY DEF ZoneOK, ZoneType
<1> HIDE DEF y
<1>2. Nmethods(y) = Nmethods(z)
  BY <1>1 DEF Nmethods
<1>3. RoutesOK(y)
  BY <1>1, <1>2 DEF RoutesOK
<1>4. ZoneOK(y, E)
  BY <1>1, <1>2, <1>3 DEF ZoneOK, FramesOK, LinksOK, ChainOK, TableOK
<1>5. QED  BY <1>1, <1>2, <1>4 DEF y

\* A new nmethod for k.
LEMMA CompiledKeeps ==
  ASSUME NEW z, NEW E, ZoneOK(z, E), InUse(z, E),
         NEW k \in Keys, z.table[k] = None, NEW b \in Addresses \ Nmethods(z)
  PROVE  LET y == Compiled(z, k, b) IN
         /\ ZoneOK(y, E)
         /\ y.frames = z.frames /\ Nmethods(y) = Nmethods(z) \cup {b}
         /\ y.code[b].key = k /\ y.code[b].chained
         /\ \A a \in Nmethods(z) : y.code[a] = z.code[a]
<1> DEFINE y == Compiled(z, k, b)
           n == NewNmethod(k)
<1>0. /\ z \in ZoneType /\ FramesOK(z) /\ LinksOK(z) /\ ChainOK(z) /\ TableOK(z, E)
      /\ RoutesOK(z)
  BY DEF ZoneOK
<1>1. /\ n \in Nmethod /\ n.key = k /\ n.calls = None /\ ~n.zombie /\ ~n.invalid
      /\ n.chained /\ ~n.old
  BY DEF NewNmethod, Nmethod
<1> HIDE DEF n
<1>2. y = [z EXCEPT !.code = [@ EXCEPT ![b] = n], !.table = [@ EXCEPT ![k] = b]]
  BY DEF Compiled, n
<1> HIDE DEF y
<1>3. /\ y \in ZoneType /\ y.frames = z.frames /\ y.routes = z.routes
      /\ y.code = [z.code EXCEPT ![b] = n] /\ y.table = [z.table EXCEPT ![k] = b]
  BY <1>0, <1>1, <1>2 DEF ZoneType
<1>4. /\ y.code[b] = n /\ \A a \in Addresses \ {b} : y.code[a] = z.code[a]
      /\ y.table[k] = b /\ \A j \in Keys \ {k} : y.table[j] = z.table[j]
  BY <1>0, <1>3, Fields
<1>5. /\ Nmethods(y) = Nmethods(z) \cup {b}
      /\ \A a \in Nmethods(z) : a # b /\ y.code[a] = z.code[a]
  BY <1>1, <1>4, Nones DEF Nmethods
<1>6. FramesOK(y) /\ RoutesOK(y) /\ ChainOK(y)
  BY <1>0, <1>1, <1>3, <1>4, <1>5 DEF FramesOK, RoutesOK, ChainOK
<1>7. LinksOK(y)
  <2> SUFFICES ASSUME NEW a \in Nmethods(y), y.code[a].calls # None
               PROVE  LET m == y.code[a] IN
                      /\ Meets(m.calls) /\ m.calls.at \in Nmethods(y)
                      /\ y.code[m.calls.at].key = Sends[m.key] /\ y.code[m.calls.at].chained
    BY DEF LinksOK
  <2>1. a \in Nmethods(z) /\ y.code[a] = z.code[a]
    BY <1>1, <1>4, <1>5
  <2>2. /\ Meets(z.code[a].calls) /\ z.code[a].calls.at \in Nmethods(z)
        /\ z.code[z.code[a].calls.at].key = Sends[z.code[a].key]
        /\ z.code[z.code[a].calls.at].chained
    BY <1>0, <2>1 DEF LinksOK
  <2>3. QED  BY <1>5, <2>1, <2>2
<1>8. E \subseteq Nmethods(z)
  BY <1>0 DEF InUse, Active, FramesOK
<1>9. TableOK(y, E)
  <2> SUFFICES ASSUME NEW j \in Keys, NEW a \in Addresses
               PROVE  y.table[j] = a <=> a \in Nmethods(y) \ E /\ Found(y.code[a], j)
    BY DEF TableOK
  <2>1. z.table[j] = a <=> a \in Nmethods(z) \ E /\ Found(z.code[a], j)
    BY <1>0 DEF TableOK
  <2>2. CASE a = b
    BY <1>1, <1>4, <1>5, <1>8, <2>1, <2>2 DEF Found
  <2>3. CASE a # b
    BY <1>4, <1>5, <2>1, <2>3, Nones
  <2>4. QED  BY <2>2, <2>3
<1>10. QED  BY <1>1, <1>3, <1>4, <1>5, <1>6, <1>7, <1>9 DEF ZoneOK, y

\* The same, when room is found for it.
LEMMA AllocCompiledKeeps ==
  ASSUME NEW z, NEW E, ZoneOK(z, E), InUse(z, E), NEW k \in Keys, z.table[k] = None,
         NEW x \in AfterAlloc(z), NEW b \in Addresses \ Nmethods(x)
  PROVE  LET y == Compiled(x, k, b) IN
         /\ ZoneOK(y, E)
         /\ y.frames = z.frames
         /\ b \in Nmethods(y) /\ y.code[b].key = k /\ y.code[b].chained
         /\ \A f \in z.frames :
              f.at \in Nmethods(y) /\ f.at # b /\ y.code[f.at].key = z.code[f.at].key
<1>1. ZoneOK(x, E) /\ Shrunk(z, x)
  BY AllocKeeps
<1>2. InUse(x, E) /\ x.table[k] = None /\ x.frames = z.frames
  BY <1>1, InUseStays DEF Shrunk
<1> DEFINE y == Compiled(x, k, b)
<1>3. /\ ZoneOK(y, E)
      /\ y.frames = x.frames /\ Nmethods(y) = Nmethods(x) \cup {b}
      /\ y.code[b].key = k /\ y.code[b].chained
      /\ \A a \in Nmethods(x) : y.code[a] = x.code[a]
  BY <1>1, <1>2, CompiledKeeps
<1> HIDE DEF y
<1>4. \A f \in z.frames : f.at \in Nmethods(x) /\ x.code[f.at].key = z.code[f.at].key
  BY <1>1, <1>2 DEF ZoneOK, FramesOK, Shrunk
<1>5. QED  BY <1>2, <1>3, <1>4 DEF y

-----------------------------------------------------------------------------
(* Changing a method, and compaction.                                      *)

\* What has been compiled for k is no more found, called or entered.
LEMMA ProgramKeeps ==
  ASSUME NEW z, ZoneOK(z, {}), NEW k \in Keys,
         NEW F \in SUBSET Frame, \A g \in F : \E f \in z.frames : g.at = f.at /\ g.is = f.is
  PROVE  LET B == {a \in Nmethods(z) : z.code[a].key = k}
             y == Invalidated(z, {a \in B : z.code[a].chained})
         IN
         ZoneOK([y EXCEPT
                   !.code = Updated(y, B, LAMBDA n : [n EXCEPT !.old = TRUE]),
                   !.routes = [j \in Keys |-> None], !.frames = F], {})
<1> DEFINE B == {a \in Nmethods(z) : z.code[a].key = k}
           A == {a \in B : z.code[a].chained}
           y == Invalidated(z, A)
           q == [y EXCEPT
                   !.code = Updated(y, B, LAMBDA n : [n EXCEPT !.old = TRUE]),
                   !.routes = [j \in Keys |-> None], !.frames = F]
           u == unlink(z, A)
           o == MadeOld(y, B)
<1>0. /\ z \in ZoneType /\ FramesOK(z) /\ LinksOK(z) /\ ChainOK(z) /\ TableOK(z, {})
  BY DEF ZoneOK
<1>1. /\ B \in SUBSET Nmethods(z) /\ A \in SUBSET Nmethods(z) /\ A \subseteq B
      /\ \A a \in B : a \notin A => ~z.code[a].chained
  OBVIOUS
<1> HIDE DEF A, B
<1>2. /\ OutOfTable(z, u, A)
      /\ \A a \in Nmethods(z) :
           LET m == z.code[a] n == u.code[a] IN
           /\ n.zombie = m.zombie
           /\ n.chained <=> m.chained /\ a \notin A
           /\ n.calls = IF m.calls # None /\ m.calls.at \in A THEN None ELSE m.calls
  BY <1>0, <1>1, UnlinkEffect
<1>3. y = MadeInvalid(u, A)
  BY DEF Invalidated, MadeInvalid
<1> HIDE DEF u, y
<1>4. u \in ZoneType /\ A \in SUBSET Nmethods(u)
  BY <1>1, <1>2 DEF OutOfTable
<1>5. /\ SameBut(u, y)
      /\ \A a \in Nmethods(u) :
           LET m == u.code[a] n == y.code[a] IN
           /\ n.key = m.key /\ n.calls = m.calls /\ n.zombie = m.zombie
           /\ n.chained = m.chained /\ n.old = m.old
           /\ n.invalid <=> m.invalid \/ a \in A
  BY <1>3, <1>4, InvalidEffect
<1>6. y \in ZoneType /\ B \in SUBSET Nmethods(y)
  BY <1>1, <1>2, <1>5 DEF OutOfTable, SameBut
<1>7. /\ SameBut(y, o)
      /\ \A a \in Nmethods(y) :
           LET m == y.code[a] n == o.code[a] IN
           /\ n.key = m.key /\ n.calls = m.calls /\ n.zombie = m.zombie
           /\ n.invalid = m.invalid /\ n.chained = m.chained
           /\ n.old <=> m.old \/ a \in B
  BY <1>6, OldEffect
<1>8. q = [o EXCEPT !.routes = [j \in Keys |-> None], !.frames = F]
  BY <1>6 DEF MadeOld, ZoneType
<1> HIDE DEF o, q
<1>9. /\ q \in ZoneType /\ q.code = o.code /\ q.table = o.table /\ q.frames = F
      /\ q.routes = [j \in Keys |-> None]
  BY <1>7, <1>8 DEF SameBut, ZoneType
<1>10. /\ Nmethods(q) = Nmethods(z)
       /\ \A j \in Keys : q.table[j] = IF z.table[j] \in A THEN None ELSE z.table[j]
       /\ \A a \in Nmethods(z) :
           LET m == z.code[a] n == q.code[a] IN
           /\ n.key = m.key /\ n.zombie = m.zombie
           /\ n.invalid <=> m.invalid \/ a \in A
           /\ n.old <=> m.old \/ a \in B
           /\ n.chained <=> m.chained /\ a \notin A
           /\ n.calls = IF m.calls # None /\ m.calls.at \in A THEN None ELSE m.calls
  <2>1. Nmethods(q) = Nmethods(o)
    BY <1>9 DEF Nmethods
  <2>2. /\ Nmethods(o) = Nmethods(z) /\ Nmethods(y) = Nmethods(z) /\ Nmethods(u) = Nmethods(z)
        /\ o.table = u.table
    BY <1>2, <1>5, <1>7 DEF OutOfTable, SameBut
  <2>3. QED  BY <1>2, <1>5, <1>7, <1>9, <2>1, <2>2 DEF OutOfTable
<1>11. FramesOK(q)
  <2>1. y.frames = z.frames
    BY <1>2, <1>5 DEF OutOfTable, SameBut
  <2>2. QED  BY <1>0, <1>9, <1>10, <2>1 DEF FramesOK, Meets
<1>12. LinksOK(q)
  <2> SUFFICES ASSUME NEW a \in Nmethods(q), q.code[a].calls # None
               PROVE  LET n == q.code[a] IN
                      /\ Meets(n.calls) /\ n.calls.at \in Nmethods(q)
                      /\ q.code[n.calls.at].key = Sends[n.key] /\ q.code[n.calls.at].chained
    BY DEF LinksOK
  <2>1. /\ a \in Nmethods(z) /\ z.code[a].calls # None /\ q.code[a].calls = z.code[a].calls
        /\ z.code[a].calls.at \notin A
    BY <1>10
  <2>2. /\ Meets(z.code[a].calls) /\ z.code[a].calls.at \in Nmethods(z)
        /\ z.code[z.code[a].calls.at].key = Sends[z.code[a].key]
        /\ z.code[z.code[a].calls.at].chained
    BY <1>0, <2>1 DEF LinksOK
  <2>3. QED  BY <1>10, <2>1, <2>2
<1>13. ChainOK(q)
  BY <1>0, <1>10, <1>1 DEF ChainOK
<1>14. TableOK(q, {})
  <2> SUFFICES ASSUME NEW j \in Keys, NEW a \in Addresses
               PROVE  q.table[j] = a <=> a \in Nmethods(q) \ {} /\ Found(q.code[a], j)
    BY DEF TableOK
  <2>1. z.table[j] = a <=> a \in Nmethods(z) /\ Found(z.code[a], j)
    BY <1>0 DEF TableOK
  <2>2. q.table[j] = a <=> z.table[j] = a /\ a \notin A
    BY <1>10, Nones
  <2>3. a \in B /\ a \notin A => ~Found(z.code[a], j)
    BY <1>0, <1>1 DEF ChainOK, Found
  <2>4. QED  BY <1>1, <1>10, <2>1, <2>2, <2>3 DEF Found
<1>15. RoutesOK(q)
  BY <1>9 DEF RoutesOK
<1>16. QED  BY <1>9, <1>11, <1>12, <1>13, <1>14, <1>15 DEF ZoneOK, q, y, A, B

\* Nmethods slide to the low end of the zone, in their order.
LEMMA SlidOrder ==
  ASSUME NEW z \in ZoneType
  PROVE  LET n == Cardinality(Nmethods(z)) IN
         /\ n \in Nat /\ n <= Capacity
         /\ \A a \in Nmethods(z) : Slid(z, a) \in 1..n
         /\ \A a, b \in Nmethods(z) : Slid(z, a) = Slid(z, b) => a = b
         /\ \A i \in 1..n : \E a \in Nmethods(z) : Slid(z, a) = i
<1> DEFINE N == Nmethods(z)
           n == Cardinality(N)
           upTo(a) == {b \in N : b <= a}
           f == [a \in N |-> Slid(z, a)]
<1>1. N \subseteq 1..Capacity /\ N \subseteq Int /\ Capacity \in Nat
  BY CodeZoneAssumption DEF Nmethods, Addresses
<1>2. IsFiniteSet(1..Capacity) /\ Cardinality(1..Capacity) = Capacity
  BY <1>1, CodeZoneAssumption, FS_Interval
<1>3. IsFiniteSet(N) /\ n \in Nat /\ n <= Capacity
  BY <1>1, <1>2, FS_Subset, FS_CardinalityType
<1>4. \A a \in N : Slid(z, a) = Cardinality(upTo(a))
  BY <1>1, Nones DEF Slid, Addresses
<1>5. ASSUME NEW a \in N  PROVE  Slid(z, a) \in 1..n
  <2>1. upTo(a) \in SUBSET N /\ a \in upTo(a)
    BY <1>1
  <2>2. /\ IsFiniteSet(upTo(a)) /\ Cardinality(upTo(a)) <= n
        /\ Cardinality(upTo(a)) \in Nat /\ Cardinality(upTo(a)) # 0
    <3> HIDE DEF upTo, N
    <3>1. IsFiniteSet(upTo(a)) /\ Cardinality(upTo(a)) <= n
      BY <1>3, <2>1, FS_Subset
    <3>2. QED  BY <2>1, <3>1, FS_CardinalityType, FS_EmptySet
  <2>3. QED  BY <1>3, <1>4, <2>2
<1>6. ASSUME NEW a \in N, NEW b \in N, a < b  PROVE  Slid(z, a) < Slid(z, b)
  <2>1. upTo(a) \in SUBSET upTo(b) /\ upTo(a) # upTo(b) /\ upTo(b) \in SUBSET N
    BY <1>1, <1>6
  <2>2. IsFiniteSet(upTo(b))
    BY <1>3, <2>1, FS_Subset
  <2>3. Cardinality(upTo(a)) <= Cardinality(upTo(b)) /\ Cardinality(upTo(a)) # Cardinality(upTo(b))
    <3> HIDE DEF upTo
    <3>1. QED  BY <2>1, <2>2, FS_Subset
  <2>4. QED  BY <1>3, <1>4, <1>5, <2>3
<1>7. \A a, b \in N : Slid(z, a) = Slid(z, b) => a = b
  BY <1>1, <1>3, <1>5, <1>6
<1>8. f \in Injection(N, 1..n)
  BY <1>5, <1>7 DEF Injection, IsInjective
<1>9. f \in Surjection(N, 1..n)
  <2>1. IsFiniteSet(1..n) /\ Cardinality(1..n) = n
    BY <1>3, FS_Interval
  <2> HIDE DEF f, N
  <2>2. Cardinality(N) = Cardinality(1..n)
    BY <2>1
  <2>3. QED  BY <1>8, <2>1, <2>2, FS_Injection
<1>10. \A i \in 1..n : \E a \in N : Slid(z, a) = i
  BY <1>9 DEF Surjection
<1>11. QED  BY <1>3, <1>5, <1>7, <1>10

LEMMA SlideKeeps ==
  ASSUME NEW z, ZoneOK(z, {})
  PROVE  ZoneOK(Slide(z), {})
<1> DEFINE N == Nmethods(z)
           n == Cardinality(N)
           S(a) == Slid(z, a)
           from(b) == CHOOSE a \in N : S(a) = b
           c == [b \in Addresses |->
                   IF b > n THEN None
                   ELSE [z.code[from(b)] EXCEPT !.calls = Shifted(z, @)]]
           y == Slide(z)
<1>0. /\ z \in ZoneType /\ FramesOK(z) /\ LinksOK(z) /\ ChainOK(z) /\ TableOK(z, {})
      /\ RoutesOK(z)
  BY DEF ZoneOK
<1>1. /\ n \in Nat /\ n <= Capacity /\ N \subseteq Addresses
      /\ \A a \in N : S(a) \in 1..n /\ S(a) \in Addresses
      /\ \A a, b \in N : S(a) = S(b) => a = b
      /\ \A b \in 1..n : \E a \in N : S(a) = b
  <2>1. /\ n \in Nat /\ n <= Capacity
        /\ \A a \in N : S(a) \in 1..n
        /\ \A a, b \in N : S(a) = S(b) => a = b
        /\ \A b \in 1..n : \E a \in N : S(a) = b
    BY <1>0, SlidOrder
  <2>2. Capacity \in Nat
    BY CodeZoneAssumption
  <2> HIDE DEF n, S
  <2>3. QED  BY <2>1, <2>2 DEF Addresses, Nmethods
<1>2. S(None) = None
  BY DEF Slid
<1>3. \A a \in N : a # None
  BY <1>1, Nones
<1>4. /\ y.code = c
      /\ y.table = [k \in Keys |-> S(z.table[k])]
      /\ y.frames = {Shifted(z, f) : f \in z.frames}
      /\ y.routes = [k \in Keys |-> NotShifted(z, z.routes[k])]
      /\ y = [code |-> y.code, table |-> y.table, frames |-> y.frames, routes |-> y.routes]
  BY DEF Slide, LinkShifted
<1> HIDE DEF y, S
\* Where each nmethod is now, and what it is.
<1>5. ASSUME NEW a \in N
      PROVE  c[S(a)] = [z.code[a] EXCEPT !.calls = Shifted(z, @)]
  <2>1. from(S(a)) \in N /\ S(from(S(a))) = S(a)
    OBVIOUS
  <2>2. from(S(a)) = a
    BY <1>1, <2>1
  <2> HIDE DEF from
  <2>3. S(a) \in Addresses /\ ~(S(a) > n)
    BY <1>1
  <2>4. QED  BY <2>2, <2>3
<1>6. \A b \in Addresses : b > n => c[b] = None
  OBVIOUS
<1>7. c = [b \in Addresses |-> c[b]]
  OBVIOUS
<1> HIDE DEF c, n
<1>8. ASSUME NEW a \in N, z.code[a].calls # None
      PROVE  LET r == Shifted(z, z.code[a].calls) IN
             /\ r \in Link /\ r # None
             /\ r.at = S(z.code[a].calls.at) /\ r.is = r.at
             /\ z.code[a].calls.at \in N
             /\ z.code[z.code[a].calls.at].key = Sends[z.code[a].key]
             /\ z.code[z.code[a].calls.at].chained
  <2>1. z.code[a].calls \in Link
    BY <1>0, <1>8, Fields DEF Nmethod
  <2>2. /\ Meets(z.code[a].calls) /\ z.code[a].calls.at \in N
        /\ z.code[z.code[a].calls.at].key = Sends[z.code[a].key]
        /\ z.code[z.code[a].calls.at].chained
    BY <1>0, <1>8 DEF LinksOK
  <2>3. LET r == Shifted(z, z.code[a].calls) IN
        /\ r \in Link
        /\ r.at = S(z.code[a].calls.at) /\ r.is = r.at
    BY <1>1, <1>8, <2>1, <2>2 DEF Shifted, Link, Meets, S
  <2>4. QED  BY <2>2, <2>3, Nones
<1>9. ASSUME NEW a \in N
      PROVE  LET i == z.code[a] m == c[S(a)] IN
             /\ m \in Nmethod /\ m # None
             /\ m.key = i.key /\ m.zombie = i.zombie /\ m.invalid = i.invalid
             /\ m.chained = i.chained /\ m.old = i.old
             /\ m.calls = Shifted(z, i.calls)
  <2>1. z.code[a] \in Nmethod
    BY <1>0, Fields
  <2>2. Shifted(z, z.code[a].calls) \in Link \cup {None}
    BY <1>8 DEF Shifted
  <2> DEFINE i == z.code[a]
             r == Shifted(z, z.code[a].calls)
  <2>3. c[S(a)] = [i EXCEPT !.calls = r]
    BY <1>5
  <2> HIDE DEF i, r
  <2>4. LET m == c[S(a)] IN
        /\ m \in Nmethod /\ m # None
        /\ m.key = i.key /\ m.zombie = i.zombie /\ m.invalid = i.invalid
        /\ m.chained = i.chained /\ m.old = i.old /\ m.calls = r
    <3>1. i \in Nmethod /\ r \in Link \cup {None}
      BY <2>1, <2>2 DEF i, r
    <3>2. QED  BY <2>3, <3>1, Nones DEF Nmethod
  <2>5. QED  BY <2>4 DEF i, r
<1>10. /\ \A a \in N : S(a) \in Nmethods(y)
       /\ \A b \in Nmethods(y) : \E a \in N : S(a) = b
  <2>1. \A b \in Addresses : c[b] # None => b \in 1..n
    BY <1>1, <1>6 DEF Addresses
  <2>2. QED  BY <1>1, <1>4, <1>9, <2>1 DEF Nmethods
<1>11. ASSUME NEW f \in z.frames
       PROVE  LET g == Shifted(z, f) IN
              g \in Frame /\ Meets(g) /\ g.at \in Nmethods(y)
  <2>1. f \in Frame /\ f # None /\ f.is = f.at /\ f.at \in N
    BY <1>0, Fields, Nones DEF FramesOK, Meets
  <2>2. S(f.at) \in Addresses /\ S(f.at) \in Nmethods(y)
    BY <1>1, <1>10, <2>1
  <2>3. Shifted(z, f) = [f EXCEPT !.at = S(f.at), !.is = S(f.at)]
    BY <2>1 DEF Shifted, S, Frame
  <2>4. QED  BY <2>1, <2>2, <2>3 DEF Frame, Meets
<1>12. ASSUME NEW k \in Keys, z.routes[k] # None
       PROVE  LET r == NotShifted(z, z.routes[k]) IN
              /\ r \in Link /\ r.is = S(z.routes[k].is)
              /\ z.routes[k].is \in N /\ z.code[z.routes[k].is].key = k
              /\ ~z.code[z.routes[k].is].old
  <2>1. z.routes[k] \in Link
    BY <1>0, <1>12, Fields
  <2>2. /\ z.routes[k].is \in N /\ z.code[z.routes[k].is].key = k
        /\ ~z.code[z.routes[k].is].old
    BY <1>0, <1>12 DEF RoutesOK
  <2>3. S(z.routes[k].is) \in Addresses
    BY <1>1, <2>2
  <2>4. NotShifted(z, z.routes[k]) = [z.routes[k] EXCEPT !.is = S(z.routes[k].is)]
    BY <1>12 DEF NotShifted, S
  <2>5. QED  BY <2>1, <2>2, <2>3, <2>4 DEF Link
<1>13. \A k \in Keys : z.table[k] \in N \cup {None}
  BY <1>0, Fields DEF TableOK
<1>14. y \in ZoneType
  <2>1. y.code \in [Addresses -> Nmethod \cup {None}]
    <3>1. ASSUME NEW b \in Addresses  PROVE  c[b] \in Nmethod \cup {None}
      <4>1. CASE b > n
        BY <1>6, <4>1
      <4>2. CASE ~(b > n)
        <5>1. PICK a \in N : S(a) = b
          BY <1>1, <4>2 DEF Addresses
        <5>2. QED  BY <1>9, <5>1
      <4>3. QED  BY <4>1, <4>2
    <3>2. QED  BY <1>4, <1>7, <3>1
  <2>2. y.table \in [Keys -> Addresses \cup {None}]
    BY <1>1, <1>2, <1>4, <1>13
  <2>3. y.frames \in SUBSET Frame
    BY <1>4, <1>11
  <2>4. y.routes \in [Keys -> Link \cup {None}]
    BY <1>4, <1>12 DEF NotShifted
  <2>5. QED  BY <1>4, <2>1, <2>2, <2>3, <2>4 DEF ZoneType
<1>15. FramesOK(y)
  BY <1>4, <1>11 DEF FramesOK
<1>16. LinksOK(y)
  <2> SUFFICES ASSUME NEW a \in N, c[S(a)].calls # None
               PROVE  LET m == c[S(a)] IN
                      /\ Meets(m.calls) /\ m.calls.at \in Nmethods(y)
                      /\ c[m.calls.at].key = Sends[m.key] /\ c[m.calls.at].chained
    BY <1>4, <1>10 DEF LinksOK
  <2>1. z.code[a].calls # None
    BY <1>9 DEF Shifted
  <2>2. QED  BY <1>8, <1>9, <1>10, <2>1 DEF Meets
<1>17. ChainOK(y)
  BY <1>0, <1>4, <1>9, <1>10 DEF ChainOK
<1>18. TableOK(y, {})
  <2> SUFFICES ASSUME NEW k \in Keys, NEW b \in Addresses
               PROVE  y.table[k] = b <=> b \in Nmethods(y) \ {} /\ Found(y.code[b], k)
    BY DEF TableOK
  <2>1. y.table[k] = S(z.table[k])
    BY <1>4
  <2>2. CASE b \in Nmethods(y)
    <3>1. PICK a \in N : S(a) = b
      BY <1>10, <2>2
    <3>2. y.table[k] = b <=> z.table[k] = a
      BY <1>1, <1>2, <1>13, <2>1, <3>1, Nones
    <3>3. z.table[k] = a <=> Found(z.code[a], k)
      BY <1>0, <1>1 DEF TableOK
    <3>4. Found(y.code[b], k) <=> Found(z.code[a], k)
      BY <1>4, <1>9, <3>1 DEF Found
    <3>5. QED  BY <2>2, <3>2, <3>3, <3>4
  <2>3. CASE b \notin Nmethods(y)
    BY <1>2, <1>10, <1>13, <2>1, <2>3, Nones
  <2>4. QED  BY <2>2, <2>3
<1>19. RoutesOK(y)
  <2> SUFFICES ASSUME NEW k \in Keys, y.routes[k] # None
               PROVE  LET a == y.routes[k].is IN
                      a \in Nmethods(y) /\ y.code[a].key = k /\ ~y.code[a].old
    BY DEF RoutesOK
  <2>1. z.routes[k] # None /\ y.routes[k] = NotShifted(z, z.routes[k])
    BY <1>4 DEF NotShifted
  <2>2. QED  BY <1>4, <1>9, <1>10, <1>12, <2>1
<1>20. QED  BY <1>14, <1>15, <1>16, <1>17, <1>18, <1>19 DEF ZoneOK, y

-----------------------------------------------------------------------------
(* The actions.                                                            *)

LEMMA BecomesInv ==
  ASSUME NEW z, ZoneOK(z, {}), Becomes(z)
  PROVE  ZoneInv'
BY DEF ZoneInv, Zone, Becomes, ZoneOK, ZoneType, FramesOK, LinksOK, ChainOK, TableOK, RoutesOK,
       Nmethods, Found, Meets

LEMMA ZoneFields ==
  Zone.code = code /\ Zone.table = table /\ Zone.routes = routes /\ Zone.frames = frames
BY DEF Zone

LEMMA EnterKeeps ==
  ASSUME NEW z, ZoneOK(z, {}), NEW a \in Nmethods(z), Enter(z, a)
  PROVE  ZoneInv'
<1> DEFINE F == z.frames \cup {Activation(a)}
           y == [z EXCEPT !.frames = F]
<1>1. Becomes(y)
  BY DEF Enter
<1>2. F \in SUBSET Frame /\ \A f \in F : Meets(f) /\ f.at \in Nmethods(z)
  <2>1. /\ Activation(a) \in Frame /\ Meets(Activation(a)) /\ Activation(a).at = a
    BY DEF Activation, Frame, Meets, Nmethods
  <2>2. z.frames \in SUBSET Frame /\ FramesOK(z)
    BY Fields DEF ZoneOK
  <2>3. QED  BY <2>1, <2>2 DEF FramesOK
<1> HIDE DEF F
<1>3. ZoneOK(y, {})
  BY <1>2, FramesKeep
<1>4. QED  BY <1>1, <1>3, BecomesInv

LEMMA NothingInUse == \A z : InUse(z, {})
BY DEF InUse

\* What the code table names may be linked to.
LEMMA TableEntry ==
  ASSUME ZoneInv, NEW k \in Keys, table[k] # None
  PROVE  LET a == table[k] IN
         /\ a \in Nmethods(Zone) /\ code[a].key = k /\ code[a].chained /\ ~code[a].old
<1>1. table[k] \in Addresses
  BY Fields, ZoneFields DEF ZoneInv, ZoneOK
<1>2. QED  BY <1>1, ZoneFields DEF ZoneInv, ZoneOK, TableOK, ChainOK, Found

LEMMA TierUpKeeps ==
  ASSUME ZoneInv, NEW k \in Keys, TierUp(k)
  PROVE  ZoneInv'
<1>1. PICK x \in AfterAlloc(Zone), b \in Addresses :
        b \notin Nmethods(x) /\ Becomes([Compiled(x, k, b) EXCEPT !.routes[k] = None])
  BY DEF TierUp, Compile
<1> DEFINE y == Compiled(x, k, b)
           R == [y.routes EXCEPT ![k] = None]
<1>2. Zone.table[k] = None
  BY ZoneFields DEF TierUp, Compile
<1>3. ZoneOK(y, {})
  BY <1>1, <1>2, NothingInUse, AllocCompiledKeeps DEF ZoneInv
<1> HIDE DEF y
<1>4. y \in ZoneType /\ RoutesOK(y)
  BY <1>3 DEF ZoneOK
<1>5. /\ R \in [Keys -> Link \cup {None}]
      /\ \A j \in Keys : R[j] # None => R[j] = y.routes[j]
  BY <1>4, Fields
<1> HIDE DEF R
<1>6. ZoneOK([y EXCEPT !.routes = R], {})
  BY <1>3, <1>4, <1>5, RoutesKeep DEF RoutesOK
<1>7. Becomes([y EXCEPT !.routes = R])
  BY <1>1 DEF y, R
<1>8. QED  BY <1>6, <1>7, BecomesInv

LEMMA SendLinkedKeeps ==
  ASSUME ZoneInv, NEW f \in frames, SendLinked(f)
  PROVE  ZoneInv'
<1>1. f.at \in Nmethods(Zone) /\ code[f.at].calls # None /\ Enter(Zone, code[f.at].calls.at)
  BY ZoneFields DEF SendLinked, ZoneInv, ZoneOK, FramesOK
<1>2. code[f.at].calls.at \in Nmethods(Zone)
  BY <1>1, ZoneFields DEF ZoneInv, ZoneOK, LinksOK
<1>3. QED  BY <1>1, <1>2, EnterKeeps DEF ZoneInv

LEMMA SendUnlinkedKeeps ==
  ASSUME ZoneInv, NEW f \in frames, SendUnlinked(f)
  PROVE  ZoneInv'
<1> DEFINE k == Sends[code[f.at].key]
<1>1. f.at \in Nmethods(Zone) /\ k \in Keys
  <2>1. f.at \in Nmethods(Zone)
    BY ZoneFields DEF ZoneInv, ZoneOK, FramesOK
  <2>2. code[f.at] \in Nmethod
    BY <2>1, Fields, ZoneFields DEF ZoneInv, ZoneOK
  <2>3. QED  BY <2>1, <2>2, CodeZoneAssumption DEF Nmethod
<1>2. CASE table[k] # None /\ Enter(Linked(Zone, f.at, table[k]), table[k])
  <2>1. table[k] \in Nmethods(Zone) /\ code[table[k]].key = k /\ code[table[k]].chained
    BY <1>1, <1>2, TableEntry
  <2>2. /\ ZoneOK(Linked(Zone, f.at, table[k]), {})
        /\ SameBut(Zone, Linked(Zone, f.at, table[k]))
    BY <1>1, <2>1, LinkedKeeps, ZoneFields DEF ZoneInv
  <2>3. QED  BY <1>2, <2>1, <2>2, EnterKeeps DEF SameBut
<1>3. CASE Compile(k, LAMBDA z, a : Enter(Linked(z, f.at, a), a))
  <2>1. PICK x \in AfterAlloc(Zone), b \in Addresses :
          b \notin Nmethods(x) /\ Enter(Linked(Compiled(x, k, b), f.at, b), b)
    BY <1>3 DEF Compile
  <2> DEFINE y == Compiled(x, k, b)
  <2>2. Zone.table[k] = None
    BY <1>3, ZoneFields DEF Compile
  <2> HIDE DEF k
  <2>3. /\ ZoneOK(y, {})
        /\ b \in Nmethods(y) /\ y.code[b].key = k /\ y.code[b].chained
        /\ f.at \in Nmethods(y) /\ y.code[f.at].key = code[f.at].key
    BY <1>1, <2>1, <2>2, NothingInUse, AllocCompiledKeeps, ZoneFields DEF ZoneInv
  <2> HIDE DEF y
  <2>4. ZoneOK(Linked(y, f.at, b), {}) /\ SameBut(y, Linked(y, f.at, b))
    BY <2>3, LinkedKeeps DEF k
  <2>5. QED  BY <2>1, <2>3, <2>4, EnterKeeps DEF SameBut, y
<1>4. QED  BY <1>2, <1>3 DEF SendUnlinked

LEMMA RecompileKeeps ==
  ASSUME ZoneInv, NEW f \in frames, Recompile(f)
  PROVE  ZoneInv'
<1> DEFINE a == f.at
           k == code[a].key
           w == removeFromCodeTable(Zone, {a})
           next(x, b) == flush(Forwarded(Compiled(x, k, b), a, b), {a})
<1>0. /\ Zone \in ZoneType /\ FramesOK(Zone) /\ LinksOK(Zone) /\ ChainOK(Zone)
      /\ TableOK(Zone, {}) /\ RoutesOK(Zone)
  BY DEF ZoneInv, ZoneOK
<1>1. PICK x \in AfterAlloc(w), b \in Addresses :
        /\ b \notin Nmethods(x)
        /\ \/ Becomes(next(x, b))
           \/ Becomes([next(x, b) EXCEPT !.frames = (@ \ {f}) \cup {Activation(b)}])
           \/ Enter(next(x, b), b)
  BY DEF Recompile
<1>2. a \in Nmethods(Zone) /\ k \in Keys /\ table[k] = a
  <2>1. a \in Nmethods(Zone)
    BY <1>0, ZoneFields DEF FramesOK
  <2>2. code[a] \in Nmethod
    BY <1>0, <2>1, Fields, ZoneFields
  <2>3. QED  BY <2>1, <2>2 DEF Nmethod, Recompile
<1>3. /\ w \in ZoneType
      /\ w.code = code /\ w.frames = frames /\ w.routes = routes
      /\ Nmethods(w) = Nmethods(Zone)
      /\ \A j \in Keys : w.table[j] = IF table[j] = a THEN None ELSE table[j]
  BY <1>0, RemovedEffect, ZoneFields
<1> HIDE DEF w
<1>4. ZoneOK(w, {a}) /\ InUse(w, {a}) /\ w.table[k] = None
  <2>1. FramesOK(w) /\ LinksOK(w) /\ ChainOK(w) /\ RoutesOK(w)
    BY <1>0, <1>3, ZoneFields DEF FramesOK, LinksOK, ChainOK, RoutesOK
  <2>2. TableOK(w, {a})
    BY <1>0, <1>3, ZoneFields, Nones DEF TableOK
  <2>3. InUse(w, {a})
    BY <1>3 DEF InUse, Active
  <2>4. QED  BY <1>2, <1>3, <2>1, <2>2, <2>3 DEF ZoneOK
<1> DEFINE y == Compiled(x, k, b)
           v == Forwarded(y, a, b)
           u == flush(v, {a})
<1> HIDE DEF k
<1>5. /\ ZoneOK(y, {a}) /\ y.frames = frames
      /\ b \in Nmethods(y) /\ y.code[b].key = k /\ y.code[b].chained
      /\ a \in Nmethods(y) /\ a # b /\ y.code[a].key = k
  <2>1. /\ ZoneOK(y, {a}) /\ y.frames = w.frames
        /\ b \in Nmethods(y) /\ y.code[b].key = k /\ y.code[b].chained
        /\ \A g \in w.frames :
             g.at \in Nmethods(y) /\ g.at # b /\ y.code[g.at].key = w.code[g.at].key
    <3> HIDE DEF y
    <3>1. k \in Keys
      BY <1>2
    <3>2. QED  BY <1>1, <1>4, <3>1, AllocCompiledKeeps DEF y
  <2>2. QED  BY <1>3, <2>1 DEF k
<1> HIDE DEF y
<1>6. ZoneOK(v, {a}) /\ SameBut(y, v)
  BY <1>5, ForwardedKeeps
<1> HIDE DEF v
<1>7. /\ ZoneOK(u, {}) /\ u.frames = frames
      /\ b \in Nmethods(u) /\ \A g \in frames : g.at \in Nmethods(u)
  <2>1. {a} \in SUBSET Nmethods(v) /\ {a} \ {a} = {} /\ v.frames = frames /\ b \in Nmethods(v)
    BY <1>5, <1>6 DEF SameBut
  <2>2. /\ ZoneOK(u, {}) /\ Shrunk(v, u)
        /\ Nmethods(u) = Nmethods(v) \ ({a} \cap Inactive(v))
    BY <1>6, <2>1, FlushKeeps
  <2>3. QED  BY <1>5, <2>1, <2>2 DEF Shrunk, ZoneOK, FramesOK
<1>8. u = next(x, b)
  BY DEF y, v
<1> HIDE DEF u, next
<1>9. CASE Becomes(u)
  BY <1>7, <1>9, BecomesInv
<1>10. CASE Becomes([u EXCEPT !.frames = (@ \ {f}) \cup {Activation(b)}])
  <2> DEFINE F == (u.frames \ {f}) \cup {Activation(b)}
  <2>1. F \in SUBSET Frame /\ \A g \in F : Meets(g) /\ g.at \in Nmethods(u)
    <3>1. Activation(b) \in Frame /\ Meets(Activation(b)) /\ Activation(b).at = b
      BY DEF Activation, Frame, Meets
    <3>2. u.frames \in SUBSET Frame /\ FramesOK(u)
      BY <1>7, Fields DEF ZoneOK
    <3>3. QED  BY <1>7, <3>1, <3>2 DEF FramesOK
  <2>2. Becomes([u EXCEPT !.frames = F])
    BY <1>10
  <2> HIDE DEF F
  <2>3. ZoneOK([u EXCEPT !.frames = F], {})
    BY <1>7, <2>1, FramesKeep
  <2>4. QED  BY <2>2, <2>3, BecomesInv
<1>11. CASE Enter(u, b)
  BY <1>7, <1>11, EnterKeeps
<1>12. QED  BY <1>1, <1>8, <1>9, <1>10, <1>11

LEMMA RoutesKeepInv ==
  ASSUME ZoneInv, NEW k \in Keys
  PROVE  /\ Route(k) => ZoneInv'
         /\ DropRoute(k) => ZoneInv'
         /\ EnterRoute(k) => ZoneInv'
<1>0. Zone \in ZoneType /\ RoutesOK(Zone)
  BY DEF ZoneInv, ZoneOK
<1>1. ASSUME NEW r \in Link \cup {None},
             r # None => LET a == r.is IN
                         a \in Nmethods(Zone) /\ code[a].key = k /\ ~code[a].old
      PROVE  /\ ZoneOK([Zone EXCEPT !.routes[k] = r], {})
             /\ Nmethods([Zone EXCEPT !.routes[k] = r]) = Nmethods(Zone)
  <2> DEFINE R == [routes EXCEPT ![k] = r]
  <2>1. /\ R \in [Keys -> Link \cup {None}]
        /\ R[k] = r /\ \A j \in Keys \ {k} : R[j] = routes[j]
    BY <1>0, Fields, ZoneFields
  <2> HIDE DEF R
  <2>2. \A j \in Keys : R[j] # None =>
          LET a == R[j].is IN
          a \in Nmethods(Zone) /\ Zone.code[a].key = j /\ ~Zone.code[a].old
    BY <1>0, <1>1, <2>1, ZoneFields DEF RoutesOK
  <2>3. /\ ZoneOK([Zone EXCEPT !.routes = R], {})
        /\ Nmethods([Zone EXCEPT !.routes = R]) = Nmethods(Zone)
    BY <2>1, <2>2, RoutesKeep DEF ZoneInv
  <2>4. QED  BY <2>3, ZoneFields DEF R
<1>2. ASSUME Route(k)  PROVE  ZoneInv'
  <2> DEFINE a == table[k]
  <2>1. a # None /\ Enter([Zone EXCEPT !.routes[k] = Ref(a)], a)
    BY <1>2 DEF Route
  <2>2. a \in Nmethods(Zone) /\ code[a].key = k /\ ~code[a].old
    BY <2>1, TableEntry
  <2> HIDE DEF a
  <2>3. Ref(a) \in Link /\ Ref(a).is = a
    BY <2>2 DEF Ref, Link, Nmethods
  <2>4. /\ ZoneOK([Zone EXCEPT !.routes[k] = Ref(a)], {})
        /\ Nmethods([Zone EXCEPT !.routes[k] = Ref(a)]) = Nmethods(Zone)
    BY <1>1, <2>2, <2>3
  <2>5. QED  BY <2>1, <2>2, <2>4, EnterKeeps
<1>3. ASSUME DropRoute(k)  PROVE  ZoneInv'
  BY <1>1, <1>3, BecomesInv DEF DropRoute
<1>4. ASSUME EnterRoute(k)  PROVE  ZoneInv'
  <2>1. routes[k] \in Link
    BY <1>0, <1>4, Fields, ZoneFields DEF EnterRoute
  <2>2. routes[k].at \in Nmethods(Zone) /\ Enter(Zone, routes[k].at)
    BY <1>4, <2>1, ZoneFields DEF EnterRoute, Nmethods, Link
  <2>3. QED  BY <2>2, EnterKeeps DEF ZoneInv
<1>5. QED  BY <1>2, <1>3, <1>4

LEMMA ProgramKeepsInv ==
  ASSUME ZoneInv, NEW k \in Keys, Program(k)
  PROVE  ZoneInv'
<1> DEFINE B == {a \in Nmethods(Zone) : Zone.code[a].key = k}
           y == Invalidated(Zone, {a \in B : Zone.code[a].chained})
           invalid(r) == y.code[r.at] # None /\ y.code[r.at].invalid
           G(f) == [f EXCEPT !.patched = @ \/ invalid(f)]
           F == {G(f) : f \in y.frames}
           q == [y EXCEPT
                   !.code = Updated(y, B, LAMBDA n : [n EXCEPT !.old = TRUE]),
                   !.routes = [j \in Keys |-> None], !.frames = F]
<1>1. Becomes(q)
  BY ZoneFields DEF Program
<1>2. y.frames = frames
  BY ZoneFields DEF Invalidated, unlink, remove_me_from_inline_cache, removeFromCodeTable, Zone
<1>3. frames \in SUBSET Frame
  BY Fields, ZoneFields DEF ZoneInv, ZoneOK
<1> HIDE DEF invalid, y
<1>4. F \in SUBSET Frame /\ \A g \in F : \E f \in frames : g.at = f.at /\ g.is = f.is
  <2>1. ASSUME NEW f \in frames
        PROVE  G(f) \in Frame /\ G(f).at = f.at /\ G(f).is = f.is
    <3> DEFINE p == f.patched \/ invalid(f)
    <3>1. f \in Frame /\ p \in BOOLEAN
      BY <1>3
    <3> HIDE DEF p
    <3>2. LET g == [f EXCEPT !.patched = p] IN g \in Frame /\ g.at = f.at /\ g.is = f.is
      BY <3>1 DEF Frame
    <3>3. QED  BY <3>2 DEF p
  <2> HIDE DEF G
  <2>2. QED  BY <1>2, <2>1
<1> HIDE DEF F
<1>5. ZoneOK(q, {})
  <2>1. \A g \in F : \E f \in Zone.frames : g.at = f.at /\ g.is = f.is
    BY <1>4, ZoneFields
  <2>2. QED  BY <1>4, <2>1, ProgramKeeps DEF ZoneInv, Updated, y
<1>6. QED  BY <1>1, <1>5, BecomesInv

LEMMA ReturnKeeps ==
  ASSUME ZoneInv, NEW f \in frames, Return(f)
  PROVE  ZoneInv'
<1>1. Becomes([Zone EXCEPT !.frames = frames \ {f}])
  BY ZoneFields DEF Return
<1>2. /\ frames \ {f} \in SUBSET Frame
      /\ \A g \in frames \ {f} : Meets(g) /\ g.at \in Nmethods(Zone)
  BY Fields, ZoneFields DEF ZoneInv, ZoneOK, FramesOK
<1>3. ZoneOK([Zone EXCEPT !.frames = frames \ {f}], {})
  BY <1>2, FramesKeep DEF ZoneInv
<1>4. QED  BY <1>1, <1>3, BecomesInv

\* What happens to the zone as a whole.
LEMMA WholeKeeps ==
  ASSUME ZoneInv
  PROVE  /\ NoRoom => ZoneInv'
         /\ Sweep => ZoneInv'
         /\ FlushAll => ZoneInv'
         /\ FlushUnused => ZoneInv'
         /\ \A forced \in BOOLEAN : compact(forced) => ZoneInv'
<1>1. /\ ZoneOK(Zone, {}) /\ \A z : InUse(z, {})
  BY NothingInUse DEF ZoneInv
<1>2. ASSUME NoRoom  PROVE  ZoneInv'
  BY <1>1, <1>2, AfterReclaimKeeps, BecomesInv DEF NoRoom
<1>3. ASSUME Sweep  PROVE  ZoneInv'
  BY <1>1, <1>3, SweepsKeep, BecomesInv DEF Sweep
<1>4. ASSUME NEW A \in SUBSET Nmethods(Zone), Becomes(flushZombies(makeZombie(Zone, A, TRUE)))
      PROVE  ZoneInv'
  <2>1. ZoneOK(makeZombie(Zone, A, TRUE), {})
    BY <1>1, ZombiesKeep
  <2>2. ZoneOK(flushZombies(makeZombie(Zone, A, TRUE)), {})
    BY <1>1, <2>1, FlushZombiesKeeps
  <2>3. QED  BY <1>4, <2>2, BecomesInv
<1>5. ASSUME FlushAll  PROVE  ZoneInv'
  BY <1>4, <1>5 DEF FlushAll
<1>6. ASSUME FlushUnused  PROVE  ZoneInv'
  BY <1>4, <1>6 DEF FlushUnused, Inactive
<1>7. ASSUME NEW forced \in BOOLEAN, compact(forced)  PROVE  ZoneInv'
  <2>1. CASE forced
    <3>1. ZoneOK(flushZombies(Zone), {})
      BY <1>1, FlushZombiesKeeps
    <3>2. ZoneOK(Slide(flushZombies(Zone)), {})
      BY <3>1, SlideKeeps
    <3>3. QED  BY <1>7, <2>1, <3>2, BecomesInv DEF compact
  <2>2. CASE ~forced
    <3>1. PICK z \in AfterReclaim(Zone) : Becomes(z) \/ Becomes(Slide(z))
      BY <1>7, <2>2 DEF compact
    <3>2. ZoneOK(z, {}) /\ ZoneOK(Slide(z), {})
      BY <1>1, AfterReclaimKeeps, SlideKeeps
    <3>3. QED  BY <3>1, <3>2, BecomesInv
  <2>3. QED  BY <2>1, <2>2
<1>8. QED  BY <1>2, <1>3, <1>5, <1>6, <1>7

LEMMA ZoneInit == Init => ZoneInv
BY Nones DEF Init, ZoneInv, Zone, ZoneOK, ZoneType, FramesOK, LinksOK, ChainOK, TableOK, RoutesOK,
             Nmethods

LEMMA ZoneKeeps == ZoneInv /\ [Next]_vars => ZoneInv'
<1> SUFFICES ASSUME ZoneInv, [Next]_vars  PROVE  ZoneInv'
  OBVIOUS
<1>1. CASE \E k \in Keys :
             TierUp(k) \/ EnterRoute(k) \/ DropRoute(k) \/ Route(k) \/ Program(k)
  BY <1>1, TierUpKeeps, RoutesKeepInv, ProgramKeepsInv
<1>2. CASE \E f \in frames : SendLinked(f) \/ SendUnlinked(f) \/ Return(f) \/ Recompile(f)
  BY <1>2, SendLinkedKeeps, SendUnlinkedKeeps, ReturnKeeps, RecompileKeeps
<1>3. CASE \/ NoRoom \/ Sweep \/ FlushAll \/ FlushUnused
           \/ \E forced \in BOOLEAN : compact(forced)
  BY <1>3, WholeKeeps
<1>4. CASE UNCHANGED vars
  <2>1. Becomes(Zone)
    BY <1>4, ZoneFields DEF Becomes, vars
  <2>2. QED  BY <2>1, BecomesInv DEF ZoneInv
<1>5. QED  BY <1>1, <1>2, <1>3, <1>4 DEF Next

LEMMA ZoneAlwaysOK == Spec => []ZoneInv
BY ZoneInit, ZoneKeeps, PTL DEF Spec

\* No activation is left without its nmethod, whatever flushes, replaces or
\* moves it.
THEOREM FramesStayLive == Spec => []FramesLive
<1>1. ZoneInv => FramesLive
  BY ZoneFields DEF ZoneInv, ZoneOK, FramesOK, FramesLive
<1>2. QED  BY <1>1, ZoneAlwaysOK, PTL

\* A compiled send is linked to the nmethod of its key, and to none that was
\* flushed, moved away or compiled from what has changed since.
THEOREM LinksStayLive == Spec => []LinksLive
<1>1. ZoneInv => LinksLive
  BY ZoneFields DEF ZoneInv, ZoneOK, LinksOK, ChainOK, LinksLive
<1>2. QED  BY <1>1, ZoneAlwaysOK, PTL

\* A lookup finds the nmethod of the key that is neither a zombie nor
\* invalid, if there is one.
THEOREM TableCorrect == Spec => []TableAgrees
<1>1. ZoneInv => TableAgrees
  BY ZoneFields DEF ZoneInv, ZoneOK, TableOK, Found, Nmethods, TableAgrees
<1>2. QED  BY <1>1, ZoneAlwaysOK, PTL

\* No route that the stamp does not show to be stale is to an nmethod that
\* was flushed, or was compiled from what has changed since.
THEOREM RoutesFlushed == Spec => []RouteNotFlushed
<1>1. ZoneInv => RouteNotFlushed
  BY ZoneFields, Nones DEF ZoneInv, ZoneOK, RoutesOK, Nmethods, RouteNotFlushed
<1>2. QED  BY <1>1, ZoneAlwaysOK, PTL
=============================================================================
