---------------------------- MODULE ZoneHeapProofs ----------------------------
(***************************************************************************)
(* The heap of the code zone keeps MapAgrees, Combined, FindsStart and     *)
(* SweepGoesOn, and is an allocator, for a heap of any size, any objects   *)
(* and sizes, and any of the limits of the map that ChunkMapAssumption     *)
(* allows.  The inductive invariant IInv is that some set C of blocks cuts *)
(* the map into chunks (Cut), of which the free ones are in the list for   *)
(* their size, once (HeapOK), two that touch are not both long (Paired),   *)
(* none touch while chunks are combined (AllLone), and the objects are in  *)
(* the used ones (Holding).  What a loop over the map returns follows from *)
(* LoopEnds, with an invariant and a measure of that loop.                 *)
(***************************************************************************)
EXTENDS ZoneHeap, Lemmas

-----------------------------------------------------------------------------
(* The bytes of a chunk.                                                   *)

\* Division of natural numbers.
LEMMA DivisionFacts ==
  ASSUME NEW n \in Nat, NEW M \in Nat \ {0}
  PROVE  /\ n \div M \in Nat /\ n % M \in 0..(M - 1)
         /\ n = M * (n \div M) + (n % M)
BY SMT

\* Multiplication of natural numbers.
LEMMA Distributes ==
  ASSUME NEW M \in Nat, NEW x \in Nat, NEW y \in Nat
  PROVE  /\ M * (x + y) = M * x + M * y
         /\ M * x \in Nat
         /\ M * x = x * M
         /\ x <= y => M * x <= M * y
<1>1. M * (x + y) = M * x + M * y /\ M * x \in Nat /\ M * x = x * M
  BY SMT
<1>2. x <= y => M * x <= M * y
  BY SMT
<1> QED  BY <1>1, <1>2

\* A number has one quotient and one remainder.
LEMMA Quotient ==
  ASSUME NEW n \in Nat, NEW M \in Nat \ {0}, NEW q \in Nat, NEW r \in 0..(M - 1),
         n = M * q + r
  PROVE  q = n \div M
<1>1. /\ n \div M \in Nat /\ n % M \in 0..(M - 1)
      /\ n = M * (n \div M) + (n % M)
  BY DivisionFacts
<1>2. ASSUME NEW a \in Nat, NEW b \in Nat, NEW c \in 0..(M - 1), NEW d \in 0..(M - 1),
             M * a + c = M * b + d, a < b
      PROVE FALSE
  <2>1. M * (a + 1) <= M * b /\ M * (a + 1) = M * a + M * 1 /\ M * 1 = M
    BY <1>2, Distributes
  <2>2. M * a \in Nat /\ M * b \in Nat
    BY Distributes
  <2> QED
    BY <1>2, <2>1, <2>2
<1>3. ~ (q < n \div M) /\ ~ (n \div M < q)
  BY <1>1, <1>2
<1> QED
  BY <1>1, <1>3

\* A number of three digits is what Digits makes of them.
LEMMA ThreeDigits ==
  ASSUME NEW M \in Nat \ {0}, NEW n \in Nat, n < M * M * M
  PROVE  /\ n \div (M * M) \in 0..(M - 1)
         /\ (n \div M) % M \in 0..(M - 1)
         /\ n % M \in 0..(M - 1)
         /\ ((n \div (M * M)) * M + ((n \div M) % M)) * M + (n % M) = n
<1> DEFINE a == n \div M
           b == a \div M
           d == a % M
           e == n % M
           Q == M * M
<1>1. /\ a \in Nat /\ e \in 0..(M - 1) /\ n = M * a + e
      /\ b \in Nat /\ d \in 0..(M - 1) /\ a = M * b + d
  BY DivisionFacts
<1>2. Q \in Nat \ {0} /\ M * (M - 1) = Q - M /\ n < Q * M
  BY SMT
<1>3. ASSUME NEW x \in Nat PROVE M * (M * x) = Q * x
  BY SMT
<1> SUFFICES /\ n \div Q \in 0..(M - 1)
             /\ d \in 0..(M - 1)
             /\ e \in 0..(M - 1)
             /\ ((n \div Q) * M + d) * M + e = n
  OBVIOUS
<1> HIDE DEF a, b, d, e, Q
<1>4. M * d \in Nat /\ M * d <= M * (M - 1)
  BY <1>1, Distributes
<1>5. n = Q * b + (M * d + e)
  <2>1. M * b \in Nat
    BY <1>1, Distributes
  <2>2. M * a = M * (M * b) + M * d
    BY <1>1, <2>1, Distributes
  <2>3. M * (M * b) = Q * b /\ Q * b \in Nat
    BY <1>1, <1>2, <1>3, Distributes
  <2> QED
    BY <1>1, <1>4, <2>2, <2>3
<1>6. M * d + e \in 0..(Q - 1)
  BY <1>1, <1>2, <1>4
<1>7. b = n \div Q
  BY <1>1, <1>2, <1>5, <1>6, Quotient
<1>8. b \in 0..(M - 1)
  <2>1. SUFFICES ASSUME M <= b PROVE FALSE
    BY <1>1
  <2>2. Q * M <= Q * b
    BY <1>1, <1>2, <2>1, Distributes
  <2>3. Q * b \in Nat /\ Q * M \in Nat
    BY <1>1, <1>2, Distributes
  <2> QED
    BY <1>2, <1>5, <1>6, <2>2, <2>3
<1>9. (b * M + d) * M + e = n
  <2>1. b * M + d = a
    BY <1>1, Distributes
  <2>2. a * M = M * a
    BY <1>1, Distributes
  <2> QED
    BY <1>1, <2>1, <2>2
<1> QED
  BY <1>1, <1>7, <1>8, <1>9

State(m, c) == IF IsUsed(m, c) THEN used ELSE unused
Overflow(s) == IF s = used THEN usedOvfl ELSE unusedOvfl

\* Three bytes have the digits of n.
HasDigits(m, first, n) ==
  /\ m[first] = unused + n \div (MaxDistance * MaxDistance)
  /\ m[first + 1] = unused + ((n \div MaxDistance) % MaxDistance)
  /\ m[first + 2] = unused + (n % MaxDistance)

\* The first and last bytes of a chunk.
Ends(m, c, n, s) ==
  IF n < maxOneByteLen THEN m[c] = s + n - 1 /\ m[c + n - 1] = s + n - 1
  ELSE /\ m[c] = Overflow(s) /\ m[c + n - 1] = Overflow(s)
       /\ HasDigits(m, c + 1, n) /\ HasDigits(m, c + n - 4, n)

\* Those between.
Trail(m, c, n, s) ==
  LET h == headerSize(n) IN
  /\ h < n - h => m[c + h] = h
  /\ s = used => \A i \in h..(n - h - 1) : m[c + i] = Distance(i)

Marked(m, c, n, s) == Ends(m, c, n, s) /\ Trail(m, c, n, s)

\* The bytes with a meaning, as numbers.
LEMMA Bytes ==
  /\ MaxDistance \in Nat \ {0} /\ maxOneByteLen \in Nat
  /\ 8 < maxOneByteLen /\ maxOneByteLen <= MaxDistance
  /\ MaxDistance <= 2 * maxOneByteLen + 4
  /\ unused = MaxDistance /\ unusedOvfl = MaxDistance + maxOneByteLen
  /\ used = MaxDistance + maxOneByteLen + 2
  /\ usedOvfl = MaxDistance + 2 * maxOneByteLen + 2
  /\ invalid = MaxDistance + 2 * maxOneByteLen + 3
  /\ Byte = 0..invalid
BY ChunkMapAssumption DEF unused, unusedOvfl, used, usedOvfl, invalid, maxHeaderSize, Byte

\* Three bytes with the digits of a size are read as that size.
LEMMA DigitsFacts ==
  ASSUME NEW m, NEW p \in Int, NEW n \in Nat, n < MaxDistance * MaxDistance * MaxDistance,
         HasDigits(m, p, n)
  PROVE  /\ Digits(m, p) = n
         /\ \A i \in 0..2 : m[p + i] >= MaxDistance /\ m[p + i] \in Byte
<1> DEFINE K == MaxDistance
           a == n \div (K * K)
           b == (n \div K) % K
           d == n % K
<1>1. K \in Nat \ {0} /\ n < K * K * K
  BY Bytes
<1>2. /\ a \in 0..(K - 1) /\ b \in 0..(K - 1) /\ d \in 0..(K - 1)
      /\ (a * K + b) * K + d = n
  BY <1>1, ThreeDigits
<1>3. m[p] = unused + a /\ m[p + 1] = unused + b /\ m[p + 2] = unused + d
  BY DEF HasDigits
<1>4. p + 0 = p /\ unused \in Nat /\ K = MaxDistance
  BY Bytes
<1> HIDE DEF a, b, d, K
<1>5. Digits(m, p) = n
  <2>1. m[p + 0] - unused = a /\ m[p + 1] - unused = b /\ m[p + 2] - unused = d
    BY <1>2, <1>3, <1>4
  <2> QED
    BY <1>2, <1>4, <2>1 DEF Digits
<1>6. \A i \in 0..2 : m[p + i] >= MaxDistance /\ m[p + i] \in Byte
  BY <1>1, <1>2, <1>3, <1>4, Bytes
<1> QED  BY <1>5, <1>6

\* What the header and the trailer of a chunk say, from either side.
LEMMA EndsFacts ==
  ASSUME NEW m, NEW c \in Int, NEW n \in Nat \ {0}, NEW s \in {used, unused},
         n < MaxDistance * MaxDistance * MaxDistance, Ends(m, c, n, s)
  PROVE  /\ IsUsed(m, c) <=> s = used
         /\ size(m, c) = n /\ next(m, c) = c + n
         /\ prev(m, c + n) = c
         /\ isValid(m, c)
         /\ m[c] \in Byte /\ m[c] >= MaxDistance /\ m[c] # invalid
         /\ \A i \in 0..(headerSize(n) - 1) : m[c + i] >= MaxDistance
         /\ \A i \in (n - headerSize(n))..(n - 1) : m[c + i] >= MaxDistance
<1>1. s \in Nat /\ used # unused
  BY Bytes
<1>2. CASE n < maxOneByteLen
  <2>1. m[c] = s + n - 1 /\ m[c + n - 1] = s + n - 1 /\ headerSize(n) = 1
    BY <1>2 DEF Ends, headerSize, minHeaderSize
  <2>2. /\ IsUsed(m, c) <=> s = used
        /\ IsUsed(m, c + n - 1) <=> s = used
    BY <1>2, <2>1, Bytes DEF IsUsed
  <2>3. m[c] # Ovfl(m, c) /\ m[c + n - 1] # Ovfl(m, c + n - 1)
    BY <1>2, <2>1, <2>2, Bytes DEF Ovfl
  <2>4. size(m, c) = n /\ size(m, c + n - 1) = n
    BY <1>1, <2>1, <2>2, <2>3, Bytes DEF size
  <2>5. next(m, c) = c + n /\ prev(m, c + n) = c
    BY <2>3, <2>4 DEF next, prev
  <2>6. /\ m[c] \in Byte /\ m[c] >= MaxDistance /\ m[c] # invalid
        /\ m[c + n - 1] >= MaxDistance
    BY <1>2, <2>1, Bytes
  <2>7. isValid(m, c)
    BY <2>1, <2>3, <2>5, <2>6 DEF isValid
  <2> QED
    BY <2>1, <2>2, <2>4, <2>5, <2>6, <2>7
<1>3. CASE ~(n < maxOneByteLen)
  <2>1. /\ m[c] = Overflow(s) /\ m[c + n - 1] = Overflow(s) /\ headerSize(n) = 4
        /\ HasDigits(m, c + 1, n) /\ HasDigits(m, c + n - 4, n)
    BY <1>3 DEF Ends, headerSize, maxHeaderSize
  <2>2. /\ IsUsed(m, c) <=> s = used
        /\ IsUsed(m, c + n - 1) <=> s = used
    BY <2>1, Bytes DEF IsUsed, Overflow
  <2>3. m[c] = Ovfl(m, c) /\ m[c + n - 1] = Ovfl(m, c + n - 1)
    BY <2>1, <2>2, Bytes DEF Ovfl, Overflow
  <2>4. /\ Digits(m, c + 1) = n /\ Digits(m, c + n - 4) = n
        /\ \A i \in 0..2 : m[c + 1 + i] >= MaxDistance /\ m[c + n - 4 + i] >= MaxDistance
    BY <2>1, DigitsFacts
  <2>5. size(m, c) = n
    BY <2>3, <2>4 DEF size
  <2>6. next(m, c) = c + n /\ prev(m, c + n) = c
    BY <2>3, <2>4, <2>5 DEF next, prev
  <2>7. m[c] \in Byte /\ m[c] >= MaxDistance /\ m[c] # invalid
    BY <1>1, <2>1, Bytes DEF Overflow
  <2>8. isValid(m, c)
    <3>1. \A i \in 1..3 : m[c + i] = m[c + n - 4 + (i - 1)]
      <4>1. /\ m[c + 1] = m[c + n - 4] /\ m[c + 1 + 1] = m[c + n - 4 + 1]
            /\ m[c + 1 + 2] = m[c + n - 4 + 2]
        BY <2>1 DEF HasDigits
      <4> QED  BY <4>1
    <3>2. \A i \in 1..3 : m[c + i] = m[(next(m, c) - 1) - 4 + i]
      BY <2>6, <3>1
    <3>3. m[c] = m[next(m, c) - 1]
      BY <2>1, <2>6
    <3> QED
      BY <2>7, <3>2, <3>3 DEF isValid
  <2>9. \A i \in 0..3 : m[c + i] >= MaxDistance
    <3>1. /\ m[c + 1] >= MaxDistance /\ m[c + 2] >= MaxDistance /\ m[c + 3] >= MaxDistance
      BY <2>4
    <3> QED  BY <2>7, <3>1
  <2>10. \A i \in (n - 4)..(n - 1) : m[c + i] >= MaxDistance
    <3>1. /\ m[c + n - 4] >= MaxDistance /\ m[c + n - 3] >= MaxDistance
          /\ m[c + n - 2] >= MaxDistance /\ m[c + n - 1] >= MaxDistance
      BY <2>1, <2>4, <2>7
    <3>2. ASSUME NEW i \in (n - 4)..(n - 1) PROVE i \in {n - 4, n - 3, n - 2, n - 1}
      OBVIOUS
    <3> QED  BY <3>1, <3>2
  <2> QED
    BY <2>1, <2>2, <2>5, <2>6, <2>7, <2>8, <2>9, <2>10
<1> QED  BY <1>2, <1>3

\* markSize writes them, and the distances between, and nothing else.
LEMMA MarkSizeMarks ==
  ASSUME NEW D, NEW m \in [D -> Byte],
         NEW c \in Int, NEW n \in Nat \ {0}, NEW s \in {used, unused},
         n < MaxDistance * MaxDistance * MaxDistance, c..(c + n - 1) \subseteq D
  PROVE  LET w == markSize(m, c, n, s) IN
         /\ Marked(w, c, n, s)
         /\ \A b \in D \ (c..(c + n - 1)) : w[b] = m[b]
         /\ w \in [D -> Byte]
<1> DEFINE w == markSize(m, c, n, s)
           h == headerSize(n)
           head == Header(n, s)
           K == MaxDistance
           Part(i) ==
             IF i < h THEN head[i + 1]
             ELSE IF i = n - 1 THEN head[1]
             ELSE IF i >= n - h THEN head[i - n + h + 2]
             ELSE IF s = used THEN Distance(i)
             ELSE IF i = h THEN h
             ELSE m[c + i]
<1>0. DOMAIN m = D
  OBVIOUS
<1>1. /\ DOMAIN w = DOMAIN m
      /\ w = [b \in DOMAIN m |-> IF b \in c..(c + n - 1) THEN Part(b - c) ELSE m[b]]
  BY DEF markSize
<1>2. \A b \in DOMAIN m \ (c..(c + n - 1)) : w[b] = m[b]
  BY <1>1
<1>3. ASSUME NEW i \in 0..(n - 1) PROVE w[c + i] = Part(i) /\ c + i \in DOMAIN m
  <2>1. c + i \in c..(c + n - 1) /\ (c + i) - c = i /\ c + i \in DOMAIN m
    BY <1>0
  <2> QED  BY <1>1, <2>1
<1>4. \A i \in Nat : Distance(i) \in 0..(K - 1)
  BY Bytes DEF Distance, maxHeaderSize
<1>a. h \in {1, 4} /\ (h = 4 <=> ~(n < maxOneByteLen))
  BY DEF headerSize, minHeaderSize, maxHeaderSize
<1>d. \A x \in 0..(K - 1) : x \in Byte
  BY Bytes
<1> HIDE DEF w, head
<1>5. /\ Ends(w, c, n, s)
      /\ \A i \in 0..(n - 1) : i < h \/ i >= n - h => Part(i) \in Byte
  <2>1. CASE n < maxOneByteLen
    <3>1. h = 1 /\ head[1] = s + n - 1
      BY <2>1 DEF headerSize, minHeaderSize, Header, head
    <3>2. Part(0) = s + n - 1 /\ Part(n - 1) = s + n - 1
      BY <3>1
    <3>3. w[c] = s + n - 1 /\ w[c + n - 1] = s + n - 1
      BY <1>3, <3>2
    <3>4. s + n - 1 \in Byte
      BY <2>1, Bytes
    <3> QED  BY <2>1, <3>1, <3>2, <3>3, <3>4 DEF Ends
  <2>2. CASE ~(n < maxOneByteLen)
    <3> DEFINE a == n \div (K * K)
               b == (n \div K) % K
               d == n % K
    <3>1. /\ h = 4 /\ n > 8
          /\ head[1] = Overflow(s) /\ head[2] = unused + a
          /\ head[3] = unused + b /\ head[4] = unused + d
      BY <2>2, Bytes DEF headerSize, maxHeaderSize, Header, head, Overflow
    <3>2. a \in 0..(K - 1) /\ b \in 0..(K - 1) /\ d \in 0..(K - 1)
      BY ThreeDigits, Bytes
    <3>3. head[1] \in Byte /\ head[2] \in Byte /\ head[3] \in Byte /\ head[4] \in Byte
      <4> HIDE DEF a, b, d
      <4> QED  BY <3>1, <3>2, Bytes DEF Overflow
    <3> HIDE DEF a, b, d
    <3>4. /\ Part(0) = head[1] /\ Part(1) = head[2] /\ Part(2) = head[3]
          /\ Part(3) = head[4] /\ Part(n - 1) = head[1] /\ Part(n - 4) = head[2]
          /\ Part(n - 3) = head[3] /\ Part(n - 2) = head[4]
      BY <3>1
    <3>5. /\ w[c] = head[1] /\ w[c + 1] = head[2] /\ w[c + 2] = head[3]
          /\ w[c + 3] = head[4] /\ w[c + n - 1] = head[1] /\ w[c + n - 4] = head[2]
          /\ w[c + n - 3] = head[3] /\ w[c + n - 2] = head[4]
      <4>1. 0 \in 0..(n - 1) /\ 1 \in 0..(n - 1) /\ 2 \in 0..(n - 1) /\ 3 \in 0..(n - 1)
        BY <3>1
      <4>2. /\ n - 1 \in 0..(n - 1) /\ n - 4 \in 0..(n - 1)
            /\ n - 3 \in 0..(n - 1) /\ n - 2 \in 0..(n - 1)
        BY <3>1
      <4>3. /\ w[c + 0] = head[1] /\ w[c + 1] = head[2] /\ w[c + 2] = head[3]
            /\ w[c + 3] = head[4]
        BY <1>3, <3>4, <4>1
      <4>4. /\ w[c + (n - 1)] = head[1] /\ w[c + (n - 4)] = head[2]
            /\ w[c + (n - 3)] = head[3] /\ w[c + (n - 2)] = head[4]
        BY <1>3, <3>4, <4>2
      <4>5. /\ c + 0 = c /\ c + (n - 1) = c + n - 1 /\ c + (n - 4) = c + n - 4
            /\ c + (n - 3) = c + n - 3 /\ c + (n - 2) = c + n - 2
        OBVIOUS
      <4> QED  BY <4>3, <4>4, <4>5
    <3>6. /\ (c + 1) + 1 = c + 2 /\ (c + 1) + 2 = c + 3
          /\ (c + n - 4) + 1 = c + n - 3 /\ (c + n - 4) + 2 = c + n - 2
      OBVIOUS
    <3>7. Ends(w, c, n, s)
      <4> HIDE DEF Part
      <4>1. HasDigits(w, c + 1, n) /\ HasDigits(w, c + n - 4, n)
        BY <3>1, <3>5, <3>6 DEF HasDigits, a, b, d
      <4> QED  BY <2>2, <3>1, <3>5, <4>1 DEF Ends
    <3>8. ASSUME NEW i \in 0..(n - 1), i < h \/ i >= n - h PROVE Part(i) \in Byte
      <4>1. i \in {0, 1, 2, 3, n - 4, n - 3, n - 2, n - 1}
        BY <3>1, <3>8
      <4> QED  BY <3>3, <3>4, <4>1
    <3> QED  BY <3>7, <3>8
  <2> QED  BY <2>1, <2>2
<1>6. Trail(w, c, n, s)
  <2>1. ASSUME h < n - h PROVE w[c + h] = h
    <3>1. h \in 0..(n - 1) /\ h # n - 1 /\ ~(h >= n - h) /\ ~(h < h)
      BY <1>a, <2>1
    <3>2. Distance(h) = h
      BY <1>a, Bytes DEF Distance
    <3> QED  BY <1>3, <3>1, <3>2
  <2>2. ASSUME s = used, NEW i \in h..(n - h - 1) PROVE w[c + i] = Distance(i)
    <3>1. i \in 0..(n - 1) /\ i # n - 1 /\ ~(i >= n - h) /\ ~(i < h)
      BY <1>a, <2>2
    <3> QED  BY <1>3, <2>2, <3>1
  <2> QED  BY <2>1, <2>2 DEF Trail
<1>7. w \in [D -> Byte]
  <2>1. DOMAIN m = D
    BY <1>0
  <2>2. ASSUME NEW b \in D PROVE w[b] \in Byte
    <3>1. CASE b \notin c..(c + n - 1)
      BY <1>2, <2>1, <3>1
    <3>2. CASE b \in c..(c + n - 1)
      <4> DEFINE i == b - c
      <4>1. i \in 0..(n - 1) /\ c + i = b
        BY <3>2
      <4> HIDE DEF i
      <4>2. w[b] = Part(i)
        BY <1>3, <4>1
      <4>3. CASE i < h \/ i >= n - h
        BY <1>5, <4>1, <4>2, <4>3
      <4>4. CASE ~(i < h \/ i >= n - h)
        <5>1. Part(i) = IF s = used THEN Distance(i) ELSE IF i = h THEN h ELSE m[c + i]
          BY <1>a, <4>1, <4>4
        <5>2. h \in 0..(K - 1) /\ Distance(i) \in 0..(K - 1)
          <6>1. h \in 0..(K - 1)
            BY <1>a, Bytes
          <6>2. i \in Nat
            BY <4>1
          <6> QED  BY <1>4, <6>1, <6>2
        <5>3. m[c + i] \in Byte
          BY <4>1
        <5> QED  BY <1>d, <4>2, <5>1, <5>2, <5>3
      <4> QED  BY <4>3, <4>4
    <3> QED  BY <3>1, <3>2
  <2>3. w = [b \in D |-> w[b]]
    BY <1>1, <2>1 DEF w
  <2> QED  BY <2>2, <2>3
<1> QED
  BY <1>0, <1>2, <1>5, <1>6, <1>7 DEF Marked, w

-----------------------------------------------------------------------------
(* Chunks that fill an interval of the map.                                *)

\* A chunk starts at c.
Tile(m, c) == size(m, c) \in 1..(N - c) /\ Marked(m, c, size(m, c), State(m, c))

\* The chunks that start at C fill the blocks from a up to e.
Tiles(m, C, a, e) ==
  /\ C \subseteq a..(e - 1)
  /\ a < e => a \in C
  /\ \A c \in C : /\ Tile(m, c)
                  /\ next(m, c) \in C \cup {e}
                  /\ \A d \in C : ~ (c < d /\ d < next(m, c))

\* Every size up to that of the heap has three digits.
LEMMA Sizeable == N \in Nat \ {0} /\ \A n \in 1..N : n < MaxDistance * MaxDistance * MaxDistance
<1>1. N \in Nat \ {0} /\ N < MaxDistance * MaxDistance * MaxDistance
  BY ZoneHeapAssumption
<1>2. MaxDistance * MaxDistance * MaxDistance \in Nat
  BY Bytes
<1> HIDE DEF Blocks
<1> QED
  BY <1>1, <1>2

\* A chunk as it is read, from its start.
LEMMA TileFacts ==
  ASSUME NEW m, NEW c \in Blocks, Tile(m, c)
  PROVE  /\ size(m, c) \in 1..(N - c) /\ size(m, c) \in Nat \ {0}
         /\ next(m, c) = c + size(m, c) /\ next(m, c) \in (c + 1)..N
         /\ prev(m, next(m, c)) = c
         /\ isValid(m, c)
         /\ m[c] >= MaxDistance /\ m[c] # invalid
         /\ \A i \in 0..(headerSize(size(m, c)) - 1) : m[c + i] >= MaxDistance
         /\ \A i \in (size(m, c) - headerSize(size(m, c)))..(size(m, c) - 1) :
              m[c + i] >= MaxDistance
         /\ Marked(m, c, size(m, c), State(m, c))
<1> DEFINE n == size(m, c)
<1>1. n \in 1..(N - c) /\ Marked(m, c, n, State(m, c)) /\ Ends(m, c, n, State(m, c))
  BY DEF Tile, Marked
<1>2. c \in Int /\ c + n <= N /\ n \in 1..N /\ n \in Nat \ {0}
  BY <1>1, Sizeable DEF Blocks
<1>3. State(m, c) \in {used, unused} /\ n < MaxDistance * MaxDistance * MaxDistance
  BY <1>2, Sizeable DEF State
<1> HIDE DEF n
<1>4. /\ size(m, c) = n /\ next(m, c) = c + n
      /\ prev(m, c + n) = c
      /\ isValid(m, c)
      /\ m[c] >= MaxDistance /\ m[c] # invalid
      /\ \A i \in 0..(headerSize(n) - 1) : m[c + i] >= MaxDistance
      /\ \A i \in (n - headerSize(n))..(n - 1) : m[c + i] >= MaxDistance
  BY <1>1, <1>2, <1>3, EndsFacts
<1>5. next(m, c) \in (c + 1)..N
  BY <1>2, <1>4, Sizeable DEF Blocks
<1> QED  BY <1>1, <1>2, <1>4, <1>5

\* What markSize has marked is a chunk.
LEMMA MarkedTile ==
  ASSUME NEW m, NEW c \in Blocks, NEW n \in 1..(N - c), NEW s \in {used, unused},
         Marked(m, c, n, s)
  PROVE  /\ Tile(m, c) /\ size(m, c) = n /\ next(m, c) = c + n
         /\ IsUsed(m, c) <=> s = used
<1>1. c \in Int /\ n \in 1..N /\ n \in Nat \ {0}
  BY Sizeable DEF Blocks
<1>2. size(m, c) = n /\ next(m, c) = c + n /\ (IsUsed(m, c) <=> s = used)
  BY <1>1, Sizeable, EndsFacts DEF Marked
<1>3. State(m, c) = s
  BY <1>2 DEF State
<1> QED  BY <1>2, <1>3 DEF Tile

\* A chunk is the same in a map that agrees on its blocks.
LEMMA TileSame ==
  ASSUME NEW m, NEW w, NEW c \in Blocks, Tile(m, c),
         \A b \in c..(next(m, c) - 1) : w[b] = m[b]
  PROVE  /\ Tile(w, c) /\ size(w, c) = size(m, c) /\ next(w, c) = next(m, c)
         /\ IsUsed(w, c) <=> IsUsed(m, c)
<1> DEFINE n == size(m, c)
           s == State(m, c)
           h == headerSize(n)
<1>1. n \in 1..(N - c) /\ n \in Nat \ {0} /\ next(m, c) = c + n /\ Marked(m, c, n, s)
  BY TileFacts
<1>2. c \in Int
  BY Sizeable DEF Blocks
<1>3. \A i \in 0..(n - 1) : w[c + i] = m[c + i]
  BY <1>1, <1>2
<1>4. s \in {used, unused} /\ (s = used <=> IsUsed(m, c))
  <2>1. used # unused
    BY Bytes
  <2> QED  BY <2>1, Zenon DEF State
<1>5. /\ h \in {1, 4} /\ (h = 4 <=> ~(n < maxOneByteLen)) /\ 8 < maxOneByteLen
      /\ maxOneByteLen \in Nat
  BY Bytes DEF headerSize, minHeaderSize, maxHeaderSize
<1> HIDE DEF n, s, h
<1>6. Ends(w, c, n, s)
  <2>1. Ends(m, c, n, s)
    BY <1>1 DEF Marked
  <2>2. w[c] = m[c] /\ w[c + n - 1] = m[c + n - 1]
    <3>1. 0 \in 0..(n - 1) /\ n - 1 \in 0..(n - 1)
      BY <1>1
    <3>2. c + 0 = c /\ c + (n - 1) = c + n - 1
      BY <1>1, <1>2
    <3> QED  BY <1>3, <3>1, <3>2
  <2>3. ASSUME ~(n < maxOneByteLen)
        PROVE  /\ HasDigits(w, c + 1, n) <=> HasDigits(m, c + 1, n)
               /\ HasDigits(w, c + n - 4, n) <=> HasDigits(m, c + n - 4, n)
    <3>1. \A i \in {1, 2, 3, n - 4, n - 3, n - 2} : w[c + i] = m[c + i]
      BY <1>1, <1>3, <1>5, <2>3
    <3>2. /\ (c + 1) + 1 = c + 2 /\ (c + 1) + 2 = c + 3 /\ c + n - 4 = c + (n - 4)
          /\ (c + n - 4) + 1 = c + (n - 3) /\ (c + n - 4) + 2 = c + (n - 2)
      BY <1>1, <1>2
    <3> QED  BY <3>1, <3>2 DEF HasDigits
  <2> QED  BY <2>1, <2>2, <2>3 DEF Ends
<1>7. Trail(w, c, n, s)
  <2>1. /\ h < n - h => m[c + h] = h
        /\ s = used => \A i \in h..(n - h - 1) : m[c + i] = Distance(i)
    BY <1>1 DEF Marked, Trail, h
  <2>2. h < n - h => h \in 0..(n - 1)
    BY <1>1, <1>5
  <2>3. \A i \in h..(n - h - 1) : i \in 0..(n - 1)
    BY <1>1, <1>5
  <2>4. h < n - h => w[c + h] = h
    BY <1>3, <2>1, <2>2
  <2>5. s = used => \A i \in h..(n - h - 1) : w[c + i] = Distance(i)
    BY <1>3, <2>1, <2>3
  <2> QED  BY <2>4, <2>5 DEF Trail, h
<1>8. /\ Tile(w, c) /\ size(w, c) = n /\ next(w, c) = c + n
      /\ IsUsed(w, c) <=> s = used
  BY <1>1, <1>4, <1>6, <1>7, MarkedTile DEF Marked
<1> QED  BY <1>1, <1>4, <1>8 DEF n

\* One of the chunks that fill an interval.
LEMMA TilesFacts ==
  ASSUME NEW m, NEW C, NEW a \in 0..N, NEW e \in a..N, Tiles(m, C, a, e), NEW c \in C
  PROVE  /\ c \in Blocks /\ c \in a..(e - 1) /\ next(m, c) \in (c + 1)..e
         /\ next(m, c) \in C \cup {e} /\ Tile(m, c)
         /\ next(m, c) = c + size(m, c) /\ size(m, c) \in Nat \ {0}
<1>1. c \in a..(e - 1) /\ c \in Blocks
  BY Sizeable DEF Tiles, Blocks
<1>2. Tile(m, c) /\ next(m, c) \in C \cup {e}
  BY DEF Tiles
<1>3. next(m, c) \in (c + 1)..N /\ next(m, c) = c + size(m, c) /\ size(m, c) \in Nat \ {0}
  BY <1>1, <1>2, TileFacts
<1>4. C \subseteq a..(e - 1)
  BY DEF Tiles
<1> QED  BY <1>1, <1>2, <1>3, <1>4

\* Chunks that fill adjacent intervals fill the whole.
LEMMA TilesJoin ==
  ASSUME NEW m, NEW C, NEW D, NEW a \in 0..N, NEW b \in a..N, NEW e \in b..N,
         Tiles(m, C, a, b), Tiles(m, D, b, e)
  PROVE  Tiles(m, C \cup D, a, e)
<1>1. C \cup D \subseteq a..(e - 1) /\ (a < e => a \in C \cup D)
  BY Sizeable DEF Tiles
<1>2. ASSUME NEW c \in C
      PROVE  /\ Tile(m, c) /\ next(m, c) \in (C \cup D) \cup {e}
             /\ \A d \in C \cup D : ~ (c < d /\ d < next(m, c))
  <2>1. Tile(m, c) /\ next(m, c) \in (c + 1)..b /\ next(m, c) \in C \cup {b}
    BY <1>2, TilesFacts
  <2>2. b < e => b \in D
    BY DEF Tiles
  <2>3. \A d \in D : d \in b..(e - 1)
    BY DEF Tiles
  <2>4. \A d \in C : ~ (c < d /\ d < next(m, c))
    BY DEF Tiles
  <2> QED  BY <2>1, <2>2, <2>3, <2>4, Sizeable
<1>3. ASSUME NEW c \in D
      PROVE  /\ Tile(m, c) /\ next(m, c) \in (C \cup D) \cup {e}
             /\ \A d \in C \cup D : ~ (c < d /\ d < next(m, c))
  <2>1. Tile(m, c) /\ next(m, c) \in D \cup {e} /\ c \in b..(e - 1)
    <3>1. b \in 0..N
      BY Sizeable
    <3> QED  BY <1>3, <3>1, TilesFacts
  <2>2. \A d \in C : d \in a..(b - 1)
    BY DEF Tiles
  <2>3. \A d \in D : ~ (c < d /\ d < next(m, c))
    BY DEF Tiles
  <2>4. a \in Int /\ b \in Int /\ e \in Int
    BY Sizeable
  <2>5. \A d \in C : ~ (c < d)
    BY <2>1, <2>2, <2>4
  <2> QED  BY <2>1, <2>3, <2>5
<1> QED  BY <1>1, <1>2, <1>3 DEF Tiles

\* An interval that is filled may be parted where a chunk starts.
LEMMA TilesPart ==
  ASSUME NEW m, NEW C, NEW a \in 0..N, NEW e \in a..N, Tiles(m, C, a, e),
         NEW b \in C \cup {e}
  PROVE  /\ b \in a..e
         /\ Tiles(m, C \cap (a..(b - 1)), a, b)
         /\ Tiles(m, C \cap (b..(e - 1)), b, e)
         /\ C = (C \cap (a..(b - 1))) \cup (C \cap (b..(e - 1)))
<1>1. b \in a..e /\ C \subseteq a..(e - 1)
  BY Sizeable DEF Tiles
<1>2. C = (C \cap (a..(b - 1))) \cup (C \cap (b..(e - 1)))
  <2>1. a \in Int /\ b \in Int /\ e \in Int
    BY <1>1, Sizeable
  <2>2. ASSUME NEW c \in C PROVE c \in a..(b - 1) \/ c \in b..(e - 1)
    <3>1. c \in a..(e - 1)
      BY <1>1
    <3> QED  BY <2>1, <3>1
  <2> QED  BY <2>2
<1>3. Tiles(m, C \cap (a..(b - 1)), a, b)
  <2>1. a < b => a \in C \cap (a..(b - 1))
    BY <1>1, Sizeable DEF Tiles
  <2>2. ASSUME NEW c \in C, c \in a..(b - 1)
        PROVE  /\ Tile(m, c) /\ next(m, c) \in (C \cap (a..(b - 1))) \cup {b}
               /\ \A d \in C : ~ (c < d /\ d < next(m, c))
    <3>1. Tile(m, c) /\ next(m, c) \in (c + 1)..e /\ next(m, c) \in C \cup {e}
      BY TilesFacts
    <3>2. \A d \in C : ~ (c < d /\ d < next(m, c))
      BY DEF Tiles
    <3>3. next(m, c) <= b
      BY <1>1, <2>2, <3>1, <3>2, Sizeable
    <3> QED  BY <1>1, <2>2, <3>1, <3>2, <3>3, Sizeable
  <2> QED  BY <2>1, <2>2 DEF Tiles
<1>4. Tiles(m, C \cap (b..(e - 1)), b, e)
  <2>1. b < e => b \in C \cap (b..(e - 1))
    BY <1>1, Sizeable
  <2>2. ASSUME NEW c \in C, c \in b..(e - 1)
        PROVE  /\ Tile(m, c) /\ next(m, c) \in (C \cap (b..(e - 1))) \cup {e}
               /\ \A d \in C : ~ (c < d /\ d < next(m, c))
    <3>1. Tile(m, c) /\ next(m, c) \in (c + 1)..e /\ next(m, c) \in C \cup {e}
      BY TilesFacts
    <3>2. \A d \in C : ~ (c < d /\ d < next(m, c))
      BY DEF Tiles
    <3> QED  BY <1>1, <2>2, <3>1, <3>2, Sizeable
  <2> QED  BY <2>1, <2>2 DEF Tiles
<1> QED  BY <1>1, <1>2, <1>3, <1>4

\* Chunks are the same in a map that agrees on the interval they fill.
LEMMA TilesSame ==
  ASSUME NEW m, NEW w, NEW C, NEW a \in 0..N, NEW e \in a..N, Tiles(m, C, a, e),
         \A b \in a..(e - 1) : w[b] = m[b]
  PROVE  /\ Tiles(w, C, a, e)
         /\ \A c \in C : /\ size(w, c) = size(m, c) /\ next(w, c) = next(m, c)
                         /\ IsUsed(w, c) <=> IsUsed(m, c)
<1>1. ASSUME NEW c \in C
      PROVE  /\ Tile(w, c) /\ size(w, c) = size(m, c) /\ next(w, c) = next(m, c)
             /\ IsUsed(w, c) <=> IsUsed(m, c)
  <2>1. c \in Blocks /\ c \in a..(e - 1) /\ next(m, c) \in (c + 1)..e /\ Tile(m, c)
    BY TilesFacts
  <2>2. \A b \in c..(next(m, c) - 1) : w[b] = m[b]
    BY <2>1, Sizeable
  <2> QED  BY <2>1, <2>2, TileSame
<1> QED  BY <1>1 DEF Tiles

\* One chunk fills its own blocks.
LEMMA TilesOne ==
  ASSUME NEW m, NEW c \in Blocks, Tile(m, c)
  PROVE  Tiles(m, {c}, c, next(m, c))
<1>1. next(m, c) \in (c + 1)..N /\ c \in Int
  BY TileFacts, Sizeable DEF Blocks
<1> QED  BY <1>1 DEF Tiles

\* No chunks fill no blocks.
LEMMA TilesNone ==
  ASSUME NEW m, NEW a \in 0..N
  PROVE  Tiles(m, {}, a, a)
BY Sizeable DEF Tiles

\* Every block is in a chunk.
LEMMA TileOf ==
  ASSUME NEW m, NEW C, NEW a \in 0..N, NEW e \in a..N, Tiles(m, C, a, e),
         NEW b \in a..(e - 1)
  PROVE  \E c \in C : c <= b /\ b < next(m, c)
<1> DEFINE Dist == {b - c : c \in {x \in C : x <= b}}
<1>1. C \subseteq a..(e - 1) /\ a \in C /\ a \in Int /\ b \in Int /\ a <= b
  BY Sizeable DEF Tiles
<1>2. Dist \in SUBSET Nat /\ Dist # {}
  BY <1>1
<1>3. PICK d \in Dist : \A x \in Dist : d <= x
  BY <1>2, Least
<1>4. PICK c \in C : c <= b /\ d = b - c
  OBVIOUS
<1>5. \A x \in C : x <= b => x <= c
  BY <1>1, <1>3, <1>4
<1>6. next(m, c) \in (c + 1)..e /\ next(m, c) \in C \cup {e}
  BY TilesFacts
<1>7. b < next(m, c)
  BY <1>1, <1>4, <1>5, <1>6, Sizeable
<1> QED  BY <1>4, <1>7

\* The chunks of the map m are those that start at C.
Cut(m, C) ==
  /\ m \in [(-1)..N -> Byte] /\ m[-1] = used /\ m[N] = used
  /\ Tiles(m, C, 0, N)

\* The chunks of a map.
LEMMA CutFacts ==
  ASSUME NEW m, NEW C, Cut(m, C)
  PROVE  /\ m \in [(-1)..N -> Byte] /\ DOMAIN m = (-1)..N
         /\ IsUsed(m, N) /\ N \in UsedIn(m)
         /\ Tiles(m, C, 0, N) /\ 0 \in C /\ 0 \in 0..N /\ N \in 0..N
         /\ \A c \in C : /\ c \in Blocks /\ c \in Nat /\ Tile(m, c)
                         /\ next(m, c) = c + size(m, c) /\ next(m, c) \in Nat
                         /\ size(m, c) \in Nat \ {0} /\ size(m, c) \in 1..N
                         /\ next(m, c) \in C \cup {N}
                         /\ c < next(m, c) /\ next(m, c) <= N
                         /\ prev(m, next(m, c)) = c
                         /\ \A d \in C : d <= c \/ next(m, c) <= d
<1>1. Tiles(m, C, 0, N) /\ 0 \in 0..N /\ N \in 0..N /\ m \in [(-1)..N -> Byte]
  BY Sizeable DEF Cut
<1>2. IsUsed(m, N) /\ N \in UsedIn(m)
  BY Sizeable, Bytes DEF Cut, IsUsed, UsedIn
<1>3. 0 \in C
  BY Sizeable DEF Cut, Tiles
<1>4. ASSUME NEW c \in C
      PROVE  /\ c \in Blocks /\ c \in Nat /\ Tile(m, c)
             /\ next(m, c) = c + size(m, c) /\ next(m, c) \in Nat
             /\ size(m, c) \in Nat \ {0} /\ size(m, c) \in 1..N
             /\ next(m, c) \in C \cup {N}
             /\ c < next(m, c) /\ next(m, c) <= N
             /\ prev(m, next(m, c)) = c
             /\ \A d \in C : d <= c \/ next(m, c) <= d
  <2>1. /\ c \in Blocks /\ Tile(m, c) /\ next(m, c) \in (c + 1)..N
        /\ next(m, c) \in C \cup {N} /\ N \in Nat
    BY <1>1, TilesFacts, Sizeable
  <2>2. /\ next(m, c) = c + size(m, c) /\ size(m, c) \in Nat \ {0}
        /\ size(m, c) \in 1..(N - c) /\ prev(m, next(m, c)) = c /\ c \in 0..(N - 1)
    BY <2>1, TileFacts DEF Blocks
  <2>3. \A d \in C : d <= c \/ next(m, c) <= d
    <3>1. \A d \in C : ~ (c < d /\ d < next(m, c)) /\ d \in 0..(N - 1)
      BY <1>1 DEF Tiles
    <3> QED  BY <2>1, <2>2, <3>1
  <2>4. c \in Nat /\ next(m, c) \in Nat /\ c < next(m, c) /\ next(m, c) <= N
        /\ size(m, c) \in 1..N
    BY <2>1, <2>2
  <2> QED  BY <2>1, <2>2, <2>3, <2>4
<1> QED  BY <1>1, <1>2, <1>3, <1>4

\* Where chunks start.
LEMMA CutRange ==
  ASSUME NEW m, NEW C, Cut(m, C)
  PROVE  /\ N \in Nat \ {0} /\ DOMAIN m = (-1)..N
         /\ C \subseteq 0..(N - 1) /\ C \subseteq Nat /\ N \notin C
         /\ \A x \in C : x < N /\ x \in Nat /\ x \in (-1)..N
<1>1. C \subseteq 0..(N - 1) /\ m \in [(-1)..N -> Byte] /\ N \in Nat \ {0}
  BY Sizeable DEF Cut, Tiles
<1> QED  BY <1>1

\* Other chunks D take the place of those from a up to e.
LEMMA CutReplaced ==
  ASSUME NEW m, NEW C, Cut(m, C), NEW a \in C, NEW e \in C \cup {N}, a < e,
         NEW w \in [(-1)..N -> Byte], \A b \in (-1)..N : b \notin a..(e - 1) => w[b] = m[b],
         NEW D, Tiles(w, D, a, e)
  PROVE  /\ Cut(w, (C \ (a..(e - 1))) \cup D)
         /\ \A c \in C \ (a..(e - 1)) :
              /\ size(w, c) = size(m, c) /\ next(w, c) = next(m, c)
              /\ IsUsed(w, c) <=> IsUsed(m, c)
<1> DEFINE A == C \cap (0..(a - 1))
           B == C \cap (e..(N - 1))
<1>1. a \in 0..N /\ e \in a..N /\ a \in Nat /\ e \in Nat /\ N \in Nat /\ a \in 0..e
      /\ N \in e..N
  BY CutRange
<1>2. Tiles(m, A, 0, a) /\ Tiles(m, B, e, N)
  <2>1. Tiles(m, C, 0, N) /\ 0 \in 0..N /\ N \in 0..N
    BY CutFacts
  <2> QED  BY <2>1, TilesPart
<1>3. C \ (a..(e - 1)) = A \cup B
  <2>1. ASSUME NEW c \in C
        PROVE  c \in a..(e - 1) <=> ~ (c \in 0..(a - 1) \/ c \in e..(N - 1))
    BY <1>1, CutRange
  <2> QED  BY <2>1
<1>4. (\A b \in 0..(a - 1) : w[b] = m[b]) /\ (\A b \in e..(N - 1) : w[b] = m[b])
  BY <1>1
<1> HIDE DEF A, B
<1>5. /\ Tiles(w, A, 0, a)
      /\ \A c \in A : /\ size(w, c) = size(m, c) /\ next(w, c) = next(m, c)
                      /\ IsUsed(w, c) <=> IsUsed(m, c)
  <2>1. 0 \in 0..N /\ a \in 0..N
    BY <1>1
  <2> QED  BY <1>2, <1>4, <2>1, TilesSame
<1>6. /\ Tiles(w, B, e, N)
      /\ \A c \in B : /\ size(w, c) = size(m, c) /\ next(w, c) = next(m, c)
                      /\ IsUsed(w, c) <=> IsUsed(m, c)
  <2>1. e \in 0..N /\ N \in e..N
    BY <1>1
  <2> QED  BY <1>2, <1>4, <2>1, TilesSame
<1>7. Tiles(w, A \cup D, 0, e)
  <2>1. 0 \in 0..N /\ a \in 0..N /\ e \in a..N
    BY <1>1
  <2> QED  BY <1>5, <2>1, TilesJoin
<1>8. Tiles(w, (A \cup D) \cup B, 0, N)
  <2>1. 0 \in 0..N /\ e \in 0..N /\ N \in e..N
    BY <1>1
  <2> QED  BY <1>6, <1>7, <2>1, TilesJoin
<1>9. w[-1] = used /\ w[N] = used
  BY <1>1 DEF Cut
<1>10. (C \ (a..(e - 1))) \cup D = (A \cup D) \cup B
  BY <1>3
<1> QED
  BY <1>3, <1>5, <1>6, <1>8, <1>9, <1>10 DEF Cut

\* Every block is in a chunk, and every chunk but the first follows another.
LEMMA ChunkOf ==
  ASSUME NEW m, NEW C, Cut(m, C), NEW b \in Blocks
  PROVE  \E c \in C : c <= b /\ b < next(m, c)
<1>1. Tiles(m, C, 0, N) /\ 0 \in 0..N /\ N \in 0..N /\ b \in 0..(N - 1)
  BY CutFacts DEF Blocks
<1> QED  BY <1>1, TileOf

\* Every chunk but the first one follows another.
LEMMA Previous ==
  ASSUME NEW m, NEW C, Cut(m, C), NEW x \in C \cup {N}, x # 0
  PROVE  prev(m, x) \in C /\ next(m, prev(m, x)) = x /\ prev(m, x) < x
<1>1. x \in 1..N /\ x - 1 \in Blocks
  BY CutRange DEF Blocks
<1>2. PICK c \in C : c <= x - 1 /\ x - 1 < next(m, c)
  BY <1>1, ChunkOf
<1>3. next(m, c) = x
  <2>1. c < x /\ x <= next(m, c)
    BY <1>1, <1>2, CutFacts
  <2>2. x \in C => x <= c \/ next(m, c) <= x
    BY CutFacts
  <2>3. c \in Nat /\ next(m, c) \in Nat /\ next(m, c) <= N
    BY CutFacts
  <2> QED  BY <1>1, <2>1, <2>2, <2>3, Sizeable
<1>4. prev(m, x) = c
  BY <1>3, CutFacts
<1> QED  BY <1>1, <1>2, <1>3, <1>4, CutFacts

-----------------------------------------------------------------------------
(* The loops over the map.                                                 *)

\* Onward returns the first chunk, or the end, that is in goal.
LEMMA OnwardFacts ==
  ASSUME NEW m, NEW C, Cut(m, C), NEW c \in C \cup {N}, NEW goal,
         NEW z \in goal, z \in C \cup {N}, c <= z
  PROVE  /\ Onward(m, c, goal) \in C \cup {N} /\ Onward(m, c, goal) \in goal
         /\ c <= Onward(m, c, goal) /\ Onward(m, c, goal) <= z
         /\ \A y \in C : c <= y /\ y < Onward(m, c, goal) => y \notin goal
<1> DEFINE D == DOMAIN m
           stop == {x \in D : x \in goal \/ next(m, x) \notin D}
           step == [x \in D |-> next(m, x)]
           out == [x \in D |-> x]
           f == CHOOSE f : f = [x \in D |-> IF x \in goal \/ next(m, x) \notin D
                                            THEN x ELSE f[next(m, x)]]
           I == {x \in C \cup {N} : c <= x /\ \A y \in C : c <= y /\ y < x => y \notin goal}
           bound == [x \in D |-> IF x \in C THEN N - x ELSE 0]
<1>1. D = (-1)..N /\ N \in Nat \ {0} /\ C \subseteq Nat /\ C \subseteq D /\ N \in D /\ N \notin C
      /\ c \in Nat /\ z \in Nat /\ \A x \in C : x < N
  <2>1. D = (-1)..N /\ N \in Nat \ {0} /\ C \subseteq Nat /\ N \notin C
        /\ \A x \in C : x < N /\ x \in (-1)..N
    BY CutRange
  <2>2. C \subseteq D /\ N \in D
    BY <2>1
  <2>3. c \in Nat /\ z \in Nat
    BY <2>1
  <2> QED  BY <2>1, <2>2, <2>3
<1>2. Goes(D, stop, step)
  BY DEF Goes
<1>3. IsLoop(f, D, stop, step, out)
  <2>1. PICK g : IsLoop(g, D, stop, step, out)
    BY <1>2, LoopExists
  <2>2. g = [x \in D |-> IF x \in goal \/ next(m, x) \notin D THEN x ELSE g[next(m, x)]]
    BY <2>1 DEF IsLoop
  <2>3. f = [x \in D |-> IF x \in goal \/ next(m, x) \notin D THEN x ELSE f[next(m, x)]]
    BY <2>2
  <2> QED  BY <2>3 DEF IsLoop
<1>4. Onward(m, c, goal) = f[c]
  BY DEF Onward
<1>5. ASSUME NEW x \in I, x \notin stop
      PROVE  x \in C /\ next(m, x) \in I
  <2>1. x \notin goal /\ x \in D
    BY <1>1, <1>5
  <2>2. x <= z
    BY <1>1, <2>1, CutFacts
  <2>3. x \in C
    BY <1>1, <2>1, <2>2
  <2>4. next(m, x) \in C \cup {N} /\ x < next(m, x) /\ next(m, x) \in Nat
    BY <2>3, CutFacts
  <2>5. \A y \in C : y <= x \/ next(m, x) <= y
    BY <2>3, CutFacts
  <2>6. ASSUME NEW y \in C, c <= y, y < next(m, x) PROVE y \notin goal
    <3>1. y <= x
      BY <1>1, <2>4, <2>5, <2>6
    <3>2. y = x \/ y < x
      BY <1>1, <2>3, <3>1
    <3> QED  BY <2>1, <2>6, <3>2
  <2>7. c <= next(m, x)
    BY <1>1, <2>3, <2>4
  <2> QED  BY <2>3, <2>4, <2>6, <2>7
<1>6. Keeps(I, stop, step)
  <2>1. ASSUME NEW x \in I \ stop PROVE step[x] \in I
    BY <1>1, <1>5, <2>1
  <2> QED  BY <2>1 DEF Keeps
<1>7. \A x \in I \ stop : bound[step[x]] < bound[x]
  <2>1. ASSUME NEW x \in I \ stop PROVE bound[step[x]] < bound[x]
    <3>1. x \in C /\ next(m, x) \in I /\ x \in D
      BY <1>1, <1>5, <2>1
    <3>2. step[x] = next(m, x) /\ next(m, x) \in C \cup {N} /\ x < next(m, x)
      BY <3>1, CutFacts
    <3>3. bound[x] = N - x /\ next(m, x) \in Nat /\ x \in Nat
      BY <1>1, <3>1, CutFacts
    <3>4. CASE next(m, x) \in C
      BY <1>1, <3>2, <3>3, <3>4
    <3>5. CASE next(m, x) = N
      BY <1>1, <3>1, <3>2, <3>3, <3>5
    <3> QED  BY <3>2, <3>4, <3>5
  <2> QED  BY <2>1
<1>8. bound \in [D -> Nat] /\ I \in SUBSET D /\ c \in I
  <2>1. \A x \in D : (IF x \in C THEN N - x ELSE 0) \in Nat
    BY <1>1
  <2>2. c \in I
    BY <1>1
  <2> QED  BY <1>1, <2>1, <2>2
<1> HIDE DEF f, I, bound, step, out, stop, D
<1>9. PICK t \in I \cap stop : f[c] = out[t]
  BY <1>2, <1>3, <1>6, <1>7, <1>8, LoopRule
<1>10. f[c] = t /\ t \in I /\ t \in C \cup {N}
  BY <1>9 DEF out, stop, I
<1>11. t \in goal
  <2>1. ASSUME t \notin goal PROVE FALSE
    <3>1. next(m, t) \notin D
      BY <1>9, <2>1 DEF stop
    <3>2. t = N
      BY <1>1, <1>10, <3>1, CutFacts
    <3>3. z # N
      BY <2>1, <3>2
    <3>4. z \in C /\ c <= z /\ z < N
      BY <1>1, <3>3
    <3> QED  BY <1>10, <3>2, <3>4 DEF I
  <2> QED  BY <2>1
<1>12. t <= z
  <2>1. ASSUME z < t PROVE FALSE
    <3>1. z \in C
      BY <1>1, <1>10, <2>1
    <3> QED  BY <1>10, <2>1, <3>1 DEF I
  <2>2. t \in Nat
    BY <1>1, <1>10
  <2> QED  BY <1>1, <2>1, <2>2
<1> QED
  BY <1>4, <1>10, <1>11, <1>12 DEF I

\* Walking the map from one chunk to another finds those between.
LEMMA ChunksAre ==
  ASSUME NEW m, NEW C, Cut(m, C), NEW from \in C \cup {N}, NEW to \in C \cup {N}, from <= to
  PROVE  ChunksBetween(m, from, to) = C \cap (from..(to - 1))
<1>1. from \in Nat /\ to \in Nat /\ to <= N /\ C \subseteq Nat
  BY CutRange
<1>2. ASSUME NEW c \in from..(to - 1), c \in C PROVE Onward(m, from, c..to) = c
  <2> DEFINE goal == c..to
             o == Onward(m, from, goal)
  <2>1. c \in goal /\ from <= c /\ c \in C \cup {N}
    BY <1>1, <1>2
  <2> HIDE DEF goal
  <2>2. o \in goal /\ o <= c
    BY <2>1, OnwardFacts
  <2>3. o \in Int /\ c <= o
    BY <1>1, <2>2 DEF goal
  <2> QED  BY <1>1, <2>2, <2>3 DEF goal
<1>3. ASSUME NEW c \in from..(to - 1), Onward(m, from, c..to) = c PROVE c \in C
  <2>1. to \in c..to
    BY <1>1
  <2>2. Onward(m, from, c..to) \in C \cup {N}
    BY <2>1, OnwardFacts
  <2> QED  BY <1>1, <1>3, <2>2
<1> QED  BY <1>2, <1>3 DEF ChunksBetween

\* Walking the whole map finds the chunks.
LEMMA AllChunks ==
  ASSUME NEW m, NEW C, Cut(m, C)
  PROVE  ChunksBetween(m, 0, heapEnd) = C
<1>1. 0 \in C \cup {N} /\ 0 <= N /\ C \subseteq 0..(N - 1)
  BY CutFacts, CutRange
<1>2. ChunksBetween(m, 0, N) = C \cap (0..(N - 1))
  BY <1>1, ChunksAre
<1> QED  BY <1>1, <1>2 DEF heapEnd

\* Down over the free chunks before c, to one that follows a used chunk.
LEMMA FirstFreeFacts ==
  ASSUME NEW m, NEW C, Cut(m, C), NEW c \in C
  PROVE  /\ FirstFree(m, c) \in C /\ FirstFree(m, c) <= c
         /\ \A y \in C : FirstFree(m, c) <= y /\ y < c => ~IsUsed(m, y)
         /\ FirstFree(m, c) = 0 \/ IsUsed(m, prev(m, FirstFree(m, c)))
<1> DEFINE D == Blocks
           stop == {x \in D : x = 0 \/ prev(m, x) \notin D \/ IsUsed(m, prev(m, x))}
           step == [x \in D |-> prev(m, x)]
           out == [x \in D |-> x]
           f == CHOOSE f : f = [x \in D |->
                  IF x = 0 \/ prev(m, x) \notin D \/ IsUsed(m, prev(m, x))
                  THEN x ELSE f[prev(m, x)]]
           I == {x \in C : x <= c /\ \A y \in C : x <= y /\ y < c => ~IsUsed(m, y)}
           bound == [x \in D |-> x]
<1>1. D = 0..(N - 1) /\ D \subseteq Nat /\ C \subseteq D /\ c \in Nat
  BY CutRange DEF Blocks
<1>2. Goes(D, stop, step)
  BY DEF Goes
<1>3. IsLoop(f, D, stop, step, out)
  <2>1. PICK g : IsLoop(g, D, stop, step, out)
    BY <1>2, LoopExists
  <2>2. g = [x \in D |-> IF x = 0 \/ prev(m, x) \notin D \/ IsUsed(m, prev(m, x))
                         THEN x ELSE g[prev(m, x)]]
    BY <2>1 DEF IsLoop
  <2>3. f = [x \in D |-> IF x = 0 \/ prev(m, x) \notin D \/ IsUsed(m, prev(m, x))
                         THEN x ELSE f[prev(m, x)]]
    BY <2>2
  <2> QED  BY <2>3 DEF IsLoop
<1>4. FirstFree(m, c) = f[c]
  BY DEF FirstFree
<1>5. ASSUME NEW x \in I, x # 0
      PROVE  /\ prev(m, x) \in C /\ prev(m, x) \in D /\ prev(m, x) < x
             /\ ~IsUsed(m, prev(m, x)) => prev(m, x) \in I
  <2>0. x \in C /\ x \in Nat /\ x <= c /\ \A y \in C : x <= y /\ y < c => ~IsUsed(m, y)
    BY <1>1
  <2>1. prev(m, x) \in C /\ next(m, prev(m, x)) = x /\ prev(m, x) < x
    BY <1>5, <2>0, Previous
  <2>2. \A y \in C : y <= prev(m, x) \/ x <= y
    BY <2>1, CutFacts
  <2>3. ASSUME ~IsUsed(m, prev(m, x)), NEW y \in C, prev(m, x) <= y, y < c
        PROVE  ~IsUsed(m, y)
    <3>0. y \in Nat /\ prev(m, x) \in Nat
      BY <1>1, <2>1
    <3>1. y = prev(m, x) \/ x <= y
      BY <2>2, <2>3, <3>0
    <3> QED  BY <2>0, <2>3, <3>1
  <2>4. prev(m, x) <= c /\ prev(m, x) \in D
    <3>1. prev(m, x) \in Nat
      BY <1>1, <2>1
    <3> QED  BY <1>1, <2>0, <2>1, <3>1
  <2> QED  BY <2>1, <2>3, <2>4
<1>6. Keeps(I, stop, step)
  <2>1. ASSUME NEW x \in I \ stop PROVE step[x] \in I
    <3>1. x # 0 /\ ~IsUsed(m, prev(m, x)) /\ x \in D
      BY <1>1, <2>1
    <3> QED  BY <1>5, <3>1
  <2> QED  BY <2>1 DEF Keeps
<1>7. \A x \in I \ stop : bound[step[x]] < bound[x]
  <2>1. ASSUME NEW x \in I \ stop PROVE bound[step[x]] < bound[x]
    <3>1. x # 0 /\ x \in D
      BY <1>1, <2>1
    <3>2. prev(m, x) \in D /\ prev(m, x) < x
      BY <1>5, <3>1
    <3> QED  BY <3>1, <3>2
  <2> QED  BY <2>1
<1>8. bound \in [D -> Nat] /\ I \in SUBSET D /\ c \in I
  <2>1. c \in I
    BY <1>1
  <2> QED  BY <1>1, <2>1
<1> HIDE DEF f, I, bound, step, out, stop
<1>9. PICK t \in I \cap stop : f[c] = out[t]
  BY <1>2, <1>3, <1>6, <1>7, <1>8, LoopRule
<1>10. f[c] = t /\ t \in I /\ t \in C
  BY <1>9 DEF out, stop, I
<1>11. t = 0 \/ IsUsed(m, prev(m, t))
  BY <1>5, <1>9, <1>10 DEF stop
<1> QED
  BY <1>4, <1>10, <1>11 DEF I

\* Up over the free chunks after c, to a used chunk or the end.
LEMMA EndOfFreeFacts ==
  ASSUME NEW m, NEW C, Cut(m, C), NEW c \in C
  PROVE  /\ EndOfFree(m, c) \in C \cup {N} /\ next(m, c) <= EndOfFree(m, c)
         /\ IsUsed(m, EndOfFree(m, c))
         /\ \A y \in C : c < y /\ y < EndOfFree(m, c) => ~IsUsed(m, y)
<1>1. /\ next(m, c) \in C \cup {N} /\ next(m, c) <= N /\ N \in UsedIn(m)
      /\ \A d \in C : d <= c \/ next(m, c) <= d
  BY CutFacts
<1> DEFINE o == Onward(m, next(m, c), UsedIn(m))
<1>2. /\ o \in C \cup {N} /\ o \in UsedIn(m) /\ next(m, c) <= o
      /\ \A y \in C : next(m, c) <= y /\ y < o => y \notin UsedIn(m)
  BY <1>1, OnwardFacts
<1>3. \A y \in C : y \in UsedIn(m) <=> IsUsed(m, y)
  BY CutRange DEF UsedIn
<1>4. \A y \in C : c < y => next(m, c) <= y
  BY <1>1, CutRange
<1> QED
  BY <1>2, <1>3, <1>4 DEF EndOfFree, UsedIn

\* c and its free neighbours are the free chunks between two used ones.
LEMMA RunFacts ==
  ASSUME NEW m, NEW C, Cut(m, C), NEW c \in C, ~IsUsed(m, c)
  PROVE  LET a == FirstFree(m, c)
             e == EndOfFree(m, c)
         IN  /\ a \in C /\ e \in C \cup {N} /\ a <= c /\ c < e /\ a < e
             /\ a = 0 \/ IsUsed(m, prev(m, a))
             /\ IsUsed(m, e)
             /\ \A y \in C \cap (a..(e - 1)) : ~IsUsed(m, y)
             /\ Run(m, c) = C \cap (a..(e - 1))
             /\ CombinedSize(m, c) = e - a /\ CombinedSize(m, c) \in 1..(N - a)
<1> DEFINE a == FirstFree(m, c)
           e == EndOfFree(m, c)
<1>1. /\ a \in C /\ a <= c /\ (a = 0 \/ IsUsed(m, prev(m, a)))
      /\ \A y \in C : a <= y /\ y < c => ~IsUsed(m, y)
  BY FirstFreeFacts
<1>2. /\ e \in C \cup {N} /\ next(m, c) <= e /\ IsUsed(m, e)
      /\ \A y \in C : c < y /\ y < e => ~IsUsed(m, y)
  BY EndOfFreeFacts
<1> HIDE DEF a, e
<1>3. c \in Nat /\ a \in Nat /\ e \in Nat /\ e <= N /\ N \in Nat /\ C \subseteq Nat
  BY <1>1, <1>2, CutRange
<1>4. c < e /\ a < e
  <2>1. c < next(m, c) /\ next(m, c) \in Nat
    BY CutFacts
  <2> QED  BY <1>1, <1>2, <1>3, <2>1
<1>5. ASSUME NEW y \in C \cap (a..(e - 1)) PROVE ~IsUsed(m, y)
  <2>1. y \in Nat /\ a <= y /\ y < e
    BY <1>3
  <2>2. y < c \/ y = c \/ c < y
    BY <1>3, <2>1
  <2> QED  BY <1>1, <1>2, <2>1, <2>2
<1>6. Run(m, c) = C \cap (a..(e - 1))
  <2>1. a <= e
    BY <1>3, <1>4
  <2>2. ChunksBetween(m, a, e) = C \cap (a..(e - 1))
    BY <1>1, <1>2, <2>1, ChunksAre
  <2> QED  BY <2>2 DEF Run, a, e
<1>7. CombinedSize(m, c) = e - a /\ e - a \in 1..(N - a)
  BY <1>3, <1>4 DEF CombinedSize, a, e
<1> QED
  BY <1>1, <1>2, <1>4, <1>5, <1>6, <1>7 DEF a, e

\* Lowest returns the lowest.
LEMMA LowestIs ==
  ASSUME NEW S \in SUBSET Int, NEW i \in S, \A j \in S : i <= j
  PROVE  Lowest(S) = i
<1>1. \A j \in S : (\A k \in S : j <= k) => j = i
  OBVIOUS
<1>2. Lowest(S) = CHOOSE j \in S : \A k \in S : j <= k
  BY DEF Lowest
<1> QED  BY <1>1, <1>2

\* A set of natural numbers has one.
LEMMA LowestIn ==
  ASSUME NEW S \in SUBSET Nat, S # {}
  PROVE  Lowest(S) \in S /\ \A j \in S : Lowest(S) <= j
<1>1. PICK i \in S : \A j \in S : i <= j
  BY Least
<1> QED  BY <1>1 DEF Lowest

\* The first used chunk from c on.
LEMMA FirstFromFacts ==
  ASSUME NEW m, NEW C, Cut(m, C), NEW c \in C \cup {N}
  PROVE  FirstFrom(m, c) = Lowest({u \in C : IsUsed(m, u) /\ c <= u})
<1> DEFINE S == {u \in C : IsUsed(m, u) /\ c <= u}
           o == Onward(m, c, UsedIn(m))
<1>1. c \in Nat /\ c <= N /\ C \subseteq Nat /\ N \notin C /\ N \in Nat /\ \A x \in C : x < N
  BY CutRange
<1>2. N \in UsedIn(m)
  BY CutFacts
<1>3. /\ o \in C \cup {N} /\ o \in UsedIn(m) /\ c <= o
      /\ \A y \in C : c <= y /\ y < o => y \notin UsedIn(m)
  BY <1>1, <1>2, OnwardFacts
<1>4. \A y \in C : y \in UsedIn(m) <=> IsUsed(m, y)
  BY CutRange DEF UsedIn
<1> HIDE DEF o
<1>5. CASE o = N
  <2>1. S = {}
    BY <1>1, <1>3, <1>4, <1>5
  <2>2. FirstFrom(m, c) = Nowhere
    BY <1>5 DEF FirstFrom, o, heapEnd
  <2> QED  BY <2>1, <2>2 DEF Lowest
<1>6. CASE o # N
  <2>1. o \in S
    BY <1>1, <1>3, <1>4, <1>6
  <2>2. \A j \in S : o <= j
    <3>1. o \in Nat
      BY <1>1, <1>3
    <3> QED  BY <1>1, <1>3, <1>4, <3>1
  <2>3. FirstFrom(m, c) = o
    BY <1>6 DEF FirstFrom, o, heapEnd
  <2>4. S \in SUBSET Int
    <3>1. S \subseteq C
      OBVIOUS
    <3>2. Nat \subseteq Int
      OBVIOUS
    <3> QED  BY <1>1, <3>1, <3>2
  <2> HIDE DEF S
  <2> QED  BY <2>1, <2>2, <2>3, <2>4, LowestIs DEF S
<1> QED  BY <1>5, <1>6

\* Only a long chunk has a header of four bytes.
LEMMA HeaderSizes ==
  ASSUME NEW n \in Nat \ {0}
  PROVE  headerSize(n) \in {1, 4} /\ (headerSize(n) = 4 => n > 8)
BY Bytes DEF headerSize, minHeaderSize, maxHeaderSize

\* Down the distances, from between the headers of a used chunk or from the
\* first distance of any chunk.
LEMMA WalkDownFacts ==
  ASSUME NEW m, NEW C, Cut(m, C), NEW c \in C, NEW i \in Nat,
         headerSize(size(m, c)) <= i, i < size(m, c) - headerSize(size(m, c)),
         IsUsed(m, c) \/ i = headerSize(size(m, c))
  PROVE  WalkDown(m, c + i) = c
<1> DEFINE n == size(m, c)
           h == headerSize(n)
           D == DOMAIN m
           down(x) == m[x] \in 1..(MaxDistance - 1) /\ x - m[x] \in D
           stop == {x \in D : ~down(x)}
           step == [x \in D |-> x - m[x]]
           out == [x \in D |-> x]
           f == CHOOSE f : f = [x \in D |->
                  IF m[x] \in 1..(MaxDistance - 1) /\ x - m[x] \in D
                  THEN f[x - m[x]] ELSE x]
           I == {c} \cup {c + j : j \in {k \in h..(n - h - 1) : IsUsed(m, c) \/ k = h}}
           bound == [x \in D |-> IF x \in Nat THEN x ELSE 0]
<1>1. /\ c \in Nat /\ n \in Nat \ {0} /\ c + n <= N /\ N \in Nat /\ D = (-1)..N
      /\ c < N
  BY CutFacts, CutRange
<1>2. h \in {1, 4}
  BY <1>1, HeaderSizes
<1>3. /\ m[c] >= MaxDistance
      /\ h < n - h => m[c + h] = h
      /\ IsUsed(m, c) => \A j \in h..(n - h - 1) : m[c + j] = Distance(j)
  <2>1. Tile(m, c) /\ c \in Blocks
    BY CutFacts
  <2>2. m[c] >= MaxDistance /\ Marked(m, c, n, State(m, c))
    BY <2>1, TileFacts
  <2> QED  BY <2>2 DEF Marked, Trail, State
<1>4. Goes(D, stop, step)
  BY DEF Goes
<1>5. IsLoop(f, D, stop, step, out)
  <2>1. PICK g : IsLoop(g, D, stop, step, out)
    BY <1>4, LoopExists
  <2>2. g = [x \in D |-> IF m[x] \in 1..(MaxDistance - 1) /\ x - m[x] \in D
                         THEN g[x - m[x]] ELSE x]
    BY <2>1 DEF IsLoop
  <2>3. f = [x \in D |-> IF m[x] \in 1..(MaxDistance - 1) /\ x - m[x] \in D
                         THEN f[x - m[x]] ELSE x]
    BY <2>2
  <2> QED  BY <2>3 DEF IsLoop
<1>6. WalkDown(m, c + i) = f[c + i]
  BY DEF WalkDown
<1> HIDE DEF n, h, f, D
<1>7. ASSUME NEW x \in I, x # c
      PROVE  x \in D /\ x \in Nat /\ down(x) /\ x - m[x] \in I /\ x - m[x] < x /\ x - m[x] \in Nat
  <2>1. PICK j \in h..(n - h - 1) : x = c + j /\ (IsUsed(m, c) \/ j = h)
    BY <1>7
  <2>2. j \in Nat /\ j >= h /\ j < n - h /\ h \in Nat /\ h >= 1 /\ h <= 4
    BY <1>1, <1>2, <2>1
  <2>3. m[x] = Distance(j)
    <3>1. CASE IsUsed(m, c)
      BY <1>3, <2>1, <3>1
    <3>2. CASE ~IsUsed(m, c)
      <4>1. j = h /\ m[x] = h
        BY <1>3, <2>1, <2>2, <3>2
      <4>2. Distance(h) = h
        BY <2>2, Bytes DEF Distance
      <4> QED  BY <4>1, <4>2
    <3> QED  BY <3>1, <3>2
  <2>4. CASE j < MaxDistance
    <3>1. m[x] = j /\ x - m[x] = c /\ m[x] \in 1..(MaxDistance - 1)
      BY <1>1, <2>1, <2>2, <2>3, <2>4, Bytes DEF Distance
    <3> QED  BY <1>1, <2>1, <2>2, <3>1
  <2>5. CASE ~(j < MaxDistance)
    <3>1. m[x] = MaxDistance - 4 /\ m[x] \in 1..(MaxDistance - 1) /\ m[x] \in Nat
      BY <2>3, <2>5, Bytes DEF Distance, maxHeaderSize
    <3>2. j - m[x] \in h..(n - h - 1) /\ j - m[x] < j /\ j - m[x] \in Nat
      BY <1>1, <2>2, <2>5, <3>1, Bytes
    <3>3. x - m[x] = c + (j - m[x]) /\ IsUsed(m, c)
      <4>1. j # h
        BY <2>2, <2>5, Bytes
      <4> QED  BY <1>1, <2>1, <2>2, <3>1, <4>1
    <3>4. x - m[x] \in I
      BY <3>2, <3>3
    <3> QED  BY <1>1, <2>1, <2>2, <3>1, <3>2, <3>3, <3>4
  <2> QED  BY <2>4, <2>5
<1>8. c \in stop /\ c \in D
  <2>1. c \in D
    BY <1>1
  <2>2. ~(m[c] \in 1..(MaxDistance - 1))
    BY <1>3, Bytes
  <2> QED  BY <2>1, <2>2
<1>9. Keeps(I, stop, step)
  <2>1. ASSUME NEW x \in I \ stop PROVE step[x] \in I
    BY <1>7, <1>8, <2>1
  <2> QED  BY <2>1 DEF Keeps
<1>10. \A x \in I \ stop : bound[step[x]] < bound[x]
  <2>1. ASSUME NEW x \in I \ stop PROVE bound[step[x]] < bound[x]
    <3>1. x \in D /\ x \in Nat /\ x - m[x] \in D /\ x - m[x] < x /\ x - m[x] \in Nat
      BY <1>7, <1>8, <2>1
    <3> QED  BY <3>1
  <2> QED  BY <2>1
<1>11. bound \in [D -> Nat] /\ I \in SUBSET D /\ c + i \in I
  <2>1. c + i \in I
    <3>1. i \in h..(n - h - 1)
      BY <1>1, <1>2 DEF h, n
    <3> QED  BY <3>1 DEF h, n
  <2>2. I \in SUBSET D
    BY <1>7, <1>8
  <2> QED  BY <2>1, <2>2
<1> HIDE DEF I, bound, step, out, stop
<1>12. PICK t \in I \cap stop : f[c + i] = out[t]
  BY <1>4, <1>5, <1>9, <1>10, <1>11, LoopRule
<1>13. t = c
  BY <1>7, <1>12 DEF stop
<1> QED
  BY <1>6, <1>8, <1>12, <1>13 DEF out

\* The bytes of a chunk that are no distances.
Outer(m, c, i) ==
  i <= headerSize(size(m, c)) \/ size(m, c) - headerSize(size(m, c)) <= i

\* The loops of findStart.
GoesUp(m, up) ==
  up = [x \in DOMAIN m |-> IF m[x] >= MaxDistance /\ x < N THEN up[x + 1] ELSE x]
GoesBack(m, b, back) ==
  back = [x \in DOMAIN m |-> IF contains(m, x, b) \/ prev(m, x) \notin DOMAIN m
                             THEN x ELSE back[prev(m, x)]]

\* Up from a header, to the first distance of a chunk or to the end.
LEMMA UpFacts ==
  ASSUME NEW m, NEW C, Cut(m, C), NEW c \in C, NEW b \in Nat, c <= b, b < next(m, c),
         Outer(m, c, b - c), NEW up, GoesUp(m, up)
  PROVE  \/ up[b] = N
         \/ /\ up[b] < N /\ up[b] \in Nat
            /\ \E d \in C : c <= d /\ WalkDown(m, up[b]) = d
<1> DEFINE D == DOMAIN m
           goesUp(x) == m[x] >= MaxDistance /\ x < N
           stop == {x \in D : ~goesUp(x)}
           step == [x \in D |-> x + 1]
           out == [x \in D |-> x]
           In(d, x) == d <= x /\ x < next(m, d) /\ Outer(m, d, x - d)
           I == {x \in b..N : x = N \/ \E d \in C : In(d, x)}
           bound == [x \in D |-> N - x]
<1>1. c \in Nat /\ N \in Nat /\ D = (-1)..N /\ b < N /\ next(m, c) \in Nat /\ next(m, c) <= N
  BY CutFacts, CutRange
<1>2. Goes(D, stop, step)
  <2>1. ASSUME NEW x \in D \ stop PROVE step[x] \in D
    BY <1>1
  <2> QED  BY <2>1 DEF Goes
<1>3. IsLoop(up, D, stop, step, out)
  <2>1. up = [x \in D |-> IF x \in stop THEN out[x] ELSE up[step[x]]]
    <3>1. \A x \in D : (IF m[x] >= MaxDistance /\ x < N THEN up[x + 1] ELSE x)
                         = IF x \in stop THEN out[x] ELSE up[step[x]]
      OBVIOUS
    <3> QED  BY <3>1 DEF GoesUp
  <2> QED  BY <2>1 DEF IsLoop
<1> HIDE DEF D
<1>4. ASSUME NEW x \in I, goesUp(x) PROVE x + 1 \in I
  <2>1. x \in Nat /\ b <= x /\ x < N /\ x + 1 \in b..N /\ x # N
    BY <1>1, <1>4
  <2>2. PICK d \in C : In(d, x)
    BY <2>1
  <2> DEFINE n == size(m, d)
             h == headerSize(n)
  <2>3. /\ d \in Nat /\ n \in Nat \ {0} /\ next(m, d) = d + n /\ next(m, d) \in C \cup {N}
        /\ next(m, d) \in Nat /\ d \in Blocks /\ Tile(m, d)
    BY CutFacts
  <2>4. h \in {1, 4} /\ (h = 4 => n > 8)
    BY <2>3, HeaderSizes
  <2>5. d <= x /\ x < next(m, d) /\ (x - d <= h \/ n - h <= x - d)
    BY <2>2 DEF Outer
  <2>6. h < n - h => m[d + h] = h
    <3>1. Marked(m, d, n, State(m, d))
      BY <2>3, TileFacts
    <3> QED  BY <3>1 DEF Marked, Trail
  <2> HIDE DEF n, h
  <2>7. ~(x - d = h /\ h < n - h)
    <3>1. ASSUME x - d = h, h < n - h PROVE FALSE
      <4>1. d + h = x
        BY <2>1, <2>3, <2>4, <3>1
      <4>2. m[x] = h
        BY <2>6, <3>1, <4>1
      <4> QED  BY <1>4, <2>4, <4>2, Bytes
    <3> QED  BY <3>1
  <2>8. CASE x + 1 < next(m, d)
    <3>1. (x + 1) - d <= h \/ n - h <= (x + 1) - d
      BY <2>1, <2>3, <2>4, <2>5, <2>7
    <3>2. In(d, x + 1)
      BY <2>1, <2>3, <2>5, <2>8, <3>1 DEF Outer, n, h
    <3> QED  BY <2>1, <3>2
  <2>9. CASE ~(x + 1 < next(m, d))
    <3>1. x + 1 = next(m, d)
      BY <2>1, <2>3, <2>5, <2>9
    <3>2. ASSUME x + 1 \in C PROVE In(x + 1, x + 1)
      <4>1. x + 1 < next(m, x + 1) /\ size(m, x + 1) \in Nat \ {0}
        BY <3>2, CutFacts
      <4>2. headerSize(size(m, x + 1)) \in {1, 4}
        BY <4>1, HeaderSizes
      <4> QED  BY <2>1, <4>1, <4>2 DEF Outer
    <3> QED  BY <2>1, <2>3, <3>1, <3>2
  <2> QED  BY <2>8, <2>9
<1>5. bound \in [D -> Nat] /\ I \in SUBSET D /\ b \in I /\ I \subseteq Nat
  <2>1. b \in I
    BY <1>1
  <2>2. \A x \in D : N - x \in Nat
    BY <1>1
  <2> QED  BY <1>1, <2>1, <2>2
<1>6. Keeps(I, stop, step)
  <2>1. ASSUME NEW x \in I \ stop PROVE step[x] \in I
    BY <1>4, <1>5, <2>1
  <2> QED  BY <2>1 DEF Keeps
<1>7. \A x \in I \ stop : bound[step[x]] < bound[x]
  <2>1. ASSUME NEW x \in I \ stop PROVE bound[step[x]] < bound[x]
    <3>1. x \in D /\ x + 1 \in D /\ x \in Nat
      BY <1>4, <1>5, <2>1
    <3>2. N - (x + 1) < N - x
      BY <1>1, <3>1
    <3> QED  BY <3>1, <3>2
  <2> QED  BY <2>1
<1> HIDE DEF I, bound, step, out, stop
<1>8. PICK t \in I \cap stop : up[b] = out[t]
  <2>1. bound \in [D -> Nat] /\ I \in SUBSET D
    BY <1>5
  <2>2. ASSUME NEW x \in I PROVE \E t \in I \cap stop : up[x] = out[t]
    BY <1>2, <1>3, <1>6, <1>7, <2>1, LoopRule
  <2> QED  BY <1>5, <2>2
<1>9. up[b] = t /\ t \in Nat /\ t \in D /\ t \in b..N
  BY <1>5, <1>8 DEF out, I
<1>10. CASE t # N
  <2>1. t < N /\ ~(m[t] >= MaxDistance)
    BY <1>1, <1>8, <1>9, <1>10 DEF stop
  <2>2. PICK d \in C : In(d, t)
    BY <1>8, <1>10 DEF I
  <2> DEFINE n == size(m, d)
             h == headerSize(n)
  <2>3. /\ d \in Nat /\ n \in Nat \ {0} /\ next(m, d) = d + n
        /\ d \in Blocks /\ Tile(m, d)
    BY CutFacts
  <2>4. h \in {1, 4}
    BY <2>3, HeaderSizes
  <2>5. d <= t /\ t < next(m, d) /\ (t - d <= h \/ n - h <= t - d)
    BY <2>2 DEF Outer
  <2>6. /\ \A i \in 0..(h - 1) : m[d + i] >= MaxDistance
        /\ \A i \in (n - h)..(n - 1) : m[d + i] >= MaxDistance
    BY <2>3, TileFacts
  <2> DEFINE i == t - d
  <2>7. i \in Nat /\ d + i = t /\ i <= n - 1
    BY <1>9, <2>3, <2>5
  <2> HIDE DEF n, h, i
  <2>8. i \notin 0..(h - 1) /\ i \notin (n - h)..(n - 1)
    BY <2>1, <2>6, <2>7
  <2>9. i = h /\ i < n - h
    <3>1. i <= h \/ n - h <= i
      BY <2>5 DEF i
    <3> QED  BY <2>3, <2>4, <2>7, <2>8, <3>1
  <2>10. WalkDown(m, d + i) = d
    BY <2>7, <2>9, WalkDownFacts DEF n, h
  <2>11. c <= d
    <3>1. c <= d \/ next(m, d) <= c
      BY CutFacts
    <3>2. t \in Nat /\ b <= t /\ next(m, d) \in Nat
      BY <1>1, <1>9, CutFacts
    <3> QED  BY <1>1, <2>5, <3>1, <3>2
  <2> QED  BY <1>9, <2>1, <2>7, <2>10, <2>11
<1> QED  BY <1>9, <1>10

\* Back from a chunk to the one with the byte b.
LEMMA BackFacts ==
  ASSUME NEW m, NEW C, Cut(m, C), NEW c \in C, NEW b \in Nat, c <= b, b < next(m, c),
         NEW z \in C \cup {N}, c <= z, NEW back, GoesBack(m, b, back)
  PROVE  back[z] = c
<1> DEFINE D == DOMAIN m
           stop == {x \in D : contains(m, x, b) \/ prev(m, x) \notin D}
           step == [x \in D |-> prev(m, x)]
           out == [x \in D |-> x]
           I == {x \in C \cup {N} : c <= x}
           bound == [x \in D |-> IF x \in Nat THEN x ELSE 0]
<1>1. /\ c \in Nat /\ N \in Nat /\ D = (-1)..N /\ C \subseteq Nat /\ C \subseteq D
      /\ I \subseteq D /\ I \subseteq Nat /\ b < N
  <2>1. c \in Nat /\ N \in Nat /\ D = (-1)..N /\ C \subseteq Nat /\ \A x \in C : x \in (-1)..N
    BY CutRange
  <2>2. next(m, c) \in Nat /\ next(m, c) <= N
    BY CutFacts
  <2>3. b < N
    BY <2>1, <2>2
  <2>4. C \subseteq D /\ N \in D
    BY <2>1
  <2> QED  BY <2>1, <2>3, <2>4
<1>2. Goes(D, stop, step)
  BY DEF Goes
<1>3. IsLoop(back, D, stop, step, out)
  <2>1. back = [x \in D |-> IF x \in stop THEN out[x] ELSE back[step[x]]]
    <3>1. \A x \in D : (IF contains(m, x, b) \/ prev(m, x) \notin D
                        THEN x ELSE back[prev(m, x)])
                         = IF x \in stop THEN out[x] ELSE back[step[x]]
      OBVIOUS
    <3> QED  BY <3>1 DEF GoesBack
  <2> QED  BY <2>1 DEF IsLoop
<1> HIDE DEF D
<1>4. ASSUME NEW x \in I, x # c
      PROVE  /\ ~contains(m, x, b)
             /\ prev(m, x) \in I /\ prev(m, x) < x /\ prev(m, x) \in D
  <2>1. x \in C \cup {N} /\ x \in Nat /\ c < x /\ x # 0
    BY <1>1, <1>4
  <2>2. ~(x <= b)
    <3>1. x \in C => x <= c \/ next(m, c) <= x
      BY CutFacts
    <3>2. next(m, c) \in Nat /\ next(m, c) <= N
      BY CutFacts
    <3> QED  BY <1>1, <2>1, <3>1, <3>2
  <2>3. prev(m, x) \in C /\ next(m, prev(m, x)) = x /\ prev(m, x) < x
    BY <2>1, Previous
  <2>4. c <= prev(m, x)
    <3>1. c <= prev(m, x) \/ x <= c
      BY <2>3, CutFacts
    <3> QED  BY <1>1, <2>1, <3>1
  <2> QED  BY <1>1, <2>2, <2>3, <2>4 DEF contains
<1>5. Keeps(I, stop, step)
  <2>1. ASSUME NEW x \in I \ stop PROVE step[x] \in I
    <3>1. x # c
      BY <1>1, <2>1 DEF contains
    <3> QED  BY <1>1, <1>4, <2>1, <3>1
  <2> QED  BY <2>1 DEF Keeps
<1>6. \A x \in I \ stop : bound[step[x]] < bound[x]
  <2>1. ASSUME NEW x \in I \ stop PROVE bound[step[x]] < bound[x]
    <3>1. x # c
      BY <1>1, <2>1 DEF contains
    <3>2. prev(m, x) \in I /\ prev(m, x) < x /\ prev(m, x) \in D /\ x \in D
      BY <1>1, <1>4, <2>1, <3>1
    <3> QED  BY <1>1, <3>2
  <2> QED  BY <2>1
<1>7. I \in SUBSET D /\ bound \in [D -> Nat] /\ z \in I
  BY <1>1
<1> HIDE DEF I, bound, step, out, stop
<1>8. PICK t \in I \cap stop : back[z] = out[t]
  BY <1>2, <1>3, <1>5, <1>6, <1>7, LoopRule
<1>9. t = c
  BY <1>4, <1>8 DEF stop
<1> QED
  BY <1>1, <1>8, <1>9 DEF out, I

\* findStart finds the start of the used chunk that the byte b is in.
LEMMA FindStartFacts ==
  ASSUME NEW m, NEW C, Cut(m, C), NEW c \in C, IsUsed(m, c),
         NEW b \in c..(next(m, c) - 1)
  PROVE  findStart(m, b, N) = c
<1> DEFINE n == size(m, c)
           h == headerSize(n)
           i == b - c
           D == DOMAIN m
           up == CHOOSE up : up = [x \in D |->
                   IF m[x] >= MaxDistance /\ x < N THEN up[x + 1] ELSE x]
           back == CHOOSE back : back = [x \in D |->
                     IF contains(m, x, b) \/ prev(m, x) \notin D
                     THEN x ELSE back[prev(m, x)]]
<1>1. /\ c \in Nat /\ n \in Nat \ {0} /\ next(m, c) = c + n /\ next(m, c) \in Nat
      /\ Tile(m, c) /\ c \in Blocks
  BY CutFacts
<1>2. h \in {1, 4} /\ (h = 4 => n > 8)
  BY <1>1, HeaderSizes
<1>3. b \in Nat /\ i \in Nat /\ b = c + i /\ i < n /\ c <= b /\ b < next(m, c)
  BY <1>1
<1>4. /\ \A j \in 0..(h - 1) : m[c + j] >= MaxDistance
      /\ \A j \in (n - h)..(n - 1) : m[c + j] >= MaxDistance
      /\ \A j \in h..(n - h - 1) : m[c + j] = Distance(j)
  <2>1. Marked(m, c, n, State(m, c)) /\ State(m, c) = used
    BY <1>1, TileFacts DEF State
  <2>2. \A j \in h..(n - h - 1) : m[c + j] = Distance(j)
    BY <2>1 DEF Marked, Trail
  <2> QED  BY <1>1, <2>2, TileFacts
<1>5. findStart(m, b, N) =
        IF m[b] < MaxDistance THEN WalkDown(m, b)
        ELSE back[IF up[b] < N THEN WalkDown(m, up[b]) ELSE up[b]]
  BY DEF findStart
<1> HIDE DEF n, h, i, up, back
<1>6. \A j \in Nat : Distance(j) < MaxDistance
  BY Bytes DEF Distance, maxHeaderSize
<1>7. CASE i >= h /\ i < n - h
  <2>1. m[b] < MaxDistance
    <3>1. i \in h..(n - h - 1)
      BY <1>1, <1>2, <1>3, <1>7
    <3> QED  BY <1>3, <1>4, <1>6, <3>1
  <2>2. WalkDown(m, c + i) = c
    BY <1>3, <1>7, WalkDownFacts DEF n, h
  <2> QED  BY <1>3, <1>5, <2>1, <2>2
<1>8. CASE ~(i >= h /\ i < n - h)
  <2>1. ~(m[b] < MaxDistance)
    <3>1. i \in 0..(h - 1) \/ i \in (n - h)..(n - 1)
      BY <1>1, <1>2, <1>3, <1>8
    <3>2. m[b] >= MaxDistance
      BY <1>3, <1>4, <3>1
    <3>3. m[b] \in Int
      <4>1. m \in [(-1)..N -> Byte] /\ next(m, c) <= N
        BY CutFacts
      <4>2. N \in Nat
        BY Sizeable
      <4>3. b \in (-1)..N
        BY <1>1, <1>3, <4>1, <4>2
      <4> QED  BY <4>1, <4>3, Bytes
    <3> QED  BY <3>2, <3>3, Bytes
  <2>2. Outer(m, c, b - c)
    BY <1>1, <1>2, <1>3, <1>8 DEF Outer, n, h, i
  <2>3. GoesUp(m, up)
    <3> DEFINE stop == {x \in D : ~(m[x] >= MaxDistance /\ x < N)}
               step == [x \in D |-> x + 1]
               out == [x \in D |-> x]
    <3>1. Goes(D, stop, step)
      <4>1. D = (-1)..N /\ N \in Nat
        BY CutRange
      <4>2. ASSUME NEW x \in D \ stop PROVE step[x] \in D
        BY <4>1
      <4> QED  BY <4>2 DEF Goes
    <3>2. PICK g : IsLoop(g, D, stop, step, out)
      BY <3>1, LoopExists
    <3>3. g = [x \in D |-> IF m[x] >= MaxDistance /\ x < N THEN g[x + 1] ELSE x]
      BY <3>2 DEF IsLoop
    <3> QED  BY <3>3 DEF up, GoesUp
  <2>4. GoesBack(m, b, back)
    <3> DEFINE stop == {x \in D : contains(m, x, b) \/ prev(m, x) \notin D}
               step == [x \in D |-> prev(m, x)]
               out == [x \in D |-> x]
    <3>1. Goes(D, stop, step)
      BY DEF Goes
    <3>2. PICK g : IsLoop(g, D, stop, step, out)
      BY <3>1, LoopExists
    <3>3. g = [x \in D |-> IF contains(m, x, b) \/ prev(m, x) \notin D
                           THEN x ELSE g[prev(m, x)]]
      BY <3>2 DEF IsLoop
    <3> QED  BY <3>3 DEF back, GoesBack
  <2>5. \/ up[b] = N
        \/ /\ up[b] < N /\ up[b] \in Nat
           /\ \E d \in C : c <= d /\ WalkDown(m, up[b]) = d
    BY <1>3, <2>2, <2>3, UpFacts
  <2>6. PICK z \in C \cup {N} : /\ c <= z
                                /\ z = IF up[b] < N THEN WalkDown(m, up[b]) ELSE up[b]
    <3>1. N \in Nat /\ c <= N
      BY CutRange
    <3>2. CASE up[b] = N
      BY <3>1, <3>2
    <3>3. CASE up[b] < N /\ \E d \in C : c <= d /\ WalkDown(m, up[b]) = d
      BY <3>3
    <3> QED  BY <2>5, <3>2, <3>3
  <2>7. back[z] = c
    BY <1>3, <2>4, <2>6, BackFacts
  <2> QED  BY <1>5, <2>1, <2>6, <2>7
<1> QED  BY <1>7, <1>8

-----------------------------------------------------------------------------
(* The free lists.                                                         *)

\* The list for a size.
LEMMA ListFacts ==
  /\ nfree \in Nat \ {0} /\ nfree < N /\ bigList = nfree + 1 /\ bigList \in Nat
  /\ \A n \in 1..N : /\ ListFor(n) \in 1..bigList
                     /\ n <= nfree => ListFor(n) = n
                     /\ ~(n <= nfree) => ListFor(n) = bigList
                     /\ ListFor(n) <= nfree => ListFor(n) = n
BY ZoneHeapAssumption DEF bigList, ListFor

\* Unlinked takes the chunks in S from a list.
LEMMA UnlinkedFacts ==
  ASSUME NEW P, NEW list \in Seq(P), NEW S
  PROVE  /\ Unlinked(list, S) \in Seq(P)
         /\ Elems(Unlinked(list, S)) = Elems(list) \ S
         /\ NoDup(list) => NoDup(Unlinked(list, S))
         /\ Len(Unlinked(list, S)) <= Len(list)
<1> DEFINE R == Range(list)
           D == (0..Len(list)) \X Seq(R)
           joined(s) == IF list[s[1] + 1] \in S THEN s[2] ELSE Append(s[2], list[s[1] + 1])
           stop == {s \in D : s[1] = Len(list)}
           step == [s \in D |-> <<s[1] + 1, joined(s)>>]
           out == [s \in D |-> s[2]]
           f == CHOOSE f : f = [s \in (0..Len(list)) \X Seq(Range(list)) |->
                  IF s[1] = Len(list) THEN s[2]
                  ELSE LET d == list[s[1] + 1]
                       IN  f[<<s[1] + 1, IF d \in S THEN s[2] ELSE Append(s[2], d)>>]]
           I == {s \in D : /\ Elems(s[2]) = {list[k] : k \in 1..s[1]} \ S
                           /\ NoDup(list) => NoDup(s[2])
                           /\ Len(s[2]) <= s[1]}
           bound == [s \in D |-> Len(list) - s[1]]
<1>1. Len(list) \in Nat /\ DOMAIN list = 1..Len(list) /\ R = {list[k] : k \in 1..Len(list)}
  BY DEF Range
<1>2. R \subseteq P /\ R = Elems(list)
  BY <1>1 DEF Elems
<1> HIDE DEF R
<1>3. ASSUME NEW s \in D
      PROVE  s = <<s[1], s[2]>> /\ s[1] \in 0..Len(list) /\ s[2] \in Seq(R) /\ s[1] \in Nat
  BY <1>1, <1>3
<1>4. ASSUME NEW s \in D \ stop
      PROVE  /\ step[s] = <<s[1] + 1, joined(s)>> /\ step[s] \in D
             /\ list[s[1] + 1] \in R /\ s[1] + 1 \in 1..Len(list)
  <2>1. s[1] + 1 \in 1..Len(list) /\ s[1] + 1 \in 0..Len(list) /\ s[2] \in Seq(R) /\ s \in D
    BY <1>1, <1>3, <1>4
  <2>2. list[s[1] + 1] \in R
    BY <1>1, <2>1
  <2>3. joined(s) \in Seq(R)
    <3>1. Append(s[2], list[s[1] + 1]) \in Seq(R)
      BY <2>1, <2>2, AppendElems
    <3> QED  BY <2>1, <3>1
  <2> QED  BY <2>1, <2>2, <2>3
<1>5. Goes(D, stop, step)
  BY <1>4 DEF Goes
<1>6. IsLoop(f, D, stop, step, out)
  <2>1. PICK g : IsLoop(g, D, stop, step, out)
    BY <1>5, LoopExists
  <2>2. g = [s \in D |-> IF s \in stop THEN out[s] ELSE g[step[s]]]
    BY <2>1 DEF IsLoop
  <2>3. \A s \in D : (IF s \in stop THEN out[s] ELSE g[step[s]])
                       = IF s[1] = Len(list) THEN s[2] ELSE g[<<s[1] + 1, joined(s)>>]
    OBVIOUS
  <2>4. g = [s \in D |-> IF s[1] = Len(list) THEN s[2] ELSE g[<<s[1] + 1, joined(s)>>]]
    BY <2>2, <2>3
  <2>5. f = [s \in D |-> IF s[1] = Len(list) THEN s[2] ELSE f[<<s[1] + 1, joined(s)>>]]
    BY <2>4 DEF R
  <2> HIDE DEF f
  <2>6. \A s \in D : (IF s \in stop THEN out[s] ELSE f[step[s]])
                       = IF s[1] = Len(list) THEN s[2] ELSE f[<<s[1] + 1, joined(s)>>]
    OBVIOUS
  <2>7. f = [s \in D |-> IF s \in stop THEN out[s] ELSE f[step[s]]]
    BY <2>5, <2>6
  <2> QED  BY <2>7 DEF IsLoop
<1>7. Unlinked(list, S) = f[<<0, <<>>>>]
  BY DEF Unlinked
<1> HIDE DEF f
<1>8. Keeps(I, stop, step)
  <2>1. ASSUME NEW s \in I \ stop PROVE step[s] \in I
    <3> DEFINE d == list[s[1] + 1]
    <3>1. /\ s \in D /\ s[1] \in Nat /\ s[2] \in Seq(R)
          /\ step[s] = <<s[1] + 1, joined(s)>> /\ step[s] \in D /\ d \in R
          /\ s[1] + 1 \in 1..Len(list)
      BY <1>3, <1>4, <2>1
    <3>2. /\ Elems(s[2]) = {list[k] : k \in 1..s[1]} \ S
          /\ NoDup(list) => NoDup(s[2])
          /\ Len(s[2]) <= s[1]
      BY <2>1
    <3>3. {list[k] : k \in 1..(s[1] + 1)} = {list[k] : k \in 1..s[1]} \cup {d}
      <4>1. 1..(s[1] + 1) = 1..s[1] \cup {s[1] + 1}
        BY <3>1
      <4> QED  BY <4>1
    <3>4. step[s][1] = s[1] + 1 /\ step[s][2] = joined(s)
      BY <3>1
    <3>5. CASE d \in S
      <4>1. joined(s) = s[2]
        BY <3>5
      <4>2. Len(s[2]) <= s[1] + 1
        <5>1. Len(s[2]) \in Nat
          BY <3>1
        <5> QED  BY <3>1, <3>2, <5>1
      <4> HIDE DEF d, joined
      <4> QED  BY <3>1, <3>2, <3>3, <3>4, <3>5, <4>1, <4>2
    <3>6. CASE d \notin S
      <4>1. joined(s) = Append(s[2], d)
        BY <3>6
      <4>2. NoDup(list) => d \notin Elems(s[2])
        <5>1. ASSUME NoDup(list), NEW k \in 1..s[1] PROVE list[k] # d
          <6>1. k \in DOMAIN list /\ s[1] + 1 \in DOMAIN list /\ k # s[1] + 1
            BY <1>1, <3>1
          <6> QED  BY <5>1, <6>1 DEF NoDup
        <5> HIDE DEF d
        <5> QED  BY <3>2, <5>1
      <4> HIDE DEF d, joined
      <4>3. /\ Elems(joined(s)) = Elems(s[2]) \cup {d}
            /\ NoDup(list) => NoDup(joined(s))
        BY <3>1, <3>2, <4>1, <4>2, AppendElems
      <4>4. Len(joined(s)) <= s[1] + 1
        BY <3>1, <3>2, <4>1
      <4> QED  BY <3>1, <3>2, <3>3, <3>4, <3>6, <4>3, <4>4
    <3> QED  BY <3>5, <3>6
  <2> QED  BY <2>1 DEF Keeps
<1>9. \A s \in I \ stop : bound[step[s]] < bound[s]
  <2>1. ASSUME NEW s \in I \ stop PROVE bound[step[s]] < bound[s]
    <3>1. s \in D /\ step[s] \in D /\ step[s][1] = s[1] + 1 /\ s[1] \in Nat
      BY <1>3, <1>4, <2>1
    <3> QED  BY <1>1, <3>1
  <2> QED  BY <2>1
<1>10. bound \in [D -> Nat] /\ I \in SUBSET D /\ <<0, <<>>>> \in I
  <2>1. \A s \in D : Len(list) - s[1] \in Nat
    BY <1>1, <1>3
  <2>2. <<0, <<>>>> \in D
    <3>1. <<>> \in Seq(R) /\ 0 \in 0..Len(list)
      BY <1>1
    <3> QED  BY <3>1
  <2>3. Elems(<<>>) = {} /\ NoDup(<<>>) /\ Len(<<>>) = 0
    BY DEF Elems, NoDup
  <2>4. {list[k] : k \in 1..0} = {}
    OBVIOUS
  <2> QED  BY <2>1, <2>2, <2>3, <2>4
<1> HIDE DEF I, bound, step, out, stop, D
<1>11. PICK t \in I \cap stop : f[<<0, <<>>>>] = out[t]
  <2>0. bound \in [D -> Nat] /\ I \in SUBSET D
    BY <1>10
  <2>1. ASSUME NEW s \in I PROVE \E t \in I \cap stop : f[s] = out[t]
    <3>1. Ending(f, D, stop, step, out, bound, I)
      BY <1>5, <1>6, <1>8, <1>9, <2>0 DEF Ending
    <3> QED BY <3>1, LoopEnds
  <2> QED  BY <1>10, <2>1
<1> USE DEF I, stop, out
<1>12. /\ t \in D /\ f[<<0, <<>>>>] = t[2] /\ t[1] = Len(list)
       /\ Elems(t[2]) = {list[k] : k \in 1..t[1]} \ S
       /\ NoDup(list) => NoDup(t[2])
       /\ Len(t[2]) <= t[1]
  BY <1>11
<1>13. t[2] \in Seq(R) /\ t[2] \in Seq(P)
  <2>1. t[2] \in Seq(R)
    BY <1>3, <1>12
  <2> QED  BY <1>2, <2>1
<1>14. Elems(t[2]) = Elems(list) \ S
  BY <1>1, <1>2, <1>12
<1> QED
  BY <1>7, <1>12, <1>13, <1>14

\* A heap with one field changed.
LEMMA HeapChanged ==
  ASSUME NEW h \in Heaps, NEW x
  PROVE  /\ [h EXCEPT !.free = x] = [map |-> h.map, free |-> x, last |-> h.last]
         /\ [h EXCEPT !.map = x] = [map |-> x, free |-> h.free, last |-> h.last]
         /\ [h EXCEPT !.last = x] = [map |-> h.map, free |-> h.free, last |-> x]
         /\ h.map \in [(-1)..N -> Byte] /\ h.free \in [1..bigList -> Seq(Blocks)]
         /\ h.last \in Blocks
<1>1. ASSUME NEW A, NEW B, NEW L, NEW g \in [map : A, free : B, last : L]
      PROVE  /\ [g EXCEPT !.free = x] = [map |-> g.map, free |-> x, last |-> g.last]
             /\ [g EXCEPT !.map = x] = [map |-> x, free |-> g.free, last |-> g.last]
             /\ [g EXCEPT !.last = x] = [map |-> g.map, free |-> g.free, last |-> x]
             /\ g.map \in A /\ g.free \in B /\ g.last \in L
  OBVIOUS
<1> QED  BY <1>1 DEF Heaps

\* A heap is made of its fields.
LEMMA HeapIs ==
  ASSUME NEW mm \in [(-1)..N -> Byte], NEW ff \in [1..bigList -> Seq(Blocks)],
         NEW ll \in Blocks
  PROVE  [map |-> mm, free |-> ff, last |-> ll] \in Heaps
BY DEF Heaps

\* removeFromFreeList takes chunks from all lists and leaves the map.
LEMMA RemoveFacts ==
  ASSUME NEW h \in Heaps, NEW S
  PROVE  LET r == removeFromFreeList(h, S) IN
         /\ r \in Heaps /\ r.map = h.map /\ r.last = h.last
         /\ \A i \in 1..bigList : /\ Elems(r.free[i]) = Elems(h.free[i]) \ S
                                  /\ NoDup(h.free[i]) => NoDup(r.free[i])
<1>1. h.map \in [(-1)..N -> Byte] /\ h.free \in [1..bigList -> Seq(Blocks)] /\ h.last \in Blocks
  BY DEF Heaps
<1>2. removeFromFreeList(h, S)
        = [map |-> h.map, free |-> [i \in 1..bigList |-> Unlinked(h.free[i], S)], last |-> h.last]
  BY HeapChanged DEF removeFromFreeList
<1>3. ASSUME NEW i \in 1..bigList
      PROVE  /\ Unlinked(h.free[i], S) \in Seq(Blocks)
             /\ Elems(Unlinked(h.free[i], S)) = Elems(h.free[i]) \ S
             /\ NoDup(h.free[i]) => NoDup(Unlinked(h.free[i], S))
  <2>1. h.free[i] \in Seq(Blocks)
    BY <1>1
  <2> QED  BY <2>1, UnlinkedFacts
<1>4. removeFromFreeList(h, S) \in Heaps
  <2>1. [i \in 1..bigList |-> Unlinked(h.free[i], S)] \in [1..bigList -> Seq(Blocks)]
    BY <1>3
  <2> QED  BY <1>1, <1>2, <2>1, HeapIs
<1> QED  BY <1>2, <1>3, <1>4

\* addToFreeList adds a chunk to the list for its size and leaves the map.
LEMMA AddFacts ==
  ASSUME NEW h \in Heaps, NEW c \in Blocks, size(h.map, c) \in 1..N,
         c \notin Elems(h.free[ListFor(size(h.map, c))])
  PROVE  LET r == addToFreeList(h, c) IN
         /\ r \in Heaps /\ r.map = h.map /\ r.last = h.last
         /\ \A i \in 1..bigList :
              /\ Elems(r.free[i]) = IF i = ListFor(size(h.map, c)) THEN Elems(h.free[i]) \cup {c}
                                    ELSE Elems(h.free[i])
              /\ NoDup(h.free[i]) => NoDup(r.free[i])
<1> DEFINE k == ListFor(size(h.map, c))
<1>1. h.map \in [(-1)..N -> Byte] /\ h.free \in [1..bigList -> Seq(Blocks)] /\ h.last \in Blocks
  BY DEF Heaps
<1>2. k \in 1..bigList
  BY ListFacts
<1> DEFINE x == [h.free EXCEPT ![k] = Append(@, c)]
<1>3. addToFreeList(h, c) = [map |-> h.map, free |-> x, last |-> h.last]
  <2>1. addToFreeList(h, c) = [h EXCEPT !.free = x]
    BY DEF addToFreeList
  <2> HIDE DEF x
  <2> QED  BY <2>1, HeapChanged
<1> HIDE DEF k
<1>4. /\ Append(h.free[k], c) \in Seq(Blocks)
      /\ Elems(Append(h.free[k], c)) = Elems(h.free[k]) \cup {c}
      /\ NoDup(h.free[k]) => NoDup(Append(h.free[k], c))
  <2>1. h.free[k] \in Seq(Blocks)
    BY <1>1, <1>2
  <2> QED  BY <2>1, AppendElems DEF k
<1>5. x \in [1..bigList -> Seq(Blocks)]
  BY <1>1, <1>2, <1>4
<1>6. \A i \in 1..bigList : x[i] = IF i = k THEN Append(h.free[k], c) ELSE h.free[i]
  BY <1>1
<1> HIDE DEF x
<1>7. addToFreeList(h, c) \in Heaps
  BY <1>1, <1>3, <1>5, HeapIs
<1>8. ASSUME NEW i \in 1..bigList
      PROVE  /\ Elems(x[i]) = IF i = k THEN Elems(h.free[i]) \cup {c} ELSE Elems(h.free[i])
             /\ NoDup(h.free[i]) => NoDup(x[i])
  <2>1. CASE i = k
    BY <1>4, <1>6, <2>1
  <2>2. CASE i # k
    BY <1>6, <2>2
  <2> QED  BY <2>1, <2>2
<1> QED  BY <1>3, <1>7, <1>8 DEF k

\* Mark makes a chunk of n blocks at c and leaves the lists.
LEMMA MarkFacts ==
  ASSUME NEW h \in Heaps, NEW c \in Blocks, NEW n \in 1..(N - c), NEW s \in {used, unused}
  PROVE  LET r == Mark(h, c, n, s) IN
         /\ r \in Heaps /\ r.free = h.free /\ r.last = h.last
         /\ Tiles(r.map, {c}, c, c + n)
         /\ size(r.map, c) = n /\ next(r.map, c) = c + n /\ (IsUsed(r.map, c) <=> s = used)
         /\ \A b \in (-1)..N : b \notin c..(c + n - 1) => r.map[b] = h.map[b]
<1> DEFINE w == markSize(h.map, c, n, s)
<1>1. h.map \in [(-1)..N -> Byte] /\ h.free \in [1..bigList -> Seq(Blocks)] /\ h.last \in Blocks
  BY DEF Heaps
<1>2. Mark(h, c, n, s) = [map |-> w, free |-> h.free, last |-> h.last]
  BY HeapChanged DEF Mark
<1>3. /\ c \in Int /\ n \in Nat \ {0} /\ n \in 1..N
      /\ c..(c + n - 1) \subseteq (-1)..N
  BY <1>1, Sizeable DEF Blocks
<1>4. n < MaxDistance * MaxDistance * MaxDistance
  BY <1>3, Sizeable
<1>5. /\ Marked(w, c, n, s)
      /\ \A b \in ((-1)..N) \ (c..(c + n - 1)) : w[b] = h.map[b]
      /\ w \in [(-1)..N -> Byte]
  <2>1. ASSUME NEW D, NEW m \in [D -> Byte], c..(c + n - 1) \subseteq D
        PROVE  /\ Marked(markSize(m, c, n, s), c, n, s)
               /\ \A b \in D \ (c..(c + n - 1)) : markSize(m, c, n, s)[b] = m[b]
               /\ markSize(m, c, n, s) \in [D -> Byte]
    BY <1>3, <1>4, <2>1, MarkSizeMarks
  <2> HIDE DEF w
  <2> QED  BY <1>1, <1>3, <2>1 DEF w
<1> HIDE DEF w
<1>6. /\ Tile(w, c) /\ size(w, c) = n /\ next(w, c) = c + n
      /\ IsUsed(w, c) <=> s = used
  BY <1>5, MarkedTile
<1>7. Tiles(w, {c}, c, c + n)
  BY <1>6, TilesOne
<1>8. Mark(h, c, n, s) \in Heaps
  BY <1>1, <1>2, <1>5, HeapIs
<1> QED
  BY <1>2, <1>3, <1>5, <1>6, <1>7, <1>8

\* The heap h has the chunks C: the free ones are in the list for their size,
\* once.
Listed(h, C) ==
  \A i \in 1..bigList :
    /\ NoDup(h.free[i])
    /\ Elems(h.free[i]) = {c \in C : ~IsUsed(h.map, c) /\ ListFor(size(h.map, c)) = i}

HeapOK(h, C) == h \in Heaps /\ Cut(h.map, C) /\ Listed(h, C) /\ h.last \in C

\* Neither neighbour of the chunk c is free.
Lone(m, c) == IsUsed(m, next(m, c)) /\ (c = 0 \/ IsUsed(m, prev(m, c)))

\* The chunks X are as they were.
Kept(m, w, X) ==
  \A c \in X : /\ size(w, c) = size(m, c) /\ next(w, c) = next(m, c)
               /\ IsUsed(w, c) <=> IsUsed(m, c)

\* When chunks D take the place of X in the map and in the lists, all is well.
LEMMA Relisted ==
  ASSUME NEW h, NEW C, HeapOK(h, C), NEW X, NEW D, D \cap (C \ X) = {},
         NEW r \in Heaps, Cut(r.map, (C \ X) \cup D), Kept(h.map, r.map, C \ X),
         \A i \in 1..bigList :
           /\ NoDup(r.free[i])
           /\ Elems(r.free[i]) = (Elems(h.free[i]) \ X)
                \cup {d \in D : ~IsUsed(r.map, d) /\ ListFor(size(r.map, d)) = i},
         r.last \in (C \ X) \cup D
  PROVE  HeapOK(r, (C \ X) \cup D)
<1>1. ASSUME NEW i \in 1..bigList
      PROVE  Elems(r.free[i]) = {c \in (C \ X) \cup D :
                                   ~IsUsed(r.map, c) /\ ListFor(size(r.map, c)) = i}
  <2>1. Elems(h.free[i]) = {c \in C : ~IsUsed(h.map, c) /\ ListFor(size(h.map, c)) = i}
    BY DEF HeapOK, Listed
  <2>2. \A c \in C \ X : /\ size(r.map, c) = size(h.map, c)
                         /\ IsUsed(r.map, c) <=> IsUsed(h.map, c)
    BY DEF Kept
  <2> QED  BY <2>1, <2>2
<1> QED  BY <1>1 DEF HeapOK, Listed

\* A heap that is well.
LEMMA HeapFacts ==
  ASSUME NEW h, NEW C, HeapOK(h, C)
  PROVE  /\ h \in Heaps /\ Cut(h.map, C) /\ h.last \in C
         /\ h.map \in [(-1)..N -> Byte] /\ h.free \in [1..bigList -> Seq(Blocks)]
         /\ h.last \in Blocks
         /\ \A i \in 1..bigList :
              /\ NoDup(h.free[i])
              /\ Elems(h.free[i]) = {c \in C : ~IsUsed(h.map, c) /\ ListFor(size(h.map, c)) = i}
BY HeapChanged DEF HeapOK, Listed

\* What combine does to the map and the lists, where c has a free neighbour.
LEMMA Combining1 ==
  ASSUME NEW h, NEW C, HeapOK(h, C), NEW c \in C, ~IsUsed(h.map, c), Run(h.map, c) # {c}
  PROVE  LET a == FirstFree(h.map, c)
             e == EndOfFree(h.map, c)
             r == combine(h, c)
         IN  /\ r \in Heaps /\ r.last = a
             /\ Cut(r.map, (C \ (a..(e - 1))) \cup {a})
             /\ Kept(h.map, r.map, C \ (a..(e - 1)))
             /\ size(r.map, a) = e - a /\ next(r.map, a) = e /\ ~IsUsed(r.map, a)
             /\ HeapOK(r, (C \ (a..(e - 1))) \cup {a})
<1> DEFINE m == h.map
           a == FirstFree(m, c)
           e == EndOfFree(m, c)
           run == C \cap (a..(e - 1))
           X == a..(e - 1)
           u == removeFromFreeList(h, run)
           v == [u EXCEPT !.map = invalidate(m, run)]
           k == Mark(v, a, e - a, unused)
           d == addToFreeList(k, a)
           r == combine(h, c)
<1>1. /\ h \in Heaps /\ Cut(m, C) /\ m \in [(-1)..N -> Byte]
      /\ \A i \in 1..bigList :
           /\ NoDup(h.free[i])
           /\ Elems(h.free[i]) = {x \in C : ~IsUsed(m, x) /\ ListFor(size(m, x)) = i}
  BY HeapFacts
<1>2. /\ a \in C /\ e \in C \cup {N} /\ a <= c /\ c < e /\ a < e
      /\ \A y \in run : ~IsUsed(m, y)
      /\ Run(m, c) = run
      /\ CombinedSize(m, c) = e - a /\ e - a \in 1..(N - a)
  BY <1>1, RunFacts
<1>3. combine(h, c) = [d EXCEPT !.last = a]
  BY <1>2 DEF combine
<1> HIDE DEF m, a, e
<1>4. /\ a \in Nat /\ a \in Blocks /\ e \in Nat /\ e <= N /\ N \in Nat
      /\ C \subseteq 0..(N - 1) /\ C \subseteq Nat
  <2>1. C \subseteq 0..(N - 1) /\ N \in Nat /\ C \subseteq Nat
    BY <1>1, CutRange
  <2> QED  BY <1>2, <2>1 DEF Blocks
<1>5. /\ u \in Heaps /\ u.map = m /\ u.last = h.last
      /\ \A i \in 1..bigList : /\ Elems(u.free[i]) = Elems(h.free[i]) \ run
                               /\ NoDup(h.free[i]) => NoDup(u.free[i])
  BY <1>1, RemoveFacts DEF m
<1> HIDE DEF u
<1>6. /\ invalidate(m, run) \in [(-1)..N -> Byte]
      /\ \A b \in (-1)..N : b \notin X => invalidate(m, run)[b] = m[b]
  <2>1. invalid \in Byte /\ DOMAIN m = (-1)..N
    BY <1>1, Bytes
  <2> QED  BY <1>1, <2>1 DEF invalidate
<1>7. v = [map |-> invalidate(m, run), free |-> u.free, last |-> u.last]
  BY <1>5, HeapChanged
<1>8. v \in Heaps /\ v.map = invalidate(m, run) /\ v.free = u.free
  <2>1. u.free \in [1..bigList -> Seq(Blocks)] /\ u.last \in Blocks
    BY <1>5, HeapChanged
  <2> HIDE DEF v
  <2>2. v \in Heaps
    BY <1>6, <1>7, <2>1, HeapIs
  <2> QED  BY <1>7, <2>2
<1> HIDE DEF v, run
<1>9. /\ k \in Heaps /\ k.free = v.free
      /\ Tiles(k.map, {a}, a, a + (e - a))
      /\ size(k.map, a) = e - a /\ next(k.map, a) = a + (e - a)
      /\ IsUsed(k.map, a) <=> unused = used
      /\ \A b \in (-1)..N : b \notin a..(a + (e - a) - 1) => k.map[b] = v.map[b]
  <2> DEFINE n == e - a
  <2>1. n \in 1..(N - a) /\ unused \in {used, unused} /\ k = Mark(v, a, n, unused)
    BY <1>2
  <2> HIDE DEF n, k
  <2>2. /\ k \in Heaps /\ k.free = v.free
        /\ Tiles(k.map, {a}, a, a + n)
        /\ size(k.map, a) = n /\ next(k.map, a) = a + n
        /\ IsUsed(k.map, a) <=> unused = used
        /\ \A b \in (-1)..N : b \notin a..(a + n - 1) => k.map[b] = v.map[b]
    BY <1>4, <1>8, <2>1, MarkFacts
  <2> QED  BY <2>2 DEF n
<1> HIDE DEF k
<1>10. /\ Tiles(k.map, {a}, a, e)
       /\ size(k.map, a) = e - a /\ next(k.map, a) = e
       /\ ~IsUsed(k.map, a)
       /\ \A b \in (-1)..N : b \notin X => k.map[b] = m[b]
  <2>1. a + (e - a) = e /\ a + (e - a) - 1 = e - 1 /\ unused # used
    BY <1>4, Bytes
  <2> QED  BY <1>6, <1>8, <1>9, <2>1
<1>11. a \notin Elems(k.free[ListFor(size(k.map, a))]) /\ size(k.map, a) \in 1..N
  <2>1. size(k.map, a) \in 1..N
    BY <1>2, <1>4, <1>10
  <2>2. ListFor(size(k.map, a)) \in 1..bigList
    BY <2>1, ListFacts
  <2>3. a \in run
    BY <1>2, <1>4 DEF run
  <2> QED  BY <1>5, <1>8, <1>9, <2>1, <2>2, <2>3
<1>12. /\ d \in Heaps /\ d.map = k.map /\ d.last = k.last
       /\ \A i \in 1..bigList :
            /\ Elems(d.free[i]) = IF i = ListFor(size(k.map, a)) THEN Elems(k.free[i]) \cup {a}
                                  ELSE Elems(k.free[i])
            /\ NoDup(k.free[i]) => NoDup(d.free[i])
  BY <1>4, <1>9, <1>11, AddFacts
<1> HIDE DEF d
<1>13. r = [map |-> d.map, free |-> d.free, last |-> a]
  BY <1>3, <1>12, HeapChanged
<1>14. r \in Heaps /\ r.map = k.map /\ r.free = d.free /\ r.last = a
  <2>1. d.map \in [(-1)..N -> Byte] /\ d.free \in [1..bigList -> Seq(Blocks)]
    BY <1>12, HeapChanged
  <2> QED  BY <1>4, <1>12, <1>13, <2>1, HeapIs
<1> HIDE DEF r
<1>15. Cut(r.map, (C \ X) \cup {a}) /\ Kept(m, r.map, C \ X)
  <2>1. r.map \in [(-1)..N -> Byte] /\ Tiles(r.map, {a}, a, e)
        /\ \A b \in (-1)..N : b \notin X => r.map[b] = m[b]
    BY <1>9, <1>10, <1>14, HeapChanged
  <2>2. /\ Cut(r.map, (C \ (a..(e - 1))) \cup {a})
        /\ \A x \in C \ (a..(e - 1)) :
             /\ size(r.map, x) = size(m, x) /\ next(r.map, x) = next(m, x)
             /\ IsUsed(r.map, x) <=> IsUsed(m, x)
    <3> DEFINE w == r.map
               D == {a}
    <3>1. /\ Cut(m, C) /\ a \in C /\ e \in C \cup {N} /\ a < e
          /\ w \in [(-1)..N -> Byte] /\ Tiles(w, D, a, e)
          /\ \A b \in (-1)..N : b \notin a..(e - 1) => w[b] = m[b]
      BY <1>1, <1>2, <2>1
    <3> HIDE DEF w, D
    <3> SUFFICES /\ Cut(w, (C \ (a..(e - 1))) \cup D)
                 /\ \A x \in C \ (a..(e - 1)) :
                      /\ size(w, x) = size(m, x) /\ next(w, x) = next(m, x)
                      /\ IsUsed(w, x) <=> IsUsed(m, x)
      BY DEF w, D
    <3> QED  BY <3>1, CutReplaced
  <2> QED  BY <2>2 DEF Kept
<1>16. HeapOK(r, (C \ X) \cup {a})
  <2>1. a \in X
    BY <1>2, <1>4
  <2>2. ASSUME NEW i \in 1..bigList
        PROVE  /\ NoDup(r.free[i])
               /\ Elems(r.free[i]) = (Elems(h.free[i]) \ X)
                    \cup {x \in {a} : ~IsUsed(r.map, x) /\ ListFor(size(r.map, x)) = i}
    <3>1. NoDup(r.free[i])
      BY <1>1, <1>5, <1>8, <1>9, <1>12, <1>14
    <3>2. Elems(k.free[i]) = Elems(h.free[i]) \ X
      <4>1. Elems(k.free[i]) = Elems(h.free[i]) \ run /\ Elems(h.free[i]) \subseteq C
        BY <1>1, <1>5, <1>8, <1>9
      <4> QED  BY <4>1 DEF run
    <3>3. Elems(r.free[i]) = IF i = ListFor(size(r.map, a)) THEN Elems(k.free[i]) \cup {a}
                             ELSE Elems(k.free[i])
      BY <1>12, <1>14
    <3>4. ~IsUsed(r.map, a)
      BY <1>10, <1>14
    <3> QED  BY <3>1, <3>2, <3>3, <3>4
  <2>3. {a} \cap (C \ X) = {}
    BY <2>1
  <2>4. Kept(h.map, r.map, C \ X)
    BY <1>15 DEF m
  <2> HIDE DEF X
  <2> QED  BY <1>14, <1>15, <2>2, <2>3, <2>4, Relisted
<1>17. size(r.map, a) = e - a /\ next(r.map, a) = e /\ ~IsUsed(r.map, a)
  BY <1>10, <1>14
<1> QED
  BY <1>14, <1>15, <1>16, <1>17 DEF a, e, m, r

\* A chunk has the neighbours it had if they are not among those that changed.
LEMMA NeighboursKept ==
  ASSUME NEW m, NEW C, Cut(m, C), NEW X, NEW D, NEW w, Cut(w, (C \ X) \cup D),
         Kept(m, w, C \ X), NEW y \in C \ X
  PROVE  /\ next(m, y) \notin X => (IsUsed(w, next(w, y)) <=> IsUsed(m, next(m, y)))
         /\ y # 0 /\ prev(m, y) \notin X =>
              prev(w, y) = prev(m, y) /\ (IsUsed(w, prev(w, y)) <=> IsUsed(m, prev(m, y)))
         /\ next(m, y) \notin X /\ (y = 0 \/ prev(m, y) \notin X) =>
              (Lone(w, y) <=> Lone(m, y))
<1>1. next(w, y) = next(m, y)
  BY DEF Kept
<1>2. ASSUME next(m, y) \notin X PROVE IsUsed(w, next(w, y)) <=> IsUsed(m, next(m, y))
  <2>1. next(m, y) \in C \cup {N} /\ IsUsed(m, N) /\ IsUsed(w, N)
    BY CutFacts
  <2>2. CASE next(m, y) \in C
    BY <1>1, <1>2, <2>2 DEF Kept
  <2>3. CASE next(m, y) = N
    BY <1>1, <2>1, <2>3
  <2> QED  BY <2>1, <2>2, <2>3
<1>3. ASSUME y # 0, prev(m, y) \notin X
      PROVE  prev(w, y) = prev(m, y) /\ (IsUsed(w, prev(w, y)) <=> IsUsed(m, prev(m, y)))
  <2> DEFINE p == prev(m, y)
  <2>1. p \in C \ X /\ next(m, p) = y
    BY <1>3, Previous
  <2> HIDE DEF p
  <2>2. next(w, p) = y /\ (IsUsed(w, p) <=> IsUsed(m, p)) /\ p \in (C \ X) \cup D
    BY <2>1 DEF Kept
  <2>3. prev(w, y) = p
    BY <2>2, CutFacts
  <2> QED  BY <2>2, <2>3 DEF p
<1> QED  BY <1>2, <1>3 DEF Lone

\* combine makes one chunk of c and its free neighbours.
LEMMA CombineFacts ==
  ASSUME NEW h, NEW C, HeapOK(h, C), NEW c \in C, ~IsUsed(h.map, c)
  PROVE  LET a == FirstFree(h.map, c)
             e == EndOfFree(h.map, c)
             X == a..(e - 1)
             r == combine(h, c)
         IN  /\ a \in C /\ e \in C \cup {N} /\ a <= c /\ c < e
             /\ a \in Nat /\ e \in Nat /\ e <= N
             /\ \A y \in C \cap X : ~IsUsed(h.map, y)
             /\ Run(h.map, c) = C \cap X /\ CombinedSize(h.map, c) = e - a
             /\ HeapOK(r, (C \ X) \cup {a})
             /\ Kept(h.map, r.map, C \ X)
             /\ size(r.map, a) = e - a /\ next(r.map, a) = e /\ ~IsUsed(r.map, a)
             /\ c \in (C \ X) \cup {a} \/ contains(r.map, r.last, c)
<1> DEFINE m == h.map
           a == FirstFree(m, c)
           e == EndOfFree(m, c)
           X == a..(e - 1)
           r == combine(h, c)
<1>1. HeapOK(h, C) /\ Cut(m, C)
  BY HeapFacts
<1>2. /\ a \in C /\ e \in C \cup {N} /\ a <= c /\ c < e /\ a < e
      /\ \A y \in C \cap X : ~IsUsed(m, y)
      /\ Run(m, c) = C \cap X /\ CombinedSize(m, c) = e - a
  BY <1>1, RunFacts
<1>3. a \in Nat /\ e \in Nat /\ e <= N /\ c \in Nat
  BY <1>1, <1>2, CutRange
<1>4. CASE Run(m, c) # {c}
  <2>1. /\ r \in Heaps /\ r.last = a
        /\ Kept(m, r.map, C \ X)
        /\ size(r.map, a) = e - a /\ next(r.map, a) = e /\ ~IsUsed(r.map, a)
        /\ HeapOK(r, (C \ X) \cup {a})
    BY <1>1, <1>4, Combining1
  <2>2. contains(r.map, r.last, c)
    BY <1>2, <2>1 DEF contains
  <2> QED  BY <1>2, <1>3, <2>1, <2>2
<1>5. CASE Run(m, c) = {c}
  <2>1. r = h
    BY <1>5 DEF combine
  <2> HIDE DEF a, e, m, r
  <2>2. C \cap X = {c}
    BY <1>2, <1>5
  <2>3. a = c
    <3>1. a \in X
      BY <1>2, <1>3
    <3> QED  BY <1>2, <2>2, <3>1
  <2>4. next(m, c) = e
    <3>1. next(m, c) \in C \cup {N} /\ c < next(m, c) /\ next(m, c) \in Nat /\ next(m, c) <= N
      BY <1>1, CutFacts
    <3>2. e \in C => e <= c \/ next(m, c) <= e
      BY <1>1, CutFacts
    <3>3. next(m, c) <= e
      BY <1>2, <1>3, <3>1, <3>2
    <3>4. ASSUME next(m, c) < e PROVE FALSE
      <4>1. next(m, c) \in C /\ next(m, c) \in X
        BY <1>2, <1>3, <2>3, <3>1, <3>4, Sizeable
      <4> QED  BY <1>3, <2>2, <3>1, <4>1
    <3> QED  BY <1>3, <3>1, <3>3, <3>4
  <2>5. size(m, c) = e - c
    <3>1. next(m, c) = c + size(m, c) /\ size(m, c) \in Nat
      BY <1>1, CutFacts
    <3> QED  BY <1>3, <2>4, <3>1
  <2>6. (C \ X) \cup {a} = C
    BY <2>2, <2>3
  <2>7. Kept(m, r.map, C \ X)
    BY <2>1 DEF Kept, m
  <2>8. /\ HeapOK(r, (C \ X) \cup {a})
        /\ size(r.map, a) = e - a /\ next(r.map, a) = e /\ ~IsUsed(r.map, a)
        /\ c \in (C \ X) \cup {a}
    BY <1>1, <2>1, <2>3, <2>4, <2>5, <2>6 DEF m
  <2> QED  BY <1>2, <1>3, <2>7, <2>8 DEF m, a, e, r
<1> QED  BY <1>4, <1>5

\* What combine makes has no free neighbours, and it takes none from others.
LEMMA CombineLone ==
  ASSUME NEW h, NEW C, HeapOK(h, C), NEW c \in C, ~IsUsed(h.map, c)
  PROVE  LET a == FirstFree(h.map, c)
             e == EndOfFree(h.map, c)
             X == a..(e - 1)
             r == combine(h, c)
         IN  /\ Lone(r.map, a)
             /\ \A y \in C \ X : ~IsUsed(h.map, y) =>
                  /\ next(h.map, y) \notin X /\ (y = 0 \/ prev(h.map, y) \notin X)
                  /\ Lone(r.map, y) <=> Lone(h.map, y)
                  /\ IsUsed(r.map, next(r.map, y)) <=> IsUsed(h.map, next(h.map, y))
<1> DEFINE m == h.map
           a == FirstFree(m, c)
           e == EndOfFree(m, c)
           X == a..(e - 1)
           r == combine(h, c)
           w == r.map
           B == (C \ X) \cup {a}
<1>1. /\ HeapOK(h, C) /\ Cut(m, C)
      /\ a \in C /\ e \in C \cup {N} /\ a <= c /\ c < e
      /\ a \in Nat /\ e \in Nat /\ e <= N
      /\ HeapOK(r, B)
      /\ Kept(m, w, C \ X)
      /\ next(w, a) = e
  BY HeapFacts, CombineFacts
<1>2. (a = 0 \/ IsUsed(m, prev(m, a))) /\ IsUsed(m, e)
  BY <1>1, RunFacts
<1>3. Cut(w, B) /\ C \subseteq Nat /\ N \in Nat /\ \A x \in C : x < N
  BY <1>1, HeapFacts, CutRange
<1> HIDE DEF m, a, e, r
<1>4. Lone(w, a)
  <2>1. IsUsed(w, e)
    <3>1. CASE e = N
      BY <1>3, <3>1, CutFacts
    <3>2. CASE e # N
      <4>1. e \in C \ X
        BY <1>1, <3>2
      <4> QED  BY <1>1, <1>2, <4>1 DEF Kept
    <3> QED  BY <3>1, <3>2
  <2>2. ASSUME a # 0 PROVE IsUsed(w, prev(w, a))
    <3> DEFINE p == prev(m, a)
    <3>1. p \in C /\ next(m, p) = a /\ p < a
      BY <1>1, <2>2, Previous
    <3>2. p \in C \ X /\ p \in B
      BY <1>1, <1>3, <3>1
    <3> HIDE DEF p
    <3>3. next(w, p) = a /\ (IsUsed(w, p) <=> IsUsed(m, p))
      BY <1>1, <3>1, <3>2 DEF Kept
    <3>4. prev(w, a) = p
      BY <1>3, <3>2, <3>3, CutFacts
    <3> QED  BY <1>2, <2>2, <3>3, <3>4 DEF p
  <2> QED  BY <1>1, <2>1, <2>2 DEF Lone
<1>5. ASSUME NEW y \in C \ X, ~IsUsed(m, y)
      PROVE  /\ next(m, y) \notin X /\ (y = 0 \/ prev(m, y) \notin X)
             /\ Lone(w, y) <=> Lone(m, y)
             /\ IsUsed(w, next(w, y)) <=> IsUsed(m, next(m, y))
  <2>1. y \in Nat /\ (y < a \/ e <= y)
    BY <1>1, <1>3
  <2>2. next(m, y) \notin X
    <3> DEFINE z == next(m, y)
    <3>1. z \in Nat /\ y < z /\ prev(m, z) = y /\ (a <= y \/ z <= a)
      BY <1>1, CutFacts
    <3> HIDE DEF z
    <3> SUFFICES ASSUME z \in X PROVE FALSE
      BY DEF z
    <3>2. y < a /\ z = a /\ a # 0
      BY <1>1, <2>1, <3>1
    <3> QED  BY <1>2, <1>5, <3>1, <3>2
  <2>3. y = 0 \/ prev(m, y) \notin X
    <3> DEFINE p == prev(m, y)
    <3> SUFFICES ASSUME y # 0, p \in X PROVE FALSE
      OBVIOUS
    <3>1. p \in C /\ next(m, p) = y /\ p < y /\ p \in Nat
      BY <1>1, <1>3, Previous
    <3>2. e \in C => e <= p \/ y <= e
      BY <1>1, <3>1, CutFacts
    <3> HIDE DEF p
    <3>3. e <= y
      BY <1>1, <2>1, <3>1
    <3>4. y <= e
      BY <1>1, <1>3, <2>1, <3>1, <3>2
    <3> QED  BY <1>1, <1>2, <1>5, <2>1, <3>3, <3>4
  <2>4. Cut(m, C) /\ Cut(w, (C \ X) \cup {a}) /\ Kept(m, w, C \ X)
    BY <1>1, <1>3
  <2> HIDE DEF X, w
  <2>5. Lone(w, y) <=> Lone(m, y)
    BY <2>2, <2>3, <2>4, NeighboursKept
  <2>6. IsUsed(w, next(w, y)) <=> IsUsed(m, next(m, y))
    BY <2>2, <2>4, NeighboursKept
  <2> QED  BY <2>2, <2>3, <2>5, <2>6
<1> QED  BY <1>4, <1>5 DEF m, a, e, r

\* Free chunks that touch are not both long.
Paired(m, C) ==
  \A c \in C : ~IsUsed(m, c) /\ ~IsUsed(m, next(m, c)) =>
    size(m, c) <= nfree \/ size(m, next(m, c)) <= nfree

\* No free chunks touch.
AllLone(m, C) == \A c \in C : ~IsUsed(m, c) => Lone(m, c)

InUse(m, C) == {c \in C : IsUsed(m, c)}

\* The used chunks are the same.
SameUsed(m, C, w, D) ==
  InUse(w, D) = InUse(m, C) /\ \A c \in InUse(m, C) : size(w, c) = size(m, c)

\* A list has at most as many chunks as there are blocks.
LEMMA ShortList ==
  ASSUME NEW s \in Seq(Blocks), NoDup(s)
  PROVE  Len(s) \in Nat /\ Len(s) <= N
<1>1. N \in Nat \ {0} /\ Blocks = 0..(N - 1)
  BY Sizeable DEF Blocks
<1>2. IsFiniteSet(Blocks) /\ Cardinality(Blocks) = N
  <2>1. 0 \in Int /\ N - 1 \in Int
    BY <1>1
  <2>2. IsFiniteSet(0..(N - 1))
        /\ Cardinality(0..(N - 1)) = IF 0 > N - 1 THEN 0 ELSE (N - 1) - 0 + 1
    BY <2>1, FS_Interval
  <2> QED  BY <1>1, <2>2
<1>3. Len(s) \in Nat /\ DOMAIN s = 1..Len(s) /\ s \in [1..Len(s) -> Blocks]
  <2> HIDE DEF Blocks
  <2> QED  OBVIOUS
<1>4. IsFiniteSet(1..Len(s)) /\ Cardinality(1..Len(s)) = Len(s)
  <2>1. 1 \in Int /\ Len(s) \in Int
    BY <1>3
  <2>2. IsFiniteSet(1..Len(s))
        /\ Cardinality(1..Len(s)) = IF 1 > Len(s) THEN 0 ELSE Len(s) - 1 + 1
    BY <2>1, FS_Interval
  <2> QED  BY <1>3, <2>2
<1>5. ASSUME N < Len(s) PROVE FALSE
  <2>1. Cardinality(Blocks) < Cardinality(1..Len(s))
    BY <1>2, <1>4, <1>5
  <2> HIDE DEF Blocks
  <2>2. \E x, y \in 1..Len(s) : x # y /\ s[x] = s[y]
    BY <1>2, <1>3, <1>4, <2>1, FS_PigeonHole
  <2> QED  BY <1>3, <2>2 DEF NoDup
<1> QED  BY <1>1, <1>3, <1>5

\* A chunk that is found is long enough, and none is found only if there is none.
LEMMA FoundFacts ==
  ASSUME NEW h, NEW C, HeapOK(h, C), NEW n \in 1..N
  PROVE  /\ Found(h, n) # Nowhere =>
              /\ Found(h, n) \in C /\ ~IsUsed(h.map, Found(h, n))
              /\ n <= size(h.map, Found(h, n))
         /\ Found(h, n) = Nowhere =>
              \A c \in C : ~IsUsed(h.map, c) => size(h.map, c) < n
<1> DEFINE m == h.map
           exact == {i \in n..nfree : h.free[i] # <<>>}
           list == h.free[bigList]
           big == {k \in DOMAIN list : size(m, list[k]) >= n}
           Free(i) == {c \in C : ~IsUsed(m, c) /\ ListFor(size(m, c)) = i}
<1>1. /\ Cut(m, C) /\ h.free \in [1..bigList -> Seq(Blocks)]
      /\ \A i \in 1..bigList : Elems(h.free[i]) = Free(i)
  BY HeapFacts
<1>2. /\ nfree \in Nat \ {0} /\ bigList = nfree + 1 /\ bigList \in 1..bigList /\ n \in Nat \ {0}
      /\ N \in Nat /\ nfree < N
  BY ListFacts, Sizeable
<1>3. \A c \in C : size(m, c) \in 1..N /\ size(m, c) \in Nat /\ c \in 0..(N - 1)
  BY <1>1, CutFacts, CutRange
<1>4. Nowhere \notin C
  BY <1>3, ZoneHeapAssumption
<1>5. /\ list \in Seq(Blocks) /\ Elems(list) = Free(bigList)
      /\ Len(list) \in Nat /\ DOMAIN list = 1..Len(list)
  <2>1. list \in Seq(Blocks) /\ Elems(list) = Free(bigList)
    BY <1>1, <1>2
  <2> HIDE DEF list, Blocks
  <2> QED  BY <2>1
<1>6. CASE exact # {}
  <2>1. Lowest(exact) \in exact
    <3>1. exact \in SUBSET Nat
      BY <1>2
    <3> HIDE DEF exact
    <3> QED  BY <1>6, <3>1, LowestIn
  <2> DEFINE i == Lowest(exact)
  <2>2. i \in n..nfree /\ h.free[i] # <<>> /\ i \in 1..bigList
    BY <1>2, <2>1
  <2>3. Found(h, n) = Head(h.free[i])
    BY <1>6 DEF Found
  <2> HIDE DEF i, m
  <2>4. Head(h.free[i]) \in Elems(h.free[i])
    BY <1>1, <2>2, TailElems
  <2>5. Head(h.free[i]) \in Free(i)
    BY <1>1, <2>2, <2>4
  <2>6. size(m, Head(h.free[i])) = i
    <3>1. ListFor(size(m, Head(h.free[i]))) = i /\ i <= nfree
      BY <1>2, <2>2, <2>5
    <3> QED  BY <1>3, <2>5, <3>1, ListFacts
  <2> QED  BY <1>2, <1>4, <2>2, <2>3, <2>5, <2>6 DEF m
<1>7. CASE exact = {}
  <2>1. ASSUME big # {}
        PROVE  /\ Found(h, n) = list[Lowest(big)] /\ Found(h, n) # Nowhere
               /\ Found(h, n) \in C /\ ~IsUsed(m, Found(h, n)) /\ n <= size(m, Found(h, n))
    <3>1. Found(h, n) = list[Lowest(big)]
      BY <1>7, <2>1 DEF Found
    <3>2. Lowest(big) \in big
      <4>1. big \in SUBSET Nat
        BY <1>5
      <4> HIDE DEF big
      <4> QED  BY <2>1, <4>1, LowestIn
    <3> DEFINE k == Lowest(big)
    <3>3. k \in DOMAIN list /\ size(m, list[k]) >= n
      BY <3>2
    <3> HIDE DEF k, list
    <3>4. list[k] \in Elems(list)
      BY <3>3 DEF Elems
    <3>5. list[k] \in C /\ ~IsUsed(m, list[k])
      BY <1>5, <3>4
    <3>6. n <= size(m, list[k])
      BY <1>2, <1>3, <3>3, <3>5
    <3> QED  BY <1>4, <3>1, <3>5, <3>6 DEF k, list
  <2>2. ASSUME big = {}
        PROVE  /\ Found(h, n) = Nowhere
               /\ \A c \in C : ~IsUsed(m, c) => size(m, c) < n
    <3>1. Found(h, n) = Nowhere
      BY <1>7, <2>2 DEF Found
    <3>2. ASSUME NEW c \in C, ~IsUsed(m, c), n <= size(m, c) PROVE FALSE
      <4> DEFINE i == ListFor(size(m, c))
      <4>1. i \in 1..bigList /\ size(m, c) \in 1..N
        BY <1>3, ListFacts
      <4>2. c \in Elems(h.free[i])
        BY <1>1, <3>2, <4>1
      <4>3. CASE i <= nfree
        <5>1. i = size(m, c)
          BY <4>1, <4>3, ListFacts
        <5>2. i \in n..nfree
          BY <1>2, <1>3, <3>2, <4>3, <5>1
        <5>3. h.free[i] # <<>>
          BY <4>2 DEF Elems
        <5> HIDE DEF i
        <5> QED  BY <1>7, <5>2, <5>3
      <4>4. CASE ~(i <= nfree)
        <5>1. i = bigList
          BY <1>2, <4>1, <4>4
        <5>2. PICK k \in DOMAIN list : list[k] = c
          BY <4>2, <5>1 DEF Elems
        <5>3. k \in big
          BY <1>2, <1>3, <3>2, <5>2
        <5> QED  BY <2>2, <5>3
      <4> QED  BY <4>3, <4>4
    <3> QED  BY <1>2, <1>3, <3>1, <3>2
  <2> QED  BY <1>4, <2>1, <2>2
<1> QED  BY <1>6, <1>7

\* The used chunks stay the same over two steps.
LEMMA SameUsedAgain ==
  ASSUME NEW m, NEW C, NEW w, NEW D, NEW v, NEW E,
         SameUsed(m, C, w, D), SameUsed(w, D, v, E)
  PROVE  SameUsed(m, C, v, E)
BY DEF SameUsed

\* When free chunks X become free chunks D, the used ones are the same.
LEMMA UsedKept ==
  ASSUME NEW m, NEW C, NEW w, NEW X, NEW D, Kept(m, w, C \ X),
         \A c \in C \cap X : ~IsUsed(m, c), \A d \in D : ~IsUsed(w, d)
  PROVE  SameUsed(m, C, w, (C \ X) \cup D)
<1>1. \A c \in C \ X : size(w, c) = size(m, c) /\ (IsUsed(w, c) <=> IsUsed(m, c))
  BY DEF Kept
<1>2. ASSUME NEW c \in InUse(w, (C \ X) \cup D) PROVE c \in InUse(m, C)
  <2>1. IsUsed(w, c) /\ c \in C \ X
    BY <1>2 DEF InUse
  <2> QED  BY <1>1, <2>1 DEF InUse
<1>3. ASSUME NEW c \in InUse(m, C)
      PROVE  c \in InUse(w, (C \ X) \cup D) /\ size(w, c) = size(m, c)
  <2>1. IsUsed(m, c) /\ c \in C \ X
    BY <1>3 DEF InUse
  <2> QED  BY <1>1, <2>1 DEF InUse
<1> QED  BY <1>2, <1>3 DEF SameUsed

\* combine leaves the used chunks alone, and free chunks that touch no others.
LEMMA CombineKeeps ==
  ASSUME NEW h, NEW C, HeapOK(h, C), NEW c \in C, ~IsUsed(h.map, c)
  PROVE  LET a == FirstFree(h.map, c)
             e == EndOfFree(h.map, c)
             D == (C \ (a..(e - 1))) \cup {a}
             w == combine(h, c).map
         IN  /\ SameUsed(h.map, C, w, D)
             /\ \A y \in D : ~IsUsed(w, y) =>
                  \/ y = a /\ Lone(w, a) /\ size(w, a) = e - a
                  \/ /\ y \in C \ (a..(e - 1)) /\ ~IsUsed(h.map, y)
                     /\ size(w, y) = size(h.map, y)
                     /\ Lone(w, y) <=> Lone(h.map, y)
                     /\ ~IsUsed(w, next(w, y)) =>
                          /\ ~IsUsed(h.map, next(h.map, y))
                          /\ size(w, next(w, y)) = size(h.map, next(h.map, y))
             /\ Paired(h.map, C) => Paired(w, D)
<1> DEFINE m == h.map
           a == FirstFree(m, c)
           e == EndOfFree(m, c)
           X == a..(e - 1)
           D == (C \ X) \cup {a}
           r == combine(h, c)
           w == r.map
<1>1. /\ Cut(m, C) /\ HeapOK(r, D)
      /\ a \in C /\ \A y \in C \cap X : ~IsUsed(m, y)
      /\ Kept(m, w, C \ X)
      /\ size(w, a) = e - a /\ next(w, a) = e /\ ~IsUsed(w, a)
  BY HeapFacts, CombineFacts
<1>2. /\ Lone(w, a)
      /\ \A y \in C \ X : ~IsUsed(m, y) =>
           /\ next(m, y) \notin X /\ (y = 0 \/ prev(m, y) \notin X)
           /\ Lone(w, y) <=> Lone(m, y)
           /\ IsUsed(w, next(w, y)) <=> IsUsed(m, next(m, y))
  BY CombineLone
<1>3. Cut(w, D)
  BY <1>1, HeapFacts
<1> HIDE DEF m, a, e, r, X, w
<1>4. SameUsed(m, C, w, (C \ X) \cup {a})
  BY <1>1, UsedKept
<1>5. ASSUME NEW y \in D, ~IsUsed(w, y)
      PROVE  \/ y = a /\ Lone(w, a) /\ size(w, a) = e - a
             \/ /\ y \in C \ X /\ ~IsUsed(m, y)
                /\ size(w, y) = size(m, y)
                /\ Lone(w, y) <=> Lone(m, y)
                /\ ~IsUsed(w, next(w, y)) => /\ ~IsUsed(m, next(m, y))
                                             /\ size(w, next(w, y)) = size(m, next(m, y))
  <2>1. CASE y = a
    BY <1>1, <1>2, <2>1
  <2>2. CASE y \in C \ X
    <3>1. /\ size(w, y) = size(m, y) /\ next(w, y) = next(m, y) /\ ~IsUsed(m, y)
      BY <1>1, <1>5, <2>2 DEF Kept
    <3>2. /\ next(m, y) \notin X /\ (Lone(w, y) <=> Lone(m, y))
          /\ IsUsed(w, next(w, y)) <=> IsUsed(m, next(m, y))
      BY <1>2, <2>2, <3>1
    <3>3. ASSUME ~IsUsed(w, next(w, y)) PROVE size(w, next(w, y)) = size(m, next(m, y))
      <4>1. next(m, y) \in C \cup {N} /\ IsUsed(m, N)
        BY <1>1, <2>2, CutFacts
      <4>2. next(m, y) \in C \ X
        BY <3>2, <3>3, <4>1
      <4> QED  BY <1>1, <3>1, <4>2 DEF Kept
    <3> QED  BY <2>2, <3>1, <3>2, <3>3
  <2> QED  BY <2>1, <2>2
<1>6. ASSUME Paired(m, C), NEW y \in D, ~IsUsed(w, y), ~IsUsed(w, next(w, y))
      PROVE  size(w, y) <= nfree \/ size(w, next(w, y)) <= nfree
  <2>1. ~Lone(w, y)
    BY <1>6 DEF Lone
  <2>2. /\ y \in C /\ ~IsUsed(m, y) /\ ~IsUsed(m, next(m, y))
        /\ size(w, y) = size(m, y) /\ size(w, next(w, y)) = size(m, next(m, y))
    BY <1>5, <1>6, <2>1
  <2> QED  BY <1>6, <2>2 DEF Paired
<1>7. Paired(m, C) => Paired(w, D)
  BY <1>6 DEF Paired
<1> QED  BY <1>4, <1>5, <1>7 DEF m, a, e, r, X, w

\* The heap h with chunks C has been combined as far as s, and has chunks D.
CombiningOK(h, C, s, D) ==
  /\ HeapOK(s.heap, D) /\ SameUsed(h.map, C, s.heap.map, D) /\ Paired(s.heap.map, D)
  /\ \A y \in D : ~IsUsed(s.heap.map, y) =>
       /\ ListFor(size(s.heap.map, y)) < s.list => Lone(s.heap.map, y)
       /\ ListFor(size(s.heap.map, y)) = s.list => Lone(s.heap.map, y) \/ y \in Elems(s.todo)
       /\ \/ size(s.heap.map, y) <= s.biggest
          \/ y \in C /\ ~IsUsed(h.map, y) /\ size(h.map, y) = size(s.heap.map, y)
  /\ NoDup(s.todo) /\ Elems(s.todo) \subseteq Elems(s.heap.free[s.list])

ToCombine(s) == (bigList - s.list) * (N + 1) + Len(s.todo)

\* The fields of a state of combineAll.
LEMMA CombiningState ==
  ASSUME NEW s \in Combining
  PROVE  /\ s.heap \in Heaps /\ s.list \in 1..bigList /\ s.todo \in Seq(Blocks)
         /\ s.biggest \in 0..N
BY DEF Combining

\* A state of combineAll is made of its fields.
LEMMA CombiningIs ==
  ASSUME NEW g \in Heaps, NEW l \in 1..bigList, NEW t \in Seq(Blocks), NEW z \in 0..N
  PROVE  [heap |-> g, list |-> l, todo |-> t, biggest |-> z] \in Combining
BY DEF Combining

\* On to the next list.
LEMMA NextList ==
  ASSUME NEW h, NEW C, NEW s \in Combining, NEW D, CombiningOK(h, C, s, D),
         s.list # bigList, s.todo = <<>>
  PROVE  /\ CombineNext(s) \in Combining /\ CombiningOK(h, C, CombineNext(s), D)
         /\ ToCombine(CombineNext(s)) < ToCombine(s)
<1> DEFINE g == s.heap
           l == s.list
           b == s.biggest
           todo == g.free[l + 1]
           r == CombineNext(s)
<1>1. /\ g \in Heaps /\ l \in 1..bigList /\ b \in 0..N
      /\ r = [heap |-> g, list |-> l + 1, todo |-> todo, biggest |-> b]
  BY CombiningState DEF CombineNext
<1>2. /\ HeapOK(g, D) /\ SameUsed(h.map, C, g.map, D) /\ Paired(g.map, D)
      /\ \A y \in D : ~IsUsed(g.map, y) =>
           /\ ListFor(size(g.map, y)) < l => Lone(g.map, y)
           /\ ListFor(size(g.map, y)) = l => Lone(g.map, y) \/ y \in Elems(s.todo)
           /\ \/ size(g.map, y) <= b
              \/ y \in C /\ ~IsUsed(h.map, y) /\ size(h.map, y) = size(g.map, y)
  BY DEF CombiningOK
<1>3. /\ l + 1 \in 1..bigList /\ bigList \in Nat /\ l \in Nat /\ bigList - (l + 1) \in Nat
      /\ bigList - l = (bigList - (l + 1)) + 1 /\ N \in Nat
  BY <1>1, ListFacts, Sizeable
<1>4. /\ g.free \in [1..bigList -> Seq(Blocks)] /\ NoDup(todo)
      /\ Elems(todo) = {c \in D : ~IsUsed(g.map, c) /\ ListFor(size(g.map, c)) = l + 1}
      /\ Cut(g.map, D)
  <2> HIDE DEF g, l
  <2>1. /\ g.free \in [1..bigList -> Seq(Blocks)] /\ Cut(g.map, D)
        /\ \A i \in 1..bigList :
             /\ NoDup(g.free[i])
             /\ Elems(g.free[i]) = {c \in D : ~IsUsed(g.map, c) /\ ListFor(size(g.map, c)) = i}
    BY <1>2, HeapFacts
  <2> QED  BY <1>3, <2>1
<1>5. todo \in Seq(Blocks)
  <2> HIDE DEF g, l
  <2> QED  BY <1>3, <1>4
<1>6. r \in Combining
  BY <1>1, <1>3, <1>5, CombiningIs
<1>7. r.heap = g /\ r.list = l + 1 /\ r.todo = todo /\ r.biggest = b
  BY <1>1
<1> HIDE DEF g, l, b, todo, r
<1>8. \A y \in D : ListFor(size(g.map, y)) \in 1..bigList
  BY <1>4, CutFacts, ListFacts
<1>9. ASSUME NEW y \in D, ~IsUsed(g.map, y)
      PROVE  /\ ListFor(size(g.map, y)) < l + 1 => Lone(g.map, y)
             /\ ListFor(size(g.map, y)) = l + 1 => y \in Elems(todo)
  <2>1. ListFor(size(g.map, y)) < l + 1 =>
          ListFor(size(g.map, y)) < l \/ ListFor(size(g.map, y)) = l
    BY <1>3, <1>8
  <2>2. Elems(s.todo) = {}
    BY DEF Elems
  <2> QED  BY <1>2, <1>4, <1>9, <2>1, <2>2
<1>10. CombiningOK(h, C, r, D)
  <2>1. Elems(r.todo) \subseteq Elems(r.heap.free[r.list]) /\ NoDup(r.todo)
    BY <1>4, <1>7 DEF todo
  <2>2. HeapOK(r.heap, D) /\ SameUsed(h.map, C, r.heap.map, D) /\ Paired(r.heap.map, D)
    BY <1>2, <1>7
  <2>3. \A y \in D : ~IsUsed(r.heap.map, y) =>
          /\ ListFor(size(r.heap.map, y)) < r.list => Lone(r.heap.map, y)
          /\ ListFor(size(r.heap.map, y)) = r.list => Lone(r.heap.map, y) \/ y \in Elems(r.todo)
          /\ \/ size(r.heap.map, y) <= r.biggest
             \/ y \in C /\ ~IsUsed(h.map, y) /\ size(h.map, y) = size(r.heap.map, y)
    BY <1>2, <1>7, <1>9
  <2> QED  BY <2>1, <2>2, <2>3 DEF CombiningOK
<1>11. ToCombine(r) < ToCombine(s)
  <2> DEFINE k == bigList - (l + 1)
  <2>1. k \in Nat /\ bigList - l = k + 1 /\ N + 1 \in Nat
    BY <1>3
  <2>2. Len(todo) \in Nat /\ Len(todo) <= N
    BY <1>4, <1>5, ShortList
  <2>3. ToCombine(r) = k * (N + 1) + Len(todo)
    BY <1>7 DEF ToCombine
  <2>4. ToCombine(s) = (k + 1) * (N + 1) + 0
    <3>1. Len(s.todo) = 0
      OBVIOUS
    <3> QED  BY <2>1, <3>1 DEF ToCombine, l
  <2> HIDE DEF k
  <2>5. (k + 1) * (N + 1) = k * (N + 1) + (N + 1) /\ k * (N + 1) \in Nat
    BY <1>3, <2>1
  <2> QED  BY <1>3, <2>2, <2>3, <2>4, <2>5
<1> QED  BY <1>6, <1>10, <1>11 DEF r

\* The next chunk of the list is combined.
LEMMA NextCombined ==
  ASSUME NEW h, NEW C, NEW s \in Combining, NEW D, CombiningOK(h, C, s, D),
         s.todo # <<>>
  PROVE  /\ CombineNext(s) \in Combining /\ \E B : CombiningOK(h, C, CombineNext(s), B)
         /\ ToCombine(CombineNext(s)) < ToCombine(s)
<1> DEFINE g == s.heap
           l == s.list
           b == s.biggest
           c == Head(s.todo)
           a == FirstFree(g.map, c)
           e == EndOfFree(g.map, c)
           X == a..(e - 1)
           k == combine(g, c)
           n == CombinedSize(g.map, c)
           todo == Unlinked(Tail(s.todo), Run(g.map, c))
           z == IF n > b THEN n ELSE b
           B == (D \ X) \cup {a}
           r == CombineNext(s)
<1>1. /\ g \in Heaps /\ l \in 1..bigList /\ b \in 0..N /\ s.todo \in Seq(Blocks)
      /\ r = [heap |-> k, list |-> l, todo |-> todo, biggest |-> z]
  BY CombiningState DEF CombineNext
<1>2. /\ HeapOK(g, D) /\ SameUsed(h.map, C, g.map, D) /\ Paired(g.map, D)
      /\ NoDup(s.todo) /\ Elems(s.todo) \subseteq Elems(g.free[l])
      /\ \A y \in D : ~IsUsed(g.map, y) =>
           /\ ListFor(size(g.map, y)) < l => Lone(g.map, y)
           /\ ListFor(size(g.map, y)) = l => Lone(g.map, y) \/ y \in Elems(s.todo)
           /\ \/ size(g.map, y) <= b
              \/ y \in C /\ ~IsUsed(h.map, y) /\ size(h.map, y) = size(g.map, y)
  BY DEF CombiningOK
<1>3. /\ c \in Elems(s.todo) /\ Tail(s.todo) \in Seq(Blocks)
      /\ NoDup(Tail(s.todo)) /\ Elems(Tail(s.todo)) = Elems(s.todo) \ {c}
      /\ Len(Tail(s.todo)) = Len(s.todo) - 1 /\ Len(s.todo) \in Nat \ {0}
  <2>1. Len(Tail(s.todo)) = Len(s.todo) - 1 /\ Len(s.todo) \in Nat \ {0}
    <3> HIDE DEF Blocks
    <3> QED  BY <1>1
  <2> QED  BY <1>1, <1>2, <2>1, TailElems
<1>4. Elems(g.free[l]) = {y \in D : ~IsUsed(g.map, y) /\ ListFor(size(g.map, y)) = l}
  <2> HIDE DEF g, l
  <2>1. \A i \in 1..bigList :
          Elems(g.free[i]) = {y \in D : ~IsUsed(g.map, y) /\ ListFor(size(g.map, y)) = i}
    BY <1>2, HeapFacts
  <2> QED  BY <1>1, <2>1
<1>5. c \in D /\ ~IsUsed(g.map, c)
  BY <1>2, <1>3, <1>4
<1>6. /\ a \in Nat /\ e \in Nat /\ e <= N /\ a <= c /\ c < e /\ c \in Nat
      /\ \A y \in D \cap X : ~IsUsed(g.map, y)
      /\ Run(g.map, c) = D \cap X /\ n = e - a
      /\ HeapOK(k, B)
  <2>1. c \in Nat
    BY <1>2, <1>5, HeapFacts, CutFacts
  <2> QED  BY <1>2, <1>5, <2>1, CombineFacts
<1>7. /\ SameUsed(g.map, D, k.map, B)
      /\ \A y \in B : ~IsUsed(k.map, y) =>
           \/ y = a /\ Lone(k.map, a) /\ size(k.map, a) = n
           \/ /\ y \in D \ X /\ ~IsUsed(g.map, y)
              /\ size(k.map, y) = size(g.map, y)
              /\ Lone(k.map, y) <=> Lone(g.map, y)
      /\ Paired(k.map, B)
  BY <1>2, <1>5, <1>6, CombineKeeps
<1>8. /\ n \in 0..N /\ z \in 0..N /\ n <= z /\ b <= z /\ b \in Nat /\ z \in Nat
      /\ c \in X
  <2> HIDE DEF g, b, c, a, e, n, k
  <2> QED  BY <1>1, <1>6, Sizeable
<1>9. /\ todo \in Seq(Blocks) /\ NoDup(todo)
      /\ Elems(todo) = Elems(Tail(s.todo)) \ Run(g.map, c)
      /\ Len(todo) <= Len(Tail(s.todo))
  <2> DEFINE t == Tail(s.todo)
             S == Run(g.map, c)
  <2>1. t \in Seq(Blocks) /\ NoDup(t)
    BY <1>3
  <2> HIDE DEF t, S, Blocks
  <2>2. /\ Unlinked(t, S) \in Seq(Blocks) /\ NoDup(Unlinked(t, S))
        /\ Elems(Unlinked(t, S)) = Elems(t) \ S
        /\ Len(Unlinked(t, S)) <= Len(t)
    BY <2>1, UnlinkedFacts
  <2> QED  BY <2>2 DEF t, S
<1>10. k \in Heaps /\ \A y \in B : size(k.map, y) \in Nat
  BY <1>6, HeapFacts, CutFacts
<1>11. /\ r \in Combining
       /\ r.heap = k /\ r.list = l /\ r.todo = todo /\ r.biggest = z
  <2> HIDE DEF k, l, todo, z, r
  <2> QED  BY <1>1, <1>8, <1>9, <1>10, CombiningIs
<1>12. Elems(todo) = Elems(s.todo) \ X
  <2>1. Elems(s.todo) \subseteq D
    BY <1>2, <1>4
  <2> QED  BY <1>3, <1>6, <1>8, <1>9, <2>1
<1> HIDE DEF g, l, b, c, a, e, X, k, n, todo, z, r
<1>13. Elems(todo) \subseteq Elems(k.free[l])
  <2>1. Elems(k.free[l]) = {y \in B : ~IsUsed(k.map, y) /\ ListFor(size(k.map, y)) = l}
    <3>1. \A i \in 1..bigList :
            Elems(k.free[i]) = {y \in B : ~IsUsed(k.map, y) /\ ListFor(size(k.map, y)) = i}
      BY <1>6, HeapFacts
    <3> HIDE DEF B
    <3> QED  BY <1>1, <3>1
  <2>2. ASSUME NEW y \in Elems(todo)
        PROVE  y \in D \ X /\ ~IsUsed(k.map, y) /\ ListFor(size(k.map, y)) = l
    <3>1. y \in D \ X /\ ~IsUsed(g.map, y) /\ ListFor(size(g.map, y)) = l
      BY <1>2, <1>4, <1>12, <2>2
    <3>2. Kept(g.map, k.map, D \ X)
      BY <1>2, <1>5, CombineFacts DEF a, e, X, k
    <3> QED  BY <3>1, <3>2 DEF Kept
  <2> QED  BY <2>1, <2>2
<1>14. ASSUME NEW y \in B, ~IsUsed(k.map, y)
       PROVE  /\ ListFor(size(k.map, y)) < l => Lone(k.map, y)
              /\ ListFor(size(k.map, y)) = l => Lone(k.map, y) \/ y \in Elems(todo)
              /\ \/ size(k.map, y) <= z
                 \/ y \in C /\ ~IsUsed(h.map, y) /\ size(h.map, y) = size(k.map, y)
  <2>1. CASE y = a /\ Lone(k.map, a) /\ size(k.map, a) = n
    BY <1>8, <2>1
  <2>2. CASE /\ y \in D \ X /\ ~IsUsed(g.map, y)
             /\ size(k.map, y) = size(g.map, y)
             /\ Lone(k.map, y) <=> Lone(g.map, y)
    <3>1. size(g.map, y) <= b => size(k.map, y) <= z
      BY <1>8, <1>10, <1>14, <2>2
    <3> QED  BY <1>2, <1>12, <2>2, <3>1
  <2> QED  BY <1>7, <1>14, <2>1, <2>2
<1>15. SameUsed(h.map, C, k.map, B)
  BY <1>2, <1>7, SameUsedAgain
<1>16. CombiningOK(h, C, r, B)
  <2> HIDE DEF B
  <2>1. \A y \in B : ~IsUsed(r.heap.map, y) =>
          /\ ListFor(size(r.heap.map, y)) < r.list => Lone(r.heap.map, y)
          /\ ListFor(size(r.heap.map, y)) = r.list => Lone(r.heap.map, y) \/ y \in Elems(r.todo)
          /\ \/ size(r.heap.map, y) <= r.biggest
             \/ y \in C /\ ~IsUsed(h.map, y) /\ size(h.map, y) = size(r.heap.map, y)
    BY <1>11, <1>14
  <2>2. HeapOK(r.heap, B) /\ SameUsed(h.map, C, r.heap.map, B) /\ Paired(r.heap.map, B)
    BY <1>6, <1>7, <1>11, <1>15
  <2>3. NoDup(r.todo) /\ Elems(r.todo) \subseteq Elems(r.heap.free[r.list])
    BY <1>9, <1>11, <1>13
  <2> QED  BY <2>1, <2>2, <2>3 DEF CombiningOK
<1>17. ToCombine(r) < ToCombine(s)
  <2> DEFINE p == (bigList - l) * (N + 1)
  <2>1. p \in Nat
    <3>1. bigList - l \in Nat /\ N + 1 \in Nat
      BY <1>1, ListFacts, Sizeable
    <3> HIDE DEF bigList
    <3> QED  BY <3>1
  <2>2. ToCombine(r) = p + Len(todo) /\ ToCombine(s) = p + Len(s.todo)
    BY <1>11 DEF ToCombine, l
  <2>3. Len(todo) \in Nat
    <3> HIDE DEF Blocks
    <3> QED  BY <1>9
  <2> HIDE DEF p
  <2> QED  BY <1>3, <1>9, <2>1, <2>2, <2>3
<1> QED  BY <1>11, <1>16, <1>17 DEF r

\* When only the long chunks are left no free chunks touch.
LEMMA Combined1 ==
  ASSUME NEW h, NEW C, NEW s \in Combining, NEW D, CombiningOK(h, C, s, D), s.list = bigList
  PROVE  AllLone(s.heap.map, D)
<1> DEFINE m == s.heap.map
<1>1. /\ HeapOK(s.heap, D) /\ Paired(m, D) /\ Cut(m, D)
      /\ \A y \in D : ~IsUsed(m, y) => (ListFor(size(m, y)) < bigList => Lone(m, y))
  BY HeapFacts DEF CombiningOK
<1> HIDE DEF m
<1>2. ASSUME NEW y \in D, ~IsUsed(m, y), size(m, y) <= nfree PROVE Lone(m, y)
  <2>1. ListFor(size(m, y)) <= nfree /\ ListFor(size(m, y)) \in Nat
    <3>1. size(m, y) \in 1..N
      BY <1>1, CutFacts
    <3> QED  BY <1>2, <3>1, ListFacts
  <2>2. ListFor(size(m, y)) < bigList
    BY <2>1, ListFacts
  <2> QED  BY <1>1, <1>2, <2>2
<1>3. ASSUME NEW y \in D, ~IsUsed(m, y) PROVE Lone(m, y)
  <2> DEFINE z == next(m, y)
             p == prev(m, y)
  <2>1. z \in D \cup {N} /\ prev(m, z) = y /\ IsUsed(m, N) /\ z # 0 /\ y \in Nat
    BY <1>1, CutFacts
  <2>2. IsUsed(m, z)
    <3>1. ASSUME ~IsUsed(m, z) PROVE FALSE
      <4>1. z \in D /\ ~Lone(m, y)
        BY <2>1, <3>1 DEF Lone
      <4>2. ~Lone(m, z)
        BY <1>3, <2>1 DEF Lone
      <4>3. size(m, y) <= nfree \/ size(m, z) <= nfree
        BY <1>1, <1>3, <3>1 DEF Paired
      <4> HIDE DEF z
      <4> QED  BY <1>2, <1>3, <3>1, <4>1, <4>2, <4>3
    <3> QED  BY <3>1
  <2>3. y = 0 \/ IsUsed(m, p)
    <3>1. ASSUME y # 0, ~IsUsed(m, p) PROVE FALSE
      <4>1. p \in D /\ next(m, p) = y
        BY <1>1, <3>1, Previous
      <4> HIDE DEF p
      <4>2. ~Lone(m, p) /\ (size(m, p) <= nfree \/ size(m, y) <= nfree)
        BY <1>1, <1>3, <3>1, <4>1 DEF Lone, Paired
      <4>3. ~Lone(m, y)
        BY <3>1 DEF Lone, p
      <4> QED  BY <1>2, <1>3, <3>1, <4>1, <4>2, <4>3
    <3> QED  BY <3>1
  <2> QED  BY <2>2, <2>3 DEF Lone
<1> QED  BY <1>3 DEF AllLone, m

\* combineAll leaves no free chunks that touch, and says how long the longest
\* is that it made.
LEMMA CombineAllFacts ==
  ASSUME NEW h, NEW C, HeapOK(h, C), Paired(h.map, C)
  PROVE  LET r == combineAll(h) IN
         /\ r.biggest \in 0..N
         /\ \E D : /\ HeapOK(r.heap, D) /\ SameUsed(h.map, C, r.heap.map, D)
                   /\ Paired(r.heap.map, D) /\ AllLone(r.heap.map, D)
                   /\ \A y \in D : ~IsUsed(r.heap.map, y) =>
                        \/ size(r.heap.map, y) <= r.biggest
                        \/ /\ y \in C /\ ~IsUsed(h.map, y)
                           /\ size(h.map, y) = size(r.heap.map, y)
<1> DEFINE stop == {s \in Combining : s.list = bigList \/ CombineNext(s) \notin Combining}
           step == [s \in Combining |-> CombineNext(s)]
           out == [s \in Combining |-> s]
           f == CHOOSE f : f = [s \in Combining |->
                  IF s.list = bigList \/ CombineNext(s) \notin Combining
                  THEN s ELSE f[CombineNext(s)]]
           I == {s \in Combining : \E D : CombiningOK(h, C, s, D)}
           todo == [s \in Combining |-> ToCombine(s)]
           start == [heap |-> h, list |-> 1, todo |-> h.free[1], biggest |-> 0]
<1>1. Goes(Combining, stop, step)
  BY DEF Goes
<1>2. IsLoop(f, Combining, stop, step, out)
  <2>1. PICK g : IsLoop(g, Combining, stop, step, out)
    BY <1>1, LoopExists
  <2>2. g = [s \in Combining |-> IF s.list = bigList \/ CombineNext(s) \notin Combining
                                 THEN s ELSE g[CombineNext(s)]]
    BY <2>1 DEF IsLoop
  <2>3. f = [s \in Combining |-> IF s.list = bigList \/ CombineNext(s) \notin Combining
                                 THEN s ELSE f[CombineNext(s)]]
    BY <2>2
  <2> QED  BY <2>3 DEF IsLoop
<1>3. combineAll(h) = f[start]
  BY DEF combineAll
<1>4. ASSUME NEW s \in I, s \notin stop
      PROVE  CombineNext(s) \in I /\ ToCombine(CombineNext(s)) < ToCombine(s)
  <2>1. s \in Combining /\ s.list # bigList
    BY <1>4
  <2>2. PICK D : CombiningOK(h, C, s, D)
    BY <1>4
  <2>3. CASE s.todo = <<>>
    BY <2>1, <2>2, <2>3, NextList
  <2>4. CASE s.todo # <<>>
    BY <2>1, <2>2, <2>4, NextCombined
  <2> QED  BY <2>3, <2>4
<1>5. \A s \in Combining : todo[s] = ToCombine(s) /\ ToCombine(s) \in Nat
  <2> SUFFICES ASSUME NEW s \in Combining PROVE ToCombine(s) \in Nat
    OBVIOUS
  <2>1. s.list \in 1..bigList /\ s.todo \in Seq(Blocks) /\ bigList \in Nat /\ N \in Nat
    BY CombiningState, ListFacts, Sizeable
  <2>2. Len(s.todo) \in Nat
    <3> HIDE DEF Blocks
    <3> QED  BY <2>1
  <2>3. bigList - s.list \in Nat
    <3> HIDE DEF bigList
    <3> QED  BY <2>1
  <2> DEFINE k == bigList - s.list
  <2> HIDE DEF k
  <2>4. k * (N + 1) + Len(s.todo) \in Nat
    BY <2>1, <2>2, <2>3 DEF k
  <2> QED  BY <2>3, <2>4 DEF ToCombine, k
<1>6. Keeps(I, stop, step) /\ \A s \in I \ stop : todo[step[s]] < todo[s]
  <2>1. ASSUME NEW s \in I \ stop PROVE step[s] \in I /\ todo[step[s]] < todo[s]
    <3>1. s \in Combining /\ CombineNext(s) \in I /\ CombineNext(s) \in Combining
          /\ ToCombine(CombineNext(s)) < ToCombine(s)
      BY <1>4, <2>1
    <3>2. step[s] = CombineNext(s)
      BY <3>1
    <3> HIDE DEF step, todo, I
    <3> QED  BY <1>5, <3>1, <3>2
  <2> QED  BY <2>1 DEF Keeps
<1>7. todo \in [Combining -> Nat] /\ I \in SUBSET Combining
  <2>1. todo = [s \in Combining |-> todo[s]]
    OBVIOUS
  <2> HIDE DEF todo
  <2> QED  BY <1>5, <2>1
<1>8. start \in I
  <2>1. /\ h \in Heaps /\ h.free \in [1..bigList -> Seq(Blocks)]
        /\ \A i \in 1..bigList :
             /\ NoDup(h.free[i])
             /\ Elems(h.free[i]) = {c \in C : ~IsUsed(h.map, c) /\ ListFor(size(h.map, c)) = i}
        /\ Cut(h.map, C)
    BY HeapFacts
  <2>2. 1 \in 1..bigList /\ 0 \in 0..N
    BY ListFacts, Sizeable
  <2>3. start \in Combining
    <3>1. h.free[1] \in Seq(Blocks)
      BY <2>1, <2>2
    <3> QED  BY <2>1, <2>2, <3>1, CombiningIs
  <2>4. \A y \in C : ListFor(size(h.map, y)) \in 1..bigList
    BY <2>1, CutFacts, ListFacts
  <2>5. SameUsed(h.map, C, h.map, C)
    BY DEF SameUsed
  <2>6. start.heap = h /\ start.list = 1 /\ start.todo = h.free[1] /\ start.biggest = 0
    OBVIOUS
  <2> HIDE DEF start
  <2>7. \A y \in C : ~IsUsed(start.heap.map, y) =>
          /\ ListFor(size(start.heap.map, y)) < start.list => Lone(start.heap.map, y)
          /\ ListFor(size(start.heap.map, y)) = start.list
               => Lone(start.heap.map, y) \/ y \in Elems(start.todo)
          /\ \/ size(start.heap.map, y) <= start.biggest
             \/ y \in C /\ ~IsUsed(h.map, y) /\ size(h.map, y) = size(start.heap.map, y)
    <3>1. \A y \in C : ~ (ListFor(size(h.map, y)) < 1)
      BY <2>4
    <3> QED  BY <2>1, <2>2, <2>6, <3>1
  <2>8. CombiningOK(h, C, start, C)
    BY <2>1, <2>2, <2>5, <2>6, <2>7 DEF CombiningOK
  <2> QED  BY <2>3, <2>8
<1> HIDE DEF f, I, todo, step, out, stop, start
<1>9. PICK t \in I \cap stop : f[start] = out[t]
  <2>1. Ending(f, Combining, stop, step, out, todo, I)
    BY <1>1, <1>2, <1>6, <1>7 DEF Ending
  <2> QED  BY <1>8, <2>1, LoopEnds
<1>10. f[start] = t /\ t \in I /\ t \in Combining /\ t \in stop
  BY <1>7, <1>9 DEF out
<1>11. t.list = bigList
  <2>1. CombineNext(t) \in Combining \/ t.list = bigList
    <3>1. ASSUME t.list # bigList PROVE CombineNext(t) \in Combining
      <4>1. PICK D : CombiningOK(h, C, t, D)
        BY <1>10 DEF I
      <4>2. CASE t.todo = <<>>
        BY <1>10, <3>1, <4>1, <4>2, NextList
      <4>3. CASE t.todo # <<>>
        BY <1>10, <4>1, <4>3, NextCombined
      <4> QED  BY <4>2, <4>3
    <3> QED  BY <3>1
  <2> QED  BY <1>10, <2>1 DEF stop
<1>12. PICK D : CombiningOK(h, C, t, D)
  BY <1>10 DEF I
<1>13. AllLone(t.heap.map, D)
  BY <1>10, <1>11, <1>12, Combined1
<1>14. /\ HeapOK(t.heap, D) /\ SameUsed(h.map, C, t.heap.map, D)
       /\ Paired(t.heap.map, D)
       /\ \A y \in D : ~IsUsed(t.heap.map, y) =>
            \/ size(t.heap.map, y) <= t.biggest
            \/ y \in C /\ ~IsUsed(h.map, y) /\ size(h.map, y) = size(t.heap.map, y)
  BY <1>12 DEF CombiningOK
<1>15. combineAll(h) = t /\ t.biggest \in 0..N
  BY <1>3, <1>10, CombiningState
<1> QED  BY <1>13, <1>14, <1>15

\* A chunk has no other in it.
LEMMA OneChunk ==
  ASSUME NEW m, NEW C, Cut(m, C), NEW c \in C
  PROVE  C \ (c..(next(m, c) - 1)) = C \ {c}
<1>1. /\ c \in Nat /\ next(m, c) \in Nat /\ c < next(m, c) /\ C \subseteq Nat
      /\ \A d \in C : d <= c \/ next(m, c) <= d
  BY CutFacts, CutRange
<1>2. c \in c..(next(m, c) - 1)
  BY <1>1
<1>3. ASSUME NEW d \in C, d \in c..(next(m, c) - 1) PROVE d = c
  BY <1>1, <1>3
<1> QED  BY <1>2, <1>3

\* Chunks D take the place of one.
LEMMA ChunkReplaced ==
  ASSUME NEW m, NEW C, Cut(m, C), NEW c \in C, NEW w \in [(-1)..N -> Byte],
         NEW D, Tiles(w, D, c, next(m, c)),
         \A b \in (-1)..N : b \notin c..(next(m, c) - 1) => w[b] = m[b]
  PROVE  Cut(w, (C \ {c}) \cup D) /\ Kept(m, w, C \ {c})
<1> DEFINE e == next(m, c)
<1>1. e \in C \cup {N} /\ c < e /\ C \ (c..(e - 1)) = C \ {c}
  BY CutFacts, OneChunk
<1> HIDE DEF e
<1>2. Tiles(w, D, c, e) /\ \A b \in (-1)..N : b \notin c..(e - 1) => w[b] = m[b]
  BY DEF e
<1>3. /\ Cut(w, (C \ (c..(e - 1))) \cup D)
      /\ \A x \in C \ (c..(e - 1)) :
           /\ size(w, x) = size(m, x) /\ next(w, x) = next(m, x)
           /\ IsUsed(w, x) <=> IsUsed(m, x)
  BY <1>1, <1>2, CutReplaced
<1> QED  BY <1>1, <1>3 DEF Kept

\* What Split does to the map and the lists.
LEMMA SplitHeap ==
  ASSUME NEW h, NEW C, HeapOK(h, C), NEW c \in C, ~IsUsed(h.map, c),
         NEW n, n \in 1..size(h.map, c),
         NEW G, G = IF n = size(h.map, c) THEN {c} ELSE {c, c + n}
  PROVE  LET r == Split(h, c, n)
         IN  /\ HeapOK(r, (C \ {c}) \cup G)
             /\ Kept(h.map, r.map, C \ {c})
             /\ IsUsed(r.map, c) /\ size(r.map, c) = n /\ next(r.map, c) = c + n
             /\ n # size(h.map, c) =>
                  /\ ~IsUsed(r.map, c + n) /\ c + n \notin C
                  /\ size(r.map, c + n) \in Nat /\ size(r.map, c + n) <= size(h.map, c)
                  /\ next(r.map, c + n) = next(h.map, c)
<1> DEFINE m == h.map
           e == next(m, c)
           u == removeFromFreeList(h, {c})
           t == Mark(u, c, n, used)
           rest == size(m, c) - n
           r == Split(h, c, n)
<1>1. /\ h \in Heaps /\ Cut(m, C) /\ m \in [(-1)..N -> Byte] /\ h.last \in C
      /\ \A i \in 1..bigList :
           /\ NoDup(h.free[i])
           /\ Elems(h.free[i]) = {x \in C : ~IsUsed(m, x) /\ ListFor(size(m, x)) = i}
  BY HeapFacts
<1>2. /\ c \in Blocks /\ c \in Nat /\ size(m, c) \in Nat \ {0} /\ e = c + size(m, c)
      /\ e <= N /\ e \in Nat /\ e \in C \cup {N} /\ N \in Nat /\ c < e
      /\ \A d \in C : d <= c \/ e <= d
  BY <1>1, CutFacts, Sizeable
<1>3. n \in 1..(N - c) /\ n \in Nat /\ rest \in Nat /\ n <= size(m, c) /\ used # unused
      /\ n # 0 /\ c < c + n
  BY <1>2, Bytes
<1>4. /\ u \in Heaps /\ u.map = m /\ u.last = h.last
      /\ \A i \in 1..bigList : /\ Elems(u.free[i]) = Elems(h.free[i]) \ {c}
                               /\ NoDup(u.free[i])
  BY <1>1, RemoveFacts
<1> HIDE DEF u
<1>5. /\ t \in Heaps /\ t.free = u.free /\ t.last = h.last
      /\ Tiles(t.map, {c}, c, c + n)
      /\ size(t.map, c) = n /\ next(t.map, c) = c + n /\ IsUsed(t.map, c)
      /\ \A b \in (-1)..N : b \notin c..(c + n - 1) => t.map[b] = m[b]
  <2>1. /\ c \in Blocks /\ n \in 1..(N - c) /\ used \in {used, unused} /\ u \in Heaps
        /\ t = Mark(u, c, n, used)
    BY <1>2, <1>3, <1>4
  <2> HIDE DEF t
  <2>2. /\ t \in Heaps /\ t.free = u.free /\ t.last = u.last
        /\ Tiles(t.map, {c}, c, c + n)
        /\ size(t.map, c) = n /\ next(t.map, c) = c + n /\ (IsUsed(t.map, c) <=> used = used)
        /\ \A b \in (-1)..N : b \notin c..(c + n - 1) => t.map[b] = u.map[b]
    BY <2>1, MarkFacts
  <2> QED  BY <1>4, <2>2
<1> HIDE DEF t, m
<1>6. C \ (c..(e - 1)) = C \ {c}
  BY <1>1, OneChunk
<1>7. ASSUME NEW w \in [(-1)..N -> Byte], NEW D, Tiles(w, D, c, e),
             \A b \in (-1)..N : b \notin c..(e - 1) => w[b] = m[b]
      PROVE  Cut(w, (C \ {c}) \cup D) /\ Kept(m, w, C \ {c})
  BY <1>1, <1>7, ChunkReplaced
<1>8. CASE n = size(m, c)
  <2>1. r = t /\ c + n = e
    <3>1. rest = 0
      BY <1>2, <1>8
    <3> QED  BY <1>2, <1>8, <3>1 DEF Split, t, u, m
  <2> HIDE DEF r, e
  <2>2. Cut(r.map, (C \ {c}) \cup {c}) /\ Kept(m, r.map, C \ {c})
    <3>1. r.map \in [(-1)..N -> Byte]
      BY <1>5, <2>1, HeapChanged
    <3> DEFINE D == {c}
               w == r.map
    <3>2. /\ w \in [(-1)..N -> Byte] /\ Tiles(w, D, c, e)
          /\ \A b \in (-1)..N : b \notin c..(e - 1) => w[b] = m[b]
      <4>1. c..(e - 1) = c..(c + n - 1)
        BY <1>2, <1>3, <2>1
      <4>2. Tiles(t.map, {c}, c, e)
        BY <1>5, <2>1
      <4>3. \A b \in (-1)..N : b \notin c..(e - 1) => t.map[b] = m[b]
        BY <1>5, <4>1
      <4> QED  BY <2>1, <3>1, <4>2, <4>3
    <3> HIDE DEF D, w
    <3>3. Cut(w, (C \ {c}) \cup D) /\ Kept(m, w, C \ {c})
      BY <1>7, <3>2
    <3> QED  BY <3>3 DEF D, w
  <2>3. HeapOK(r, (C \ {c}) \cup {c})
    <3> DEFINE X == {c}
               D == {c}
    <3>1. /\ r \in Heaps /\ Cut(r.map, (C \ X) \cup D) /\ Kept(h.map, r.map, C \ X)
          /\ r.last \in (C \ X) \cup D /\ D \cap (C \ X) = {}
          /\ \A i \in 1..bigList :
               /\ NoDup(r.free[i])
               /\ Elems(r.free[i]) = (Elems(h.free[i]) \ X)
                    \cup {d \in D : ~IsUsed(r.map, d) /\ ListFor(size(r.map, d)) = i}
      BY <1>1, <1>4, <1>5, <2>1, <2>2 DEF m
    <3> HIDE DEF X, D
    <3>2. HeapOK(r, (C \ X) \cup D)
      BY <3>1, Relisted
    <3> QED  BY <3>2 DEF X, D
  <2> QED  BY <1>5, <1>8, <2>1, <2>2, <2>3 DEF m, r
<1>9. CASE n # size(m, c)
  <2> DEFINE a == c + n
             v == Mark(t, a, rest, unused)
  <2>1. r = addToFreeList(v, a)
    <3>1. rest # 0
      BY <1>2, <1>3, <1>9
    <3> QED  BY <3>1 DEF Split, t, u, m
  <2>2. /\ a \in Blocks /\ a \in Nat /\ rest \in 1..(N - a) /\ a + rest = e /\ a \notin C
        /\ c < a /\ a < e /\ rest \in 1..N
    BY <1>2, <1>3, <1>9 DEF Blocks
  <2> HIDE DEF a, rest
  <2>3. /\ v \in Heaps /\ v.free = t.free /\ v.last = t.last
        /\ Tiles(v.map, {a}, a, e)
        /\ size(v.map, a) = rest /\ next(v.map, a) = e /\ ~IsUsed(v.map, a)
        /\ \A b \in (-1)..N : b \notin a..(e - 1) => v.map[b] = t.map[b]
    <3>1. /\ v \in Heaps /\ v.free = t.free /\ v.last = t.last
          /\ Tiles(v.map, {a}, a, a + rest)
          /\ size(v.map, a) = rest /\ next(v.map, a) = a + rest
          /\ IsUsed(v.map, a) <=> unused = used
          /\ \A b \in (-1)..N : b \notin a..(a + rest - 1) => v.map[b] = t.map[b]
      BY <1>5, <2>2, MarkFacts
    <3> QED  BY <1>3, <2>2, <3>1
  <2> HIDE DEF v, e
  <2>4. /\ Tiles(v.map, {c}, c, a)
        /\ size(v.map, c) = n /\ next(v.map, c) = a /\ IsUsed(v.map, c)
    <3>1. c \in 0..N /\ a \in c..N /\ \A b \in c..(a - 1) : v.map[b] = t.map[b]
      BY <1>2, <2>2, <2>3
    <3>2. Tiles(t.map, {c}, c, a)
      BY <1>5 DEF a
    <3>3. /\ Tiles(v.map, {c}, c, a)
          /\ \A x \in {c} : /\ size(v.map, x) = size(t.map, x) /\ next(v.map, x) = next(t.map, x)
                            /\ IsUsed(v.map, x) <=> IsUsed(t.map, x)
      BY <3>1, <3>2, TilesSame
    <3> QED  BY <1>5, <3>3 DEF a
  <2>5. /\ Cut(v.map, (C \ {c}) \cup {c, a}) /\ Kept(m, v.map, C \ {c})
    <3>1. c \in 0..N /\ a \in c..N /\ e \in a..N /\ {c} \cup {a} = {c, a}
      BY <1>2, <2>2
    <3>2. Tiles(v.map, {c, a}, c, e)
      BY <2>3, <2>4, <3>1, TilesJoin
    <3>3. \A b \in (-1)..N : b \notin c..(e - 1) => v.map[b] = m[b]
      BY <1>2, <1>3, <1>5, <2>2, <2>3 DEF a
    <3>4. v.map \in [(-1)..N -> Byte]
      BY <2>3, HeapChanged
    <3> HIDE DEF v
    <3> QED  BY <1>7, <3>2, <3>3, <3>4
  <2>6. a \notin Elems(v.free[ListFor(size(v.map, a))]) /\ size(v.map, a) \in 1..N
    <3>1. ListFor(rest) \in 1..bigList
      BY <2>2, ListFacts
    <3>2. Elems(v.free[ListFor(rest)]) \subseteq C
      BY <1>1, <1>4, <1>5, <2>3, <3>1
    <3> QED  BY <2>2, <2>3, <3>2
  <2>7. /\ r \in Heaps /\ r.map = v.map /\ r.last = v.last
        /\ \A i \in 1..bigList :
             /\ Elems(r.free[i]) = IF i = ListFor(size(v.map, a)) THEN Elems(v.free[i]) \cup {a}
                                   ELSE Elems(v.free[i])
             /\ NoDup(v.free[i]) => NoDup(r.free[i])
    BY <2>1, <2>2, <2>3, <2>6, AddFacts
  <2> HIDE DEF r
  <2>8. HeapOK(r, (C \ {c}) \cup {c, a})
    <3> DEFINE X == {c}
               D == {c, a}
    <3>0. ASSUME NEW i \in 1..bigList
          PROVE  /\ NoDup(r.free[i])
                 /\ Elems(r.free[i]) = (Elems(h.free[i]) \ X)
                    \cup {d \in D : ~IsUsed(r.map, d) /\ ListFor(size(r.map, d)) = i}
      <4>1. NoDup(r.free[i]) /\ Elems(v.free[i]) = Elems(h.free[i]) \ X
        BY <1>4, <1>5, <2>3, <2>7
      <4>2. {d \in D : ~IsUsed(r.map, d) /\ ListFor(size(r.map, d)) = i}
              = IF i = ListFor(size(v.map, a)) THEN {a} ELSE {}
        BY <2>3, <2>4, <2>7
      <4> HIDE DEF X, D
      <4> QED  BY <2>7, <4>1, <4>2
    <3>1. /\ r \in Heaps /\ Cut(r.map, (C \ X) \cup D) /\ Kept(h.map, r.map, C \ X)
          /\ r.last \in (C \ X) \cup D /\ D \cap (C \ X) = {}
      BY <1>1, <1>5, <2>2, <2>3, <2>5, <2>7 DEF m
    <3> HIDE DEF X, D
    <3>2. HeapOK(r, (C \ X) \cup D)
      BY <3>0, <3>1, Relisted
    <3> QED  BY <3>2 DEF X, D
  <2>9. rest \in Nat /\ rest <= size(m, c)
    BY <1>2, <1>3 DEF rest
  <2> QED  BY <1>9, <2>2, <2>3, <2>4, <2>5, <2>7, <2>8, <2>9 DEF m, e, a, r
<1> QED  BY <1>8, <1>9 DEF m

\* Split takes the chunk c from the free ones and nothing else.
LEMMA SplitFacts ==
  ASSUME NEW h, NEW C, HeapOK(h, C), NEW c \in C, ~IsUsed(h.map, c),
         NEW n, n \in 1..size(h.map, c), Paired(h.map, C)
  PROVE  \E D : LET w == Split(h, c, n).map IN
         /\ HeapOK(Split(h, c, n), D) /\ Paired(w, D)
         /\ AllLone(h.map, C) => AllLone(w, D)
         /\ InUse(w, D) = InUse(h.map, C) \cup {c} /\ size(w, c) = n
         /\ \A x \in InUse(h.map, C) : size(w, x) = size(h.map, x)
<1> DEFINE m == h.map
           r == Split(h, c, n)
           w == r.map
           a == c + n
           e == next(m, c)
           G == IF n = size(m, c) THEN {c} ELSE {c, a}
           D == (C \ {c}) \cup G
<1>1. /\ Cut(m, C) /\ HeapOK(r, D) /\ Kept(m, w, C \ {c})
      /\ IsUsed(w, c) /\ size(w, c) = n /\ next(w, c) = a
      /\ n # size(m, c) =>
           /\ ~IsUsed(w, a) /\ a \notin C /\ next(w, a) = e
           /\ size(w, a) \in Nat /\ size(w, a) <= size(m, c)
  <2>1. Cut(m, C)
    BY HeapFacts
  <2>3. G = IF n = size(h.map, c) THEN {c} ELSE {c, c + n}
    OBVIOUS
  <2> HIDE DEF G
  <2>4. /\ HeapOK(r, D) /\ Kept(m, w, C \ {c})
        /\ IsUsed(w, c) /\ size(w, c) = n /\ next(w, c) = a
        /\ n # size(m, c) => ~IsUsed(w, a) /\ a \notin C /\ next(w, a) = e
    BY <2>3, SplitHeap
  <2>5. n # size(m, c) => size(w, a) \in Nat /\ size(w, a) <= size(m, c)
    BY <2>3, SplitHeap
  <2> QED  BY <2>1, <2>4, <2>5
<1>2. /\ Cut(w, D) /\ ~IsUsed(m, c) /\ n \in Nat \ {0} /\ n <= size(m, c)
      /\ size(m, c) \in Nat /\ e \in C \cup {N} /\ e # c /\ IsUsed(m, N) /\ IsUsed(w, N)
      /\ c \in D
  <2>1. Cut(w, D) /\ c \in D
    BY <1>1, HeapFacts
  <2> HIDE DEF m, w, D, e
  <2>2. /\ size(m, c) \in Nat \ {0} /\ e \in C \cup {N} /\ c < e /\ c \in Nat /\ IsUsed(m, N)
        /\ IsUsed(w, N)
    BY <1>1, <2>1, CutFacts DEF e
  <2>3. n \in Nat \ {0} /\ n <= size(m, c)
    BY <2>2 DEF m
  <2> QED  BY <2>1, <2>2, <2>3 DEF m
<1> HIDE DEF m, r, w, e, G
<1>3. \A x \in C \ {c} : /\ size(w, x) = size(m, x) /\ next(w, x) = next(m, x)
                         /\ IsUsed(w, x) <=> IsUsed(m, x)
  BY <1>1 DEF Kept
<1>4. ASSUME NEW y \in C \ {c}, ~IsUsed(m, y)
      PROVE  /\ next(m, y) # c =>
                  /\ IsUsed(w, next(w, y)) <=> IsUsed(m, next(m, y))
                  /\ ~IsUsed(m, next(m, y)) => size(w, next(w, y)) = size(m, next(m, y))
             /\ next(m, y) = c => IsUsed(w, next(w, y))
             /\ Lone(m, y) => Lone(w, y)
  <2> DEFINE X == {c}
  <2>1. Cut(w, (C \ X) \cup G) /\ Kept(m, w, C \ X) /\ y \in C \ X
    BY <1>1, <1>2, <1>4
  <2> HIDE DEF X
  <2>2. /\ next(m, y) \notin X => (IsUsed(w, next(w, y)) <=> IsUsed(m, next(m, y)))
        /\ next(m, y) \notin X /\ (y = 0 \/ prev(m, y) \notin X) => (Lone(w, y) <=> Lone(m, y))
    BY <1>1, <2>1, NeighboursKept
  <2>3. Lone(m, y) => next(m, y) \notin X /\ (y = 0 \/ prev(m, y) \notin X)
    BY <1>2 DEF Lone, X
  <2>4. next(m, y) \in C \cup {N}
    BY <1>1, CutFacts
  <2>5. ASSUME next(m, y) # c, ~IsUsed(m, next(m, y))
        PROVE size(w, next(w, y)) = size(m, next(m, y))
    <3>1. next(m, y) \in C \ {c}
      BY <1>2, <2>4, <2>5
    <3> QED  BY <1>3, <3>1
  <2> QED  BY <1>1, <1>3, <2>2, <2>3, <2>5 DEF X
<1>5. ASSUME n # size(m, c)
      PROVE  /\ IsUsed(w, next(w, a)) <=> IsUsed(m, e)
             /\ ~IsUsed(m, e) => size(w, next(w, a)) = size(m, e)
             /\ IsUsed(w, prev(w, a))
             /\ size(w, a) \in Nat /\ size(w, a) <= size(m, c)
  <2>1. next(w, a) = e /\ size(w, a) \in Nat /\ size(w, a) <= size(m, c)
    BY <1>1, <1>5
  <2>2. IsUsed(w, e) <=> IsUsed(m, e)
    BY <1>2, <1>3
  <2>3. ~IsUsed(m, e) => size(w, e) = size(m, e)
    BY <1>2, <1>3
  <2>4. prev(w, a) = c
    <3> HIDE DEF D, a
    <3> QED  BY <1>1, <1>2, CutFacts
  <2> QED  BY <1>1, <1>2, <2>1, <2>2, <2>3, <2>4
<1>6. ASSUME NEW y \in D, ~IsUsed(w, y)
      PROVE  (y \in C \ {c} /\ ~IsUsed(m, y)) \/ (y = a /\ n # size(m, c))
  <2>1. y \in C \ {c} \/ y = c \/ (y = a /\ n # size(m, c))
    BY DEF G
  <2> QED  BY <1>1, <1>3, <1>6, <2>1
<1>7. Paired(w, D)
  <2>1. ASSUME NEW y \in D, ~IsUsed(w, y), ~IsUsed(w, next(w, y))
        PROVE  size(w, y) <= nfree \/ size(w, next(w, y)) <= nfree
    <3>1. CASE y \in C \ {c} /\ ~IsUsed(m, y)
      <4>1. /\ next(m, y) # c /\ ~IsUsed(m, next(m, y))
            /\ size(w, next(w, y)) = size(m, next(m, y)) /\ size(w, y) = size(m, y)
        BY <1>3, <1>4, <2>1, <3>1
      <4> QED  BY <3>1, <4>1 DEF Paired, m
    <3>2. CASE y = a /\ n # size(m, c)
      <4>1. /\ ~IsUsed(m, e) /\ size(w, next(w, y)) = size(m, e)
            /\ size(w, y) \in Nat /\ size(w, y) <= size(m, c)
        BY <1>5, <2>1, <3>2
      <4>2. size(m, c) <= nfree \/ size(m, e) <= nfree
        BY <1>2, <4>1 DEF Paired, m, e
      <4>3. nfree \in Nat
        BY ListFacts
      <4> QED  BY <1>2, <4>1, <4>2, <4>3
    <3> QED  BY <1>6, <2>1, <3>1, <3>2
  <2> QED  BY <2>1 DEF Paired
<1>8. ASSUME AllLone(m, C) PROVE AllLone(w, D)
  <2>1. ASSUME NEW y \in D, ~IsUsed(w, y) PROVE Lone(w, y)
    <3>1. CASE y \in C \ {c} /\ ~IsUsed(m, y)
      BY <1>4, <1>8, <3>1 DEF AllLone
    <3>2. CASE y = a /\ n # size(m, c)
      <4>1. IsUsed(m, e)
        BY <1>2, <1>8 DEF AllLone, Lone, e
      <4> QED  BY <1>5, <3>2, <4>1 DEF Lone
    <3> QED  BY <1>6, <2>1, <3>1, <3>2
  <2> QED  BY <2>1 DEF AllLone
<1>9. InUse(w, D) = InUse(m, C) \cup {c} /\ \A x \in InUse(m, C) : size(w, x) = size(m, x)
  <2>1. InUse(m, C) \subseteq C \ {c}
    BY <1>2 DEF InUse
  <2>2. ASSUME NEW x \in D PROVE IsUsed(w, x) <=> (x = c \/ (x \in C \ {c} /\ IsUsed(m, x)))
    <3>1. x \in C \ {c} \/ x = c \/ (x = a /\ n # size(m, c) /\ x # c)
      BY <1>1 DEF G
    <3> QED  BY <1>1, <1>3, <3>1
  <2>3. InUse(m, C) \cup {c} \subseteq D
    BY <1>2, <2>1
  <2>4. InUse(w, D) = InUse(m, C) \cup {c}
    <3> HIDE DEF D
    <3> QED  BY <2>1, <2>2, <2>3 DEF InUse
  <2>5. \A x \in InUse(m, C) : size(w, x) = size(m, x)
    BY <1>3, <2>1
  <2> QED  BY <2>4, <2>5
<1> QED  BY <1>1, <1>7, <1>8, <1>9 DEF m, w, r

\* The chunk c is made free and added to the list for its size.
MadeFree(h, c) == addToFreeList(Mark(h, c, size(h.map, c), unused), c)

\* The chunk that is made free is the only one that changes.
LEMMA MadeFreeFacts ==
  ASSUME NEW h, NEW C, HeapOK(h, C), NEW c \in C, IsUsed(h.map, c)
  PROVE  LET r == MadeFree(h, c) IN
         /\ HeapOK(r, C) /\ Kept(h.map, r.map, C \ {c})
         /\ ~IsUsed(r.map, c) /\ size(r.map, c) = size(h.map, c)
         /\ InUse(r.map, C) = InUse(h.map, C) \ {c}
<1> DEFINE m == h.map
           n == size(m, c)
           t == Mark(h, c, n, unused)
           r == MadeFree(h, c)
<1>1. /\ h \in Heaps /\ Cut(m, C) /\ h.last \in C
      /\ \A i \in 1..bigList :
           /\ NoDup(h.free[i])
           /\ Elems(h.free[i]) = {x \in C : ~IsUsed(m, x) /\ ListFor(size(m, x)) = i}
  BY HeapFacts
<1>2. /\ c \in Blocks /\ n \in 1..(N - c) /\ next(m, c) = c + n /\ n \in 1..N
  <2> HIDE DEF m
  <2>1. c \in Blocks /\ Tile(m, c) /\ size(m, c) \in 1..N
    BY <1>1, CutFacts
  <2> QED  BY <2>1, TileFacts
<1>3. /\ t \in Heaps /\ t.free = h.free /\ t.last = h.last
      /\ Tiles(t.map, {c}, c, next(m, c))
      /\ size(t.map, c) = n /\ ~IsUsed(t.map, c)
      /\ \A b \in (-1)..N : b \notin c..(next(m, c) - 1) => t.map[b] = m[b]
  <2>1. unused \in {used, unused} /\ unused # used
    BY Bytes
  <2> HIDE DEF n, t
  <2>2. t = Mark(h, c, n, unused)
    BY DEF t
  <2>3. /\ t \in Heaps /\ t.free = h.free /\ t.last = h.last
        /\ Tiles(t.map, {c}, c, c + n)
        /\ size(t.map, c) = n /\ next(t.map, c) = c + n /\ (IsUsed(t.map, c) <=> unused = used)
        /\ \A b \in (-1)..N : b \notin c..(c + n - 1) => t.map[b] = h.map[b]
    BY <1>1, <1>2, <2>1, <2>2, MarkFacts
  <2>4. next(m, c) = c + n
    BY <1>2
  <2>5. Tiles(t.map, {c}, c, next(m, c))
    BY <2>3, <2>4
  <2>6. \A b \in (-1)..N : b \notin c..(next(m, c) - 1) => t.map[b] = m[b]
    <3>1. c \in Int /\ n \in Int
      BY <1>2, Sizeable DEF Blocks
    <3>2. c..(c + n - 1) = c..(next(m, c) - 1)
      BY <2>4, <3>1
    <3> QED  BY <2>3, <3>2
  <2> QED  BY <2>1, <2>3, <2>5, <2>6
<1> HIDE DEF m, n, t
<1>4. c \notin Elems(t.free[ListFor(size(t.map, c))])
  <2>1. ListFor(n) \in 1..bigList
    BY <1>2, ListFacts
  <2>2. IsUsed(m, c)
    BY DEF m
  <2> QED  BY <1>1, <1>3, <2>1, <2>2
<1>5. /\ r \in Heaps /\ r.map = t.map /\ r.last = t.last
      /\ \A i \in 1..bigList :
           /\ Elems(r.free[i]) = IF i = ListFor(n) THEN Elems(t.free[i]) \cup {c}
                                 ELSE Elems(t.free[i])
           /\ NoDup(t.free[i]) => NoDup(r.free[i])
  <2>1. r = addToFreeList(t, c)
    BY DEF MadeFree, t, n, m
  <2> HIDE DEF r
  <2> QED  BY <1>2, <1>3, <1>4, <2>1, AddFacts
<1> HIDE DEF r
<1>6. Cut(r.map, (C \ {c}) \cup {c}) /\ Kept(m, r.map, C \ {c})
  <2> DEFINE D == {c}
             w == r.map
  <2>1. /\ w \in [(-1)..N -> Byte] /\ Tiles(w, D, c, next(m, c))
        /\ \A b \in (-1)..N : b \notin c..(next(m, c) - 1) => w[b] = m[b]
    BY <1>3, <1>5, HeapChanged
  <2> HIDE DEF D, w
  <2>2. Cut(w, (C \ {c}) \cup D) /\ Kept(m, w, C \ {c})
    BY <1>1, <2>1, ChunkReplaced
  <2> QED  BY <2>2 DEF D, w
<1>7. HeapOK(r, C)
  <2> DEFINE X == {c}
             D == {c}
  <2>1. ASSUME NEW i \in 1..bigList
        PROVE  /\ NoDup(r.free[i])
               /\ Elems(r.free[i]) = (Elems(h.free[i]) \ X)
                    \cup {d \in D : ~IsUsed(r.map, d) /\ ListFor(size(r.map, d)) = i}
    <3>1. {d \in D : ~IsUsed(r.map, d) /\ ListFor(size(r.map, d)) = i}
            = IF i = ListFor(n) THEN {c} ELSE {}
      BY <1>3, <1>5
    <3>2. Elems(h.free[i]) \ X = Elems(h.free[i])
      BY <1>1 DEF m
    <3> HIDE DEF X, D
    <3> QED  BY <1>1, <1>3, <1>5, <3>1, <3>2
  <2>2. (C \ X) \cup D = C /\ D \cap (C \ X) = {}
    OBVIOUS
  <2>3. /\ r \in Heaps /\ Cut(r.map, (C \ X) \cup D) /\ Kept(h.map, r.map, C \ X)
        /\ r.last \in (C \ X) \cup D
    BY <1>1, <1>3, <1>5, <1>6 DEF m
  <2> HIDE DEF X, D
  <2>4. HeapOK(r, (C \ X) \cup D)
    BY <2>1, <2>2, <2>3, Relisted
  <2> QED  BY <2>2, <2>4
<1>8. InUse(r.map, C) = InUse(m, C) \ {c}
  BY <1>3, <1>5, <1>6 DEF InUse, Kept
<1> QED  BY <1>3, <1>5, <1>6, <1>7, <1>8 DEF m, n, r

\* While chunks are not combined one that is short may be made free.
LEMMA FreedShort ==
  ASSUME NEW h, NEW C, HeapOK(h, C), NEW c \in C, IsUsed(h.map, c), Paired(h.map, C),
         size(h.map, c) <= nfree
  PROVE  Paired(MadeFree(h, c).map, C)
<1> DEFINE m == h.map
           w == MadeFree(h, c).map
<1>1. /\ Cut(m, C) /\ Cut(w, C) /\ Kept(m, w, C \ {c}) /\ size(w, c) = size(m, c)
  BY MadeFreeFacts, HeapFacts
<1>2. size(m, c) <= nfree /\ Paired(m, C)
  OBVIOUS
<1> HIDE DEF m, w
<1>3. ASSUME NEW y \in C, ~IsUsed(w, y), ~IsUsed(w, next(w, y))
      PROVE  size(w, y) <= nfree \/ size(w, next(w, y)) <= nfree
  <2> DEFINE z == next(w, y)
  <2>1. z \in C /\ z # y
    <3>1. z \in C \cup {N} /\ IsUsed(w, N) /\ y < z /\ y \in Nat
      BY <1>1, CutFacts
    <3> QED  BY <1>3, <3>1
  <2>2. CASE y = c \/ z = c
    BY <1>1, <1>2, <2>2
  <2>3. CASE y # c /\ z # c
    <3>1. next(m, y) = z /\ size(w, y) = size(m, y) /\ size(w, z) = size(m, z)
          /\ ~IsUsed(m, y) /\ ~IsUsed(m, z)
      BY <1>1, <1>3, <2>1, <2>3 DEF Kept
    <3> QED  BY <1>2, <3>1 DEF Paired
  <2> QED  BY <2>2, <2>3
<1> QED  BY <1>3 DEF Paired, w

\* A chunk that is made free and combined.
LEMMA FreedCombined ==
  ASSUME NEW h, NEW C, HeapOK(h, C), NEW c \in C, IsUsed(h.map, c), Paired(h.map, C)
  PROVE  \E D : LET r == combine(MadeFree(h, c), c)
                    w == r.map
                IN  /\ HeapOK(r, D) /\ Paired(w, D)
                    /\ AllLone(h.map, C) => AllLone(w, D)
                    /\ InUse(w, D) = InUse(h.map, C) \ {c}
                    /\ \A x \in InUse(w, D) : size(w, x) = size(h.map, x)
                    /\ c \in D \/ contains(w, r.last, c)
<1> DEFINE m == h.map
           g == MadeFree(h, c)
           v == g.map
           a == FirstFree(v, c)
           e == EndOfFree(v, c)
           X == a..(e - 1)
           D == (C \ X) \cup {a}
           r == combine(g, c)
           w == r.map
<1>1. /\ Cut(m, C) /\ Cut(v, C) /\ HeapOK(g, C) /\ Kept(m, v, C \ {c}) /\ ~IsUsed(v, c)
      /\ InUse(v, C) = InUse(m, C) \ {c}
  BY MadeFreeFacts, HeapFacts
<1>2. Paired(m, C)
  OBVIOUS
<1> HIDE DEF g, m
<1>3. /\ HeapOK(r, D) /\ (c \in D \/ contains(w, r.last, c)) /\ c \in X
  <2>1. /\ a \in Nat /\ e \in Nat /\ a <= c /\ c < e
        /\ HeapOK(r, D) /\ (c \in D \/ contains(w, r.last, c))
    BY <1>1, CombineFacts
  <2>2. c \in Nat
    <3> HIDE DEF v
    <3> QED  BY <1>1, CutFacts
  <2> HIDE DEF a, e
  <2> QED  BY <2>1, <2>2
<1>4. /\ SameUsed(v, C, w, D)
      /\ \A y \in D : ~IsUsed(w, y) =>
           \/ y = a /\ Lone(w, a)
           \/ /\ y \in C \ X /\ ~IsUsed(v, y)
              /\ size(w, y) = size(v, y)
              /\ Lone(w, y) <=> Lone(v, y)
              /\ ~IsUsed(w, next(w, y)) => /\ ~IsUsed(v, next(v, y))
                                           /\ size(w, next(w, y)) = size(v, next(v, y))
  BY <1>1, CombineKeeps
<1>5. \A y \in C \ X : ~IsUsed(v, y) => next(v, y) \notin X /\ (y = 0 \/ prev(v, y) \notin X)
  BY <1>1, CombineLone
<1> HIDE DEF v, a, e, X, r, w
<1>6. ASSUME NEW y \in C \ X, ~IsUsed(v, y)
      PROVE  /\ y # c /\ next(v, y) # c /\ next(v, y) = next(m, y) /\ ~IsUsed(m, y)
             /\ size(v, y) = size(m, y)
             /\ ~IsUsed(v, next(v, y)) => /\ ~IsUsed(m, next(m, y))
                                          /\ size(v, next(v, y)) = size(m, next(m, y))
             /\ Lone(v, y) <=> Lone(m, y)
  <2>1. y # c /\ next(v, y) # c /\ (y = 0 \/ prev(v, y) # c)
    BY <1>3, <1>5, <1>6
  <2>2. next(v, y) = next(m, y) /\ ~IsUsed(m, y) /\ size(v, y) = size(m, y)
    BY <1>1, <1>6, <2>1 DEF Kept
  <2>3. ASSUME ~IsUsed(v, next(v, y))
        PROVE  ~IsUsed(m, next(m, y)) /\ size(v, next(v, y)) = size(m, next(m, y))
    <3>1. next(v, y) \in C \cup {N} /\ IsUsed(v, N)
      BY <1>1, CutFacts
    <3>2. next(v, y) \in C \ {c}
      BY <2>1, <2>3, <3>1
    <3> QED  BY <1>1, <2>2, <2>3, <3>2 DEF Kept
  <2>4. Lone(v, y) <=> Lone(m, y)
    <3> DEFINE Z == {c}
               B == {c}
    <3>1. /\ Cut(v, (C \ Z) \cup B) /\ Kept(m, v, C \ Z) /\ y \in C \ Z
      <4>1. (C \ Z) \cup B = C
        OBVIOUS
      <4> QED  BY <1>1, <2>1, <4>1
    <3>2. next(m, y) \notin Z
      BY <2>1, <2>2
    <3>3. y = 0 \/ prev(m, y) \notin Z
      <4>1. ASSUME y # 0, prev(m, y) = c PROVE FALSE
        <5>1. next(m, c) = y
          BY <1>1, <4>1, Previous
        <5>2. next(v, c) = y
          <6>1. next(v, c) \in C \cup {N} /\ c < next(v, c) /\ c \in Nat
                /\ \A d \in C : d <= c \/ next(v, c) <= d
            BY <1>1, CutFacts
          <6>2. c < y /\ y \in Nat /\ \A d \in C : d <= c \/ y <= d
            BY <1>1, <5>1, CutFacts
          <6>3. y < N /\ N \in Nat /\ C \subseteq Nat
            BY <1>1, CutRange
          <6> DEFINE z == next(v, c)
          <6> HIDE DEF z
          <6>4. z \in C \cup {N} /\ z \in Nat /\ c < z
            BY <6>1, <6>3 DEF z
          <6>5. z <= y
            <7>1. y <= c \/ z <= y
              BY <6>1 DEF z
            <7> QED  BY <6>1, <6>2, <7>1
          <6>6. y <= z
            <7>1. z \in C
              BY <6>2, <6>3, <6>4, <6>5
            <7> QED  BY <6>1, <6>2, <6>4, <7>1
          <6> QED  BY <6>2, <6>4, <6>5, <6>6 DEF z
        <5>3. prev(v, y) = c
          BY <1>1, <5>2, CutFacts
        <5> QED  BY <2>1, <4>1, <5>3
      <4> QED  BY <4>1
    <3> HIDE DEF Z, B
    <3> QED  BY <1>1, <3>1, <3>2, <3>3, NeighboursKept
  <2> QED  BY <2>1, <2>2, <2>3, <2>4
<1>7. Paired(w, D)
  <2>1. ASSUME NEW y \in D, ~IsUsed(w, y), ~IsUsed(w, next(w, y))
        PROVE  size(w, y) <= nfree \/ size(w, next(w, y)) <= nfree
    <3>1. ~Lone(w, y)
      BY <2>1 DEF Lone
    <3>2. /\ y \in C \ X /\ ~IsUsed(v, y) /\ size(w, y) = size(v, y)
          /\ ~IsUsed(v, next(v, y)) /\ size(w, next(w, y)) = size(v, next(v, y))
      BY <1>4, <2>1, <3>1
    <3>3. /\ ~IsUsed(m, y) /\ ~IsUsed(m, next(m, y))
          /\ size(w, y) = size(m, y) /\ size(w, next(w, y)) = size(m, next(m, y))
      BY <1>6, <3>2
    <3> QED  BY <1>2, <3>2, <3>3 DEF Paired
  <2> QED  BY <2>1 DEF Paired
<1>8. AllLone(m, C) => AllLone(w, D)
  <2>1. ASSUME AllLone(m, C), NEW y \in D, ~IsUsed(w, y) PROVE Lone(w, y)
    <3>1. CASE y = a /\ Lone(w, a)
      BY <3>1
    <3>2. CASE y \in C \ X /\ ~IsUsed(v, y) /\ (Lone(w, y) <=> Lone(v, y))
      BY <1>6, <2>1, <3>2 DEF AllLone
    <3> QED  BY <1>4, <2>1, <3>1, <3>2
  <2> QED  BY <2>1 DEF AllLone
<1>9. InUse(w, D) = InUse(m, C) \ {c}
  BY <1>1, <1>4 DEF SameUsed
<1>10. \A x \in InUse(w, D) : size(w, x) = size(m, x)
  BY <1>1, <1>4 DEF SameUsed, InUse, Kept
<1> QED  BY <1>3, <1>7, <1>8, <1>9, <1>10 DEF m, w, r, g

\* The blocks of the chunks U.
Covered(m, U) == UNION {c..(c + size(m, c) - 1) : c \in U}

\* Chunks of the same sizes have the same blocks.
LEMMA CoveredSame ==
  ASSUME NEW m, NEW w, NEW U, \A c \in U : size(w, c) = size(m, c)
  PROVE  Covered(w, U) = Covered(m, U)
BY DEF Covered

\* Chunks have finitely many blocks.
LEMMA CoveredFacts ==
  ASSUME NEW m, NEW C, Cut(m, C), NEW U, U \subseteq C
  PROVE  /\ Covered(m, U) \subseteq 0..(N - 1) /\ IsFiniteSet(Covered(m, U))
         /\ Cardinality(Covered(m, U)) \in Nat /\ Cardinality(Covered(m, U)) <= N
<1>1. N \in Nat \ {0}
  BY Sizeable
<1>2. Covered(m, U) \subseteq 0..(N - 1)
  <2>1. ASSUME NEW c \in U PROVE c..(c + size(m, c) - 1) \subseteq 0..(N - 1)
    <3>1. c \in Nat /\ size(m, c) \in Nat /\ c + size(m, c) <= N
      BY CutFacts
    <3> QED  BY <1>1, <3>1
  <2> QED  BY <2>1 DEF Covered
<1>3. IsFiniteSet(0..(N - 1)) /\ Cardinality(0..(N - 1)) = N
  <2>1. 0 \in Int /\ N - 1 \in Int
    BY <1>1
  <2>2. IsFiniteSet(0..(N - 1))
        /\ Cardinality(0..(N - 1)) = IF 0 > N - 1 THEN 0 ELSE (N - 1) - 0 + 1
    BY <2>1, FS_Interval
  <2> QED  BY <1>1, <2>2
<1> DEFINE A == Covered(m, U)
           B == 0..(N - 1)
<1>4. IsFiniteSet(A) /\ Cardinality(A) <= Cardinality(B)
  <2>1. A \in SUBSET B /\ IsFiniteSet(B)
    BY <1>2, <1>3
  <2> HIDE DEF A, B
  <2> QED  BY <2>1, FS_Subset
<1>5. Cardinality(A) \in Nat
  BY <1>4, FS_CardinalityType
<1> QED  BY <1>2, <1>3, <1>4, <1>5

\* The chunks of a map share no blocks.
LEMMA Disjoint ==
  ASSUME NEW m, NEW C, Cut(m, C), NEW c \in C, NEW d \in C, c # d
  PROVE  (c..(c + size(m, c) - 1)) \cap (d..(d + size(m, d) - 1)) = {}
<1>1. /\ c \in Nat /\ d \in Nat /\ size(m, c) \in Nat /\ size(m, d) \in Nat
      /\ c + size(m, c) <= d \/ d <= c
      /\ d + size(m, d) <= c \/ c <= d
  BY CutFacts
<1> DEFINE k == size(m, c)
           n == size(m, d)
<1>2. c + k <= d \/ d + n <= c
  BY <1>1
<1> HIDE DEF k, n
<1>3. k \in Nat /\ n \in Nat
  BY <1>1 DEF k, n
<1>4. \A b \in c..(c + k - 1) : b \notin d..(d + n - 1)
  BY <1>1, <1>2, <1>3
<1> QED  BY <1>4 DEF k, n

\* One more chunk has as many blocks more as its size.
LEMMA CoveredAdds ==
  ASSUME NEW m, NEW C, Cut(m, C), NEW U, U \subseteq C, NEW c \in C, c \notin U
  PROVE  /\ Covered(m, U \cup {c}) = Covered(m, U) \cup (c..(c + size(m, c) - 1))
         /\ Covered(m, U) \cap (c..(c + size(m, c) - 1)) = {}
         /\ Cardinality(Covered(m, U \cup {c})) = Cardinality(Covered(m, U)) + size(m, c)
<1> DEFINE A == Covered(m, U)
           B == c..(c + size(m, c) - 1)
<1>1. Covered(m, U \cup {c}) = A \cup B
  BY DEF Covered
<1>2. A \cap B = {}
  <2>1. ASSUME NEW d \in U PROVE (d..(d + size(m, d) - 1)) \cap B = {}
    BY Disjoint
  <2> QED  BY <2>1 DEF Covered
<1>3. IsFiniteSet(A) /\ Cardinality(A) \in Nat
  BY CoveredFacts
<1>4. IsFiniteSet(B) /\ Cardinality(B) = size(m, c)
  <2> DEFINE e == c + size(m, c) - 1
  <2>1. c \in Int /\ e \in Int /\ c <= e /\ e - c + 1 = size(m, c)
    <3>1. c \in Nat /\ size(m, c) \in Nat \ {0}
      BY CutFacts
    <3> QED  BY <3>1
  <2> HIDE DEF e
  <2>2. IsFiniteSet(c..e) /\ Cardinality(c..e) = IF c > e THEN 0 ELSE e - c + 1
    BY <2>1, FS_Interval
  <2>3. Cardinality(c..e) = size(m, c)
    BY <2>1, <2>2
  <2>4. B = c..e
    BY DEF e
  <2> HIDE DEF B
  <2> QED  BY <2>2, <2>3, <2>4
<1> HIDE DEF A, B
<1>5. Cardinality(A \cup B) = Cardinality(A) + Cardinality(B) - Cardinality(A \cap B)
  BY <1>3, <1>4, FS_Union
<1>6. Cardinality(A \cap B) = 0 /\ size(m, c) \in Nat
  BY <1>2, FS_EmptySet, CutFacts
<1>7. Cardinality(A \cup B) = Cardinality(A) + size(m, c)
  BY <1>3, <1>4, <1>5, <1>6
<1>8. /\ Covered(m, U \cup {c}) = A \cup B /\ A \cap B = {}
      /\ Cardinality(Covered(m, U \cup {c})) = Cardinality(A) + size(m, c)
  BY <1>1, <1>2, <1>7
<1> QED  BY <1>8 DEF A, B

-----------------------------------------------------------------------------
(* The heap between operations.                                            *)

\* The objects are where p says, in the used chunks.
Holding(p, U) ==
  /\ p \in [Objects -> Blocks \cup {Nowhere}]
  /\ \A x, y \in Objects : p[x] = p[y] /\ p[x] # Nowhere => x = y
  /\ U = {p[x] : x \in Objects} \ {Nowhere}

\* The heap h, the chunks of which are C and which combines them if mode is
\* set, has n blocks in use, in which the objects are where p says.
Sound(h, C, mode, p, n) ==
  /\ HeapOK(h, C) /\ Paired(h.map, C) /\ (mode => AllLone(h.map, C))
  /\ Holding(p, InUse(h.map, C))
  /\ n = Cardinality(Covered(h.map, InUse(h.map, C)))

\* A sweeper may have been at p.
Walked(h, C, p) ==
  p = Nowhere \/ p \in C \/ (p \in Blocks /\ contains(h.map, h.last, p))

IInv ==
  /\ combineMode \in BOOLEAN /\ full \in BOOLEAN
  /\ \E C : Sound(Heap, C, combineMode, at, blocksUsed) /\ Walked(Heap, C, freed)

\* Objects that are held, and one that is stored or discarded.
LEMMA Placed ==
  ASSUME NEW p, NEW U, Holding(p, U), NEW x \in Objects
  PROVE  /\ p[x] # Nowhere => p[x] \in U
         /\ Nowhere \notin U
         /\ \A y \in Objects : y # x /\ p[x] # Nowhere => p[y] # p[x]
         /\ Holding([p EXCEPT ![x] = Nowhere], U \ {p[x]})
         /\ p[x] = Nowhere => \A c \in Blocks \ U : c # Nowhere =>
              Holding([p EXCEPT ![x] = c], U \cup {c})
<1>1. /\ p \in [Objects -> Blocks \cup {Nowhere}]
      /\ \A y, z \in Objects : p[y] = p[z] /\ p[y] # Nowhere => y = z
      /\ U = {p[y] : y \in Objects} \ {Nowhere}
  BY DEF Holding
<1>2. Holding([p EXCEPT ![x] = Nowhere], U \ {p[x]})
  <2> DEFINE q == [p EXCEPT ![x] = Nowhere]
  <2>1. q \in [Objects -> Blocks \cup {Nowhere}]
        /\ q[x] = Nowhere /\ \A y \in Objects : y # x => q[y] = p[y]
    BY <1>1
  <2> HIDE DEF q
  <2>2. \A y, z \in Objects : q[y] = q[z] /\ q[y] # Nowhere => y = z
    BY <1>1, <2>1
  <2>3. U \ {p[x]} = {q[y] : y \in Objects} \ {Nowhere}
    BY <1>1, <2>1
  <2> QED  BY <2>1, <2>2, <2>3 DEF Holding, q
<1>3. ASSUME p[x] = Nowhere, NEW c \in Blocks \ U, c # Nowhere
      PROVE  Holding([p EXCEPT ![x] = c], U \cup {c})
  <2> DEFINE q == [p EXCEPT ![x] = c]
  <2>1. q \in [Objects -> Blocks \cup {Nowhere}]
        /\ q[x] = c /\ \A y \in Objects : y # x => q[y] = p[y]
    BY <1>1
  <2> HIDE DEF q
  <2>2. \A y, z \in Objects : q[y] = q[z] /\ q[y] # Nowhere => y = z
    BY <1>1, <1>3, <2>1
  <2>3. U \cup {c} = {q[y] : y \in Objects} \ {Nowhere}
    BY <1>1, <1>3, <2>1
  <2> QED  BY <2>1, <2>2, <2>3 DEF Holding, q
<1> QED  BY <1>1, <1>2, <1>3

\* Heap is what the variables hold.
LEMMA HeapIsHeap ==
  /\ Heap.map = heapMap /\ Heap.free = freeList /\ Heap.last = lastCombine
  /\ \A h \in Heaps : Becomes(h) => Heap' = h /\ heapMap' = h.map
<1>1. ASSUME NEW h \in Heaps PROVE h = [map |-> h.map, free |-> h.free, last |-> h.last]
  BY DEF Heaps
<1> QED  BY <1>1 DEF Heap, Becomes

\* A request that finds nothing combines chunks, and knows whether it helped.
LEMMA AfterCombiningFacts ==
  ASSUME NEW h, NEW C, HeapOK(h, C), Paired(h.map, C), combineMode => AllLone(h.map, C),
         NEW n \in 1..N
  PROVE  LET r == AfterCombining(h, n) IN
         \E D : /\ HeapOK(r, D) /\ Paired(r.map, D) /\ SameUsed(h.map, C, r.map, D)
                /\ combineMode \/ NeedsCombining(h, n) => AllLone(r.map, D)
                /\ NeedsCombining(h, n) =>
                     /\ combineAll(h).biggest \in 0..N
                     /\ \A y \in D : ~IsUsed(r.map, y) =>
                          size(r.map, y) < n \/ size(r.map, y) <= combineAll(h).biggest
                /\ Found(r, n) = Nowhere => combineMode \/ NeedsCombining(h, n)
<1>1. CASE NeedsCombining(h, n)
  <2> DEFINE r == combineAll(h).heap
             b == combineAll(h).biggest
  <2>1. AfterCombining(h, n) = r
    BY <1>1 DEF AfterCombining
  <2>2. b \in 0..N
    BY CombineAllFacts
  <2>3. PICK D : /\ HeapOK(r, D) /\ SameUsed(h.map, C, r.map, D)
                 /\ Paired(r.map, D) /\ AllLone(r.map, D)
                 /\ \A y \in D : ~IsUsed(r.map, y) =>
                      \/ size(r.map, y) <= b
                      \/ /\ y \in C /\ ~IsUsed(h.map, y)
                         /\ size(h.map, y) = size(r.map, y)
    BY CombineAllFacts
  <2>4. \A c \in C : ~IsUsed(h.map, c) => size(h.map, c) < n
    BY <1>1, FoundFacts DEF NeedsCombining
  <2> HIDE DEF r, b
  <2>5. \A y \in D : ~IsUsed(r.map, y) => size(r.map, y) < n \/ size(r.map, y) <= b
    BY <2>3, <2>4
  <2> QED  BY <1>1, <2>1, <2>2, <2>3, <2>5 DEF b
<1>2. CASE ~NeedsCombining(h, n)
  <2>1. AfterCombining(h, n) = h
    BY <1>2 DEF AfterCombining
  <2>2. Found(h, n) = Nowhere => combineMode
    BY <1>2 DEF NeedsCombining
  <2>3. SameUsed(h.map, C, h.map, C)
    BY DEF SameUsed
  <2> QED  BY <1>2, <2>1, <2>2, <2>3
<1> QED  BY <1>1, <1>2

\* An object is stored in a chunk that was free, or no chunk is long enough
\* though no free chunks touch.
LEMMA AllocateFacts ==
  ASSUME NEW C, Sound(Heap, C, combineMode, at, blocksUsed), combineMode \in BOOLEAN,
         NEW x \in Objects, NEW n \in Sizes, allocate(x, n)
  PROVE  \E D :
           /\ Sound(Heap', D, combineMode', at', blocksUsed')
           /\ freed' = Nowhere /\ combineMode' \in BOOLEAN
           /\ \A u \in InUse(heapMap, C) : size(heapMap', u) = size(heapMap, u)
           /\ \/ \E c \in D :
                   /\ c \notin InUse(heapMap, C)
                   /\ InUse(heapMap', D) = InUse(heapMap, C) \cup {c}
                   /\ size(heapMap', c) = n
                   /\ at[x] = Nowhere /\ at' = [at EXCEPT ![x] = c]
                   /\ blocksUsed' = blocksUsed + n /\ full' = FALSE
              \/ /\ InUse(heapMap', D) = InUse(heapMap, C)
                 /\ at' = at /\ blocksUsed' = blocksUsed /\ full' = TRUE
                 /\ AllLone(heapMap', D)
                 /\ \A c \in D : ~IsUsed(heapMap', c) => size(heapMap', c) < n
<1> DEFINE h == AfterCombining(Heap, n)
           found == Found(h, n)
           tried == NeedsCombining(Heap, n)
           biggest == combineAll(Heap).biggest
           fits == found # Nowhere /\ (tried => biggest >= n)
           m == Heap.map
           U == InUse(m, C)
<1>1. /\ HeapOK(Heap, C) /\ Paired(m, C) /\ (combineMode => AllLone(m, C))
      /\ Holding(at, U) /\ blocksUsed = Cardinality(Covered(m, U)) /\ Cut(m, C)
      /\ m = heapMap
  BY HeapFacts, HeapIsHeap DEF Sound
<1>2. n \in 1..N
  BY ZoneHeapAssumption
<1>3. PICK B : /\ HeapOK(h, B) /\ Paired(h.map, B) /\ SameUsed(m, C, h.map, B)
               /\ combineMode \/ tried => AllLone(h.map, B)
               /\ tried => /\ biggest \in 0..N
                           /\ \A y \in B : ~IsUsed(h.map, y) =>
                                size(h.map, y) < n \/ size(h.map, y) <= biggest
               /\ found = Nowhere => combineMode \/ tried
  BY <1>1, <1>2, AfterCombiningFacts
<1>4. /\ at[x] = Nowhere
      /\ Becomes(IF fits THEN Split(h, found, n) ELSE h)
      /\ at' = IF fits THEN [at EXCEPT ![x] = found] ELSE at
      /\ blocksUsed' = IF fits THEN blocksUsed + n ELSE blocksUsed
      /\ combineMode' = (combineMode \/ tried)
      /\ full' = ~fits
      /\ freed' = Nowhere
  BY DEF allocate
<1>5. tried \in BOOLEAN /\ combineMode' \in BOOLEAN
  BY <1>4 DEF NeedsCombining
<1>6. InUse(h.map, B) = U /\ \A u \in U : size(h.map, u) = size(m, u)
  BY <1>3 DEF SameUsed
<1>7. /\ found # Nowhere => found \in B /\ ~IsUsed(h.map, found) /\ n <= size(h.map, found)
      /\ found = Nowhere => \A c \in B : ~IsUsed(h.map, c) => size(h.map, c) < n
  BY <1>2, <1>3, FoundFacts
<1>8. /\ Cut(h.map, B) /\ h \in Heaps /\ B \subseteq Blocks
      /\ \A y \in B : size(h.map, y) \in Nat
  BY <1>3, HeapFacts, CutFacts
<1> HIDE DEF h, found, tried, biggest, m, U
<1>9. ASSUME fits
      PROVE  \E D :
           /\ Sound(Heap', D, combineMode', at', blocksUsed')
           /\ \A u \in U : size(heapMap', u) = size(m, u)
           /\ \E c \in D :
                /\ c \notin U /\ InUse(heapMap', D) = U \cup {c} /\ size(heapMap', c) = n
                /\ at' = [at EXCEPT ![x] = c]
                /\ blocksUsed' = blocksUsed + n /\ full' = FALSE
  <2> DEFINE r == Split(h, found, n)
             w == r.map
  <2>1. found \in B /\ ~IsUsed(h.map, found) /\ n \in 1..size(h.map, found)
        /\ found \in Blocks
    BY <1>2, <1>7, <1>8, <1>9
  <2>2. PICK D :
          /\ HeapOK(r, D) /\ Paired(w, D)
          /\ AllLone(h.map, B) => AllLone(w, D)
          /\ InUse(w, D) = InUse(h.map, B) \cup {found} /\ size(w, found) = n
          /\ \A u \in InUse(h.map, B) : size(w, u) = size(h.map, u)
    BY <1>3, <2>1, SplitFacts
  <2> HIDE DEF r
  <2>3. /\ r \in Heaps /\ Cut(w, D)
    BY <2>2, HeapFacts
  <2>4. Heap' = r /\ heapMap' = w
    BY <1>4, <1>9, <2>3, HeapIsHeap DEF r
  <2>5. found \notin U
    BY <1>6, <2>1 DEF InUse
  <2>6. InUse(w, D) = U \cup {found} /\ \A u \in U : size(w, u) = size(m, u)
    BY <1>6, <2>2
  <2>7. U \subseteq D /\ found \in D
    BY <2>6 DEF InUse
  <2> HIDE DEF w
  <2>8. Cardinality(Covered(w, U \cup {found})) = blocksUsed + n
    <3>1. Cardinality(Covered(w, U \cup {found})) = Cardinality(Covered(w, U)) + size(w, found)
      BY <2>3, <2>5, <2>7, CoveredAdds DEF w
    <3>2. Covered(w, U) = Covered(m, U)
      BY <2>6, CoveredSame
    <3> QED  BY <1>1, <2>2, <3>1, <3>2 DEF w
  <2>9. Holding([at EXCEPT ![x] = found], U \cup {found})
    BY <1>1, <1>4, <1>9, <2>1, <2>5, Placed
  <2>10. combineMode' => AllLone(w, D)
    BY <1>3, <1>4, <2>2 DEF w
  <2>11. Sound(Heap', D, combineMode', at', blocksUsed')
    BY <1>4, <1>9, <2>2, <2>4, <2>6, <2>8, <2>9, <2>10 DEF Sound, w
  <2>12. full' = FALSE /\ at' = [at EXCEPT ![x] = found] /\ blocksUsed' = blocksUsed + n
    BY <1>4, <1>9
  <2> QED  BY <2>2, <2>4, <2>5, <2>6, <2>7, <2>11, <2>12 DEF w
<1>10. ASSUME ~fits
       PROVE  /\ Sound(Heap', B, combineMode', at', blocksUsed')
              /\ \A u \in U : size(heapMap', u) = size(m, u)
              /\ InUse(heapMap', B) = U
              /\ at' = at /\ blocksUsed' = blocksUsed /\ full' = TRUE
              /\ AllLone(heapMap', B)
              /\ \A c \in B : ~IsUsed(heapMap', c) => size(heapMap', c) < n
  <2>1. Heap' = h /\ heapMap' = h.map
    BY <1>4, <1>8, <1>10, HeapIsHeap
  <2>2. at' = at /\ blocksUsed' = blocksUsed /\ full' = TRUE
    BY <1>4, <1>10
  <2>3. combineMode \/ tried
    BY <1>3, <1>10
  <2>4. AllLone(h.map, B)
    BY <1>3, <2>3
  <2>5. Covered(h.map, U) = Covered(m, U)
    BY <1>6, CoveredSame
  <2>6. Sound(Heap', B, combineMode', at', blocksUsed')
    BY <1>1, <1>3, <1>6, <2>1, <2>2, <2>4, <2>5 DEF Sound
  <2>7. \A c \in B : ~IsUsed(h.map, c) => size(h.map, c) < n
    <3>1. CASE found = Nowhere
      BY <1>7, <3>1
    <3>2. CASE tried /\ ~(biggest >= n)
      BY <1>2, <1>3, <1>8, <3>2
    <3> QED  BY <1>10, <3>1, <3>2
  <2> QED  BY <1>6, <2>1, <2>2, <2>4, <2>6, <2>7
<1> QED  BY <1>1, <1>4, <1>5, <1>9, <1>10 DEF U

\* The chunk of an object is free, or part of a free one, and the others are
\* as before.
LEMMA DeallocateFacts ==
  ASSUME NEW C, Sound(Heap, C, combineMode, at, blocksUsed), combineMode \in BOOLEAN,
         NEW x \in Objects, deallocate(x)
  PROVE  \E D :
           /\ Sound(Heap', D, combineMode', at', blocksUsed') /\ Walked(Heap', D, freed')
           /\ combineMode' \in BOOLEAN /\ full' = FALSE
           /\ at[x] \in InUse(heapMap, C)
           /\ InUse(heapMap', D) = InUse(heapMap, C) \ {at[x]}
           /\ \A u \in InUse(heapMap', D) : size(heapMap', u) = size(heapMap, u)
           /\ at' = [at EXCEPT ![x] = Nowhere]
           /\ blocksUsed' = blocksUsed - size(heapMap, at[x])
<1> DEFINE c == at[x]
           m == Heap.map
           n == size(m, c)
           g == MadeFree(Heap, c)
           r == IF combineMode \/ n > nfree THEN combine(g, c) ELSE g
           w == r.map
           U == InUse(m, C)
<1>1. /\ HeapOK(Heap, C) /\ Paired(m, C) /\ (combineMode => AllLone(m, C))
      /\ Holding(at, U) /\ blocksUsed = Cardinality(Covered(m, U)) /\ Cut(m, C)
      /\ m = heapMap
  BY HeapFacts, HeapIsHeap DEF Sound
<1>2. /\ c # Nowhere
      /\ Becomes(r)
      /\ at' = [at EXCEPT ![x] = Nowhere]
      /\ blocksUsed' = blocksUsed - n
      /\ freed' = c /\ full' = FALSE /\ combineMode' = combineMode
  BY HeapIsHeap DEF deallocate, MadeFree
<1>3. c \in U /\ c \in C /\ IsUsed(m, c) /\ c \in Blocks
  <2>1. c \in U
    BY <1>1, <1>2, Placed
  <2> QED  BY <1>1, <2>1, CutFacts DEF InUse
<1>4. /\ HeapOK(g, C) /\ Kept(m, g.map, C \ {c}) /\ ~IsUsed(g.map, c)
      /\ InUse(g.map, C) = U \ {c}
  BY <1>1, <1>3, MadeFreeFacts
<1> HIDE DEF m, c
<1>5. \E D : /\ HeapOK(r, D) /\ Paired(w, D) /\ (combineMode => AllLone(w, D))
             /\ InUse(w, D) = U \ {c}
             /\ \A u \in InUse(w, D) : size(w, u) = size(m, u)
             /\ c \in D \/ contains(w, r.last, c)
  <2>1. CASE combineMode \/ n > nfree
    <3> DEFINE q == combine(g, c)
    <3>1. PICK D : /\ HeapOK(q, D) /\ Paired(q.map, D)
                   /\ AllLone(m, C) => AllLone(q.map, D)
                   /\ InUse(q.map, D) = U \ {c}
                   /\ \A u \in InUse(q.map, D) : size(q.map, u) = size(m, u)
                   /\ c \in D \/ contains(q.map, q.last, c)
      BY <1>1, <1>3, FreedCombined DEF m
    <3>2. r = q
      BY <2>1
    <3> HIDE DEF r, q
    <3> QED  BY <1>1, <3>1, <3>2
  <2>2. CASE ~(combineMode \/ n > nfree)
    <3>1. r = g
      BY <2>2
    <3>2. n <= nfree
      <4>1. n \in Nat /\ nfree \in Nat
        BY <1>1, <1>3, CutFacts, ListFacts
      <4> QED  BY <2>2, <4>1
    <3>3. Paired(g.map, C)
      BY <1>1, <1>3, <3>2, FreedShort DEF m
    <3>4. \A u \in InUse(g.map, C) : size(g.map, u) = size(m, u)
      BY <1>4 DEF Kept, InUse
    <3> HIDE DEF r, g
    <3> QED  BY <1>3, <1>4, <2>2, <3>1, <3>3, <3>4
  <2> QED  BY <2>1, <2>2
<1>6. PICK D : /\ HeapOK(r, D) /\ Paired(w, D) /\ (combineMode => AllLone(w, D))
               /\ InUse(w, D) = U \ {c}
               /\ \A u \in InUse(w, D) : size(w, u) = size(m, u)
               /\ c \in D \/ contains(w, r.last, c)
  BY <1>5
<1> HIDE DEF r
<1>7. Heap' = r /\ heapMap' = w
  <2>1. r \in Heaps
    BY <1>6, HeapFacts
  <2> QED  BY <1>2, <2>1, HeapIsHeap
<1>8. Cardinality(Covered(w, U \ {c})) = blocksUsed - n
  <2> DEFINE V == U \ {c}
             A == Covered(m, V)
  <2>1. V \subseteq C /\ c \notin V /\ V \cup {c} = U
    BY <1>3 DEF U, InUse
  <2>2. Covered(w, V) = A
    BY <1>6, CoveredSame
  <2> HIDE DEF V
  <2>3. Cardinality(Covered(m, V \cup {c})) = Cardinality(A) + n
    BY <1>1, <1>3, <2>1, CoveredAdds
  <2>4. Cardinality(A) \in Nat /\ n \in Nat
    BY <1>1, <1>3, <2>1, CoveredFacts, CutFacts
  <2>5. blocksUsed = Cardinality(A) + n
    BY <1>1, <2>1, <2>3
  <2> HIDE DEF A, n
  <2>6. Cardinality(A) = blocksUsed - n
    BY <2>4, <2>5
  <2> QED  BY <2>2, <2>6 DEF V
<1>9. Holding([at EXCEPT ![x] = Nowhere], U \ {c})
  BY <1>1, Placed DEF c
<1>10. Sound(Heap', D, combineMode', at', blocksUsed')
  BY <1>2, <1>6, <1>7, <1>8, <1>9 DEF Sound
<1>11. Walked(Heap', D, freed')
  BY <1>2, <1>3, <1>6, <1>7 DEF Walked
<1> QED
  BY <1>1, <1>2, <1>3, <1>6, <1>7, <1>10, <1>11 DEF c, U

\* A heap that is cleared is one free chunk.
LEMMA InitFacts ==
  ASSUME Init
  PROVE  IInv
<1> DEFINE blank == [b \in -1..N |-> IF b \in Blocks THEN 0 ELSE used]
           h == [map |-> blank, free |-> freeList, last |-> 0]
           t == Mark(h, 0, N, unused)
           C == {0}
<1>1. /\ heapMap = markSize(blank, 0, N, unused)
      /\ freeList = [i \in 1..bigList |-> IF i = ListFor(N) THEN <<0>> ELSE <<>>]
      /\ lastCombine = 0 /\ combineMode = FALSE /\ blocksUsed = 0
      /\ at = [y \in Objects |-> Nowhere]
      /\ freed = Nowhere /\ full = FALSE
  BY DEF Init, EmptyMap, markUnused
<1>2. N \in Nat \ {0} /\ 0 \in Blocks /\ N \in 1..N /\ N \in 1..(N - 0)
  BY Sizeable DEF Blocks
<1>3. blank \in [(-1)..N -> Byte]
  <2>1. 0 \in Byte /\ used \in Byte
    BY Bytes
  <2> HIDE DEF Blocks
  <2> QED  BY <2>1
<1>4. /\ freeList \in [1..bigList -> Seq(Blocks)]
      /\ \A i \in 1..bigList : /\ NoDup(freeList[i])
                               /\ Elems(freeList[i]) = IF i = ListFor(N) THEN {0} ELSE {}
  <2>1. /\ <<0>> \in Seq(Blocks) /\ <<>> \in Seq(Blocks)
        /\ NoDup(<<0>>) /\ NoDup(<<>>) /\ Elems(<<0>>) = {0} /\ Elems(<<>>) = {}
    BY <1>2 DEF NoDup, Elems
  <2> HIDE DEF Blocks
  <2> QED  BY <1>1, <2>1
<1>5. h \in Heaps /\ h.map = blank
  BY <1>2, <1>3, <1>4, HeapIs
<1>6. t = Heap
  BY <1>1, <1>3, <1>5, HeapChanged DEF Mark, Heap
<1> HIDE DEF h
<1>7. /\ t \in Heaps
      /\ Tiles(t.map, {0}, 0, N)
      /\ size(t.map, 0) = N /\ next(t.map, 0) = N /\ ~IsUsed(t.map, 0)
      /\ \A b \in (-1)..N : b \notin 0..(N - 1) => t.map[b] = blank[b]
  <2> DEFINE c == 0
  <2>0. c \in Blocks /\ N \in 1..(N - c) /\ unused \in {used, unused} /\ unused # used
    BY <1>2, Bytes
  <2> HIDE DEF c
  <2>1. /\ Mark(h, c, N, unused) \in Heaps
        /\ Tiles(Mark(h, c, N, unused).map, {c}, c, c + N)
        /\ size(Mark(h, c, N, unused).map, c) = N /\ next(Mark(h, c, N, unused).map, c) = c + N
        /\ (IsUsed(Mark(h, c, N, unused).map, c) <=> unused = used)
        /\ \A b \in (-1)..N : b \notin c..(c + N - 1) =>
             Mark(h, c, N, unused).map[b] = h.map[b]
    BY <1>5, <2>0, MarkFacts
  <2>2. c = 0 /\ c + N = N /\ c + N - 1 = N - 1
    BY <1>2 DEF c
  <2> QED  BY <1>5, <2>0, <2>1, <2>2
<1>8. Cut(t.map, C)
  <2>1. t.map \in [(-1)..N -> Byte]
    BY <1>7, HeapChanged
  <2>2. t.map[-1] = blank[-1] /\ t.map[N] = blank[N]
    BY <1>2, <1>7
  <2>3. blank[-1] = used /\ blank[N] = used
    BY <1>2 DEF Blocks
  <2> HIDE DEF t, blank
  <2> QED  BY <1>7, <2>1, <2>2, <2>3 DEF Cut
<1> HIDE DEF t, blank
<1>9. HeapOK(Heap, C)
  <2>1. \A i \in 1..bigList : {c \in C : ~IsUsed(t.map, c) /\ ListFor(size(t.map, c)) = i}
                                = IF i = ListFor(N) THEN {0} ELSE {}
    BY <1>7
  <2>2. Listed(t, C)
    <3>1. t.free = freeList
      BY <1>6, HeapIsHeap
    <3> QED  BY <1>4, <2>1, <3>1 DEF Listed
  <2>3. t.last \in C
    BY <1>1, <1>6, HeapIsHeap
  <2> QED  BY <1>6, <1>7, <1>8, <2>2, <2>3 DEF HeapOK
<1>10. Paired(t.map, C) /\ InUse(t.map, C) = {}
  <2>1. IsUsed(t.map, N)
    BY <1>8, CutFacts
  <2> QED  BY <1>7, <2>1 DEF Paired, InUse
<1>11. Holding(at, {}) /\ Cardinality(Covered(t.map, {})) = 0
  <2>1. Covered(t.map, {}) = {}
    BY DEF Covered
  <2>2. Holding(at, {})
    BY <1>1 DEF Holding
  <2> QED  BY <2>1, <2>2, FS_EmptySet
<1>12. Sound(Heap, C, combineMode, at, blocksUsed) /\ Walked(Heap, C, freed)
  BY <1>1, <1>6, <1>9, <1>10, <1>11 DEF Sound, Walked
<1> QED  BY <1>1, <1>12 DEF IInv

-----------------------------------------------------------------------------
(* Compacting.                                                             *)

\* The blocks that the chunks U use below c: where c goes.
Under(U, c) == {u \in U : u < c}
Rank(m, U, c) == Cardinality(Covered(m, Under(U, c)))

\* Chunks that fill an interval cover it.
LEMMA TilesCover ==
  ASSUME NEW m, NEW C, NEW e \in 0..N, Tiles(m, C, 0, e)
  PROVE  Covered(m, C) = 0..(e - 1) /\ Cardinality(Covered(m, C)) = e
<1>1. N \in Nat /\ 0 \in 0..N /\ e \in 0..N /\ e \in Nat
  BY Sizeable
<1>0. ASSUME NEW c \in C
      PROVE  /\ next(m, c) = c + size(m, c) /\ c \in Nat /\ size(m, c) \in Nat
             /\ next(m, c) <= e
  <2>1. /\ c \in Blocks /\ next(m, c) \in (c + 1)..e
        /\ next(m, c) = c + size(m, c) /\ size(m, c) \in Nat \ {0}
    BY <1>1, TilesFacts
  <2>2. c \in Nat /\ size(m, c) \in Nat
    BY <1>1, <2>1 DEF Blocks
  <2>3. next(m, c) <= e
    BY <1>1, <2>1, <2>2
  <2> QED  BY <2>1, <2>2, <2>3
<1>2. ASSUME NEW b \in 0..(e - 1) PROVE b \in Covered(m, C)
  <2>1. PICK c \in C : c <= b /\ b < next(m, c)
    BY <1>1, TileOf
  <2>2. next(m, c) = c + size(m, c) /\ c \in Nat /\ size(m, c) \in Nat
    BY <1>0
  <2>3. b \in c..(c + size(m, c) - 1)
    BY <1>1, <2>1, <2>2
  <2> QED  BY <2>3 DEF Covered
<1>3. ASSUME NEW c \in C PROVE c..(c + size(m, c) - 1) \subseteq 0..(e - 1)
  <2>1. /\ next(m, c) = c + size(m, c) /\ c \in Nat /\ size(m, c) \in Nat
        /\ next(m, c) <= e
    BY <1>0
  <2> DEFINE n == size(m, c)
  <2>2. c + n <= e /\ n \in Nat
    BY <2>1
  <2> HIDE DEF n
  <2>3. c..(c + n - 1) \subseteq 0..(e - 1)
    BY <1>1, <2>1, <2>2
  <2> QED  BY <2>3 DEF n
<1>4. Covered(m, C) = 0..(e - 1)
  BY <1>2, <1>3 DEF Covered
<1>5. Cardinality(0..(e - 1)) = e
  <2>1. 0 \in Int /\ e - 1 \in Int
    BY <1>1
  <2>2. Cardinality(0..(e - 1)) = IF 0 > e - 1 THEN 0 ELSE (e - 1) - 0 + 1
    BY <2>1, FS_Interval
  <2> QED  BY <1>1, <2>2
<1> QED  BY <1>4, <1>5

\* Where a chunk goes follows where the one before it goes.
LEMMA RankFacts ==
  ASSUME NEW m, NEW C, Cut(m, C), NEW U, U \subseteq C, NEW c \in C \cup {N}
  PROVE  /\ Rank(m, U, c) \in Nat /\ Rank(m, U, c) <= c
         /\ Under(U, c) \subseteq C
         /\ c \in U => /\ Rank(m, U, next(m, c)) = Rank(m, U, c) + size(m, c)
                       /\ Under(U, next(m, c)) = Under(U, c) \cup {c}
         /\ c \in C \ U => /\ Rank(m, U, next(m, c)) = Rank(m, U, c)
                           /\ Under(U, next(m, c)) = Under(U, c)
<1> DEFINE V == Under(U, c)
<1>1. V \subseteq C /\ V \subseteq U
  BY DEF Under
<1>2. /\ N \in Nat \ {0} /\ c \in Nat /\ C \subseteq Nat /\ c \in 0..N
  BY CutRange
<1>3. \A d \in C : d < c => /\ d \in Nat /\ size(m, d) \in Nat
                            /\ d + size(m, d) <= c
  <2>1. ASSUME NEW d \in C, d < c PROVE d \in Nat /\ size(m, d) \in Nat /\ d + size(m, d) <= c
    <3>1. /\ d \in Nat /\ size(m, d) \in Nat /\ next(m, d) = d + size(m, d)
          /\ next(m, d) <= N /\ next(m, d) \in Nat
          /\ \A z \in C : z <= d \/ next(m, d) <= z
      BY CutFacts
    <3>2. c = N \/ c \in C
      OBVIOUS
    <3> QED  BY <1>2, <2>1, <3>1, <3>2
  <2> QED  BY <2>1
<1>4. Covered(m, V) \subseteq 0..(c - 1)
  <2>1. ASSUME NEW d \in V PROVE d..(d + size(m, d) - 1) \subseteq 0..(c - 1)
    <3>1. d \in Nat /\ size(m, d) \in Nat /\ d + size(m, d) <= c
      BY <1>1, <1>3, <2>1 DEF Under
    <3> DEFINE n == size(m, d)
    <3>2. n \in Nat /\ d + n <= c
      BY <3>1
    <3> HIDE DEF n
    <3>3. d..(d + n - 1) \subseteq 0..(c - 1)
      BY <1>2, <3>1, <3>2
    <3> QED  BY <3>3 DEF n
  <2> HIDE DEF V
  <2> QED  BY <2>1 DEF Covered
<1>5. IsFiniteSet(0..(c - 1)) /\ Cardinality(0..(c - 1)) = c
  <2>1. 0 \in Int /\ c - 1 \in Int
    BY <1>2
  <2>2. IsFiniteSet(0..(c - 1))
        /\ Cardinality(0..(c - 1)) = IF 0 > c - 1 THEN 0 ELSE (c - 1) - 0 + 1
    BY <2>1, FS_Interval
  <2> QED  BY <1>2, <2>2
<1>6. Rank(m, U, c) <= c
  <2> DEFINE A == Covered(m, V)
             B == 0..(c - 1)
  <2>1. A \in SUBSET B /\ IsFiniteSet(B) /\ Cardinality(B) = c
    BY <1>4, <1>5
  <2> HIDE DEF A, B
  <2>2. Cardinality(A) <= Cardinality(B)
    BY <2>1, FS_Subset
  <2> QED  BY <2>1, <2>2 DEF Rank, A
<1>7. Rank(m, U, c) \in Nat
  BY <1>1, CoveredFacts DEF Rank
<1>8. c \in C => /\ next(m, c) \in Nat /\ c < next(m, c)
                 /\ \A d \in C : d <= c \/ next(m, c) <= d
  BY CutFacts
<1>9. ASSUME c \in U PROVE /\ Rank(m, U, next(m, c)) = Rank(m, U, c) + size(m, c)
                           /\ Under(U, next(m, c)) = Under(U, c) \cup {c}
  <2>1. Under(U, next(m, c)) = V \cup {c}
    <3>1. ASSUME NEW u \in U PROVE u < next(m, c) <=> u < c \/ u = c
      BY <1>2, <1>8, <1>9
    <3> QED  BY <1>9, <3>1 DEF Under
  <2>2. c \in C /\ c \notin V
    BY <1>2, <1>9 DEF Under
  <2> HIDE DEF V
  <2>3. Cardinality(Covered(m, V \cup {c})) = Cardinality(Covered(m, V)) + size(m, c)
    BY <1>1, <2>2, CoveredAdds
  <2> QED  BY <2>1, <2>3 DEF Rank, V
<1>10. ASSUME c \in C \ U PROVE Under(U, next(m, c)) = Under(U, c)
  <2>1. ASSUME NEW u \in U PROVE u < next(m, c) <=> u < c
    <3>1. u \in Nat /\ u # c /\ u \in C
      BY <1>2, <1>10
    <3> QED  BY <1>2, <1>8, <1>10, <3>1
  <2> QED  BY <2>1 DEF Under
<1> QED  BY <1>1, <1>6, <1>7, <1>9, <1>10 DEF Rank

\* Chunks below which all are used stay where they are.
LEMMA RankStays ==
  ASSUME NEW m, NEW C, Cut(m, C), NEW c \in C \cup {N},
         \A d \in C : d < c => IsUsed(m, d)
  PROVE  /\ Rank(m, InUse(m, C), c) = c
         /\ Tiles(m, Under(InUse(m, C), c), 0, c)
<1>1. /\ N \in Nat \ {0} /\ c \in Nat /\ C \subseteq Nat /\ 0 \in 0..N /\ N \in 0..N
      /\ c \in 0..N
  BY CutRange
<1>2. Tiles(m, C, 0, N)
  BY CutFacts
<1>3. Tiles(m, C \cap (0..(c - 1)), 0, c)
  BY <1>1, <1>2, TilesPart
<1>4. C \cap (0..(c - 1)) = Under(InUse(m, C), c)
  <2>1. ASSUME NEW u \in C PROVE u \in 0..(c - 1) <=> u < c
    BY <1>1
  <2> QED  BY <2>1 DEF Under, InUse
<1>5. Tiles(m, Under(InUse(m, C), c), 0, c)
  BY <1>3, <1>4
<1> QED  BY <1>1, <1>5, TilesCover DEF Rank

\* Used chunks keep their order.
LEMMA RankOrder ==
  ASSUME NEW m, NEW C, Cut(m, C), NEW U, U \subseteq C, NEW c \in U, NEW d \in C \cup {N}, c < d
  PROVE  Rank(m, U, c) + size(m, c) <= Rank(m, U, d)
<1> DEFINE A == Covered(m, Under(U, next(m, c)))
           B == Covered(m, Under(U, d))
<1>1. /\ N \in Nat \ {0} /\ d \in Nat /\ C \subseteq Nat /\ c \in C
  BY CutRange
<1>2. next(m, c) \in Nat /\ next(m, c) <= d
  BY <1>1, CutFacts
<1>3. Under(U, next(m, c)) \subseteq Under(U, d)
  <2>1. ASSUME NEW u \in U, u < next(m, c) PROVE u < d
    <3>1. u \in Nat
      BY <1>1
    <3> QED  BY <1>1, <1>2, <2>1, <3>1
  <2> QED  BY <2>1 DEF Under
<1>4. A \subseteq B
  BY <1>3 DEF Covered
<1>5. Under(U, d) \subseteq C
  BY DEF Under
<1>6. IsFiniteSet(B)
  BY <1>5, CoveredFacts
<1> HIDE DEF A, B
<1>7. Cardinality(A) <= Cardinality(B)
  BY <1>4, <1>6, FS_Subset
<1>8. Cardinality(A) = Rank(m, U, c) + size(m, c)
  <2>1. Rank(m, U, next(m, c)) = Rank(m, U, c) + size(m, c)
    <3>1. c \in C \cup {N} /\ c \in U
      BY <1>1
    <3> QED  BY <3>1, RankFacts
  <2>2. Cardinality(A) = Rank(m, U, next(m, c))
    BY DEF Rank, A
  <2> QED  BY <2>1, <2>2
<1> QED  BY <1>7, <1>8 DEF Rank, B

\* A map with empty lists.
Cleared(m) == [map |-> m, free |-> [i \in 1..bigList |-> <<>>], last |-> 0]

\* A heap with empty lists.
LEMMA ClearedFacts ==
  ASSUME NEW m \in [(-1)..N -> Byte]
  PROVE  /\ Cleared(m) \in Heaps /\ Cleared(m).map = m /\ Cleared(m).last = 0
         /\ \A i \in 1..bigList : NoDup(Cleared(m).free[i]) /\ Elems(Cleared(m).free[i]) = {}
<1>1. <<>> \in Seq(Blocks) /\ NoDup(<<>>) /\ Elems(<<>>) = {} /\ 0 \in Blocks
  BY Sizeable DEF NoDup, Elems, Blocks
<1> DEFINE ff == [i \in 1..bigList |-> <<>>]
<1>2. ff \in [1..bigList -> Seq(Blocks)]
  <2> HIDE DEF Blocks
  <2> QED  BY <1>1
<1>3. \A i \in 1..bigList : ff[i] = <<>>
  OBVIOUS
<1>4. Cleared(m) = [map |-> m, free |-> ff, last |-> 0]
  BY DEF Cleared
<1> HIDE DEF ff
<1>5. Cleared(m) \in Heaps
  BY <1>1, <1>2, <1>4, HeapIs
<1>6. Cleared(m).free = ff /\ Cleared(m).map = m /\ Cleared(m).last = 0
  BY <1>4
<1> QED  BY <1>1, <1>3, <1>5, <1>6

\* The map w is the map m with a chunk of n blocks marked at c.
MarkedIn(m, w, c, n, s) ==
  /\ w \in [(-1)..N -> Byte] /\ Tiles(w, {c}, c, c + n)
  /\ size(w, c) = n /\ next(w, c) = c + n /\ (IsUsed(w, c) <=> s = used)
  /\ \A b \in (-1)..N : b \notin c..(c + n - 1) => w[b] = m[b]

\* MarkFacts for the map alone.
LEMMA MarkMap ==
  ASSUME NEW m \in [(-1)..N -> Byte], NEW c \in Blocks, NEW n \in 1..(N - c),
         NEW s \in {used, unused}
  PROVE  MarkedIn(m, markSize(m, c, n, s), c, n, s)
<1> DEFINE h == Cleared(m)
           r == Mark(h, c, n, s)
           w == markSize(m, c, n, s)
<1>1. h \in Heaps /\ h.map = m
  BY ClearedFacts
<1> HIDE DEF h
<1>3. r = [map |-> w, free |-> h.free, last |-> h.last]
  BY <1>1, HeapChanged DEF Mark
<1>5. /\ r \in Heaps
      /\ Tiles(r.map, {c}, c, c + n)
      /\ size(r.map, c) = n /\ next(r.map, c) = c + n /\ (IsUsed(r.map, c) <=> s = used)
      /\ \A b \in (-1)..N : b \notin c..(c + n - 1) => r.map[b] = h.map[b]
  BY <1>1, MarkFacts
<1>6. r.map = w /\ r.map \in [(-1)..N -> Byte]
  <2>1. r.map = w
    BY <1>3
  <2> HIDE DEF r
  <2> QED  BY <1>5, <2>1, HeapChanged
<1> HIDE DEF r, w
<1> QED  BY <1>1, <1>5, <1>6 DEF w, MarkedIn

\* Where the chunks V of U go.
Goals(m, U, V) == {Rank(m, U, u) : u \in V}

\* How far the used chunks U of the map m, with chunks C, have been moved.
Slid(m, C, U, s) ==
  LET V == Under(U, s.from) IN
  /\ s.from \in C \cup {N}
  /\ s.free = Rank(m, U, s.from)
  /\ Tiles(s.map, Goals(m, U, V), 0, s.free)
  /\ \A u \in V : IsUsed(s.map, Rank(m, U, u)) /\ size(s.map, Rank(m, U, u)) = size(m, u)
  /\ \A b \in (-1)..N : b = -1 \/ s.from <= b => s.map[b] = m[b]
  /\ \A x \in Objects : s.at[x] = IF at[x] \in V THEN Rank(m, U, at[x]) ELSE at[x]

\* The fields of a state of SlideDown.
LEMMA SlidingState ==
  ASSUME NEW s \in Sliding
  PROVE  /\ s.map \in [(-1)..N -> Byte] /\ s.free \in 0..N /\ s.from \in 0..N
         /\ s.at \in [Objects -> Blocks \cup {Nowhere}]
         /\ \A x : [s EXCEPT !.from = x] =
                     [map |-> s.map, free |-> s.free, from |-> x, at |-> s.at]
BY DEF Sliding

\* A state of SlideDown is made of its fields.
LEMMA SlidingIs ==
  ASSUME NEW m \in [(-1)..N -> Byte], NEW f \in 0..N, NEW g \in 0..N,
         NEW p \in [Objects -> Blocks \cup {Nowhere}]
  PROVE  [map |-> m, free |-> f, from |-> g, at |-> p] \in Sliding
BY DEF Sliding

\* The chunk that is looked at has not been moved.
LEMMA SlidingAt ==
  ASSUME NEW m, NEW C, Cut(m, C), NEW U, NEW s \in Sliding, Slid(m, C, U, s), s.from # N
  PROVE  LET c == s.from IN
         /\ c \in C /\ c \in Blocks
         /\ size(s.map, c) = size(m, c) /\ next(s.map, c) = next(m, c)
         /\ IsUsed(s.map, c) <=> IsUsed(m, c)
<1> DEFINE c == s.from
<1>1. c \in C /\ \A b \in (-1)..N : b = -1 \/ c <= b => s.map[b] = m[b]
  BY DEF Slid
<1> HIDE DEF c
<1>2. /\ c \in Blocks /\ c \in Nat /\ Tile(m, c) /\ next(m, c) <= N /\ next(m, c) \in Nat
      /\ N \in Nat
  BY <1>1, CutFacts, Sizeable
<1>3. \A b \in c..(next(m, c) - 1) : s.map[b] = m[b]
  BY <1>1, <1>2
<1>4. /\ size(s.map, c) = size(m, c) /\ next(s.map, c) = next(m, c)
      /\ IsUsed(s.map, c) <=> IsUsed(m, c)
  BY <1>2, <1>3, TileSame
<1> QED  BY <1>1, <1>2, <1>4 DEF c

\* A free chunk is passed.
LEMMA SlidePast ==
  ASSUME NEW m, NEW C, Cut(m, C), NEW U, U = InUse(m, C), NEW s \in Sliding,
         Slid(m, C, U, s), s.from # N, ~IsUsed(m, s.from)
  PROVE  /\ SlideNext(s) \in Sliding /\ Slid(m, C, U, SlideNext(s))
         /\ SlideNext(s).from > s.from
<1> DEFINE c == s.from
           e == next(m, c)
           r == [map |-> s.map, free |-> s.free, from |-> e, at |-> s.at]
<1>1. /\ c \in C /\ next(s.map, c) = e /\ ~IsUsed(s.map, c)
  BY SlidingAt
<1>2. SlideNext(s) = r
  BY <1>1, SlidingState DEF SlideNext
<1>3. /\ c \in Nat /\ e \in Nat /\ c < e /\ e <= N /\ e \in C \cup {N} /\ N \in Nat
  BY <1>1, CutFacts, Sizeable
<1>4. e \in 0..N
  BY <1>3
<1>5. r \in Sliding
  BY <1>4, SlidingState, SlidingIs
<1>6. c \in C \ U /\ U \subseteq C /\ c \in C \cup {N}
  BY <1>1 DEF InUse
<1>7. Rank(m, U, e) = Rank(m, U, c) /\ Under(U, e) = Under(U, c)
  BY <1>6, RankFacts
<1>8. /\ s.free = Rank(m, U, c)
      /\ Tiles(s.map, Goals(m, U, Under(U, c)), 0, s.free)
      /\ \A u \in Under(U, c) :
           IsUsed(s.map, Rank(m, U, u)) /\ size(s.map, Rank(m, U, u)) = size(m, u)
      /\ \A b \in (-1)..N : b = -1 \/ c <= b => s.map[b] = m[b]
      /\ \A x \in Objects : s.at[x] = IF at[x] \in Under(U, c) THEN Rank(m, U, at[x]) ELSE at[x]
  BY DEF Slid
<1> HIDE DEF c, e
<1>9. \A b \in (-1)..N : b = -1 \/ e <= b => s.map[b] = m[b]
  <2>1. ASSUME NEW b \in (-1)..N, b = -1 \/ e <= b PROVE s.map[b] = m[b]
    <3>1. b = -1 \/ c <= b
      BY <1>3, <2>1
    <3> QED  BY <1>8, <3>1
  <2> QED  BY <2>1
<1>10. Slid(m, C, U, r)
  <2>1. r.map = s.map /\ r.free = s.free /\ r.from = e /\ r.at = s.at
    OBVIOUS
  <2> HIDE DEF r
  <2> QED  BY <1>3, <1>7, <1>8, <1>9, <2>1 DEF Slid
<1> QED  BY <1>2, <1>3, <1>5, <1>10 DEF c

\* A used chunk is moved.
LEMMA SlideMoved ==
  ASSUME NEW m, NEW C, Cut(m, C), NEW U, U = InUse(m, C), NEW s \in Sliding,
         Slid(m, C, U, s), s.from # N, IsUsed(m, s.from)
  PROVE  /\ SlideNext(s) \in Sliding /\ Slid(m, C, U, SlideNext(s))
         /\ SlideNext(s).from > s.from
<1> DEFINE c == s.from
           a == s.free
           n == size(m, c)
           e == next(m, c)
           P == Goals(m, U, Under(U, c))
           Q == {a}
           w == markSize(s.map, a, n, used)
           p == [x \in Objects |-> IF at[x] = c THEN a ELSE s.at[x]]
           r == [map |-> w, free |-> a + n, from |-> e, at |-> p]
<1>1. /\ c \in C /\ size(s.map, c) = n /\ IsUsed(s.map, c)
  BY SlidingAt
<1>2. /\ c \in Nat /\ e \in Nat /\ c < e /\ e <= N /\ e \in C \cup {N} /\ N \in Nat
      /\ e = c + n /\ n \in Nat \ {0}
  BY <1>1, CutFacts, Sizeable
<1>3. SlideNext(s) = r
  <2>1. SlideNext(s) = [map |-> w, free |-> a + n, from |-> c + n, at |-> p]
    BY <1>1 DEF SlideNext, markUsed
  <2> HIDE DEF w, p
  <2> QED  BY <1>2, <2>1
<1>4. c \in U /\ U \subseteq C /\ c \in C \cup {N}
  BY <1>1 DEF InUse
<1>5. /\ Rank(m, U, e) = Rank(m, U, c) + n /\ Under(U, e) = Under(U, c) \cup {c}
      /\ Rank(m, U, c) \in Nat /\ Rank(m, U, c) <= c
  BY <1>4, RankFacts
<1>6. /\ a = Rank(m, U, c)
      /\ Tiles(s.map, P, 0, a)
      /\ \A u \in Under(U, c) :
           IsUsed(s.map, Rank(m, U, u)) /\ size(s.map, Rank(m, U, u)) = size(m, u)
      /\ \A b \in (-1)..N : b = -1 \/ c <= b => s.map[b] = m[b]
      /\ \A x \in Objects : s.at[x] = IF at[x] \in Under(U, c) THEN Rank(m, U, at[x]) ELSE at[x]
  BY DEF Slid
<1>7. /\ s.map \in [(-1)..N -> Byte] /\ s.at \in [Objects -> Blocks \cup {Nowhere}]
  BY SlidingState
<1> HIDE DEF c, a, n, e, w, P, Q, p, r
<1>8. /\ a \in Nat /\ a <= c /\ a + n <= e /\ a + n <= N /\ a \in Blocks /\ n \in 1..(N - a)
      /\ a + n \in 0..N /\ a \in 0..N /\ a + n \in a..N /\ a \in 0..N /\ e \in 0..N
      /\ 0 \in 0..N /\ a \in 0..N
  BY <1>2, <1>5, <1>6 DEF Blocks
<1>9. /\ w \in [(-1)..N -> Byte]
      /\ Tiles(w, Q, a, a + n)
      /\ size(w, a) = n /\ IsUsed(w, a)
      /\ \A b \in (-1)..N : b \notin a..(a + n - 1) => w[b] = s.map[b]
  <2>1. used \in {used, unused}
    OBVIOUS
  <2>2. MarkedIn(s.map, w, a, n, used)
    BY <1>7, <1>8, <2>1, MarkMap DEF w
  <2> QED  BY <2>2 DEF MarkedIn, Q
<1>10. /\ Tiles(w, P, 0, a)
       /\ \A d \in P : size(w, d) = size(s.map, d) /\ (IsUsed(w, d) <=> IsUsed(s.map, d))
  <2>1. \A b \in 0..(a - 1) : w[b] = s.map[b]
    BY <1>2, <1>8, <1>9
  <2> QED  BY <1>6, <1>8, <2>1, TilesSame
<1>11. Tiles(w, P \cup Q, 0, a + n)
  BY <1>8, <1>9, <1>10, TilesJoin
<1>12. P \cup Q = Goals(m, U, Under(U, e))
  BY <1>5, <1>6 DEF P, Q, Goals
<1>13. \A u \in Under(U, e) :
         IsUsed(w, Rank(m, U, u)) /\ size(w, Rank(m, U, u)) = size(m, u)
  <2>1. ASSUME NEW u \in Under(U, c)
        PROVE  IsUsed(w, Rank(m, U, u)) /\ size(w, Rank(m, U, u)) = size(m, u)
    <3>1. Rank(m, U, u) \in P
      BY DEF P, Goals
    <3> QED  BY <1>6, <1>10, <3>1
  <2>2. IsUsed(w, Rank(m, U, c)) /\ size(w, Rank(m, U, c)) = size(m, c)
    BY <1>6, <1>9 DEF n
  <2> QED  BY <1>5, <2>1, <2>2
<1>14. \A b \in (-1)..N : b = -1 \/ e <= b => w[b] = m[b]
  <2>1. ASSUME NEW b \in (-1)..N, b = -1 \/ e <= b PROVE w[b] = m[b]
    <3>1. b \notin a..(a + n - 1) /\ (b = -1 \/ c <= b)
      BY <1>2, <1>8, <2>1
    <3> QED  BY <1>6, <1>9, <3>1
  <2> QED  BY <2>1
<1>15. \A x \in Objects : p[x] = IF at[x] \in Under(U, e) THEN Rank(m, U, at[x]) ELSE at[x]
  <2>1. c \notin Under(U, c)
    BY <1>2 DEF Under
  <2>2. ASSUME NEW x \in Objects
        PROVE  p[x] = IF at[x] \in Under(U, e) THEN Rank(m, U, at[x]) ELSE at[x]
    <3>1. p[x] = IF at[x] = c THEN a ELSE s.at[x]
      BY DEF p
    <3> QED  BY <1>5, <1>6, <2>1, <3>1
  <2> QED  BY <2>2
<1>16. p \in [Objects -> Blocks \cup {Nowhere}]
  <2>1. \A x \in Objects : s.at[x] \in Blocks \cup {Nowhere}
    BY <1>7
  <2> QED  BY <1>8, <2>1 DEF p
<1>17. r \in Sliding
  BY <1>8, <1>9, <1>16, SlidingIs DEF r
<1>18. Slid(m, C, U, r)
  <2>1. r.map = w /\ r.free = a + n /\ r.from = e /\ r.at = p
    BY DEF r
  <2>2. r.free = Rank(m, U, e)
    BY <1>5, <1>6, <2>1
  <2> QED  BY <1>2, <1>11, <1>12, <1>13, <1>14, <1>15, <2>1, <2>2 DEF Slid
<1>19. r.from > s.from
  BY <1>2 DEF r, c
<1> QED  BY <1>3, <1>17, <1>18, <1>19

\* Where the sliding starts: at the first free chunk.
LEMMA SlidingStart ==
  ASSUME NEW C, Cut(heapMap, C), Holding(at, InUse(heapMap, C)),
         NEW z \in C, ~IsUsed(heapMap, z)
  PROVE  LET first == Onward(heapMap, 0, DOMAIN heapMap \ UsedIn(heapMap))
             s == [map |-> heapMap, free |-> first, from |-> first, at |-> at]
         IN  s \in Sliding /\ Slid(heapMap, C, InUse(heapMap, C), s)
<1> DEFINE m == heapMap
           U == InUse(m, C)
           goal == DOMAIN m \ UsedIn(m)
           first == Onward(m, 0, goal)
           s == [map |-> m, free |-> first, from |-> first, at |-> at]
<1> HIDE DEF goal
<1>1. /\ 0 \in C \cup {N} /\ z \in C \cup {N} /\ 0 <= z /\ z \in goal
      /\ DOMAIN m = (-1)..N /\ m \in [(-1)..N -> Byte] /\ C \subseteq (-1)..N
  BY CutFacts, CutRange DEF UsedIn, goal
<1>2. /\ first \in C \cup {N} /\ first <= z
      /\ \A y \in C : 0 <= y /\ y < first => y \notin goal
  BY <1>1, OnwardFacts
<1> HIDE DEF first
<1>3. \A y \in C : y < first => IsUsed(m, y)
  <2>1. ASSUME NEW y \in C, y < first PROVE IsUsed(m, y)
    <3>1. y \in (-1)..N /\ 0 <= y
      BY CutRange
    <3> QED  BY <1>1, <1>2, <2>1, <3>1 DEF goal, UsedIn
  <2> QED  BY <2>1
<1>4. Rank(m, U, first) = first /\ Tiles(m, Under(U, first), 0, first)
  BY <1>2, <1>3, RankStays
<1>5. /\ N \in Nat /\ C \subseteq Nat /\ first \in 0..N /\ first \in Nat
  BY <1>2, CutRange
<1>6. \A u \in Under(U, first) : Rank(m, U, u) = u /\ IsUsed(m, u)
  <2>1. ASSUME NEW u \in Under(U, first) PROVE Rank(m, U, u) = u /\ IsUsed(m, u)
    <3>1. u \in C /\ u < first /\ IsUsed(m, u)
      BY DEF Under, InUse
    <3>2. \A y \in C : y < u => IsUsed(m, y)
      <4>1. ASSUME NEW y \in C, y < u PROVE y < first
        <5>1. y \in Nat /\ u \in Nat
          BY <1>5, <3>1
        <5> QED  BY <1>5, <3>1, <4>1, <5>1
      <4> QED  BY <1>3, <4>1
    <3>3. u \in C \cup {N}
      BY <3>1
    <3> QED  BY <3>1, <3>2, <3>3, RankStays
  <2> QED  BY <2>1
<1>7. Goals(m, U, Under(U, first)) = Under(U, first)
  BY <1>6 DEF Goals
<1>8. at \in [Objects -> Blocks \cup {Nowhere}]
  BY DEF Holding
<1>9. s \in Sliding
  BY <1>1, <1>5, <1>8, SlidingIs
<1>10. Slid(m, C, U, s)
  <2>1. s.map = m /\ s.free = first /\ s.from = first /\ s.at = at
    OBVIOUS
  <2> HIDE DEF s, U
  <2> QED  BY <1>2, <1>4, <1>6, <1>7, <2>1 DEF Slid
<1> QED  BY <1>9, <1>10 DEF first, goal

\* All the used chunks are moved.
LEMMA SlideDownFacts ==
  ASSUME NEW C, Cut(heapMap, C), Holding(at, InUse(heapMap, C)),
         NEW z \in C, ~IsUsed(heapMap, z)
  PROVE  /\ SlideDown \in Sliding /\ SlideDown.from = N
         /\ Slid(heapMap, C, InUse(heapMap, C), SlideDown)
<1> DEFINE m == heapMap
           U == InUse(m, C)
           stop == {s \in Sliding : s.from = heapEnd \/ SlideNext(s) \notin Sliding}
           step == [s \in Sliding |-> SlideNext(s)]
           out == [s \in Sliding |-> s]
           f == CHOOSE f : f = [s \in Sliding |->
                  IF s.from = heapEnd \/ SlideNext(s) \notin Sliding
                  THEN s ELSE f[SlideNext(s)]]
           I == {s \in Sliding : Slid(m, C, U, s)}
           todo == [s \in Sliding |-> N - s.from]
           first == Onward(m, 0, DOMAIN m \ UsedIn(m))
           start == [map |-> m, free |-> first, from |-> first, at |-> at]
<1>1. Goes(Sliding, stop, step)
  BY DEF Goes
<1>2. IsLoop(f, Sliding, stop, step, out)
  <2>1. PICK g : IsLoop(g, Sliding, stop, step, out)
    BY <1>1, LoopExists
  <2>2. g = [s \in Sliding |-> IF s.from = heapEnd \/ SlideNext(s) \notin Sliding
                               THEN s ELSE g[SlideNext(s)]]
    BY <2>1 DEF IsLoop
  <2>3. f = [s \in Sliding |-> IF s.from = heapEnd \/ SlideNext(s) \notin Sliding
                               THEN s ELSE f[SlideNext(s)]]
    BY <2>2
  <2> QED  BY <2>3 DEF IsLoop
<1>3. SlideDown = f[start]
  BY DEF SlideDown
<1>4. ASSUME NEW s \in I, s.from # heapEnd
      PROVE  SlideNext(s) \in I /\ SlideNext(s).from > s.from
  <2>1. s \in Sliding /\ s.from # N /\ Slid(m, C, U, s)
    BY <1>4 DEF heapEnd
  <2>2. CASE IsUsed(m, s.from)
    BY <2>1, <2>2, SlideMoved
  <2>3. CASE ~IsUsed(m, s.from)
    BY <2>1, <2>3, SlidePast
  <2> QED  BY <2>2, <2>3
<1>5. start \in I
  BY SlidingStart
<1>6. Keeps(I, stop, step) /\ \A s \in I \ stop : todo[step[s]] < todo[s]
  <2>1. ASSUME NEW s \in I \ stop PROVE step[s] \in I /\ todo[step[s]] < todo[s]
    <3>1. s \in Sliding /\ SlideNext(s) \in I /\ SlideNext(s) \in Sliding
          /\ SlideNext(s).from > s.from
      BY <1>4, <2>1
    <3>2. step[s] = SlideNext(s)
      BY <3>1
    <3>3. /\ todo[s] = N - s.from /\ todo[SlideNext(s)] = N - SlideNext(s).from
          /\ s.from \in 0..N /\ SlideNext(s).from \in 0..N
      BY <3>1, SlidingState
    <3> HIDE DEF step, todo, I
    <3> QED  BY <3>1, <3>2, <3>3, Sizeable
  <2> QED  BY <2>1 DEF Keeps
<1>7. todo \in [Sliding -> Nat] /\ I \in SUBSET Sliding
  <2>1. \A s \in Sliding : N - s.from \in Nat
    BY SlidingState, Sizeable
  <2> QED  BY <2>1
<1> HIDE DEF f, I, todo, step, out, stop, start
<1>8. PICK t \in I \cap stop : f[start] = out[t]
  <2>1. Ending(f, Sliding, stop, step, out, todo, I)
    BY <1>1, <1>2, <1>6, <1>7 DEF Ending
  <2> QED  BY <1>5, <2>1, LoopEnds
<1>9. f[start] = t /\ t \in I /\ t \in Sliding /\ t \in stop
  BY <1>7, <1>8 DEF out
<1>10. t.from = heapEnd
  <2>1. t.from # heapEnd => SlideNext(t) \in Sliding
    BY <1>4, <1>9 DEF I
  <2> QED  BY <1>9, <2>1 DEF stop
<1> QED  BY <1>3, <1>9, <1>10 DEF I, heapEnd

\* There is a free chunk if not all blocks are in use.
LEMMA SomeFree ==
  ASSUME NEW m, NEW C, Cut(m, C), Cardinality(Covered(m, InUse(m, C))) # N
  PROVE  \E z \in C : ~IsUsed(m, z)
<1>1. SUFFICES ASSUME \A z \in C : IsUsed(m, z) PROVE FALSE
  OBVIOUS
<1>2. InUse(m, C) = C
  BY <1>1 DEF InUse
<1>3. Tiles(m, C, 0, N) /\ N \in 0..N
  BY CutFacts
<1>4. Cardinality(Covered(m, C)) = N
  BY <1>3, TilesCover
<1> QED  BY <1>2, <1>4

\* Objects that are moved with their chunks are held apart.
LEMMA HoldingMoved ==
  ASSUME NEW m, NEW C, Cut(m, C), NEW U, U \subseteq C, NEW p, Holding(p, U),
         NEW q \in [Objects -> Blocks \cup {Nowhere}], Goals(m, U, U) \subseteq Blocks,
         \A x \in Objects : q[x] = IF p[x] \in U THEN Rank(m, U, p[x]) ELSE p[x]
  PROVE  /\ Holding(q, Goals(m, U, U))
         /\ \A x \in Objects : q[x] = IF p[x] = Nowhere THEN Nowhere ELSE Rank(m, U, p[x])
<1>1. Nowhere \notin Blocks
  BY ZoneHeapAssumption DEF Blocks
<1>2. /\ \A x, y \in Objects : p[x] = p[y] /\ p[x] # Nowhere => x = y
      /\ U = {p[x] : x \in Objects} \ {Nowhere}
  BY DEF Holding
<1>3. \A x \in Objects : p[x] \in U <=> p[x] # Nowhere
  BY <1>2
<1>4. \A x \in Objects : q[x] = IF p[x] = Nowhere THEN Nowhere ELSE Rank(m, U, p[x])
  BY <1>2, <1>3
<1>5. ASSUME NEW u \in U, NEW v \in U, Rank(m, U, u) = Rank(m, U, v), u < v
      PROVE FALSE
  <2>1. v \in C \cup {N} /\ u \in C \cup {N} /\ u \in C
    OBVIOUS
  <2>2. Rank(m, U, u) + size(m, u) <= Rank(m, U, v)
    BY <1>5, <2>1, RankOrder
  <2>3. size(m, u) \in Nat \ {0}
    BY <2>1, CutFacts
  <2>4. Rank(m, U, u) \in Nat
    BY <2>1, RankFacts
  <2> QED  BY <1>5, <2>2, <2>3, <2>4
<1>6. ASSUME NEW u \in U, NEW v \in U, Rank(m, U, u) = Rank(m, U, v)
      PROVE u = v
  <2>1. u \in Nat /\ v \in Nat
    BY CutRange
  <2>2. u < v \/ v < u \/ u = v
    BY <2>1
  <2> QED  BY <1>5, <1>6, <2>2
<1>7. ASSUME NEW x \in Objects, NEW y \in Objects, q[x] = q[y], q[x] # Nowhere
      PROVE x = y
  <2>1. p[x] # Nowhere /\ p[y] # Nowhere
    BY <1>4, <1>7
  <2>2. p[x] \in U /\ p[y] \in U /\ Rank(m, U, p[x]) = Rank(m, U, p[y])
    BY <1>3, <1>4, <1>7, <2>1
  <2>3. p[x] = p[y]
    BY <1>6, <2>2
  <2> QED  BY <1>2, <2>1, <2>3
<1>8. Goals(m, U, U) = {q[x] : x \in Objects} \ {Nowhere}
  <2>1. ASSUME NEW g \in Goals(m, U, U) PROVE g \in {q[x] : x \in Objects} \ {Nowhere}
    <3>1. PICK u \in U : g = Rank(m, U, u)
      BY DEF Goals
    <3>2. PICK x \in Objects : p[x] = u
      BY <1>2
    <3>3. g = q[x] /\ g # Nowhere
      BY <1>1, <1>3, <1>4, <3>1, <3>2
    <3> QED  BY <3>3
  <2>2. ASSUME NEW x \in Objects, q[x] # Nowhere PROVE q[x] \in Goals(m, U, U)
    <3>1. p[x] \in U /\ q[x] = Rank(m, U, p[x])
      BY <1>3, <1>4, <2>2
    <3> QED  BY <3>1 DEF Goals
  <2> QED  BY <2>1, <2>2
<1> QED  BY <1>4, <1>7, <1>8 DEF Holding

\* A map that has used chunks P up to a, and a free one from there on.
LEMMA Compacted ==
  ASSUME NEW m \in [(-1)..N -> Byte], m[-1] = used, m[N] = used,
         NEW P, NEW a \in Blocks, Tiles(m, P, 0, a), \A c \in P : IsUsed(m, c)
  PROVE  LET w == markUnused(m, a, N - a)
             r == addToFreeList(Cleared(w), a)
         IN  /\ HeapOK(r, P \cup {a}) /\ r.map = w
             /\ Paired(w, P \cup {a}) /\ AllLone(w, P \cup {a}) /\ InUse(w, P \cup {a}) = P
             /\ \A c \in P : size(w, c) = size(m, c)
             /\ Cardinality(Covered(w, P)) = a
<1> DEFINE n == N - a
           w == markUnused(m, a, n)
           h == Cleared(w)
           r == addToFreeList(h, a)
           D == P \cup {a}
<1>1. /\ N \in Nat \ {0} /\ a \in Nat /\ a < N /\ n \in 1..N /\ n \in 1..(N - a) /\ a + n = N
      /\ a \in 0..N /\ 0 \in 0..N /\ N \in 0..N /\ N \in a..N /\ a + n - 1 = N - 1
  BY Sizeable DEF Blocks
<1>2. MarkedIn(m, w, a, n, unused) /\ unused # used
  <2>1. unused \in {used, unused} /\ unused # used
    BY Bytes
  <2> HIDE DEF n
  <2> QED  BY <1>1, <2>1, MarkMap DEF markUnused
<1> HIDE DEF n, w
<1>3. /\ w \in [(-1)..N -> Byte] /\ Tiles(w, {a}, a, N)
      /\ size(w, a) = n /\ next(w, a) = N /\ ~IsUsed(w, a)
      /\ \A b \in (-1)..N : b \notin a..(N - 1) => w[b] = m[b]
  BY <1>1, <1>2 DEF MarkedIn
<1>4. /\ Tiles(w, P, 0, a)
      /\ \A c \in P : size(w, c) = size(m, c) /\ IsUsed(w, c)
  <2>1. \A b \in 0..(a - 1) : w[b] = m[b]
    BY <1>1, <1>3
  <2> QED  BY <1>1, <2>1, TilesSame
<1>5. Cut(w, D)
  <2>1. Tiles(w, P \cup {a}, 0, N)
    BY <1>1, <1>3, <1>4, TilesJoin
  <2>2. w[-1] = used /\ w[N] = used
    <3>1. -1 \in (-1)..N /\ N \in (-1)..N /\ -1 \notin a..(N - 1) /\ N \notin a..(N - 1)
      BY <1>1
    <3> QED  BY <1>3, <3>1
  <2> QED  BY <1>3, <2>1, <2>2 DEF Cut
<1>6. InUse(w, D) = P
  BY <1>3, <1>4 DEF InUse
<1>7. IsUsed(w, N) /\ 0 \in D
  BY <1>5, CutFacts
<1>8. /\ h \in Heaps /\ h.map = w /\ h.last = 0
      /\ \A i \in 1..bigList : NoDup(h.free[i]) /\ Elems(h.free[i]) = {}
  BY <1>3, ClearedFacts
<1> HIDE DEF h
<1>9. /\ r \in Heaps /\ r.map = w /\ r.last = 0
      /\ \A i \in 1..bigList :
           /\ Elems(r.free[i]) = IF i = ListFor(n) THEN Elems(h.free[i]) \cup {a}
                                 ELSE Elems(h.free[i])
           /\ NoDup(h.free[i]) => NoDup(r.free[i])
  <2>1. size(h.map, a) = n /\ n \in 1..N
    BY <1>1, <1>3, <1>8
  <2>2. a \notin Elems(h.free[ListFor(n)])
    <3>1. ListFor(n) \in 1..bigList
      BY <2>1, ListFacts
    <3> QED  BY <1>8, <3>1
  <2> HIDE DEF r
  <2>3. r = addToFreeList(h, a)
    BY DEF r
  <2> QED  BY <1>8, <2>1, <2>2, <2>3, AddFacts
<1> HIDE DEF r
<1>10. Listed(r, D)
  <2>1. ASSUME NEW i \in 1..bigList
        PROVE  /\ NoDup(r.free[i])
               /\ Elems(r.free[i]) = {c \in D : ~IsUsed(w, c) /\ ListFor(size(w, c)) = i}
    <3>1. NoDup(r.free[i]) /\ Elems(r.free[i]) = IF i = ListFor(n) THEN {a} ELSE {}
      BY <1>8, <1>9
    <3>2. \A c \in D : ~IsUsed(w, c) <=> c = a
      BY <1>3, <1>4
    <3> QED  BY <1>3, <3>1, <3>2
  <2> QED  BY <1>9, <2>1 DEF Listed
<1>11. HeapOK(r, D)
  BY <1>5, <1>7, <1>9, <1>10 DEF HeapOK
<1>12. Paired(w, D)
  BY <1>3, <1>4, <1>7 DEF Paired
<1>13. AllLone(w, D)
  <2>1. a = 0 \/ IsUsed(w, prev(w, a))
    <3>1. SUFFICES ASSUME a # 0 PROVE IsUsed(w, prev(w, a))
      OBVIOUS
    <3>2. a \in D \cup {N}
      OBVIOUS
    <3>3. prev(w, a) \in D /\ prev(w, a) < a
      BY <1>5, <3>1, <3>2, Previous
    <3>4. prev(w, a) # a
      BY <1>1, <3>3
    <3> QED  BY <1>4, <3>3, <3>4
  <2>2. \A c \in D : ~IsUsed(w, c) => c = a
    BY <1>4
  <2> QED  BY <1>3, <1>7, <2>1, <2>2 DEF AllLone, Lone
<1>14. Cardinality(Covered(w, P)) = a
  BY <1>1, <1>4, TilesCover
<1> QED  BY <1>4, <1>6, <1>9, <1>11, <1>12, <1>13, <1>14 DEF r, h, w, n

\* compact moves each used chunk to the number of blocks used below it.
LEMMA CompactFacts ==
  ASSUME NEW C, Sound(Heap, C, combineMode, at, blocksUsed), combineMode \in BOOLEAN,
         compact
  PROVE  LET U == InUse(heapMap, C) IN
         \E D :
           /\ Sound(Heap', D, combineMode', at', blocksUsed')
           /\ freed' = Nowhere /\ combineMode' \in BOOLEAN /\ full' = FALSE
           /\ blocksUsed' = blocksUsed
           /\ InUse(heapMap', D) = Goals(heapMap, U, U)
           /\ \A u \in U : size(heapMap', Rank(heapMap, U, u)) = size(heapMap, u)
           /\ \A x \in Objects :
                at'[x] = IF at[x] = Nowhere THEN Nowhere ELSE Rank(heapMap, U, at[x])
<1> DEFINE m == heapMap
           U == InUse(m, C)
           k == SlideDown
           a == k.free
           w == markUnused(k.map, a, N - a)
           r == addToFreeList(Cleared(w), a)
           P == Goals(m, U, U)
           D == P \cup {a}
<1>1. /\ HeapOK(Heap, C) /\ Holding(at, U) /\ blocksUsed = Cardinality(Covered(m, U))
      /\ Cut(m, C)
  BY HeapFacts, HeapIsHeap DEF Sound
<1>2. /\ blocksUsed # N
      /\ Becomes(r)
      /\ at' = k.at
      /\ freed' = Nowhere /\ full' = FALSE
      /\ combineMode' = combineMode /\ blocksUsed' = blocksUsed
  BY DEF compact, Cleared
<1>3. PICK z \in C : ~IsUsed(m, z)
  BY <1>1, <1>2, SomeFree
<1>4. k \in Sliding /\ k.from = N /\ Slid(m, C, U, k)
  BY <1>1, <1>3, SlideDownFacts
<1> HIDE DEF k, U
<1>5. /\ N \in Nat \ {0} /\ U \subseteq C /\ N \in C \cup {N} /\ C \subseteq Nat
      /\ \A c \in C : c < N
  BY <1>1, CutRange DEF U, InUse
<1>6. Under(U, N) = U
  BY <1>5 DEF Under
<1>7. /\ a = Rank(m, U, N)
      /\ Tiles(k.map, P, 0, a)
      /\ \A u \in U : IsUsed(k.map, Rank(m, U, u)) /\ size(k.map, Rank(m, U, u)) = size(m, u)
      /\ \A b \in (-1)..N : b = -1 \/ N <= b => k.map[b] = m[b]
      /\ \A x \in Objects : k.at[x] = IF at[x] \in U THEN Rank(m, U, at[x]) ELSE at[x]
  BY <1>4, <1>6 DEF Slid
<1>8. k.map \in [(-1)..N -> Byte] /\ k.at \in [Objects -> Blocks \cup {Nowhere}]
  BY <1>4, SlidingState
<1>9. a = blocksUsed /\ a \in Nat /\ a <= N
  <2>1. a = Cardinality(Covered(m, U))
    BY <1>6, <1>7 DEF Rank
  <2>2. Rank(m, U, N) \in Nat /\ Rank(m, U, N) <= N
    BY <1>1, <1>5, RankFacts
  <2> QED  BY <1>1, <1>7, <2>1, <2>2
<1>10. a \in Blocks
  BY <1>2, <1>5, <1>9 DEF Blocks
<1>11. k.map[-1] = used /\ k.map[N] = used
  <2>1. m[-1] = used /\ m[N] = used
    BY <1>1 DEF Cut
  <2>2. -1 \in (-1)..N /\ N \in (-1)..N /\ N <= N
    BY <1>5
  <2> QED  BY <1>7, <2>1, <2>2
<1>12. \A c \in P : IsUsed(k.map, c)
  BY <1>7 DEF Goals
<1>13. /\ HeapOK(r, D) /\ r.map = w
       /\ Paired(w, D) /\ AllLone(w, D) /\ InUse(w, D) = P
       /\ \A c \in P : size(w, c) = size(k.map, c)
       /\ Cardinality(Covered(w, P)) = a
  <2> DEFINE km == k.map
  <2> HIDE DEF km, a, P
  <2>1. /\ km \in [(-1)..N -> Byte] /\ km[-1] = used /\ km[N] = used
        /\ a \in Blocks /\ Tiles(km, P, 0, a) /\ \A c \in P : IsUsed(km, c)
    BY <1>7, <1>8, <1>10, <1>11, <1>12 DEF km
  <2> DEFINE v == markUnused(km, a, N - a)
             q == addToFreeList(Cleared(v), a)
  <2>2. /\ HeapOK(q, P \cup {a}) /\ q.map = v
        /\ Paired(v, P \cup {a}) /\ AllLone(v, P \cup {a}) /\ InUse(v, P \cup {a}) = P
        /\ \A c \in P : size(v, c) = size(km, c)
        /\ Cardinality(Covered(v, P)) = a
    BY <2>1, Compacted
  <2>3. v = w /\ q = r
    BY DEF km
  <2> HIDE DEF v, q, w, r
  <2> QED  BY <2>2, <2>3 DEF km
<1> HIDE DEF r, w, a, P
<1>14. Heap' = r /\ heapMap' = w
  <2>1. r \in Heaps
    BY <1>13, HeapFacts
  <2> QED  BY <1>2, <1>13, <2>1, HeapIsHeap
<1>15. /\ Holding(at', P)
       /\ \A x \in Objects : at'[x] = IF at[x] = Nowhere THEN Nowhere ELSE Rank(m, U, at[x])
  <2>1. Goals(m, U, U) \subseteq Blocks
    <3>1. P \subseteq D /\ Cut(w, D)
      BY <1>13, HeapFacts
    <3>2. D \subseteq 0..(N - 1)
      BY <3>1, CutRange
    <3> QED  BY <3>1, <3>2 DEF P, Blocks
  <2> DEFINE q == k.at
  <2>2. /\ q \in [Objects -> Blocks \cup {Nowhere}]
        /\ \A x \in Objects : q[x] = IF at[x] \in U THEN Rank(m, U, at[x]) ELSE at[x]
    BY <1>7, <1>8
  <2> HIDE DEF q
  <2>3. /\ Holding(q, Goals(m, U, U))
        /\ \A x \in Objects : q[x] = IF at[x] = Nowhere THEN Nowhere ELSE Rank(m, U, at[x])
    BY <1>1, <1>5, <2>1, <2>2, HoldingMoved
  <2>4. at' = q
    BY <1>2 DEF q
  <2> QED  BY <2>3, <2>4 DEF P
<1>16. \A u \in U : size(w, Rank(m, U, u)) = size(m, u)
  <2>1. ASSUME NEW u \in U PROVE size(w, Rank(m, U, u)) = size(m, u)
    <3>1. Rank(m, U, u) \in P
      BY DEF P, Goals
    <3> QED  BY <1>7, <1>13, <3>1
  <2> QED  BY <2>1
<1>17. Sound(Heap', D, combineMode', at', blocksUsed')
  BY <1>2, <1>9, <1>13, <1>14, <1>15 DEF Sound
<1> QED  BY <1>2, <1>13, <1>14, <1>15, <1>16, <1>17 DEF P, U

-----------------------------------------------------------------------------
(* The invariants.                                                         *)

\* IInv is inductive: every operation keeps it.
LEMMA NextFacts ==
  ASSUME IInv, [Next]_vars
  PROVE  IInv'
<1>1. PICK C : Sound(Heap, C, combineMode, at, blocksUsed) /\ Walked(Heap, C, freed)
  BY DEF IInv
<1>2. combineMode \in BOOLEAN /\ full \in BOOLEAN
  BY DEF IInv
<1>3. ASSUME NEW D, Sound(Heap', D, combineMode', at', blocksUsed'), Walked(Heap', D, freed'),
             combineMode' \in BOOLEAN, full' \in BOOLEAN
      PROVE  IInv'
  BY <1>3 DEF IInv
<1>4. ASSUME NEW x \in Objects, deallocate(x) PROVE IInv'
  BY <1>1, <1>2, <1>3, <1>4, DeallocateFacts
<1>5. ASSUME NEW x \in Objects, NEW n \in Sizes, allocate(x, n) PROVE IInv'
  <2>1. PICK D : /\ Sound(Heap', D, combineMode', at', blocksUsed')
                 /\ freed' = Nowhere /\ combineMode' \in BOOLEAN
    BY <1>1, <1>2, <1>5, AllocateFacts
  <2>2. full' \in BOOLEAN
    BY <1>5 DEF allocate
  <2> QED  BY <1>3, <2>1, <2>2 DEF Walked
<1>6. ASSUME compact PROVE IInv'
  <2>1. PICK D : /\ Sound(Heap', D, combineMode', at', blocksUsed')
                 /\ freed' = Nowhere /\ combineMode' \in BOOLEAN /\ full' = FALSE
    BY <1>1, <1>2, <1>6, CompactFacts
  <2> QED  BY <1>3, <2>1 DEF Walked
<1>7. ASSUME nonCombiningMode PROVE IInv'
  <2>1. /\ Heap' = Heap /\ blocksUsed' = blocksUsed /\ at' = at /\ combineMode' = FALSE
        /\ freed' = Nowhere /\ full' = FALSE
    BY <1>7 DEF nonCombiningMode, Heap
  <2>2. Sound(Heap', C, combineMode', at', blocksUsed')
    BY <1>1, <2>1 DEF Sound
  <2> QED  BY <1>3, <2>1, <2>2 DEF Walked
<1>8. ASSUME UNCHANGED vars PROVE IInv'
  BY <1>1, <1>2, <1>3, <1>8 DEF vars, Heap
<1> QED  BY <1>4, <1>5, <1>6, <1>7, <1>8 DEF Next

\* The used chunks are those of the objects, and have blocks.
LEMMA IInvFacts ==
  ASSUME IInv
  PROVE  \E C : /\ Sound(Heap, C, combineMode, at, blocksUsed) /\ Walked(Heap, C, freed)
                /\ combineMode \in BOOLEAN
                /\ HeapOK(Heap, C) /\ Cut(heapMap, C)
                /\ Chunks = C /\ Used = InUse(heapMap, C)
                /\ blocksUsed = 0 => Used = {}
<1>1. PICK C : Sound(Heap, C, combineMode, at, blocksUsed) /\ Walked(Heap, C, freed)
  BY DEF IInv
<1>2. /\ HeapOK(Heap, C) /\ Cut(heapMap, C) /\ Holding(at, InUse(heapMap, C))
      /\ blocksUsed = Cardinality(Covered(heapMap, InUse(heapMap, C)))
  BY <1>1, HeapFacts, HeapIsHeap DEF Sound
<1>3. Chunks = C
  BY <1>2, AllChunks DEF Chunks
<1>4. Used = InUse(heapMap, C)
  BY <1>2 DEF Holding, Used
<1>5. ASSUME blocksUsed = 0, NEW c \in InUse(heapMap, C) PROVE FALSE
  <2> DEFINE A == Covered(heapMap, InUse(heapMap, C))
  <2>1. InUse(heapMap, C) \subseteq C /\ c \in C
    BY DEF InUse
  <2>2. IsFiniteSet(A)
    BY <1>2, <2>1, CoveredFacts
  <2>3. c \in Nat /\ size(heapMap, c) \in Nat \ {0}
    BY <1>2, <2>1, CutFacts
  <2>4. c \in c..(c + size(heapMap, c) - 1)
    BY <2>3
  <2>5. c \in A
    BY <2>4 DEF Covered
  <2> HIDE DEF A
  <2>6. A = {}
    <3>1. Cardinality(A) = 0
      BY <1>2, <1>5 DEF A
    <3> QED  BY <2>2, <3>1, FS_EmptySet
  <2> QED  BY <2>5, <2>6
<1> QED  BY <1>1, <1>2, <1>3, <1>4, <1>5 DEF IInv

\* IInv implies MapAgrees: C is what walking the map finds.
LEMMA InvMapAgrees ==
  ASSUME IInv
  PROVE  MapAgrees
<1>1. PICK C : HeapOK(Heap, C) /\ Cut(heapMap, C) /\ Chunks = C /\ Used = InUse(heapMap, C)
  BY IInvFacts
<1>2. ASSUME NEW c \in C PROVE isValid(heapMap, c) /\ prev(heapMap, next(heapMap, c)) = c
  <2>1. c \in Blocks /\ Tile(heapMap, c)
    BY <1>1, CutFacts
  <2> QED  BY <2>1, TileFacts
<1>3. {c \in C : IsUsed(heapMap, c)} = Used
  BY <1>1 DEF InUse
<1>4. /\ Heap.map = heapMap /\ Heap.free = freeList /\ Heap.last = lastCombine
      /\ Heap.last \in C
      /\ \A i \in 1..bigList :
           /\ NoDup(Heap.free[i])
           /\ Elems(Heap.free[i]) =
                {c \in C : ~IsUsed(Heap.map, c) /\ ListFor(size(Heap.map, c)) = i}
  BY <1>1, HeapFacts, HeapIsHeap
<1>5. ASSUME NEW i \in 1..bigList
      PROVE  /\ IsInjective(freeList[i])
             /\ Range(freeList[i]) = {c \in C \ Used : ListFor(size(heapMap, c)) = i}
  <2>1. NoDup(freeList[i])
        /\ Elems(freeList[i]) = {c \in C : ~IsUsed(heapMap, c) /\ ListFor(size(heapMap, c)) = i}
    BY <1>4
  <2>2. IsInjective(freeList[i])
    BY <2>1 DEF NoDup, IsInjective
  <2>3. Range(freeList[i]) = Elems(freeList[i])
    BY DEF Range, Elems
  <2>4. {c \in C : ~IsUsed(heapMap, c) /\ ListFor(size(heapMap, c)) = i}
          = {c \in C \ Used : ListFor(size(heapMap, c)) = i}
    BY <1>3
  <2> QED  BY <2>1, <2>2, <2>3, <2>4
<1> QED  BY <1>1, <1>2, <1>3, <1>4, <1>5 DEF MapAgrees

\* IInv implies Combined.
LEMMA InvCombined ==
  ASSUME IInv
  PROVE  Combined
<1>1. PICK C : /\ Sound(Heap, C, combineMode, at, blocksUsed)
               /\ Cut(heapMap, C) /\ Chunks = C /\ Used = InUse(heapMap, C)
  BY IInvFacts
<1>2. Paired(heapMap, C) /\ (combineMode => AllLone(heapMap, C))
  BY <1>1, HeapIsHeap DEF Sound
<1>3. \A c \in C \ Used : ~IsUsed(heapMap, c) /\ c \in C
  BY <1>1 DEF InUse
<1> QED  BY <1>1, <1>2, <1>3 DEF Combined, Paired, AllLone, Lone

\* IInv implies FindsStart.
LEMMA InvFindsStart ==
  ASSUME IInv
  PROVE  FindsStart
<1>1. PICK C : Cut(heapMap, C) /\ Used = InUse(heapMap, C)
  BY IInvFacts
<1>2. \A c \in Used : c \in C /\ IsUsed(heapMap, c)
  BY <1>1 DEF InUse
<1> QED  BY <1>1, <1>2, FindStartFacts DEF FindsStart, heapEnd

\* The byte of a chunk is that of a long one only if it is long.
LEMMA LongChunk ==
  ASSUME NEW m, NEW C, Cut(m, C), NEW p \in C
  PROVE  isValid(m, p) /\ ReadsInside(m, p)
<1> DEFINE n == size(m, p)
<1>1. /\ p \in Blocks /\ p \in Nat /\ Tile(m, p) /\ n \in Nat \ {0}
      /\ next(m, p) = p + n /\ next(m, p) <= N /\ next(m, p) \in Nat
      /\ DOMAIN m = (-1)..N /\ N \in Nat
  BY CutFacts, Sizeable
<1>2. isValid(m, p) /\ Marked(m, p, n, State(m, p))
  BY <1>1, TileFacts
<1>3. ASSUME m[p] = Ovfl(m, p) PROVE n > 8
  <2>1. SUFFICES ASSUME n < maxOneByteLen PROVE FALSE
    BY <1>1, Bytes
  <2>2. m[p] = State(m, p) + n - 1
    BY <1>2, <2>1 DEF Marked, Ends
  <2> HIDE DEF n
  <2> QED  BY <1>1, <1>3, <2>1, <2>2, Bytes DEF State, Ovfl
<1>4. next(m, p) - 1 \in DOMAIN m
  BY <1>1
<1>5. m[p] = Ovfl(m, p) => p + 3 \in DOMAIN m
  <2>1. ASSUME m[p] = Ovfl(m, p) PROVE p + 3 \in DOMAIN m
    <3>1. n > 8 /\ p + n <= N
      BY <1>1, <1>3, <2>1
    <3> HIDE DEF n
    <3> QED  BY <1>1, <3>1
  <2> QED  BY <2>1
<1> QED  BY <1>2, <1>4, <1>5 DEF ReadsInside

\* The next used chunk after p, where a sweeper stands.
LEMMA NextUsedFacts ==
  ASSUME NEW C, HeapOK(Heap, C), NEW p, p # Nowhere, Walked(Heap, C, p)
  PROVE  nextUsed(p) = Lowest({u \in InUse(heapMap, C) : u > p})
<1> DEFINE m == heapMap
           U == InUse(m, C)
           l == lastCombine
<1>1. /\ Cut(m, C) /\ l \in C /\ Heap.map = m /\ Heap.last = l
  BY HeapFacts, HeapIsHeap
<1>2. /\ N \in Nat \ {0} /\ DOMAIN m = (-1)..N /\ C \subseteq Nat /\ C \subseteq Blocks
      /\ \A x \in C : x < N
  BY <1>1, CutRange DEF Blocks
<1>3. p \in Nat /\ p < N
  <2>1. p \in Blocks
    BY <1>2 DEF Walked
  <2> QED  BY <1>2, <2>1 DEF Blocks
<1>4. ASSUME NEW e \in C \cup {N}, p < e, \A y \in U : p < y => e <= y
      PROVE  FirstFrom(m, e) = Lowest({u \in U : u > p})
  <2>1. FirstFrom(m, e) = Lowest({u \in C : IsUsed(m, u) /\ e <= u})
    BY <1>1, FirstFromFacts
  <2>2. \A u \in C : e \in Nat /\ u \in Nat
    BY <1>2
  <2>3. \A u \in U : u \in C /\ (e <= u <=> u > p)
    BY <1>3, <1>4, <2>2 DEF InUse
  <2>4. {u \in C : IsUsed(m, u) /\ e <= u} = {u \in U : u > p}
    BY <2>3 DEF InUse
  <2> QED  BY <2>1, <2>4
<1>5. CASE contains(m, l, p)
  <2> DEFINE goal == (p + 1)..N
             z == next(m, l)
             e == Onward(m, l, goal)
  <2>1. l <= p /\ p < z
    BY <1>5 DEF contains
  <2>2. z \in C \cup {N} /\ z \in Nat /\ l < z /\ z <= N
    BY <1>1, CutFacts
  <2>3. z \in goal /\ l \in C \cup {N} /\ l <= z /\ l \in Nat
    BY <1>1, <1>2, <1>3, <2>1, <2>2
  <2> HIDE DEF goal, z
  <2>4. /\ e \in C \cup {N} /\ e \in goal
        /\ \A y \in C : l <= y /\ y < e => y \notin goal
    BY <1>1, <2>2, <2>3, OnwardFacts
  <2>5. e = PastFrom(m, p)
    BY DEF PastFrom, goal, heapEnd
  <2> HIDE DEF e
  <2>6. p < e
    BY <1>3, <2>4 DEF goal
  <2>7. \A y \in U : p < y => e <= y
    <3>1. ASSUME NEW y \in U, p < y, ~(e <= y) PROVE FALSE
      <4>1. y \in C /\ y \in Nat /\ e \in Nat /\ y < N
        BY <1>2, <2>4 DEF InUse
      <4>2. y \in goal /\ l <= y /\ y < e
        BY <1>2, <1>3, <2>1, <2>3, <3>1, <4>1 DEF goal
      <4> QED  BY <2>4, <4>1, <4>2
    <3> QED  BY <3>1
  <2> QED  BY <1>4, <1>5, <2>4, <2>5, <2>6, <2>7 DEF nextUsed
<1>6. CASE ~contains(m, l, p)
  <2>1. p \in C
    BY <1>1, <1>6 DEF Walked
  <2>2. isValid(m, p) /\ ReadsInside(m, p)
    BY <1>1, <2>1, LongChunk
  <2>3. /\ next(m, p) \in C \cup {N} /\ p < next(m, p)
        /\ \A d \in C : d <= p \/ next(m, p) <= d
    BY <1>1, <2>1, CutFacts
  <2>4. \A y \in U : p < y => next(m, p) <= y
    <3>1. ASSUME NEW y \in U, p < y PROVE next(m, p) <= y
      <4>1. y \in C /\ y \in Nat
        BY <1>2 DEF InUse
      <4> QED  BY <1>3, <2>3, <3>1, <4>1
    <3> QED  BY <3>1
  <2>5. nextUsed(p) = FirstFrom(m, next(m, p))
    BY <1>6, <2>2 DEF nextUsed
  <2> QED  BY <1>4, <2>3, <2>4, <2>5
<1> QED  BY <1>5, <1>6

\* IInv implies SweepGoesOn.
LEMMA InvSweepGoesOn ==
  ASSUME IInv
  PROVE  SweepGoesOn
<1>1. PICK C : /\ Sound(Heap, C, combineMode, at, blocksUsed) /\ Walked(Heap, C, freed)
               /\ HeapOK(Heap, C) /\ Cut(heapMap, C)
               /\ Used = InUse(heapMap, C)
               /\ blocksUsed = 0 => Used = {}
  BY IInvFacts
<1>2. /\ 0 \in C /\ C \subseteq Nat /\ C \subseteq 0..(N - 1)
      /\ Used \subseteq Nat /\ Used \subseteq C
  BY <1>1, CutFacts, CutRange DEF InUse
<1>3. ASSUME NEW p \in Used \cup ({freed} \ {Nowhere})
      PROVE  nextUsed(p) = Lowest({u \in Used : u > p})
  <2>1. p # Nowhere
    BY DEF Used
  <2>2. Walked(Heap, C, p)
    BY <1>1, <1>2 DEF Walked
  <2> QED  BY <1>1, <2>1, <2>2, NextUsedFacts
<1>4. firstUsed = Lowest(Used)
  <2>1. CASE blocksUsed = 0
    BY <1>1, <2>1 DEF firstUsed, Lowest
  <2>2. CASE blocksUsed # 0 /\ IsUsed(heapMap, 0)
    <3>1. 0 \in Used
      BY <1>1, <1>2, <2>2 DEF InUse
    <3>2. Used \in SUBSET Int /\ \A j \in Used : 0 <= j
      BY <1>2
    <3>3. Lowest(Used) = 0
      BY <3>1, <3>2, LowestIs
    <3> QED  BY <2>2, <3>3 DEF firstUsed
  <2>3. CASE blocksUsed # 0 /\ ~IsUsed(heapMap, 0)
    <3>1. 0 # Nowhere
      BY <1>2, ZoneHeapAssumption
    <3>2. nextUsed(0) = Lowest({u \in Used : u > 0})
      <4>1. Walked(Heap, C, 0)
        BY <1>2 DEF Walked
      <4> QED  BY <1>1, <3>1, <4>1, NextUsedFacts
    <3>3. 0 \notin Used
      BY <1>1, <2>3 DEF InUse
    <3>4. {u \in Used : u > 0} = Used
      <4>1. \A u \in Used : u > 0
        BY <1>2, <3>3
      <4> QED  BY <4>1
    <3> QED  BY <2>3, <3>2, <3>4 DEF firstUsed
  <2> QED  BY <2>1, <2>2, <2>3
<1> QED  BY <1>3, <1>4 DEF SweepGoesOn

-----------------------------------------------------------------------------
(* What the heap promises.                                                 *)

\* The places that the objects at p have in the map m.
Places(m, p) == [x \in Objects |-> IF p[x] = Nowhere THEN <<>> ELSE <<p[x], size(m, p[x])>>]

\* The place of one object.
LEMMA PlacesFacts ==
  ASSUME NEW m, NEW p
  PROVE  /\ DOMAIN Places(m, p) = Objects
         /\ \A x \in Objects :
              /\ p[x] = Nowhere => Places(m, p)[x] = <<>>
              /\ p[x] # Nowhere => /\ Places(m, p)[x] = <<p[x], size(m, p[x])>>
                                   /\ Places(m, p)[x] # <<>>
                                   /\ Places(m, p)[x][1] = p[x]
                                   /\ Places(m, p)[x][2] = size(m, p[x])
<1>1. \A a, b : <<a, b>> # <<>> /\ <<a, b>>[1] = a /\ <<a, b>>[2] = b
  OBVIOUS
<1> QED  BY <1>1 DEF Places

\* The objects that are stored take the blocks of the used chunks.
LEMMA TakenFacts ==
  ASSUME NEW U, Holding(at, U)
  PROVE  /\ Abstract!Stored = {x \in Objects : at[x] # Nowhere}
         /\ Abstract!Taken = Covered(heapMap, U)
<1> DEFINE P == Places(heapMap, at)
<1>1. Abstract!Stored = {x \in Objects : P[x] # <<>>}
  BY DEF Abstract!Stored, Places
<1>2. Abstract!Taken = UNION {P[x][1]..(P[x][1] + P[x][2] - 1) : x \in Abstract!Stored}
  BY DEF Abstract!Taken, Abstract!BlocksOf, Places
<1>3. \A x \in Objects :
        /\ at[x] = Nowhere => P[x] = <<>>
        /\ at[x] # Nowhere => /\ P[x] # <<>> /\ P[x][1] = at[x]
                              /\ P[x][2] = size(heapMap, at[x])
  BY PlacesFacts
<1> HIDE DEF P
<1>4. Abstract!Stored = {x \in Objects : at[x] # Nowhere}
  BY <1>1, <1>3
<1>5. U = {at[x] : x \in Abstract!Stored}
  BY <1>4 DEF Holding
<1>6. \A x \in Abstract!Stored : P[x][1]..(P[x][1] + P[x][2] - 1)
                                  = at[x]..(at[x] + size(heapMap, at[x]) - 1)
  BY <1>3, <1>4
<1> DEFINE Z == Abstract!Stored
           B(c) == c..(c + size(heapMap, c) - 1)
<1>7. Abstract!Taken = UNION {B(at[x]) : x \in Z}
  BY <1>2, <1>6
<1>8. Covered(heapMap, U) = UNION {B(c) : c \in U}
  BY DEF Covered
<1> HIDE DEF B
<1>9. {B(at[x]) : x \in Z} = {B(c) : c \in U}
  <2>1. U = {at[x] : x \in Z}
    BY <1>5
  <2> HIDE DEF Z
  <2> QED  BY <2>1
<1> QED  BY <1>4, <1>7, <1>8, <1>9

\* A heap that is cleared has no objects.
LEMMA RefinesInit ==
  ASSUME Init
  PROVE  Abstract!Init
<1>1. \A x \in Objects : at[x] = Nowhere
  BY DEF Init
<1> QED  BY <1>1 DEF Init, Abstract!Init

\* deallocate is Discard.
LEMMA RefinesDiscard ==
  ASSUME NEW C, Sound(Heap, C, combineMode, at, blocksUsed), combineMode \in BOOLEAN,
         NEW x \in Objects, deallocate(x)
  PROVE  Abstract!Discard(x)
<1> DEFINE P == Places(heapMap, at)
           Q == Places(heapMap', at')
           U == InUse(heapMap, C)
<1>1. PICK D :
        /\ Sound(Heap', D, combineMode', at', blocksUsed') /\ full' = FALSE
        /\ at[x] \in U
        /\ InUse(heapMap', D) = U \ {at[x]}
        /\ \A u \in InUse(heapMap', D) : size(heapMap', u) = size(heapMap, u)
        /\ at' = [at EXCEPT ![x] = Nowhere]
        /\ blocksUsed' = blocksUsed - size(heapMap, at[x])
  BY DeallocateFacts
<1>2. Holding(at, U) /\ at \in [Objects -> Blocks \cup {Nowhere}]
  BY HeapIsHeap DEF Sound, Holding
<1>3. /\ at[x] # Nowhere
      /\ \A y \in Objects : at[y] # Nowhere => at[y] \in U
      /\ \A y \in Objects : y # x => at[y] # at[x]
  <2>1. Nowhere \notin U
    BY <1>2, Placed
  <2>2. at[x] # Nowhere
    BY <1>1, <2>1
  <2>3. \A y \in Objects : at[y] # Nowhere => at[y] \in U
    BY <1>2, Placed
  <2> QED  BY <1>2, <2>2, <2>3 DEF Holding
<1>4. at'[x] = Nowhere /\ \A y \in Objects : y # x => at'[y] = at[y]
  BY <1>1, <1>2
<1>5. \A y \in Objects : y # x /\ at[y] # Nowhere => size(heapMap', at[y]) = size(heapMap, at[y])
  BY <1>1, <1>3
<1> HIDE DEF U
<1>6. Q = [P EXCEPT ![x] = <<>>]
  BY <1>4, <1>5 DEF Places
<1>7. x \in Abstract!Stored
  BY <1>2, <1>3, TakenFacts
<1>8. P[x][2] = size(heapMap, at[x])
  BY <1>3, PlacesFacts
<1> QED  BY <1>1, <1>6, <1>7, <1>8 DEF Abstract!Discard, Places

\* An object that is stored is in blocks that were free.
LEMMA RefinesStore ==
  ASSUME NEW C, Sound(Heap, C, combineMode, at, blocksUsed),
         NEW x \in Objects, NEW n \in Sizes,
         NEW D, HeapOK(Heap', D), NEW c \in D, c \notin InUse(heapMap, C),
         InUse(heapMap', D) = InUse(heapMap, C) \cup {c}, size(heapMap', c) = n,
         \A u \in InUse(heapMap, C) : size(heapMap', u) = size(heapMap, u),
         at[x] = Nowhere, at' = [at EXCEPT ![x] = c],
         blocksUsed' = blocksUsed + n, full' = FALSE
  PROVE  Abstract!Store(x, n)
<1> DEFINE P == Places(heapMap, at)
           Q == Places(heapMap', at')
           U == InUse(heapMap, C)
           w == heapMap'
<1>1. Holding(at, U) /\ at \in [Objects -> Blocks \cup {Nowhere}]
  BY HeapIsHeap DEF Sound, Holding
<1>2. Cut(w, D)
  <2>1. Cut(Heap'.map, D)
    BY HeapFacts
  <2>2. Heap'.map = w
    BY DEF Heap
  <2> QED  BY <2>1, <2>2
<1>3. /\ c \in Nat /\ n \in Nat \ {0} /\ c + n <= N /\ c \in Blocks /\ N \in Nat
  <2>1. /\ c \in Blocks /\ c \in Nat /\ size(w, c) \in Nat \ {0}
        /\ next(w, c) = c + size(w, c) /\ next(w, c) <= N
    BY <1>2, CutFacts
  <2> QED  BY <2>1, Sizeable
<1>4. Covered(w, U) = Covered(heapMap, U)
  BY CoveredSame
<1>5. Covered(w, U) \cap (c..(c + n - 1)) = {}
  <2>1. U \subseteq D
    BY DEF InUse
  <2> HIDE DEF U, w
  <2>2. Covered(w, U) \cap (c..(c + size(w, c) - 1)) = {}
    BY <1>2, <2>1, CoveredAdds DEF U
  <2> QED  BY <2>2 DEF w
<1>6. Abstract!Taken = Covered(heapMap, U) /\ Abstract!Stored = {y \in Objects : at[y] # Nowhere}
  BY <1>1, TakenFacts
<1>7. c..(c + n - 1) \subseteq (0..(N - 1)) \ Abstract!Taken
  <2>1. c..(c + n - 1) \subseteq 0..(N - 1)
    BY <1>3
  <2> QED  BY <1>4, <1>5, <1>6, <2>1
<1>8. Abstract!Fits(<<c, n>>)
  <2>1. <<c, n>>[1] = c /\ <<c, n>>[2] = n
    OBVIOUS
  <2>2. Abstract!BlocksOf(<<c, n>>) = c..(c + n - 1)
    BY <2>1 DEF Abstract!BlocksOf
  <2> QED  BY <1>7, <2>2 DEF Abstract!Fits
<1>9. c # Nowhere
  BY <1>3, ZoneHeapAssumption DEF Blocks
<1>10. at'[x] = c /\ \A y \in Objects : y # x => at'[y] = at[y]
  BY <1>1
<1>11. \A y \in Objects : at[y] # Nowhere => size(w, at[y]) = size(heapMap, at[y])
  <2>1. \A y \in Objects : at[y] # Nowhere => at[y] \in U
    BY <1>1, Placed
  <2> QED  BY <2>1
<1>12. Q = [P EXCEPT ![x] = <<c, n>>]
  <2> DEFINE p == at
             q == at'
             m == heapMap
  <2>1. /\ p[x] = Nowhere /\ q[x] = c /\ size(w, c) = n
        /\ \A y \in Objects : y # x => q[y] = p[y]
        /\ \A y \in Objects : p[y] # Nowhere => size(w, p[y]) = size(m, p[y])
    BY <1>10, <1>11
  <2> HIDE DEF p, q, m, w
  <2>2. Places(w, q) = [Places(m, p) EXCEPT ![x] = <<c, n>>]
    BY <1>9, <2>1 DEF Places
  <2> QED  BY <2>2 DEF p, q, m, w
<1>13. x \notin Abstract!Stored
  BY <1>6
<1>14. c \in 0..(N - n)
  BY <1>3
<1> HIDE DEF U
<1> QED  BY <1>8, <1>12, <1>13, <1>14 DEF Abstract!Store, Places

\* Where no free chunks touch and none has n blocks there are not n free
\* blocks in a row.
LEMMA NoRoom ==
  ASSUME NEW m, NEW C, Cut(m, C), AllLone(m, C), NEW n \in Nat \ {0},
         \A d \in C : ~IsUsed(m, d) => size(m, d) < n,
         NEW c \in 0..(N - n)
  PROVE  ~ (c..(c + n - 1) \subseteq (0..(N - 1)) \ Covered(m, InUse(m, C)))
<1> DEFINE A == Covered(m, InUse(m, C))
<1>1. N \in Nat /\ c \in Blocks /\ c \in Nat /\ c \in c..(c + n - 1)
  BY Sizeable DEF Blocks
<1>2. PICK d \in C : d <= c /\ c < next(m, d)
  BY <1>1, ChunkOf
<1>3. /\ d \in Nat /\ size(m, d) \in Nat \ {0} /\ next(m, d) = d + size(m, d)
      /\ next(m, d) \in C \cup {N}
  BY CutFacts
<1>4. d <= c /\ c < next(m, d)
  BY <1>2
<1>5. SUFFICES ASSUME c \notin A, \A b \in c..(c + n - 1) : b \in 0..(N - 1) /\ b \notin A
               PROVE  FALSE
  BY <1>1
<1>6. \A u \in InUse(m, C) : u..(u + size(m, u) - 1) \subseteq A
  BY DEF Covered
<1> HIDE DEF A
<1>7. ~IsUsed(m, d)
  <2>1. SUFFICES ASSUME IsUsed(m, d) PROVE FALSE
    OBVIOUS
  <2>2. d \in InUse(m, C)
    BY <2>1 DEF InUse
  <2>3. c \in d..(d + size(m, d) - 1)
    BY <1>1, <1>3, <1>4
  <2> QED  BY <1>5, <1>6, <2>2, <2>3
<1>8. size(m, d) < n /\ IsUsed(m, next(m, d))
  BY <1>7 DEF AllLone, Lone
<1>9. next(m, d) \in c..(c + n - 1)
  BY <1>1, <1>3, <1>4, <1>8
<1>10. next(m, d) # N
  BY <1>1, <1>5, <1>9
<1>11. next(m, d) \in InUse(m, C)
  BY <1>3, <1>8, <1>10 DEF InUse
<1>12. next(m, d) \in A
  <2> DEFINE e == next(m, d)
  <2> HIDE DEF e
  <2>1. e \in C /\ e \in InUse(m, C)
    BY <1>11 DEF e, InUse
  <2>2. e \in Nat /\ size(m, e) \in Nat \ {0}
    BY <2>1, CutFacts
  <2>3. e \in e..(e + size(m, e) - 1)
    BY <2>2
  <2>4. e \in A
    BY <1>6, <2>1, <2>3
  <2> QED  BY <2>4 DEF e
<1> QED  BY <1>5, <1>9, <1>12

\* Objects that stay in chunks of the same size have the same places.
LEMMA SamePlaces ==
  ASSUME NEW m, NEW w, NEW p, NEW U, Holding(p, U), \A u \in U : size(w, u) = size(m, u)
  PROVE  Places(w, p) = Places(m, p)
<1>1. \A y \in Objects : p[y] # Nowhere => p[y] \in U
  BY Placed
<1> QED  BY <1>1 DEF Places

\* allocate is Store, or Refuse where no free blocks in a row are enough.
LEMMA RefinesAllocate ==
  ASSUME NEW C, Sound(Heap, C, combineMode, at, blocksUsed), combineMode \in BOOLEAN,
         NEW x \in Objects, NEW n \in Sizes, allocate(x, n)
  PROVE  Abstract!Store(x, n) \/ Abstract!Refuse(n)
<1> DEFINE U == InUse(heapMap, C)
<1>1. PICK D :
        /\ Sound(Heap', D, combineMode', at', blocksUsed')
        /\ \A u \in U : size(heapMap', u) = size(heapMap, u)
        /\ \/ \E c \in D :
                /\ c \notin U
                /\ InUse(heapMap', D) = U \cup {c}
                /\ size(heapMap', c) = n
                /\ at[x] = Nowhere /\ at' = [at EXCEPT ![x] = c]
                /\ blocksUsed' = blocksUsed + n /\ full' = FALSE
           \/ /\ InUse(heapMap', D) = U
              /\ at' = at /\ blocksUsed' = blocksUsed /\ full' = TRUE
              /\ AllLone(heapMap', D)
              /\ \A c \in D : ~IsUsed(heapMap', c) => size(heapMap', c) < n
  BY AllocateFacts
<1>2. HeapOK(Heap', D)
  BY <1>1 DEF Sound
<1>3. CASE \E c \in D :
             /\ c \notin U
             /\ InUse(heapMap', D) = U \cup {c}
             /\ size(heapMap', c) = n
             /\ at[x] = Nowhere /\ at' = [at EXCEPT ![x] = c]
             /\ blocksUsed' = blocksUsed + n /\ full' = FALSE
  BY <1>1, <1>2, <1>3, RefinesStore
<1>4. CASE /\ InUse(heapMap', D) = U
           /\ at' = at /\ blocksUsed' = blocksUsed /\ full' = TRUE
           /\ AllLone(heapMap', D)
           /\ \A c \in D : ~IsUsed(heapMap', c) => size(heapMap', c) < n
  <2>1. Holding(at, U)
    BY HeapIsHeap DEF Sound
  <2>2. Cut(heapMap', D)
    <3>1. Cut(Heap'.map, D)
      BY <1>2, HeapFacts
    <3>2. Heap'.map = heapMap'
      BY DEF Heap
    <3> QED  BY <3>1, <3>2
  <2>3. Covered(heapMap', U) = Covered(heapMap, U)
    BY <1>1, CoveredSame
  <2>4. Abstract!Taken = Covered(heapMap, U)
    BY <2>1, TakenFacts
  <2>5. Places(heapMap', at') = Places(heapMap, at)
    <3> DEFINE w == heapMap'
    <3>1. \A u \in U : size(w, u) = size(heapMap, u)
      BY <1>1
    <3> HIDE DEF w, U
    <3>2. Places(w, at) = Places(heapMap, at)
      BY <2>1, <3>1, SamePlaces
    <3> QED  BY <1>4, <3>2 DEF w
  <2>6. n \in Nat \ {0}
    BY ZoneHeapAssumption
  <2>7. ASSUME NEW c \in 0..(N - n) PROVE ~Abstract!Fits(<<c, n>>)
    <3> DEFINE w == heapMap'
    <3>1. Cut(w, D) /\ AllLone(w, D) /\ \A d \in D : ~IsUsed(w, d) => size(w, d) < n
      BY <1>4, <2>2
    <3>2. InUse(w, D) = U /\ Covered(w, U) = Abstract!Taken
      BY <1>4, <2>3, <2>4
    <3> HIDE DEF w, U
    <3>3. ~ (c..(c + n - 1) \subseteq (0..(N - 1)) \ Covered(w, InUse(w, D)))
      BY <2>6, <3>1, NoRoom
    <3>4. <<c, n>>[1] = c /\ <<c, n>>[2] = n
      OBVIOUS
    <3>5. Abstract!BlocksOf(<<c, n>>) = c..(c + n - 1)
      BY <3>4 DEF Abstract!BlocksOf
    <3> QED  BY <3>2, <3>3, <3>5 DEF Abstract!Fits
  <2>8. Abstract!Refuse(n)
    BY <1>4, <2>5, <2>7 DEF Abstract!Refuse, Places
  <2> QED  BY <2>8
<1> QED  BY <1>1, <1>3, <1>4

\* The blocks in use below a chunk are those of the chunks below it.
LEMMA CoveredBelow ==
  ASSUME NEW m, NEW C, Cut(m, C), NEW U, U \subseteq C, NEW c \in C
  PROVE  {b \in Covered(m, U) : b < c} = Covered(m, Under(U, c))
<1>1. C \subseteq Nat /\ c \in Nat
  BY CutRange
<1>2. ASSUME NEW u \in U, NEW b \in u..(u + size(m, u) - 1)
      PROVE  b < c <=> u < c
  <2>1. /\ u \in C /\ u \in Nat /\ size(m, u) \in Nat /\ next(m, u) = u + size(m, u)
        /\ c <= u \/ next(m, u) <= c
    BY CutFacts
  <2>2. b \in Nat /\ u <= b /\ b < u + size(m, u)
    BY <2>1
  <2> QED  BY <1>1, <2>1, <2>2
<1>3. ASSUME NEW b \in Covered(m, U), b < c PROVE b \in Covered(m, Under(U, c))
  <2>1. PICK u \in U : b \in u..(u + size(m, u) - 1)
    BY DEF Covered
  <2>2. u \in Under(U, c)
    BY <1>2, <1>3, <2>1 DEF Under
  <2> QED  BY <2>1, <2>2 DEF Covered
<1>4. ASSUME NEW b \in Covered(m, Under(U, c)) PROVE b \in Covered(m, U) /\ b < c
  <2>1. PICK u \in Under(U, c) : b \in u..(u + size(m, u) - 1)
    BY DEF Covered
  <2>2. u \in U /\ u < c
    BY DEF Under
  <2>3. b < c
    BY <1>2, <2>1, <2>2
  <2> QED  BY <2>1, <2>2, <2>3 DEF Covered
<1> QED  BY <1>3, <1>4

\* The cardinality of AbstractHeap's instance of FiniteSets is the cardinality.
LEMMA SameCardinality ==
  ASSUME NEW S
  PROVE  Abstract!Cardinality(S) = Cardinality(S)
BY DEF Abstract!Cardinality, Cardinality

\* compact is Compact.
LEMMA RefinesCompact ==
  ASSUME NEW C, Sound(Heap, C, combineMode, at, blocksUsed), combineMode \in BOOLEAN,
         compact
  PROVE  Abstract!Compact
<1> DEFINE m == heapMap
           w == heapMap'
           p == at
           q == at'
           U == InUse(m, C)
<1>1. PICK D :
        /\ full' = FALSE /\ blocksUsed' = blocksUsed
        /\ \A u \in U : size(w, Rank(m, U, u)) = size(m, u)
        /\ \A x \in Objects : q[x] = IF p[x] = Nowhere THEN Nowhere ELSE Rank(m, U, p[x])
  BY CompactFacts
<1>2. Holding(p, U) /\ Cut(m, C) /\ U \subseteq C
  BY HeapFacts, HeapIsHeap DEF Sound, InUse
<1>3. /\ Abstract!Taken = Covered(m, U)
      /\ Abstract!Stored = {x \in Objects : p[x] # Nowhere}
  BY <1>2, TakenFacts
<1>4. \A x \in Objects : p[x] # Nowhere => p[x] \in U /\ p[x] \in C
  BY <1>2, Placed
<1>5. \A c \in U : Rank(m, U, c) # Nowhere
  <2>1. ASSUME NEW c \in U PROVE Rank(m, U, c) \in 0..(N - 1)
    <3>1. c \in C \cup {N} /\ c \in Nat /\ c < N
      BY <1>2, CutRange
    <3>2. Rank(m, U, c) \in Nat /\ Rank(m, U, c) <= c
      BY <1>2, <3>1, RankFacts
    <3> QED  BY <3>1, <3>2, Sizeable
  <2> QED  BY <2>1, ZoneHeapAssumption
<1> DEFINE P == Places(m, p)
           Below(x) == {b \in Abstract!Taken : b < P[x][1]}
<1>6. ASSUME NEW x \in Objects, p[x] # Nowhere
      PROVE  /\ Cardinality(Below(x)) = Rank(m, U, p[x])
             /\ P[x][2] = size(m, p[x])
  <2>1. P[x][1] = p[x] /\ P[x][2] = size(m, p[x])
    BY <1>6, PlacesFacts
  <2>2. p[x] \in C
    BY <1>4, <1>6
  <2> HIDE DEF m, p, U, P
  <2>3. {b \in Covered(m, U) : b < p[x]} = Covered(m, Under(U, p[x]))
    BY <1>2, <2>2, CoveredBelow
  <2>4. Below(x) = Covered(m, Under(U, p[x]))
    BY <1>3, <2>1, <2>3
  <2> QED  BY <2>1, <2>4 DEF Rank
<1>7. Places(w, q) = [x \in Objects |-> IF x \in Abstract!Stored
                                         THEN <<Cardinality(Below(x)), P[x][2]>> ELSE <<>>]
  <2>1. ASSUME NEW x \in Objects
        PROVE  Places(w, q)[x] = IF x \in Abstract!Stored
                                 THEN <<Cardinality(Below(x)), P[x][2]>> ELSE <<>>
    <3> HIDE DEF m, p, U, P, w, q
    <3>1. CASE p[x] = Nowhere
      <4>1. q[x] = Nowhere /\ x \notin Abstract!Stored
        BY <1>1, <1>3, <3>1
      <4> QED  BY <4>1, PlacesFacts
    <3>2. CASE p[x] # Nowhere
      <4>1. q[x] = Rank(m, U, p[x]) /\ q[x] # Nowhere /\ x \in Abstract!Stored
            /\ size(w, q[x]) = size(m, p[x])
        BY <1>1, <1>3, <1>4, <1>5, <3>2
      <4>2. Places(w, q)[x] = <<q[x], size(w, q[x])>>
        BY <4>1, PlacesFacts
      <4>3. Cardinality(Below(x)) = q[x] /\ P[x][2] = size(w, q[x])
        BY <1>6, <3>2, <4>1
      <4> QED  BY <4>1, <4>2, <4>3
    <3> QED  BY <3>1, <3>2
  <2>2. Places(w, q) = [x \in Objects |-> Places(w, q)[x]]
    BY DEF Places
  <2> HIDE DEF P, Below, w, q
  <2> QED  BY <2>1, <2>2
<1>8. Places(w, q) = [x \in Objects |-> IF x \in Abstract!Stored
                                         THEN <<Abstract!Cardinality(Below(x)), P[x][2]>>
                                         ELSE <<>>]
  <2>1. \A x \in Objects : Abstract!Cardinality(Below(x)) = Cardinality(Below(x))
    BY SameCardinality
  <2> HIDE DEF Below, w, q, P
  <2> QED  BY <1>7, <2>1
<1> QED  BY <1>1, <1>8 DEF Abstract!Compact, Places, Below

\* Every step of the heap is one of an allocator, or changes nothing of it.
LEMMA RefinesNext ==
  ASSUME IInv, [Next]_vars
  PROVE  [Abstract!Next]_<<Places(heapMap, at), blocksUsed, full>>
<1>1. PICK C : Sound(Heap, C, combineMode, at, blocksUsed)
  BY DEF IInv
<1>2. combineMode \in BOOLEAN
  BY DEF IInv
<1>3. ASSUME NEW x \in Objects, deallocate(x) PROVE Abstract!Next
  <2>1. Abstract!Discard(x)
    BY <1>1, <1>2, <1>3, RefinesDiscard
  <2> QED  BY <2>1 DEF Abstract!Next
<1>4. ASSUME NEW x \in Objects, NEW n \in Sizes, allocate(x, n) PROVE Abstract!Next
  <2>1. Abstract!Store(x, n) \/ Abstract!Refuse(n)
    BY <1>1, <1>2, <1>4, RefinesAllocate
  <2> QED  BY <2>1 DEF Abstract!Next
<1>5. ASSUME compact PROVE Abstract!Next
  <2>1. Abstract!Compact
    BY <1>1, <1>2, <1>5, RefinesCompact
  <2> QED  BY <2>1 DEF Abstract!Next
<1>6. ASSUME nonCombiningMode PROVE Abstract!Next
  <2>1. Abstract!Forget
    BY <1>6 DEF nonCombiningMode, Abstract!Forget
  <2> QED  BY <2>1 DEF Abstract!Next
<1>7. ASSUME UNCHANGED vars PROVE UNCHANGED <<Places(heapMap, at), blocksUsed, full>>
  BY <1>7 DEF vars, Places
<1> QED  BY <1>3, <1>4, <1>5, <1>6, <1>7 DEF Next

-----------------------------------------------------------------------------
(* The theorems.                                                           *)

\* IInv is an invariant.
LEMMA Inductive == Spec => []IInv
<1>1. Init => IInv
  BY InitFacts
<1>2. IInv /\ [Next]_vars => IInv'
  BY NextFacts
<1> QED  BY <1>1, <1>2, PTL DEF Spec

\* Walking the map always finds chunks, of which the used ones are those that
\* callers hold and the free ones are each in the list for its size, once,
\* whatever was allocated, freed, combined and compacted before.
THEOREM SpecMapAgrees == Spec => []MapAgrees
<1>1. IInv => MapAgrees
  BY InvMapAgrees
<1> QED  BY <1>1, Inductive, PTL

\* Free chunks that touch are left only while chunks are not combined, and one
\* of the two is in a list of its size: what combineAll, which passes over
\* bigList, relies on.
THEOREM SpecCombined == Spec => []Combined
<1>1. IInv => Combined
  BY InvCombined
<1> QED  BY <1>1, Inductive, PTL

\* findStart leads from any byte of a used chunk to its start: no distance or
\* size that an older chunk left is ever followed.
THEOREM SpecFindsStart == Spec => []FindsStart
<1>1. IInv => FindsStart
  BY InvFindsStart
<1> QED  BY <1>1, Inductive, PTL

\* A sweeper visits every used chunk, in order, though it frees the chunk it
\* stands on and that chunk may be combined with those before and after it.
THEOREM SpecSweepGoesOn == Spec => []SweepGoesOn
<1>1. IInv => SweepGoesOn
  BY InvSweepGoesOn
<1> QED  BY <1>1, Inductive, PTL

\* The heap implements AbstractHeap: chunks of objects never overlap, a request
\* fails only when no free blocks in a row are enough (after combineAll has
\* run), and compact keeps the order of the objects.
THEOREM SpecIsHeap == Spec => IsHeap
<1>1. Init => Abstract!Init
  BY RefinesInit
<1>2. IInv /\ [Next]_vars
        => [Abstract!Next]_<<Places(heapMap, at), blocksUsed, full>>
  BY RefinesNext
<1>3. [Abstract!Next]_<<Places(heapMap, at), blocksUsed, full>>
        => [Abstract!Next]_(Abstract!vars)
  BY DEF Abstract!vars, Places
<1> QED  BY <1>1, <1>2, <1>3, Inductive, PTL DEF Spec, IsHeap, Abstract!Spec
=============================================================================
