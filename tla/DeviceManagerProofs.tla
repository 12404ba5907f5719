------------------------ MODULE DeviceManagerProofs -------------------------
(* What holds of the index allocator for every chunk size, number of chunks    *)
(* and initial maximum; and that the device manager, whose state contains the  *)
(* allocator's, keeps its tables, the allocator and the HAL consistent, for    *)
(* every number of devices and under every fault.                              *)
EXTENDS DeviceManager, FiniteSetTheorems, TLAPS

-----------------------------------------------------------------------------
(* The index allocator.                                                    *)

\* Min of FiniteSetsExt picks a smallest element of a non-empty set of naturals.
LEMMA MinInSet ==
    ASSUME NEW S \in SUBSET Nat, S # {}
    PROVE  Min(S) \in S /\ \A n \in S : Min(S) <= n
<1>1. PICK m \in S : \A n \in S : ~(<<n, m>> \in OpToRel(<, Nat))
  BY NatLessThanWellFounded, WFMin
<1>2. ASSUME NEW n \in S
      PROVE  m <= n
  <2>1. <<n, m>> \in Nat \X Nat
    OBVIOUS
  <2>2. ~(n < m)
    BY <1>1, <2>1, Zenon DEF OpToRel
  <2> QED
    BY <2>2
<1> QED
  BY <1>1, <1>2 DEF Min

\* Multiplication is monotonic: the solver needs the difference spelt out.
LEMMA Monotonic ==
    ASSUME NEW a \in Nat, NEW b \in Nat, NEW c \in Nat, a <= b
    PROVE  c * a <= c * b
<1> DEFINE d == b - a
<1>1. d \in Nat /\ b = a + d
  OBVIOUS
<1>2. c * b = c * a + c * d
  BY <1>1, SMT
<1>3. c * d \in Nat /\ c * a \in Nat
  BY <1>1, SMT
<1> QED
  BY <1>2, <1>3

\* What the constants are, with the size of index_t spelt out.
LEMMA Constants ==
    /\ BitsPerChunk \in Nat \ {0}
    /\ MaxChunks \in Nat \ {0}
    /\ MaxIndex \in Nat
    /\ MaxIndex + 1 = BitsPerChunk * MaxChunks
    /\ InitialMaximum \in 1..MaxIndex
    /\ MaxHeld \in 1..(MaxIndex + 1)
<1>1. BitsPerChunk \in Nat \ {0} /\ MaxChunks \in Nat \ {0}
  BY AllocatorAssumption
<1>2. BitsPerChunk * MaxChunks \in Nat \ {0}
  BY <1>1, SMT
<1> QED
  BY <1>1, <1>2, AllocatorAssumption DEF MaxIndex

\* The chunk of an index contains it, and lies within what index_t addresses.
LEMMA ChunkOf ==
    ASSUME NEW index \in Indices
    PROVE  /\ index \div BitsPerChunk \in 0..(MaxChunks - 1)
           /\ index < BitsPerChunk * ((index \div BitsPerChunk) + 1)
<1> DEFINE q == index \div BitsPerChunk
           r == index % BitsPerChunk
<1>1. index \in Nat /\ index < BitsPerChunk * MaxChunks
  BY Constants DEF Indices
<1>2. q \in Nat /\ r \in 0..(BitsPerChunk - 1) /\ index = BitsPerChunk * q + r
  BY <1>1, Constants, SMT
<1>3. index < BitsPerChunk * (q + 1)
  BY <1>2, Constants, SMT
<1>4. q < MaxChunks
  <2>1. BitsPerChunk * q < BitsPerChunk * MaxChunks
    BY <1>1, <1>2, Constants
  <2>2. q >= MaxChunks => BitsPerChunk * q >= BitsPerChunk * MaxChunks
    BY <1>2, Constants, Monotonic
  <2> QED
    BY <2>1, <2>2, <1>2, Constants, SMT
<1> QED
  BY <1>2, <1>3, <1>4, Constants

-----------------------------------------------------------------------------
(* The search.                                                             *)

\* The bitset lies within index_t, so the indices in use can be counted.
LEMMA UsedIsFinite ==
    ASSUME AllocatorInv
    PROVE  /\ IsFiniteSet(used)
           /\ Cardinality(used) \in Nat
           /\ used \subseteq Tracked
           /\ Tracked \subseteq Indices
           /\ chunks * BitsPerChunk \in 1..(MaxIndex + 1)
<1>1. chunks \in 1..MaxChunks /\ used \subseteq Tracked
  BY DEF AllocatorInv, AllocatorTypeOK, BooksAgree
<1>2. BitsPerChunk * chunks <= BitsPerChunk * MaxChunks
  BY <1>1, Constants, Monotonic
<1>3. chunks * BitsPerChunk \in 1..(MaxIndex + 1)
  BY <1>1, <1>2, Constants, SMT
<1>4. Tracked \subseteq Indices
  BY <1>3, Constants, SMT DEF Tracked, Indices
<1>5. IsFiniteSet(Indices)
  BY Constants, FS_Interval DEF Indices
<1>6. IsFiniteSet(used)
  BY <1>1, <1>4, <1>5, FS_Subset
<1> QED
  BY <1>1, <1>3, <1>4, <1>6, FS_CardinalityType

\* find_free_ returns an index whose bit is 0, from every start: while fewer
\* indices are held than index_t can express, the fall-through past the bitset
\* does not wrap around.
LEMMA FindFreeIsFree ==
    ASSUME AllocatorInv, HasRoom, NEW start \in Nat
    PROVE  FindFree(start) \in Indices \ used
<1>1. /\ IsFiniteSet(used) /\ Cardinality(used) \in Nat
      /\ used \subseteq Tracked /\ Tracked \subseteq Indices
      /\ chunks * BitsPerChunk \in 1..(MaxIndex + 1)
  BY UsedIsFinite
<1>2. FreeBits \subseteq Indices \ used /\ FreeBits \in SUBSET Nat
  BY <1>1, Constants DEF FreeBits, Indices
<1>3. CASE Ahead(start) # {}
  <2>1. Ahead(start) \subseteq FreeBits
    BY DEF Ahead
  <2>2. Ahead(start) \in SUBSET Nat
    BY <2>1, <1>2
  <2>3. Min(Ahead(start)) \in Ahead(start)
    BY <2>2, <1>3, MinInSet
  <2> QED
    BY <1>2, <1>3, <2>1, <2>3 DEF FindFree
<1>4. CASE Ahead(start) = {} /\ FreeBits # {}
  BY <1>2, <1>4, MinInSet DEF FindFree
<1>5. CASE Ahead(start) = {} /\ FreeBits = {}
  <2>1. used = Tracked
    BY <1>1, <1>5 DEF FreeBits
  <2>2. Cardinality(Tracked) = chunks * BitsPerChunk
    BY <1>1, FS_Interval DEF Tracked
  <2>3. chunks * BitsPerChunk <= MaxIndex
    BY <1>1, <2>1, <2>2, Constants DEF HasRoom
  <2>4. FindFree(start) = chunks * BitsPerChunk
    BY <1>1, <1>5, <2>3, Constants DEF FindFree, Wrapped
  <2>5. chunks * BitsPerChunk \in Indices
    BY <1>1, <2>3, Constants DEF Indices
  <2>6. chunks * BitsPerChunk \notin used
    BY <1>1, <2>1 DEF Tracked
  <2> QED
    BY <2>4, <2>5, <2>6
<1> QED
  BY <1>3, <1>4, <1>5

\* The candidate is an index and the desired maximum stays one when it is raised:
\* doubling it does not overflow index_t.
LEMMA CandidateType ==
    ASSUME AllocatorInv
    PROVE  /\ Candidate \in Indices
           /\ RaisedMaximum \in 1..MaxIndex
<1>1. last_allocated_index \in 0..MaxIndex /\ desired_maximum_index \in 1..MaxIndex
  BY DEF AllocatorInv, AllocatorTypeOK, Indices
<1>2. Candidate \in Indices
  BY <1>1, Constants DEF Candidate, Wrapped, Indices
<1>3. desired_maximum_index <= MaxIndex \div 2
        => 2 * desired_maximum_index \in 1..MaxIndex
  BY <1>1, Constants, SMT
<1> QED
  BY <1>1, <1>2, <1>3, Constants DEF RaisedMaximum

\* The index that allocate_and_acquire chooses is one that nobody holds.
LEMMA NextIndexIsFree ==
    ASSUME AllocatorInv, HasRoom
    PROVE  NextIndex \in Indices \ used
<1>1. Candidate \in Nat /\ Candidate + 1 \in Nat /\ Candidate \in Indices
  BY CandidateType, Constants DEF Indices
<1>2. FindFree(0) \in Indices \ used /\ FindFree(Candidate + 1) \in Indices \ used
  BY <1>1, FindFreeIsFree
<1> QED
  BY <1>1, <1>2 DEF NextIndex, IsFree

-----------------------------------------------------------------------------
(* The closed form of the search is the loop.                              *)

\* An index lies below a chunk exactly when its own chunk does.
LEMMA BelowChunk ==
    ASSUME NEW i \in Nat, NEW c \in Nat
    PROVE  i < BitsPerChunk * c <=> i \div BitsPerChunk < c
<1> DEFINE q == i \div BitsPerChunk
           r == i % BitsPerChunk
<1>1. q \in Nat /\ r \in 0..(BitsPerChunk - 1) /\ i = BitsPerChunk * q + r
  BY Constants, SMT
<1> HIDE DEF q, r
<1>2. BitsPerChunk * q \in Nat /\ BitsPerChunk * c \in Nat
  BY <1>1, Constants, SMT
<1>3. CASE q < c
  <2>1. BitsPerChunk * (q + 1) <= BitsPerChunk * c
    BY <1>1, <1>3, Constants, Monotonic
  <2>2. BitsPerChunk * (q + 1) = BitsPerChunk * q + BitsPerChunk
    BY <1>1, Constants, SMT
  <2>3. i < BitsPerChunk * c
    BY <1>1, <1>2, <2>1, <2>2, Constants
  <2> QED
    BY <1>3, <2>3 DEF q
<1>4. CASE c <= q
  <2>1. BitsPerChunk * c <= BitsPerChunk * q
    BY <1>1, <1>4, Constants, Monotonic
  <2>2. ~(i < BitsPerChunk * c) /\ ~(q < c)
    BY <1>1, <1>2, <1>4, <2>1, Constants
  <2> QED
    BY <2>2 DEF q
<1> QED
  BY <1>1, <1>3, <1>4

\* The quotient and the remainder are determined by where they lie.
LEMMA RemainderIs ==
    ASSUME NEW n \in Nat \ {0}, NEW a \in Nat, NEW k \in Nat, NEW r \in 0..(n - 1),
           a = n * k + r
    PROVE  a % n = r
<1> DEFINE q == a \div n
           s == a % n
<1>1. q \in Nat /\ s \in 0..(n - 1) /\ a = n * q + s
  BY SMT
<1> HIDE DEF q, s
<1>2. n * q \in Nat /\ n * k \in Nat
  BY <1>1, SMT
<1>3. ~(q < k)
  <2> SUFFICES ASSUME q < k PROVE FALSE
    OBVIOUS
  <2>1. n * (q + 1) <= n * k
    BY <1>1, Monotonic
  <2>2. n * (q + 1) = n * q + n
    BY <1>1, SMT
  <2> QED
    BY <1>1, <1>2, <2>1, <2>2
<1>4. ~(k < q)
  <2> SUFFICES ASSUME k < q PROVE FALSE
    OBVIOUS
  <2>1. n * (k + 1) <= n * q
    BY <1>1, Monotonic
  <2>2. n * (k + 1) = n * k + n
    BY SMT
  <2> QED
    BY <1>1, <1>2, <2>1, <2>2
<1>5. q = k
  BY <1>1, <1>3, <1>4
<1>6. s = r
  BY <1>1, <1>2, <1>5
<1> QED
  BY <1>6 DEF s

\* The chunk that visit n looks at: they are counted from the first one on, and
\* from 0 again after the last.
LEMMA VisitedChunk ==
    ASSUME NEW size \in Nat \ {0}, NEW q \in Nat, NEW n \in 0..size
    PROVE  /\ q % size \in 0..(size - 1)
           /\ (q + n) % size = IF (q % size) + n < size THEN (q % size) + n
                                                        ELSE (q % size) + n - size
<1> DEFINE k == q \div size
           r == q % size
<1>1. k \in Nat /\ r \in 0..(size - 1) /\ q = size * k + r
  BY SMT
<1> HIDE DEF k, r
<1>2. size * k \in Nat /\ size * (k + 1) = size * k + size
  BY <1>1, SMT
<1>3. CASE r + n < size
  <2>1. q + n = size * k + (r + n) /\ r + n \in 0..(size - 1) /\ q + n \in Nat
    BY <1>1, <1>2, <1>3
  <2>2. (q + n) % size = r + n
    BY <1>1, <2>1, RemainderIs
  <2> QED
    BY <1>1, <1>3, <2>2 DEF r
<1>4. CASE ~(r + n < size)
  <2>1. /\ q + n = size * (k + 1) + (r + n - size)
        /\ r + n - size \in 0..(size - 1) /\ q + n \in Nat /\ k + 1 \in Nat
    BY <1>1, <1>2, <1>4
  <2>2. (q + n) % size = r + n - size
    BY <1>1, <2>1, RemainderIs
  <2> QED
    BY <1>1, <1>4, <2>2 DEF r
<1> QED
  BY <1>3, <1>4

\* The visits before the end of the bitset see what lies ahead of start, the later
\* ones what is free in the chunks up to the first.
LEMMA WhatVisitsSee ==
    ASSUME AllocatorInv, NEW start \in Nat, NEW n \in 0..chunks
    PROVE  LET first == (start \div BitsPerChunk) % chunks
           IN  /\ first \in 0..(chunks - 1)
               /\ first + n < chunks =>
                    Visit(start, n) = {i \in Ahead(start) : i \div BitsPerChunk = first + n}
               /\ ~(first + n < chunks) =>
                    Visit(start, n) =
                        {i \in FreeBits : i \div BitsPerChunk = first + n - chunks}
<1> DEFINE q == start \div BitsPerChunk
           first == q % chunks
<1>1. /\ chunks \in Nat \ {0} /\ FreeBits \in SUBSET Nat /\ q \in Nat
      /\ BitsPerChunk \in Nat \ {0}
  <2>1. q \in Nat
    BY Constants, SMT
  <2> QED
    BY <2>1, UsedIsFinite, Constants DEF AllocatorInv, AllocatorTypeOK, FreeBits, Indices
<1>2. /\ first \in 0..(chunks - 1)
      /\ (q + n) % chunks = IF first + n < chunks THEN first + n ELSE first + n - chunks
  BY <1>1, VisitedChunk
<1>3. Visit(start, n) = {i \in FreeBits : /\ i \div BitsPerChunk = (q + n) % chunks
                                          /\ n = 0 => i >= start}
  BY DEF Visit
<1>4. Ahead(start) = {i \in FreeBits :
                        /\ i >= BitsPerChunk * first
                        /\ i < BitsPerChunk * first + BitsPerChunk => i >= start}
  BY DEF Ahead
<1> HIDE DEF q, first
<1>5. ASSUME NEW i \in FreeBits
      PROVE  /\ i \div BitsPerChunk \in Nat
             /\ i >= BitsPerChunk * first <=> i \div BitsPerChunk >= first
             /\ i < BitsPerChunk * first + BitsPerChunk <=> i \div BitsPerChunk <= first
  <2>1. i \in Nat /\ first \in Nat /\ first + 1 \in Nat
    BY <1>1, <1>2
  <2>2. i \div BitsPerChunk \in Nat
    BY <1>1, <2>1, SMT
  <2>3. /\ BitsPerChunk * first \in Nat
        /\ BitsPerChunk * (first + 1) = BitsPerChunk * first + BitsPerChunk
    BY <1>1, <2>1, SMT
  <2>4. /\ i < BitsPerChunk * first <=> i \div BitsPerChunk < first
        /\ i < BitsPerChunk * (first + 1) <=> i \div BitsPerChunk < first + 1
    BY <2>1, BelowChunk
  <2> QED
    BY <2>1, <2>2, <2>3, <2>4
<1>6. CASE first + n < chunks
  <2>1. \A i \in FreeBits :
           (i \div BitsPerChunk = first + n /\ (n = 0 => i >= start))
             <=> /\ i >= BitsPerChunk * first
                 /\ i < BitsPerChunk * first + BitsPerChunk => i >= start
                 /\ i \div BitsPerChunk = first + n
    <3> TAKE i \in FreeBits
    <3>1. first \in Nat /\ n \in Nat
      BY <1>1, <1>2
    <3> QED
      BY <1>5, <3>1
  <2>2. Visit(start, n) = {i \in FreeBits : i \div BitsPerChunk = first + n
                                              /\ (n = 0 => i >= start)}
    BY <1>2, <1>3, <1>6
  <2>3. Visit(start, n) = {i \in Ahead(start) : i \div BitsPerChunk = first + n}
    BY <1>4, <2>1, <2>2, Zenon
  <2> QED
    BY <1>2, <1>6, <2>3 DEF first, q
<1>7. CASE ~(first + n < chunks)
  <2>1. n # 0
    BY <1>1, <1>2, <1>7
  <2>2. Visit(start, n) = {i \in FreeBits : i \div BitsPerChunk = first + n - chunks}
    BY <1>2, <1>3, <1>7, <2>1
  <2> QED
    BY <1>2, <1>7, <2>2 DEF first, q
<1> QED
  BY <1>6, <1>7 DEF first, q

\* From every start, the first free bit that the visits meet is the one of the
\* closed form.
LEMMA ScanFindsFree ==
    ASSUME AllocatorInv, NEW start \in Nat
    PROVE  FindFree(start) = FindFreeScan(start)
<1> DEFINE first == (start \div BitsPerChunk) % chunks
           Chunk(i) == i \div BitsPerChunk
           hits == {n \in 0..chunks : Visit(start, n) # {}}
           n0 == Min(hits)
           found == Min(Visit(start, n0))
<1>1. /\ chunks \in Nat \ {0} /\ FreeBits \in SUBSET Nat /\ hits \in SUBSET Nat
      /\ Ahead(start) \subseteq FreeBits
  BY UsedIsFinite, Constants
  DEF AllocatorInv, AllocatorTypeOK, FreeBits, Indices, Ahead
<1>2. first \in 0..(chunks - 1)
  BY <1>1, WhatVisitsSee
<1>3. \A n \in 0..chunks :
        /\ first + n < chunks => Visit(start, n) = {i \in Ahead(start) : Chunk(i) = first + n}
        /\ ~(first + n < chunks) =>
             Visit(start, n) = {i \in FreeBits : Chunk(i) = first + n - chunks}
  BY WhatVisitsSee
<1>4. \A i \in FreeBits : Chunk(i) \in 0..(chunks - 1)
  <2> TAKE i \in FreeBits
  <2>1. i \in Nat /\ i < BitsPerChunk * chunks
    BY <1>1, UsedIsFinite, Constants DEF FreeBits, Tracked
  <2>2. Chunk(i) \in Nat
    BY <2>1, Constants, SMT
  <2>3. Chunk(i) < chunks
    BY <1>1, <2>1, BelowChunk
  <2> QED
    BY <1>1, <2>2, <2>3
<1>5. \A i \in Ahead(start) : Chunk(i) >= first
  <2> TAKE i \in Ahead(start)
  <2>1. i \in Nat /\ i >= BitsPerChunk * first /\ first \in Nat
    BY <1>1, <1>2 DEF Ahead
  <2>2. ~(i < BitsPerChunk * first)
    <3>1. BitsPerChunk * first \in Nat
      BY <2>1, Constants, SMT
    <3> QED
      BY <2>1, <3>1
  <2>3. ~(Chunk(i) < first) /\ Chunk(i) \in Nat
    <3>1. Chunk(i) \in Nat
      BY <2>1, Constants, SMT
    <3> QED
      BY <2>1, <2>2, <3>1, BelowChunk
  <2> QED
    BY <2>1, <2>3
<1>6. \A i, j \in FreeBits : i <= j => Chunk(i) <= Chunk(j)
  <2> SUFFICES ASSUME NEW i \in FreeBits, NEW j \in FreeBits, i <= j,
                      ~(Chunk(i) <= Chunk(j))
               PROVE  FALSE
    OBVIOUS
  <2>1. i \in Nat /\ j \in Nat /\ Chunk(i) \in Nat /\ Chunk(j) \in Nat
    BY <1>1, <1>4
  <2>2. j < BitsPerChunk * Chunk(i)
    BY <2>1, BelowChunk
  <2>3. ~(i < BitsPerChunk * Chunk(i))
    BY <2>1, BelowChunk
  <2>4. BitsPerChunk * Chunk(i) \in Nat
    BY <2>1, Constants, SMT
  <2> QED
    BY <2>1, <2>2, <2>3, <2>4
<1>7. ASSUME hits # {}
      PROVE  /\ FindFreeScan(start) = found
             /\ n0 \in 0..chunks /\ found \in Visit(start, n0)
             /\ \A n \in hits : n0 <= n
             /\ \A i \in Visit(start, n0) : found <= i
             /\ Visit(start, n0) \subseteq FreeBits
  <2>1. n0 \in hits /\ \A n \in hits : n0 <= n
    BY <1>1, <1>7, MinInSet
  <2>2. Visit(start, n0) \subseteq FreeBits /\ Visit(start, n0) # {}
    BY <2>1 DEF Visit
  <2>3. Visit(start, n0) \in SUBSET Nat
    BY <1>1, <2>2
  <2>4. found \in Visit(start, n0) /\ \A i \in Visit(start, n0) : found <= i
    BY <2>2, <2>3, MinInSet
  <2> QED
    BY <1>7, <2>1, <2>2, <2>4 DEF FindFreeScan
<1> HIDE DEF first, Chunk, hits, n0, found
<1>8. CASE Ahead(start) # {}
  <2> DEFINE m == Min(Ahead(start))
             k == Chunk(m) - first
  <2>1. m \in Ahead(start) /\ \A i \in Ahead(start) : m <= i
    BY <1>1, <1>8, MinInSet
  <2>2. m \in FreeBits /\ m \in Nat /\ Chunk(m) \in 0..(chunks - 1) /\ Chunk(m) >= first
    BY <1>1, <1>4, <1>5, <2>1
  <2> HIDE DEF m
  <2>3. k \in 0..chunks /\ first + k < chunks /\ first + k = Chunk(m)
    BY <1>1, <1>2, <2>2
  <2>4. m \in Visit(start, k)
    BY <1>3, <2>1, <2>3
  <2>5. k \in hits /\ hits # {}
    BY <2>3, <2>4 DEF hits
  <2>6. n0 <= k /\ n0 \in 0..chunks /\ first + n0 < chunks
    BY <1>1, <1>2, <1>7, <2>3, <2>5
  <2>7. found \in Ahead(start) /\ Chunk(found) = first + n0
    BY <1>3, <1>7, <2>5, <2>6
  <2>8. Chunk(m) <= Chunk(found)
    BY <1>1, <1>6, <2>1, <2>2, <2>7
  <2>9. n0 = k
    BY <1>1, <1>2, <2>2, <2>3, <2>6, <2>7, <2>8
  <2>10. found <= m /\ m <= found
    BY <1>7, <2>1, <2>4, <2>5, <2>7, <2>9
  <2>11. found \in Nat
    BY <1>1, <2>7
  <2>12. found = m
    BY <2>2, <2>10, <2>11
  <2> QED
    BY <1>7, <1>8, <2>5, <2>12 DEF FindFree, m
<1>9. CASE Ahead(start) = {} /\ FreeBits # {}
  <2> DEFINE m == Min(FreeBits)
             k == Chunk(m) + chunks - first
  <2>1. m \in FreeBits /\ \A i \in FreeBits : m <= i
    BY <1>1, <1>9, MinInSet
  <2>2. m \in Nat /\ Chunk(m) \in 0..(chunks - 1)
    BY <1>1, <1>4, <2>1
  <2> HIDE DEF m
  <2>3. Chunk(m) <= first
    <3> SUFFICES ASSUME ~(Chunk(m) <= first) PROVE FALSE
      OBVIOUS
    <3> DEFINE n == Chunk(m) - first
    <3>1. /\ n \in 0..chunks /\ n # 0 /\ first + n = Chunk(m) /\ first + n < chunks
      BY <1>1, <1>2, <2>2
    <3>2. Chunk(m) = ((start \div BitsPerChunk) + n) % chunks
      <4>1. start \div BitsPerChunk \in Nat
        BY Constants, SMT
      <4>2. ((start \div BitsPerChunk) + n) % chunks = first + n
        BY <1>1, <3>1, <4>1, VisitedChunk DEF first
      <4> QED
        BY <3>1, <4>2
    <3>3. m \in Visit(start, n)
      BY <2>1, <3>1, <3>2 DEF Visit, Chunk
    <3>4. m \in Ahead(start)
      BY <1>3, <3>1, <3>3
    <3> QED
      BY <1>9, <3>4
  <2>4. k \in 0..chunks /\ ~(first + k < chunks) /\ first + k - chunks = Chunk(m)
    BY <1>1, <1>2, <2>2, <2>3
  <2>5. m \in Visit(start, k)
    BY <1>3, <2>1, <2>4
  <2>6. k \in hits /\ hits # {}
    BY <2>4, <2>5 DEF hits
  <2>7. n0 <= k /\ n0 \in 0..chunks /\ found \in FreeBits /\ ~(first + n0 < chunks)
    <3>1. n0 <= k /\ n0 \in 0..chunks /\ found \in FreeBits /\ found \in Visit(start, n0)
      BY <1>7, <2>6
    <3>2. first + n0 < chunks => found \in Ahead(start)
      BY <1>3, <3>1
    <3> QED
      BY <1>9, <3>1, <3>2
  <2>8. Chunk(found) = first + n0 - chunks
    BY <1>3, <1>7, <2>6, <2>7
  <2>9. Chunk(m) <= Chunk(found)
    BY <1>6, <2>1, <2>7
  <2>10. n0 = k
    BY <1>1, <1>2, <2>2, <2>4, <2>7, <2>8, <2>9
  <2>11. found <= m /\ m <= found
    BY <1>7, <2>1, <2>5, <2>6, <2>7, <2>10
  <2>12. found = m
    BY <1>1, <2>2, <2>7, <2>11
  <2> QED
    BY <1>7, <1>9, <2>6, <2>12 DEF FindFree, m
<1>10. CASE FreeBits = {}
  <2>1. hits = {}
    BY <1>10 DEF hits, Visit
  <2>2. FindFreeScan(start) = Wrapped(chunks * BitsPerChunk)
    BY <2>1 DEF FindFreeScan, hits
  <2>3. Ahead(start) = {}
    BY <1>10 DEF Ahead
  <2> QED
    BY <1>10, <2>2, <2>3 DEF FindFree
<1> QED
  BY <1>1, <1>8, <1>9, <1>10

-----------------------------------------------------------------------------
(* The bitset after a bit is set or cleared.                               *)

\* set_free_ grows the bitset enough, and never shrinks it.
LEMMA ResizeCovers ==
    ASSUME AllocatorInv, NEW index \in Indices
    PROVE  /\ ChunksWith(index) \in 1..MaxChunks
           /\ Tracked \subseteq 0..(ChunksWith(index) * BitsPerChunk - 1)
           /\ index \in 0..(ChunksWith(index) * BitsPerChunk - 1)
<1> DEFINE needed == (index \div BitsPerChunk) + 1
<1>1. /\ needed \in 1..MaxChunks
      /\ index < BitsPerChunk * needed
      /\ chunks \in 1..MaxChunks
  BY ChunkOf, Constants DEF AllocatorInv, AllocatorTypeOK
<1> HIDE DEF needed
<1>2. /\ ChunksWith(index) \in 1..MaxChunks
      /\ chunks <= ChunksWith(index)
      /\ needed <= ChunksWith(index)
  BY <1>1, Constants DEF ChunksWith, needed
<1>3. /\ BitsPerChunk * chunks <= BitsPerChunk * ChunksWith(index)
      /\ BitsPerChunk * needed <= BitsPerChunk * ChunksWith(index)
  BY <1>1, <1>2, Constants, Monotonic
<1>4. /\ BitsPerChunk * chunks = chunks * BitsPerChunk
      /\ BitsPerChunk * ChunksWith(index) = ChunksWith(index) * BitsPerChunk
      /\ chunks * BitsPerChunk \in Nat
      /\ ChunksWith(index) * BitsPerChunk \in Nat
      /\ BitsPerChunk * needed \in Nat
  BY <1>1, <1>2, Constants, SMT
<1>5. index \in Nat
  BY Constants DEF Indices
<1> QED
  BY <1>1, <1>2, <1>3, <1>4, <1>5 DEF Tracked

\* Setting a bit that was 0 keeps the invariant while there is room.
LEMMA MarkUsedKeepsBooks ==
    ASSUME AllocatorInv, HasRoom, NEW index \in Indices, IsFree(index), MarkUsed(index),
           num_allocated' = num_allocated + 1,
           last_allocated_index' \in Indices,
           desired_maximum_index' \in 1..MaxIndex
    PROVE  AllocatorInv'
<1>1. IsFiniteSet(used) /\ Cardinality(used) \in Nat /\ used \subseteq Tracked
  BY UsedIsFinite
<1>2. Cardinality(used') = Cardinality(used) + 1
  BY <1>1, FS_AddElement DEF MarkUsed, IsFree
<1>3. AllocatorTypeOK'
  BY ResizeCovers DEF AllocatorInv, AllocatorTypeOK, MarkUsed
<1>4. (used \subseteq Tracked)'
  BY <1>1, ResizeCovers DEF MarkUsed, Tracked
<1>5. BooksAgree'
  BY <1>2, <1>4 DEF AllocatorInv, BooksAgree, MarkUsed
<1>6. (Cardinality(used) <= MaxHeld)'
  BY <1>1, <1>2, Constants DEF HasRoom
<1> QED
  BY <1>3, <1>5, <1>6 DEF AllocatorInv

\* allocate_and_acquire keeps the invariant.
LEMMA AllocateKeepsBooks ==
    ASSUME AllocatorInv, AllocateAndAcquire
    PROVE  AllocatorInv'
<1>1. NextIndex \in Indices /\ IsFree(NextIndex)
  BY NextIndexIsFree DEF AllocateAndAcquire, IsFree
<1>2. RaisedMaximum \in 1..MaxIndex
  BY CandidateType
<1> QED
  BY <1>1, <1>2, MarkUsedKeepsBooks DEF AllocateAndAcquire

\* acquire keeps the invariant.
LEMMA AcquireKeepsBooks ==
    ASSUME AllocatorInv, NEW index \in Indices, Acquire(index)
    PROVE  AllocatorInv'
<1>1. last_allocated_index' \in Indices /\ desired_maximum_index' \in 1..MaxIndex
  BY DEF AllocatorInv, AllocatorTypeOK, Acquire
<1> QED
  BY <1>1, MarkUsedKeepsBooks DEF Acquire

\* release of a held index keeps the invariant.
LEMMA ReleaseKeepsBooks ==
    ASSUME AllocatorInv, NEW index \in used \ {0}, Release(index)
    PROVE  AllocatorInv'
<1>1. /\ IsFiniteSet(used) /\ Cardinality(used) \in Nat
      /\ used \subseteq Tracked /\ index \in Indices
  BY UsedIsFinite
<1>2. Cardinality(used') = Cardinality(used) - 1
  BY <1>1, FS_RemoveElement DEF Release, MarkFree
<1>3. Cardinality(used') \in Nat
  <2>1. IsFiniteSet(used')
    BY <1>1, FS_RemoveElement DEF Release, MarkFree
  <2> QED
    BY <2>1, FS_CardinalityType
<1>4. num_allocated' = Cardinality(used')
  BY <1>2 DEF AllocatorInv, BooksAgree, Release
<1>5. AllocatorTypeOK'
  BY <1>1, <1>3, <1>4, ResizeCovers DEF AllocatorInv, AllocatorTypeOK, Release, MarkFree
<1>6. (used \subseteq Tracked)'
  BY <1>1, ResizeCovers DEF Release, MarkFree, Tracked
<1>7. BooksAgree'
  BY <1>4, <1>6 DEF AllocatorInv, BooksAgree, Release, MarkFree
<1>8. (Cardinality(used) <= MaxHeld)'
  BY <1>1, <1>2, Constants DEF AllocatorInv
<1> QED
  BY <1>5, <1>7, <1>8 DEF AllocatorInv

\* The constructor establishes the invariant.
LEMMA InitEstablishes == AllocatorInit => AllocatorInv
<1> SUFFICES ASSUME AllocatorInit PROVE AllocatorInv
  OBVIOUS
<1>1. 0 \in 0..(1 * BitsPerChunk - 1)
  BY Constants
<1>2. IsFiniteSet({0}) /\ Cardinality({0}) = 1
  BY FS_Singleton
<1> QED
  BY <1>1, <1>2, Constants
  DEF AllocatorInit, AllocatorInv, AllocatorTypeOK, BooksAgree, Tracked, Indices

\* Every operation keeps the invariant.
LEMMA StepKeeps == AllocatorInv /\ [AllocatorNext]_allocator => AllocatorInv'
<1> SUFFICES ASSUME AllocatorInv, [AllocatorNext]_allocator PROVE AllocatorInv'
  OBVIOUS
<1>1. CASE AllocateAndAcquire
  BY <1>1, AllocateKeepsBooks
<1>2. CASE \E index \in Indices \ {0} : Acquire(index)
  BY <1>2, AcquireKeepsBooks
<1>3. CASE \E index \in used \ {0} : Release(index)
  BY <1>3, ReleaseKeepsBooks
<1>4. CASE UNCHANGED allocator
  BY <1>4 DEF allocator, AllocatorInv, AllocatorTypeOK, BooksAgree, Tracked
<1> QED
  BY <1>1, <1>2, <1>3, <1>4 DEF AllocatorNext

\* Every state of the allocator is well typed and keeps its books: the count is
\* the number of bits set, and every bit set lies in the bitset.
THEOREM AllocatorInvariant == AllocatorSpec => []AllocatorInv
<1> QED
  BY InitEstablishes, StepKeeps, PTL DEF AllocatorSpec

\* In every reachable bitset and from every start, the loop of find_free_ over the
\* chunks finds what the closed form of the specification says.
THEOREM SearchIsTheLoop == AllocatorSpec => []FindFreeMatchesScan
<1>1. AllocatorInv => FindFreeMatchesScan
  <2> SUFFICES ASSUME AllocatorInv, NEW start \in Indices
               PROVE  FindFree(start) = FindFreeScan(start)
    BY DEF FindFreeMatchesScan
  <2>1. start \in Nat
    BY Constants DEF Indices
  <2> QED
    BY <2>1, ScanFindsFree
<1> QED
  BY <1>1, AllocatorInvariant, PTL

-----------------------------------------------------------------------------
(* The allocator implements the pool.                                      *)

\* Under the mapping, a new allocator is an empty pool.
LEMMA InitIsPoolInit == AllocatorInit => Pool!Init
<1> QED
  BY DEF AllocatorInit, Pool!Init

\* Under the mapping, every operation takes or gives one index.
LEMMA StepIsPoolStep == AllocatorInv /\ [AllocatorNext]_allocator => [Pool!Next]_(Pool!vars)
<1> SUFFICES ASSUME AllocatorInv, [AllocatorNext]_allocator, ~UNCHANGED Pool!vars
             PROVE  Pool!Next
  OBVIOUS
<1>1. 0 \in used /\ used \subseteq Indices /\ num_allocated \in Nat
  BY DEF AllocatorInv, BooksAgree, AllocatorTypeOK
<1>2. ASSUME NEW index \in Indices, IsFree(index), MarkUsed(index),
             num_allocated' = num_allocated + 1
      PROVE  index \in 1..MaxIndex /\ Pool!Take(index)
  BY <1>1, <1>2, Constants DEF IsFree, MarkUsed, Pool!Take, Indices
<1>3. CASE AllocateAndAcquire
  <2>1. NextIndex \in Indices /\ IsFree(NextIndex) /\ MarkUsed(NextIndex)
        /\ num_allocated' = num_allocated + 1
    BY <1>3, NextIndexIsFree DEF AllocateAndAcquire, IsFree
  <2> QED
    BY <1>2, <2>1 DEF Pool!Next
<1>4. CASE \E index \in Indices \ {0} : Acquire(index)
  BY <1>2, <1>4 DEF Acquire, Pool!Next
<1>5. CASE \E index \in used \ {0} : Release(index)
  <2>1. PICK index \in used \ {0} : Release(index)
    BY <1>5
  <2>2. index \in 1..MaxIndex
    BY <1>1, <2>1, Constants DEF Indices
  <2>3. Pool!Give(index)
    BY <1>1, <2>1 DEF Release, MarkFree, Pool!Give
  <2> QED
    BY <2>2, <2>3 DEF Pool!Next
<1>6. CASE UNCHANGED allocator
  BY <1>6 DEF allocator, Pool!vars
<1> QED
  BY <1>3, <1>4, <1>5, <1>6 DEF AllocatorNext

\* Whatever indices clients ask for and in whatever order devices come and go, no
\* index is given to a second device while the first one has it, and index 0 is
\* never given out: the allocator is a refinement of the pool.
THEOREM AllocatorImplementsPool == AllocatorSpec => ImplementsPool
<1>1. AllocatorInit => Pool!Init
  BY InitIsPoolInit
<1>2. AllocatorInv /\ [AllocatorNext]_allocator => [Pool!Next]_(Pool!vars)
  BY StepIsPoolStep
<1> QED
  BY <1>1, <1>2, AllocatorInvariant, PTL DEF AllocatorSpec, ImplementsPool, Pool!Spec

-----------------------------------------------------------------------------
(* Reuse is postponed.                                                     *)

\* A search that starts inside the bitset does not go back below its start
\* unless nothing is free from there on.
LEMMA FindFreeGoesForward ==
    ASSUME AllocatorInv, NEW start \in Nat, start < chunks * BitsPerChunk,
           NEW free \in FreeBits, free >= start
    PROVE  FindFree(start) >= start
<1> DEFINE q == start \div BitsPerChunk
           first == BitsPerChunk * ((start \div BitsPerChunk) % chunks)
<1>1. chunks \in 1..MaxChunks /\ FreeBits \in SUBSET Nat
  BY UsedIsFinite, Constants DEF AllocatorInv, AllocatorTypeOK, FreeBits, Indices
<1>2. /\ q \in Nat
      /\ BitsPerChunk * q <= start
      /\ start < BitsPerChunk * q + BitsPerChunk
      /\ BitsPerChunk * q \in Nat
  BY Constants, SMT
<1>3. q < chunks
  <2>1. chunks <= q => BitsPerChunk * chunks <= BitsPerChunk * q
    BY <1>1, <1>2, Constants, Monotonic
  <2>2. BitsPerChunk * chunks = chunks * BitsPerChunk /\ chunks * BitsPerChunk \in Nat
    BY <1>1, Constants, SMT
  <2> QED
    BY <1>1, <1>2, <2>1, <2>2
<1>4. first = BitsPerChunk * q
  <2>1. q % chunks = q
    BY <1>1, <1>2, <1>3, SMT
  <2> QED
    BY <2>1
<1> HIDE DEF q, first
<1>5. Ahead(start) = {i \in FreeBits :
                        i >= first /\ (i < first + BitsPerChunk => i >= start)}
  BY DEF Ahead, first
<1>6. ASSUME NEW i \in Ahead(start)
      PROVE  i >= start
  <2>1. i \in Nat /\ first \in Nat /\ start < first + BitsPerChunk
    BY <1>1, <1>2, <1>4, <1>5
  <2>2. i < first + BitsPerChunk => i >= start
    BY <1>5
  <2> QED
    BY <2>1, <2>2, Constants
<1>7. free \in Ahead(start)
  BY <1>1, <1>2, <1>4, <1>5, Constants
<1>8. Ahead(start) \in SUBSET Nat
  BY <1>1, <1>5
<1>9. Min(Ahead(start)) \in Ahead(start)
  BY <1>7, <1>8, MinInSet
<1> QED
  BY <1>6, <1>7, <1>9 DEF FindFree

\* An automatic allocation goes back only when it has to.
LEMMA GoesBackOnlyWhen ==
    ASSUME AllocatorInv, AllocateAndAcquire, NextIndex <= last_allocated_index
    PROVE  \/ Candidate >= RaisedMaximum
           \/ Candidate = 0
           \/ \A i \in FreeBits : i < Candidate
<1> SUFFICES ASSUME Candidate < RaisedMaximum, Candidate # 0,
                    NEW free \in FreeBits, free >= Candidate
             PROVE  FALSE
  <2>1. FreeBits \in SUBSET Nat
    BY UsedIsFinite, Constants DEF FreeBits, Indices
  <2> QED
    BY <2>1, CandidateType, Constants DEF Indices
<1>1. /\ last_allocated_index \in Nat
      /\ Candidate = last_allocated_index + 1
      /\ RaisedMaximum \in 1..MaxIndex
      /\ free \in Nat /\ free < chunks * BitsPerChunk /\ free \notin used
  BY UsedIsFinite, CandidateType, Constants
  DEF AllocatorInv, AllocatorTypeOK, Indices, Candidate, Wrapped, FreeBits, Tracked
<1>2. CASE IsFree(Candidate)
  BY <1>1, <1>2, Constants DEF NextIndex
<1>3. CASE ~IsFree(Candidate)
  <2>1. NextIndex = FindFree(Candidate + 1)
    BY <1>1, <1>3, Constants DEF NextIndex
  <2>2. free >= Candidate + 1
    BY <1>1, <1>3 DEF IsFree
  <2>3. chunks * BitsPerChunk \in Nat
    BY UsedIsFinite, Constants
  <2>4. FindFree(Candidate + 1) >= Candidate + 1
    BY <1>1, <2>2, <2>3, FindFreeGoesForward
  <2>5. NextIndex \in Nat
    BY NextIndexIsFree, Constants DEF AllocateAndAcquire, Indices
  <2> QED
    BY <1>1, <2>1, <2>4, <2>5
<1> QED
  BY <1>2, <1>3

\* An index at or below the last one is given out again only when the candidate
\* is past the desired maximum, when index_t has wrapped around, or when the
\* bitset has nothing free above the candidate.
THEOREM ReuseIsPostponed == AllocatorSpec => ReusePostponed
<1>1. AllocatorInv => (AllocateAndAcquire /\ NextIndex <= last_allocated_index
                         => \/ Candidate >= RaisedMaximum
                            \/ Candidate = 0
                            \/ \A i \in FreeBits : i < Candidate)
  BY GoesBackOnlyWhen
<1> QED
  BY <1>1, AllocatorInvariant, PTL DEF ReusePostponed

-----------------------------------------------------------------------------
(* The device manager.                                                     *)

\* No two devices of a list have the same uid.
Distinct(table) ==
    \A i, j \in Present(table) : table[i].uid = table[j].uid => i = j

\* What one life of the driver needs from the one before: the stored list has no
\* duplicates, and every life begins with nothing in the tables and the allocator.
LivesAreSeparate ==
    /\ Distinct(storage)
    /\ Distinct(pending)
    /\ status # "loading" => pending = EmptyTable
    /\ status = "down" => /\ device_by_index = EmptyTable
                          /\ device_by_uid = [uid \in Uids |-> 0]
                          /\ used = {0}

\* The inductive invariant.
ManagerInv ==
    /\ TypeOK
    /\ AllocatorInv
    /\ TablesAgree
    /\ Live \subseteq used
    /\ PublishedIfEnabled
    /\ LoadingIsFresh
    /\ LivesAreSeparate

\* The state that a restart leaves behind.
Fresh ==
    /\ status = "down"
    /\ pending = EmptyTable
    /\ device_by_index = EmptyTable
    /\ device_by_uid = [uid \in Uids |-> 0]
    /\ hal_devices = {}
    /\ uids = {}
    /\ AllocatorInit
    /\ storage \in Tables
    /\ Distinct(storage)

-----------------------------------------------------------------------------
(* Parts of the device's constructor.                                      *)

\* What the model's sentinels are.
LEMMA Sentinels ==
    /\ NoUid \notin Uids
    /\ NoDevice \notin Infos
    /\ DeviceIndices \subseteq Indices
    /\ 0 \notin DeviceIndices
    /\ 0 \in Indices
  BY ManagerAssumption, Constants DEF DeviceIndices, Indices

\* The index a device gets is the one requested, or one the allocator chose; it
\* was not in use before and is now.
LEMMA AcquiredIndexWasFree ==
    ASSUME AllocatorInv, NEW requested \in Indices, NEW index \in DeviceIndices,
           AcquireIndex(requested, index)
    PROVE  /\ AllocatorInv'
           /\ index \notin used
           /\ used' = used \cup {index}
           /\ requested # 0 => index = requested
<1>1. CASE requested = 0
  <2>1. index = NextIndex /\ AllocateAndAcquire
    BY <1>1 DEF AcquireIndex
  <2>2. NextIndex \notin used
    BY <2>1, NextIndexIsFree DEF AllocateAndAcquire
  <2> QED
    BY <1>1, <2>1, <2>2, AllocateKeepsBooks DEF AllocateAndAcquire, MarkUsed
<1>2. CASE requested # 0
  <2>1. index = requested /\ Acquire(requested)
    BY <1>2 DEF AcquireIndex
  <2> QED
    BY <2>1, AcquireKeepsBooks DEF Acquire, MarkUsed, IsFree
<1> QED
  BY <1>1, <1>2

\* The uid a device gets is the one requested, or a fresh one; no device of the
\* table has it.
LEMMA ChosenUidWasFree ==
    ASSUME TypeOK, NEW request \in Requests, NotTaken(request), NEW uid \in Uids,
           ChooseUid(request.uid, uid)
    PROVE  /\ device_by_uid[uid] = 0
           /\ uids' \subseteq Uids
           /\ request.uid # NoUid => uid = request.uid
  BY DEF ChooseUid, GenerateUid, NotTaken, TypeOK

\* If the two lookups agree after a step, the table then has no two devices with
\* the same uid.
LEMMA AgreementIsDistinct ==
    ASSUME device_by_index' \in Tables, TablesAgree'
    PROVE  Distinct(device_by_index')
<1> SUFFICES ASSUME NEW i \in Live', NEW j \in Live',
                    device_by_index'[i].uid = device_by_index'[j].uid
             PROVE  i = j
  BY DEF Distinct, Live, Present
<1>1. i \in DeviceIndices /\ j \in DeviceIndices
  BY DEF Live, Present
<1>2. device_by_index'[i] \in Infos
  BY <1>1 DEF Live, Present, Tables
<1>3. device_by_index'[i].uid \in Uids
  BY <1>2 DEF Infos
<1>4. /\ device_by_uid'[device_by_index'[i].uid] = i
      /\ device_by_uid'[device_by_index'[i].uid] = j
  BY <1>1, <1>3 DEF TablesAgree
<1> QED
  BY <1>4

\* After a constructor has thrown, only the allocator and the generator have
\* changed, and the index that leaked was free.
LEMMA FailedConstructorKeeps ==
    ASSUME TypeOK, AllocatorInv, NEW request \in Requests, NotTaken(request),
           FailedConstructor(request)
    PROVE  /\ AllocatorInv'
           /\ uids' \subseteq Uids
           /\ UNCHANGED <<device_by_index, device_by_uid, hal_devices, storage>>
           /\ \E index \in DeviceIndices :
                 /\ used' = used \cup {index}
                 /\ request.index # 0 => index = request.index
<1>1. PICK index \in DeviceIndices : AcquireIndex(request.index, index)
  BY DEF FailedConstructor
<1>2. PICK uid \in Uids : ChooseUid(request.uid, uid)
  BY DEF FailedConstructor
<1>3. request.index \in Indices
  BY DEF Requests
<1> QED
  BY <1>1, <1>2, <1>3, AcquiredIndexWasFree, ChosenUidWasFree DEF FailedConstructor

\* Whether the write succeeds or not, a list without duplicates is stored.
LEMMA SaveKeeps ==
    ASSUME storage \in Tables, Distinct(storage),
           NEW table \in Tables, Distinct(table), SaveDevices(table)
    PROVE  storage' \in Tables /\ Distinct(storage')
  BY DEF SaveDevices

\* A device that is constructed gets a free index and a free uid, and appears in
\* both tables, in the allocator and, if it is enabled, in the HAL.
LEMMA RegisterKeeps ==
    ASSUME TypeOK, AllocatorInv, TablesAgree, Live \subseteq used,
           PublishedIfEnabled, Distinct(storage),
           NEW request \in Requests, NotTaken(request), ConstructAndRegister(request)
    PROVE  /\ AllocatorInv'
           /\ uids' \subseteq Uids
           /\ device_by_index' \in Tables
           /\ device_by_uid' \in [Uids -> Indices]
           /\ storage' \in Tables
           /\ TablesAgree'
           /\ Live' \subseteq used'
           /\ PublishedIfEnabled'
           /\ Distinct(storage')
           /\ \E index \in DeviceIndices, uid \in Uids :
                 /\ used' = used \cup {index}
                 /\ Live' = Live \cup {index}
                 /\ device_by_uid' = [device_by_uid EXCEPT ![uid] = index]
                 /\ request.index # 0 => index = request.index
                 /\ request.uid # NoUid => uid = request.uid
<1> DEFINE Info(uid) == [type |-> request.type, uid |-> uid,
                         enabled |-> request.enabled, endpoints |-> request.endpoints]
<1>1. PICK index \in DeviceIndices, uid \in Uids :
         /\ AcquireIndex(request.index, index)
         /\ ChooseUid(request.uid, uid)
         /\ device_by_index' = [device_by_index EXCEPT ![index] = Info(uid)]
         /\ device_by_uid' = [device_by_uid EXCEPT ![uid] = index]
         /\ hal_devices' = hal_devices \cup (IF Info(uid).enabled THEN {index} ELSE {})
         /\ SaveDevices(device_by_index')
  BY DEF ConstructAndRegister
<1>2. /\ AllocatorInv' /\ index \notin used /\ used' = used \cup {index}
      /\ request.index # 0 => index = request.index
  BY <1>1, AcquiredIndexWasFree DEF Requests
<1>3. /\ device_by_uid[uid] = 0 /\ uids' \subseteq Uids
      /\ request.uid # NoUid => uid = request.uid
  BY <1>1, ChosenUidWasFree
<1>4. /\ Info(uid) \in Infos /\ Info(uid) # NoDevice
      /\ Info(uid).uid = uid /\ Info(uid).enabled = request.enabled
  BY Sentinels DEF Requests, Infos
<1>5. /\ device_by_index \in [DeviceIndices -> Infos \cup {NoDevice}]
      /\ device_by_uid \in [Uids -> Indices]
      /\ storage \in Tables
  BY DEF TypeOK, Tables
<1> HIDE DEF Info
<1>6. device_by_index' \in Tables /\ device_by_uid' \in [Uids -> Indices]
  BY <1>1, <1>4, <1>5, Sentinels DEF Tables
<1>7. Live' = Live \cup {index} /\ index \notin Live
  BY <1>1, <1>2, <1>4, <1>5 DEF Live, Present
<1>8. TablesAgree'
  <2> SUFFICES ASSUME NEW u \in Uids, NEW i \in DeviceIndices
               PROVE  device_by_uid'[u] = i
                         <=> i \in Live' /\ device_by_index'[i].uid = u
    BY DEF TablesAgree
  <2>1. device_by_uid[u] = i <=> i \in Live /\ device_by_index[i].uid = u
    BY DEF TablesAgree
  <2>2. CASE u = uid /\ i = index
    BY <1>1, <1>4, <1>5, <1>7, <2>2
  <2>3. CASE u = uid /\ i # index
    BY <1>1, <1>3, <1>5, <1>7, <2>1, <2>3, Sentinels
  <2>4. CASE u # uid /\ i = index
    BY <1>1, <1>4, <1>5, <1>7, <2>1, <2>4
  <2>5. CASE u # uid /\ i # index
    BY <1>1, <1>5, <1>7, <2>1, <2>5
  <2> QED
    BY <2>2, <2>3, <2>4, <2>5
<1>9. PublishedIfEnabled'
  <2>1. hal_devices = {i \in Live : device_by_index[i].enabled}
    BY DEF PublishedIfEnabled
  <2>2. \A i \in Live : device_by_index'[i] = device_by_index[i]
    BY <1>1, <1>5, <1>7
  <2>3. device_by_index'[index] = Info(uid)
    BY <1>1, <1>5
  <2> QED
    BY <1>1, <1>4, <1>7, <2>1, <2>2, <2>3 DEF PublishedIfEnabled
<1>10. Distinct(device_by_index')
  BY <1>6, <1>8, AgreementIsDistinct
<1>11. storage' \in Tables /\ Distinct(storage')
  BY <1>1, <1>5, <1>6, <1>10, SaveKeeps
<1> QED
  BY <1>1, <1>2, <1>3, <1>6, <1>7, <1>8, <1>9, <1>11

-----------------------------------------------------------------------------
(* Requests.                                                               *)

\* An index under which a device can be selected is the index of a device.
LEMMA SelectableIsLive ==
    ASSUME TypeOK, TablesAgree, NEW index \in Selectable
    PROVE  /\ index \in Live /\ index \in DeviceIndices
           /\ device_by_index[index] \in Infos
           /\ device_by_index[index].uid \in Uids
           /\ device_by_uid[device_by_index[index].uid] = index
<1>1. index \in DeviceIndices /\ index \in Live
  BY DEF Selectable, TablesAgree, Live, Present
<1>2. device_by_index[index] \in Infos
  BY <1>1 DEF TypeOK, Tables, Live, Present
<1>3. device_by_index[index].uid \in Uids
  BY <1>2 DEF Infos
<1> QED
  BY <1>1, <1>2, <1>3 DEF TablesAgree

\* add_device keeps the invariant, whether the constructor returns or throws.
LEMMA AddDeviceKeeps ==
    ASSUME ManagerInv, NEW request \in Requests, AddDevice(request)
    PROVE  ManagerInv'
<1>1. /\ status = "running" /\ status' = "running" /\ pending' = pending
      /\ pending = EmptyTable /\ NotTaken(request)
  BY DEF AddDevice, ManagerInv, LivesAreSeparate
<1>2. Present(pending) = {} /\ Present(pending)' = {}
  BY <1>1 DEF Present, EmptyTable
<1>3. LoadingIsFresh'
  BY <1>2 DEF LoadingIsFresh
<1>4. CASE ConstructAndRegister(request)
  <2>1. /\ AllocatorInv' /\ uids' \subseteq Uids
        /\ device_by_index' \in Tables /\ device_by_uid' \in [Uids -> Indices]
        /\ storage' \in Tables /\ Distinct(storage')
        /\ TablesAgree' /\ (Live \subseteq used)' /\ PublishedIfEnabled'
    BY <1>1, <1>4, RegisterKeeps DEF ManagerInv, LivesAreSeparate
  <2>2. TypeOK'
    <3>1. hal_devices' \subseteq DeviceIndices
      BY <2>1 DEF PublishedIfEnabled, Live, Present
    <3> QED
      BY <1>1, <2>1, <3>1 DEF ManagerInv, TypeOK, AllocatorInv
  <2>3. LivesAreSeparate'
    BY <1>1, <2>1 DEF ManagerInv, LivesAreSeparate
  <2> QED
    BY <1>3, <2>1, <2>2, <2>3 DEF ManagerInv
<1>5. CASE FailedConstructor(request)
  <2>1. /\ AllocatorInv' /\ uids' \subseteq Uids
        /\ UNCHANGED <<device_by_index, device_by_uid, hal_devices, storage>>
        /\ used \subseteq used'
    BY <1>1, <1>5, FailedConstructorKeeps DEF ManagerInv
  <2>2. TypeOK'
    BY <1>1, <2>1 DEF ManagerInv, TypeOK, AllocatorInv
  <2>3. TablesAgree' /\ (Live \subseteq used)' /\ PublishedIfEnabled'
    BY <2>1 DEF ManagerInv, TablesAgree, PublishedIfEnabled, Live, Present
  <2>4. LivesAreSeparate'
    BY <1>1, <2>1 DEF ManagerInv, LivesAreSeparate
  <2> QED
    BY <1>3, <2>1, <2>2, <2>3, <2>4 DEF ManagerInv
<1> QED
  BY <1>4, <1>5 DEF AddDevice

\* delete_device keeps the invariant: the index leaves both tables, the HAL and
\* the allocator.
LEMMA DeleteDeviceKeeps ==
    ASSUME ManagerInv, NEW index \in Selectable, DeleteDevice(index)
    PROVE  ManagerInv'
<1> DEFINE gone == device_by_index[index].uid
<1>1. /\ index \in Live /\ index \in DeviceIndices /\ gone \in Uids
      /\ device_by_uid[gone] = index
  BY SelectableIsLive DEF ManagerInv
<1> HIDE DEF gone
<1>2. /\ status = "running" /\ status' = "running" /\ pending' = pending
      /\ uids' = uids /\ pending = EmptyTable
      /\ device_by_index' = [device_by_index EXCEPT ![index] = NoDevice]
      /\ device_by_uid' = [device_by_uid EXCEPT ![gone] = 0]
      /\ SaveDevices(device_by_index')
      /\ hal_devices' = hal_devices \ {index}
      /\ Release(index)
      /\ used' = used \ {index}
  BY DEF DeleteDevice, ManagerInv, LivesAreSeparate, gone, Release, MarkFree
<1>3. AllocatorInv'
  <2>1. index \in used \ {0}
    BY <1>1, Sentinels DEF ManagerInv
  <2> QED
    BY <1>2, <2>1, ReleaseKeepsBooks DEF ManagerInv
<1>4. /\ device_by_index \in [DeviceIndices -> Infos \cup {NoDevice}]
      /\ device_by_uid \in [Uids -> Indices]
  BY DEF ManagerInv, TypeOK, Tables
<1>5. /\ device_by_index' \in Tables /\ device_by_uid' \in [Uids -> Indices]
      /\ Live' = Live \ {index}
  BY <1>1, <1>2, <1>4, Sentinels DEF Tables, Live, Present
<1>6. TablesAgree'
  <2> SUFFICES ASSUME NEW u \in Uids, NEW i \in DeviceIndices
               PROVE  device_by_uid'[u] = i
                         <=> i \in Live' /\ device_by_index'[i].uid = u
    BY DEF TablesAgree
  <2>1. device_by_uid[u] = i <=> i \in Live /\ device_by_index[i].uid = u
    BY DEF ManagerInv, TablesAgree
  <2>2. CASE i = index
    BY <1>1, <1>2, <1>4, <1>5, <2>1, <2>2, Sentinels DEF gone
  <2>3. CASE i # index
    BY <1>1, <1>2, <1>4, <1>5, <2>1, <2>3, Sentinels
  <2> QED
    BY <2>2, <2>3
<1>7. PublishedIfEnabled'
  <2>1. \A i \in Live' : device_by_index'[i] = device_by_index[i]
    BY <1>2, <1>4, <1>5 DEF Live, Present
  <2> QED
    BY <1>2, <1>5, <2>1 DEF ManagerInv, PublishedIfEnabled
<1>8. storage' \in Tables /\ Distinct(storage')
  <2>1. Distinct(device_by_index')
    BY <1>5, <1>6, AgreementIsDistinct
  <2> QED
    BY <1>2, <1>5, <2>1, SaveKeeps DEF ManagerInv, TypeOK, LivesAreSeparate
<1>9. TypeOK' /\ (Live \subseteq used)'
  BY <1>2, <1>3, <1>5, <1>8 DEF ManagerInv, TypeOK, AllocatorInv
<1>10. LoadingIsFresh' /\ LivesAreSeparate'
  BY <1>2, <1>8 DEF ManagerInv, LoadingIsFresh, LivesAreSeparate, Present, EmptyTable
<1> QED
  BY <1>3, <1>6, <1>7, <1>9, <1>10 DEF ManagerInv

\* A request that changes the settings of a device, and neither its names nor what
\* the allocator and the generator know, keeps the invariant.
LEMMA UpdateKeeps ==
    ASSUME ManagerInv, NEW index \in Selectable, NEW info \in Infos,
           status = "running",
           info.uid = device_by_index[index].uid,
           device_by_index' = [device_by_index EXCEPT ![index] = info],
           hal_devices' = IF info.enabled THEN hal_devices \cup {index}
                                          ELSE hal_devices \ {index},
           SaveDevices(device_by_index'),
           UNCHANGED <<status, pending, device_by_uid, uids, allocator>>
    PROVE  ManagerInv'
<1>1. index \in Live /\ index \in DeviceIndices
  BY SelectableIsLive DEF ManagerInv
<1>2. device_by_index \in [DeviceIndices -> Infos \cup {NoDevice}]
  BY DEF ManagerInv, TypeOK, Tables
<1>3. /\ device_by_index' \in Tables /\ Live' = Live
      /\ device_by_index'[index] = info
      /\ \A i \in DeviceIndices : i # index => device_by_index'[i] = device_by_index[i]
  BY <1>1, <1>2, Sentinels DEF Tables, Live, Present
<1>4. TablesAgree'
  <2> SUFFICES ASSUME NEW u \in Uids, NEW i \in DeviceIndices
               PROVE  device_by_uid'[u] = i
                         <=> i \in Live' /\ device_by_index'[i].uid = u
    BY DEF TablesAgree
  <2>1. device_by_uid[u] = i <=> i \in Live /\ device_by_index[i].uid = u
    BY DEF ManagerInv, TablesAgree
  <2> QED
    BY <1>3, <2>1
<1>5. PublishedIfEnabled'
  BY <1>1, <1>3 DEF ManagerInv, PublishedIfEnabled, Live, Present
<1>6. storage' \in Tables /\ Distinct(storage')
  <2>1. device_by_index' \in Tables
    BY <1>3
  <2>2. Distinct(device_by_index')
    BY <1>4, <2>1, AgreementIsDistinct
  <2> QED
    BY <2>1, <2>2, SaveKeeps DEF ManagerInv, TypeOK, LivesAreSeparate
<1>7. AllocatorInv' /\ (Live \subseteq used)'
  BY <1>3 DEF ManagerInv, allocator, AllocatorInv, AllocatorTypeOK, BooksAgree, Tracked
<1>8. TypeOK'
  <2>1. hal_devices' \subseteq DeviceIndices
    BY <1>1 DEF ManagerInv, TypeOK
  <2> QED
    BY <1>3, <1>6, <1>7, <2>1 DEF ManagerInv, TypeOK, AllocatorInv
<1>9. LoadingIsFresh' /\ LivesAreSeparate'
  BY <1>6 DEF ManagerInv, LoadingIsFresh, LivesAreSeparate, Present, EmptyTable, allocator
<1> QED
  BY <1>4, <1>5, <1>7, <1>8, <1>9 DEF ManagerInv

\* toggle_device keeps the invariant.
LEMMA ToggleDeviceKeeps ==
    ASSUME ManagerInv, NEW index \in Selectable, NEW enabled \in BOOLEAN,
           ToggleDevice(index, enabled)
    PROVE  ManagerInv'
<1> DEFINE info == [device_by_index[index] EXCEPT !.enabled = enabled]
<1>1. device_by_index[index] \in Infos
  BY SelectableIsLive DEF ManagerInv
<1>2. /\ info \in Infos /\ info.enabled = enabled
      /\ info.uid = device_by_index[index].uid
  BY <1>1 DEF Infos
<1>3. device_by_index' = [device_by_index EXCEPT ![index] = info]
  BY DEF ToggleDevice
<1> HIDE DEF info
<1> QED
  BY <1>2, <1>3, UpdateKeeps DEF ToggleDevice

\* bind_device and connect_device keep the invariant.
LEMMA AttachEndpointKeeps ==
    ASSUME ManagerInv, NEW index \in Selectable, NEW endpoint \in Endpoints,
           AttachEndpoint(index, endpoint)
    PROVE  ManagerInv'
<1> DEFINE info == [device_by_index[index] EXCEPT !.endpoints = @ \cup {endpoint}]
<1>1. device_by_index[index] \in Infos /\ index \in Live
  BY SelectableIsLive DEF ManagerInv
<1>2. /\ info \in Infos /\ info.uid = device_by_index[index].uid
      /\ info.enabled = device_by_index[index].enabled
  BY <1>1 DEF Infos
<1>3. device_by_index' = [device_by_index EXCEPT ![index] = info]
  BY DEF AttachEndpoint
<1>4. hal_devices' = IF info.enabled THEN hal_devices \cup {index}
                                     ELSE hal_devices \ {index}
  BY <1>1, <1>2 DEF AttachEndpoint, ManagerInv, PublishedIfEnabled
<1> HIDE DEF info
<1> QED
  BY <1>2, <1>3, <1>4, UpdateKeeps DEF AttachEndpoint

-----------------------------------------------------------------------------
(* The life of the driver.                                                 *)

\* The manager starts to load the list in a state where nothing is in use.
LEMMA InitializeKeeps == ManagerInv /\ Initialize => ManagerInv'
<1> SUFFICES ASSUME ManagerInv, Initialize PROVE ManagerInv'
  OBVIOUS
<1>1. /\ status = "down" /\ status' = "loading"
      /\ pending' = storage \/ pending' = EmptyTable
      /\ UNCHANGED <<device_by_index, device_by_uid, hal_devices, uids, storage>>
      /\ UNCHANGED <<used, chunks, num_allocated, last_allocated_index,
                     desired_maximum_index>>
  BY DEF Initialize, allocator
<1>2. pending' \in Tables /\ Distinct(pending')
  BY <1>1 DEF ManagerInv, TypeOK, LivesAreSeparate, EmptyTable, Tables, Distinct, Present
<1>3. LoadingIsFresh'
  <2> SUFFICES ASSUME NEW i \in Present(pending')
               PROVE  i \notin used /\ device_by_uid[pending'[i].uid] = 0
    BY <1>1 DEF LoadingIsFresh, Present
  <2>1. i \in DeviceIndices /\ pending'[i] \in Infos
    BY <1>2 DEF Present, Tables
  <2>2. pending'[i].uid \in Uids
    BY <2>1 DEF Infos
  <2> QED
    BY <1>1, <2>1, <2>2, Sentinels DEF ManagerInv, LivesAreSeparate
<1>4. AllocatorInv' /\ TablesAgree' /\ (Live \subseteq used)' /\ PublishedIfEnabled'
  BY <1>1 DEF ManagerInv, AllocatorInv, AllocatorTypeOK, BooksAgree, Tracked,
              TablesAgree, Live, Present, PublishedIfEnabled
<1>5. TypeOK' /\ LivesAreSeparate'
  BY <1>1, <1>2, <1>4 DEF ManagerInv, TypeOK, AllocatorInv, LivesAreSeparate, Distinct, Present
<1> QED
  BY <1>3, <1>4, <1>5 DEF ManagerInv

\* The next device of the list is added or skipped; those behind it are still
\* free to be added.
LEMMA LoadNextKeeps == ManagerInv /\ LoadNext => ManagerInv'
<1> SUFFICES ASSUME ManagerInv, LoadNext PROVE ManagerInv'
  OBVIOUS
<1> DEFINE index == Min(Present(pending))
           request == [type |-> pending[index].type, index |-> index,
                       uid |-> pending[index].uid,
                       enabled |-> pending[index].enabled,
                       endpoints |-> pending[index].endpoints]
<1>1. /\ status = "loading" /\ status' = status
      /\ NotTaken(request)
      /\ ConstructAndRegister(request) \/ FailedConstructor(request)
      /\ pending' = [pending EXCEPT ![index] = NoDevice]
  BY DEF LoadNext
<1>2. index \in Present(pending) /\ index \in DeviceIndices
  <2>1. Present(pending) \in SUBSET Nat /\ Present(pending) # {}
    BY Constants DEF LoadNext, Present, DeviceIndices, Indices
  <2>2. index \in Present(pending)
    BY <2>1, MinInSet
  <2> QED
    BY <2>2 DEF Present
<1> HIDE DEF index
<1>3. /\ request \in Requests /\ request.index = index /\ request.index # 0
      /\ request.uid = pending[index].uid /\ request.uid # NoUid
  <2>1. pending[index] \in Infos
    BY <1>2 DEF ManagerInv, TypeOK, Tables, Present
  <2> QED
    BY <1>2, <2>1, Sentinels DEF Infos, Requests
<1> HIDE DEF request
<1>4. /\ pending' \in Tables /\ Distinct(pending')
      /\ Present(pending') = Present(pending) \ {index}
      /\ \A i \in Present(pending') : /\ pending'[i] = pending[i]
                                      /\ pending'[i].uid # pending[index].uid
  <2>1. pending \in Tables /\ Distinct(pending)
    BY DEF ManagerInv, TypeOK, LivesAreSeparate
  <2>2. pending' = [pending EXCEPT ![index] = NoDevice]
    BY <1>1
  <2>3. pending' \in Tables
    BY <2>1, <2>2 DEF Tables
  <2>4. \A i \in DeviceIndices :
            pending'[i] = IF i = index THEN NoDevice ELSE pending[i]
    BY <2>1, <2>2 DEF Tables
  <2>5. Present(pending') = Present(pending) \ {index}
    BY <2>4 DEF Present
  <2>6. \A i \in Present(pending') : pending'[i] = pending[i]
    BY <2>4, <2>5 DEF Present
  <2>7. \A i, j \in Present(pending) : pending[i].uid = pending[j].uid => i = j
    BY <2>1 DEF Distinct
  <2>8. \A i \in Present(pending') : pending'[i].uid # pending[index].uid
    BY <1>2, <2>5, <2>6, <2>7
  <2>9. Distinct(pending')
    BY <2>5, <2>6, <2>7 DEF Distinct
  <2> QED
    BY <2>3, <2>5, <2>6, <2>8, <2>9
<1>5. \A i \in Present(pending') : i \notin used /\ device_by_uid[pending'[i].uid] = 0
  BY <1>4 DEF ManagerInv, LoadingIsFresh
<1>6. CASE ConstructAndRegister(request)
  <2>1. /\ AllocatorInv' /\ uids' \subseteq Uids
        /\ device_by_index' \in Tables /\ device_by_uid' \in [Uids -> Indices]
        /\ storage' \in Tables /\ Distinct(storage')
        /\ TablesAgree' /\ (Live \subseteq used)' /\ PublishedIfEnabled'
        /\ used' = used \cup {index}
        /\ device_by_uid' = [device_by_uid EXCEPT ![pending[index].uid] = index]
    BY <1>1, <1>3, <1>6, RegisterKeeps DEF ManagerInv, LivesAreSeparate
  <2>2. LoadingIsFresh'
    <3> SUFFICES ASSUME NEW i \in Present(pending')
                 PROVE  i \notin used' /\ device_by_uid'[pending'[i].uid] = 0
      BY DEF LoadingIsFresh, Present
    <3>1. i # index /\ pending'[i].uid # pending[index].uid
      BY <1>4
    <3>2. pending'[i].uid \in Uids
      BY <1>4 DEF Tables, Present, Infos
    <3> QED
      BY <1>5, <2>1, <3>1, <3>2 DEF ManagerInv, TypeOK
  <2>3. TypeOK'
    <3>1. hal_devices' \subseteq DeviceIndices
      BY <2>1 DEF PublishedIfEnabled, Live, Present
    <3> QED
      BY <1>1, <1>4, <2>1, <3>1 DEF ManagerInv, TypeOK, AllocatorInv
  <2>4. LivesAreSeparate'
    BY <1>1, <1>4, <2>1 DEF LivesAreSeparate, Distinct, Present
  <2> QED
    BY <2>1, <2>2, <2>3, <2>4 DEF ManagerInv
<1>7. CASE FailedConstructor(request)
  <2>1. /\ AllocatorInv' /\ uids' \subseteq Uids
        /\ UNCHANGED <<device_by_index, device_by_uid, hal_devices, storage>>
        /\ used' = used \cup {index}
    BY <1>1, <1>3, <1>7, FailedConstructorKeeps DEF ManagerInv
  <2>2. LoadingIsFresh'
    BY <1>4, <1>5, <2>1 DEF LoadingIsFresh, Present
  <2>3. TypeOK'
    BY <1>1, <1>4, <2>1 DEF ManagerInv, TypeOK, AllocatorInv
  <2>4. TablesAgree' /\ (Live \subseteq used)' /\ PublishedIfEnabled'
    BY <2>1 DEF ManagerInv, TablesAgree, PublishedIfEnabled, Live, Present
  <2>5. LivesAreSeparate'
    BY <1>1, <1>4, <2>1 DEF ManagerInv, LivesAreSeparate, Distinct, Present
  <2> QED
    BY <2>1, <2>2, <2>3, <2>4, <2>5 DEF ManagerInv
<1> QED
  BY <1>1, <1>6, <1>7

\* A turn of the load loop asks for the device of the list that it takes out.
LEMMA LoadNextRequests ==
    ASSUME ManagerInv, LoadNext
    PROVE  /\ status = "loading" /\ status' = "loading"
           /\ \E request \in Requests :
                 /\ request.index \in Present(pending) /\ request.index # 0
                 /\ request.uid # NoUid
                 /\ pending[request.index] =
                        [type |-> request.type, uid |-> request.uid,
                         enabled |-> request.enabled, endpoints |-> request.endpoints]
                 /\ NotTaken(request)
                 /\ \/ ConstructAndRegister(request)
                    \/ "load" \in Faults /\ FailedConstructor(request)
                 /\ pending' = [pending EXCEPT ![request.index] = NoDevice]
<1> DEFINE index == Min(Present(pending))
           request == [type |-> pending[index].type, index |-> index,
                       uid |-> pending[index].uid,
                       enabled |-> pending[index].enabled,
                       endpoints |-> pending[index].endpoints]
<1>1. /\ status = "loading" /\ status' = "loading"
      /\ NotTaken(request)
      /\ ConstructAndRegister(request) \/ ("load" \in Faults /\ FailedConstructor(request))
      /\ pending' = [pending EXCEPT ![index] = NoDevice]
  BY DEF LoadNext
<1>2. index \in Present(pending) /\ index \in DeviceIndices
  <2>1. Present(pending) \in SUBSET Nat /\ Present(pending) # {}
    BY Constants DEF LoadNext, Present, DeviceIndices, Indices
  <2>2. index \in Present(pending)
    BY <2>1, MinInSet
  <2> QED
    BY <2>2 DEF Present
<1> HIDE DEF index
<1>3. /\ request \in Requests /\ request.index = index /\ request.index # 0
      /\ request.uid # NoUid
      /\ pending[index] = [type |-> request.type, uid |-> request.uid,
                           enabled |-> request.enabled, endpoints |-> request.endpoints]
  <2>1. pending[index] \in Infos
    BY <1>2 DEF ManagerInv, TypeOK, Tables, Present
  <2> QED
    BY <1>2, <2>1, Sentinels DEF Infos, Requests
<1> HIDE DEF request
<1> QED
  BY <1>1, <1>2, <1>3

\* When the server is started nothing is left to load.
LEMMA StartServerKeeps == ManagerInv /\ StartServer => ManagerInv'
<1> SUFFICES ASSUME ManagerInv, StartServer PROVE ManagerInv'
  OBVIOUS
<1>1. /\ status' = "running" /\ Present(pending) = {}
      /\ UNCHANGED <<pending, device_by_index, device_by_uid, hal_devices, uids, storage>>
      /\ UNCHANGED <<used, chunks, num_allocated, last_allocated_index,
                     desired_maximum_index>>
  BY DEF StartServer, allocator
<1>2. pending = EmptyTable
  BY <1>1 DEF ManagerInv, TypeOK, Tables, Present, EmptyTable
<1>3. AllocatorInv' /\ TablesAgree' /\ (Live \subseteq used)' /\ PublishedIfEnabled'
      /\ LoadingIsFresh'
  BY <1>1 DEF ManagerInv, AllocatorInv, AllocatorTypeOK, BooksAgree, Tracked,
              TablesAgree, Live, Present, PublishedIfEnabled, LoadingIsFresh
<1>4. TypeOK' /\ LivesAreSeparate'
  BY <1>1, <1>2, <1>3 DEF ManagerInv, TypeOK, AllocatorInv, LivesAreSeparate, Distinct, Present
<1> QED
  BY <1>3, <1>4 DEF ManagerInv

\* A state in which nothing but the storage holds devices satisfies the invariant.
LEMMA FreshIsInvariant == Fresh => ManagerInv
<1> SUFFICES ASSUME Fresh PROVE ManagerInv
  OBVIOUS
<1>1. AllocatorInv
  BY InitEstablishes DEF Fresh
<1>2. EmptyTable \in Tables /\ Present(EmptyTable) = {} /\ Distinct(EmptyTable)
  BY DEF EmptyTable, Tables, Present, Distinct
<1>3. TypeOK
  BY <1>1, <1>2, Sentinels DEF Fresh, TypeOK, AllocatorInv
<1>4. TablesAgree /\ Live \subseteq used /\ PublishedIfEnabled /\ LoadingIsFresh
  BY <1>2, Sentinels DEF Fresh, TablesAgree, Live, PublishedIfEnabled, LoadingIsFresh
<1>5. LivesAreSeparate
  BY <1>2 DEF Fresh, LivesAreSeparate, AllocatorInit
<1> QED
  BY <1>1, <1>3, <1>4, <1>5 DEF ManagerInv

\* The driver is installed with an empty storage.
LEMMA InitIsInvariant == Init => ManagerInv
<1>1. EmptyTable \in Tables /\ Distinct(EmptyTable)
  BY DEF EmptyTable, Tables, Present, Distinct
<1> QED
  BY <1>1, FreshIsInvariant DEF Init, Fresh

\* A restart leaves only the storage, with a list without duplicates.
LEMMA RestartKeeps == ManagerInv /\ Restart => ManagerInv'
<1>1. ManagerInv /\ Restart => Fresh'
  BY DEF Restart, Construct, Fresh, AllocatorInit, EmptyTable, DeviceIndices, Indices,
         MaxIndex, ManagerInv, TypeOK, Tables, LivesAreSeparate, Distinct, Present
<1> QED
  BY <1>1, FreshIsInvariant, PTL

\* A step that changes nothing keeps the invariant.
LEMMA StutterKeeps == ManagerInv /\ UNCHANGED vars => ManagerInv'
<1> SUFFICES ASSUME ManagerInv, UNCHANGED vars PROVE ManagerInv'
  OBVIOUS
<1>1. /\ UNCHANGED <<status, pending, device_by_index, device_by_uid, hal_devices,
                     uids, storage>>
      /\ UNCHANGED <<used, chunks, num_allocated, last_allocated_index,
                     desired_maximum_index>>
  BY DEF vars, allocator
<1>2. TypeOK' /\ AllocatorInv'
  BY <1>1 DEF ManagerInv, TypeOK, AllocatorInv, AllocatorTypeOK, BooksAgree, Tracked
<1>3. TablesAgree' /\ (Live \subseteq used)' /\ PublishedIfEnabled' /\ LoadingIsFresh'
  BY <1>1 DEF ManagerInv, TablesAgree, Live, Present, PublishedIfEnabled, LoadingIsFresh
<1>4. LivesAreSeparate'
  BY <1>1 DEF ManagerInv, LivesAreSeparate, Distinct, Present
<1> QED
  BY <1>2, <1>3, <1>4 DEF ManagerInv

\* Every step keeps the invariant.
LEMMA NextKeeps == ManagerInv /\ [Next]_vars => ManagerInv'
<1> SUFFICES ASSUME ManagerInv, [Next]_vars PROVE ManagerInv'
  OBVIOUS
<1>1. CASE \E request \in Requests : AddDevice(request)
  BY <1>1, AddDeviceKeeps
<1>2. CASE \E index \in Selectable : DeleteDevice(index)
  BY <1>2, DeleteDeviceKeeps
<1>3. CASE \E index \in Selectable, enabled \in BOOLEAN : ToggleDevice(index, enabled)
  BY <1>3, ToggleDeviceKeeps
<1>4. CASE \E index \in Selectable, endpoint \in Endpoints : BindDevice(index, endpoint)
  BY <1>4, AttachEndpointKeeps DEF BindDevice
<1>5. CASE \E index \in Selectable, endpoint \in Endpoints : ConnectDevice(index, endpoint)
  BY <1>5, AttachEndpointKeeps DEF ConnectDevice
<1>6. CASE Initialize
  BY <1>6, InitializeKeeps
<1>7. CASE LoadNext
  BY <1>7, LoadNextKeeps
<1>8. CASE StartServer
  BY <1>8, StartServerKeeps
<1>9. CASE Restart
  BY <1>9, RestartKeeps
<1>10. CASE UNCHANGED vars
  BY <1>10, StutterKeeps
<1> QED
  BY <1>1, <1>2, <1>3, <1>4, <1>5, <1>6, <1>7, <1>8, <1>9, <1>10 DEF Next

-----------------------------------------------------------------------------
(* What follows for every execution of the driver.                         *)

\* The inductive invariant holds in every state of the driver, whatever fails and
\* whenever it is restarted.
THEOREM ManagerInvariant == Spec => []ManagerInv
<1> QED
  BY InitIsInvariant, NextKeeps, PTL DEF Spec

\* Every variable of the driver keeps its type, in every life of it.
THEOREM ManagerTypeOK == Spec => []TypeOK
<1>1. ManagerInv => TypeOK
  BY DEF ManagerInv
<1> QED
  BY <1>1, ManagerInvariant, PTL

\* The two lookups of device_manager.cpp agree: a device is found by its uid
\* exactly when it is found by its index.
THEOREM ManagerTablesAgree == Spec => []TablesAgree
<1>1. ManagerInv => TablesAgree
  BY DEF ManagerInv
<1> QED
  BY <1>1, ManagerInvariant, PTL

\* The index of every device is held in the allocator, whose books are right.
THEOREM ManagerHoldsIndices == Spec => []IndicesHeld
<1>1. ManagerInv => IndicesHeld
  BY DEF ManagerInv, IndicesHeld, AllocatorInv
<1> QED
  BY <1>1, ManagerInvariant, PTL

\* The HAL has exactly the devices that are enabled.
THEOREM ManagerPublishes == Spec => []PublishedIfEnabled
<1>1. ManagerInv => PublishedIfEnabled
  BY DEF ManagerInv
<1> QED
  BY <1>1, ManagerInvariant, PTL

\* Loading in one life of the driver what was saved in another never meets a
\* device with the same index or uid.
THEOREM ManagerLoadsFresh == Spec => []LoadingIsFresh
<1>1. ManagerInv => LoadingIsFresh
  BY DEF ManagerInv
<1> QED
  BY <1>1, ManagerInvariant, PTL

-----------------------------------------------------------------------------
(* The allocator in the manager.                                           *)

\* The manager calls the allocator as its clients may: every step of the driver is an
\* operation of the allocator on a free or a held index, or makes a new allocator.
UsesAllocator == [][AllocatorNext \/ Construct]_allocator

\* An index is requested from the allocator by a device that is constructed.
LEMMA AcquireIndexIsAllocatorStep ==
    ASSUME NEW requested \in Indices, NEW index, AcquireIndex(requested, index)
    PROVE  AllocatorNext
  BY DEF AcquireIndex, AllocatorNext

\* Every step of the driver uses the allocator properly.
LEMMA StepUsesAllocator ==
    ASSUME ManagerInv, [Next]_vars
    PROVE  [AllocatorNext \/ Construct]_allocator
<1>1. ASSUME NEW request \in Requests,
             ConstructAndRegister(request) \/ FailedConstructor(request)
      PROVE  AllocatorNext
  <2>1. PICK index \in DeviceIndices : AcquireIndex(request.index, index)
    BY <1>1 DEF ConstructAndRegister, FailedConstructor
  <2>2. request.index \in Indices
    BY DEF Requests
  <2> QED
    BY <2>1, <2>2, AcquireIndexIsAllocatorStep
<1>2. CASE \E request \in Requests : AddDevice(request)
  BY <1>1, <1>2 DEF AddDevice
<1>3. CASE \E index \in Selectable : DeleteDevice(index)
  <2>1. PICK index \in Selectable : DeleteDevice(index)
    BY <1>3
  <2>2. index \in used \ {0}
    BY SelectableIsLive, Sentinels DEF ManagerInv
  <2> QED
    BY <2>1, <2>2 DEF DeleteDevice, AllocatorNext
<1>4. CASE \E index \in Selectable, enabled \in BOOLEAN : ToggleDevice(index, enabled)
  BY <1>4 DEF ToggleDevice
<1>5. CASE \E index \in Selectable, endpoint \in Endpoints :
              BindDevice(index, endpoint) \/ ConnectDevice(index, endpoint)
  BY <1>5 DEF BindDevice, ConnectDevice, AttachEndpoint
<1>6. CASE Initialize \/ StartServer
  BY <1>6 DEF Initialize, StartServer
<1>7. CASE LoadNext
  <2>1. PICK request \in Requests :
             ConstructAndRegister(request) \/ FailedConstructor(request)
    BY <1>7, LoadNextRequests
  <2> QED
    BY <1>1, <2>1
<1>8. CASE Restart
  BY <1>8 DEF Restart
<1>9. CASE UNCHANGED vars
  BY <1>9 DEF vars
<1> QED
  BY <1>2, <1>3, <1>4, <1>5, <1>6, <1>7, <1>8, <1>9 DEF Next

\* What is proved of the allocator's operations holds of them in the driver, under
\* every fault: the manager never releases an index that is not held, nor index 0.
THEOREM ManagerUsesAllocator == Spec => UsesAllocator
<1>1. ManagerInv /\ [Next]_vars => [AllocatorNext \/ Construct]_allocator
  BY StepUsesAllocator
<1> QED
  BY <1>1, ManagerInvariant, PTL DEF Spec, UsesAllocator

\* Reuse is postponed as long as one life of the driver lasts: a device that is added
\* or loaded gets an index at or below the last one only when the allocator has to
\* go back.
THEOREM ManagerPostponesReuse == Spec => ReusePostponed
<1>1. ManagerInv => (AllocateAndAcquire /\ NextIndex <= last_allocated_index
                       => \/ Candidate >= RaisedMaximum
                          \/ Candidate = 0
                          \/ \A i \in FreeBits : i < Candidate)
  BY GoesBackOnlyWhen DEF ManagerInv
<1> QED
  BY <1>1, ManagerInvariant, PTL DEF ReusePostponed

-----------------------------------------------------------------------------
(* The stored list.                                                        *)

\* While the list is loaded, what is stored is what is loaded, except before the
\* first device is added: then it is the list itself.
StorageInv ==
    Faults \cap {"load", "save", "unreadable"} = {}
        => /\ status = "running" => storage = device_by_index
           /\ status = "loading" => \/ storage = device_by_index
                                    \/ Live = {} /\ storage = pending

\* A table is empty when no device is present in it.
LEMMA NothingPresent ==
    ASSUME NEW table \in Tables, Present(table) = {}
    PROVE  table = EmptyTable
  BY DEF Tables, Present, EmptyTable

\* Every operation that changes the table saves it; loading a list to its end
\* makes the table and the stored list the same.
LEMMA StorageInvKeeps == ManagerInv /\ StorageInv /\ [Next]_vars => StorageInv'
<1> SUFFICES ASSUME ManagerInv, StorageInv, [Next]_vars,
                    "load" \notin Faults, "save" \notin Faults,
                    "unreadable" \notin Faults
             PROVE  /\ status' = "running" => storage' = device_by_index'
                    /\ status' = "loading" => \/ storage' = device_by_index'
                                              \/ Live' = {} /\ storage' = pending'
  BY DEF StorageInv
<1>1. /\ status = "running" => storage = device_by_index
      /\ status = "loading" => \/ storage = device_by_index
                               \/ Live = {} /\ storage = pending
  BY DEF StorageInv
<1>2. \A table : SaveDevices(table) => storage' = table
  BY DEF SaveDevices
<1>3. CASE \E request \in Requests : AddDevice(request)
  BY <1>1, <1>2, <1>3 DEF AddDevice, ConstructAndRegister, FailedConstructor
<1>4. CASE \E index \in Selectable : DeleteDevice(index)
  BY <1>2, <1>4 DEF DeleteDevice
<1>5. CASE \E index \in Selectable, enabled \in BOOLEAN : ToggleDevice(index, enabled)
  BY <1>2, <1>5 DEF ToggleDevice
<1>6. CASE \E index \in Selectable, endpoint \in Endpoints :
              BindDevice(index, endpoint) \/ ConnectDevice(index, endpoint)
  BY <1>2, <1>6 DEF BindDevice, ConnectDevice, AttachEndpoint
<1>7. CASE Initialize
  <2>1. status' = "loading" /\ pending' = storage /\ storage' = storage
        /\ device_by_index' = EmptyTable
    BY <1>7 DEF Initialize, ManagerInv, LivesAreSeparate
  <2>2. Live' = {}
    BY <2>1 DEF Live, Present, EmptyTable
  <2> QED
    BY <2>1, <2>2
<1>8. CASE LoadNext
  BY <1>2, <1>8 DEF LoadNext, ConstructAndRegister
<1>9. CASE StartServer
  <2>1. /\ status = "loading" /\ status' = "running" /\ Present(pending) = {}
        /\ storage' = storage /\ device_by_index' = device_by_index
    BY <1>9 DEF StartServer
  <2>2. pending = EmptyTable
    BY <2>1, NothingPresent DEF ManagerInv, TypeOK
  <2>3. Live = {} => device_by_index = EmptyTable
    BY NothingPresent DEF ManagerInv, TypeOK, Live
  <2> QED
    BY <1>1, <2>1, <2>2, <2>3
<1>10. CASE Restart
  BY <1>10 DEF Restart
<1>11. CASE UNCHANGED vars
  BY <1>1, <1>11 DEF vars, Live, Present
<1> QED
  BY <1>3, <1>4, <1>5, <1>6, <1>7, <1>8, <1>9, <1>10, <1>11 DEF Next

\* As long as the storage can be read and written and stored devices can be
\* constructed, the stored list follows the table while requests are served.
THEOREM ManagerStorageFollows == Spec => []StorageFollows
<1>1. Init => StorageInv
  BY DEF Init, StorageInv
<1>2. StorageInv => StorageFollows
  BY DEF StorageInv, StorageFollows
<1> QED
  BY <1>1, <1>2, ManagerInvariant, StorageInvKeeps, PTL DEF Spec

-----------------------------------------------------------------------------
(* The driver implements the registry.                                     *)

\* Nothing fails but the constructors of requested devices, and no restart comes
\* before the list is loaded: the conditions under which nothing is lost.
NoLoss == Faults \subseteq {"construct"}

\* While requests are served the registry is the table.
LEMMA RunningKnowsTheTable ==
    ManagerInv /\ status = "running" => Known = device_by_index
<1> SUFFICES ASSUME ManagerInv, status = "running" PROVE Known = device_by_index
  OBVIOUS
<1>1. device_by_index \in [DeviceIndices -> Infos \cup {NoDevice}]
  BY DEF ManagerInv, TypeOK, Tables
<1>2. pending = [index \in DeviceIndices |-> NoDevice]
  BY DEF ManagerInv, LivesAreSeparate, EmptyTable
<1>3. \A index \in DeviceIndices :
         (IF index \in Live THEN device_by_index[index] ELSE pending[index])
            = device_by_index[index]
  BY <1>2 DEF Live, Present
<1>4. Known = [index \in DeviceIndices |->
                 IF index \in Live THEN device_by_index[index] ELSE pending[index]]
  BY DEF Known
<1> QED
  BY <1>1, <1>3, <1>4

\* The same in the next state.
LEMMA StillKnowsTheTable ==
    ASSUME ManagerInv', status' = "running"
    PROVE  Known' = device_by_index'
<1>1. (ManagerInv /\ status = "running" => Known = device_by_index)'
  BY RunningKnowsTheTable, PTL
<1> QED
  BY <1>1

\* A change of the table by a request is the same change of the registry.
LEMMA RequestChangesRegistry ==
    ASSUME ManagerInv, ManagerInv', status = "running", status' = "running",
           NEW index \in DeviceIndices, NEW info \in Infos \cup {NoDevice},
           index \in Live \/ info # NoDevice,
           device_by_index' = [device_by_index EXCEPT ![index] = info]
    PROVE  Registry!Next
<1>1. Known = device_by_index
  BY RunningKnowsTheTable
<1>2. Known' = device_by_index'
  BY StillKnowsTheTable
<1>3. CASE index \notin Live
  <2>1. Registry!Create(index, info)
    BY <1>1, <1>2, <1>3 DEF Registry!Create, Live, Present
  <2> QED
    BY <1>3, <2>1 DEF Registry!Next
<1>4. CASE index \in Live /\ info # NoDevice
  <2>1. Registry!Update(index, info)
    BY <1>1, <1>2, <1>4 DEF Registry!Update, Live, Present
  <2> QED
    BY <1>4, <2>1 DEF Registry!Next
<1>5. CASE index \in Live /\ info = NoDevice
  <2>1. Registry!Remove(index)
    BY <1>1, <1>2, <1>5 DEF Registry!Remove, Live, Present
  <2> QED
    BY <2>1 DEF Registry!Next
<1> QED
  BY <1>3, <1>4, <1>5

\* A request, as opposed to a step in the life of the driver.
Request ==
    \/ \E request \in Requests : AddDevice(request)
    \/ \E index \in Selectable : DeleteDevice(index)
    \/ \E index \in Selectable, enabled \in BOOLEAN : ToggleDevice(index, enabled)
    \/ \E index \in Selectable, endpoint \in Endpoints :
            BindDevice(index, endpoint) \/ ConnectDevice(index, endpoint)

\* A request saves the table it has changed, at one index; if it fails it changes
\* neither the table nor the stored list.
LEMMA RequestChangesOneDevice ==
    ASSUME ManagerInv, Request
    PROVE  /\ status = "running" /\ status' = "running"
           /\ \/ UNCHANGED <<device_by_index, storage>>
              \/ \E index \in DeviceIndices, info \in Infos \cup {NoDevice} :
                    /\ index \in Live \/ info # NoDevice
                    /\ device_by_index' = [device_by_index EXCEPT ![index] = info]
                    /\ SaveDevices(device_by_index')
<1>1. ASSUME NEW request \in Requests, ConstructAndRegister(request)
      PROVE  \E index \in DeviceIndices, info \in Infos \cup {NoDevice} :
                /\ index \in Live \/ info # NoDevice
                /\ device_by_index' = [device_by_index EXCEPT ![index] = info]
                /\ SaveDevices(device_by_index')
  <2>1. PICK index \in DeviceIndices, uid \in Uids :
           /\ device_by_index' = [device_by_index EXCEPT ![index] =
                [type |-> request.type, uid |-> uid, enabled |-> request.enabled,
                 endpoints |-> request.endpoints]]
           /\ SaveDevices(device_by_index')
    BY <1>1 DEF ConstructAndRegister
  <2>2. [type |-> request.type, uid |-> uid, enabled |-> request.enabled,
         endpoints |-> request.endpoints] \in Infos
    BY DEF Requests, Infos
  <2> QED
    BY <2>1, <2>2, Sentinels
<1>2. CASE \E request \in Requests : AddDevice(request)
  <2>1. PICK request \in Requests : AddDevice(request)
    BY <1>2
  <2>2. status = "running" /\ status' = "running"
    BY <2>1 DEF AddDevice
  <2>3. CASE ConstructAndRegister(request)
    BY <1>1, <2>2, <2>3
  <2>4. CASE FailedConstructor(request)
    BY <2>2, <2>4 DEF FailedConstructor
  <2> QED
    BY <2>1, <2>3, <2>4 DEF AddDevice
<1>3. CASE \E index \in Selectable : DeleteDevice(index)
  <2>1. PICK index \in Selectable : DeleteDevice(index)
    BY <1>3
  <2>2. index \in Live /\ index \in DeviceIndices
    BY SelectableIsLive DEF ManagerInv
  <2>3. /\ status = "running" /\ status' = "running"
        /\ device_by_index' = [device_by_index EXCEPT ![index] = NoDevice]
        /\ SaveDevices(device_by_index')
    BY <2>1 DEF DeleteDevice
  <2> QED
    BY <2>2, <2>3
<1>4. CASE \E index \in Selectable, enabled \in BOOLEAN : ToggleDevice(index, enabled)
  <2>1. PICK index \in Selectable, enabled \in BOOLEAN : ToggleDevice(index, enabled)
    BY <1>4
  <2>2. index \in DeviceIndices /\ index \in Live /\ device_by_index[index] \in Infos
    BY SelectableIsLive DEF ManagerInv
  <2>3. [device_by_index[index] EXCEPT !.enabled = enabled] \in Infos
    BY <2>2 DEF Infos
  <2>4. /\ status = "running" /\ status' = "running"
        /\ device_by_index' = [device_by_index EXCEPT ![index] =
                                 [device_by_index[index] EXCEPT !.enabled = enabled]]
        /\ SaveDevices(device_by_index')
    BY <2>1 DEF ToggleDevice
  <2> QED
    BY <2>2, <2>3, <2>4
<1>5. CASE \E index \in Selectable, endpoint \in Endpoints :
              BindDevice(index, endpoint) \/ ConnectDevice(index, endpoint)
  <2>1. PICK index \in Selectable, endpoint \in Endpoints :
             BindDevice(index, endpoint) \/ ConnectDevice(index, endpoint)
    BY <1>5
  <2>2. index \in DeviceIndices /\ index \in Live /\ device_by_index[index] \in Infos
    BY SelectableIsLive DEF ManagerInv
  <2>3. [device_by_index[index] EXCEPT !.endpoints = @ \cup {endpoint}] \in Infos
    BY <2>2 DEF Infos
  <2>4. /\ status = "running" /\ status' = "running"
        /\ device_by_index' = [device_by_index EXCEPT ![index] =
                [device_by_index[index] EXCEPT !.endpoints = @ \cup {endpoint}]]
        /\ SaveDevices(device_by_index')
    BY <2>1 DEF BindDevice, ConnectDevice, AttachEndpoint
  <2> QED
    BY <2>2, <2>3, <2>4
<1> QED
  BY <1>2, <1>3, <1>4, <1>5 DEF Request

\* A request is one operation of the registry, or changes nothing in it.
LEMMA RequestIsRegistryStep ==
    ASSUME ManagerInv, ManagerInv', Request
    PROVE  [Registry!Next]_(Registry!vars)
<1>1. /\ status = "running" /\ status' = "running"
      /\ \/ UNCHANGED <<device_by_index, storage>>
         \/ \E index \in DeviceIndices, info \in Infos \cup {NoDevice} :
               /\ index \in Live \/ info # NoDevice
               /\ device_by_index' = [device_by_index EXCEPT ![index] = info]
  BY RequestChangesOneDevice
<1>2. CASE UNCHANGED <<device_by_index, storage>>
  <2>1. Known = device_by_index /\ Known' = device_by_index'
    BY <1>1, RunningKnowsTheTable, StillKnowsTheTable
  <2> QED
    BY <1>1, <1>2, <2>1 DEF Registry!vars
<1>3. CASE \E index \in DeviceIndices, info \in Infos \cup {NoDevice} :
              /\ index \in Live \/ info # NoDevice
              /\ device_by_index' = [device_by_index EXCEPT ![index] = info]
  BY <1>1, <1>3, RequestChangesRegistry
<1> QED
  BY <1>1, <1>2, <1>3

\* A device that is loaded is known before and after, and what is loaded so far is
\* saved; a device whose constructor throws is forgotten, and nothing is saved.
LEMMA LoadingKeepsOrForgets ==
    ASSUME ManagerInv, LoadNext
    PROVE  \/ Known' = Known /\ SaveDevices(device_by_index')
           \/ /\ "load" \in Faults
              /\ storage' = storage
              /\ \E index \in DeviceIndices : Known' = [Known EXCEPT ![index] = NoDevice]
<1>1. PICK request \in Requests :
         /\ status = "loading" /\ status' = "loading"
         /\ request.index \in Present(pending) /\ request.index # 0
         /\ request.uid # NoUid
         /\ pending[request.index] =
                [type |-> request.type, uid |-> request.uid,
                 enabled |-> request.enabled, endpoints |-> request.endpoints]
         /\ \/ ConstructAndRegister(request)
            \/ "load" \in Faults /\ FailedConstructor(request)
         /\ pending' = [pending EXCEPT ![request.index] = NoDevice]
  BY LoadNextRequests
<1> DEFINE index == request.index
<1>2. /\ index \in DeviceIndices /\ index \notin Live
      /\ pending[index] \in Infos /\ pending[index] # NoDevice
      /\ pending \in [DeviceIndices -> Infos \cup {NoDevice}]
      /\ device_by_index \in [DeviceIndices -> Infos \cup {NoDevice}]
  BY <1>1 DEF ManagerInv, TypeOK, Tables, Present, LoadingIsFresh
<1>3. /\ Known = [k \in DeviceIndices |->
                    IF k \in Live THEN device_by_index[k] ELSE pending[k]]
      /\ Known' = [k \in DeviceIndices |->
                    IF k \in Live' THEN device_by_index'[k] ELSE pending'[k]]
  BY <1>1 DEF Known
<1>4. CASE ConstructAndRegister(request)
  <2>1. PICK i \in DeviceIndices, uid \in Uids :
           /\ AcquireIndex(request.index, i)
           /\ ChooseUid(request.uid, uid)
           /\ device_by_index' = [device_by_index EXCEPT ![i] =
                  [type |-> request.type, uid |-> uid, enabled |-> request.enabled,
                   endpoints |-> request.endpoints]]
           /\ SaveDevices(device_by_index')
    BY <1>4 DEF ConstructAndRegister
  <2>2. i = index /\ uid = request.uid
    BY <1>1, <2>1 DEF AcquireIndex, ChooseUid
  <2>3. device_by_index' = [device_by_index EXCEPT ![index] = pending[index]]
    BY <1>1, <2>1, <2>2
  <2> HIDE DEF index
  <2>4. \A k \in DeviceIndices :
           (IF k \in Live' THEN device_by_index'[k] ELSE pending'[k])
              = (IF k \in Live THEN device_by_index[k] ELSE pending[k])
    BY <1>2, <2>3, <1>1 DEF Live, Present, index
  <2> QED
    BY <1>3, <2>1, <2>4
<1>5. CASE "load" \in Faults /\ FailedConstructor(request)
  <2>1. UNCHANGED <<device_by_index, storage>>
    BY <1>5 DEF FailedConstructor
  <2>2. Live' = Live
    BY <2>1 DEF Live, Present
  <2>3. Known' = [Known EXCEPT ![index] = NoDevice]
    BY <1>1, <1>2, <1>3, <2>1, <2>2
  <2> QED
    BY <1>2, <1>5, <2>1, <2>3
<1> QED
  BY <1>1, <1>4, <1>5

\* Under the mapping, every step is a step of the registry or changes nothing.
LEMMA StepIsRegistryStep ==
    ASSUME NoLoss, ManagerInv, ManagerInv', StorageInv, [Next]_vars
    PROVE  [Registry!Next]_(Registry!vars)
<1>1. CASE Request
  BY <1>1, RequestIsRegistryStep
<1>2. CASE Initialize
  <2>1. /\ status = "down" /\ status' = "loading" /\ pending' = storage
        /\ storage \in [DeviceIndices -> Infos \cup {NoDevice}]
        /\ device_by_index' = EmptyTable
    BY <1>2 DEF Initialize, NoLoss, ManagerInv, TypeOK, Tables, LivesAreSeparate
  <2>2. Live' = {}
    BY <2>1 DEF Live, Present, EmptyTable
  <2>3. Known = storage /\ Known' = storage
    BY <2>1, <2>2 DEF Known
  <2> QED
    BY <2>1, <2>3 DEF Registry!vars
<1>3. CASE LoadNext
  <2>1. Known' = Known
    BY <1>3, LoadingKeepsOrForgets DEF NoLoss
  <2>2. status = "loading" /\ status' = "loading"
    BY <1>3 DEF LoadNext
  <2> QED
    BY <2>1, <2>2 DEF Registry!vars
<1>4. CASE StartServer
  <2>1. /\ status = "loading" /\ status' = "running"
        /\ UNCHANGED <<pending, device_by_index>>
    BY <1>4 DEF StartServer
  <2>2. Known' = Known
    BY <2>1 DEF Known, Live, Present
  <2>3. Registry!Start
    BY <2>1, <2>2 DEF Registry!Start
  <2> QED
    BY <2>3 DEF Registry!Next
<1>5. CASE Restart
  <2>1. status = "running" /\ status' = "down" /\ storage' = storage
    BY <1>5 DEF Restart, NoLoss
  <2>2. Known = device_by_index
    BY <2>1, RunningKnowsTheTable
  <2>3. storage = device_by_index
    BY <2>1 DEF StorageInv, NoLoss
  <2>4. Known' = Known
    BY <2>1, <2>2, <2>3 DEF Known
  <2>5. Registry!Stop
    BY <2>1, <2>4 DEF Registry!Stop
  <2> QED
    BY <2>5 DEF Registry!Next
<1>6. CASE UNCHANGED vars
  BY <1>6 DEF vars, Known, Live, Present, Registry!vars
<1> QED
  BY <1>1, <1>2, <1>3, <1>4, <1>5, <1>6 DEF Next, Request

\* If nothing fails but the constructors of requested devices, the driver is a
\* registry that changes only on request: no operation touches a device that it
\* was not asked to touch, and a restart loses nothing and invents nothing.
THEOREM ManagerImplementsRegistry == NoLoss => (Spec => ImplementsRegistry)
<1> SUFFICES ASSUME NoLoss PROVE Spec => ImplementsRegistry
  OBVIOUS
<1>1. Init => Registry!Init
  BY DEF Init, Known, EmptyTable, Registry!Init
<1>2. Init => StorageInv
  BY DEF Init, StorageInv
<1>3. ManagerInv /\ ManagerInv' /\ StorageInv /\ [Next]_vars
         => [Registry!Next]_(Registry!vars)
  BY StepIsRegistryStep
<1> QED
  BY <1>1, <1>2, <1>3, ManagerInvariant, StorageInvKeeps, PTL
  DEF Spec, ImplementsRegistry, Registry!Spec

\* Under the same conditions a restart, wherever it comes, changes nothing that the
\* driver knows: not at the stop, not while the list is loaded, not at the start.
THEOREM ManagerLosesNothing == NoLoss => (Spec => RestartsLoseNothing)
<1> SUFFICES ASSUME NoLoss PROVE Spec => RestartsLoseNothing
  OBVIOUS
<1>1. Init => StorageInv
  BY DEF Init, StorageInv
<1>2. ASSUME ManagerInv, ManagerInv', StorageInv, [Next]_vars,
             status # "running" \/ status' # "running"
      PROVE  UNCHANGED Known
  <2>1. [Registry!Next]_(Registry!vars)
    BY <1>2, StepIsRegistryStep
  <2>2. CASE UNCHANGED Registry!vars
    BY <2>2 DEF Registry!vars
  <2>3. CASE Registry!Next
    BY <1>2, <2>3 DEF Registry!Next, Registry!Create, Registry!Update,
       Registry!Remove, Registry!Stop, Registry!Start
  <2> QED
    BY <2>1, <2>2, <2>3
<1>3. ManagerInv /\ ManagerInv' /\ StorageInv /\ [Next]_vars
         => (status # "running" \/ status' # "running" => UNCHANGED Known)
  BY <1>2
<1> QED
  BY <1>1, <1>3, ManagerInvariant, StorageInvKeeps, PTL DEF Spec, RestartsLoseNothing

-----------------------------------------------------------------------------
(* What remains of the registry when anything may fail.                    *)

\* While it serves, the driver is a registry.
RequestsAreRegistrySteps ==
    [][status = "running" /\ status' = "running"
          => [Registry!Next]_(Registry!vars)]_vars

\* Whatever fails, a request creates, changes or removes the device it names and
\* touches no other: failures lose devices between two lives, never within one.
THEOREM ManagerRequestsAreRegistrySteps == Spec => RequestsAreRegistrySteps
<1>1. ASSUME ManagerInv, ManagerInv', [Next]_vars,
             status = "running", status' = "running"
      PROVE  [Registry!Next]_(Registry!vars)
  <2>1. CASE Request
    BY <1>1, <2>1, RequestIsRegistryStep
  <2>2. CASE Initialize \/ LoadNext \/ StartServer \/ Restart
    BY <1>1, <2>2 DEF Initialize, LoadNext, StartServer, Restart
  <2>3. CASE UNCHANGED vars
    BY <2>3 DEF vars, Known, Live, Present, Registry!vars
  <2> QED
    BY <1>1, <2>1, <2>2, <2>3 DEF Next, Request
<1>2. ManagerInv /\ ManagerInv' /\ [Next]_vars
         => (status = "running" /\ status' = "running"
                => [Registry!Next]_(Registry!vars))
  BY <1>1
<1> QED
  BY <1>2, ManagerInvariant, PTL DEF Spec, RequestsAreRegistrySteps

\* When the driver is not serving, or stops or starts to serve, it may forget a device
\* and remember one, but not take one for another.
RestartsChangeNoDevice ==
    [][status # "running" \/ status' # "running"
          => \A index \in DeviceIndices :
                NoDevice \in {Known[index], Known'[index]} \/ UNCHANGED Known[index]]_vars

\* A stored device is known with the settings that are stored, or not at all.
StorageAgrees ==
    "save" \notin Faults /\ status # "down"
        => \A index \in Present(storage) : Known[index] \in {storage[index], NoDevice}

\* A request saves what is known after it; loading saves what is loaded, and forgets
\* what cannot be constructed.
LEMMA StorageAgreesKeeps ==
    ManagerInv /\ ManagerInv' /\ StorageAgrees /\ [Next]_vars => StorageAgrees'
<1> SUFFICES ASSUME ManagerInv, ManagerInv', StorageAgrees, [Next]_vars,
                    "save" \notin Faults, status' # "down"
             PROVE  \A index \in Present(storage') :
                        Known'[index] \in {storage'[index], NoDevice}
  BY DEF StorageAgrees, Present
<1>1. \A table : SaveDevices(table) => storage' = table
  BY DEF SaveDevices
<1>2. ASSUME status # "down", UNCHANGED <<Known, storage>>
      PROVE  \A index \in Present(storage') :
                Known'[index] \in {storage'[index], NoDevice}
  BY <1>2 DEF StorageAgrees, Present
<1>3. CASE Request
  <2>1. /\ status = "running" /\ status' = "running"
        /\ UNCHANGED <<device_by_index, storage>> \/ SaveDevices(device_by_index')
    BY <1>3, RequestChangesOneDevice
  <2>2. Known = device_by_index /\ Known' = device_by_index'
    BY <2>1, RunningKnowsTheTable, StillKnowsTheTable
  <2>3. CASE UNCHANGED <<device_by_index, storage>>
    BY <1>2, <2>1, <2>2, <2>3
  <2>4. CASE SaveDevices(device_by_index')
    BY <1>1, <2>2, <2>4
  <2> QED
    BY <2>1, <2>3, <2>4
<1>4. CASE Initialize
  <2>1. /\ status' = "loading" /\ storage' = storage
        /\ pending' = storage \/ pending' = EmptyTable
        /\ device_by_index' = EmptyTable
    BY <1>4 DEF Initialize, ManagerInv, LivesAreSeparate
  <2>2. Live' = {}
    BY <2>1 DEF Live, Present, EmptyTable
  <2>3. \A index \in DeviceIndices : Known'[index] = pending'[index]
    BY <2>1, <2>2 DEF Known
  <2> QED
    BY <2>1, <2>3 DEF Present, EmptyTable
<1>5. CASE LoadNext
  <2>1. status = "loading" /\ status' = "loading"
    BY <1>5 DEF LoadNext
  <2>2. CASE Known' = Known /\ SaveDevices(device_by_index')
    <3>1. storage' = device_by_index'
      BY <1>1, <2>2
    <3>2. \A index \in Live' : Known'[index] = device_by_index'[index]
      BY <2>1 DEF Known, Live, Present
    <3>3. Present(storage') = Live'
      BY <3>1 DEF Live, Present
    <3> QED
      BY <3>1, <3>2, <3>3
  <2>3. CASE /\ storage' = storage
             /\ \E i \in DeviceIndices : Known' = [Known EXCEPT ![i] = NoDevice]
    <3>1. PICK i \in DeviceIndices : Known' = [Known EXCEPT ![i] = NoDevice]
      BY <2>3
    <3>2. DOMAIN Known = DeviceIndices
      BY <2>1 DEF Known
    <3>3. \A index \in Present(storage) : Known[index] \in {storage[index], NoDevice}
      BY <2>1 DEF StorageAgrees
    <3>4. Present(storage') = Present(storage) /\ Present(storage) \subseteq DeviceIndices
      BY <2>3 DEF Present
    <3>5. \A index \in DeviceIndices : Known'[index] \in {Known[index], NoDevice}
      BY <3>1, <3>2
    <3> QED
      BY <2>3, <3>3, <3>4, <3>5
  <2> QED
    BY <1>5, <2>2, <2>3, LoadingKeepsOrForgets
<1>6. CASE StartServer
  <2>1. /\ status = "loading" /\ status' = "running"
        /\ UNCHANGED <<pending, device_by_index, storage>>
    BY <1>6 DEF StartServer
  <2>2. Known' = Known
    BY <2>1 DEF Known, Live, Present
  <2> QED
    BY <1>2, <2>1, <2>2
<1>7. CASE Restart
  BY <1>7 DEF Restart
<1>8. CASE UNCHANGED vars
  <2>1. UNCHANGED <<Known, storage>> /\ status' = status
    BY <1>8 DEF vars, Known, Live, Present
  <2> QED
    BY <1>2, <2>1
<1> QED
  BY <1>3, <1>4, <1>5, <1>6, <1>7, <1>8 DEF Next, Request

\* As long as what is written reaches the storage, a restart may forget devices, or
\* bring back what an earlier one forgot, but gives none the settings of another, even
\* if lists cannot be read, stored devices cannot be constructed and loading is
\* interrupted.
THEOREM ManagerRestartsChangeNoDevice ==
    "save" \notin Faults => (Spec => RestartsChangeNoDevice)
<1> SUFFICES ASSUME "save" \notin Faults PROVE Spec => RestartsChangeNoDevice
  OBVIOUS
<1>1. Init => StorageAgrees
  BY DEF Init, StorageAgrees
<1>2. ASSUME ManagerInv, ManagerInv', StorageAgrees, [Next]_vars,
             status # "running" \/ status' # "running", NEW index \in DeviceIndices
      PROVE  NoDevice \in {Known[index], Known'[index]} \/ UNCHANGED Known[index]
  <2>1. CASE Request
    BY <1>2, <2>1, RequestChangesOneDevice
  <2>2. CASE Initialize
    <3>1. /\ status = "down" /\ status' = "loading"
          /\ pending' = storage \/ pending' = EmptyTable
          /\ device_by_index' = EmptyTable
      BY <1>2, <2>2 DEF Initialize, ManagerInv, LivesAreSeparate
    <3>2. Live' = {}
      BY <3>1 DEF Live, Present, EmptyTable
    <3>3. Known'[index] = pending'[index] /\ Known = storage
      BY <3>1, <3>2 DEF Known
    <3> QED
      BY <3>1, <3>3 DEF EmptyTable
  <2>3. CASE LoadNext
    <3>1. DOMAIN Known = DeviceIndices
      BY <2>3 DEF Known, LoadNext
    <3>2. Known' = Known \/ \E i \in DeviceIndices : Known' = [Known EXCEPT ![i] = NoDevice]
      BY <1>2, <2>3, LoadingKeepsOrForgets
    <3> QED
      BY <3>1, <3>2
  <2>4. CASE StartServer
    BY <2>4 DEF StartServer, Known, Live, Present
  <2>5. CASE Restart
    <3>1. status # "down" /\ status' = "down" /\ storage' = storage
      BY <2>5 DEF Restart
    <3>2. Known' = storage
      BY <3>1 DEF Known
    <3>3. index \in Present(storage) => Known[index] \in {storage[index], NoDevice}
      BY <1>2, <3>1 DEF StorageAgrees
    <3> QED
      BY <3>2, <3>3 DEF Present
  <2>6. CASE UNCHANGED vars
    BY <2>6 DEF vars, Known, Live, Present
  <2> QED
    BY <1>2, <2>1, <2>2, <2>3, <2>4, <2>5, <2>6 DEF Next, Request
<1>3. ManagerInv /\ ManagerInv' /\ StorageAgrees /\ [Next]_vars
         => (status # "running" \/ status' # "running"
                => \A index \in DeviceIndices :
                     NoDevice \in {Known[index], Known'[index]} \/ UNCHANGED Known[index])
  BY <1>2
<1> QED
  BY <1>1, <1>3, ManagerInvariant, StorageAgreesKeeps, PTL DEF Spec, RestartsChangeNoDevice

\* A uid names one device of the registry, loaded, still to be loaded or stored.
UidsNameDevices ==
    \A i, j \in Present(Known) : Known[i].uid = Known[j].uid => i = j

\* However the driver fails and is restarted, it never knows two devices with the same
\* uid: the roc-vad that is given a uid finds one device or none.
THEOREM ManagerUidsNameDevices == Spec => []UidsNameDevices
<1>1. ASSUME ManagerInv, NEW i \in Present(Known), NEW j \in Present(Known),
             Known[i].uid = Known[j].uid
      PROVE  i = j
  <2>1. CASE status = "down"
    BY <1>1, <2>1 DEF Known, ManagerInv, LivesAreSeparate, Distinct
  <2>2. CASE status # "down"
    <3>1. /\ i \in DeviceIndices /\ j \in DeviceIndices
          /\ \A k \in DeviceIndices :
               Known[k] = IF k \in Live THEN device_by_index[k] ELSE pending[k]
      BY <2>2 DEF Known, Present
    <3>2. ASSUME NEW k \in Live
          PROVE  /\ k \in DeviceIndices /\ k # 0
                 /\ device_by_uid[device_by_index[k].uid] = k
      <4>1. k \in DeviceIndices /\ device_by_index[k] \in Infos
        BY <1>1 DEF ManagerInv, TypeOK, Tables, Live, Present
      <4>2. device_by_index[k].uid \in Uids
        BY <4>1 DEF Infos
      <4> QED
        BY <1>1, <4>1, <4>2, Sentinels DEF ManagerInv, TablesAgree
    <3>3. ASSUME NEW k \in Present(Known), k \notin Live
          PROVE  k \in Present(pending) /\ device_by_uid[pending[k].uid] = 0
      BY <1>1, <3>1, <3>3 DEF ManagerInv, LoadingIsFresh, Present
    <3>4. CASE i \in Live /\ j \in Live
      BY <1>1, <3>1, <3>2, <3>4
    <3>5. CASE i \in Live /\ j \notin Live
      BY <1>1, <3>1, <3>2, <3>3, <3>5
    <3>6. CASE i \notin Live /\ j \in Live
      BY <1>1, <3>1, <3>2, <3>3, <3>6
    <3>7. CASE i \notin Live /\ j \notin Live
      BY <1>1, <3>1, <3>3, <3>7 DEF ManagerInv, LivesAreSeparate, Distinct
    <3> QED
      BY <3>4, <3>5, <3>6, <3>7
  <2> QED
    BY <2>1, <2>2
<1>2. ManagerInv => UidsNameDevices
  BY <1>1 DEF UidsNameDevices
<1> QED
  BY <1>2, ManagerInvariant, PTL

-----------------------------------------------------------------------------
(* Where indices leak.                                                     *)

\* Constructing and deleting devices takes and returns their indices, and nothing
\* else but a constructor that throws touches the allocator.
LEMMA HeldByDevicesKeeps ==
    ASSUME {"construct", "load"} \cap Faults = {},
           ManagerInv, RefusedOnlyIfTaken, [Next]_vars
    PROVE  RefusedOnlyIfTaken'
<1> SUFFICES used' \subseteq Live' \cup {0}
  BY DEF RefusedOnlyIfTaken
<1>1. used \subseteq Live \cup {0}
  BY DEF RefusedOnlyIfTaken
<1>2. ASSUME NEW request \in Requests, NotTaken(request), ConstructAndRegister(request)
      PROVE  used' \subseteq Live' \cup {0}
  <2>1. \E index \in DeviceIndices :
           used' = used \cup {index} /\ Live' = Live \cup {index}
    BY <1>2, RegisterKeeps DEF ManagerInv, LivesAreSeparate
  <2> QED
    BY <1>1, <2>1
<1>3. ASSUME NEW index \in Selectable, NEW info \in Infos,
             device_by_index' = [device_by_index EXCEPT ![index] = info], used' = used
      PROVE  used' \subseteq Live' \cup {0}
  <2>1. device_by_index \in [DeviceIndices -> Infos \cup {NoDevice}]
    BY DEF ManagerInv, TypeOK, Tables
  <2>2. Live' = Live
    BY <1>3, <2>1, SelectableIsLive, Sentinels DEF ManagerInv, Live, Present
  <2> QED
    BY <1>1, <1>3, <2>2
<1>4. CASE \E request \in Requests : AddDevice(request)
  BY <1>2, <1>4 DEF AddDevice
<1>5. CASE \E index \in Selectable : DeleteDevice(index)
  <2>1. PICK index \in Selectable : DeleteDevice(index)
    BY <1>5
  <2>2. used' = used \ {index} /\ device_by_index' = [device_by_index EXCEPT ![index] = NoDevice]
    BY <2>1 DEF DeleteDevice, Release, MarkFree
  <2>3. device_by_index \in [DeviceIndices -> Infos \cup {NoDevice}]
    BY DEF ManagerInv, TypeOK, Tables
  <2>4. Live' = Live \ {index}
    BY <2>2, <2>3, SelectableIsLive DEF ManagerInv, Live, Present
  <2> QED
    BY <1>1, <2>2, <2>4
<1>6. CASE \E index \in Selectable, enabled \in BOOLEAN : ToggleDevice(index, enabled)
  <2>1. PICK index \in Selectable, enabled \in BOOLEAN : ToggleDevice(index, enabled)
    BY <1>6
  <2>2. device_by_index[index] \in Infos
    BY SelectableIsLive DEF ManagerInv
  <2>3. [device_by_index[index] EXCEPT !.enabled = enabled] \in Infos
    BY <2>2 DEF Infos
  <2>4. /\ device_by_index' = [device_by_index EXCEPT ![index] =
                                 [device_by_index[index] EXCEPT !.enabled = enabled]]
        /\ used' = used
    BY <2>1 DEF ToggleDevice, allocator
  <2> QED
    BY <1>3, <2>3, <2>4
<1>7. CASE \E index \in Selectable, endpoint \in Endpoints :
              BindDevice(index, endpoint) \/ ConnectDevice(index, endpoint)
  <2>1. PICK index \in Selectable, endpoint \in Endpoints :
             BindDevice(index, endpoint) \/ ConnectDevice(index, endpoint)
    BY <1>7
  <2>2. device_by_index[index] \in Infos
    BY SelectableIsLive DEF ManagerInv
  <2>3. [device_by_index[index] EXCEPT !.endpoints = @ \cup {endpoint}] \in Infos
    BY <2>2 DEF Infos
  <2>4. /\ device_by_index' = [device_by_index EXCEPT ![index] =
                [device_by_index[index] EXCEPT !.endpoints = @ \cup {endpoint}]]
        /\ used' = used
    BY <2>1 DEF BindDevice, ConnectDevice, AttachEndpoint, allocator
  <2> QED
    BY <1>3, <2>3, <2>4
<1>8. CASE Initialize \/ StartServer \/ UNCHANGED vars
  BY <1>1, <1>8 DEF Initialize, StartServer, vars, allocator, Live, Present
<1>9. CASE LoadNext
  <2>1. PICK request \in Requests : NotTaken(request) /\ ConstructAndRegister(request)
    BY <1>9, LoadNextRequests
  <2> QED
    BY <1>2, <2>1
<1>10. CASE Restart
  BY <1>10 DEF Restart, Construct
<1> QED
  BY <1>4, <1>5, <1>6, <1>7, <1>8, <1>9, <1>10 DEF Next

\* An index is refused only if a device has it, unless a constructor has thrown: the
\* constructors that throw are the only leak of indices, whatever else fails.
THEOREM OnlyConstructorsLeak ==
    {"construct", "load"} \cap Faults = {} => (Spec => []RefusedOnlyIfTaken)
<1> SUFFICES ASSUME {"construct", "load"} \cap Faults = {}
             PROVE  Spec => []RefusedOnlyIfTaken
  OBVIOUS
<1>1. Init => RefusedOnlyIfTaken
  BY DEF Init, AllocatorInit, Construct, RefusedOnlyIfTaken
<1>2. ManagerInv /\ RefusedOnlyIfTaken /\ [Next]_vars => RefusedOnlyIfTaken'
  BY HeldByDevicesKeeps
<1> QED
  BY <1>1, <1>2, ManagerInvariant, PTL DEF Spec

-----------------------------------------------------------------------------
(* Loading goes on to its end.                                             *)

\* The next device of the list is not refused: not by the allocator, which has room
\* for it, and not by add_device.
LoadingGoesOn ==
    status = "loading" /\ Present(pending) # {} =>
        LET index == Min(Present(pending))
        IN  /\ HasRoom /\ IsFree(index)
            /\ device_by_index[index] = NoDevice
            /\ device_by_uid[pending[index].uid] = 0

\* What is stored fits the allocator of the next life, and what is left of the list
\* fits beside what has been tried.
RoomInv ==
    /\ Cardinality(Present(storage)) < MaxHeld
    /\ status = "loading" => Cardinality(used) + Cardinality(Present(pending)) <= MaxHeld

\* The devices of a table can be counted.
LEMMA PresentIsFinite ==
    ASSUME NEW table
    PROVE  IsFiniteSet(Present(table)) /\ Cardinality(Present(table)) \in Nat
<1>1. IsFiniteSet(Indices)
  BY Constants, FS_Interval DEF Indices
<1>2. Present(table) \subseteq Indices
  BY DEF Present, DeviceIndices
<1> QED
  BY <1>1, <1>2, FS_Subset, FS_CardinalityType

\* The devices of the table are fewer than the indices held, 0 being one of them.
LEMMA TableFits ==
    ManagerInv => Cardinality(Live) < MaxHeld
<1> SUFFICES ASSUME ManagerInv PROVE Cardinality(Live) < MaxHeld
  OBVIOUS
<1>1. /\ IsFiniteSet(used) /\ Cardinality(used) \in Nat
      /\ Cardinality(used) <= MaxHeld /\ 0 \in used
  BY UsedIsFinite DEF ManagerInv, AllocatorInv, BooksAgree
<1>2. Live \subseteq used \ {0}
  BY Sentinels DEF ManagerInv, Live, Present
<1>3. IsFiniteSet(used \ {0}) /\ Cardinality(used \ {0}) = Cardinality(used) - 1
  BY <1>1, FS_RemoveElement
<1>4. Cardinality(Live) <= Cardinality(used \ {0})
  BY <1>2, <1>3, FS_Subset
<1>5. Cardinality(Live) \in Nat
  BY PresentIsFinite DEF Live
<1> QED
  BY <1>1, <1>3, <1>4, <1>5, Constants

\* Nothing is stored but the table.
LEMMA OnlyTheTableIsStored ==
    ASSUME ManagerInv, [Next]_vars
    PROVE  storage' = storage \/ storage' = device_by_index'
<1>1. \A table : SaveDevices(table) => storage' = table \/ storage' = storage
  BY DEF SaveDevices
<1>2. CASE Request
  BY <1>1, <1>2, RequestChangesOneDevice
<1>3. CASE LoadNext
  BY <1>1, <1>3, LoadingKeepsOrForgets
<1>4. CASE Initialize \/ StartServer \/ Restart \/ UNCHANGED vars
  BY <1>4 DEF Initialize, StartServer, Restart, vars
<1> QED
  BY <1>2, <1>3, <1>4 DEF Next, Request

\* A turn of the load loop takes one index, whether the constructor returns or throws,
\* and one device of the list.
LEMMA LoadNextTakesOne ==
    ASSUME ManagerInv, LoadNext
    PROVE  /\ Cardinality(used') = Cardinality(used) + 1
           /\ Cardinality(Present(pending')) = Cardinality(Present(pending)) - 1
<1>1. PICK request \in Requests :
         /\ request.index \in Present(pending) /\ request.index # 0
         /\ NotTaken(request)
         /\ ConstructAndRegister(request) \/ FailedConstructor(request)
         /\ pending' = [pending EXCEPT ![request.index] = NoDevice]
  BY LoadNextRequests
<1> DEFINE index == request.index
<1>2. used' = used \cup {index}
  <2>1. CASE ConstructAndRegister(request)
    BY <1>1, <2>1, RegisterKeeps DEF ManagerInv, LivesAreSeparate
  <2>2. CASE FailedConstructor(request)
    BY <1>1, <2>2, FailedConstructorKeeps DEF ManagerInv
  <2> QED
    BY <1>1, <2>1, <2>2
<1>3. index \notin used
  BY <1>1 DEF ManagerInv, LoadingIsFresh
<1>4. Present(pending') = Present(pending) \ {index}
  BY <1>1 DEF ManagerInv, TypeOK, Tables, Present
<1>5. IsFiniteSet(used) /\ IsFiniteSet(Present(pending))
  BY UsedIsFinite, PresentIsFinite DEF ManagerInv
<1>6. index \in Present(pending)
  BY <1>1
<1> HIDE DEF index
<1> QED
  BY <1>2, <1>3, <1>4, <1>5, <1>6, FS_AddElement, FS_RemoveElement

\* The stored list is a table of some life, and loading it tries each device once.
LEMMA RoomInvKeeps == ManagerInv /\ ManagerInv' /\ RoomInv /\ [Next]_vars => RoomInv'
<1> SUFFICES ASSUME ManagerInv, ManagerInv', RoomInv, [Next]_vars
             PROVE  RoomInv'
  OBVIOUS
<1>1. Cardinality(Present(storage')) < MaxHeld
  <2>1. (ManagerInv => Cardinality(Live) < MaxHeld)'
    BY TableFits, PTL
  <2>2. Cardinality(Present(device_by_index')) < MaxHeld
    BY <2>1 DEF Live, Present
  <2> QED
    BY <2>2, OnlyTheTableIsStored DEF RoomInv
<1>2. ASSUME status' = "loading"
      PROVE  Cardinality(used') + Cardinality(Present(pending')) <= MaxHeld
  <2>1. CASE Request
    BY <1>2, <2>1, RequestChangesOneDevice
  <2>2. CASE Initialize
    <3>1. used' = {0} /\ (pending' = storage \/ pending' = EmptyTable)
      BY <2>2 DEF Initialize, ManagerInv, LivesAreSeparate, allocator
    <3>2. Cardinality({0}) = 1
      BY FS_EmptySet, FS_AddElement
    <3>3. Cardinality(Present(EmptyTable)) = 0
      BY FS_EmptySet DEF Present, EmptyTable
    <3>4. Cardinality(Present(storage)) \in Nat /\ Cardinality(Present(storage)) < MaxHeld
      BY PresentIsFinite DEF RoomInv
    <3> QED
      BY <3>1, <3>2, <3>3, <3>4, Constants
  <2>3. CASE LoadNext
    <3>1. Cardinality(used) + Cardinality(Present(pending)) <= MaxHeld
      BY <2>3 DEF RoomInv, LoadNext
    <3>2. Cardinality(used) \in Nat /\ Cardinality(Present(pending)) \in Nat
      BY UsedIsFinite, PresentIsFinite DEF ManagerInv
    <3> QED
      BY <2>3, <3>1, <3>2, LoadNextTakesOne
  <2>4. CASE StartServer \/ Restart
    BY <1>2, <2>4 DEF StartServer, Restart
  <2>5. CASE UNCHANGED vars
    BY <1>2, <2>5 DEF vars, allocator, RoomInv, Present
  <2> QED
    BY <2>1, <2>2, <2>3, <2>4, <2>5 DEF Next, Request
<1> QED
  BY <1>1, <1>2 DEF RoomInv

\* What one life of the driver could hold the next one can load, whatever failed in
\* between: each device of the list is tried, until none is left.
THEOREM LoadingNeverBlocks == Spec => []LoadingGoesOn
<1>1. Init => RoomInv
  <2>1. Present(EmptyTable) = {}
    BY DEF Present, EmptyTable
  <2> QED
    BY <2>1, FS_EmptySet, Constants DEF Init, RoomInv
<1>2. ASSUME ManagerInv, RoomInv PROVE LoadingGoesOn
  <2> SUFFICES ASSUME status = "loading", NEW index \in Present(pending),
                      index = Min(Present(pending))
               PROVE  /\ HasRoom /\ IsFree(index)
                      /\ device_by_index[index] = NoDevice
                      /\ device_by_uid[pending[index].uid] = 0
    <3>1. Present(pending) \in SUBSET Nat
      BY Constants DEF Present, DeviceIndices, Indices
    <3>2. Present(pending) # {} => Min(Present(pending)) \in Present(pending)
      BY <3>1, MinInSet
    <3> QED
      BY <3>2 DEF LoadingGoesOn
  <2>1. index \notin used /\ device_by_uid[pending[index].uid] = 0
    BY <1>2 DEF ManagerInv, LoadingIsFresh
  <2>2. device_by_index[index] = NoDevice
    BY <1>2, <2>1 DEF ManagerInv, Live, Present
  <2>3. HasRoom
    <3>1. /\ Cardinality(used) \in Nat
          /\ Cardinality(Present(pending)) \in Nat
          /\ Cardinality(Present(pending)) # 0
          /\ Cardinality(used) + Cardinality(Present(pending)) <= MaxHeld
      BY <1>2, UsedIsFinite, PresentIsFinite, FS_EmptySet DEF ManagerInv, RoomInv
    <3> QED
      BY <3>1, Constants DEF HasRoom
  <2> QED
    BY <2>1, <2>2, <2>3 DEF IsFree
<1>3. ManagerInv /\ RoomInv => LoadingGoesOn
  BY <1>2
<1> QED
  BY <1>1, <1>3, ManagerInvariant, RoomInvKeeps, PTL DEF Spec

=============================================================================
