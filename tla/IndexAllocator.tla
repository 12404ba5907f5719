--------------------------- MODULE IndexAllocator ---------------------------
(***************************************************************************)
(* The allocator of device indices, driver/index_allocator.cpp.  It keeps  *)
(* a bitset that grows by whole chunks, the index it allocated last and a  *)
(* "desired maximum" under which it tries to keep indices.                 *)
(*                                                                         *)
(* The bitset is the pair of the set of indices whose bit is 1 (used) and  *)
(* the number of chunks (chunks): a bit beyond the last chunk reads as     *)
(* free.  The code's chunks have 64 bits, its index_t has 32 (MaxChunks =  *)
(* 2^26) and its first desired maximum is 99; all three are constants.     *)
(***************************************************************************)
EXTENDS Integers, FiniteSets, FiniteSetsExt

CONSTANTS
    BitsPerChunk,       \* bits_per_chunk
    MaxChunks,          \* chunks that index_t can address
    InitialMaximum,     \* initial desired_maximum_index_
    MaxHeld             \* bound: the most indices held at a time, with index 0

MaxIndex == BitsPerChunk * MaxChunks - 1    \* numeric_limits<index_t>::max()
Indices == 0..MaxIndex

ASSUME AllocatorAssumption ==
    /\ BitsPerChunk \in Nat \ {0}
    /\ MaxChunks \in Nat \ {0}
    /\ InitialMaximum \in 1..MaxIndex
    /\ MaxHeld \in 1..(MaxIndex + 1)

VARIABLES
    used,                       \* index_bitset_: the bits that are 1
    chunks,                     \* index_bitset_.size()
    num_allocated,              \* num_allocated_
    last_allocated_index,       \* last_allocated_index_
    desired_maximum_index       \* desired_maximum_index_

allocator == <<used, chunks, num_allocated, last_allocated_index,
          desired_maximum_index>>

-----------------------------------------------------------------------------
(* The bitset.                                                             *)

\* Arithmetic on index_t: one wrap-around is enough for the sums the code makes.
Wrapped(n) == IF n > MaxIndex THEN n - (MaxIndex + 1) ELSE n

Tracked == 0..(chunks * BitsPerChunk - 1)

FreeBits == Tracked \ used

IsFree(index) == index \notin used

\* Mutation: the search forgets to begin in chunk (start / BitsPerChunk) % size.
AheadUnwrapped(start) == {i \in FreeBits : i >= start}

\* The free bits that a search from start meets before it comes back to the
\* chunk it began with.  In that chunk the bits below start are skipped; a start
\* beyond the bitset begins in chunk (start / BitsPerChunk) % size.
Ahead(start) ==
    LET first == BitsPerChunk * ((start \div BitsPerChunk) % chunks)
    IN  {i \in FreeBits : i >= first /\ (i < first + BitsPerChunk => i >= start)}

FindFree(start) ==
    IF Ahead(start) # {} THEN Min(Ahead(start))
    ELSE IF FreeBits # {} THEN Min(FreeBits)
    ELSE Wrapped(chunks * BitsPerChunk)

\* The loop of find_free_ as the code writes it: visit n looks at one chunk, the
\* first visit skips the bits below start, and the visit that comes back to the
\* first chunk does not.
Visit(start, n) ==
    LET chunk == ((start \div BitsPerChunk) + n) % chunks
    IN  {i \in FreeBits : /\ i \div BitsPerChunk = chunk
                          /\ n = 0 => i >= start}

FindFreeScan(start) ==
    LET hits == {n \in 0..chunks : Visit(start, n) # {}}
    IN  IF hits = {} THEN Wrapped(chunks * BitsPerChunk)
        ELSE Min(Visit(start, Min(hits)))

\* set_free_ grows the bitset to the index's chunk.
ChunksWith(index) ==
    LET needed == (index \div BitsPerChunk) + 1
    IN  IF needed > chunks THEN needed ELSE chunks

\* Mutation: set_free_ forgets to resize.
MarkUsedUnsized(index) ==
    /\ used' = used \cup {index}
    /\ UNCHANGED chunks

MarkUsed(index) ==
    /\ used' = used \cup {index}
    /\ chunks' = ChunksWith(index)

MarkFree(index) ==
    /\ used' = used \ {index}
    /\ chunks' = ChunksWith(index)

-----------------------------------------------------------------------------
\* Constructing the allocator anew, as every start of the driver does.
Construct ==
    /\ used' = {0}
    /\ chunks' = 1
    /\ num_allocated' = 1
    /\ last_allocated_index' = 0
    /\ desired_maximum_index' = InitialMaximum

AllocatorInit ==
    /\ used = {0}                   \* never use zero index
    /\ chunks = 1
    /\ num_allocated = 1
    /\ last_allocated_index = 0
    /\ desired_maximum_index = InitialMaximum

Candidate == Wrapped(last_allocated_index + 1)

\* Half of the indices below the desired maximum are taken: doubling it is
\* preferred to packing them, unless the doubled value would overflow.
RaisedMaximum ==
    IF /\ Candidate >= desired_maximum_index
       /\ num_allocated > desired_maximum_index \div 2
       /\ desired_maximum_index <= MaxIndex \div 2
    THEN 2 * desired_maximum_index
    ELSE desired_maximum_index

\* Mutation: the candidate is not checked.
NextIndexUnchecked ==
    IF Candidate >= RaisedMaximum THEN FindFree(0) ELSE Candidate

\* Mutation: a taken candidate sends the search back to the first chunk.
NextIndexPacked ==
    IF Candidate >= RaisedMaximum \/ ~IsFree(Candidate) THEN FindFree(0)
    ELSE Candidate

NextIndex ==
    IF Candidate >= RaisedMaximum THEN FindFree(0)
    ELSE IF IsFree(Candidate) THEN Candidate
    ELSE FindFree(Candidate + 1)

\* Not in the code: the instance is small, and the code assumes that fewer than
\* 2^32 devices exist.
HasRoom == Cardinality(used) < MaxHeld

AllocateAndAcquire ==
    /\ HasRoom
    /\ MarkUsed(NextIndex)
    /\ num_allocated' = num_allocated + 1
    /\ last_allocated_index' = NextIndex
    /\ desired_maximum_index' = RaisedMaximum

\* acquire throws when the index is in use and then changes nothing.
Acquire(index) ==
    /\ HasRoom
    /\ IsFree(index)
    /\ MarkUsed(index)
    /\ num_allocated' = num_allocated + 1
    /\ last_allocated_index' =
            IF index > last_allocated_index THEN index ELSE last_allocated_index
    /\ UNCHANGED desired_maximum_index

\* Mutation: the released index stays counted.
ReleaseUncounted(index) ==
    /\ MarkFree(index)
    /\ UNCHANGED <<num_allocated, last_allocated_index, desired_maximum_index>>

\* Called by the destructor of the device that holds the index.
Release(index) ==
    /\ MarkFree(index)
    /\ num_allocated' = num_allocated - 1
    /\ UNCHANGED <<last_allocated_index, desired_maximum_index>>

\* Clients are the devices: they acquire a non-zero index of their choice (a zero
\* index asks for any) and release what they hold.
AllocatorNext ==
    \/ AllocateAndAcquire
    \/ \E index \in Indices \ {0} : Acquire(index)
    \/ \E index \in used \ {0} : Release(index)

AllocatorSpec == AllocatorInit /\ [][AllocatorNext]_allocator

-----------------------------------------------------------------------------
AllocatorTypeOK ==
    /\ used \subseteq Indices
    /\ chunks \in 1..MaxChunks
    /\ num_allocated \in Nat
    /\ last_allocated_index \in Indices
    /\ desired_maximum_index \in 1..MaxIndex

\* The allocator's own books agree: num_allocated_, which decides when the
\* desired maximum is raised, is the number of bits set, index 0 stays taken
\* for ever, and every bit set lies inside the bitset (no release or acquire
\* forgot to resize it).
BooksAgree ==
    /\ num_allocated = Cardinality(used)
    /\ 0 \in used
    /\ used \subseteq Tracked

\* The inductive invariant: the types, the books, and the bound on holders that
\* keeps the bitset from covering all of index_t with every bit set.
AllocatorInv ==
    /\ AllocatorTypeOK
    /\ BooksAgree
    /\ Cardinality(used) <= MaxHeld

\* The closed form the specification uses finds the index that the chunk-by-chunk
\* scan of find_free_ (index_allocator.cpp:86-125) finds, from every start, in
\* every reachable bitset, starts beyond the bitset included.
FindFreeMatchesScan ==
    \A start \in Indices : FindFree(start) = FindFreeScan(start)

\* "Postpones reusing old index for a while" (index_allocator.hpp:19).  An
\* automatic allocation goes back to an index at or below the last one only when
\* the candidate has reached the (possibly raised) desired maximum, when it has
\* wrapped around to 0, or when the bitset has no free bit left above it.
ReusePostponed ==
    [][ AllocateAndAcquire /\ NextIndex <= last_allocated_index
            => \/ Candidate >= RaisedMaximum
               \/ Candidate = 0
               \/ \A i \in FreeBits : i < Candidate ]_allocator

-----------------------------------------------------------------------------
\* The devices see a pool: the indices held are the bits set and num_allocated_
\* counts the holders, index 0 aside in both.
Pool == INSTANCE IndexPool WITH held <- used \ {0},
                                holders <- num_allocated - 1

\* Every allocator step that counts a holder more gives it an index nobody holds,
\* and every one that counts one less takes a held index back: no two devices
\* ever share an index, whatever mixture of automatic and explicit indices they
\* ask for.
ImplementsPool == Pool!Spec
=============================================================================
