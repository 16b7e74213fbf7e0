----------------------------- MODULE LibraryProofs -----------------------------
(***************************************************************************)
(* Proofs about the parts of the sequential runtime: the checked arithmetic *)
(* for every width of the integers, the string builder for texts of every   *)
(* length, the freestanding allocator for heaps and requests of every size, *)
(* the codecs for byte strings and texts of every length, the directory     *)
(* listing for trees of every size that others change meanwhile, and which  *)
(* steps of RuntimeLibrary are steps of which part.  That every call gives   *)
(* back or hands over what it acquires is shown from the steps of each call, *)
(* for callers that make them in any order, with any failure.               *)
(*                                                                         *)
(* Last, HashMap implements MapSpec, for any keys and values, any hash      *)
(* function and any capacities a caller may ask for.  The inductive         *)
(* invariant is IsTable: each key is in one slot, all slots on the way to   *)
(* it are occupied, and one slot is free.  Hence a search ends, and ends at *)
(* the key if the table has it.  A copied table is described slot by slot,  *)
(* by induction over the loop.                                              *)
(***************************************************************************)
EXTENDS RuntimeLibrary, DataLemmas

------------------------------------------------------------------------------
\* Allocator: the offset is rounded up, to a multiple of 8, by less than 8.
LEMMA AlignedRoundsUp ==
    ASSUME NEW off \in Nat
    PROVE  /\ Aligned(off) \in Nat
           /\ off <= Aligned(off) /\ Aligned(off) < off + 8
           /\ Aligned(off) % 8 = 0
  BY DEF Aligned

\* What a call that returns a block knows of it: it lies behind all blocks there are.
HeapInv == HeapTypeOK /\ HeapSound

LEMMA NewBlock ==
    ASSUME HeapInv, NEW size \in Sizes, Fits(size)
    PROVE  LET at == Aligned(heap_off)
           IN  /\ at \in Nat /\ at % 8 = 0 /\ heap_off <= at
               /\ at \in Bytes(0, HeapBytes)
               /\ AtLeast1(size) \in 1..HeapBytes /\ size <= AtLeast1(size)
               /\ size \in Nat /\ size \in 0..HeapBytes
               /\ at + AtLeast1(size) \in 0..HeapBytes
               /\ heap_off < at + AtLeast1(size)
               /\ \A b \in blocks : b.at + b.size <= at /\ b.at < at
  <1>1. heap_off \in Nat /\ HeapBytes \in Nat /\ size \in Nat
    BY HeapAssumption DEF HeapInv, HeapTypeOK
  <1>2. AtLeast1(size) \in Nat /\ 1 <= AtLeast1(size) /\ size <= AtLeast1(size)
    BY <1>1 DEF AtLeast1
  <1>3. /\ Aligned(heap_off) \in Nat /\ heap_off <= Aligned(heap_off)
        /\ Aligned(heap_off) % 8 = 0
    BY <1>1, AlignedRoundsUp
  <1>4. Aligned(heap_off) + AtLeast1(size) <= HeapBytes
    BY DEF Fits
  <1>5. ASSUME NEW b \in blocks
        PROVE  b.at + b.size <= Aligned(heap_off) /\ b.at < Aligned(heap_off)
    <2>1. b.at + b.size <= heap_off
      BY DEF HeapInv, HeapSound, BlocksInHeap
    <2>2. b.at \in Int /\ b.size \in Int /\ 1 <= b.size
      BY <1>1 DEF HeapInv, HeapTypeOK, Bytes
    <2> QED BY <2>1, <2>2, <1>1, <1>3
  <1> QED BY <1>1, <1>2, <1>3, <1>4, <1>5 DEF Bytes

\* Blocks keep what the owner put into them when a step writes behind them only.
LEMMA OldBlocksStay ==
    ASSUME HeapInv, NEW at \in Nat,
           \A b \in blocks : b.at + b.size <= at,
           DOMAIN heap' = DOMAIN heap,
           \A i \in DOMAIN heap : i < at => heap'[i] = heap[i],
           at <= HeapBytes
    PROVE  \A b \in blocks : \A i \in Bytes(b.at, b.used) : heap'[i] = b.mark
  <1> SUFFICES ASSUME NEW b \in blocks, NEW i \in Bytes(b.at, b.used)
               PROVE  heap'[i] = b.mark
    OBVIOUS
  <1>1. b.at \in Nat /\ b.size \in Nat /\ b.used \in Nat /\ HeapBytes \in Nat
    BY HeapAssumption DEF HeapInv, HeapTypeOK, Bytes
  <1>2. b.used <= b.size /\ heap[i] = b.mark
    BY DEF HeapInv, HeapSound, BlocksInHeap, BlocksKeepContents
  <1>3. i \in Nat /\ i < at
    BY <1>1, <1>2 DEF Bytes
  <1>4. DOMAIN heap = 0..(HeapBytes - 1)
    BY <1>1 DEF HeapInv, HeapTypeOK, Bytes
  <1>5. i \in DOMAIN heap
    BY <1>1, <1>3, <1>4
  <1> QED BY <1>2, <1>3, <1>5

\* A new block behind all others is apart from them.
LEMMA BehindIsApart ==
    ASSUME HeapInv, NEW at \in Nat, NEW n \in Nat, NEW b \in blocks,
           b.at + b.size <= at
    PROVE  Bytes(b.at, b.size) \cap Bytes(at, n) = {}
  BY HeapAssumption DEF HeapInv, HeapTypeOK, Bytes

\* A step that puts one block behind the others, and writes nothing in front of it.
LEMMA GrowKeepsHeapInv ==
    ASSUME HeapInv, NEW size \in Sizes, Fits(size),
           NEW at, at = Aligned(heap_off),
           NEW kept \in SUBSET blocks, NEW used \in 0..size, NEW mark \in Marks,
           heap_off' = at + AtLeast1(size), halted' = halted,
           heap' \in [Bytes(0, HeapBytes) -> {0} \cup Marks],
           \A i \in Bytes(0, HeapBytes) : i < at => heap'[i] = heap[i],
           \A i \in Bytes(at, used) : heap'[i] = mark,
           blocks' = kept \cup
              {[at |-> at, size |-> AtLeast1(size), used |-> used, mark |-> mark]}
    PROVE  HeapInv'
  <1> DEFINE n == AtLeast1(size)
             new == [at |-> at, size |-> n, used |-> used, mark |-> mark]
  <1>1. /\ at \in Nat /\ at % 8 = 0 /\ heap_off <= at
        /\ at \in Bytes(0, HeapBytes) /\ n \in 1..HeapBytes /\ size <= n
        /\ size \in Nat /\ size \in 0..HeapBytes
        /\ at + n \in 0..HeapBytes /\ heap_off < at + n
        /\ \A b \in blocks : b.at + b.size <= at /\ b.at < at
    BY NewBlock
  <1>2. heap_off' = at + n /\ blocks' = kept \cup {new} /\ halted' = halted
    OBVIOUS
  <1> HIDE DEF n
  <1>3. used \in 0..HeapBytes /\ used <= n
    <2>1. size \in Nat /\ size <= HeapBytes /\ size <= n /\ n \in Nat /\ HeapBytes \in Nat
      BY <1>1, HeapAssumption
    <2>2. used \in Int /\ 0 <= used /\ used <= size
      BY <2>1
    <2> QED BY <2>1, <2>2
  <1>4. HeapTypeOK'
    <2>1. new \in [at : Bytes(0, HeapBytes), size : 1..HeapBytes,
                   used : 0..HeapBytes, mark : Marks]
      BY <1>1, <1>3
    <2> QED BY <1>1, <1>2, <2>1 DEF HeapInv, HeapTypeOK
  <1>5. BlocksInHeap'
    <2>1. heap_off \in Nat /\ \A b \in blocks : b.at \in Nat /\ b.size \in Nat
      BY HeapAssumption DEF HeapInv, HeapTypeOK, Bytes
    <2>2. ASSUME NEW b \in blocks
          PROVE  b.at % 8 = 0 /\ b.used <= b.size /\ b.at + b.size <= heap_off'
      BY <1>1, <1>2, <2>1 DEF HeapInv, HeapSound, BlocksInHeap
    <2>3. new.at % 8 = 0 /\ new.used <= new.size /\ new.at + new.size <= heap_off'
      BY <1>1, <1>2, <1>3
    <2> QED BY <1>2, <2>2, <2>3 DEF BlocksInHeap
  <1>6. BlocksDisjoint'
    <2>1. ASSUME NEW b \in blocks PROVE Bytes(b.at, b.size) \cap Bytes(new.at, new.size) = {}
      BY <1>1, BehindIsApart
    <2>2. \A b, c \in blocks : b # c => Bytes(b.at, b.size) \cap Bytes(c.at, c.size) = {}
      BY DEF HeapInv, HeapSound, BlocksDisjoint
    <2> QED BY <1>2, <2>1, <2>2 DEF BlocksDisjoint
  <1>7. BlocksKeepContents'
    <2>1. ASSUME NEW b \in blocks, NEW i \in Bytes(b.at, b.used) PROVE heap'[i] = b.mark
      <3>1. DOMAIN heap = Bytes(0, HeapBytes) /\ DOMAIN heap' = Bytes(0, HeapBytes)
        BY DEF HeapInv, HeapTypeOK
      <3>2. at \in Nat /\ at <= HeapBytes /\ \A c \in blocks : c.at + c.size <= at
        BY <1>1, HeapAssumption DEF Bytes
      <3> QED BY <3>1, <3>2, OldBlocksStay
    <2>2. \A i \in Bytes(new.at, new.used) : heap'[i] = new.mark
      OBVIOUS
    <2> QED BY <1>2, <2>1, <2>2 DEF BlocksKeepContents
  <1> QED BY <1>4, <1>5, <1>6, <1>7 DEF HeapInv, HeapSound

LEMMA AllocKeepsHeapInv ==
    ASSUME HeapInv, NEW size \in Sizes, NEW mark \in Marks, HeapAlloc(size, mark)
    PROVE  HeapInv'
  <1> DEFINE at == Aligned(heap_off)
  <1>1. /\ at \in Nat /\ at \in Bytes(0, HeapBytes) /\ size \in Nat /\ size <= AtLeast1(size)
        /\ AtLeast1(size) \in Nat /\ at + AtLeast1(size) <= HeapBytes
    BY NewBlock DEF HeapAlloc
  <1>2. /\ heap_off' = at + AtLeast1(size) /\ halted' = halted
        /\ heap' = [i \in DOMAIN heap |->
                       IF i \in Bytes(at, size) THEN mark
                       ELSE IF i \in Bytes(at, AtLeast1(size)) THEN 0 ELSE heap[i]]
        /\ blocks' = blocks \cup
              {[at |-> at, size |-> AtLeast1(size), used |-> size, mark |-> mark]}
        /\ Fits(size)
    BY DEF HeapAlloc
  <1>3. heap \in [Bytes(0, HeapBytes) -> {0} \cup Marks]
    BY DEF HeapInv, HeapTypeOK
  <1>4. heap' \in [Bytes(0, HeapBytes) -> {0} \cup Marks]
    BY <1>2, <1>3
  <1>5. \A i \in Bytes(0, HeapBytes) : i < at => heap'[i] = heap[i]
    BY <1>1, <1>2, <1>3 DEF Bytes
  <1>6. \A i \in Bytes(at, size) : i \in Bytes(0, HeapBytes)
    BY <1>1, HeapAssumption DEF Bytes
  <1>7. \A i \in Bytes(at, size) : heap'[i] = mark
    BY <1>2, <1>3, <1>6
  <1>8. size \in 0..size /\ blocks \in SUBSET blocks
    BY <1>1
  <1> HIDE DEF at
  <1> QED BY <1>2, <1>4, <1>5, <1>7, <1>8, GrowKeepsHeapInv DEF at

\* The bytes that count are copied before the copy runs past the old block.
LEMMA ReallocKeepsHeapInv ==
    ASSUME HeapInv, NEW size \in Sizes, NEW b \in blocks, HeapRealloc(b, size)
    PROVE  HeapInv'
  <1> DEFINE at == Aligned(heap_off)
             used == IF size < b.used THEN size ELSE b.used
  <1>1. /\ at \in Nat /\ at \in Bytes(0, HeapBytes) /\ size \in Nat /\ size <= AtLeast1(size)
        /\ AtLeast1(size) \in Nat /\ at + AtLeast1(size) <= HeapBytes
        /\ b.at + b.size <= at /\ b.at < at
    BY NewBlock DEF HeapRealloc
  <1>2. /\ heap_off' = at + AtLeast1(size) /\ halted' = halted
        /\ heap' = [i \in DOMAIN heap |->
                       IF i \in Bytes(at, size) THEN heap[b.at + ((i - at) % (at - b.at))]
                       ELSE IF i \in Bytes(at, AtLeast1(size)) THEN 0 ELSE heap[i]]
        /\ blocks' = (blocks \ {b}) \cup
              {[at |-> at, size |-> AtLeast1(size), used |-> used, mark |-> b.mark]}
        /\ Fits(size)
    BY DEF HeapRealloc
  <1>3. /\ heap \in [Bytes(0, HeapBytes) -> {0} \cup Marks]
        /\ b.at \in Nat /\ b.size \in Nat /\ b.used \in Nat /\ b.mark \in Marks
        /\ b.used <= b.size /\ HeapBytes \in Nat
        /\ \A i \in Bytes(b.at, b.used) : heap[i] = b.mark
    BY HeapAssumption DEF HeapInv, HeapTypeOK, HeapSound, BlocksInHeap, BlocksKeepContents, Bytes
  <1> HIDE DEF at
  <1>4. heap' \in [Bytes(0, HeapBytes) -> {0} \cup Marks]
    <2>1. ASSUME NEW i \in Bytes(at, size)
          PROVE  b.at + ((i - at) % (at - b.at)) \in Bytes(0, HeapBytes)
      <3>1. at - b.at \in Nat \ {0} /\ i - at \in Nat
        BY <1>1, <1>3 DEF Bytes
      <3> DEFINE r == (i - at) % (at - b.at)
      <3>2. r \in 0..(at - b.at - 1)
        BY <3>1
      <3> HIDE DEF r
      <3>3. b.at + r \in Int /\ 0 <= b.at + r /\ b.at + r <= at - 1
        BY <3>2, <1>1, <1>3
      <3>4. at \in Int /\ at <= HeapBytes - 1
        BY <1>1, <1>3 DEF Bytes
      <3> QED BY <3>3, <3>4, <1>3 DEF Bytes, r
    <2> QED BY <1>2, <1>3, <2>1
  <1>5. \A i \in Bytes(0, HeapBytes) : i < at => heap'[i] = heap[i]
    BY <1>1, <1>2, <1>3 DEF Bytes
  <1>6. used \in 0..size
    BY <1>1, <1>3
  <1>7. ASSUME NEW i \in Bytes(at, used) PROVE heap'[i] = b.mark
    <2>1. i \in Bytes(at, size) /\ i \in Bytes(0, HeapBytes) /\ i - at \in 0..(b.used - 1)
      <3>1. i \in Int /\ at <= i /\ i <= at + used - 1 /\ used \in Nat
        BY <1>1, <1>6, <1>7 DEF Bytes
      <3>2. used <= size /\ used <= b.used
        BY <1>1, <1>3
      <3> HIDE DEF used
      <3> QED BY <1>1, <1>3, <3>1, <3>2 DEF Bytes
    <2>2. (i - at) % (at - b.at) = i - at
      BY <2>1, <1>1, <1>3
    <2>3. b.at + (i - at) \in Bytes(b.at, b.used)
      BY <2>1, <1>3 DEF Bytes
    <2>4. heap'[i] = heap[b.at + ((i - at) % (at - b.at))]
      BY <2>1, <1>2, <1>3
    <2> QED BY <2>2, <2>3, <2>4, <1>3
  <1>8. blocks \ {b} \in SUBSET blocks /\ b.mark \in Marks
    BY <1>3
  <1>9. \A i \in Bytes(at, used) : heap'[i] = b.mark
    BY <1>7
  <1>10. at = Aligned(heap_off)
    BY DEF at
  <1>11. /\ heap_off' = at + AtLeast1(size) /\ halted' = halted /\ Fits(size)
         /\ blocks' = (blocks \ {b}) \cup
               {[at |-> at, size |-> AtLeast1(size), used |-> used, mark |-> b.mark]}
    BY <1>2
  <1> HIDE DEF used
  <1> QED BY <1>4, <1>5, <1>6, <1>8, <1>9, <1>10, <1>11, GrowKeepsHeapInv

\* A heap that is full keeps what it has.
LEMMA HeapInvInductive ==
    HeapInv /\ [HeapNext]_heap_vars => HeapInv'
  <1> SUFFICES ASSUME HeapInv, [HeapNext]_heap_vars PROVE HeapInv'
    OBVIOUS
  <1>1. ASSUME NEW size \in Sizes, NEW mark \in Marks, HeapAlloc(size, mark) PROVE HeapInv'
    BY <1>1, AllocKeepsHeapInv
  <1>2. ASSUME NEW size \in Sizes, NEW b \in blocks, HeapRealloc(b, size) PROVE HeapInv'
    BY <1>2, ReallocKeepsHeapInv
  <1>3. ASSUME NEW size \in Sizes, HeapFull(size) PROVE HeapInv'
    BY <1>3 DEF HeapFull, HeapInv, HeapTypeOK, HeapSound, BlocksInHeap, BlocksDisjoint, BlocksKeepContents
  <1>4. CASE UNCHANGED heap_vars
    BY <1>4 DEF heap_vars, HeapInv, HeapTypeOK, HeapSound, BlocksInHeap, BlocksDisjoint, BlocksKeepContents
  <1> QED BY <1>1, <1>2, <1>3, <1>4 DEF HeapNext

\* The blocks of the freestanding allocator are aligned, inside its array and apart,
\* and reallocation loses nothing, for every size of the array and of the requests.
THEOREM HeapIsSound == HeapSpec => []HeapSound
  <1>1. HeapInit => HeapInv
    <2> SUFFICES ASSUME HeapInit PROVE HeapInv
      OBVIOUS
    <2>1. heap \in [Bytes(0, HeapBytes) -> {0} \cup Marks]
      BY DEF HeapInit
    <2>2. heap_off \in 0..HeapBytes /\ halted \in BOOLEAN /\ blocks = {}
      <3>1. HeapBytes \in Nat /\ heap_off = 0
        BY HeapAssumption DEF HeapInit
      <3>2. halted \in BOOLEAN
        BY Zenon DEF HeapInit
      <3> QED BY <3>1, <3>2 DEF HeapInit
    <2> QED BY <2>1, <2>2 DEF HeapInv, HeapTypeOK, HeapSound, BlocksInHeap,
                              BlocksDisjoint, BlocksKeepContents
  <1>2. HeapInv => HeapSound
    BY DEF HeapInv
  <1> QED BY <1>1, <1>2, HeapInvInductive, PTL DEF HeapSpec

------------------------------------------------------------------------------
\* Builder: what one doubling after the other reaches.
LEMMA RoomForFits ==
    ASSUME sb_cap \in Nat \ {0}, NEW need \in Nat \ {0}, NEW c \in RoomFor(need)
    PROVE  c \in Nat /\ need <= c /\ sb_cap <= c /\ (c = sb_cap \/ c < 2 * need)
  <1>1. CASE need > sb_cap
    BY <1>1 DEF RoomFor
  <1>2. CASE ~(need > sb_cap)
    BY <1>2 DEF RoomFor
  <1> QED BY <1>1, <1>2

\* The text and its terminator are in the buffer while there is one, and what the
\* capacity is, no doubling made: the first capacity, or less than twice what an
\* append needed.
BuilderInv ==
    /\ SbTypeOK
    /\ sb # "none" => sb_cap > 0 /\ sb_len < sb_cap /\ sb_end < sb_cap
    /\ sb_len <= SbMaxLen /\ sb_cap <= 2 * SbMaxLen + 128
    /\ BuiltTextLives

LEMMA BuilderInvInductive ==
    BuilderInv /\ [SbNext]_sb_vars => BuilderInv'
  <1> SUFFICES ASSUME BuilderInv, [SbNext]_sb_vars PROVE BuilderInv'
    OBVIOUS
  <1> USE BuilderAssumption
  <1>1. ASSUME NEW asked \in SbCaps, SbNew(asked) PROVE BuilderInv'
    <2>1. asked \in Nat /\ asked <= SbMaxLen
      OBVIOUS
    <2>2. FirstCap(asked) \in Nat /\ FirstCap(asked) > 0 /\ FirstCap(asked) <= SbMaxLen + 64
      BY <2>1 DEF FirstCap
    <2> QED BY <1>1, <2>2 DEF SbNew, BuilderInv, SbTypeOK, BuiltTextLives
  <1>2. ASSUME NEW n \in SbWords, SbAppend(n) PROVE BuilderInv'
    <2>1. /\ n \in Nat /\ sb_len \in Nat /\ sb_cap \in Nat \ {0}
          /\ sb_len + n <= SbMaxLen /\ sb_cap' \in RoomFor(sb_len + n + 1)
      BY <1>2 DEF SbAppend, BuilderInv, SbTypeOK
    <2>2. sb_len + n + 1 \in Nat \ {0}
      BY <2>1
    <2>3. /\ sb_cap' \in Nat /\ sb_len + n + 1 <= sb_cap'
          /\ (sb_cap' = sb_cap \/ sb_cap' < 2 * (sb_len + n + 1))
      BY <2>1, <2>2, RoomForFits
    <2>4. sb_cap' <= 2 * SbMaxLen + 128
      BY <2>1, <2>3 DEF BuilderInv
    <2> QED BY <1>2, <2>1, <2>3, <2>4 DEF SbAppend, BuilderInv, SbTypeOK, BuiltTextLives
  <1>3. ASSUME SbAppendChar PROVE BuilderInv'
    <2>1. /\ sb_len \in Nat /\ sb_cap \in Nat \ {0} /\ sb_len < sb_cap
          /\ sb_len + 1 <= SbMaxLen
      BY <1>3 DEF SbAppendChar, BuilderInv, SbTypeOK
    <2>2. /\ sb_cap' \in Nat /\ sb_len + 1 < sb_cap'
          /\ (sb_cap' = sb_cap \/ sb_cap' < 2 * (sb_len + 2))
      <3>1. CASE sb_rt = "full"
        BY <3>1, <1>3, <2>1 DEF SbAppendChar
      <3>2. CASE sb_rt # "full"
        <4>1. sb_cap' \in RoomFor(sb_len + 2) /\ sb_len + 2 \in Nat \ {0}
          BY <3>2, <1>3, <2>1 DEF SbAppendChar
        <4> QED BY <4>1, <2>1, RoomForFits
      <3> QED BY <3>1, <3>2
    <2>3. sb_cap' <= 2 * SbMaxLen + 128
      BY <2>1, <2>2 DEF BuilderInv
    <2> QED BY <1>3, <2>1, <2>2, <2>3 DEF SbAppendChar, BuilderInv, SbTypeOK, BuiltTextLives
  <1>4. CASE SbBuild
    BY <1>4 DEF SbBuild, BuilderInv, SbTypeOK, BuiltTextLives
  <1>5. CASE SbFree
    BY <1>5 DEF SbFree, BuilderInv, SbTypeOK, BuiltTextLives
  <1>6. CASE UNCHANGED sb_vars
    BY <1>6 DEF sb_vars, BuilderInv, SbTypeOK, BuiltTextLives
  <1> QED BY <1>1, <1>2, <1>3, <1>4, <1>5, <1>6 DEF SbNext

\* Whatever texts a program appends, of whatever lengths, the builder writes inside its
\* buffer, its capacity does not overflow, and the full runtime leaves the text it
\* built to the caller.
THEOREM BuilderIsSound == SbSpec => []BuilderSound
  <1>1. SbInit => BuilderInv
    BY BuilderAssumption DEF SbInit, BuilderInv, SbTypeOK, BuiltTextLives
  <1>2. BuilderInv => BuilderSound
    BY BuilderAssumption DEF BuilderInv, SbTypeOK, BuilderSound, BuilderFits
  <1> QED BY <1>1, <1>2, BuilderInvInductive, PTL DEF SbSpec

------------------------------------------------------------------------------
\* Arithmetic: C's division, and what makes it exact.
LEMMA QuotOfSigns ==
    ASSUME NEW a \in Int, NEW b \in Int \ {0}
    PROVE  /\ Magnitude(a) \in Nat /\ Magnitude(b) \in Nat \ {0}
           /\ Magnitude(a) \div Magnitude(b) \in Nat
           /\ Quot(a, b) \in Int
  <1>1. Magnitude(a) \in Nat /\ Magnitude(b) \in Nat \ {0}
    BY DEF Magnitude
  <1>2. Magnitude(a) \div Magnitude(b) \in Nat
    BY <1>1
  <1> QED BY <1>1, <1>2 DEF Quot

\* A test for a sum or a difference panics exactly when the result does not fit, and
\* computes nothing that does not fit.
THEOREM SumTestsExact ==
    ASSUME NEW a \in Ints, NEW b \in Ints
    PROVE  /\ AddPanics(a, b) <=> AddChecked(a, b) = Panic
           /\ SubPanics(a, b) <=> SubChecked(a, b) = Panic
           /\ NegChecked(a) = SubChecked(0, a)
           /\ b > 0 => MaxInt - b \in Ints /\ MinInt + b \in Ints
           /\ b < 0 => MinInt - b \in Ints /\ MaxInt + b \in Ints
  <1>1. MinInt \in Int /\ MaxInt \in Nat \ {0} /\ MinInt = -MaxInt - 1
    BY IntAssumption
  <1>2. a \in Int /\ b \in Int /\ MinInt <= a /\ a <= MaxInt /\ MinInt <= b /\ b <= MaxInt
    BY <1>1 DEF Ints
  <1>3. \A n \in Int : (Checked(n) = Panic) <=> ~(MinInt <= n /\ n <= MaxInt)
    BY <1>1 DEF Checked, Panic, Ints
  <1>4. AddPanics(a, b) <=> AddChecked(a, b) = Panic
    BY <1>1, <1>2, <1>3 DEF AddPanics, AddChecked
  <1>5. SubPanics(a, b) <=> SubChecked(a, b) = Panic
    BY <1>1, <1>2, <1>3 DEF SubPanics, SubChecked
  <1>6. NegChecked(a) = SubChecked(0, a)
    BY <1>1, <1>2 DEF NegChecked, SubChecked, Checked, Ints
  <1>7. /\ b > 0 => MaxInt - b \in Ints /\ MinInt + b \in Ints
        /\ b < 0 => MinInt - b \in Ints /\ MaxInt + b \in Ints
    BY <1>1, <1>2 DEF Ints
  <1> QED BY <1>4, <1>5, <1>6, <1>7

LEMMA ProductOrder ==
    ASSUME NEW n \in Int, NEW q \in Int, NEW d \in Nat, n <= q
    PROVE  n * d <= q * d
  <1>1. (q - n) \in Nat
    OBVIOUS
  <1>2. (q - n) * d \in Nat
    BY <1>1
  <1>3. (q - n) * d = q * d - n * d
    OBVIOUS
  <1> QED BY <1>2, <1>3

LEMMA DivisionRounds ==
    ASSUME NEW m \in Nat, NEW d \in Nat \ {0}
    PROVE  (m \div d) * d <= m /\ m < (m \div d) * d + d
  OBVIOUS

\* A factor above the rounded quotient is a product above the limit.
LEMMA QuotientLimits ==
    ASSUME NEW n \in Nat, NEW m \in Nat, NEW d \in Nat \ {0}
    PROVE  n > m \div d <=> n * d > m
  <1> DEFINE q == m \div d
  <1>1. q \in Nat /\ q * d <= m /\ m < q * d + d
    BY DivisionRounds
  <1> HIDE DEF q
  <1>2. CASE n <= q
    <2>1. n * d <= q * d
      BY <1>1, <1>2, ProductOrder
    <2> QED BY <1>1, <1>2, <2>1 DEF q
  <1>3. CASE n > q
    <2>1. (q + 1) * d <= n * d
      BY <1>1, <1>3, ProductOrder
    <2>2. (q + 1) * d = q * d + d
      BY <1>1
    <2> QED BY <1>1, <1>3, <2>1, <2>2 DEF q
  <1> QED BY <1>1, <1>2, <1>3

\* The test for a product panics exactly when the product does not fit.
THEOREM ProductTestExact ==
    ASSUME NEW a \in Ints, NEW b \in Ints
    PROVE  MulPanics(a, b) <=> MulChecked(a, b) = Panic
  <1>1. MinInt \in Int /\ MaxInt \in Nat \ {0} /\ MinInt = -MaxInt - 1
    BY IntAssumption
  <1>2. a \in Int /\ b \in Int /\ MinInt <= a /\ a <= MaxInt /\ MinInt <= b /\ b <= MaxInt
    BY <1>1 DEF Ints
  <1>3. (MulChecked(a, b) = Panic) <=> ~(MinInt <= a * b /\ a * b <= MaxInt)
    BY <1>1, <1>2 DEF MulChecked, Checked, Panic, Ints
  <1>4. CASE a = 0 \/ b = 0
    BY <1>1, <1>2, <1>3, <1>4 DEF MulPanics
  <1>5. CASE a > 0 /\ b > 0
    <2>1. Quot(MaxInt, b) = MaxInt \div b
      BY <1>1, <1>2, <1>5 DEF Quot, Magnitude
    <2>2. a > MaxInt \div b <=> a * b > MaxInt
      BY <1>1, <1>2, <1>5, QuotientLimits
    <2>3. a * b \in Nat
      BY <1>2, <1>5
    <2> QED BY <1>1, <1>2, <1>3, <1>5, <2>1, <2>2, <2>3 DEF MulPanics
  <1>6. CASE a > 0 /\ b < 0
    <2>1. Quot(MinInt, a) = -((MaxInt + 1) \div a)
      BY <1>1, <1>2, <1>6 DEF Quot, Magnitude
    <2>2. -b > (MaxInt + 1) \div a <=> (-b) * a > MaxInt + 1
      BY <1>1, <1>2, <1>6, QuotientLimits
    <2>3. (-b) * a = -(a * b) /\ (-b) * a \in Nat /\ (MaxInt + 1) \div a \in Nat
      BY <1>1, <1>2, <1>6
    <2> QED BY <1>1, <1>2, <1>3, <1>6, <2>1, <2>2, <2>3 DEF MulPanics
  <1>7. CASE a < 0 /\ b > 0
    <2>1. Quot(MinInt, b) = -((MaxInt + 1) \div b)
      BY <1>1, <1>2, <1>7 DEF Quot, Magnitude
    <2>2. -a > (MaxInt + 1) \div b <=> (-a) * b > MaxInt + 1
      BY <1>1, <1>2, <1>7, QuotientLimits
    <2>3. (-a) * b = -(a * b) /\ (-a) * b \in Nat /\ (MaxInt + 1) \div b \in Nat
      BY <1>1, <1>2, <1>7
    <2> QED BY <1>1, <1>2, <1>3, <1>7, <2>1, <2>2, <2>3 DEF MulPanics
  <1>8. CASE a < 0 /\ b < 0
    <2>1. Quot(MaxInt, b) = -(MaxInt \div (-b))
      BY <1>1, <1>2, <1>8 DEF Quot, Magnitude
    <2>2. -a > MaxInt \div (-b) <=> (-a) * (-b) > MaxInt
      BY <1>1, <1>2, <1>8, QuotientLimits
    <2>3. (-a) * (-b) = a * b /\ (-a) * (-b) \in Nat /\ MaxInt \div (-b) \in Nat
      BY <1>1, <1>2, <1>8
    <2> QED BY <1>1, <1>2, <1>3, <1>8, <2>1, <2>2, <2>3 DEF MulPanics
  <1> QED BY <1>2, <1>4, <1>5, <1>6, <1>7, <1>8

\* Two's complement leaves a number that fits as it is.
LEMMA WrapOfFitting ==
    ASSUME NEW n \in Ints
    PROVE  Wrap(n) = n
  <1>1. MinInt \in Int /\ MaxInt \in Nat \ {0} /\ n \in Int /\ MinInt <= n /\ n <= MaxInt
    BY IntAssumption DEF Ints
  <1>2. (n - MinInt) % (MaxInt - MinInt + 1) = n - MinInt
    BY <1>1
  <1> QED BY <1>1, <1>2 DEF Wrap

\* Where the full runtime gives an answer, the three without tests give the same.
THEOREM ThinArithmeticAgrees ==
    ASSUME NEW a \in Ints, NEW b \in Ints
    PROVE  /\ AddChecked(a, b) # Panic => MinimalArithmetic(a, b)[1] = AddChecked(a, b)
           /\ SubChecked(a, b) # Panic => MinimalArithmetic(a, b)[2] = SubChecked(a, b)
           /\ MulChecked(a, b) # Panic => MinimalArithmetic(a, b)[3] = MulChecked(a, b)
           /\ NegChecked(a) # Panic => MinimalArithmetic(a, b)[4] = NegChecked(a)
           /\ MinimalArithmetic(a, b)[5] = Div(a, b)
           /\ MinimalArithmetic(a, b)[6] = Mod(a, b)
           /\ WinArithmetic(a, b) = MinimalArithmetic(a, b)
           /\ FsArithmetic(a, b) = MinimalArithmetic(a, b)
  <1>1. ASSUME NEW n, Checked(n) # Panic PROVE <<Wrap(n)>> = Checked(n)
    BY <1>1, WrapOfFitting DEF Checked
  <1>2. ASSUME NegChecked(a) # Panic PROVE <<Wrap(-a)>> = NegChecked(a)
    <2>1. -a \in Ints
      BY <1>2, IntAssumption DEF NegChecked, Ints
    <2> QED BY <1>2, <2>1, WrapOfFitting DEF NegChecked
  <1> QED BY <1>1, <1>2 DEF MinimalArithmetic, WinArithmetic, FsArithmetic,
                            AddChecked, SubChecked, MulChecked

\* Division panics on a zero divisor and on the one quotient that does not fit, and
\* otherwise quotient and remainder make up the dividend.
THEOREM DivisionExact ==
    ASSUME NEW a \in Ints, NEW b \in Ints
    PROVE  /\ Div(a, b) = Panic <=> b = 0 \/ (a = MinInt /\ b = -1)
           /\ Mod(a, b) = Panic <=> Div(a, b) = Panic
           /\ Div(a, b) # Panic =>
                 /\ Div(a, b)[1] * b + Mod(a, b)[1] = a
                 /\ Magnitude(Mod(a, b)[1]) < Magnitude(b)
  <1>1. MinInt \in Int /\ MaxInt \in Nat \ {0} /\ MinInt = -MaxInt - 1
    BY IntAssumption
  <1>2. a \in Int /\ b \in Int /\ MinInt <= a /\ a <= MaxInt /\ MinInt <= b /\ b <= MaxInt
    BY <1>1 DEF Ints
  <1>3. CASE b = 0
    BY <1>3 DEF Div, Mod
  <1>4. CASE b # 0
    <2> DEFINE p == Magnitude(a)
               d == Magnitude(b)
               k == p \div d
    <2>1. /\ p \in Nat /\ d \in Nat \ {0} /\ k \in Nat /\ Quot(a, b) \in Int
          /\ k * d <= p /\ p < k * d + d
      BY <1>2, <1>4, QuotOfSigns, DivisionRounds
    <2>2. Quot(a, b) = IF (a < 0) = (b < 0) THEN k ELSE -k
      BY DEF Quot
    <2>3. p <= MaxInt + 1 /\ (p = MaxInt + 1 <=> a = MinInt) /\ (d = 1 <=> b = 1 \/ b = -1)
      BY <1>1, <1>2 DEF Magnitude
    <2>4. p = (IF a < 0 THEN -a ELSE a) /\ d = (IF b < 0 THEN -b ELSE b)
      BY DEF Magnitude
    <2> HIDE DEF p, d, k
    <2>5. k <= p
      <3>1. CASE k = 0
        BY <2>1, <3>1
      <3>2. CASE k >= 1
        BY <2>1, <3>2, ProductOrder
      <3> QED BY <2>1, <3>1, <3>2
    <2>6. d >= 2 => 2 * k <= p
      <3>1. ASSUME d >= 2 PROVE 2 * k <= p
        <4>1. 2 * k <= d * k
          BY <2>1, <3>1, ProductOrder
        <4>2. d * k = k * d
          BY <2>1
        <4> QED BY <2>1, <4>1, <4>2
      <3> QED BY <3>1
    <2>7. d = 1 => k = p
      BY <2>1
    <2>8. Quot(a, b) \notin Ints <=> a = MinInt /\ b = -1
      BY <1>1, <1>2, <1>4, <2>1, <2>2, <2>3, <2>4, <2>5, <2>6, <2>7 DEF Ints
    <2>9. /\ Div(a, b) = Panic <=> a = MinInt /\ b = -1
          /\ Mod(a, b) = Panic <=> a = MinInt /\ b = -1
      BY <1>4, <2>8 DEF Div, Mod, Checked, Panic
    <2>10. Quot(a, b) * b + Rem(a, b) = a
      <3>1. b * Quot(a, b) = Quot(a, b) * b /\ b * Quot(a, b) \in Int
        BY <1>2, <2>1
      <3> QED BY <1>2, <3>1 DEF Rem
    <2>11. Magnitude(Rem(a, b)) = p - k * d
      <3>1. b * Quot(a, b) = IF a < 0 THEN -(k * d) ELSE k * d
        <4>1. CASE a < 0 /\ b < 0
          BY <1>2, <2>1, <2>2, <2>4, <4>1
        <4>2. CASE a < 0 /\ b > 0
          BY <1>2, <2>1, <2>2, <2>4, <4>2
        <4>3. CASE a >= 0 /\ b < 0
          BY <1>2, <2>1, <2>2, <2>4, <4>3
        <4>4. CASE a >= 0 /\ b > 0
          BY <1>2, <2>1, <2>2, <2>4, <4>4
        <4> QED BY <1>2, <1>4, <4>1, <4>2, <4>3, <4>4
      <3>2. k * d \in Int
        BY <2>1
      <3>3. Rem(a, b) = IF a < 0 THEN -(p - k * d) ELSE p - k * d
        BY <1>2, <2>1, <2>4, <3>1, <3>2 DEF Rem
      <3> QED BY <2>1, <3>2, <3>3, <1>2 DEF Magnitude
    <2>12. p - k * d < d
      <3>1. k * d \in Int
        BY <2>1
      <3> QED BY <2>1, <3>1
    <2>13. Div(a, b) # Panic => Div(a, b) = <<Quot(a, b)>> /\ Mod(a, b) = <<Rem(a, b)>>
      BY <1>4, <2>8, <2>9 DEF Div, Mod, Checked
    <2> QED BY <1>4, <2>9, <2>10, <2>11, <2>12, <2>13 DEF d
  <1> QED BY <1>3, <1>4

LEMMA QuotientIsNoLarger ==
    ASSUME NEW m \in Nat, NEW d \in Nat \ {0}
    PROVE  m \div d \in Nat /\ m \div d <= m
  <1> DEFINE q == m \div d
  <1>1. q \in Nat /\ q * d <= m
    BY DivisionRounds
  <1> HIDE DEF q
  <1>2. 1 * q <= d * q /\ d * q = q * d
    BY <1>1, ProductOrder
  <1>3. q <= m
    BY <1>1, <1>2
  <1> QED BY <1>1, <1>3 DEF q

\* For integers of any width, the tests of the portable build are those of the
\* compiler's builtins, they compute nothing that overflows, division is exact,
\* and the thin runtimes agree wherever the full one has an answer.
THEOREM ArithmeticIsExact ==
    ASSUME NEW a \in Ints, NEW b \in Ints
    PROVE  ArithmeticExact(a, b)
  <1>1. MinInt \in Int /\ MaxInt \in Nat \ {0} /\ MinInt = -MaxInt - 1
    BY IntAssumption
  <1>2. a \in Int /\ b \in Int /\ MinInt <= a /\ a <= MaxInt /\ MinInt <= b /\ b <= MaxInt
    BY <1>1 DEF Ints
  <1>3. TestTerms(a, b) \subseteq Ints
    <2>1. ASSUME b # 0 PROVE Quot(MaxInt, b) \in Ints
      <3>1. Magnitude(MaxInt) = MaxInt /\ Magnitude(b) \in Nat \ {0}
        BY <1>1, <1>2, <2>1 DEF Magnitude
      <3>2. MaxInt \div Magnitude(b) \in Nat /\ MaxInt \div Magnitude(b) <= MaxInt
        BY <1>1, <3>1, QuotientIsNoLarger
      <3>3. \/ Quot(MaxInt, b) = MaxInt \div Magnitude(b)
            \/ Quot(MaxInt, b) = -(MaxInt \div Magnitude(b))
        BY <3>1 DEF Quot
      <3> QED BY <1>1, <3>2, <3>3 DEF Ints
    <2>2. ASSUME NEW d \in Nat \ {0} PROVE Quot(MinInt, d) \in Ints
      <3>1. Quot(MinInt, d) = -((MaxInt + 1) \div d)
        BY <1>1 DEF Quot, Magnitude
      <3>2. (MaxInt + 1) \div d \in Nat /\ (MaxInt + 1) \div d <= MaxInt + 1
        BY <1>1, QuotientIsNoLarger
      <3> QED BY <1>1, <3>1, <3>2 DEF Ints
    <2>3. (IF b > 0 THEN {MaxInt - b, MinInt + b} ELSE {}) \subseteq Ints
      BY SumTestsExact
    <2>4. (IF b < 0 THEN {MinInt - b, MaxInt + b} ELSE {}) \subseteq Ints
      BY SumTestsExact
    <2>5. (IF b # 0 THEN {Quot(MaxInt, b)} ELSE {}) \subseteq Ints
      BY <2>1
    <2>6. (IF a > 0 /\ b < 0 THEN {Quot(MinInt, a)} ELSE {}) \subseteq Ints
      BY <1>2, <2>2
    <2>7. (IF a < 0 /\ b > 0 THEN {Quot(MinInt, b)} ELSE {}) \subseteq Ints
      BY <1>2, <2>2
    <2> QED BY <2>3, <2>4, <2>5, <2>6, <2>7, Zenon DEF TestTerms
  <1>4. LET full == <<AddChecked(a, b), SubChecked(a, b), MulChecked(a, b), NegChecked(a),
                      Div(a, b), Mod(a, b)>>
        IN  \A thin \in {MinimalArithmetic(a, b), WinArithmetic(a, b), FsArithmetic(a, b)} :
               \A i \in 1..6 : full[i] # Panic => thin[i] = full[i]
    <2> DEFINE full == <<AddChecked(a, b), SubChecked(a, b), MulChecked(a, b), NegChecked(a),
                         Div(a, b), Mod(a, b)>>
    <2>1. \A i \in 1..6 : i = 1 \/ i = 2 \/ i = 3 \/ i = 4 \/ i = 5 \/ i = 6
      OBVIOUS
    <2>2. /\ full[1] = AddChecked(a, b) /\ full[2] = SubChecked(a, b) /\ full[3] = MulChecked(a, b)
          /\ full[4] = NegChecked(a) /\ full[5] = Div(a, b) /\ full[6] = Mod(a, b)
      OBVIOUS
    <2> HIDE DEF full
    <2>3. \A i \in 1..6 : full[i] # Panic => MinimalArithmetic(a, b)[i] = full[i]
      BY <2>1, <2>2, ThinArithmeticAgrees
    <2> QED BY <2>3, ThinArithmeticAgrees DEF full
  <1> QED BY <1>3, <1>4, SumTestsExact, ProductTestExact, DivisionExact DEF ArithmeticExact

------------------------------------------------------------------------------
\* Codecs: the letters that three bytes make, group by group, and what the decoders
\* make of them.
\* What the program has in memory, and what it calls a string.
ByteSeqs == Seq(0..255)

\* The letters of one group of bytes, the last group's included.
LEMMA GroupIs ==
    ASSUME NEW bytes \in ByteSeqs, NEW i \in 1..Len(bytes)
    PROVE  LET m == IF Len(bytes) - i >= 2 THEN 4 ELSE Len(bytes) - i + 2
               a == bytes[i]  b == ByteOr0(bytes, i + 1)  c == ByteOr0(bytes, i + 2)
               x == Group(bytes, i)
           IN  /\ m \in 2..4 /\ a \in 0..255 /\ b \in 0..255 /\ c \in 0..255
               /\ x \in Seq(0..63) /\ Len(x) = m
               /\ x[1] = a \div 4 /\ x[2] = (a % 4) * 16 + b \div 16
               /\ m >= 3 => x[3] = (b % 16) * 4 + c \div 64
               /\ m >= 4 => x[4] = c % 64
<1> DEFINE m == IF Len(bytes) - i >= 2 THEN 4 ELSE Len(bytes) - i + 2
           a == bytes[i]
           b == ByteOr0(bytes, i + 1)
           c == ByteOr0(bytes, i + 2)
           l1 == a \div 4
           l2 == (a % 4) * 16 + b \div 16
           l3 == (b % 16) * 4 + c \div 64
           l4 == c % 64
           four == <<l1, l2, l3, l4>>
           x == Group(bytes, i)
<1>1. a \in 0..255 /\ b \in 0..255 /\ c \in 0..255
  <2>1. Len(bytes) \in Nat /\ i \in Nat /\ i >= 1 /\ \A j \in 1..Len(bytes) : bytes[j] \in 0..255
    BY ElementsOf DEF ByteSeqs
  <2>2. \A j \in Nat \ {0} : ByteOr0(bytes, j) \in 0..255
    BY <2>1 DEF ByteOr0, ByteSeqs
  <2>3. i + 1 \in Nat \ {0} /\ i + 2 \in Nat \ {0}
    BY <2>1
  <2> QED BY <2>1, <2>2, <2>3
<1>2. m \in 2..4 /\ m = 1 + IF Len(bytes) - i >= 2 THEN 3 ELSE Len(bytes) - i + 1
  BY DEF ByteSeqs
<1>3. x = SubSeq(four, 1, m)
  BY <1>2 DEF Group
<1> HIDE DEF a, b, c, m
<1>4. l1 \in 0..63 /\ l2 \in 0..63 /\ l3 \in 0..63 /\ l4 \in 0..63
  BY <1>1
<1> HIDE DEF l1, l2, l3, l4
<1>5. four \in Seq(0..63) /\ Len(four) = 4 /\ four[1] = l1 /\ four[2] = l2 /\ four[3] = l3 /\ four[4] = l4
  BY <1>4
<1> HIDE DEF four, x
<1>6. x \in Seq(0..63) /\ Len(x) = m /\ \A j \in 1..m : x[j] = four[j]
  <2>1. m \in 0..Len(four)
    BY <1>2, <1>5
  <2> QED BY <1>3, <1>5, <2>1, SubSeqPrefix
<1>7. x[1] = l1 /\ x[2] = l2 /\ (m >= 3 => x[3] = l3) /\ (m >= 4 => x[4] = l4)
  BY <1>2, <1>5, <1>6
<1> QED BY <1>1, <1>2, <1>6, <1>7 DEF a, b, c, m, l1, l2, l3, l4, x

\* Letter n + 1, by the bytes it is made of.
LetterAt(bytes, n) ==
    LET q == 3 * (n \div 4)
        a == ByteOr0(bytes, q + 1)  b == ByteOr0(bytes, q + 2)  c == ByteOr0(bytes, q + 3)
    IN  CASE n % 4 = 0 -> a \div 4
          [] n % 4 = 1 -> (a % 4) * 16 + b \div 16
          [] n % 4 = 2 -> (b % 16) * 4 + c \div 64
          [] n % 4 = 3 -> c % 64

\* Letters for L bytes, without padding.
LettersOf(L) == (4 * L + 2) \div 3

\* The letters of all groups, by position.
LEMMA GroupsAre ==
    ASSUME NEW bytes \in ByteSeqs
    PROVE  /\ Groups(bytes) \in Seq(0..63)
           /\ Len(Groups(bytes)) = LettersOf(Len(bytes))
           /\ \A n \in 0..(LettersOf(Len(bytes)) - 1) : Groups(bytes)[n + 1] = LetterAt(bytes, n)
<1> DEFINE L == Len(bytes)
           N == (L + 2) \div 3
           seqs == [g \in 1..N |-> Group(bytes, 3 * g - 2)]
           e == FlattenSeq(seqs)
<1>1. L \in Nat /\ N \in Nat /\ e = Groups(bytes)
  BY DEF Groups, ByteSeqs
<1>2. \A g \in 1..N : 3 * g - 2 \in 1..L
  BY <1>1
<1>3. \A g \in 1..N : seqs[g] \in Seq(0..63) /\ Len(seqs[g]) = IF L - (3 * g - 2) >= 2 THEN 4 ELSE L - (3 * g - 2) + 2
  <2> HIDE DEF N
  <2>1. ASSUME NEW g \in 1..N
        PROVE  seqs[g] \in Seq(0..63) /\ Len(seqs[g]) = IF L - (3 * g - 2) >= 2 THEN 4 ELSE L - (3 * g - 2) + 2
    <3> DEFINE i == 3 * g - 2
    <3>1. i \in 1..L /\ seqs[g] = Group(bytes, i)
      BY <1>2
    <3> HIDE DEF i
    <3>2. Group(bytes, i) \in Seq(0..63) /\ Len(Group(bytes, i)) = IF L - i >= 2 THEN 4 ELSE L - i + 2
      BY <3>1, GroupIs
    <3> HIDE DEF seqs, L
    <3> QED BY <3>1, <3>2 DEF i
  <2> HIDE DEF seqs, L
  <2> QED BY <2>1
<1>4. seqs \in Seq(Seq(0..63)) /\ Len(seqs) = N
  <2> HIDE DEF N
  <2> QED BY <1>1, <1>3
<1>5. CASE L = 0
  <2>1. N = 0 /\ LettersOf(L) = 0
    BY <1>5 DEF LettersOf
  <2>2. seqs = <<>>
    BY <2>1
  <2>3. e = <<>>
    BY <2>2 DEF FlattenSeq
  <2> QED BY <1>1, <2>1, <2>3
<1>6. CASE L # 0
  <2>1. N >= 1 /\ 3 * N - 2 <= L /\ L <= 3 * N
    BY <1>1, <1>6
  <2>2. \A g \in 1..(N - 1) : Len(seqs[g]) = 4
    <3> SUFFICES ASSUME NEW g \in 1..(N - 1) PROVE Len(seqs[g]) = 4
      OBVIOUS
    <3>1. g \in 1..N /\ L - (3 * g - 2) >= 2
      BY <1>1, <2>1
    <3> QED BY <1>3, <3>1
  <2> HIDE DEF seqs
  <2>3. e \in Seq(0..63) /\ Chunked(e, seqs, 4, N)
    <3>1. Len(seqs) # 0 /\ \A g \in 1..(Len(seqs) - 1) : Len(seqs[g]) = 4
      <4> HIDE DEF N
      <4> QED BY <1>1, <1>4, <2>1, <2>2
    <3>2. 4 \in Nat
      OBVIOUS
    <3>3. FlattenSeq(seqs) \in Seq(0..63) /\ Chunked(FlattenSeq(seqs), seqs, 4, Len(seqs))
      BY <1>4, <3>1, <3>2, FlattenChunks
    <3> QED BY <1>4, <3>3
  <2>4. Len(e) = 4 * (N - 1) + Len(seqs[N])
    BY <2>3 DEF Chunked
  <2>5. Len(e) = LettersOf(L)
    <3>1. Len(seqs[N]) = IF L - (3 * N - 2) >= 2 THEN 4 ELSE L - (3 * N - 2) + 2
      BY <1>1, <1>3, <2>1
    <3> HIDE DEF N, e
    <3>2. L = 3 * N - 2 \/ L = 3 * N - 1 \/ L = 3 * N
      BY <1>1, <2>1
    <3>3. L = 3 * N - 2 => Len(e) = 4 * N - 2 /\ LettersOf(L) = 4 * N - 2
      BY <1>1, <2>1, <2>4, <3>1 DEF LettersOf
    <3>4. L = 3 * N - 1 => Len(e) = 4 * N - 1 /\ LettersOf(L) = 4 * N - 1
      BY <1>1, <2>1, <2>4, <3>1 DEF LettersOf
    <3>5. L = 3 * N => Len(e) = 4 * N /\ LettersOf(L) = 4 * N
      BY <1>1, <2>1, <2>4, <3>1 DEF LettersOf
    <3> QED BY <3>2, <3>3, <3>4, <3>5
  <2>6. ASSUME NEW n \in 0..(LettersOf(L) - 1) PROVE e[n + 1] = LetterAt(bytes, n)
    <3> DEFINE g == n \div 4 + 1
               r == (n % 4) + 1
    <3>1. n \in Nat /\ n + 1 <= LettersOf(L)
      BY <1>1 DEF LettersOf
    <3>2. g \in 1..N /\ r \in 1..4 /\ n + 1 = 4 * (g - 1) + r /\ 3 * g - 2 = 3 * (n \div 4) + 1
      BY <1>1, <2>1, <3>1 DEF LettersOf
    <3>3. r \in 1..Len(seqs[g])
      <4>1. Len(seqs[g]) = IF L - (3 * g - 2) >= 2 THEN 4 ELSE L - (3 * g - 2) + 2
        BY <1>3, <3>2
      <4>2. 4 * (g - 1) + r <= LettersOf(L)
        BY <3>1, <3>2
      <4> HIDE DEF g, r
      <4> QED BY <1>1, <3>2, <4>1, <4>2 DEF LettersOf
    <3>4. e[n + 1] = seqs[g][r]
      <4> HIDE DEF g, r, e
      <4>1. e[4 * (g - 1) + r] = seqs[g][r]
        BY <2>3, <3>2, <3>3 DEF Chunked
      <4> QED BY <3>2, <4>1
    <3>5. seqs[g] = Group(bytes, 3 * (n \div 4) + 1) /\ 3 * (n \div 4) + 1 \in 1..L
      <4>1. seqs[g] = Group(bytes, 3 * g - 2)
        BY <3>2 DEF seqs
      <4> QED BY <1>2, <3>2, <4>1
    <3> DEFINE i == 3 * (n \div 4) + 1
               a == bytes[i]
               b == ByteOr0(bytes, i + 1)
               c == ByteOr0(bytes, i + 2)
               x == Group(bytes, i)
    <3>6. /\ x[1] = a \div 4 /\ x[2] = (a % 4) * 16 + b \div 16
          /\ Len(x) >= 3 => x[3] = (b % 16) * 4 + c \div 64
          /\ Len(x) >= 4 => x[4] = c % 64
      <4> HIDE DEF i
      <4> QED BY <3>5, GroupIs DEF i
    <3>7. a = ByteOr0(bytes, i) /\ i + 1 = 3 * (n \div 4) + 2 /\ i + 2 = 3 * (n \div 4) + 3
      BY <3>1, <3>5 DEF ByteOr0
    <3>8. /\ r = 1 => x[r] = a \div 4
          /\ r = 2 => x[r] = (a % 4) * 16 + b \div 16
          /\ r = 3 => x[r] = (b % 16) * 4 + c \div 64
          /\ r = 4 => x[r] = c % 64
      <4>1. seqs[g] = x
        BY <3>5
      <4> HIDE DEF r, x, a, b, c
      <4> QED BY <3>3, <3>6, <4>1
    <3>9. e[n + 1] = x[r]
      BY <3>4, <3>5
    <3>10. n % 4 \in 0..3
      BY <3>1
    <3> HIDE DEF x
    <3> QED BY <3>7, <3>8, <3>9, <3>10, SMTT(30) DEF LetterAt
  <2> HIDE DEF e
  <2> QED BY <1>1, <2>3, <2>5, <2>6
<1> QED BY <1>5, <1>6

------------------------------------------------------------------------------
\* Encoding.
LEMMA EncodeIs ==
    ASSUME NEW bytes \in ByteSeqs
    PROVE  LET url == Base64UrlEncode(bytes)
               b64 == Base64Encode(bytes)
               L == Len(bytes)
           IN  /\ url.text \in Seq(0..63) /\ url.len = LettersOf(L) /\ url.len = Len(url.text)
               /\ BufferFits(url) /\ BufferFits(b64)
               /\ b64.text \in Seq(0..Pad) /\ b64.len = LetterCount(L) /\ b64.len = Len(b64.text)
               /\ b64.len % 4 = 0
               /\ b64.text = url.text \o [i \in 1..(b64.len - url.len) |-> Pad]
               /\ \A n \in 0..(LetterCount(L) - 1) :
                     b64.text[n + 1] = IF n < LettersOf(L) THEN LetterAt(bytes, n) ELSE Pad
<1> DEFINE L == Len(bytes)
           e == Groups(bytes)
           k == LetterCount(L) - Len(e)
           pads == [i \in 1..k |-> Pad]
<1>1. L \in Nat
  BY ElementsOf DEF ByteSeqs
<1>2. /\ e \in Seq(0..63) /\ Len(e) = LettersOf(L)
      /\ \A n \in 0..(LettersOf(L) - 1) : e[n + 1] = LetterAt(bytes, n)
  BY GroupsAre
<1>3. LettersOf(L) \in Nat /\ LetterCount(L) \in Nat /\ LettersOf(L) <= LetterCount(L) /\ LetterCount(L) % 4 = 0
  BY <1>1 DEF LettersOf, LetterCount
<1> HIDE DEF L, e
<1>4. k \in Nat /\ k = LetterCount(L) - LettersOf(L)
  BY <1>2, <1>3
<1> HIDE DEF k
<1>5. pads \in Seq(0..Pad) /\ Len(pads) = k /\ \A i \in 1..k : pads[i] = Pad
  BY <1>4 DEF Pad
<1>6. e \in Seq(0..Pad)
  <2>1. \A j \in 1..Len(e) : e[j] \in 0..Pad
    <3>1. \A j \in 1..Len(e) : e[j] \in 0..63
      BY <1>2, ElementsOf
    <3>2. \A x \in 0..63 : x \in 0..Pad
      BY DEF Pad
    <3> QED BY <3>1, <3>2
  <2> QED BY <1>2, <2>1, SeqOver
<1> HIDE DEF pads
<1>7. e \o pads \in Seq(0..Pad) /\ Len(e \o pads) = LetterCount(L)
  BY <1>2, <1>3, <1>4, <1>5, <1>6
<1>8. ASSUME NEW n \in 0..(LetterCount(L) - 1)
      PROVE  (e \o pads)[n + 1] = IF n < LettersOf(L) THEN LetterAt(bytes, n) ELSE Pad
  <2>1. n \in Nat /\ n + 1 \in 1..LetterCount(L)
    BY <1>3
  <2>2. CASE n < LettersOf(L)
    <3>1. n + 1 \in 1..Len(e) /\ n \in 0..(LettersOf(L) - 1)
      BY <1>2, <1>3, <2>1, <2>2
    <3>2. (e \o pads)[n + 1] = e[n + 1]
      BY <1>5, <1>6, <3>1
    <3> QED BY <1>2, <2>2, <3>1, <3>2
  <2>3. CASE ~(n < LettersOf(L))
    <3>1. n + 1 \in (Len(e) + 1)..(Len(e) + Len(pads)) /\ (n + 1) - Len(e) \in 1..k
      BY <1>2, <1>3, <1>4, <1>5, <2>1, <2>3
    <3>2. (e \o pads)[n + 1] = pads[(n + 1) - Len(e)]
      BY <1>5, <1>6, <3>1
    <3> QED BY <1>5, <2>3, <3>1, <3>2
  <2> QED BY <2>2, <2>3
<1> DEFINE url == Base64UrlEncode(bytes)
           b64 == Base64Encode(bytes)
<1>9. url.text = e /\ url.len = Len(e) /\ url.cap = LetterCount(L) + 1
  BY DEF Base64UrlEncode, Buffer, e, L
<1>10. b64.text = e \o pads /\ b64.len = Len(e \o pads) /\ b64.cap = LetterCount(L) + 1
  BY DEF Base64Encode, EncodeBlock, Buffer, e, L, pads, k
<1>11. BufferFits(url) /\ BufferFits(b64)
  BY <1>2, <1>3, <1>7, <1>9, <1>10 DEF BufferFits
<1>12. b64.len - url.len = k
  BY <1>2, <1>4, <1>7, <1>9, <1>10
<1> HIDE DEF url, b64
<1> QED BY <1>2, <1>3, <1>7, <1>8, <1>9, <1>10, <1>11, <1>12 DEF url, b64, L, pads

\* The state of bux_base64url_decode between two letters.
Decoding == [buf : Nat, bits : 0..7, out : ByteSeqs]
NothingYet == [buf |-> 0, bits |-> 0, out |-> <<>>]
DecodeStep(letters, n, st) ==
    IF letters[n] \in 0..63 THEN B64UrlStep(st, letters[n]) ELSE st

\* The number of values that 14 bits have.
LEMMA KeptIs == Kept \in Nat \ {0} /\ Kept = 16384
  <1>1. 2^14 = 16384
    OBVIOUS
  <1> QED BY <1>1 DEF Kept

\* One letter adds six bits; eight of them are a byte.
StepsTo(st, val, to) ==
    /\ to \in Decoding /\ to.buf = (st.buf * 64 + val) % Kept
    /\ IF st.bits + 6 < 8 THEN to.bits = st.bits + 6 /\ to.out = st.out
       ELSE /\ to.bits = (st.bits + 6) - 8
            /\ to.out = Append(st.out, (to.buf \div 2^((st.bits + 6) - 8)) % 256)

\* The step of the decoder is that.
LEMMA B64UrlStepIs ==
    ASSUME NEW st \in Decoding, NEW val \in 0..63
    PROVE  StepsTo(st, val, B64UrlStep(st, val))
<1> DEFINE buf == (st.buf * 64 + val) % Kept
           byte == (buf \div 2^((st.bits + 6) - 8)) % 256
<1> DEFINE bits == st.bits + 6
           to == B64UrlStep(st, val)
<1>1. st.buf \in Nat /\ st.bits \in 0..7 /\ st.out \in ByteSeqs
  BY DEF Decoding
<1>2. buf \in Nat /\ bits \in 6..13
  BY <1>1, KeptIs
<1> HIDE DEF byte
<1>4. CASE bits < 8
  <2>1. to = [buf |-> buf, bits |-> bits, out |-> st.out]
    BY <1>4 DEF B64UrlStep
  <2>2. bits \in 0..7
    BY <1>2, <1>4
  <2> HIDE DEF to, bits, buf
  <2>4. to \in Decoding /\ to.buf = buf /\ to.bits = bits /\ to.out = st.out
    BY <1>1, <1>2, <2>1, <2>2 DEF Decoding
  <2> QED BY <1>4, <2>4 DEF to, bits, buf, StepsTo
<1>5. CASE ~(bits < 8)
  <2>1. to = [buf |-> buf, bits |-> bits - 8, out |-> Append(st.out, byte)]
    BY <1>5 DEF B64UrlStep, byte
  <2>2. bits - 8 \in 0..5
    BY <1>2, <1>5
  <2> DEFINE x == bits - 8
  <2>3. byte = (buf \div 2^x) % 256
    BY DEF byte
  <2> HIDE DEF to, bits, buf, x
  <2>4. byte \in 0..255
    <3>1. 2^0 = 1 /\ 2^1 = 2 /\ 2^2 = 4 /\ 2^3 = 8 /\ 2^4 = 16 /\ 2^5 = 32
      OBVIOUS
    <3>2. x = 0 \/ x = 1 \/ x = 2 \/ x = 3 \/ x = 4 \/ x = 5
      BY <2>2 DEF x
    <3> DEFINE p == 2^x
    <3>3. p = 1 \/ p = 2 \/ p = 4 \/ p = 8 \/ p = 16 \/ p = 32
      BY <3>1, <3>2, Zenon
    <3>4. byte = (buf \div p) % 256
      BY <2>3
    <3> HIDE DEF p
    <3>5. buf \div p \in Nat
      BY <1>2, <3>3
    <3> DEFINE d == buf \div p
    <3> HIDE DEF d
    <3>6. d \in Nat /\ byte = d % 256
      BY <3>4, <3>5 DEF d
    <3> QED BY <3>6
  <2>5. Append(st.out, byte) \in ByteSeqs
    <3>1. st.out \in Seq(0..255)
      BY <1>1 DEF ByteSeqs
    <3>2. Append(st.out, byte) \in Seq(0..255)
      BY <2>4, <3>1
    <3> QED BY <3>2 DEF ByteSeqs
  <2>6. bits - 8 \in 0..7
    BY <2>2
  <2>7. to \in Decoding /\ to.buf = buf /\ to.bits = bits - 8 /\ to.out = Append(st.out, byte)
    BY <1>2, <2>1, <2>5, <2>6 DEF Decoding
  <2>8. to.out = Append(st.out, (to.buf \div 2^x) % 256)
    BY <2>3, <2>7
  <2> QED BY <1>5, <2>7, <2>8 DEF to, bits, buf, x, StepsTo
<1> QED BY <1>4, <1>5

\* The decoder stays in its states, whatever the character.
LEMMA DecodeStepType ==
    ASSUME NEW letters, NEW n, NEW st \in Decoding
    PROVE  DecodeStep(letters, n, st) \in Decoding
<1>1. ASSUME letters[n] \in 0..63 PROVE B64UrlStep(st, letters[n]) \in Decoding
  <2>1. StepsTo(st, letters[n], B64UrlStep(st, letters[n]))
    BY <1>1, B64UrlStepIs
  <2> QED BY <2>1 DEF StepsTo
<1> QED BY <1>1 DEF DecodeStep

\* The decoder over a text, as bux_base64url_decode runs it.
DecodeRun(after, letters) ==
    /\ after \in [0..Len(letters) -> Decoding] /\ after[0] = NothingYet
    /\ \A n \in 1..Len(letters) : after[n] = DecodeStep(letters, n, after[n - 1])

\* The decoder is a run of its steps, one per character.
LEMMA DecodeRuns ==
    ASSUME NEW letters \in Seq(Nat)
    PROVE  \E after : /\ DecodeRun(after, letters)
                      /\ Base64UrlDecode(letters)
                            = Buffer((3 * Len(letters)) \div 4 + 1, after[Len(letters)].out)
<1> DEFINE L == Len(letters)
           S == Decoding
           F == [n \in 1..L |-> [st \in S |-> DecodeStep(letters, n, st)]]
           Eqn(g) == g = [n \in 0..Len(letters) |->
                            IF n = 0 THEN [buf |-> 0, bits |-> 0, out |-> <<>>]
                            ELSE IF letters[n] \in 0..63 THEN B64UrlStep(g[n - 1], letters[n])
                            ELSE g[n - 1]]
<1>1. L \in Nat /\ NothingYet \in S
  BY DEF NothingYet, Decoding, ByteSeqs
<1>2. PICK f \in [0..L -> S] : f[0] = NothingYet /\ \A n \in 1..L : f[n] = F[n][f[n - 1]]
  <2>1. F \in [1..L -> [S -> S]]
    <3> HIDE DEF L, S
    <3> QED BY DecodeStepType DEF S
  <2> HIDE DEF F, S, L
  <2>2. StepsOn(F, L, S)
    BY <2>1 DEF StepsOn
  <2>3. \E h : StepsFrom(h, F, L, S, NothingYet)
    BY <1>1, <2>2, RecursionExists
  <2> QED BY <2>3 DEF StepsFrom
<1> HIDE DEF S
<1>3. \A n \in 1..L : f[n] = DecodeStep(letters, n, f[n - 1])
  <2>1. \A n \in 1..L : n - 1 \in 0..L
    BY <1>1
  <2> QED BY <1>2, <2>1
<1>4. Eqn(f)
  <2>1. \A n \in 0..L : n = 0 \/ n \in 1..L
    BY <1>1
  <2>2. f = [n \in 0..L |-> IF n = 0 THEN NothingYet ELSE DecodeStep(letters, n, f[n - 1])]
    <3> HIDE DEF L
    <3> QED BY <1>2, <1>3, <2>1
  <2> QED BY <2>2 DEF NothingYet, DecodeStep
<1> DEFINE g == CHOOSE h : Eqn(h)
<1>5. Eqn(g)
  <2> HIDE DEF Eqn
  <2> QED BY <1>4
<1>6. Base64UrlDecode(letters) = Buffer((3 * Len(letters)) \div 4 + 1, g[L].out)
  BY DEF Base64UrlDecode
<1> HIDE DEF g
<1>7. g[0] = NothingYet /\ \A n \in 1..L : g[n] = DecodeStep(letters, n, g[n - 1])
  <2>1. 0 \in 0..L /\ \A n \in 1..L : n \in 0..L /\ n # 0
    BY <1>1
  <2>2. \A n \in 0..L : g[n] = IF n = 0 THEN NothingYet ELSE DecodeStep(letters, n, g[n - 1])
    BY <1>5 DEF NothingYet, DecodeStep
  <2> HIDE DEF L
  <2> QED BY <2>1, <2>2
<1> DEFINE U == {n \in Nat : n <= L => g[n] \in Decoding}
<1>8. Nat \subseteq U
  <2>1. 0 \in U
    BY <1>1, <1>7 DEF S
  <2>2. ASSUME NEW n \in Nat, n \in U PROVE n + 1 \in U
    <3>1. SUFFICES ASSUME n + 1 <= L PROVE g[n + 1] \in Decoding
      OBVIOUS
    <3>2. n + 1 \in 1..L /\ (n + 1) - 1 = n /\ n <= L
      BY <1>1, <3>1
    <3>3. g[n + 1] = DecodeStep(letters, n + 1, g[n])
      BY <1>7, <3>2
    <3> QED BY <2>2, <3>2, <3>3, DecodeStepType
  <2> HIDE DEF U
  <2> QED BY <2>1, <2>2, SetInduction
<1>9. g \in [0..L -> Decoding]
  <2>1. \A n \in 0..L : g[n] \in Decoding
    BY <1>1, <1>8
  <2> QED BY <1>5, <2>1
<1>10. DecodeRun(g, letters)
  BY <1>7, <1>9 DEF DecodeRun
<1> QED BY <1>6, <1>10

\* Bits put out and bits kept are at most six for each letter.
LEMMA BitsAdd ==
    ASSUME NEW a \in Nat, NEW b \in 0..7, NEW n \in Nat, 8 * a + b <= 6 * n
    PROVE  8 * a + (b + 6) <= 6 * (n + 1) /\ 8 * (a + 1) + ((b + 6) - 8) <= 6 * (n + 1)
  OBVIOUS

LEMMA BitsFit ==
    ASSUME NEW a \in Nat, NEW b \in Nat, NEW n \in Nat, 8 * a + b <= 6 * n
    PROVE  a < (3 * n) \div 4 + 1
  OBVIOUS

\* Eight bits of output for at most six bits of each letter: the buffer holds them.
LEMMA DecodeFits ==
    ASSUME NEW letters \in Seq(Nat)
    PROVE  BufferFits(Base64UrlDecode(letters))
<1> DEFINE L == Len(letters)
<1>1. L \in Nat
  OBVIOUS
<1>2. PICK after : /\ DecodeRun(after, letters)
                   /\ Base64UrlDecode(letters) = Buffer((3 * L) \div 4 + 1, after[L].out)
  BY DecodeRuns
<1> HIDE DEF L
<1>3. ASSUME NEW n \in 0..L
      PROVE  after[n].bits \in 0..7 /\ after[n].out \in ByteSeqs /\ Len(after[n].out) \in Nat
  <2>1. after[n] \in Decoding
    BY <1>2 DEF DecodeRun, L
  <2>2. after[n].bits \in 0..7 /\ after[n].out \in ByteSeqs
    BY <2>1 DEF Decoding
  <2> QED BY <2>2, ElementsOf DEF ByteSeqs
<1> DEFINE Small(n) == 8 * Len(after[n].out) + after[n].bits <= 6 * n
           U == {n \in Nat : n <= L => Small(n)}
<1>4. 0 \in U
  <2>1. after[0].out = <<>> /\ after[0].bits = 0
    BY <1>2 DEF DecodeRun, NothingYet
  <2> QED BY <2>1
<1>5. ASSUME NEW n \in Nat, n \in U PROVE n + 1 \in U
  <2>1. SUFFICES ASSUME n + 1 <= L PROVE Small(n + 1)
    OBVIOUS
  <2>2. n + 1 \in 1..L /\ (n + 1) - 1 = n /\ n \in 0..L /\ n <= L
    BY <1>1, <2>1
  <2>3. Small(n)
    BY <1>5, <2>2
  <2> DEFINE st == after[n]
             to == after[n + 1]
  <2>4. to = DecodeStep(letters, n + 1, st) /\ st \in Decoding
    BY <1>2, <2>2 DEF DecodeRun, L
  <2>5. st.bits \in 0..7 /\ st.out \in ByteSeqs /\ Len(st.out) \in Nat /\ 8 * Len(st.out) + st.bits <= 6 * n
    BY <1>3, <2>2, <2>3
  <2> DEFINE val == letters[n + 1]
  <2> HIDE DEF st, to, val
  <2>7. 8 * Len(to.out) + to.bits <= 6 * (n + 1)
    <3>1. CASE val \in 0..63
      <4>1. to = B64UrlStep(st, val)
        BY <2>4, <3>1 DEF DecodeStep, val
      <4>2. StepsTo(st, val, to)
        BY <2>4, <3>1, <4>1, B64UrlStepIs
      <4>3. \A x : Len(Append(st.out, x)) = Len(st.out) + 1
        BY <2>5, AppendIs DEF ByteSeqs
      <4>4. CASE st.bits + 6 < 8
        <5>1. to.bits = st.bits + 6 /\ to.out = st.out
          BY <4>2, <4>4 DEF StepsTo
        <5>2. 8 * Len(st.out) + (st.bits + 6) <= 6 * (n + 1)
          BY <2>5, BitsAdd
        <5> QED BY <5>1, <5>2
      <4>5. CASE ~(st.bits + 6 < 8)
        <5>1. to.bits = (st.bits + 6) - 8 /\ Len(to.out) = Len(st.out) + 1
          BY <4>2, <4>3, <4>5 DEF StepsTo
        <5>2. 8 * (Len(st.out) + 1) + ((st.bits + 6) - 8) <= 6 * (n + 1)
          BY <2>5, BitsAdd
        <5> QED BY <5>1, <5>2
      <4> QED BY <4>4, <4>5
    <3>2. CASE val \notin 0..63
      <4>1. to = st
        BY <2>4, <3>2 DEF DecodeStep, val
      <4>2. \A a \in Nat : \A b \in 0..7 : 8 * a + b <= 6 * n => 8 * a + b <= 6 * (n + 1)
        OBVIOUS
      <4>3. 8 * Len(st.out) + st.bits <= 6 * (n + 1)
        BY <2>5, <4>2
      <4> QED BY <4>1, <4>3
    <3> QED BY <3>1, <3>2
  <2> QED BY <2>7 DEF to
<1> HIDE DEF U
<1>6. Nat \subseteq U
  BY <1>4, <1>5, SetInduction
<1>7. 8 * Len(after[L].out) + after[L].bits <= 6 * L
  <2>1. L \in U /\ L <= L
    BY <1>1, <1>6
  <2> QED BY <2>1 DEF U
<1>8. after[L].bits \in Nat /\ Len(after[L].out) \in Nat
  BY <1>1, <1>3
<1>9. Len(after[L].out) < (3 * L) \div 4 + 1
  BY <1>1, <1>7, <1>8, BitsFit
<1> QED BY <1>2, <1>9 DEF BufferFits, Buffer

\* What the decoder knows after n letters of the encoding of bytes.
Decoded(bytes, n, st) ==
    /\ Len(st.out) = (3 * n) \div 4 /\ st.bits = (6 * n) % 8
    /\ \A i \in 1..Len(st.out) : st.out[i] = ByteOr0(bytes, i)
    /\ n % 4 = 1 => st.buf % 64 = ByteOr0(bytes, 3 * (n \div 4) + 1) \div 4
    /\ n % 4 = 2 => st.buf % 16 = ByteOr0(bytes, 3 * (n \div 4) + 2) \div 16
    /\ n % 4 = 3 => st.buf % 4 = ByteOr0(bytes, 3 * (n \div 4) + 3) \div 64

\* The shifts and masks of one letter, by its place in its group.
IsByte(x) == x \in 0..255
IsLetter(x) == x \in 0..63
IsNat(x) == x \in Nat
Low(x, k) == x % k
High(x, k) == x \div k
Shifted(buf, val) == (buf * 64 + val) % Kept
Second(a, b) == (a % 4) * 16 + b \div 16
Third(b, c) == (b % 16) * 4 + c \div 64

\* Behind the first letter the six bits of it are kept, behind the second and the third
\* one byte has come out and the rest is kept, behind the fourth the third byte.
LEMMA FirstLetter ==
    ASSUME NEW a, IsByte(a), NEW buf, IsNat(buf)
    PROVE  IsLetter(High(a, 4)) /\ Low(Shifted(buf, High(a, 4)), 64) = High(a, 4)
  BY KeptIs DEF Low, High, Shifted, IsByte, IsLetter, IsNat

LEMMA SecondLetter ==
    ASSUME NEW a, IsByte(a), NEW b, IsByte(b), NEW buf, IsNat(buf), Low(buf, 64) = High(a, 4)
    PROVE  /\ IsLetter(Second(a, b))
           /\ Low(High(Shifted(buf, Second(a, b)), 16), 256) = a
           /\ Low(Shifted(buf, Second(a, b)), 16) = High(b, 16)
<1>1. IsLetter(Second(a, b))
  BY DEF Second, IsByte, IsLetter
<1>2. buf % 64 = a \div 4 /\ b \div 16 \in 0..15
  BY DEF Low, High, IsByte, IsNat
<1>3. (((buf * 64 + ((a % 4) * 16 + b \div 16)) % Kept) \div 16) % 256 = a
  BY <1>2, KeptIs DEF IsByte, IsNat
<1>4. ((buf * 64 + ((a % 4) * 16 + b \div 16)) % Kept) % 16 = b \div 16
  BY <1>2, KeptIs DEF IsByte, IsNat
<1> QED BY <1>1, <1>3, <1>4 DEF Low, High, Shifted, Second

LEMMA ThirdLetter ==
    ASSUME NEW b, IsByte(b), NEW c, IsByte(c), NEW buf, IsNat(buf), Low(buf, 16) = High(b, 16)
    PROVE  /\ IsLetter(Third(b, c))
           /\ Low(High(Shifted(buf, Third(b, c)), 4), 256) = b
           /\ Low(Shifted(buf, Third(b, c)), 4) = High(c, 64)
<1>1. IsLetter(Third(b, c))
  BY DEF Third, IsByte, IsLetter
<1>2. buf % 16 = b \div 16 /\ c \div 64 \in 0..3
  BY DEF Low, High, IsByte, IsNat
<1>3. (((buf * 64 + ((b % 16) * 4 + c \div 64)) % Kept) \div 4) % 256 = b
  BY <1>2, KeptIs DEF IsByte, IsNat
<1>4. ((buf * 64 + ((b % 16) * 4 + c \div 64)) % Kept) % 4 = c \div 64
  BY <1>2, KeptIs DEF IsByte, IsNat
<1> QED BY <1>1, <1>3, <1>4 DEF Low, High, Shifted, Third

LEMMA FourthLetter ==
    ASSUME NEW c, IsByte(c), NEW buf, IsNat(buf), Low(buf, 4) = High(c, 64)
    PROVE  IsLetter(Low(c, 64)) /\ Low(Shifted(buf, Low(c, 64)), 256) = c
<1> DEFINE q == buf \div 4
           val == c % 64
<1>1. q \in Nat /\ val \in 0..63 /\ buf = 4 * q + c \div 64 /\ c = 64 * (c \div 64) + val /\ c \in 0..255
  BY DEF Low, High, IsByte, IsNat
<1> HIDE DEF q, val
<1>2. buf * 64 + val = 256 * q + c
  BY <1>1
<1>3. ((256 * q + c) % Kept) % 256 = c
  BY <1>1, KeptIs
<1>4. Low(c, 64) = val
  BY DEF Low, val
<1>5. Shifted(buf, val) = (256 * q + c) % Kept
  BY <1>2 DEF Shifted
<1> QED BY <1>1, <1>3, <1>4, <1>5 DEF Low, IsLetter

\* One more byte that is the right one.
LEMMA OneMoreByte ==
    ASSUME NEW bytes, NEW s \in ByteSeqs, NEW x,
           \A i \in 1..Len(s) : s[i] = ByteOr0(bytes, i), x = ByteOr0(bytes, Len(s) + 1)
    PROVE  /\ Len(Append(s, x)) = Len(s) + 1
           /\ \A i \in 1..Len(Append(s, x)) : Append(s, x)[i] = ByteOr0(bytes, i)
<1>1. /\ Len(Append(s, x)) = Len(s) + 1 /\ Append(s, x)[Len(s) + 1] = x
      /\ \A i \in 1..Len(s) : Append(s, x)[i] = s[i]
  BY AppendIs DEF ByteSeqs
<1>2. Len(s) \in Nat
  BY ElementsOf DEF ByteSeqs
<1>3. \A i \in 1..(Len(s) + 1) : i \in 1..Len(s) \/ i = Len(s) + 1
  BY <1>2
<1> QED BY <1>1, <1>3

\* Bytes put out and bits kept after n letters, by the place of the letter in its group.
LEMMA PlaceInGroup ==
    ASSUME NEW n \in Nat
    PROVE  LET q == n \div 4
           IN  /\ q \in Nat /\ n % 4 \in 0..3
               /\ n % 4 = 0 => /\ (3 * n) \div 4 = 3 * q /\ (6 * n) % 8 = 0
                               /\ (3 * (n + 1)) \div 4 = 3 * q /\ (6 * (n + 1)) % 8 = 6
                               /\ (n + 1) \div 4 = q /\ (n + 1) % 4 = 1
               /\ n % 4 = 1 => /\ (3 * n) \div 4 = 3 * q /\ (6 * n) % 8 = 6
                               /\ (3 * (n + 1)) \div 4 = 3 * q + 1 /\ (6 * (n + 1)) % 8 = 4
                               /\ (n + 1) \div 4 = q /\ (n + 1) % 4 = 2
               /\ n % 4 = 2 => /\ (3 * n) \div 4 = 3 * q + 1 /\ (6 * n) % 8 = 4
                               /\ (3 * (n + 1)) \div 4 = 3 * q + 2 /\ (6 * (n + 1)) % 8 = 2
                               /\ (n + 1) \div 4 = q /\ (n + 1) % 4 = 3
               /\ n % 4 = 3 => /\ (3 * n) \div 4 = 3 * q + 2 /\ (6 * n) % 8 = 2
                               /\ (3 * (n + 1)) \div 4 = 3 * q + 3 /\ (6 * (n + 1)) % 8 = 0
                               /\ (n + 1) % 4 = 0
  OBVIOUS

\* One letter keeps what the decoder knows.
LEMMA DecodedStep ==
    ASSUME NEW bytes \in ByteSeqs, NEW n \in Nat, NEW st \in Decoding, Decoded(bytes, n, st),
           NEW val, val = LetterAt(bytes, n), NEW to, StepsTo(st, val, to)
    PROVE  val \in 0..63 /\ Decoded(bytes, n + 1, to)
<1> DEFINE q == n \div 4
           a == ByteOr0(bytes, 3 * q + 1)
           b == ByteOr0(bytes, 3 * q + 2)
           c == ByteOr0(bytes, 3 * q + 3)
<1>1. a \in 0..255 /\ b \in 0..255 /\ c \in 0..255
  <2>1. Len(bytes) \in Nat /\ \A j \in 1..Len(bytes) : bytes[j] \in 0..255
    BY ElementsOf DEF ByteSeqs
  <2>2. \A j \in Nat \ {0} : ByteOr0(bytes, j) \in 0..255
    BY <2>1 DEF ByteOr0
  <2>3. 3 * q + 1 \in Nat \ {0} /\ 3 * q + 2 \in Nat \ {0} /\ 3 * q + 3 \in Nat \ {0}
    OBVIOUS
  <2> QED BY <2>2, <2>3
<1>2. st.buf \in Nat /\ st.out \in ByteSeqs /\ Len(st.out) \in Nat
  BY ElementsOf DEF Decoding, ByteSeqs
<1>3. /\ n % 4 = 0 => val = a \div 4
      /\ n % 4 = 1 => val = (a % 4) * 16 + b \div 16
      /\ n % 4 = 2 => val = (b % 16) * 4 + c \div 64
      /\ n % 4 = 3 => val = c % 64
  BY DEF LetterAt
<1>4. 2^((6 + 6) - 8) = 16 /\ 2^((4 + 6) - 8) = 4 /\ 2^((2 + 6) - 8) = 1
  <2>1. (6 + 6) - 8 = 4 /\ (4 + 6) - 8 = 2 /\ (2 + 6) - 8 = 0
    OBVIOUS
  <2>2. 2^4 = 16 /\ 2^2 = 4 /\ 2^0 = 1
    OBVIOUS
  <2> QED BY <2>1, <2>2
<1>5. to.buf = (st.buf * 64 + val) % Kept /\ \A i \in 1..Len(st.out) : st.out[i] = ByteOr0(bytes, i)
  BY DEF StepsTo, Decoded
<1>6. q \in Nat /\ n % 4 \in 0..3
  BY PlaceInGroup
<1> HIDE DEF q, a, b, c
<1>12. IsByte(a) /\ IsByte(b) /\ IsByte(c) /\ IsNat(st.buf)
  BY <1>1, <1>2 DEF IsByte, IsNat
<1>7. CASE n % 4 = 0
  <2>1. /\ Len(st.out) = 3 * q /\ st.bits = 0
        /\ (3 * (n + 1)) \div 4 = 3 * q /\ (6 * (n + 1)) % 8 = 6
        /\ (n + 1) \div 4 = q /\ (n + 1) % 4 = 1
    BY <1>7, PlaceInGroup DEF Decoded, q
  <2>2. val \in 0..63 /\ to.buf % 64 = val /\ val = a \div 4
    <3>1. val = High(a, 4) /\ to.buf = Shifted(st.buf, val)
      BY <1>3, <1>5, <1>7 DEF High, Shifted
    <3>2. IsLetter(val) /\ Low(to.buf, 64) = val
      BY <1>12, <3>1, FirstLetter
    <3> QED BY <3>1, <3>2 DEF Low, High, IsLetter
  <2>3. to.bits = 6 /\ to.out = st.out
    BY <2>1 DEF StepsTo
  <2>4. Len(to.out) = (3 * (n + 1)) \div 4 /\ to.bits = (6 * (n + 1)) % 8
    BY <2>1, <2>3
  <2>5. \A i \in 1..Len(to.out) : to.out[i] = ByteOr0(bytes, i)
    BY <1>5, <2>3
  <2>6. to.buf % 64 = ByteOr0(bytes, 3 * ((n + 1) \div 4) + 1) \div 4
    BY <2>1, <2>2 DEF a
  <2>7. (n + 1) % 4 # 2 /\ (n + 1) % 4 # 3
    BY <2>1
  <2> QED BY <2>2, <2>4, <2>5, <2>6, <2>7, Zenon DEF Decoded
<1>8. CASE n % 4 = 1
  <2>1. /\ Len(st.out) = 3 * q /\ st.bits = 6 /\ st.buf % 64 = a \div 4
        /\ (3 * (n + 1)) \div 4 = 3 * q + 1 /\ (6 * (n + 1)) % 8 = 4
        /\ (n + 1) \div 4 = q /\ (n + 1) % 4 = 2
    BY <1>8, PlaceInGroup DEF Decoded, q, a
  <2>2. val \in 0..63 /\ (to.buf \div 16) % 256 = a /\ to.buf % 16 = b \div 16
    <3>1. val = Second(a, b) /\ to.buf = Shifted(st.buf, val)
      BY <1>3, <1>5, <1>8 DEF Second, Shifted
    <3>2. Low(st.buf, 64) = High(a, 4)
      BY <2>1 DEF Low, High, IsLetter
    <3>3. IsLetter(val) /\ Low(High(to.buf, 16), 256) = a /\ Low(to.buf, 16) = High(b, 16)
      BY <1>12, <3>1, <3>2, SecondLetter
    <3> QED BY <3>3 DEF Low, High, IsLetter
  <2>3. to.bits = 4 /\ to.out = Append(st.out, a)
    BY <1>4, <2>1, <2>2 DEF StepsTo
  <2>4. Len(st.out) + 1 = 3 * q + 1
    BY <1>6, <2>1
  <2>5. Len(to.out) = Len(st.out) + 1 /\ \A i \in 1..Len(to.out) : to.out[i] = ByteOr0(bytes, i)
    BY <1>2, <1>5, <2>3, <2>4, OneMoreByte DEF a
  <2>6. Len(to.out) = (3 * (n + 1)) \div 4
    BY <2>1, <2>4, <2>5
  <2>7. to.buf % 16 = ByteOr0(bytes, 3 * ((n + 1) \div 4) + 2) \div 16
    BY <2>1, <2>2 DEF b
  <2>8. (n + 1) % 4 # 1 /\ (n + 1) % 4 # 3 /\ to.bits = (6 * (n + 1)) % 8
    BY <2>1, <2>3
  <2> QED BY <2>2, <2>5, <2>6, <2>7, <2>8, Zenon DEF Decoded
<1>9. CASE n % 4 = 2
  <2>1. /\ Len(st.out) = 3 * q + 1 /\ st.bits = 4 /\ st.buf % 16 = b \div 16
        /\ (3 * (n + 1)) \div 4 = 3 * q + 2 /\ (6 * (n + 1)) % 8 = 2
        /\ (n + 1) \div 4 = q /\ (n + 1) % 4 = 3
    BY <1>9, PlaceInGroup DEF Decoded, q, b
  <2>2. val \in 0..63 /\ (to.buf \div 4) % 256 = b /\ to.buf % 4 = c \div 64
    <3>1. val = Third(b, c) /\ to.buf = Shifted(st.buf, val)
      BY <1>3, <1>5, <1>9 DEF Third, Shifted
    <3>2. Low(st.buf, 16) = High(b, 16)
      BY <2>1 DEF Low, High, IsLetter
    <3>3. IsLetter(val) /\ Low(High(to.buf, 4), 256) = b /\ Low(to.buf, 4) = High(c, 64)
      BY <1>12, <3>1, <3>2, ThirdLetter
    <3> QED BY <3>3 DEF Low, High, IsLetter
  <2>3. to.bits = 2 /\ to.out = Append(st.out, b)
    BY <1>4, <2>1, <2>2, SMTT(30) DEF StepsTo
  <2>4. Len(st.out) + 1 = 3 * q + 2
    BY <1>6, <2>1
  <2>5. Len(to.out) = Len(st.out) + 1 /\ \A i \in 1..Len(to.out) : to.out[i] = ByteOr0(bytes, i)
    BY <1>2, <1>5, <2>3, <2>4, OneMoreByte DEF b
  <2>6. Len(to.out) = (3 * (n + 1)) \div 4
    BY <2>1, <2>4, <2>5
  <2>7. to.buf % 4 = ByteOr0(bytes, 3 * ((n + 1) \div 4) + 3) \div 64
    BY <2>1, <2>2 DEF c
  <2>8. (n + 1) % 4 # 1 /\ (n + 1) % 4 # 2 /\ to.bits = (6 * (n + 1)) % 8
    BY <2>1, <2>3
  <2> QED BY <2>2, <2>5, <2>6, <2>7, <2>8, Zenon DEF Decoded
<1>10. CASE n % 4 = 3
  <2>1. /\ Len(st.out) = 3 * q + 2 /\ st.bits = 2 /\ st.buf % 4 = c \div 64
        /\ (3 * (n + 1)) \div 4 = 3 * q + 3 /\ (6 * (n + 1)) % 8 = 0 /\ (n + 1) % 4 = 0
    BY <1>10, PlaceInGroup DEF Decoded, q, c
  <2>2. val \in 0..63 /\ to.buf % 256 = c
    <3>1. val = Low(c, 64) /\ to.buf = Shifted(st.buf, val)
      BY <1>3, <1>5, <1>10 DEF Low, Shifted
    <3>2. Low(st.buf, 4) = High(c, 64)
      BY <2>1 DEF Low, High, IsLetter
    <3>3. IsLetter(val) /\ Low(to.buf, 256) = c
      BY <1>12, <3>1, <3>2, FourthLetter
    <3> QED BY <3>3 DEF Low, High, IsLetter
  <2>3. to.buf \div 1 = to.buf
    BY <1>2, <1>5, <2>2, KeptIs
  <2>4. to.bits = 0 /\ to.out = Append(st.out, c)
    BY <1>4, <2>1, <2>2, <2>3 DEF StepsTo
  <2>5. Len(st.out) + 1 = 3 * q + 3
    BY <1>6, <2>1
  <2>6. Len(to.out) = Len(st.out) + 1 /\ \A i \in 1..Len(to.out) : to.out[i] = ByteOr0(bytes, i)
    BY <1>2, <1>5, <2>4, <2>5, OneMoreByte DEF c
  <2>7. Len(to.out) = (3 * (n + 1)) \div 4
    BY <2>1, <2>5, <2>6
  <2>8. (n + 1) % 4 # 1 /\ (n + 1) % 4 # 2 /\ (n + 1) % 4 # 3 /\ to.bits = (6 * (n + 1)) % 8
    BY <2>1, <2>4
  <2> QED BY <2>2, <2>6, <2>7, <2>8, Zenon DEF Decoded
<1> QED BY <1>6, <1>7, <1>8, <1>9, <1>10

\* Decoding what was encoded, for every sequence of bytes.
LEMMA DecodingInverts ==
    ASSUME NEW bytes \in ByteSeqs
    PROVE  Base64UrlDecode(Base64UrlEncode(bytes).text).text = bytes
<1> DEFINE e == Base64UrlEncode(bytes).text
           L == Len(bytes)
           N == LettersOf(L)
<1>1. e = Groups(bytes)
  BY DEF Base64UrlEncode, Buffer
<1>2. e \in Seq(0..63) /\ Len(e) = N /\ \A n \in 0..(N - 1) : e[n + 1] = LetterAt(bytes, n)
  BY <1>1, GroupsAre
<1>3. L \in Nat /\ \A j \in 1..L : bytes[j] \in 0..255
  BY ElementsOf DEF ByteSeqs
<1>4. N \in Nat /\ (3 * N) \div 4 = L
  BY <1>3 DEF LettersOf
<1> HIDE DEF e, N, L
<1>5. \A j \in 1..N : e[j] \in 0..63
  BY <1>2, ElementsOf
<1>6. e \in Seq(Nat)
  <2>1. \A j \in 1..Len(e) : e[j] \in Nat
    <3>1. \A x \in 0..63 : x \in Nat
      OBVIOUS
    <3> QED BY <1>2, <1>5, <3>1
  <2> QED BY <1>2, <2>1, SeqOver
<1>7. PICK after : /\ DecodeRun(after, e)
                   /\ Base64UrlDecode(e) = Buffer((3 * Len(e)) \div 4 + 1, after[Len(e)].out)
  BY <1>6, DecodeRuns
<1>8. \A n \in 0..N : after[n] \in Decoding
  BY <1>2, <1>7 DEF DecodeRun
<1> DEFINE U == {n \in Nat : n <= N => Decoded(bytes, n, after[n])}
<1>9. 0 \in U
  <2>1. after[0].out = <<>> /\ after[0].bits = 0
    BY <1>7 DEF DecodeRun, NothingYet
  <2>2. (3 * 0) \div 4 = 0 /\ (6 * 0) % 8 = 0 /\ 0 % 4 = 0
    OBVIOUS
  <2>3. Len(<<>>) = 0 /\ \A i \in 1..0 : FALSE
    OBVIOUS
  <2>4. Decoded(bytes, 0, after[0])
    BY <2>1, <2>2, <2>3 DEF Decoded
  <2> QED BY <2>4
<1>10. ASSUME NEW n \in Nat, n \in U PROVE n + 1 \in U
  <2>1. SUFFICES ASSUME n + 1 <= N PROVE Decoded(bytes, n + 1, after[n + 1])
    OBVIOUS
  <2>2. n + 1 \in 1..N /\ (n + 1) - 1 = n /\ n \in 0..N /\ n <= N /\ n \in 0..(N - 1)
    BY <1>4, <2>1
  <2>3. Decoded(bytes, n, after[n]) /\ after[n] \in Decoding
    BY <1>8, <1>10, <2>2
  <2>4. after[n + 1] = DecodeStep(e, n + 1, after[n])
    BY <1>2, <1>7, <2>2 DEF DecodeRun
  <2>5. after[n + 1] = B64UrlStep(after[n], e[n + 1]) /\ e[n + 1] \in 0..63
    BY <1>5, <2>2, <2>4 DEF DecodeStep
  <2>6. StepsTo(after[n], e[n + 1], after[n + 1])
    BY <2>3, <2>5, B64UrlStepIs
  <2>7. e[n + 1] = LetterAt(bytes, n)
    BY <1>2, <2>2
  <2> QED BY <2>3, <2>6, <2>7, DecodedStep
<1> HIDE DEF U
<1>11. Nat \subseteq U
  BY <1>9, <1>10, SetInduction
<1>12. Decoded(bytes, N, after[N])
  <2>1. N \in U /\ N <= N
    BY <1>4, <1>11
  <2> QED BY <2>1 DEF U
<1> DEFINE out == after[N].out
<1>13. Len(out) = L /\ \A i \in 1..Len(out) : out[i] = ByteOr0(bytes, i)
  BY <1>4, <1>12 DEF Decoded
<1>14. out \in ByteSeqs
  <2>1. after[N] \in Decoding
    BY <1>4, <1>8
  <2> QED BY <2>1 DEF Decoding
<1> HIDE DEF out
<1>15. \A i \in 1..L : out[i] = bytes[i]
  BY <1>13 DEF ByteOr0, L
<1>16. out = bytes
  BY <1>13, <1>14, <1>15, SameElements DEF ByteSeqs, L
<1>17. Base64UrlDecode(e).text = out
  BY <1>2, <1>7 DEF Buffer, out
<1> QED BY <1>16, <1>17 DEF e

\* Four letters as one number, and its three bytes.
Value(c) == IF c = Pad THEN 0 ELSE c
Quad(l1, l2, l3, l4) == ((l1 * 64 + l2) * 64 + l3) * 64 + l4
Triple(q) == <<q \div 65536, (q \div 256) % 256, q % 256>>
QuadAt(letters, i) ==
    Quad(Value(letters[i]), Value(letters[i + 1]), Value(letters[i + 2]), Value(letters[i + 3]))

\* The three bytes of four letters made of three bytes.
LEMMA TripleOfQuad ==
    ASSUME NEW a, IsByte(a), NEW b, IsByte(b), NEW c, IsByte(c)
    PROVE  Triple(Quad(High(a, 4), Second(a, b), Third(b, c), Low(c, 64))) = <<a, b, c>>
<1>1. a \in 0..255 /\ b \in 0..255 /\ c \in 0..255
  BY DEF IsByte
<1> DEFINE q == Quad(High(a, 4), Second(a, b), Third(b, c), Low(c, 64))
<1>2. a % 4 = a - 4 * (a \div 4) /\ a \div 4 \in Nat /\ a % 4 \in Nat
  <2>1. a \in Nat /\ 4 \in Nat \ {0}
    BY <1>1
  <2>2. a % 4 = a - 4 * (a \div 4)
    BY <2>1
  <2>3. a \div 4 \in Nat /\ a % 4 \in Nat
    BY <2>1
  <2> QED BY <2>2, <2>3
<1>3. b % 16 = b - 16 * (b \div 16) /\ b \div 16 \in Nat /\ b % 16 \in Nat
  <2>1. b \in Nat /\ 16 \in Nat \ {0}
    BY <1>1
  <2>2. b % 16 = b - 16 * (b \div 16)
    BY <2>1
  <2>3. b \div 16 \in Nat /\ b % 16 \in Nat
    BY <2>1
  <2> QED BY <2>2, <2>3
<1>4. c % 64 = c - 64 * (c \div 64) /\ c \div 64 \in Nat /\ c % 64 \in Nat
  <2>1. c \in Nat /\ 64 \in Nat \ {0}
    BY <1>1
  <2>2. c % 64 = c - 64 * (c \div 64)
    BY <2>1
  <2>3. c \div 64 \in Nat /\ c % 64 \in Nat
    BY <2>1
  <2> QED BY <2>2, <2>3
<1>5. q = 65536 * a + 256 * b + c
  BY <1>1, <1>2, <1>3, <1>4 DEF Quad, High, Low, Second, Third
<1> HIDE DEF q
<1>6. q \div 65536 = a /\ (q \div 256) % 256 = b /\ q % 256 = c
  BY <1>1, <1>5
<1> QED BY <1>6 DEF Triple, q

\* EVP_DecodeBlock, triple by triple.
LEMMA DecodeBlockIs ==
    ASSUME NEW letters \in Seq(Nat)
    PROVE  /\ DecodeBlock(letters) \in Seq(Nat)
           /\ Len(DecodeBlock(letters)) = 3 * (Len(letters) \div 4)
           /\ \A g \in 1..(Len(letters) \div 4) : \A r \in 1..3 :
                 DecodeBlock(letters)[3 * (g - 1) + r] = Triple(QuadAt(letters, 4 * g - 3))[r]
<1> DEFINE G == Len(letters) \div 4
           seqs == [g \in 1..G |-> Triple(QuadAt(letters, 4 * g - 3))]
           d == DecodeBlock(letters)
<1>1. Len(letters) \in Nat /\ G \in Nat /\ \A j \in 1..Len(letters) : letters[j] \in Nat
  BY ElementsOf
<1>2. d = FlattenSeq(seqs)
  BY DEF DecodeBlock, Triple, QuadAt, Quad, Value
<1>3. \A q \in Nat : Triple(q) \in Seq(Nat) /\ Len(Triple(q)) = 3
  <2>1. \A q \in Nat : q \div 65536 \in Nat /\ (q \div 256) % 256 \in Nat /\ q % 256 \in Nat
    OBVIOUS
  <2>2. \A x, y, z \in Nat : <<x, y, z>> \in Seq(Nat) /\ Len(<<x, y, z>>) = 3
    OBVIOUS
  <2> QED BY <2>1, <2>2 DEF Triple
<1>4. ASSUME NEW g \in 1..G PROVE QuadAt(letters, 4 * g - 3) \in Nat
  <2> DEFINE i == 4 * g - 3
  <2>1. i \in 1..Len(letters) /\ i + 1 \in 1..Len(letters) /\ i + 2 \in 1..Len(letters) /\ i + 3 \in 1..Len(letters)
    BY <1>1
  <2> HIDE DEF i
  <2>2. /\ Value(letters[i]) \in Nat /\ Value(letters[i + 1]) \in Nat
        /\ Value(letters[i + 2]) \in Nat /\ Value(letters[i + 3]) \in Nat
    BY <1>1, <2>1 DEF Value
  <2>3. \A w, x, y, z \in Nat : Quad(w, x, y, z) \in Nat
    BY DEF Quad
  <2> QED BY <2>2, <2>3 DEF QuadAt, i
<1> HIDE DEF G
<1>5. \A g \in 1..G : seqs[g] \in Seq(Nat) /\ Len(seqs[g]) = 3
  BY <1>3, <1>4
<1>6. seqs \in Seq(Seq(Nat)) /\ Len(seqs) = G /\ \A g \in 1..G : seqs[g] = Triple(QuadAt(letters, 4 * g - 3))
  BY <1>1, <1>5
<1> HIDE DEF seqs
<1>7. CASE G = 0
  <2>1. d = <<>>
    BY <1>2, <1>6, <1>7 DEF FlattenSeq
  <2> QED BY <1>7, <2>1 DEF d, G
<1>8. CASE G # 0
  <2>1. Len(seqs) # 0 /\ 3 \in Nat /\ \A g \in 1..(Len(seqs) - 1) : Len(seqs[g]) = 3
    BY <1>1, <1>5, <1>6, <1>8
  <2>2. FlattenSeq(seqs) \in Seq(Nat) /\ Chunked(FlattenSeq(seqs), seqs, 3, Len(seqs))
    BY <1>6, <2>1, FlattenChunks
  <2>3. d \in Seq(Nat) /\ Chunked(d, seqs, 3, G)
    BY <1>2, <1>6, <2>2
  <2> HIDE DEF d
  <2>4. G \in 1..G
    BY <1>1, <1>8
  <2>5. Len(d) = 3 * (G - 1) + 3
    BY <1>5, <2>3, <2>4 DEF Chunked
  <2>6. Len(d) = 3 * G
    BY <1>1, <2>5
  <2>7. \A g \in 1..G : \A r \in 1..3 : d[3 * (g - 1) + r] = seqs[g][r]
    BY <1>5, <2>3 DEF Chunked
  <2> QED BY <1>6, <2>3, <2>6, <2>7 DEF d, G
<1> QED BY <1>7, <1>8

\* Three bytes for four letters: the buffer holds them.
LEMMA Base64DecodeFits ==
    ASSUME NEW letters \in Seq(Nat)
    PROVE  BufferFits(Base64Decode(letters))
<1>1. Len(letters) \in Nat /\ Len(DecodeBlock(letters)) = 3 * (Len(letters) \div 4) /\ Len(<<>>) = 0
  BY DecodeBlockIs, ElementsOf
<1>2. 0 < (3 * Len(letters)) \div 4 + 1 /\ 3 * (Len(letters) \div 4) < (3 * Len(letters)) \div 4 + 1
  BY <1>1
<1> QED BY <1>1, <1>2 DEF BufferFits, Base64Decode, Buffer

\* Where there is no byte, the bits of the letters are 0: padding stands for them.
LEMMA MissingLetters ==
    ASSUME NEW bytes \in ByteSeqs, NEW n \in Nat, n >= LettersOf(Len(bytes)), n < LetterCount(Len(bytes))
    PROVE  LetterAt(bytes, n) = 0
<1> DEFINE L == Len(bytes)
           q == n \div 4
<1>1. L \in Nat
  BY ElementsOf DEF ByteSeqs
<1>2. q \in Nat /\ n % 4 \in 0..3 /\ n % 4 = n - 4 * q
  BY DivMod
<1>3. n >= (4 * L + 2) \div 3 /\ n < 4 * ((L + 2) \div 3)
  BY DEF LettersOf, LetterCount
<1> HIDE DEF L, q
<1>4. /\ n % 4 # 0 /\ n % 4 # 1 /\ 3 * q + 3 > L
      /\ n % 4 = 2 => 3 * q + 2 > L
  BY <1>1, <1>2, <1>3
<1>5. ByteOr0(bytes, 3 * q + 3) = 0 /\ (n % 4 = 2 => ByteOr0(bytes, 3 * q + 2) = 0)
  BY <1>1, <1>2, <1>4 DEF ByteOr0, L
<1>6. (0 % 16) * 4 + 0 \div 64 = 0 /\ 0 % 64 = 0
  OBVIOUS
<1>7. n % 4 = 2 \/ n % 4 = 3
  BY <1>2, <1>4
<1> QED BY <1>5, <1>6, <1>7 DEF LetterAt, q

\* A letter of the encoded text as a number, padding as 0.
LEMMA LetterValue ==
    ASSUME NEW bytes \in ByteSeqs, NEW n \in 0..(LetterCount(Len(bytes)) - 1)
    PROVE  Value(Base64Encode(bytes).text[n + 1]) = LetterAt(bytes, n)
<1> DEFINE L == Len(bytes)
           t == Base64Encode(bytes).text
<1>1. L \in Nat
  BY ElementsOf DEF ByteSeqs
<1>2. LettersOf(L) \in Nat /\ LetterCount(L) \in Nat /\ n \in Nat /\ n < LetterCount(L)
  BY <1>1 DEF LettersOf, LetterCount
<1>3. t[n + 1] = IF n < LettersOf(L) THEN LetterAt(bytes, n) ELSE Pad
  BY EncodeIs
<1> HIDE DEF t
<1>4. CASE n < LettersOf(L)
  <2>1. n \in 0..(LettersOf(L) - 1)
    BY <1>2, <1>4
  <2>2. Groups(bytes) \in Seq(0..63) /\ Len(Groups(bytes)) = LettersOf(L) /\ Groups(bytes)[n + 1] = LetterAt(bytes, n)
    BY <2>1, GroupsAre
  <2>3. n + 1 \in 1..LettersOf(L)
    BY <1>2, <2>1
  <2>4. LetterAt(bytes, n) \in 0..63
    BY <2>2, <2>3, ElementsOf
  <2>5. \A x \in 0..63 : x # Pad
    BY DEF Pad
  <2>6. LetterAt(bytes, n) # Pad
    BY <2>4, <2>5
  <2> QED BY <1>3, <1>4, <2>6 DEF Value, t
<1>5. CASE ~(n < LettersOf(L))
  <2>1. n >= LettersOf(L)
    BY <1>2, <1>5
  <2>2. LetterAt(bytes, n) = 0
    BY <1>2, <2>1, MissingLetters
  <2> QED BY <1>3, <1>5, <2>2 DEF Value, t
<1> QED BY <1>4, <1>5

\* The triples of an encoded text are its bytes, with zeros behind them.
LEMMA BlockInverts ==
    ASSUME NEW bytes \in ByteSeqs
    PROVE  LET t == Base64Encode(bytes).text
           IN  /\ t \in Seq(Nat) /\ Len(t) % 4 = 0 /\ \A i \in 1..Len(t) : ~(t[i] > Pad)
               /\ Len(DecodeBlock(t)) = 3 * ((Len(bytes) + 2) \div 3)
               /\ \A j \in 1..Len(DecodeBlock(t)) : DecodeBlock(t)[j] = ByteOr0(bytes, j)
<1> DEFINE L == Len(bytes)
           t == Base64Encode(bytes).text
           G == (L + 2) \div 3
           d == DecodeBlock(t)
<1>1. L \in Nat /\ G \in Nat /\ LetterCount(L) = 4 * G /\ \A j \in 1..L : bytes[j] \in 0..255
  BY ElementsOf DEF ByteSeqs, LetterCount
<1>2. t \in Seq(0..Pad) /\ Len(t) = 4 * G
  <2>1. Base64Encode(bytes).len = LetterCount(L) /\ Base64Encode(bytes).len = Len(t) /\ t \in Seq(0..Pad)
    BY EncodeIs
  <2> QED BY <1>1, <2>1
<1>3. \A n \in 0..(4 * G - 1) : Value(t[n + 1]) = LetterAt(bytes, n)
  BY <1>1, LetterValue
<1> HIDE DEF L, t, G
<1>4. \A i \in 1..Len(t) : t[i] \in Nat /\ ~(t[i] > Pad)
  <2>1. \A i \in 1..Len(t) : t[i] \in 0..Pad
    BY <1>2, ElementsOf
  <2>2. \A x \in 0..Pad : x \in Nat /\ ~(x > Pad)
    BY DEF Pad
  <2> QED BY <2>1, <2>2
<1>5. t \in Seq(Nat)
  BY <1>2, <1>4, SeqOver
<1>6. (4 * G) \div 4 = G /\ (4 * G) % 4 = 0
  BY <1>1
<1>7. Len(d) = 3 * G /\ \A g \in 1..G : \A r \in 1..3 : d[3 * (g - 1) + r] = Triple(QuadAt(t, 4 * g - 3))[r]
  BY <1>2, <1>5, <1>6, DecodeBlockIs
<1> HIDE DEF d
<1>8. \A j \in Nat \ {0} : IsByte(ByteOr0(bytes, j))
  BY <1>1 DEF ByteOr0, IsByte, L
<1>9. ASSUME NEW g \in 1..G
      PROVE  Triple(QuadAt(t, 4 * g - 3)) =
                <<ByteOr0(bytes, 3 * (g - 1) + 1), ByteOr0(bytes, 3 * (g - 1) + 2), ByteOr0(bytes, 3 * (g - 1) + 3)>>
  <2> DEFINE q == g - 1
             a == ByteOr0(bytes, 3 * q + 1)
             b == ByteOr0(bytes, 3 * q + 2)
             c == ByteOr0(bytes, 3 * q + 3)
  <2>1. /\ q \in Nat /\ 4 * q \in 0..(4 * G - 1) /\ 4 * q + 1 \in 0..(4 * G - 1)
        /\ 4 * q + 2 \in 0..(4 * G - 1) /\ 4 * q + 3 \in 0..(4 * G - 1)
    BY <1>1
  <2>2. /\ 4 * g - 3 = 4 * q + 1 /\ (4 * g - 3) + 1 = (4 * q + 1) + 1
        /\ (4 * g - 3) + 2 = (4 * q + 2) + 1 /\ (4 * g - 3) + 3 = (4 * q + 3) + 1
    BY <1>1
  <2> HIDE DEF q
  <2>3. /\ Value(t[4 * g - 3]) = LetterAt(bytes, 4 * q)
        /\ Value(t[(4 * g - 3) + 1]) = LetterAt(bytes, 4 * q + 1)
        /\ Value(t[(4 * g - 3) + 2]) = LetterAt(bytes, 4 * q + 2)
        /\ Value(t[(4 * g - 3) + 3]) = LetterAt(bytes, 4 * q + 3)
    BY <1>3, <2>1, <2>2
  <2>4. /\ (4 * q) \div 4 = q /\ (4 * q) % 4 = 0 /\ (4 * q + 1) \div 4 = q /\ (4 * q + 1) % 4 = 1
        /\ (4 * q + 2) \div 4 = q /\ (4 * q + 2) % 4 = 2 /\ (4 * q + 3) \div 4 = q /\ (4 * q + 3) % 4 = 3
    BY <2>1
  <2>5. LetterAt(bytes, 4 * q) = High(a, 4)
    BY <2>4 DEF LetterAt, High
  <2>6. LetterAt(bytes, 4 * q + 1) = Second(a, b)
    BY <2>4 DEF LetterAt, Second
  <2>7. LetterAt(bytes, 4 * q + 2) = Third(b, c)
    BY <2>4 DEF LetterAt, Third
  <2>8. LetterAt(bytes, 4 * q + 3) = Low(c, 64)
    BY <2>4 DEF LetterAt, Low
  <2>9. IsByte(a) /\ IsByte(b) /\ IsByte(c)
    <3>1. 3 * q + 1 \in Nat \ {0} /\ 3 * q + 2 \in Nat \ {0} /\ 3 * q + 3 \in Nat \ {0}
      BY <2>1
    <3> QED BY <1>8, <3>1
  <2> HIDE DEF a, b, c
  <2>10. Triple(QuadAt(t, 4 * g - 3)) = <<a, b, c>>
    BY <2>3, <2>5, <2>6, <2>7, <2>8, <2>9, TripleOfQuad DEF QuadAt
  <2> QED BY <2>10 DEF a, b, c, q
<1>10. ASSUME NEW j \in 1..(3 * G) PROVE d[j] = ByteOr0(bytes, j)
  <2> DEFINE g == (j - 1) \div 3 + 1
             r == ((j - 1) % 3) + 1
  <2>1. g \in 1..G /\ r \in 1..3 /\ j = 3 * (g - 1) + r
    BY <1>1
  <2> HIDE DEF g, r
  <2>2. d[j] = Triple(QuadAt(t, 4 * g - 3))[r]
    BY <1>7, <2>1
  <2>3. r = 1 \/ r = 2 \/ r = 3
    BY <2>1
  <2> QED BY <1>9, <2>1, <2>2, <2>3
<1>11. Len(t) % 4 = 0
  BY <1>2, <1>6
<1> QED BY <1>4, <1>5, <1>7, <1>10, <1>11 DEF t, d, G, L

\* Cut to the length of the input, that is the input.
LEMMA Base64Inverts ==
    ASSUME NEW bytes \in ByteSeqs
    PROVE  LET back == Base64Decode(Base64Encode(bytes).text)
           IN  /\ BufferFits(back)
               /\ SubSeq(back.text, 1, Len(bytes)) = bytes
               /\ Drop(back.text, Len(bytes)) = [i \in 1..(back.len - Len(bytes)) |-> 0]
<1> DEFINE L == Len(bytes)
           t == Base64Encode(bytes).text
           d == DecodeBlock(t)
           back == Base64Decode(t)
<1>1. /\ t \in Seq(Nat) /\ Len(t) % 4 = 0 /\ \A i \in 1..Len(t) : ~(t[i] > Pad)
      /\ Len(d) = 3 * ((L + 2) \div 3) /\ \A j \in 1..Len(d) : d[j] = ByteOr0(bytes, j)
  BY BlockInverts
<1>2. L \in Nat /\ bytes \in Seq(0..255)
  BY ElementsOf DEF ByteSeqs
<1> HIDE DEF L, t
<1>3. BufferFits(back)
  BY <1>1, Base64DecodeFits
<1>4. d \in Seq(Nat)
  BY <1>1, DecodeBlockIs
<1>5. back.text = d /\ back.len = Len(d)
  BY <1>1 DEF Base64Decode, Buffer
<1> HIDE DEF back, d
<1>6. Len(d) \in Nat /\ L <= Len(d) /\ L \in 0..Len(d)
  BY <1>1, <1>2
<1>7. SubSeq(d, 1, L) = bytes
  <2>1. SubSeq(d, 1, L) \in Seq(Nat) /\ Len(SubSeq(d, 1, L)) = L /\ \A j \in 1..L : SubSeq(d, 1, L)[j] = d[j]
    BY <1>4, <1>6, SubSeqPrefix
  <2>2. \A j \in 1..L : d[j] = bytes[j]
    <3>1. \A j \in 1..L : j \in 1..Len(d) /\ j <= L
      BY <1>2, <1>6
    <3> QED BY <1>1, <3>1 DEF ByteOr0, L
  <2> QED BY <1>2, <2>1, <2>2, SameElements DEF L
<1>8. Drop(d, L) = [i \in 1..(Len(d) - L) |-> 0]
  <2> DEFINE u == SubSeq(d, L + 1, Len(d))
             z == [i \in 1..(Len(d) - L) |-> 0]
  <2>1. u \in Seq(Nat) /\ Len(u) = Len(d) - L /\ \A i \in 1..(Len(d) - L) : u[i] = d[L + i]
    BY <1>2, <1>4, <1>6, SubSeqRest
  <2>2. \A i \in 1..(Len(d) - L) : L + i \in 1..Len(d) /\ ~(L + i <= L)
    BY <1>2, <1>6
  <2>3. \A i \in 1..(Len(d) - L) : d[L + i] = 0
    BY <1>1, <2>2 DEF ByteOr0, L
  <2>4. z \in Seq(Nat) /\ Len(z) = Len(d) - L /\ \A i \in 1..Len(z) : z[i] = 0
    BY <1>2, <1>6
  <2>5. u = z
    <3> HIDE DEF u, z
    <3> QED BY <2>1, <2>3, <2>4, SameElements
  <2> QED BY <2>5 DEF Drop
<1> QED BY <1>3, <1>5, <1>7, <1>8 DEF back, t, L

\* Two digits for each byte.
LEMMA HexFits ==
    ASSUME NEW bytes \in ByteSeqs
    PROVE  BufferFits(BytesToHex(bytes))
<1> DEFINE L == Len(bytes)
           seqs == [i \in 1..L |-> <<bytes[i] \div 16, bytes[i] % 16>>]
           h == FlattenSeq(seqs)
<1>1. L \in Nat /\ \A j \in 1..L : bytes[j] \in 0..255
  BY ElementsOf DEF ByteSeqs
<1> HIDE DEF L
<1>2. \A i \in 1..L : seqs[i] \in Seq(Nat) /\ Len(seqs[i]) = 2
  <2>1. \A x \in 0..255 : x \div 16 \in Nat /\ x % 16 \in Nat
    OBVIOUS
  <2> QED BY <1>1, <2>1, SMTT(30)
<1>3. seqs \in Seq(Seq(Nat)) /\ Len(seqs) = L
  BY <1>1, <1>2
<1>4. BytesToHex(bytes).len = Len(h) /\ BytesToHex(bytes).cap = 2 * L + 1
  BY DEF BytesToHex, Buffer, L
<1> HIDE DEF seqs
<1>5. CASE L = 0
  <2>1. h = <<>>
    BY <1>3, <1>5 DEF FlattenSeq
  <2>2. Len(h) = 0
    BY <2>1
  <2> QED BY <1>4, <1>5, <2>2 DEF BufferFits
<1>6. CASE L # 0
  <2>1. Len(seqs) # 0 /\ 2 \in Nat /\ \A k \in 1..(Len(seqs) - 1) : Len(seqs[k]) = 2
    BY <1>1, <1>2, <1>3, <1>6
  <2>2. Chunked(h, seqs, 2, Len(seqs))
    BY <1>3, <2>1, FlattenChunks
  <2>3. L \in 1..L
    BY <1>1, <1>6
  <2>4. Len(h) = 2 * (L - 1) + 2
    BY <1>2, <1>3, <2>2, <2>3 DEF Chunked
  <2> HIDE DEF h
  <2>5. Len(h) < 2 * L + 1
    BY <1>1, <2>4
  <2> QED BY <1>4, <2>5 DEF BufferFits
<1> QED BY <1>5, <1>6

\* The ciphers pad to whole blocks, the authenticated one adds a tag and a nonce.
LEMMA CipherSizes ==
    ASSUME NEW n \in Nat
    PROVE  /\ BufferFits(CbcEncrypted(n)) /\ \A plain \in CbcDecrypted(n) : BufferFits(plain)
           /\ GcmEncrypted(n).len <= GcmEncrypted(n).cap
           /\ \A plain \in GcmDecrypted(n) : BufferFits(plain) \/ OneByteBehind(plain)
<1>1. BlockBytes * (n \div BlockBytes + 1) < n + BlockBytes + 1
  BY DEF BlockBytes
<1>2. BufferFits(CbcEncrypted(n))
  BY <1>1 DEF BufferFits, CbcEncrypted
<1>3. ASSUME NEW m \in 0..n PROVE BufferFits([cap |-> n + 1, len |-> m])
  BY DEF BufferFits
<1>4. n <= n + BlockBytes
  BY DEF BlockBytes
<1>5. ASSUME NEW end \in {n, 0}
      PROVE  BufferFits([cap |-> n, len |-> end]) \/ OneByteBehind([cap |-> n, len |-> end])
  BY DEF BufferFits, OneByteBehind
<1> QED BY <1>2, <1>3, <1>4, <1>5 DEF CbcDecrypted, GcmEncrypted, GcmDecrypted

\* Every codec, for byte strings and texts of every length: each result fits its
\* buffer with its terminator, whatever the input; base64url and base64 are inverted
\* by their decoders, up to the zeros that base64's reports for its padding.
THEOREM CodecsAreSound ==
    ASSUME ByteTexts \subseteq Seq(0..255), LetterTexts \subseteq Seq(Nat)
    PROVE  LibSpec => []CodecsSound
<1> DEFINE Typed == /\ args.kind = "bytes" => args.bytes \in ByteTexts
                    /\ args.kind = "letters" => args.letters \in LetterTexts
<1>1. LibInit => Typed
  BY DEF LibInit, NoCall
<1>2. Typed /\ [LibNext]_lib_vars => Typed'
  <2>1. CASE CallFunction
    BY <2>1 DEF CallFunction, Arguments
  <2>2. CASE FunctionReturns
    BY <2>2 DEF FunctionReturns, NoCall
  <2>3. ASSUME Typed, args' = args PROVE Typed'
    BY <2>3
  <2> QED BY <2>1, <2>2, <2>3 DEF LibNext, lib_vars
<1>3. Typed => CodecsSound
  <2>1. ASSUME NEW bytes \in ByteTexts
        PROVE  LET url == Base64UrlEncode(bytes)
                   b64 == Base64Encode(bytes)
                   back == Base64Decode(b64.text)
               IN  /\ BufferFits(url) /\ BufferFits(b64) /\ BufferFits(back) /\ BufferFits(BytesToHex(bytes))
                   /\ Base64UrlDecode(url.text).text = bytes
                   /\ b64.len % 4 = 0 /\ b64.text = url.text \o [i \in 1..(b64.len - url.len) |-> Pad]
                   /\ \A i \in 1..url.len : url.text[i] \in 0..63
                   /\ SubSeq(back.text, 1, Len(bytes)) = bytes
                   /\ Drop(back.text, Len(bytes)) = [i \in 1..(back.len - Len(bytes)) |-> 0]
                   /\ BufferFits(CbcEncrypted(Len(bytes)))
                   /\ \A plain \in CbcDecrypted(Len(bytes)) : BufferFits(plain)
                   /\ GcmEncrypted(Len(bytes)).len <= GcmEncrypted(Len(bytes)).cap
                   /\ \A plain \in GcmDecrypted(Len(bytes)) : BufferFits(plain) \/ OneByteBehind(plain)
    <3>1. bytes \in ByteSeqs /\ Len(bytes) \in Nat
      BY ElementsOf DEF ByteSeqs
    <3>2. \A i \in 1..Base64UrlEncode(bytes).len : Base64UrlEncode(bytes).text[i] \in 0..63
      <4> DEFINE v == Base64UrlEncode(bytes)
      <4>1. v.text \in Seq(0..63)
        BY <3>1, EncodeIs, ZenonT(60)
      <4>2. v.len = Len(v.text)
        BY <3>1, EncodeIs, ZenonT(60)
      <4> HIDE DEF v
      <4>3. \A i \in 1..Len(v.text) : v.text[i] \in 0..63
        BY <4>1, ElementsOf
      <4> QED BY <4>2, <4>3 DEF v
    <3> DEFINE url == Base64UrlEncode(bytes)
               b64 == Base64Encode(bytes)
               back == Base64Decode(b64.text)
               n == Len(bytes)
    <3>3. /\ BufferFits(url) /\ BufferFits(b64) /\ b64.len % 4 = 0
          /\ b64.text = url.text \o [i \in 1..(b64.len - url.len) |-> Pad]
      BY <3>1, EncodeIs
    <3>4. /\ BufferFits(back) /\ SubSeq(back.text, 1, n) = bytes
          /\ Drop(back.text, n) = [i \in 1..(back.len - n) |-> 0]
      BY <3>1, Base64Inverts
    <3>5. Base64UrlDecode(url.text).text = bytes /\ BufferFits(BytesToHex(bytes))
      BY <3>1, DecodingInverts, HexFits
    <3>6. /\ BufferFits(CbcEncrypted(n)) /\ \A plain \in CbcDecrypted(n) : BufferFits(plain)
          /\ GcmEncrypted(n).len <= GcmEncrypted(n).cap
          /\ \A plain \in GcmDecrypted(n) : BufferFits(plain) \/ OneByteBehind(plain)
      BY <3>1, CipherSizes
    <3> QED BY <3>2, <3>3, <3>4, <3>5, <3>6, Zenon
  <2>2. ASSUME NEW letters \in LetterTexts
        PROVE  BufferFits(Base64UrlDecode(letters)) /\ BufferFits(Base64Decode(letters))
    BY DecodeFits, Base64DecodeFits
  <2> QED BY <2>1, <2>2, Zenon DEF CodecsSound
<1> QED BY <1>1, <1>2, <1>3, PTL DEF LibSpec

------------------------------------------------------------------------------
(* Directory listing. *)

\* What the walk in progress has seen and is still there, or has collected and may still
\* collect.
Found ==
    IF walk = "count" THEN tree \cap Paths \cap visited
    ELSE result \cup IF walk = "collect" THEN (tree \cap Paths) \ visited ELSE {}

\* Of this, what is not fresh has been counted.
ListingInv ==
    /\ tree \subseteq Paths \cup Others /\ IsFiniteSet(tree)
    /\ IsFiniteSet(result) /\ IsFiniteSet(fresh)
    /\ walk \in {"none", "count", "collect", "done"}
    /\ visited \subseteq Paths \cup Others
    /\ file_count \in Nat
    /\ walk \in {"none", "count"} => result = {}
    /\ Cardinality(Found \ fresh) <= file_count
    /\ disturbed \in BOOLEAN
    /\ ~disturbed =>
          /\ fresh = {}
          /\ walk = "collect" => result = tree \cap Paths \cap visited
          /\ walk = "done" => result = tree \cap Paths

LEMMA SmallerCount ==
    ASSUME NEW S, IsFiniteSet(S), NEW T, T \subseteq S, NEW n \in Nat, Cardinality(S) <= n
    PROVE  IsFiniteSet(T) /\ Cardinality(T) <= n
  <1>1. IsFiniteSet(T) /\ Cardinality(T) <= Cardinality(S)
    BY FS_Subset
  <1>2. Cardinality(S) \in Nat /\ Cardinality(T) \in Nat
    BY <1>1, FS_CardinalityType
  <1> QED BY <1>1, <1>2

LEMMA FoundIsFinite ==
    ASSUME ListingInv
    PROVE  IsFiniteSet(Found) /\ IsFiniteSet(Found \ fresh)
  <1>1. IsFiniteSet(tree \cap Paths \cap visited) /\ IsFiniteSet((tree \cap Paths) \ visited)
    BY FS_Subset DEF ListingInv
  <1>2. IsFiniteSet(result \cup ((tree \cap Paths) \ visited)) /\ IsFiniteSet(result \cup {})
    BY <1>1, FS_Union DEF ListingInv
  <1>3. IsFiniteSet(Found)
    BY <1>1, <1>2 DEF Found
  <1> QED BY <1>3, FS_Subset

\* Steps that disturb the call, after which nothing is found that was not, but fresh files.
LEMMA DisturbedKeeps ==
    ASSUME ListingInv, tree' \subseteq Paths \cup Others, IsFiniteSet(tree'),
           IsFiniteSet(fresh'), visited' \subseteq Paths \cup Others,
           walk' \in {"none", "count", "collect", "done"},
           walk' \in {"none", "count"} => walk \in {"none", "count"},
           result' = result, file_count' = file_count, disturbed' = TRUE,
           (Found \ fresh)' \subseteq Found \ fresh
    PROVE  ListingInv'
  <1>1. Cardinality((Found \ fresh)') <= file_count
    BY FoundIsFinite, SmallerCount DEF ListingInv
  <1> QED BY <1>1 DEF ListingInv

LEMMA CountEntryKeeps ==
    ASSUME ListingInv, NEW p \in Paths \cup Others, CountEntry(p)
    PROVE  ListingInv'
  <1> DEFINE Seen == Found \ fresh
  <1>1. /\ walk = "count" /\ walk' = "count" /\ tree' = tree /\ result' = result /\ result = {}
        /\ fresh' = fresh /\ disturbed' = disturbed /\ visited' = visited \cup {p}
        /\ p \notin visited
        /\ file_count' = IF p \in tree \cap Paths THEN file_count + 1 ELSE file_count
    BY DEF CountEntry, ListingInv
  <1>2. /\ Seen = (tree \cap Paths \cap visited) \ fresh
        /\ Seen' = (tree \cap Paths \cap (visited \cup {p})) \ fresh
    BY <1>1 DEF Found
  <1>3. Cardinality(Seen) <= file_count /\ IsFiniteSet(Seen) /\ file_count \in Nat
    BY FoundIsFinite DEF ListingInv
  <1>4. Cardinality(Seen') <= file_count'
    <2> HIDE DEF Seen
    <2>1. CASE p \in (tree \cap Paths) \ fresh
      <3>1. Seen' = Seen \cup {p} /\ p \notin Seen
        BY <1>1, <1>2, <2>1, Zenon
      <3>2. Cardinality(Seen \cup {p}) = Cardinality(Seen) + 1 /\ Cardinality(Seen) \in Nat
        BY <1>3, <3>1, FS_AddElement, FS_CardinalityType
      <3>3. file_count' = file_count + 1
        BY <1>1, <2>1
      <3> QED BY <1>3, <3>1, <3>2, <3>3
    <2>2. CASE p \notin (tree \cap Paths) \ fresh
      <3>1. Seen' = Seen
        BY <1>2, <2>2
      <3>2. Cardinality(Seen) \in Nat /\ file_count' \in {file_count, file_count + 1}
        BY <1>1, <1>3, FS_CardinalityType
      <3> QED BY <1>3, <3>1, <3>2
    <2> QED BY <2>1, <2>2
  <1>5. file_count' \in Nat
    BY <1>1, <1>3
  <1> QED BY <1>1, <1>4, <1>5 DEF ListingInv

LEMMA CountMissesKeeps ==
    ASSUME ListingInv, NEW S, S \subseteq Paths \cup Others, CountMisses(S)
    PROVE  ListingInv'
  <1>1. /\ walk = "count" /\ walk' = "count" /\ tree' = tree /\ visited' = visited \cup S
        /\ fresh' = fresh \cup (S \cap tree \cap Paths) /\ disturbed' = TRUE
        /\ result' = result /\ file_count' = file_count
    BY DEF CountMisses
  <1>2. IsFiniteSet(fresh')
    <2>1. IsFiniteSet(S \cap tree \cap Paths)
      BY FS_Subset DEF ListingInv
    <2> QED BY <1>1, <2>1, FS_Union DEF ListingInv
  <1>3. (Found \ fresh)' \subseteq Found \ fresh
    BY <1>1 DEF Found
  <1> QED BY <1>1, <1>2, <1>3, DisturbedKeeps DEF ListingInv

LEMMA CountEndKeeps ==
    ASSUME ListingInv, CountEnd
    PROVE  ListingInv'
  <1>1. /\ walk = "count" /\ tree' = tree /\ result' = result /\ result = {}
        /\ fresh' = fresh /\ visited' = {} /\ file_count' = file_count /\ file_count \in Nat
        /\ tree \cap Paths \cap visited = tree \cap Paths
    BY DEF CountEnd, ListingInv
  <1>2. Found = tree \cap Paths
    BY <1>1 DEF Found
  <1>3. CASE walk' = "done" /\ disturbed' = TRUE
    <2>1. (Found \ fresh)' \subseteq Found \ fresh
      BY <1>1, <1>3 DEF Found
    <2> QED BY <1>1, <1>3, <2>1, DisturbedKeeps DEF ListingInv
  <1>4. CASE file_count # 0 /\ walk' = "collect" /\ disturbed' = disturbed
    <2>1. Found' = Found
      BY <1>1, <1>2, <1>4 DEF Found
    <2> QED BY <1>1, <1>4, <2>1 DEF ListingInv
  <1>5. CASE file_count = 0 /\ walk' = "done" /\ disturbed' = disturbed
    <2>1. Found' = {} /\ Cardinality({} \ fresh) = 0
      BY <1>1, <1>5, FS_EmptySet DEF Found
    <2>2. Found \ fresh = {}
      <3>1. IsFiniteSet(Found \ fresh) /\ Cardinality(Found \ fresh) \in Nat
        BY FoundIsFinite, FS_CardinalityType
      <3>2. Cardinality(Found \ fresh) = 0
        BY <1>5, <3>1 DEF ListingInv
      <3> QED BY <3>1, <3>2, FS_EmptySet
    <2>3. ~disturbed => tree \cap Paths = {}
      BY <1>2, <2>2 DEF ListingInv
    <2> QED BY <1>1, <1>5, <2>1, <2>3 DEF ListingInv
  <1> QED BY <1>3, <1>4, <1>5 DEF CountEnd

LEMMA CollectEntryKeeps ==
    ASSUME ListingInv, NEW p \in Paths \cup Others, CollectEntry(p)
    PROVE  ListingInv'
  <1>1. /\ walk = "collect" /\ walk' = "collect" /\ tree' = tree /\ file_count' = file_count
        /\ fresh' = fresh /\ disturbed' = disturbed /\ visited' = visited \cup {p}
        /\ result' = IF p \in tree \cap Paths THEN result \cup {p} ELSE result
        /\ p \notin visited
    BY DEF CollectEntry
  <1>2. IsFiniteSet(result')
    BY <1>1, FS_AddElement DEF ListingInv
  <1>3. (Found \ fresh)' \subseteq Found \ fresh
    BY <1>1 DEF Found
  <1>4. Cardinality((Found \ fresh)') <= file_count
    BY <1>3, FoundIsFinite, SmallerCount DEF ListingInv
  <1>5. ~disturbed => result' = tree \cap Paths \cap visited'
    BY <1>1 DEF ListingInv
  <1> QED BY <1>1, <1>2, <1>4, <1>5 DEF ListingInv

LEMMA CollectMissesKeeps ==
    ASSUME ListingInv, NEW S, S \subseteq Paths \cup Others, CollectMisses(S)
    PROVE  ListingInv'
  <1>1. /\ walk = "collect" /\ walk' = "collect" /\ tree' = tree /\ visited' = visited \cup S
        /\ fresh' = fresh /\ disturbed' = TRUE /\ result' = result /\ file_count' = file_count
    BY DEF CollectMisses
  <1>2. (Found \ fresh)' \subseteq Found \ fresh
    BY <1>1 DEF Found
  <1> QED BY <1>1, <1>2, DisturbedKeeps DEF ListingInv

LEMMA CollectEndKeeps ==
    ASSUME ListingInv, CollectEnd
    PROVE  ListingInv'
  <1>1. /\ walk = "collect" /\ walk' = "done" /\ tree' = tree /\ file_count' = file_count
        /\ fresh' = fresh /\ disturbed' = disturbed /\ visited' = visited /\ result' = result
        /\ (tree \cap Paths) \ visited = {} /\ tree \cap Paths \cap visited = tree \cap Paths
    BY DEF CollectEnd, ListingInv
  <1>2. Found' = Found
    BY <1>1 DEF Found
  <1> QED BY <1>1, <1>2 DEF ListingInv

LEMMA OtherProcessesKeep ==
    ASSUME ListingInv, NEW p \in Paths \cup Others, FileCreated(p) \/ FileRemoved(p)
    PROVE  ListingInv'
  <1>1. /\ walk' = walk /\ file_count' = file_count /\ disturbed' = TRUE
        /\ visited' = visited /\ result' = result
        /\ \/ tree' = tree \cup {p} /\ fresh' = fresh \cup ({p} \cap Paths)
           \/ tree' = tree \ {p} /\ fresh' = fresh
    BY DEF FileCreated, FileRemoved
  <1>2. IsFiniteSet(tree') /\ tree' \subseteq Paths \cup Others
    BY <1>1, FS_AddElement, FS_RemoveElement DEF ListingInv
  <1>3. IsFiniteSet(fresh')
    <2>1. fresh' = fresh \/ fresh' = fresh \cup {p}
      BY <1>1
    <2> QED BY <2>1, FS_AddElement DEF ListingInv
  <1>4. (Found \ fresh)' \subseteq Found \ fresh
    BY <1>1 DEF Found
  <1> QED BY <1>1, <1>2, <1>3, <1>4, DisturbedKeeps DEF ListingInv

LEMMA ListingInvInductive == ListingInv /\ [DirNext]_dir_vars => ListingInv'
  <1> SUFFICES ASSUME ListingInv, [DirNext]_dir_vars PROVE ListingInv'
    OBVIOUS
  <1>1. CASE ListDir
    <2>1. /\ tree' = tree /\ walk' = "count" /\ visited' = {} /\ result' = {} /\ file_count' = 0
          /\ fresh' = {} /\ disturbed' = FALSE
      BY <1>1 DEF ListDir
    <2>2. IsFiniteSet({}) /\ Cardinality({}) = 0
      BY FS_EmptySet
    <2>3. (Found \ fresh)' = {}
      BY <2>1 DEF Found
    <2>4. Cardinality((Found \ fresh)') <= file_count'
      BY <2>1, <2>2, <2>3
    <2> QED BY <2>1, <2>2, <2>4 DEF ListingInv
  <1>2. CASE UNCHANGED dir_vars
    BY <1>2 DEF dir_vars, ListingInv, Found
  <1>3. ASSUME NEW S \in {{p} : p \in Paths \cup Others} \cup Subtrees
        PROVE  S \subseteq Paths \cup Others
    BY DirAssumption
  <1> QED BY <1>1, <1>2, <1>3, CountEntryKeeps, CountMissesKeeps, CountEndKeeps, CollectEntryKeeps,
             CollectMissesKeeps, CollectEndKeeps, OtherProcessesKeep DEF DirNext

LEMMA ListingInvFits == ListingInv => ListingFits
  <1> SUFFICES ASSUME ListingInv PROVE ListingFits
    OBVIOUS
  <1>1. Cardinality(result \ fresh) <= file_count /\ IsFiniteSet(result \ fresh)
    <2>1. result \ fresh \subseteq Found \ fresh
      BY DEF ListingInv, Found
    <2> QED BY <2>1, FoundIsFinite, SmallerCount DEF ListingInv
  <1>2. /\ IsFiniteSet(result \cup fresh)
        /\ Cardinality(result \cup fresh) <= Cardinality(result \ fresh) + Cardinality(fresh)
    <2> DEFINE counted == result \ fresh
    <2>1. result \cup fresh = counted \cup fresh /\ counted \cap fresh = {}
      OBVIOUS
    <2>2. IsFiniteSet(counted) /\ IsFiniteSet(fresh)
      BY <1>1 DEF ListingInv
    <2> HIDE DEF counted
    <2>3. /\ IsFiniteSet(counted \cup fresh)
          /\ Cardinality(counted \cup fresh) = Cardinality(counted) + Cardinality(fresh)
                                               - Cardinality(counted \cap fresh)
      BY <2>2, FS_Union
    <2>4. Cardinality(counted \cap fresh) = 0
      BY <2>1, FS_EmptySet
    <2>5. Cardinality(counted) \in Nat /\ Cardinality(fresh) \in Nat
      BY <2>2, FS_CardinalityType
    <2>6. Cardinality(counted \cup fresh) <= Cardinality(counted) + Cardinality(fresh)
      BY <2>3, <2>4, <2>5
    <2> QED BY <2>1, <2>3, <2>6 DEF counted
  <1>3. Cardinality(result) <= Cardinality(result \cup fresh)
    BY <1>2, FS_Subset
  <1>4. /\ Cardinality(result) \in Nat /\ Cardinality(result \cup fresh) \in Nat
        /\ Cardinality(result \ fresh) \in Nat /\ Cardinality(fresh) \in Nat /\ file_count \in Nat
    BY <1>1, <1>2, FS_CardinalityType DEF ListingInv
  <1> QED BY <1>1, <1>2, <1>3, <1>4 DEF ListingInv, ListingFits

LEMMA ListingInvInit == DirInit => ListingInv
  <1> SUFFICES ASSUME DirInit PROVE ListingInv
    OBVIOUS
  <1>1. Found \ fresh = {}
    BY DEF DirInit, Found
  <1>2. IsFiniteSet({}) /\ Cardinality({}) = 0
    BY FS_EmptySet
  <1>3. Cardinality(Found \ fresh) <= file_count
    <2>1. file_count = 0 /\ Cardinality(Found \ fresh) = 0
      BY <1>1, <1>2 DEF DirInit
    <2> QED BY <2>1
  <1> QED BY <1>2, <1>3 DEF DirInit, ListingInv

------------------------------------------------------------------------------
(* Resources.  A call settles when there is a table of what it holds before   *)
(* each of its steps, empty at both ends, that the steps follow.  That each  *)
(* call of the table does is shown call by call; that then no order of calls *)
(* and failures loses anything, for all calls that settle.                   *)

\* What callers can own.
Handles == {"text", "fd", "conn", "ctx", "ssl", "mutex", "rwlock"}

\* What is held after a step.
After(h, this) ==
    CASE this.do \in {"get", "try", "take"} -> h \cup {this.what}
      [] this.do \in {"put", "give"} -> h \ {this.what}
      [] OTHER -> h

\* The last step gives r to the caller.
HandsOver(s, r) == s[Len(s)].do = "give" /\ s[Len(s)].what = r

\* Step i releases what is held, and acquires nothing twice, nor a handle it does not
\* hand over (the caller may have one); a failure there drops no more than losses.
Disciplined(s, i, h, losses) ==
    /\ s[i].do \in {"put", "give"} => s[i].what \in h
    /\ s[i].do \in {"get", "try"} =>
          s[i].what \notin h /\ (s[i].what \in Handles => HandsOver(s, s[i].what))
    /\ s[i].undo \subseteq h
    /\ s[i].do \in {"try", "test"} =>
          h \ s[i].undo \subseteq losses /\ s[i].instead \subseteq Handles
    /\ s[i].do = "give" => i = Len(s) /\ s[i].what \in Handles

Passes(s, i, h, next, losses) == next = After(h, s[i]) /\ Disciplined(s, i, h, losses)

SettlesWith(s, losses, H) ==
    /\ Len(s) \in Nat
    /\ H[1] = {} /\ H[Len(s) + 1] = {}
    /\ \A i \in 1..Len(s) : Passes(s, i, H[i], H[i + 1], losses)

Settles(s, losses) == \E H : SettlesWith(s, losses, H)

\* What the code is known to drop.
Losses(c) == IF c \in {"socket_recv", "tls_recv"} THEN {"text"} ELSE {}

\* The sequences of steps that calls consist of, each with its table.
LEMMA ReadFileSettles == Settles(<<Try("file", {}), Try("text", {"file"}), Put("file"), Give("text")>>, {})
  <1> DEFINE s == <<Try("file", {}), Try("text", {"file"}), Put("file"), Give("text")>>
             H == <<{}, {"file"}, {"file", "text"}, {"text"}, {}>>
  <1>1. Len(s) = 4 /\ s[1] = Try("file", {}) /\ s[2] = Try("text", {"file"}) /\ s[3] = Put("file")
      /\ s[4] = Give("text")
    OBVIOUS
  <1>2. H[1] = {} /\ H[2] = {"file"} /\ H[3] = {"file", "text"} /\ H[4] = {"text"} /\ H[5] = {}
    OBVIOUS
  <1> HIDE DEF s, H
  <1>3. /\ Passes(s, 1, {}, {"file"}, {})
        /\ Passes(s, 2, {"file"}, {"file", "text"}, {})
        /\ Passes(s, 3, {"file", "text"}, {"text"}, {})
        /\ Passes(s, 4, {"text"}, {}, {})
    BY <1>1 DEF Passes, After, Disciplined, HandsOver, Handles, Step, Get, Give, Put, Try
  <1>4. SettlesWith(s, {}, H)
    BY <1>1, <1>2, <1>3 DEF SettlesWith
  <1>5. Settles(s, {})
    BY <1>4 DEF Settles
  <1> QED BY <1>5 DEF s, H

LEMMA MinimalReadFileSettles ==
    Settles(<<Try("file", {}), Test({"file"}), Get("text"), Put("file"), Give("text")>>, {})
  <1> DEFINE s == <<Try("file", {}), Test({"file"}), Get("text"), Put("file"), Give("text")>>
             H == <<{}, {"file"}, {"file"}, {"file", "text"}, {"text"}, {}>>
  <1>1. Len(s) = 5 /\ s[1] = Try("file", {}) /\ s[2] = Test({"file"}) /\ s[3] = Get("text") /\
      s[4] = Put("file") /\ s[5] = Give("text")
    OBVIOUS
  <1>2. H[1] = {} /\ H[2] = {"file"} /\ H[3] = {"file"} /\ H[4] = {"file", "text"} /\
      H[5] = {"text"} /\ H[6] = {}
    OBVIOUS
  <1> HIDE DEF s, H
  <1>3. /\ Passes(s, 1, {}, {"file"}, {})
        /\ Passes(s, 2, {"file"}, {"file"}, {})
        /\ Passes(s, 3, {"file"}, {"file", "text"}, {})
        /\ Passes(s, 4, {"file", "text"}, {"text"}, {})
        /\ Passes(s, 5, {"text"}, {}, {})
    BY <1>1 DEF Passes, After, Disciplined, HandsOver, Handles, Step, Get, Give, Put, Test, Try
  <1>4. SettlesWith(s, {}, H)
    BY <1>1, <1>2, <1>3 DEF SettlesWith
  <1>5. Settles(s, {})
    BY <1>4 DEF Settles
  <1> QED BY <1>5 DEF s, H

LEMMA OpenCloseSettles == Settles(<<Try("file", {}), Put("file")>>, {})
  <1> DEFINE s == <<Try("file", {}), Put("file")>>
             H == <<{}, {"file"}, {}>>
  <1>1. Len(s) = 2 /\ s[1] = Try("file", {}) /\ s[2] = Put("file")
    OBVIOUS
  <1>2. H[1] = {} /\ H[2] = {"file"} /\ H[3] = {}
    OBVIOUS
  <1> HIDE DEF s, H
  <1>3. /\ Passes(s, 1, {}, {"file"}, {})
        /\ Passes(s, 2, {"file"}, {}, {})
    BY <1>1 DEF Passes, After, Disciplined, HandsOver, Handles, Step, Put, Try
  <1>4. SettlesWith(s, {}, H)
    BY <1>1, <1>2, <1>3 DEF SettlesWith
  <1>5. Settles(s, {})
    BY <1>4 DEF Settles
  <1> QED BY <1>5 DEF s, H

LEMMA ProcessOutputSettles ==
    Settles(
        <<Try("pipe", {}), Try("text", {"pipe"}), Test({"text", "pipe"}), Put("pipe"), Give("text")>>,
        {})
  <1> DEFINE s == <<Try("pipe", {}), Try("text", {"pipe"}), Test({"text", "pipe"}), Put("pipe"), Give("text")>>
             H == <<{}, {"pipe"}, {"pipe", "text"}, {"pipe", "text"}, {"text"}, {}>>
  <1>1. Len(s) = 5 /\ s[1] = Try("pipe", {}) /\ s[2] = Try("text", {"pipe"}) /\
      s[3] = Test({"text", "pipe"}) /\ s[4] = Put("pipe") /\ s[5] = Give("text")
    OBVIOUS
  <1>2. H[1] = {} /\ H[2] = {"pipe"} /\ H[3] = {"pipe", "text"} /\ H[4] = {"pipe", "text"} /\
      H[5] = {"text"} /\ H[6] = {}
    OBVIOUS
  <1> HIDE DEF s, H
  <1>3. /\ Passes(s, 1, {}, {"pipe"}, {})
        /\ Passes(s, 2, {"pipe"}, {"pipe", "text"}, {})
        /\ Passes(s, 3, {"pipe", "text"}, {"pipe", "text"}, {})
        /\ Passes(s, 4, {"pipe", "text"}, {"text"}, {})
        /\ Passes(s, 5, {"text"}, {}, {})
    BY <1>1 DEF Passes, After, Disciplined, HandsOver, Handles, Step, Give, Put, Test, Try
  <1>4. SettlesWith(s, {}, H)
    BY <1>1, <1>2, <1>3 DEF SettlesWith
  <1>5. Settles(s, {})
    BY <1>4 DEF Settles
  <1> QED BY <1>5 DEF s, H

LEMMA NewSettles == \A r \in Handles : Settles(<<Try(r, {}), Give(r)>>, {})
  <1> SUFFICES ASSUME NEW r \in Handles PROVE Settles(<<Try(r, {}), Give(r)>>, {})
    OBVIOUS
  <1> DEFINE s == <<Try(r, {}), Give(r)>>
             H == <<{}, {r}, {}>>
  <1>1. Len(s) = 2 /\ s[1] = Try(r, {}) /\ s[2] = Give(r)
    OBVIOUS
  <1>2. H[1] = {} /\ H[2] = {r} /\ H[3] = {}
    OBVIOUS
  <1> HIDE DEF s, H
  <1>3. /\ Passes(s, 1, {}, {r}, {})
        /\ Passes(s, 2, {r}, {}, {})
    BY <1>1 DEF Passes, After, Disciplined, HandsOver, Handles, Step, Give, Try
  <1>4. SettlesWith(s, {}, H)
    BY <1>1, <1>2, <1>3 DEF SettlesWith
  <1>5. Settles(s, {})
    BY <1>4 DEF Settles
  <1> QED BY <1>5 DEF s, H

LEMMA ReleaseSettles == \A r \in Handles : Settles(<<Take(r), Put(r)>>, {})
  <1> SUFFICES ASSUME NEW r \in Handles PROVE Settles(<<Take(r), Put(r)>>, {})
    OBVIOUS
  <1> DEFINE s == <<Take(r), Put(r)>>
             H == <<{}, {r}, {}>>
  <1>1. Len(s) = 2 /\ s[1] = Take(r) /\ s[2] = Put(r)
    OBVIOUS
  <1>2. H[1] = {} /\ H[2] = {r} /\ H[3] = {}
    OBVIOUS
  <1> HIDE DEF s, H
  <1>3. /\ Passes(s, 1, {}, {r}, {})
        /\ Passes(s, 2, {r}, {}, {})
    BY <1>1 DEF Passes, After, Disciplined, HandsOver, Handles, Step, Put, Take
  <1>4. SettlesWith(s, {}, H)
    BY <1>1, <1>2, <1>3 DEF SettlesWith
  <1>5. Settles(s, {})
    BY <1>4 DEF Settles
  <1> QED BY <1>5 DEF s, H

LEMMA UseSettles == \A r \in Handles : Settles(<<Use(r)>>, {})
  <1> SUFFICES ASSUME NEW r \in Handles PROVE Settles(<<Use(r)>>, {})
    OBVIOUS
  <1> DEFINE s == <<Use(r)>>
             H == <<{}, {}>>
  <1>1. Len(s) = 1 /\ s[1] = Use(r)
    OBVIOUS
  <1>2. H[1] = {} /\ H[2] = {}
    OBVIOUS
  <1> HIDE DEF s, H
  <1>3. Passes(s, 1, {}, {}, {})
    BY <1>1 DEF Passes, After, Disciplined, HandsOver, Handles, Step, Use
  <1>4. SettlesWith(s, {}, H)
    BY <1>1, <1>2, <1>3 DEF SettlesWith
  <1>5. Settles(s, {})
    BY <1>4 DEF Settles
  <1> QED BY <1>5 DEF s, H

LEMMA UseTestSettles == \A r \in Handles : Settles(<<Use(r), Test({})>>, {})
  <1> SUFFICES ASSUME NEW r \in Handles PROVE Settles(<<Use(r), Test({})>>, {})
    OBVIOUS
  <1> DEFINE s == <<Use(r), Test({})>>
             H == <<{}, {}, {}>>
  <1>1. Len(s) = 2 /\ s[1] = Use(r) /\ s[2] = Test({})
    OBVIOUS
  <1>2. H[1] = {} /\ H[2] = {} /\ H[3] = {}
    OBVIOUS
  <1> HIDE DEF s, H
  <1>3. /\ Passes(s, 1, {}, {}, {})
        /\ Passes(s, 2, {}, {}, {})
    BY <1>1 DEF Passes, After, Disciplined, HandsOver, Handles, Step, Test, Use
  <1>4. SettlesWith(s, {}, H)
    BY <1>1, <1>2, <1>3 DEF SettlesWith
  <1>5. Settles(s, {})
    BY <1>4 DEF Settles
  <1> QED BY <1>5 DEF s, H

LEMMA AcceptSettles == Settles(<<Use("fd"), Try("conn", {}), Give("conn")>>, {})
  <1> DEFINE s == <<Use("fd"), Try("conn", {}), Give("conn")>>
             H == <<{}, {}, {"conn"}, {}>>
  <1>1. Len(s) = 3 /\ s[1] = Use("fd") /\ s[2] = Try("conn", {}) /\ s[3] = Give("conn")
    OBVIOUS
  <1>2. H[1] = {} /\ H[2] = {} /\ H[3] = {"conn"} /\ H[4] = {}
    OBVIOUS
  <1> HIDE DEF s, H
  <1>3. /\ Passes(s, 1, {}, {}, {})
        /\ Passes(s, 2, {}, {"conn"}, {})
        /\ Passes(s, 3, {"conn"}, {}, {})
    BY <1>1 DEF Passes, After, Disciplined, HandsOver, Handles, Step, Give, Try, Use
  <1>4. SettlesWith(s, {}, H)
    BY <1>1, <1>2, <1>3 DEF SettlesWith
  <1>5. Settles(s, {})
    BY <1>4 DEF Settles
  <1> QED BY <1>5 DEF s, H

LEMMA ReceiveSettles ==
    \A r \in Handles : Settles(<<Use(r), Get("text"), Test({}), Give("text")>>, {"text"})
  <1> SUFFICES ASSUME NEW r \in Handles PROVE Settles(<<Use(r), Get("text"), Test({}), Give("text")>>, {"text"})
    OBVIOUS
  <1> DEFINE s == <<Use(r), Get("text"), Test({}), Give("text")>>
             H == <<{}, {}, {"text"}, {"text"}, {}>>
  <1>1. Len(s) = 4 /\ s[1] = Use(r) /\ s[2] = Get("text") /\ s[3] = Test({}) /\
      s[4] = Give("text")
    OBVIOUS
  <1>2. H[1] = {} /\ H[2] = {} /\ H[3] = {"text"} /\ H[4] = {"text"} /\ H[5] = {}
    OBVIOUS
  <1> HIDE DEF s, H
  <1>3. /\ Passes(s, 1, {}, {}, {"text"})
        /\ Passes(s, 2, {}, {"text"}, {"text"})
        /\ Passes(s, 3, {"text"}, {"text"}, {"text"})
        /\ Passes(s, 4, {"text"}, {}, {"text"})
    BY <1>1 DEF Passes, After, Disciplined, HandsOver, Handles, Step, Get, Give, Test, Use
  <1>4. SettlesWith(s, {"text"}, H)
    BY <1>1, <1>2, <1>3 DEF SettlesWith
  <1>5. Settles(s, {"text"})
    BY <1>4 DEF Settles
  <1> QED BY <1>5 DEF s, H

LEMMA TlsContextSettles ==
    Settles(
        <<Try("ctx", {}), Test({"ctx"}), Test({"ctx"}), Test({"ctx"}), Test({"ctx"}), Give("ctx")>>,
        {})
  <1> DEFINE s == <<Try("ctx", {}), Test({"ctx"}), Test({"ctx"}), Test({"ctx"}), Test({"ctx"}), Give("ctx")>>
             H == <<{}, {"ctx"}, {"ctx"}, {"ctx"}, {"ctx"}, {"ctx"}, {}>>
  <1>1. Len(s) = 6 /\ s[1] = Try("ctx", {}) /\ s[2] = Test({"ctx"}) /\ s[3] = Test({"ctx"}) /\
      s[4] = Test({"ctx"}) /\ s[5] = Test({"ctx"}) /\ s[6] = Give("ctx")
    OBVIOUS
  <1>2. H[1] = {} /\ H[2] = {"ctx"} /\ H[3] = {"ctx"} /\ H[4] = {"ctx"} /\ H[5] = {"ctx"} /\
      H[6] = {"ctx"} /\ H[7] = {}
    OBVIOUS
  <1> HIDE DEF s, H
  <1>3. /\ Passes(s, 1, {}, {"ctx"}, {})
        /\ Passes(s, 2, {"ctx"}, {"ctx"}, {})
        /\ Passes(s, 3, {"ctx"}, {"ctx"}, {})
        /\ Passes(s, 4, {"ctx"}, {"ctx"}, {})
        /\ Passes(s, 5, {"ctx"}, {"ctx"}, {})
        /\ Passes(s, 6, {"ctx"}, {}, {})
    BY <1>1 DEF Passes, After, Disciplined, HandsOver, Handles, Step, Give, Test, Try
  <1>4. SettlesWith(s, {}, H)
    BY <1>1, <1>2, <1>3 DEF SettlesWith
  <1>5. Settles(s, {})
    BY <1>4 DEF Settles
  <1> QED BY <1>5 DEF s, H

LEMMA TlsAcceptSettles ==
    Settles(<<Use("ctx"), Use("conn"), Try("ssl", {}), Test({"ssl"}), Give("ssl")>>, {})
  <1> DEFINE s == <<Use("ctx"), Use("conn"), Try("ssl", {}), Test({"ssl"}), Give("ssl")>>
             H == <<{}, {}, {}, {"ssl"}, {"ssl"}, {}>>
  <1>1. Len(s) = 5 /\ s[1] = Use("ctx") /\ s[2] = Use("conn") /\ s[3] = Try("ssl", {}) /\
      s[4] = Test({"ssl"}) /\ s[5] = Give("ssl")
    OBVIOUS
  <1>2. H[1] = {} /\ H[2] = {} /\ H[3] = {} /\ H[4] = {"ssl"} /\ H[5] = {"ssl"} /\ H[6] = {}
    OBVIOUS
  <1> HIDE DEF s, H
  <1>3. /\ Passes(s, 1, {}, {}, {})
        /\ Passes(s, 2, {}, {}, {})
        /\ Passes(s, 3, {}, {"ssl"}, {})
        /\ Passes(s, 4, {"ssl"}, {"ssl"}, {})
        /\ Passes(s, 5, {"ssl"}, {}, {})
    BY <1>1 DEF Passes, After, Disciplined, HandsOver, Handles, Step, Give, Test, Try, Use
  <1>4. SettlesWith(s, {}, H)
    BY <1>1, <1>2, <1>3 DEF SettlesWith
  <1>5. Settles(s, {})
    BY <1>4 DEF Settles
  <1> QED BY <1>5 DEF s, H

LEMMA TlsCloseSettles == Settles(<<Use("ssl"), Take("ssl"), Put("ssl")>>, {})
  <1> DEFINE s == <<Use("ssl"), Take("ssl"), Put("ssl")>>
             H == <<{}, {}, {"ssl"}, {}>>
  <1>1. Len(s) = 3 /\ s[1] = Use("ssl") /\ s[2] = Take("ssl") /\ s[3] = Put("ssl")
    OBVIOUS
  <1>2. H[1] = {} /\ H[2] = {} /\ H[3] = {"ssl"} /\ H[4] = {}
    OBVIOUS
  <1> HIDE DEF s, H
  <1>3. /\ Passes(s, 1, {}, {}, {})
        /\ Passes(s, 2, {}, {"ssl"}, {})
        /\ Passes(s, 3, {"ssl"}, {}, {})
    BY <1>1 DEF Passes, After, Disciplined, HandsOver, Handles, Step, Put, Take, Use
  <1>4. SettlesWith(s, {}, H)
    BY <1>1, <1>2, <1>3 DEF SettlesWith
  <1>5. Settles(s, {})
    BY <1>4 DEF Settles
  <1> QED BY <1>5 DEF s, H

LEMMA DigestSettles == Settles(<<Get("md"), Put("md")>>, {})
  <1> DEFINE s == <<Get("md"), Put("md")>>
             H == <<{}, {"md"}, {}>>
  <1>1. Len(s) = 2 /\ s[1] = Get("md") /\ s[2] = Put("md")
    OBVIOUS
  <1>2. H[1] = {} /\ H[2] = {"md"} /\ H[3] = {}
    OBVIOUS
  <1> HIDE DEF s, H
  <1>3. /\ Passes(s, 1, {}, {"md"}, {})
        /\ Passes(s, 2, {"md"}, {}, {})
    BY <1>1 DEF Passes, After, Disciplined, HandsOver, Handles, Step, Get, Put
  <1>4. SettlesWith(s, {}, H)
    BY <1>1, <1>2, <1>3 DEF SettlesWith
  <1>5. Settles(s, {})
    BY <1>4 DEF Settles
  <1> QED BY <1>5 DEF s, H

LEMMA AesCbcSettles == Settles(<<Get("text"), Get("cipher"), Put("cipher"), Give("text")>>, {})
  <1> DEFINE s == <<Get("text"), Get("cipher"), Put("cipher"), Give("text")>>
             H == <<{}, {"text"}, {"text", "cipher"}, {"text"}, {}>>
  <1>1. Len(s) = 4 /\ s[1] = Get("text") /\ s[2] = Get("cipher") /\ s[3] = Put("cipher") /\
      s[4] = Give("text")
    OBVIOUS
  <1>2. H[1] = {} /\ H[2] = {"text"} /\ H[3] = {"text", "cipher"} /\ H[4] = {"text"} /\ H[5] = {}
    OBVIOUS
  <1> HIDE DEF s, H
  <1>3. /\ Passes(s, 1, {}, {"text"}, {})
        /\ Passes(s, 2, {"text"}, {"text", "cipher"}, {})
        /\ Passes(s, 3, {"text", "cipher"}, {"text"}, {})
        /\ Passes(s, 4, {"text"}, {}, {})
    BY <1>1 DEF Passes, After, Disciplined, HandsOver, Handles, Step, Get, Give, Put
  <1>4. SettlesWith(s, {}, H)
    BY <1>1, <1>2, <1>3 DEF SettlesWith
  <1>5. Settles(s, {})
    BY <1>4 DEF Settles
  <1> QED BY <1>5 DEF s, H

LEMMA AesGcmSettles == Settles(<<Get("cipher"), Get("text"), Put("cipher"), Give("text")>>, {})
  <1> DEFINE s == <<Get("cipher"), Get("text"), Put("cipher"), Give("text")>>
             H == <<{}, {"cipher"}, {"cipher", "text"}, {"text"}, {}>>
  <1>1. Len(s) = 4 /\ s[1] = Get("cipher") /\ s[2] = Get("text") /\ s[3] = Put("cipher") /\
      s[4] = Give("text")
    OBVIOUS
  <1>2. H[1] = {} /\ H[2] = {"cipher"} /\ H[3] = {"cipher", "text"} /\ H[4] = {"text"} /\
      H[5] = {}
    OBVIOUS
  <1> HIDE DEF s, H
  <1>3. /\ Passes(s, 1, {}, {"cipher"}, {})
        /\ Passes(s, 2, {"cipher"}, {"cipher", "text"}, {})
        /\ Passes(s, 3, {"cipher", "text"}, {"text"}, {})
        /\ Passes(s, 4, {"text"}, {}, {})
    BY <1>1 DEF Passes, After, Disciplined, HandsOver, Handles, Step, Get, Give, Put
  <1>4. SettlesWith(s, {}, H)
    BY <1>1, <1>2, <1>3 DEF SettlesWith
  <1>5. Settles(s, {})
    BY <1>4 DEF Settles
  <1> QED BY <1>5 DEF s, H

LEMMA KeyPairSettles ==
    Settles(
        <<Try("pctx", {}), Test({"pctx"}), Try("pkey", {"pctx"}), Put("pctx"), Put("pkey")>>,
        {})
  <1> DEFINE s == <<Try("pctx", {}), Test({"pctx"}), Try("pkey", {"pctx"}), Put("pctx"), Put("pkey")>>
             H == <<{}, {"pctx"}, {"pctx"}, {"pctx", "pkey"}, {"pkey"}, {}>>
  <1>1. Len(s) = 5 /\ s[1] = Try("pctx", {}) /\ s[2] = Test({"pctx"}) /\
      s[3] = Try("pkey", {"pctx"}) /\ s[4] = Put("pctx") /\ s[5] = Put("pkey")
    OBVIOUS
  <1>2. H[1] = {} /\ H[2] = {"pctx"} /\ H[3] = {"pctx"} /\ H[4] = {"pctx", "pkey"} /\
      H[5] = {"pkey"} /\ H[6] = {}
    OBVIOUS
  <1> HIDE DEF s, H
  <1>3. /\ Passes(s, 1, {}, {"pctx"}, {})
        /\ Passes(s, 2, {"pctx"}, {"pctx"}, {})
        /\ Passes(s, 3, {"pctx"}, {"pctx", "pkey"}, {})
        /\ Passes(s, 4, {"pctx", "pkey"}, {"pkey"}, {})
        /\ Passes(s, 5, {"pkey"}, {}, {})
    BY <1>1 DEF Passes, After, Disciplined, HandsOver, Handles, Step, Put, Test, Try
  <1>4. SettlesWith(s, {}, H)
    BY <1>1, <1>2, <1>3 DEF SettlesWith
  <1>5. Settles(s, {})
    BY <1>4 DEF Settles
  <1> QED BY <1>5 DEF s, H

LEMMA Ed25519Settles == Settles(<<Try("pkey", {}), Get("md"), Put("md"), Put("pkey")>>, {})
  <1> DEFINE s == <<Try("pkey", {}), Get("md"), Put("md"), Put("pkey")>>
             H == <<{}, {"pkey"}, {"pkey", "md"}, {"pkey"}, {}>>
  <1>1. Len(s) = 4 /\ s[1] = Try("pkey", {}) /\ s[2] = Get("md") /\ s[3] = Put("md") /\
      s[4] = Put("pkey")
    OBVIOUS
  <1>2. H[1] = {} /\ H[2] = {"pkey"} /\ H[3] = {"pkey", "md"} /\ H[4] = {"pkey"} /\ H[5] = {}
    OBVIOUS
  <1> HIDE DEF s, H
  <1>3. /\ Passes(s, 1, {}, {"pkey"}, {})
        /\ Passes(s, 2, {"pkey"}, {"pkey", "md"}, {})
        /\ Passes(s, 3, {"pkey", "md"}, {"pkey"}, {})
        /\ Passes(s, 4, {"pkey"}, {}, {})
    BY <1>1 DEF Passes, After, Disciplined, HandsOver, Handles, Step, Get, Put, Try
  <1>4. SettlesWith(s, {}, H)
    BY <1>1, <1>2, <1>3 DEF SettlesWith
  <1>5. Settles(s, {})
    BY <1>4 DEF Settles
  <1> QED BY <1>5 DEF s, H

\* A step of loading a key.
Loading(what, undo, otherwise) ==
    [do |-> "try", what |-> what, undo |-> undo, instead |-> otherwise]

\* Loading a key, and what follows it: the elements of the two joined.
LoadedThen(s, otherwise, rest) ==
    /\ Len(s) = 3 + Len(rest)
    /\ s[1] = Loading("bio", {}, otherwise) /\ s[2] = Loading("pkey", {"bio"}, otherwise)
    /\ s[3] = [do |-> "put", what |-> "bio", undo |-> {}, instead |-> otherwise]
    /\ \A j \in 1..Len(rest) : s[3 + j] = rest[j]

\* The steps of LoadKey, one by one.
LEMMA LoadKeyElements ==
    ASSUME NEW otherwise
    PROVE  /\ LoadKey(otherwise)[1] = Loading("bio", {}, otherwise)
           /\ LoadKey(otherwise)[2] = Loading("pkey", {"bio"}, otherwise)
           /\ LoadKey(otherwise)[3] = [do |-> "put", what |-> "bio", undo |-> {}, instead |-> otherwise]
  <1>1. LoadKey(otherwise)[1] = Loading("bio", {}, otherwise)
    BY DEF LoadKey, Loading, Try, Put, Step
  <1>2. LoadKey(otherwise)[2] = Loading("pkey", {"bio"}, otherwise)
    BY DEF LoadKey, Loading, Try, Put, Step
  <1>3. LoadKey(otherwise)[3] = [Put("bio") EXCEPT !.instead = otherwise]
    BY DEF LoadKey
  <1>4. [Put("bio") EXCEPT !.instead = otherwise]
           = [do |-> "put", what |-> "bio", undo |-> {}, instead |-> otherwise]
    BY DEF Put, Step
  <1> QED BY <1>1, <1>2, <1>3, <1>4

\* u is s and t in a row.
JoinOf(u, s, t) ==
    /\ Len(u) = Len(s) + Len(t)
    /\ \A i \in 1..Len(s) : u[i] = s[i]
    /\ \A j \in 1..Len(t) : u[Len(s) + j] = t[j]

LEMMA Joined ==
    ASSUME NEW T, NEW s, NEW t, s \in Seq(T), t \in Seq(T)
    PROVE  JoinOf(s \o t, s, t)
  BY ConcatIs DEF JoinOf

LEMMA LoadKeySteps ==
    ASSUME NEW otherwise, NEW T, NEW rest \in Seq(T)
    PROVE  LoadedThen(LoadKey(otherwise) \o rest, otherwise, rest)
  <1> DEFINE f == LoadKey(otherwise)
             U == T \cup {f[i] : i \in 1..3}
  <1>1. /\ f[1] = Loading("bio", {}, otherwise) /\ f[2] = Loading("pkey", {"bio"}, otherwise)
        /\ f[3] = [do |-> "put", what |-> "bio", undo |-> {}, instead |-> otherwise]
    BY LoadKeyElements
  <1>2. f = [i \in 1..3 |-> f[i]]
    <2> DEFINE load == <<Try("bio", {}), Try("pkey", {"bio"}), Put("bio")>>
               g == [i \in 1..3 |-> [load[i] EXCEPT !.instead = otherwise]]
    <2>1. f = g
      BY DEF LoadKey
    <2>2. g = [i \in 1..3 |-> g[i]]
      OBVIOUS
    <2> HIDE DEF f, g
    <2> QED BY <2>1, <2>2
  <1> HIDE DEF f
  <1>4. \A i \in 1..3 : f[i] \in U
    OBVIOUS
  <1>5. T \subseteq U
    OBVIOUS
  <1> HIDE DEF U
  <1>6. f \in Seq(U) /\ Len(f) = 3 /\ Len(rest) \in Nat
    BY <1>2, <1>4
  <1>7. rest \in Seq(U)
    BY <1>5
  <1>8. JoinOf(f \o rest, f, rest)
    BY <1>6, <1>7, Joined, Zenon
  <1>9. /\ Len(f \o rest) = 3 + Len(rest) /\ (f \o rest)[1] = f[1] /\ (f \o rest)[2] = f[2]
        /\ (f \o rest)[3] = f[3] /\ \A j \in 1..Len(rest) : (f \o rest)[3 + j] = rest[j]
    BY <1>6, <1>8 DEF JoinOf
  <1> QED BY <1>1, <1>9 DEF LoadedThen, f

LEMMA SignSettles == Settles(Sign, {})
  <1> DEFINE H == <<{}, {"bio"}, {"bio", "pkey"}, {"pkey"}, {"pkey", "md"},
                   {"pkey", "md", "text"}, {"pkey", "text"}, {"text"}, {}>>
             rest == <<Get("md"), Get("text"), Put("md"), Put("pkey"), Give("text")>>
             T == {Get("md"), Get("text"), Put("md"), Put("pkey"), Give("text")}
  <1>1. LoadedThen(Sign, {"text"}, rest)
    <2>1. rest \in Seq(T)
      OBVIOUS
    <2>2. Sign = LoadKey({"text"}) \o rest
      BY DEF Sign
    <2> HIDE DEF rest, T
    <2> QED BY <2>1, <2>2, LoadKeySteps
  <1>2. Len(rest) = 5 /\ rest[1] = Get("md") /\ rest[2] = Get("text") /\ rest[3] = Put("md") /\
      rest[4] = Put("pkey") /\ rest[5] = Give("text")
    OBVIOUS
  <1>3. H[1] = {} /\ H[2] = {"bio"} /\ H[3] = {"bio", "pkey"} /\ H[4] = {"pkey"} /\
      H[5] = {"pkey", "md"} /\ H[6] = {"pkey", "md", "text"} /\ H[7] = {"pkey", "text"} /\
      H[8] = {"text"} /\ H[9] = {}
    OBVIOUS
  <1> HIDE DEF H, rest, T
  <1>4. /\ Len(Sign) = 8 /\ Sign[1] = Loading("bio", {}, {"text"})
        /\ Sign[2] = Loading("pkey", {"bio"}, {"text"})
        /\ Sign[3] = [do |-> "put", what |-> "bio", undo |-> {}, instead |-> {"text"}]
    BY <1>1, <1>2 DEF LoadedThen
  <1>5. Sign[4] = Get("md") /\ Sign[5] = Get("text") /\ Sign[6] = Put("md") /\
      Sign[7] = Put("pkey") /\ Sign[8] = Give("text")
    <2>1. Sign[3 + 1] = Get("md") /\ Sign[3 + 2] = Get("text") /\ Sign[3 + 3] = Put("md") /\
      Sign[3 + 4] = Put("pkey") /\ Sign[3 + 5] = Give("text")
      BY <1>1, <1>2 DEF LoadedThen
    <2> QED BY <2>1
  <1>6. /\ Passes(Sign, 1, {}, {"bio"}, {})
        /\ Passes(Sign, 2, {"bio"}, {"bio", "pkey"}, {})
        /\ Passes(Sign, 3, {"bio", "pkey"}, {"pkey"}, {})
        /\ Passes(Sign, 4, {"pkey"}, {"pkey", "md"}, {})
        /\ Passes(Sign, 5, {"pkey", "md"}, {"pkey", "md", "text"}, {})
        /\ Passes(Sign, 6, {"pkey", "md", "text"}, {"pkey", "text"}, {})
        /\ Passes(Sign, 7, {"pkey", "text"}, {"text"}, {})
        /\ Passes(Sign, 8, {"text"}, {}, {})
    <2>1. Passes(Sign, 1, {}, {"bio"}, {}) /\ Passes(Sign, 2, {"bio"}, {"bio", "pkey"}, {})
      BY <1>4, <1>5 DEF Passes, After, Disciplined, HandsOver, Handles, Loading, Step, Get, Give, Put
    <2>2. Passes(Sign, 3, {"bio", "pkey"}, {"pkey"}, {}) /\ Passes(Sign, 4, {"pkey"}, {"pkey", "md"}, {})
      BY <1>4, <1>5 DEF Passes, After, Disciplined, HandsOver, Handles, Loading, Step, Get, Give, Put
    <2>3. /\ Passes(Sign, 5, {"pkey", "md"}, {"pkey", "md", "text"}, {})
          /\ Passes(Sign, 6, {"pkey", "md", "text"}, {"pkey", "text"}, {})
      BY <1>4, <1>5 DEF Passes, After, Disciplined, HandsOver, Handles, Loading, Step, Get, Give, Put
    <2>4. Passes(Sign, 7, {"pkey", "text"}, {"text"}, {}) /\ Passes(Sign, 8, {"text"}, {}, {})
      BY <1>4, <1>5 DEF Passes, After, Disciplined, HandsOver, Handles, Loading, Step, Get, Give, Put
    <2> QED BY <2>1, <2>2, <2>3, <2>4
  <1>7. \A i \in 1..8 : Passes(Sign, i, H[i], H[i + 1], {})
    <2>1. /\ Passes(Sign, 1, H[1], H[2], {}) /\ Passes(Sign, 2, H[2], H[3], {})
          /\ Passes(Sign, 3, H[3], H[4], {}) /\ Passes(Sign, 4, H[4], H[5], {})
      BY <1>3, <1>6
    <2>2. /\ Passes(Sign, 5, H[5], H[6], {}) /\ Passes(Sign, 6, H[6], H[7], {})
          /\ Passes(Sign, 7, H[7], H[8], {}) /\ Passes(Sign, 8, H[8], H[9], {})
      BY <1>3, <1>6
    <2> QED BY <2>1, <2>2
  <1>8. SettlesWith(Sign, {}, H)
    BY <1>3, <1>4, <1>7 DEF SettlesWith
  <1> QED BY <1>8 DEF Settles

LEMMA VerifySettles == Settles(Verify, {})
  <1> DEFINE H == <<{}, {"bio"}, {"bio", "pkey"}, {"pkey"}, {"pkey", "md"}, {"pkey"}, {}>>
             rest == <<Get("md"), Put("md"), Put("pkey")>>
             T == {Get("md"), Put("md"), Put("pkey")}
  <1>1. LoadedThen(Verify, {}, rest)
    <2>1. rest \in Seq(T)
      OBVIOUS
    <2>2. Verify = LoadKey({}) \o rest
      BY DEF Verify
    <2> HIDE DEF rest, T
    <2> QED BY <2>1, <2>2, LoadKeySteps
  <1>2. Len(rest) = 3 /\ rest[1] = Get("md") /\ rest[2] = Put("md") /\ rest[3] = Put("pkey")
    OBVIOUS
  <1>3. H[1] = {} /\ H[2] = {"bio"} /\ H[3] = {"bio", "pkey"} /\ H[4] = {"pkey"} /\
      H[5] = {"pkey", "md"} /\ H[6] = {"pkey"} /\ H[7] = {}
    OBVIOUS
  <1> HIDE DEF H, rest, T
  <1>4. /\ Len(Verify) = 6 /\ Verify[1] = Loading("bio", {}, {})
        /\ Verify[2] = Loading("pkey", {"bio"}, {})
        /\ Verify[3] = [do |-> "put", what |-> "bio", undo |-> {}, instead |-> {}]
    BY <1>1, <1>2 DEF LoadedThen
  <1>5. Verify[4] = Get("md") /\ Verify[5] = Put("md") /\ Verify[6] = Put("pkey")
    <2>1. Verify[3 + 1] = Get("md") /\ Verify[3 + 2] = Put("md") /\ Verify[3 + 3] = Put("pkey")
      BY <1>1, <1>2 DEF LoadedThen
    <2> QED BY <2>1
  <1>6. /\ Passes(Verify, 1, {}, {"bio"}, {})
        /\ Passes(Verify, 2, {"bio"}, {"bio", "pkey"}, {})
        /\ Passes(Verify, 3, {"bio", "pkey"}, {"pkey"}, {})
        /\ Passes(Verify, 4, {"pkey"}, {"pkey", "md"}, {})
        /\ Passes(Verify, 5, {"pkey", "md"}, {"pkey"}, {})
        /\ Passes(Verify, 6, {"pkey"}, {}, {})
    BY <1>4, <1>5 DEF Passes, After, Disciplined, HandsOver, Handles, Loading, Step, Get, Put
  <1>7. SettlesWith(Verify, {}, H)
    BY <1>3, <1>4, <1>6 DEF SettlesWith
  <1> QED BY <1>7 DEF Settles

\* Every call of a table of calls settles.
AllSettle(calls) == \A c \in DOMAIN calls : Settles(calls[c], Losses(c))

\* Every call of the table gives back, or hands over, what it acquires.
LEMMA AllCallsSettle == AllSettle(Calls)
  <1>1. AllSettle(MinimalFileCalls)
    BY MinimalReadFileSettles, OpenCloseSettles DEF AllSettle, MinimalFileCalls, Losses
  <1>2. AllSettle(FileCalls)
    BY ReadFileSettles, OpenCloseSettles DEF AllSettle, FileCalls, Losses
  <1>3. AllSettle(WinFileCalls)
    BY MinimalReadFileSettles, OpenCloseSettles DEF AllSettle, WinFileCalls, MinimalFileCalls, Losses
  <1>4. AllSettle([process_output |-> ProcessOutput])
    BY ProcessOutputSettles DEF AllSettle, ProcessOutput, Losses
  <1>5. AllSettle(SocketCalls)
    <2>1. /\ Settles(<<Try("fd", {}), Give("fd")>>, {}) /\ Settles(<<Use("fd")>>, {})
          /\ Settles(<<Use("fd"), Test({})>>, {})
          /\ Settles(<<Use("fd"), Get("text"), Test({}), Give("text")>>, {"text"})
      BY NewSettles, UseSettles, UseTestSettles, ReceiveSettles DEF Handles
    <2>2. Settles(<<Take("fd"), Put("fd")>>, {}) /\ Settles(<<Take("conn"), Put("conn")>>, {})
      BY ReleaseSettles DEF Handles
    <2> QED BY <2>1, <2>2, AcceptSettles DEF AllSettle, SocketCalls, Losses
  <1>6. AllSettle(TlsContext)
    BY TlsContextSettles, ReleaseSettles DEF AllSettle, TlsContext, Losses, Handles
  <1>7. AllSettle(TlsConnection)
    BY TlsAcceptSettles, UseSettles, ReceiveSettles, TlsCloseSettles
    DEF AllSettle, TlsConnection, Losses, Handles
  <1>8. AllSettle(Digests)
    BY DigestSettles DEF AllSettle, Digests, Digest, Losses
  <1>9. AllSettle(Ciphers)
    BY AesCbcSettles, AesGcmSettles DEF AllSettle, Ciphers, Losses
  <1>10. AllSettle(RsaCalls) /\ AllSettle(EcdsaCalls)
    BY SignSettles, VerifySettles DEF AllSettle, RsaCalls, EcdsaCalls, Losses
  <1>11. AllSettle(Ed25519Calls)
    BY KeyPairSettles, Ed25519Settles DEF AllSettle, Ed25519Calls, Losses
  <1>12. AllSettle(LockObjects)
    BY NewSettles, ReleaseSettles DEF AllSettle, LockObjects, Losses, Handles
  <1>13. \A t \in Tables : AllSettle(t)
    BY <1>1, <1>2, <1>3, <1>4, <1>5, <1>6, <1>7, <1>8, <1>9, <1>10, <1>11, <1>12 DEF Tables
  <1>14. ASSUME NEW c \in DOMAIN Calls PROVE Settles(Calls[c], Losses(c))
    <2>1. PICK t \in Tables : c \in DOMAIN t
      BY DEF Calls
    <2> DEFINE chosen == CHOOSE u \in Tables : c \in DOMAIN u
    <2>2. chosen \in Tables /\ c \in DOMAIN chosen
      BY <2>1
    <2>3. Calls[c] = chosen[c]
      BY DEF Calls
    <2> HIDE DEF chosen
    <2> QED BY <1>13, <2>2, <2>3 DEF AllSettle
  <1> QED BY <1>14 DEF AllSettle

------------------------------------------------------------------------------
\* What is held before each step of a call that settles.
HeldIn(c) == CHOOSE H : SettlesWith(Calls[c], Losses(c), H)

\* A call in progress holds what its table says, none of it a caller's, and the handle
\* it will hand over no caller has.
ResourceInv ==
    /\ lost \subseteq KnownLosses
    /\ owned \subseteq Handles
    /\ call = "none" => held = {}
    /\ call # "none" =>
          /\ call \in DOMAIN Calls /\ step \in 1..(Len(Calls[call]) + 1)
          /\ held = HeldIn(call)[step]
          /\ held \cap owned = {}
          /\ \A r \in owned : step <= Len(Calls[call]) => ~HandsOver(Calls[call], r)

\* What the invariant says of the call in progress and of its step.
LEMMA CallInProgress ==
    ASSUME NEW c \in DOMAIN Calls
    PROVE  SettlesWith(Calls[c], Losses(c), HeldIn(c))
  BY AllCallsSettle DEF AllSettle, Settles, HeldIn

LEMMA ThisStep ==
    ASSUME ResourceInv, call # "none", step <= Len(Calls[call])
    PROVE  /\ step \in 1..Len(Calls[call]) /\ Len(Calls[call]) \in Nat
           /\ HeldIn(call)[step + 1] = After(held, This)
           /\ Disciplined(Calls[call], step, held, Losses(call))
  <1>1. SettlesWith(Calls[call], Losses(call), HeldIn(call))
    BY CallInProgress DEF ResourceInv
  <1>2. step \in 1..Len(Calls[call]) /\ Len(Calls[call]) \in Nat
    BY <1>1 DEF SettlesWith, ResourceInv
  <1> QED BY <1>1, <1>2 DEF SettlesWith, Passes, ResourceInv, This

\* Every action preserves the invariant.
LEMMA BeginKeeps ==
    ASSUME ResourceInv, NEW c \in DOMAIN Calls, Begin(c)
    PROVE  ResourceInv'
  <1> DEFINE s == Calls[c]
  <1>1. SettlesWith(s, Losses(c), HeldIn(c)) /\ Len(s) \in Nat
    BY CallInProgress DEF SettlesWith
  <1>2. call = "none" /\ call' = c /\ step' = 1 /\ held' = {} /\ owned' = owned /\ lost' = lost
    BY DEF Begin, ResourceInv
  <1>3. 1 \in 1..(Len(s) + 1) /\ HeldIn(c)[1] = {}
    BY <1>1 DEF SettlesWith
  <1>4. ASSUME NEW r \in owned, 1 <= Len(s), HandsOver(s, r) PROVE FALSE
    <2>1. Len(s) \in 1..Len(s)
      BY <1>1, <1>4
    <2>2. r \in Named(c, "give")
      BY <1>4, <2>1 DEF HandsOver, Named
    <2> QED BY <1>4, <2>2 DEF Begin
  <1> HIDE DEF s
  <1> QED BY <1>2, <1>3, <1>4 DEF ResourceInv, s

LEMMA ProceedKeeps ==
    ASSUME ResourceInv, Proceed
    PROVE  ResourceInv'
  <1> DEFINE s == Calls[call]
  <1>1. call # "none" /\ step <= Len(s) /\ call' = call /\ step' = step + 1 /\ lost' = lost
    BY DEF Proceed
  <1>2. /\ step \in 1..Len(s) /\ Len(s) \in Nat
        /\ HeldIn(call)[step + 1] = After(held, This)
        /\ Disciplined(s, step, held, Losses(call))
    BY <1>1, ThisStep
  <1>3. held' = After(held, This)
    BY DEF Proceed, After
  <1>4. step' \in 1..(Len(s) + 1)
    BY <1>1, <1>2
  <1>5. /\ This = s[step]
        /\ owned' = CASE This.do = "take" -> owned \ {This.what}
                      [] This.do = "give" -> owned \cup {This.what}
                      [] OTHER -> owned
    BY DEF This, Proceed
  <1>6. owned' \subseteq Handles
    BY <1>2, <1>5 DEF ResourceInv, Disciplined
  <1>7. held' \cap owned' = {}
    <2>1. held \cap owned = {}
      BY <1>1 DEF ResourceInv
    <2>2. CASE This.do \in {"get", "try"}
      <3>1. This.what \notin owned
        BY <1>1, <1>2, <1>5, <2>2 DEF Disciplined, ResourceInv
      <3> QED BY <1>3, <1>5, <2>1, <2>2, <3>1 DEF After
    <2>3. CASE This.do \notin {"get", "try"}
      BY <1>3, <1>5, <2>1, <2>3 DEF After
    <2> QED BY <2>2, <2>3
  <1>8. ASSUME NEW r \in owned', step' <= Len(s) PROVE ~HandsOver(s, r)
    <2>1. This.do # "give"
      BY <1>1, <1>2, <1>5, <1>8 DEF Disciplined
    <2>2. r \in owned
      BY <1>5, <1>8, <2>1
    <2> QED BY <1>1, <2>2 DEF ResourceInv
  <1> HIDE DEF s
  <1> QED BY <1>1, <1>2, <1>3, <1>4, <1>6, <1>7, <1>8 DEF ResourceInv, s

LEMMA FailKeeps ==
    ASSUME ResourceInv, Fail
    PROVE  ResourceInv'
  <1>1. /\ call # "none" /\ step <= Len(Calls[call]) /\ This.do \in {"try", "test"}
        /\ call' = "none" /\ held' = {} /\ owned' = owned \cup This.instead
        /\ lost' = lost \cup {<<call, r>> : r \in held \ This.undo}
    BY DEF Fail, Return
  <1>2. held \ This.undo \subseteq Losses(call) /\ This.instead \subseteq Handles
    BY <1>1, ThisStep DEF Disciplined, This
  <1>3. lost' \subseteq KnownLosses
    BY <1>1, <1>2 DEF Losses, KnownLosses, ResourceInv
  <1> QED BY <1>1, <1>2, <1>3 DEF ResourceInv

LEMMA FinishKeeps ==
    ASSUME ResourceInv, Finish
    PROVE  ResourceInv'
  <1>1. /\ call # "none" /\ step > Len(Calls[call]) /\ call' = "none" /\ held' = {}
        /\ owned' = owned /\ lost' = lost \cup {<<call, r>> : r \in held}
    BY DEF Finish, Return
  <1>2. SettlesWith(Calls[call], Losses(call), HeldIn(call))
    BY <1>1, CallInProgress DEF ResourceInv
  <1>3. step = Len(Calls[call]) + 1
    BY <1>1, <1>2 DEF ResourceInv, SettlesWith
  <1>4. held = {}
    BY <1>1, <1>2, <1>3 DEF ResourceInv, SettlesWith
  <1> QED BY <1>1, <1>4 DEF ResourceInv

LEMMA ResourceInvInductive == ResourceInv /\ [CallNext]_call_vars => ResourceInv'
  <1>1. ASSUME ResourceInv, UNCHANGED call_vars PROVE ResourceInv'
    BY <1>1 DEF call_vars, ResourceInv
  <1> QED BY <1>1, BeginKeeps, ProceedKeeps, FailKeeps, FinishKeeps DEF CallNext

LEMMA ResourceInvSettled == ResourceInv => ResourcesSettled
  <1> SUFFICES ASSUME ResourceInv PROVE ResourcesSettled
    OBVIOUS
  <1>1. held \cap owned = {}
    BY DEF ResourceInv
  <1>2. ASSUME call # "none", step <= Len(Calls[call])
        PROVE  /\ This.do \in {"put", "give"} => This.what \in held
               /\ This.do \in {"get", "try"} => This.what \notin held \cup owned
               /\ This.undo \subseteq held
    <2>1. Disciplined(Calls[call], step, held, Losses(call))
      BY <1>2, ThisStep
    <2> QED BY <1>2, <2>1 DEF Disciplined, ResourceInv, This
  <1> QED BY <1>1, <1>2 DEF ResourceInv, ResourcesSettled

------------------------------------------------------------------------------
(* The parts in the whole. *)

\* A step of the library is a step of each part, or leaves the part alone.
LEMMA StepOfTheParts ==
    [LibNext]_lib_vars
       => /\ [SbNext]_sb_vars /\ [HeapNext]_heap_vars /\ [CallNext]_call_vars
          /\ [DirNext]_dir_vars /\ [MapNext]_map_vars
  BY DEF LibNext, CallFunction, FunctionReturns, lib_vars, parts

\* What the library does to its parts is what they are specified to do: the results
\* about a part are results about the library.
THEOREM LibraryParts ==
    LibSpec => /\ SbSpec /\ HeapSpec
               /\ CallInit /\ [][CallNext]_call_vars
               /\ DirInit /\ [][DirNext]_dir_vars
               /\ MapInit /\ [][MapNext]_map_vars
  <1>1. LibInit => SbInit /\ HeapInit /\ CallInit /\ DirInit /\ MapInit
    BY DEF LibInit
  <1> QED BY <1>1, StepOfTheParts, PTL DEF LibSpec, SbSpec, HeapSpec

\* bux_list_dir: with files coming and going between and during its two walks, and calls
\* failing in both, for trees of any size, the array is too small by no more than the
\* files created or missed by the first walk, and a list that nothing disturbs is exact.
THEOREM ListingIsExact == LibSpec => []ListingFits
  <1> QED BY LibraryParts, ListingInvInit, ListingInvInductive, ListingInvFits, PTL

\* Files, pipes, sockets, TLS, crypto and lock objects: in whatever order callers make
\* the calls of the runtime, and whichever step of one fails, nothing is released
\* that is not held, nothing acquired over something held, and every way out has
\* released or handed over everything, but for the buffers of the two receives.
THEOREM CallsSettle == LibSpec => []ResourcesSettled
  <1>1. CallInit => ResourceInv
    BY DEF CallInit, ResourceInv
  <1> QED BY <1>1, LibraryParts, ResourceInvInductive, ResourceInvSettled, PTL

ArgumentsOfACall == args \in Arguments \cup {NoCall}

LEMMA OperandsAreInts ==
    ASSUME ArgumentsOfACall, args.kind = "arithmetic"
    PROVE  args.a \in Ints /\ args.b \in Ints
  <1>1. args # NoCall
    BY DEF NoCall
  <1>2. args \in [kind : {"arithmetic"}, a : Ints, b : Ints]
    BY <1>1 DEF ArgumentsOfACall, Arguments
  <1> QED BY <1>2

\* Whenever the program computes with integers of whatever width, the portable tests
\* panic just when the result does not fit, and overflow nowhere themselves.
THEOREM ArithmeticStaysSound == LibSpec => []ArithmeticSound
  <1>1. LibInit => ArgumentsOfACall
    BY DEF LibInit, ArgumentsOfACall
  <1>2. ArgumentsOfACall /\ [LibNext]_lib_vars => ArgumentsOfACall'
    BY DEF LibNext, CallFunction, FunctionReturns, lib_vars, ArgumentsOfACall
  <1>3. ArgumentsOfACall => ArithmeticSound
    BY OperandsAreInts, ArithmeticIsExact DEF ArithmeticSound
  <1> QED BY <1>1, <1>2, <1>3, PTL DEF LibSpec

------------------------------------------------------------------------------
(* The hash map. *)

\* A number is a multiple of c and a rest, and the rest is its only one.
LEMMA RestOf ==
    ASSUME NEW a \in Nat, NEW c \in Nat \ {0}
    PROVE  a % c \in 0..(c - 1) /\ \E q \in Int : a % c = a - c * q
  <1>1. a % c \in 0..(c - 1)
    OBVIOUS
  <1>2. a \div c \in Int /\ a % c = a - c * (a \div c)
    OBVIOUS
  <1> QED BY <1>1, <1>2

LEMMA OnlyRest ==
    ASSUME NEW a \in Nat, NEW c \in Nat \ {0}, NEW q \in Int, NEW r \in 0..(c - 1), a - c * q = r
    PROVE  a % c = r
  <1>1. PICK p \in Int : a % c = a - c * p /\ a % c \in 0..(c - 1)
    BY RestOf
  <1>2. p = q
    <2>1. CASE p > q
      <3>1. PICK d \in Nat : p = q + 1 + d
        BY <2>1
      <3>2. c * p = c * q + c + c * d /\ c * d \in Nat /\ c * q \in Int
        BY <3>1
      <3> QED BY <1>1, <3>2
    <2>2. CASE p < q
      <3>1. PICK d \in Nat : q = p + 1 + d
        BY <2>2
      <3>2. c * q = c * p + c + c * d /\ c * d \in Nat /\ c * p \in Int
        BY <3>1
      <3> QED BY <1>1, <3>2
    <2> QED BY <2>1, <2>2
  <1> QED BY <1>1, <1>2

\* From any slot on, a walk around the table comes to every slot.
LEMMA WalkReaches ==
    ASSUME NEW h \in Nat, NEW c \in Nat \ {0}, NEW i \in 0..(c - 1)
    PROVE  \E n \in 0..(c - 1) : (h + n) % c = i
  <1>1. PICK q \in Int : h % c = h - c * q /\ h % c \in 0..(c - 1)
    BY RestOf
  <1>2. PICK m \in Int, r \in 0..(c - 1) : m = c * q /\ r = h - m
    BY <1>1
  <1>3. CASE r <= i
    <2>1. i - r \in 0..(c - 1) /\ (h + (i - r)) - c * q = i /\ h + (i - r) \in Nat
      BY <1>2, <1>3
    <2>2. (h + (i - r)) % c = i
      BY <2>1, OnlyRest
    <2> QED BY <2>1, <2>2
  <1>4. CASE r > i
    <2>1. i - r + c \in 0..(c - 1) /\ (h + (i - r + c)) - (c * q + c) = i /\ h + (i - r + c) \in Nat
      BY <1>2, <1>4
    <2>2. q + 1 \in Int /\ c * (q + 1) = c * q + c
      OBVIOUS
    <2>3. (h + (i - r + c)) - c * (q + 1) = i
      BY <2>1, <2>2
    <2>4. (h + (i - r + c)) % c = i
      BY <2>1, <2>2, <2>3, OnlyRest
    <2> QED BY <2>1, <2>4
  <1> QED BY <1>2, <1>3, <1>4

------------------------------------------------------------------------------
(* What a table is.                                                          *)

Pairs == MapKeys \X MapValues

Probe(c, k, n) == (hash[k] + n) % c

\* The pairs that are in the table.
Entries(t) == {e \in Pairs : \E i \in DOMAIN t.slots : t.slots[i] = e}

\* Each key is in one slot at most, and the slots from its hash to there are occupied:
\* a search for the key does not end before.  There is a free slot.
IsTable(t, c) ==
    /\ c \in Nat
    /\ t.slots \in [0..(c - 1) -> {Free} \cup Pairs]
    /\ \A i, j \in 0..(c - 1) :
          t.slots[i] # Free /\ t.slots[j] # Free /\ t.slots[i][1] = t.slots[j][1] => i = j
    /\ \A i \in 0..(c - 1) :
          t.slots[i] # Free =>
             \E n \in 0..(c - 1) :
                /\ i = Probe(c, t.slots[i][1], n)
                /\ \A m \in 0..(n - 1) : t.slots[Probe(c, t.slots[i][1], m)] # Free
    /\ t.len = Cardinality(Entries(t))
    /\ c = 0 \/ t.len < c

LEMMA FreeIsNoPair == Free \notin Pairs
  BY DEF Free, Pairs

LEMMA CapOfTable ==
    ASSUME NEW t, NEW c, IsTable(t, c)
    PROVE  Cap(t) = c /\ c \in Nat /\ DOMAIN t.slots = 0..(c - 1)
  <1>1. c \in Nat /\ DOMAIN t.slots = 0..(c - 1)
    BY DEF IsTable
  <1>2. Cardinality(0..(c - 1)) = IF 0 > c - 1 THEN 0 ELSE c - 1 - 0 + 1
    BY <1>1, FS_Interval
  <1> QED BY <1>1, <1>2 DEF Cap

LEMMA EntriesFinite ==
    ASSUME NEW t, NEW c, IsTable(t, c)
    PROVE  IsFiniteSet(Entries(t)) /\ t.len \in Nat
  <1> DEFINE I == {i \in 0..(c - 1) : t.slots[i] # Free}
             f == [i \in I |-> t.slots[i]]
  <1>1. c \in Nat /\ IsFiniteSet(0..(c - 1))
    BY FS_Interval DEF IsTable
  <1>2. IsFiniteSet(I)
    BY <1>1, FS_Subset
  <1>3. f \in Surjection(I, Entries(t))
    BY FreeIsNoPair DEF Surjection, IsTable, Entries
  <1>4. IsFiniteSet(Entries(t))
    BY <1>2, <1>3, FS_Surjection DEF ExistsSurjection
  <1> QED BY <1>4, FS_CardinalityType DEF IsTable

LEMMA FreeSlotExists ==
    ASSUME NEW t, NEW c, IsTable(t, c), c # 0
    PROVE  \E i \in 0..(c - 1) : t.slots[i] = Free
  <1> SUFFICES ASSUME \A i \in 0..(c - 1) : t.slots[i] # Free PROVE FALSE
    OBVIOUS
  <1> DEFINE f == [i \in 0..(c - 1) |-> t.slots[i]]
  <1>1. f \in Injection(0..(c - 1), Entries(t))
    <2>1. f \in [0..(c - 1) -> Entries(t)]
      BY DEF IsTable, Entries
    <2>2. \A i, j \in 0..(c - 1) : t.slots[i] = t.slots[j] => i = j
      BY DEF IsTable
    <2> QED BY <2>1, <2>2 DEF Injection, IsInjective
  <1>2. Cardinality(0..(c - 1)) <= Cardinality(Entries(t))
    BY <1>1, EntriesFinite, FS_Injection
  <1>3. Cardinality(0..(c - 1)) = c
    BY CapOfTable DEF Cap
  <1>4. t.len = Cardinality(Entries(t)) /\ t.len < c /\ t.len \in Nat /\ c \in Nat
    BY EntriesFinite DEF IsTable
  <1> QED BY <1>2, <1>3, <1>4

------------------------------------------------------------------------------
(* Searching.                                                                *)

\* A search ends at the first slot on its way that is free or has the key.
LEMMA SearchEnds ==
    ASSUME hash \in [MapKeys -> Nat], NEW t, NEW c, IsTable(t, c), c # 0, NEW k \in MapKeys
    PROVE  \E n \in 0..(c - 1) :
              /\ SlotOf(t, k) = Probe(c, k, n)
              /\ EndsAt(t, k, n)
              /\ \A i \in 0..(n - 1) : ~EndsAt(t, k, i)
  <1> DEFINE S == {n \in 0..(c - 1) : EndsAt(t, k, n)}
             First(n) == EndsAt(t, k, n) /\ \A i \in 0..(n - 1) : ~EndsAt(t, k, i)
  <1>1. Cap(t) = c /\ c \in Nat \ {0} /\ hash[k] \in Nat
    BY CapOfTable
  <1>2. PICK free \in 0..(c - 1) : t.slots[free] = Free
    BY FreeSlotExists
  <1>3. PICK m \in 0..(c - 1) : (hash[k] + m) % c = free
    BY <1>1, WalkReaches
  <1>4. m \in S
    BY <1>1, <1>2, <1>3 DEF EndsAt
  <1>5. PICK n \in S : \A i \in S : n <= i
    <2>1. S \in SUBSET Nat /\ S # {}
      BY <1>4
    <2> HIDE DEF S
    <2> QED BY <2>1, LeastNumber
  <1>6. First(n)
    BY <1>1, <1>5
  <1>7. ASSUME NEW i \in 0..(c - 1), First(i) PROVE i = n
    <2>1. n <= i
      BY <1>5, <1>7
    <2>2. ~(n \in 0..(i - 1))
      BY <1>6, <1>7
    <2> QED BY <1>1, <2>1, <2>2
  <1>8. n = CHOOSE i \in 0..(c - 1) : First(i)
    <2> HIDE DEF First
    <2> QED BY <1>5, <1>6, <1>7
  <1>9. SlotOf(t, k) = Probe(c, k, n)
    BY <1>1, <1>8 DEF SlotOf, Probe
  <1> QED BY <1>5, <1>6, <1>9

\* Where it ends the key is, if it is anywhere.
LEMMA SlotFacts ==
    ASSUME hash \in [MapKeys -> Nat], NEW t, NEW c, IsTable(t, c), c # 0, NEW k \in MapKeys
    PROVE  /\ SlotOf(t, k) \in 0..(c - 1)
           /\ t.slots[SlotOf(t, k)] = Free \/ t.slots[SlotOf(t, k)][1] = k
           /\ \A i \in 0..(c - 1) : t.slots[i] # Free /\ t.slots[i][1] = k => i = SlotOf(t, k)
           /\ \E n \in 0..(c - 1) :
                 /\ SlotOf(t, k) = Probe(c, k, n)
                 /\ \A m \in 0..(n - 1) : t.slots[Probe(c, k, m)] # Free
  <1> DEFINE at == SlotOf(t, k)
  <1>1. Cap(t) = c /\ c \in Nat \ {0} /\ hash[k] \in Nat
    BY CapOfTable
  <1>2. PICK n \in 0..(c - 1) :
           /\ at = Probe(c, k, n)
           /\ EndsAt(t, k, n)
           /\ \A i \in 0..(n - 1) : ~EndsAt(t, k, i)
    BY SearchEnds
  <1> HIDE DEF at
  <1>3. at \in 0..(c - 1)
    BY <1>1, <1>2, RestOf DEF Probe
  <1>4. t.slots[at] = Free \/ t.slots[at][1] = k
    BY <1>1, <1>2 DEF EndsAt, Probe
  <1>5. \A m \in 0..(n - 1) : t.slots[Probe(c, k, m)] # Free
    BY <1>1, <1>2 DEF EndsAt, Probe
  <1>6. ASSUME NEW i \in 0..(c - 1), t.slots[i] # Free, t.slots[i][1] = k
        PROVE  i = at
    <2>1. PICK j \in 0..(c - 1) : /\ i = Probe(c, k, j)
                                  /\ \A m \in 0..(j - 1) : t.slots[Probe(c, k, m)] # Free
      BY <1>6 DEF IsTable
    <2>2. EndsAt(t, k, j)
      BY <1>1, <1>6, <2>1 DEF EndsAt, Probe
    <2>3. n <= j
      BY <1>1, <1>2, <2>2
    <2>4. t.slots[at] # Free
      <3>1. CASE n = j
        BY <1>2, <1>6, <2>1, <3>1
      <3>2. CASE n # j
        <4>1. n \in 0..(j - 1)
          BY <1>1, <2>3, <3>2
        <4> QED BY <1>2, <2>1, <4>1
      <3> QED BY <3>1, <3>2
    <2> QED BY <1>3, <1>4, <1>6, <2>4 DEF IsTable
  <1> QED BY <1>2, <1>3, <1>4, <1>5, <1>6 DEF at

LEMMA PairOf ==
    ASSUME NEW e \in Pairs
    PROVE  e[1] \in MapKeys /\ e[2] \in MapValues /\ e = <<e[1], e[2]>> /\ e # Free
  BY FreeIsNoPair DEF Pairs

\* What a lookup returns is what the table has.
LEMMA LookupIs ==
    ASSUME hash \in [MapKeys -> Nat], NEW t, NEW c, IsTable(t, c), NEW k \in MapKeys
    PROVE  /\ \A e \in Entries(t) : e[1] = k => Lookup(t, k) = e[2]
           /\ (\A e \in Entries(t) : e[1] # k) => Lookup(t, k) = Absent
  <1> DEFINE at == SlotOf(t, k)
  <1>1. Cap(t) = c /\ c \in Nat /\ DOMAIN t.slots = 0..(c - 1)
    BY CapOfTable
  <1>2. CASE c = 0
    BY <1>1, <1>2 DEF Lookup, Entries
  <1>3. CASE c # 0
    <2>1. Lookup(t, k) = IF t.slots[at] = Free THEN Absent ELSE t.slots[at][2]
      <3>1. \E n \in 0..(c - 1) : EndsAt(t, k, n)
        BY <1>3, SearchEnds
      <3> QED BY <1>1, <1>3, <3>1 DEF Lookup
    <2>2. ASSUME NEW e \in Entries(t), e[1] = k PROVE Lookup(t, k) = e[2]
      <3>1. PICK i \in 0..(c - 1) : t.slots[i] = e
        BY <1>1 DEF Entries
      <3>2. e # Free
        BY PairOf DEF Entries
      <3>3. i = at
        BY <1>3, <2>2, <3>1, <3>2, SlotFacts
      <3> QED BY <2>1, <3>1, <3>2, <3>3
    <2>3. ASSUME \A e \in Entries(t) : e[1] # k PROVE Lookup(t, k) = Absent
      <3>1. at \in 0..(c - 1) /\ (t.slots[at] = Free \/ t.slots[at][1] = k)
        BY <1>3, SlotFacts
      <3>2. t.slots[at] = Free \/ t.slots[at] \in Entries(t)
        BY <1>1, <3>1 DEF Entries, IsTable
      <3> QED BY <2>1, <2>3, <3>1, <3>2
    <2> QED BY <2>2, <2>3
  <1> QED BY <1>2, <1>3

------------------------------------------------------------------------------
(* Setting a key, and copying a table.                                       *)

\* The pairs once k has been set to v.
WithPair(E, k, v) == {e \in E : e[1] # k} \cup {<<k, v>>}

LEMMA InsertKeepsTable ==
    ASSUME hash \in [MapKeys -> Nat], NEW t, NEW c, IsTable(t, c), c # 0,
           NEW k \in MapKeys, NEW v \in MapValues,
           Cardinality(WithPair(Entries(t), k, v)) < c
    PROVE  /\ IsTable(SetInsertOnly(t, k, v), c)
           /\ Entries(SetInsertOnly(t, k, v)) = WithPair(Entries(t), k, v)
  <1> DEFINE at == SlotOf(t, k)
             new == SetInsertOnly(t, k, v)
             pair == <<k, v>>
             E == Entries(t)
  <1>1. c \in Nat /\ DOMAIN t.slots = 0..(c - 1) /\ t.slots \in [0..(c - 1) -> {Free} \cup Pairs]
    BY CapOfTable DEF IsTable
  <1>2. /\ at \in 0..(c - 1)
        /\ t.slots[at] = Free \/ t.slots[at][1] = k
        /\ \A i \in 0..(c - 1) : t.slots[i] # Free /\ t.slots[i][1] = k => i = at
    BY SlotFacts
  <1>3. pair \in Pairs /\ pair[1] = k /\ pair # Free
    BY PairOf DEF Pairs
  <1>4. /\ new.slots = [t.slots EXCEPT ![at] = pair]
        /\ new.len = IF t.slots[at] = Free THEN t.len + 1 ELSE t.len
    BY DEF SetInsertOnly
  <1> HIDE DEF new, pair, at
  <1>5. /\ new.slots \in [0..(c - 1) -> {Free} \cup Pairs] /\ new.slots[at] = pair
        /\ DOMAIN new.slots = 0..(c - 1)
        /\ \A i \in 0..(c - 1) : i # at => new.slots[i] = t.slots[i]
    BY <1>1, <1>2, <1>3, <1>4
  <1>6. Entries(new) = WithPair(E, k, v)
    <2>1. ASSUME NEW e \in Entries(new) PROVE e \in WithPair(E, k, v)
      <3>1. PICK i \in 0..(c - 1) : new.slots[i] = e /\ e \in Pairs
        BY <1>5 DEF Entries
      <3>2. CASE i = at
        BY <1>5, <3>1, <3>2 DEF WithPair, pair
      <3>3. CASE i # at
        <4>1. t.slots[i] = e /\ e # Free /\ e \in E
          BY <1>1, <1>5, <3>1, <3>3, PairOf DEF Entries
        <4>2. e[1] # k
          BY <1>2, <3>3, <4>1
        <4> QED BY <4>1, <4>2 DEF WithPair
      <3> QED BY <3>2, <3>3
    <2>2. ASSUME NEW e \in E, e[1] # k PROVE e \in Entries(new)
      <3>1. PICK i \in 0..(c - 1) : t.slots[i] = e /\ e \in Pairs
        BY <1>1 DEF Entries
      <3>2. i # at
        BY <1>2, <2>2, <3>1, PairOf
      <3> QED BY <1>5, <3>1, <3>2 DEF Entries
    <2>3. pair \in Entries(new)
      BY <1>2, <1>3, <1>5 DEF Entries
    <2> QED BY <2>1, <2>2, <2>3 DEF WithPair, pair
  <1>7. new.len = Cardinality(Entries(new))
    <2>1. IsFiniteSet(E) /\ t.len = Cardinality(E) /\ t.len \in Nat
      BY EntriesFinite DEF IsTable
    <2>2. CASE t.slots[at] = Free
      <3>1. ASSUME NEW e \in E PROVE e[1] # k
        <4>1. PICK i \in 0..(c - 1) : t.slots[i] = e /\ e # Free
          BY <1>1, PairOf DEF Entries
        <4> QED BY <1>2, <2>2, <4>1
      <3>2. WithPair(E, k, v) = E \cup {pair} /\ pair \notin E
        BY <1>3, <3>1 DEF WithPair, pair
      <3>3. Cardinality(E \cup {pair}) = Cardinality(E) + 1
        BY <2>1, <3>2, FS_AddElement
      <3> QED BY <1>4, <1>6, <2>1, <2>2, <3>2, <3>3
    <2>3. CASE t.slots[at] # Free
      <3> DEFINE old == t.slots[at]
                 R == E \ {old}
      <3>1. old \in E /\ old[1] = k
        BY <1>1, <1>2, <2>3 DEF Entries
      <3>2. ASSUME NEW e \in E, e[1] = k PROVE e = old
        <4>1. PICK i \in 0..(c - 1) : t.slots[i] = e /\ e # Free
          BY <1>1, PairOf DEF Entries
        <4> QED BY <1>2, <3>2, <4>1
      <3>3. WithPair(E, k, v) = R \cup {pair} /\ pair \notin R
        BY <1>3, <3>1, <3>2 DEF WithPair, pair
      <3>4. IsFiniteSet(R) /\ Cardinality(R) = Cardinality(E) - 1
        BY <2>1, <3>1, FS_RemoveElement
      <3>5. Cardinality(R \cup {pair}) = Cardinality(R) + 1
        BY <3>3, <3>4, FS_AddElement
      <3> QED BY <1>4, <1>6, <2>1, <2>3, <3>3, <3>4, <3>5
    <2> QED BY <2>2, <2>3
  <1>8. \A i, j \in 0..(c - 1) :
           new.slots[i] # Free /\ new.slots[j] # Free /\ new.slots[i][1] = new.slots[j][1] => i = j
    <2> SUFFICES ASSUME NEW i \in 0..(c - 1), NEW j \in 0..(c - 1),
                        new.slots[i] # Free, new.slots[j] # Free, new.slots[i][1] = new.slots[j][1]
                 PROVE  i = j
      OBVIOUS
    <2>1. CASE i = at /\ j # at
      <3>1. t.slots[j] # Free /\ t.slots[j][1] = k
        BY <1>3, <1>5, <2>1
      <3> QED BY <1>2, <2>1, <3>1
    <2>2. CASE j = at /\ i # at
      <3>1. t.slots[i] # Free /\ t.slots[i][1] = k
        BY <1>3, <1>5, <2>2
      <3> QED BY <1>2, <2>2, <3>1
    <2>3. CASE i # at /\ j # at
      BY <1>5, <2>3 DEF IsTable
    <2> QED BY <2>1, <2>2, <2>3
  <1>9. ASSUME NEW key \in MapKeys, NEW m \in Nat, t.slots[Probe(c, key, m)] # Free
        PROVE  new.slots[Probe(c, key, m)] # Free
    <2>1. Probe(c, key, m) \in 0..(c - 1)
      <3>1. hash[key] + m \in Nat
        OBVIOUS
      <3> QED BY <1>1, <3>1, RestOf DEF Probe
    <2> QED BY <1>3, <1>5, <1>9, <2>1
  <1>10. ASSUME NEW i \in 0..(c - 1), new.slots[i] # Free
         PROVE  \E n \in 0..(c - 1) :
                   /\ i = Probe(c, new.slots[i][1], n)
                   /\ \A m \in 0..(n - 1) : new.slots[Probe(c, new.slots[i][1], m)] # Free
    <2>1. CASE i = at
      <3>1. PICK n \in 0..(c - 1) : /\ at = Probe(c, k, n)
                                    /\ \A m \in 0..(n - 1) : t.slots[Probe(c, k, m)] # Free
        BY SlotFacts DEF at
      <3>2. new.slots[i][1] = k
        BY <1>3, <1>5, <2>1
      <3> QED BY <1>9, <2>1, <3>1, <3>2
    <2>2. CASE i # at
      <3>1. new.slots[i] = t.slots[i] /\ t.slots[i][1] \in MapKeys
        BY <1>1, <1>5, <1>10, <2>2, PairOf
      <3>2. PICK n \in 0..(c - 1) :
               /\ i = Probe(c, t.slots[i][1], n)
               /\ \A m \in 0..(n - 1) : t.slots[Probe(c, t.slots[i][1], m)] # Free
        BY <1>10, <3>1 DEF IsTable
      <3> QED BY <1>9, <3>1, <3>2
    <2> QED BY <2>1, <2>2
  <1>11. IsTable(new, c)
    BY <1>1, <1>5, <1>6, <1>7, <1>8, <1>10 DEF IsTable
  <1> QED BY <1>6, <1>11 DEF new

\* What has been copied of t when the loop has passed n slots.
Survivors(t, n, Without) ==
    {e \in Pairs : e[1] \notin Without /\ \E i \in 0..(n - 1) : t.slots[i] = e}

CopyStep(t, n, Without, new) ==
    LET e == t.slots[n - 1]
    IN  IF e = Free \/ e[1] \in Without THEN new ELSE SetInsertOnly(new, e[1], e[2])

IsCopy(t, n, Without, cap, new) == IsTable(new, cap) /\ Entries(new) = Survivors(t, n, Without)

LEMMA FreshIsTable ==
    ASSUME NEW cap \in Nat
    PROVE  IsTable(Fresh(cap), cap) /\ Entries(Fresh(cap)) = {}
  <1>1. /\ Fresh(cap).slots = [i \in 0..(cap - 1) |-> Free] /\ Fresh(cap).len = 0
    BY DEF Fresh
  <1>2. Entries(Fresh(cap)) = {}
    BY <1>1, FreeIsNoPair DEF Entries
  <1>3. Cardinality(Entries(Fresh(cap))) = 0
    BY <1>2, FS_EmptySet
  <1> QED BY <1>1, <1>2, <1>3 DEF IsTable

LEMMA CopyStepKeeps ==
    ASSUME hash \in [MapKeys -> Nat], NEW t, NEW c, IsTable(t, c), NEW Without,
           NEW cap \in Nat, Cardinality(Survivors(t, c, Without)) < cap,
           NEW n \in 1..c, NEW new, IsCopy(t, n - 1, Without, cap, new)
    PROVE  IsCopy(t, n, Without, cap, CopyStep(t, n, Without, new))
  <1> DEFINE e == t.slots[n - 1]
             K == Survivors(t, n - 1, Without)
             All == Survivors(t, c, Without)
  <1>1. /\ c \in Nat /\ DOMAIN t.slots = 0..(c - 1)
        /\ n - 1 \in 0..(c - 1) /\ e \in {Free} \cup Pairs
        /\ 0..(n - 1) = (0..((n - 1) - 1)) \cup {n - 1}
    BY CapOfTable DEF IsTable
  <1>2. CASE e = Free \/ e[1] \in Without
    <2>1. Survivors(t, n, Without) = K
      BY <1>1, <1>2, FreeIsNoPair DEF Survivors
    <2> QED BY <1>2, <2>1 DEF IsCopy, CopyStep
  <1>3. CASE ~(e = Free \/ e[1] \in Without)
    <2>1. e \in Pairs /\ e = <<e[1], e[2]>> /\ e[1] \in MapKeys /\ e[2] \in MapValues
      BY <1>1, <1>3, PairOf
    <2>2. ASSUME NEW p \in K PROVE p[1] # e[1]
      <3>1. PICK i \in 0..((n - 1) - 1) : t.slots[i] = p /\ p # Free
        BY PairOf DEF Survivors
      <3>2. i \in 0..(c - 1) /\ i # n - 1
        BY <1>1
      <3> QED BY <1>1, <1>3, <3>1, <3>2 DEF IsTable
    <2>3. WithPair(K, e[1], e[2]) = Survivors(t, n, Without)
      <3>1. Survivors(t, n, Without) = K \cup {e}
        BY <1>1, <1>3, <2>1 DEF Survivors
      <3> QED BY <2>1, <2>2, <3>1 DEF WithPair
    <2>4. Cardinality(Survivors(t, n, Without)) < cap
      <3>1. All \in SUBSET Entries(t) /\ IsFiniteSet(Entries(t))
        BY <1>1, EntriesFinite DEF Survivors, Entries
      <3>2. IsFiniteSet(All)
        BY <3>1, FS_Subset
      <3>3. Survivors(t, n, Without) \in SUBSET All
        BY <1>1 DEF Survivors
      <3>4. Cardinality(Survivors(t, n, Without)) <= Cardinality(All) /\ IsFiniteSet(Survivors(t, n, Without))
        BY <3>2, <3>3, FS_Subset
      <3>5. Cardinality(Survivors(t, n, Without)) \in Nat /\ Cardinality(All) \in Nat
        BY <3>2, <3>4, FS_CardinalityType
      <3> QED BY <3>4, <3>5
    <2>5. cap # 0
      <3>1. Cardinality(All) \in Nat
        <4>1. All \in SUBSET Entries(t) /\ IsFiniteSet(Entries(t))
          BY <1>1, EntriesFinite DEF Survivors, Entries
        <4> QED BY <4>1, FS_Subset, FS_CardinalityType
      <3> QED BY <3>1
    <2>6. /\ IsTable(SetInsertOnly(new, e[1], e[2]), cap)
          /\ Entries(SetInsertOnly(new, e[1], e[2])) = Survivors(t, n, Without)
      BY <2>1, <2>3, <2>4, <2>5, InsertKeepsTable DEF IsCopy
    <2> QED BY <1>3, <2>6 DEF IsCopy, CopyStep
  <1> QED BY <1>2, <1>3

LEMMA CopiedIs ==
    ASSUME hash \in [MapKeys -> Nat], NEW t, NEW c, IsTable(t, c), NEW Without,
           NEW cap \in Nat, Cardinality(Survivors(t, c, Without)) < cap
    PROVE  IsCopy(t, c, Without, cap, Copied(t, cap, Without))
  <1> DEFINE S == [slots : [0..(cap - 1) -> {Free} \cup Pairs], len : Nat]
             F == [n \in 1..c |-> [new \in S |->
                     IF CopyStep(t, n, Without, new) \in S THEN CopyStep(t, n, Without, new) ELSE new]]
             Eqn(g) == g = [n \in 0..Cap(t) |->
                              IF n = 0 THEN Fresh(cap)
                              ELSE LET e == t.slots[n - 1]
                                   IN  IF e = Free \/ e[1] \in Without THEN g[n - 1]
                                       ELSE SetInsertOnly(g[n - 1], e[1], e[2])]
  <1>1. c \in Nat /\ Cap(t) = c
    BY CapOfTable
  <1>2. Fresh(cap) \in S
    BY DEF Fresh
  <1>3. PICK g \in [0..c -> S] : g[0] = Fresh(cap) /\ \A n \in 1..c : g[n] = F[n][g[n - 1]]
    <2>1. F \in [1..c -> [S -> S]]
      OBVIOUS
    <2> HIDE DEF F, S
    <2>2. StepsOn(F, c, S)
      BY <2>1 DEF StepsOn
    <2>3. \E f : StepsFrom(f, F, c, S, Fresh(cap))
      BY <1>1, <1>2, <2>2, RecursionExists
    <2> QED BY <2>3 DEF StepsFrom
  <1>4. ASSUME NEW n \in 1..c, NEW new \in S, IsCopy(t, n - 1, Without, cap, new)
        PROVE  CopyStep(t, n, Without, new) \in S
    <2> DEFINE x == CopyStep(t, n, Without, new)
    <2>1. IsTable(x, cap)
      BY <1>4, CopyStepKeeps DEF IsCopy
    <2>2. x.slots \in [0..(cap - 1) -> {Free} \cup Pairs] /\ x.len \in Nat
      <3> HIDE DEF x
      <3> QED BY <2>1, EntriesFinite DEF IsTable
    <2>3. x = new \/ x = [slots |-> x.slots, len |-> x.len]
      BY DEF CopyStep, SetInsertOnly
    <2> HIDE DEF x
    <2>4. x \in S
      BY <2>2, <2>3
    <2> QED BY <2>4 DEF x
  <1>5. Survivors(t, 0, Without) = {}
    BY DEF Survivors
  <1>6. IsCopy(t, 0, Without, cap, Fresh(cap))
    BY <1>5, FreshIsTable DEF IsCopy
  \* The function that RecursionExists gives has the equation of copy.
  <1> DEFINE T == {n \in Nat : n <= c => IsCopy(t, n, Without, cap, g[n])}
  <1>7. Nat \subseteq T
    <2>1. 0 \in T
      BY <1>3, <1>6
    <2>2. ASSUME NEW n \in Nat, n \in T PROVE n + 1 \in T
      <3>1. SUFFICES ASSUME n + 1 <= c PROVE IsCopy(t, n + 1, Without, cap, g[n + 1])
        OBVIOUS
      <3>2. n + 1 \in 1..c /\ (n + 1) - 1 = n /\ n \in 0..c
        BY <1>1, <3>1
      <3>3. IsCopy(t, (n + 1) - 1, Without, cap, g[n]) /\ g[n] \in S
        BY <1>1, <1>3, <2>2, <3>1, <3>2
      <3>4. g[n + 1] = CopyStep(t, n + 1, Without, g[n])
        <4>1. g[n + 1] = F[n + 1][g[n]]
          <5>1. g[n + 1] = F[n + 1][g[(n + 1) - 1]]
            BY <1>3, <3>2
          <5> QED BY <3>2, <5>1
        <4>2. CopyStep(t, n + 1, Without, g[n]) \in S
          BY <1>4, <3>2, <3>3
        <4> QED BY <3>2, <3>3, <4>1, <4>2
      <3> QED BY <3>2, <3>3, <3>4, CopyStepKeeps
    <2> HIDE DEF T
    <2> QED BY <2>1, <2>2, SetInduction
  <1>8. Eqn(g)
    <2>1. ASSUME NEW n \in 1..c PROVE g[n] = CopyStep(t, n, Without, g[n - 1])
      <3>1. n - 1 \in Nat /\ n - 1 <= c /\ n - 1 \in 0..c
        BY <1>1
      <3>2. IsCopy(t, n - 1, Without, cap, g[n - 1]) /\ g[n - 1] \in S
        BY <1>3, <1>7, <3>1
      <3>3. CopyStep(t, n, Without, g[n - 1]) \in S
        BY <1>4, <3>2
      <3> QED BY <1>3, <3>2, <3>3
    <2>2. \A n \in 0..c : n = 0 \/ n \in 1..c
      BY <1>1
    <2>3. g = [n \in 0..c |-> IF n = 0 THEN Fresh(cap) ELSE CopyStep(t, n, Without, g[n - 1])]
      <3> HIDE DEF S
      <3> QED BY <1>3, <2>1, <2>2
    <2> QED BY <1>1, <2>3 DEF CopyStep
  <1> DEFINE copy == CHOOSE h : Eqn(h)
  <1>9. Eqn(copy)
    <2> HIDE DEF Eqn
    <2> QED BY <1>8
  <1>10. Copied(t, cap, Without) = copy[c]
    BY <1>1 DEF Copied
  <1>11. copy[0] = Fresh(cap) /\ \A n \in 1..c : copy[n] = CopyStep(t, n, Without, copy[n - 1])
    <2> HIDE DEF copy
    <2> QED BY <1>1, <1>9 DEF CopyStep
  <1> HIDE DEF copy
  <1> DEFINE U == {n \in Nat : n <= c => IsCopy(t, n, Without, cap, copy[n])}
  <1>12. Nat \subseteq U
    <2>1. 0 \in U
      BY <1>6, <1>11
    <2>2. ASSUME NEW n \in Nat, n \in U PROVE n + 1 \in U
      <3>1. SUFFICES ASSUME n + 1 <= c PROVE IsCopy(t, n + 1, Without, cap, copy[n + 1])
        OBVIOUS
      <3>2. n + 1 \in 1..c /\ (n + 1) - 1 = n
        BY <1>1, <3>1
      <3>3. IsCopy(t, (n + 1) - 1, Without, cap, copy[(n + 1) - 1])
        BY <1>1, <2>2, <3>1, <3>2
      <3>4. copy[n + 1] = CopyStep(t, n + 1, Without, copy[(n + 1) - 1])
        BY <1>11, <3>2
      <3>5. IsCopy(t, n + 1, Without, cap, CopyStep(t, n + 1, Without, copy[(n + 1) - 1]))
        BY <3>2, <3>3, CopyStepKeeps
      <3> QED BY <3>4, <3>5
    <2> HIDE DEF U
    <2> QED BY <2>1, <2>2, SetInduction
  <1> QED BY <1>1, <1>10, <1>12

------------------------------------------------------------------------------
(* The refinement.                                                           *)

MapInv == hash \in [MapKeys -> Nat] /\ \E c \in Nat \ {1} : IsTable(table, c)

Content(t) == [k \in MapKeys |-> Lookup(t, k)]

LEMMA SizeIs ==
    ASSUME hash \in [MapKeys -> Nat], NEW t, NEW c, IsTable(t, c)
    PROVE  t.len = Cardinality({k \in MapKeys : Content(t)[k] # Absent})
  <1> DEFINE K == {k \in MapKeys : Content(t)[k] # Absent}
             E == Entries(t)
             f == [e \in E |-> e[1]]
  <1>1. ASSUME NEW e \in E PROVE e[1] \in K
    <2>1. e[1] \in MapKeys /\ e[2] \in MapValues
      BY PairOf DEF Entries
    <2>2. Lookup(t, e[1]) = e[2]
      BY <2>1, LookupIs
    <2> QED BY <2>1, <2>2, MapAssumption DEF Content
  <1>2. ASSUME NEW k \in K PROVE \E e \in E : e[1] = k
    BY LookupIs DEF Content
  <1>3. ASSUME NEW e \in E, NEW d \in E, e[1] = d[1] PROVE e = d
    <2>1. DOMAIN t.slots = 0..(c - 1)
      BY CapOfTable
    <2>2. PICK i \in 0..(c - 1), j \in 0..(c - 1) : t.slots[i] = e /\ t.slots[j] = d
      BY <2>1 DEF Entries
    <2>3. e # Free /\ d # Free
      BY PairOf DEF Entries
    <2>4. i = j
      BY <1>3, <2>2, <2>3 DEF IsTable
    <2> QED BY <2>2, <2>4
  <1>4. f \in Bijection(E, K)
    <2> HIDE DEF E, K
    <2>1. f \in [E -> K]
      BY <1>1
    <2>2. f \in Injection(E, K)
      BY <1>3, <2>1 DEF Injection, IsInjective
    <2>3. f \in Surjection(E, K)
      BY <1>2, <2>1 DEF Surjection
    <2> QED BY <2>2, <2>3 DEF Bijection
  <1>5. IsFiniteSet(E)
    BY EntriesFinite
  <1>6. Cardinality(K) = Cardinality(E)
    <2> HIDE DEF K, E, f
    <2>1. ExistsBijection(E, K)
      BY <1>4 DEF ExistsBijection
    <2> QED BY <1>5, <2>1, FS_Bijection
  <1> QED BY <1>6 DEF IsTable

\* A key whose pair is the same in two tables is found alike in them.
LEMMA SamePairSameAnswer ==
    ASSUME hash \in [MapKeys -> Nat], NEW t, NEW c, IsTable(t, c), NEW u, NEW d, IsTable(u, d),
           NEW k \in MapKeys,
           \A e \in Pairs : e[1] = k => (e \in Entries(t) <=> e \in Entries(u))
    PROVE  Lookup(t, k) = Lookup(u, k)
  <1>1. CASE \E e \in Entries(t) : e[1] = k
    <2>1. PICK e \in Entries(t) : e[1] = k
      BY <1>1
    <2>2. e \in Entries(u)
      BY <2>1 DEF Entries
    <2> QED BY <2>1, <2>2, LookupIs
  <1>2. CASE \A e \in Entries(t) : e[1] # k
    <2>1. \A e \in Entries(u) : e[1] # k
      BY <1>2 DEF Entries
    <2> QED BY <1>2, <2>1, LookupIs
  <1> QED BY <1>1, <1>2

\* The cardinality that MapSpec counts with is the one of this module.
LEMMA SameCount == \A S : Abstract!Cardinality(S) = Cardinality(S)
  BY DEF Abstract!Cardinality, Cardinality

\* The table of the next state under the unchanged hash function.
LEMMA NextTable ==
    ASSUME hash' = hash, hash \in [MapKeys -> Nat], NEW c \in Nat \ {1}, IsTable(table', c)
    PROVE  /\ MapInv'
           /\ [k \in MapKeys |-> Lookup(table, k)]' = Content(table')
           /\ Abstract!Counted
  <1>1. IsTable(table, c)'
    BY DEF IsTable, Probe
  <1>2. MapInv'
    BY <1>1 DEF MapInv
  <1>3. ASSUME NEW k \in MapKeys PROVE Lookup(table, k)' = Lookup(table', k)
    BY DEF Lookup, SlotOf, EndsAt
  <1>4. [k \in MapKeys |-> Lookup(table, k)]' = Content(table')
    BY <1>3 DEF Content
  <1>5. table'.len = Cardinality({k \in MapKeys : Content(table')[k] # Absent})
    BY SizeIs
  <1>6. Abstract!Counted
    <2>1. Abstract!Counted <=>
             table'.len = Abstract!Cardinality({k \in MapKeys : Content(table')[k] # Absent})
      BY <1>4 DEF Abstract!Counted
    <2> QED BY <1>5, <2>1, SameCount
  <1> QED BY <1>2, <1>4, <1>6

LEMMA EmptyTable ==
    ASSUME hash \in [MapKeys -> Nat], NEW cap \in Nat
    PROVE  IsTable(Fresh(cap), cap) /\ Content(Fresh(cap)) = [k \in MapKeys |-> Absent]
  <1>1. IsTable(Fresh(cap), cap) /\ Entries(Fresh(cap)) = {}
    BY FreshIsTable
  <1>2. \A k \in MapKeys : Lookup(Fresh(cap), k) = Absent
    BY <1>1, LookupIs
  <1> QED BY <1>1, <1>2 DEF Content

LEMMA ClearStep ==
    ASSUME MapInv, hash' = hash, NEW cap \in Nat \ {1}, table' = Fresh(cap)
    PROVE  MapInv' /\ Abstract!Clear
  <1>1. IsTable(table', cap) /\ Content(table') = [k \in MapKeys |-> Absent]
    BY EmptyTable DEF MapInv
  <1>2. /\ MapInv' /\ Abstract!Counted
        /\ [k \in MapKeys |-> Lookup(table, k)]' = Content(table')
    BY <1>1, NextTable DEF MapInv
  <1> QED BY <1>1, <1>2 DEF Abstract!Clear

LEMMA SurvivorsAre ==
    ASSUME NEW t, NEW c, IsTable(t, c), NEW Without
    PROVE  /\ Survivors(t, c, Without) = {e \in Entries(t) : e[1] \notin Without}
           /\ Cardinality(Survivors(t, c, Without)) \in Nat
           /\ Cardinality(Survivors(t, c, Without)) <= t.len
           /\ c = 0 => t.len = 0
  <1>1. Survivors(t, c, Without) = {e \in Entries(t) : e[1] \notin Without}
    BY CapOfTable DEF Survivors, Entries
  <1>2. IsFiniteSet(Entries(t)) /\ t.len = Cardinality(Entries(t))
    BY EntriesFinite DEF IsTable
  <1>3. Survivors(t, c, Without) \in SUBSET Entries(t)
    BY <1>1
  <1>4. c = 0 => Entries(t) = {}
    BY CapOfTable DEF Entries
  <1> QED BY <1>1, <1>2, <1>3, <1>4, FS_Subset, FS_CardinalityType, FS_EmptySet

LEMMA RemoveStep ==
    ASSUME MapInv, NEW k \in MapKeys, MapRemove(k)
    PROVE  MapInv' /\ Abstract!Delete(k)
  <1>1. PICK c \in Nat \ {1} : IsTable(table, c) /\ hash \in [MapKeys -> Nat]
    BY DEF MapInv
  <1>2. Cap(table) = c /\ c # 0 /\ table' = Copied(table, c, {k}) /\ hash' = hash
    BY <1>1, CapOfTable DEF MapRemove, Lookup
  <1>3. Cardinality(Survivors(table, c, {k})) < c
    <2>1. table.len \in Nat /\ c \in Nat
      BY <1>1, EntriesFinite
    <2>2. table.len < c
      BY <1>1, <1>2 DEF IsTable
    <2>3. /\ Cardinality(Survivors(table, c, {k})) \in Nat
          /\ Cardinality(Survivors(table, c, {k})) <= table.len
      BY <1>1, SurvivorsAre
    <2> QED BY <2>1, <2>2, <2>3
  <1>4. IsTable(table', c) /\ Entries(table') = {e \in Entries(table) : e[1] \notin {k}}
    <2>1. IsCopy(table, c, {k}, c, table')
      BY <1>1, <1>2, <1>3, CopiedIs
    <2>2. Survivors(table, c, {k}) = {e \in Entries(table) : e[1] \notin {k}}
      BY <1>1, SurvivorsAre
    <2> QED BY <2>1, <2>2 DEF IsCopy
  <1>5. ASSUME NEW j \in MapKeys
        PROVE  Lookup(table', j) = IF j = k THEN Absent ELSE Lookup(table, j)
    <2>1. CASE j = k
      BY <1>1, <1>4, <2>1, LookupIs
    <2>2. CASE j # k
      BY <1>1, <1>4, <2>2, SamePairSameAnswer
    <2> QED BY <2>1, <2>2
  <1>6. Content(table') = [Content(table) EXCEPT ![k] = Absent]
    BY <1>5 DEF Content
  <1>7. /\ MapInv' /\ Abstract!Counted
        /\ [j \in MapKeys |-> Lookup(table, j)]' = Content(table')
    BY <1>1, <1>2, <1>4, NextTable
  <1> QED BY <1>6, <1>7 DEF Abstract!Delete, Content

LEMMA SetStep ==
    ASSUME MapInv, NEW k \in MapKeys, NEW v \in MapValues, MapSet(k, v)
    PROVE  MapInv' /\ Abstract!Put(k, v)
  <1> DEFINE E == Entries(table)
             bigger == IF 2 * Cap(table) < 8 THEN 8 ELSE 2 * Cap(table)
             grow == 2 * table.len >= Cap(table)
             room == IF grow THEN Copied(table, bigger, {}) ELSE table
  <1>1. PICK c \in Nat \ {1} : IsTable(table, c) /\ hash \in [MapKeys -> Nat]
    BY DEF MapInv
  <1>2. /\ Cap(table) = c /\ IsFiniteSet(E) /\ table.len = Cardinality(E) /\ table.len \in Nat
        /\ table.len < c \/ (c = 0 /\ table.len = 0)
    <2>1. Cap(table) = c /\ IsFiniteSet(E) /\ table.len \in Nat
      BY <1>1, CapOfTable, EntriesFinite
    <2>2. c = 0 => table.len = 0
      BY <1>1, SurvivorsAre
    <2>3. table.len = Cardinality(E) /\ (c = 0 \/ table.len < c)
      BY <1>1 DEF IsTable
    <2> QED BY <2>1, <2>2, <2>3
  <1>3. table' = SetInsertOnly(room, k, v) /\ hash' = hash
    BY DEF MapSet
  <1>4. \E d \in Nat \ {0, 1} : IsTable(room, d) /\ Entries(room) = E /\ table.len + 1 < d
    <2>1. CASE grow
      <3>1. bigger \in Nat \ {0, 1} /\ table.len + 1 < bigger
        BY <1>2, <2>1
      <3>2. Survivors(table, c, {}) = E
        <4>1. Survivors(table, c, {}) = {e \in E : e[1] \notin {}}
          BY <1>1, SurvivorsAre
        <4> QED BY <4>1
      <3>3. Cardinality(Survivors(table, c, {})) < bigger
        <4>1. Cardinality(Survivors(table, c, {})) = table.len
          BY <1>2, <3>2
        <4> HIDE DEF bigger
        <4> QED BY <1>2, <3>1, <4>1
      <3> HIDE DEF bigger
      <3>4. IsTable(Copied(table, bigger, {}), bigger) /\ Entries(Copied(table, bigger, {})) = E
        BY <1>1, <3>1, <3>2, <3>3, CopiedIs DEF IsCopy
      <3> QED BY <2>1, <3>1, <3>4
    <2>2. CASE ~grow
      BY <1>1, <1>2, <2>2
    <2> QED BY <2>1, <2>2
  <1> HIDE DEF room
  <1>5. PICK d \in Nat \ {0, 1} : IsTable(room, d) /\ Entries(room) = E /\ table.len + 1 < d
    BY <1>4
  <1>6. Cardinality(WithPair(E, k, v)) < d
    <2> DEFINE R == {e \in E : e[1] # k}
    <2>1. IsFiniteSet(R) /\ Cardinality(R) <= Cardinality(E)
      BY <1>2, FS_Subset
    <2>2. Cardinality(R) \in Nat
      BY <2>1, FS_CardinalityType
    <2>3. Cardinality(R \cup {<<k, v>>}) <= Cardinality(R) + 1
      <3> HIDE DEF R
      <3>1. Cardinality(R \cup {<<k, v>>}) = IF <<k, v>> \in R THEN Cardinality(R) ELSE Cardinality(R) + 1
        BY <2>1, FS_AddElement
      <3> QED BY <2>2, <3>1
    <2>4. Cardinality(R \cup {<<k, v>>}) \in Nat
      BY <2>1, FS_AddElement, FS_CardinalityType
    <2> HIDE DEF R
    <2>5. Cardinality(R \cup {<<k, v>>}) < d
      BY <1>2, <1>5, <2>1, <2>2, <2>3, <2>4
    <2> QED BY <2>5 DEF R, WithPair
  <1>7. IsTable(table', d) /\ Entries(table') = WithPair(E, k, v)
    BY <1>1, <1>3, <1>5, <1>6, InsertKeepsTable
  <1>8. ASSUME NEW j \in MapKeys
        PROVE  Lookup(table', j) = IF j = k THEN v ELSE Lookup(table, j)
    <2>1. CASE j = k
      <3>1. <<k, v>> \in Entries(table') /\ <<k, v>>[1] = k /\ <<k, v>>[2] = v
        BY <1>7 DEF WithPair
      <3> QED BY <1>1, <1>7, <2>1, <3>1, LookupIs
    <2>2. CASE j # k
      BY <1>1, <1>7, <2>2, SamePairSameAnswer DEF WithPair
    <2> QED BY <2>1, <2>2
  <1>9. Content(table') = [Content(table) EXCEPT ![k] = v]
    BY <1>8 DEF Content
  <1>10. /\ MapInv' /\ Abstract!Counted
         /\ [j \in MapKeys |-> Lookup(table, j)]' = Content(table')
    BY <1>1, <1>3, <1>5, <1>7, NextTable
  <1> QED BY <1>9, <1>10 DEF Abstract!Put, Content

LEMMA MapStep ==
    ASSUME MapInv, MapNext
    PROVE  MapInv' /\ Abstract!Next
  <1>1. ASSUME NEW cap \in MapCaps, MapNew(cap) PROVE MapInv' /\ Abstract!Clear
    <2>1. /\ (IF cap = 0 THEN 8 ELSE cap) \in Nat \ {1}
          /\ table' = Fresh(IF cap = 0 THEN 8 ELSE cap) /\ hash' = hash
      BY <1>1, MapAssumption DEF MapNew
    <2> QED BY <2>1, ClearStep
  <1>2. ASSUME MapClear PROVE MapInv' /\ Abstract!Clear
    <2>1. \E c \in Nat \ {1} : table' = Fresh(c) /\ hash' = hash
      BY <1>2, CapOfTable DEF MapClear, MapInv
    <2> QED BY <2>1, ClearStep
  <1>3. ASSUME MapFree PROVE MapInv' /\ Abstract!Clear
    <2>1. 0 \in Nat \ {1} /\ table' = Fresh(0) /\ hash' = hash
      BY <1>3 DEF MapFree, NoTable
    <2> QED BY <2>1, ClearStep
  <1>4. ASSUME NEW k \in MapKeys, MapRemove(k) PROVE MapInv' /\ Abstract!Delete(k)
    BY <1>4, RemoveStep
  <1>5. ASSUME NEW k \in MapKeys, NEW v \in MapValues, MapSet(k, v)
        PROVE  MapInv' /\ Abstract!Put(k, v)
    BY <1>5, SetStep
  <1> QED BY <1>1, <1>2, <1>3, <1>4, <1>5 DEF MapNext, Abstract!Next

\* For any keys, values, capacities but one, and any hash function, however many keys
\* collide: lookups in lib/Map.bux answer what a map promises, through growth,
\* replacement and removal.
THEOREM TableIsAMap == MapInit /\ [][MapNext]_map_vars => ImplementsMap
  <1>1. MapInit => MapInv /\ Abstract!Init
    <2> SUFFICES ASSUME MapInit PROVE MapInv /\ Abstract!Init
      OBVIOUS
    <2>1. hash \in [MapKeys -> Nat]
      BY MapAssumption DEF MapInit
    <2>2. IsTable(table, 0) /\ Content(table) = [k \in MapKeys |-> Absent] /\ table.len = 0
      BY <2>1, EmptyTable DEF MapInit, NoTable, Fresh
    <2> QED BY <2>1, <2>2 DEF MapInv, Abstract!Init, Content
  <1>2. MapInv /\ [MapNext]_map_vars => MapInv'
    <2> SUFFICES ASSUME MapInv, UNCHANGED map_vars PROVE MapInv'
      BY MapStep
    <2> QED BY DEF map_vars, MapInv, IsTable, Probe, Entries
  <1>3. MapInv /\ [MapNext]_map_vars
           => [Abstract!Next]_<<[k \in MapKeys |-> Lookup(table, k)], table.len>>
    <2> SUFFICES ASSUME UNCHANGED map_vars
                 PROVE  UNCHANGED <<[k \in MapKeys |-> Lookup(table, k)], table.len>>
      BY MapStep
    <2> QED BY DEF map_vars, Lookup, SlotOf, EndsAt, Cap
  <1> QED BY <1>1, <1>2, <1>3, PTL DEF ImplementsMap, Abstract!Spec
================================================================================
