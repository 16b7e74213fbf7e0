------------------------------- MODULE BumpHeap -------------------------------
(***************************************************************************)
(* The allocator of rt/runtime_freestanding.c 78-112: one array of          *)
(* HeapBytes bytes, cut off from the front; free does nothing.              *)
(* bux_realloc does not know the old size and copies as many bytes as the   *)
(* new block has from where the old one begins.                            *)
(*                                                                         *)
(* An operator marked (slip) is an action with a plausible programming      *)
(* mistake in it, used by nothing here.                                    *)
(***************************************************************************)
EXTENDS Integers

CONSTANTS
    HeapBytes,   \* BUX_FS_HEAP_BYTES
    Sizes        \* sizes callers ask for.  bux_size is wide enough for their sums

ASSUME HeapAssumption == HeapBytes \in Nat /\ Sizes \subseteq Nat

VARIABLES
    heap_off,   \* bux_fs_heap_off
    heap,       \* the contents of bux_fs_heap
    blocks,     \* what callers hold: size bytes from at on, the first used ones full of mark
    halted      \* bux_fs_halt was called

heap_vars == <<heap_off, heap, blocks, halted>>

Marks == 1..2    \* contents: two owners' marks; 0 is a cleared byte
Bytes(at, n) == at..(at + n - 1)

HeapInit ==
    /\ heap_off = 0
    /\ heap = [i \in Bytes(0, HeapBytes) |-> 0]
    /\ blocks = {}
    /\ halted = FALSE

\* (slip) The offset is rounded down.
RoundedDown(off) == (off \div 8) * 8

Aligned(off) == ((off + 7) \div 8) * 8

AtLeast1(size) == IF size = 0 THEN 1 ELSE size

Fits(size) == Aligned(heap_off) + AtLeast1(size) <= HeapBytes

\* bux_alloc, which clears the block, and its owner fills it.
HeapAlloc(size, mark) ==
    /\ ~halted /\ Fits(size)
    /\ LET at == Aligned(heap_off)
           new == Bytes(at, AtLeast1(size))
       IN  /\ heap_off' = at + AtLeast1(size)
           /\ heap' = [i \in DOMAIN heap |->
                          IF i \in Bytes(at, size) THEN mark ELSE IF i \in new THEN 0 ELSE heap[i]]
           /\ blocks' = blocks \cup {[at |-> at, size |-> AtLeast1(size), used |-> size, mark |-> mark]}
    /\ UNCHANGED halted

\* bux_realloc of block b.  A copy longer than the way from the old block to the
\* new one runs into what it has copied already, and repeats it.
HeapRealloc(b, size) ==
    /\ ~halted /\ Fits(size)
    /\ LET at == Aligned(heap_off)
           new == Bytes(at, AtLeast1(size))
       IN  /\ heap_off' = at + AtLeast1(size)
           /\ heap' = [i \in DOMAIN heap |->
                          IF i \in Bytes(at, size) THEN heap[b.at + ((i - at) % (at - b.at))]
                          ELSE IF i \in new THEN 0 ELSE heap[i]]
           /\ blocks' = (blocks \ {b}) \cup
                  {[at |-> at, size |-> AtLeast1(size), mark |-> b.mark,
                    used |-> IF size < b.used THEN size ELSE b.used]}
    /\ UNCHANGED halted

\* No room: the message is written and the program stands still.
HeapFull(size) ==
    /\ ~halted /\ ~Fits(size)
    /\ halted' = TRUE
    /\ UNCHANGED <<heap_off, heap, blocks>>

HeapNext ==
    \E size \in Sizes :
        \/ \E mark \in Marks : HeapAlloc(size, mark)
        \/ \E b \in blocks : HeapRealloc(b, size)
        \/ HeapFull(size)

HeapSpec == HeapInit /\ [][HeapNext]_heap_vars

------------------------------------------------------------------------------
HeapTypeOK ==
    /\ heap_off \in 0..HeapBytes
    /\ heap \in [Bytes(0, HeapBytes) -> {0} \cup Marks]
    /\ blocks \subseteq [at : Bytes(0, HeapBytes), size : 1..HeapBytes,
                         used : 0..HeapBytes, mark : Marks]
    /\ halted \in BOOLEAN

BlocksInHeap ==
    \A b \in blocks : b.at % 8 = 0 /\ b.used <= b.size /\ b.at + b.size <= heap_off

BlocksDisjoint ==
    \A b, c \in blocks : b # c => Bytes(b.at, b.size) \cap Bytes(c.at, c.size) = {}

BlocksKeepContents ==
    \A b \in blocks : \A i \in Bytes(b.at, b.used) : heap[i] = b.mark

\* After any allocations and reallocations, of any sizes and in any order, the
\* blocks in use are aligned, inside the array and apart, and each holds what its
\* owner put there: what a reallocation copied from beyond the old block's end
\* reaches no byte that counts.
HeapSound == BlocksInHeap /\ BlocksDisjoint /\ BlocksKeepContents
==============================================================================
