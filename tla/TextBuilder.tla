------------------------------ MODULE TextBuilder ------------------------------
(***************************************************************************)
(* The string builder: bux_sb_* of rt/runtime.c ("full"), and of            *)
(* runtime_minimal.c and runtime_win.c ("minimal", "win").  A builder has a *)
(* buffer of sb_cap bytes with a text of sb_len characters; what matters is *)
(* where it writes and who owns the buffer, so a text is its length.  The   *)
(* library calls new, append any number of times, build, free; the text     *)
(* build returns outlives the builder (lib/String.bux 195, 269, 329, 348).  *)
(*                                                                         *)
(* An operator marked (slip) is an action with a plausible programming      *)
(* mistake in it, used by nothing here.                                    *)
(***************************************************************************)
EXTENDS Integers

CONSTANTS
    SbRuntimes,   \* the runtimes looked at
    SbWords,      \* lengths of the texts a caller appends
    SbCaps,       \* capacities a caller asks for
    SbMaxLen,     \* bound: callers append up to this length
    SbMaxCap      \* unsigned int ends here

ASSUME BuilderAssumption ==
    /\ SbRuntimes \subseteq {"full", "minimal", "win"}
    /\ SbMaxLen \in Nat /\ SbMaxCap \in Nat
    /\ SbWords \subseteq 0..SbMaxLen
    /\ SbCaps \subseteq 0..SbMaxLen
    /\ 2 * SbMaxLen + 128 <= SbMaxCap

VARIABLES
    sb_rt,      \* the runtime the program is linked with
    sb,         \* the builder: "none", "open", "built"
    sb_cap, sb_len,
    sb_end,     \* the highest byte of this buffer written so far: a terminator
    sb_result   \* the text build returned: "none", "owned" by the caller, "freed"

sb_vars == <<sb_rt, sb, sb_cap, sb_len, sb_end, sb_result>>

SbInit ==
    /\ sb_rt \in SbRuntimes
    /\ sb = "none"
    /\ sb_cap = 0 /\ sb_len = 0 /\ sb_end = 0
    /\ sb_result = "none"

\* The capacity of a new builder: full takes 64 for none, the others at least 16.
FirstCap(asked) ==
    IF sb_rt = "full" THEN (IF asked > 0 THEN asked ELSE 64)
    ELSE IF asked < 16 THEN 16 ELSE asked

SbNew(asked) ==
    /\ sb = "none"
    /\ sb' = "open"
    /\ sb_cap' = FirstCap(asked)
    /\ sb_len' = 0 /\ sb_end' = 0
    /\ sb_result' = "none"
    /\ UNCHANGED sb_rt

\* while (cap < need) cap *= 2: the one doubling between need and twice that.
Powers == {2^k : k \in 0..30}

RoomFor(need) ==
    IF need > sb_cap
    THEN {c \in need..(2 * need - 1) : c % sb_cap = 0 /\ c \div sb_cap \in Powers}
    ELSE {sb_cap}

\* (slip) No room is made for the terminator.
SbAppendNoRoomForEnd(n) ==
    /\ sb = "open"
    /\ sb_len + n <= SbMaxLen
    /\ sb_cap' \in RoomFor(sb_len + n)
    /\ sb_len' = sb_len + n
    /\ sb_end' = sb_len + n
    /\ UNCHANGED <<sb_rt, sb, sb_result>>

\* bux_sb_append: room for the text and its terminator, in full as in sb_ensure.
SbAppend(n) ==
    /\ sb = "open"
    /\ sb_len + n <= SbMaxLen
    /\ sb_cap' \in RoomFor(sb_len + n + 1)
    /\ sb_len' = sb_len + n
    /\ sb_end' = sb_len + n
    /\ UNCHANGED <<sb_rt, sb, sb_result>>

\* bux_sb_append_char: full doubles once, and does not look whether that is enough.
SbAppendChar ==
    /\ sb = "open"
    /\ sb_len + 1 <= SbMaxLen
    /\ sb_cap' \in IF sb_rt = "full"
                   THEN {IF sb_len + 2 > sb_cap THEN 2 * sb_cap ELSE sb_cap}
                   ELSE RoomFor(sb_len + 2)
    /\ sb_len' = sb_len + 1
    /\ sb_end' = sb_len + 1
    /\ UNCHANGED <<sb_rt, sb, sb_result>>

\* The caller has the text.  In full the builder forgets it (buf = NULL).
SbBuild ==
    /\ sb = "open"
    /\ sb' = "built"
    /\ sb_result' = "owned"
    /\ UNCHANGED <<sb_rt, sb_cap, sb_len, sb_end>>

\* Minimal and win free the buffer, built or not.
SbFree ==
    /\ sb # "none"
    /\ sb' = "none"
    /\ sb_result' = IF sb = "built" /\ sb_rt # "full" THEN "freed" ELSE sb_result
    /\ UNCHANGED <<sb_rt, sb_cap, sb_len, sb_end>>

SbNext ==
    \/ \E asked \in SbCaps : SbNew(asked)
    \/ \E n \in SbWords : SbAppend(n)
    \/ SbAppendChar
    \/ SbBuild
    \/ SbFree

SbSpec == SbInit /\ [][SbNext]_sb_vars

------------------------------------------------------------------------------
SbTypeOK ==
    /\ sb_rt \in {"full", "minimal", "win"}
    /\ sb \in {"none", "open", "built"}
    /\ sb_cap \in Nat /\ sb_len \in Nat /\ sb_end \in Nat
    /\ sb_result \in {"none", "owned", "freed"}

\* Text and terminator are inside the buffer, although an append of one character
\* doubles it once without a look at what it needs; and no capacity overflows.
BuilderFits ==
    /\ sb # "none" => sb_len < sb_cap /\ sb_end < sb_cap
    /\ sb_cap <= SbMaxCap

\* In the full runtime the text that build hands out is the caller's, and free
\* leaves it alone.  (In the two others it is freed under the caller.)
BuiltTextLives == sb_rt = "full" => sb_result # "freed"

\* Long sequences of appends of any lengths stay in the buffer, and building and
\* freeing in the library's order leave the caller a text it can read.
BuilderSound == BuilderFits /\ BuiltTextLives
==============================================================================
