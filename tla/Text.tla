--------------------------------- MODULE Text ---------------------------------
(***************************************************************************)
(* The text functions of rt/runtime.c.  A text is the sequence of the       *)
(* characters before its terminator, Null the null pointer; what a function *)
(* returns is the text in the buffer it allocates.  bux_alloc clears        *)
(* memory, so a buffer that is not filled ends early and is still a text.   *)
(*                                                                         *)
(* An operator marked (slip) is a function with a plausible programming     *)
(* mistake in it, used by nothing here.                                    *)
(***************************************************************************)
EXTENDS Integers, Sequences, FiniteSets, SequencesExt, FiniteSetsExt

CONSTANTS
    Null,      \* NULL
    UIntMod    \* unsigned int counts modulo this

Blank == {" ", "\t", "\n", "\r"}

OrEmpty(s) == IF s = Null THEN <<>> ELSE s

\* strstr from position p of s on: the position of the first match, 0 if none.
Find(s, d, p) ==
    LET hits == {i \in p..(Len(s) - Len(d) + 1) : SubSeq(s, i, i + Len(d) - 1) = d}
    IN  IF hits = {} THEN 0 ELSE Min(hits)

\* strrchr: the last position of character c, 0 if none.
LastAt(s, c) == Max({0} \cup {i \in 1..Len(s) : s[i] = c})

Drop(s, n) == SubSeq(s, n + 1, Len(s))

\* The longest prefix, the longest suffix, of characters in C.
PrefixIn(s, C) == Max({0} \cup {n \in 1..Len(s) : \A i \in 1..n : s[i] \in C})
SuffixIn(s, C) == PrefixIn(Reverse(s), C)

------------------------------------------------------------------------------
StrSlice(s, start, len) ==
    IF s = Null THEN Null
    ELSE IF start >= Len(s) THEN <<>>
    ELSE SubSeq(s, start + 1, start + Min({len, Len(s) - start}))

TrimLeft(s) == IF s = Null THEN Null ELSE Drop(s, PrefixIn(s, Blank))
TrimRight(s) ==
    IF s = Null THEN Null ELSE SubSeq(s, 1, Len(s) - SuffixIn(s, Blank))
Trim(s) == TrimRight(TrimLeft(s))

\* Where part number k begins (0: there is none), for a delimiter that is not empty.
PartStart(s, d, k) ==
    LET begin[i \in 0..k] ==
            IF i = 0 THEN 1
            ELSE LET hit == IF begin[i - 1] = 0 THEN 0 ELSE Find(s, d, begin[i - 1])
                 IN  IF hit = 0 THEN 0 ELSE hit + Len(d)
    IN  begin[k]

NoSplit(s, d) == s = Null \/ d = Null \/ d = <<>>

SplitCount(s, d) ==
    IF NoSplit(s, d) THEN 1
    ELSE 1 + Cardinality({k \in 1..Len(s) : PartStart(s, d, k) # 0})

PartFrom(s, d, p) ==
    LET hit == Find(s, d, p)
    IN  IF p = 0 THEN <<>> ELSE IF hit = 0 THEN Drop(s, p - 1) ELSE SubSeq(s, p, hit - 1)

SplitPart(s, d, k) ==
    IF NoSplit(s, d) THEN (IF k = 0 THEN OrEmpty(s) ELSE <<>>)
    ELSE PartFrom(s, d, PartStart(s, d, k))

\* Room is made for the separator even when it is left out.
Join2(a, b, sep) ==
    IF OrEmpty(a) # <<>> /\ OrEmpty(b) # <<>> THEN a \o OrEmpty(sep) \o b
    ELSE OrEmpty(a) \o OrEmpty(b)

------------------------------------------------------------------------------
\* bux_str_format reads the pattern twice: to size the result, and to write it.
\* Digits are characters "0".."7"; args is a function from them to texts.
Digit == {"0", "1", "2", "3", "4", "5", "6", "7"}

HoleAt(p, i) ==
    /\ i + 2 <= Len(p)
    /\ p[i] = "{" /\ p[i + 1] \in Digit /\ p[i + 2] = "}"

FormatSize(p, args) ==
    LET size[i \in 1..(Len(p) + 1)] ==
            IF i > Len(p) THEN 0
            ELSE IF HoleAt(p, i) THEN Len(OrEmpty(args[p[i + 1]])) + size[i + 3]
            ELSE 1 + size[i + 1]
    IN  size[1]

\* (slip) The scan goes on inside the hole.
FormatRescans(p, args) ==
    LET text[i \in 1..(Len(p) + 1)] ==
            IF i > Len(p) THEN <<>>
            ELSE IF HoleAt(p, i) THEN OrEmpty(args[p[i + 1]]) \o text[i + 2]
            ELSE <<p[i]>> \o text[i + 1]
    IN  text[1]

StrFormat(p, args) ==
    LET text[i \in 1..(Len(p) + 1)] ==
            IF i > Len(p) THEN <<>>
            ELSE IF HoleAt(p, i) THEN OrEmpty(args[p[i + 1]]) \o text[i + 3]
            ELSE <<p[i]>> \o text[i + 1]
    IN  IF p = Null THEN <<>> ELSE text[1]

\* bux_escape_c_string of the first len characters.
Escape(c) ==
    CASE c = "\n" -> <<"\\", "n">> [] c = "\r" -> <<"\\", "r">>
      [] c = "\t" -> <<"\\", "t">> [] c = "\\" -> <<"\\", "\\">>
      [] c = "\"" -> <<"\\", "\"">> [] OTHER -> <<c>>

EscapeCString(s, len) ==
    IF s = Null \/ len <= 0 THEN <<>>
    ELSE FlattenSeq([i \in 1..len |-> Escape(s[i])])

------------------------------------------------------------------------------
\* bux_path_join, _parent, _ext.  The separators of a path are in Seps.
Slash == {"/"}

JoinWith(a, b, Seps) ==
    IF a = Null THEN OrEmpty(b)
    ELSE IF b = Null THEN a
    ELSE a \o (IF a # <<>> /\ Last(a) \notin Seps THEN <<"/">> ELSE <<>>) \o b

\* Slashes, a name and slashes again are taken off the end.
ParentWith(p, Seps) ==
    LET name == SubSeq(p, 1, Len(p) - SuffixIn(p, Seps))
        dir == SubSeq(name, 1, Max({0} \cup {i \in 1..Len(name) : name[i] \in Seps}))
        rest == SubSeq(dir, 1, Len(dir) - SuffixIn(dir, Seps))
    IN  IF p = Null THEN <<>> ELSE IF rest = <<>> THEN <<".">> ELSE rest

ExtWith(p, Seps) ==
    IF p = Null THEN <<>>
    ELSE LET dot == LastAt(p, ".")
         IN  IF dot = 0 \/ \E c \in Seps : LastAt(p, c) > dot THEN <<>> ELSE Drop(p, dot - 1)

PathJoin(a, b) == JoinWith(a, b, Slash)
PathParent(p) == ParentWith(p, Slash)
PathExt(p) == ExtWith(p, Slash)
==============================================================================
