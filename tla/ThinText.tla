------------------------------- MODULE ThinText -------------------------------
(***************************************************************************)
(* The text functions of the small runtimes: rt/runtime_minimal.c, its      *)
(* twin rt/runtime_win.c, and rt/runtime_freestanding.c, which has no C     *)
(* library.  A Bux program is linked with one of the runtimes, so where     *)
(* they differ the same program gives different answers.                   *)
(***************************************************************************)
EXTENDS Text, CheckedMath

CONSTANT Overrun   \* the call copies more than its buffer or its argument holds

\* start + len is a sum of unsigned ints.
MinimalStrSlice(s, start, len) ==
    LET text == OrEmpty(s)
        from == Min({start, Len(text)})
        n == IF (from + len) % UIntMod > Len(text) THEN Len(text) - from ELSE len
    IN  IF from + n > Len(text) THEN Overrun ELSE SubSeq(text, from + 1, from + n)

MinimalTrim(s) ==
    LET left == Drop(OrEmpty(s), PrefixIn(OrEmpty(s), Blank))
    IN  SubSeq(left, 1, Len(left) - SuffixIn(left, Blank))

MinimalSplitCount(s, d) == IF NoSplit(s, d) THEN 0 ELSE SplitCount(s, d)

\* An empty delimiter is found at once, and the part before it is empty.
MinimalSplitPart(s, d, k) ==
    IF NoSplit(s, d) THEN <<>> ELSE PartFrom(s, d, PartStart(s, d, k))

MinimalJoin2(a, b, sep) == OrEmpty(a) \o OrEmpty(sep) \o OrEmpty(b)

MinimalFormat(p, args) == OrEmpty(p)

MinimalEscape(s, len) == EscapeCString(s, len)

\* These runtimes take the backslash for a separator too.
Slashes == {"/", "\\"}

MinimalPathJoin(a, b) == JoinWith(a, b, Slashes)
MinimalPathParent(p) == ParentWith(p, Slashes)
MinimalPathExt(p) == ExtWith(p, Slashes)

------------------------------------------------------------------------------
\* runtime_win.c repeats these functions word for word.
WinStrSlice(s, start, len) == MinimalStrSlice(s, start, len)
WinTrim(s) == MinimalTrim(s)
WinSplit(s, d, k) == <<MinimalSplitCount(s, d), MinimalSplitPart(s, d, k)>>
WinJoin2(a, b, sep) == MinimalJoin2(a, b, sep)
WinFormat(p, args) == MinimalFormat(p, args)
WinEscape(s, len) == MinimalEscape(s, len)
WinPaths(a, b) == <<MinimalPathJoin(a, b), MinimalPathParent(a), MinimalPathExt(a)>>

------------------------------------------------------------------------------
\* runtime_freestanding.c.
FsStrSlice(s, start, len) == MinimalStrSlice(s, start, len)

FsTrimLeft(s) == FsStrSlice(Drop(OrEmpty(s), PrefixIn(OrEmpty(s), Blank)), 0,
                            Len(OrEmpty(s)) - PrefixIn(OrEmpty(s), Blank))
FsTrimRight(s) == FsStrSlice(OrEmpty(s), 0, Len(OrEmpty(s)) - SuffixIn(OrEmpty(s), Blank))
FsTrim(s) == FsTrimRight(FsTrimLeft(s))

\* bux_strstr without a C library: every place in turn, character by character.
FsFind(s, d) ==
    LET matched(h) == Max({n \in 0..Min({Len(d), Len(s) - h + 1}) :
                              SubSeq(s, h, h + n - 1) = SubSeq(d, 1, n)})
        hits == {h \in 1..Len(s) : matched(h) = Len(d)}
    IN  IF d = <<>> THEN 1 ELSE IF hits = {} THEN 0 ELSE Min(hits)

FsSplitCount(s, d) == 0
FsSplitPart(s, d, k) == <<>>
FsJoin2(a, b, sep) == OrEmpty(a) \o OrEmpty(sep) \o OrEmpty(b)
FsFormat(p, args) == IF OrEmpty(args["0"]) # <<>> THEN args["0"] ELSE OrEmpty(p)
FsEscape(s, len) == OrEmpty(s)
FsPathJoin(a, b) == FsJoin2(a, b, <<"/">>)
FsPathParent(p) == <<".">>
FsPathExt(p) == <<>>

------------------------------------------------------------------------------
\* Numbers as text: the digits 0..9, most significant first, after Minus.
Minus == 10

DigitsOf(n) ==
    LET rest[k \in 0..n] == IF k < 10 THEN <<k>> ELSE Append(rest[k \div 10], k % 10)
    IN  rest[n]

\* snprintf("%lld"), and atoll of such a text.
IntToStr(n) == IF n < 0 THEN <<Minus>> \o DigitsOf(-n) ELSE DigitsOf(n)

StrToInt(s) ==
    LET digits == IF s # <<>> /\ s[1] = Minus THEN Tail(s) ELSE s
        value[k \in 0..Len(digits)] == IF k = 0 THEN 0 ELSE value[k - 1] * 10 + digits[k]
        v == value[Len(digits)]
    IN  IF s = Null THEN 0 ELSE IF digits = s THEN v ELSE -v

\* The loop of runtime_freestanding.c: the smallest integer negated is itself,
\* and no digit of it is written.
FsIntToStr(n) ==
    LET m == IF n < 0 THEN Wrap(-n) ELSE n
    IN  (IF n < 0 THEN <<Minus>> ELSE <<>>)
        \o (IF m = 0 THEN <<0>> ELSE IF m < 0 THEN <<>> ELSE DigitsOf(m))

\* (slip) The sign is looked for after the digits.
FsStrToIntDropsSign(s) ==
    IF s = Null THEN 0
    ELSE FoldLeft(LAMBDA acc, c : Wrap(acc * 10 + c), 0, SelectSeq(s, LAMBDA c : c \in 0..9))

FsStrToInt(s) ==
    LET digits == IF s # <<>> /\ s[1] = Minus THEN Tail(s) ELSE s
        value[k \in 0..Len(digits)] == IF k = 0 THEN 0 ELSE Wrap(value[k - 1] * 10 + digits[k])
        v == value[Len(digits)]
    IN  IF s = Null THEN 0 ELSE IF digits = s THEN v ELSE Wrap(-v)
==============================================================================
