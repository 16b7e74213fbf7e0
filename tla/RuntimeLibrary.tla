----------------------------- MODULE RuntimeLibrary -----------------------------
(***************************************************************************)
(* The sequential part of the Bux runtimes, put together: arithmetic, text, *)
(* paths and codecs as calls with arguments, and the parts with a state of  *)
(* their own (builder, heap, resources, listing, hash map).  These parts    *)
(* share no state, so one part at a time moves, chosen at the start.        *)
(*                                                                         *)
(* The properties compare what the code computes with definitions that do   *)
(* not look at how it computes it.                                         *)
(***************************************************************************)
EXTENDS ThinText, Codecs, TextBuilder, BumpHeap, RuntimeCalls, DirListing, HashMap

CONSTANTS
    Words, Delimiters, Patterns, PathTexts, SourceTexts,   \* texts
    Lengths,      \* unsigned ints: starts and lengths of slices
    ByteTexts,    \* sequences of bytes
    LetterTexts   \* sequences of characters handed to a decoder

VARIABLES
    part,   \* "calls": a function without a state, or the name of a part with one
    args    \* the function's arguments while it is called

parts == <<sb_vars, heap_vars, call_vars, dir_vars, map_vars>>
lib_vars == <<part, args, parts>>

NoCall == [kind |-> "none"]

\* The calls of each kind, by their arguments.
Arguments ==
    [kind : {"arithmetic"}, a : Ints, b : Ints]
    \cup [kind : {"slice"}, s : Words, start : Lengths, len : Lengths]
    \cup [kind : {"split"}, s : Words, d : Delimiters]
    \cup [kind : {"join"}, a : Delimiters, b : Delimiters, sep : Delimiters]
    \cup [kind : {"format"}, p : Patterns]
    \cup [kind : {"escape"}, s : SourceTexts]
    \cup [kind : {"path"}, a : PathTexts, b : PathTexts]
    \cup [kind : {"bytes"}, bytes : ByteTexts]
    \cup [kind : {"letters"}, letters : LetterTexts]

LibInit ==
    /\ part \in {"calls", "builder", "heap", "resources", "listing", "map"}
    /\ args = NoCall
    /\ SbInit /\ HeapInit /\ CallInit /\ DirInit /\ MapInit
    /\ part # "builder" => sb_rt = "full"
    /\ part # "map" => hash = CHOOSE h \in Hashes : TRUE

CallFunction ==
    /\ part = "calls" /\ args = NoCall
    /\ args' \in Arguments
    /\ UNCHANGED <<part, parts>>

FunctionReturns ==
    /\ args # NoCall
    /\ args' = NoCall
    /\ UNCHANGED <<part, parts>>

LibNext ==
    \/ CallFunction
    \/ FunctionReturns
    \/ /\ part = "builder" /\ SbNext
       /\ UNCHANGED <<part, args, heap_vars, call_vars, dir_vars, map_vars>>
    \/ /\ part = "heap" /\ HeapNext
       /\ UNCHANGED <<part, args, sb_vars, call_vars, dir_vars, map_vars>>
    \/ /\ part = "resources" /\ CallNext
       /\ UNCHANGED <<part, args, sb_vars, heap_vars, dir_vars, map_vars>>
    \/ /\ part = "listing" /\ DirNext
       /\ UNCHANGED <<part, args, sb_vars, heap_vars, call_vars, map_vars>>
    \/ /\ part = "map" /\ MapNext
       /\ UNCHANGED <<part, args, sb_vars, heap_vars, call_vars, dir_vars>>

LibSpec == LibInit /\ [][LibNext]_lib_vars

------------------------------------------------------------------------------
\* Reference definitions.

PartsOf(s, d) == [k \in 1..SplitCount(s, d) |-> SplitPart(s, d, k - 1)]

\* The texts with sep between them.
Between(texts, sep) ==
    FlattenSeq([k \in 1..Len(texts) |-> IF k = 1 THEN texts[1] ELSE sep \o texts[k]])

\* The names in a path: the parts between slashes that are not empty.
Components(p) ==
    LET pieces == PartsOf(p, <<"/">>)
    IN  FlattenSeq([k \in 1..Len(pieces) |-> IF pieces[k] = <<>> THEN <<>> ELSE <<pieces[k]>>])

\* What a C compiler reads for the inside of a string literal.
CReads(s) ==
    LET char(c) == CASE c = "n" -> "\n" [] c = "r" -> "\r" [] c = "t" -> "\t" [] OTHER -> c
        read[i \in 1..(Len(s) + 2)] ==
            IF i > Len(s) THEN <<>>
            ELSE IF s[i] = "\\" THEN <<char(s[i + 1])>> \o read[i + 2]
            ELSE <<s[i]>> \o read[i + 1]
    IN  read[1]

\* The first argument of a format looks like a hole itself; the others are NULL.
FormatArgs == [d \in Digit |-> IF d = "0" THEN <<"{", "1", "}">> ELSE Null]

------------------------------------------------------------------------------
\* The overflow tests of the portable build panic exactly when the result does
\* not fit and never overflow themselves; see CheckedMath!ArithmeticExact.
ArithmeticSound == args.kind = "arithmetic" => ArithmeticExact(args.a, args.b)

SliceIsWindow(s, start, len) ==
    LET r == StrSlice(s, start, len)
    IN  /\ Len(r) = IF start >= Len(s) THEN 0 ELSE Min({len, Len(s) - start})
        /\ \A i \in 1..Len(r) : r[i] = s[start + i]
        /\ \E n, m \in 0..Len(s) :
              /\ s = SubSeq(s, 1, n) \o Trim(s) \o Drop(s, m)
              /\ \A i \in (1..n) \cup ((m + 1)..Len(s)) : s[i] \in Blank
        /\ Trim(s) # <<>> => Head(Trim(s)) \notin Blank /\ Last(Trim(s)) \notin Blank

SplitInverts(s, d) ==
    /\ Between(PartsOf(s, d), d) = s
    /\ d # <<>> => \A k \in 1..SplitCount(s, d) : Find(PartsOf(s, d)[k], d, 1) = 0
    /\ SplitPart(s, d, SplitCount(s, d)) = <<>>

FormatExpands(p) ==
    LET f == StrFormat(p, FormatArgs)
        pieces == PartsOf(p, <<"{", "0", "}">>)
        without1 == [k \in 1..Len(pieces) |-> Between(PartsOf(pieces[k], <<"{", "1", "}">>), <<>>)]
    IN  /\ Len(f) = FormatSize(p, FormatArgs)
        /\ f = Between(without1, FormatArgs["0"])

PathsCompose(a, b) ==
    LET names == Components(a)
    IN  /\ Components(PathJoin(a, b)) = names \o Components(b)
        /\ PathExt(PathJoin(a, b)) = PathExt(b)
        /\ IF Len(names) < 2 THEN PathParent(a) = <<".">>
           ELSE /\ Components(PathParent(a)) = Front(names)
                /\ Head(PathParent(a)) = "/" <=> Head(a) = "/"
                /\ Last(PathParent(a)) # "/"

\* Text functions of the full runtime: a slice is a window of the text, trimming
\* removes blanks only and all of them, joining the parts of a split gives the
\* text back and no part holds a delimiter; a format writes exactly as much as
\* its first pass reserved, expands each hole once and nothing inside an argument;
\* joining paths joins their components, the parent has all but the last, and an
\* escaped text is read back by the C compiler and fits its buffer.
TextMeetsReference ==
    /\ args.kind = "slice" => SliceIsWindow(args.s, args.start, args.len)
    /\ args.kind = "split" => SplitInverts(args.s, args.d)
    /\ args.kind = "format" => FormatExpands(args.p)
    /\ args.kind = "path" => PathsCompose(args.a, args.b)
    /\ args.kind = "escape" =>
          /\ CReads(EscapeCString(args.s, Len(args.s))) = args.s
          /\ Len(EscapeCString(args.s, Len(args.s))) <= 2 * Len(args.s)
    /\ args.kind = "arithmetic" => StrToInt(IntToStr(args.a)) = args.a

------------------------------------------------------------------------------
\* The small runtimes answer as the full one where a program may rely on it.  That
\* is not everywhere: starts and lengths whose sum leaves an unsigned int, an empty
\* delimiter or an empty part to join, and in runtime_freestanding.c the smallest
\* integer, are different there; splitting, formats, escapes and paths are only
\* placeholders in it, formats in the two others.
RuntimesAgree ==
    /\ args.kind = "slice" /\ args.start + args.len < UIntMod =>
          LET full == StrSlice(args.s, args.start, args.len)
          IN  /\ full = MinimalStrSlice(args.s, args.start, args.len)
              /\ full = WinStrSlice(args.s, args.start, args.len)
              /\ full = FsStrSlice(args.s, args.start, args.len)
    /\ args.kind = "slice" =>
          Trim(args.s) = MinimalTrim(args.s) /\ Trim(args.s) = WinTrim(args.s)
          /\ Trim(args.s) = FsTrim(args.s)
    /\ args.kind = "split" => FsFind(args.s, args.d) = Find(args.s, args.d, 1)
    /\ args.kind = "split" /\ args.d # <<>> =>
          /\ MinimalSplitCount(args.s, args.d) = SplitCount(args.s, args.d)
          /\ \A k \in 0..(Len(args.s) + 1) :
                /\ MinimalSplitPart(args.s, args.d, k) = SplitPart(args.s, args.d, k)
                /\ WinSplit(args.s, args.d, k)
                      = <<SplitCount(args.s, args.d), SplitPart(args.s, args.d, k)>>
    /\ args.kind = "join" /\ args.a # <<>> /\ args.b # <<>> =>
          \A thin \in {MinimalJoin2(args.a, args.b, args.sep), WinJoin2(args.a, args.b, args.sep),
                       FsJoin2(args.a, args.b, args.sep)} :
              thin = Join2(args.a, args.b, args.sep)
    /\ args.kind = "format" /\ (\A i \in 1..Len(args.p) : ~HoleAt(args.p, i)) =>
          LET none == [d \in Digit |-> Null]
          IN  \A thin \in {MinimalFormat(args.p, none), WinFormat(args.p, none),
                           FsFormat(args.p, none)} :
                  thin = StrFormat(args.p, none)
    /\ args.kind = "escape" =>
          \A thin \in {MinimalEscape(args.s, Len(args.s)), WinEscape(args.s, Len(args.s))} :
              thin = EscapeCString(args.s, Len(args.s))
    /\ args.kind = "path" =>
          /\ MinimalPathJoin(args.a, args.b) = PathJoin(args.a, args.b)
          /\ MinimalPathParent(args.a) = PathParent(args.a)
          /\ MinimalPathExt(args.a) = PathExt(args.a)
          /\ WinPaths(args.a, args.b)
                = <<PathJoin(args.a, args.b), PathParent(args.a), PathExt(args.a)>>
          /\ args.a # <<>> /\ Last(args.a) # "/" => FsPathJoin(args.a, args.b) = PathJoin(args.a, args.b)
    /\ args.kind = "arithmetic" =>
          /\ args.a # MinInt => FsIntToStr(args.a) = IntToStr(args.a)
          /\ FsStrToInt(IntToStr(args.a)) = args.a
          /\ NegChecked(args.a) # Panic => AbsI64(args.a) = Magnitude(args.a)

------------------------------------------------------------------------------
BufferFits(b) == b.len < b.cap   \* with its terminator

\* The terminator of a plain text of AES-GCM stands in the buffer, or right behind it.
OneByteBehind(b) == b.len = b.cap

\* What a codec writes stays in the buffer it allocated, terminator included, for
\* every input, valid or not; only AES-GCM's plain text may have its terminator
\* behind the buffer, by one byte.  Decoding what was encoded gives the bytes back,
\* and base64's decoder after them the zeros of the padding.
CodecsSound ==
    /\ args.kind = "bytes" =>
          LET url == Base64UrlEncode(args.bytes)
              b64 == Base64Encode(args.bytes)
              back == Base64Decode(b64.text)
          IN  /\ BufferFits(url) /\ BufferFits(b64) /\ BufferFits(back) /\ BufferFits(BytesToHex(args.bytes))
              /\ Base64UrlDecode(url.text).text = args.bytes
              /\ b64.len % 4 = 0 /\ b64.text = url.text \o [i \in 1..(b64.len - url.len) |-> Pad]
              /\ \A i \in 1..url.len : url.text[i] \in 0..63
              /\ SubSeq(back.text, 1, Len(args.bytes)) = args.bytes
              /\ Drop(back.text, Len(args.bytes))
                    = [i \in 1..(back.len - Len(args.bytes)) |-> 0]
              /\ BufferFits(CbcEncrypted(Len(args.bytes)))
              /\ \A plain \in CbcDecrypted(Len(args.bytes)) : BufferFits(plain)
              /\ GcmEncrypted(Len(args.bytes)).len <= GcmEncrypted(Len(args.bytes)).cap
              /\ \A plain \in GcmDecrypted(Len(args.bytes)) : BufferFits(plain) \/ OneByteBehind(plain)
    /\ args.kind = "letters" =>
          BufferFits(Base64UrlDecode(args.letters)) /\ BufferFits(Base64Decode(args.letters))
==============================================================================
