-------------------------------- MODULE Codecs --------------------------------
(***************************************************************************)
(* The conversions between bytes and text in rt/runtime.c.  A result is     *)
(* the buffer the function allocates (cap bytes), what it writes there and  *)
(* the length it reports; a terminator follows what is written.  The        *)
(* letters of base64 are their values 0..63, of hexadecimal 0..15.          *)
(*                                                                         *)
(* An operator marked (slip) is a function with a plausible programming     *)
(* mistake in it, used by nothing here.                                    *)
(***************************************************************************)
EXTENDS Integers, Sequences, SequencesExt

Buffer(cap, text) == [cap |-> cap, text |-> text, len |-> Len(text)]

Pad == 64   \* the '=' of base64; a character that is no letter is a greater number

ByteOr0(bytes, i) == IF i <= Len(bytes) THEN bytes[i] ELSE 0

\* The letters of the three bytes from i on: as many as there are bytes, and one.
Group(bytes, i) ==
    LET a == bytes[i]  b == ByteOr0(bytes, i + 1)  c == ByteOr0(bytes, i + 2)
        four == <<a \div 4, (a % 4) * 16 + b \div 16, (b % 16) * 4 + c \div 64, c % 64>>
    IN  SubSeq(four, 1, 1 + IF Len(bytes) - i >= 2 THEN 3 ELSE Len(bytes) - i + 1)

Groups(bytes) ==
    FlattenSeq([g \in 1..((Len(bytes) + 2) \div 3) |-> Group(bytes, 3 * g - 2)])

LetterCount(n) == 4 * ((n + 2) \div 3)

Base64UrlEncode(bytes) == Buffer(LetterCount(Len(bytes)) + 1, Groups(bytes))

\* EVP_EncodeBlock fills the last group with padding.
EncodeBlock(bytes) ==
    Groups(bytes) \o [i \in 1..(LetterCount(Len(bytes)) - Len(Groups(bytes))) |-> Pad]

Base64Encode(bytes) == Buffer(LetterCount(Len(bytes)) + 1, EncodeBlock(bytes))

------------------------------------------------------------------------------
\* Of the decoder's buf at most 14 bits are read again; the shift overflows an int
\* after six letters, and gcc drops the high bits.
Kept == 2^14

\* (slip) The bits left over from the last letter are thrown away.
B64UrlStepForgets(st, val) ==
    LET buf == (st.buf * 64 + val) % Kept
        bits == st.bits + 6
    IN  IF bits < 8 THEN [buf |-> buf, bits |-> bits, out |-> st.out]
        ELSE [buf |-> 0, bits |-> bits - 8,
              out |-> Append(st.out, (buf \div 2^(bits - 8)) % 256)]

\* One letter of bux_base64url_decode.
B64UrlStep(st, val) ==
    LET buf == (st.buf * 64 + val) % Kept
        bits == st.bits + 6
    IN  IF bits < 8 THEN [buf |-> buf, bits |-> bits, out |-> st.out]
        ELSE [buf |-> buf, bits |-> bits - 8,
              out |-> Append(st.out, (buf \div 2^(bits - 8)) % 256)]

\* After n characters; one that is no letter is passed over.
Base64UrlDecode(letters) ==
    LET after[n \in 0..Len(letters)] ==
            IF n = 0 THEN [buf |-> 0, bits |-> 0, out |-> <<>>]
            ELSE IF letters[n] \in 0..63 THEN B64UrlStep(after[n - 1], letters[n])
            ELSE after[n - 1]
    IN  Buffer((3 * Len(letters)) \div 4 + 1, after[Len(letters)].out)

\* EVP_DecodeBlock: padding counts as letters of value 0, and its bytes are part
\* of what it reports.
DecodeBlock(letters) ==
    LET val(c) == IF c = Pad THEN 0 ELSE c
        quad(i) == ((val(letters[i]) * 64 + val(letters[i + 1])) * 64 + val(letters[i + 2])) * 64
                   + val(letters[i + 3])
    IN  FlattenSeq([g \in 1..(Len(letters) \div 4) |->
            LET q == quad(4 * g - 3) IN <<q \div 65536, (q \div 256) % 256, q % 256>>])

Base64Decode(letters) ==
    IF Len(letters) % 4 # 0 \/ (\E i \in 1..Len(letters) : letters[i] > Pad)
    THEN Buffer((3 * Len(letters)) \div 4 + 1, <<>>)
    ELSE Buffer((3 * Len(letters)) \div 4 + 1, DecodeBlock(letters))

BytesToHex(bytes) ==
    Buffer(2 * Len(bytes) + 1, FlattenSeq([i \in 1..Len(bytes) |-> <<bytes[i] \div 16, bytes[i] % 16>>]))

------------------------------------------------------------------------------
\* AES: only the sizes.  CBC fills the last block, always with one byte at least.
BlockBytes == 16

CbcEncrypted(n) == [cap |-> n + BlockBytes + 1, len |-> BlockBytes * (n \div BlockBytes + 1)]
CbcDecrypted(n) == {[cap |-> n + 1, len |-> m] : m \in 0..n}
\* GCM's cipher text has no terminator.  Its plain text has one, after all of the
\* text when the tag is right and at the start when it is not.
GcmEncrypted(n) == [cap |-> n + BlockBytes, len |-> n]
GcmDecrypted(n) == {[cap |-> n, len |-> end] : end \in {n, 0}}
==============================================================================
