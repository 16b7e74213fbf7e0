--------------------------- MODULE MCRuntimeLibrary ---------------------------
(* Inputs of RuntimeLibrary for TLC: all texts over small alphabets.          *)
EXTENDS RuntimeLibrary

CONSTANTS p1, p2, p3, o1

Over(chars, n) == UNION {[1..k -> chars] : k \in 0..n}

MCMinInt == -8
MCWords == Over({"a", "b", " "}, 4)
MCDelimiters == Over({"a", "b"}, 2)
MCPatterns == Over({"{", "0", "1", "}"}, 5) \cup Over({"{", "0", "}"}, 6)
MCPathTexts == Over({"x", ".", "/"}, 4)
MCSourceTexts == Over({"x", "n", "\n", "\\", "\""}, 4)
MCByteTexts == Over({0, 1, 62, 191, 255}, 4)
MCLetterTexts == Over({0, 5, 63, Pad, 65}, 5)
\* The root, and a directory in it.
MCSubtrees == {{p1, p2, p3, o1}, {p3, o1}}
MCHashes == {h \in [MapKeys -> {0, 7, 15}] : \A k \in 2..4 : h[k - 1] <= h[k]}
==============================================================================
