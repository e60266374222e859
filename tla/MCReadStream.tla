---------------------------- MODULE MCReadStream ----------------------------
(* Small instances of ReadStream for TLC. *)
EXTENDS ReadStream

\* All that a peer can send in so many bytes; it also may hang up earlier.
ThreeBytes == [1..3 -> Chars]
\* The place of a CR is fixed; everything else is at any distance from it.
FourBytes  == {s \in [1..4 -> Chars] : \A i \in 1..4 : s[i] = "cr" => i = 2}
=============================================================================
