---------------------------- MODULE MCMsmString -----------------------------
(* Small instances of MsmString: bytes are model values, and the texts       *)
(* differ in every byte, so that a mixture of two shows.                     *)
EXTENDS MsmString

CONSTANTS r1, c1, c2

OneReader == {r1}

\* Shrinking, growing, and a text with an embedded terminator.
MCTexts == {<<c1>>, <<c2, c2, c2>>, <<c1, NUL, c2>>}
LongTexts == {<<c1>>, <<c2, c2, c2>>}

=============================================================================
