---------------------------- MODULE MCMsmObject -----------------------------
(* Small instances of MsmObject.  With U16 = 3 the name of three letters is  *)
(* cut to the empty one and the name of four is cut to its first letter.     *)
EXTENDS MsmObject, TLC

CONSTANTS r1, v1, v2, c1, c2

NoReaders == {}
OneReader == {r1}
TwoValues == {v1, v2}

TwoNames == {<<c1>>, <<c2>>}
LongNames == {<<c1>>, <<c2>>, <<c1, c2, c2>>, <<c1, c2, c2, c2>>}

ValueSymmetry == Permutations({v1, v2})

=============================================================================
