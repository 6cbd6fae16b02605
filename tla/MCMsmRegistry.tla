--------------------------- MODULE MCMsmRegistry ----------------------------
(* Small instances of MsmRegistry: threads that race for one or two names.   *)
EXTENDS MsmRegistry

CONSTANTS t1, t2, n1, n2, s0, s1

TwoThreads == {t1, t2}
TwoNames == {n1, n2}
TwoSchemas == {s0, s1}

=============================================================================
