---------------------------- MODULE MCMsmRecord -----------------------------
(* Small instances of MsmRecord: all records of at most two fields, a record *)
(* in a record among them, with names that may be equal, and one of three.   *)
EXTENDS MsmRecord

CONSTANTS r1

OneReader == {r1}

Nested == Record(<<Member("x", Int32), Member("y", Pointer)>>)
FieldTypes == {Int32, Int64, Pointer, Nested}
SmallTypes ==
  FieldTypes \cup
  {Record(<<Member("a", t)>>) : t \in FieldTypes} \cup
  {Record(<<Member("a", t), Member(n, u)>>) :
     t, u \in FieldTypes, n \in {"a", "b"}} \cup
  {Record(<<Member("a", Int32), Member("b", Pointer), Member("c", Int64)>>)}

=============================================================================
