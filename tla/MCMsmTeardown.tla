--------------------------- MODULE MCMsmTeardown ----------------------------
(* Small instances of MsmTeardown: regions that nest strings, arrays and    *)
(* objects in one another as the types of the library allow.                *)
EXTENDS MsmTeardown, TLC

CONSTANTS f1, f2

TwoNames == {f1, f2}
AllFieldTypes == {Scalar, String, Object}

\* array<record<int32, string>>; an array of arrays of strings; an array of
\* objects; record<string, object>.
Records == <<ArrayOf(<<Scalar, String>>)>>
Arrays == <<ArrayOf(<<ArrayOf(<<String>>)>>)>>
Objects == <<ArrayOf(<<Object>>)>>
Mixed == <<String, Object>>

AllSlotTypes ==
  {Scalar, String, Object, ArrayOf(<<Scalar, String>>), ArrayOf(<<String>>),
   ArrayOf(<<ArrayOf(<<String>>)>>), ArrayOf(<<Object>>)}
MixedRoots == {Records, Arrays, Objects, Mixed}
MixedBounds == (Records :> 5) @@ (Arrays :> 4) @@ (Objects :> 5) @@ (Mixed :> 6)

=============================================================================
