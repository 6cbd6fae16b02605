----------------------------- MODULE PropertyBag -----------------------------
(***************************************************************************)
(* What an object promises its writer: a partial map from field keys to    *)
(* typed values.  A set gives one field a value and leaves the others as   *)
(* they are; a field that exists keeps its type; a remove takes one field  *)
(* away.  Where the map is stored, and that it moves, is not seen.         *)
(***************************************************************************)
CONSTANTS Keys, Types, Values

VARIABLE fields    \* from the keys that are present to [type, val]

Init == fields = [k \in {} |-> 0]

Set(k, t, v) ==
  /\ k \in DOMAIN fields => fields[k].type = t
  /\ fields' = [x \in DOMAIN fields \cup {k} |->
                  IF x = k THEN [type |-> t, val |-> v] ELSE fields[x]]

Remove(k) ==
  /\ k \in DOMAIN fields
  /\ fields' = [x \in DOMAIN fields \ {k} |-> fields[x]]

Next ==
  \E k \in Keys : Remove(k) \/ \E t \in Types, v \in Values : Set(k, t, v)

Spec == Init /\ [][Next]_fields

=============================================================================
