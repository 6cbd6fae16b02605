--------------------------- MODULE SharedSequence ---------------------------
(***************************************************************************)
(* What a shared array promises to its readers while the writer only       *)
(* appends: one growing sequence.  A reader may lag behind the writer, but *)
(* the length it knows never shrinks, and whatever element it is given is  *)
(* the committed one.                                                      *)
(***************************************************************************)
EXTENDS Integers, Sequences

CONSTANTS Readers, Values, Nothing

VARIABLES
  seq,     \* the committed elements
  known,   \* per reader, the length it was last told
  got      \* per reader, the <<index, element>> in its hands, or Nothing

vars == <<seq, known, got>>

Init ==
  /\ seq = <<>>
  /\ known = [r \in Readers |-> 0]
  /\ got = [r \in Readers |-> Nothing]

Append1(v) ==
  /\ seq' = Append(seq, v)
  /\ UNCHANGED <<known, got>>

Learn(r) ==
  /\ \E n \in known[r] .. Len(seq) : known' = [known EXCEPT ![r] = n]
  /\ UNCHANGED <<seq, got>>

Read(r) ==
  /\ \E i \in DOMAIN seq : got' = [got EXCEPT ![r] = <<i, seq[i]>>]
  /\ UNCHANGED <<seq, known>>

Forget(r) ==
  /\ got' = [got EXCEPT ![r] = Nothing]
  /\ UNCHANGED <<seq, known>>

Next ==
  \/ \E v \in Values : Append1(v)
  \/ \E r \in Readers : Learn(r) \/ Read(r) \/ Forget(r)

Spec == Init /\ [][Next]_vars

=============================================================================
