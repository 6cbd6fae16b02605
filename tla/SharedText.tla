----------------------------- MODULE SharedText -----------------------------
(***************************************************************************)
(* What a shared string promises: a register with one writer.  A reader    *)
(* may be given an old text, but always a whole one, and never one that    *)
(* was replaced before the text it was given last.                         *)
(***************************************************************************)
EXTENDS Integers, Sequences

CONSTANTS Readers, Texts, View(_), Nothing

VARIABLES
  versions,   \* the texts the string has had, oldest first
  known,      \* per reader, the version it was last shown
  result      \* per reader, the text in its hands, or Nothing

vars == <<versions, known, result>>

Init ==
  /\ versions = << <<>> >>
  /\ known = [r \in Readers |-> 1]
  /\ result = [r \in Readers |-> Nothing]

Set(t) ==
  /\ versions' = Append(versions, t)
  /\ UNCHANGED <<known, result>>

Advance(r) ==
  /\ \E k \in known[r] .. Len(versions) : known' = [known EXCEPT ![r] = k]
  /\ UNCHANGED <<versions, result>>

Return(r) ==
  /\ result' = [result EXCEPT ![r] = View(versions[known[r]])]
  /\ UNCHANGED <<versions, known>>

Forget(r) ==
  /\ result' = [result EXCEPT ![r] = Nothing]
  /\ UNCHANGED <<versions, known>>

Next ==
  \/ \E t \in Texts : Set(t)
  \/ \E r \in Readers : Advance(r) \/ Return(r) \/ Forget(r)

Spec == Init /\ [][Next]_vars

=============================================================================
