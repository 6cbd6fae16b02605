----------------------------- MODULE SwmrMemory -----------------------------
(***************************************************************************)
(* The memory that one writer and any number of readers share, under the   *)
(* C++20 release/acquire rules the atomic helpers of msm_allocator.cpp     *)
(* rely on.                                                                *)
(*                                                                         *)
(* There is one writer (contract C1), so all stores form one sequence.     *)
(* hist[k] is the whole shared memory after the k-th store; the writer     *)
(* itself always works on the last snapshot.  floor[r] is the newest       *)
(* snapshot that happens-before what reader r does next.  Nothing older    *)
(* can be read any more, but every location may still be read, each one    *)
(* independently, as it was in floor[r] or in any later snapshot.          *)
(*                                                                         *)
(* An acquire load that returns the value of a release store raises the    *)
(* floor, every other load leaves it.  Raising it to the snapshot k that   *)
(* was looked at, rather than to the store that wrote the value, loses no  *)
(* behaviour: the same value is also returned from the snapshot of that    *)
(* store, and k may be chosen to be it.                                    *)
(*                                                                         *)
(* Several plain stores to locations no reader can reach before the next   *)
(* release may share a snapshot, because every load chooses its snapshot   *)
(* for itself.                                                             *)
(***************************************************************************)
EXTENDS Integers, Sequences

CONSTANT Readers    \* the reader threads

VARIABLES
  hist,             \* the snapshots of the shared memory, oldest first
  floor             \* per reader, the oldest snapshot it may still read

memoryVars == <<hist, floor>>

\* The memory orders the code passes to its loads and stores.
Relaxed == "relaxed"
Acquire == "acquire"
Release == "release"

\* What the writer, and nobody else, is sure to see.
Now == hist[Len(hist)]

\* A zeroed region handed out under the registry's mutex: everybody agrees.
MemoryInit(m) ==
  /\ hist = <<m>>
  /\ floor = [r \in Readers |-> 1]

\* The writer makes m the current contents.
Store(m) ==
  /\ hist' = Append(hist, m)
  /\ UNCHANGED floor

\* A call that leaves the memory as it is adds no snapshot.
StoreIfChanged(m) ==
  IF m = Now THEN UNCHANGED memoryVars ELSE Store(m)

\* The snapshots a load by r may take its value from.
Visible(r) == floor[r] .. Len(hist)

\* r loads, with the given order, a value found in snapshot k; released says
\* whether the store that wrote the value was a release store.
Load(r, k, order, released) ==
  /\ floor' = [floor EXCEPT ![r] = IF order = Acquire /\ released THEN k ELSE @]
  /\ UNCHANGED hist

=============================================================================
