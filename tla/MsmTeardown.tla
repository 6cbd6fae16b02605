----------------------------- MODULE MsmTeardown -----------------------------
(***************************************************************************)
(* Which heap block is reachable from where, and who frees it: a region,   *)
(* the texts, buffers and values the writer's calls hang below its slots,  *)
(* views of slots that outlive what they lead to, array::destroy, and      *)
(* msm_free, whose destructor walks the slots and frees what it finds.     *)
(*                                                                         *)
(* One thread runs here; what concurrent readers see is the subject of     *)
(* MsmArray, MsmString and MsmObject.  Blocks are numbered in the order    *)
(* they are allocated and a number is not used again.  A record in a       *)
(* record, an array or a region is its fields in place, so a type is a     *)
(* sequence of slots.  Allocations succeed.                                *)
(***************************************************************************)
EXTENDS Integers, Sequences, FiniteSets

CONSTANTS
  SlotTypes,       \* the slot types of the program's regions and arrays
  Roots,           \* the types of the region: sequences of slot types
  Destructors,     \* may msm_alloc be given one (TRUE), or null (FALSE)
  Names, NoName,   \* the names of object fields
  FieldTypes,      \* the slot types of object fields
  FirstCap,        \* the first capacity (8 of an array, 4 of an object)
  MaxCap,          \* bound: the largest capacity
  MaxBlocks        \* bound: the number of blocks, for each type of the region

\* The slot types.  What an entry of an object points to is its value.
Scalar == [kind |-> "scalar", of |-> <<>>]
String == [kind |-> "string", of |-> <<>>]
Value == [kind |-> "value", of |-> <<>>]
Object == [kind |-> "object", of |-> <<Value>>]
ArrayOf(slots) == [kind |-> "array", of |-> slots]

\* A type does not contain itself, and an element of an array has a slot at
\* least: the destructor of a record without fields does not compile
\* (record.hpp:184-197).
ASSUME ConstantsAssumption ==
  /\ \A t \in SlotTypes :
       \/ t \in {Scalar, String, Object}
       \/ /\ t = ArrayOf(t.of)
          /\ t.of \in Seq(SlotTypes) \ {<<>>}
          /\ \A i \in DOMAIN t.of : t.of[i] # t
  /\ Roots \subseteq Seq(SlotTypes)
  /\ Destructors \subseteq BOOLEAN
  /\ NoName \notin Names
  /\ FieldTypes \subseteq {Scalar, String, Object}
  /\ MaxCap \in Nat /\ MaxBlocks \in [Roots -> Nat]
  /\ FirstCap \in 1 .. MaxCap

VARIABLES
  heap,            \* the blocks, in the order of their allocation
  phase,           \* "open", "freeing" while msm_free runs, then "closed"
  work,            \* what the destructor has yet to do
  held,            \* the slot a view was taken of, or NoSlot
  destroys,        \* whether destroy was called, and through a stale view
  owned,           \* what the region owned when it was freed
  fault            \* the first misuse of a freed block, or "none"

vars == <<heap, phase, work, held, destroys, owned, fault>>

Null == 0
NoSlot == <<0, 0>>

\* A block holds size elements, each with the slots of.  A value has a name,
\* the one its entry is found by.
Block(kind, of, size, slots, name) ==
  [live |-> TRUE, kind |-> kind, of |-> of, size |-> size, slots |-> slots,
   name |-> name]
ZeroSlots(n) == [i \in 1 .. n |-> Null]

Text == Block("text", <<>>, 0, <<>>, NoName)
NewValue(n, t) == Block("value", <<t>>, 1, <<Null>>, n)
Region(slots) == Block("region", slots, 1, ZeroSlots(Len(slots)), NoName)

Init ==
  /\ \E root \in Roots : heap = <<Region(root)>>
  /\ phase = "open"
  /\ work = <<>>
  /\ held = NoSlot
  /\ destroys = "never"
  /\ owned = {}
  /\ fault = "none"

-----------------------------------------------------------------------------
(* Slots and what they lead to *)

\* A slot is a pair of a block and an index.
Slot(h, at) == h[at[1]].slots[at[2]]
SlotType(h, at) == LET of == h[at[1]].of IN of[((at[2] - 1) % Len(of)) + 1]
Point(h, at, p) == [h EXCEPT ![at[1]].slots[at[2]] = p]

\* The slots of a block the code looks at, and the blocks they lead to.
InUse(b) == 1 .. b.size * Len(b.of)
Below(b) == IF b.live THEN {b.slots[i] : i \in InUse(b)} \ {Null} ELSE {}

\* The blocks reached from the region's, following the given edges: those in
\* every set of blocks that has the region's and is closed under the edges.
Closure(edges) ==
  LET closed == {S \in SUBSET DOMAIN edges :
                   1 \in S /\ \A b \in S : edges[b] \subseteq S}
  IN  {b \in DOMAIN edges : \A S \in closed : b \in S}

Reached(h) == Closure([b \in DOMAIN h |-> Below(h[b])])

\* The slots a program finds by walking down from the region.
CurrentOf(h) ==
  {at \in UNION {{b} \X InUse(h[b]) : b \in Reached(h)} :
     h[at[1]].live /\ SlotType(h, at).kind \notin {"scalar", "value"}}
Current == CurrentOf(heap)
Callable == Current \cup ({held} \ {NoSlot})

\* A call through a slot reads the slot and the buffer it points to.
Alive(at) ==
  /\ heap[at[1]].live
  /\ Slot(heap, at) # Null => heap[Slot(heap, at)].live

-----------------------------------------------------------------------------
(* The calls that allocate *)

Allocate(h, b) == Append(h, b)

\* A buffer of capacity c with the elements of the old one, published.  The
\* old one is kept.
GrownFreeing(h, at, c) ==              \* mutant: "frees old", as documented
  LET t == SlotType(h, at)
      old == h[Slot(h, at)]
      n == IF Slot(h, at) = Null THEN 0 ELSE old.size
      copy == [i \in 1 .. c * Len(t.of) |->
                 IF i <= n * Len(t.of) THEN old.slots[i] ELSE Null]
      freed == IF Slot(h, at) = Null THEN h
               ELSE [h EXCEPT ![Slot(h, at)].live = FALSE]
  IN  Point(Allocate(freed, Block(t.kind, t.of, n, copy, NoName)), at, Len(h) + 1)
GrownLosingLast(h, at, c) ==           \* mutant: one slot too few is copied
  LET t == SlotType(h, at)
      old == h[Slot(h, at)]
      n == IF Slot(h, at) = Null THEN 0 ELSE old.size
      copy == [i \in 1 .. c * Len(t.of) |->
                 IF i < n * Len(t.of) THEN old.slots[i] ELSE Null]
  IN  Point(Allocate(h, Block(t.kind, t.of, n, copy, NoName)), at, Len(h) + 1)
Grown(h, at, c) ==
  LET t == SlotType(h, at)
      old == h[Slot(h, at)]
      n == IF Slot(h, at) = Null THEN 0 ELSE old.size
      copy == [i \in 1 .. c * Len(t.of) |->
                 IF i <= n * Len(t.of) THEN old.slots[i] ELSE Null]
  IN  Point(Allocate(h, Block(t.kind, t.of, n, copy, NoName)), at, Len(h) + 1)

Cap(b) == Len(b.slots) \div Len(b.of)
Full(b) == b.size >= Cap(b)
NextCap(c) == IF c = 0 THEN FirstCap ELSE c * 2

\* Room for one more element behind the last: the heaps that may come of it,
\* none beyond MaxCap.
RoomLate(h, at) ==                     \* mutant: grows one element too late
  LET p == Slot(h, at)
      c == NextCap(IF p = Null THEN 0 ELSE Cap(h[p]))
  IN  IF p # Null /\ h[p].size <= Cap(h[p]) THEN {h}
      ELSE IF c <= MaxCap THEN {Grown(h, at, c)} ELSE {}
Room(h, at) ==
  LET p == Slot(h, at)
      c == NextCap(IF p = Null THEN 0 ELSE Cap(h[p]))
  IN  IF p # Null /\ ~Full(h[p]) THEN {h}
      ELSE IF c <= MaxCap THEN {Grown(h, at, c)} ELSE {}

Enlarged(h, at) == [h EXCEPT ![Slot(h, at)].size = @ + 1]

\* The first slot of the element behind the last.
Spare(h, at) == <<Slot(h, at), h[Slot(h, at)].size * Len(SlotType(h, at).of) + 1>>

\* prepare_push: the element behind the last is zeroed, pointers and all.
Zeroed(h, p, places) ==
  [h EXCEPT ![p].slots = [i \in DOMAIN @ |-> IF i \in places THEN Null ELSE @[i]]]
Prepared(h, at) ==
  {LET first == Spare(g, at)[2]
   IN  Zeroed(g, Slot(g, at), first .. first + Len(SlotType(g, at).of) - 1) :
   g \in Room(h, at)}

CalledOn(at, kind) ==
  /\ phase = "open"
  /\ Alive(at)
  /\ SlotType(heap, at).kind = kind

Keep == UNCHANGED <<phase, work, owned, fault>>

\* string::operator=, clear: a fresh text, or null; the old text is kept.
SetText(at) ==
  /\ CalledOn(at, "string")
  /\ heap' = Point(Allocate(heap, Text), at, Len(heap) + 1)
  /\ UNCHANGED <<held, destroys>> /\ Keep

ClearText(at) ==
  /\ CalledOn(at, "string")
  /\ Slot(heap, at) # Null
  /\ heap' = Point(heap, at, Null)
  /\ UNCHANGED <<held, destroys>> /\ Keep

Reserve(at, c) ==
  /\ CalledOn(at, "array")
  /\ Slot(heap, at) # Null => c > Cap(heap[Slot(heap, at)])
  /\ heap' = Grown(heap, at, c)
  /\ UNCHANGED <<held, destroys>> /\ Keep

\* prepare_push hands out a view of the spare element; nothing obliges the
\* caller to commit it.
PreparePush(at) ==
  /\ CalledOn(at, "array")
  /\ heap' \in Prepared(heap, at)
  /\ held' = Spare(heap', at)
  /\ UNCHANGED destroys /\ Keep

CommitPush(at) ==
  /\ CalledOn(at, "array")
  /\ Slot(heap, at) # Null /\ ~Full(heap[Slot(heap, at)])
  /\ heap' = Enlarged(heap, at)
  /\ UNCHANGED <<held, destroys>> /\ Keep

\* push_back and emplace_back: both steps in one call.
PushBack(at) ==
  /\ CalledOn(at, "array")
  /\ \E h \in Prepared(heap, at) : heap' = Enlarged(h, at)
  /\ UNCHANGED <<held, destroys>> /\ Keep

Clear(at) ==
  /\ CalledOn(at, "array")
  /\ Slot(heap, at) # Null
  /\ heap' = [heap EXCEPT ![Slot(heap, at)].size = 0]
  /\ UNCHANGED <<held, destroys>> /\ Keep

\* array::destroy frees the buffer and nothing its elements own.
DestroyedNotNulled(h, at) ==           \* mutant: the slot keeps its pointer
  [h EXCEPT ![Slot(h, at)].live = FALSE]
Destroyed(h, at) == Point([h EXCEPT ![Slot(h, at)].live = FALSE], at, Null)

Destroy(at) ==
  /\ CalledOn(at, "array")
  /\ Slot(heap, at) # Null
  /\ heap' = Destroyed(heap, at)
  /\ destroys' = IF at \in Current /\ destroys # "stale" THEN "current" ELSE "stale"
  /\ UNCHANGED held /\ Keep

Fields(h, at) ==
  IF Slot(h, at) = Null THEN {} ELSE InUse(h[Slot(h, at)])
FieldName(h, at, i) == h[h[Slot(h, at)].slots[i]].name

\* set_* and ensure_object of a new field.  Those of a field that exists
\* work on the value's slot, which is a slot like any other.
AddField(at, n, t) ==
  /\ CalledOn(at, "object")
  /\ \A i \in Fields(heap, at) : FieldName(heap, at, i) # n
  /\ \E h \in Room(heap, at), text \in {FALSE, t = String} :
       LET v == Len(h) + 1
           g == Allocate(h, NewValue(n, t))
           filled == IF text THEN Point(Allocate(g, Text), <<v, 1>>, v + 1) ELSE g
       IN  heap' = Enlarged(Point(filled, Spare(h, at), v), at)
  /\ UNCHANGED <<held, destroys>> /\ Keep

\* remove: null, or a tight copy.  The old buffer and the value are kept.
RemoveField(at, i) ==
  LET old == heap[Slot(heap, at)]
      rest == [j \in 1 .. old.size - 1 |-> old.slots[IF j < i THEN j ELSE j + 1]]
  IN
  /\ CalledOn(at, "object")
  /\ i \in Fields(heap, at)
  /\ heap' = IF old.size = 1 THEN Point(heap, at, Null)
             ELSE Point(Allocate(heap, Block("object", <<Value>>, old.size - 1,
                                             rest, NoName)), at, Len(heap) + 1)
  /\ UNCHANGED <<held, destroys>> /\ Keep

\* operator[], get<Name>(), get_slot and the iterator give out views.
TakeView ==
  /\ phase = "open"
  /\ held' \in Current
  /\ UNCHANGED <<heap, destroys>> /\ Keep

\* Any call through a slot whose block, or whose buffer, was freed.
UseDead(at) ==
  /\ ~Alive(at)
  /\ fault' = "dead_view"
  /\ UNCHANGED <<heap, phase, work, held, destroys, owned>>

Calls ==
  \E at \in Callable :
    \/ SetText(at) \/ ClearText(at)
    \/ \E c \in 1 .. MaxCap : Reserve(at, c)
    \/ PreparePush(at) \/ CommitPush(at) \/ PushBack(at)
    \/ Clear(at) \/ Destroy(at)
    \/ \E n \in Names, t \in FieldTypes : AddField(at, n, t)
    \/ \E i \in 1 .. MaxCap : RemoveField(at, i)
    \/ UseDead(at)

-----------------------------------------------------------------------------
(* msm_free: the destructor's walk, slot by slot *)

Task(what, at, b) == [do |-> what, at |-> at, block |-> b]
Walk(b, n) == [i \in 1 .. n |-> Task("slot", <<b, i>>, Null)]
FreeBlock(b) == Task("free", NoSlot, b)

\* What the region owns: what can be reached without entering an object that
\* is a field of an object.
OwnBelow(b) == IF b.kind = "value" /\ b.of = <<Object>> THEN {} ELSE Below(b)
Owned(h) == Closure([b \in DOMAIN h |-> OwnBelow(h[b])])

\* Whether the region was allocated with T::deallocate, as segment::create
\* does, or without a destructor makes no difference before this.
Free(destructor) ==
  /\ phase = "open"
  /\ phase' = "freeing"
  /\ work' = (IF destructor THEN Walk(1, Len(heap[1].of)) ELSE <<>>)
             \o <<FreeBlock(1)>>
  /\ owned' = {b \in DOMAIN heap : ~heap[b].live} \cup
              (IF destructor THEN Owned(heap) ELSE {1})
  /\ UNCHANGED <<heap, held, destroys, fault>>

\* An entry's value is freed behind the text it may own; null is freed in vain.
TextOf(h, v) == IF v # Null /\ h[v].of = <<String>> THEN h[v].slots[1] ELSE Null
ValueTasks(h, p) ==
  [j \in 1 .. 2 * h[p].size |->
     LET v == h[p].slots[(j + 1) \div 2] IN
     FreeBlock(IF j % 2 = 0 THEN v ELSE TextOf(h, v))]

\* Mutant: only the first slot of each element is walked.
InsideFirstSlots(h, p) ==
  CASE h[p].kind = "array" ->
         [i \in 1 .. h[p].size |-> Task("slot", <<p, (i - 1) * Len(h[p].of) + 1>>, Null)]
    [] h[p].kind = "object" -> ValueTasks(h, p)
    [] OTHER -> <<>>

\* What T::deallocate does below the buffer p before it frees p.  Objects do
\* not call the deallocate of the objects in their fields.
Inside(h, p) ==
  CASE h[p].kind = "array" -> Walk(p, h[p].size * Len(h[p].of))
    [] h[p].kind = "object" -> ValueTasks(h, p)
    [] OTHER -> <<>>

\* One slot: what is below its buffer, the buffer, and the pointer to it.
DeallocateSlot(t) ==
  LET p == Slot(heap, t.at) IN
  /\ t.do = "slot"
  /\ IF Alive(t.at)
     THEN /\ work' = (IF p = Null THEN <<>>
                      ELSE Inside(heap, p) \o <<FreeBlock(p), Task("null", t.at, Null)>>)
                     \o Tail(work)
          /\ UNCHANGED fault
     ELSE /\ fault' = "use_after_free"
          /\ UNCHANGED work
  /\ UNCHANGED heap

FreeOne(t) ==
  /\ t.do = "free"
  /\ IF t.block = Null \/ heap[t.block].live
     THEN /\ heap' = IF t.block = Null THEN heap
                     ELSE [heap EXCEPT ![t.block].live = FALSE]
          /\ work' = Tail(work)
          /\ UNCHANGED fault
     ELSE /\ fault' = "double_free"
          /\ UNCHANGED <<heap, work>>

NullSlot(t) ==
  /\ t.do = "null"
  /\ IF heap[t.at[1]].live
     THEN /\ heap' = Point(heap, t.at, Null)
          /\ work' = Tail(work)
          /\ UNCHANGED fault
     ELSE /\ fault' = "use_after_free"
          /\ UNCHANGED <<heap, work>>

WalkStep ==
  /\ phase = "freeing"
  /\ work # <<>>
  /\ DeallocateSlot(Head(work)) \/ FreeOne(Head(work)) \/ NullSlot(Head(work))
  /\ UNCHANGED <<phase, held, destroys, owned>>

\* The name is erased and msm_free returns.
Return ==
  /\ phase = "freeing"
  /\ work = <<>>
  /\ phase' = "closed"
  /\ UNCHANGED <<heap, work, held, destroys, owned, fault>>

\* After a misuse nothing is promised.  No call starts that might allocate
\* beyond MaxBlocks.
Next ==
  /\ fault = "none"
  /\ \/ Calls /\ Len(heap') <= MaxBlocks[heap[1].of]
     \/ TakeView
     \/ \E destructor \in Destructors : Free(destructor)
     \/ WalkStep
     \/ Return

Spec == Init /\ [][Next]_vars

-----------------------------------------------------------------------------
(* Properties *)

Kinds == {"region", "text", "array", "object", "value"}

\* The variables have their types and no buffer holds more than its capacity.
TypeOK ==
  /\ \A b \in DOMAIN heap :
       /\ heap[b].live \in BOOLEAN
       /\ heap[b].kind \in Kinds
       /\ heap[b].size * Len(heap[b].of) <= Len(heap[b].slots)
       /\ \A i \in DOMAIN heap[b].slots : heap[b].slots[i] \in {Null} \cup DOMAIN heap
       /\ heap[b].name \in Names \cup {NoName}
  /\ phase \in {"open", "freeing", "closed"}
  /\ held = NoSlot \/ held[2] \in DOMAIN heap[held[1]].slots
  /\ destroys \in {"never", "current", "stale"}
  /\ owned \subseteq DOMAIN heap
  /\ fault \in {"none", "dead_view", "use_after_free", "double_free"}

\* The blocks below a region are a tree of live blocks: every pointer the
\* destructor will follow leads to a block that is still allocated and that
\* no other pointer it will follow leads to, so it frees nothing twice.  Stale
\* views do not spoil this, whatever is written through them, because no
\* buffer that was replaced is ever read again; only a destroy through one
\* does, for it resets a pointer nobody uses (array.hpp:163-176).
OneOwner ==
  phase = "open" /\ destroys # "stale" =>
    LET reached == Reached(heap)
        pointers == UNION {{b} \X InUse(heap[b]) : b \in reached}
    IN  /\ \A b \in reached : heap[b].live
        /\ \A x, y \in pointers :
             Slot(heap, x) # Null /\ Slot(heap, x) = Slot(heap, y) => x = y

\* While the region is open a view is good for ever, however often the array
\* or object it was taken of grew or shrank meanwhile (contract G2), unless
\* an array was destroyed.  msm_free kills the views that are left
\* (msm_allocator.cpp:203-221), and its walk itself only goes wrong after a
\* destroy through a stale view.
OnlyDeadViewsFault ==
  fault # "none" =>
    \/ fault = "dead_view" /\ (phase # "open" \/ destroys # "never")
    \/ destroys = "stale"

\* Growing an array or an object changes the buffer and nothing else: all
\* that was reached before, but the old buffer, is reached after it, with
\* what the elements own (msm_allocator.cpp:293-300, 617-619).
GrowKeepsContents ==
  [][Len(heap) < Len(heap') =>
       \A at \in Current :
         LET p == Slot(heap, at)
             q == Slot(heap', at)
         IN  p # Null /\ q # p /\ heap[p].kind # "text" /\ heap[p].size <= heap'[q].size
               => Reached(heap) \ Reached(heap') = {p}]_vars

\* When msm_free returns it has released exactly what the region owned:
\* nothing below an object in an object, no buffer or text that was replaced,
\* no value that was removed, nothing behind the size of an array, and without
\* a destructor only the region itself.  So neither "msm_free actually releases
\* everything" (test_memory_overhead.cpp:208) nor "leaks until segment teardown"
\* of a removed value (msm_allocator.cpp:953-956) says what happens.
TeardownReleases ==
  phase = "closed" => owned = {b \in DOMAIN heap : ~heap[b].live}

=============================================================================
