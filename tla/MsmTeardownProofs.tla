-------------------------- MODULE MsmTeardownProofs -------------------------
(* Theorems about MsmTeardown, for every set of slot types and every region: *)
(* what a program finds below its region is a tree, and msm_free releases    *)
(* exactly that (TeardownInv).                                               *)
EXTENDS MsmTeardown, TLAPS

-----------------------------------------------------------------------------
(* The blocks are what the slots that lead to them say. *)

Types == SlotTypes \cup FieldTypes \cup {Value}

BlockType ==
  [live : BOOLEAN, kind : Kinds, of : Seq(Types), size : Nat, slots : Seq(Nat),
   name : Names \cup {NoName}]

\* What the blocks of each kind are made of.
Shaped(b) ==
  \/ b.kind = "region" /\ b.of \in Seq(SlotTypes) /\ b.size = 1
  \/ b.kind = "text" /\ b.of = <<>> /\ b.size = 0
  \/ b.kind = "value" /\ b.size = 1 /\ \E t \in FieldTypes : b.of = <<t>>
  \/ b.kind = "object" /\ b.of = <<Value>>
  \/ b.kind = "array" /\ b.of \in Seq(SlotTypes) \ {<<>>}

\* Whole elements, the ones in use among them.
Fits(b) == \E n \in Nat : Len(b.slots) = n * Len(b.of) /\ b.size <= n

\* A slot of type t may lead to b.
Leads(t, b) ==
  \/ t.kind = "string" /\ b.kind = "text"
  \/ t.kind = "array" /\ b.kind = "array" /\ b.of = t.of
  \/ t.kind = "object" /\ b.kind = "object"
  \/ t.kind = "value" /\ b.kind = "value"

LedRight(h, at) ==
  Slot(h, at) # Null =>
    Slot(h, at) \in DOMAIN h /\ Leads(SlotType(h, at), h[Slot(h, at)])

WellTyped(h) ==
  /\ h \in Seq(BlockType)
  /\ h # <<>> /\ h[1].kind = "region"
  /\ \A b \in DOMAIN h : Shaped(h[b]) /\ Fits(h[b])
  /\ \A b \in DOMAIN h : \A i \in DOMAIN h[b].slots : LedRight(h, <<b, i>>)

AllSlots(h) == {at \in Nat \X Nat : at[1] \in DOMAIN h /\ at[2] \in DOMAIN h[at[1]].slots}

-----------------------------------------------------------------------------
(* While the region is open. *)

\* R has the region's block and all that can ever be found below it, the slots
\* behind the size of an array included: a commit may bring them back.
Tree(h, R) ==
  /\ 1 \in R /\ R \subseteq DOMAIN h
  /\ \A b \in R : \A i \in DOMAIN h[b].slots : h[b].slots[i] \in (R \ {1}) \cup {Null}
  /\ \A a, b \in R : \A i \in DOMAIN h[a].slots, j \in DOMAIN h[b].slots :
       h[a].slots[i] # Null /\ h[a].slots[i] = h[b].slots[j] => a = b /\ i = j

Dead(h) == {b \in DOMAIN h : ~h[b].live}

OpenHeap(h, d) ==
  /\ \A b \in Dead(h) : h[b].kind = "array"
  /\ d = "never" => Dead(h) = {}
  /\ \E R \in SUBSET DOMAIN h : Tree(h, R) /\ (d # "stale" => R \cap Dead(h) = {})

-----------------------------------------------------------------------------
(* While msm_free runs: what the work left will free. *)

TaskType ==
  [do : {"slot", "free", "null"}, at : Nat \X Nat, block : Nat]

\* Task t frees block c, now or with what is below it.
Frees(h, t, c) ==
  \/ t.do = "free" /\ t.block = c
  \/ t.do = "slot" /\ Slot(h, t.at) = c

\* A block is freed behind what it leads to, and a pointer is reset behind that.
InOrder(h, w) ==
  \A j \in DOMAIN w :
    /\ w[j].do = "free" /\ w[j].block # Null =>
         \A c \in OwnBelow(h[w[j].block]) :
           ~h[c].live \/ \E i \in 1 .. j - 1 : Frees(h, w[i], c)
    /\ w[j].do = "null" /\ Slot(h, w[j].at) # Null =>
         \/ ~h[Slot(h, w[j].at)].live
         \/ \E i \in 1 .. j - 1 : w[i].do = "free" /\ w[i].block = Slot(h, w[j].at)

\* Every live block of O is freed: it is in each set that has the blocks the
\* tasks free and all that is below its blocks.
Covers(h, w, O) ==
  \A S \in SUBSET DOMAIN h :
    /\ \A b \in S : OwnBelow(h[b]) \subseteq S
    /\ \A j \in DOMAIN w : \A c \in DOMAIN h : Frees(h, w[j], c) => c \in S
    => O \ Dead(h) \subseteq S

\* The walk stays inside O.
StaysIn(h, w, O) ==
  /\ \A b \in O :
       /\ h[b].live \/ h[b].kind = "value"
       /\ ~(h[b].kind = "value" /\ h[b].of = <<Object>>)
       => \A i \in InUse(h[b]) : h[b].slots[i] \in O \cup {Null}
  /\ \A j \in DOMAIN w :
       /\ w[j].do = "free" => w[j].block \in O \cup {Null}
       /\ w[j].do = "slot" => /\ w[j].at[1] \in O
                              /\ h[w[j].at[1]].kind \in {"region", "array"}
                              /\ w[j].at[2] \in InUse(h[w[j].at[1]])
       /\ w[j].do = "null" => w[j].at \in AllSlots(h)

Walking(h, w, O) ==
  /\ Dead(h) \subseteq O /\ O \subseteq DOMAIN h
  /\ StaysIn(h, w, O)
  /\ InOrder(h, w)
  /\ Covers(h, w, O)

\* Without a destructor the region's block is all that is freed.
Bare(h, w, O) ==
  \/ w = <<FreeBlock(1)>> /\ O = Dead(h) \cup {1}
  \/ w = <<>> /\ O = Dead(h)

-----------------------------------------------------------------------------
(* While msm_free runs: what the walk meets is live. *)

FreesAt(w, j, b) == j \in DOMAIN w /\ w[j].do = "free" /\ w[j].block = b

Touched(h, w, b) == ~h[b].live \/ \E j \in DOMAIN w : FreesAt(w, j, b)

SafeWalk(h, w, R) ==
  /\ \A j \in DOMAIN w : w[j].do = "free" /\ w[j].block # Null =>
       w[j].block \in R /\ h[w[j].block].live
  /\ \A i, j \in DOMAIN w : \A b \in R : FreesAt(w, i, b) /\ FreesAt(w, j, b) => i = j
  /\ \A j \in DOMAIN w : w[j].do \in {"slot", "null"} =>
       \E k \in DOMAIN w : k > j /\ FreesAt(w, k, w[j].at[1])
  /\ \A i, j \in DOMAIN w :
       w[i].do = "slot" /\ w[j].do = "slot" /\ w[i].at = w[j].at => i = j
  /\ \A j \in DOMAIN w : w[j].do = "slot" /\ Slot(h, w[j].at) # Null =>
       ~Touched(h, w, Slot(h, w[j].at))
  /\ \A b \in R : \A i \in DOMAIN h[b].slots :
       h[b].slots[i] # Null /\ Touched(h, w, h[b].slots[i]) => Touched(h, w, b)

FreeingInv ==
  /\ work \in Seq(TaskType)
  /\ Bare(heap, work, owned) \/ Walking(heap, work, owned)
  /\ destroys # "stale" =>
       \E R \in SUBSET DOMAIN heap : Tree(heap, R) /\ SafeWalk(heap, work, R)

TeardownInv ==
  /\ WellTyped(heap)
  /\ phase \in {"open", "freeing", "closed"}
  /\ held = NoSlot \/ held \in AllSlots(heap)
  /\ destroys \in {"never", "current", "stale"}
  /\ owned \subseteq DOMAIN heap
  /\ fault \in {"none", "dead_view", "use_after_free", "double_free"}
  /\ phase = "open" => OpenHeap(heap, destroys)
  /\ phase = "freeing" => FreeingInv
  /\ TeardownReleases
  /\ OnlyDeadViewsFault

-----------------------------------------------------------------------------
(* What the operations on a heap change. *)

\* The blocks of h are in g, with the same types and room.
Kept(h, g) ==
  \A b \in DOMAIN h :
    /\ b \in DOMAIN g
    /\ g[b].kind = h[b].kind /\ g[b].of = h[b].of /\ g[b].name = h[b].name
    /\ Len(g[b].slots) = Len(h[b].slots)

LEMMA HeapType ==
  ASSUME NEW h \in Seq(BlockType), NEW b \in DOMAIN h
  PROVE  /\ h[b] \in BlockType
         /\ h[b].live \in BOOLEAN /\ h[b].kind \in Kinds /\ h[b].of \in Seq(Types)
         /\ h[b].size \in Nat /\ h[b].slots \in Seq(Nat)
         /\ h[b].name \in Names \cup {NoName}
         /\ DOMAIN h[b].slots = 1 .. Len(h[b].slots) /\ Len(h[b].slots) \in Nat
         /\ DOMAIN h[b].of = 1 .. Len(h[b].of) /\ Len(h[b].of) \in Nat
         /\ \A i \in DOMAIN h[b].slots : h[b].slots[i] \in Nat
         /\ DOMAIN h = 1 .. Len(h) /\ Len(h) \in Nat /\ b \in Nat
<1>1. h[b] \in BlockType
  OBVIOUS
<1>2. QED
  BY <1>1 DEF BlockType

LEMMA Allocating ==
  ASSUME NEW h \in Seq(BlockType), NEW b \in BlockType
  PROVE  LET g == Allocate(h, b) IN
         /\ g \in Seq(BlockType)
         /\ DOMAIN h = 1 .. Len(h)
         /\ DOMAIN g = DOMAIN h \cup {Len(h) + 1}
         /\ Len(h) \in Nat /\ Len(h) + 1 \notin DOMAIN h
         /\ Len(g) = Len(h) + 1
         /\ g[Len(h) + 1] = b
         /\ \A a \in DOMAIN h : g[a] = h[a]
BY DEF Allocate

LEMMA Pointing ==
  ASSUME NEW h \in Seq(BlockType), NEW at \in AllSlots(h), NEW q \in Nat
  PROVE  LET g == Point(h, at, q) IN
         /\ g \in Seq(BlockType)
         /\ DOMAIN g = DOMAIN h /\ Len(g) = Len(h) /\ Kept(h, g)
         /\ \A b \in DOMAIN h :
              /\ g[b].live = h[b].live /\ g[b].size = h[b].size
              /\ DOMAIN g[b].slots = DOMAIN h[b].slots
              /\ b # at[1] => g[b] = h[b]
              /\ \A i \in DOMAIN h[b].slots :
                   g[b].slots[i] = IF b = at[1] /\ i = at[2] THEN q ELSE h[b].slots[i]
<1> DEFINE g == Point(h, at, q)
           a == at[1]
<1>1. PICK old \in BlockType : old = h[a]
  BY DEF AllSlots
<1>a. old.slots \in Seq(Nat)
  BY <1>1 DEF BlockType
<1>b. \A t \in Seq(Nat) : \A i \in DOMAIN t : [t EXCEPT ![i] = q] \in Seq(Nat)
  OBVIOUS
<1>0. PICK s \in Seq(Nat) : s = [old.slots EXCEPT ![at[2]] = q]
  BY <1>1, <1>a, <1>b DEF AllSlots
<1>2. PICK new \in BlockType : new = [old EXCEPT !.slots = s]
  BY <1>1 DEF BlockType
<1>3. a \in DOMAIN h /\ at[2] \in DOMAIN old.slots
  BY <1>1 DEF AllSlots
<1>4. g = [h EXCEPT ![a] = new]
  BY <1>0, <1>1, <1>2, <1>3 DEF Point
<1> HIDE DEF g
<1>5. /\ new.live = old.live /\ new.kind = old.kind /\ new.of = old.of
      /\ new.size = old.size /\ new.name = old.name
      /\ new.slots = [old.slots EXCEPT ![at[2]] = q]
  BY <1>0, <1>2 DEF BlockType
<1>6. /\ DOMAIN new.slots = DOMAIN old.slots
      /\ \A i \in DOMAIN old.slots :
           new.slots[i] = IF i = at[2] THEN q ELSE old.slots[i]
  BY <1>3, <1>5
<1>7. Len(new.slots) = Len(old.slots)
  BY <1>6 DEF BlockType
<1>8. g \in Seq(BlockType) /\ DOMAIN g = DOMAIN h /\ Len(g) = Len(h)
  BY <1>3, <1>4
<1>9. \A b \in DOMAIN h : g[b] = IF b = a THEN new ELSE h[b]
  BY <1>4
<1>10. QED
  BY <1>1, <1>3, <1>5, <1>6, <1>7, <1>8, <1>9 DEF Kept, g

LEMMA Killing ==
  ASSUME NEW h \in Seq(BlockType), NEW p \in DOMAIN h
  PROVE  LET g == [h EXCEPT ![p].live = FALSE] IN
         /\ g \in Seq(BlockType)
         /\ DOMAIN g = DOMAIN h /\ Len(g) = Len(h) /\ Kept(h, g)
         /\ \A b \in DOMAIN h :
              /\ g[b].live <=> (b # p /\ h[b].live)
              /\ g[b].size = h[b].size /\ g[b].slots = h[b].slots
              /\ b # p => g[b] = h[b]
<1> DEFINE g == [h EXCEPT ![p].live = FALSE]
<1>1. PICK old \in BlockType : old = h[p]
  OBVIOUS
<1>2. PICK new \in BlockType : new = [old EXCEPT !.live = FALSE]
  BY <1>1 DEF BlockType
<1>3. g = [h EXCEPT ![p] = new]
  BY <1>1, <1>2
<1> HIDE DEF g
<1>4. /\ new.live = FALSE /\ new.kind = old.kind /\ new.of = old.of
      /\ new.size = old.size /\ new.name = old.name /\ new.slots = old.slots
  BY <1>2 DEF BlockType
<1>5. g \in Seq(BlockType) /\ DOMAIN g = DOMAIN h /\ Len(g) = Len(h)
  BY <1>3
<1>6. \A b \in DOMAIN h : g[b] = IF b = p THEN new ELSE h[b]
  BY <1>3
<1>7. QED
  BY <1>1, <1>4, <1>5, <1>6 DEF Kept, g

LEMMA Resizing ==
  ASSUME NEW h \in Seq(BlockType), NEW p \in DOMAIN h, NEW n \in Nat
  PROVE  LET g == [h EXCEPT ![p].size = n] IN
         /\ g \in Seq(BlockType)
         /\ DOMAIN g = DOMAIN h /\ Len(g) = Len(h) /\ Kept(h, g)
         /\ \A b \in DOMAIN h :
              /\ g[b].size = IF b = p THEN n ELSE h[b].size
              /\ g[b].live = h[b].live /\ g[b].slots = h[b].slots
              /\ b # p => g[b] = h[b]
<1> DEFINE g == [h EXCEPT ![p].size = n]
<1>1. PICK old \in BlockType : old = h[p]
  OBVIOUS
<1>2. PICK new \in BlockType : new = [old EXCEPT !.size = n]
  BY <1>1 DEF BlockType
<1>3. g = [h EXCEPT ![p] = new]
  BY <1>1, <1>2
<1> HIDE DEF g
<1>4. /\ new.size = n /\ new.kind = old.kind /\ new.of = old.of
      /\ new.live = old.live /\ new.name = old.name /\ new.slots = old.slots
  BY <1>2 DEF BlockType
<1>5. g \in Seq(BlockType) /\ DOMAIN g = DOMAIN h /\ Len(g) = Len(h)
  BY <1>3
<1>6. \A b \in DOMAIN h : g[b] = IF b = p THEN new ELSE h[b]
  BY <1>3
<1>7. QED
  BY <1>1, <1>4, <1>5, <1>6 DEF Kept, g

LEMMA Zeroing ==
  ASSUME NEW h \in Seq(BlockType), NEW p \in DOMAIN h, NEW Z
  PROVE  LET g == Zeroed(h, p, Z) IN
         /\ g \in Seq(BlockType)
         /\ DOMAIN g = DOMAIN h /\ Len(g) = Len(h) /\ Kept(h, g)
         /\ \A b \in DOMAIN h :
              /\ g[b].live = h[b].live /\ g[b].size = h[b].size
              /\ DOMAIN g[b].slots = DOMAIN h[b].slots
              /\ b # p => g[b] = h[b]
              /\ \A i \in DOMAIN h[b].slots :
                   g[b].slots[i] = IF b = p /\ i \in Z THEN Null ELSE h[b].slots[i]
<1> DEFINE g == Zeroed(h, p, Z)
<1>1. PICK old \in BlockType : old = h[p]
  OBVIOUS
<1>2. old.slots \in Seq(Nat)
  BY <1>1 DEF BlockType
<1>3. \A t \in Seq(Nat) : [i \in DOMAIN t |-> IF i \in Z THEN Null ELSE t[i]] \in Seq(Nat)
  BY SMTT(60) DEF Null
<1>4. PICK s \in Seq(Nat) :
        s = [i \in DOMAIN old.slots |-> IF i \in Z THEN Null ELSE old.slots[i]]
  BY <1>2, <1>3
<1>5. PICK new \in BlockType : new = [old EXCEPT !.slots = s]
  BY <1>1 DEF BlockType
<1>6. g = [h EXCEPT ![p] = new]
  BY <1>1, <1>4, <1>5 DEF Zeroed
<1> HIDE DEF g
<1>7. /\ new.live = old.live /\ new.kind = old.kind /\ new.of = old.of
      /\ new.size = old.size /\ new.name = old.name /\ new.slots = s
  BY <1>5 DEF BlockType
<1>8. DOMAIN s = DOMAIN old.slots
  BY <1>4
<1>9. Len(s) = Len(old.slots)
  BY <1>2, <1>8
<1>10. g \in Seq(BlockType) /\ DOMAIN g = DOMAIN h /\ Len(g) = Len(h)
  BY <1>6
<1>11. \A b \in DOMAIN h : g[b] = IF b = p THEN new ELSE h[b]
  BY <1>6
<1>12. QED
  BY <1>1, <1>4, <1>7, <1>8, <1>9, <1>10, <1>11 DEF Kept, g

-----------------------------------------------------------------------------
(* The heap stays well typed. *)

\* A slot type that the types of blocks are made of.
LEMMA SlotTypeKinds ==
  ASSUME NEW t \in Types
  PROVE  /\ t.kind \in {"scalar", "string", "value", "object", "array"}
         /\ t.kind = "array" =>
              /\ t \in SlotTypes /\ t.of \in Seq(SlotTypes) \ {<<>>}
              /\ \A i \in DOMAIN t.of : t.of[i] # t
         /\ t.kind = "value" => t = Value
         /\ t.kind = "object" => t = Object
         /\ t.kind = "string" => t = String
         /\ t.kind = "scalar" => t = Scalar
<1>1. \/ t \in {Scalar, String, Object, Value}
      \/ /\ t \in SlotTypes /\ t = ArrayOf(t.of) /\ t.of \in Seq(SlotTypes) \ {<<>>}
         /\ \A i \in DOMAIN t.of : t.of[i] # t
  BY ConstantsAssumption DEF Types
<1>2. CASE t \in {Scalar, String, Object, Value}
  BY <1>2 DEF Scalar, String, Object, Value
<1>3. CASE /\ t \in SlotTypes /\ t = ArrayOf(t.of) /\ t.of \in Seq(SlotTypes) \ {<<>>}
           /\ \A i \in DOMAIN t.of : t.of[i] # t
  <2>1. t.kind = "array"
    BY <1>3 DEF ArrayOf
  <2>2. QED
    BY <1>3, <2>1
<1>4. QED
  BY <1>1, <1>2, <1>3

\* What a slot, of one type only, has.
LEMMA TypeOfSlot ==
  ASSUME NEW h, WellTyped(h), NEW b \in DOMAIN h, NEW i \in DOMAIN h[b].slots
  PROVE  /\ i \in Nat \ {0} /\ b \in Nat /\ Len(h[b].of) \in Nat \ {0}
         /\ ((i - 1) % Len(h[b].of)) + 1 \in DOMAIN h[b].of
         /\ SlotType(h, <<b, i>>) = h[b].of[((i - 1) % Len(h[b].of)) + 1]
         /\ SlotType(h, <<b, i>>) \in Types
         /\ Slot(h, <<b, i>>) = h[b].slots[i]
         /\ h[b].slots[i] \in {Null} \cup DOMAIN h
<1>1. h \in Seq(BlockType) /\ LedRight(h, <<b, i>>) /\ Fits(h[b])
  BY DEF WellTyped
<1>2. /\ h[b].of \in Seq(Types) /\ Len(h[b].of) \in Nat /\ b \in Nat
      /\ DOMAIN h[b].of = 1 .. Len(h[b].of)
      /\ DOMAIN h[b].slots = 1 .. Len(h[b].slots)
  BY <1>1, HeapType
<1>3. i \in Nat \ {0} /\ Len(h[b].slots) # 0
  BY <1>2
<1>4. PICK n \in Nat : Len(h[b].slots) = n * Len(h[b].of)
  BY <1>1 DEF Fits
<1>5. \A m \in Nat : m * 0 = 0
  OBVIOUS
<1>6. Len(h[b].of) # 0
  BY <1>3, <1>4, <1>5
<1>7. \A k, m \in Nat \ {0} : ((k - 1) % m) + 1 \in 1 .. m
  OBVIOUS
<1>8. ((i - 1) % Len(h[b].of)) + 1 \in DOMAIN h[b].of
  BY <1>2, <1>3, <1>6, <1>7
<1>9. SlotType(h, <<b, i>>) = h[b].of[((i - 1) % Len(h[b].of)) + 1]
  BY DEF SlotType
<1>10. Slot(h, <<b, i>>) = h[b].slots[i]
  BY DEF Slot
<1>11. \A s \in Seq(Types) : \A k \in DOMAIN s : s[k] \in Types
  OBVIOUS
<1>12. SlotType(h, <<b, i>>) \in Types
  BY <1>2, <1>8, <1>9, <1>11
<1>13. h[b].slots[i] \in {Null} \cup DOMAIN h
  BY <1>1, <1>10 DEF LedRight
<1>14. QED
  BY <1>2, <1>3, <1>6, <1>8, <1>9, <1>10, <1>12, <1>13

\* A slot keeps its type, and what its pointer leads to its own.
LEMMA LedStill ==
  ASSUME NEW h, NEW g, WellTyped(h), Kept(h, g),
         NEW b \in DOMAIN h, NEW i \in DOMAIN h[b].slots,
         g[b].slots[i] \in {Null, h[b].slots[i]}
  PROVE  /\ LedRight(g, <<b, i>>) /\ LedRight(h, <<b, i>>)
         /\ SlotType(g, <<b, i>>) = SlotType(h, <<b, i>>)
<1>1. LedRight(h, <<b, i>>)
  BY DEF WellTyped
<1>2. SlotType(g, <<b, i>>) = SlotType(h, <<b, i>>)
  BY DEF Kept, SlotType
<1>3. Slot(g, <<b, i>>) \in {Null, Slot(h, <<b, i>>)}
  BY DEF Slot
<1>4. QED
  BY <1>1, <1>2, <1>3 DEF LedRight, Leads, Kept

\* Changes that leave every block its shape and its pointers, or take some.
LEMMA StillTyped ==
  ASSUME NEW h, NEW g, WellTyped(h), g \in Seq(BlockType), DOMAIN g = DOMAIN h,
         Kept(h, g),
         \A b \in DOMAIN h :
           /\ g[b].size # h[b].size =>
                h[b].kind \in {"array", "object"} /\ Fits(g[b])
           /\ \A i \in DOMAIN h[b].slots : g[b].slots[i] \in {Null, h[b].slots[i]}
  PROVE  WellTyped(g)
<1>1. h \in Seq(BlockType)
  BY DEF WellTyped
<1>2. g # <<>> /\ g[1].kind = "region"
  <2>1. 1 \in DOMAIN h
    BY <1>1 DEF WellTyped
  <2>2. QED
    BY <2>1 DEF WellTyped, Kept
<1>3. ASSUME NEW b \in DOMAIN h PROVE Shaped(g[b]) /\ Fits(g[b])
  <2>1. Shaped(h[b]) /\ Fits(h[b])
    BY DEF WellTyped
  <2>2. Shaped(g[b])
    BY <2>1 DEF Shaped, Kept
  <2>3. Fits(g[b])
    BY <2>1 DEF Fits, Kept
  <2>4. QED
    BY <2>2, <2>3
<1>4. ASSUME NEW b \in DOMAIN g, NEW i \in DOMAIN g[b].slots
      PROVE  LedRight(g, <<b, i>>)
  <2>1. i \in DOMAIN h[b].slots
    <3>1. DOMAIN h[b].slots = 1 .. Len(h[b].slots) /\ DOMAIN g[b].slots = 1 .. Len(g[b].slots)
      BY <1>1, HeapType
    <3>2. QED
      BY <3>1 DEF Kept
  <2>2. QED
    BY <2>1, LedStill
<1>5. QED
  BY <1>2, <1>3, <1>4 DEF WellTyped

LEMMA PointTyped ==
  ASSUME NEW h, WellTyped(h), NEW at \in AllSlots(h), NEW q \in {Null} \cup DOMAIN h,
         q # Null => Leads(SlotType(h, at), h[q])
  PROVE  WellTyped(Point(h, at, q))
<1> DEFINE g == Point(h, at, q)
<1>1. h \in Seq(BlockType)
  BY DEF WellTyped
<1>2. q \in Nat
  BY <1>1 DEF Null
<1>3. /\ g \in Seq(BlockType) /\ DOMAIN g = DOMAIN h /\ Kept(h, g)
      /\ \A b \in DOMAIN h :
           /\ g[b].size = h[b].size
           /\ DOMAIN g[b].slots = DOMAIN h[b].slots
           /\ \A i \in DOMAIN h[b].slots :
                g[b].slots[i] = IF b = at[1] /\ i = at[2] THEN q ELSE h[b].slots[i]
  BY <1>1, <1>2, Pointing
<1> HIDE DEF g
<1>4. g # <<>> /\ g[1].kind = "region"
  <2>1. 1 \in DOMAIN h
    BY <1>1 DEF WellTyped
  <2>2. QED
    BY <1>3, <2>1 DEF WellTyped, Kept
<1>5. ASSUME NEW b \in DOMAIN h PROVE Shaped(g[b]) /\ Fits(g[b])
  <2>1. Shaped(h[b]) /\ Fits(h[b])
    BY DEF WellTyped
  <2>2. Shaped(g[b])
    BY <1>3, <2>1 DEF Shaped, Kept
  <2>3. Fits(g[b])
    BY <1>3, <2>1 DEF Fits, Kept
  <2>4. QED
    BY <2>2, <2>3
<1>6. ASSUME NEW b \in DOMAIN h, NEW i \in DOMAIN h[b].slots
      PROVE  LedRight(g, <<b, i>>)
  <2>1. CASE ~(b = at[1] /\ i = at[2])
    BY <1>3, <2>1, LedStill
  <2>2. CASE b = at[1] /\ i = at[2]
    <3>1. at = <<b, i>>
      BY <2>2 DEF AllSlots
    <3>2. SlotType(g, at) = SlotType(h, at)
      BY <1>3, <2>2 DEF SlotType, Kept
    <3>3. Slot(g, at) = q
      BY <1>3, <2>2 DEF Slot
    <3>4. q # Null => Leads(SlotType(h, at), g[q])
      BY <1>3 DEF Leads, Kept
    <3>5. QED
      BY <1>3, <3>1, <3>2, <3>3, <3>4 DEF LedRight
  <2>3. QED
    BY <2>1, <2>2
<1>7. WellTyped(g)
  BY <1>3, <1>4, <1>5, <1>6 DEF WellTyped
<1>8. QED
  BY <1>7 DEF g

\* A block that may be added to h: its slots lead into h.
Fresh(h, b) ==
  /\ b \in BlockType /\ Shaped(b) /\ Fits(b)
  /\ b.kind # "region"
  /\ \A i \in DOMAIN b.slots : b.slots[i] # Null =>
       /\ b.slots[i] \in DOMAIN h
       /\ Leads(b.of[((i - 1) % Len(b.of)) + 1], h[b.slots[i]])

LEMMA AllocateTyped ==
  ASSUME NEW h, WellTyped(h), NEW b, Fresh(h, b)
  PROVE  WellTyped(Allocate(h, b)) /\ Kept(h, Allocate(h, b))
<1> DEFINE g == Allocate(h, b)
           n == Len(h) + 1
<1>1. h \in Seq(BlockType) /\ b \in BlockType
  BY DEF WellTyped, Fresh
<1>2. /\ g \in Seq(BlockType)
      /\ DOMAIN g = DOMAIN h \cup {n} /\ n \notin DOMAIN h
      /\ g[n] = b
      /\ \A a \in DOMAIN h : g[a] = h[a]
      /\ DOMAIN h = 1 .. Len(h)
  BY <1>1, Allocating
<1> HIDE DEF g
<1>3. Kept(h, g)
  BY <1>2 DEF Kept
<1>4. g # <<>> /\ g[1].kind = "region"
  <2>1. 1 \in DOMAIN h
    BY <1>1 DEF WellTyped
  <2>2. QED
    BY <1>2, <2>1 DEF WellTyped
<1>5. ASSUME NEW a \in DOMAIN g PROVE Shaped(g[a]) /\ Fits(g[a])
  BY <1>2 DEF WellTyped, Fresh
<1>6. ASSUME NEW a \in DOMAIN g, NEW i \in DOMAIN g[a].slots
      PROVE  LedRight(g, <<a, i>>)
  <2>1. CASE a \in DOMAIN h
    BY <1>2, <1>3, <2>1, LedStill
  <2>2. CASE a = n
    <3>1. Slot(g, <<a, i>>) = b.slots[i]
      BY <1>2, <2>2 DEF Slot
    <3>2. SlotType(g, <<a, i>>) = b.of[((i - 1) % Len(b.of)) + 1]
      BY <1>2, <2>2 DEF SlotType
    <3>3. b.slots[i] # Null =>
            b.slots[i] \in DOMAIN h /\ Leads(SlotType(g, <<a, i>>), h[b.slots[i]])
      BY <1>2, <2>2, <3>2 DEF Fresh
    <3>4. QED
      BY <1>2, <3>1, <3>3 DEF LedRight
  <2>3. QED
    BY <1>2, <2>1, <2>2
<1>7. WellTyped(g)
  BY <1>2, <1>4, <1>5, <1>6 DEF WellTyped
<1>8. QED
  BY <1>3, <1>7 DEF g

\* g is h with a fresh block b below the slot at.
Attaches(h, g, at, b) ==
  /\ g \in Seq(BlockType) /\ Kept(h, g)
  /\ DOMAIN h = 1 .. Len(h) /\ Len(h) \in Nat /\ Len(g) = Len(h) + 1
  /\ DOMAIN g = DOMAIN h \cup {Len(h) + 1} /\ Len(h) + 1 \notin DOMAIN h
  /\ g[Len(h) + 1] = b
  /\ \A a \in DOMAIN h :
       /\ g[a].live = h[a].live /\ g[a].size = h[a].size
       /\ DOMAIN g[a].slots = DOMAIN h[a].slots
       /\ \A i \in DOMAIN h[a].slots :
            g[a].slots[i] = IF a = at[1] /\ i = at[2] THEN Len(h) + 1 ELSE h[a].slots[i]

LEMMA Attaching ==
  ASSUME NEW h, WellTyped(h), NEW b, Fresh(h, b),
         NEW at \in AllSlots(h), Leads(SlotType(h, at), b)
  PROVE  LET g == Point(Allocate(h, b), at, Len(h) + 1) IN
         WellTyped(g) /\ Attaches(h, g, at, b)
<1> DEFINE n == Len(h) + 1
           f == Allocate(h, b)
           g == Point(f, at, n)
<1>1. h \in Seq(BlockType) /\ b \in BlockType
  BY DEF WellTyped, Fresh
<1>2. /\ f \in Seq(BlockType)
      /\ DOMAIN f = DOMAIN h \cup {n} /\ n \notin DOMAIN h
      /\ f[n] = b
      /\ \A a \in DOMAIN h : f[a] = h[a]
      /\ DOMAIN h = 1 .. Len(h) /\ Len(h) \in Nat /\ Len(f) = n
  BY <1>1, Allocating
<1>3. WellTyped(f) /\ Kept(h, f)
  BY AllocateTyped
<1> HIDE DEF f
<1>4. at \in AllSlots(f) /\ at[1] \in DOMAIN h /\ at[1] # n
  BY <1>2 DEF AllSlots
<1>5. SlotType(f, at) = SlotType(h, at)
  BY <1>3, <1>4 DEF SlotType, Kept
<1>6. WellTyped(g)
  BY <1>2, <1>3, <1>4, <1>5, PointTyped
<1>7. /\ g \in Seq(BlockType)
      /\ DOMAIN g = DOMAIN f /\ Len(g) = Len(f) /\ Kept(f, g)
      /\ \A a \in DOMAIN f :
           /\ g[a].live = f[a].live /\ g[a].size = f[a].size
           /\ DOMAIN g[a].slots = DOMAIN f[a].slots
           /\ a # at[1] => g[a] = f[a]
           /\ \A i \in DOMAIN f[a].slots :
                g[a].slots[i] = IF a = at[1] /\ i = at[2] THEN n ELSE f[a].slots[i]
  BY <1>2, <1>4, Pointing
<1> HIDE DEF g
<1>8. Kept(h, g)
  BY <1>3, <1>7 DEF Kept
<1>9. Attaches(h, g, at, b)
  BY <1>2, <1>4, <1>7, <1>8 DEF Attaches
<1>10. QED
  BY <1>6, <1>9 DEF g, f

-----------------------------------------------------------------------------
(* Buffers. *)

\* The types of the slots of an array's or an object's elements.
LEMMA ElementTypes ==
  /\ \A s \in Seq(SlotTypes) \ {<<>>} : s \in Seq(Types) /\ Len(s) \in Nat \ {0}
  /\ <<Value>> \in Seq(Types) /\ Len(<<Value>>) = 1
<1>1. \A s \in Seq(SlotTypes) : s # <<>> => s \in Seq(Types) /\ Len(s) \in Nat \ {0}
  BY DEF Types
<1>2. Value \in Types
  BY DEF Types
<1>3. QED
  BY <1>1, <1>2

\* What an array's or an object's slot leads to.
LEMMA BufferOf ==
  ASSUME NEW h, WellTyped(h), NEW at \in AllSlots(h), Slot(h, at) # Null
  PROVE  /\ Slot(h, at) \in DOMAIN h
         /\ at[1] \in DOMAIN h /\ at[2] \in DOMAIN h[at[1]].slots
         /\ SlotType(h, at) \in Types
         /\ SlotType(h, at).kind = "string" => h[Slot(h, at)].kind = "text"
         /\ SlotType(h, at).kind \in {"array", "object"} =>
              /\ h[Slot(h, at)].kind = SlotType(h, at).kind
              /\ h[Slot(h, at)].of = SlotType(h, at).of
         /\ SlotType(h, at).kind # "scalar"
<1>1. at[1] \in DOMAIN h /\ at[2] \in DOMAIN h[at[1]].slots /\ at = <<at[1], at[2]>>
  BY DEF AllSlots
<1>2. LedRight(h, at) /\ SlotType(h, at) \in Types
  BY <1>1, TypeOfSlot DEF WellTyped
<1>3. SlotType(h, at).kind = "object" => SlotType(h, at).of = <<Value>>
  BY <1>2, SlotTypeKinds DEF Object
<1>4. Slot(h, at) \in DOMAIN h /\ Leads(SlotType(h, at), h[Slot(h, at)])
  BY <1>2 DEF LedRight
<1>5. h[Slot(h, at)].kind = "object" => h[Slot(h, at)].of = <<Value>>
  BY <1>4 DEF WellTyped, Shaped
<1>6. QED
  BY <1>1, <1>2, <1>3, <1>4, <1>5 DEF Leads

LEMMA RoomInside ==
  ASSUME NEW h, WellTyped(h), NEW p \in DOMAIN h
  PROVE  /\ InUse(h[p]) \subseteq DOMAIN h[p].slots
         /\ h[p].size \in Nat /\ Len(h[p].of) \in Nat
         /\ h[p].size * Len(h[p].of) \in Nat
         /\ h[p].size * Len(h[p].of) <= Len(h[p].slots)
         /\ h[p].kind \in {"array", "object"} =>
              /\ Len(h[p].of) # 0 /\ Cap(h[p]) \in Nat /\ h[p].size <= Cap(h[p])
              /\ Len(h[p].slots) = Cap(h[p]) * Len(h[p].of)
<1>1. h \in Seq(BlockType) /\ Fits(h[p]) /\ Shaped(h[p])
  BY DEF WellTyped
<1>2. /\ h[p].size \in Nat /\ Len(h[p].of) \in Nat /\ h[p].of \in Seq(Types)
      /\ DOMAIN h[p].slots = 1 .. Len(h[p].slots)
  BY <1>1, HeapType
<1>3. PICK n \in Nat : Len(h[p].slots) = n * Len(h[p].of) /\ h[p].size <= n
  BY <1>1 DEF Fits
<1>4. \A s, k, m \in Nat : s <= k => s * m <= k * m /\ s * m \in Nat
  OBVIOUS
<1>5. h[p].size * Len(h[p].of) <= Len(h[p].slots) /\ h[p].size * Len(h[p].of) \in Nat
  BY <1>2, <1>3, <1>4
<1>6. ASSUME h[p].kind \in {"array", "object"}
      PROVE  Len(h[p].of) # 0
  <2>1. h[p].of = <<Value>> \/ h[p].of \in Seq(SlotTypes) \ {<<>>}
    BY <1>1, <1>6 DEF Shaped
  <2>2. QED
    BY <2>1, ElementTypes
<1>7. \A k \in Nat, m \in Nat \ {0} : (k * m) \div m = k
  OBVIOUS
<1>8. ASSUME h[p].kind \in {"array", "object"}
      PROVE  Cap(h[p]) = n
  BY <1>2, <1>3, <1>6, <1>7, <1>8 DEF Cap
<1>9. InUse(h[p]) \subseteq DOMAIN h[p].slots
  BY <1>2, <1>5 DEF InUse
<1>10. QED
  BY <1>2, <1>3, <1>5, <1>6, <1>8, <1>9

\* The buffer that Grown hangs below a slot.
Copied(h, at, b) ==
  LET p == Slot(h, at) IN
  /\ b.live = TRUE /\ b.kind = SlotType(h, at).kind /\ b.of = SlotType(h, at).of
  /\ b.size = IF p = Null THEN 0 ELSE h[p].size
  /\ InUse(b) = IF p = Null THEN {} ELSE InUse(h[p])
  /\ \A i \in DOMAIN b.slots :
       b.slots[i] = IF p # Null /\ i \in InUse(h[p]) THEN h[p].slots[i] ELSE Null
  /\ Len(b.of) \in Nat \ {0}

LEMMA Growing ==
  ASSUME NEW h, WellTyped(h), NEW at \in AllSlots(h),
         SlotType(h, at).kind \in {"array", "object"},
         NEW c \in Nat, Slot(h, at) # Null => h[Slot(h, at)].size <= c
  PROVE  LET g == Grown(h, at, c)
             n == Len(h) + 1
         IN  /\ WellTyped(g) /\ Attaches(h, g, at, g[n])
             /\ Fresh(h, g[n]) /\ Copied(h, at, g[n])
             /\ Len(g[n].slots) = c * Len(g[n].of)
<1> DEFINE t == SlotType(h, at)
           p == Slot(h, at)
           old == h[p]
           n == IF p = Null THEN 0 ELSE old.size
           m == Len(t.of)
           copy == [i \in 1 .. c * m |-> IF i <= n * m THEN old.slots[i] ELSE Null]
           b == Block(t.kind, t.of, n, copy, NoName)
           g == Point(Allocate(h, b), at, Len(h) + 1)
<1>1. h \in Seq(BlockType)
  BY DEF WellTyped
<1>2. t \in Types
  BY TypeOfSlot DEF AllSlots
<1>3. /\ t.of \in Seq(Types) /\ m \in Nat \ {0}
      /\ t.kind = "array" => t.of \in Seq(SlotTypes) \ {<<>>}
      /\ t.kind = "object" => t.of = <<Value>>
  <2>1. CASE t.kind = "array"
    BY <1>2, <2>1, SlotTypeKinds, ElementTypes
  <2>2. CASE t.kind = "object"
    <3>1. t.of = <<Value>>
      BY <1>2, <2>2, SlotTypeKinds DEF Object
    <3>2. QED
      BY <2>2, <3>1, ElementTypes
  <2>3. QED
    BY <2>1, <2>2
<1>4. p # Null => /\ p \in DOMAIN h /\ old.kind = t.kind /\ old.of = t.of
                  /\ n = old.size /\ InUse(old) = 1 .. n * m
                  /\ InUse(old) \subseteq DOMAIN old.slots
  BY BufferOf, RoomInside DEF InUse
<1>5. n \in Nat /\ n <= c
  BY <1>4, RoomInside
<1>6. n * m \in Nat /\ c * m \in Nat /\ n * m <= c * m /\ 0 * m = 0
  <2>1. \A x, y, z \in Nat : x * z \in Nat /\ 0 * z = 0 /\ (x <= y => x * z <= y * z)
    OBVIOUS
  <2>2. QED
    BY <1>3, <1>5, <2>1
<1>7. \A i \in 1 .. n * m : p # Null /\ i \in InUse(old) /\ old.slots[i] \in Nat
  <2>1. n * m # 0 => p # Null
    BY <1>6
  <2>2. p # Null => \A i \in DOMAIN old.slots : old.slots[i] \in Nat
    BY <1>1, <1>4, HeapType
  <2>3. QED
    BY <1>4, <1>6, <2>1, <2>2
<1>8. copy \in Seq(Nat) /\ Len(copy) = c * m /\ DOMAIN copy = 1 .. c * m
  <2>1. copy \in [1 .. c * m -> Nat]
    BY <1>6, <1>7 DEF Null
  <2>2. QED
    BY <1>6, <2>1
<1>9. \A i \in DOMAIN copy :
        copy[i] = IF p # Null /\ i \in InUse(old) THEN old.slots[i] ELSE Null
  BY <1>4, <1>6, <1>7, <1>8
<1> HIDE DEF n, copy
<1>10. /\ b.live = TRUE /\ b.kind = t.kind /\ b.of = t.of /\ b.size = n
       /\ b.slots = copy /\ b.name = NoName
  BY DEF Block
<1>11. b \in BlockType
  BY <1>3, <1>5, <1>8 DEF Block, BlockType, Kinds
<1> HIDE DEF b
<1>12. Fresh(h, b)
  <2>1. Shaped(b) /\ b.kind # "region"
    BY <1>3, <1>10 DEF Shaped
  <2>2. Fits(b)
    BY <1>5, <1>8, <1>10 DEF Fits
  <2>3. ASSUME NEW i \in DOMAIN b.slots, b.slots[i] # Null
        PROVE  /\ b.slots[i] \in DOMAIN h
               /\ Leads(b.of[((i - 1) % Len(b.of)) + 1], h[b.slots[i]])
    <3>1. p # Null /\ i \in InUse(old) /\ b.slots[i] = old.slots[i]
      BY <1>9, <1>10, <2>3
    <3>2. p \in DOMAIN h /\ i \in DOMAIN h[p].slots
      BY <1>4, <3>1
    <3>3. /\ SlotType(h, <<p, i>>) = b.of[((i - 1) % Len(b.of)) + 1]
          /\ Slot(h, <<p, i>>) = b.slots[i]
      BY <1>4, <1>10, <3>1, <3>2, TypeOfSlot
    <3>4. LedRight(h, <<p, i>>)
      BY <3>2 DEF WellTyped
    <3>5. QED
      BY <2>3, <3>3, <3>4 DEF LedRight
  <2>4. QED
    BY <1>11, <2>1, <2>2, <2>3 DEF Fresh
<1>13. Leads(t, b)
  BY <1>10 DEF Leads
<1>14. WellTyped(g) /\ Attaches(h, g, at, b)
  BY <1>12, <1>13, Attaching
<1>15. g[Len(h) + 1] = b
  BY <1>14 DEF Attaches
<1>16. InUse(b) = IF p = Null THEN {} ELSE InUse(old)
  BY <1>3, <1>4, <1>6, <1>10 DEF InUse, n
<1>17. Copied(h, at, b)
  BY <1>3, <1>9, <1>10, <1>16 DEF Copied, n
<1>18. Grown(h, at, c) = g
  BY DEF Grown, b, copy, n
<1> HIDE DEF g
<1>19. Len(b.slots) = c * Len(b.of)
  BY <1>8, <1>10
<1>20. QED
  BY <1>12, <1>14, <1>15, <1>17, <1>18, <1>19

-----------------------------------------------------------------------------
(* What is below the region stays a tree. *)

\* A block of these does not lead to itself.
LEMMA NoSelf ==
  ASSUME NEW h, WellTyped(h), NEW at \in AllSlots(h), Slot(h, at) # Null,
         SlotType(h, at).kind \in {"string", "array", "object"}
  PROVE  Slot(h, at) # at[1]
<1> DEFINE t == SlotType(h, at)
           p == Slot(h, at)
<1>1. /\ p \in DOMAIN h
      /\ at[1] \in DOMAIN h /\ at[2] \in DOMAIN h[at[1]].slots /\ at = <<at[1], at[2]>>
      /\ t \in Types
      /\ t.kind = "string" => h[p].kind = "text"
      /\ t.kind \in {"array", "object"} => h[p].of = t.of
  BY BufferOf DEF AllSlots
<1>2. /\ Len(h[at[1]].of) # 0
      /\ \E i \in DOMAIN h[at[1]].of : t = h[at[1]].of[i]
  BY <1>1, TypeOfSlot
<1>3. CASE t.kind = "string"
  <2>1. h[p].of = <<>>
    BY <1>1, <1>3 DEF WellTyped, Shaped
  <2>2. QED
    BY <1>2, <2>1
<1>4. CASE t.kind = "array"
  BY <1>1, <1>2, <1>4, SlotTypeKinds
<1>5. CASE t.kind = "object"
  <2>1. h[p].of = <<Value>>
    BY <1>1, <1>5, SlotTypeKinds DEF Object
  <2>2. \A i \in DOMAIN <<Value>> : <<Value>>[i].kind # "object"
    BY DEF Value
  <2>3. QED
    BY <1>2, <1>5, <2>1, <2>2
<1>6. QED
  BY <1>3, <1>4, <1>5

\* Changes that lead nowhere new.
LEMMA TreeKept ==
  ASSUME NEW h, NEW g, NEW R, Tree(h, R), DOMAIN h \subseteq DOMAIN g,
         \A b \in R :
           /\ DOMAIN g[b].slots = DOMAIN h[b].slots
           /\ \A i \in DOMAIN h[b].slots : g[b].slots[i] \in {Null, h[b].slots[i]}
  PROVE  Tree(g, R)
BY DEF Tree, Null

LEMMA OpenKept ==
  ASSUME NEW h, NEW g, NEW d, OpenHeap(h, d), DOMAIN h \subseteq DOMAIN g,
         Kept(h, g),
         \A b \in DOMAIN h :
           /\ g[b].live <=> h[b].live
           /\ DOMAIN g[b].slots = DOMAIN h[b].slots
           /\ \A i \in DOMAIN h[b].slots : g[b].slots[i] \in {Null, h[b].slots[i]},
         \A b \in DOMAIN g \ DOMAIN h : g[b].live
  PROVE  OpenHeap(g, d)
<1>1. PICK R \in SUBSET DOMAIN h : Tree(h, R) /\ (d # "stale" => R \cap Dead(h) = {})
  BY DEF OpenHeap
<1>2. Tree(g, R)
  BY <1>1, TreeKept
<1>3. Dead(g) = Dead(h)
  BY DEF Dead
<1>4. \A b \in Dead(g) : g[b].kind = "array"
  BY <1>3 DEF OpenHeap, Kept, Dead
<1>5. QED
  BY <1>1, <1>2, <1>3, <1>4 DEF OpenHeap

\* The slots of b lead nowhere but where those of p do, each elsewhere.
Takes(h, p, b) ==
  \A i, j \in DOMAIN b.slots : b.slots[i] # Null /\ b.slots[j] # Null =>
    /\ p # Null
    /\ \E k, l \in DOMAIN h[p].slots :
         b.slots[i] = h[p].slots[k] /\ b.slots[j] = h[p].slots[l] /\ (k = l => i = j)

LEMMA TreeAttach ==
  ASSUME NEW h, NEW g, NEW b, NEW at \in AllSlots(h), Attaches(h, g, at, b),
         NEW R, Tree(h, R), at[1] \in R,
         Slot(h, at) # at[1], Takes(h, Slot(h, at), b)
  PROVE  Tree(g, (R \ {Slot(h, at)}) \cup {Len(h) + 1})
<1> DEFINE n == Len(h) + 1
           p == Slot(h, at)
           a == at[1]
           Q == (R \ {p}) \cup {n}
<1>1. /\ a \in R \ {p} /\ at[2] \in DOMAIN h[a].slots /\ p = h[a].slots[at[2]]
      /\ p \in R \cup {Null} /\ p # 1
  BY DEF AllSlots, Tree, Slot, Null
<1>2. /\ n \notin DOMAIN h /\ n # 1 /\ n # 0 /\ DOMAIN g = DOMAIN h \cup {n} /\ g[n] = b
      /\ R \subseteq DOMAIN h
  BY DEF Attaches, Tree
<1>3. ASSUME NEW x \in R
      PROVE  /\ DOMAIN g[x].slots = DOMAIN h[x].slots
             /\ \A i \in DOMAIN h[x].slots :
                  g[x].slots[i] = IF x = a /\ i = at[2] THEN n ELSE h[x].slots[i]
  BY <1>2 DEF Attaches
<1>4. 1 \in Q /\ Q \subseteq DOMAIN g
  BY <1>1, <1>2 DEF Tree
<1>5. ASSUME NEW i \in DOMAIN b.slots, b.slots[i] # Null
      PROVE  /\ p \in R
             /\ \E k \in DOMAIN h[p].slots : b.slots[i] = h[p].slots[k]
             /\ b.slots[i] \in R \ {1, p}
  <2>1. p # Null /\ \E k \in DOMAIN h[p].slots : b.slots[i] = h[p].slots[k]
    BY <1>5 DEF Takes
  <2>2. p \in R
    BY <1>1, <2>1
  <2>3. PICK k \in DOMAIN h[p].slots : b.slots[i] = h[p].slots[k]
    BY <2>1
  <2>4. b.slots[i] \in R \ {1}
    BY <1>5, <2>2, <2>3 DEF Tree
  <2>5. b.slots[i] # p
    <3>1. SUFFICES ASSUME b.slots[i] = p PROVE FALSE
      OBVIOUS
    <3>2. /\ p \in R /\ a \in R /\ k \in DOMAIN h[p].slots /\ at[2] \in DOMAIN h[a].slots
          /\ h[p].slots[k] # Null /\ h[p].slots[k] = h[a].slots[at[2]]
      BY <1>1, <1>5, <2>2, <2>3, <3>1
    <3>3. p = a
      BY <3>2 DEF Tree
    <3>4. QED
      BY <1>1, <3>3
  <2>6. QED
    BY <2>1, <2>2, <2>4, <2>5
<1>6. ASSUME NEW x \in R \ {p}, NEW i \in DOMAIN h[x].slots, ~(x = a /\ i = at[2])
      PROVE  /\ h[x].slots[i] \in (R \ {1}) \cup {Null}
             /\ p # Null => h[x].slots[i] # p
             /\ \A j \in DOMAIN b.slots : b.slots[j] # Null => b.slots[j] # h[x].slots[i]
  <2>1. h[x].slots[i] \in (R \ {1}) \cup {Null}
    BY DEF Tree
  <2>2. p # Null => h[x].slots[i] # p
    BY <1>1, <1>6 DEF Tree
  <2>3. ASSUME NEW j \in DOMAIN b.slots, b.slots[j] # Null
        PROVE  b.slots[j] # h[x].slots[i]
    BY <1>5, <2>3 DEF Tree
  <2>4. QED
    BY <2>1, <2>2, <2>3
<1>7. ASSUME NEW x \in Q, NEW i \in DOMAIN g[x].slots
      PROVE  g[x].slots[i] \in (Q \ {1}) \cup {Null}
  <2>1. CASE x = n
    BY <1>2, <1>5, <2>1
  <2>2. CASE x \in R \ {p}
    BY <1>2, <1>3, <1>6, <2>2
  <2>3. QED
    BY <2>1, <2>2
<1>8. ASSUME NEW x \in Q, NEW y \in Q,
             NEW i \in DOMAIN g[x].slots, NEW j \in DOMAIN g[y].slots,
             g[x].slots[i] # Null, g[x].slots[i] = g[y].slots[j]
      PROVE  x = y /\ i = j
  <2>1. CASE x = n /\ y = n
    <3>1. i \in DOMAIN b.slots /\ j \in DOMAIN b.slots /\ b.slots[i] = b.slots[j]
      BY <1>2, <1>8, <2>1
    <3>2. PICK k, l \in DOMAIN h[p].slots :
            b.slots[i] = h[p].slots[k] /\ b.slots[j] = h[p].slots[l] /\ (k = l => i = j)
      BY <1>2, <1>8, <2>1, <3>1 DEF Takes
    <3>3. k = l
      BY <1>2, <1>5, <1>8, <2>1, <3>1, <3>2 DEF Tree
    <3>4. QED
      BY <2>1, <3>2, <3>3
  <2>2. CASE x = n /\ y # n
    BY <1>2, <1>3, <1>5, <1>6, <1>8, <2>2
  <2>3. CASE x # n /\ y = n
    BY <1>2, <1>3, <1>5, <1>6, <1>8, <2>3
  <2>4. CASE x # n /\ y # n
    <3>1. x \in R \ {p} /\ y \in R \ {p}
      BY <2>4
    <3>2. CASE x = a /\ i = at[2]
      BY <1>2, <1>3, <1>6, <1>8, <3>1, <3>2
    <3>3. CASE y = a /\ j = at[2]
      BY <1>2, <1>3, <1>6, <1>8, <3>1, <3>3
    <3>4. CASE ~(x = a /\ i = at[2]) /\ ~(y = a /\ j = at[2])
      BY <1>3, <1>8, <3>1, <3>4 DEF Tree
    <3>5. QED
      BY <3>2, <3>3, <3>4
  <2>5. QED
    BY <2>1, <2>2, <2>3, <2>4
<1>9. QED
  BY <1>4, <1>7, <1>8 DEF Tree

LEMMA OpenAttach ==
  ASSUME NEW h, NEW g, NEW b, NEW at \in AllSlots(h), Attaches(h, g, at, b),
         b.live, Slot(h, at) # at[1], Takes(h, Slot(h, at), b),
         NEW d, OpenHeap(h, d)
  PROVE  OpenHeap(g, d)
<1> DEFINE n == Len(h) + 1
<1>1. PICK R \in SUBSET DOMAIN h : Tree(h, R) /\ (d # "stale" => R \cap Dead(h) = {})
  BY DEF OpenHeap
<1>2. /\ DOMAIN g = DOMAIN h \cup {n} /\ n \notin DOMAIN h /\ g[n] = b
      /\ \A a \in DOMAIN h : g[a].live = h[a].live
  BY DEF Attaches
<1>3. Dead(g) = Dead(h)
  BY <1>2 DEF Dead
<1>4. \A c \in Dead(g) : g[c].kind = "array"
  BY <1>3 DEF OpenHeap, Attaches, Kept, Dead
<1>5. PICK Q \in SUBSET DOMAIN g : Tree(g, Q) /\ Q \subseteq R \cup {n}
  <2>1. CASE at[1] \in R
    <3>1. Tree(g, (R \ {Slot(h, at)}) \cup {n})
      BY <1>1, <2>1, TreeAttach
    <3>2. QED
      BY <1>2, <3>1
  <2>2. CASE at[1] \notin R
    <3>1. Tree(g, R)
      BY <1>1, <1>2, <2>2, TreeKept DEF Attaches
    <3>2. QED
      BY <1>2, <3>1
  <2>3. QED
    BY <2>1, <2>2
<1>6. n \notin Dead(g)
  BY <1>3 DEF Dead, Attaches
<1>7. QED
  BY <1>1, <1>3, <1>4, <1>5, <1>6 DEF OpenHeap

-----------------------------------------------------------------------------
(* The parts of the calls, one by one. *)

Sound(h, d) == WellTyped(h) /\ OpenHeap(h, d)

LEMMA SlotsKept ==
  ASSUME NEW h, NEW g, h \in Seq(BlockType), g \in Seq(BlockType), Kept(h, g)
  PROVE  AllSlots(h) \subseteq AllSlots(g)
<1>1. ASSUME NEW at \in AllSlots(h) PROVE at \in AllSlots(g)
  <2>1. at \in Nat \X Nat /\ at[1] \in DOMAIN h /\ at[2] \in DOMAIN h[at[1]].slots
    BY DEF AllSlots
  <2>2. at[1] \in DOMAIN g /\ Len(g[at[1]].slots) = Len(h[at[1]].slots)
    BY <2>1 DEF Kept
  <2>3. DOMAIN g[at[1]].slots = DOMAIN h[at[1]].slots
    BY <2>1, <2>2, HeapType
  <2>4. QED
    BY <2>1, <2>2, <2>3 DEF AllSlots
<1>2. QED
  BY <1>1

LEMMA TypeKept ==
  ASSUME NEW h, NEW g, Kept(h, g), NEW at \in AllSlots(h)
  PROVE  SlotType(g, at) = SlotType(h, at)
BY DEF Kept, SlotType, AllSlots

LEMMA AttachSound ==
  ASSUME NEW h, NEW d, Sound(h, d), NEW b, Fresh(h, b), b.live,
         NEW at \in AllSlots(h), Leads(SlotType(h, at), b),
         SlotType(h, at).kind \in {"string", "array", "object"},
         Takes(h, Slot(h, at), b)
  PROVE  LET g == Point(Allocate(h, b), at, Len(h) + 1) IN
         Sound(g, d) /\ Attaches(h, g, at, b)
<1> DEFINE g == Point(Allocate(h, b), at, Len(h) + 1)
<1>1. WellTyped(g) /\ Attaches(h, g, at, b)
  BY Attaching DEF Sound
<1> HIDE DEF g
<1>2. Slot(h, at) # at[1]
  <2>1. at[1] # Null
    BY DEF AllSlots, Sound, WellTyped, Null
  <2>2. QED
    BY <2>1, NoSelf DEF Sound
<1>3. OpenHeap(g, d)
  BY <1>1, <1>2, OpenAttach DEF Sound
<1>4. QED
  BY <1>1, <1>3 DEF Sound, g

\* Resets of pointers.
LEMMA NullSound ==
  ASSUME NEW h, NEW d, Sound(h, d), NEW at \in AllSlots(h)
  PROVE  LET g == Point(h, at, Null) IN
         Sound(g, d) /\ Kept(h, g) /\ DOMAIN g = DOMAIN h /\ Len(g) = Len(h)
<1> DEFINE g == Point(h, at, Null)
<1>1. WellTyped(g)
  BY PointTyped DEF Sound
<1>2. /\ DOMAIN g = DOMAIN h /\ Kept(h, g) /\ Len(g) = Len(h)
      /\ \A b \in DOMAIN h :
           /\ g[b].live = h[b].live
           /\ DOMAIN g[b].slots = DOMAIN h[b].slots
           /\ \A i \in DOMAIN h[b].slots :
                g[b].slots[i] = IF b = at[1] /\ i = at[2] THEN Null ELSE h[b].slots[i]
  BY Pointing DEF Sound, WellTyped, Null
<1> HIDE DEF g
<1>3. OpenHeap(g, d)
  BY <1>2, OpenKept DEF Sound
<1>4. QED
  BY <1>1, <1>2, <1>3 DEF Sound, g

LEMMA GrowSound ==
  ASSUME NEW h, NEW d, Sound(h, d), NEW at \in AllSlots(h),
         SlotType(h, at).kind \in {"array", "object"},
         NEW c \in Nat, Slot(h, at) # Null => h[Slot(h, at)].size <= c
  PROVE  LET g == Grown(h, at, c)
             n == Len(h) + 1
         IN  /\ Sound(g, d) /\ Attaches(h, g, at, g[n]) /\ Copied(h, at, g[n])
             /\ Len(g[n].slots) = c * Len(g[n].of)
<1> DEFINE g == Grown(h, at, c)
           n == Len(h) + 1
           p == Slot(h, at)
<1>1. /\ WellTyped(g) /\ Attaches(h, g, at, g[n])
      /\ Fresh(h, g[n]) /\ Copied(h, at, g[n])
      /\ Len(g[n].slots) = c * Len(g[n].of)
  BY Growing DEF Sound
<1> HIDE DEF g
<1>2. p # at[1]
  <2>1. at[1] # Null
    BY DEF AllSlots, Sound, WellTyped, Null
  <2>2. QED
    BY <2>1, NoSelf DEF Sound
<1>3. Takes(h, p, g[n])
  <2>1. p # Null => InUse(h[p]) \subseteq DOMAIN h[p].slots
    BY BufferOf, RoomInside DEF Sound
  <2>2. QED
    BY <1>1, <2>1 DEF Takes, Copied
<1>4. g[n].live
  BY <1>1 DEF Copied
<1>5. OpenHeap(g, d)
  BY <1>1, <1>2, <1>3, <1>4, OpenAttach DEF Sound
<1>6. QED
  BY <1>1, <1>5 DEF Sound, g

LEMMA MakingRoom ==
  ASSUME NEW h, WellTyped(h), NEW at \in AllSlots(h),
         SlotType(h, at).kind \in {"array", "object"}, NEW g \in Room(h, at)
  PROVE  LET p == Slot(g, at)
             n == Len(h) + 1
         IN  /\ WellTyped(g) /\ Kept(h, g)
             /\ p # Null /\ p \in DOMAIN g /\ g[p].size + 1 <= Cap(g[p])
             /\ \A d : OpenHeap(h, d) => OpenHeap(g, d)
             /\ \/ g = h
                \/ p = n /\ Attaches(h, g, at, g[n]) /\ Copied(h, at, g[n])
<1> DEFINE p == Slot(h, at)
           c == NextCap(IF p = Null THEN 0 ELSE Cap(h[p]))
           n == Len(h) + 1
<1>1. h \in Seq(BlockType)
  BY DEF WellTyped
<1>2. p # Null =>
        /\ p \in DOMAIN h /\ Cap(h[p]) \in Nat /\ h[p].size \in Nat
        /\ h[p].size <= Cap(h[p])
  BY BufferOf, RoomInside
<1>3. CASE p # Null /\ ~Full(h[p])
  <2>1. g = h
    BY <1>3 DEF Room
  <2>2. h[p].size + 1 <= Cap(h[p])
    BY <1>2, <1>3 DEF Full
  <2>3. QED
    BY <1>2, <1>3, <2>1, <2>2 DEF Kept
<1>4. CASE p = Null \/ Full(h[p])
  <2>1. g = Grown(h, at, c)
    BY <1>4 DEF Room
  <2>2. c \in Nat /\ (p = Null => c >= 1) /\ (p # Null => h[p].size + 1 <= c)
    BY <1>2, ConstantsAssumption DEF NextCap
  <2>3. p # Null => h[p].size <= c
    BY <1>2, <2>2
  <2>4. /\ WellTyped(g) /\ Attaches(h, g, at, g[n])
        /\ Copied(h, at, g[n]) /\ Len(g[n].slots) = c * Len(g[n].of)
    BY <2>1, <2>2, <2>3, Growing
  <2>5. \A d : OpenHeap(h, d) => OpenHeap(g, d)
    BY <2>1, <2>2, <2>3, GrowSound DEF Sound
  <2>6. Slot(g, at) = n /\ n \in DOMAIN g /\ n # Null
    BY <2>4 DEF Attaches, Slot, AllSlots, Null
  <2>7. Cap(g[n]) = c
    <3>1. \A k \in Nat, m \in Nat \ {0} : (k * m) \div m = k
      OBVIOUS
    <3>2. Len(g[n].slots) = c * Len(g[n].of) /\ Len(g[n].of) \in Nat \ {0}
      BY <2>4 DEF Copied
    <3>3. (c * Len(g[n].of)) \div Len(g[n].of) = c
      BY <2>2, <3>1, <3>2
    <3>4. QED
      BY <3>2, <3>3 DEF Cap
  <2>8. g[n].size + 1 <= c
    BY <1>2, <2>2, <2>4 DEF Copied
  <2>9. QED
    BY <2>4, <2>5, <2>6, <2>7, <2>8 DEF Attaches
<1>5. QED
  BY <1>3, <1>4

\* The element behind the last lies in the buffer when there is room.
LEMMA SpareSlot ==
  ASSUME NEW h, WellTyped(h), NEW at \in AllSlots(h),
         SlotType(h, at).kind \in {"array", "object"},
         Slot(h, at) # Null, h[Slot(h, at)].size + 1 <= Cap(h[Slot(h, at)])
  PROVE  LET p == Slot(h, at)
             i == h[p].size * Len(h[p].of) + 1
         IN  /\ Spare(h, at) = <<p, i>>
             /\ Spare(h, at) \in AllSlots(h)
             /\ i \in DOMAIN h[p].slots /\ i \notin InUse(h[p])
<1> DEFINE p == Slot(h, at)
           m == Len(h[p].of)
           i == h[p].size * m + 1
<1>1. h \in Seq(BlockType)
  BY DEF WellTyped
<1>2. p \in DOMAIN h /\ h[p].kind \in {"array", "object"} /\ h[p].of = SlotType(h, at).of
  BY BufferOf
<1>3. /\ InUse(h[p]) = 1 .. h[p].size * m /\ h[p].size \in Nat
      /\ m \in Nat \ {0} /\ Cap(h[p]) \in Nat /\ Len(h[p].slots) = Cap(h[p]) * m
      /\ p \in Nat /\ DOMAIN h[p].slots = 1 .. Len(h[p].slots)
  BY <1>1, <1>2, RoomInside, HeapType DEF InUse
<1>4. \A s, k \in Nat, l \in Nat \ {0} : s + 1 <= k => s * l \in Nat /\ s * l + 1 <= k * l
  OBVIOUS
<1>5. h[p].size * m \in Nat /\ i <= Cap(h[p]) * m
  BY <1>3, <1>4
<1>6. Spare(h, at) = <<p, i>>
  BY <1>2 DEF Spare
<1> HIDE DEF p
<1>7. i \in Nat /\ i \in DOMAIN h[p].slots /\ i \notin InUse(h[p])
  BY <1>3, <1>5
<1>8. Spare(h, at) \in AllSlots(h)
  BY <1>2, <1>3, <1>6, <1>7 DEF AllSlots
<1>9. QED
  BY <1>6, <1>7, <1>8 DEF p

LEMMA EnlargeSound ==
  ASSUME NEW h, WellTyped(h), NEW at \in AllSlots(h),
         SlotType(h, at).kind \in {"array", "object"},
         Slot(h, at) # Null, h[Slot(h, at)].size + 1 <= Cap(h[Slot(h, at)])
  PROVE  LET g == Enlarged(h, at)
             p == Slot(h, at)
         IN  /\ WellTyped(g) /\ Kept(h, g) /\ DOMAIN g = DOMAIN h /\ Len(g) = Len(h)
             /\ \A d : OpenHeap(h, d) => OpenHeap(g, d)
             /\ \A b \in DOMAIN h :
                  /\ g[b].size = IF b = p THEN h[p].size + 1 ELSE h[b].size
                  /\ g[b].live = h[b].live /\ g[b].slots = h[b].slots
<1> DEFINE p == Slot(h, at)
           s == h[p].size + 1
           g == [h EXCEPT ![p].size = s]
<1>1. h \in Seq(BlockType)
  BY DEF WellTyped
<1>2. p \in DOMAIN h /\ h[p].kind \in {"array", "object"}
  BY BufferOf
<1>3. s \in Nat /\ Cap(h[p]) \in Nat /\ Len(h[p].slots) = Cap(h[p]) * Len(h[p].of)
  BY <1>2, RoomInside
<1>4. Enlarged(h, at) = g
  BY DEF Enlarged
<1>5. /\ g \in Seq(BlockType)
      /\ DOMAIN g = DOMAIN h /\ Len(g) = Len(h) /\ Kept(h, g)
      /\ \A b \in DOMAIN h :
           /\ g[b].size = IF b = p THEN s ELSE h[b].size
           /\ g[b].live = h[b].live /\ g[b].slots = h[b].slots
           /\ b # p => g[b] = h[b]
  BY <1>1, <1>2, <1>3, Resizing
<1> HIDE DEF g
<1>6. Fits(g[p])
  BY <1>2, <1>3, <1>5 DEF Fits, Kept
<1>7. WellTyped(g)
  BY <1>2, <1>5, <1>6, StillTyped
<1>8. \A d : OpenHeap(h, d) => OpenHeap(g, d)
  BY <1>5, OpenKept
<1>9. QED
  BY <1>4, <1>5, <1>7, <1>8

\* A size of 0, which clear stores.
LEMMA ClearSound ==
  ASSUME NEW h, WellTyped(h), NEW p \in DOMAIN h, h[p].kind = "array"
  PROVE  LET g == [h EXCEPT ![p].size = 0] IN
         /\ WellTyped(g) /\ Kept(h, g) /\ DOMAIN g = DOMAIN h /\ Len(g) = Len(h)
         /\ \A d : OpenHeap(h, d) => OpenHeap(g, d)
<1> DEFINE n == 0
           g == [h EXCEPT ![p].size = n]
<1>0. n \in Nat
  OBVIOUS
<1> HIDE DEF n
<1>1. h \in Seq(BlockType)
  BY DEF WellTyped
<1>2. /\ g \in Seq(BlockType)
      /\ DOMAIN g = DOMAIN h /\ Len(g) = Len(h) /\ Kept(h, g)
      /\ \A b \in DOMAIN h :
           /\ g[b].size = IF b = p THEN n ELSE h[b].size
           /\ g[b].live = h[b].live /\ g[b].slots = h[b].slots
           /\ b # p => g[b] = h[b]
  BY <1>0, <1>1, Resizing
<1> HIDE DEF g
<1>3. Fits(g[p])
  <2>1. PICK k \in Nat : Len(h[p].slots) = k * Len(h[p].of)
    BY DEF WellTyped, Fits
  <2>2. g[p].size = 0 /\ g[p].of = h[p].of /\ Len(g[p].slots) = Len(h[p].slots)
    BY <1>2 DEF Kept, n
  <2>3. QED
    <3>1. g[p].size <= k /\ Len(g[p].slots) = k * Len(g[p].of)
      BY <2>1, <2>2
    <3>2. QED
      BY <3>1 DEF Fits
<1>4. WellTyped(g)
  BY <1>2, <1>3, StillTyped
<1>5. \A d : OpenHeap(h, d) => OpenHeap(g, d)
  BY <1>2, OpenKept
<1>6. QED
  BY <1>2, <1>4, <1>5 DEF g, n

\* prepare_push, from the heap g with room on.
LEMMA PrepareSound ==
  ASSUME NEW g, WellTyped(g), NEW at \in AllSlots(g),
         SlotType(g, at).kind \in {"array", "object"},
         Slot(g, at) # Null, g[Slot(g, at)].size + 1 <= Cap(g[Slot(g, at)]),
         NEW Z, NEW f, Z \cap InUse(g[Slot(g, at)]) = {},
         f = Zeroed(g, Slot(g, at), Z)
  PROVE  LET p == Slot(g, at) IN
         /\ WellTyped(f) /\ Kept(g, f) /\ DOMAIN f = DOMAIN g /\ Len(f) = Len(g)
         /\ \A d : OpenHeap(g, d) => OpenHeap(f, d)
         /\ \A b \in DOMAIN g :
              /\ f[b].live = g[b].live /\ f[b].size = g[b].size
              /\ DOMAIN f[b].slots = DOMAIN g[b].slots
              /\ b # p => f[b] = g[b]
              /\ \A i \in DOMAIN g[b].slots :
                   f[b].slots[i] = IF b = p /\ i \in Z THEN Null ELSE g[b].slots[i]
         /\ Slot(f, at) = p /\ Spare(f, at) = Spare(g, at)
         /\ f[p].size + 1 <= Cap(f[p])
<1> DEFINE p == Slot(g, at)
<1>1. g \in Seq(BlockType)
  BY DEF WellTyped
<1>2. p \in DOMAIN g
  BY BufferOf
<1>3. /\ f \in Seq(BlockType)
      /\ DOMAIN f = DOMAIN g /\ Len(f) = Len(g) /\ Kept(g, f)
      /\ \A b \in DOMAIN g :
           /\ f[b].live = g[b].live /\ f[b].size = g[b].size
           /\ DOMAIN f[b].slots = DOMAIN g[b].slots
           /\ b # p => f[b] = g[b]
           /\ \A i \in DOMAIN g[b].slots :
                f[b].slots[i] = IF b = p /\ i \in Z THEN Null ELSE g[b].slots[i]
  BY <1>1, <1>2, Zeroing
<1>4. WellTyped(f)
  BY <1>3, StillTyped
<1>5. \A d : OpenHeap(g, d) => OpenHeap(f, d)
  BY <1>3, OpenKept
<1>6. Slot(f, at) = p
  <2>1. p # at[1]
    BY NoSelf
  <2>2. at[1] \in DOMAIN g
    BY DEF AllSlots
  <2>3. QED
    BY <1>3, <2>1, <2>2 DEF Slot
<1>7. SlotType(f, at) = SlotType(g, at)
  BY <1>3, TypeKept
<1>8. Spare(f, at) = Spare(g, at)
  BY <1>2, <1>3, <1>6, <1>7 DEF Spare
<1>9. f[p].size + 1 <= Cap(f[p])
  <2>1. f[p].size = g[p].size /\ Cap(f[p]) = Cap(g[p])
    BY <1>2, <1>3 DEF Cap, Kept
  <2>2. QED
    BY <2>1
<1>10. QED
  BY <1>3, <1>4, <1>5, <1>6, <1>8, <1>9

LEMMA Preparing ==
  ASSUME NEW h, WellTyped(h), NEW at \in AllSlots(h),
         SlotType(h, at).kind = "array", NEW f \in Prepared(h, at)
  PROVE  /\ WellTyped(f) /\ Kept(h, f)
         /\ \A d : OpenHeap(h, d) => OpenHeap(f, d)
         /\ Slot(f, at) # Null /\ f[Slot(f, at)].size + 1 <= Cap(f[Slot(f, at)])
         /\ Spare(f, at) \in AllSlots(f)
         /\ \E g \in Room(h, at) :
              LET p == Slot(g, at) IN
              /\ p \in DOMAIN g /\ Slot(f, at) = p
              /\ DOMAIN f = DOMAIN g /\ Len(f) = Len(g)
              /\ \A b \in DOMAIN g :
                   /\ f[b].live = g[b].live /\ f[b].size = g[b].size
                   /\ f[b].of = g[b].of
                   /\ DOMAIN f[b].slots = DOMAIN g[b].slots
                   /\ \A i \in DOMAIN g[b].slots :
                        \/ f[b].slots[i] = g[b].slots[i]
                        \/ b = p /\ i \notin InUse(g[p]) /\ f[b].slots[i] = Null
<1>1. PICK g \in Room(h, at) :
        f = Zeroed(g, Slot(g, at),
                   Spare(g, at)[2] .. Spare(g, at)[2] + Len(SlotType(g, at).of) - 1)
  BY DEF Prepared
<1> DEFINE p == Slot(g, at)
           Z == Spare(g, at)[2] .. Spare(g, at)[2] + Len(SlotType(g, at).of) - 1
<1>2. /\ WellTyped(g) /\ Kept(h, g)
      /\ p # Null /\ p \in DOMAIN g /\ g[p].size + 1 <= Cap(g[p])
      /\ \A d : OpenHeap(h, d) => OpenHeap(g, d)
  BY MakingRoom
<1>3. at \in AllSlots(g) /\ SlotType(g, at) = SlotType(h, at)
  BY <1>2, SlotsKept, TypeKept DEF WellTyped
<1>4. /\ Spare(g, at) = <<p, g[p].size * Len(g[p].of) + 1>>
      /\ Spare(g, at) \in AllSlots(g)
  BY <1>2, <1>3, SpareSlot
<1>5. Z \cap InUse(g[p]) = {}
  <2>1. g[p].size * Len(g[p].of) \in Nat
    BY <1>2, RoomInside
  <2>2. \A k \in Nat : \A u : ((k + 1) .. u) \cap (1 .. k) = {}
    OBVIOUS
  <2>3. QED
    BY <1>4, <2>1, <2>2 DEF InUse
<1>a. f = Zeroed(g, p, Z)
  BY <1>1
<1>b. SlotType(g, at).kind \in {"array", "object"}
  BY <1>3
<1> HIDE DEF Z
<1>6. /\ WellTyped(f) /\ Kept(g, f) /\ DOMAIN f = DOMAIN g /\ Len(f) = Len(g)
      /\ \A d : OpenHeap(g, d) => OpenHeap(f, d)
      /\ \A b \in DOMAIN g :
           /\ f[b].live = g[b].live /\ f[b].size = g[b].size
           /\ DOMAIN f[b].slots = DOMAIN g[b].slots
           /\ b # p => f[b] = g[b]
           /\ \A i \in DOMAIN g[b].slots :
                f[b].slots[i] = IF b = p /\ i \in Z THEN Null ELSE g[b].slots[i]
      /\ Slot(f, at) = p /\ Spare(f, at) = Spare(g, at)
      /\ f[p].size + 1 <= Cap(f[p])
  BY <1>a, <1>b, <1>2, <1>3, <1>5, PrepareSound
<1>7. Kept(h, f)
  BY <1>2, <1>6 DEF Kept
<1>8. Spare(f, at) \in AllSlots(f)
  BY <1>2, <1>4, <1>6, SlotsKept DEF WellTyped
<1>9. \A b \in DOMAIN g :
        /\ f[b].of = g[b].of
        /\ \A i \in DOMAIN g[b].slots :
             \/ f[b].slots[i] = g[b].slots[i]
             \/ b = p /\ i \notin InUse(g[p]) /\ f[b].slots[i] = Null
  BY <1>5, <1>6 DEF Kept
<1>10. QED
  BY <1>2, <1>6, <1>7, <1>8, <1>9

-----------------------------------------------------------------------------
(* What is reached. *)

LEMMA ClosureInside ==
  ASSUME NEW edges, NEW S \in SUBSET DOMAIN edges, 1 \in S,
         \A b \in S : edges[b] \subseteq S
  PROVE  Closure(edges) \subseteq S
BY DEF Closure

LEMMA ClosureCloses ==
  ASSUME NEW edges, 1 \in DOMAIN edges,
         \A b \in DOMAIN edges : edges[b] \subseteq DOMAIN edges
  PROVE  /\ 1 \in Closure(edges) /\ Closure(edges) \subseteq DOMAIN edges
         /\ \A b \in Closure(edges) : edges[b] \subseteq Closure(edges)
BY DEF Closure

\* What the slots in use of a well typed block lead to.
LEMMA BelowInside ==
  ASSUME NEW h, WellTyped(h)
  PROVE  /\ 1 \in DOMAIN h
         /\ \A b \in DOMAIN h : Below(h[b]) \subseteq DOMAIN h
         /\ \A b \in DOMAIN h : \A c \in Below(h[b]) :
              \E i \in InUse(h[b]) \cap DOMAIN h[b].slots : c = h[b].slots[i] /\ c # Null
<1>1. 1 \in DOMAIN h
  BY DEF WellTyped
<1>2. ASSUME NEW b \in DOMAIN h, NEW c \in Below(h[b])
      PROVE  /\ c \in DOMAIN h
             /\ \E i \in InUse(h[b]) \cap DOMAIN h[b].slots : c = h[b].slots[i] /\ c # Null
  <2>1. PICK i \in InUse(h[b]) : c = h[b].slots[i] /\ c # Null
    BY <1>2 DEF Below
  <2>2. i \in DOMAIN h[b].slots
    BY RoomInside
  <2>3. QED
    BY <2>1, <2>2, TypeOfSlot
<1>3. QED
  BY <1>1, <1>2

LEMMA Reaching ==
  ASSUME NEW h, WellTyped(h)
  PROVE  /\ 1 \in Reached(h) /\ Reached(h) \subseteq DOMAIN h
         /\ \A b \in Reached(h) : Below(h[b]) \subseteq Reached(h)
<1> DEFINE edges == [b \in DOMAIN h |-> Below(h[b])]
<1>1. DOMAIN edges = DOMAIN h /\ \A b \in DOMAIN h : edges[b] = Below(h[b])
  OBVIOUS
<1>2. Reached(h) = Closure(edges)
  BY DEF Reached
<1> HIDE DEF edges
<1>3. QED
  BY <1>1, <1>2, BelowInside, ClosureCloses

LEMMA ReachedInside ==
  ASSUME NEW h, NEW S \in SUBSET DOMAIN h, 1 \in S,
         \A b \in S : Below(h[b]) \subseteq S
  PROVE  Reached(h) \subseteq S
<1> DEFINE edges == [b \in DOMAIN h |-> Below(h[b])]
<1>1. DOMAIN edges = DOMAIN h /\ \A b \in DOMAIN h : edges[b] = Below(h[b])
  OBVIOUS
<1>2. Reached(h) = Closure(edges)
  BY DEF Reached
<1> HIDE DEF edges
<1>3. QED
  BY <1>1, <1>2, ClosureInside

LEMMA ReachedTree ==
  ASSUME NEW h, WellTyped(h), NEW R, Tree(h, R)
  PROVE  Reached(h) \subseteq R
<1>1. R \in SUBSET DOMAIN h /\ 1 \in R
  BY DEF Tree
<1>2. \A b \in R : Below(h[b]) \subseteq R
  BY <1>1, BelowInside DEF Tree
<1>3. QED
  BY <1>1, <1>2, ReachedInside

LEMMA CurrentSlots ==
  ASSUME NEW h, WellTyped(h)
  PROVE  /\ CurrentOf(h) \subseteq AllSlots(h)
         /\ \A at \in CurrentOf(h) :
              /\ at[1] \in Reached(h) /\ h[at[1]].live /\ at[2] \in InUse(h[at[1]])
              /\ SlotType(h, at).kind \notin {"scalar", "value"}
<1>1. ASSUME NEW at \in CurrentOf(h)
      PROVE  /\ at \in AllSlots(h)
             /\ at[1] \in Reached(h) /\ h[at[1]].live /\ at[2] \in InUse(h[at[1]])
             /\ SlotType(h, at).kind \notin {"scalar", "value"}
  <2>1. PICK b \in Reached(h) : at \in {b} \X InUse(h[b])
    BY DEF CurrentOf
  <2>2. at = <<b, at[2]>> /\ at[2] \in InUse(h[b]) /\ at[1] = b
    BY <2>1
  <2>3. b \in DOMAIN h /\ at[2] \in DOMAIN h[b].slots
    BY <2>2, Reaching, RoomInside
  <2>4. b \in Nat /\ at[2] \in Nat
    BY <2>3, TypeOfSlot
  <2>5. at \in AllSlots(h)
    BY <2>2, <2>3, <2>4 DEF AllSlots
  <2>6. h[at[1]].live /\ SlotType(h, at).kind \notin {"scalar", "value"}
    BY DEF CurrentOf
  <2>7. QED
    BY <2>2, <2>5, <2>6
<1>2. QED
  BY <1>1

-----------------------------------------------------------------------------
(* destroy. *)

\* What destroys becomes.
AfterDestroy(h, at, d) ==
  IF at \in CurrentOf(h) /\ d # "stale" THEN "current" ELSE "stale"

LEMMA DestroySound ==
  ASSUME NEW h, NEW d, Sound(h, d), NEW at \in AllSlots(h),
         SlotType(h, at).kind = "array", Slot(h, at) # Null
  PROVE  LET g == Destroyed(h, at) IN
         /\ Sound(g, AfterDestroy(h, at, d)) /\ Kept(h, g)
         /\ DOMAIN g = DOMAIN h /\ Len(g) = Len(h)
<1> DEFINE p == Slot(h, at)
           f == [h EXCEPT ![p].live = FALSE]
           g == Point(f, at, Null)
           e == AfterDestroy(h, at, d)
<1>1. h \in Seq(BlockType) /\ WellTyped(h) /\ OpenHeap(h, d)
  BY DEF Sound, WellTyped
<1>2. p \in DOMAIN h /\ h[p].kind = "array" /\ at[1] \in DOMAIN h
  BY <1>1, BufferOf
<1>3. /\ f \in Seq(BlockType)
      /\ DOMAIN f = DOMAIN h /\ Len(f) = Len(h) /\ Kept(h, f)
      /\ \A b \in DOMAIN h :
           /\ f[b].live <=> (b # p /\ h[b].live)
           /\ f[b].size = h[b].size /\ f[b].slots = h[b].slots
           /\ b # p => f[b] = h[b]
  BY <1>1, <1>2, Killing
<1> HIDE DEF f
<1>4. WellTyped(f)
  BY <1>1, <1>3, StillTyped
<1>5. at \in AllSlots(f)
  BY <1>1, <1>3, SlotsKept
<1>6. WellTyped(g)
  BY <1>4, <1>5, PointTyped
<1>7. /\ DOMAIN g = DOMAIN f /\ Len(g) = Len(f) /\ Kept(f, g)
      /\ \A b \in DOMAIN f :
           /\ g[b].live = f[b].live
           /\ DOMAIN g[b].slots = DOMAIN f[b].slots
           /\ \A i \in DOMAIN f[b].slots :
                g[b].slots[i] = IF b = at[1] /\ i = at[2] THEN Null ELSE f[b].slots[i]
  BY <1>3, <1>5, Pointing DEF Null
<1> HIDE DEF g
<1>8. /\ DOMAIN g = DOMAIN h /\ Len(g) = Len(h) /\ Kept(h, g)
      /\ \A b \in DOMAIN h :
           /\ g[b].live <=> (b # p /\ h[b].live)
           /\ DOMAIN g[b].slots = DOMAIN h[b].slots
           /\ \A i \in DOMAIN h[b].slots :
                g[b].slots[i] = IF b = at[1] /\ i = at[2] THEN Null ELSE h[b].slots[i]
  BY <1>3, <1>7 DEF Kept
<1>9. PICK R \in SUBSET DOMAIN h : Tree(h, R) /\ (d # "stale" => R \cap Dead(h) = {})
  BY <1>1 DEF OpenHeap
<1>10. Dead(g) = Dead(h) \cup {p}
  BY <1>2, <1>8 DEF Dead
<1>11. \A b \in Dead(g) : g[b].kind = "array"
  BY <1>1, <1>2, <1>8, <1>10 DEF OpenHeap, Kept, Dead
<1>12. e # "never"
  BY DEF AfterDestroy
<1>13. ASSUME e = "stale" PROVE OpenHeap(g, e)
  <2>1. \A x \in R :
          /\ DOMAIN g[x].slots = DOMAIN h[x].slots
          /\ \A i \in DOMAIN h[x].slots : g[x].slots[i] \in {Null, h[x].slots[i]}
    BY <1>8, <1>9
  <2>2. Tree(g, R)
    BY <1>8, <1>9, <2>1, TreeKept
  <2>3. QED
    BY <1>8, <1>9, <1>11, <1>12, <1>13, <2>2 DEF OpenHeap
<1>14. ASSUME e # "stale" PROVE OpenHeap(g, e)
  <2>1. at[1] \in R /\ d # "stale"
    BY <1>1, <1>9, <1>14, CurrentSlots, ReachedTree DEF AfterDestroy
  <2>2. p # at[1]
    BY <1>1, NoSelf
  <2>3. p \in R \ {1} /\ at[2] \in DOMAIN h[at[1]].slots /\ p = h[at[1]].slots[at[2]]
    BY <1>9, <2>1 DEF Tree, Slot, AllSlots
  <2>4. Tree(g, R \ {p})
    <3>1. ASSUME NEW x \in R \ {p}, NEW i \in DOMAIN h[x].slots
          PROVE  /\ g[x].slots[i] \in ((R \ {p}) \ {1}) \cup {Null}
                 /\ g[x].slots[i] # Null => g[x].slots[i] = h[x].slots[i]
      <4>1. CASE x = at[1] /\ i = at[2]
        BY <1>8, <1>9, <4>1
      <4>2. CASE ~(x = at[1] /\ i = at[2])
        <5>1. g[x].slots[i] = h[x].slots[i]
          BY <1>8, <1>9, <4>2
        <5>2. h[x].slots[i] # p
          BY <1>9, <2>1, <2>3, <4>2 DEF Tree
        <5>3. QED
          BY <1>9, <5>1, <5>2 DEF Tree
      <4>3. QED
        BY <4>1, <4>2
    <3>2. \A x \in R \ {p} : DOMAIN g[x].slots = DOMAIN h[x].slots
      BY <1>8, <1>9
    <3>3. 1 \in R \ {p} /\ R \ {p} \subseteq DOMAIN g
      BY <1>8, <1>9, <2>3 DEF Tree
    <3>4. ASSUME NEW x \in R \ {p}, NEW y \in R \ {p},
                 NEW i \in DOMAIN h[x].slots, NEW j \in DOMAIN h[y].slots,
                 g[x].slots[i] # Null, g[x].slots[i] = g[y].slots[j]
          PROVE  x = y /\ i = j
      BY <1>9, <3>1, <3>4 DEF Tree
    <3>5. QED
      BY <3>1, <3>2, <3>3, <3>4 DEF Tree
  <2>5. (R \ {p}) \cap Dead(g) = {}
    BY <1>9, <1>10, <2>1
  <2>6. QED
    BY <1>8, <1>11, <1>12, <2>4, <2>5 DEF OpenHeap
<1>15. Destroyed(h, at) = g
  BY DEF Destroyed, g, f
<1>16. QED
  BY <1>6, <1>8, <1>13, <1>14, <1>15 DEF Sound

-----------------------------------------------------------------------------
(* The fields of an object. *)

\* f is h with a new value, and perhaps its text.
WithValue(h, f, t) ==
  LET v == Len(h) + 1 IN
  /\ WellTyped(f) /\ Kept(h, f)
  /\ v \in Nat /\ v \notin DOMAIN h /\ v \in DOMAIN f /\ Len(f) >= v
  /\ DOMAIN f \subseteq DOMAIN h \cup {v, v + 1} /\ DOMAIN h \subseteq DOMAIN f
  /\ \A b \in DOMAIN h : f[b] = h[b]
  /\ f[v].live /\ f[v].kind = "value" /\ f[v].of = <<t>> /\ f[v].size = 1
  /\ DOMAIN f[v].slots = {1}
  /\ f[v].slots[1] \in ({v + 1} \cap DOMAIN f) \cup {Null}
  /\ v + 1 \in DOMAIN f => f[v + 1] = Text

LEMMA TextType == Text \in BlockType /\ \A h : Fresh(h, Text)
<1>1. Text \in BlockType
  BY DEF Text, Block, BlockType, Kinds
<1>2. Shaped(Text) /\ Text.kind # "region" /\ Text.slots = <<>>
  BY DEF Text, Block, Shaped
<1>3. Fits(Text)
  <2>1. Len(Text.slots) = 0 /\ Len(Text.of) = 0 /\ Text.size = 0
    BY DEF Text, Block
  <2>2. 0 = 0 * 0
    OBVIOUS
  <2>3. QED
    BY <2>1, <2>2 DEF Fits
<1>4. QED
  BY <1>1, <1>2, <1>3 DEF Fresh

LEMMA ValueFresh ==
  ASSUME NEW n \in Names, NEW t \in FieldTypes
  PROVE  LET b == NewValue(n, t) IN
         /\ \A h : Fresh(h, b)
         /\ b.live = TRUE /\ b.kind = "value" /\ b.of = <<t>> /\ b.size = 1
         /\ DOMAIN b.slots = {1} /\ b.slots[1] = Null
<1> DEFINE b == NewValue(n, t)
<1>1. /\ b.live = TRUE /\ b.kind = "value" /\ b.of = <<t>> /\ b.size = 1
      /\ b.slots = <<Null>> /\ b.name = n
  BY DEF NewValue, Block
<1>2. b \in BlockType
  <2>1. <<t>> \in Seq(Types) /\ <<Null>> \in Seq(Nat)
    BY DEF Types, Null
  <2>2. QED
    BY <2>1 DEF NewValue, Block, BlockType, Kinds
<1> HIDE DEF b
<1>3. Shaped(b) /\ b.kind # "region"
  BY <1>1 DEF Shaped
<1>4. Fits(b)
  <2>1. Len(b.slots) = 1 /\ Len(b.of) = 1 /\ 1 = 1 * 1 /\ b.size <= 1
    BY <1>1
  <2>2. QED
    BY <2>1 DEF Fits
<1>5. DOMAIN b.slots = {1} /\ b.slots[1] = Null
  BY <1>1
<1>6. \A h : Fresh(h, b)
  BY <1>2, <1>3, <1>4, <1>5 DEF Fresh
<1>7. QED
  BY <1>1, <1>5, <1>6 DEF b

LEMMA ValueMade ==
  ASSUME NEW h, WellTyped(h), NEW n \in Names, NEW t \in FieldTypes,
         NEW text \in {FALSE, t = String}
  PROVE  LET v == Len(h) + 1
             g == Allocate(h, NewValue(n, t))
             f == IF text THEN Point(Allocate(g, Text), <<v, 1>>, v + 1) ELSE g
         IN  WithValue(h, f, t)
<1> DEFINE v == Len(h) + 1
           b == NewValue(n, t)
           g == Allocate(h, b)
           f == Point(Allocate(g, Text), <<v, 1>>, v + 1)
<1>1. /\ Fresh(h, b)
      /\ b.live = TRUE /\ b.kind = "value" /\ b.of = <<t>> /\ b.size = 1
      /\ DOMAIN b.slots = {1} /\ b.slots[1] = Null
  BY ValueFresh
<1> HIDE DEF b
<1>2. h \in Seq(BlockType) /\ b \in BlockType
  BY <1>1 DEF WellTyped, Fresh
<1> HIDE DEF f
<1>a. /\ g \in Seq(BlockType)
      /\ DOMAIN h = 1 .. Len(h) /\ DOMAIN g = DOMAIN h \cup {v}
      /\ Len(h) \in Nat /\ v \notin DOMAIN h
      /\ Len(g) = v
      /\ g[v] = b
      /\ \A a \in DOMAIN h : g[a] = h[a]
  BY <1>2, Allocating
<1>3. /\ g \in Seq(BlockType)
      /\ DOMAIN h = 1 .. Len(h) /\ DOMAIN g = DOMAIN h \cup {v}
      /\ Len(h) \in Nat /\ v \notin DOMAIN h /\ v \in Nat
      /\ Len(g) = v
      /\ g[v] = b
      /\ \A a \in DOMAIN h : g[a] = h[a]
  BY <1>a
<1>4. WellTyped(g) /\ Kept(h, g)
  BY <1>1, AllocateTyped
<1> HIDE DEF g
<1>5. WithValue(h, g, t)
  BY <1>1, <1>3, <1>4 DEF WithValue
<1>6. ASSUME t = String PROVE WithValue(h, f, t)
  <2>1. <<v, 1>> \in AllSlots(g)
    BY <1>1, <1>3 DEF AllSlots
  <2>2. Leads(SlotType(g, <<v, 1>>), Text)
    <3>1. SlotType(g, <<v, 1>>) = <<t>>[((1 - 1) % Len(<<t>>)) + 1]
      BY <1>1, <1>3 DEF SlotType
    <3>2. ((1 - 1) % Len(<<t>>)) + 1 = 1
      OBVIOUS
    <3>3. SlotType(g, <<v, 1>>) = String
      BY <1>6, <3>1, <3>2
    <3>4. QED
      BY <3>3 DEF Leads, String, Text, Block
  <2>3. WellTyped(f) /\ Attaches(g, f, <<v, 1>>, Text)
    BY <1>3, <1>4, <2>1, <2>2, TextType, Attaching DEF f
  <2>4. /\ DOMAIN f = DOMAIN g \cup {v + 1} /\ f[v + 1] = Text /\ Len(f) = v + 1
        /\ Kept(g, f)
        /\ \A a \in DOMAIN g :
             /\ f[a].live = g[a].live /\ f[a].size = g[a].size
             /\ DOMAIN f[a].slots = DOMAIN g[a].slots
             /\ \A i \in DOMAIN g[a].slots :
                  f[a].slots[i] = IF a = v /\ i = 1 THEN v + 1 ELSE g[a].slots[i]
    BY <1>3, <2>3 DEF Attaches
  <2>5. Kept(h, f)
    BY <1>4, <2>4 DEF Kept
  <2>6. \A a \in DOMAIN h : f[a] = h[a]
    <3> DEFINE k == Allocate(g, Text)
    <3>1. /\ k \in Seq(BlockType) /\ DOMAIN k = DOMAIN g \cup {Len(g) + 1}
          /\ Len(k) = Len(g) + 1
          /\ \A a \in DOMAIN g : k[a] = g[a]
      BY <1>3, Allocating, TextType
    <3> HIDE DEF k
    <3>2. <<v, 1>> \in AllSlots(k)
      BY <1>3, <2>1, <3>1 DEF AllSlots
    <3>3. \A a \in DOMAIN k : a # v => f[a] = k[a]
      <4>1. f = Point(k, <<v, 1>>, v + 1) /\ v + 1 \in Nat /\ <<v, 1>>[1] = v
        BY <1>3 DEF f, k
      <4>2. QED
        BY <3>1, <3>2, <4>1, Pointing
    <3>4. QED
      BY <1>3, <3>1, <3>3
  <2>7. /\ f[v].live /\ f[v].kind = "value" /\ f[v].of = <<t>> /\ f[v].size = 1
        /\ DOMAIN f[v].slots = {1} /\ f[v].slots[1] = v + 1
    BY <1>1, <1>3, <2>4 DEF Kept
  <2>8. QED
    BY <1>3, <2>3, <2>4, <2>5, <2>6, <2>7 DEF WithValue
<1>7. QED
  BY <1>5, <1>6 DEF b, g, f

\* The value of a new field is hung behind the fields there are.
LEMMA ValueHung ==
  ASSUME NEW h, WellTyped(h), NEW t \in FieldTypes, NEW f, WithValue(h, f, t),
         NEW at \in AllSlots(h), SlotType(h, at).kind = "object",
         Slot(h, at) # Null, h[Slot(h, at)].size + 1 <= Cap(h[Slot(h, at)])
  PROVE  LET v == Len(h) + 1
             p == Slot(h, at)
             g == Point(f, Spare(h, at), v)
         IN  /\ WellTyped(g) /\ Kept(h, g) /\ DOMAIN g = DOMAIN f /\ Len(g) = Len(f)
             /\ Spare(h, at) \in AllSlots(h) /\ Spare(h, at)[1] = p
             /\ Spare(h, at)[2] \notin InUse(h[p])
             /\ Slot(g, at) = p /\ g[p].size + 1 <= Cap(g[p])
             /\ \A b \in DOMAIN f :
                  /\ g[b].live = f[b].live /\ g[b].size = f[b].size
                  /\ DOMAIN g[b].slots = DOMAIN f[b].slots
                  /\ \A i \in DOMAIN f[b].slots :
                       g[b].slots[i] = IF b = Spare(h, at)[1] /\ i = Spare(h, at)[2]
                                       THEN v ELSE f[b].slots[i]
<1> DEFINE v == Len(h) + 1
           p == Slot(h, at)
           sp == Spare(h, at)
           g == Point(f, sp, v)
           j == h[p].size * Len(h[p].of) + 1
<1>1. /\ WellTyped(f) /\ Kept(h, f) /\ v \in Nat /\ v \in DOMAIN f
      /\ \A b \in DOMAIN h : f[b] = h[b]
      /\ f[v].kind = "value"
  BY DEF WithValue
<1>2. /\ sp = <<p, j>> /\ sp \in AllSlots(h)
      /\ j \in DOMAIN h[p].slots /\ j \notin InUse(h[p])
  BY SpareSlot
<1>3. h \in Seq(BlockType) /\ f \in Seq(BlockType)
  BY <1>1 DEF WellTyped
<1>4. AllSlots(h) \subseteq AllSlots(f)
  BY <1>1, <1>3, SlotsKept
<1>5. p \in DOMAIN h /\ h[p].kind = "object" /\ p # at[1]
  BY BufferOf, NoSelf
<1>6. SlotType(f, sp) = Value
  <2>1. h[p].of = <<Value>>
    BY <1>5 DEF WellTyped, Shaped
  <2>2. SlotType(h, sp) = <<Value>>[((j - 1) % Len(<<Value>>)) + 1]
    <3>1. SlotType(h, <<p, j>>) = h[p].of[((j - 1) % Len(h[p].of)) + 1]
      BY <1>2, <1>5, TypeOfSlot
    <3>2. QED
      BY <1>2, <2>1, <3>1
  <2>3. ((j - 1) % 1) + 1 = 1
    <3>1. \A k \in Nat \ {0} : ((k - 1) % 1) + 1 = 1
      OBVIOUS
    <3>2. j \in Nat \ {0}
      BY <1>2, <1>5, TypeOfSlot
    <3>3. QED
      BY <3>1, <3>2
  <2>4. Len(<<Value>>) = 1 /\ <<Value>>[1] = Value
    OBVIOUS
  <2>5. SlotType(h, sp) = Value
    BY <2>2, <2>3, <2>4
  <2>6. QED
    BY <1>1, <1>2, <2>5, TypeKept
<1>7. Leads(SlotType(f, sp), f[v])
  BY <1>1, <1>6 DEF Leads, Value
<1> HIDE DEF v, sp, j
<1>8. sp \in AllSlots(f)
  BY <1>2, <1>4
<1>9. WellTyped(g)
  BY <1>1, <1>7, <1>8, PointTyped
<1>10. /\ DOMAIN g = DOMAIN f /\ Len(g) = Len(f) /\ Kept(f, g)
       /\ \A b \in DOMAIN f :
            /\ g[b].live = f[b].live /\ g[b].size = f[b].size
            /\ DOMAIN g[b].slots = DOMAIN f[b].slots
            /\ \A i \in DOMAIN f[b].slots :
                 g[b].slots[i] = IF b = sp[1] /\ i = sp[2] THEN v ELSE f[b].slots[i]
  BY <1>1, <1>3, <1>8, Pointing
<1> HIDE DEF g
<1>11. Kept(h, g)
  BY <1>1, <1>10 DEF Kept
<1>12. Slot(g, at) = p
  BY <1>1, <1>2, <1>5, <1>10 DEF Slot, AllSlots, Kept
<1>13. g[p].size + 1 <= Cap(g[p])
  <2>1. g[p].size = h[p].size /\ Cap(g[p]) = Cap(h[p])
    BY <1>1, <1>5, <1>10, <1>11, ZenonT(60) DEF Cap, Kept
  <2>2. QED
    BY <2>1
<1>14. sp[1] = p /\ sp[2] = j
  BY <1>2
<1>15. QED
  BY <1>2, <1>9, <1>10, <1>11, <1>12, <1>13, <1>14 DEF g, v, sp

LEMMA ValueOpen ==
  ASSUME NEW h, WellTyped(h), NEW d, OpenHeap(h, d), NEW t, NEW f, WithValue(h, f, t),
         NEW g, Kept(h, g), DOMAIN g = DOMAIN f,
         NEW sp \in AllSlots(h),
         \A b \in DOMAIN f :
           /\ g[b].live = f[b].live
           /\ DOMAIN g[b].slots = DOMAIN f[b].slots
           /\ \A i \in DOMAIN f[b].slots :
                g[b].slots[i] = IF b = sp[1] /\ i = sp[2]
                                THEN Len(h) + 1 ELSE f[b].slots[i]
  PROVE  OpenHeap(g, d)
<1> DEFINE v == Len(h) + 1
           X == {v, v + 1} \cap DOMAIN f
<1>1. PICK R \in SUBSET DOMAIN h : Tree(h, R) /\ (d # "stale" => R \cap Dead(h) = {})
  BY DEF OpenHeap
<1>2. /\ v \in Nat /\ v \notin DOMAIN h /\ v \in DOMAIN f
      /\ DOMAIN f \subseteq DOMAIN h \cup {v, v + 1} /\ DOMAIN h \subseteq DOMAIN f
      /\ \A b \in DOMAIN h : f[b] = h[b]
      /\ f[v].live
      /\ DOMAIN f[v].slots = {1}
      /\ f[v].slots[1] \in ({v + 1} \cap DOMAIN f) \cup {Null}
      /\ v + 1 \in DOMAIN f => f[v + 1].live /\ f[v + 1].slots = <<>>
  BY DEF WithValue, Text, Block
<1> HIDE DEF v
<1>3. v + 1 \notin DOMAIN h /\ v + 1 # v /\ v # 1 /\ v + 1 # 1 /\ v # 0 /\ v + 1 # 0
  <2>1. DOMAIN h = 1 .. Len(h) /\ Len(h) \in Nat
    BY DEF WellTyped
  <2>2. 1 \in DOMAIN h
    BY BelowInside
  <2>3. QED
    BY <2>1, <2>2 DEF v
<1>4. Dead(g) = Dead(h)
  BY <1>2 DEF Dead
<1>5. \A b \in Dead(g) : g[b].kind = "array"
  BY <1>4 DEF OpenHeap, Kept, Dead
<1>6. CASE sp[1] \notin R
  <2>1. \A x \in R :
          /\ DOMAIN g[x].slots = DOMAIN h[x].slots
          /\ \A i \in DOMAIN h[x].slots : g[x].slots[i] \in {Null, h[x].slots[i]}
    BY <1>1, <1>2, <1>6
  <2>2. Tree(g, R)
    BY <1>1, <1>2, <2>1, TreeKept
  <2>3. QED
    BY <1>1, <1>2, <1>4, <1>5, <2>2 DEF OpenHeap
<1>7. CASE sp[1] \in R
  <2> DEFINE Q == R \cup X
  <2>1. ASSUME NEW x \in R
        PROVE  /\ DOMAIN g[x].slots = DOMAIN h[x].slots
               /\ \A i \in DOMAIN h[x].slots :
                    g[x].slots[i] = IF x = sp[1] /\ i = sp[2] THEN v ELSE h[x].slots[i]
    BY <1>1, <1>2 DEF v
  <2>2. /\ DOMAIN g[v].slots = {1} /\ g[v].slots[1] \in ({v + 1} \cap DOMAIN f) \cup {Null}
    BY <1>1, <1>2, <1>7
  <2>3. v + 1 \in DOMAIN f => DOMAIN g[v + 1].slots = {}
    BY <1>2
  <2>4. ASSUME NEW x \in Q, NEW i \in DOMAIN g[x].slots
        PROVE  g[x].slots[i] \in (Q \ {1}) \cup {Null}
    <3>1. CASE x \in R
      BY <1>1, <1>2, <1>3, <2>1, <3>1 DEF Tree
    <3>2. CASE x = v
      BY <1>3, <2>2, <3>2
    <3>3. CASE x = v + 1 /\ v + 1 \in DOMAIN f
      BY <2>3, <3>3
    <3>4. QED
      BY <3>1, <3>2, <3>3
  <2>5. ASSUME NEW x \in Q, NEW y \in Q,
               NEW i \in DOMAIN g[x].slots, NEW j \in DOMAIN g[y].slots,
               g[x].slots[i] # Null, g[x].slots[i] = g[y].slots[j]
        PROVE  x = y /\ i = j
    <3>1. CASE x \in R /\ y \in R
      <4>1. \A z \in R : \A k \in DOMAIN h[z].slots : h[z].slots[k] # v
        BY <1>1, <1>2, <1>3 DEF Tree, Null
      <4>2. QED
        BY <1>1, <2>1, <2>5, <3>1, <4>1 DEF Tree
    <3>2. CASE x = v /\ y = v
      BY <2>2, <3>2
    <3>3. CASE x = v /\ y \in R
      <4>1. \A k \in DOMAIN h[y].slots : h[y].slots[k] # v + 1
        BY <1>1, <1>2, <1>3, <3>3 DEF Tree, Null
      <4>2. QED
        BY <1>3, <2>1, <2>2, <2>5, <3>3, <4>1 DEF Null
    <3>4. CASE x \in R /\ y = v
      <4>1. \A k \in DOMAIN h[x].slots : h[x].slots[k] # v + 1
        BY <1>1, <1>2, <1>3, <3>4 DEF Tree, Null
      <4>2. QED
        BY <1>3, <2>1, <2>2, <2>5, <3>4, <4>1 DEF Null
    <3>5. CASE (x = v + 1 \/ y = v + 1) /\ v + 1 \in DOMAIN f
      BY <2>3, <3>5
    <3>6. QED
      BY <3>1, <3>2, <3>3, <3>4, <3>5
  <2>6. 1 \in Q /\ Q \subseteq DOMAIN g
    BY <1>1, <1>2 DEF Tree
  <2>7. Tree(g, Q)
    BY <2>4, <2>5, <2>6 DEF Tree
  <2>8. d # "stale" => Q \cap Dead(g) = {}
    BY <1>1, <1>2, <1>3, <1>4 DEF Dead
  <2>9. QED
    BY <1>5, <1>4, <2>6, <2>7, <2>8 DEF OpenHeap
<1>8. QED
  BY <1>6, <1>7

\* What AddField makes of the heap h, with room already made.
Added(h, at, n, t, text) ==
  LET v == Len(h) + 1
      g == Allocate(h, NewValue(n, t))
      filled == IF text THEN Point(Allocate(g, Text), <<v, 1>>, v + 1) ELSE g
  IN  Enlarged(Point(filled, Spare(h, at), v), at)

LEMMA AddSound ==
  ASSUME NEW h, NEW d, Sound(h, d), NEW n \in Names, NEW t \in FieldTypes,
         NEW text \in {FALSE, t = String},
         NEW at \in AllSlots(h), SlotType(h, at).kind = "object",
         Slot(h, at) # Null, h[Slot(h, at)].size + 1 <= Cap(h[Slot(h, at)])
  PROVE  Sound(Added(h, at, n, t, text), d) /\ Kept(h, Added(h, at, n, t, text))
<1> DEFINE v == Len(h) + 1
           p == Slot(h, at)
           a == Allocate(h, NewValue(n, t))
           f == IF text THEN Point(Allocate(a, Text), <<v, 1>>, v + 1) ELSE a
           g == Point(f, Spare(h, at), v)
<1>1. WithValue(h, f, t)
  BY ValueMade DEF Sound
<1>2. Enlarged(g, at) = Added(h, at, n, t, text)
  BY DEF Added
<1> HIDE DEF f
<1>3. /\ WellTyped(g) /\ Kept(h, g) /\ DOMAIN g = DOMAIN f
      /\ Spare(h, at) \in AllSlots(h)
      /\ Slot(g, at) = p /\ g[p].size + 1 <= Cap(g[p])
      /\ \A b \in DOMAIN f :
           /\ g[b].live = f[b].live
           /\ DOMAIN g[b].slots = DOMAIN f[b].slots
           /\ \A i \in DOMAIN f[b].slots :
                g[b].slots[i] = IF b = Spare(h, at)[1] /\ i = Spare(h, at)[2]
                                THEN Len(h) + 1 ELSE f[b].slots[i]
  BY <1>1, ValueHung DEF Sound
<1> HIDE DEF g
<1>4. OpenHeap(g, d)
  BY <1>1, <1>3, ValueOpen DEF Sound
<1>5. at \in AllSlots(g) /\ SlotType(g, at).kind = "object"
  BY <1>3, SlotsKept, TypeKept DEF Sound, WellTyped
<1>6. /\ WellTyped(Enlarged(g, at)) /\ Kept(g, Enlarged(g, at))
      /\ OpenHeap(Enlarged(g, at), d)
  BY <1>3, <1>4, <1>5, EnlargeSound
<1>7. Kept(h, Enlarged(g, at))
  BY <1>3, <1>6 DEF Kept
<1>8. QED
  BY <1>2, <1>6, <1>7 DEF Sound

\* What RemoveField makes of it.
Rest(h, at, i) ==
  [j \in 1 .. h[Slot(h, at)].size - 1 |->
     h[Slot(h, at)].slots[IF j < i THEN j ELSE j + 1]]
Tight(h, at, i) ==
  Block("object", <<Value>>, h[Slot(h, at)].size - 1, Rest(h, at, i), NoName)

LEMMA TightFresh ==
  ASSUME NEW h, WellTyped(h), NEW at \in AllSlots(h), SlotType(h, at).kind = "object",
         NEW i, i \in Fields(h, at)
  PROVE  LET p == Slot(h, at)
             b == Tight(h, at, i)
         IN  /\ p # Null /\ p \in DOMAIN h /\ h[p].size \in Nat \ {0}
             /\ Fresh(h, b) /\ b.live = TRUE /\ b.kind = "object"
             /\ b.size = h[p].size - 1 /\ Takes(h, p, b)
<1> DEFINE p == Slot(h, at)
           s == h[p].size
           b == Tight(h, at, i)
           r == Rest(h, at, i)
<1>1. p # Null /\ i \in InUse(h[p])
  BY DEF Fields
<1>2. p \in DOMAIN h /\ h[p].kind = "object"
  BY <1>1, BufferOf
<1>3. h[p].of = <<Value>> /\ h \in Seq(BlockType)
  BY <1>2 DEF WellTyped, Shaped
<1>4. s \in Nat /\ InUse(h[p]) = 1 .. s /\ InUse(h[p]) \subseteq DOMAIN h[p].slots
  <2>1. s \in Nat /\ InUse(h[p]) \subseteq DOMAIN h[p].slots
    BY <1>2, RoomInside
  <2>2. Len(<<Value>>) = 1 /\ s * 1 = s
    BY <2>1
  <2>3. QED
    BY <1>3, <2>1, <2>2 DEF InUse
<1>5. s \in Nat \ {0} /\ s - 1 \in Nat /\ i \in 1 .. s
  BY <1>1, <1>4
<1>6. ASSUME NEW j \in 1 .. s - 1
      PROVE  LET k == IF j < i THEN j ELSE j + 1 IN
             k \in DOMAIN h[p].slots /\ r[j] = h[p].slots[k]
  <2>1. (IF j < i THEN j ELSE j + 1) \in 1 .. s
    BY <1>5
  <2>2. QED
    BY <1>4, <2>1 DEF Rest
<1>7. r \in Seq(Nat) /\ Len(r) = s - 1 /\ DOMAIN r = 1 .. s - 1
  <2>1. \A k \in DOMAIN h[p].slots : h[p].slots[k] \in Nat
    BY <1>2, <1>3, HeapType
  <2>2. DOMAIN r = 1 .. s - 1
    BY DEF Rest
  <2>3. \A j \in 1 .. s - 1 : r[j] \in Nat
    BY <1>6, <2>1
  <2>4. r = [j \in 1 .. s - 1 |-> r[j]]
    BY DEF Rest
  <2> HIDE DEF r, s
  <2>5. r \in [1 .. s - 1 -> Nat]
    BY <2>2, <2>3, <2>4
  <2>6. QED
    BY <1>5, <2>2, <2>5
<1>8. /\ b.live = TRUE /\ b.kind = "object" /\ b.of = <<Value>> /\ b.size = s - 1
      /\ b.slots = r /\ b.name = NoName
  BY DEF Tight, Block
<1> HIDE DEF r
<1>9. b \in BlockType
  <2>1. <<Value>> \in Seq(Types)
    BY ElementTypes
  <2>2. b = [live |-> TRUE, kind |-> "object", of |-> <<Value>>, size |-> s - 1,
             slots |-> r, name |-> NoName]
    BY DEF Tight, Block, r
  <2>3. QED
    BY <1>5, <1>7, <2>1, <2>2 DEF BlockType, Kinds
<1> HIDE DEF b
<1>10. Shaped(b)
  BY <1>8 DEF Shaped
<1>11. Fits(b)
  <2>1. Len(b.of) = 1 /\ s - 1 = (s - 1) * 1
    BY <1>5, <1>8
  <2>2. QED
    BY <1>5, <1>7, <1>8, <2>1 DEF Fits
<1>12. ASSUME NEW j \in DOMAIN b.slots, b.slots[j] # Null
       PROVE  /\ b.slots[j] \in DOMAIN h
              /\ Leads(b.of[((j - 1) % Len(b.of)) + 1], h[b.slots[j]])
  <2>1. PICK k \in DOMAIN h[p].slots : b.slots[j] = h[p].slots[k]
    BY <1>6, <1>7, <1>8
  <2>2. LedRight(h, <<p, k>>) /\ Slot(h, <<p, k>>) = h[p].slots[k]
    BY <1>2 DEF WellTyped, Slot
  <2>3. \A m \in Nat \ {0} : <<Value>>[((m - 1) % Len(<<Value>>)) + 1] = Value
    <3>1. \A m \in Nat \ {0} : ((m - 1) % 1) + 1 = 1
      OBVIOUS
    <3>2. Len(<<Value>>) = 1 /\ <<Value>>[1] = Value
      OBVIOUS
    <3>3. QED
      BY <3>1, <3>2
  <2>a. /\ k \in Nat \ {0}
        /\ SlotType(h, <<p, k>>) = h[p].of[((k - 1) % Len(h[p].of)) + 1]
    BY <1>2, TypeOfSlot
  <2>4. k \in Nat \ {0} /\ j \in Nat \ {0}
    BY <1>5, <1>7, <1>8, <2>a
  <2>5. SlotType(h, <<p, k>>) = <<Value>>[((k - 1) % Len(<<Value>>)) + 1]
    BY <1>3, <2>a
  <2>6. SlotType(h, <<p, k>>) = Value /\ b.of[((j - 1) % Len(b.of)) + 1] = Value
    BY <1>8, <2>3, <2>4, <2>5
  <2>7. QED
    BY <1>12, <2>1, <2>2, <2>6 DEF LedRight
<1>13. Fresh(h, b)
  BY <1>8, <1>9, <1>10, <1>11, <1>12 DEF Fresh
<1>14. Takes(h, p, b)
  <2>1. ASSUME NEW j \in 1 .. s - 1, NEW l \in 1 .. s - 1
        PROVE  (IF j < i THEN j ELSE j + 1) = (IF l < i THEN l ELSE l + 1) => j = l
    BY <1>5
  <2>2. QED
    BY <1>1, <1>6, <1>7, <1>8, <2>1 DEF Takes
<1>15. QED
  BY <1>1, <1>2, <1>5, <1>8, <1>13, <1>14 DEF b

-----------------------------------------------------------------------------
(* The calls. *)

LEMMA CallableSlots ==
  ASSUME TeardownInv, NEW at \in Callable
  PROVE  at \in AllSlots(heap)
<1>1. CASE at \in Current
  BY <1>1, CurrentSlots DEF Current, TeardownInv
<1>2. CASE at \in {held} \ {NoSlot}
  BY <1>2 DEF TeardownInv
<1>3. QED
  BY <1>1, <1>2 DEF Callable

\* What a call that works leaves behind.
CallDone ==
  /\ Sound(heap', destroys') /\ Kept(heap, heap')
  /\ destroys' \in {"never", "current", "stale"}
  /\ held' \in {held} \cup AllSlots(heap')
  /\ UNCHANGED <<phase, work, owned, fault>>

LEMMA TextCalls ==
  ASSUME TeardownInv, NEW at \in AllSlots(heap), SetText(at) \/ ClearText(at)
  PROVE  CallDone
<1>1. Sound(heap, destroys) /\ SlotType(heap, at).kind = "string"
  BY DEF TeardownInv, SetText, ClearText, CalledOn, Sound
<1>2. CASE SetText(at)
  <2>1. Leads(SlotType(heap, at), Text) /\ Takes(heap, Slot(heap, at), Text) /\ Text.live
    BY <1>1 DEF Leads, Takes, Text, Block
  <2>2. heap' = Point(Allocate(heap, Text), at, Len(heap) + 1)
    BY <1>2 DEF SetText
  <2>3. Sound(heap', destroys) /\ Kept(heap, heap')
    BY <1>1, <2>1, <2>2, TextType, AttachSound DEF Attaches
  <2>4. QED
    BY <1>2, <2>3 DEF CallDone, SetText, Keep, TeardownInv
<1>3. CASE ClearText(at)
  <2>1. Sound(heap', destroys) /\ Kept(heap, heap')
    BY <1>1, <1>3, NullSound DEF ClearText
  <2>2. QED
    BY <1>3, <2>1 DEF CallDone, ClearText, Keep, TeardownInv
<1>4. QED
  BY <1>2, <1>3

LEMMA ReserveCall ==
  ASSUME TeardownInv, NEW at \in AllSlots(heap), NEW c \in 1 .. MaxCap, Reserve(at, c)
  PROVE  CallDone
<1>1. Sound(heap, destroys) /\ SlotType(heap, at).kind = "array"
  BY DEF TeardownInv, Reserve, CalledOn, Sound
<1>2. c \in Nat
  BY ConstantsAssumption
<1>3. Slot(heap, at) # Null => heap[Slot(heap, at)].size <= c
  <2>1. ASSUME Slot(heap, at) # Null
        PROVE  /\ heap[Slot(heap, at)].size \in Nat /\ Cap(heap[Slot(heap, at)]) \in Nat
               /\ heap[Slot(heap, at)].size <= Cap(heap[Slot(heap, at)])
    BY <1>1, <2>1, BufferOf, RoomInside DEF Sound
  <2>2. QED
    BY <1>2, <2>1 DEF Reserve
<1>4. Sound(heap', destroys) /\ Kept(heap, heap')
  BY <1>1, <1>2, <1>3, GrowSound DEF Reserve, Attaches
<1>5. QED
  BY <1>4 DEF CallDone, Reserve, Keep, TeardownInv

LEMMA PushCalls ==
  ASSUME TeardownInv, NEW at \in AllSlots(heap),
         PreparePush(at) \/ CommitPush(at) \/ PushBack(at)
  PROVE  CallDone
<1>1. Sound(heap, destroys) /\ SlotType(heap, at).kind = "array"
  BY DEF TeardownInv, PreparePush, CommitPush, PushBack, CalledOn, Sound
<1>2. CASE PreparePush(at)
  <2>1. heap' \in Prepared(heap, at) /\ held' = Spare(heap', at)
    BY <1>2 DEF PreparePush
  <2>2. Sound(heap', destroys) /\ Kept(heap, heap') /\ held' \in AllSlots(heap')
    BY <1>1, <2>1, Preparing DEF Sound
  <2>3. QED
    BY <1>2, <2>2 DEF CallDone, PreparePush, Keep, TeardownInv
<1>3. CASE CommitPush(at)
  <2>1. Slot(heap, at) # Null /\ heap' = Enlarged(heap, at)
    BY <1>3 DEF CommitPush
  <2>2. heap[Slot(heap, at)].size + 1 <= Cap(heap[Slot(heap, at)])
    <3>1. heap[Slot(heap, at)].size \in Nat /\ Cap(heap[Slot(heap, at)]) \in Nat
      BY <1>1, <2>1, BufferOf, RoomInside DEF Sound
    <3>2. QED
      BY <1>3, <3>1 DEF CommitPush, Full
  <2>3. Sound(heap', destroys) /\ Kept(heap, heap')
    BY <1>1, <2>1, <2>2, EnlargeSound DEF Sound
  <2>4. QED
    BY <1>3, <2>3 DEF CallDone, CommitPush, Keep, TeardownInv
<1>4. CASE PushBack(at)
  <2>1. PICK h \in Prepared(heap, at) : heap' = Enlarged(h, at)
    BY <1>4 DEF PushBack
  <2>2. /\ Sound(h, destroys) /\ Kept(heap, h)
        /\ Slot(h, at) # Null /\ h[Slot(h, at)].size + 1 <= Cap(h[Slot(h, at)])
    BY <1>1, <2>1, Preparing DEF Sound
  <2>3. at \in AllSlots(h) /\ SlotType(h, at).kind = "array"
    BY <1>1, <2>2, SlotsKept, TypeKept DEF Sound, WellTyped
  <2>4. Sound(heap', destroys) /\ Kept(h, heap')
    BY <2>1, <2>2, <2>3, EnlargeSound DEF Sound
  <2>5. Kept(heap, heap')
    BY <2>2, <2>4 DEF Kept
  <2>6. QED
    BY <1>4, <2>4, <2>5 DEF CallDone, PushBack, Keep, TeardownInv
<1>5. QED
  BY <1>2, <1>3, <1>4

LEMMA ClearCalls ==
  ASSUME TeardownInv, NEW at \in AllSlots(heap), Clear(at) \/ Destroy(at)
  PROVE  CallDone
<1>1. /\ Sound(heap, destroys) /\ SlotType(heap, at).kind = "array"
      /\ Slot(heap, at) # Null
  BY DEF TeardownInv, Clear, Destroy, CalledOn, Sound
<1>2. CASE Clear(at)
  <2>1. Slot(heap, at) \in DOMAIN heap /\ heap[Slot(heap, at)].kind = "array"
    BY <1>1, BufferOf DEF Sound
  <2>2. Sound(heap', destroys) /\ Kept(heap, heap')
    BY <1>1, <1>2, <2>1, ClearSound DEF Sound, Clear
  <2>3. QED
    BY <1>2, <2>2 DEF CallDone, Clear, Keep, TeardownInv
<1>3. CASE Destroy(at)
  <2>1. destroys' = AfterDestroy(heap, at, destroys)
    BY <1>3 DEF Destroy, AfterDestroy, Current
  <2>2. Sound(heap', destroys') /\ Kept(heap, heap')
    BY <1>1, <1>3, <2>1, DestroySound DEF Destroy
  <2>3. destroys' \in {"never", "current", "stale"}
    BY <2>1 DEF AfterDestroy
  <2>4. QED
    BY <1>3, <2>2, <2>3 DEF CallDone, Destroy, Keep, TeardownInv
<1>4. QED
  BY <1>2, <1>3

LEMMA AddCall ==
  ASSUME TeardownInv, NEW at \in AllSlots(heap), NEW n \in Names, NEW t \in FieldTypes,
         AddField(at, n, t)
  PROVE  CallDone
<1>1. Sound(heap, destroys) /\ SlotType(heap, at).kind = "object"
  BY DEF TeardownInv, AddField, CalledOn, Sound
<1>2. PICK h \in Room(heap, at), text \in {FALSE, t = String} :
        heap' = Added(h, at, n, t, text)
  BY DEF AddField, Added
<1>3. /\ Sound(h, destroys) /\ Kept(heap, h)
      /\ Slot(h, at) # Null /\ h[Slot(h, at)].size + 1 <= Cap(h[Slot(h, at)])
  BY <1>1, MakingRoom DEF Sound
<1>4. at \in AllSlots(h) /\ SlotType(h, at).kind = "object"
  BY <1>1, <1>3, SlotsKept, TypeKept DEF Sound, WellTyped
<1>5. Sound(heap', destroys) /\ Kept(h, heap')
  BY <1>2, <1>3, <1>4, AddSound
<1>6. Kept(heap, heap')
  BY <1>3, <1>5 DEF Kept
<1>7. QED
  BY <1>5, <1>6 DEF CallDone, AddField, Keep, TeardownInv

LEMMA RemoveCall ==
  ASSUME TeardownInv, NEW at \in AllSlots(heap), NEW i, RemoveField(at, i)
  PROVE  CallDone
<1>1. /\ Sound(heap, destroys) /\ SlotType(heap, at).kind = "object"
      /\ i \in Fields(heap, at)
  BY DEF TeardownInv, RemoveField, CalledOn, Sound
<1>2. \/ heap' = Point(heap, at, Null)
      \/ heap' = Point(Allocate(heap, Tight(heap, at, i)), at, Len(heap) + 1)
  BY DEF RemoveField, Tight, Rest
<1>3. CASE heap' = Point(heap, at, Null)
  BY <1>1, <1>3, NullSound DEF CallDone, RemoveField, Keep, TeardownInv
<1>4. CASE heap' = Point(Allocate(heap, Tight(heap, at, i)), at, Len(heap) + 1)
  <2> DEFINE b == Tight(heap, at, i)
  <2>1. /\ Fresh(heap, b) /\ b.live = TRUE /\ b.kind = "object"
        /\ Takes(heap, Slot(heap, at), b)
    BY <1>1, TightFresh DEF Sound
  <2> HIDE DEF b
  <2>2. Leads(SlotType(heap, at), b)
    BY <1>1, <2>1 DEF Leads
  <2>3. heap' = Point(Allocate(heap, b), at, Len(heap) + 1)
    BY <1>4 DEF b
  <2>4. Sound(heap', destroys) /\ Kept(heap, heap')
    BY <1>1, <2>1, <2>2, <2>3, AttachSound DEF Attaches
  <2>5. QED
    BY <2>4 DEF CallDone, RemoveField, Keep, TeardownInv
<1>5. QED
  BY <1>2, <1>3, <1>4

\* A call leaves the region sound, or misuses a block that was freed.
LEMMA CallStep ==
  ASSUME TeardownInv, Calls
  PROVE  (phase = "open" /\ CallDone) \/ \E at \in Callable : UseDead(at)
<1>1. PICK at \in Callable :
        \/ SetText(at) \/ ClearText(at)
        \/ \E c \in 1 .. MaxCap : Reserve(at, c)
        \/ PreparePush(at) \/ CommitPush(at) \/ PushBack(at)
        \/ Clear(at) \/ Destroy(at)
        \/ \E n \in Names, t \in FieldTypes : AddField(at, n, t)
        \/ \E i \in 1 .. MaxCap : RemoveField(at, i)
        \/ UseDead(at)
  BY DEF Calls
<1>2. at \in AllSlots(heap)
  BY CallableSlots
<1>3. phase = "open" \/ UseDead(at)
  BY <1>1 DEF SetText, ClearText, Reserve, PreparePush, CommitPush, PushBack, Clear,
              Destroy, AddField, RemoveField, CalledOn
<1>4. CallDone \/ UseDead(at)
  BY <1>1, <1>2, TextCalls, ReserveCall, PushCalls, ClearCalls, AddCall, RemoveCall
<1>5. QED
  BY <1>3, <1>4

-----------------------------------------------------------------------------
(* The tasks of the walk. *)

LEMMA OwnBelowIs ==
  ASSUME NEW h, NEW b, NEW c
  PROVE  c \in OwnBelow(h[b]) <=>
           /\ h[b].live /\ ~(h[b].kind = "value" /\ h[b].of = <<Object>>)
           /\ c # Null /\ \E i \in InUse(h[b]) : c = h[b].slots[i]
BY DEF OwnBelow, Below

LEMMA Owning ==
  ASSUME NEW h, WellTyped(h)
  PROVE  /\ 1 \in Owned(h) /\ Owned(h) \subseteq DOMAIN h
         /\ \A b \in Owned(h) : OwnBelow(h[b]) \subseteq Owned(h)
         /\ \A S \in SUBSET DOMAIN h :
              1 \in S /\ (\A b \in S : OwnBelow(h[b]) \subseteq S) => Owned(h) \subseteq S
<1> DEFINE edges == [b \in DOMAIN h |-> OwnBelow(h[b])]
<1>1. DOMAIN edges = DOMAIN h /\ \A b \in DOMAIN h : edges[b] = OwnBelow(h[b])
  OBVIOUS
<1>2. Owned(h) = Closure(edges)
  BY DEF Owned
<1>3. \A b \in DOMAIN h : OwnBelow(h[b]) \subseteq DOMAIN h
  BY BelowInside DEF OwnBelow
<1> HIDE DEF edges
<1>4. 1 \in DOMAIN h
  BY BelowInside
<1>5. QED
  BY <1>1, <1>2, <1>3, <1>4, ClosureInside, ClosureCloses

LEMMA TaskFacts ==
  /\ \A b \in Nat : FreeBlock(b) \in TaskType /\ FreeBlock(b).do = "free"
                    /\ FreeBlock(b).block = b
  /\ \A at \in Nat \X Nat : \A what \in {"slot", "null"} :
       Task(what, at, Null) \in TaskType /\ Task(what, at, Null).do = what
       /\ Task(what, at, Null).at = at
BY DEF FreeBlock, Task, TaskType, NoSlot, Null

LEMMA TaskIs ==
  ASSUME NEW w \in Seq(TaskType), NEW j \in DOMAIN w
  PROVE  /\ w[j] \in TaskType /\ w[j].do \in {"slot", "free", "null"}
         /\ w[j].at \in Nat \X Nat /\ w[j].block \in Nat
         /\ j \in Nat \ {0} /\ DOMAIN w = 1 .. Len(w) /\ Len(w) \in Nat
<1>1. w[j] \in TaskType /\ DOMAIN w = 1 .. Len(w) /\ Len(w) \in Nat
  OBVIOUS
<1>2. QED
  BY <1>1 DEF TaskType

LEMMA Joining ==
  ASSUME NEW S, NEW s \in Seq(S), NEW t \in Seq(S)
  PROVE  /\ s \o t \in Seq(S) /\ Len(s \o t) = Len(s) + Len(t)
         /\ \A k \in 1 .. Len(s) + Len(t) :
              (s \o t)[k] = IF k <= Len(s) THEN s[k] ELSE t[k - Len(s)]
OBVIOUS

\* A task is replaced by others.
LEMMA Replacing ==
  ASSUME NEW w \in Seq(TaskType), w # <<>>, NEW s \in Seq(TaskType)
  PROVE  LET u == s \o Tail(w) IN
         /\ u \in Seq(TaskType) /\ Len(u) = Len(s) + Len(w) - 1
         /\ Len(s) \in Nat /\ Len(w) \in Nat \ {0} /\ Head(w) = w[1]
         /\ DOMAIN u = 1 .. Len(u) /\ DOMAIN w = 1 .. Len(w) /\ DOMAIN s = 1 .. Len(s)
         /\ \A k \in DOMAIN s : k \in DOMAIN u /\ u[k] = s[k]
         /\ \A j \in DOMAIN w : j # 1 =>
              Len(s) + j - 1 \in DOMAIN u /\ u[Len(s) + j - 1] = w[j]
         /\ \A k \in DOMAIN u : k \in DOMAIN s
              \/ \E j \in DOMAIN w : j # 1 /\ k = Len(s) + j - 1
<1> DEFINE v == Tail(w)
           u == s \o v
<1>1. /\ v \in Seq(TaskType) /\ Len(v) = Len(w) - 1 /\ Len(w) \in Nat \ {0}
      /\ Head(w) = w[1] /\ \A j \in 1 .. Len(v) : v[j] = w[j + 1]
  OBVIOUS
<1>2. DOMAIN w = 1 .. Len(w) /\ DOMAIN s = 1 .. Len(s) /\ Len(s) \in Nat
  OBVIOUS
<1> HIDE DEF v
<1>3. /\ u \in Seq(TaskType) /\ Len(u) = Len(s) + Len(v) /\ DOMAIN u = 1 .. Len(u)
      /\ \A k \in 1 .. Len(u) : u[k] = IF k <= Len(s) THEN s[k] ELSE v[k - Len(s)]
  <2>1. /\ u \in Seq(TaskType) /\ Len(u) = Len(s) + Len(v)
        /\ \A k \in 1 .. Len(s) + Len(v) :
             u[k] = IF k <= Len(s) THEN s[k] ELSE v[k - Len(s)]
    BY <1>1, Joining
  <2> HIDE DEF u
  <2>2. QED
    BY <2>1
<1> HIDE DEF u
<1>4. \A k \in DOMAIN s : k \in DOMAIN u /\ u[k] = s[k]
  BY <1>1, <1>2, <1>3
<1>5. ASSUME NEW j \in DOMAIN w, j # 1
      PROVE  Len(s) + j - 1 \in DOMAIN u /\ u[Len(s) + j - 1] = w[j]
  <2>1. j - 1 \in 1 .. Len(v) /\ v[j - 1] = w[j]
    <3>1. j - 1 \in 1 .. Len(v) /\ (j - 1) + 1 = j
      BY <1>1, <1>2, <1>5
    <3>2. v[j - 1] = w[(j - 1) + 1]
      BY <1>1, <3>1
    <3>3. QED
      BY <3>1, <3>2
  <2>2. /\ Len(s) + j - 1 \in 1 .. Len(u) /\ ~(Len(s) + j - 1 <= Len(s))
        /\ (Len(s) + j - 1) - Len(s) = j - 1
    BY <1>1, <1>2, <1>3, <2>1
  <2>3. QED
    BY <1>3, <2>1, <2>2
<1>6. ASSUME NEW k \in DOMAIN u, k \notin DOMAIN s
      PROVE  \E j \in DOMAIN w : j # 1 /\ k = Len(s) + j - 1
  <2>1. k - Len(s) + 1 \in DOMAIN w /\ k - Len(s) + 1 # 1 /\ k = Len(s) + (k - Len(s) + 1) - 1
    BY <1>1, <1>2, <1>3, <1>6
  <2>2. QED
    BY <2>1
<1>7. QED
  BY <1>1, <1>2, <1>3, <1>4, <1>5, <1>6 DEF u, v

\* The head is done.
LEMMA Doing ==
  ASSUME NEW w \in Seq(TaskType), w # <<>>
  PROVE  LET u == Tail(w) IN
         /\ u \in Seq(TaskType) /\ Head(w) = w[1] /\ 1 \in DOMAIN w
         /\ \A j \in DOMAIN w : j # 1 => j - 1 \in DOMAIN u /\ u[j - 1] = w[j]
         /\ \A k \in DOMAIN u : k \in Nat /\ k + 1 \in DOMAIN w /\ k + 1 # 1
                                /\ u[k] = w[k + 1]
<1> DEFINE u == Tail(w)
<1>1. /\ u \in Seq(TaskType) /\ Len(u) = Len(w) - 1 /\ Len(w) \in Nat \ {0}
      /\ Head(w) = w[1] /\ \A j \in 1 .. Len(u) : u[j] = w[j + 1]
      /\ DOMAIN w = 1 .. Len(w) /\ DOMAIN u = 1 .. Len(u)
  OBVIOUS
<1> HIDE DEF u
<1>2. \A k \in DOMAIN u : k \in Nat /\ k + 1 \in DOMAIN w /\ k + 1 # 1 /\ u[k] = w[k + 1]
  BY <1>1
<1>3. ASSUME NEW j \in DOMAIN w, j # 1
      PROVE  j - 1 \in DOMAIN u /\ u[j - 1] = w[j]
  <2>1. j - 1 \in DOMAIN u /\ (j - 1) + 1 = j
    BY <1>1, <1>3
  <2>2. u[j - 1] = w[(j - 1) + 1]
    BY <1>2, <2>1
  <2>3. QED
    BY <2>1, <2>2
<1>4. QED
  BY <1>1, <1>2, <1>3 DEF u

\* What a value owns: its text.
LEMMA ValueOwns ==
  ASSUME NEW h, WellTyped(h), NEW v \in DOMAIN h, h[v].kind = "value"
  PROVE  /\ h[v].of # <<String>> => OwnBelow(h[v]) = {}
         /\ 1 \in InUse(h[v]) /\ 1 \in DOMAIN h[v].slots
         /\ h[v].slots[1] \in {Null} \cup DOMAIN h
         /\ h[v].of = <<String>> /\ h[v].slots[1] # Null =>
              h[h[v].slots[1]].kind = "text"
         /\ OwnBelow(h[v]) \subseteq {h[v].slots[1]}
<1>1. PICK t \in FieldTypes : h[v].of = <<t>> /\ h[v].size = 1
  BY DEF WellTyped, Shaped
<1>2. InUse(h[v]) = {1}
  <2>1. Len(<<t>>) = 1 /\ 1 * 1 = 1 /\ 1 .. 1 = {1}
    OBVIOUS
  <2>2. QED
    BY <1>1, <2>1 DEF InUse
<1>3. 1 \in DOMAIN h[v].slots
  BY <1>2, RoomInside
<1>4. SlotType(h, <<v, 1>>) = t
  <2>1. SlotType(h, <<v, 1>>) = <<t>>[((1 - 1) % Len(<<t>>)) + 1]
    BY <1>1, <1>3, TypeOfSlot
  <2>2. ((1 - 1) % 1) + 1 = 1 /\ Len(<<t>>) = 1
    OBVIOUS
  <2>3. QED
    BY <2>1, <2>2
<1>5. h[v].slots[1] \in {Null} \cup DOMAIN h /\ Slot(h, <<v, 1>>) = h[v].slots[1]
  BY <1>3, TypeOfSlot
<1>6. h[v].slots[1] # Null => Leads(t, h[h[v].slots[1]])
  BY <1>3, <1>4, <1>5 DEF WellTyped, LedRight
<1>7. t \in {Scalar, String, Object}
  BY ConstantsAssumption
<1>8. OwnBelow(h[v]) \subseteq {h[v].slots[1]}
  BY <1>2 DEF OwnBelow, Below
<1>9. <<t>>[1] = t /\ <<String>>[1] = String /\ <<Object>>[1] = Object
  OBVIOUS
<1>10. CASE t = String
  <2>1. h[v].slots[1] # Null => h[h[v].slots[1]].kind = "text"
    BY <1>6, <1>10 DEF Leads, String
  <2>2. QED
    BY <1>1, <1>2, <1>3, <1>5, <1>8, <1>10, <2>1
<1>11. CASE t = Scalar
  <2>1. h[v].slots[1] = Null
    BY <1>6, <1>11 DEF Leads, Scalar
  <2>2. OwnBelow(h[v]) = {}
    BY <1>2, <2>1, OwnBelowIs
  <2>3. t # String
    BY <1>11 DEF Scalar, String
  <2>4. QED
    BY <1>1, <1>2, <1>3, <1>5, <1>8, <1>9, <2>2, <2>3
<1>12. CASE t = Object
  <2>1. OwnBelow(h[v]) = {}
    BY <1>1, <1>12 DEF OwnBelow, WellTyped
  <2>2. t # String
    BY <1>12 DEF Object, String
  <2>3. QED
    BY <1>1, <1>2, <1>3, <1>5, <1>8, <1>9, <2>1, <2>2
<1>13. QED
  BY <1>7, <1>10, <1>11, <1>12

\* The tasks below a buffer p.
LEMMA InsideArray ==
  ASSUME NEW h, WellTyped(h), NEW p \in DOMAIN h, h[p].kind = "array"
  PROVE  LET s == Inside(h, p) IN
         /\ s \in Seq(TaskType) /\ DOMAIN s = InUse(h[p])
         /\ \A k \in DOMAIN s : s[k].do = "slot" /\ s[k].at = <<p, k>>
<1> DEFINE s == Inside(h, p)
           n == h[p].size * Len(h[p].of)
<1>1. n \in Nat /\ InUse(h[p]) = 1 .. n /\ p \in Nat
  BY RoomInside DEF InUse, WellTyped
<1>2. s = [i \in 1 .. n |-> Task("slot", <<p, i>>, Null)]
  BY DEF Inside, Walk
<1> HIDE DEF s, n
<1>3. \A i \in 1 .. n : /\ Task("slot", <<p, i>>, Null) \in TaskType
                        /\ Task("slot", <<p, i>>, Null).do = "slot"
                        /\ Task("slot", <<p, i>>, Null).at = <<p, i>>
  BY <1>1, TaskFacts
<1>4. s \in [1 .. n -> TaskType]
  BY <1>2, <1>3
<1>5. s \in Seq(TaskType) /\ DOMAIN s = 1 .. n
  BY <1>1, <1>4
<1>6. \A k \in 1 .. n : s[k].do = "slot" /\ s[k].at = <<p, k>>
  BY <1>2, <1>3
<1>7. QED
  BY <1>1, <1>5, <1>6 DEF s

LEMMA InsideObject ==
  ASSUME NEW h, WellTyped(h), NEW p \in DOMAIN h, h[p].kind = "object"
  PROVE  LET s == Inside(h, p)
             n == h[p].size
         IN  /\ s \in Seq(TaskType) /\ n \in Nat /\ InUse(h[p]) = 1 .. n
             /\ DOMAIN s = 1 .. 2 * n
             /\ \A i \in 1 .. n : h[p].slots[i] \in {Null} \cup DOMAIN h
                  /\ (h[p].slots[i] # Null => h[h[p].slots[i]].kind = "value")
             /\ \A k \in DOMAIN s : s[k].do = "free"
             /\ \A i \in 1 .. n :
                  /\ 2 * i \in DOMAIN s /\ s[2 * i].block = h[p].slots[i]
                  /\ 2 * i - 1 \in DOMAIN s
                  /\ s[2 * i - 1].block = TextOf(h, h[p].slots[i])
             /\ \A k \in DOMAIN s : \E i \in 1 .. n : k \in {2 * i - 1, 2 * i}
<1> DEFINE s == Inside(h, p)
           n == h[p].size
           v(j) == h[p].slots[(j + 1) \div 2]
           blk(j) == IF j % 2 = 0 THEN v(j) ELSE TextOf(h, v(j))
<1>1. h[p].of = <<Value>> /\ n \in Nat /\ n * 1 = n /\ Len(<<Value>>) = 1
  BY RoomInside DEF WellTyped, Shaped
<1>2. InUse(h[p]) = 1 .. n /\ 1 .. n \subseteq DOMAIN h[p].slots
  BY <1>1, RoomInside DEF InUse
<1>3. ASSUME NEW i \in 1 .. n
      PROVE  /\ h[p].slots[i] \in {Null} \cup DOMAIN h
             /\ h[p].slots[i] # Null => h[h[p].slots[i]].kind = "value"
  <2>1. i \in DOMAIN h[p].slots
    BY <1>2
  <2>2. /\ SlotType(h, <<p, i>>) = <<Value>>[((i - 1) % Len(<<Value>>)) + 1]
        /\ Slot(h, <<p, i>>) = h[p].slots[i]
    BY <1>1, <2>1, TypeOfSlot
  <2>3. ((i - 1) % 1) + 1 = 1
    <3>1. \A k \in Nat \ {0} : ((k - 1) % 1) + 1 = 1
      OBVIOUS
    <3>2. QED
      BY <1>1, <3>1
  <2>4. SlotType(h, <<p, i>>) = Value
    BY <1>1, <2>2, <2>3
  <2>5. LedRight(h, <<p, i>>)
    BY <2>1 DEF WellTyped
  <2>6. QED
    BY <2>2, <2>4, <2>5 DEF LedRight, Leads, Value
<1>4. s = [j \in 1 .. 2 * n |-> FreeBlock(blk(j))]
  BY DEF Inside, ValueTasks
<1> HIDE DEF s, n
<1>5. \A j \in 1 .. 2 * n : (j + 1) \div 2 \in 1 .. n
  BY <1>1
<1>6. ASSUME NEW j \in 1 .. 2 * n
      PROVE  blk(j) \in Nat
  <2>1. v(j) \in {Null} \cup DOMAIN h /\ (v(j) # Null => h[v(j)].kind = "value")
    BY <1>3, <1>5
  <2>2. h \in Seq(BlockType)
    BY DEF WellTyped
  <2>3. TextOf(h, v(j)) \in {Null} \cup DOMAIN h
    BY <2>1, ValueOwns DEF TextOf
  <2>4. QED
    BY <2>1, <2>2, <2>3 DEF Null
<1>7. \A j \in 1 .. 2 * n : /\ FreeBlock(blk(j)) \in TaskType
                            /\ FreeBlock(blk(j)).do = "free"
                            /\ FreeBlock(blk(j)).block = blk(j)
  BY <1>6, TaskFacts
<1>8. s \in [1 .. 2 * n -> TaskType] /\ \A j \in 1 .. 2 * n : s[j] = FreeBlock(blk(j))
  BY <1>4, <1>7
<1>9. s \in Seq(TaskType) /\ DOMAIN s = 1 .. 2 * n
  BY <1>1, <1>8
<1>10. ASSUME NEW i \in 1 .. n
       PROVE  /\ 2 * i \in 1 .. 2 * n /\ 2 * i - 1 \in 1 .. 2 * n
              /\ blk(2 * i) = h[p].slots[i]
              /\ blk(2 * i - 1) = TextOf(h, h[p].slots[i])
  <2>1. /\ 2 * i \in 1 .. 2 * n /\ 2 * i - 1 \in 1 .. 2 * n
        /\ (2 * i) % 2 = 0 /\ (2 * i - 1) % 2 # 0
        /\ (2 * i + 1) \div 2 = i /\ (2 * i - 1 + 1) \div 2 = i
    BY <1>1
  <2>2. QED
    BY <2>1
<1>11. \A k \in 1 .. 2 * n : \E i \in 1 .. n : k \in {2 * i - 1, 2 * i}
  <2>1. \A k \in 1 .. 2 * n : k \in {2 * ((k + 1) \div 2) - 1, 2 * ((k + 1) \div 2)}
    BY <1>1
  <2>2. QED
    BY <1>5, <2>1
<1>12. \A k \in DOMAIN s : s[k].do = "free"
  BY <1>7, <1>8, <1>9
<1>13. \A i \in 1 .. n : /\ 2 * i \in DOMAIN s /\ s[2 * i].block = h[p].slots[i]
                         /\ 2 * i - 1 \in DOMAIN s
                         /\ s[2 * i - 1].block = TextOf(h, h[p].slots[i])
  BY <1>7, <1>8, <1>9, <1>10
<1>14. QED
  BY <1>1, <1>2, <1>3, <1>9, <1>11, <1>12, <1>13 DEF s, n

-----------------------------------------------------------------------------
(* msm_free begins. *)

\* w walks the first m slots of the region's block and frees it.
Starts(w, m) ==
  /\ w \in Seq(TaskType) /\ DOMAIN w = 1 .. m + 1
  /\ \A j \in 1 .. m : w[j].do = "slot" /\ w[j].at = <<1, j>>
  /\ w[m + 1].do = "free" /\ w[m + 1].block = 1

LEMMA Starting ==
  /\ \A m \in Nat : Starts(Walk(1, m) \o <<FreeBlock(1)>>, m)
  /\ Starts(<<>> \o <<FreeBlock(1)>>, 0) /\ <<>> \o <<FreeBlock(1)>> = <<FreeBlock(1)>>
<1> DEFINE t == <<FreeBlock(1)>>
<1>1. t \in Seq(TaskType) /\ Len(t) = 1 /\ t[1].do = "free" /\ t[1].block = 1
  BY TaskFacts
<1>2. ASSUME NEW m \in Nat
      PROVE  Starts(Walk(1, m) \o t, m)
  <2> DEFINE s == Walk(1, m)
  <2>1. \A i \in 1 .. m : /\ Task("slot", <<1, i>>, Null) \in TaskType
                          /\ Task("slot", <<1, i>>, Null).do = "slot"
                          /\ Task("slot", <<1, i>>, Null).at = <<1, i>>
    BY TaskFacts
  <2>2. s \in [1 .. m -> TaskType] /\ \A i \in 1 .. m : s[i].do = "slot" /\ s[i].at = <<1, i>>
    BY <2>1 DEF Walk
  <2>3. s \in Seq(TaskType) /\ Len(s) = m
    BY <2>2
  <2> HIDE DEF s, t
  <2>0. /\ s \o t \in Seq(TaskType) /\ Len(s \o t) = Len(s) + Len(t)
        /\ \A k \in 1 .. Len(s) + Len(t) :
             (s \o t)[k] = IF k <= Len(s) THEN s[k] ELSE t[k - Len(s)]
    BY <1>1, <2>3, Joining
  <2>4. /\ s \o t \in Seq(TaskType) /\ Len(s \o t) = m + 1
        /\ \A k \in 1 .. m + 1 : (s \o t)[k] = IF k <= m THEN s[k] ELSE t[k - m]
    BY <1>1, <2>0, <2>3
  <2>5. (s \o t)[m + 1] = t[1] /\ \A k \in 1 .. m : (s \o t)[k] = s[k]
    <3>1. m + 1 \in 1 .. m + 1 /\ ~(m + 1 <= m) /\ (m + 1) - m = 1
      OBVIOUS
    <3>2. \A k \in 1 .. m : k \in 1 .. m + 1 /\ k <= m
      OBVIOUS
    <3>3. QED
      BY <2>4, <3>1, <3>2
  <2>6. DOMAIN (s \o t) = 1 .. m + 1
    BY <2>4
  <2> HIDE DEF Starts
  <2>7. QED
    BY <1>1, <2>2, <2>4, <2>5, <2>6 DEF Starts, s
<1>3. <<>> \o t = t
  BY <1>1
<1>4. Starts(t, 0)
  BY <1>1 DEF Starts
<1>5. QED
  BY <1>2, <1>3, <1>4

LEMMA StartSafe ==
  ASSUME NEW h, WellTyped(h), NEW R, Tree(h, R), R \cap Dead(h) = {},
         NEW m \in Nat, 1 .. m \subseteq DOMAIN h[1].slots, NEW w, Starts(w, m)
  PROVE  SafeWalk(h, w, R)
<1>1. 1 \in R /\ R \subseteq DOMAIN h /\ 1 # Null
  BY DEF Tree, Null
<1>2. \A b \in R : h[b].live
  BY <1>1 DEF Dead
<1>3. ASSUME NEW j \in DOMAIN w
      PROVE  \/ j \in 1 .. m /\ w[j].do = "slot" /\ w[j].at = <<1, j>>
             \/ j = m + 1 /\ w[j].do = "free" /\ w[j].block = 1
  <2>1. j \in 1 .. m \/ j = m + 1
    BY DEF Starts
  <2>2. QED
    BY <2>1 DEF Starts
<1>4. \A j : \A b : FreesAt(w, j, b) <=> j = m + 1 /\ b = 1
  <2>1. m + 1 \in DOMAIN w
    BY DEF Starts
  <2>2. QED
    BY <1>3, <2>1 DEF FreesAt
<1>5. \A b \in R : Touched(h, w, b) <=> b = 1
  <2>1. m + 1 \in DOMAIN w
    BY DEF Starts
  <2>2. QED
    BY <1>2, <1>4, <2>1 DEF Touched
<1>6. \A b \in R : \A i \in DOMAIN h[b].slots :
        h[b].slots[i] # Null => h[b].slots[i] \in R \ {1}
  BY DEF Tree
<1>7. \A j \in DOMAIN w : w[j].do = "free" /\ w[j].block # Null =>
        w[j].block \in R /\ h[w[j].block].live
  BY <1>1, <1>2, <1>3
<1>8. \A j \in DOMAIN w : w[j].do \in {"slot", "null"} =>
        \E k \in DOMAIN w : k > j /\ FreesAt(w, k, w[j].at[1])
  <2>1. ASSUME NEW j \in DOMAIN w, w[j].do \in {"slot", "null"}
        PROVE  m + 1 \in DOMAIN w /\ m + 1 > j /\ FreesAt(w, m + 1, w[j].at[1])
    BY <1>3, <1>4, <2>1 DEF Starts
  <2>2. QED
    BY <2>1
<1>9. \A i, j \in DOMAIN w :
        w[i].do = "slot" /\ w[j].do = "slot" /\ w[i].at = w[j].at => i = j
  BY <1>3
<1>10. ASSUME NEW j \in DOMAIN w, w[j].do = "slot", Slot(h, w[j].at) # Null
       PROVE  ~Touched(h, w, Slot(h, w[j].at))
  <2>1. j \in DOMAIN h[1].slots /\ Slot(h, w[j].at) = h[1].slots[j]
    BY <1>3, <1>10 DEF Slot
  <2>2. h[1].slots[j] \in R \ {1}
    BY <1>1, <1>6, <1>10, <2>1
  <2>3. QED
    BY <1>5, <2>1, <2>2
<1>11. \A b \in R : \A i \in DOMAIN h[b].slots :
         h[b].slots[i] # Null /\ Touched(h, w, h[b].slots[i]) => Touched(h, w, b)
  BY <1>5, <1>6
<1>12. QED
  BY <1>4, <1>7, <1>8, <1>9, <1>10, <1>11 DEF SafeWalk

LEMMA StartWalks ==
  ASSUME NEW h, WellTyped(h), \A b \in Dead(h) : h[b].kind = "array",
         NEW w, Starts(w, Len(h[1].of))
  PROVE  Walking(h, w, Dead(h) \cup Owned(h))
<1> DEFINE O == Dead(h) \cup Owned(h)
           m == Len(h[1].of)
<1>1. /\ 1 \in Owned(h) /\ Owned(h) \subseteq DOMAIN h
      /\ \A b \in Owned(h) : OwnBelow(h[b]) \subseteq Owned(h)
  BY Owning
<1>2. O \subseteq DOMAIN h
  BY <1>1 DEF Dead
<1>3. h[1].kind = "region" /\ h[1].size = 1 /\ h[1].live /\ m \in Nat /\ 1 \in DOMAIN h
  <2>1. h[1].kind = "region" /\ 1 \in DOMAIN h
    BY <1>1 DEF WellTyped
  <2>2. QED
    BY <2>1, RoomInside DEF WellTyped, Shaped, Dead
<1>4. InUse(h[1]) = 1 .. m
  <2>1. 1 * m = m
    BY <1>3
  <2>2. QED
    BY <1>3, <2>1 DEF InUse
<1>5. ASSUME NEW j \in DOMAIN w
      PROVE  \/ j \in 1 .. m /\ w[j].do = "slot" /\ w[j].at = <<1, j>>
             \/ j = m + 1 /\ w[j].do = "free" /\ w[j].block = 1
  <2>1. j \in 1 .. m \/ j = m + 1
    BY <1>3 DEF Starts
  <2>2. QED
    BY <2>1 DEF Starts
<1>6. StaysIn(h, w, O)
  <2>1. ASSUME NEW b \in O, h[b].live \/ h[b].kind = "value",
               ~(h[b].kind = "value" /\ h[b].of = <<Object>>), NEW i \in InUse(h[b])
        PROVE  h[b].slots[i] \in O \cup {Null}
    <3>1. h[b].live /\ b \in Owned(h)
      <4>1. b \in Dead(h) => ~h[b].live /\ h[b].kind # "value"
        BY DEF Dead
      <4>2. b \notin Dead(h)
        BY <2>1, <4>1
      <4>3. b \in DOMAIN h /\ b \in Owned(h)
        BY <1>1, <4>2
      <4>4. h[b].live
        BY <4>2, <4>3 DEF Dead
      <4>5. QED
        BY <4>3, <4>4
    <3>2. h[b].slots[i] # Null => h[b].slots[i] \in OwnBelow(h[b])
      BY <2>1, <3>1, OwnBelowIs
    <3>3. QED
      BY <1>1, <3>1, <3>2
  <2>2. \A j \in DOMAIN w :
          /\ w[j].do = "free" => w[j].block \in O \cup {Null}
          /\ w[j].do = "slot" => /\ w[j].at[1] \in O
                                 /\ h[w[j].at[1]].kind \in {"region", "array"}
                                 /\ w[j].at[2] \in InUse(h[w[j].at[1]])
          /\ w[j].do = "null" => w[j].at \in AllSlots(h)
    BY <1>1, <1>3, <1>4, <1>5
  <2>3. QED
    BY <2>1, <2>2 DEF StaysIn
<1>7. InOrder(h, w)
  <2>1. ASSUME NEW j \in DOMAIN w, w[j].do = "free", NEW c \in OwnBelow(h[w[j].block])
        PROVE  \E i \in 1 .. j - 1 : Frees(h, w[i], c)
    <3>1. j = m + 1 /\ w[j].block = 1
      BY <1>5, <2>1
    <3>0. c \in OwnBelow(h[1])
      BY <2>1, <3>1
    <3>2. PICK i \in InUse(h[1]) : c = h[1].slots[i]
      BY <3>0 DEF OwnBelow, Below
    <3>3. i \in DOMAIN w /\ i \in 1 .. m /\ i \in 1 .. j - 1
      BY <1>3, <1>4, <3>1, <3>2 DEF Starts
    <3>4. w[i].do = "slot" /\ Slot(h, w[i].at) = c
      BY <1>3, <1>5, <3>2, <3>3 DEF Slot
    <3>5. QED
      BY <3>3, <3>4 DEF Frees
  <2>2. \A j \in DOMAIN w : w[j].do # "null"
    BY <1>5
  <2>3. QED
    BY <2>1, <2>2 DEF InOrder
<1>8. Covers(h, w, O)
  <2>1. ASSUME NEW S \in SUBSET DOMAIN h, \A b \in S : OwnBelow(h[b]) \subseteq S,
               \A j \in DOMAIN w : \A c \in DOMAIN h : Frees(h, w[j], c) => c \in S
        PROVE  O \ Dead(h) \subseteq S
    <3>1. m + 1 \in DOMAIN w /\ Frees(h, w[m + 1], 1)
      BY <1>3 DEF Starts, Frees
    <3>2. 1 \in S
      BY <1>3, <2>1, <3>1
    <3>3. Owned(h) \subseteq S
      BY <2>1, <3>2, Owning
    <3>4. QED
      BY <3>3
  <2>2. QED
    BY <2>1 DEF Covers
<1>9. QED
  BY <1>2, <1>6, <1>7, <1>8 DEF Walking

LEMMA FreeStep ==
  ASSUME TeardownInv, NEW d \in Destructors, Free(d)
  PROVE  FreeingInv' /\ owned' \subseteq DOMAIN heap
<1> DEFINE m == IF d THEN Len(heap[1].of) ELSE 0
<1>1. /\ WellTyped(heap) /\ OpenHeap(heap, destroys) /\ heap' = heap
      /\ destroys' = destroys /\ d \in BOOLEAN
      /\ owned' = Dead(heap) \cup (IF d THEN Owned(heap) ELSE {1})
  BY ConstantsAssumption DEF TeardownInv, Free, Dead
<1>2. /\ 1 \in DOMAIN heap /\ Len(heap[1].of) \in Nat
      /\ 1 .. Len(heap[1].of) \subseteq DOMAIN heap[1].slots
  <2>1. 1 \in DOMAIN heap /\ heap[1].size = 1
    BY <1>1, BelowInside DEF WellTyped, Shaped
  <2>2. Len(heap[1].of) \in Nat /\ 1 * Len(heap[1].of) = Len(heap[1].of)
    BY <1>1, <2>1, RoomInside
  <2>3. QED
    BY <1>1, <2>1, <2>2, RoomInside DEF InUse
<1>3. Starts(work', m) /\ (~d => work' = <<FreeBlock(1)>>)
  BY <1>2, Starting DEF Free
<1>4. \A b \in Dead(heap) : heap[b].kind = "array"
  BY <1>1 DEF OpenHeap
<1>5. Bare(heap, work', owned') \/ Walking(heap, work', owned')
  <2>1. CASE d
    BY <1>1, <1>3, <1>4, <2>1, StartWalks
  <2>2. CASE ~d
    BY <1>1, <1>3, <2>2 DEF Bare
  <2>3. QED
    BY <2>1, <2>2
<1>6. ASSUME destroys # "stale"
      PROVE  \E R \in SUBSET DOMAIN heap : Tree(heap, R) /\ SafeWalk(heap, work', R)
  <2>1. PICK R \in SUBSET DOMAIN heap : Tree(heap, R) /\ R \cap Dead(heap) = {}
    BY <1>1, <1>6 DEF OpenHeap
  <2>2. m \in Nat /\ 1 .. m \subseteq DOMAIN heap[1].slots
    BY <1>2
  <2> HIDE DEF m
  <2>3. SafeWalk(heap, work', R)
    BY <1>1, <1>3, <2>1, <2>2, StartSafe
  <2>4. QED
    BY <2>1, <2>3
<1>7. work' \in Seq(TaskType)
  BY <1>3 DEF Starts
<1>8. owned' \subseteq DOMAIN heap
  BY <1>1, <1>2, Owning DEF Dead
<1>9. QED
  BY <1>1, <1>5, <1>6, <1>7, <1>8 DEF FreeingInv

-----------------------------------------------------------------------------
(* The walk frees what it has to, in order. *)

LEMMA FreesWhat ==
  ASSUME NEW h, NEW w \in Seq(TaskType), NEW j \in DOMAIN w, NEW c
  PROVE  /\ w[j].do = "free" => (Frees(h, w[j], c) <=> w[j].block = c)
         /\ w[j].do = "slot" => (Frees(h, w[j], c) <=> Slot(h, w[j].at) = c)
         /\ w[j].do = "null" => ~Frees(h, w[j], c)
BY DEF Frees

\* The tasks that are left stay in O.
LEMMA TailStays ==
  ASSUME NEW h, NEW g, NEW O, O \subseteq DOMAIN h,
         NEW w \in Seq(TaskType), w # <<>>, StaysIn(h, w, O),
         DOMAIN g = DOMAIN h, Kept(h, g),
         \A b \in DOMAIN h :
           /\ g[b].live => h[b].live
           /\ g[b].size = h[b].size
           /\ DOMAIN g[b].slots = DOMAIN h[b].slots
           /\ \A i \in InUse(h[b]) : g[b].slots[i] \in {Null, h[b].slots[i]}
  PROVE  StaysIn(g, Tail(w), O)
<1> DEFINE u == Tail(w)
<1>1. \A k \in DOMAIN u : k + 1 \in DOMAIN w /\ u[k] = w[k + 1]
  BY Doing
<1> HIDE DEF u
<1>2. \A b \in DOMAIN h : /\ InUse(g[b]) = InUse(h[b]) /\ g[b].kind = h[b].kind
                          /\ g[b].of = h[b].of
  BY DEF InUse, Kept
<1>3. ASSUME NEW b \in O, g[b].live \/ g[b].kind = "value",
             ~(g[b].kind = "value" /\ g[b].of = <<Object>>), NEW i \in InUse(g[b])
      PROVE  g[b].slots[i] \in O \cup {Null}
  <2>1. b \in DOMAIN h /\ i \in InUse(h[b])
    BY <1>2, <1>3
  <2>2. h[b].live \/ h[b].kind = "value"
    <3>1. CASE g[b].live
      BY <2>1, <3>1
    <3>2. CASE g[b].kind = "value"
      BY <1>2, <2>1, <3>2
    <3>3. QED
      BY <1>3, <3>1, <3>2
  <2>3. ~(h[b].kind = "value" /\ h[b].of = <<Object>>)
    BY <1>2, <1>3, <2>1
  <2>4. h[b].slots[i] \in O \cup {Null}
    BY <2>1, <2>2, <2>3 DEF StaysIn
  <2>5. QED
    BY <2>1, <2>4
<1>4. ASSUME NEW k \in DOMAIN u
      PROVE  /\ u[k].do = "free" => u[k].block \in O \cup {Null}
             /\ u[k].do = "slot" => /\ u[k].at[1] \in O
                                    /\ g[u[k].at[1]].kind \in {"region", "array"}
                                    /\ u[k].at[2] \in InUse(g[u[k].at[1]])
             /\ u[k].do = "null" => u[k].at \in AllSlots(g)
  <2>1. k + 1 \in DOMAIN w /\ u[k] = w[k + 1]
    BY <1>1
  <2>2. /\ u[k].do = "free" => u[k].block \in O \cup {Null}
        /\ u[k].do = "slot" => /\ u[k].at[1] \in O
                               /\ h[u[k].at[1]].kind \in {"region", "array"}
                               /\ u[k].at[2] \in InUse(h[u[k].at[1]])
        /\ u[k].do = "null" => u[k].at \in AllSlots(h)
    BY <2>1 DEF StaysIn
  <2>3. u[k].do = "null" => u[k].at \in AllSlots(g)
    BY <2>2 DEF AllSlots
  <2>4. QED
    BY <1>2, <2>2, <2>3
<1>5. QED
  BY <1>3, <1>4 DEF StaysIn, u

\* A task that frees nothing is done.
LEMMA WalkDropped ==
  ASSUME NEW h, WellTyped(h), NEW O, NEW w \in Seq(TaskType), w # <<>>,
         Walking(h, w, O), w[1].do \in {"slot", "free"},
         \A c \in DOMAIN h : ~Frees(h, w[1], c)
  PROVE  Walking(h, Tail(w), O)
<1> DEFINE u == Tail(w)
<1>0. /\ Dead(h) \subseteq O /\ O \subseteq DOMAIN h /\ StaysIn(h, w, O)
      /\ InOrder(h, w) /\ Covers(h, w, O)
  BY DEF Walking
<1>1. /\ \A j \in DOMAIN w : j # 1 => j - 1 \in DOMAIN u /\ u[j - 1] = w[j]
      /\ \A k \in DOMAIN u : k \in Nat /\ k + 1 \in DOMAIN w /\ k + 1 # 1 /\ u[k] = w[k + 1]
      /\ 1 \in DOMAIN w
  BY Doing
<1>2. StaysIn(h, u, O)
  <2>1. Kept(h, h)
    BY DEF Kept
  <2>2. QED
    BY <1>0, <2>1, TailStays
<1> HIDE DEF u
<1>3. InOrder(h, u)
  <2>1. ASSUME NEW k \in DOMAIN u, u[k].do = "free", u[k].block # Null,
               NEW c \in OwnBelow(h[u[k].block]), h[c].live
        PROVE  \E i \in 1 .. k - 1 : Frees(h, u[i], c)
    <3>1. u[k].block \in DOMAIN h /\ k + 1 \in DOMAIN w /\ u[k] = w[k + 1] /\ k \in Nat
      BY <1>0, <1>1, <1>2, <2>1 DEF StaysIn
    <3>2. c \in DOMAIN h
      BY <2>1, <3>1, BelowInside DEF OwnBelow
    <3>3. PICK i \in 1 .. (k + 1) - 1 : Frees(h, w[i], c)
      BY <1>0, <2>1, <3>1 DEF InOrder
    <3>4. i # 1 /\ i \in DOMAIN w
      BY <3>1, <3>2, <3>3
    <3>5. i - 1 \in 1 .. k - 1
      BY <3>1, <3>3, <3>4, SMTT(60)
    <3>6. u[i - 1] = w[i]
      BY <1>1, <3>4
    <3>7. QED
      BY <3>3, <3>5, <3>6
  <2>2. ASSUME NEW k \in DOMAIN u, u[k].do = "null", Slot(h, u[k].at) # Null,
               h[Slot(h, u[k].at)].live
        PROVE  \E i \in 1 .. k - 1 : u[i].do = "free" /\ u[i].block = Slot(h, u[k].at)
    <3>1. k + 1 \in DOMAIN w /\ u[k] = w[k + 1] /\ k \in Nat
      BY <1>1
    <3>2. Slot(h, u[k].at) \in DOMAIN h
      BY <1>2, <2>2, BufferOf DEF StaysIn
    <3>3. PICK i \in 1 .. (k + 1) - 1 : w[i].do = "free" /\ w[i].block = Slot(h, u[k].at)
      BY <1>0, <2>2, <3>1 DEF InOrder
    <3>4. i # 1 /\ i \in DOMAIN w
      BY <3>1, <3>2, <3>3 DEF Frees
    <3>5. i - 1 \in 1 .. k - 1
      BY <3>1, <3>3, <3>4
    <3>6. u[i - 1] = w[i]
      BY <1>1, <3>4
    <3>7. QED
      BY <3>3, <3>5, <3>6
  <2>3. QED
    BY <2>1, <2>2 DEF InOrder
<1>4. Covers(h, u, O)
  <2>1. ASSUME NEW S \in SUBSET DOMAIN h, \A b \in S : OwnBelow(h[b]) \subseteq S,
               \A k \in DOMAIN u : \A c \in DOMAIN h : Frees(h, u[k], c) => c \in S
        PROVE  O \ Dead(h) \subseteq S
    <3>1. ASSUME NEW j \in DOMAIN w, NEW c \in DOMAIN h, Frees(h, w[j], c)
          PROVE  c \in S
      <4>1. j # 1
        BY <3>1
      <4>2. QED
        BY <1>1, <2>1, <3>1, <4>1
    <3>2. QED
      BY <1>0, <2>1, <3>1 DEF Covers
  <2>2. QED
    BY <2>1 DEF Covers
<1>5. QED
  BY <1>0, <1>2, <1>3, <1>4 DEF Walking, u

\* A block is freed.
LEMMA WalkKilled ==
  ASSUME NEW h, WellTyped(h), NEW O, NEW w \in Seq(TaskType), w # <<>>,
         Walking(h, w, O), NEW p \in DOMAIN h, w[1].do = "free", w[1].block = p
  PROVE  Walking([h EXCEPT ![p].live = FALSE], Tail(w), O)
<1> DEFINE u == Tail(w)
           g == [h EXCEPT ![p].live = FALSE]
<1>0. /\ Dead(h) \subseteq O /\ O \subseteq DOMAIN h /\ StaysIn(h, w, O)
      /\ InOrder(h, w) /\ Covers(h, w, O) /\ h \in Seq(BlockType)
  BY DEF Walking, WellTyped
<1>1. /\ \A j \in DOMAIN w : j # 1 => j - 1 \in DOMAIN u /\ u[j - 1] = w[j]
      /\ \A k \in DOMAIN u : k \in Nat /\ k + 1 \in DOMAIN w /\ k + 1 # 1 /\ u[k] = w[k + 1]
      /\ 1 \in DOMAIN w
  BY Doing
<1>2. /\ DOMAIN g = DOMAIN h /\ Kept(h, g)
      /\ \A b \in DOMAIN h :
           /\ g[b].live <=> (b # p /\ h[b].live)
           /\ g[b].size = h[b].size /\ g[b].slots = h[b].slots
           /\ b # p => g[b] = h[b]
  BY <1>0, Killing
<1> HIDE DEF g
<1>3. StaysIn(g, u, O)
  <2>1. \A b \in DOMAIN h :
          /\ g[b].live => h[b].live
          /\ g[b].size = h[b].size
          /\ DOMAIN g[b].slots = DOMAIN h[b].slots
          /\ \A i \in InUse(h[b]) : g[b].slots[i] \in {Null, h[b].slots[i]}
    BY <1>2
  <2>2. QED
    BY <1>0, <1>2, <2>1, TailStays
<1> HIDE DEF u
<1>4. p \in O
  <2>1. p # Null
    BY <1>0 DEF Null
  <2>2. QED
    BY <1>0, <1>1, <2>1 DEF StaysIn
<1>5. Dead(g) = Dead(h) \cup {p}
  BY <1>2 DEF Dead
<1>6. \A c \in OwnBelow(h[p]) : ~h[c].live
  <2>1. p # Null
    BY <1>0 DEF Null
  <2>2. ASSUME NEW c \in OwnBelow(h[p]) PROVE ~h[c].live
    <3>1. ~h[c].live \/ \E i \in 1 .. 1 - 1 : Frees(h, w[i], c)
      BY <1>0, <1>1, <2>1, <2>2 DEF InOrder
    <3>2. QED
      BY <3>1
  <2>3. QED
    BY <2>2
<1>7. OwnBelow(g[p]) = {}
  BY <1>2 DEF OwnBelow, Below
<1>8. \A j \in DOMAIN w : \A c : Frees(g, w[j], c) <=> Frees(h, w[j], c)
  <2>1. ASSUME NEW j \in DOMAIN w, w[j].do = "slot"
        PROVE  Slot(g, w[j].at) = Slot(h, w[j].at)
    <3>1. w[j].at[1] \in DOMAIN h
      BY <1>0, <2>1 DEF StaysIn
    <3>2. QED
      BY <1>2, <3>1 DEF Slot
  <2>2. QED
    BY <2>1 DEF Frees
<1>9. InOrder(g, u)
  <2>1. ASSUME NEW k \in DOMAIN u, u[k].do = "free", u[k].block # Null,
               NEW c \in OwnBelow(g[u[k].block]), g[c].live
        PROVE  \E i \in 1 .. k - 1 : Frees(g, u[i], c)
    <3>1. u[k].block \in DOMAIN h /\ k + 1 \in DOMAIN w /\ u[k] = w[k + 1] /\ k \in Nat
      BY <1>0, <1>1, <1>3, <2>1 DEF StaysIn
    <3>2. u[k].block # p /\ c \in OwnBelow(h[u[k].block])
      BY <1>2, <1>7, <2>1, <3>1
    <3>3. c \in DOMAIN h
      BY <3>1, <3>2, BelowInside DEF OwnBelow
    <3>4. c # p /\ h[c].live
      BY <1>2, <2>1, <3>3
    <3>5. PICK i \in 1 .. (k + 1) - 1 : Frees(h, w[i], c)
      BY <1>0, <2>1, <3>1, <3>2, <3>4 DEF InOrder
    <3>6. i # 1 /\ i \in DOMAIN w
      BY <3>1, <3>4, <3>5 DEF Frees
    <3>7. i - 1 \in 1 .. k - 1
      BY <3>1, <3>5, <3>6
    <3>8. u[i - 1] = w[i] /\ Frees(g, w[i], c)
      BY <1>1, <1>8, <3>5, <3>6
    <3>9. QED
      BY <3>7, <3>8
  <2>2. ASSUME NEW k \in DOMAIN u, u[k].do = "null", Slot(g, u[k].at) # Null,
               g[Slot(g, u[k].at)].live
        PROVE  \E i \in 1 .. k - 1 : u[i].do = "free" /\ u[i].block = Slot(g, u[k].at)
    <3>1. k + 1 \in DOMAIN w /\ u[k] = w[k + 1] /\ k \in Nat
      BY <1>1
    <3> DEFINE at == u[k].at
    <3>2. at \in AllSlots(h)
      BY <1>0, <2>2, <3>1 DEF StaysIn
    <3>3. Slot(g, at) = Slot(h, at)
      BY <1>2, <3>2 DEF Slot, AllSlots
    <3>4. Slot(h, at) \in DOMAIN h
      BY <2>2, <3>2, <3>3, BufferOf
    <3>5. Slot(h, at) # p /\ h[Slot(h, at)].live
      BY <1>2, <2>2, <3>3, <3>4
    <3>6. PICK i \in 1 .. (k + 1) - 1 : w[i].do = "free" /\ w[i].block = Slot(h, at)
      BY <1>0, <2>2, <3>1, <3>3, <3>5 DEF InOrder
    <3>7. i # 1 /\ i \in DOMAIN w
      BY <3>1, <3>5, <3>6
    <3>8. i - 1 \in 1 .. k - 1
      BY <3>1, <3>6, <3>7, SMTT(60)
    <3>9. u[i - 1] = w[i]
      BY <1>1, <3>7
    <3>10. QED
      BY <3>3, <3>6, <3>8, <3>9
  <2>3. QED
    BY <2>1, <2>2 DEF InOrder
<1>10. Covers(g, u, O)
  <2>1. ASSUME NEW S \in SUBSET DOMAIN g, \A b \in S : OwnBelow(g[b]) \subseteq S,
               \A k \in DOMAIN u : \A c \in DOMAIN g : Frees(g, u[k], c) => c \in S
        PROVE  O \ Dead(g) \subseteq S
    <3> DEFINE T == S \cup Dead(g)
    <3>1. T \in SUBSET DOMAIN h
      BY <1>2 DEF Dead
    <3>2. ASSUME NEW b \in T PROVE OwnBelow(h[b]) \subseteq T
      <4>1. CASE b = p
        <5>1. \A c \in OwnBelow(h[p]) : c \in DOMAIN h
          BY BelowInside DEF OwnBelow
        <5>2. QED
          BY <1>5, <1>6, <4>1, <5>1 DEF Dead
      <4>2. CASE b # p /\ b \in S
        BY <1>2, <2>1, <4>2
      <4>3. CASE b # p /\ b \in Dead(h)
        BY <4>3 DEF Dead, OwnBelow, Below
      <4>4. QED
        BY <1>5, <3>2, <4>1, <4>2, <4>3
    <3>3. ASSUME NEW j \in DOMAIN w, NEW c \in DOMAIN h, Frees(h, w[j], c)
          PROVE  c \in T
      <4>1. CASE j = 1
        BY <1>5, <3>3, <4>1 DEF Frees
      <4>2. CASE j # 1
        BY <1>1, <1>2, <1>8, <2>1, <3>3, <4>2
      <4>3. QED
        BY <4>1, <4>2
    <3> HIDE DEF T
    <3>4. O \ Dead(h) \subseteq T
      BY <1>0, <3>1, <3>2, <3>3 DEF Covers
    <3>5. QED
      BY <1>5, <3>4 DEF T
  <2>2. QED
    BY <2>1 DEF Covers
<1>11. Dead(g) \subseteq O /\ O \subseteq DOMAIN g
  BY <1>0, <1>2, <1>4, <1>5
<1>12. QED
  BY <1>3, <1>9, <1>10, <1>11 DEF Walking, u, g

\* A pointer is reset.
LEMMA WalkNulled ==
  ASSUME NEW h, WellTyped(h), NEW O, NEW w \in Seq(TaskType), w # <<>>,
         Walking(h, w, O), w[1].do = "null"
  PROVE  Walking(Point(h, w[1].at, Null), Tail(w), O)
<1> DEFINE u == Tail(w)
           x == w[1].at
           g == Point(h, x, Null)
<1>0. /\ Dead(h) \subseteq O /\ O \subseteq DOMAIN h /\ StaysIn(h, w, O)
      /\ InOrder(h, w) /\ Covers(h, w, O) /\ h \in Seq(BlockType)
  BY DEF Walking, WellTyped
<1>1. /\ \A j \in DOMAIN w : j # 1 => j - 1 \in DOMAIN u /\ u[j - 1] = w[j]
      /\ \A k \in DOMAIN u : k \in Nat /\ k + 1 \in DOMAIN w /\ k + 1 # 1 /\ u[k] = w[k + 1]
      /\ 1 \in DOMAIN w
  BY Doing
<1>a. x \in AllSlots(h)
  BY <1>0, <1>1 DEF StaysIn
<1>2. /\ DOMAIN g = DOMAIN h /\ Kept(h, g)
      /\ \A b \in DOMAIN h :
           /\ g[b].live = h[b].live /\ g[b].size = h[b].size
           /\ DOMAIN g[b].slots = DOMAIN h[b].slots
           /\ b # x[1] => g[b] = h[b]
           /\ \A i \in DOMAIN h[b].slots :
                g[b].slots[i] = IF b = x[1] /\ i = x[2] THEN Null ELSE h[b].slots[i]
  BY <1>0, <1>a, Pointing DEF Null
<1>b. x[1] \in DOMAIN h /\ x[2] \in DOMAIN h[x[1]].slots /\ x = <<x[1], x[2]>>
  BY <1>a DEF AllSlots
<1> HIDE DEF g
<1>3. StaysIn(g, u, O)
  <2>1. \A b \in DOMAIN h :
          /\ g[b].live => h[b].live
          /\ g[b].size = h[b].size
          /\ DOMAIN g[b].slots = DOMAIN h[b].slots
          /\ \A i \in InUse(h[b]) : g[b].slots[i] \in {Null, h[b].slots[i]}
    BY <1>2, RoomInside
  <2>2. QED
    BY <1>0, <1>2, <2>1, TailStays
<1> HIDE DEF u
<1>5. Dead(g) = Dead(h)
  BY <1>2 DEF Dead
<1>6. Slot(h, x) # Null => Slot(h, x) \in Dead(h)
  <2>1. ASSUME Slot(h, x) # Null PROVE ~h[Slot(h, x)].live
    <3>1. ~h[Slot(h, x)].live \/ \E i \in 1 .. 1 - 1 : w[i].do = "free" /\ w[i].block = Slot(h, x)
      BY <1>0, <1>1, <2>1 DEF InOrder
    <3>2. QED
      BY <3>1
  <2>2. QED
    BY <1>a, <2>1, BufferOf DEF Dead
<1>7. ASSUME NEW b \in DOMAIN h, NEW c
      PROVE  /\ c \in OwnBelow(g[b]) => c \in OwnBelow(h[b])
             /\ c \in OwnBelow(h[b]) => c \in OwnBelow(g[b]) \cup Dead(h)
  <2>1. /\ InUse(g[b]) = InUse(h[b]) /\ InUse(h[b]) \subseteq DOMAIN h[b].slots
        /\ g[b].kind = h[b].kind /\ g[b].of = h[b].of /\ g[b].live = h[b].live
    BY <1>2, RoomInside DEF InUse, Kept
  <2>2. ASSUME c \in OwnBelow(g[b]) PROVE c \in OwnBelow(h[b])
    <3>1. PICK i \in InUse(g[b]) : c = g[b].slots[i] /\ c # Null
      BY <2>2 DEF OwnBelow, Below
    <3>2. c = h[b].slots[i]
      BY <1>2, <2>1, <3>1
    <3>3. QED
      BY <2>1, <2>2, <3>1, <3>2 DEF OwnBelow, Below
  <2>3. ASSUME c \in OwnBelow(h[b]), c \notin Dead(h) PROVE c \in OwnBelow(g[b])
    <3>1. PICK i \in InUse(h[b]) : c = h[b].slots[i] /\ c # Null
      BY <2>3 DEF OwnBelow, Below
    <3>2. b = x[1] /\ i = x[2] => Slot(h, x) = c
      BY <3>1 DEF Slot
    <3>3. c = g[b].slots[i]
      BY <1>2, <1>6, <2>1, <2>3, <3>1, <3>2
    <3>4. QED
      BY <2>1, <2>3, <3>1, <3>3 DEF OwnBelow, Below
  <2>4. QED
    BY <2>2, <2>3
<1>c. ASSUME NEW at \in AllSlots(h)
      PROVE  Slot(g, at) = Slot(h, at) \/ (Slot(g, at) = Null /\ at = x)
  <2>1. at[1] \in DOMAIN h /\ at[2] \in DOMAIN h[at[1]].slots /\ at = <<at[1], at[2]>>
    BY DEF AllSlots
  <2>2. QED
    BY <1>2, <1>b, <2>1 DEF Slot
<1>8. ASSUME NEW j \in DOMAIN w, NEW c \in DOMAIN h, c \notin Dead(h)
      PROVE  Frees(g, w[j], c) <=> Frees(h, w[j], c)
  <2>1. CASE w[j].do = "slot"
    <3>1. w[j].at \in AllSlots(h)
      <4>1. w[j].at[1] \in DOMAIN h /\ w[j].at[2] \in DOMAIN h[w[j].at[1]].slots
        BY <1>0, <2>1, RoomInside DEF StaysIn
      <4>2. QED
        BY <4>1, TaskIs DEF AllSlots
    <3>2. Slot(g, w[j].at) = c <=> Slot(h, w[j].at) = c
      <4>1. c # Null
        BY <1>0 DEF Null
      <4>2. QED
        BY <1>6, <1>8, <1>c, <3>1, <4>1
    <3>3. QED
      BY <2>1, <3>2 DEF Frees
  <2>2. CASE w[j].do # "slot"
    BY <2>2 DEF Frees
  <2>3. QED
    BY <2>1, <2>2
<1>9. InOrder(g, u)
  <2>1. ASSUME NEW k \in DOMAIN u, u[k].do = "free", u[k].block # Null,
               NEW c \in OwnBelow(g[u[k].block]), g[c].live
        PROVE  \E i \in 1 .. k - 1 : Frees(g, u[i], c)
    <3>1. u[k].block \in DOMAIN h /\ k + 1 \in DOMAIN w /\ u[k] = w[k + 1] /\ k \in Nat
      BY <1>0, <1>1, <1>3, <2>1 DEF StaysIn
    <3>2. c \in OwnBelow(h[u[k].block])
      BY <1>7, <2>1, <3>1
    <3>3. c \in DOMAIN h
      BY <3>1, <3>2, BelowInside DEF OwnBelow
    <3>4. h[c].live /\ c \notin Dead(h)
      BY <1>2, <2>1, <3>3 DEF Dead
    <3>5. PICK i \in 1 .. (k + 1) - 1 : Frees(h, w[i], c)
      BY <1>0, <2>1, <3>1, <3>2, <3>4 DEF InOrder
    <3>6. i # 1 /\ i \in DOMAIN w
      BY <3>1, <3>5 DEF Frees
    <3>7. i - 1 \in 1 .. k - 1
      BY <3>1, <3>5, <3>6
    <3>8. u[i - 1] = w[i] /\ Frees(g, w[i], c)
      BY <1>1, <1>8, <3>3, <3>4, <3>5, <3>6
    <3>9. QED
      BY <3>7, <3>8
  <2>2. ASSUME NEW k \in DOMAIN u, u[k].do = "null", Slot(g, u[k].at) # Null,
               g[Slot(g, u[k].at)].live
        PROVE  \E i \in 1 .. k - 1 : u[i].do = "free" /\ u[i].block = Slot(g, u[k].at)
    <3>1. k + 1 \in DOMAIN w /\ u[k] = w[k + 1] /\ k \in Nat
      BY <1>1
    <3> DEFINE at == u[k].at
    <3>2. at \in AllSlots(h)
      BY <1>0, <2>2, <3>1 DEF StaysIn
    <3>3. Slot(g, at) = Slot(h, at)
      BY <1>c, <2>2, <3>2
    <3>4. Slot(h, at) \in DOMAIN h
      BY <2>2, <3>2, <3>3, BufferOf
    <3>5. h[Slot(h, at)].live
      BY <1>2, <2>2, <3>3, <3>4
    <3>6. PICK i \in 1 .. (k + 1) - 1 : w[i].do = "free" /\ w[i].block = Slot(h, at)
      BY <1>0, <2>2, <3>1, <3>3, <3>5 DEF InOrder
    <3>7. i # 1 /\ i \in DOMAIN w
      BY <3>1, <3>6
    <3>8. i - 1 \in 1 .. k - 1
      BY <3>1, <3>6, <3>7, SMTT(60)
    <3>9. u[i - 1] = w[i]
      BY <1>1, <3>7
    <3>10. QED
      BY <3>3, <3>6, <3>8, <3>9
  <2>3. QED
    BY <2>1, <2>2 DEF InOrder
<1>10. Covers(g, u, O)
  <2>1. ASSUME NEW S \in SUBSET DOMAIN g, \A b \in S : OwnBelow(g[b]) \subseteq S,
               \A k \in DOMAIN u : \A c \in DOMAIN g : Frees(g, u[k], c) => c \in S
        PROVE  O \ Dead(g) \subseteq S
    <3> DEFINE T == S \cup Dead(h)
    <3>1. T \in SUBSET DOMAIN h
      BY <1>2 DEF Dead
    <3>2. ASSUME NEW b \in T PROVE OwnBelow(h[b]) \subseteq T
      <4>1. CASE b \in S
        BY <1>2, <1>7, <2>1, <4>1
      <4>2. CASE b \in Dead(h)
        BY <4>2 DEF Dead, OwnBelow, Below
      <4>3. QED
        BY <3>2, <4>1, <4>2
    <3>3. ASSUME NEW j \in DOMAIN w, NEW c \in DOMAIN h, Frees(h, w[j], c)
          PROVE  c \in T
      <4>1. CASE c \in Dead(h)
        BY <4>1
      <4>2. CASE c \notin Dead(h)
        <5>1. j # 1
          BY <3>3 DEF Frees
        <5>2. Frees(g, w[j], c)
          BY <1>8, <3>3, <4>2
        <5>3. QED
          BY <1>1, <1>2, <2>1, <5>1, <5>2
      <4>3. QED
        BY <4>1, <4>2
    <3> HIDE DEF T
    <3>4. O \ Dead(h) \subseteq T
      BY <1>0, <3>1, <3>2, <3>3 DEF Covers
    <3>5. QED
      BY <1>5, <3>4 DEF T
  <2>2. QED
    BY <2>1 DEF Covers
<1>11. Dead(g) \subseteq O /\ O \subseteq DOMAIN g
  BY <1>0, <1>2, <1>5
<1>12. QED
  BY <1>3, <1>9, <1>10, <1>11 DEF Walking, u, g, x

-----------------------------------------------------------------------------
(* A slot is entered: what is below its buffer, the buffer, the pointer. *)

\* A text owns nothing.
LEMMA TextOwns ==
  ASSUME NEW h, WellTyped(h), NEW p \in DOMAIN h, h[p].kind = "text"
  PROVE  InUse(h[p]) = {} /\ OwnBelow(h[p]) = {}
<1>1. h[p].of = <<>> /\ h[p].size = 0
  BY DEF WellTyped, Shaped
<1>2. Len(<<>>) = 0 /\ 0 * 0 = 0 /\ 1 .. 0 = {}
  OBVIOUS
<1>3. InUse(h[p]) = {}
  BY <1>1, <1>2 DEF InUse
<1>4. QED
  BY <1>3 DEF OwnBelow, Below

\* Task k of those below p frees the value v, or its text before it.
ForValue(h, p, k, t, v) ==
  \E i \in InUse(h[p]) :
    /\ v = h[p].slots[i] /\ v # Null
    /\ \/ k = 2 * i /\ t.block = v
       \/ k = 2 * i - 1 /\ t.block = TextOf(h, v)

\* The tasks below p.
TasksBelow(h, p, s) ==
  /\ s \in Seq(TaskType)
  /\ \A k \in DOMAIN s :
       \/ /\ h[p].kind = "array" /\ s[k].do = "slot"
          /\ s[k].at = <<p, k>> /\ k \in InUse(h[p])
       \/ /\ h[p].kind = "object" /\ s[k].do = "free"
          /\ s[k].block = Null \/ \E v \in DOMAIN h : ForValue(h, p, k, s[k], v)
  /\ \A c \in OwnBelow(h[p]) : \E k \in DOMAIN s : Frees(h, s[k], c)
  /\ InOrder(h, s)

LEMMA ObjectEntries ==
  ASSUME NEW h, WellTyped(h), NEW p \in DOMAIN h, h[p].kind = "object"
  PROVE  TasksBelow(h, p, Inside(h, p))
<1> DEFINE s == Inside(h, p)
           n == h[p].size
<1>1. /\ s \in Seq(TaskType) /\ n \in Nat /\ InUse(h[p]) = 1 .. n
      /\ DOMAIN s = 1 .. 2 * n
      /\ \A i \in 1 .. n : h[p].slots[i] \in {Null} \cup DOMAIN h
           /\ (h[p].slots[i] # Null => h[h[p].slots[i]].kind = "value")
      /\ \A k \in DOMAIN s : s[k].do = "free"
      /\ \A i \in 1 .. n :
           /\ 2 * i \in DOMAIN s /\ s[2 * i].block = h[p].slots[i]
           /\ 2 * i - 1 \in DOMAIN s
           /\ s[2 * i - 1].block = TextOf(h, h[p].slots[i])
      /\ \A k \in DOMAIN s : \E i \in 1 .. n : k \in {2 * i - 1, 2 * i}
  BY InsideObject
<1> HIDE DEF s, n
<1>2. ASSUME NEW k \in DOMAIN s
      PROVE  s[k].block = Null \/ \E v \in DOMAIN h : ForValue(h, p, k, s[k], v)
  <2>1. PICK i \in 1 .. n : k \in {2 * i - 1, 2 * i}
    BY <1>1
  <2>2. CASE h[p].slots[i] = Null
    BY <1>1, <2>1, <2>2 DEF TextOf
  <2>3. CASE h[p].slots[i] # Null
    <3>1. h[p].slots[i] \in DOMAIN h
      BY <1>1, <2>3
    <3>2. \/ k = 2 * i /\ s[k].block = h[p].slots[i]
          \/ k = 2 * i - 1 /\ s[k].block = TextOf(h, h[p].slots[i])
      BY <1>1, <2>1
    <3>3. ForValue(h, p, k, s[k], h[p].slots[i])
      BY <1>1, <2>3, <3>2 DEF ForValue
    <3>4. QED
      BY <3>1, <3>3
  <2>4. QED
    BY <2>2, <2>3
<1>3. ASSUME NEW c \in OwnBelow(h[p])
      PROVE  \E k \in DOMAIN s : Frees(h, s[k], c)
  <2>1. PICK i \in 1 .. n : c = h[p].slots[i]
    BY <1>1, <1>3 DEF OwnBelow, Below
  <2>2. 2 * i \in DOMAIN s /\ s[2 * i].do = "free" /\ s[2 * i].block = c
    BY <1>1, <2>1
  <2>3. QED
    BY <2>2 DEF Frees
<1>4. ASSUME NEW k \in DOMAIN s, s[k].block # Null, NEW c \in OwnBelow(h[s[k].block])
      PROVE  \E j \in 1 .. k - 1 : Frees(h, s[j], c)
  <2>1. PICK v \in DOMAIN h : ForValue(h, p, k, s[k], v)
    BY <1>2, <1>4
  <2>2. PICK i \in 1 .. n : /\ v = h[p].slots[i] /\ v # Null
                            /\ \/ k = 2 * i /\ s[k].block = v
                               \/ k = 2 * i - 1 /\ s[k].block = TextOf(h, v)
    BY <1>1, <2>1 DEF ForValue
  <2>3. h[v].kind = "value"
    BY <1>1, <2>2
  <2>4. CASE k = 2 * i /\ s[k].block = v
    <3>1. h[v].of = <<String>> /\ c = h[v].slots[1]
      BY <1>4, <2>3, <2>4, ValueOwns
    <3>2. c = TextOf(h, v)
      BY <2>2, <3>1 DEF TextOf
    <3>3. 2 * i - 1 \in 1 .. k - 1
      BY <1>1, <2>4
    <3>4. s[2 * i - 1].do = "free" /\ s[2 * i - 1].block = c
      BY <1>1, <2>2, <3>2
    <3>5. QED
      BY <3>3, <3>4 DEF Frees
  <2>5. CASE s[k].block = TextOf(h, v)
    <3>1. TextOf(h, v) = h[v].slots[1] /\ h[v].of = <<String>>
      BY <1>4, <2>5 DEF TextOf
    <3>2. TextOf(h, v) \in DOMAIN h /\ h[TextOf(h, v)].kind = "text"
      BY <1>4, <2>3, <2>5, <3>1, ValueOwns
    <3>3. QED
      BY <1>4, <2>5, <3>2, TextOwns
  <2>6. QED
    BY <2>2, <2>4, <2>5
<1>5. InOrder(h, s)
  BY <1>1, <1>4 DEF InOrder
<1>6. QED
  BY <1>1, <1>2, <1>3, <1>5 DEF TasksBelow, s

LEMMA Entering ==
  ASSUME NEW h, WellTyped(h), NEW p \in DOMAIN h, h[p].kind \in {"text", "array", "object"}
  PROVE  TasksBelow(h, p, Inside(h, p))
<1>1. CASE h[p].kind = "object"
  BY <1>1, ObjectEntries
<1>2. CASE h[p].kind = "text"
  <2>1. Inside(h, p) = <<>>
    BY <1>2 DEF Inside
  <2>2. <<>> \in Seq(TaskType) /\ DOMAIN <<>> = {}
    OBVIOUS
  <2>3. OwnBelow(h[p]) = {}
    BY <1>2, TextOwns
  <2>4. QED
    BY <2>1, <2>2, <2>3 DEF TasksBelow, InOrder
<1>3. CASE h[p].kind = "array"
  <2> DEFINE s == Inside(h, p)
  <2>1. /\ s \in Seq(TaskType) /\ DOMAIN s = InUse(h[p])
        /\ \A k \in DOMAIN s : s[k].do = "slot" /\ s[k].at = <<p, k>>
    BY <1>3, InsideArray
  <2> HIDE DEF s
  <2>2. \A k \in DOMAIN s : Slot(h, s[k].at) = h[p].slots[k]
    BY <2>1 DEF Slot
  <2>3. \A c \in OwnBelow(h[p]) : \E k \in DOMAIN s : Frees(h, s[k], c)
    <3>1. ASSUME NEW c \in OwnBelow(h[p]) PROVE \E k \in DOMAIN s : Frees(h, s[k], c)
      <4>1. PICK i \in InUse(h[p]) : c = h[p].slots[i]
        BY <3>1 DEF OwnBelow, Below
      <4>2. QED
        BY <2>1, <2>2, <4>1 DEF Frees
    <3>2. QED
      BY <3>1
  <2>4. InOrder(h, s)
    BY <2>1 DEF InOrder
  <2>5. QED
    BY <1>3, <2>1, <2>3, <2>4 DEF TasksBelow, s
<1>4. QED
  BY <1>1, <1>2, <1>3

\* The tasks that take the place of the one of slot at, which leads to p: n
\* below p, then p, then the pointer.
Entered(h, at, p) == Inside(h, p) \o <<FreeBlock(p), Task("null", at, Null)>>

EnteredTasks(h, at, p, s, n) ==
  /\ s \in Seq(TaskType) /\ n \in Nat /\ Len(s) = n + 2 /\ DOMAIN s = 1 .. n + 2
  /\ s[n + 1].do = "free" /\ s[n + 1].block = p
  /\ s[n + 2].do = "null" /\ s[n + 2].at = at
  /\ \A k \in 1 .. n :
       \/ /\ h[p].kind = "array" /\ s[k].do = "slot"
          /\ s[k].at = <<p, k>> /\ k \in InUse(h[p])
       \/ /\ h[p].kind = "object" /\ s[k].do = "free"
          /\ s[k].block = Null \/ \E v \in DOMAIN h : ForValue(h, p, k, s[k], v)
  /\ \A c \in OwnBelow(h[p]) : \E k \in 1 .. n : Frees(h, s[k], c)
  /\ \A k \in 1 .. n : s[k].do = "free" /\ s[k].block # Null =>
       \A c \in OwnBelow(h[s[k].block]) :
         ~h[c].live \/ \E i \in 1 .. k - 1 : Frees(h, s[i], c)

LEMMA EnteredIs ==
  ASSUME NEW h, WellTyped(h), NEW p \in DOMAIN h, h[p].kind \in {"text", "array", "object"},
         NEW at \in Nat \X Nat
  PROVE  EnteredTasks(h, at, p, Entered(h, at, p), Len(Inside(h, p)))
<1> DEFINE a == Inside(h, p)
           b == <<FreeBlock(p), Task("null", at, Null)>>
           n == Len(a)
           s == a \o b
<1>1. TasksBelow(h, p, a)
  BY Entering
<1>2. a \in Seq(TaskType)
  BY <1>1 DEF TasksBelow
<1>3. p \in Nat
  BY DEF WellTyped
<1>4. /\ b \in Seq(TaskType) /\ Len(b) = 2 /\ b[1].do = "free" /\ b[1].block = p
      /\ b[2].do = "null" /\ b[2].at = at
  BY <1>3, TaskFacts
<1> HIDE DEF a, b
<1>5. n \in Nat /\ DOMAIN a = 1 .. n
  BY <1>2
<1>6. /\ s \in Seq(TaskType) /\ Len(s) = Len(a) + Len(b)
      /\ \A k \in 1 .. Len(a) + Len(b) : s[k] = IF k <= Len(a) THEN a[k] ELSE b[k - Len(a)]
  BY <1>2, <1>4, Joining
<1> HIDE DEF s
<1>7. Len(s) = n + 2 /\ DOMAIN s = 1 .. n + 2
  BY <1>4, <1>5, <1>6
<1>8. /\ s[n + 1] = b[1] /\ s[n + 2] = b[2] /\ \A k \in 1 .. n : s[k] = a[k]
  <2>1. /\ n + 1 \in 1 .. n + 2 /\ ~(n + 1 <= n) /\ (n + 1) - n = 1
        /\ n + 2 \in 1 .. n + 2 /\ ~(n + 2 <= n) /\ (n + 2) - n = 2
        /\ \A k \in 1 .. n : k \in 1 .. n + 2 /\ k <= n
    BY <1>5
  <2>2. \A k \in 1 .. n + 2 : s[k] = IF k <= n THEN a[k] ELSE b[k - n]
    BY <1>4, <1>6
  <2> HIDE DEF n
  <2>3. QED
    BY <2>1, <2>2
<1> HIDE DEF n
<1>9. \A k \in 1 .. n :
        \/ /\ h[p].kind = "array" /\ s[k].do = "slot"
           /\ s[k].at = <<p, k>> /\ k \in InUse(h[p])
        \/ /\ h[p].kind = "object" /\ s[k].do = "free"
           /\ s[k].block = Null \/ \E v \in DOMAIN h : ForValue(h, p, k, s[k], v)
  <2>1. ASSUME NEW k \in 1 .. n
        PROVE \/ /\ h[p].kind = "array" /\ s[k].do = "slot"
                 /\ s[k].at = <<p, k>> /\ k \in InUse(h[p])
              \/ /\ h[p].kind = "object" /\ s[k].do = "free"
                 /\ s[k].block = Null \/ \E v \in DOMAIN h : ForValue(h, p, k, s[k], v)
    <3>1. s[k] = a[k] /\ k \in DOMAIN a
      BY <1>5, <1>8
    <3>2. QED
      BY <1>1, <3>1 DEF TasksBelow
  <2>2. QED
    BY <2>1
<1>10. \A c \in OwnBelow(h[p]) : \E k \in 1 .. n : Frees(h, s[k], c)
  <2>1. ASSUME NEW c \in OwnBelow(h[p]) PROVE \E k \in 1 .. n : Frees(h, s[k], c)
    <3>1. PICK k \in DOMAIN a : Frees(h, a[k], c)
      BY <1>1 DEF TasksBelow
    <3>2. QED
      BY <1>5, <1>8, <3>1
  <2>2. QED
    BY <2>1
<1>11. ASSUME NEW k \in 1 .. n, s[k].do = "free", s[k].block # Null,
              NEW c \in OwnBelow(h[s[k].block])
       PROVE  ~h[c].live \/ \E i \in 1 .. k - 1 : Frees(h, s[i], c)
  <2>1. s[k] = a[k] /\ k \in DOMAIN a /\ InOrder(h, a)
    BY <1>1, <1>5, <1>8 DEF TasksBelow
  <2>2. ~h[c].live \/ \E i \in 1 .. k - 1 : Frees(h, a[i], c)
    BY <1>11, <2>1 DEF InOrder
  <2>3. \A i \in 1 .. k - 1 : i \in 1 .. n
    BY <1>5
  <2>4. QED
    BY <1>8, <2>2, <2>3
<1>12. EnteredTasks(h, at, p, s, n)
  BY <1>4, <1>5, <1>6, <1>7, <1>8, <1>9, <1>10, <1>11 DEF EnteredTasks
<1>13. QED
  BY <1>12 DEF Entered, s, n, a, b

\* Where the tasks of u = s \o Tail(w) come from.
Spliced(u, s, w) ==
  /\ u \in Seq(TaskType)
  /\ \A k \in DOMAIN s : k \in DOMAIN u /\ u[k] = s[k]
  /\ \A j \in DOMAIN w : j # 1 => Len(s) + j - 1 \in DOMAIN u /\ u[Len(s) + j - 1] = w[j]
  /\ \A k \in DOMAIN u : k \in DOMAIN s
       \/ \E j \in DOMAIN w : j # 1 /\ k = Len(s) + j - 1 /\ u[k] = w[j]

LEMMA Splicing ==
  ASSUME NEW w \in Seq(TaskType), w # <<>>, NEW s \in Seq(TaskType)
  PROVE  Spliced(s \o Tail(w), s, w)
<1> DEFINE u == s \o Tail(w)
<1>1. /\ u \in Seq(TaskType) /\ Len(u) = Len(s) + Len(w) - 1
      /\ \A k \in DOMAIN s : k \in DOMAIN u /\ u[k] = s[k]
      /\ \A j \in DOMAIN w : j # 1 =>
           Len(s) + j - 1 \in DOMAIN u /\ u[Len(s) + j - 1] = w[j]
      /\ \A k \in DOMAIN u : k \in DOMAIN s
           \/ \E j \in DOMAIN w : j # 1 /\ k = Len(s) + j - 1
  BY Replacing
<1> HIDE DEF u
<1>2. \A k \in DOMAIN u : k \in DOMAIN s
        \/ \E j \in DOMAIN w : j # 1 /\ k = Len(s) + j - 1 /\ u[k] = w[j]
  BY <1>1
<1>3. QED
  BY <1>1, <1>2 DEF Spliced, u

\* What the slot of a region or an array leads to.
LEMMA EnteredKind ==
  ASSUME NEW h, WellTyped(h), NEW at \in AllSlots(h), Slot(h, at) # Null,
         h[at[1]].kind \in {"region", "array"}
  PROVE  /\ Slot(h, at) \in DOMAIN h /\ h[Slot(h, at)].kind \in {"text", "array", "object"}
         /\ SlotType(h, at).kind \in {"string", "array", "object"}
<1>1. at[1] \in DOMAIN h /\ at[2] \in DOMAIN h[at[1]].slots /\ at = <<at[1], at[2]>>
  BY DEF AllSlots
<1>2. h[at[1]].of \in Seq(SlotTypes)
  BY <1>1 DEF WellTyped, Shaped
<1>3. SlotType(h, at) \in SlotTypes
  <2>1. /\ ((at[2] - 1) % Len(h[at[1]].of)) + 1 \in DOMAIN h[at[1]].of
        /\ SlotType(h, at) = h[at[1]].of[((at[2] - 1) % Len(h[at[1]].of)) + 1]
    BY <1>1, TypeOfSlot
  <2>2. \A q \in Seq(SlotTypes) : \A i \in DOMAIN q : q[i] \in SlotTypes
    OBVIOUS
  <2>3. QED
    BY <1>2, <2>1, <2>2
<1>4. SlotType(h, at).kind # "value"
  BY <1>3, ConstantsAssumption DEF Scalar, String, Object, ArrayOf
<1>5. SlotType(h, at).kind \in {"string", "array", "object"}
  BY <1>4, BufferOf, SlotTypeKinds
<1>6. QED
  BY <1>5, BufferOf

\* The slot tasks are slots.
LEMMA TaskSlots ==
  ASSUME NEW h, WellTyped(h), NEW O, O \subseteq DOMAIN h, NEW w \in Seq(TaskType),
         StaysIn(h, w, O), NEW j \in DOMAIN w, w[j].do \in {"slot", "null"}
  PROVE  w[j].at \in AllSlots(h)
<1>1. CASE w[j].do = "slot"
  <2>1. w[j].at[1] \in DOMAIN h /\ w[j].at[2] \in DOMAIN h[w[j].at[1]].slots
    BY <1>1, RoomInside DEF StaysIn
  <2>2. QED
    BY <2>1, TaskIs DEF AllSlots
<1>2. CASE w[j].do = "null"
  BY <1>2 DEF StaysIn
<1>3. QED
  BY <1>1, <1>2

LEMMA WalkEntered ==
  ASSUME NEW h, WellTyped(h), NEW O, NEW w \in Seq(TaskType), w # <<>>,
         Walking(h, w, O), w[1].do = "slot",
         NEW p, p = Slot(h, w[1].at), p # Null, h[w[1].at[1]].live, h[p].live
  PROVE  Walking(h, Entered(h, w[1].at, p) \o Tail(w), O)
<1> DEFINE at == w[1].at
           s == Entered(h, at, p)
           n == Len(Inside(h, p))
           u == s \o Tail(w)
<1>0. /\ Dead(h) \subseteq O /\ O \subseteq DOMAIN h /\ StaysIn(h, w, O)
      /\ InOrder(h, w) /\ Covers(h, w, O) /\ 1 \in DOMAIN w
  BY Doing DEF Walking
<1>1. /\ at[1] \in O /\ h[at[1]].kind \in {"region", "array"}
      /\ at[2] \in InUse(h[at[1]]) /\ at \in AllSlots(h)
  BY <1>0, TaskSlots DEF StaysIn
<1>2. p \in DOMAIN h /\ h[p].kind \in {"text", "array", "object"}
  BY <1>1, EnteredKind
<1>3. p \in O
  <2>1. h[at[1]].slots[at[2]] \in O \cup {Null}
    BY <1>0, <1>1 DEF StaysIn
  <2>2. QED
    BY <2>1 DEF Slot
<1>4. EnteredTasks(h, at, p, s, n)
  BY <1>1, <1>2, EnteredIs DEF AllSlots
<1>5. s \in Seq(TaskType) /\ Len(s) \in Nat /\ DOMAIN s = 1 .. Len(s)
  <2>1. s \in Seq(TaskType) /\ n \in Nat /\ Len(s) = n + 2 /\ DOMAIN s = 1 .. n + 2
    BY <1>4 DEF EnteredTasks
  <2>2. QED
    BY <2>1
<1>6. Spliced(u, s, w)
  BY <1>5, Splicing
<1> HIDE DEF s, n, u
<1>a. /\ n \in Nat /\ Len(s) = n + 2 /\ DOMAIN s = 1 .. n + 2 /\ n + 1 \in DOMAIN s /\ n + 2 \in DOMAIN s
      /\ s[n + 1].do = "free" /\ s[n + 1].block = p
      /\ s[n + 2].do = "null" /\ s[n + 2].at = at
  BY <1>4 DEF EnteredTasks
<1>7. ASSUME NEW k \in DOMAIN s
      PROVE  \/ /\ h[p].kind = "array" /\ s[k].do = "slot"
                /\ s[k].at = <<p, k>> /\ k \in InUse(h[p])
             \/ s[k].do = "free" /\ s[k].block \in O \cup {Null}
             \/ s[k].do = "null" /\ s[k].at \in AllSlots(h)
  <2>1. CASE k \in 1 .. n /\ h[p].kind = "array"
    BY <1>4, <2>1 DEF EnteredTasks
  <2>2. CASE k \in 1 .. n /\ h[p].kind # "array" /\ s[k].block # Null
    <3>1. s[k].do = "free" /\ \E v \in DOMAIN h : ForValue(h, p, k, s[k], v)
      BY <1>4, <2>2 DEF EnteredTasks
    <3>2. PICK v \in DOMAIN h : ForValue(h, p, k, s[k], v)
      BY <3>1
    <3>3. h[p].kind = "object"
      BY <1>4, <2>2 DEF EnteredTasks
    <3>4. v \in O /\ h[v].kind = "value"
      <4>1. PICK i \in InUse(h[p]) : v = h[p].slots[i] /\ v # Null
        BY <3>2 DEF ForValue
      <4>2. v \in O \cup {Null}
        BY <1>0, <1>3, <3>3, <4>1 DEF StaysIn
      <4>3. h[v].kind = "value"
        BY <1>2, <3>3, <4>1, InsideObject, SMTT(60)
      <4>4. QED
        BY <4>1, <4>2, <4>3
    <3>5. s[k].block = v \/ s[k].block = TextOf(h, v)
      BY <3>2 DEF ForValue
    <3>6. CASE s[k].block = TextOf(h, v)
      <4>1. h[v].of = <<String>> /\ TextOf(h, v) = h[v].slots[1]
        BY <2>2, <3>6 DEF TextOf
      <4>2. <<String>> # <<Object>>
        <5>1. <<String>>[1] # <<Object>>[1]
          BY DEF String, Object
        <5>2. QED
          BY <5>1
      <4>3. h[v].slots[1] \in O \cup {Null}
        <5>1. 1 \in InUse(h[v])
          BY <3>4, ValueOwns
        <5>2. QED
          BY <1>0, <3>4, <4>1, <4>2, <5>1 DEF StaysIn
      <4>4. QED
        BY <3>1, <3>6, <4>1, <4>3
    <3>7. QED
      BY <3>1, <3>4, <3>5, <3>6
  <2>3. CASE k \in 1 .. n /\ h[p].kind # "array" /\ s[k].block = Null
    BY <1>4, <2>3 DEF EnteredTasks
  <2>4. CASE k = n + 1
    BY <1>3, <1>a, <2>4
  <2>5. CASE k = n + 2
    BY <1>1, <1>a, <2>5
  <2>6. k \in 1 .. n \/ k = n + 1 \/ k = n + 2
    BY <1>a
  <2>7. QED
    BY <2>1, <2>2, <2>3, <2>4, <2>5, <2>6
<1>8. StaysIn(h, u, O)
  <2>1. ASSUME NEW k \in DOMAIN u
        PROVE  /\ u[k].do = "free" => u[k].block \in O \cup {Null}
               /\ u[k].do = "slot" => /\ u[k].at[1] \in O
                                      /\ h[u[k].at[1]].kind \in {"region", "array"}
                                      /\ u[k].at[2] \in InUse(h[u[k].at[1]])
               /\ u[k].do = "null" => u[k].at \in AllSlots(h)
    <3>1. CASE k \in DOMAIN s
      <4>1. u[k] = s[k]
        BY <1>6, <3>1 DEF Spliced
      <4>2. QED
        BY <1>3, <1>7, <3>1, <4>1
    <3>2. CASE k \notin DOMAIN s
      <4>1. PICK j \in DOMAIN w : u[k] = w[j]
        BY <1>6, <3>2 DEF Spliced
      <4>2. QED
        BY <1>0, <4>1 DEF StaysIn
    <3>3. QED
      BY <3>1, <3>2
  <2>2. \A b \in O :
          /\ h[b].live \/ h[b].kind = "value"
          /\ ~(h[b].kind = "value" /\ h[b].of = <<Object>>)
          => \A l \in InUse(h[b]) : h[b].slots[l] \in O \cup {Null}
    BY <1>0 DEF StaysIn
  <2>3. QED
    BY <2>1, <2>2 DEF StaysIn
<1>b. \A i \in 1 .. n : i \in DOMAIN u /\ u[i] = s[i]
  <2>1. \A i \in 1 .. n : i \in DOMAIN s
    BY <1>a
  <2>2. QED
    BY <1>6, <2>1 DEF Spliced
<1>c. /\ n + 1 \in DOMAIN u /\ u[n + 1].do = "free" /\ u[n + 1].block = p
      /\ Frees(h, u[n + 1], p)
  BY <1>6, <1>a DEF Spliced, Frees
<1>d. ASSUME NEW j \in DOMAIN w, NEW c \in DOMAIN h, NEW i \in 1 .. j - 1,
             Frees(h, w[i], c)
      PROVE  \E k \in 1 .. (Len(s) + j - 1) - 1 : Frees(h, u[k], c)
  <2>1. i \in DOMAIN w /\ j \in Nat /\ Len(s) = n + 2
    BY <1>a, TaskIs
  <2>2. CASE i = 1
    <3>1. c = p
      BY <1>d, <2>2 DEF Frees
    <3>2. n + 1 \in 1 .. (Len(s) + j - 1) - 1
      BY <1>a, <2>1
    <3>3. QED
      BY <1>c, <3>1, <3>2
  <2>3. CASE i # 1
    <3>1. Len(s) + i - 1 \in 1 .. (Len(s) + j - 1) - 1
      BY <1>a, <2>1, <2>3, SMTT(60)
    <3>2. u[Len(s) + i - 1] = w[i]
      BY <1>6, <2>1, <2>3 DEF Spliced
    <3>3. QED
      BY <1>d, <3>1, <3>2
  <2>4. QED
    BY <2>2, <2>3
<1>9. InOrder(h, u)
  <2>1. ASSUME NEW k \in DOMAIN u, u[k].do = "free", u[k].block # Null,
               NEW c \in OwnBelow(h[u[k].block]), h[c].live
        PROVE  \E i \in 1 .. k - 1 : Frees(h, u[i], c)
    <3>1. CASE k \in 1 .. n
      <4>1. u[k] = s[k]
        BY <1>b, <3>1
      <4>2. ~h[c].live \/ \E i \in 1 .. k - 1 : Frees(h, s[i], c)
        BY <1>4, <2>1, <3>1, <4>1 DEF EnteredTasks
      <4>3. \A i \in 1 .. k - 1 : i \in 1 .. n
        BY <1>a, <3>1
      <4>4. QED
        BY <1>b, <2>1, <4>2, <4>3
    <3>2. CASE k = n + 1
      <4>1. c \in OwnBelow(h[p])
        BY <1>c, <2>1, <3>2
      <4>2. PICK i \in 1 .. n : Frees(h, s[i], c)
        BY <1>4, <4>1 DEF EnteredTasks
      <4>3. i \in 1 .. k - 1
        BY <1>a, <3>2
      <4>4. QED
        BY <1>b, <4>2, <4>3
    <3>3. CASE k \in DOMAIN s /\ k \notin 1 .. n /\ k # n + 1
      <4>1. k = n + 2 /\ u[k] = s[k]
        BY <1>6, <1>a, <3>3 DEF Spliced
      <4>2. QED
        BY <1>a, <2>1, <4>1
    <3>4. CASE k \notin DOMAIN s
      <4>1. PICK j \in DOMAIN w : k = Len(s) + j - 1 /\ u[k] = w[j]
        BY <1>6, <3>4 DEF Spliced
      <4>2. u[k].block \in DOMAIN h
        BY <1>0, <1>8, <2>1 DEF StaysIn
      <4>3. c \in DOMAIN h
        BY <2>1, <4>2, BelowInside DEF OwnBelow
      <4>4. PICK i \in 1 .. j - 1 : Frees(h, w[i], c)
        BY <1>0, <2>1, <4>1 DEF InOrder
      <4>5. QED
        BY <1>d, <4>1, <4>3, <4>4
    <3>5. QED
      BY <3>1, <3>2, <3>3, <3>4
  <2>2. ASSUME NEW k \in DOMAIN u, u[k].do = "null", Slot(h, u[k].at) # Null,
               h[Slot(h, u[k].at)].live
        PROVE  \E i \in 1 .. k - 1 : u[i].do = "free" /\ u[i].block = Slot(h, u[k].at)
    <3>1. CASE k \in DOMAIN s
      <4>1. u[k] = s[k] /\ k = n + 2
        <5>1. u[k] = s[k]
          BY <1>6, <3>1 DEF Spliced
        <5>2. k \notin 1 .. n
          BY <1>4, <2>2, <5>1 DEF EnteredTasks
        <5>3. k # n + 1
          BY <1>a, <2>2, <5>1
        <5>4. QED
          BY <1>a, <3>1, <5>1, <5>2, <5>3, SMTT(60)
      <4>2. Slot(h, u[k].at) = p /\ n + 1 \in 1 .. k - 1
        BY <1>a, <4>1
      <4>3. QED
        BY <1>c, <4>2
    <3>2. CASE k \notin DOMAIN s
      <4>1. PICK j \in DOMAIN w : j # 1 /\ k = Len(s) + j - 1 /\ u[k] = w[j]
        BY <1>6, <3>2 DEF Spliced
      <4>2. PICK i \in 1 .. j - 1 : w[i].do = "free" /\ w[i].block = Slot(h, w[j].at)
        BY <1>0, <2>2, <4>1 DEF InOrder
      <4>3. i # 1 /\ i \in DOMAIN w /\ j \in Nat
        BY <4>2
      <4>4. Len(s) + i - 1 \in 1 .. k - 1
        BY <1>5, <4>1, <4>2, <4>3, SMTT(60)
      <4>5. u[Len(s) + i - 1] = w[i]
        BY <1>6, <4>3 DEF Spliced
      <4>6. QED
        BY <4>1, <4>2, <4>4, <4>5
    <3>3. QED
      BY <3>1, <3>2
  <2>3. QED
    BY <2>1, <2>2 DEF InOrder
<1>10. Covers(h, u, O)
  <2>1. ASSUME NEW S \in SUBSET DOMAIN h, \A b \in S : OwnBelow(h[b]) \subseteq S,
               \A k \in DOMAIN u : \A c \in DOMAIN h : Frees(h, u[k], c) => c \in S
        PROVE  O \ Dead(h) \subseteq S
    <3>1. ASSUME NEW j \in DOMAIN w, NEW c \in DOMAIN h, Frees(h, w[j], c)
          PROVE  c \in S
      <4>1. CASE j = 1
        <5>1. c = p
          BY <3>1, <4>1 DEF Frees
        <5>2. QED
          BY <1>2, <1>c, <2>1, <5>1
      <4>2. CASE j # 1
        <5>1. Len(s) + j - 1 \in DOMAIN u /\ u[Len(s) + j - 1] = w[j]
          BY <1>6, <4>2 DEF Spliced
        <5>2. QED
          BY <2>1, <3>1, <5>1
      <4>3. QED
        BY <4>1, <4>2
    <3>2. QED
      BY <1>0, <2>1, <3>1 DEF Covers
  <2>2. QED
    BY <2>1 DEF Covers
<1>11. QED
  BY <1>0, <1>8, <1>9, <1>10 DEF Walking, u, s

-----------------------------------------------------------------------------
(* The walk meets live blocks only. *)

\* A block of R is touched as before when the head is done.
LEMMA SafeTail ==
  ASSUME NEW h, NEW g, NEW R, Tree(h, R), NEW w \in Seq(TaskType), w # <<>>,
         SafeWalk(h, w, R),
         \A b \in R :
           /\ Touched(g, Tail(w), b) <=> Touched(h, w, b)
           /\ DOMAIN g[b].slots = DOMAIN h[b].slots
           /\ \A i \in DOMAIN h[b].slots : g[b].slots[i] \in {Null, h[b].slots[i]},
         \A j \in DOMAIN w : j # 1 =>
           /\ w[j].do = "free" /\ w[j].block # Null => g[w[j].block].live
           /\ w[j].do = "slot" =>
                /\ Slot(h, w[j].at) \in R \cup {Null}
                /\ Slot(g, w[j].at) \in {Null, Slot(h, w[j].at)}
  PROVE  SafeWalk(g, Tail(w), R)
<1> DEFINE u == Tail(w)
<1>1. /\ \A j \in DOMAIN w : j # 1 => j - 1 \in DOMAIN u /\ u[j - 1] = w[j]
      /\ \A k \in DOMAIN u : k \in Nat /\ k + 1 \in DOMAIN w /\ k + 1 # 1 /\ u[k] = w[k + 1]
      /\ 1 \in DOMAIN w
  BY Doing
<1> HIDE DEF u
<1>2. \A j \in DOMAIN u : w[j + 1] = u[j] /\ j + 1 \in DOMAIN w
  BY <1>1
<1>3. \A j \in DOMAIN u : u[j].do = "free" /\ u[j].block # Null =>
        u[j].block \in R /\ g[u[j].block].live
  BY <1>1 DEF SafeWalk
<1>4. ASSUME NEW i \in DOMAIN u, NEW j \in DOMAIN u, NEW b \in R,
             FreesAt(u, i, b), FreesAt(u, j, b)
      PROVE  i = j
  <2>1. FreesAt(w, i + 1, b) /\ FreesAt(w, j + 1, b)
    BY <1>1, <1>4 DEF FreesAt
  <2>2. i + 1 = j + 1 /\ i \in Nat /\ j \in Nat
    BY <1>1, <2>1 DEF SafeWalk
  <2>3. QED
    BY <2>2
<1>5. ASSUME NEW j \in DOMAIN u, u[j].do \in {"slot", "null"}
      PROVE  \E k \in DOMAIN u : k > j /\ FreesAt(u, k, u[j].at[1])
  <2>1. j + 1 \in DOMAIN w /\ w[j + 1] = u[j] /\ j \in Nat
    BY <1>1
  <2>2. PICK k \in DOMAIN w : k > j + 1 /\ FreesAt(w, k, u[j].at[1])
    BY <1>5, <2>1 DEF SafeWalk
  <2>3. k \in Nat /\ k # 1
    BY <2>1, <2>2, TaskIs
  <2>4. k - 1 \in DOMAIN u /\ u[k - 1] = w[k]
    BY <1>1, <2>3
  <2>5. k - 1 > j
    BY <2>1, <2>2, <2>3
  <2>6. FreesAt(u, k - 1, u[j].at[1])
    BY <2>2, <2>4 DEF FreesAt
  <2>7. QED
    BY <2>4, <2>5, <2>6
<1>6. ASSUME NEW i \in DOMAIN u, NEW j \in DOMAIN u,
             u[i].do = "slot", u[j].do = "slot", u[i].at = u[j].at
      PROVE  i = j
  <2>1. /\ i + 1 \in DOMAIN w /\ w[i + 1].do = "slot" /\ i \in Nat
        /\ j + 1 \in DOMAIN w /\ w[j + 1].do = "slot" /\ j \in Nat
        /\ w[i + 1].at = w[j + 1].at
    BY <1>1, <1>6
  <2>2. i + 1 = j + 1
    BY <2>1 DEF SafeWalk
  <2>3. QED
    BY <2>1, <2>2
<1>7. ASSUME NEW j \in DOMAIN u, u[j].do = "slot", Slot(g, u[j].at) # Null
      PROVE  ~Touched(g, u, Slot(g, u[j].at))
  <2>1. j + 1 \in DOMAIN w /\ j + 1 # 1 /\ w[j + 1] = u[j]
    BY <1>1
  <2>2. Slot(g, u[j].at) = Slot(h, u[j].at) /\ Slot(h, u[j].at) \in R
    BY <1>7, <2>1
  <2>3. ~Touched(h, w, Slot(h, u[j].at))
    BY <1>7, <2>1, <2>2 DEF SafeWalk
  <2>4. QED
    BY <2>2, <2>3 DEF u
<1>8. ASSUME NEW b \in R, NEW i \in DOMAIN g[b].slots,
             g[b].slots[i] # Null, Touched(g, u, g[b].slots[i])
      PROVE  Touched(g, u, b)
  <2>1. i \in DOMAIN h[b].slots /\ g[b].slots[i] = h[b].slots[i]
    BY <1>8
  <2>2. h[b].slots[i] \in R
    BY <1>8, <2>1 DEF Tree
  <2>3. Touched(h, w, h[b].slots[i])
    BY <1>8, <2>1, <2>2 DEF u
  <2>4. Touched(h, w, b)
    BY <1>8, <2>1, <2>3 DEF SafeWalk
  <2>5. QED
    BY <2>4 DEF u
<1>9. QED
  BY <1>3, <1>4, <1>5, <1>6, <1>7, <1>8 DEF SafeWalk, u

\* What leads to a block of R, and what the tasks with a slot lead to.
LEMMA SafeSlots ==
  ASSUME NEW h, WellTyped(h), NEW R, Tree(h, R), NEW w \in Seq(TaskType), SafeWalk(h, w, R),
         NEW j \in DOMAIN w, w[j].do \in {"slot", "null"}, w[j].at \in AllSlots(h)
  PROVE  /\ w[j].at[1] \in R /\ h[w[j].at[1]].live /\ Touched(h, w, w[j].at[1])
         /\ w[j].at[2] \in DOMAIN h[w[j].at[1]].slots
         /\ Slot(h, w[j].at) = h[w[j].at[1]].slots[w[j].at[2]]
         /\ Slot(h, w[j].at) \in (R \ {1}) \cup {Null}
<1>1. PICK k \in DOMAIN w : k > j /\ FreesAt(w, k, w[j].at[1])
  BY DEF SafeWalk
<1>2. w[j].at[1] \in DOMAIN h /\ w[j].at[2] \in DOMAIN h[w[j].at[1]].slots
  BY DEF AllSlots
<1>3. w[j].at[1] # Null
  BY <1>2 DEF WellTyped, Null
<1>4. w[j].at[1] \in R /\ h[w[j].at[1]].live
  BY <1>1, <1>3 DEF SafeWalk, FreesAt
<1>5. Touched(h, w, w[j].at[1])
  BY <1>1 DEF Touched
<1>6. Slot(h, w[j].at) = h[w[j].at[1]].slots[w[j].at[2]]
  BY DEF Slot
<1>7. QED
  BY <1>2, <1>4, <1>5, <1>6 DEF Tree

\* The head does not free.
LEMMA SafeDropped ==
  ASSUME NEW h, WellTyped(h), NEW R, Tree(h, R), NEW O, O \subseteq DOMAIN h,
         NEW w \in Seq(TaskType), w # <<>>, StaysIn(h, w, O), SafeWalk(h, w, R),
         w[1].do = "slot" \/ (w[1].do = "free" /\ w[1].block = Null)
  PROVE  SafeWalk(h, Tail(w), R)
<1> DEFINE u == Tail(w)
<1>1. /\ \A j \in DOMAIN w : j # 1 => j - 1 \in DOMAIN u /\ u[j - 1] = w[j]
      /\ \A k \in DOMAIN u : k \in Nat /\ k + 1 \in DOMAIN w /\ k + 1 # 1 /\ u[k] = w[k + 1]
      /\ 1 \in DOMAIN w
  BY Doing
<1> HIDE DEF u
<1>2. R \subseteq DOMAIN h /\ Null \notin R
  BY DEF Tree, WellTyped, Null
<1>3. \A b \in R : Touched(h, u, b) <=> Touched(h, w, b)
  <2>1. ASSUME NEW b \in R
        PROVE  (\E j \in DOMAIN u : FreesAt(u, j, b)) <=> \E j \in DOMAIN w : FreesAt(w, j, b)
    <3>1. ASSUME NEW j \in DOMAIN u, FreesAt(u, j, b)
          PROVE  \E i \in DOMAIN w : FreesAt(w, i, b)
      BY <1>1, <3>1 DEF FreesAt
    <3>2. ASSUME NEW j \in DOMAIN w, FreesAt(w, j, b)
          PROVE  \E i \in DOMAIN u : FreesAt(u, i, b)
      <4>1. j # 1
        BY <1>2, <2>1, <3>2 DEF FreesAt
      <4>2. QED
        BY <1>1, <3>2, <4>1 DEF FreesAt
    <3>3. QED
      BY <3>1, <3>2
  <2>2. QED
    BY <2>1 DEF Touched
<1>4. \A j \in DOMAIN w : j # 1 =>
        /\ w[j].do = "free" /\ w[j].block # Null => h[w[j].block].live
        /\ w[j].do = "slot" =>
             /\ Slot(h, w[j].at) \in R \cup {Null}
             /\ Slot(h, w[j].at) \in {Null, Slot(h, w[j].at)}
  <2>1. ASSUME NEW j \in DOMAIN w, w[j].do = "slot"
        PROVE  Slot(h, w[j].at) \in R \cup {Null}
    BY <2>1, TaskSlots, SafeSlots
  <2>2. QED
    BY <2>1 DEF SafeWalk
<1>5. QED
  BY <1>3, <1>4, SafeTail DEF u

LEMMA SafeKilled ==
  ASSUME NEW h, WellTyped(h), NEW R, Tree(h, R), NEW O, O \subseteq DOMAIN h,
         NEW w \in Seq(TaskType), w # <<>>, SafeWalk(h, w, R),
         StaysIn(h, w, O) \/ (\A j \in DOMAIN w : w[j].do = "free"),
         NEW p \in DOMAIN h, w[1].do = "free", w[1].block = p
  PROVE  LET g == [h EXCEPT ![p].live = FALSE] IN
         Tree(g, R) /\ SafeWalk(g, Tail(w), R)
<1> DEFINE u == Tail(w)
           g == [h EXCEPT ![p].live = FALSE]
<1>1. /\ \A j \in DOMAIN w : j # 1 => j - 1 \in DOMAIN u /\ u[j - 1] = w[j]
      /\ \A k \in DOMAIN u : k \in Nat /\ k + 1 \in DOMAIN w /\ k + 1 # 1 /\ u[k] = w[k + 1]
      /\ 1 \in DOMAIN w
  BY Doing
<1>a. h \in Seq(BlockType)
  BY DEF WellTyped
<1>2. /\ DOMAIN g = DOMAIN h
      /\ \A b \in DOMAIN h :
           /\ g[b].live <=> (b # p /\ h[b].live)
           /\ g[b].size = h[b].size /\ g[b].slots = h[b].slots
           /\ b # p => g[b] = h[b]
  BY <1>a, Killing
<1> HIDE DEF g, u
<1>3. R \subseteq DOMAIN h /\ Null \notin R
  BY DEF Tree, WellTyped, Null
<1>4. Tree(g, R)
  BY <1>2, <1>3, TreeKept
<1>5. p \in R /\ FreesAt(w, 1, p)
  <2>1. p # Null
    BY <1>a DEF Null
  <2>2. QED
    BY <1>1, <2>1 DEF SafeWalk, FreesAt
<1>6. ASSUME NEW b \in R
      PROVE  Touched(g, u, b) <=> Touched(h, w, b)
  <2>1. CASE b = p
    BY <1>1, <1>2, <1>5, <2>1 DEF Touched
  <2>2. CASE b # p
    <3>1. g[b].live <=> h[b].live
      BY <1>2, <1>3, <2>2
    <3>2. ASSUME NEW j \in DOMAIN u, FreesAt(u, j, b)
          PROVE  \E i \in DOMAIN w : FreesAt(w, i, b)
      BY <1>1, <3>2 DEF FreesAt
    <3>3. ASSUME NEW j \in DOMAIN w, FreesAt(w, j, b)
          PROVE  \E i \in DOMAIN u : FreesAt(u, i, b)
      <4>1. j # 1
        BY <2>2, <3>3 DEF FreesAt
      <4>2. QED
        BY <1>1, <3>3, <4>1 DEF FreesAt
    <3>4. QED
      BY <3>1, <3>2, <3>3 DEF Touched
  <2>3. QED
    BY <2>1, <2>2
<1>7. ASSUME NEW j \in DOMAIN w, j # 1
      PROVE  /\ w[j].do = "free" /\ w[j].block # Null => g[w[j].block].live
             /\ w[j].do = "slot" =>
                  /\ Slot(h, w[j].at) \in R \cup {Null}
                  /\ Slot(g, w[j].at) \in {Null, Slot(h, w[j].at)}
  <2>1. ASSUME w[j].do = "free", w[j].block # Null PROVE g[w[j].block].live
    <3>1. w[j].block \in R /\ h[w[j].block].live
      BY <2>1 DEF SafeWalk
    <3>2. FreesAt(w, j, w[j].block)
      BY <2>1 DEF FreesAt
    <3>3. w[j].block # p
      BY <1>1, <1>5, <1>7, <3>1, <3>2 DEF SafeWalk
    <3>4. QED
      BY <1>2, <1>3, <3>1, <3>3
  <2>2. ASSUME w[j].do = "slot"
        PROVE  /\ Slot(h, w[j].at) \in R \cup {Null}
               /\ Slot(g, w[j].at) \in {Null, Slot(h, w[j].at)}
    <3>1. w[j].at \in AllSlots(h)
      BY <2>2, TaskSlots
    <3>2. Slot(h, w[j].at) \in R \cup {Null}
      BY <2>2, <3>1, SafeSlots
    <3>3. Slot(g, w[j].at) = Slot(h, w[j].at)
      BY <1>2, <3>1 DEF Slot, AllSlots
    <3>4. QED
      BY <3>2, <3>3
  <2>3. QED
    BY <2>1, <2>2
<1>8. \A b \in R : /\ Touched(g, u, b) <=> Touched(h, w, b)
                   /\ DOMAIN g[b].slots = DOMAIN h[b].slots
                   /\ \A i \in DOMAIN h[b].slots : g[b].slots[i] \in {Null, h[b].slots[i]}
  BY <1>2, <1>3, <1>6
<1>9. SafeWalk(g, u, R)
  BY <1>7, <1>8, SafeTail DEF u
<1>10. QED
  BY <1>4, <1>9 DEF g, u

LEMMA SafeNulled ==
  ASSUME NEW h, WellTyped(h), NEW R, Tree(h, R), NEW O, O \subseteq DOMAIN h,
         NEW w \in Seq(TaskType), w # <<>>, SafeWalk(h, w, R), StaysIn(h, w, O),
         w[1].do = "null"
  PROVE  LET g == Point(h, w[1].at, Null) IN
         Tree(g, R) /\ SafeWalk(g, Tail(w), R)
<1> DEFINE u == Tail(w)
           x == w[1].at
           g == Point(h, x, Null)
<1>1. /\ \A j \in DOMAIN w : j # 1 => j - 1 \in DOMAIN u /\ u[j - 1] = w[j]
      /\ \A k \in DOMAIN u : k \in Nat /\ k + 1 \in DOMAIN w /\ k + 1 # 1 /\ u[k] = w[k + 1]
      /\ 1 \in DOMAIN w
  BY Doing
<1>a. h \in Seq(BlockType) /\ x \in AllSlots(h)
  BY <1>1, TaskSlots DEF WellTyped
<1>2. /\ DOMAIN g = DOMAIN h
      /\ \A b \in DOMAIN h :
           /\ g[b].live = h[b].live
           /\ DOMAIN g[b].slots = DOMAIN h[b].slots
           /\ \A i \in DOMAIN h[b].slots :
                g[b].slots[i] = IF b = x[1] /\ i = x[2] THEN Null ELSE h[b].slots[i]
  BY <1>a, Pointing DEF Null
<1> HIDE DEF g, u
<1>3. R \subseteq DOMAIN h /\ Null \notin R
  BY DEF Tree, WellTyped, Null
<1>4. Tree(g, R)
  <2>1. \A b \in R :
          /\ DOMAIN g[b].slots = DOMAIN h[b].slots
          /\ \A i \in DOMAIN h[b].slots : g[b].slots[i] \in {Null, h[b].slots[i]}
    BY <1>2, <1>3
  <2>2. QED
    BY <1>2, <2>1, TreeKept
<1>6. ASSUME NEW b \in R
      PROVE  Touched(g, u, b) <=> Touched(h, w, b)
  <2>1. g[b].live <=> h[b].live
    BY <1>2, <1>3
  <2>2. ASSUME NEW j \in DOMAIN u, FreesAt(u, j, b)
        PROVE  \E i \in DOMAIN w : FreesAt(w, i, b)
    BY <1>1, <2>2 DEF FreesAt
  <2>3. ASSUME NEW j \in DOMAIN w, FreesAt(w, j, b)
        PROVE  \E i \in DOMAIN u : FreesAt(u, i, b)
    <3>1. j # 1
      BY <2>3 DEF FreesAt
    <3>2. QED
      BY <1>1, <2>3, <3>1 DEF FreesAt
  <2>4. QED
    BY <2>1, <2>2, <2>3 DEF Touched
<1>7. ASSUME NEW j \in DOMAIN w, j # 1
      PROVE  /\ w[j].do = "free" /\ w[j].block # Null => g[w[j].block].live
             /\ w[j].do = "slot" =>
                  /\ Slot(h, w[j].at) \in R \cup {Null}
                  /\ Slot(g, w[j].at) \in {Null, Slot(h, w[j].at)}
  <2>1. ASSUME w[j].do = "free", w[j].block # Null PROVE g[w[j].block].live
    <3>1. w[j].block \in R /\ h[w[j].block].live
      BY <2>1 DEF SafeWalk
    <3>2. QED
      BY <1>2, <1>3, <3>1
  <2>2. ASSUME w[j].do = "slot"
        PROVE  /\ Slot(h, w[j].at) \in R \cup {Null}
               /\ Slot(g, w[j].at) \in {Null, Slot(h, w[j].at)}
    <3>1. w[j].at \in AllSlots(h)
      BY <2>2, TaskSlots
    <3>2. Slot(h, w[j].at) \in R \cup {Null}
      BY <2>2, <3>1, SafeSlots
    <3>3. Slot(g, w[j].at) \in {Null, Slot(h, w[j].at)}
      BY <1>2, <3>1 DEF Slot, AllSlots
    <3>4. QED
      BY <3>2, <3>3
  <2>3. QED
    BY <2>1, <2>2
<1>8. \A b \in R : /\ Touched(g, u, b) <=> Touched(h, w, b)
                   /\ DOMAIN g[b].slots = DOMAIN h[b].slots
                   /\ \A i \in DOMAIN h[b].slots : g[b].slots[i] \in {Null, h[b].slots[i]}
  BY <1>2, <1>3, <1>6
<1>9. SafeWalk(g, u, R)
  BY <1>7, <1>8, SafeTail DEF u
<1>10. QED
  BY <1>4, <1>9 DEF g, u

\* Block b is freed by the task at k of those that take the slot's place.
NewFree(h, p, n, k, b) ==
  \/ k = n + 1 /\ b = p
  \/ /\ h[p].kind = "object" /\ h[b].kind = "value"
     /\ \E i \in InUse(h[p]) : k = 2 * i /\ b = h[p].slots[i]
  \/ /\ h[p].kind = "object" /\ h[b].kind = "text"
     /\ \E i \in InUse(h[p]) :
          /\ k = 2 * i - 1 /\ h[p].slots[i] \in DOMAIN h
          /\ 1 \in DOMAIN h[h[p].slots[i]].slots
          /\ b = h[h[p].slots[i]].slots[1]

LEMMA EnteredFrees ==
  ASSUME NEW h, WellTyped(h), NEW p \in DOMAIN h, NEW at, NEW s, NEW n,
         EnteredTasks(h, at, p, s, n),
         NEW k \in DOMAIN s, NEW b, FreesAt(s, k, b), b # Null
  PROVE  NewFree(h, p, n, k, b)
<1>1. /\ n \in Nat /\ DOMAIN s = 1 .. n + 2
      /\ s[n + 1].do = "free" /\ s[n + 1].block = p /\ s[n + 2].do = "null"
  BY DEF EnteredTasks
<1>2. s[k].do = "free" /\ s[k].block = b
  BY DEF FreesAt
<1>3. CASE k = n + 1
  BY <1>1, <1>2, <1>3 DEF NewFree
<1>4. CASE k \in 1 .. n
  <2>1. h[p].kind = "object" /\ \E v \in DOMAIN h : ForValue(h, p, k, s[k], v)
    BY <1>2, <1>4 DEF EnteredTasks
  <2>2. PICK v \in DOMAIN h : ForValue(h, p, k, s[k], v)
    BY <2>1
  <2>3. PICK i \in InUse(h[p]) :
          /\ v = h[p].slots[i] /\ v # Null
          /\ \/ k = 2 * i /\ b = v
             \/ k = 2 * i - 1 /\ b = TextOf(h, v)
    BY <1>2, <2>2 DEF ForValue
  <2>a. /\ InUse(h[p]) = 1 .. h[p].size
        /\ \A j \in 1 .. h[p].size : h[p].slots[j] # Null => h[h[p].slots[j]].kind = "value"
    BY <2>1, InsideObject
  <2>4. h[v].kind = "value"
    BY <2>3, <2>a
  <2>5. CASE k = 2 * i /\ b = v
    BY <2>1, <2>3, <2>4, <2>5 DEF NewFree
  <2>6. CASE k = 2 * i - 1 /\ b = TextOf(h, v)
    <3>1. h[v].of = <<String>> /\ b = h[v].slots[1]
      BY <2>6 DEF TextOf
    <3>2. h[b].kind = "text" /\ 1 \in DOMAIN h[v].slots
      BY <2>4, <3>1, ValueOwns
    <3>3. QED
      BY <2>1, <2>3, <2>6, <3>1, <3>2 DEF NewFree
  <2>7. QED
    BY <2>3, <2>5, <2>6
<1>5. k \in 1 .. n \/ k = n + 1 \/ k = n + 2
  BY <1>1
<1>6. k # n + 2
  BY <1>1, <1>2
<1>7. QED
  BY <1>3, <1>4, <1>5, <1>6

\* No block is freed by two of them.
LEMMA EnteredOnce ==
  ASSUME NEW h, WellTyped(h), NEW R, Tree(h, R), NEW p \in R, NEW n, NEW b \in R,
         NEW k, NEW l, NewFree(h, p, n, k, b), NewFree(h, p, n, l, b),
         \A i \in DOMAIN h[p].slots : h[p].slots[i] \in DOMAIN h => h[p].slots[i] \in R
  PROVE  k = l
<1>1. InUse(h[p]) \subseteq DOMAIN h[p].slots /\ R \subseteq DOMAIN h /\ Null \notin R
  BY RoomInside DEF Tree, WellTyped, Null
<1>2. \A i, j \in InUse(h[p]) :
        h[p].slots[i] = h[p].slots[j] /\ h[p].slots[i] \in R => i = j
  BY <1>1 DEF Tree
<1>3. \A i, j \in InUse(h[p]) :
        /\ h[p].slots[i] \in DOMAIN h /\ 1 \in DOMAIN h[h[p].slots[i]].slots
        /\ h[p].slots[j] \in DOMAIN h /\ 1 \in DOMAIN h[h[p].slots[j]].slots
        /\ b = h[h[p].slots[i]].slots[1] /\ b = h[h[p].slots[j]].slots[1]
        => i = j
  <2>1. ASSUME NEW i \in InUse(h[p]), NEW j \in InUse(h[p]),
               h[p].slots[i] \in DOMAIN h, 1 \in DOMAIN h[h[p].slots[i]].slots,
               h[p].slots[j] \in DOMAIN h, 1 \in DOMAIN h[h[p].slots[j]].slots,
               b = h[h[p].slots[i]].slots[1], b = h[h[p].slots[j]].slots[1]
        PROVE  i = j
    <3>1. h[p].slots[i] \in R /\ h[p].slots[j] \in R
      BY <1>1, <2>1
    <3>2. h[p].slots[i] = h[p].slots[j]
      <4>1. \A x, y \in R : \A f \in DOMAIN h[x].slots, g \in DOMAIN h[y].slots :
              h[x].slots[f] # Null /\ h[x].slots[f] = h[y].slots[g] => x = y
        BY DEF Tree
      <4>2. ASSUME NEW x \in R, NEW y \in R,
                   1 \in DOMAIN h[x].slots, 1 \in DOMAIN h[y].slots,
                   b = h[x].slots[1], b = h[y].slots[1]
            PROVE  x = y
        <5>1. h[x].slots[1] # Null /\ h[x].slots[1] = h[y].slots[1]
          BY <1>1, <4>2
        <5>2. QED
          BY <4>1, <4>2, <5>1
      <4>3. QED
        BY <2>1, <3>1, <4>2
    <3>3. QED
      BY <1>2, <3>1, <3>2
  <2>2. QED
    BY <2>1
<1>4. CASE h[b].kind = "value"
  BY <1>2, <1>4 DEF NewFree
<1>5. CASE h[b].kind = "text"
  BY <1>3, <1>5 DEF NewFree
<1>6. CASE h[b].kind \notin {"value", "text"}
  BY <1>6 DEF NewFree
<1>7. QED
  BY <1>4, <1>5, <1>6

\* Every block that they free was untouched, and so was what leads to it.
FreshBlocks(h, R, w, at, p, s) ==
  /\ \A i \in DOMAIN h[p].slots :
       h[p].slots[i] # Null => h[p].slots[i] \in R /\ ~Touched(h, w, h[p].slots[i])
  /\ \A k \in DOMAIN s : \A b : FreesAt(s, k, b) /\ b # Null =>
       /\ b \in R /\ ~Touched(h, w, b)
       /\ \A x \in R : \A i \in DOMAIN h[x].slots : h[x].slots[i] = b =>
            \/ \E l \in DOMAIN s : FreesAt(s, l, x)
            \/ b = p /\ x = at[1] /\ i = at[2]

LEMMA EnteredFresh ==
  ASSUME NEW h, WellTyped(h), NEW R, Tree(h, R), NEW w \in Seq(TaskType), w # <<>>,
         SafeWalk(h, w, R), w[1].do = "slot", w[1].at \in AllSlots(h),
         NEW p, p = Slot(h, w[1].at), p # Null, NEW s, NEW n,
         EnteredTasks(h, w[1].at, p, s, n)
  PROVE  /\ p \in R \ {1} /\ ~Touched(h, w, p) /\ h[p].live
         /\ FreshBlocks(h, R, w, w[1].at, p, s)
<1> DEFINE at == w[1].at
<1>1. 1 \in DOMAIN w
  OBVIOUS
<1>2. /\ at[1] \in R /\ at[2] \in DOMAIN h[at[1]].slots
      /\ p = h[at[1]].slots[at[2]] /\ p \in R \ {1}
  BY <1>1, SafeSlots
<1>3. ~Touched(h, w, p)
  BY <1>1 DEF SafeWalk
<1>4. \A b \in R : ~Touched(h, w, b) =>
        \A i \in DOMAIN h[b].slots : h[b].slots[i] # Null =>
          h[b].slots[i] \in R /\ ~Touched(h, w, h[b].slots[i])
  BY DEF SafeWalk, Tree
<1>5. R \subseteq DOMAIN h /\ Null \notin R
  BY DEF Tree, WellTyped, Null
<1>6. InUse(h[p]) \subseteq DOMAIN h[p].slots /\ p \in DOMAIN h
  BY <1>2, <1>5, RoomInside
<1>7. h[p].live
  BY <1>3 DEF Touched
<1>8. \A x, y \in R : \A i \in DOMAIN h[x].slots, j \in DOMAIN h[y].slots :
        h[x].slots[i] # Null /\ h[x].slots[i] = h[y].slots[j] => x = y /\ i = j
  BY DEF Tree
<1>9. ASSUME NEW k \in DOMAIN s, NEW b, FreesAt(s, k, b), b # Null
      PROVE  /\ b \in R /\ ~Touched(h, w, b)
             /\ \A x \in R : \A i \in DOMAIN h[x].slots : h[x].slots[i] = b =>
                  \/ \E l \in DOMAIN s : FreesAt(s, l, x)
                  \/ b = p /\ x = at[1] /\ i = at[2]
  <2>1. NewFree(h, p, n, k, b)
    BY <1>6, <1>9, EnteredFrees
  <2>2. CASE b = p
    <3>1. ASSUME NEW x \in R, NEW i \in DOMAIN h[x].slots, h[x].slots[i] = b
          PROVE  x = at[1] /\ i = at[2]
      <4>1. h[x].slots[i] # Null /\ h[x].slots[i] = h[at[1]].slots[at[2]]
        BY <1>2, <1>9, <2>2, <3>1
      <4>a. PICK a \in R : a = at[1]
        BY <1>2
      <4>2. PICK e \in DOMAIN h[a].slots : e = at[2]
        BY <1>2, <4>a
      <4>3. h[x].slots[i] # Null /\ h[x].slots[i] = h[a].slots[e]
        BY <4>1, <4>2, <4>a
      <4>4. x = a /\ i = e
        BY <1>8, <4>3
      <4>5. QED
        BY <4>2, <4>4, <4>a
    <3>2. QED
      BY <1>2, <1>3, <2>2, <3>1
  <2>3. CASE /\ h[p].kind = "object" /\ h[b].kind = "value"
             /\ \E i \in InUse(h[p]) : k = 2 * i /\ b = h[p].slots[i]
    <3>1. PICK j \in InUse(h[p]) : b = h[p].slots[j]
      BY <2>3
    <3>2. b \in R /\ ~Touched(h, w, b)
      BY <1>2, <1>3, <1>4, <1>6, <1>9, <3>1
    <3>3. ASSUME NEW x \in R, NEW i \in DOMAIN h[x].slots, h[x].slots[i] = b
          PROVE  x = p
      <4>1. /\ h[x].slots[i] # Null /\ h[x].slots[i] = h[p].slots[j]
            /\ p \in R /\ j \in DOMAIN h[p].slots
        BY <1>2, <1>6, <1>9, <3>1, <3>3
      <4>2. QED
        BY <1>8, <3>3, <4>1
    <3>4. n + 1 \in DOMAIN s /\ FreesAt(s, n + 1, p)
      BY DEF EnteredTasks, FreesAt
    <3>5. QED
      BY <3>2, <3>3, <3>4
  <2>4. CASE /\ h[p].kind = "object" /\ h[b].kind = "text"
             /\ \E i \in InUse(h[p]) :
                  /\ k = 2 * i - 1 /\ h[p].slots[i] \in DOMAIN h
                  /\ 1 \in DOMAIN h[h[p].slots[i]].slots
                  /\ b = h[h[p].slots[i]].slots[1]
    <3>1. PICK j \in InUse(h[p]), v \in DOMAIN h :
            v = h[p].slots[j] /\ 1 \in DOMAIN h[v].slots /\ b = h[v].slots[1]
      BY <2>4
    <3>2. v # Null
      BY DEF WellTyped, Null
    <3>3. v \in R /\ ~Touched(h, w, v)
      BY <1>2, <1>3, <1>4, <1>6, <3>1, <3>2
    <3>4. b \in R /\ ~Touched(h, w, b)
      BY <1>4, <1>9, <3>1, <3>3
    <3>5. ASSUME NEW x \in R, NEW i \in DOMAIN h[x].slots, h[x].slots[i] = b
          PROVE  x = v
      <4>1. h[x].slots[i] # Null /\ h[x].slots[i] = h[v].slots[1]
        BY <1>9, <3>1, <3>5
      <4>2. QED
        BY <1>8, <3>1, <3>3, <3>5, <4>1
    <3>6. v \in OwnBelow(h[p])
      BY <1>7, <2>4, <3>1, <3>2 DEF OwnBelow, Below
    <3>7. PICK l \in 1 .. n : Frees(h, s[l], v)
      BY <3>6 DEF EnteredTasks
    <3>8. l \in DOMAIN s /\ s[l].do = "free"
      <4>1. n \in Nat /\ DOMAIN s = 1 .. n + 2
        BY DEF EnteredTasks
      <4>2. l \in DOMAIN s
        BY <4>1
      <4>3. s[l].do = "free"
        BY <2>4 DEF EnteredTasks
      <4>4. QED
        BY <4>2, <4>3
    <3>9. FreesAt(s, l, v)
      BY <3>7, <3>8 DEF Frees, FreesAt
    <3>10. QED
      BY <3>4, <3>5, <3>8, <3>9
  <2>5. QED
    BY <2>1, <2>2, <2>3, <2>4 DEF NewFree
<1>10. QED
  BY <1>2, <1>3, <1>4, <1>7, <1>9 DEF FreshBlocks

LEMMA SafeEntered ==
  ASSUME NEW h, WellTyped(h), NEW R, Tree(h, R), NEW O, O \subseteq DOMAIN h,
         NEW w \in Seq(TaskType), w # <<>>, StaysIn(h, w, O), SafeWalk(h, w, R),
         w[1].do = "slot", NEW p, p = Slot(h, w[1].at), p # Null
  PROVE  SafeWalk(h, Entered(h, w[1].at, p) \o Tail(w), R)
<1> DEFINE at == w[1].at
           s == Entered(h, at, p)
           n == Len(Inside(h, p))
           u == s \o Tail(w)
<1>1. 1 \in DOMAIN w /\ DOMAIN w = 1 .. Len(w)
  OBVIOUS
<1>2. at \in AllSlots(h) /\ h[at[1]].kind \in {"region", "array"}
  BY <1>1, TaskSlots DEF StaysIn
<1>3. p \in DOMAIN h /\ h[p].kind \in {"text", "array", "object"}
  BY <1>2, EnteredKind
<1>4. EnteredTasks(h, at, p, s, n)
  BY <1>2, <1>3, EnteredIs DEF AllSlots
<1>5. s \in Seq(TaskType)
  BY <1>4 DEF EnteredTasks
<1>6. Spliced(u, s, w)
  BY <1>5, Splicing
<1> HIDE DEF s, n, u
<1>7. /\ n \in Nat /\ Len(s) = n + 2 /\ DOMAIN s = 1 .. n + 2
      /\ n + 1 \in DOMAIN s /\ s[n + 1].do = "free" /\ s[n + 1].block = p
      /\ n + 2 \in DOMAIN s /\ s[n + 2].do = "null" /\ s[n + 2].at = at
  BY <1>4 DEF EnteredTasks
<1>8. /\ p \in R \ {1} /\ ~Touched(h, w, p) /\ h[p].live
      /\ \A i \in DOMAIN h[p].slots :
           h[p].slots[i] # Null => /\ h[p].slots[i] \in R
                                   /\ ~Touched(h, w, h[p].slots[i])
      /\ \A k \in DOMAIN s : \A b : FreesAt(s, k, b) /\ b # Null =>
           /\ b \in R /\ ~Touched(h, w, b)
           /\ \A x \in R : \A i \in DOMAIN h[x].slots : h[x].slots[i] = b =>
                \/ \E l \in DOMAIN s : FreesAt(s, l, x)
                \/ b = p /\ x = at[1] /\ i = at[2]
  <2>1. p \in R \ {1} /\ ~Touched(h, w, p) /\ h[p].live /\ FreshBlocks(h, R, w, at, p, s)
    BY <1>2, <1>4, EnteredFresh
  <2>2. QED
    BY <2>1 DEF FreshBlocks
<1>9. R \subseteq DOMAIN h /\ Null \notin R
  BY DEF Tree, WellTyped, Null
<1>10. ASSUME NEW k \in DOMAIN u
       PROVE  \/ k \in DOMAIN s /\ u[k] = s[k]
              \/ \E j \in DOMAIN w : j # 1 /\ k = Len(s) + j - 1 /\ u[k] = w[j]
  BY <1>6 DEF Spliced
<1>11. \A j \in DOMAIN w : j # 1 =>
         Len(s) + j - 1 \in DOMAIN u /\ u[Len(s) + j - 1] = w[j]
  BY <1>6 DEF Spliced
<1>12. \A k \in DOMAIN s : k \in DOMAIN u /\ u[k] = s[k]
  BY <1>6 DEF Spliced
<1>13. ASSUME NEW k \in DOMAIN u, NEW b \in R, FreesAt(u, k, b)
       PROVE  \/ k \in DOMAIN s /\ FreesAt(s, k, b)
              \/ \E j \in DOMAIN w : j # 1 /\ k = Len(s) + j - 1 /\ FreesAt(w, j, b)
  BY <1>10, <1>13 DEF FreesAt
<1>14. \A b \in R : Touched(h, w, b) => Touched(h, u, b)
  <2>1. ASSUME NEW b \in R, NEW j \in DOMAIN w, FreesAt(w, j, b)
        PROVE  \E k \in DOMAIN u : FreesAt(u, k, b)
    <3>1. j # 1
      BY <2>1 DEF FreesAt
    <3>2. QED
      BY <1>11, <2>1, <3>1 DEF FreesAt
  <2>2. QED
    BY <2>1 DEF Touched
<1>15. \A b \in R : Touched(h, u, b) =>
         Touched(h, w, b) \/ \E k \in DOMAIN s : FreesAt(s, k, b)
  BY <1>13 DEF Touched
<1>16. \A k \in DOMAIN s : \A b : FreesAt(s, k, b) => Touched(h, u, b)
  BY <1>12 DEF Touched, FreesAt
<1>17. ASSUME NEW k \in DOMAIN s, s[k].do = "slot"
       PROVE  h[p].kind = "array" /\ s[k].at = <<p, k>> /\ k \in InUse(h[p]) /\ k \in 1 .. n
  <2>1. k \in 1 .. n
    BY <1>7, <1>17
  <2>2. QED
    BY <1>4, <1>17, <2>1 DEF EnteredTasks
<1>20. ASSUME NEW k \in DOMAIN u, u[k].do = "free", u[k].block # Null
       PROVE  u[k].block \in R /\ h[u[k].block].live
  <2>1. CASE k \in DOMAIN s /\ u[k] = s[k]
    <3>1. FreesAt(s, k, u[k].block)
      BY <1>20, <2>1 DEF FreesAt
    <3>2. QED
      BY <1>8, <1>20, <2>1, <3>1 DEF Touched
  <2>2. CASE \E j \in DOMAIN w : u[k] = w[j]
    BY <1>20, <2>2 DEF SafeWalk
  <2>3. QED
    BY <1>10, <2>1, <2>2
<1>21. ASSUME NEW i \in DOMAIN u, NEW j \in DOMAIN u, NEW b \in R,
              FreesAt(u, i, b), FreesAt(u, j, b)
       PROVE  i = j
  <2>1. ASSUME NEW k \in DOMAIN s, NEW l \in DOMAIN w, FreesAt(s, k, b), FreesAt(w, l, b)
        PROVE  FALSE
    BY <1>8, <1>9, <2>1 DEF Touched
  <2>2. CASE i \in DOMAIN s /\ FreesAt(s, i, b) /\ j \in DOMAIN s /\ FreesAt(s, j, b)
    <3>1. NewFree(h, p, n, i, b) /\ NewFree(h, p, n, j, b)
      BY <1>3, <1>4, <1>9, <2>2, EnteredFrees
    <3>2. \A e \in DOMAIN h[p].slots : h[p].slots[e] \in DOMAIN h => h[p].slots[e] \in R
      BY <1>8 DEF WellTyped, Null
    <3>3. QED
      BY <1>8, <3>1, <3>2, EnteredOnce
  <2>3. CASE /\ \E k \in DOMAIN w : k # 1 /\ i = Len(s) + k - 1 /\ FreesAt(w, k, b)
             /\ \E k \in DOMAIN w : k # 1 /\ j = Len(s) + k - 1 /\ FreesAt(w, k, b)
    BY <2>3 DEF SafeWalk
  <2>4. QED
    BY <1>13, <1>21, <2>1, <2>2, <2>3
<1>22. ASSUME NEW j \in DOMAIN u, u[j].do \in {"slot", "null"}
       PROVE  \E k \in DOMAIN u : k > j /\ FreesAt(u, k, u[j].at[1])
  <2>1. ASSUME NEW l \in DOMAIN w, NEW a, NEW k \in DOMAIN w, k > l, FreesAt(w, k, a)
        PROVE  /\ Len(s) + k - 1 \in DOMAIN u /\ FreesAt(u, Len(s) + k - 1, a)
               /\ k \in Nat /\ l \in Nat /\ k > 1
    <3>1. k \in Nat /\ l \in Nat /\ k > 1
      BY <1>1, <2>1
    <3>2. Len(s) + k - 1 \in DOMAIN u /\ u[Len(s) + k - 1] = w[k]
      BY <1>11, <3>1
    <3>3. QED
      BY <2>1, <3>1, <3>2 DEF FreesAt
  <2>2. CASE j \in DOMAIN s /\ u[j] = s[j] /\ u[j].do = "slot"
    <3>1. u[j].at[1] = p /\ n + 1 > j /\ FreesAt(u, n + 1, p) /\ n + 1 \in DOMAIN u
      BY <1>7, <1>12, <1>17, <2>2 DEF FreesAt
    <3>2. QED
      BY <3>1
  <2>3. CASE j \in DOMAIN s /\ u[j] = s[j] /\ u[j].do = "null"
    <3>1. j = n + 2
      <4>1. j \notin 1 .. n
        BY <1>4, <2>3 DEF EnteredTasks
      <4>2. QED
        BY <1>7, <2>3, <4>1
    <3>2. PICK k \in DOMAIN w : k > 1 /\ FreesAt(w, k, at[1])
      BY <1>1 DEF SafeWalk
    <3>3. /\ Len(s) + k - 1 \in DOMAIN u /\ FreesAt(u, Len(s) + k - 1, at[1]) /\ k \in Nat
      BY <1>1, <2>1, <3>2
    <3>4. Len(s) + k - 1 > j
      BY <1>7, <3>1, <3>2, <3>3
    <3>5. QED
      BY <1>7, <2>3, <3>1, <3>3, <3>4
  <2>4. CASE \E l \in DOMAIN w : l # 1 /\ j = Len(s) + l - 1 /\ u[j] = w[l]
    <3>1. PICK l \in DOMAIN w : j = Len(s) + l - 1 /\ u[j] = w[l]
      BY <2>4
    <3>2. PICK k \in DOMAIN w : k > l /\ FreesAt(w, k, u[j].at[1])
      BY <1>22, <3>1 DEF SafeWalk
    <3>3. /\ Len(s) + k - 1 \in DOMAIN u /\ FreesAt(u, Len(s) + k - 1, u[j].at[1])
          /\ k \in Nat /\ l \in Nat
      BY <2>1, <3>2
    <3>4. Len(s) + k - 1 > j
      BY <1>7, <3>1, <3>2, <3>3
    <3>5. QED
      BY <3>3, <3>4
  <2>5. QED
    BY <1>10, <1>22, <2>2, <2>3, <2>4
<1>23. ASSUME NEW i \in DOMAIN u, NEW j \in DOMAIN u,
              u[i].do = "slot", u[j].do = "slot", u[i].at = u[j].at
       PROVE  i = j
  <2>1. ASSUME NEW k \in DOMAIN s, NEW l \in DOMAIN w,
               s[k].do = "slot", w[l].do = "slot", s[k].at = w[l].at
        PROVE  FALSE
    <3>1. Touched(h, w, w[l].at[1])
      BY <2>1, TaskSlots, SafeSlots
    <3>2. w[l].at[1] = p
      BY <1>17, <2>1
    <3>3. QED
      BY <1>8, <3>1, <3>2
  <2>2. CASE i \in DOMAIN s /\ u[i] = s[i] /\ j \in DOMAIN s /\ u[j] = s[j]
    <3>1. u[i].at = <<p, i>> /\ u[j].at = <<p, j>>
      BY <1>17, <1>23, <2>2
    <3>2. <<p, i>> = <<p, j>>
      BY <1>23, <3>1
    <3>3. QED
      BY <3>2
  <2>3. CASE /\ \E k \in DOMAIN w : k # 1 /\ i = Len(s) + k - 1 /\ u[i] = w[k]
             /\ \E k \in DOMAIN w : k # 1 /\ j = Len(s) + k - 1 /\ u[j] = w[k]
    BY <1>23, <2>3 DEF SafeWalk
  <2>4. QED
    BY <1>10, <1>23, <2>1, <2>2, <2>3
<1>24. ASSUME NEW j \in DOMAIN u, u[j].do = "slot", Slot(h, u[j].at) # Null
       PROVE  ~Touched(h, u, Slot(h, u[j].at))
  <2> DEFINE c == Slot(h, u[j].at)
  <2>1. CASE j \in DOMAIN s /\ u[j] = s[j]
    <3>1. h[p].kind = "array" /\ u[j].at = <<p, j>> /\ j \in InUse(h[p])
      BY <1>17, <1>24, <2>1
    <3>2. j \in DOMAIN h[p].slots /\ c = h[p].slots[j]
      <4>1. InUse(h[p]) \subseteq DOMAIN h[p].slots
        BY <1>3, RoomInside
      <4>2. Slot(h, <<p, j>>) = h[p].slots[j]
        BY DEF Slot
      <4>3. QED
        BY <3>1, <4>1, <4>2
    <3>3. c \in R /\ ~Touched(h, w, c)
      BY <1>8, <1>24, <3>2
    <3>4. ASSUME NEW k \in DOMAIN s, FreesAt(s, k, c) PROVE FALSE
      <4>1. NewFree(h, p, n, k, c)
        BY <1>3, <1>4, <1>24, <3>4, EnteredFrees
      <4>2. c = p
        BY <3>1, <4>1 DEF NewFree
      <4>3. SlotType(h, <<p, j>>).kind \in {"string", "array", "object"} /\ <<p, j>> \in AllSlots(h)
        <5>1. <<p, j>> \in AllSlots(h) /\ Slot(h, <<p, j>>) # Null
          <6>1. p \in Nat /\ j \in Nat
            BY <1>3, <3>2, TypeOfSlot
          <6>2. QED
            BY <1>3, <1>24, <3>1, <3>2, <6>1 DEF AllSlots
        <5>2. QED
          BY <3>1, <5>1, EnteredKind
      <4>4. Slot(h, <<p, j>>) # p
        BY <1>24, <3>1, <4>3, NoSelf
      <4>5. QED
        BY <3>1, <4>2, <4>4
    <3>5. QED
      BY <1>15, <3>3, <3>4
  <2>2. CASE \E l \in DOMAIN w : l # 1 /\ j = Len(s) + l - 1 /\ u[j] = w[l]
    <3>1. PICK l \in DOMAIN w : l # 1 /\ u[j] = w[l]
      BY <2>2
    <3>2. w[l].at \in AllSlots(h)
      BY <1>24, <3>1, TaskSlots
    <3>3. /\ w[l].at[1] \in R /\ Touched(h, w, w[l].at[1])
          /\ w[l].at[2] \in DOMAIN h[w[l].at[1]].slots
          /\ c = h[w[l].at[1]].slots[w[l].at[2]] /\ c \in R
      BY <1>24, <3>1, <3>2, SafeSlots
    <3>4. ~Touched(h, w, c)
      BY <1>24, <3>1 DEF SafeWalk
    <3>5. ASSUME NEW k \in DOMAIN s, FreesAt(s, k, c) PROVE FALSE
      <4>1. \/ \E m \in DOMAIN s : FreesAt(s, m, w[l].at[1])
            \/ w[l].at[1] = at[1] /\ w[l].at[2] = at[2]
        BY <1>8, <1>24, <3>3, <3>5, ZenonT(60)
      <4>2. CASE \E m \in DOMAIN s : FreesAt(s, m, w[l].at[1])
        BY <1>8, <1>9, <3>3, <4>2
      <4>3. CASE w[l].at[1] = at[1] /\ w[l].at[2] = at[2]
        <5>1. w[l].at = at
          BY <1>2, <3>2, <4>3 DEF AllSlots
        <5>2. QED
          BY <1>1, <1>24, <3>1, <5>1 DEF SafeWalk
      <4>4. QED
        BY <4>1, <4>2, <4>3
    <3>6. QED
      BY <1>15, <3>3, <3>4, <3>5
  <2>3. QED
    BY <1>10, <2>1, <2>2
<1>25. ASSUME NEW b \in R, NEW i \in DOMAIN h[b].slots,
              h[b].slots[i] # Null, Touched(h, u, h[b].slots[i])
       PROVE  Touched(h, u, b)
  <2> DEFINE c == h[b].slots[i]
  <2>1. c \in R
    BY <1>25 DEF Tree
  <2>2. CASE Touched(h, w, c)
    BY <1>14, <1>25, <2>2 DEF SafeWalk
  <2>3. CASE \E k \in DOMAIN s : FreesAt(s, k, c)
    <3>1. (\E l \in DOMAIN s : FreesAt(s, l, b)) \/ b = at[1]
      BY <1>8, <1>25, <2>3
    <3>2. Touched(h, w, at[1])
      BY <1>1, <1>2, SafeSlots
    <3>3. QED
      BY <1>14, <1>16, <3>1, <3>2
  <2>4. QED
    BY <1>15, <1>25, <2>1, <2>2, <2>3
<1>26. QED
  BY <1>20, <1>21, <1>22, <1>23, <1>24, <1>25 DEF SafeWalk, u, s

-----------------------------------------------------------------------------
(* The walk keeps the invariant. *)

\* What a step of the walk leaves behind.
WalkDone ==
  /\ WellTyped(heap') /\ Kept(heap, heap') /\ DOMAIN heap' = DOMAIN heap
  /\ FreeingInv'
  /\ fault' \in {"none", "use_after_free", "double_free"}
  /\ fault' # "none" => destroys = "stale"

\* Nothing but the fault changes.
LEMMA WalkFaults ==
  ASSUME WellTyped(heap), FreeingInv, UNCHANGED <<heap, work, destroys, owned>>,
         fault' \in {"use_after_free", "double_free"}, destroys = "stale"
  PROVE  WalkDone
<1>1. heap' = heap /\ work' = work /\ destroys' = destroys /\ owned' = owned
  OBVIOUS
<1>2. FreeingInv'
  BY <1>1 DEF FreeingInv
<1>3. Kept(heap, heap)
  BY DEF Kept
<1>4. QED
  BY <1>1, <1>2, <1>3 DEF WalkDone

LEMMA FreeingAfter ==
  ASSUME WellTyped(heap'), Kept(heap, heap'), DOMAIN heap' = DOMAIN heap,
         UNCHANGED <<destroys, owned>>, fault' = "none",
         work' \in Seq(TaskType),
         Bare(heap', work', owned) \/ Walking(heap', work', owned),
         destroys # "stale" =>
           \E R \in SUBSET DOMAIN heap : Tree(heap', R) /\ SafeWalk(heap', work', R)
  PROVE  WalkDone
<1>1. FreeingInv'
  BY DEF FreeingInv
<1>2. QED
  BY <1>1 DEF WalkDone

\* When the walk has a task that is not the one of Bare.
LEMMA WalkingNow ==
  ASSUME FreeingInv, work # <<>>, Head(work).do # "free" \/ Head(work).block = Null
  PROVE  Walking(heap, work, owned)
<1>1. ~Bare(heap, work, owned)
  <2>1. work # <<FreeBlock(1)>>
    <3>1. Head(<<FreeBlock(1)>>) = FreeBlock(1)
      OBVIOUS
    <3>2. FreeBlock(1).do = "free" /\ FreeBlock(1).block = 1 /\ 1 # Null
      BY TaskFacts DEF Null
    <3>3. QED
      BY <3>1, <3>2
  <2>2. QED
    BY <2>1 DEF Bare
<1>2. QED
  BY <1>1 DEF FreeingInv

LEMMA SlotTask ==
  ASSUME WellTyped(heap), FreeingInv, work # <<>>, fault = "none",
         DeallocateSlot(Head(work)), UNCHANGED <<destroys, owned>>
  PROVE  WalkDone
<1> DEFINE at == work[1].at
           p == Slot(heap, at)
<1>1. /\ work \in Seq(TaskType) /\ Head(work) = work[1] /\ 1 \in DOMAIN work
      /\ Tail(work) \in Seq(TaskType)
  BY Doing DEF FreeingInv
<1>2. work[1].do = "slot" /\ heap' = heap
  BY <1>1 DEF DeallocateSlot
<1>3. Walking(heap, work, owned)
  BY <1>1, <1>2, WalkingNow
<1>4. owned \subseteq DOMAIN heap /\ StaysIn(heap, work, owned)
  BY <1>3 DEF Walking
<1>5. at \in AllSlots(heap)
  BY <1>1, <1>2, <1>4, TaskSlots
<1>6. ASSUME destroys # "stale"
      PROVE  Alive(at)
  <2>1. PICK R \in SUBSET DOMAIN heap : Tree(heap, R) /\ SafeWalk(heap, work, R)
    BY <1>6 DEF FreeingInv
  <2>2. heap[at[1]].live /\ p \in (R \ {1}) \cup {Null}
    BY <1>1, <1>2, <1>5, <2>1, SafeSlots
  <2>3. p # Null => heap[p].live
    BY <1>1, <1>2, <2>1 DEF SafeWalk, Touched
  <2>4. QED
    BY <2>2, <2>3 DEF Alive
<1>7. CASE ~Alive(at)
  <2>1. fault' = "use_after_free" /\ work' = work
    BY <1>1, <1>7 DEF DeallocateSlot
  <2>2. QED
    BY <1>2, <1>6, <1>7, <2>1, WalkFaults
<1>8. CASE Alive(at)
  <2>0. fault' = "none"
    BY <1>1, <1>8 DEF DeallocateSlot
  <2>k. Kept(heap, heap') /\ WellTyped(heap') /\ DOMAIN heap' = DOMAIN heap
    BY <1>2 DEF Kept
  <2>1. CASE p = Null
    <3>1. work' = <<>> \o Tail(work)
      BY <1>1, <1>8, <2>1 DEF DeallocateSlot
    <3>2. work' = Tail(work)
      BY <1>1, <3>1
    <3>3. \A c \in DOMAIN heap : ~Frees(heap, work[1], c)
      BY <1>2, <2>1 DEF Frees, WellTyped, Null
    <3>4. Walking(heap, work', owned)
      BY <1>1, <1>2, <1>3, <3>2, <3>3, WalkDropped
    <3>5. ASSUME destroys # "stale"
          PROVE  \E R \in SUBSET DOMAIN heap : Tree(heap, R) /\ SafeWalk(heap, work', R)
      <4>1. PICK R \in SUBSET DOMAIN heap : Tree(heap, R) /\ SafeWalk(heap, work, R)
        BY <3>5 DEF FreeingInv
      <4>2. SafeWalk(heap, work', R)
        BY <1>1, <1>2, <1>4, <3>2, <4>1, SafeDropped
      <4>3. QED
        BY <4>1, <4>2
    <3>6. QED
      BY <1>1, <1>2, <2>0, <2>k, <3>2, <3>4, <3>5, FreeingAfter
  <2>2. CASE p # Null
    <3>1. work' = (Inside(heap, p) \o <<FreeBlock(p), Task("null", at, Null)>>) \o Tail(work)
      BY <1>1, <1>8, <2>2 DEF DeallocateSlot
    <3>2. work' = Entered(heap, at, p) \o Tail(work)
      BY <3>1 DEF Entered
    <3>3. heap[at[1]].live /\ heap[p].live
      BY <1>8, <2>2 DEF Alive
    <3>4. Walking(heap, work', owned)
      BY <1>1, <1>2, <1>3, <2>2, <3>2, <3>3, WalkEntered
    <3>5. ASSUME destroys # "stale"
          PROVE  \E R \in SUBSET DOMAIN heap : Tree(heap, R) /\ SafeWalk(heap, work', R)
      <4>1. PICK R \in SUBSET DOMAIN heap : Tree(heap, R) /\ SafeWalk(heap, work, R)
        BY <3>5 DEF FreeingInv
      <4>2. SafeWalk(heap, work', R)
        BY <1>1, <1>2, <1>4, <2>2, <3>2, <4>1, SafeEntered
      <4>3. QED
        BY <4>1, <4>2
    <3>6. work' \in Seq(TaskType)
      <4>1. heap[at[1]].kind \in {"region", "array"}
        BY <1>1, <1>2, <1>4 DEF StaysIn
      <4>2. EnteredTasks(heap, at, p, Entered(heap, at, p), Len(Inside(heap, p)))
        BY <1>5, <2>2, <4>1, EnteredKind, EnteredIs DEF AllSlots
      <4>3. Entered(heap, at, p) \in Seq(TaskType)
        BY <4>2 DEF EnteredTasks
      <4>4. QED
        BY <1>1, <3>2, <4>3, Splicing DEF Spliced
    <3>7. QED
      BY <1>2, <2>0, <2>k, <3>4, <3>5, <3>6, FreeingAfter
  <2>3. QED
    BY <2>1, <2>2
<1>9. QED
  BY <1>7, <1>8

LEMMA FreeTask ==
  ASSUME WellTyped(heap), FreeingInv, work # <<>>, fault = "none",
         FreeOne(Head(work)), UNCHANGED <<destroys, owned>>
  PROVE  WalkDone
<1> DEFINE p == work[1].block
           w == work
<1>1. /\ work \in Seq(TaskType) /\ Head(work) = work[1] /\ 1 \in DOMAIN work
      /\ Tail(work) \in Seq(TaskType)
  BY Doing DEF FreeingInv
<1>2. work[1].do = "free"
  BY <1>1 DEF FreeOne
<1>3. ASSUME p # Null
      PROVE  p \in DOMAIN heap
  <2>1. CASE Bare(heap, work, owned)
    <3>1. work[1] = FreeBlock(1)
      BY <2>1 DEF Bare
    <3>2. QED
      BY <3>1, BelowInside, TaskFacts
  <2>2. CASE Walking(heap, work, owned)
    BY <1>1, <1>2, <1>3, <2>2 DEF Walking, StaysIn
  <2>3. QED
    BY <2>1, <2>2 DEF FreeingInv
<1>4. CASE p = Null
  <2>1. heap' = heap /\ work' = Tail(work) /\ fault' = "none"
    BY <1>1, <1>4 DEF FreeOne
  <2>2. Walking(heap, work, owned)
    BY <1>1, <1>4, WalkingNow
  <2>3. owned \subseteq DOMAIN heap /\ StaysIn(heap, work, owned)
    BY <2>2 DEF Walking
  <2>4. \A c \in DOMAIN heap : ~Frees(heap, work[1], c)
    BY <1>2, <1>4 DEF Frees, WellTyped, Null
  <2>5. Walking(heap, work', owned)
    BY <1>1, <1>2, <2>1, <2>2, <2>4, WalkDropped
  <2>6. ASSUME destroys # "stale"
        PROVE  \E R \in SUBSET DOMAIN heap : Tree(heap, R) /\ SafeWalk(heap, work', R)
    <3>1. PICK R \in SUBSET DOMAIN heap : Tree(heap, R) /\ SafeWalk(heap, work, R)
      BY <2>6 DEF FreeingInv
    <3>2. SafeWalk(heap, work', R)
      BY <1>1, <1>2, <1>4, <2>1, <2>3, <3>1, SafeDropped
    <3>3. QED
      BY <3>1, <3>2
  <2>7. Kept(heap, heap') /\ WellTyped(heap') /\ DOMAIN heap' = DOMAIN heap
    BY <2>1 DEF Kept
  <2>8. QED
    BY <1>1, <2>1, <2>5, <2>6, <2>7, FreeingAfter
<1>5. CASE p # Null /\ ~heap[p].live
  <2>1. UNCHANGED <<heap, work>> /\ fault' = "double_free"
    BY <1>1, <1>5 DEF FreeOne
  <2>2. ASSUME destroys # "stale"
        PROVE  heap[p].live
    <3>1. PICK R \in SUBSET DOMAIN heap : SafeWalk(heap, work, R)
      BY <2>2 DEF FreeingInv
    <3>2. QED
      BY <1>1, <1>2, <1>5, <3>1 DEF SafeWalk
  <2>3. QED
    BY <1>5, <2>1, <2>2, WalkFaults
<1>6. CASE p # Null /\ heap[p].live
  <2> DEFINE g == [heap EXCEPT ![p].live = FALSE]
  <2>1. heap' = g /\ work' = Tail(work) /\ fault' = "none"
    BY <1>1, <1>6 DEF FreeOne
  <2>a. heap \in Seq(BlockType) /\ p \in DOMAIN heap
    BY <1>3, <1>6 DEF WellTyped
  <2>2. /\ g \in Seq(BlockType) /\ DOMAIN g = DOMAIN heap /\ Kept(heap, g)
        /\ \A b \in DOMAIN heap :
             /\ g[b].live <=> (b # p /\ heap[b].live)
             /\ g[b].size = heap[b].size /\ g[b].slots = heap[b].slots
             /\ b # p => g[b] = heap[b]
    BY <2>a, Killing
  <2>3. ASSUME Walking(heap, work, owned)
        PROVE  Walking(g, Tail(work), owned)
    BY <1>1, <1>2, <2>3, <2>a, WalkKilled
  <2>4. ASSUME destroys # "stale"
        PROVE  \E R \in SUBSET DOMAIN heap : Tree(g, R) /\ SafeWalk(g, Tail(work), R)
    <3>1. PICK R \in SUBSET DOMAIN heap : Tree(heap, R) /\ SafeWalk(heap, work, R)
      BY <2>4 DEF FreeingInv
    <3>2. CASE Bare(heap, work, owned)
      <4>1. work = <<FreeBlock(1)>>
        BY <3>2 DEF Bare
      <4>2. \A j \in DOMAIN work : work[j].do = "free"
        BY <4>1, TaskFacts
      <4>3. {} \subseteq DOMAIN heap
        OBVIOUS
      <4>4. Tree(g, R) /\ SafeWalk(g, Tail(work), R)
        BY <1>1, <1>2, <2>a, <3>1, <4>2, <4>3, SafeKilled
      <4>5. QED
        BY <4>4
    <3>3. CASE Walking(heap, work, owned)
      <4>1. owned \subseteq DOMAIN heap /\ StaysIn(heap, work, owned)
        BY <3>3 DEF Walking
      <4>2. Tree(g, R) /\ SafeWalk(g, Tail(work), R)
        BY <1>1, <1>2, <2>a, <3>1, <4>1, SafeKilled
      <4>3. QED
        BY <4>2
    <3>4. QED
      BY <3>2, <3>3 DEF FreeingInv
  <2> HIDE DEF g
  <2>5. WellTyped(g)
    BY <2>2, StillTyped
  <2>6. ASSUME Bare(heap, work, owned)
        PROVE  Bare(g, Tail(work), owned)
    <3>1. work = <<FreeBlock(1)>> /\ owned = Dead(heap) \cup {1}
      BY <2>6 DEF Bare
    <3>2. p = 1 /\ Tail(work) = <<>>
      BY <3>1, TaskFacts
    <3>3. Dead(g) = Dead(heap) \cup {p}
      BY <2>2, <2>a DEF Dead
    <3>4. QED
      BY <3>1, <3>2, <3>3 DEF Bare
  <2>7. Bare(g, Tail(work), owned) \/ Walking(g, Tail(work), owned)
    BY <2>3, <2>6 DEF FreeingInv
  <2>8. QED
    BY <1>1, <2>1, <2>2, <2>4, <2>5, <2>7, FreeingAfter
<1>7. QED
  BY <1>4, <1>5, <1>6

LEMMA NullTask ==
  ASSUME WellTyped(heap), FreeingInv, work # <<>>, fault = "none",
         NullSlot(Head(work)), UNCHANGED <<destroys, owned>>
  PROVE  WalkDone
<1> DEFINE at == work[1].at
<1>1. /\ work \in Seq(TaskType) /\ Head(work) = work[1] /\ 1 \in DOMAIN work
      /\ Tail(work) \in Seq(TaskType)
  BY Doing DEF FreeingInv
<1>2. work[1].do = "null"
  BY <1>1 DEF NullSlot
<1>3. Walking(heap, work, owned)
  BY <1>1, <1>2, WalkingNow
<1>4. owned \subseteq DOMAIN heap /\ StaysIn(heap, work, owned)
  BY <1>3 DEF Walking
<1>5. at \in AllSlots(heap)
  BY <1>1, <1>2, <1>4, TaskSlots
<1>6. ASSUME destroys # "stale"
      PROVE  heap[at[1]].live
  <2>1. PICK R \in SUBSET DOMAIN heap : Tree(heap, R) /\ SafeWalk(heap, work, R)
    BY <1>6 DEF FreeingInv
  <2>2. QED
    BY <1>1, <1>2, <1>5, <2>1, SafeSlots
<1>7. CASE ~heap[at[1]].live
  <2>1. fault' = "use_after_free" /\ UNCHANGED <<heap, work>>
    BY <1>1, <1>7 DEF NullSlot
  <2>2. QED
    BY <1>6, <1>7, <2>1, WalkFaults
<1>8. CASE heap[at[1]].live
  <2> DEFINE g == Point(heap, at, Null)
  <2>1. heap' = g /\ work' = Tail(work) /\ fault' = "none"
    BY <1>1, <1>8 DEF NullSlot
  <2>2. WellTyped(g)
    BY <1>5, PointTyped
  <2>3. heap \in Seq(BlockType) /\ Null \in Nat
    BY DEF WellTyped, Null
  <2>4. DOMAIN g = DOMAIN heap /\ Kept(heap, g)
    BY <1>5, <2>3, Pointing
  <2>5. Walking(g, Tail(work), owned)
    BY <1>1, <1>2, <1>3, WalkNulled
  <2>6. ASSUME destroys # "stale"
        PROVE  \E R \in SUBSET DOMAIN heap : Tree(g, R) /\ SafeWalk(g, Tail(work), R)
    <3>1. PICK R \in SUBSET DOMAIN heap : Tree(heap, R) /\ SafeWalk(heap, work, R)
      BY <2>6 DEF FreeingInv
    <3>2. Tree(g, R) /\ SafeWalk(g, Tail(work), R)
      BY <1>1, <1>2, <1>4, <3>1, SafeNulled
    <3>3. QED
      BY <3>2
  <2> HIDE DEF g
  <2>7. QED
    BY <1>1, <2>1, <2>2, <2>4, <2>5, <2>6, FreeingAfter
<1>9. QED
  BY <1>7, <1>8

-----------------------------------------------------------------------------
(* The invariant. *)

LEMMA RegionTyped ==
  ASSUME NEW root \in Roots
  PROVE  LET h == <<Region(root)>> IN WellTyped(h) /\ OpenHeap(h, "never")
<1> DEFINE r == Region(root)
           h == <<r>>
<1>1. root \in Seq(SlotTypes)
  BY ConstantsAssumption
<1>2. root \in Seq(Types) /\ Len(root) \in Nat
  BY <1>1 DEF Types
<1>3. ZeroSlots(Len(root)) \in Seq(Nat) /\ Len(ZeroSlots(Len(root))) = Len(root)
  BY <1>2 DEF ZeroSlots, Null
<1>4. \A i \in DOMAIN ZeroSlots(Len(root)) : ZeroSlots(Len(root))[i] = Null
  BY DEF ZeroSlots
<1>5. /\ r.live = TRUE /\ r.kind = "region" /\ r.of = root /\ r.size = 1
      /\ r.slots = ZeroSlots(Len(root)) /\ r.name = NoName
  BY DEF Region, Block
<1>6. r \in BlockType
  BY <1>2, <1>3 DEF Region, Block, BlockType, Kinds
<1> HIDE DEF r
<1>7. h \in Seq(BlockType) /\ h # <<>> /\ DOMAIN h = {1} /\ h[1] = r
  BY <1>6
<1> HIDE DEF h
<1>8. Shaped(r) /\ Fits(r)
  <2>1. Len(root) = 1 * Len(root) /\ 1 <= 1
    BY <1>2
  <2>2. QED
    BY <1>1, <1>3, <1>5, <2>1 DEF Shaped, Fits
<1>9. \A i \in DOMAIN h[1].slots : h[1].slots[i] = Null
  BY <1>4, <1>5, <1>7
<1>10. WellTyped(h)
  BY <1>5, <1>7, <1>8, <1>9 DEF WellTyped, LedRight, Slot
<1>11. Dead(h) = {}
  BY <1>5, <1>7 DEF Dead
<1>12. Tree(h, {1})
  BY <1>7, <1>9 DEF Tree
<1>13. OpenHeap(h, "never")
  BY <1>7, <1>11, <1>12 DEF OpenHeap
<1>14. QED
  BY <1>10, <1>13 DEF h, r

LEMMA InitInv == Init => TeardownInv
<1> SUFFICES ASSUME Init PROVE TeardownInv
  OBVIOUS
<1>1. PICK root \in Roots : heap = <<Region(root)>>
  BY DEF Init
<1>2. WellTyped(heap) /\ OpenHeap(heap, "never")
  BY <1>1, RegionTyped
<1>3. QED
  BY <1>2 DEF Init, TeardownInv, TeardownReleases, OnlyDeadViewsFault

\* A call that works.
LEMMA CallKeeps ==
  ASSUME TeardownInv, phase = "open", fault = "none", CallDone
  PROVE  TeardownInv'
<1>1. /\ WellTyped(heap) /\ WellTyped(heap') /\ Kept(heap, heap')
      /\ OpenHeap(heap', destroys') /\ phase' = "open" /\ fault' = "none"
      /\ owned' = owned
  BY DEF CallDone, Sound, TeardownInv
<1>2. AllSlots(heap) \subseteq AllSlots(heap')
  BY <1>1, SlotsKept DEF WellTyped
<1>3. held' = NoSlot \/ held' \in AllSlots(heap')
  BY <1>2 DEF CallDone, TeardownInv
<1>4. owned' \subseteq DOMAIN heap'
  BY <1>1 DEF TeardownInv, Kept
<1>5. destroys' \in {"never", "current", "stale"}
  BY DEF CallDone
<1>6. TeardownReleases' /\ OnlyDeadViewsFault'
  BY <1>1 DEF TeardownReleases, OnlyDeadViewsFault
<1>7. QED
  BY <1>1, <1>3, <1>4, <1>5, <1>6 DEF TeardownInv

\* A call through a slot that was freed: until an array was destroyed, no
\* block of an open region was.
LEMMA DeadKeeps ==
  ASSUME TeardownInv, NEW at \in Callable, UseDead(at)
  PROVE  TeardownInv'
<1>1. /\ heap' = heap /\ phase' = phase /\ work' = work /\ held' = held
      /\ destroys' = destroys /\ owned' = owned /\ fault' = "dead_view" /\ ~Alive(at)
  BY DEF UseDead
<1>2. phase # "open" \/ destroys # "never"
  <2>1. SUFFICES ASSUME phase = "open", destroys = "never" PROVE Alive(at)
    BY <1>1
  <2>2. WellTyped(heap) /\ Dead(heap) = {} /\ at \in AllSlots(heap)
    BY <2>1, CallableSlots DEF TeardownInv, OpenHeap
  <2>3. heap[at[1]].live
    BY <2>2 DEF Dead, AllSlots
  <2>4. Slot(heap, at) # Null => heap[Slot(heap, at)].live
    BY <2>2, BufferOf DEF Dead
  <2>5. QED
    BY <2>3, <2>4 DEF Alive
<1>3. OnlyDeadViewsFault'
  BY <1>1, <1>2 DEF OnlyDeadViewsFault
<1>4. TeardownReleases'
  BY <1>1 DEF TeardownReleases, TeardownInv
<1>5. FreeingInv' <=> FreeingInv
  BY <1>1 DEF FreeingInv
<1>6. QED
  BY <1>1, <1>3, <1>4, <1>5 DEF TeardownInv

LEMMA ViewKeeps ==
  ASSUME TeardownInv, TakeView
  PROVE  TeardownInv'
<1>1. /\ heap' = heap /\ phase' = phase /\ phase = "open" /\ work' = work
      /\ destroys' = destroys /\ owned' = owned /\ fault' = fault /\ held' \in Current
  BY DEF TakeView, Keep
<1>2. held' \in AllSlots(heap)
  BY <1>1, CurrentSlots DEF Current, TeardownInv
<1>3. OnlyDeadViewsFault' /\ TeardownReleases'
  BY <1>1 DEF OnlyDeadViewsFault, TeardownReleases, TeardownInv
<1>4. QED
  BY <1>1, <1>2, <1>3 DEF TeardownInv

LEMMA FreeKeeps ==
  ASSUME TeardownInv, fault = "none", NEW d \in Destructors, Free(d)
  PROVE  TeardownInv'
<1>1. /\ heap' = heap /\ phase' = "freeing" /\ held' = held
      /\ destroys' = destroys /\ fault' = "none"
  BY DEF Free
<1>2. FreeingInv' /\ owned' \subseteq DOMAIN heap
  BY FreeStep
<1>3. OnlyDeadViewsFault' /\ TeardownReleases'
  BY <1>1 DEF OnlyDeadViewsFault, TeardownReleases
<1>4. QED
  BY <1>1, <1>2, <1>3 DEF TeardownInv

LEMMA WalkKeeps ==
  ASSUME TeardownInv, fault = "none", WalkStep
  PROVE  TeardownInv'
<1>1. /\ WellTyped(heap) /\ FreeingInv /\ phase = "freeing" /\ work # <<>>
      /\ phase' = phase /\ held' = held /\ destroys' = destroys /\ owned' = owned
  BY DEF WalkStep, TeardownInv
<1>2. WalkDone
  BY <1>1, SlotTask, FreeTask, NullTask DEF WalkStep
<1>3. AllSlots(heap) \subseteq AllSlots(heap')
  BY <1>1, <1>2, SlotsKept DEF WalkDone, WellTyped
<1>4. OnlyDeadViewsFault' /\ TeardownReleases'
  BY <1>1, <1>2 DEF WalkDone, OnlyDeadViewsFault, TeardownReleases
<1>5. QED
  BY <1>1, <1>2, <1>3, <1>4 DEF WalkDone, TeardownInv

\* The walk is over: what it owned is dead.
LEMMA ReturnKeeps ==
  ASSUME TeardownInv, fault = "none", Return
  PROVE  TeardownInv'
<1>1. /\ heap' = heap /\ phase' = "closed" /\ work' = work /\ held' = held
      /\ destroys' = destroys /\ owned' = owned /\ fault' = fault
      /\ phase = "freeing" /\ work = <<>> /\ FreeingInv
  BY DEF Return, TeardownInv
<1>2. owned = Dead(heap)
  <2>1. CASE Bare(heap, work, owned)
    <3>1. work # <<FreeBlock(1)>>
      BY <1>1
    <3>2. QED
      BY <2>1, <3>1 DEF Bare
  <2>2. CASE Walking(heap, work, owned)
    <3>1. /\ {} \in SUBSET DOMAIN heap /\ \A b \in {} : OwnBelow(heap[b]) \subseteq {}
          /\ \A j \in DOMAIN work : \A c \in DOMAIN heap : Frees(heap, work[j], c) => c \in {}
      BY <1>1
    <3>2. owned \ Dead(heap) \subseteq {}
      BY <2>2, <3>1 DEF Walking, Covers
    <3>3. QED
      BY <2>2, <3>2 DEF Walking
  <2>3. QED
    BY <1>1, <2>1, <2>2 DEF FreeingInv
<1>3. TeardownReleases'
  BY <1>1, <1>2 DEF TeardownReleases, Dead
<1>4. OnlyDeadViewsFault'
  BY <1>1 DEF OnlyDeadViewsFault
<1>5. QED
  BY <1>1, <1>3, <1>4 DEF TeardownInv

LEMMA NextInv == TeardownInv /\ [Next]_vars => TeardownInv'
<1> SUFFICES ASSUME TeardownInv, [Next]_vars PROVE TeardownInv'
  OBVIOUS
<1>1. CASE fault = "none" /\ Calls
  <2>1. (phase = "open" /\ CallDone) \/ \E at \in Callable : UseDead(at)
    BY <1>1, CallStep
  <2>2. QED
    BY <1>1, <2>1, CallKeeps, DeadKeeps
<1>2. CASE fault = "none" /\ TakeView
  BY <1>2, ViewKeeps
<1>3. CASE fault = "none" /\ \E destructor \in Destructors : Free(destructor)
  BY <1>3, FreeKeeps
<1>4. CASE fault = "none" /\ WalkStep
  BY <1>4, WalkKeeps
<1>5. CASE fault = "none" /\ Return
  BY <1>5, ReturnKeeps
<1>6. CASE UNCHANGED vars
  <2>1. /\ heap' = heap /\ phase' = phase /\ work' = work /\ held' = held
        /\ destroys' = destroys /\ owned' = owned /\ fault' = fault
    BY <1>6 DEF vars
  <2>2. /\ FreeingInv' <=> FreeingInv
        /\ OnlyDeadViewsFault' <=> OnlyDeadViewsFault
        /\ TeardownReleases' <=> TeardownReleases
    BY <2>1 DEF FreeingInv, OnlyDeadViewsFault, TeardownReleases
  <2>3. QED
    BY <2>1, <2>2 DEF TeardownInv
<1>7. QED
  BY <1>1, <1>2, <1>3, <1>4, <1>5, <1>6 DEF Next

\* Whatever is called through current or stale views, every block is what the
\* slots that lead to it say; while the region is open, what can be found
\* below it is a tree, of live blocks until a destroy through a stale view;
\* and the walk of msm_free (msm_allocator.cpp:203-221) frees each block it
\* owns behind what that leads to and before the pointer to it is reset.
THEOREM TeardownCorrect == Spec => []TeardownInv
<1>1. QED
  BY InitInv, NextInv, PTL DEF Spec

LEMMA InvTypeOK == TeardownInv => TypeOK
<1> SUFFICES ASSUME TeardownInv PROVE TypeOK
  OBVIOUS
<1>1. WellTyped(heap) /\ heap \in Seq(BlockType)
  BY DEF TeardownInv, WellTyped
<1>2. ASSUME NEW b \in DOMAIN heap
      PROVE  /\ heap[b].live \in BOOLEAN
             /\ heap[b].kind \in Kinds
             /\ heap[b].size * Len(heap[b].of) <= Len(heap[b].slots)
             /\ \A i \in DOMAIN heap[b].slots : heap[b].slots[i] \in {Null} \cup DOMAIN heap
             /\ heap[b].name \in Names \cup {NoName}
  BY <1>1, HeapType, RoomInside, TypeOfSlot
<1>3. held = NoSlot \/ held[2] \in DOMAIN heap[held[1]].slots
  BY DEF TeardownInv, AllSlots
<1>4. QED
  BY <1>2, <1>3 DEF TypeOK, TeardownInv

\* No buffer holds more than its capacity, and no pointer leads out of the
\* heap, whatever is pushed, grown, removed and destroyed (array.hpp,
\* object.hpp, msm_allocator.cpp).
THEOREM TypeOKCorrect == Spec => []TypeOK
<1>1. QED
  BY TeardownCorrect, InvTypeOK, PTL

LEMMA InvOneOwner == TeardownInv => OneOwner
<1> SUFFICES ASSUME TeardownInv, phase = "open", destroys # "stale"
             PROVE  /\ \A b \in Reached(heap) : heap[b].live
                    /\ \A x, y \in UNION {{b} \X InUse(heap[b]) : b \in Reached(heap)} :
                         Slot(heap, x) # Null /\ Slot(heap, x) = Slot(heap, y) => x = y
  BY DEF OneOwner
<1>1. WellTyped(heap)
  BY DEF TeardownInv
<1>2. PICK R \in SUBSET DOMAIN heap : Tree(heap, R) /\ R \cap Dead(heap) = {}
  BY DEF TeardownInv, OpenHeap
<1>3. Reached(heap) \subseteq R
  BY <1>1, <1>2, ReachedTree
<1>4. \A b \in Reached(heap) : heap[b].live
  BY <1>2, <1>3 DEF Dead
<1>5. ASSUME NEW x \in UNION {{b} \X InUse(heap[b]) : b \in Reached(heap)}
      PROVE  /\ x = <<x[1], x[2]>> /\ x[1] \in R /\ x[2] \in DOMAIN heap[x[1]].slots
             /\ Slot(heap, x) = heap[x[1]].slots[x[2]]
  <2>1. PICK b \in Reached(heap) : x \in {b} \X InUse(heap[b])
    BY <1>5
  <2>2. x = <<x[1], x[2]>> /\ x[1] = b /\ x[2] \in InUse(heap[b])
    BY <2>1
  <2>3. InUse(heap[b]) \subseteq DOMAIN heap[b].slots /\ b \in R
    BY <1>1, <1>2, <1>3, RoomInside
  <2>4. QED
    BY <2>2, <2>3 DEF Slot
<1>6. ASSUME NEW x \in UNION {{b} \X InUse(heap[b]) : b \in Reached(heap)},
             NEW y \in UNION {{b} \X InUse(heap[b]) : b \in Reached(heap)},
             Slot(heap, x) # Null, Slot(heap, x) = Slot(heap, y)
      PROVE  x = y
  <2>1. x[1] = y[1] /\ x[2] = y[2]
    BY <1>2, <1>5, <1>6 DEF Tree
  <2>2. QED
    BY <1>5, <2>1
<1>7. QED
  BY <1>4, <1>6

\* Every pointer msm_free would follow leads to a live block, and no other
\* leads there, however the region was used, unless an array was destroyed
\* through a stale view (array.hpp:163-176).
THEOREM OneOwnerCorrect == Spec => []OneOwner
<1>1. QED
  BY TeardownCorrect, InvOneOwner, PTL

\* A view stays good while the region is open, and the walk of msm_free never
\* reads or frees a freed block, but after a destroy (msm_allocator.cpp:203-221,
\* array.hpp:163-176).
THEOREM OnlyDeadViewsFaultCorrect == Spec => []OnlyDeadViewsFault
<1>1. TeardownInv => OnlyDeadViewsFault
  BY DEF TeardownInv
<1>2. QED
  BY <1>1, TeardownCorrect, PTL

\* When msm_free returns, the blocks that are not allocated any more are those
\* the region owned and those an array::destroy had freed before, no more and
\* no fewer (record.hpp:184-197, array.hpp:133-161, object.hpp:114-148).
THEOREM TeardownReleasesCorrect == Spec => []TeardownReleases
<1>1. TeardownInv => TeardownReleases
  BY DEF TeardownInv
<1>2. QED
  BY <1>1, TeardownCorrect, PTL

-----------------------------------------------------------------------------
(* Growing keeps the contents. *)

\* In g the buffer p below the slot at is replaced by N, which has what is in
\* use of p and besides it leads to new blocks only, as these do.
Regrown(h, g, at) ==
  LET p == Slot(h, at)
      N == Len(h) + 1
      new == DOMAIN g \ DOMAIN h
  IN  /\ DOMAIN h \subseteq DOMAIN g /\ N \in new
      /\ \A b \in DOMAIN h :
           /\ g[b].live <=> h[b].live
           /\ InUse(g[b]) = InUse(h[b])
           /\ \A i \in InUse(h[b]) :
                g[b].slots[i] = IF b = at[1] /\ i = at[2] THEN N ELSE h[b].slots[i]
      /\ InUse(h[p]) \subseteq InUse(g[N])
      /\ \A i \in InUse(h[p]) : g[N].slots[i] = h[p].slots[i]
      /\ \A i \in InUse(g[N]) \ InUse(h[p]) : g[N].slots[i] \in {Null} \cup new
      /\ \A b \in new \ {N} : \A i \in InUse(g[b]) : g[b].slots[i] \in {Null} \cup new
      /\ g[N].live

\* What the blocks lead to before and after.
LEMMA RegrownBelow ==
  ASSUME NEW h, WellTyped(h), NEW R, Tree(h, R), NEW at \in CurrentOf(h),
         Slot(h, at) # Null, h[Slot(h, at)].live,
         SlotType(h, at).kind \in {"array", "object"},
         NEW g, Regrown(h, g, at)
  PROVE  LET p == Slot(h, at)
             N == Len(h) + 1
         IN  /\ p \in DOMAIN h /\ p # 1 /\ p \in Below(h[at[1]]) /\ N \in Below(g[at[1]])
             /\ Below(h[p]) \subseteq Below(g[N]) /\ p \notin Below(h[p])
             /\ \A b \in DOMAIN h :
                  /\ Below(h[b]) \subseteq Below(g[b]) \cup {p}
                  /\ b # at[1] => Below(h[b]) \subseteq Below(g[b])
                  /\ Below(g[b]) \subseteq Below(h[b]) \cup {N}
                  /\ b \in R => p \notin Below(g[b])
             /\ \A b \in DOMAIN g \ DOMAIN h :
                  Below(g[b]) \subseteq Below(h[p]) \cup (DOMAIN g \ DOMAIN h)
<1> DEFINE p == Slot(h, at)
           a == at[1]
           N == Len(h) + 1
<1>1. /\ at \in AllSlots(h) /\ a \in Reached(h) /\ h[a].live /\ at[2] \in InUse(h[a])
  BY CurrentSlots
<1>2. /\ a \in DOMAIN h /\ p \in DOMAIN h /\ p = h[a].slots[at[2]]
      /\ at[2] \in DOMAIN h[a].slots
  BY <1>1, BufferOf DEF Slot
<1>3. a \in R /\ R \subseteq DOMAIN h
  BY <1>1, ReachedTree DEF Tree
<1>4. p # 1 /\ p \in R
  BY <1>2, <1>3 DEF Tree, Null
<1>5. p # a
  BY <1>1, NoSelf
<1>6. /\ N \notin DOMAIN h /\ N # 0 /\ N \in DOMAIN g
      /\ g[N].live /\ InUse(h[p]) \subseteq InUse(g[N])
      /\ \A i \in InUse(h[p]) : g[N].slots[i] = h[p].slots[i]
      /\ \A b \in DOMAIN h :
           /\ g[b].live <=> h[b].live
           /\ InUse(g[b]) = InUse(h[b])
           /\ \A i \in InUse(h[b]) :
                g[b].slots[i] = IF b = a /\ i = at[2] THEN N ELSE h[b].slots[i]
  <2>1. Len(h) \in Nat
    BY DEF WellTyped
  <2>2. QED
    BY <2>1 DEF Regrown
<1>7. p \in Below(h[a]) /\ N \in Below(g[a])
  BY <1>1, <1>2, <1>6 DEF Below, Null
<1>8. Below(h[p]) \subseteq Below(g[N])
  BY <1>6 DEF Below
<1>9. ASSUME NEW b \in R, NEW i \in InUse(h[b]), h[b].slots[i] = p
      PROVE  b = a /\ i = at[2]
  <2>1. i \in DOMAIN h[b].slots
    BY <1>3, RoomInside
  <2>2. QED
    BY <1>2, <1>3, <1>9, <2>1 DEF Tree
<1>10. p \notin Below(h[p])
  BY <1>4, <1>5, <1>9 DEF Below
<1>11. ASSUME NEW b \in DOMAIN h
       PROVE  /\ Below(h[b]) \subseteq Below(g[b]) \cup {p}
              /\ b # a => Below(h[b]) \subseteq Below(g[b])
              /\ Below(g[b]) \subseteq Below(h[b]) \cup {N}
  BY <1>2, <1>6 DEF Below
<1>12. ASSUME NEW b \in R, p \in Below(g[b])
       PROVE  FALSE
  <2>1. PICK i \in InUse(h[b]) : g[b].slots[i] = p
    BY <1>3, <1>6, <1>12 DEF Below
  <2>2. ~(b = a /\ i = at[2]) /\ h[b].slots[i] = p
    BY <1>2, <1>3, <1>6, <2>1
  <2>3. QED
    BY <1>9, <2>2
<1>13. ASSUME NEW b \in DOMAIN g \ DOMAIN h
       PROVE  Below(g[b]) \subseteq Below(h[p]) \cup (DOMAIN g \ DOMAIN h)
  <2>1. CASE b = N
    BY <1>6, <2>1 DEF Below, Regrown
  <2>2. CASE b # N
    BY <2>2 DEF Below, Regrown
  <2>3. QED
    BY <2>1, <2>2
<1>14. QED
  BY <1>2, <1>4, <1>7, <1>8, <1>10, <1>11, <1>12, <1>13

LEMMA RegrownReaches ==
  ASSUME NEW h, WellTyped(h), NEW R, Tree(h, R), NEW at \in CurrentOf(h),
         Slot(h, at) # Null, h[Slot(h, at)].live,
         SlotType(h, at).kind \in {"array", "object"},
         NEW g, WellTyped(g), Regrown(h, g, at)
  PROVE  Reached(h) \ Reached(g) = {Slot(h, at)}
<1> DEFINE p == Slot(h, at)
           a == at[1]
           N == Len(h) + 1
           new == DOMAIN g \ DOMAIN h
<1>1. /\ p \in DOMAIN h /\ p # 1 /\ p \in Below(h[a]) /\ N \in Below(g[a])
      /\ Below(h[p]) \subseteq Below(g[N]) /\ p \notin Below(h[p])
      /\ \A b \in DOMAIN h :
           /\ Below(h[b]) \subseteq Below(g[b]) \cup {p}
           /\ b # a => Below(h[b]) \subseteq Below(g[b])
           /\ Below(g[b]) \subseteq Below(h[b]) \cup {N}
           /\ b \in R => p \notin Below(g[b])
      /\ \A b \in new : Below(g[b]) \subseteq Below(h[p]) \cup new
  BY RegrownBelow
<1>2. a \in Reached(h)
  BY CurrentSlots
<1>3. /\ 1 \in Reached(h) /\ Reached(h) \subseteq DOMAIN h
      /\ \A b \in Reached(h) : Below(h[b]) \subseteq Reached(h)
      /\ 1 \in Reached(g) /\ Reached(g) \subseteq DOMAIN g
      /\ \A b \in Reached(g) : Below(g[b]) \subseteq Reached(g)
      /\ \A b \in DOMAIN h : Below(h[b]) \subseteq DOMAIN h
  BY Reaching, BelowInside
<1>4. DOMAIN h \subseteq DOMAIN g /\ N \in new
  BY DEF Regrown
<1> HIDE DEF p, a, N
<1>5. a \in Reached(g)
  <2>1. SUFFICES ASSUME a \notin Reached(g) PROVE FALSE
    OBVIOUS
  <2> DEFINE S == Reached(g) \cap DOMAIN h
  <2>2. S \in SUBSET DOMAIN h /\ 1 \in S /\ a \notin S
    BY <1>3, <2>1
  <2>3. \A b \in S : Below(h[b]) \subseteq S
    BY <1>1, <1>3, <2>1
  <2>4. Reached(h) \subseteq S
    BY <2>2, <2>3, ReachedInside
  <2>5. QED
    BY <1>2, <2>2, <2>4
<1>6. Reached(h) \subseteq Reached(g) \cup {p}
  <2> DEFINE S == (Reached(g) \cap DOMAIN h) \cup {p}
  <2>1. S \in SUBSET DOMAIN h /\ 1 \in S
    BY <1>1, <1>3
  <2>2. Below(h[p]) \subseteq S
    BY <1>1, <1>3, <1>5
  <2>3. \A b \in S : Below(h[b]) \subseteq S
    BY <1>1, <1>3, <2>2
  <2>4. Reached(h) \subseteq S
    BY <2>1, <2>3, ReachedInside
  <2>5. QED
    BY <2>4
<1>7. p \notin Reached(g)
  <2> DEFINE T == (Reached(h) \ {p}) \cup new
  <2>1. T \in SUBSET DOMAIN g /\ 1 \in T /\ p \notin T
    BY <1>1, <1>3, <1>4
  <2>2. p \in Reached(h) /\ Reached(h) \subseteq R
    BY <1>1, <1>2, <1>3, ReachedTree
  <2>3. \A b \in new : Below(g[b]) \subseteq T
    BY <1>1, <1>3, <2>2
  <2>4. \A b \in Reached(h) \ {p} : Below(g[b]) \subseteq T
    BY <1>1, <1>3, <1>4, <2>2
  <2>5. Reached(g) \subseteq T
    BY <2>1, <2>3, <2>4, ReachedInside
  <2>6. QED
    BY <2>1, <2>5
<1>8. p \in Reached(h)
  BY <1>1, <1>2, <1>3
<1>9. QED
  BY <1>6, <1>7, <1>8 DEF p

\* The heap f that is left when the buffer that was hung below the slot gets
\* one more element, which may lead to blocks that f alone has.
Filled(h, g, f) ==
  LET N == Len(h) + 1
      new == DOMAIN f \ DOMAIN h
  IN  /\ DOMAIN g \subseteq DOMAIN f
      /\ \A b \in DOMAIN h :
           /\ f[b].live <=> g[b].live
           /\ InUse(f[b]) = InUse(g[b])
           /\ \A i \in InUse(g[b]) : f[b].slots[i] = g[b].slots[i]
      /\ f[N].live <=> g[N].live
      /\ InUse(g[N]) \subseteq InUse(f[N])
      /\ \A i \in InUse(g[N]) : f[N].slots[i] = g[N].slots[i]
      /\ \A i \in InUse(f[N]) \ InUse(g[N]) : f[N].slots[i] \in {Null} \cup new
      /\ \A b \in DOMAIN f \ DOMAIN g : \A i \in InUse(f[b]) : f[b].slots[i] \in {Null} \cup new

LEMMA Regrowing ==
  ASSUME NEW h, WellTyped(h), NEW at \in AllSlots(h), Slot(h, at) # Null,
         SlotType(h, at).kind \in {"array", "object"},
         NEW g, WellTyped(g),
         Attaches(h, g, at, g[Len(h) + 1]), Copied(h, at, g[Len(h) + 1]),
         NEW f, Filled(h, g, f)
  PROVE  Regrown(h, f, at)
<1> DEFINE p == Slot(h, at)
           N == Len(h) + 1
           new == DOMAIN f \ DOMAIN h
<1>1. /\ DOMAIN g = DOMAIN h \cup {N} /\ N \notin DOMAIN h
      /\ \A b \in DOMAIN h :
           /\ g[b].live = h[b].live /\ g[b].size = h[b].size /\ g[b].of = h[b].of
           /\ DOMAIN g[b].slots = DOMAIN h[b].slots
           /\ \A i \in DOMAIN h[b].slots :
                g[b].slots[i] = IF b = at[1] /\ i = at[2] THEN N ELSE h[b].slots[i]
  BY DEF Attaches, Kept
<1>2. /\ DOMAIN g \subseteq DOMAIN f
      /\ \A b \in DOMAIN h :
           /\ f[b].live <=> g[b].live
           /\ InUse(f[b]) = InUse(g[b])
           /\ \A i \in InUse(g[b]) : f[b].slots[i] = g[b].slots[i]
      /\ f[N].live <=> g[N].live
      /\ InUse(g[N]) \subseteq InUse(f[N])
      /\ \A i \in InUse(g[N]) : f[N].slots[i] = g[N].slots[i]
      /\ \A i \in InUse(f[N]) \ InUse(g[N]) : f[N].slots[i] \in {Null} \cup new
      /\ \A b \in DOMAIN f \ DOMAIN g : \A i \in InUse(f[b]) : f[b].slots[i] \in {Null} \cup new
  BY DEF Filled
<1>3. /\ p \in DOMAIN h /\ g[N].live = TRUE
      /\ InUse(g[N]) = InUse(h[p])
      /\ \A i \in DOMAIN g[N].slots :
           g[N].slots[i] = IF p # Null /\ i \in InUse(h[p]) THEN h[p].slots[i] ELSE Null
  BY BufferOf DEF Copied
<1>4. InUse(h[p]) \subseteq DOMAIN g[N].slots
  BY <1>1, <1>3, RoomInside
<1>5. ASSUME NEW b \in DOMAIN h
      PROVE  /\ f[b].live <=> h[b].live
             /\ InUse(f[b]) = InUse(h[b])
             /\ \A i \in InUse(h[b]) :
                  f[b].slots[i] = IF b = at[1] /\ i = at[2] THEN N ELSE h[b].slots[i]
  <2>1. InUse(g[b]) = InUse(h[b])
    BY <1>1 DEF InUse
  <2>2. InUse(h[b]) \subseteq DOMAIN h[b].slots
    BY RoomInside
  <2>3. QED
    BY <1>1, <1>2, <2>1, <2>2
<1>6. \A i \in InUse(h[p]) : f[N].slots[i] = h[p].slots[i]
  BY <1>2, <1>3, <1>4
<1>7. QED
  BY <1>1, <1>2, <1>3, <1>5, <1>6 DEF Regrown

\* What GrowKeepsContents says of a step from h to g.
ContentsKept(h, g) ==
  \A x \in CurrentOf(h) :
    LET p == Slot(h, x)
        q == Slot(g, x)
    IN  p # Null /\ q # p /\ h[p].kind # "text" /\ h[p].size <= g[q].size
          => Reached(h) \ Reached(g) = {p}

\* A slot in use leads elsewhere only if it is the one the call was made on.
OnlyAt(h, g, at) ==
  \A b \in DOMAIN h : \A i \in InUse(h[b]) :
    g[b].slots[i] = h[b].slots[i] \/ (b = at[1] /\ i = at[2])

LEMMA OnlyThere ==
  ASSUME NEW h, WellTyped(h), NEW at \in AllSlots(h), NEW g, OnlyAt(h, g, at),
         NEW x \in CurrentOf(h), Slot(g, x) # Slot(h, x)
  PROVE  x = at
<1>1. /\ x \in AllSlots(h) /\ x[1] \in DOMAIN h /\ x[2] \in InUse(h[x[1]])
      /\ x = <<x[1], x[2]>> /\ at = <<at[1], at[2]>>
  BY CurrentSlots DEF AllSlots
<1>2. x[1] = at[1] /\ x[2] = at[2]
  BY <1>1 DEF OnlyAt, Slot
<1>3. QED
  BY <1>1, <1>2

LEMMA FilledKeeps ==
  ASSUME NEW h, WellTyped(h), NEW R, Tree(h, R), NEW at \in AllSlots(h),
         Slot(h, at) # Null => h[Slot(h, at)].live,
         SlotType(h, at).kind \in {"array", "object"},
         NEW g, WellTyped(g),
         Attaches(h, g, at, g[Len(h) + 1]), Copied(h, at, g[Len(h) + 1]),
         NEW f, WellTyped(f), Filled(h, g, f)
  PROVE  ContentsKept(h, f)
<1>1. OnlyAt(h, f, at)
  <2>1. ASSUME NEW b \in DOMAIN h, NEW i \in InUse(h[b])
        PROVE  f[b].slots[i] = h[b].slots[i] \/ (b = at[1] /\ i = at[2])
    <3>1. i \in DOMAIN h[b].slots
      BY RoomInside
    <3>2. InUse(g[b]) = InUse(h[b])
      BY DEF Attaches, Kept, InUse
    <3>3. f[b].slots[i] = g[b].slots[i]
      BY <3>2 DEF Filled
    <3>4. QED
      BY <3>1, <3>3 DEF Attaches
  <2>2. QED
    BY <2>1 DEF OnlyAt
<1>2. ASSUME NEW x \in CurrentOf(h), Slot(h, x) # Null, Slot(f, x) # Slot(h, x)
      PROVE  Reached(h) \ Reached(f) = {Slot(h, x)}
  <2>1. x = at
    BY <1>1, <1>2, OnlyThere
  <2>2. at \in CurrentOf(h) /\ Slot(h, at) # Null
    BY <1>2, <2>1
  <2>3. Regrown(h, f, at)
    BY <2>2, Regrowing
  <2>4. Reached(h) \ Reached(f) = {Slot(h, at)}
    BY <2>2, <2>3, RegrownReaches
  <2>5. QED
    BY <2>1, <2>4
<1>3. QED
  BY <1>2 DEF ContentsKept

LEMMA GrownItself ==
  ASSUME NEW h, NEW g
  PROVE  Filled(h, g, g)
BY DEF Filled

\* One more element in use.
LEMMA EnlargedUse ==
  ASSUME NEW h, WellTyped(h), NEW at \in AllSlots(h),
         SlotType(h, at).kind \in {"array", "object"},
         Slot(h, at) # Null, h[Slot(h, at)].size + 1 <= Cap(h[Slot(h, at)])
  PROVE  LET g == Enlarged(h, at) IN
         /\ WellTyped(g) /\ DOMAIN g = DOMAIN h /\ Len(g) = Len(h)
         /\ \A b \in DOMAIN h :
              /\ g[b].live = h[b].live /\ g[b].slots = h[b].slots
              /\ b # Slot(h, at) => InUse(g[b]) = InUse(h[b])
              /\ InUse(h[b]) \subseteq InUse(g[b])
              /\ InUse(g[b]) \subseteq DOMAIN h[b].slots
<1> DEFINE g == Enlarged(h, at)
           p == Slot(h, at)
<1>1. /\ WellTyped(g) /\ Kept(h, g) /\ DOMAIN g = DOMAIN h /\ Len(g) = Len(h)
      /\ \A b \in DOMAIN h :
           /\ g[b].size = IF b = p THEN h[p].size + 1 ELSE h[b].size
           /\ g[b].live = h[b].live /\ g[b].slots = h[b].slots
  BY EnlargeSound
<1> HIDE DEF g
<1>2. ASSUME NEW b \in DOMAIN h
      PROVE  /\ b # p => InUse(g[b]) = InUse(h[b])
             /\ InUse(h[b]) \subseteq InUse(g[b])
             /\ InUse(g[b]) \subseteq DOMAIN h[b].slots
  <2>1. g[b].of = h[b].of
    BY <1>1 DEF Kept
  <2>2. InUse(g[b]) \subseteq DOMAIN h[b].slots
    BY <1>1, RoomInside
  <2>3. b # p => InUse(g[b]) = InUse(h[b])
    BY <1>1, <2>1 DEF InUse
  <2>4. InUse(h[b]) \subseteq InUse(g[b])
    <3>1. CASE b # p
      BY <2>3, <3>1
    <3>2. CASE b = p
      <4>1. h[p].size \in Nat /\ Len(h[p].of) \in Nat /\ g[p].size = h[p].size + 1
        BY <1>1, <3>2, RoomInside
      <4>2. \A s, m \in Nat : s * m \in Nat /\ (s + 1) * m \in Nat /\ s * m <= (s + 1) * m
        OBVIOUS
      <4>3. \A k, l \in Nat : k <= l => 1 .. k \subseteq 1 .. l
        OBVIOUS
      <4>4. QED
        BY <2>1, <3>2, <4>1, <4>2, <4>3 DEF InUse
    <3>3. QED
      BY <3>1, <3>2
  <2>5. QED
    BY <2>2, <2>3, <2>4
<1>3. QED
  BY <1>1, <1>2 DEF g

\* A call through the slot at reads blocks that are live, and the region is open.
LEMMA CallFacts ==
  ASSUME TeardownInv, NEW at \in AllSlots(heap), NEW k, CalledOn(at, k)
  PROVE  /\ WellTyped(heap) /\ SlotType(heap, at).kind = k
         /\ Slot(heap, at) # Null => heap[Slot(heap, at)].live
         /\ \E R \in SUBSET DOMAIN heap : Tree(heap, R)
BY DEF CalledOn, Alive, TeardownInv, OpenHeap

LEMMA SetTextKeeps ==
  ASSUME TeardownInv, NEW at \in AllSlots(heap), SetText(at)
  PROVE  ContentsKept(heap, heap')
<1>1. WellTyped(heap) /\ SlotType(heap, at).kind = "string"
  BY CallFacts DEF SetText
<1>2. Leads(SlotType(heap, at), Text) /\ Fresh(heap, Text)
  BY <1>1, TextType DEF Leads, Text, Block
<1>3. heap' = Point(Allocate(heap, Text), at, Len(heap) + 1)
  BY DEF SetText
<1>4. Attaches(heap, heap', at, Text)
  BY <1>1, <1>2, <1>3, Attaching
<1>5. OnlyAt(heap, heap', at)
  BY <1>1, <1>4, RoomInside DEF OnlyAt, Attaches
<1>6. ASSUME NEW x \in CurrentOf(heap), Slot(heap, x) # Null, Slot(heap', x) # Slot(heap, x)
      PROVE  heap[Slot(heap, x)].kind = "text"
  <2>1. x = at
    BY <1>1, <1>5, <1>6, OnlyThere
  <2>2. QED
    BY <1>1, <1>6, <2>1, BufferOf
<1>7. QED
  BY <1>6 DEF ContentsKept

LEMMA ReserveKeeps ==
  ASSUME TeardownInv, NEW at \in AllSlots(heap), NEW c \in 1 .. MaxCap, Reserve(at, c)
  PROVE  ContentsKept(heap, heap')
<1>1. /\ WellTyped(heap) /\ SlotType(heap, at).kind = "array"
      /\ Slot(heap, at) # Null => heap[Slot(heap, at)].live
      /\ \E R \in SUBSET DOMAIN heap : Tree(heap, R)
  BY CallFacts DEF Reserve
<1>2. c \in Nat
  BY ConstantsAssumption
<1>3. Slot(heap, at) # Null => heap[Slot(heap, at)].size <= c
  <2>1. ASSUME Slot(heap, at) # Null
        PROVE  /\ heap[Slot(heap, at)].size \in Nat /\ Cap(heap[Slot(heap, at)]) \in Nat
               /\ heap[Slot(heap, at)].size <= Cap(heap[Slot(heap, at)])
    BY <1>1, <2>1, BufferOf, RoomInside
  <2>2. QED
    BY <1>2, <2>1 DEF Reserve
<1>4. heap' = Grown(heap, at, c)
  BY DEF Reserve
<1>5. /\ WellTyped(heap') /\ Attaches(heap, heap', at, heap'[Len(heap) + 1])
      /\ Copied(heap, at, heap'[Len(heap) + 1])
  BY <1>1, <1>2, <1>3, <1>4, Growing
<1>6. QED
  BY <1>1, <1>5, GrownItself, FilledKeeps

\* What prepare_push leaves.
LEMMA PreparedKeeps ==
  ASSUME NEW h, WellTyped(h), NEW at \in AllSlots(h), SlotType(h, at).kind = "array",
         NEW f \in Prepared(h, at)
  PROVE  \/ Len(f) = Len(h)
         \/ \E g : /\ WellTyped(g) /\ Attaches(h, g, at, g[Len(h) + 1])
                   /\ Copied(h, at, g[Len(h) + 1]) /\ Filled(h, g, f)
                   /\ Slot(f, at) = Len(h) + 1
                   /\ DOMAIN f = DOMAIN g /\ f[Len(h) + 1].of = g[Len(h) + 1].of
                   /\ \A i \in DOMAIN f[Len(h) + 1].slots \ InUse(g[Len(h) + 1]) :
                        f[Len(h) + 1].slots[i] = Null
                   /\ InUse(f[Len(h) + 1]) = InUse(g[Len(h) + 1])
<1> DEFINE N == Len(h) + 1
<1>1. PICK g \in Room(h, at) :
        LET p == Slot(g, at) IN
        /\ p \in DOMAIN g /\ Slot(f, at) = p
        /\ DOMAIN f = DOMAIN g /\ Len(f) = Len(g)
        /\ \A b \in DOMAIN g :
             /\ f[b].live = g[b].live /\ f[b].size = g[b].size
             /\ f[b].of = g[b].of
             /\ DOMAIN f[b].slots = DOMAIN g[b].slots
             /\ \A i \in DOMAIN g[b].slots :
                  \/ f[b].slots[i] = g[b].slots[i]
                  \/ b = p /\ i \notin InUse(g[p]) /\ f[b].slots[i] = Null
  BY Preparing
<1>2. /\ WellTyped(g)
      /\ \/ g = h
         \/ Slot(g, at) = N /\ Attaches(h, g, at, g[N]) /\ Copied(h, at, g[N])
  BY MakingRoom
<1>3. CASE g = h
  BY <1>1, <1>3
<1>4. CASE Slot(g, at) = N /\ Attaches(h, g, at, g[N]) /\ Copied(h, at, g[N])
  <2>1. DOMAIN g = DOMAIN h \cup {N}
    BY <1>4 DEF Attaches
  <2>2. ASSUME NEW b \in DOMAIN g
        PROVE  /\ f[b].live = g[b].live /\ f[b].of = g[b].of
               /\ InUse(f[b]) = InUse(g[b]) /\ InUse(g[b]) \subseteq DOMAIN g[b].slots
               /\ \A i \in InUse(g[b]) : f[b].slots[i] = g[b].slots[i]
    BY <1>1, <1>2, RoomInside DEF InUse
  <2>3. Filled(h, g, f)
    BY <1>1, <2>1, <2>2 DEF Filled
  <2>4. ASSUME NEW i \in DOMAIN f[N].slots \ InUse(g[N])
        PROVE  f[N].slots[i] = Null
    <3>1. g[N].slots[i] = Null
      BY <1>1, <1>4, <2>1, <2>4 DEF Copied
    <3>2. QED
      BY <1>1, <2>1, <2>4, <3>1
  <2>5. QED
    BY <1>1, <1>2, <1>4, <2>1, <2>2, <2>3, <2>4
<1>5. QED
  BY <1>2, <1>3, <1>4

LEMMA PreparePushKeeps ==
  ASSUME TeardownInv, NEW at \in AllSlots(heap), PreparePush(at),
         Len(heap) < Len(heap')
  PROVE  ContentsKept(heap, heap')
<1>1. /\ WellTyped(heap) /\ SlotType(heap, at).kind = "array"
      /\ Slot(heap, at) # Null => heap[Slot(heap, at)].live
      /\ \E R \in SUBSET DOMAIN heap : Tree(heap, R)
  BY CallFacts DEF PreparePush
<1>2. heap' \in Prepared(heap, at)
  BY DEF PreparePush
<1>3. Len(heap') # Len(heap)
  <2>1. Len(heap) \in Nat
    BY <1>1 DEF WellTyped
  <2>2. QED
    BY <2>1
<1>4. WellTyped(heap')
  BY <1>1, <1>2, Preparing
<1>5. QED
  BY <1>1, <1>2, <1>3, <1>4, PreparedKeeps, FilledKeeps

LEMMA PushBackKeeps ==
  ASSUME TeardownInv, NEW at \in AllSlots(heap), PushBack(at), Len(heap) < Len(heap')
  PROVE  ContentsKept(heap, heap')
<1> DEFINE N == Len(heap) + 1
<1>1. /\ WellTyped(heap) /\ SlotType(heap, at).kind = "array"
      /\ Slot(heap, at) # Null => heap[Slot(heap, at)].live
      /\ \E R \in SUBSET DOMAIN heap : Tree(heap, R)
  BY CallFacts DEF PushBack
<1>2. PICK f \in Prepared(heap, at) : heap' = Enlarged(f, at)
  BY DEF PushBack
<1>3. /\ WellTyped(f) /\ Kept(heap, f)
      /\ Slot(f, at) # Null /\ f[Slot(f, at)].size + 1 <= Cap(f[Slot(f, at)])
  BY <1>1, Preparing
<1>4. at \in AllSlots(f) /\ SlotType(f, at).kind = "array"
  BY <1>1, <1>3, SlotsKept, TypeKept DEF WellTyped
<1>5. /\ WellTyped(heap') /\ DOMAIN heap' = DOMAIN f /\ Len(heap') = Len(f)
      /\ \A b \in DOMAIN f :
           /\ heap'[b].live = f[b].live /\ heap'[b].slots = f[b].slots
           /\ b # Slot(f, at) => InUse(heap'[b]) = InUse(f[b])
           /\ InUse(f[b]) \subseteq InUse(heap'[b])
           /\ InUse(heap'[b]) \subseteq DOMAIN f[b].slots
  BY <1>2, <1>3, <1>4, EnlargedUse
<1>6. Len(f) # Len(heap)
  <2>1. Len(heap) \in Nat
    BY <1>1 DEF WellTyped
  <2>2. QED
    BY <1>5, <2>1
<1>7. PICK g : /\ WellTyped(g) /\ Attaches(heap, g, at, g[N])
               /\ Copied(heap, at, g[N]) /\ Filled(heap, g, f)
               /\ Slot(f, at) = N
               /\ DOMAIN f = DOMAIN g /\ f[N].of = g[N].of
               /\ \A i \in DOMAIN f[N].slots \ InUse(g[N]) : f[N].slots[i] = Null
               /\ InUse(f[N]) = InUse(g[N])
  BY <1>1, <1>6, PreparedKeeps
<1>8. DOMAIN g = DOMAIN heap \cup {N} /\ N \notin DOMAIN heap
  BY <1>7 DEF Attaches
<1>9. ASSUME NEW b \in DOMAIN heap
      PROVE  /\ heap'[b].live <=> g[b].live
             /\ InUse(heap'[b]) = InUse(g[b])
             /\ \A i \in InUse(g[b]) : heap'[b].slots[i] = g[b].slots[i]
  BY <1>5, <1>7, <1>8 DEF Filled
<1>10. /\ heap'[N].live <=> g[N].live
       /\ InUse(g[N]) \subseteq InUse(heap'[N])
       /\ \A i \in InUse(g[N]) : heap'[N].slots[i] = g[N].slots[i]
       /\ \A i \in InUse(heap'[N]) \ InUse(g[N]) : heap'[N].slots[i] = Null
  BY <1>5, <1>7, <1>8 DEF Filled
<1>11. Filled(heap, g, heap')
  BY <1>5, <1>7, <1>9, <1>10 DEF Filled
<1>12. QED
  BY <1>1, <1>5, <1>7, <1>11, FilledKeeps

LEMMA AddFieldKeeps ==
  ASSUME TeardownInv, NEW at \in AllSlots(heap), NEW n \in Names, NEW t \in FieldTypes,
         AddField(at, n, t)
  PROVE  ContentsKept(heap, heap')
<1>1. /\ WellTyped(heap) /\ SlotType(heap, at).kind = "object"
      /\ Slot(heap, at) # Null => heap[Slot(heap, at)].live
      /\ \E R \in SUBSET DOMAIN heap : Tree(heap, R)
  BY CallFacts DEF AddField
<1>2. PICK h \in Room(heap, at), text \in {FALSE, t = String} :
        heap' = Added(h, at, n, t, text)
  BY DEF AddField, Added
<1> DEFINE N == Len(heap) + 1
           p == Slot(h, at)
           v == Len(h) + 1
           a == Allocate(h, NewValue(n, t))
           f == IF text THEN Point(Allocate(a, Text), <<v, 1>>, v + 1) ELSE a
           g == Point(f, Spare(h, at), v)
<1>3. /\ WellTyped(h) /\ Kept(heap, h)
      /\ p # Null /\ p \in DOMAIN h /\ h[p].size + 1 <= Cap(h[p])
      /\ \/ h = heap
         \/ p = N /\ Attaches(heap, h, at, h[N]) /\ Copied(heap, at, h[N])
  BY <1>1, <1>2, MakingRoom
<1>4. at \in AllSlots(h) /\ SlotType(h, at).kind = "object"
  BY <1>1, <1>3, SlotsKept, TypeKept DEF WellTyped
<1>5. WithValue(h, f, t)
  BY <1>2, <1>3, ValueMade
<1>6. heap' = Enlarged(g, at)
  BY <1>2 DEF Added
<1> HIDE DEF f
<1>7. /\ WellTyped(g) /\ Kept(h, g) /\ DOMAIN g = DOMAIN f
      /\ Spare(h, at)[1] = p /\ Spare(h, at)[2] \notin InUse(h[p])
      /\ Slot(g, at) = p /\ g[p].size + 1 <= Cap(g[p])
      /\ \A b \in DOMAIN f :
           /\ g[b].live = f[b].live /\ g[b].size = f[b].size
           /\ DOMAIN g[b].slots = DOMAIN f[b].slots
           /\ \A i \in DOMAIN f[b].slots :
                g[b].slots[i] = IF b = Spare(h, at)[1] /\ i = Spare(h, at)[2]
                                THEN v ELSE f[b].slots[i]
  BY <1>3, <1>4, <1>5, ValueHung
<1> HIDE DEF g
<1>8. at \in AllSlots(g) /\ SlotType(g, at).kind = "object"
  BY <1>3, <1>4, <1>7, SlotsKept, TypeKept DEF WellTyped
<1>b. Slot(g, at) # Null /\ g[Slot(g, at)].size + 1 <= Cap(g[Slot(g, at)])
  BY <1>3, <1>7
<1>c. /\ WellTyped(heap') /\ DOMAIN heap' = DOMAIN g
      /\ \A b \in DOMAIN g :
           /\ heap'[b].live = g[b].live /\ heap'[b].slots = g[b].slots
           /\ b # Slot(g, at) => InUse(heap'[b]) = InUse(g[b])
           /\ InUse(g[b]) \subseteq InUse(heap'[b])
           /\ InUse(heap'[b]) \subseteq DOMAIN g[b].slots
  BY <1>6, <1>7, <1>8, <1>b, EnlargedUse
<1>9. /\ WellTyped(heap') /\ DOMAIN heap' = DOMAIN g
      /\ \A b \in DOMAIN g :
           /\ heap'[b].live = g[b].live /\ heap'[b].slots = g[b].slots
           /\ b # p => InUse(heap'[b]) = InUse(g[b])
           /\ InUse(g[b]) \subseteq InUse(heap'[b])
           /\ InUse(heap'[b]) \subseteq DOMAIN g[b].slots
  BY <1>7, <1>c
<1>10. /\ v \notin DOMAIN h /\ v \in DOMAIN f /\ DOMAIN h \subseteq DOMAIN f
       /\ DOMAIN f \subseteq DOMAIN h \cup {v, v + 1}
       /\ \A b \in DOMAIN h : f[b] = h[b]
       /\ DOMAIN f[v].slots = {1}
       /\ f[v].slots[1] \in ({v + 1} \cap DOMAIN f) \cup {Null}
       /\ v + 1 \in DOMAIN f => f[v + 1].slots = <<>>
  BY <1>5 DEF WithValue, Text, Block
<1>a. v + 1 \notin DOMAIN h
  BY <1>3 DEF WellTyped
<1> HIDE DEF v
<1>11. ASSUME NEW b \in DOMAIN h
       PROVE  /\ heap'[b].live = h[b].live
              /\ b # p => InUse(heap'[b]) = InUse(h[b])
              /\ InUse(h[b]) \subseteq InUse(heap'[b])
              /\ InUse(heap'[b]) \subseteq DOMAIN h[b].slots
              /\ \A i \in InUse(h[b]) : heap'[b].slots[i] = h[b].slots[i]
              /\ \A i \in InUse(heap'[b]) : heap'[b].slots[i] \in {v, h[b].slots[i]}
  <2>1. b \in DOMAIN f /\ b \in DOMAIN g /\ f[b] = h[b]
    BY <1>7, <1>10
  <2>2. InUse(g[b]) = InUse(h[b]) /\ InUse(h[b]) \subseteq DOMAIN h[b].slots
    BY <1>3, <1>7, <2>1, RoomInside, SMTT(60) DEF Kept, InUse
  <2>3. \A i \in DOMAIN h[b].slots : heap'[b].slots[i] \in {v, h[b].slots[i]}
    BY <1>7, <1>9, <2>1
  <2>4. \A i \in InUse(h[b]) : heap'[b].slots[i] = h[b].slots[i]
    BY <1>7, <1>9, <2>1, <2>2
  <2>5. InUse(heap'[b]) \subseteq DOMAIN h[b].slots
    BY <1>7, <1>9, <2>1
  <2>6. QED
    BY <1>7, <1>9, <2>1, <2>2, <2>3, <2>4, <2>5
<1>12. CASE h = heap
  <2>1. OnlyAt(heap, heap', at)
    BY <1>11, <1>12 DEF OnlyAt
  <2>2. ASSUME NEW x \in CurrentOf(heap), Slot(heap', x) # Slot(heap, x)
        PROVE  FALSE
    <3>1. x[1] \in Reached(heap) /\ x[2] \in InUse(heap[x[1]])
      BY <1>1, CurrentSlots
    <3>2. x[1] \in DOMAIN heap
      BY <1>1, <3>1, Reaching
    <3>3. QED
      BY <1>11, <1>12, <2>2, <3>1, <3>2 DEF Slot
  <2>3. QED
    BY <2>2 DEF ContentsKept
<1>13. CASE p = N /\ Attaches(heap, h, at, h[N]) /\ Copied(heap, at, h[N])
  <2> DEFINE new == DOMAIN heap' \ DOMAIN heap
  <2>1. DOMAIN h = DOMAIN heap \cup {N} /\ N \notin DOMAIN heap
    BY <1>13 DEF Attaches
  <2>2. DOMAIN heap' = DOMAIN f /\ DOMAIN h \subseteq DOMAIN heap' /\ v \in new
    BY <1>7, <1>9, <1>10, <2>1
  <2>3. \A b \in DOMAIN heap :
          /\ heap'[b].live <=> h[b].live
          /\ InUse(heap'[b]) = InUse(h[b])
          /\ \A i \in InUse(h[b]) : heap'[b].slots[i] = h[b].slots[i]
    BY <1>11, <1>13, <2>1
  <2>4. \A i \in DOMAIN h[N].slots \ InUse(h[N]) : h[N].slots[i] = Null
    BY <1>13 DEF Copied
  <2>5. /\ heap'[N].live <=> h[N].live
        /\ InUse(h[N]) \subseteq InUse(heap'[N])
        /\ \A i \in InUse(h[N]) : heap'[N].slots[i] = h[N].slots[i]
        /\ \A i \in InUse(heap'[N]) \ InUse(h[N]) : heap'[N].slots[i] \in {Null} \cup new
    BY <1>11, <2>1, <2>2, <2>4
  <2>6. ASSUME NEW b \in DOMAIN heap' \ DOMAIN h, NEW i \in InUse(heap'[b])
        PROVE  heap'[b].slots[i] \in {Null} \cup new
    <3>1. b \in {v, v + 1} /\ b \in DOMAIN g /\ b # p /\ b \in DOMAIN f
      BY <1>3, <1>9, <1>10, <2>2, <2>6
    <3>2. i \in DOMAIN f[b].slots /\ heap'[b].slots[i] = f[b].slots[i]
      BY <1>7, <1>9, <2>6, <3>1
    <3>3. b = v /\ i = 1
      BY <1>10, <3>1, <3>2
    <3>4. v + 1 \in DOMAIN f => v + 1 \in new
      BY <1>a, <2>1, <2>2
    <3>5. QED
      BY <1>10, <3>2, <3>3, <3>4
  <2>7. Filled(heap, h, heap')
    BY <2>2, <2>3, <2>5, <2>6 DEF Filled
  <2>8. QED
    BY <1>1, <1>3, <1>9, <1>13, <2>7, FilledKeeps
<1>14. QED
  BY <1>3, <1>12, <1>13

LEMMA RemoveFieldKeeps ==
  ASSUME TeardownInv, NEW at \in AllSlots(heap), NEW i, RemoveField(at, i),
         Len(heap) < Len(heap')
  PROVE  ContentsKept(heap, heap')
<1> DEFINE p == Slot(heap, at)
           N == Len(heap) + 1
           b == Tight(heap, at, i)
<1>1. WellTyped(heap) /\ SlotType(heap, at).kind = "object" /\ i \in Fields(heap, at)
  BY CallFacts DEF RemoveField
<1>2. \/ heap' = Point(heap, at, Null)
      \/ heap' = Point(Allocate(heap, b), at, N)
  BY DEF RemoveField, Tight, Rest
<1>3. /\ p \in DOMAIN heap /\ heap[p].size \in Nat
      /\ Fresh(heap, b) /\ b.kind = "object" /\ b.size = heap[p].size - 1
  BY <1>1, TightFresh
<1>4. CASE heap' = Point(heap, at, Null)
  <2>1. Len(heap') = Len(heap) /\ Len(heap) \in Nat
    BY <1>1, <1>4, Pointing DEF WellTyped, Null
  <2>2. QED
    BY <2>1
<1>5. CASE heap' = Point(Allocate(heap, b), at, N)
  <2>1. Leads(SlotType(heap, at), b)
    BY <1>1, <1>3 DEF Leads
  <2> HIDE DEF b
  <2>2. Attaches(heap, heap', at, b)
    BY <1>1, <1>3, <1>5, <2>1, Attaching
  <2>3. OnlyAt(heap, heap', at)
    BY <1>1, <2>2, RoomInside DEF OnlyAt, Attaches
  <2>4. Slot(heap', at) = N /\ heap'[N] = b
    BY <2>2 DEF Attaches, Slot, AllSlots
  <2>5. ~(heap[p].size <= heap'[Slot(heap', at)].size)
    BY <1>3, <2>4
  <2>6. QED
    BY <1>1, <2>3, <2>5, OnlyThere DEF ContentsKept
<1>6. QED
  BY <1>2, <1>4, <1>5

\* The other steps allocate nothing.
LEMMA SameLength ==
  ASSUME NEW h \in Seq(BlockType), NEW g \in Seq(BlockType), DOMAIN g = DOMAIN h
  PROVE  ~(Len(h) < Len(g))
OBVIOUS

LEMMA SmallCalls ==
  ASSUME TeardownInv, NEW at \in AllSlots(heap),
         ClearText(at) \/ CommitPush(at) \/ Clear(at) \/ Destroy(at)
  PROVE  ~(Len(heap) < Len(heap'))
<1>1. WellTyped(heap) /\ Len(heap) \in Nat
  BY DEF TeardownInv, WellTyped
<1>2. CASE ClearText(at)
  <2>1. Len(heap') = Len(heap)
    BY <1>1, <1>2, Pointing DEF ClearText, WellTyped, Null
  <2>2. QED
    BY <1>1, <2>1
<1>3. CASE CommitPush(at)
  <2>1. SlotType(heap, at).kind = "array" /\ Slot(heap, at) # Null
    BY <1>3 DEF CommitPush, CalledOn
  <2>2. Slot(heap, at) \in DOMAIN heap
    BY <1>1, <2>1, BufferOf
  <2>3. heap[Slot(heap, at)].size + 1 <= Cap(heap[Slot(heap, at)])
    <3>1. /\ heap[Slot(heap, at)].size \in Nat /\ Cap(heap[Slot(heap, at)]) \in Nat
      BY <1>1, <2>1, BufferOf, RoomInside
    <3>2. QED
      BY <1>3, <3>1 DEF CommitPush, Full
  <2>4. Len(heap') = Len(heap)
    BY <1>1, <1>3, <2>1, <2>3, EnlargeSound DEF CommitPush
  <2>5. QED
    BY <1>1, <2>4
<1>4. CASE Clear(at)
  <2>1. /\ SlotType(heap, at).kind = "array" /\ Slot(heap, at) # Null
        /\ heap' = [heap EXCEPT ![Slot(heap, at)].size = 0]
    BY <1>4 DEF Clear, CalledOn
  <2>2. Slot(heap, at) \in DOMAIN heap /\ heap[Slot(heap, at)].kind = "array"
    BY <1>1, <2>1, BufferOf
  <2>3. Len(heap') = Len(heap)
    BY <1>1, <2>1, <2>2, ClearSound
  <2>4. QED
    BY <1>1, <2>3
<1>5. CASE Destroy(at)
  <2>1. /\ SlotType(heap, at).kind = "array" /\ Slot(heap, at) # Null
        /\ heap' = Destroyed(heap, at) /\ Sound(heap, destroys)
    BY <1>5 DEF Destroy, CalledOn, TeardownInv, Sound
  <2>2. Len(heap') = Len(heap)
    BY <2>1, DestroySound
  <2>3. QED
    BY <1>1, <2>2
<1>6. QED
  BY <1>2, <1>3, <1>4, <1>5

LEMMA WalkSameLength ==
  ASSUME TeardownInv, fault = "none", WalkStep
  PROVE  ~(Len(heap) < Len(heap'))
<1>1. heap \in Seq(BlockType)
  BY DEF TeardownInv, WellTyped
<1>2. heap' \in Seq(BlockType)
  <2>1. TeardownInv'
    BY WalkKeeps
  <2>2. QED
    BY <2>1 DEF TeardownInv, WellTyped
<1>3. DOMAIN heap' = DOMAIN heap
  BY DEF WalkStep, DeallocateSlot, FreeOne, NullSlot, Point
<1>4. QED
  BY <1>1, <1>2, <1>3, SameLength

LEMMA CallsKeepContents ==
  ASSUME TeardownInv, Calls, Len(heap) < Len(heap')
  PROVE  ContentsKept(heap, heap')
<1>1. PICK at \in Callable :
        \/ SetText(at) \/ ClearText(at)
        \/ \E c \in 1 .. MaxCap : Reserve(at, c)
        \/ PreparePush(at) \/ CommitPush(at) \/ PushBack(at)
        \/ Clear(at) \/ Destroy(at)
        \/ \E n \in Names, t \in FieldTypes : AddField(at, n, t)
        \/ \E i \in 1 .. MaxCap : RemoveField(at, i)
        \/ UseDead(at)
  BY DEF Calls
<1>2. at \in AllSlots(heap)
  BY CallableSlots
<1>3. ~(ClearText(at) \/ CommitPush(at) \/ Clear(at) \/ Destroy(at))
  BY <1>2, SmallCalls
<1>4. ~UseDead(at)
  <2>1. Len(heap) \in Nat
    BY DEF TeardownInv, WellTyped
  <2>2. QED
    BY <2>1 DEF UseDead
<1>5. QED
  BY <1>1, <1>2, <1>3, <1>4, SetTextKeeps, ReserveKeeps, PreparePushKeeps,
     PushBackKeeps, AddFieldKeeps, RemoveFieldKeeps

LEMMA StepKeepsContents ==
  TeardownInv /\ [Next]_vars => (Len(heap) < Len(heap') => ContentsKept(heap, heap'))
<1> SUFFICES ASSUME TeardownInv, [Next]_vars, Len(heap) < Len(heap')
             PROVE  ContentsKept(heap, heap')
  OBVIOUS
<1>1. Len(heap) \in Nat
  BY DEF TeardownInv, WellTyped
<1>2. heap' # heap
  BY <1>1
<1>3. CASE Calls
  BY <1>3, CallsKeepContents
<1>4. CASE fault = "none" /\ WalkStep
  BY <1>4, WalkSameLength
<1>5. ~TakeView /\ (\A destructor : ~Free(destructor)) /\ ~Return /\ ~UNCHANGED vars
  BY <1>2 DEF TakeView, Free, Return, vars
<1>6. QED
  BY <1>3, <1>4, <1>5 DEF Next

\* When a buffer is replaced by a larger one, or by one as large, everything
\* below the region but that buffer stays below it (msm_allocator.cpp:284-300,
\* 598-630).
THEOREM GrowKeepsContentsCorrect == Spec => GrowKeepsContents
<1>1. TeardownInv /\ [Next]_vars =>
        [Len(heap) < Len(heap') =>
           \A at \in Current :
             LET p == Slot(heap, at)
                 q == Slot(heap', at)
             IN  p # Null /\ q # p /\ heap[p].kind # "text" /\ heap[p].size <= heap'[q].size
                   => Reached(heap) \ Reached(heap') = {p}]_vars
  BY StepKeepsContents DEF ContentsKept, Current
<1>2. QED
  BY <1>1, TeardownCorrect, PTL DEF Spec, GrowKeepsContents

=============================================================================
