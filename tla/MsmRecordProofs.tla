--------------------------- MODULE MsmRecordProofs ---------------------------
(* Theorems about MsmRecord, for any types, number of elements, bounds and   *)
(* readers.  What the compiler makes of a type is recursive, and TLAPS       *)
(* cannot compute it: the theorems take LayoutSound as a hypothesis on the   *)
(* initial state and prove what the writer and the readers make of it.       *)
EXTENDS MsmRecord, TLAPS

-----------------------------------------------------------------------------
(* The last write to a field, in any log *)

LastIn(l, f, n) ==
  LET writes == {i \in 1 .. n : l[i] = f}
  IN  IF writes = {} THEN 0 ELSE CHOOSE i \in writes : \A j \in writes : j <= i

IsLast(l, f, n, i) ==
  /\ i \in 1 .. n /\ l[i] = f
  /\ \A j \in 1 .. n : l[j] = f => j <= i

HasLast(l, f, n) ==
  (\A j \in 1 .. n : l[j] # f) \/ (\E i \in 1 .. n : IsLast(l, f, n, i))

\* Without a write to the field the answer is 0, the memory's first content.
LEMMA LastOfNone ==
  ASSUME NEW l, NEW f, NEW n \in Nat, \A j \in 1 .. n : l[j] # f
  PROVE  LastIn(l, f, n) = 0
<1>1. {i \in 1 .. n : l[i] = f} = {}
  OBVIOUS
<1> QED
  BY <1>1 DEF LastIn

\* The last write is the only one no write is after.
LEMMA LastOfSome ==
  ASSUME NEW l, NEW f, NEW n \in Nat, NEW i, IsLast(l, f, n, i)
  PROVE  LastIn(l, f, n) = i
<1> DEFINE W == {j \in 1 .. n : l[j] = f}
<1>1. i \in W /\ \A j \in W : j <= i
  BY DEF IsLast
<1>2. \A j \in W : (\A m \in W : m <= j) => j = i
  <2> SUFFICES ASSUME NEW j \in W, \A m \in W : m <= j PROVE j = i
    OBVIOUS
  <2>1. i <= j /\ j <= i /\ i \in Int /\ j \in Int
    BY <1>1
  <2> QED
    BY <2>1
<1>3. LastIn(l, f, n) = CHOOSE j \in W : \A m \in W : m <= j
  BY <1>1 DEF LastIn
<1> QED
  BY <1>1, <1>2, <1>3

\* What a write that has a last one tells about LastIn.
LEMMA LastFacts ==
  ASSUME NEW l, NEW f, NEW n \in Nat, HasLast(l, f, n)
  PROVE  /\ LastIn(l, f, n) \in 0 .. n
         /\ \A j \in 1 .. n : l[j] = f => j <= LastIn(l, f, n)
         /\ LastIn(l, f, n) # 0 => l[LastIn(l, f, n)] = f
<1>1. CASE \A j \in 1 .. n : l[j] # f
  BY <1>1, LastOfNone
<1>2. CASE \E i \in 1 .. n : IsLast(l, f, n, i)
  <2>1. PICK i \in 1 .. n : IsLast(l, f, n, i)
    BY <1>2
  <2>2. LastIn(l, f, n) = i
    BY <2>1, LastOfSome
  <2> QED
    BY <2>1, <2>2 DEF IsLast
<1> QED
  BY <1>1, <1>2 DEF HasLast

\* More of the log never has an older last write.
LEMMA LastGrows ==
  ASSUME NEW l, NEW f, NEW m \in Nat, NEW n \in Nat, m <= n,
         HasLast(l, f, m), HasLast(l, f, n)
  PROVE  LastIn(l, f, m) <= LastIn(l, f, n)
<1>1. LastIn(l, f, m) \in 0 .. m /\ LastIn(l, f, n) \in 0 .. n
  BY LastFacts
<1>2. CASE LastIn(l, f, m) = 0
  BY <1>1, <1>2
<1>3. CASE LastIn(l, f, m) # 0
  <2>1. l[LastIn(l, f, m)] = f
    BY <1>3, LastFacts
  <2>2. LastIn(l, f, m) \in 1 .. n
    BY <1>1, <1>3
  <2> QED
    BY <2>1, <2>2, LastFacts
<1> QED
  BY <1>2, <1>3

\* The last write within a prefix is a matter of the prefix.
LEMMA LastOfPrefix ==
  ASSUME NEW l, NEW k, NEW f, NEW n \in Nat, \A j \in 1 .. n : l[j] = k[j]
  PROVE  /\ LastIn(l, f, n) = LastIn(k, f, n)
         /\ HasLast(l, f, n) => HasLast(k, f, n)
<1>1. {i \in 1 .. n : l[i] = f} = {i \in 1 .. n : k[i] = f}
  OBVIOUS
<1> DEFINE Newest(w) == IF w = {} THEN 0 ELSE CHOOSE i \in w : \A j \in w : j <= i
<1>2. LastIn(l, f, n) = LastIn(k, f, n)
  <2>1. /\ LastIn(l, f, n) = Newest({i \in 1 .. n : l[i] = f})
        /\ LastIn(k, f, n) = Newest({i \in 1 .. n : k[i] = f})
    BY DEF LastIn
  <2> HIDE DEF Newest
  <2> QED
    BY <1>1, <2>1
<1>3. HasLast(l, f, n) => HasLast(k, f, n)
  BY DEF HasLast, IsLast
<1> QED
  BY <1>2, <1>3

\* A write is the last one to its field, and none to the others.
LEMMA LastOfAppend ==
  ASSUME NEW S, NEW l \in Seq(S), NEW g \in S, NEW f, HasLast(l, f, Len(l))
  PROVE  LET k == Append(l, g)  n == Len(l) + 1 IN
         /\ HasLast(k, f, n)
         /\ LastIn(k, f, n) = IF f = g THEN n ELSE LastIn(l, f, Len(l))
<1> DEFINE k == Append(l, g)
           n == Len(l) + 1
<1>1. /\ Len(l) \in Nat /\ n \in Nat /\ k[n] = g /\ n \in 1 .. n
      /\ \A j \in 1 .. Len(l) : k[j] = l[j]
      /\ \A j \in 1 .. n : j # n => j \in 1 .. Len(l)
      /\ \A j \in 1 .. Len(l) : j \in 1 .. n /\ j # n /\ j <= n
  OBVIOUS
<1> HIDE DEF k, n
<1>2. CASE f = g
  <2>1. n \in 1 .. n /\ IsLast(k, f, n, n)
    BY <1>1, <1>2 DEF IsLast
  <2>2. LastIn(k, f, n) = n
    BY <1>1, <2>1, LastOfSome
  <2> QED
    BY <1>2, <2>1, <2>2 DEF HasLast, k, n
<1>3. CASE f # g
  <2>1. CASE \A j \in 1 .. Len(l) : l[j] # f
    <3>1. \A j \in 1 .. n : k[j] # f
      BY <1>1, <1>3, <2>1
    <3>2. LastIn(k, f, n) = 0 /\ LastIn(l, f, Len(l)) = 0
      BY <1>1, <2>1, <3>1, LastOfNone
    <3> QED
      BY <1>3, <3>1, <3>2 DEF HasLast, k, n
  <2>2. CASE \E i \in 1 .. Len(l) : IsLast(l, f, Len(l), i)
    <3>1. PICK i \in 1 .. Len(l) : IsLast(l, f, Len(l), i)
      BY <2>2
    <3>2. i \in 1 .. n /\ IsLast(k, f, n, i)
      BY <1>1, <1>3, <3>1 DEF IsLast
    <3>3. LastIn(k, f, n) = i /\ LastIn(l, f, Len(l)) = i
      BY <1>1, <3>1, <3>2, LastOfSome
    <3> QED
      BY <1>3, <3>2, <3>3 DEF HasLast, k, n
  <2> QED
    BY <2>1, <2>2 DEF HasLast
<1> QED
  BY <1>2, <1>3

-----------------------------------------------------------------------------
(* From the layout of one record to the payloads in an array of any length *)

\* What is in an earlier element ends before a later one begins.
LEMMA ElementsFollow ==
  ASSUME NEW u \in Nat, NEW i \in Nat, NEW j \in Nat, i < j
  PROVE  i * u + u <= j * u
<1> DEFINE d == j - i - 1
<1>1. d \in Nat /\ j = i + 1 + d
  OBVIOUS
<1> HIDE DEF d
<1>2. d * u \in Nat
  BY <1>1
<1>3. (i + 1 + d) * u = i * u + u + d * u
  BY <1>1
<1>4. i * u \in Nat
  OBVIOUS
<1> QED
  BY <1>1, <1>2, <1>3, <1>4

\* Counted in units of eight bytes: where a field's slot begins, and how long
\* it is.
Unit(f) == 1 + f[1] * (layout.size \div 8) + layout.at[f[2]].offset \div 8
Units(f) == IF TypeOf(f).kind = "int32" THEN 1 ELSE 2

\* A payload lies in its slot, aligned.
LEMMA PayloadInSlot ==
  ASSUME LayoutSound, NEW f \in Fields
  PROVE  /\ Unit(f) \in Nat /\ Units(f) \in {1, 2}
         /\ Payload(f) # {} /\ InOneAccess(f)
         /\ Payload(f) \subseteq 2 * Unit(f) .. 2 * (Unit(f) + Units(f)) - 1
<1> DEFINE i == f[1]
           s == layout.size
           o == layout.at[f[2]].offset
           u == s \div 8
           v == o \div 8
<1>1. i \in 0 .. Items - 1 /\ f[2] \in DOMAIN layout.at
  BY DEF Fields
<1>2. i \in Nat
  BY <1>1, ConstantsAssumption
<1>3. s \in Nat /\ s % 8 = 0 /\ o \in Nat /\ o % 8 = 0
  BY <1>1 DEF LayoutSound
<1>4. Unit(f) = 1 + i * u + v /\ Address(f) = 8 + i * s + o
  BY DEF Unit, Address, ItemOffset
<1> HIDE DEF i, s, o
<1>5. u \in Nat /\ v \in Nat /\ s = 8 * u /\ o = 8 * v
  BY <1>3
<1> HIDE DEF u, v
<1>6. i * u \in Nat /\ i * (8 * u) = 8 * (i * u)
  BY <1>2, <1>5
<1>7. Unit(f) \in Nat /\ Address(f) = 8 * Unit(f)
  BY <1>4, <1>5, <1>6
<1>8. InOneAccess(f)
  BY <1>7 DEF InOneAccess
<1>9. CASE TypeOf(f).kind = "int32"
  <2>1. Payload(f) = {2 * Unit(f) + 1} /\ Units(f) = 1
    <3>1. (8 * Unit(f) + 4) \div 4 = 2 * Unit(f) + 1
      BY <1>7
    <3> QED
      BY <1>7, <1>9, <3>1 DEF Payload, Units
  <2> QED
    BY <1>7, <1>8, <2>1
<1>10. CASE TypeOf(f).kind # "int32"
  <2>1. Payload(f) = {2 * Unit(f) + 2, 2 * Unit(f) + 3} /\ Units(f) = 2
    <3>1. /\ (8 * Unit(f) + 8) \div 4 = 2 * Unit(f) + 2
          /\ (8 * Unit(f) + 12) \div 4 = 2 * Unit(f) + 3
      BY <1>7
    <3> QED
      BY <1>7, <1>10, <3>1 DEF Payload, Units
  <2> QED
    BY <1>7, <1>8, <2>1
<1> QED
  BY <1>9, <1>10

\* A slot is within its element, and apart from the other slots in it.
LEMMA SlotsInElement ==
  ASSUME LayoutSound, NEW f \in Fields
  PROVE  LET u == layout.size \div 8 IN
         /\ u \in Nat /\ f[1] \in 0 .. Items - 1 /\ f[1] * u \in Nat
         /\ 1 + f[1] * u <= Unit(f)
         /\ Unit(f) + Units(f) <= 1 + f[1] * u + u
<1> DEFINE s == layout.size
           at == layout.at[f[2]]
           o == at.offset
           u == s \div 8
           v == o \div 8
<1>1. f[1] \in 0 .. Items - 1 /\ f[1] \in Nat /\ f[2] \in DOMAIN layout.at
  BY ConstantsAssumption DEF Fields
<1>2. /\ s \in Nat /\ s % 8 = 0 /\ o \in Nat /\ o % 8 = 0
      /\ o + 8 * Units(f) <= s /\ Units(f) \in {1, 2}
  BY <1>1 DEF LayoutSound, SlotEnd, Units, TypeOf
<1>3. Unit(f) = 1 + f[1] * u + v
  BY DEF Unit
<1> HIDE DEF s, o
<1>4. u \in Nat /\ v \in Nat /\ s = 8 * u /\ o = 8 * v
  BY <1>2
<1> HIDE DEF u, v
<1>5. f[1] * u \in Nat /\ v + Units(f) <= u
  BY <1>1, <1>2, <1>4
<1>6. 1 + f[1] * u <= Unit(f) /\ Unit(f) + Units(f) <= 1 + f[1] * u + u
  BY <1>2, <1>3, <1>4, <1>5
<1> QED
  BY <1>1, <1>4, <1>5, <1>6 DEF u, s

\* Different fields have slots one after the other, in whichever order.
LEMMA SlotsApart ==
  ASSUME LayoutSound, NEW f \in Fields, NEW g \in Fields, f # g
  PROVE  Unit(f) + Units(f) <= Unit(g) \/ Unit(g) + Units(g) <= Unit(f)
<1> DEFINE u == layout.size \div 8
<1>1. /\ u \in Nat /\ f[1] * u \in Nat /\ g[1] * u \in Nat
      /\ f[1] \in 0 .. Items - 1 /\ g[1] \in 0 .. Items - 1
      /\ 1 + f[1] * u <= Unit(f) /\ Unit(f) + Units(f) <= 1 + f[1] * u + u
      /\ 1 + g[1] * u <= Unit(g) /\ Unit(g) + Units(g) <= 1 + g[1] * u + u
  BY SlotsInElement
<1>2. /\ Unit(f) \in Nat /\ Units(f) \in {1, 2} /\ Unit(g) \in Nat /\ Units(g) \in {1, 2}
      /\ f[1] \in Nat /\ g[1] \in Nat
  BY <1>1, PayloadInSlot, ConstantsAssumption
<1> HIDE DEF u
<1>3. CASE f[1] < g[1]
  <2>1. f[1] * u + u <= g[1] * u
    BY <1>1, <1>2, <1>3, ElementsFollow
  <2> QED
    BY <1>1, <1>2, <2>1
<1>4. CASE g[1] < f[1]
  <2>1. g[1] * u + u <= f[1] * u
    BY <1>1, <1>2, <1>4, ElementsFollow
  <2> QED
    BY <1>1, <1>2, <2>1
<1>5. CASE f[1] = g[1]
  <2> DEFINE o == layout.at[f[2]].offset
             w == layout.at[g[2]].offset
  <2>1. f[2] # g[2] /\ f[2] \in DOMAIN layout.at /\ g[2] \in DOMAIN layout.at
    BY <1>5 DEF Fields
  <2>2. /\ o \in Nat /\ o % 8 = 0 /\ w \in Nat /\ w % 8 = 0
        /\ o + 8 * Units(f) <= w \/ w + 8 * Units(g) <= o
    BY <2>1 DEF LayoutSound, SlotEnd, Units, TypeOf
  <2>3. /\ Unit(f) = 1 + f[1] * u + o \div 8
        /\ Unit(g) = 1 + f[1] * u + w \div 8
    BY <1>5 DEF Unit, u
  <2> HIDE DEF o, w
  <2>4. o \div 8 + Units(f) <= w \div 8 \/ w \div 8 + Units(g) <= o \div 8
    BY <1>2, <2>2
  <2>5. o \div 8 \in Nat /\ w \div 8 \in Nat
    BY <2>2
  <2> QED
    BY <1>1, <1>2, <2>3, <2>4, <2>5
<1> QED
  BY <1>2, <1>3, <1>4, <1>5

\* The payloads of all fields of all elements are inside the buffer, loaded
\* and stored at once, and apart from each other.
PayloadsApart ==
  /\ \A f \in Fields : Payload(f) # {} /\ Payload(f) \subseteq Words /\ InOneAccess(f)
  /\ \A f, g \in Fields : f # g => Payload(f) \cap Payload(g) = {}

LEMMA LayoutKeepsApart == LayoutSound => PayloadsApart
<1> SUFFICES ASSUME LayoutSound PROVE PayloadsApart
  OBVIOUS
<1>1. ASSUME NEW f \in Fields PROVE Payload(f) \subseteq Words
  <2> DEFINE u == layout.size \div 8
  <2>1. /\ u \in Nat /\ f[1] \in 0 .. Items - 1 /\ f[1] * u \in Nat
        /\ Unit(f) + Units(f) <= 1 + f[1] * u + u
    BY SlotsInElement
  <2>2. /\ Unit(f) \in Nat /\ Units(f) \in {1, 2}
        /\ Payload(f) \subseteq 2 * Unit(f) .. 2 * (Unit(f) + Units(f)) - 1
    BY PayloadInSlot
  <2>3. Items \in Nat /\ f[1] \in Nat /\ f[1] < Items
    BY <2>1, ConstantsAssumption
  <2>4. layout.size = 8 * u
    BY DEF LayoutSound
  <2> HIDE DEF u
  <2>5. f[1] * u + u <= Items * u /\ Items * u \in Nat
    BY <2>1, <2>3, ElementsFollow
  <2>6. Items * (8 * u) = 8 * (Items * u)
    BY <2>1, <2>3
  <2>7. (8 + 8 * (Items * u)) \div 4 = 2 + 2 * (Items * u)
    BY <2>5
  <2>8. Words = 0 .. (2 + 2 * (Items * u)) - 1
    <3>1. Items * layout.size = 8 * (Items * u)
      BY <2>4, <2>6
    <3>2. (8 + Items * layout.size) \div 4 = 2 + 2 * (Items * u)
      BY <2>7, <3>1, Zenon
    <3> QED
      BY <3>2, Zenon DEF Words
  <2>9. 2 * (Unit(f) + Units(f)) - 1 <= (2 + 2 * (Items * u)) - 1
    BY <2>1, <2>2, <2>5
  <2> QED
    BY <2>2, <2>5, <2>8, <2>9
<1>2. ASSUME NEW f \in Fields, NEW g \in Fields, f # g
      PROVE  Payload(f) \cap Payload(g) = {}
  <2>1. /\ Unit(f) \in Nat /\ Units(f) \in {1, 2} /\ Unit(g) \in Nat /\ Units(g) \in {1, 2}
        /\ Payload(f) \subseteq 2 * Unit(f) .. 2 * (Unit(f) + Units(f)) - 1
        /\ Payload(g) \subseteq 2 * Unit(g) .. 2 * (Unit(g) + Units(g)) - 1
    BY PayloadInSlot
  <2>2. Unit(f) + Units(f) <= Unit(g) \/ Unit(g) + Units(g) <= Unit(f)
    BY <1>2, SlotsApart
  <2>3. ASSUME NEW word \in Payload(f), word \in Payload(g) PROVE FALSE
    <3>1. /\ word \in Int /\ 2 * Unit(f) <= word /\ word < 2 * (Unit(f) + Units(f))
          /\ 2 * Unit(g) <= word /\ word < 2 * (Unit(g) + Units(g))
      BY <2>1, <2>3
    <3> QED
      BY <2>1, <2>2, <3>1
  <2> QED
    BY <2>3
<1> QED
  BY <1>1, <1>2, PayloadInSlot DEF PayloadsApart

-----------------------------------------------------------------------------
(* The inductive invariant *)

LEMMA LastWriteIs ==
  ASSUME NEW f, NEW n PROVE LastWrite(f, n) = LastIn(log, f, n)
BY DEF LastWrite, LastIn

\* Every prefix of the log has a last write to every field written in it.
LastsExist == \A f \in Fields : \A n \in 0 .. Len(log) : HasLast(log, f, n)

\* Every snapshot holds, in the payload of every field, the last write to that
\* field before it, and that it was published if it is a pointer.
SnapshotOK(k) ==
  \A f \in Fields : \A word \in Payload(f) :
    /\ hist[k][word].by = LastIn(log, f, k - 1)
    /\ hist[k][word].rel <=> TypeOf(f).kind = "pointer" /\ LastIn(log, f, k - 1) # 0
HistoryOK == \A k \in 1 .. Len(hist) : SnapshotOK(k)

\* Only the elements of a record of scalars are emplaced.
FillingOK ==
  filling # NotFilling =>
    \A i \in DOMAIN type.fields : type.fields[i].type \in {Int32, Int64}

\* What a reader got is one write, the last one to its field at a moment it
\* may still see, no older than what it knew of.
GotOne(r) ==
  \E k \in rd[r].since .. Len(hist) :
    /\ rd[r].got = {LastIn(log, rd[r].field, k - 1)}
    /\ LastIn(log, rd[r].field, rd[r].knows) <= LastIn(log, rd[r].field, k - 1)
ReaderOK(r) ==
  /\ rd[r].since <= floor[r] /\ rd[r].knows < floor[r]
  /\ rd[r].pc # "half"
  /\ rd[r].pc # "idle" => rd[r].field \in Fields
  /\ rd[r].pc = "load" => rd[r].got = {}
  /\ rd[r].pc = "done" => GotOne(r)
ReadersOK == \A r \in Readers : ReaderOK(r)

RecordInv ==
  /\ LayoutSound /\ TypeOK
  /\ LastsExist /\ HistoryOK /\ FillingOK /\ ReadersOK

\* The parts of TypeOK by themselves.
LEMMA Typed ==
  ASSUME TypeOK
  PROVE  /\ Items \in Nat \ {0} /\ Len(log) \in Nat /\ Len(hist) \in Nat \ {0}
         /\ type.fields \in Seq([name : STRING, type : Types])
         /\ log \in Seq(Fields) /\ Len(hist) = Len(log) + 1
         /\ \A k \in 1 .. Len(hist) : hist[k] \in [Words -> [by : 0 .. Len(log), rel : BOOLEAN]]
         /\ \A r \in Readers :
              /\ floor[r] \in 1 .. Len(hist)
              /\ rd[r] \in [pc : {"idle", "load", "half", "done"},
                            field : Fields \cup {<<>>}, since : 1 .. Len(hist),
                            got : SUBSET (0 .. Len(log)), knows : 0 .. Len(log)]
<1>1. type \in Types
  BY DEF TypeOK
<1>2. /\ type.fields \in Seq([name : STRING, type : Types])
      /\ Items \in Nat \ {0}
  BY <1>1, ConstantsAssumption
<1>3. /\ Len(log) \in Nat /\ Len(hist) = Len(log) + 1 /\ log \in Seq(Fields)
      /\ \A k \in 1 .. Len(hist) : hist[k] \in [Words -> [by : 0 .. Len(log), rel : BOOLEAN]]
  BY DEF TypeOK
<1>4. \A r \in Readers :
        /\ floor[r] \in 1 .. Len(hist)
        /\ rd[r] \in [pc : {"idle", "load", "half", "done"},
                      field : Fields \cup {<<>>}, since : 1 .. Len(hist),
                      got : SUBSET (0 .. Len(log)), knows : 0 .. Len(log)]
  BY DEF TypeOK
<1> QED
  BY <1>2, <1>3, <1>4

\* The layout is the compiler's: as long as it stays, so does all that is
\* computed from it.
LEMMA LayoutStays ==
  ASSUME UNCHANGED <<type, layout>>
  PROVE  /\ Fields' = Fields /\ Words' = Words
         /\ \A f : Payload(f)' = Payload(f) /\ TypeOf(f)' = TypeOf(f)
         /\ LayoutSound => LayoutSound'
<1>1. Fields' = Fields
  BY DEF Fields
<1>2. Words' = Words
  BY DEF Words
<1>3. \A f : Address(f)' = Address(f) /\ TypeOf(f)' = TypeOf(f)
  BY DEF Address, TypeOf, ItemOffset
<1>4. \A f : Payload(f)' = Payload(f)
  BY <1>3 DEF Payload
<1>5. LayoutSound => LayoutSound'
  BY DEF LayoutSound, SlotEnd
<1> QED
  BY <1>1, <1>2, <1>3, <1>4, <1>5

-----------------------------------------------------------------------------
(* The writer's steps *)

LEMMA InitInv == Init /\ LayoutSound => RecordInv
<1> SUFFICES ASSUME Init, LayoutSound PROVE RecordInv
  OBVIOUS
<1> DEFINE m == [word \in Words |-> [by |-> 0, rel |-> FALSE]]
<1>1. /\ hist = <<m>> /\ floor = [r \in Readers |-> 1] /\ log = <<>>
      /\ filling = NotFilling /\ rd = [r \in Readers |-> IdleReader]
      /\ type \in Types
  BY DEF Init, MemoryInit
<1>2. Len(log) = 0 /\ Len(hist) = 1 /\ hist[1] = m
  BY <1>1
<1>3. TypeOK
  <2>1. m \in [Words -> [by : 0 .. 0, rel : BOOLEAN]]
    OBVIOUS
  <2>2. hist \in Seq([Words -> [by : 0 .. Len(log), rel : BOOLEAN]])
    <3> HIDE DEF m
    <3> QED
      BY <1>1, <1>2, <2>1
  <2>3. floor \in [Readers -> 1 .. Len(hist)]
    BY <1>1, <1>2
  <2>4. rd \in [Readers -> [pc : {"idle", "load", "half", "done"},
                           field : Fields \cup {<<>>}, since : 1 .. Len(hist),
                           got : SUBSET (0 .. Len(log)), knows : 0 .. Len(log)]]
    BY <1>1, <1>2 DEF IdleReader
  <2>5. log \in Seq(Fields) /\ Len(hist) = Len(log) + 1
    BY <1>1, <1>2
  <2> QED
    BY <1>1, <2>2, <2>3, <2>4, <2>5 DEF TypeOK
<1>4. LastsExist
  BY <1>2 DEF LastsExist, HasLast
<1>5. HistoryOK
  <2> SUFFICES ASSUME NEW f \in Fields, NEW word \in Payload(f)
               PROVE  /\ hist[1][word].by = LastIn(log, f, 0)
                      /\ hist[1][word].rel <=>
                           TypeOf(f).kind = "pointer" /\ LastIn(log, f, 0) # 0
    <3>1. \A k \in 1 .. Len(hist) : k = 1 /\ k - 1 = 0
      BY <1>2
    <3>2. SnapshotOK(1)
      BY <3>1 DEF SnapshotOK
    <3> QED
      BY <3>1, <3>2 DEF HistoryOK
  <2>1. word \in Words
    BY LayoutKeepsApart DEF PayloadsApart
  <2>2. hist[1][word].by = 0 /\ hist[1][word].rel = FALSE
    BY <1>2, <2>1
  <2>3. LastIn(log, f, 0) = 0
    BY LastOfNone
  <2> QED
    BY <2>2, <2>3
<1>6. FillingOK
  BY <1>1 DEF FillingOK
<1>7. ReadersOK
  <2> SUFFICES ASSUME NEW r \in Readers PROVE ReaderOK(r)
    BY DEF ReadersOK
  <2>1. floor[r] = 1 /\ rd[r] = IdleReader
    BY <1>1
  <2>2. rd[r].since = 1 /\ rd[r].knows = 0 /\ rd[r].pc = "idle"
    BY <2>1 DEF IdleReader
  <2> QED
    BY <2>1, <2>2 DEF ReaderOK
<1> QED
  BY <1>3, <1>4, <1>5, <1>6, <1>7 DEF RecordInv

\* A write to f, whoever makes it, is a snapshot that holds what it held but
\* for the payload of f, and an entry of the log.
LEMMA WriteStep ==
  ASSUME RecordInv, NEW f \in Fields, Write(f)
  PROVE  LET n == Len(log) + 1 IN
         /\ log' = Append(log, f) /\ log' \in Seq(Fields) /\ Len(log') = n
         /\ Len(hist') = n + 1 /\ UNCHANGED floor
         /\ \A k \in 1 .. Len(hist) : hist'[k] = hist[k]
         /\ hist'[n + 1] = [word \in Words |->
                             IF word \in Payload(f)
                             THEN [by |-> n, rel |-> StoreOrder(f) = Release]
                             ELSE hist[n][word]]
         /\ hist' \in Seq([Words -> [by : 0 .. n, rel : BOOLEAN]])
<1> DEFINE n == Len(log) + 1
           m == [word \in Words |->
                   IF word \in Payload(f)
                   THEN [by |-> n, rel |-> StoreOrder(f) = Release]
                   ELSE hist[n][word]]
           Snapshot(top) == [Words -> [by : 0 .. top, rel : BOOLEAN]]
<1>1. /\ Len(log) \in Nat /\ n \in Nat /\ Len(hist) = n /\ log \in Seq(Fields)
      /\ \A k \in 1 .. Len(hist) : hist[k] \in Snapshot(Len(log))
      /\ hist \in Seq(Snapshot(Len(log)))
  BY Typed DEF RecordInv, TypeOK
<1>2. hist' = Append(hist, m) /\ UNCHANGED floor /\ log' = Append(log, f)
  BY <1>1 DEF Write, Store, Now
<1>3. \A k \in 1 .. Len(hist) : hist[k] \in Snapshot(n)
  <2> SUFFICES ASSUME NEW k \in 1 .. Len(hist) PROVE hist[k] \in Snapshot(n)
    OBVIOUS
  <2>1. 0 .. Len(log) \subseteq 0 .. n
    BY <1>1
  <2>2. hist[k] \in Snapshot(Len(log))
    BY <1>1
  <2> QED
    BY <2>1, <2>2
<1>4. m \in Snapshot(n)
  <2>1. hist[n] \in Snapshot(n) /\ n \in 0 .. n
    BY <1>1, <1>3
  <2> QED
    BY <2>1
<1> HIDE DEF m, n, Snapshot
<1>5. hist \in Seq(Snapshot(n))
  BY <1>1, <1>3
<1>6. /\ log' \in Seq(Fields) /\ Len(log') = Len(log) + 1
      /\ Len(hist') = n + 1 /\ hist'[n + 1] = m /\ hist' \in Seq(Snapshot(n))
      /\ \A k \in 1 .. Len(hist) : hist'[k] = hist[k]
  BY <1>1, <1>2, <1>4, <1>5
<1> QED
  BY <1>2, <1>6 DEF m, n, Snapshot

\* The prefixes of the log keep their last writes, and the log as a whole has
\* the new one.
LEMMA WriteLasts ==
  ASSUME RecordInv, NEW f \in Fields, Write(f), UNCHANGED <<type, layout>>
  PROVE  /\ LastsExist'
         /\ \A g \in Fields : \A k \in 0 .. Len(log) : LastIn(log', g, k) = LastIn(log, g, k)
         /\ \A g \in Fields : LastIn(log', g, Len(log) + 1) =
              IF g = f THEN Len(log) + 1 ELSE LastIn(log, g, Len(log))
<1> DEFINE n == Len(log) + 1
<1>1. /\ log' = Append(log, f) /\ Len(log') = n /\ Len(log) \in Nat
      /\ log \in Seq(Fields) /\ Fields' = Fields
  BY WriteStep, LayoutStays, Typed DEF RecordInv
<1>2. \A j \in 1 .. Len(log) : log[j] = log'[j]
  BY <1>1
<1>3. ASSUME NEW g \in Fields, NEW k \in 0 .. Len(log)
      PROVE  LastIn(log', g, k) = LastIn(log, g, k) /\ HasLast(log', g, k)
  <2>1. k \in Nat /\ (\A j \in 1 .. k : log[j] = log'[j]) /\ HasLast(log, g, k)
    BY <1>1, <1>2 DEF RecordInv, LastsExist
  <2> QED
    BY <2>1, LastOfPrefix
<1>4. ASSUME NEW g \in Fields
      PROVE  /\ HasLast(log', g, n)
             /\ LastIn(log', g, n) = IF g = f THEN n ELSE LastIn(log, g, Len(log))
  <2>1. HasLast(log, g, Len(log))
    BY <1>1 DEF RecordInv, LastsExist
  <2> QED
    BY <1>1, <2>1, LastOfAppend
<1>5. LastsExist'
  <2> SUFFICES ASSUME NEW g \in Fields, NEW k \in 0 .. n PROVE HasLast(log', g, k)
    BY <1>1 DEF LastsExist
  <2>1. CASE k = n
    BY <1>4, <2>1
  <2>2. CASE k # n
    <3>1. k \in 0 .. Len(log)
      BY <1>1, <2>2
    <3> QED
      BY <1>3, <3>1
  <2> QED
    BY <2>1, <2>2
<1> QED
  BY <1>3, <1>4, <1>5

\* A write leaves the payloads of the other fields alone.
LEMMA WriteHistory ==
  ASSUME RecordInv, NEW f \in Fields, Write(f), UNCHANGED <<type, layout>>
  PROVE  HistoryOK'
<1> DEFINE n == Len(log) + 1
<1>1. /\ Len(hist') = n + 1 /\ Len(hist) = n /\ Len(log) \in Nat
      /\ \A k \in 1 .. Len(hist) : hist'[k] = hist[k]
      /\ hist'[n + 1] = [word \in Words |->
                          IF word \in Payload(f)
                          THEN [by |-> n, rel |-> StoreOrder(f) = Release]
                          ELSE hist[n][word]]
  BY WriteStep, Typed DEF RecordInv
<1>2. Fields' = Fields /\ \A g : Payload(g)' = Payload(g) /\ TypeOf(g)' = TypeOf(g)
  BY LayoutStays
<1>3. /\ \A g \in Fields : \A k \in 0 .. Len(log) : LastIn(log', g, k) = LastIn(log, g, k)
      /\ \A g \in Fields : LastIn(log', g, n) = IF g = f THEN n ELSE LastIn(log, g, Len(log))
  BY WriteLasts
<1> SUFFICES ASSUME NEW k \in 1 .. n + 1, NEW g \in Fields, NEW word \in Payload(g)
             PROVE  /\ hist'[k][word].by = LastIn(log', g, k - 1)
                    /\ hist'[k][word].rel <=>
                         TypeOf(g).kind = "pointer" /\ LastIn(log', g, k - 1) # 0
  BY <1>1, <1>2 DEF HistoryOK, SnapshotOK
<1> HIDE DEF n
<1>4. \A i \in 1 .. Len(hist) :
        /\ hist[i][word].by = LastIn(log, g, i - 1)
        /\ hist[i][word].rel <=>
             TypeOf(g).kind = "pointer" /\ LastIn(log, g, i - 1) # 0
  BY DEF RecordInv, HistoryOK, SnapshotOK
<1>5. CASE k # n + 1
  <2>1. k \in 1 .. Len(hist) /\ k - 1 \in 0 .. Len(log)
    BY <1>1, <1>5 DEF n
  <2>2. hist'[k] = hist[k] /\ LastIn(log', g, k - 1) = LastIn(log, g, k - 1)
    BY <1>1, <1>3, <2>1
  <2> QED
    BY <1>4, <2>1, <2>2
<1>6. CASE k = n + 1
  <2>1. k - 1 = n /\ n \in 1 .. Len(hist) /\ n - 1 = Len(log) /\ n # 0
    BY <1>1, <1>6 DEF n
  <2>2. word \in Words
    BY LayoutKeepsApart DEF RecordInv, PayloadsApart
  <2>3. CASE g = f
    <3>1. LastIn(log', g, k - 1) = n
      BY <1>3, <2>1, <2>3
    <3>2. hist'[k][word] = [by |-> n, rel |-> StoreOrder(f) = Release]
      BY <1>1, <1>6, <2>2, <2>3
    <3>3. (StoreOrder(f) = Release) <=> TypeOf(f).kind = "pointer"
      BY DEF StoreOrder, Release, Relaxed
    <3>4. /\ hist'[k][word].by = n
          /\ hist'[k][word].rel <=> StoreOrder(f) = Release
      <4> DEFINE released == StoreOrder(f) = Release
      <4>1. hist'[k][word] = [by |-> n, rel |-> released]
        BY <3>2
      <4> HIDE DEF released
      <4>2. hist'[k][word].by = n /\ hist'[k][word].rel = released
        BY <4>1
      <4>3. (released) <=> StoreOrder(f) = Release
        BY DEF released
      <4> QED
        BY <4>2, <4>3
    <3> QED
      BY <2>1, <2>3, <3>1, <3>3, <3>4
  <2>4. CASE g # f
    <3>1. word \notin Payload(f)
      BY <2>4, LayoutKeepsApart DEF RecordInv, PayloadsApart
    <3>2. hist'[k][word] = hist[n][word]
      BY <1>1, <1>6, <2>2, <3>1
    <3>3. LastIn(log', g, k - 1) = LastIn(log, g, n - 1)
      BY <1>3, <2>1, <2>4
    <3> QED
      BY <1>4, <2>1, <3>2, <3>3
  <2> QED
    BY <2>3, <2>4
<1> QED
  BY <1>5, <1>6

\* A read that is finished keeps its place in the log.
LEMMA WriteReaders ==
  ASSUME RecordInv, NEW f \in Fields, Write(f), UNCHANGED <<type, layout, rd>>
  PROVE  ReadersOK'
<1>1. /\ Len(hist') = Len(hist) + 1 /\ Len(hist) = Len(log) + 1 /\ Len(log) \in Nat
      /\ UNCHANGED floor /\ Fields' = Fields
  BY WriteStep, LayoutStays, Typed DEF RecordInv
<1>2. \A g \in Fields : \A k \in 0 .. Len(log) : LastIn(log', g, k) = LastIn(log, g, k)
  BY WriteLasts
<1> SUFFICES ASSUME NEW r \in Readers PROVE ReaderOK(r)'
  BY DEF ReadersOK
<1>3. ReaderOK(r)
  BY DEF RecordInv, ReadersOK
<1>4. rd'[r] = rd[r] /\ floor'[r] = floor[r]
  BY <1>1
<1>5. ASSUME rd[r].pc = "done" PROVE GotOne(r)'
  <2>1. rd[r].field \in Fields /\ rd[r].since \in Nat \ {0} /\ rd[r].knows \in 0 .. Len(log)
    BY <1>1, <1>3, <1>5, Typed DEF ReaderOK, RecordInv
  <2>2. PICK k \in rd[r].since .. Len(hist) :
          /\ rd[r].got = {LastIn(log, rd[r].field, k - 1)}
          /\ LastIn(log, rd[r].field, rd[r].knows) <= LastIn(log, rd[r].field, k - 1)
    BY <1>3, <1>5 DEF ReaderOK, GotOne
  <2>3. k \in rd[r].since .. Len(hist') /\ k - 1 \in 0 .. Len(log)
    BY <1>1, <2>1
  <2>4. /\ LastIn(log', rd[r].field, k - 1) = LastIn(log, rd[r].field, k - 1)
        /\ LastIn(log', rd[r].field, rd[r].knows) = LastIn(log, rd[r].field, rd[r].knows)
    BY <1>2, <2>1, <2>3
  <2> QED
    BY <1>4, <2>2, <2>3, <2>4 DEF GotOne
<1> QED
  BY <1>1, <1>3, <1>4, <1>5 DEF ReaderOK

\* What a write does to the types.
LEMMA WriteTyped ==
  ASSUME RecordInv, NEW f \in Fields, Write(f), UNCHANGED <<type, layout, rd>>,
         filling' \in {NotFilling} \cup (0 .. Items - 1) \X DOMAIN type.fields
  PROVE  TypeOK'
<1> DEFINE top == Len(log) + 1
           Reader(n) == [pc : {"idle", "load", "half", "done"},
                         field : Fields \cup {<<>>}, since : 1 .. n + 1,
                         got : SUBSET (0 .. n), knows : 0 .. n]
<1>1. /\ Len(log) \in Nat /\ Len(hist) = Len(log) + 1 /\ Len(log') = top
      /\ Len(hist') = top + 1 /\ log' \in Seq(Fields) /\ UNCHANGED floor
      /\ hist' \in Seq([Words -> [by : 0 .. top, rel : BOOLEAN]])
      /\ Fields' = Fields /\ Words' = Words
  BY WriteStep, LayoutStays, Typed DEF RecordInv
<1>2. type' \in Types
  BY DEF RecordInv, TypeOK
<1>3. floor' \in [Readers -> 1 .. Len(hist')]
  <2>1. floor \in [Readers -> 1 .. Len(hist)]
    BY DEF RecordInv, TypeOK
  <2>2. 1 .. Len(hist) \subseteq 1 .. Len(hist')
    BY <1>1
  <2> QED
    BY <1>1, <2>1, <2>2
<1>4. rd' \in [Readers -> Reader(Len(log'))]
  <2>1. rd \in [Readers -> Reader(Len(log))]
    BY <1>1 DEF RecordInv, TypeOK
  <2>2. /\ 0 .. Len(log) \subseteq 0 .. Len(log')
        /\ 1 .. Len(log) + 1 \subseteq 1 .. Len(log') + 1
    BY <1>1
  <2>3. Reader(Len(log)) \subseteq Reader(Len(log'))
    BY <2>2
  <2> HIDE DEF Reader
  <2> QED
    BY <2>1, <2>3
<1>5. hist' \in Seq([Words' -> [by : 0 .. Len(log'), rel : BOOLEAN]])
  BY <1>1
<1>6. /\ log' \in Seq(Fields') /\ Len(hist') = Len(log') + 1
      /\ filling' \in {NotFilling} \cup (0 .. Items - 1) \X DOMAIN type'.fields
  BY <1>1
<1>7. rd' \in [Readers -> [pc : {"idle", "load", "half", "done"},
                          field : Fields' \cup {<<>>}, since : 1 .. Len(hist'),
                          got : SUBSET (0 .. Len(log')), knows : 0 .. Len(log')]]
  BY <1>1, <1>4
<1> QED
  BY <1>2, <1>3, <1>5, <1>6, <1>7 DEF TypeOK, NotFilling

\* All of a write together.
LEMMA WriteInv ==
  ASSUME RecordInv, NEW f \in Fields, Write(f), UNCHANGED <<type, layout, rd>>,
         filling' \in {NotFilling} \cup (0 .. Items - 1) \X DOMAIN type.fields,
         FillingOK'
  PROVE  RecordInv'
<1>1. TypeOK'
  BY WriteTyped
<1>2. LastsExist' /\ HistoryOK' /\ ReadersOK'
  BY WriteLasts, WriteHistory, WriteReaders
<1>3. LayoutSound'
  BY LayoutStays DEF RecordInv
<1> QED
  BY <1>1, <1>2, <1>3 DEF RecordInv

LEMMA SetFieldInv ==
  ASSUME RecordInv, NEW f \in Fields, SetField(f) PROVE RecordInv'
<1>1. Write(f) /\ UNCHANGED <<type, layout, rd>> /\ filling' = filling
  BY DEF SetField
<1>2. filling' \in {NotFilling} \cup (0 .. Items - 1) \X DOMAIN type.fields
  BY <1>1 DEF RecordInv, TypeOK
<1>3. FillingOK'
  BY <1>1 DEF RecordInv, FillingOK, NotFilling
<1> QED
  BY <1>1, <1>2, <1>3, WriteInv

LEMMA FillFieldInv ==
  ASSUME RecordInv, FillField PROVE RecordInv'
<1> DEFINE field == type.fields[filling[2]]
           f == <<filling[1], <<field.name>>>>
<1>1. /\ filling # NotFilling /\ FillOne(f) /\ UNCHANGED <<type, layout, rd>>
  BY DEF FillField
<1>2. /\ type.fields \in Seq([name : STRING, type : Types])
      /\ filling \in (0 .. Items - 1) \X DOMAIN type.fields
  BY <1>1, Typed DEF RecordInv, TypeOK
<1>3. filling[1] \in 0 .. Items - 1 /\ filling[2] \in 1 .. Len(type.fields)
  BY <1>2
<1>4. f \in Fields
  <2>1. field.type.kind # "record"
    BY <1>1, <1>2, <1>3 DEF RecordInv, FillingOK, Int32, Int64
  <2>2. <<field.name>> \in DOMAIN layout.at
    BY <1>2, <1>3, <2>1 DEF RecordInv, LayoutSound
  <2> QED
    BY <1>3, <2>2 DEF Fields
<1>5. filling' \in {NotFilling} \cup (0 .. Items - 1) \X DOMAIN type.fields
  <2>1. CASE filling[2] = Len(type.fields)
    BY <1>1, <2>1 DEF FillOne
  <2>2. CASE filling[2] # Len(type.fields)
    <3>1. filling' = <<filling[1], filling[2] + 1>>
      BY <1>1, <2>2 DEF FillOne
    <3>2. filling[2] + 1 \in DOMAIN type.fields
      BY <1>2, <1>3, <2>2
    <3> QED
      BY <1>3, <3>1, <3>2
  <2> QED
    BY <2>1, <2>2
<1>6. FillingOK'
  BY <1>1 DEF RecordInv, FillingOK, NotFilling
<1>7. Write(f)
  BY <1>1 DEF FillOne
<1> HIDE DEF f
<1> QED
  BY <1>1, <1>4, <1>5, <1>6, <1>7, WriteInv

\* emplace_back publishes nothing yet.
LEMMA EmplaceBackInv ==
  ASSUME RecordInv, NEW item \in 0 .. Items - 1, EmplaceBack(item)
  PROVE  RecordInv'
<1>1. /\ Len(type.fields) > 1 /\ filling' = <<item, 1>>
      /\ \A i \in DOMAIN type.fields : type.fields[i].type \in {Int32, Int64}
      /\ UNCHANGED <<hist, floor, type, layout, log, rd>>
  BY DEF EmplaceBack, memoryVars
<1>2. type.fields \in Seq([name : STRING, type : Types])
  BY Typed DEF RecordInv
<1>3. filling' \in (0 .. Items - 1) \X DOMAIN type.fields
  <2>1. 1 \in DOMAIN type.fields
    BY <1>1, <1>2
  <2> QED
    BY <1>1, <2>1
<1>4. /\ Fields' = Fields /\ Words' = Words
      /\ \A f : Payload(f)' = Payload(f) /\ TypeOf(f)' = TypeOf(f)
      /\ LayoutSound'
  BY <1>1, LayoutStays DEF RecordInv
<1>5. TypeOK'
  BY <1>1, <1>3, <1>4 DEF RecordInv, TypeOK, NotFilling
<1>6. LastsExist' /\ HistoryOK'
  BY <1>1, <1>4 DEF RecordInv, LastsExist, HistoryOK, SnapshotOK
<1>7. FillingOK'
  BY <1>1 DEF FillingOK, NotFilling
<1>8. ReadersOK'
  BY <1>1, <1>4 DEF RecordInv, ReadersOK, ReaderOK, GotOne
<1> QED
  BY <1>4, <1>5, <1>6, <1>7, <1>8 DEF RecordInv

-----------------------------------------------------------------------------
(* The readers' steps *)

\* A reader's step is his own affair: what it leaves to show is his new state.
LEMMA ReaderStep ==
  ASSUME RecordInv, NEW r \in Readers, UNCHANGED <<hist, type, layout, log, filling>>,
         NEW x \in [pc : {"idle", "load", "half", "done"},
                    field : Fields \cup {<<>>}, since : 1 .. Len(hist),
                    got : SUBSET (0 .. Len(log)), knows : 0 .. Len(log)],
         rd' = [rd EXCEPT ![r] = x],
         NEW k \in 1 .. Len(hist), floor' = [floor EXCEPT ![r] = k],
         ReaderOK(r)'
  PROVE  RecordInv'
<1>1. /\ Fields' = Fields /\ Words' = Words
      /\ \A f : Payload(f)' = Payload(f) /\ TypeOf(f)' = TypeOf(f)
      /\ LayoutSound'
  BY LayoutStays DEF RecordInv
<1>2. TypeOK'
  <2>1. floor' \in [Readers -> 1 .. Len(hist)]
    BY DEF RecordInv, TypeOK
  <2>2. rd' \in [Readers -> [pc : {"idle", "load", "half", "done"},
                            field : Fields \cup {<<>>}, since : 1 .. Len(hist),
                            got : SUBSET (0 .. Len(log)), knows : 0 .. Len(log)]]
    BY DEF RecordInv, TypeOK
  <2> QED
    BY <1>1, <2>1, <2>2 DEF RecordInv, TypeOK, NotFilling
<1>3. LastsExist' /\ HistoryOK' /\ FillingOK'
  BY <1>1 DEF RecordInv, LastsExist, HistoryOK, SnapshotOK, FillingOK, NotFilling
<1>4. ReadersOK'
  <2> SUFFICES ASSUME NEW q \in Readers, q # r PROVE ReaderOK(q)'
    BY DEF ReadersOK
  <2>1. ReaderOK(q)
    BY DEF RecordInv, ReadersOK
  <2>2. floor'[q] = floor[q] /\ rd'[q] = rd[q]
    BY DEF RecordInv, TypeOK
  <2> QED
    BY <1>1, <2>1, <2>2 DEF ReaderOK, GotOne
<1> QED
  BY <1>1, <1>2, <1>3, <1>4 DEF RecordInv

LEMMA CallInv ==
  ASSUME RecordInv, NEW r \in Readers, NEW f \in Fields, Call(r, f)
  PROVE  RecordInv'
<1> DEFINE x == [rd[r] EXCEPT !.pc = "load", !.field = f, !.got = {}, !.since = floor[r]]
<1>1. /\ rd' = [rd EXCEPT ![r] = x]
      /\ UNCHANGED <<hist, floor, type, layout, log, filling>>
  BY DEF Call, memoryVars
<1>2. /\ floor[r] \in 1 .. Len(hist) /\ Len(hist) \in Nat /\ Len(log) \in Nat
      /\ rd[r] \in [pc : {"idle", "load", "half", "done"},
                    field : Fields \cup {<<>>}, since : 1 .. Len(hist),
                    got : SUBSET (0 .. Len(log)), knows : 0 .. Len(log)]
  BY Typed DEF RecordInv
<1>3. x \in [pc : {"idle", "load", "half", "done"},
             field : Fields \cup {<<>>}, since : 1 .. Len(hist),
             got : SUBSET (0 .. Len(log)), knows : 0 .. Len(log)]
  BY <1>2
<1>4. /\ x.pc = "load" /\ x.field = f /\ x.got = {} /\ x.since = floor[r]
      /\ x.knows = rd[r].knows
  BY <1>2
<1> HIDE DEF x
<1>5. rd'[r] = x
  BY <1>1 DEF RecordInv, TypeOK
<1>6. floor' = [floor EXCEPT ![r] = floor[r]]
  BY <1>1 DEF RecordInv, TypeOK
<1>7. Fields' = Fields
  BY <1>1 DEF Fields
<1>8. ReaderOK(r)
  BY DEF RecordInv, ReadersOK
<1>9. ReaderOK(r)'
  BY <1>1, <1>2, <1>4, <1>5, <1>7, <1>8 DEF ReaderOK
<1> QED
  BY <1>1, <1>2, <1>3, <1>6, <1>9, ReaderStep

LEMMA DoneInv ==
  ASSUME RecordInv, NEW r \in Readers, Done(r)
  PROVE  RecordInv'
<1> DEFINE x == [IdleReader EXCEPT !.knows = rd[r].knows]
<1>1. /\ rd' = [rd EXCEPT ![r] = x]
      /\ UNCHANGED <<hist, floor, type, layout, log, filling>>
  BY DEF Done, memoryVars
<1>2. /\ floor[r] \in 1 .. Len(hist) /\ Len(hist) \in Nat \ {0} /\ Len(log) \in Nat
      /\ rd[r].knows \in 0 .. Len(log)
  BY Typed DEF RecordInv
<1>3. x \in [pc : {"idle", "load", "half", "done"},
             field : Fields \cup {<<>>}, since : 1 .. Len(hist),
             got : SUBSET (0 .. Len(log)), knows : 0 .. Len(log)]
  BY <1>2 DEF IdleReader
<1>4. x.pc = "idle" /\ x.since = 1 /\ x.knows = rd[r].knows
  BY DEF IdleReader
<1> HIDE DEF x
<1>5. rd'[r] = x
  BY <1>1 DEF RecordInv, TypeOK
<1>6. floor' = [floor EXCEPT ![r] = floor[r]]
  BY <1>1 DEF RecordInv, TypeOK
<1>7. ReaderOK(r)
  BY DEF RecordInv, ReadersOK
<1>8. ReaderOK(r)'
  BY <1>1, <1>2, <1>4, <1>5, <1>7 DEF ReaderOK
<1> QED
  BY <1>1, <1>2, <1>3, <1>6, <1>8, ReaderStep

\* A load takes the last write before the snapshot it chose, which is at least
\* as new as all the reader knew of, and if it acquires one, knows of it.
LEMMA LoadPayloadInv ==
  ASSUME RecordInv, NEW r \in Readers, LoadPayload(r)
  PROVE  RecordInv'
<1> DEFINE f == rd[r].field
<1>1. /\ floor[r] \in 1 .. Len(hist) /\ Len(hist) = Len(log) + 1 /\ Len(log) \in Nat
      /\ rd[r] \in [pc : {"idle", "load", "half", "done"},
                    field : Fields \cup {<<>>}, since : 1 .. Len(hist),
                    got : SUBSET (0 .. Len(log)), knows : 0 .. Len(log)]
  BY Typed DEF RecordInv
<1>2. ReaderOK(r) /\ rd[r].pc \in {"load", "half"}
  BY DEF RecordInv, ReadersOK, LoadPayload
<1>3. /\ rd[r].pc = "load" /\ f \in Fields /\ rd[r].got = {}
      /\ rd[r].since <= floor[r] /\ rd[r].knows < floor[r]
  BY <1>2 DEF ReaderOK
<1>4. PICK word \in Payload(f), k \in Visible(r) :
        /\ Load(r, k, LoadOrder(f), hist[k][word].rel)
        /\ rd' = [rd EXCEPT ![r] =
                    [@ EXCEPT !.pc = IF rd[r].pc = "half" \/ InOneAccess(f)
                                     THEN "done" ELSE "half",
                              !.got = rd[r].got \cup {hist[k][word].by},
                              !.knows = Known(r, f, hist[k][word].by)]]
        /\ UNCHANGED <<type, layout, log, filling>>
  BY DEF LoadPayload
<1> DEFINE n == LastIn(log, f, k - 1)
           knows == IF TypeOf(f).kind = "pointer" /\ n > rd[r].knows THEN n ELSE rd[r].knows
           low == IF TypeOf(f).kind = "pointer" /\ n # 0 THEN k ELSE floor[r]
           x == [rd[r] EXCEPT !.pc = "done", !.got = {n}, !.knows = knows]
<1>5. k \in 1 .. Len(hist) /\ k \in Nat /\ floor[r] <= k /\ k - 1 \in 0 .. Len(log)
  BY <1>1, <1>4 DEF Visible
<1>6. /\ hist[k][word].by = n
      /\ hist[k][word].rel <=> TypeOf(f).kind = "pointer" /\ n # 0
  BY <1>3, <1>5 DEF RecordInv, HistoryOK, SnapshotOK
<1>7. /\ HasLast(log, f, k - 1) /\ HasLast(log, f, rd[r].knows)
      /\ rd[r].knows \in 0 .. Len(log) /\ rd[r].knows < k
  BY <1>1, <1>3, <1>5 DEF RecordInv, LastsExist
<1>8. n \in 0 .. k - 1
  BY <1>5, <1>7, LastFacts
<1>9. floor' = [floor EXCEPT ![r] = low] /\ UNCHANGED hist
  <2>1. floor' = [floor EXCEPT ![r] =
                    IF LoadOrder(f) = Acquire /\ hist[k][word].rel THEN k ELSE @]
    BY <1>4 DEF Load
  <2>2. (LoadOrder(f) = Acquire) <=> TypeOf(f).kind = "pointer"
    BY DEF LoadOrder, Acquire, Relaxed
  <2>3. (LoadOrder(f) = Acquire /\ hist[k][word].rel) <=>
          (TypeOf(f).kind = "pointer" /\ n # 0)
    BY <1>6, <2>2
  <2>4. (IF LoadOrder(f) = Acquire /\ hist[k][word].rel THEN k ELSE floor[r]) = low
    BY <2>3
  <2>5. UNCHANGED hist
    BY <1>4 DEF Load
  <2> HIDE DEF low
  <2> QED
    BY <2>1, <2>4, <2>5
<1>10. rd' = [rd EXCEPT ![r] = x]
  <2>1. InOneAccess(f)
    BY <1>3, LayoutKeepsApart DEF RecordInv, PayloadsApart
  <2>2. Known(r, f, n) = knows
    BY DEF Known
  <2>3. rd[r].got \cup {n} = {n}
    BY <1>3
  <2> HIDE DEF n, knows
  <2>4. rd' = [rd EXCEPT ![r] = [rd[r] EXCEPT !.pc = "done", !.got = rd[r].got \cup {n},
                                             !.knows = Known(r, f, n)]]
    BY <1>4, <1>6, <2>1
  <2> QED
    BY <2>2, <2>3, <2>4
<1>11. knows \in 0 .. Len(log) /\ low \in 1 .. Len(hist) /\ knows < low /\ rd[r].since <= low
  <2>1. rd[r].since \in Nat /\ rd[r].knows \in Nat /\ floor[r] \in Nat
    BY <1>1
  <2> HIDE DEF n
  <2> QED
    BY <1>1, <1>3, <1>5, <1>7, <1>8, <2>1
<1>12. LastIn(log, f, knows) <= n
  <2>1. CASE knows = rd[r].knows
    <3>1. rd[r].knows <= k - 1
      BY <1>5, <1>7
    <3>2. LastIn(log, f, rd[r].knows) <= LastIn(log, f, k - 1)
      BY <1>5, <1>7, <3>1, LastGrows
    <3> QED
      BY <2>1, <3>2
  <2>2. CASE knows = n
    <3>1. HasLast(log, f, n) /\ n \in Nat
      BY <1>1, <1>3, <1>5, <1>8 DEF RecordInv, LastsExist
    <3>2. LastIn(log, f, n) \in 0 .. n
      BY <3>1, LastFacts
    <3> QED
      BY <2>2, <3>1, <3>2
  <2> QED
    BY <2>1, <2>2
<1> HIDE DEF knows, low
<1>13. /\ x \in [pc : {"idle", "load", "half", "done"},
                  field : Fields \cup {<<>>}, since : 1 .. Len(hist),
                  got : SUBSET (0 .. Len(log)), knows : 0 .. Len(log)]
       /\ x.pc = "done" /\ x.field = f /\ x.got = {n} /\ x.since = rd[r].since
       /\ x.knows = knows
  <2>1. n \in 0 .. Len(log)
    BY <1>1, <1>5, <1>8
  <2> HIDE DEF n
  <2> QED
    BY <1>1, <1>11, <2>1
<1> HIDE DEF x
<1>14. rd'[r] = x /\ floor'[r] = low
  BY <1>9, <1>10 DEF RecordInv, TypeOK
<1>15. GotOne(r)'
  <2>1. k \in rd[r].since .. Len(hist)
    BY <1>1, <1>3, <1>5
  <2>2. /\ rd'[r].got = {LastIn(log', rd'[r].field, k - 1)}
        /\ LastIn(log', rd'[r].field, rd'[r].knows) <= LastIn(log', rd'[r].field, k - 1)
        /\ k \in rd'[r].since .. Len(hist')
    BY <1>4, <1>9, <1>12, <1>13, <1>14, <2>1
  <2> QED
    BY <2>2 DEF GotOne
<1>16. Fields' = Fields
  BY <1>4 DEF Fields
<1>17. ReaderOK(r)'
  BY <1>3, <1>11, <1>13, <1>14, <1>15, <1>16 DEF ReaderOK
<1> QED
  BY <1>4, <1>9, <1>10, <1>11, <1>13, <1>17, ReaderStep

-----------------------------------------------------------------------------
(* The theorems *)

\* Every step keeps the invariant.
LEMMA NextInv == RecordInv /\ [Next]_vars => RecordInv'
<1> SUFFICES ASSUME RecordInv, [Next]_vars PROVE RecordInv'
  OBVIOUS
<1>1. ASSUME NEW f \in Fields, SetField(f) PROVE RecordInv'
  BY <1>1, SetFieldInv
<1>2. ASSUME NEW item \in 0 .. Items - 1, EmplaceBack(item) PROVE RecordInv'
  BY <1>2, EmplaceBackInv
<1>3. CASE FillField
  BY <1>3, FillFieldInv
<1>4. ASSUME NEW r \in Readers, NEW f \in Fields, Call(r, f) PROVE RecordInv'
  BY <1>4, CallInv
<1>5. ASSUME NEW r \in Readers, LoadPayload(r) PROVE RecordInv'
  BY <1>5, LoadPayloadInv
<1>6. ASSUME NEW r \in Readers, Done(r) PROVE RecordInv'
  BY <1>6, DoneInv
<1>7. CASE UNCHANGED vars
  <2>1. UNCHANGED <<hist, floor, type, layout, log, filling, rd>>
    BY <1>7 DEF vars
  <2>2. /\ Fields' = Fields /\ Words' = Words
        /\ \A f : Payload(f)' = Payload(f) /\ TypeOf(f)' = TypeOf(f)
        /\ LayoutSound'
    BY <2>1, LayoutStays DEF RecordInv
  <2>3. TypeOK'
    BY <2>1, <2>2 DEF RecordInv, TypeOK, NotFilling
  <2> QED
    BY <2>1, <2>2, <2>3 DEF RecordInv, LastsExist, HistoryOK, SnapshotOK, FillingOK,
                            NotFilling, ReadersOK, ReaderOK, GotOne
<1> QED
  BY <1>1, <1>2, <1>3, <1>4, <1>5, <1>6, <1>7 DEF Next

\* The invariant holds throughout, wherever the layout is sound.
THEOREM RecordInvCorrect == Spec /\ LayoutSound => []RecordInv
BY InitInv, NextInv, PTL DEF Spec

\* The variables have their types: emplace_back never runs past the last field
\* of an element (array.hpp:122-127).
THEOREM TypeOKCorrect == Spec /\ LayoutSound => []TypeOK
<1>1. RecordInv => TypeOK
  BY DEF RecordInv
<1> QED
  BY <1>1, RecordInvCorrect, PTL

\* Every field is a register: what a reader returns is, whole, the last write to
\* that field of that element at a moment it may see (record.hpp:69-84, 133-134).
THEOREM FieldsAreRegistersCorrect == Spec /\ LayoutSound => []FieldsAreRegisters
<1>1. RecordInv => FieldsAreRegisters
  <2> SUFFICES ASSUME RecordInv, NEW r \in Readers, rd[r].pc = "done"
               PROVE  \E k \in rd[r].since - 1 .. Len(log) :
                        rd[r].got = {LastWrite(rd[r].field, k)}
    BY DEF FieldsAreRegisters
  <2>1. PICK k \in rd[r].since .. Len(hist) : rd[r].got = {LastIn(log, rd[r].field, k - 1)}
    BY DEF RecordInv, ReadersOK, ReaderOK, GotOne
  <2>2. /\ Len(hist) = Len(log) + 1 /\ Len(log) \in Nat /\ rd[r].since \in 1 .. Len(hist)
    BY Typed DEF RecordInv
  <2>3. k - 1 \in rd[r].since - 1 .. Len(log)
    BY <2>2
  <2>4. rd[r].got = {LastWrite(rd[r].field, k - 1)}
    BY <2>1, LastWriteIs
  <2> QED
    BY <2>3, <2>4
<1> QED
  BY <1>1, RecordInvCorrect, PTL

\* Acquiring one field brings all the others up to the same moment
\* (msm_allocator.cpp:442-443 and 451-452).
THEOREM CausalAcrossFieldsCorrect == Spec /\ LayoutSound => []CausalAcrossFields
<1>1. RecordInv => CausalAcrossFields
  <2> SUFFICES ASSUME RecordInv, NEW r \in Readers, rd[r].pc = "done", NEW n \in rd[r].got
               PROVE  n >= LastWrite(rd[r].field, rd[r].knows)
    BY DEF CausalAcrossFields
  <2>1. PICK k \in rd[r].since .. Len(hist) :
          /\ rd[r].got = {LastIn(log, rd[r].field, k - 1)}
          /\ LastIn(log, rd[r].field, rd[r].knows) <= LastIn(log, rd[r].field, k - 1)
    BY DEF RecordInv, ReadersOK, ReaderOK, GotOne
  <2>2. n = LastIn(log, rd[r].field, k - 1)
    BY <2>1
  <2>3. LastIn(log, rd[r].field, rd[r].knows) <= n
    BY <2>1, <2>2
  <2> QED
    BY <2>3, LastWriteIs
<1> QED
  BY <1>1, RecordInvCorrect, PTL

=============================================================================
