-------------------------- MODULE MsmObjectProofs ---------------------------
(* Theorems about MsmObject, for every set of readers, names and values and  *)
(* for every bound.  First the writer: each store keeps the published        *)
(* buffers well formed, and keeps what a reader may have found in them.      *)
(* Then the readers: whatever the writer adds, grows and removes meanwhile,  *)
(* a call answers for a moment of its own (ObjectInv).                       *)
EXTENDS MsmObject, SequenceTheorems, TLAPS

-----------------------------------------------------------------------------
(* One snapshot. *)

\* The current buffer, when there is one.
LEMMA CurrentBuffer ==
  ASSUME NEW m \in Memory, SnapshotOK(m)
  PROVE  /\ m.bufs \in Seq(Buffer) /\ Len(m.bufs) \in Nat /\ DOMAIN m.bufs = 1 .. Len(m.bufs)
         /\ m.cells \in Seq(Cell) /\ Len(m.cells) \in Nat /\ DOMAIN m.cells = 1 .. Len(m.cells)
         /\ Count(m) \in 0 .. MaxEntries /\ Cap(m) \in 0 .. MaxEntries /\ Count(m) <= Cap(m)
         /\ m.ptr = Null => Count(m) = 0 /\ Cap(m) = 0
         /\ m.ptr # Null =>
              /\ m.ptr \in DOMAIN m.bufs /\ m.bufs[m.ptr] \in Buffer
              /\ Count(m) = m.bufs[m.ptr].count /\ Cap(m) = Len(m.bufs[m.ptr].entry)
              /\ m.bufs[m.ptr].entry \in Seq(Entry)
              /\ DOMAIN m.bufs[m.ptr].entry = 1 .. Cap(m)
         /\ \A i \in 1 .. Cap(m) : EntryAt(m, i) \in Entry
<1>1. /\ m.bufs \in Seq(Buffer) /\ Len(m.bufs) \in Nat /\ DOMAIN m.bufs = 1 .. Len(m.bufs)
      /\ m.cells \in Seq(Cell) /\ Len(m.cells) \in Nat /\ DOMAIN m.cells = 1 .. Len(m.cells)
  BY DEF Memory
<1>2. MaxEntries \in Nat
  BY ConstantsAssumption
<1>3. CASE m.ptr = Null
  BY <1>1, <1>2, <1>3 DEF Count, Cap
<1>4. CASE m.ptr # Null
  <2>1. m.ptr \in DOMAIN m.bufs
    BY <1>1, <1>4 DEF SnapshotOK, Null
  <2>2. PICK b \in Buffer : b = m.bufs[m.ptr]
    BY <1>1, <2>1
  <2>3. /\ b.entry \in Seq(Entry) /\ Len(b.entry) \in Nat /\ DOMAIN b.entry = 1 .. Len(b.entry)
        /\ b.count \in 0 .. MaxEntries
    BY <2>2 DEF Buffer
  <2>4. Len(b.entry) <= MaxEntries /\ b.count <= Len(b.entry)
    BY <2>1, <2>2 DEF SnapshotOK, WellFormed
  <2>5. Count(m) = b.count /\ Cap(m) = Len(b.entry)
    BY <1>4, <2>2 DEF Count, Cap
  <2>6. \A i \in 1 .. Len(b.entry) : EntryAt(m, i) \in Entry
    BY <2>2, <2>3 DEF EntryAt
  <2>7. QED
    BY <1>1, <1>2, <1>4, <2>1, <2>2, <2>3, <2>4, <2>5, <2>6
<1>5. QED
  BY <1>3, <1>4

\* Two fields of the object have different keys and different cells.
LEMMA DistinctFields ==
  ASSUME NEW m \in Memory, SnapshotOK(m),
         NEW i \in 1 .. Count(m), NEW j \in 1 .. Count(m), i # j
  PROVE  EntryAt(m, i).key # EntryAt(m, j).key /\ EntryAt(m, i).cell # EntryAt(m, j).cell
<1>1. Count(m) \in Nat /\ m.ptr \in DOMAIN m.bufs /\ Count(m) = m.bufs[m.ptr].count
  BY CurrentBuffer
<1>2. \A a \in 1 .. Count(m) : \A b \in 1 .. a - 1 :
        EntryAt(m, b).key # EntryAt(m, a).key /\ EntryAt(m, b).cell # EntryAt(m, a).cell
  BY <1>1 DEF SnapshotOK, WellFormed, EntryAt
<1>3. i \in 1 .. j - 1 \/ j \in 1 .. i - 1
  BY <1>1
<1>4. QED
  BY <1>2, <1>3

\* What a field of the object is.
LEMMA FieldOK ==
  ASSUME NEW m \in Memory, SnapshotOK(m), NEW i \in 1 .. Count(m)
  PROVE  /\ EntryAt(m, i) \in Entry
         /\ EntryAt(m, i).cell \in DOMAIN m.cells
         /\ EntryAt(m, i).type = m.cells[EntryAt(m, i).cell].type
         /\ EntryAt(m, i).type \in Types
         /\ EntryAt(m, i).key \in {FieldKey(n) : n \in Names}
<1>1. /\ Count(m) \in Nat /\ m.ptr \in DOMAIN m.bufs /\ Count(m) = m.bufs[m.ptr].count
      /\ i \in 1 .. Cap(m) /\ m.cells \in Seq(Cell)
  BY CurrentBuffer
<1>2. EntryAt(m, i) \in Entry
  BY <1>1, CurrentBuffer
<1>3. /\ EntryAt(m, i).cell \in DOMAIN m.cells
      /\ EntryAt(m, i).type = m.cells[EntryAt(m, i).cell].type
      /\ EntryAt(m, i).key \in {FieldKey(n) : n \in Names}
  BY ZenonT(60), <1>1 DEF SnapshotOK, WellFormed, EntryAt
<1>4. m.cells[EntryAt(m, i).cell] \in Cell
  BY <1>1, <1>3
<1>5. QED
  BY <1>2, <1>3, <1>4 DEF Cell

\* The first match is the only one.
LEMMA FindIs ==
  ASSUME NEW m \in Memory, SnapshotOK(m), NEW key
  PROVE  /\ Find(m, key) = {i \in 1 .. Count(m) : EntryAt(m, i).key = key}
         /\ Has(m, key) <=> \E i \in 1 .. Count(m) : EntryAt(m, i).key = key
         /\ \A i, j \in Find(m, key) : i = j
<1>1. Count(m) \in Nat
  BY CurrentBuffer
<1>2. ASSUME NEW i \in 1 .. Count(m), EntryAt(m, i).key = key, NEW j \in 1 .. i - 1
      PROVE  EntryAt(m, j).key # key
  <2>1. j \in 1 .. Count(m) /\ j # i
    BY <1>1
  <2>2. QED
    BY <1>2, <2>1, DistinctFields
<1>3. Find(m, key) = {i \in 1 .. Count(m) : EntryAt(m, i).key = key}
  BY <1>2 DEF Find
<1>4. ASSUME NEW i \in Find(m, key), NEW j \in Find(m, key)
      PROVE  i = j
  BY <1>3, DistinctFields
<1>5. QED
  BY <1>3, <1>4 DEF Has

\* The type and the value of a field are found in its entry.
LEMMA FieldAt ==
  ASSUME NEW m \in Memory, SnapshotOK(m), NEW key, NEW i \in Find(m, key)
  PROVE  /\ FieldType(m, key) = EntryAt(m, i).type
         /\ FieldValue(m, key) = m.cells[EntryAt(m, i).cell].val
<1>1. (CHOOSE j \in Find(m, key) : TRUE) = i
  BY FindIs
<1>2. QED
  BY <1>1 DEF FieldType, FieldValue

-----------------------------------------------------------------------------
(* The history. *)

\* The snapshot n as the writer leaves it after m.
StoredOver(n, m) ==
  /\ SnapshotOK(n) /\ n.ptrRel
  /\ Extends(m, n)
  /\ \A b \in DOMAIN m.bufs : n.bufs[b].count = m.bufs[b].count \/ n.ptr = b
  /\ \A c \in DOMAIN m.cells :
       n.cells[c].val = m.cells[c].val \/ \E key : Holds(n, key, c)

LEMMA NowType ==
  ASSUME TypeOK
  PROVE  Now \in Memory /\ Len(hist) \in Nat \ {0} /\ Now = hist[Len(hist)]
BY DEF Now, TypeOK

\* What a store does to the history.
LEMMA StoreHistory ==
  ASSUME TypeOK, NEW m \in Memory, Store(m)
  PROVE  /\ hist' \in Seq(Memory) /\ hist' # <<>> /\ floor' = floor
         /\ Len(hist) \in Nat \ {0}
         /\ Len(hist') = Len(hist) + 1
         /\ \A k \in 1 .. Len(hist) : hist'[k] = hist[k]
         /\ hist'[Len(hist) + 1] = m
         /\ Now' = m
BY DEF Store, TypeOK, Now

LEMMA CountsAreNat ==
  ASSUME NEW m \in Memory, NEW b \in DOMAIN m.bufs
  PROVE  m.bufs[b].count \in Nat /\ m.bufs[b] \in Buffer
<1>1. m.bufs[b] \in Buffer
  BY DEF Memory
<1>2. QED
  BY <1>1, ConstantsAssumption DEF Buffer

LEMMA ExtendsTransitive ==
  ASSUME NEW l \in Memory, NEW m \in Memory, NEW n \in Memory,
         Extends(l, m), Extends(m, n)
  PROVE  Extends(l, n)
<1>1. ASSUME NEW b \in DOMAIN l.bufs
      PROVE  /\ b \in DOMAIN n.bufs
             /\ l.bufs[b].count <= n.bufs[b].count
             /\ n.bufs[b].countRel
                  \/ (n.bufs[b].count = l.bufs[b].count /\ ~l.bufs[b].countRel)
             /\ \A i \in 1 .. l.bufs[b].count : n.bufs[b].entry[i] = l.bufs[b].entry[i]
  <2>1. b \in DOMAIN m.bufs /\ b \in DOMAIN n.bufs
    BY <1>1 DEF Extends
  <2>2. l.bufs[b].count \in Nat /\ m.bufs[b].count \in Nat /\ n.bufs[b].count \in Nat
    BY <1>1, <2>1, CountsAreNat
  <2>3. l.bufs[b].count <= m.bufs[b].count /\ m.bufs[b].count <= n.bufs[b].count
    BY <1>1, <2>1 DEF Extends
  <2>4. \A i \in 1 .. l.bufs[b].count : i \in 1 .. m.bufs[b].count
    BY <2>2, <2>3
  <2>5. QED
    BY <1>1, <2>1, <2>2, <2>3, <2>4 DEF Extends
<1>2. QED
  BY <1>1 DEF Extends

\* A field that leads to a cell does so in every later snapshot's copy of the
\* buffer, so the cell is that field's for good.
LEMMA HoldsForGood ==
  ASSUME NEW m \in Memory, SnapshotOK(m), NEW n \in Memory, SnapshotOK(n),
         Extends(m, n), NEW key, NEW c, Holds(m, key, c),
         NEW other, Holds(n, other, c)
  PROVE  other = key
<1>1. PICK i \in 1 .. Count(m) : EntryAt(m, i).key = key /\ EntryAt(m, i).cell = c
  BY DEF Holds
<1>2. PICK j \in 1 .. Count(n) : EntryAt(n, j).key = other /\ EntryAt(n, j).cell = c
  BY DEF Holds
<1>3. m.ptr \in DOMAIN m.bufs /\ Count(m) = m.bufs[m.ptr].count /\ Count(m) \in Nat
  BY CurrentBuffer
<1>4. n.ptr \in DOMAIN n.bufs /\ Count(n) = n.bufs[n.ptr].count
  BY CurrentBuffer
<1>5. /\ m.ptr \in DOMAIN n.bufs /\ n.bufs[m.ptr].entry[i] = EntryAt(m, i)
      /\ Count(m) <= n.bufs[m.ptr].count /\ n.bufs[m.ptr].count \in Nat
  BY <1>3, CountsAreNat DEF Extends, EntryAt
<1>6. i \in 1 .. n.bufs[m.ptr].count
  BY <1>3, <1>5
<1>7. \A x \in 1 .. n.bufs[n.ptr].count, y \in 1 .. n.bufs[m.ptr].count :
        n.bufs[n.ptr].entry[x].cell = n.bufs[m.ptr].entry[y].cell =>
          n.bufs[n.ptr].entry[x].key = n.bufs[m.ptr].entry[y].key
  BY <1>4, <1>5 DEF SnapshotOK
<1>8. QED
  BY <1>1, <1>2, <1>4, <1>5, <1>6, <1>7 DEF EntryAt

LEMMA WasCurrentStep ==
  ASSUME TypeOK, HistoryOK, NEW m \in Memory, Store(m), StoredOver(m, Now),
         NEW j \in 1 .. Len(hist), NEW late, late = Len(hist) + 1
  PROVE  WasCurrent(j, late)'
<1> DEFINE n == Len(hist)
           h == hist[j]
<1>1. /\ hist' \in Seq(Memory) /\ n \in Nat \ {0} /\ Len(hist') = n + 1
      /\ \A k \in 1 .. n : hist'[k] = hist[k]
      /\ hist'[n + 1] = m /\ Now = hist[n] /\ Now \in Memory
  BY StoreHistory, NowType
<1>2. /\ h \in Memory /\ SnapshotOK(h) /\ SnapshotOK(Now) /\ SnapshotOK(m)
      /\ Extends(h, Now) /\ Extends(Now, m) /\ WasCurrent(j, n)
  BY <1>1 DEF TypeOK, HistoryOK, StoredOver
<1>3. Extends(h, m)
  BY <1>1, <1>2, ExtendsTransitive
<1>4. \A l \in j .. n : hist'[l] = hist[l] /\ l \in j .. n + 1
  BY <1>1
<1>5. n + 1 \in j .. n + 1
  BY <1>1
<1>6. ASSUME h.ptr # Null
      PROVE  \E l \in j .. n + 1 :
               hist'[l].ptr = h.ptr /\ hist'[l].bufs[h.ptr].count = m.bufs[h.ptr].count
  <2>1. h.ptr \in DOMAIN h.bufs /\ h.ptr \in DOMAIN Now.bufs
    BY <1>2, <1>6, CurrentBuffer DEF Extends
  <2>2. CASE m.ptr = h.ptr
    BY <1>1, <1>5, <2>2
  <2>3. CASE m.ptr # h.ptr
    <3>1. m.bufs[h.ptr].count = Now.bufs[h.ptr].count
      BY <2>1, <2>3 DEF StoredOver
    <3>2. PICK l \in j .. n : /\ hist[l].ptr = h.ptr
                              /\ hist[l].bufs[h.ptr].count = Now.bufs[h.ptr].count
      BY <1>1, <1>2, <1>6 DEF WasCurrent
    <3>3. QED
      BY <1>4, <3>1, <3>2
  <2>4. QED
    BY <2>2, <2>3
<1>7. ASSUME NEW key \in Keys, NEW c \in DOMAIN h.cells, Holds(h, key, c)
      PROVE  \E l \in j .. n + 1 :
               Holds(hist'[l], key, c) /\ hist'[l].cells[c].val = m.cells[c].val
  <2>1. c \in DOMAIN Now.cells
    BY <1>2 DEF Extends
  <2>2. CASE m.cells[c].val = Now.cells[c].val
    <3>1. PICK l \in j .. n : Holds(hist[l], key, c) /\ hist[l].cells[c].val = Now.cells[c].val
      BY <1>1, <1>2, <1>7 DEF WasCurrent
    <3>2. QED
      BY <1>4, <2>2, <3>1
  <2>3. CASE m.cells[c].val # Now.cells[c].val
    <3>1. PICK other : Holds(m, other, c)
      BY <2>1, <2>3 DEF StoredOver
    <3>2. other = key
      BY <1>2, <1>3, <1>7, <3>1, HoldsForGood
    <3>3. QED
      BY <1>1, <1>5, <3>1, <3>2
  <2>4. QED
    BY <2>2, <2>3
<1>8. hist'[j] = h /\ hist'[n + 1] = m
  BY <1>1
<1> HIDE DEF h
<1>9. QED
  BY <1>6, <1>7, <1>8 DEF WasCurrent

LEMMA HistoryStep ==
  ASSUME TypeOK, HistoryOK, NEW m \in Memory, Store(m), StoredOver(m, Now)
  PROVE  HistoryOK'
<1> DEFINE n == Len(hist)
<1>1. /\ hist' \in Seq(Memory) /\ n \in Nat \ {0} /\ Len(hist') = n + 1
      /\ \A k \in 1 .. n : hist'[k] = hist[k]
      /\ hist'[n + 1] = m /\ Now = hist[n] /\ Now \in Memory
  BY StoreHistory, NowType
<1>2. ASSUME NEW k \in 1 .. n + 1
      PROVE  /\ SnapshotOK(hist'[k])
             /\ IF k = 1 THEN hist'[k].ptr = Null ELSE hist'[k].ptrRel
  <2>1. CASE k = n + 1
    BY <1>1, <2>1 DEF StoredOver
  <2>2. CASE k # n + 1
    BY <1>1, <2>2 DEF HistoryOK
  <2>3. QED
    BY <2>1, <2>2
<1>3. ASSUME NEW k \in 1 .. n + 1, NEW j \in 1 .. k
      PROVE  Extends(hist'[j], hist'[k]) /\ WasCurrent(j, k)'
  <2>1. CASE k # n + 1
    <3>1. Extends(hist[j], hist[k]) /\ WasCurrent(j, k) /\ k \in 1 .. n
      BY <1>1, <2>1 DEF HistoryOK
    <3>2. \A l \in 1 .. k : hist'[l] = hist[l]
      BY <1>1, <3>1
    <3>3. j .. k \subseteq 1 .. k /\ k \in 1 .. k
      BY <1>1, <3>1
    <3>4. QED
      BY SMTT(30), <3>1, <3>2, <3>3 DEF WasCurrent
  <2>2. CASE k = n + 1 /\ j # n + 1
    <3>1. j \in 1 .. n /\ Extends(hist[j], Now) /\ Extends(Now, m) /\ hist[j] \in Memory
      BY <1>1, <2>2 DEF HistoryOK, StoredOver, TypeOK
    <3>2. Extends(hist[j], m)
      BY <1>1, <3>1, ExtendsTransitive
    <3>3. WasCurrent(j, k)'
      BY <2>2, <3>1, WasCurrentStep
    <3>4. QED
      BY <1>1, <2>2, <3>1, <3>2, <3>3
  <2>3. CASE j = n + 1
    <3>1. k = n + 1
      BY <1>1, <2>3
    <3>2. k \in j .. k
      BY <1>1, <2>3, <3>1
    <3>3. Extends(m, m)
      BY CountsAreNat DEF Extends
    <3>4. QED
      BY <1>1, <2>3, <3>1, <3>2, <3>3 DEF WasCurrent
  <2>4. QED
    BY <2>1, <2>2, <2>3
<1>4. QED
  BY <1>1, <1>2, <1>3 DEF HistoryOK

-----------------------------------------------------------------------------
(* The five stores of the writer. *)

\* The buffers of a snapshot, one by one.
FieldsOK(b, cells) ==
  /\ b.count <= Len(b.entry) /\ Len(b.entry) <= MaxEntries
  /\ \A i \in 1 .. b.count :
       /\ b.entry[i].cell \in DOMAIN cells
       /\ b.entry[i].type = cells[b.entry[i].cell].type
       /\ b.entry[i].key \in {FieldKey(n) : n \in Names}
       /\ \A j \in 1 .. i - 1 :
            b.entry[j].key # b.entry[i].key /\ b.entry[j].cell # b.entry[i].cell

SameKeys(a, b) ==
  \A i \in 1 .. a.count, j \in 1 .. b.count :
    a.entry[i].cell = b.entry[j].cell => a.entry[i].key = b.entry[j].key

LEMMA SnapshotIs ==
  ASSUME NEW m
  PROVE  SnapshotOK(m) <=>
           /\ m.ptr \in 0 .. Len(m.bufs)
           /\ \A b \in DOMAIN m.bufs : FieldsOK(m.bufs[b], m.cells)
           /\ \A a, b \in DOMAIN m.bufs : SameKeys(m.bufs[a], m.bufs[b])
BY DEF SnapshotOK, WellFormed, FieldsOK, SameKeys

\* Every field of the fresh buffer is one of the buffer before it.
LEMMA FreshBuffer ==
  ASSUME NEW m \in Memory, SnapshotOK(m), NEW b \in Buffer,
         Len(b.entry) <= MaxEntries, b.count <= Len(b.entry), NEW from,
         \A i \in 1 .. b.count : /\ from[i] \in 1 .. Count(m)
                                 /\ b.entry[i] = EntryAt(m, from[i]),
         \A i, j \in 1 .. b.count : i # j => from[i] # from[j]
  PROVE  /\ FieldsOK(b, m.cells) /\ SameKeys(b, b)
         /\ \A a \in DOMAIN m.bufs : SameKeys(m.bufs[a], b) /\ SameKeys(b, m.bufs[a])
<1>1. b.count \in Nat
  BY ConstantsAssumption DEF Buffer
<1>2. \A i \in 1 .. b.count :
        /\ b.entry[i].cell \in DOMAIN m.cells
        /\ b.entry[i].type = m.cells[b.entry[i].cell].type
        /\ b.entry[i].key \in {FieldKey(x) : x \in Names}
  BY FieldOK
<1>3. \A i, j \in 1 .. b.count :
        i # j => b.entry[i].key # b.entry[j].key /\ b.entry[i].cell # b.entry[j].cell
  BY DistinctFields
<1>4. \A i \in 1 .. b.count : \A j \in 1 .. i - 1 : j \in 1 .. b.count /\ j # i
  BY <1>1
<1>5. FieldsOK(b, m.cells)
  BY <1>2, <1>3, <1>4 DEF FieldsOK
<1>6. SameKeys(b, b)
  BY <1>3 DEF SameKeys
<1>7. ASSUME NEW a \in DOMAIN m.bufs, NEW i \in 1 .. b.count,
             NEW j \in 1 .. m.bufs[a].count, m.bufs[a].entry[j].cell = b.entry[i].cell
      PROVE  m.bufs[a].entry[j].key = b.entry[i].key
  <2>1. from[i] \in 1 .. Count(m) /\ b.entry[i] = EntryAt(m, from[i])
    BY <1>7
  <2>2. m.ptr \in DOMAIN m.bufs /\ Count(m) = m.bufs[m.ptr].count
    BY <2>1, CurrentBuffer
  <2>3. SameKeys(m.bufs[a], m.bufs[m.ptr])
    BY <2>2, SnapshotIs
  <2>4. QED
    <3>1. b.entry[i] = m.bufs[m.ptr].entry[from[i]]
      BY <2>1 DEF EntryAt
    <3>2. from[i] \in 1 .. m.bufs[m.ptr].count
      BY <2>1, <2>2
    <3>3. QED
      BY ZenonT(60), <1>7, <2>3, <3>1, <3>2 DEF SameKeys
<1>8. QED
  BY <1>5, <1>6, <1>7 DEF SameKeys

\* Field i of the fresh entries is field from[i] of the object.
TakenFrom(m, count, entries, from) ==
  /\ \A i \in 1 .. count : /\ from[i] \in 1 .. Count(m)
                            /\ entries[i] = EntryAt(m, from[i])
  /\ \A i, j \in 1 .. count : i # j => from[i] # from[j]

\* Grow and remove: a fresh buffer, whose fields are fields of the old one.
LEMMA BufferPublished ==
  ASSUME NEW m \in Memory, SnapshotOK(m), NEW entries \in Seq(Entry),
         Len(entries) <= MaxEntries, NEW count \in 0 .. Len(entries), NEW from,
         TakenFrom(m, count, entries, from),
         NEW n, n = Published(m, count, entries)
  PROVE  /\ n \in Memory /\ StoredOver(n, m)
         /\ n.ptr # Null /\ n.cells = m.cells
         /\ Count(n) = count /\ Cap(n) = Len(entries)
         /\ \A i \in 1 .. Len(entries) : EntryAt(n, i) = entries[i]
<1>1. /\ m.bufs \in Seq(Buffer) /\ Len(m.bufs) \in Nat /\ DOMAIN m.bufs = 1 .. Len(m.bufs)
      /\ Len(entries) \in Nat /\ MaxEntries \in Nat
  BY CurrentBuffer, ConstantsAssumption
<1>2. PICK b : b = [count |-> count, countRel |-> FALSE, entry |-> entries]
  OBVIOUS
<1>3. b \in Buffer /\ b.count = count /\ ~b.countRel /\ b.entry = entries
  BY <1>1, <1>2 DEF Buffer
<1>4. PICK bufs \in Seq(Buffer) : bufs = Append(m.bufs, b)
  BY <1>1, <1>3, AppendProperties
<1>5. PICK ptr \in Nat : ptr = Len(m.bufs) + 1
  BY <1>1
<1>6. /\ Len(bufs) = ptr /\ DOMAIN bufs = 1 .. ptr /\ bufs[ptr] = b
      /\ \A i \in DOMAIN m.bufs : bufs[i] = m.bufs[i] /\ i \in 1 .. ptr /\ i # ptr
      /\ \A i \in 1 .. ptr : i \in DOMAIN m.bufs \/ i = ptr
      /\ ptr # Null
  BY <1>1, <1>3, <1>4, <1>5, AppendProperties DEF Null
<1>7. n = [m EXCEPT !.bufs = bufs, !.ptr = ptr, !.ptrRel = TRUE]
  BY <1>2, <1>4, <1>5 DEF Published, PublishOrder, Release
<1>8. n \in Memory /\ n.bufs = bufs /\ n.ptr = ptr /\ n.ptrRel /\ n.cells = m.cells
  BY <1>3, <1>4, <1>5, <1>7 DEF Memory
<1>10. /\ n.ptr # Null /\ n.bufs[n.ptr] = b /\ Count(n) = count /\ Cap(n) = Len(entries)
       /\ \A i \in 1 .. Len(entries) : EntryAt(n, i) = entries[i]
  BY <1>3, <1>6, <1>8 DEF Count, Cap, EntryAt
<1>11. /\ FieldsOK(b, m.cells) /\ SameKeys(b, b)
       /\ \A a \in DOMAIN m.bufs : SameKeys(m.bufs[a], b) /\ SameKeys(b, m.bufs[a])
  <2>1. Len(b.entry) <= MaxEntries /\ b.count <= Len(b.entry)
    BY <1>1, <1>3
  <2>2. \A i \in 1 .. b.count : from[i] \in 1 .. Count(m) /\ b.entry[i] = EntryAt(m, from[i])
    BY <1>3 DEF TakenFrom
  <2>3. \A i, j \in 1 .. b.count : i # j => from[i] # from[j]
    BY <1>3 DEF TakenFrom
  <2>4. QED
    BY <1>3, <2>1, <2>2, <2>3, FreshBuffer
<1>12. SnapshotOK(n)
  <2>1. \A a \in DOMAIN bufs : FieldsOK(bufs[a], n.cells)
    BY <1>6, <1>8, <1>11, SnapshotIs
  <2>2. \A a, c \in DOMAIN bufs : SameKeys(bufs[a], bufs[c])
    BY <1>6, <1>11, SnapshotIs
  <2>3. n.ptr \in 0 .. Len(n.bufs)
    BY <1>6, <1>8
  <2>4. QED
    BY <1>8, <2>1, <2>2, <2>3, SnapshotIs
<1>13. Extends(m, n)
  <2>1. \A a \in DOMAIN m.bufs : a \in DOMAIN n.bufs /\ n.bufs[a] = m.bufs[a]
    BY <1>6, <1>8
  <2>2. QED
    BY <1>8, <2>1, CountsAreNat DEF Extends
<1>14. StoredOver(n, m)
  BY <1>6, <1>8, <1>12, <1>13 DEF StoredOver
<1>15. QED
  BY <1>8, <1>10, <1>14

\* The last field is removed: the pointer becomes null.
LEMMA NullPublished ==
  ASSUME NEW m \in Memory, SnapshotOK(m)
  PROVE  \E n \in Memory :
           /\ n = [m EXCEPT !.ptr = Null, !.ptrRel = (PublishOrder = Release)]
           /\ StoredOver(n, m)
           /\ n.ptr = Null /\ Count(n) = 0
<1>1. PICK n : n = [m EXCEPT !.ptr = Null, !.ptrRel = (PublishOrder = Release)]
  OBVIOUS
<1>2. /\ n \in Memory /\ n.ptr = Null /\ n.ptrRel
      /\ n.bufs = m.bufs /\ n.cells = m.cells
  BY <1>1 DEF Memory, Null, PublishOrder, Release
<1>3. Count(n) = 0 /\ Len(n.bufs) \in Nat
  BY <1>2, CurrentBuffer DEF Count
<1>4. SnapshotOK(n)
  BY <1>2, <1>3, SnapshotIs DEF Null
<1>5. Extends(m, n)
  BY <1>2, CountsAreNat DEF Extends
<1>6. StoredOver(n, m)
  BY <1>2, <1>4, <1>5 DEF StoredOver
<1>7. QED
  BY <1>1, <1>2, <1>3, <1>6

\* A field is overwritten: its cell changes, and keeps its type.
LEMMA CellWritten ==
  ASSUME NEW m \in Memory, SnapshotOK(m), m.ptrRel, NEW i \in 1 .. Count(m),
         NEW c, c = EntryAt(m, i).cell,
         NEW cell \in Cell, cell.type = m.cells[c].type
  PROVE  \E n \in Memory :
           /\ n = [m EXCEPT !.cells[c] = cell]
           /\ StoredOver(n, m)
           /\ n.bufs = m.bufs /\ n.ptr = m.ptr
           /\ n.cells = [m.cells EXCEPT ![c] = cell]
<1>1. /\ m.cells \in Seq(Cell) /\ Len(m.cells) \in Nat /\ DOMAIN m.cells = 1 .. Len(m.cells)
      /\ c \in DOMAIN m.cells
  BY CurrentBuffer, FieldOK
<1>2. PICK cells : cells = [m.cells EXCEPT ![c] = cell]
  OBVIOUS
<1>3. /\ cells \in Seq(Cell) /\ DOMAIN cells = DOMAIN m.cells /\ cells[c] = cell
      /\ \A d \in DOMAIN m.cells : d # c => cells[d] = m.cells[d]
  BY <1>1, <1>2
<1>4. PICK n : n = [m EXCEPT !.cells = cells]
  OBVIOUS
<1>5. /\ n \in Memory /\ n.ptr = m.ptr /\ n.ptrRel /\ n.bufs = m.bufs /\ n.cells = cells
  BY <1>3, <1>4 DEF Memory
<1>6. \A d \in DOMAIN m.cells : n.cells[d].type = m.cells[d].type
  BY <1>3, <1>5
<1>7. \A b \in DOMAIN m.bufs : FieldsOK(m.bufs[b], m.cells) => FieldsOK(m.bufs[b], cells)
  BY ZenonT(60), <1>3, <1>5, <1>6 DEF FieldsOK
<1>8. SnapshotOK(n)
  BY <1>5, <1>7, SnapshotIs
<1>9. Extends(m, n)
  BY <1>3, <1>5, <1>6, CountsAreNat DEF Extends
<1>10. Holds(n, EntryAt(m, i).key, c)
  BY <1>5 DEF Holds, Count, EntryAt
<1>11. StoredOver(n, m)
  BY <1>3, <1>5, <1>8, <1>9, <1>10 DEF StoredOver
<1>12. n = [m EXCEPT !.cells[c] = cell]
  BY <1>2, <1>4
<1>13. QED
  BY <1>2, <1>5, <1>11, <1>12

\* A buffer with the same fields is as good, and so are more cells.
SameFields(b, c) ==
  /\ c.count = b.count /\ b.count \in Nat /\ Len(c.entry) = Len(b.entry)
  /\ \A i \in 1 .. b.count : c.entry[i] = b.entry[i]
MoreCells(cells, more) == \A d \in DOMAIN cells : d \in DOMAIN more /\ more[d] = cells[d]

LEMMA SameFieldsOK ==
  ASSUME NEW b, NEW c, SameFields(b, c), NEW cells, NEW more, MoreCells(cells, more),
         FieldsOK(b, cells)
  PROVE  FieldsOK(c, more)
<1>1. /\ c.count = b.count /\ b.count \in Nat /\ Len(c.entry) = Len(b.entry)
      /\ \A i \in 1 .. b.count : c.entry[i] = b.entry[i]
  BY DEF SameFields
<1>2. ASSUME NEW i \in 1 .. c.count
      PROVE  /\ c.entry[i].cell \in DOMAIN more
             /\ c.entry[i].type = more[c.entry[i].cell].type
             /\ c.entry[i].key \in {FieldKey(n) : n \in Names}
             /\ \A j \in 1 .. i - 1 :
                  c.entry[j].key # c.entry[i].key /\ c.entry[j].cell # c.entry[i].cell
  <2>1. i \in 1 .. b.count /\ c.entry[i] = b.entry[i]
    BY <1>1
  <2>2. \A j \in 1 .. i - 1 : c.entry[j] = b.entry[j]
    BY <1>1, <2>1
  <2>3. /\ b.entry[i].cell \in DOMAIN cells
        /\ b.entry[i].type = cells[b.entry[i].cell].type
        /\ b.entry[i].key \in {FieldKey(n) : n \in Names}
        /\ \A j \in 1 .. i - 1 :
             b.entry[j].key # b.entry[i].key /\ b.entry[j].cell # b.entry[i].cell
    BY <2>1 DEF FieldsOK
  <2>4. more[b.entry[i].cell] = cells[b.entry[i].cell] /\ b.entry[i].cell \in DOMAIN more
    BY <2>3 DEF MoreCells
  <2>5. QED
    BY <2>1, <2>2, <2>3, <2>4
<1>3. QED
  BY <1>1, <1>2 DEF FieldsOK

LEMMA SameFieldsKeys ==
  ASSUME NEW b, NEW c, SameFields(b, c)
  PROVE  /\ SameKeys(b, b) => SameKeys(c, c)
         /\ \A a : /\ SameKeys(a, b) => SameKeys(a, c)
                   /\ SameKeys(b, a) => SameKeys(c, a)
<1>1. c.count = b.count /\ \A i \in 1 .. b.count : c.entry[i] = b.entry[i]
  BY DEF SameFields
<1>2. SameKeys(b, b) => SameKeys(c, c)
  BY <1>1 DEF SameKeys
<1>3. ASSUME NEW a, SameKeys(a, b) PROVE SameKeys(a, c)
  BY <1>1, <1>3 DEF SameKeys
<1>4. ASSUME NEW a, SameKeys(b, a) PROVE SameKeys(c, a)
  BY <1>1, <1>4 DEF SameKeys
<1>5. QED
  BY <1>2, <1>3, <1>4

\* The current buffer b is replaced by c, which has the same capacity.
BufferFits(m, c, cells) ==
  LET b == m.bufs[m.ptr] IN
  /\ m.ptr # Null /\ c \in Buffer /\ cells \in Seq(Cell)
  /\ b.count <= c.count /\ (c.countRel \/ (c.count = b.count /\ ~b.countRel))
  /\ \A i \in 1 .. b.count : c.entry[i] = b.entry[i]
  /\ FieldsOK(c, cells) /\ SameKeys(c, c)
  /\ \A a \in DOMAIN m.bufs : SameKeys(m.bufs[a], c) /\ SameKeys(c, m.bufs[a])
  /\ MoreCells(m.cells, cells)

Replaced(n, m, c, cells) ==
  /\ n \in Memory /\ n.ptr = m.ptr /\ n.ptrRel /\ n.cells = cells
  /\ Len(n.bufs) = Len(m.bufs) /\ DOMAIN n.bufs = DOMAIN m.bufs /\ n.bufs[m.ptr] = c
  /\ \A a \in DOMAIN m.bufs : a # m.ptr => n.bufs[a] = m.bufs[a]

LEMMA ReplacedIs ==
  ASSUME NEW m \in Memory, SnapshotOK(m), m.ptrRel, m.ptr # Null,
         NEW c \in Buffer, NEW cells \in Seq(Cell),
         NEW bufs, bufs = [m.bufs EXCEPT ![m.ptr] = c],
         NEW n, n = [m EXCEPT !.bufs = bufs, !.cells = cells]
  PROVE  Replaced(n, m, c, cells)
<1>1. /\ m.bufs \in Seq(Buffer) /\ Len(m.bufs) \in Nat /\ DOMAIN m.bufs = 1 .. Len(m.bufs)
      /\ m.ptr \in DOMAIN m.bufs
  BY CurrentBuffer
<1>2. /\ bufs \in Seq(Buffer) /\ Len(bufs) = Len(m.bufs) /\ DOMAIN bufs = DOMAIN m.bufs
      /\ bufs[m.ptr] = c /\ \A a \in DOMAIN m.bufs : a # m.ptr => bufs[a] = m.bufs[a]
  BY <1>1
<1>3. n \in Memory /\ n.ptr = m.ptr /\ n.ptrRel /\ n.bufs = bufs /\ n.cells = cells
  BY <1>2 DEF Memory
<1>4. QED
  BY <1>2, <1>3 DEF Replaced

LEMMA BufferChanged ==
  ASSUME NEW m \in Memory, SnapshotOK(m), NEW c, NEW cells,
         BufferFits(m, c, cells), NEW n, Replaced(n, m, c, cells)
  PROVE  /\ StoredOver(n, m)
         /\ Count(n) = c.count /\ Cap(n) = Len(c.entry)
         /\ \A i : EntryAt(n, i) = c.entry[i]
<1> PICK b : b = m.bufs[m.ptr]
  OBVIOUS
<1>0. /\ m.ptr # Null /\ c \in Buffer /\ cells \in Seq(Cell)
      /\ b.count <= c.count /\ (c.countRel \/ (c.count = b.count /\ ~b.countRel))
      /\ \A i \in 1 .. b.count : c.entry[i] = b.entry[i]
      /\ FieldsOK(c, cells) /\ SameKeys(c, c)
      /\ \A a \in DOMAIN m.bufs : SameKeys(m.bufs[a], c) /\ SameKeys(c, m.bufs[a])
      /\ \A d \in DOMAIN m.cells : d \in DOMAIN cells /\ cells[d] = m.cells[d]
  BY DEF BufferFits, MoreCells
<1>1. /\ m.bufs \in Seq(Buffer) /\ Len(m.bufs) \in Nat /\ DOMAIN m.bufs = 1 .. Len(m.bufs)
      /\ m.ptr \in DOMAIN m.bufs
  BY <1>0, CurrentBuffer
<1>2. PICK bufs : bufs = n.bufs
  OBVIOUS
<1>3. /\ Len(bufs) = Len(m.bufs) /\ DOMAIN bufs = DOMAIN m.bufs
      /\ bufs[m.ptr] = c /\ \A a \in DOMAIN m.bufs : a # m.ptr => bufs[a] = m.bufs[a]
  BY <1>2 DEF Replaced
<1>5. n \in Memory /\ n.ptr = m.ptr /\ n.ptrRel /\ n.bufs = bufs /\ n.cells = cells
  BY <1>2 DEF Replaced
<1>6. /\ Count(n) = c.count /\ Cap(n) = Len(c.entry)
      /\ \A i : EntryAt(n, i) = c.entry[i]
  BY <1>0, <1>1, <1>3, <1>5 DEF Count, Cap, EntryAt
<1>7. SnapshotOK(n)
  <2>1. \A a \in DOMAIN m.bufs : FieldsOK(m.bufs[a], m.cells) => FieldsOK(m.bufs[a], cells)
    BY <1>0 DEF FieldsOK
  <2>2. \A a \in DOMAIN bufs : FieldsOK(bufs[a], cells)
    BY <1>0, <1>3, <2>1, SnapshotIs
  <2>3. \A a, d \in DOMAIN bufs : SameKeys(bufs[a], bufs[d])
    BY <1>0, <1>3, SnapshotIs
  <2>4. n.ptr \in 0 .. Len(n.bufs)
    BY <1>1, <1>3, <1>5
  <2>5. QED
    BY <1>5, <2>2, <2>3, <2>4, SnapshotIs
<1>8. Extends(m, n)
  <2>1. ASSUME NEW a \in DOMAIN m.bufs
        PROVE  /\ a \in DOMAIN n.bufs
               /\ m.bufs[a].count <= n.bufs[a].count
               /\ n.bufs[a].countRel
                    \/ (n.bufs[a].count = m.bufs[a].count /\ ~m.bufs[a].countRel)
               /\ \A i \in 1 .. m.bufs[a].count : n.bufs[a].entry[i] = m.bufs[a].entry[i]
    BY <1>0, <1>3, <1>5, <2>1, CountsAreNat
  <2>2. QED
    BY <1>0, <1>5, <2>1 DEF Extends
<1>9. StoredOver(n, m)
  BY <1>0, <1>3, <1>5, <1>7, <1>8 DEF StoredOver
<1>10. QED
  BY <1>6, <1>9

Filled(m, entry, cell) ==
  [m EXCEPT !.bufs[m.ptr].entry[Count(m) + 1] = entry,
            !.cells = Append(m.cells, cell)]

\* A new field is filled in, behind the last one: nobody sees it yet.
LEMMA EntryFilled ==
  ASSUME NEW m \in Memory, SnapshotOK(m), m.ptrRel, Count(m) < Cap(m),
         NEW entry \in Entry, NEW cell \in Cell,
         NEW n, n = Filled(m, entry, cell)
  PROVE  /\ n \in Memory /\ StoredOver(n, m)
         /\ n.ptr = m.ptr /\ n.cells = Append(m.cells, cell)
         /\ Count(n) = Count(m) /\ Cap(n) = Cap(m)
         /\ \A i \in 1 .. Count(m) : EntryAt(n, i) = EntryAt(m, i)
         /\ EntryAt(n, Count(m) + 1) = entry
         /\ \A a \in DOMAIN n.bufs : \A i \in 1 .. n.bufs[a].count :
              n.bufs[a].entry[i].cell \in DOMAIN m.cells
<1>1. /\ m.bufs \in Seq(Buffer) /\ DOMAIN m.bufs = 1 .. Len(m.bufs)
      /\ m.ptr # Null /\ m.ptr \in DOMAIN m.bufs
      /\ m.cells \in Seq(Cell) /\ Len(m.cells) \in Nat /\ DOMAIN m.cells = 1 .. Len(m.cells)
      /\ Count(m) \in Nat /\ Cap(m) \in Nat
  BY CurrentBuffer DEF Null
<1>2. PICK b \in Buffer : b = m.bufs[m.ptr]
  BY <1>1
<1>3. /\ b.entry \in Seq(Entry) /\ Cap(m) = Len(b.entry) /\ Count(m) = b.count
      /\ \A i : EntryAt(m, i) = b.entry[i]
  BY <1>1, <1>2, CurrentBuffer DEF EntryAt
<1>4. PICK p \in 1 .. Len(b.entry) : p = Count(m) + 1
  BY <1>1, <1>3
<1>5. PICK entries : entries = [b.entry EXCEPT ![p] = entry]
  OBVIOUS
<1>6. /\ entries \in Seq(Entry) /\ Len(entries) = Len(b.entry) /\ entries[p] = entry
      /\ \A i \in 1 .. b.count : entries[i] = b.entry[i]
  BY <1>1, <1>3, <1>4, <1>5
<1>7. PICK c : c = [b EXCEPT !.entry = entries]
  OBVIOUS
<1>8. c \in Buffer /\ c.entry = entries /\ c.count = b.count /\ c.countRel = b.countRel
  BY <1>6, <1>7 DEF Buffer
<1>9. PICK cells \in Seq(Cell) : cells = Append(m.cells, cell)
  BY <1>1, AppendProperties
<1>10. \A d \in DOMAIN m.cells : d \in DOMAIN cells /\ cells[d] = m.cells[d]
  BY <1>1, <1>9, AppendProperties
<1>11. FieldsOK(b, m.cells) /\ \A a, d \in DOMAIN m.bufs : SameKeys(m.bufs[a], m.bufs[d])
  BY <1>1, <1>2, SnapshotIs
<1>12. SameFields(b, c) /\ MoreCells(m.cells, cells)
  BY <1>1, <1>3, <1>6, <1>8, <1>10 DEF SameFields, MoreCells
<1>13. FieldsOK(c, cells)
  BY <1>11, <1>12, SameFieldsOK
<1>14. /\ SameKeys(c, c)
       /\ \A a \in DOMAIN m.bufs : SameKeys(m.bufs[a], c) /\ SameKeys(c, m.bufs[a])
  <2>1. SameKeys(b, b) /\ \A a \in DOMAIN m.bufs : SameKeys(m.bufs[a], b) /\ SameKeys(b, m.bufs[a])
    BY <1>1, <1>2, <1>11
  <2>2. QED
    BY <1>12, <2>1, SameFieldsKeys
<1>15. BufferFits(m, c, cells)
  <2>1. b.count <= c.count /\ (c.countRel \/ (c.count = b.count /\ ~b.countRel))
    BY <1>1, <1>3, <1>8 DEF Buffer
  <2>2. \A i \in 1 .. b.count : c.entry[i] = b.entry[i]
    BY <1>6, <1>8
  <2>3. QED
    BY <1>1, <1>2, <1>8, <1>12, <1>13, <1>14, <2>1, <2>2 DEF BufferFits
<1>16. Replaced(n, m, c, cells)
  <2>1. PICK bufs : bufs = [m.bufs EXCEPT ![m.ptr] = c]
    OBVIOUS
  <2>2. bufs = [m.bufs EXCEPT ![m.ptr].entry[Count(m) + 1] = entry]
    BY <1>2, <1>4, <1>5, <1>7, <2>1
  <2>3. n = [m EXCEPT !.bufs = bufs, !.cells = cells]
    BY <1>9, <2>2 DEF Filled
  <2>4. QED
    BY <1>1, <1>8, <2>1, <2>3, ReplacedIs
<1>17. /\ n \in Memory /\ StoredOver(n, m)
       /\ n.ptr = m.ptr /\ n.cells = cells
       /\ Count(n) = c.count /\ Cap(n) = Len(c.entry)
       /\ \A i : EntryAt(n, i) = c.entry[i]
       /\ DOMAIN n.bufs = DOMAIN m.bufs /\ n.bufs[m.ptr] = c
       /\ \A a \in DOMAIN m.bufs : a # m.ptr => n.bufs[a] = m.bufs[a]
  <2>1. /\ StoredOver(n, m) /\ Count(n) = c.count /\ Cap(n) = Len(c.entry)
        /\ \A i : EntryAt(n, i) = c.entry[i]
    BY <1>15, <1>16, BufferChanged
  <2>2. QED
    BY <1>16, <2>1 DEF Replaced
<1>18. ASSUME NEW a \in DOMAIN n.bufs, NEW i \in 1 .. n.bufs[a].count
       PROVE  n.bufs[a].entry[i].cell \in DOMAIN m.cells
  <2>1. \A x \in DOMAIN m.bufs : \A j \in 1 .. m.bufs[x].count :
          m.bufs[x].entry[j].cell \in DOMAIN m.cells
    BY DEF SnapshotOK, WellFormed
  <2>2. CASE a = m.ptr
    <3>1. n.bufs[a] = c
      BY <1>17, <2>2
    <3>2. i \in 1 .. b.count /\ n.bufs[a].entry[i] = b.entry[i]
      BY <1>6, <1>8, <1>18, <3>1
    <3>3. QED
      BY <1>1, <1>2, <2>1, <3>2
  <2>3. CASE a # m.ptr
    BY <1>17, <1>18, <2>1, <2>3
  <2>4. QED
    BY <2>2, <2>3
<1>19. /\ \A i \in 1 .. Count(m) : EntryAt(n, i) = EntryAt(m, i)
       /\ EntryAt(n, Count(m) + 1) = entry
  <2>1. \A i : EntryAt(n, i) = entries[i]
    BY <1>8, <1>17
  <2>2. QED
    BY <1>3, <1>4, <1>6, <2>1
<1>20. QED
  BY <1>3, <1>6, <1>8, <1>9, <1>17, <1>18, <1>19

Committed(m) ==
  [m EXCEPT !.bufs[m.ptr].count = @ + 1,
            !.bufs[m.ptr].countRel = (CommitOrder = Release)]

\* The entry e is that of a field the object has not got, in a cell of its own.
NewField(m, e) ==
  /\ e.cell \in DOMAIN m.cells /\ e.type = m.cells[e.cell].type
  /\ e.key \in {FieldKey(x) : x \in Names}
  /\ \A i \in 1 .. Count(m) : EntryAt(m, i).key # e.key
  /\ \A a \in DOMAIN m.bufs : \A i \in 1 .. m.bufs[a].count :
       m.bufs[a].entry[i].cell # e.cell

\* The new field is counted.
LEMMA EntryCommitted ==
  ASSUME NEW m \in Memory, SnapshotOK(m), m.ptrRel, Count(m) < Cap(m),
         NEW e, e = EntryAt(m, Count(m) + 1), NewField(m, e),
         NEW n, n = Committed(m)
  PROVE  /\ n \in Memory /\ StoredOver(n, m)
         /\ n.ptr = m.ptr /\ n.cells = m.cells /\ Count(n) = Count(m) + 1
         /\ \A i : EntryAt(n, i) = EntryAt(m, i)
<1>1. /\ m.bufs \in Seq(Buffer) /\ DOMAIN m.bufs = 1 .. Len(m.bufs)
      /\ m.ptr # Null /\ m.ptr \in DOMAIN m.bufs
      /\ m.cells \in Seq(Cell) /\ Count(m) \in Nat /\ Cap(m) \in 0 .. MaxEntries
      /\ MaxEntries \in Nat
  BY CurrentBuffer, ConstantsAssumption DEF Null
<1>2. PICK b \in Buffer : b = m.bufs[m.ptr]
  BY <1>1
<1>3. /\ b.entry \in Seq(Entry) /\ Cap(m) = Len(b.entry) /\ Count(m) = b.count
      /\ \A i : EntryAt(m, i) = b.entry[i]
  BY <1>1, <1>2, CurrentBuffer DEF EntryAt
<1>4. PICK p \in 0 .. MaxEntries : p = b.count + 1
  BY <1>1, <1>3
<1>5. PICK c : c = [b EXCEPT !.count = p, !.countRel = TRUE]
  OBVIOUS
<1>6. c \in Buffer /\ c.entry = b.entry /\ c.count = b.count + 1 /\ c.countRel
  BY <1>4, <1>5 DEF Buffer
<1>7. FieldsOK(b, m.cells) /\ \A a, d \in DOMAIN m.bufs : SameKeys(m.bufs[a], m.bufs[d])
  BY <1>1, <1>2, SnapshotIs
<1>8. /\ b.entry[b.count + 1] = e /\ b.count \in Nat
      /\ \A i \in 1 .. b.count : b.entry[i].key # e.key
      /\ \A i \in 1 .. b.count : b.entry[i].cell # e.cell
  <2>1. b.entry[b.count + 1] = e /\ b.count \in Nat
    BY <1>1, <1>3
  <2>2. ASSUME NEW i \in 1 .. b.count PROVE b.entry[i].key # e.key
    BY <1>3 DEF NewField
  <2>3. ASSUME NEW i \in 1 .. b.count PROVE b.entry[i].cell # e.cell
    BY <1>1, <1>2 DEF NewField
  <2>4. QED
    BY <2>1, <2>2, <2>3
<1>9. FieldsOK(c, m.cells)
  <2>1. ASSUME NEW i \in 1 .. b.count + 1
        PROVE  /\ b.entry[i].cell \in DOMAIN m.cells
               /\ b.entry[i].type = m.cells[b.entry[i].cell].type
               /\ b.entry[i].key \in {FieldKey(x) : x \in Names}
               /\ \A j \in 1 .. i - 1 :
                    b.entry[j].key # b.entry[i].key /\ b.entry[j].cell # b.entry[i].cell
    <3>1. CASE i = b.count + 1
      <4>1. b.entry[i] = e /\ 1 .. i - 1 = 1 .. b.count
        BY <1>8, <3>1
      <4>2. QED
        BY <1>8, <4>1 DEF NewField
    <3>2. CASE i # b.count + 1
      <4>1. i \in 1 .. b.count
        BY <1>8, <3>2
      <4>2. QED
        BY <1>7, <4>1 DEF FieldsOK
    <3>3. QED
      BY <3>1, <3>2
  <2>2. b.count + 1 <= Len(b.entry) /\ Len(b.entry) <= MaxEntries
    BY <1>1, <1>3
  <2>3. QED
    BY <1>6, <2>1, <2>2 DEF FieldsOK
<1>10. ASSUME NEW a \in DOMAIN m.bufs, NEW i \in 1 .. b.count + 1, NEW j \in 1 .. m.bufs[a].count,
              b.entry[i].cell = m.bufs[a].entry[j].cell
       PROVE  b.entry[i].key = m.bufs[a].entry[j].key
  <2>1. i # b.count + 1
    BY <1>8, <1>10 DEF NewField
  <2>2. i \in 1 .. b.count
    BY <1>8, <2>1
  <2>3. SameKeys(b, m.bufs[a])
    BY <1>1, <1>2, <1>7
  <2>4. QED
    BY <1>10, <2>2, <2>3 DEF SameKeys
<1>11. SameKeys(c, c)
  <2>1. \A i \in 1 .. b.count + 1 : \A j \in 1 .. i - 1 : b.entry[j].cell # b.entry[i].cell
    BY <1>6, <1>9 DEF FieldsOK
  <2>2. \A i, j \in 1 .. b.count + 1 : i # j => j \in 1 .. i - 1 \/ i \in 1 .. j - 1
    BY <1>8
  <2>3. \A i, j \in 1 .. b.count + 1 : i # j => b.entry[i].cell # b.entry[j].cell
    BY <2>1, <2>2
  <2>4. QED
    BY <1>6, <2>3 DEF SameKeys
<1>12. \A a \in DOMAIN m.bufs : SameKeys(m.bufs[a], c) /\ SameKeys(c, m.bufs[a])
  BY <1>6, <1>10 DEF SameKeys
<1>13. Replaced(n, m, c, m.cells)
  <2>1. PICK bufs : bufs = [m.bufs EXCEPT ![m.ptr] = c]
    OBVIOUS
  <2>2. bufs = [m.bufs EXCEPT ![m.ptr].count = @ + 1,
                              ![m.ptr].countRel = (CommitOrder = Release)]
    BY <1>1, <1>2, <1>4, <1>5, <2>1 DEF CommitOrder, Release
  <2>3. n = [m EXCEPT !.bufs = bufs, !.cells = m.cells]
    BY <2>2 DEF Memory, Committed
  <2>4. QED
    BY <1>1, <1>6, <2>1, <2>3, ReplacedIs
<1>14. b.count <= c.count /\ \A i \in 1 .. b.count : c.entry[i] = b.entry[i]
  BY <1>6, <1>8
<1>15. BufferFits(m, c, m.cells)
  BY <1>1, <1>2, <1>6, <1>9, <1>11, <1>12, <1>14 DEF BufferFits, MoreCells
<1>16. StoredOver(n, m) /\ Count(n) = c.count /\ \A i : EntryAt(n, i) = c.entry[i]
  BY <1>13, <1>15, BufferChanged
<1>17. n \in Memory /\ n.ptr = m.ptr /\ n.cells = m.cells
  BY <1>13 DEF Replaced
<1>18. QED
  BY <1>3, <1>6, <1>16, <1>17

-----------------------------------------------------------------------------
(* What the stores do to the map the object stands for. *)

\* The snapshot has the field, with that type and value.
FieldIs(m, key, t, v) ==
  \E i \in 1 .. Count(m) : /\ EntryAt(m, i).key = key /\ EntryAt(m, i).type = t
                           /\ m.cells[EntryAt(m, i).cell].val = v

SameMap(n, m) == \A key, t, v : FieldIs(n, key, t, v) <=> FieldIs(m, key, t, v)

SetMap(n, m, k) ==
  \E t \in Types, v \in Values \cup {Zero} :
    /\ \A u, x : FieldIs(m, k, u, x) => u = t
    /\ \A key, u, x :
         FieldIs(n, key, u, x) <=> IF key = k THEN u = t /\ x = v
                                   ELSE FieldIs(m, key, u, x)

RemoveMap(n, m, k) ==
  /\ \E t, v : FieldIs(m, k, t, v)
  /\ \A key, t, v : FieldIs(n, key, t, v) <=> key # k /\ FieldIs(m, key, t, v)

MapStep(n, m) ==
  SameMap(n, m) \/ \E k \in Keys : SetMap(n, m, k) \/ RemoveMap(n, m, k)

\* Other buffer, same fields in the same cells.
LEMMA SameMapIs ==
  ASSUME NEW m \in Memory, SnapshotOK(m), NEW n \in Memory, Count(n) = Count(m),
         \A i \in 1 .. Count(m) : EntryAt(n, i) = EntryAt(m, i),
         \A d \in DOMAIN m.cells : n.cells[d] = m.cells[d]
  PROVE  SameMap(n, m)
<1>1. \A i \in 1 .. Count(m) : n.cells[EntryAt(m, i).cell] = m.cells[EntryAt(m, i).cell]
  BY FieldOK
<1>2. ASSUME NEW key, NEW t, NEW v PROVE FieldIs(n, key, t, v) <=> FieldIs(m, key, t, v)
  BY <1>1 DEF FieldIs
<1>3. QED
  BY <1>2 DEF SameMap

\* The value of one field changes.
LEMMA SetMapIs ==
  ASSUME NEW m \in Memory, SnapshotOK(m), NEW n \in Memory, SnapshotOK(n),
         NEW i \in 1 .. Count(n), NEW k, EntryAt(n, i).key = k,
         k \in Keys, EntryAt(n, i).type \in Types,
         \A u, x : FieldIs(m, k, u, x) => u = EntryAt(n, i).type,
         \A j \in 1 .. Count(m) : EntryAt(m, j).key # k =>
           \E x \in 1 .. Count(n) : /\ EntryAt(n, x) = EntryAt(m, j)
                                    /\ n.cells[EntryAt(m, j).cell] = m.cells[EntryAt(m, j).cell],
         \A j \in 1 .. Count(n) : j # i =>
           \E x \in 1 .. Count(m) : /\ EntryAt(m, x) = EntryAt(n, j)
                                    /\ n.cells[EntryAt(n, j).cell] = m.cells[EntryAt(n, j).cell]
  PROVE  SetMap(n, m, k)
<1> DEFINE e == EntryAt(n, i)
           v == n.cells[e.cell].val
<1>1. v \in Values \cup {Zero}
  <2>1. e.cell \in DOMAIN n.cells /\ n.cells \in Seq(Cell)
    BY FieldOK, CurrentBuffer
  <2>2. n.cells[e.cell] \in Cell
    BY <2>1
  <2>3. QED
    BY <2>2 DEF Cell
<1>2. \A j \in 1 .. Count(n) : j # i => EntryAt(n, j).key # k
  BY DistinctFields
<1>3. ASSUME NEW u, NEW x PROVE FieldIs(n, k, u, x) <=> u = e.type /\ x = v
  BY <1>2 DEF FieldIs
<1>4. ASSUME NEW key, NEW u, NEW x, key # k, FieldIs(n, key, u, x)
      PROVE  FieldIs(m, key, u, x)
  <2>1. PICK j \in 1 .. Count(n) : /\ EntryAt(n, j).key = key /\ EntryAt(n, j).type = u
                                   /\ n.cells[EntryAt(n, j).cell].val = x
    BY <1>4 DEF FieldIs
  <2>2. j # i
    BY <1>4, <2>1
  <2>3. PICK y \in 1 .. Count(m) :
          /\ EntryAt(m, y) = EntryAt(n, j)
          /\ n.cells[EntryAt(n, j).cell] = m.cells[EntryAt(n, j).cell]
    BY <2>2
  <2>4. QED
    BY <2>1, <2>3 DEF FieldIs
<1>5. ASSUME NEW key, NEW u, NEW x, key # k, FieldIs(m, key, u, x)
      PROVE  FieldIs(n, key, u, x)
  <2>1. PICK j \in 1 .. Count(m) : /\ EntryAt(m, j).key = key /\ EntryAt(m, j).type = u
                                   /\ m.cells[EntryAt(m, j).cell].val = x
    BY <1>5 DEF FieldIs
  <2>2. PICK y \in 1 .. Count(n) :
          /\ EntryAt(n, y) = EntryAt(m, j)
          /\ n.cells[EntryAt(m, j).cell] = m.cells[EntryAt(m, j).cell]
    BY <1>5, <2>1
  <2>3. QED
    BY <2>1, <2>2 DEF FieldIs
<1> HIDE DEF v
<1>6. QED
  BY <1>1, <1>3, <1>4, <1>5 DEF SetMap

\* One field is gone, the others are where they were or moved.
LEMMA RemoveMapIs ==
  ASSUME NEW m \in Memory, SnapshotOK(m), NEW n \in Memory, n.cells = m.cells,
         NEW i \in 1 .. Count(m), NEW k, EntryAt(m, i).key = k,
         \A j \in 1 .. Count(m) : j # i =>
           \E x \in 1 .. Count(n) : EntryAt(n, x) = EntryAt(m, j),
         \A x \in 1 .. Count(n) :
           \E j \in 1 .. Count(m) : j # i /\ EntryAt(n, x) = EntryAt(m, j)
  PROVE  RemoveMap(n, m, k)
<1>1. \A j \in 1 .. Count(m) : j # i => EntryAt(m, j).key # k
  BY DistinctFields
<1>2. \E t, v : FieldIs(m, k, t, v)
  BY DEF FieldIs
<1>3. ASSUME NEW key, NEW t, NEW v, FieldIs(n, key, t, v)
      PROVE  key # k /\ FieldIs(m, key, t, v)
  <2>1. PICK x \in 1 .. Count(n) : /\ EntryAt(n, x).key = key /\ EntryAt(n, x).type = t
                                   /\ n.cells[EntryAt(n, x).cell].val = v
    BY <1>3 DEF FieldIs
  <2>2. PICK j \in 1 .. Count(m) : j # i /\ EntryAt(n, x) = EntryAt(m, j)
    OBVIOUS
  <2>3. QED
    BY <1>1, <2>1, <2>2 DEF FieldIs
<1>4. ASSUME NEW key, NEW t, NEW v, key # k, FieldIs(m, key, t, v)
      PROVE  FieldIs(n, key, t, v)
  <2>1. PICK j \in 1 .. Count(m) : /\ EntryAt(m, j).key = key /\ EntryAt(m, j).type = t
                                   /\ m.cells[EntryAt(m, j).cell].val = v
    BY <1>4 DEF FieldIs
  <2>2. PICK x \in 1 .. Count(n) : EntryAt(n, x) = EntryAt(m, j)
    BY <1>4, <2>1
  <2>3. QED
    BY <2>1, <2>2 DEF FieldIs
<1>5. QED
  BY <1>2, <1>3, <1>4 DEF RemoveMap

-----------------------------------------------------------------------------
(* The actions of the writer. *)

WriterInv == TypeOK /\ HistoryOK /\ WriterOK

\* What an action may leave: the memory as it was, or one store.
Stored ==
  \/ UNCHANGED memoryVars
  \/ \E m \in Memory : Store(m) /\ StoredOver(m, Now) /\ MapStep(m, Now)

LEMMA NowOK ==
  ASSUME WriterInv
  PROVE  /\ Now \in Memory /\ SnapshotOK(Now)
         /\ Now.ptr # Null => Now.ptrRel
         /\ w \in Writer
<1>1. Now \in Memory /\ Len(hist) \in Nat \ {0} /\ Now = hist[Len(hist)]
  BY NowType DEF WriterInv
<1>2. QED
  BY <1>1 DEF WriterInv, HistoryOK, TypeOK

LEMMA NowStays ==
  ASSUME UNCHANGED memoryVars
  PROVE  Now' = Now /\ hist' = hist /\ floor' = floor
BY DEF memoryVars, Now

LEMMA IdleWriterType ==
  /\ IdleWriter \in Writer /\ IdleWriter.pc = "idle" /\ IdleWriter.op = "none"
BY DEF IdleWriter, Writer

\* A writer that is idle after a call.
LEMMA IdleAfter ==
  ASSUME NEW op \in {"set", "remove"}, NEW n \in Names, NEW ret \in {0, -1},
         NEW q, q = [IdleWriter EXCEPT !.op = op, !.name = n, !.ret = ret]
  PROVE  q \in Writer /\ q.pc = "idle" /\ q.op = op /\ q.name = n /\ q.ret = ret
<1>1. PICK i \in Writer : i = IdleWriter /\ i.pc = "idle"
  BY IdleWriterType
<1>2. q = [i EXCEPT !.op = op, !.name = n, !.ret = ret]
  BY <1>1
<1>3. QED
  BY <1>1, <1>2 DEF Writer

LEMMA IdleAfterSet ==
  ASSUME NEW n \in Names, NEW q, q = [IdleWriter EXCEPT !.op = "set", !.name = n]
  PROVE  q \in Writer /\ q.pc = "idle" /\ q.op = "set" /\ q.name = n
<1>1. PICK i \in Writer : i = IdleWriter /\ i.pc = "idle"
  BY IdleWriterType
<1>2. q = [i EXCEPT !.op = "set", !.name = n]
  BY <1>1
<1>3. QED
  BY <1>1, <1>2 DEF Writer

\* What is written keeps the type of the cell.
LEMMA WrittenType ==
  ASSUME NEW old \in Cell, NEW v \in Values \cup {Zero}, NEW cell \in Written(old, v)
  PROVE  cell \in Cell /\ cell.type = old.type
<1>1. cell = old \/ cell = [old EXCEPT !.val = v]
  BY DEF Written
<1>2. PICK new : new = [old EXCEPT !.val = v]
  OBVIOUS
<1>3. new \in Cell /\ new.type = old.type
  BY <1>2 DEF Cell
<1>4. QED
  BY <1>1, <1>2, <1>3

LEMMA OverwriteStep ==
  ASSUME WriterInv, NEW n \in Names, NEW t \in Types, NEW v \in ValuesOf(t),
         Overwrite(n, t, v)
  PROVE  /\ UNCHANGED rd /\ Stored
         /\ \/ /\ UNCHANGED fault /\ w' \in Writer
               /\ w'.pc = "idle" /\ w'.op = "set"
            \/ fault' = "abort" /\ UNCHANGED <<memoryVars, w>>
<1>1. PICK i \in Find(Now, FieldKey(n)) :
        IF EntryAt(Now, i).type = t
        THEN /\ \E cell \in Written(Now.cells[EntryAt(Now, i).cell], v) :
                  StoreIfChanged([Now EXCEPT !.cells[EntryAt(Now, i).cell] = cell])
             /\ w' = [IdleWriter EXCEPT !.op = "set", !.name = n]
             /\ UNCHANGED fault
        ELSE /\ fault' = "abort"
             /\ UNCHANGED <<memoryVars, w>>
  BY DEF Overwrite
<1>2. Now \in Memory /\ SnapshotOK(Now) /\ UNCHANGED rd
  BY NowOK DEF Overwrite
<1>3. i \in 1 .. Count(Now) /\ EntryAt(Now, i).key = FieldKey(n)
  BY <1>2, FindIs
<1>4. CASE EntryAt(Now, i).type # t
  BY <1>1, <1>2, <1>4 DEF Stored
<1>5. CASE EntryAt(Now, i).type = t
  <2>1. PICK c : c = EntryAt(Now, i).cell
    OBVIOUS
  <2>2. PICK cell \in Written(Now.cells[c], v) : StoreIfChanged([Now EXCEPT !.cells[c] = cell])
    BY <1>1, <1>5, <2>1
  <2>3. c \in DOMAIN Now.cells /\ Now.cells[c] \in Cell
    BY <1>2, <1>3, <2>1, FieldOK, CurrentBuffer
  <2>4. v \in Values \cup {Zero}
    BY DEF ValuesOf
  <2>5. cell \in Cell /\ cell.type = Now.cells[c].type
    BY <2>3, <2>4, WrittenType
  <2>6. Now.ptrRel
    BY <1>2, <1>3, CurrentBuffer, NowOK
  <2>7. PICK m \in Memory :
          /\ m = [Now EXCEPT !.cells[c] = cell]
          /\ StoredOver(m, Now)
          /\ m.bufs = Now.bufs /\ m.ptr = Now.ptr
          /\ m.cells = [Now.cells EXCEPT ![c] = cell]
    BY <1>2, <1>3, <2>1, <2>5, <2>6, CellWritten
  <2>8. StoreIfChanged(m)
    BY <2>2, <2>7
  <2>9. MapStep(m, Now)
    <3>1. /\ Count(m) = Count(Now) /\ SnapshotOK(m)
          /\ \A j : EntryAt(m, j) = EntryAt(Now, j)
      BY <2>7 DEF Count, EntryAt, StoredOver
    <3>2. \A j \in 1 .. Count(Now) : j # i =>
            m.cells[EntryAt(Now, j).cell] = Now.cells[EntryAt(Now, j).cell]
      <4>1. ASSUME NEW j \in 1 .. Count(Now), j # i
            PROVE  EntryAt(Now, j).cell # c /\ EntryAt(Now, j).cell \in DOMAIN Now.cells
        BY <1>2, <1>3, <2>1, <4>1, DistinctFields, FieldOK
      <4>2. QED
        BY <2>7, <4>1
    <3>3. ASSUME NEW u, NEW x, FieldIs(Now, FieldKey(n), u, x)
          PROVE  u = EntryAt(m, i).type
      <4>1. PICK j \in 1 .. Count(Now) : EntryAt(Now, j).key = FieldKey(n) /\ EntryAt(Now, j).type = u
        BY <3>3 DEF FieldIs
      <4>2. j = i
        BY <1>2, <1>3, <4>1, DistinctFields
      <4>3. QED
        BY <3>1, <4>1, <4>2
    <3>4. EntryAt(m, i).key = FieldKey(n) /\ EntryAt(m, i).type \in Types
      BY <1>3, <1>5, <3>1
    <3>5. \A j \in 1 .. Count(Now) : EntryAt(Now, j).key # FieldKey(n) =>
            \E x \in 1 .. Count(m) :
              /\ EntryAt(m, x) = EntryAt(Now, j)
              /\ m.cells[EntryAt(Now, j).cell] = Now.cells[EntryAt(Now, j).cell]
      BY <1>3, <3>1, <3>2
    <3>6. \A j \in 1 .. Count(m) : j # i =>
            \E x \in 1 .. Count(Now) :
              /\ EntryAt(Now, x) = EntryAt(m, j)
              /\ m.cells[EntryAt(m, j).cell] = Now.cells[EntryAt(m, j).cell]
      BY <3>1, <3>2
    <3>7. FieldKey(n) \in Keys
      BY DEF Keys
    <3>8. SetMap(m, Now, FieldKey(n))
      BY <1>2, <1>3, <3>1, <3>3, <3>4, <3>5, <3>6, <3>7, SetMapIs
    <3>9. QED
      BY <3>7, <3>8 DEF MapStep
  <2>10. Stored
    BY <2>7, <2>8, <2>9 DEF StoreIfChanged, Stored
  <2>11. w' \in Writer /\ w'.pc = "idle" /\ w'.op = "set"
    BY ZenonT(60), <1>1, <1>5, IdleAfterSet
  <2>12. QED
    BY <1>1, <1>2, <1>5, <2>10, <2>11
<1>6. QED
  BY <1>4, <1>5

\* A key that is not in the object is in no copy of it.
LEMMA StillMissing ==
  ASSUME NEW m \in Memory, SnapshotOK(m), NEW n \in Memory, SnapshotOK(n),
         Count(n) = Count(m), \A i \in 1 .. Count(m) : EntryAt(n, i) = EntryAt(m, i),
         NEW key, ~Has(m, key)
  PROVE  ~Has(n, key)
BY FindIs

\* A doubled capacity has room for more, or it wrapped and has room for less.
LEMMA NextCapIs ==
  ASSUME NEW c \in 0 .. MaxEntries
  PROVE  /\ NextCap(c) \in Nat
         /\ c < NextCap(c) \/ (NextCap(c) < c /\ U32 <= 2 * c)
<1>1. /\ FirstCap \in 1 .. MaxEntries /\ MaxEntries \in 1 .. U32 - 1
      /\ U32 \in Nat \ {0} /\ c \in Nat /\ c < U32
  BY ConstantsAssumption
<1>2. CASE c = 0
  BY <1>1, <1>2 DEF NextCap
<1>3. CASE c # 0 /\ 2 * c < U32
  <2>1. (c * 2) % U32 = 2 * c
    BY <1>1, <1>3
  <2>2. QED
    BY <1>1, <1>3, <2>1 DEF NextCap
<1>4. CASE c # 0 /\ U32 <= 2 * c
  <2>1. (c * 2) % U32 = 2 * c - U32
    BY <1>1, <1>4
  <2>2. QED
    BY <1>1, <1>4, <2>1 DEF NextCap
<1>5. QED
  BY <1>1, <1>2, <1>3, <1>4

LEMMA AddEntryStep ==
  ASSUME WriterInv, NEW n \in Names, NEW t \in Types, NEW v \in ValuesOf(t),
         AddEntry(n, t, v)
  PROVE  /\ UNCHANGED rd /\ Stored
         /\ \/ UNCHANGED fault /\ WriterOK' /\ w' \in Writer /\ w'.op = "set"
            \/ /\ fault' = "overrun_write" /\ UNCHANGED <<memoryVars, w>>
               /\ Count(Now) = Cap(Now) /\ U32 <= 2 * Cap(Now)
<1>1. /\ Now \in Memory /\ SnapshotOK(Now) /\ UNCHANGED rd
      /\ ~Has(Now, FieldKey(n))
  BY NowOK DEF AddEntry
<1>2. v \in Values \cup {Zero}
  BY DEF ValuesOf
<1>3. CASE /\ MallocMayFail /\ Count(Now) >= Cap(Now)
           /\ w' = [IdleWriter EXCEPT !.op = "set", !.name = n, !.ret = -1]
           /\ UNCHANGED <<memoryVars, fault>>
  <2>1. w' \in Writer /\ w'.pc = "idle" /\ w'.op = "set"
    <3>1. PICK i \in Writer : i = IdleWriter /\ i.pc = "idle"
      BY IdleWriterType
    <3>2. w' = [i EXCEPT !.op = "set", !.name = n, !.ret = -1]
      BY <1>3, <3>1
    <3>3. QED
      BY <3>1, <3>2 DEF Writer
  <2>2. WriterOK'
    BY <2>1 DEF WriterOK
  <2>3. QED
    BY <1>1, <1>3, <2>1, <2>2 DEF Stored
<1>4. CASE /\ \E m \in AddOutcomes : StoreIfChanged(m)
           /\ w' = [pc |-> "fill", op |-> "set", name |-> n, type |-> t, val |-> v, ret |-> 0]
           /\ UNCHANGED fault
  <2>1. PICK m \in AddOutcomes : StoreIfChanged(m)
    BY <1>4
  <2>2. /\ w' \in Writer /\ w'.pc = "fill" /\ w'.op = "set" /\ w'.name = n
        /\ w'.type = t
    BY <1>2, <1>4 DEF Writer
  <2>3. WriterOK' <=> Count(Now)' < Cap(Now)' /\ ~Has(Now, FieldKey(n))'
    BY <2>2 DEF WriterOK
  <2>4. CASE Count(Now) < Cap(Now)
    <3>1. UNCHANGED memoryVars
      BY <2>1, <2>4 DEF AddOutcomes, StoreIfChanged
    <3>2. WriterOK'
      BY <1>1, <2>3, <2>4, <3>1, NowStays
    <3>3. QED
      BY <1>1, <1>4, <2>2, <3>1, <3>2 DEF Stored
  <2>5. CASE ~(Count(Now) < Cap(Now))
    <3>1. PICK c : c = NextCap(Cap(Now))
      OBVIOUS
    <3>2. PICK entries : entries = [i \in 1 .. c |-> IF i <= Count(Now) THEN EntryAt(Now, i)
                                                   ELSE ZeroEntry]
      OBVIOUS
    <3>3. c \in Count(Now) .. MaxEntries /\ m = Published(Now, Count(Now), entries)
      BY <2>1, <2>5, <3>1, <3>2 DEF AddOutcomes
    <3>4. /\ Count(Now) \in Nat /\ Cap(Now) = Count(Now) /\ MaxEntries \in Nat
          /\ Cap(Now) \in 0 .. MaxEntries
      BY <1>1, <2>5, CurrentBuffer, ConstantsAssumption
    <3>5. c \in Nat /\ Count(Now) < c
      BY <3>1, <3>3, <3>4, NextCapIs
    <3>6. /\ entries \in Seq(Entry) /\ Len(entries) = c
          /\ \A i \in 1 .. Count(Now) : entries[i] = EntryAt(Now, i)
      <4>1. ZeroEntry \in Entry
        BY DEF ZeroEntry, Entry, Null
      <4>2. \A i \in 1 .. c : i <= Count(Now) => EntryAt(Now, i) \in Entry
        BY <1>1, <3>4, CurrentBuffer
      <4>3. entries \in [1 .. c -> Entry]
        BY <3>2, <4>1, <4>2
      <4>4. entries \in Seq(Entry) /\ Len(entries) = c
        BY <3>5, <4>3
      <4>5. QED
        BY <3>2, <3>4, <3>5, <4>4
    <3>7. PICK from : from = [i \in 1 .. Count(Now) |-> i]
      OBVIOUS
    <3>8. TakenFrom(Now, Count(Now), entries, from)
      BY <3>6, <3>7 DEF TakenFrom
    <3>9. Count(Now) \in 0 .. Len(entries) /\ Len(entries) <= MaxEntries
      BY <3>3, <3>4, <3>5, <3>6
    <3>10. /\ m \in Memory /\ StoredOver(m, Now)
           /\ m.ptr # Null /\ m.cells = Now.cells
           /\ Count(m) = Count(Now) /\ Cap(m) = Len(entries)
           /\ \A i \in 1 .. Len(entries) : EntryAt(m, i) = entries[i]
      BY <1>1, <3>3, <3>6, <3>8, <3>9, BufferPublished
    <3>11. Count(m) < Cap(m) /\ m \in Memory /\ StoredOver(m, Now) /\ SnapshotOK(m)
      BY <3>3, <3>5, <3>6, <3>10 DEF StoredOver
    <3>12. \A i \in 1 .. Count(Now) : EntryAt(m, i) = EntryAt(Now, i)
      BY <3>3, <3>6, <3>9, <3>10
    <3>13. Store(m)
      BY <2>1, <2>5, <3>11 DEF StoreIfChanged
    <3>14. MapStep(m, Now)
      BY <1>1, <3>3, <3>10, <3>11, <3>12, SameMapIs DEF MapStep
    <3>15. ~Has(m, FieldKey(n))
      BY <1>1, <3>3, <3>10, <3>11, <3>12, StillMissing
    <3>16. Now' = m
      BY <3>11, <3>13, StoreHistory DEF WriterInv
    <3>17. WriterOK'
      BY <2>3, <3>11, <3>15, <3>16
    <3>18. QED
      BY <1>1, <1>4, <2>2, <3>11, <3>13, <3>14, <3>17 DEF Stored
  <2>6. QED
    BY <2>4, <2>5
<1>5. CASE /\ Count(Now) >= Cap(Now) /\ NextCap(Cap(Now)) < Count(Now)
           /\ fault' = "overrun_write" /\ UNCHANGED <<memoryVars, w>>
  <2>1. /\ Count(Now) \in Nat /\ Cap(Now) = Count(Now) /\ Cap(Now) \in 0 .. MaxEntries
    BY <1>1, <1>5, CurrentBuffer, ConstantsAssumption
  <2>2. U32 <= 2 * Cap(Now)
    BY <1>5, <2>1, NextCapIs
  <2>3. QED
    BY <1>1, <1>5, <2>1, <2>2 DEF Stored
<1>6. QED
  BY <1>3, <1>4, <1>5 DEF AddEntry

LEMMA FillEntryStep ==
  ASSUME WriterInv, FillEntry
  PROVE  /\ UNCHANGED rd /\ Stored /\ WriterOK' /\ w' \in Writer
         /\ w.op = "set" /\ w'.op = "set"
         /\ \/ UNCHANGED fault
            \/ fault' = "null_write" /\ UNCHANGED w
<1>1. /\ Now \in Memory /\ SnapshotOK(Now) /\ UNCHANGED rd /\ w \in Writer
      /\ Now.ptr # Null => Now.ptrRel
  BY NowOK DEF FillEntry
<1>2. /\ w.pc = "fill" /\ w.op = "set" /\ w.name \in Names /\ w.type \in Types
      /\ Count(Now) < Cap(Now) /\ ~Has(Now, FieldKey(w.name))
  BY DEF FillEntry, WriterInv, WriterOK
<1>3. CASE fault' = "null_write" /\ UNCHANGED <<memoryVars, w>>
  <2>1. WriterOK'
    BY <1>3, NowStays DEF WriterInv, WriterOK
  <2>2. QED
    BY <1>1, <1>2, <1>3, <2>1 DEF Stored
<1>4. ASSUME ~(fault' = "null_write" /\ UNCHANGED <<memoryVars, w>>)
      PROVE  /\ Stored /\ WriterOK' /\ w' \in Writer /\ w'.op = "set" /\ UNCHANGED fault
  <2>1. PICK entry : entry = [key |-> FieldKey(w.name), type |-> w.type,
                              cell |-> Len(Now.cells) + 1]
    OBVIOUS
  <2>2. PICK cell \in Written([type |-> w.type, val |-> Zero], w.val) :
          /\ Store(Filled(Now, entry, cell))
          /\ w' = [w EXCEPT !.pc = "commit"]
          /\ UNCHANGED fault
    BY <1>2, <1>4, <2>1 DEF FillEntry, Filled
  <2>3. /\ Now.ptr # Null /\ Now.cells \in Seq(Cell) /\ Len(Now.cells) \in Nat
        /\ DOMAIN Now.cells = 1 .. Len(Now.cells) /\ Count(Now) \in Nat
    BY <1>1, <1>2, CurrentBuffer
  <2>4. PICK at \in Nat : at = Len(Now.cells) + 1
    BY <2>3
  <2>5. FieldKey(w.name) \in Keys /\ FieldKey(w.name) \in {FieldKey(n) : n \in Names}
    BY <1>2 DEF Keys
  <2>6. /\ entry \in Entry /\ entry.key = FieldKey(w.name) /\ entry.type = w.type
        /\ entry.cell = at
    BY <1>2, <2>1, <2>4, <2>5 DEF Entry
  <2>7. cell \in Cell /\ cell.type = w.type
    <3>1. PICK old : old = [type |-> w.type, val |-> Zero]
      OBVIOUS
    <3>2. old \in Cell /\ old.type = w.type
      BY <1>2, <3>1 DEF Cell
    <3>3. w.val \in Values \cup {Zero}
      BY <1>1 DEF Writer
    <3>4. QED
      BY <2>2, <3>1, <3>2, <3>3, WrittenType
  <2>8. PICK m : m = Filled(Now, entry, cell)
    OBVIOUS
  <2>9. /\ m \in Memory /\ StoredOver(m, Now)
        /\ m.ptr = Now.ptr /\ m.cells = Append(Now.cells, cell)
        /\ Count(m) = Count(Now) /\ Cap(m) = Cap(Now)
        /\ \A i \in 1 .. Count(Now) : EntryAt(m, i) = EntryAt(Now, i)
        /\ EntryAt(m, Count(Now) + 1) = entry
        /\ \A a \in DOMAIN m.bufs : \A i \in 1 .. m.bufs[a].count :
             m.bufs[a].entry[i].cell \in DOMAIN Now.cells
    BY SMTT(60), <1>1, <1>2, <2>3, <2>6, <2>7, <2>8, EntryFilled
  <2>10. Store(m)
    BY <2>2, <2>8
  <2>11. /\ \A d \in DOMAIN Now.cells : m.cells[d] = Now.cells[d]
         /\ at \in DOMAIN m.cells /\ m.cells[at] = cell /\ at \notin DOMAIN Now.cells
    BY <2>3, <2>4, <2>7, <2>9, AppendProperties
  <2>12. MapStep(m, Now)
    BY <1>1, <2>9, <2>11, SameMapIs DEF MapStep
  <2>13. ~Has(m, FieldKey(w.name))
    BY <1>1, <1>2, <2>9, StillMissing DEF StoredOver
  <2>14. Now' = m
    BY <2>9, <2>10, StoreHistory DEF WriterInv
  <2>15. PICK q : q = [w EXCEPT !.pc = "commit"]
    OBVIOUS
  <2>16. /\ q \in Writer /\ q.pc = "commit" /\ q.op = "set" /\ q.name = w.name
         /\ q.type = w.type /\ w' = q
    BY <1>1, <1>2, <2>2, <2>15 DEF Writer
  <2>17. \A a \in DOMAIN m.bufs : \A i \in 1 .. m.bufs[a].count :
           m.bufs[a].entry[i].cell # entry.cell
    BY <2>6, <2>9, <2>11
  <2>18. WriterOK'
    BY <1>2, <2>6, <2>7, <2>9, <2>11, <2>13, <2>14, <2>16, <2>17 DEF WriterOK
  <2>19. QED
    BY <2>2, <2>9, <2>10, <2>12, <2>16, <2>18 DEF Stored
<1>5. QED
  BY <1>1, <1>2, <1>3, <1>4

LEMMA CommitAddStep ==
  ASSUME WriterInv, CommitAdd
  PROVE  /\ UNCHANGED <<rd, fault>> /\ Stored /\ WriterOK'
         /\ w' \in Writer /\ w'.pc = "idle" /\ w'.op = "set"
<1>1. /\ Now \in Memory /\ SnapshotOK(Now) /\ UNCHANGED <<rd, fault>> /\ w \in Writer
      /\ Now.ptr # Null => Now.ptrRel
  BY NowOK DEF CommitAdd
<1>2. /\ w.pc = "commit" /\ w.name \in Names /\ w.type \in Types
      /\ Count(Now) < Cap(Now) /\ ~Has(Now, FieldKey(w.name))
      /\ w' = [IdleWriter EXCEPT !.op = "set", !.name = w.name]
  BY DEF CommitAdd, WriterInv, WriterOK
<1>3. Now.ptr # Null /\ Count(Now) \in Nat
  BY <1>1, <1>2, CurrentBuffer
<1>4. PICK e : e = EntryAt(Now, Count(Now) + 1)
  OBVIOUS
<1>5. NewField(Now, e) /\ e.key = FieldKey(w.name) /\ e.type \in Types
  <2>1. /\ e.key = FieldKey(w.name) /\ e.type = w.type
        /\ e.cell \in DOMAIN Now.cells /\ Now.cells[e.cell].type = w.type
        /\ \A b \in DOMAIN Now.bufs : \A i \in 1 .. Now.bufs[b].count :
             Now.bufs[b].entry[i].cell # e.cell
    BY <1>2, <1>4 DEF WriterInv, WriterOK
  <2>2. \A i \in 1 .. Count(Now) : EntryAt(Now, i).key # e.key
    BY <1>1, <1>2, <2>1, FindIs
  <2>3. QED
    BY <1>2, <2>1, <2>2 DEF NewField
<1>6. PICK m : m = Committed(Now)
  OBVIOUS
<1>7. /\ m \in Memory /\ StoredOver(m, Now)
      /\ m.ptr = Now.ptr /\ m.cells = Now.cells /\ Count(m) = Count(Now) + 1
      /\ \A i : EntryAt(m, i) = EntryAt(Now, i)
  BY <1>1, <1>2, <1>3, <1>4, <1>5, <1>6, EntryCommitted
<1>8. Store(m)
  BY <1>6 DEF CommitAdd, Committed
<1>9. MapStep(m, Now)
  <2>1. PICK i \in 1 .. Count(m) : i = Count(Now) + 1
    BY <1>3, <1>7
  <2>2. EntryAt(m, i) = e
    BY <1>4, <1>7, <2>1
  <2>3. PICK k \in Keys : k = FieldKey(w.name)
    BY <1>2 DEF Keys
  <2>4. \A u, x : FieldIs(Now, k, u, x) => u = EntryAt(m, i).type
    BY <1>5, <2>3 DEF NewField, FieldIs
  <2>5. \A j \in 1 .. Count(Now) : EntryAt(Now, j).key # k =>
          \E x \in 1 .. Count(m) :
            /\ EntryAt(m, x) = EntryAt(Now, j)
            /\ m.cells[EntryAt(Now, j).cell] = Now.cells[EntryAt(Now, j).cell]
    BY <1>3, <1>7
  <2>6. \A j \in 1 .. Count(m) : j # i =>
          \E x \in 1 .. Count(Now) :
            /\ EntryAt(Now, x) = EntryAt(m, j)
            /\ m.cells[EntryAt(m, j).cell] = Now.cells[EntryAt(m, j).cell]
    BY <1>3, <1>7, <2>1
  <2>7. SnapshotOK(m) /\ EntryAt(m, i).key = k /\ EntryAt(m, i).type \in Types
    BY <1>5, <1>7, <2>2, <2>3 DEF StoredOver
  <2>8. SetMap(m, Now, k)
    BY <1>1, <1>7, <2>4, <2>5, <2>6, <2>7, SetMapIs
  <2>9. QED
    BY <2>8 DEF MapStep
<1>10. w' \in Writer /\ w'.pc = "idle" /\ w'.op = "set"
  BY <1>2, IdleAfterSet
<1>11. WriterOK'
  BY <1>10 DEF WriterOK
<1>12. QED
  BY <1>1, <1>7, <1>8, <1>9, <1>10, <1>11 DEF Stored

\* A name that set and get use whole; keys in the object are such names.
LEMMA ShortNames ==
  ASSUME NEW n \in Names
  PROVE  /\ n \in Seq(Chars) /\ Len(n) \in Nat /\ U16 \in Nat \ {0}
         /\ FullKey(n) = n
         /\ Len(n) < U16 => FieldKey(n) = n
         /\ Len(FieldKey(n)) < U16
<1>1. n \in Seq(Chars) /\ Len(n) \in Nat /\ U16 \in Nat \ {0} /\ FullKey(n) = n
  BY ConstantsAssumption DEF FullKey
<1>2. PICK k \in 0 .. Len(n) : k = Len(n) % U16 /\ k < U16
  BY <1>1
<1>3. PICK s : s = SubSeq(n, 1, k)
  OBVIOUS
<1>4. s \in Seq(Chars) /\ Len(s) = k /\ \A i \in 1 .. k : s[i] = n[i]
  BY <1>1, <1>2, <1>3, SubSeqProperties
<1>5. FieldKey(n) = s
  BY <1>2, <1>3 DEF FieldKey
<1>6. ASSUME Len(n) < U16 PROVE s = n
  <2>1. k = Len(n)
    BY <1>1, <1>2, <1>6
  <2>2. QED
    BY <1>1, <1>4, <2>1, SeqEqual
<1>7. QED
  BY <1>1, <1>2, <1>4, <1>5, <1>6

LEMMA RemovedMap ==
  ASSUME NEW m \in Memory, SnapshotOK(m), NEW n \in Memory, NEW k, RemoveMap(n, m, k)
  PROVE  SnapshotOK(n) => ~Has(n, k)
<1>1. SUFFICES ASSUME SnapshotOK(n), Has(n, k) PROVE FALSE
  OBVIOUS
<1>2. PICK i \in 1 .. Count(n) : EntryAt(n, i).key = k
  BY <1>1, FindIs
<1>3. FieldIs(n, k, EntryAt(n, i).type, n.cells[EntryAt(n, i).cell].val)
  BY <1>2 DEF FieldIs
<1>4. QED
  BY <1>3 DEF RemoveMap

\* Removing one field.
LEMMA WithoutIs ==
  ASSUME NEW m \in Memory, SnapshotOK(m), NEW i \in 1 .. Count(m),
         NEW k, EntryAt(m, i).key = k, NEW n, n = Without(m, i)
  PROVE  n \in Memory /\ StoredOver(n, m) /\ RemoveMap(n, m, k)
<1>1. Count(m) \in Nat /\ Cap(m) \in 0 .. MaxEntries /\ Count(m) <= Cap(m) /\ MaxEntries \in Nat
  BY CurrentBuffer, ConstantsAssumption
<1>2. CASE Count(m) = 1
  <2>1. PICK x \in Memory : /\ x = [m EXCEPT !.ptr = Null, !.ptrRel = (PublishOrder = Release)]
                            /\ StoredOver(x, m) /\ x.ptr = Null /\ Count(x) = 0
    BY NullPublished
  <2>2. n = x
    BY <1>2, <2>1 DEF Without
  <2>3. x \in Memory /\ x.cells = m.cells /\ Count(x) = 0
    BY <2>1 DEF Memory
  <2>4. \A j \in 1 .. Count(m) : j # i =>
          \E y \in 1 .. Count(x) : EntryAt(x, y) = EntryAt(m, j)
    BY <1>2
  <2>5. RemoveMap(x, m, k)
    <3>1. \A y \in 1 .. Count(x) :
            \E j \in 1 .. Count(m) : j # i /\ EntryAt(x, y) = EntryAt(m, j)
      BY <2>3
    <3>2. QED
      BY <2>3, <2>4, <3>1, RemoveMapIs
  <2>6. QED
    BY <2>1, <2>2, <2>5
<1>3. CASE Count(m) # 1
  <2>1. PICK count \in Nat : count = Count(m) - 1 /\ count >= 1
    BY <1>1, <1>3
  <2>2. PICK from : from = [j \in 1 .. count |-> IF j < i THEN j ELSE j + 1]
    OBVIOUS
  <2>3. /\ \A j \in 1 .. count : from[j] \in 1 .. Count(m) /\ from[j] # i
        /\ \A j, x \in 1 .. count : j # x => from[j] # from[x]
    BY <1>1, <2>1, <2>2
  <2>4. PICK entries : entries = [j \in 1 .. count |-> EntryAt(m, from[j])]
    OBVIOUS
  <2>5. \A j \in 1 .. count : EntryAt(m, from[j]) \in Entry
    BY <2>3, FieldOK
  <2>6. entries \in Seq(Entry) /\ Len(entries) = count
    BY <2>1, <2>4, <2>5
  <2>7. n = Published(m, count, entries)
    <3>1. entries = [j \in 1 .. Count(m) - 1 |-> EntryAt(m, IF j < i THEN j ELSE j + 1)]
      BY <2>1, <2>2, <2>4
    <3>2. QED
      BY <1>3, <2>1, <3>1 DEF Without
  <2>8. TakenFrom(m, count, entries, from)
    BY <2>3, <2>4 DEF TakenFrom
  <2>9. Len(entries) <= MaxEntries /\ count \in 0 .. Len(entries)
    BY <1>1, <2>1, <2>6
  <2>10. /\ n \in Memory /\ StoredOver(n, m)
         /\ n.cells = m.cells /\ Count(n) = count
         /\ \A j \in 1 .. Len(entries) : EntryAt(n, j) = entries[j]
    BY <2>6, <2>7, <2>8, <2>9, BufferPublished
  <2>11. \A j \in 1 .. count : EntryAt(n, j) = EntryAt(m, from[j])
    BY <2>4, <2>6, <2>10
  <2>12. ASSUME NEW j \in 1 .. Count(m), j # i
         PROVE  \E x \in 1 .. Count(n) : EntryAt(n, x) = EntryAt(m, j)
    <3>1. PICK x \in 1 .. count : x = IF j < i THEN j ELSE j - 1
      BY <1>1, <2>1, <2>12
    <3>2. from[x] = j
      BY <1>1, <2>1, <2>2, <2>12, <3>1
    <3>3. QED
      BY <2>10, <2>11, <3>1, <3>2
  <2>13. \A x \in 1 .. Count(n) :
           \E j \in 1 .. Count(m) : j # i /\ EntryAt(n, x) = EntryAt(m, j)
    BY <2>3, <2>10, <2>11
  <2>14. RemoveMap(n, m, k)
    BY <2>10, <2>12, <2>13, RemoveMapIs
  <2>15. QED
    BY <2>10, <2>14
<1>4. QED
  BY <1>2, <1>3

LEMMA RemoveStep ==
  ASSUME WriterInv, NEW n \in Names, Remove(n)
  PROVE  /\ UNCHANGED <<rd, fault>> /\ Stored /\ WriterOK'
         /\ w' \in Writer /\ w'.pc = "idle" /\ OnlyLongNamesStay'
<1>1. /\ Now \in Memory /\ SnapshotOK(Now) /\ UNCHANGED <<rd, fault>>
  BY NowOK DEF Remove
<1>2. /\ n \in Seq(Chars) /\ Len(n) \in Nat /\ U16 \in Nat \ {0} /\ FullKey(n) = n
      /\ Len(n) < U16 => FieldKey(n) = n
  BY ShortNames
<1>3. CASE /\ \E i \in Find(Now, FullKey(n)) : Store(Without(Now, i))
           /\ w' = [IdleWriter EXCEPT !.op = "remove", !.name = n, !.ret = 0]
  <2>1. PICK i \in Find(Now, FullKey(n)) : Store(Without(Now, i))
    BY <1>3
  <2>2. i \in 1 .. Count(Now) /\ EntryAt(Now, i).key = n
    BY <1>1, <1>2, FindIs
  <2>3. PICK m : m = Without(Now, i)
    OBVIOUS
  <2>4. m \in Memory /\ StoredOver(m, Now) /\ RemoveMap(m, Now, n) /\ Store(m)
    BY <1>1, <2>1, <2>2, <2>3, WithoutIs
  <2>5. EntryAt(Now, i).key \in {FieldKey(x) : x \in Names}
    BY <1>1, <2>2, FieldOK
  <2>6. Len(n) < U16
    BY <2>2, <2>5, ShortNames
  <2>7. n \in Keys
    BY <1>2 DEF Keys
  <2>8. MapStep(m, Now)
    BY <2>4, <2>7 DEF MapStep
  <2>9. ~Has(m, n)
    BY <1>1, <2>4, RemovedMap DEF StoredOver
  <2>10. Now' = m
    BY <2>4, StoreHistory DEF WriterInv
  <2>11. w' \in Writer /\ w'.pc = "idle" /\ w'.name = n
    <3>1. PICK q \in Writer : q = IdleWriter /\ q.pc = "idle"
      BY IdleWriterType
    <3>2. w' = [q EXCEPT !.op = "remove", !.name = n, !.ret = 0]
      BY <1>3, <3>1
    <3>3. QED
      BY <3>1, <3>2 DEF Writer
  <2>12. OnlyLongNamesStay'
    BY <1>2, <2>6, <2>9, <2>10, <2>11 DEF OnlyLongNamesStay
  <2>13. WriterOK'
    BY <2>11 DEF WriterOK
  <2>14. QED
    BY <1>1, <2>4, <2>8, <2>11, <2>12, <2>13 DEF Stored
<1>4. CASE /\ Has(Now, FullKey(n)) => MallocMayFail /\ Count(Now) > 1
           /\ w' = [IdleWriter EXCEPT !.op = "remove", !.name = n, !.ret = -1]
           /\ UNCHANGED memoryVars
  <2>1. w' \in Writer /\ w'.pc = "idle" /\ w'.name = n /\ w'.ret = -1
    <3>1. PICK q \in Writer : q = IdleWriter /\ q.pc = "idle"
      BY IdleWriterType
    <3>2. w' = [q EXCEPT !.op = "remove", !.name = n, !.ret = -1]
      BY <1>4, <3>1
    <3>3. QED
      BY <3>1, <3>2 DEF Writer
  <2>2. Now' = Now
    BY <1>4, NowStays
  <2>3. ~MallocMayFail => ~Has(Now, n)
    BY <1>2, <1>4
  <2>4. OnlyLongNamesStay'
    BY <1>2, <2>1, <2>2, <2>3 DEF OnlyLongNamesStay
  <2>5. WriterOK'
    BY <2>1 DEF WriterOK
  <2>6. QED
    BY <1>1, <1>4, <2>1, <2>4, <2>5 DEF Stored
<1>5. QED
  BY <1>3, <1>4 DEF Remove

LEMMA WriterStep ==
  ASSUME WriterInv, WriterNext
  PROVE  /\ UNCHANGED rd /\ Stored /\ WriterOK' /\ w' \in Writer
         /\ fault' \in {fault, "abort", "null_write", "overrun_write"}
         /\ fault = "none" => OnlyWrapsOverrun'
         /\ OnlyLongNamesStay => OnlyLongNamesStay'
<1>1. CASE \E n \in Names : \E t \in Types : \E v \in ValuesOf(t) : Overwrite(n, t, v)
  <2>1. PICK n \in Names, t \in Types : \E v \in ValuesOf(t) : Overwrite(n, t, v)
    BY <1>1
  <2>2. PICK v \in ValuesOf(t) : Overwrite(n, t, v)
    BY <2>1
  <2>3. /\ UNCHANGED rd /\ Stored
        /\ \/ /\ UNCHANGED fault /\ w' \in Writer
              /\ w'.pc = "idle" /\ w'.op = "set"
           \/ fault' = "abort" /\ UNCHANGED <<memoryVars, w>>
    BY <2>2, OverwriteStep
  <2>4. CASE w'.pc = "idle" /\ w'.op = "set" /\ w' \in Writer /\ UNCHANGED fault
    BY <2>3, <2>4 DEF WriterOK, OnlyLongNamesStay, OnlyWrapsOverrun
  <2>5. CASE fault' = "abort" /\ UNCHANGED <<memoryVars, w>>
    <3>1. Now' = Now
      BY <2>5, NowStays
    <3>2. WriterOK'
      BY <2>5, <3>1 DEF WriterInv, WriterOK
    <3>3. OnlyLongNamesStay => OnlyLongNamesStay'
      BY <2>5, <3>1 DEF OnlyLongNamesStay
    <3>4. QED
      BY <2>3, <2>5, <3>2, <3>3, NowOK DEF OnlyWrapsOverrun
  <2>6. QED
    BY <2>3, <2>4, <2>5
<1>2. CASE \E n \in Names : \E t \in Types : \E v \in ValuesOf(t) : AddEntry(n, t, v)
  <2>1. PICK n \in Names, t \in Types : \E v \in ValuesOf(t) : AddEntry(n, t, v)
    BY <1>2
  <2>2. PICK v \in ValuesOf(t) : AddEntry(n, t, v)
    BY <2>1
  <2>3. /\ UNCHANGED rd /\ Stored
        /\ \/ UNCHANGED fault /\ WriterOK' /\ w' \in Writer /\ w'.op = "set"
           \/ /\ fault' = "overrun_write" /\ UNCHANGED <<memoryVars, w>>
              /\ Count(Now) = Cap(Now) /\ U32 <= 2 * Cap(Now)
    BY <2>2, AddEntryStep
  <2>4. CASE UNCHANGED fault /\ WriterOK' /\ w' \in Writer /\ w'.op = "set"
    BY <2>3, <2>4 DEF OnlyLongNamesStay, OnlyWrapsOverrun
  <2>5. CASE /\ fault' = "overrun_write" /\ UNCHANGED <<memoryVars, w>>
             /\ Count(Now) = Cap(Now) /\ U32 <= 2 * Cap(Now)
    <3>1. Now' = Now
      BY <2>5, NowStays
    <3>2. WriterOK'
      BY <2>5, <3>1 DEF WriterInv, WriterOK
    <3>3. OnlyLongNamesStay => OnlyLongNamesStay'
      BY <2>5, <3>1 DEF OnlyLongNamesStay
    <3>4. OnlyWrapsOverrun'
      BY <2>5, <3>1 DEF OnlyWrapsOverrun
    <3>5. QED
      BY <2>3, <2>5, <3>2, <3>3, <3>4, NowOK
  <2>6. QED
    BY <2>3, <2>4, <2>5
<1>3. CASE \E n \in Names : Remove(n)
  BY <1>3, RemoveStep DEF OnlyWrapsOverrun
<1>4. CASE FillEntry
  <2>1. /\ UNCHANGED rd /\ Stored /\ WriterOK' /\ w' \in Writer /\ w'.op = "set"
        /\ UNCHANGED fault \/ fault' = "null_write"
    BY <1>4, FillEntryStep
  <2>2. QED
    BY <2>1 DEF OnlyLongNamesStay, OnlyWrapsOverrun
<1>5. CASE CommitAdd
  BY <1>5, CommitAddStep DEF OnlyLongNamesStay, OnlyWrapsOverrun
<1>6. QED
  BY <1>1, <1>2, <1>3, <1>4, <1>5 DEF WriterNext

\* The history after the action: it grows, and stays in order.
LEMMA HistoryAfter ==
  ASSUME TypeOK, HistoryOK, Stored
  PROVE  /\ hist' \in Seq(Memory) /\ hist' # <<>> /\ HistoryOK'
         /\ floor' = floor /\ floor' \in [Readers -> 1 .. Len(hist)']
         /\ Len(hist) \in Nat /\ Len(hist)' \in Nat /\ Len(hist) <= Len(hist)'
         /\ \A k \in 1 .. Len(hist) : hist'[k] = hist[k]
<1>1. CASE UNCHANGED memoryVars
  <2>1. hist' = hist /\ floor' = floor
    BY <1>1, NowStays
  <2>2. HistoryOK'
    BY <2>1 DEF HistoryOK, WasCurrent
  <2>3. QED
    BY <2>1, <2>2 DEF TypeOK
<1>2. CASE \E m \in Memory : Store(m) /\ StoredOver(m, Now) /\ MapStep(m, Now)
  <2>1. PICK m \in Memory : Store(m) /\ StoredOver(m, Now)
    BY <1>2
  <2>2. HistoryOK'
    BY <2>1, HistoryStep
  <2>3. /\ hist' \in Seq(Memory) /\ hist' # <<>> /\ floor' = floor
        /\ Len(hist) \in Nat \ {0} /\ Len(hist') = Len(hist) + 1
        /\ \A k \in 1 .. Len(hist) : hist'[k] = hist[k]
    BY <2>1, StoreHistory
  <2>4. floor \in [Readers -> 1 .. Len(hist)]
    BY DEF TypeOK
  <2>5. floor \in [Readers -> 1 .. Len(hist')]
    BY <2>3, <2>4
  <2>6. QED
    BY <2>2, <2>3, <2>5
<1>3. QED
  BY <1>1, <1>2 DEF Stored

-----------------------------------------------------------------------------
(* ObjectInv, reader by reader. *)

\* A finished call has the answer of a moment since the call.
AnswerOK(r) ==
  rd[r].pc = "done" => \E k \in rd[r].since .. Len(hist) : RightFor(rd[r], hist[k])

LEMMA EachAnswer == AnswersAreRegular <=> \A r \in Readers : AnswerOK(r)
BY DEF AnswersAreRegular, AnswerOK

\* The writer's steps leave the readers what they have found.
LEMMA WriterKeeps ==
  ASSUME ObjectInv, WriterNext
  PROVE  ObjectInv' /\ fault' \in {fault, "abort", "null_write", "overrun_write"}
<1>1. WriterInv /\ TypeOK /\ HistoryOK
  BY DEF ObjectInv, WriterInv
<1>2. /\ UNCHANGED rd /\ Stored /\ WriterOK' /\ w' \in Writer
      /\ fault' \in {fault, "abort", "null_write", "overrun_write"}
  BY <1>1, WriterStep
<1>3. /\ hist' \in Seq(Memory) /\ hist' # <<>> /\ HistoryOK'
      /\ floor' = floor /\ floor' \in [Readers -> 1 .. Len(hist)']
      /\ Len(hist) \in Nat /\ Len(hist)' \in Nat /\ Len(hist) <= Len(hist)'
      /\ \A k \in 1 .. Len(hist) : hist'[k] = hist[k]
  BY <1>1, <1>2, HistoryAfter
<1>4. TypeOK'
  BY <1>1, <1>2, <1>3 DEF TypeOK, Faults
<1>5. ASSUME NEW r \in Readers PROVE ReaderOK(r)' /\ AnswerOK(r)'
  <2>1. ReaderOK(r) /\ AnswerOK(r) /\ rd[r] \in Reader /\ floor[r] \in 1 .. Len(hist)
    BY <1>1, EachAnswer DEF ObjectInv, TypeOK
  <2>2. rd[r].since \in Nat /\ rd[r].since >= 1
    BY <2>1 DEF ReaderOK
  <2>3. \A k \in rd[r].since .. floor[r] : k \in 1 .. Len(hist)
    BY <1>3, <2>1, <2>2
  <2>4. \A k \in rd[r].since .. Len(hist) : k \in 1 .. Len(hist) /\ k \in rd[r].since .. Len(hist)'
    BY <1>3, <2>2
  <2>5. rd' = rd /\ floor' = floor /\ hist'[floor[r]] = hist[floor[r]]
    BY <1>2, <1>3, <2>1
  <2>6. ReaderOK(r)'
    BY <1>3, <2>1, <2>3, <2>5 DEF ReaderOK
  <2>7. AnswerOK(r)'
    BY <1>3, <2>1, <2>4, <2>5 DEF AnswerOK
  <2>8. QED
    BY <2>6, <2>7
<1>6. AnswersAreRegular'
  BY <1>5 DEF AnswersAreRegular, AnswerOK
<1>7. QED
  BY <1>2, <1>3, <1>4, <1>5, <1>6 DEF ObjectInv

\* A reader's step concerns that reader, and the memory not at all.
LEMMA ReaderMoves ==
  ASSUME ObjectInv, NEW r \in Readers, UNCHANGED <<hist, w>>,
         NEW q \in Reader, rd' = [rd EXCEPT ![r] = q],
         NEW k \in 1 .. Len(hist), floor' = [floor EXCEPT ![r] = k],
         fault' \in Faults, ReaderOK(r)', AnswerOK(r)'
  PROVE  ObjectInv'
<1>1. /\ rd' \in [Readers -> Reader] /\ floor' \in [Readers -> 1 .. Len(hist)]
      /\ \A s \in Readers \ {r} : rd'[s] = rd[s] /\ floor'[s] = floor[s]
  BY DEF ObjectInv, TypeOK
<1>2. TypeOK'
  BY <1>1 DEF ObjectInv, TypeOK
<1>3. HistoryOK' /\ WriterOK'
  BY DEF ObjectInv, HistoryOK, WasCurrent, WriterOK, Now
<1>4. ASSUME NEW s \in Readers \ {r} PROVE ReaderOK(s)' /\ AnswerOK(s)'
  <2>1. ReaderOK(s) /\ AnswerOK(s) /\ rd'[s] = rd[s] /\ floor'[s] = floor[s]
    BY <1>1, EachAnswer DEF ObjectInv
  <2>2. ReaderOK(s)'
    BY <2>1 DEF ReaderOK
  <2>3. AnswerOK(s)'
    BY <2>1 DEF AnswerOK
  <2>4. QED
    BY <2>2, <2>3
<1>5. AnswersAreRegular'
  BY <1>4 DEF AnswersAreRegular, AnswerOK
<1>6. QED
  BY <1>2, <1>3, <1>4, <1>5 DEF ObjectInv

\* What a reader may look at extends what it has acquired.
LEMMA VisibleOK ==
  ASSUME ObjectInv, NEW r \in Readers, NEW k \in Visible(r), NEW j \in 1 .. floor[r]
  PROVE  /\ floor[r] \in 1 .. Len(hist) /\ k \in 1 .. Len(hist) /\ floor[r] <= k
         /\ floor \in [Readers -> 1 .. Len(hist)] /\ Len(hist) \in Nat
         /\ hist[k] \in Memory /\ SnapshotOK(hist[k])
         /\ hist[j] \in Memory /\ SnapshotOK(hist[j])
         /\ Extends(hist[j], hist[k]) /\ WasCurrent(j, k)
<1>1. /\ Len(hist) \in Nat /\ floor[r] \in 1 .. Len(hist)
      /\ floor \in [Readers -> 1 .. Len(hist)] /\ hist \in Seq(Memory)
  BY DEF ObjectInv, TypeOK
<1>2. k \in 1 .. Len(hist) /\ floor[r] <= k /\ j \in 1 .. k /\ j \in 1 .. Len(hist)
  BY <1>1 DEF Visible
<1>3. QED
  BY <1>1, <1>2 DEF ObjectInv, HistoryOK

\* The acquire load of the pointer always makes its snapshot the reader's: the
\* store it read from was a release store, or there was none before it.
LEMMA PtrLoad ==
  ASSUME ObjectInv, NEW r \in Readers, NEW k \in Visible(r),
         Load(r, k, PtrLoadOrder, hist[k].ptrRel)
  PROVE  floor' = [floor EXCEPT ![r] = k] /\ UNCHANGED hist
<1>1. /\ floor[r] \in 1 .. Len(hist) /\ floor \in [Readers -> 1 .. Len(hist)]
      /\ Len(hist) \in Nat
  BY DEF ObjectInv, TypeOK
<1>2. k \in 1 .. Len(hist) /\ floor[r] <= k
  BY <1>1 DEF Visible
<1>3. CASE hist[k].ptrRel
  BY <1>3 DEF Load, PtrLoadOrder
<1>4. CASE ~hist[k].ptrRel
  <2>1. k = 1
    BY <1>2, <1>4 DEF ObjectInv, HistoryOK
  <2>2. floor[r] = k
    BY <1>1, <1>2, <2>1
  <2>3. QED
    BY <1>1, <1>4, <2>2 DEF Load
<1>5. QED
  BY <1>3, <1>4

\* Where a load leaves the floor.
LEMMA LoadFloor ==
  ASSUME ObjectInv, NEW r \in Readers, NEW k \in Visible(r), NEW order, NEW released,
         Load(r, k, order, released)
  PROVE  \E f \in {floor[r], k} : /\ floor' = [floor EXCEPT ![r] = f] /\ floor'[r] = f
                                  /\ f \in 1 .. Len(hist) /\ UNCHANGED hist
                                  /\ order = Acquire /\ released => f = k
<1>1. /\ floor[r] \in 1 .. Len(hist) /\ floor \in [Readers -> 1 .. Len(hist)]
      /\ Len(hist) \in Nat
  BY DEF ObjectInv, TypeOK
<1>2. k \in 1 .. Len(hist)
  BY <1>1 DEF Visible
<1>3. CASE order = Acquire /\ released
  BY <1>1, <1>2, <1>3 DEF Load
<1>4. CASE ~(order = Acquire /\ released)
  <2>1. floor' = [floor EXCEPT ![r] = floor[r]] /\ UNCHANGED hist
    BY <1>4 DEF Load
  <2>2. QED
    BY <1>1, <1>4, <2>1
<1>5. QED
  BY <1>3, <1>4

-----------------------------------------------------------------------------
(* The answers. *)

\* In an object without the field, or without any, it is not found.
LEMMA MissingIsRight ==
  ASSUME NEW q \in Reader, NEW m \in Memory, SnapshotOK(m), ~q.found,
         q.op # "count" => ~Has(m, q.key), q.op = "count" => q.count = Count(m)
  PROVE  RightFor(q, m)
BY DEF RightFor

LEMMA EmptyHasNone ==
  ASSUME NEW m \in Memory, SnapshotOK(m), Count(m) = 0, NEW key
  PROVE  ~Has(m, key)
BY FindIs

LEMMA IdleReaderType ==
  /\ IdleReader \in Reader /\ IdleReader.pc = "idle" /\ IdleReader.op = "none"
  /\ IdleReader.since = 1 /\ IdleReader.count = 0 /\ IdleReader.idx = 1
  /\ ~IdleReader.found
BY ConstantsAssumption DEF IdleReader, Reader, Null

-----------------------------------------------------------------------------
(* ObjectInv is inductive: the readers. *)

LEMMA CallStep ==
  ASSUME ObjectInv, NEW r \in Readers, NEW op \in ReaderOps, Call(r, op)
  PROVE  ObjectInv' /\ UNCHANGED fault
<1>1. PICK i \in Reader : i = IdleReader /\ i.idx = 1 /\ i.count = 0 /\ ~i.found
  BY IdleReaderType
<1>2. /\ floor[r] \in 1 .. Len(hist) /\ floor \in [Readers -> 1 .. Len(hist)]
      /\ Len(hist) \in Nat /\ rd \in [Readers -> Reader]
  BY DEF ObjectInv, TypeOK
<1>3. PICK n \in IF op = "count" THEN {NoKey} ELSE {FieldKey(x) : x \in Names},
           t \in IF op = "get" THEN Types \ {"object"} ELSE {"none"} :
        rd' = [rd EXCEPT ![r] = [IdleReader EXCEPT !.pc = "ptr", !.op = op,
                                 !.key = n, !.type = t, !.since = floor[r]]]
  BY DEF Call
<1>4. /\ n \in Keys \cup {NoKey}
      /\ op # "count" => n \in Keys
      /\ t \in Types \cup {"none"}
      /\ IF op = "get" THEN t \in Types ELSE t = "none"
  BY <1>3 DEF Keys
<1>5. PICK f \in 1 .. Len(hist) : f = floor[r] /\ f \in Nat
  BY <1>2
<1>6. PICK q : q = [i EXCEPT !.pc = "ptr", !.op = op, !.key = n, !.type = t, !.since = f]
  OBVIOUS
<1>7. /\ q \in Reader /\ q.pc = "ptr" /\ q.op = op /\ q.key = n /\ q.type = t /\ q.since = f
      /\ q.idx = 1 /\ q.count = 0 /\ ~q.found
  BY ZenonT(60), <1>1, <1>4, <1>5, <1>6 DEF Reader
<1>8. rd' = [rd EXCEPT ![r] = q] /\ UNCHANGED <<hist, floor, w, fault>>
  BY <1>1, <1>3, <1>5, <1>6 DEF Call, memoryVars
<1>9. rd'[r] = q /\ floor' = [floor EXCEPT ![r] = f] /\ floor'[r] = f
  BY <1>2, <1>5, <1>8
<1>10. ReaderOK(r)'
  <2>1. CallOK(q)
    BY <1>4, <1>7 DEF CallOK
  <2>2. q.since \in 1 .. f
    BY <1>7
  <2>3. QED
    BY <1>7, <1>9, <2>1, <2>2 DEF ReaderOK
<1>11. AnswerOK(r)'
  BY <1>7, <1>9 DEF AnswerOK
<1>12. fault' \in Faults
  BY <1>8 DEF ObjectInv, TypeOK
<1>13. QED
  BY <1>7, <1>8, <1>9, <1>10, <1>11, <1>12, ReaderMoves

LEMMA DoneStep ==
  ASSUME ObjectInv, NEW r \in Readers, Done(r)
  PROVE  ObjectInv' /\ UNCHANGED fault
<1>1. PICK q \in Reader : q = IdleReader /\ q.pc = "idle" /\ q.since = 1
  BY IdleReaderType
<1>2. /\ floor[r] \in 1 .. Len(hist) /\ floor \in [Readers -> 1 .. Len(hist)]
      /\ Len(hist) \in Nat /\ rd \in [Readers -> Reader]
  BY DEF ObjectInv, TypeOK
<1>3. rd' = [rd EXCEPT ![r] = q] /\ UNCHANGED <<hist, floor, w, fault>>
  BY <1>1 DEF Done, memoryVars
<1>4. rd'[r] = q /\ floor' = [floor EXCEPT ![r] = floor[r]] /\ floor'[r] = floor[r]
  BY <1>2, <1>3
<1>5. ReaderOK(r)' /\ AnswerOK(r)'
  <2>1. CallOK(q)
    BY <1>1 DEF CallOK
  <2>2. QED
    BY <1>1, <1>2, <1>4, <2>1 DEF ReaderOK, AnswerOK
<1>6. fault' \in Faults
  BY <1>3 DEF ObjectInv, TypeOK
<1>7. QED
  BY <1>2, <1>3, <1>4, <1>5, <1>6, ReaderMoves

LEMMA LoadPtrStep ==
  ASSUME ObjectInv, NEW r \in Readers, LoadPtr(r)
  PROVE  ObjectInv' /\ UNCHANGED fault
<1>1. PICK k \in Visible(r) :
        /\ Load(r, k, PtrLoadOrder, hist[k].ptrRel)
        /\ rd' = [rd EXCEPT ![r].pc = IF hist[k].ptr = Null THEN "done" ELSE "count",
                            ![r].buf = hist[k].ptr]
  BY DEF LoadPtr
<1>2. /\ rd[r].pc = "ptr" /\ UNCHANGED <<hist, w, fault>> /\ floor' = [floor EXCEPT ![r] = k]
      /\ fault' \in Faults /\ rd \in [Readers -> Reader] /\ ReaderOK(r)
      /\ floor[r] \in 1 .. Len(hist)
  BY <1>1, PtrLoad DEF LoadPtr, ObjectInv, TypeOK
<1>3. /\ k \in 1 .. Len(hist) /\ floor[r] <= k /\ hist[k] \in Memory /\ SnapshotOK(hist[k])
      /\ floor'[r] = k /\ Len(hist) \in Nat
  <2>1. floor[r] \in 1 .. floor[r]
    BY <1>2
  <2>2. QED
    BY <1>2, <2>1, VisibleOK
<1>4. PICK c \in Reader : c = rd[r]
  BY <1>2
<1>5. PICK b \in Nat : b = hist[k].ptr
  BY <1>3 DEF Memory
<1>6. PICK pc : pc = IF b = Null THEN "done" ELSE "count"
  OBVIOUS
<1>7. PICK q : q = [c EXCEPT !.pc = pc, !.buf = b]
  OBVIOUS
<1>8. /\ q \in Reader /\ q.pc = pc /\ q.buf = b /\ q.op = c.op /\ q.key = c.key
      /\ q.type = c.type /\ q.since = c.since /\ q.count = c.count /\ q.idx = c.idx
      /\ q.found = c.found
  BY ZenonT(60), <1>6, <1>7 DEF Reader
<1>9. rd' = [rd EXCEPT ![r] = q] /\ rd'[r] = q
  BY <1>1, <1>2, <1>4, <1>5, <1>6, <1>7
<1>10. /\ c.since \in 1 .. floor[r] /\ c.count = 0 /\ c.idx = 1 /\ ~c.found
       /\ CallOK(c)
  BY <1>2, <1>4 DEF ReaderOK, CallOK
<1>11. c.since \in 1 .. k /\ k \in c.since .. Len(hist)
  BY <1>2, <1>3, <1>10
<1>12. CASE b = Null
  <2>1. Count(hist[k]) = 0 /\ ~Has(hist[k], q.key)
    BY <1>3, <1>5, <1>12, CurrentBuffer, EmptyHasNone
  <2>2. RightFor(q, hist[k])
    BY <1>3, <1>8, <1>10, <2>1, MissingIsRight
  <2>3. AnswerOK(r)'
    BY <1>2, <1>8, <1>9, <1>11, <2>2 DEF AnswerOK
  <2>4. ReaderOK(r)'
    <3>1. CallOK(q)
      BY <1>2, <1>4, <1>6, <1>8, <1>10, <1>12 DEF CallOK
    <3>2. QED
      BY <1>3, <1>6, <1>8, <1>9, <1>11, <1>12, <3>1 DEF ReaderOK
  <2>5. QED
    BY <1>2, <1>3, <1>8, <1>9, <2>3, <2>4, ReaderMoves
<1>13. CASE b # Null
  <2>1. AnswerOK(r)'
    BY <1>6, <1>8, <1>9, <1>13 DEF AnswerOK
  <2>2. ReaderOK(r)'
    <3>1. CallOK(q)
      BY <1>2, <1>4, <1>6, <1>8, <1>10, <1>13 DEF CallOK
    <3>2. QED
      BY <1>2, <1>3, <1>5, <1>6, <1>8, <1>9, <1>11, <1>13, <3>1 DEF ReaderOK
  <2>3. QED
    BY <1>2, <1>3, <1>8, <1>9, <2>1, <2>2, ReaderMoves
<1>14. QED
  BY <1>12, <1>13

\* The count is that of the buffer at a moment when it was the object's, and
\* after a raised count was acquired nothing older is looked at.
LEMMA LoadCountStep ==
  ASSUME ObjectInv, NEW r \in Readers, LoadCount(r)
  PROVE  ObjectInv' /\ UNCHANGED fault
<1>1. PICK c \in Reader : c = rd[r]
  BY DEF ObjectInv, TypeOK
<1>2. PICK f \in 1 .. Len(hist) : f = floor[r]
  BY DEF ObjectInv, TypeOK
<1>3. /\ c.pc = "count" /\ ReaderOK(r) /\ UNCHANGED w /\ Len(hist) \in Nat
      /\ rd \in [Readers -> Reader] /\ fault \in Faults
  BY <1>1 DEF LoadCount, ObjectInv, TypeOK
<1>4. /\ c.since \in 1 .. f /\ c.idx = 1 /\ ~c.found /\ CallOK(c)
      /\ c.buf # Null /\ hist[f].ptr = c.buf
  BY <1>1, <1>2, <1>3 DEF ReaderOK, CallOK
<1>5. PICK k \in Visible(r) :
        IF c.buf \in DOMAIN hist[k].bufs
        THEN /\ Load(r, k, CountLoadOrder, hist[k].bufs[c.buf].countRel)
             /\ rd' = [rd EXCEPT ![r].count = hist[k].bufs[c.buf].count,
                         ![r].pc = IF hist[k].bufs[c.buf].count = 0 \/ rd[r].op = "count"
                                   THEN "done" ELSE "scan"]
             /\ UNCHANGED fault
        ELSE Bad("uninit_read")
  BY <1>1 DEF LoadCount
<1>6. /\ k \in 1 .. Len(hist) /\ f <= k /\ Extends(hist[f], hist[k]) /\ WasCurrent(f, k)
      /\ hist[k] \in Memory /\ hist[f] \in Memory /\ SnapshotOK(hist[f])
  <2>1. f \in 1 .. floor[r]
    BY <1>2
  <2>2. QED
    BY <1>2, <2>1, VisibleOK
<1>7. c.buf \in DOMAIN hist[f].bufs /\ c.buf \in DOMAIN hist[k].bufs
  BY <1>4, <1>6, CurrentBuffer DEF Extends
<1>8. PICK n \in 0 .. MaxEntries : n = hist[k].bufs[c.buf].count
  <2>1. hist[k].bufs[c.buf] \in Buffer
    BY <1>6, <1>7, CountsAreNat
  <2>2. QED
    BY <2>1 DEF Buffer
<1>9. PICK fl \in {f, k} :
        /\ floor' = [floor EXCEPT ![r] = fl] /\ floor'[r] = fl /\ fl \in 1 .. Len(hist)
        /\ UNCHANGED hist
        /\ hist[k].bufs[c.buf].countRel => fl = k
  <2>1. Load(r, k, CountLoadOrder, hist[k].bufs[c.buf].countRel)
    BY <1>5, <1>7
  <2>2. QED
    BY <1>2, <2>1, LoadFloor DEF CountLoadOrder
<1>10. fault' = fault
  BY <1>5, <1>7
<1>11. PICK pc : pc = IF n = 0 \/ c.op = "count" THEN "done" ELSE "scan"
  OBVIOUS
<1>12. PICK q : q = [c EXCEPT !.count = n, !.pc = pc]
  OBVIOUS
<1>13. /\ q \in Reader /\ q.pc = pc /\ q.buf = c.buf /\ q.op = c.op /\ q.key = c.key
       /\ q.type = c.type /\ q.since = c.since /\ q.count = n /\ q.idx = 1 /\ ~q.found
  BY ZenonT(60), <1>4, <1>11, <1>12 DEF Reader
<1>14. rd' = [rd EXCEPT ![r] = q] /\ rd'[r] = q
  BY <1>1, <1>3, <1>5, <1>7, <1>8, <1>11, <1>12
<1>15. PICK l \in f .. fl : hist[l].ptr = c.buf /\ hist[l].bufs[c.buf].count = n
  <2>1. CASE fl = k
    BY <1>4, <1>6, <1>8, <2>1 DEF WasCurrent
  <2>2. CASE fl # k
    <3>1. fl = f /\ ~hist[k].bufs[c.buf].countRel
      BY <1>9, <2>2
    <3>2. hist[f].bufs[c.buf].count = n
      BY <1>6, <1>7, <1>8, <3>1 DEF Extends
    <3>3. QED
      BY <1>4, <3>1, <3>2
  <2>3. QED
    BY <2>1, <2>2
<1>16. /\ l \in 1 .. Len(hist) /\ l \in c.since .. Len(hist) /\ l \in c.since .. fl
       /\ c.since \in 1 .. fl
  BY <1>3, <1>4, <1>6, <1>9, <1>15
<1>17. hist[l] \in Memory /\ SnapshotOK(hist[l]) /\ Count(hist[l]) = n
  <2>1. hist[l] \in Memory /\ SnapshotOK(hist[l])
    BY <1>16 DEF ObjectInv, TypeOK, HistoryOK
  <2>2. QED
    BY <1>4, <1>15, <2>1, CurrentBuffer
<1>18. AnswerOK(r)'
  <2>1. CASE pc = "done"
    <3>1. q.op # "count" => ~Has(hist[l], q.key)
      BY <1>11, <1>13, <1>17, <2>1, EmptyHasNone
    <3>2. RightFor(q, hist[l])
      BY <1>13, <1>17, <3>1, MissingIsRight
    <3>3. QED
      BY <1>9, <1>13, <1>14, <1>16, <3>2 DEF AnswerOK
  <2>2. CASE pc # "done"
    BY <1>13, <1>14, <2>2 DEF AnswerOK
  <2>3. QED
    BY <2>1, <2>2
<1>19. ReaderOK(r)'
  <2>1. CASE pc = "done"
    <3>1. CallOK(q)
      BY <1>3, <1>4, <1>13, <2>1 DEF CallOK
    <3>2. QED
      BY <1>9, <1>13, <1>14, <1>16, <2>1, <3>1 DEF ReaderOK
  <2>2. CASE pc # "done"
    <3>1. pc = "scan" /\ n # 0 /\ c.op # "count"
      BY <1>11, <2>2
    <3>2. Found(q, hist[l])
      BY <1>8, <1>13, <1>15, <3>1, ConstantsAssumption DEF Found
    <3>3. CallOK(q)
      BY <1>3, <1>4, <1>13, <3>1 DEF CallOK
    <3>4. QED
      BY <1>9, <1>13, <1>14, <1>16, <3>1, <3>2, <3>3 DEF ReaderOK
  <2>3. QED
    BY <2>1, <2>2
<1>20. QED
  BY <1>3, <1>9, <1>10, <1>13, <1>14, <1>18, <1>19, ReaderMoves

\* The entry a reader has got to: it is where it was in the snapshot in which
\* it was found, whichever later one is looked at.
LEMMA SeenEntry ==
  ASSUME ObjectInv, NEW r \in Readers, NEW j \in 1 .. floor[r], NEW c \in Reader,
         Found(c, hist[j]), c.buf # Null, NEW k \in Visible(r)
  PROVE  /\ c.count = Count(hist[j]) /\ c.idx \in 1 .. Count(hist[j])
         /\ Count(hist[j]) \in 0 .. MaxEntries
         /\ \A i \in 1 .. c.idx - 1 : EntryAt(hist[j], i).key # c.key
         /\ c.buf \in DOMAIN hist[k].bufs
         /\ c.idx \in DOMAIN hist[k].bufs[c.buf].entry
         /\ hist[k].bufs[c.buf].entry[c.idx] = EntryAt(hist[j], c.idx)
         /\ c.pc # "scan" => EntryAt(hist[j], c.idx).key = c.key
<1>1. /\ hist[k] \in Memory /\ SnapshotOK(hist[k])
      /\ hist[j] \in Memory /\ SnapshotOK(hist[j]) /\ Extends(hist[j], hist[k])
  BY VisibleOK
<1>2. PICK m \in Memory : m = hist[j]
  BY <1>1
<1>3. /\ m.ptr = c.buf /\ m.bufs[c.buf].count = c.count /\ c.idx \in 1 .. c.count
      /\ \A i \in 1 .. c.idx - 1 : m.bufs[c.buf].entry[i].key # c.key
      /\ c.pc # "scan" => m.bufs[c.buf].entry[c.idx].key = c.key
  BY <1>2 DEF Found
<1>4. /\ c.buf \in DOMAIN m.bufs /\ Count(m) = c.count /\ Count(m) \in 0 .. MaxEntries
  BY <1>1, <1>2, <1>3, CurrentBuffer
<1>5. \A i : EntryAt(m, i) = m.bufs[c.buf].entry[i]
  BY <1>3 DEF EntryAt
<1>6. /\ c.buf \in DOMAIN hist[k].bufs
      /\ m.bufs[c.buf].count <= hist[k].bufs[c.buf].count
      /\ hist[k].bufs[c.buf].entry[c.idx] = m.bufs[c.buf].entry[c.idx]
  BY <1>1, <1>2, <1>3, <1>4 DEF Extends
<1>7. PICK b \in Buffer : b = hist[k].bufs[c.buf]
  BY <1>1, <1>6, CountsAreNat
<1>8. /\ b.count <= Len(b.entry) /\ b.count \in Nat /\ c.count \in Nat
      /\ Len(b.entry) \in Nat /\ DOMAIN b.entry = 1 .. Len(b.entry)
  <2>1. b.count <= Len(b.entry)
    BY <1>1, <1>6, <1>7 DEF SnapshotOK, WellFormed
  <2>2. b.count \in Nat /\ c.count \in Nat
    BY <1>7, ConstantsAssumption DEF Buffer, Reader
  <2>3. b.entry \in Seq(Entry)
    BY <1>7 DEF Buffer
  <2>4. QED
    BY <2>1, <2>2, <2>3
<1>9. c.idx \in DOMAIN b.entry
  BY <1>3, <1>4, <1>6, <1>7, <1>8
<1>10. QED
  BY <1>2, <1>3, <1>4, <1>5, <1>6, <1>7, <1>9

\* The key at the position found is the field's.
LEMMA FoundField ==
  ASSUME NEW m \in Memory, SnapshotOK(m), NEW i \in 1 .. Count(m),
         NEW key, EntryAt(m, i).key = key
  PROVE  /\ Has(m, key) /\ FieldType(m, key) = EntryAt(m, i).type
         /\ FieldValue(m, key) = m.cells[EntryAt(m, i).cell].val
<1>1. i \in Find(m, key)
  BY FindIs
<1>2. QED
  BY <1>1, FieldAt DEF Has

LEMMA ScanStep ==
  ASSUME ObjectInv, NEW r \in Readers, Scan(r)
  PROVE  ObjectInv' /\ UNCHANGED fault
<1>1. PICK c \in Reader : c = rd[r]
  BY DEF ObjectInv, TypeOK
<1>2. /\ c.pc = "scan" /\ ReaderOK(r) /\ UNCHANGED w /\ Len(hist) \in Nat
      /\ rd \in [Readers -> Reader] /\ fault \in Faults /\ MaxEntries \in Nat
      /\ floor \in [Readers -> 1 .. Len(hist)] /\ floor[r] \in 1 .. Len(hist)
  BY <1>1, ConstantsAssumption DEF Scan, ObjectInv, TypeOK
<1>3. /\ c.since \in 1 .. floor[r] /\ CallOK(c) /\ c.buf # Null /\ ~c.found
      /\ c.op # "count" /\ c.op \in ReaderOps
  BY <1>1, <1>2 DEF ReaderOK, CallOK
<1>4. PICK j \in c.since .. floor[r] : Found(c, hist[j])
  BY <1>1, <1>2 DEF ReaderOK
<1>5. /\ j \in 1 .. floor[r] /\ j \in 1 .. Len(hist) /\ j \in c.since .. Len(hist)
      /\ hist[j] \in Memory /\ SnapshotOK(hist[j])
  BY <1>2, <1>3, <1>4 DEF ObjectInv, TypeOK, HistoryOK
<1>6. PICK k \in Visible(r) :
        IF c.buf \notin DOMAIN hist[k].bufs THEN Bad("uninit_read")
        ELSE IF c.idx \notin DOMAIN hist[k].bufs[c.buf].entry THEN Bad("overrun_read")
        ELSE /\ rd' = IF hist[k].bufs[c.buf].entry[c.idx].key = c.key
                      THEN [rd EXCEPT ![r].found = TRUE, ![r].pc =
                              IF rd[r].op = "has" THEN "done" ELSE "entry"]
                      ELSE [rd EXCEPT ![r].idx = c.idx + 1, ![r].pc =
                              IF ScanEnds(c.idx, c.count) THEN "done" ELSE "scan"]
             /\ UNCHANGED <<memoryVars, fault>>
  BY <1>1 DEF Scan
<1>7. PICK e : e = EntryAt(hist[j], c.idx)
  OBVIOUS
<1>8. /\ c.count = Count(hist[j]) /\ c.idx \in 1 .. Count(hist[j])
      /\ Count(hist[j]) \in 0 .. MaxEntries
      /\ \A i \in 1 .. c.idx - 1 : EntryAt(hist[j], i).key # c.key
      /\ c.buf \in DOMAIN hist[k].bufs
      /\ c.idx \in DOMAIN hist[k].bufs[c.buf].entry
      /\ hist[k].bufs[c.buf].entry[c.idx] = e
  BY <1>3, <1>4, <1>5, <1>7, SeenEntry
<1>9. /\ rd' = IF e.key = c.key
               THEN [rd EXCEPT ![r].found = TRUE, ![r].pc =
                       IF c.op = "has" THEN "done" ELSE "entry"]
               ELSE [rd EXCEPT ![r].idx = c.idx + 1, ![r].pc =
                       IF c.idx = c.count THEN "done" ELSE "scan"]
      /\ UNCHANGED <<hist, floor, fault>>
  BY <1>1, <1>6, <1>8 DEF memoryVars, ScanEnds
<1>10. floor' = [floor EXCEPT ![r] = floor[r]] /\ floor'[r] = floor[r] /\ hist' = hist
  BY <1>2, <1>9
<1>11. CASE e.key = c.key
  <2>1. PICK pc : pc = IF c.op = "has" THEN "done" ELSE "entry"
    OBVIOUS
  <2>2. PICK q : q = [c EXCEPT !.found = TRUE, !.pc = pc]
    OBVIOUS
  <2>3. /\ q \in Reader /\ q.pc = pc /\ q.buf = c.buf /\ q.op = c.op /\ q.key = c.key
        /\ q.type = c.type /\ q.since = c.since /\ q.count = c.count /\ q.idx = c.idx
        /\ q.found
    BY ZenonT(60), <2>1, <2>2 DEF Reader
  <2>4. rd' = [rd EXCEPT ![r] = q] /\ rd'[r] = q
    BY <1>1, <1>2, <1>9, <1>11, <2>1, <2>2
  <2>5. CallOK(q)
    BY <1>2, <1>3, <2>1, <2>3 DEF CallOK
  <2>6. ReaderOK(r)'
    <3>1. pc = "entry" => Found(q, hist[j])
      BY ZenonT(60), <1>2, <1>4, <1>7, <1>8, <1>11, <2>3 DEF Found, EntryAt
    <3>2. QED
      BY <1>3, <1>4, <1>10, <2>1, <2>3, <2>4, <2>5, <3>1 DEF ReaderOK
  <2>7. AnswerOK(r)'
    <3>1. Has(hist[j], q.key)
      BY <1>5, <1>7, <1>8, <1>11, <2>3, FoundField
    <3>2. pc = "done" => RightFor(q, hist[j])
      BY <2>1, <2>3, <3>1 DEF RightFor
    <3>3. QED
      BY <1>5, <1>10, <2>3, <2>4, <3>2 DEF AnswerOK
  <2>8. QED
    BY <1>2, <1>9, <1>10, <2>3, <2>4, <2>6, <2>7, ReaderMoves
<1>12. CASE e.key # c.key
  <2>1. PICK pc : pc = IF c.idx = c.count THEN "done" ELSE "scan"
    OBVIOUS
  <2>2. PICK i \in 1 .. MaxEntries + 1 : i = c.idx + 1
    BY <1>2, <1>8
  <2>3. PICK q : q = [c EXCEPT !.idx = i, !.pc = pc]
    OBVIOUS
  <2>4. /\ q \in Reader /\ q.pc = pc /\ q.buf = c.buf /\ q.op = c.op /\ q.key = c.key
        /\ q.type = c.type /\ q.since = c.since /\ q.count = c.count /\ q.idx = i
        /\ ~q.found
    BY <1>3, <2>1, <2>3 DEF Reader
  <2>5. rd' = [rd EXCEPT ![r] = q] /\ rd'[r] = q
    BY <1>1, <1>2, <1>9, <1>12, <2>1, <2>2, <2>3
  <2>6. CallOK(q)
    BY <1>2, <1>3, <2>1, <2>4 DEF CallOK
  <2>7. \A x \in 1 .. i - 1 : EntryAt(hist[j], x).key # c.key
    BY <1>7, <1>8, <1>12, <2>2
  <2>8. ReaderOK(r)'
    <3>1. ASSUME pc = "scan" PROVE Found(q, hist[j])
      <4>1. i \in 1 .. c.count
        BY <1>8, <2>1, <2>2, <3>1
      <4>2. hist[j].ptr = c.buf /\ hist[j].bufs[c.buf].count = c.count
        BY <1>4 DEF Found
      <4>3. QED
        BY <2>4, <2>7, <3>1, <4>1, <4>2 DEF Found, EntryAt
    <3>2. QED
      BY <1>3, <1>4, <1>10, <2>1, <2>4, <2>5, <2>6, <3>1 DEF ReaderOK
  <2>9. AnswerOK(r)'
    <3>1. ASSUME pc = "done" PROVE RightFor(q, hist[j])
      <4>1. c.idx = c.count
        BY <2>1, <3>1
      <4>2. \A x \in 1 .. Count(hist[j]) : EntryAt(hist[j], x).key # q.key
        BY <1>8, <2>2, <2>4, <2>7, <4>1
      <4>3. ~Has(hist[j], q.key)
        BY <1>5, <4>2, FindIs
      <4>4. QED
        BY <1>3, <1>5, <2>4, <4>3, MissingIsRight
    <3>2. QED
      BY <1>5, <1>10, <2>4, <2>5, <3>1 DEF AnswerOK
  <2>10. QED
    BY <1>2, <1>9, <1>10, <2>4, <2>5, <2>8, <2>9, ReaderMoves
<1>13. QED
  BY <1>11, <1>12

\* The type and the value pointer are those of one field, although they are
\* two loads: a filled entry never changes.
LEMMA LoadEntryStep ==
  ASSUME ObjectInv, NEW r \in Readers, LoadEntry(r)
  PROVE  ObjectInv' /\ UNCHANGED fault
<1>1. PICK c \in Reader : c = rd[r]
  BY DEF ObjectInv, TypeOK
<1>2. /\ c.pc = "entry" /\ ReaderOK(r) /\ UNCHANGED <<hist, floor, w, fault>>
      /\ Len(hist) \in Nat /\ rd \in [Readers -> Reader] /\ fault' \in Faults
      /\ floor \in [Readers -> 1 .. Len(hist)] /\ floor[r] \in 1 .. Len(hist)
  <2>1. c.pc = "entry" /\ UNCHANGED <<hist, floor, w, fault>>
    BY <1>1 DEF LoadEntry, memoryVars
  <2>2. ReaderOK(r) /\ TypeOK
    BY DEF ObjectInv
  <2>3. /\ Len(hist) \in Nat /\ rd \in [Readers -> Reader] /\ fault \in Faults
        /\ floor \in [Readers -> 1 .. Len(hist)] /\ floor[r] \in 1 .. Len(hist)
    BY <2>2 DEF TypeOK
  <2>4. QED
    BY <2>1, <2>2, <2>3
<1>3. /\ c.since \in 1 .. floor[r] /\ CallOK(c) /\ c.buf # Null /\ c.found
      /\ c.op \notin {"count", "has"} /\ c.op \in ReaderOps
      /\ IF c.op = "get" THEN c.type \in Types ELSE c.type = "none"
  BY <1>1, <1>2 DEF ReaderOK, CallOK
<1>4. PICK j \in c.since .. floor[r] : Found(c, hist[j])
  BY <1>1, <1>2 DEF ReaderOK
<1>5. /\ j \in 1 .. floor[r] /\ j \in 1 .. Len(hist) /\ j \in c.since .. Len(hist)
      /\ hist[j] \in Memory /\ SnapshotOK(hist[j])
  BY <1>2, <1>3, <1>4 DEF ObjectInv, TypeOK, HistoryOK
<1>6. PICK e : e = EntryAt(hist[j], c.idx)
  OBVIOUS
<1>7. \A k \in Visible(r) : hist[k].bufs[rd[r].buf].entry[rd[r].idx] = e
  BY <1>1, <1>3, <1>4, <1>5, <1>6, SeenEntry
<1>8. rd' = [rd EXCEPT ![r] =
               CASE @.op = "type" \/ (@.op = "nested" /\ e.type # "object") ->
                      [@ EXCEPT !.pc = "done", !.type = e.type]
                 [] @.op = "get" /\ e.type # @.type ->
                      [@ EXCEPT !.pc = "done", !.found = FALSE]
                 [] OTHER -> [@ EXCEPT !.pc = "value", !.cell = e.cell]]
  BY <1>7 DEF LoadEntry
<1>9. /\ Visible(r) # {} /\ floor[r] \in Visible(r)
  BY <1>2 DEF Visible
<1>10. /\ c.idx \in 1 .. Count(hist[j]) /\ e.key = c.key
  BY <1>2, <1>3, <1>4, <1>5, <1>6, <1>9, SeenEntry
<1>11. /\ e \in Entry /\ e.type \in Types /\ e.cell \in Nat /\ e.type # "none"
  <2>1. e \in Entry /\ e.type \in Types
    BY <1>5, <1>6, <1>10, FieldOK
  <2>2. QED
    BY <2>1, ConstantsAssumption DEF Entry
<1>12. Has(hist[j], c.key) /\ FieldType(hist[j], c.key) = e.type
  BY <1>5, <1>6, <1>10, FoundField
<1>13. floor' = [floor EXCEPT ![r] = floor[r]] /\ floor'[r] = floor[r] /\ hist' = hist
  BY <1>2
<1>14. ASSUME NEW q \in Reader, rd' = [rd EXCEPT ![r] = q], q.since = c.since, CallOK(q),
              q.pc \in {"done", "value"}, q.pc = "done" => RightFor(q, hist[j]),
              q.pc = "value" => Found(q, hist[j])
       PROVE  ObjectInv' /\ UNCHANGED fault
  <2>1. rd'[r] = q
    BY <1>2, <1>14
  <2>2. ReaderOK(r)'
    BY <1>3, <1>4, <1>13, <1>14, <2>1 DEF ReaderOK
  <2>3. AnswerOK(r)'
    BY <1>5, <1>13, <1>14, <2>1 DEF AnswerOK
  <2>4. QED
    BY <1>2, <1>13, <1>14, <2>2, <2>3, ReaderMoves
<1>15. CASE c.op = "type" \/ (c.op = "nested" /\ e.type # "object")
  <2>1. PICK q : q = [c EXCEPT !.pc = "done", !.type = e.type]
    OBVIOUS
  <2>2. /\ q \in Reader /\ q.pc = "done" /\ q.type = e.type /\ q.since = c.since
        /\ q.op = c.op /\ q.key = c.key /\ q.found = c.found
    BY <1>11, <2>1 DEF Reader
  <2>3. rd' = [rd EXCEPT ![r] = q]
    BY <1>1, <1>8, <1>15, <2>1
  <2>4. CallOK(q)
    BY <1>2, <1>3, <2>2 DEF CallOK
  <2>5. RightFor(q, hist[j])
    BY <1>3, <1>11, <1>12, <1>15, <2>2 DEF RightFor
  <2>6. QED
    BY <1>14, <2>2, <2>3, <2>4, <2>5
<1>16. CASE c.op = "get" /\ e.type # c.type
  <2>1. PICK q : q = [c EXCEPT !.pc = "done", !.found = FALSE]
    OBVIOUS
  <2>2. /\ q \in Reader /\ q.pc = "done" /\ q.type = c.type /\ q.since = c.since
        /\ q.op = c.op /\ q.key = c.key /\ ~q.found
    BY <2>1 DEF Reader
  <2>3. rd' = [rd EXCEPT ![r] = q]
    BY <1>1, <1>8, <1>16, <2>1
  <2>4. CallOK(q)
    BY <1>2, <1>3, <2>2 DEF CallOK
  <2>5. RightFor(q, hist[j])
    BY <1>3, <1>12, <1>16, <2>2 DEF RightFor
  <2>6. QED
    BY <1>14, <2>2, <2>3, <2>4, <2>5
<1>17. CASE /\ ~(c.op = "type" \/ (c.op = "nested" /\ e.type # "object"))
            /\ ~(c.op = "get" /\ e.type # c.type)
  <2>1. PICK q : q = [c EXCEPT !.pc = "value", !.cell = e.cell]
    OBVIOUS
  <2>2. /\ q \in Reader /\ q.pc = "value" /\ q.type = c.type /\ q.since = c.since
        /\ q.op = c.op /\ q.key = c.key /\ q.found = c.found /\ q.cell = e.cell
        /\ q.buf = c.buf /\ q.count = c.count /\ q.idx = c.idx
    BY <1>11, <2>1 DEF Reader
  <2>3. rd' = [rd EXCEPT ![r] = q]
    BY <1>1, <1>8, <1>17, <2>1
  <2>4. CallOK(q)
    BY <1>2, <1>3, <1>17, <2>2 DEF CallOK
  <2>5. Found(q, hist[j])
    <3>1. hist[j].bufs[c.buf].entry[c.idx] = e
      BY <1>4, <1>6 DEF Found, EntryAt
    <3>2. QED
      BY <1>2, <1>4, <1>10, <1>17, <2>2, <3>1 DEF Found
  <2>6. QED
    BY <1>14, <2>2, <2>3, <2>4, <2>5
<1>18. QED
  BY <1>15, <1>16, <1>17

\* The value is one the field had while it was in the object.
LEMMA ReadValueStep ==
  ASSUME ObjectInv, NEW r \in Readers, ReadValue(r)
  PROVE  ObjectInv' /\ UNCHANGED fault
<1>1. PICK c \in Reader : c = rd[r]
  BY DEF ObjectInv, TypeOK
<1>2. /\ c.pc = "value" /\ ReaderOK(r) /\ UNCHANGED w
      /\ Len(hist) \in Nat /\ rd \in [Readers -> Reader] /\ fault \in Faults
      /\ floor \in [Readers -> 1 .. Len(hist)] /\ floor[r] \in 1 .. Len(hist)
  BY <1>1 DEF ReadValue, ObjectInv, TypeOK
<1>3. /\ c.since \in 1 .. floor[r] /\ CallOK(c) /\ c.buf # Null /\ c.found
      /\ c.op \notin {"count", "has", "type"} /\ c.op \in ReaderOps /\ c.key \in Keys
      /\ IF c.op = "get" THEN c.type \in Types ELSE c.type = "none"
  BY <1>1, <1>2 DEF ReaderOK, CallOK
<1>4. PICK j \in c.since .. floor[r] : Found(c, hist[j])
  BY <1>1, <1>2 DEF ReaderOK
<1>5. j \in 1 .. floor[r] /\ j \in Nat
  BY <1>2, <1>3, <1>4
<1>6. PICK k \in Visible(r) :
        IF c.cell = Null THEN Bad("null_read")
        ELSE IF c.cell \notin DOMAIN hist[k].cells THEN Bad("uninit_read")
        ELSE /\ Load(r, k, IF c.type = "string" THEN Acquire ELSE Relaxed, TRUE)
             /\ rd' = [rd EXCEPT ![r].pc = "done", ![r].out = hist[k].cells[c.cell].val]
             /\ UNCHANGED fault
  BY <1>1 DEF ReadValue
<1>7. /\ k \in 1 .. Len(hist) /\ floor[r] <= k /\ Extends(hist[j], hist[k]) /\ WasCurrent(j, k)
      /\ hist[k] \in Memory /\ hist[j] \in Memory /\ SnapshotOK(hist[j])
  BY <1>5, VisibleOK
<1>8. PICK e : e = EntryAt(hist[j], c.idx)
  OBVIOUS
<1>9. /\ c.idx \in 1 .. Count(hist[j]) /\ e.key = c.key
  BY <1>2, <1>3, <1>4, <1>5, <1>8, SeenEntry
<1>10. /\ c.cell = e.cell
       /\ c.op = "get" => e.type = c.type
       /\ c.op = "nested" => e.type = "object"
  BY <1>2, <1>4, <1>8 DEF Found, EntryAt
<1>11. e.cell \in DOMAIN hist[j].cells /\ hist[j].cells[e.cell].type = e.type
  BY <1>7, <1>8, <1>9, FieldOK
<1>12. /\ c.cell # Null /\ c.cell \in DOMAIN hist[k].cells
       /\ c.cell \in DOMAIN hist[j].cells
       /\ hist[k].cells[c.cell].val \in Values \cup {Zero}
  <2>1. /\ DOMAIN hist[j].cells = 1 .. Len(hist[j].cells) /\ Len(hist[j].cells) \in Nat
        /\ hist[k].cells \in Seq(Cell)
    BY <1>7 DEF Memory
  <2>2. c.cell \in DOMAIN hist[k].cells
    BY <1>7, <1>10, <1>11 DEF Extends
  <2>3. hist[k].cells[c.cell] \in Cell
    BY <2>1, <2>2
  <2>4. QED
    BY <1>10, <1>11, <2>1, <2>2, <2>3 DEF Cell, Null
<1>13. Holds(hist[j], c.key, c.cell)
  BY <1>8, <1>9, <1>10 DEF Holds
<1>14. PICK l \in j .. k : /\ Holds(hist[l], c.key, c.cell)
                           /\ hist[l].cells[c.cell].val = hist[k].cells[c.cell].val
  BY <1>3, <1>7, <1>12, <1>13 DEF WasCurrent
<1>15. l \in 1 .. Len(hist) /\ j \in 1 .. l /\ l \in c.since .. Len(hist)
  BY <1>2, <1>3, <1>4, <1>5, <1>7, <1>14
<1>16. hist[l] \in Memory /\ SnapshotOK(hist[l]) /\ Extends(hist[j], hist[l])
  BY <1>15 DEF ObjectInv, TypeOK, HistoryOK
<1>17. PICK i \in 1 .. Count(hist[l]) :
         EntryAt(hist[l], i).key = c.key /\ EntryAt(hist[l], i).cell = c.cell
  BY <1>14 DEF Holds
<1>18. /\ Has(hist[l], c.key) /\ FieldType(hist[l], c.key) = e.type
       /\ FieldValue(hist[l], c.key) = hist[k].cells[c.cell].val
  <2>1. EntryAt(hist[l], i).type = hist[l].cells[c.cell].type
    BY <1>16, <1>17, FieldOK
  <2>2. hist[l].cells[c.cell].type = e.type
    BY <1>10, <1>11, <1>16 DEF Extends
  <2>3. QED
    BY <1>14, <1>16, <1>17, <2>1, <2>2, FoundField
<1>19. PICK out \in Values \cup {Zero} : out = hist[k].cells[c.cell].val
  BY <1>12
<1>20. PICK q : q = [c EXCEPT !.pc = "done", !.out = out]
  OBVIOUS
<1>21. /\ q \in Reader /\ q.pc = "done" /\ q.type = c.type /\ q.since = c.since
       /\ q.op = c.op /\ q.key = c.key /\ q.found = c.found /\ q.out = out
  BY <1>20 DEF Reader
<1>22. rd' = [rd EXCEPT ![r] = q] /\ rd'[r] = q /\ UNCHANGED fault
  BY <1>1, <1>2, <1>6, <1>12, <1>19, <1>20
<1>23. PICK f \in {floor[r], k} : /\ floor' = [floor EXCEPT ![r] = f] /\ floor'[r] = f
                                  /\ f \in 1 .. Len(hist) /\ UNCHANGED hist
  <2>1. PICK order, released : Load(r, k, order, released)
    BY <1>6, <1>12
  <2>2. PICK f \in {floor[r], k} : /\ floor' = [floor EXCEPT ![r] = f] /\ floor'[r] = f
                                   /\ f \in 1 .. Len(hist) /\ UNCHANGED hist
                                   /\ order = Acquire /\ released => f = k
    BY <2>1, LoadFloor
  <2>3. QED
    BY <2>2
<1>24. RightFor(q, hist[l])
  BY <1>3, <1>10, <1>18, <1>19, <1>21 DEF RightFor
<1>25. AnswerOK(r)'
  BY <1>15, <1>21, <1>22, <1>23, <1>24 DEF AnswerOK
<1>26. ReaderOK(r)'
  <2>1. CallOK(q)
    BY <1>2, <1>3, <1>21 DEF CallOK
  <2>2. c.since \in 1 .. f
    BY <1>2, <1>3, <1>7, <1>23
  <2>3. QED
    BY <1>21, <1>22, <1>23, <2>1, <2>2 DEF ReaderOK
<1>27. QED
  BY <1>2, <1>21, <1>22, <1>23, <1>25, <1>26, ReaderMoves

LEMMA OnlyFaultMoves ==
  ASSUME ObjectInv, UNCHANGED <<hist, floor, w, rd>>, fault' \in Faults
  PROVE  ObjectInv'
<1>1. TypeOK'
  BY DEF ObjectInv, TypeOK
<1>2. HistoryOK' /\ WriterOK'
  BY DEF ObjectInv, HistoryOK, WasCurrent, WriterOK, Now
<1>3. ASSUME NEW r \in Readers PROVE ReaderOK(r)'
  <2>1. ReaderOK(r)
    BY DEF ObjectInv
  <2>2. QED
    BY <2>1 DEF ReaderOK
<1>4. AnswersAreRegular'
  BY DEF ObjectInv, AnswersAreRegular
<1>5. QED
  BY <1>1, <1>2, <1>3, <1>4 DEF ObjectInv

LEMMA ReaderStep ==
  ASSUME ObjectInv, NEW r \in Readers, ReaderNext(r)
  PROVE  /\ ObjectInv' /\ UNCHANGED <<hist, w>>
         /\ fault' \in {fault, "abort", "reader_store"}
<1>1. UNCHANGED <<hist, w>>
  BY DEF ReaderNext, Call, LoadPtr, LoadCount, Scan, LoadEntry, ReadValue, Done, NestedMiss,
         Bad, Load, memoryVars
<1>2. CASE NestedMiss(r)
  <2>1. fault' \in {"abort", "reader_store"} /\ UNCHANGED <<hist, floor, w, rd>>
    BY <1>2 DEF NestedMiss, memoryVars
  <2>2. QED
    BY <2>1, OnlyFaultMoves DEF Faults
<1>3. CASE \E op \in ReaderOps : Call(r, op)
  BY <1>1, <1>3, CallStep
<1>4. CASE LoadPtr(r) \/ LoadCount(r) \/ Scan(r)
  BY <1>1, <1>4, LoadPtrStep, LoadCountStep, ScanStep
<1>5. CASE LoadEntry(r) \/ ReadValue(r) \/ Done(r)
  BY <1>1, <1>5, LoadEntryStep, ReadValueStep, DoneStep
<1>6. QED
  BY <1>2, <1>3, <1>4, <1>5 DEF ReaderNext

LEMMA ObjectInit ==
  ASSUME Init
  PROVE  ObjectInv /\ OnlyLongNamesStay /\ Count(Now) = 0
<1>1. PICK m : m = [ptr |-> Null, ptrRel |-> FALSE, bufs |-> <<>>, cells |-> <<>>]
  OBVIOUS
<1>2. m \in Memory /\ m.ptr = Null /\ m.bufs = <<>> /\ m.cells = <<>>
  BY <1>1 DEF Memory, Null
<1>3. hist = <<m>> /\ floor = [r \in Readers |-> 1]
  BY <1>1 DEF Init, MemoryInit
<1>4. hist \in Seq(Memory) /\ hist # <<>> /\ Len(hist) = 1 /\ hist[1] = m /\ Now = m
  BY <1>2, <1>3 DEF Now
<1>5. \A r \in Readers : rd[r] = IdleReader
  BY DEF Init
<1>6. w = IdleWriter /\ w \in Writer /\ w.pc = "idle" /\ w.op = "none"
  BY IdleWriterType DEF Init
<1>7. TypeOK
  BY <1>3, <1>4, <1>6, IdleReaderType DEF Init, TypeOK, Faults
<1>8. SnapshotOK(m) /\ Extends(m, m) /\ Count(m) = 0
  BY <1>2 DEF SnapshotOK, WellFormed, Extends, Null, Count
<1>9. HistoryOK
  <2>1. WasCurrent(1, 1)
    BY <1>2, <1>4 DEF WasCurrent
  <2>2. QED
    BY <1>2, <1>4, <1>8, <2>1 DEF HistoryOK
<1>10. WriterOK /\ OnlyLongNamesStay
  BY <1>6 DEF WriterOK, OnlyLongNamesStay
<1>11. CallOK(IdleReader) /\ IdleReader.pc = "idle" /\ IdleReader.since = 1
  BY IdleReaderType DEF CallOK
<1>12. ASSUME NEW r \in Readers PROVE ReaderOK(r)
  <2>1. rd[r] = IdleReader /\ floor[r] = 1
    BY <1>3, <1>5
  <2>2. QED
    BY <1>11, <2>1 DEF ReaderOK
<1>13. AnswersAreRegular
  BY <1>5, <1>11 DEF AnswersAreRegular
<1>14. QED
  BY <1>4, <1>7, <1>8, <1>9, <1>10, <1>12, <1>13 DEF ObjectInv

\* A step of the object: the writer's, a reader's, or none.
LEMMA ObjectStep ==
  ASSUME ObjectInv, [Next]_vars
  PROVE  /\ ObjectInv'
         /\ Stored \/ UNCHANGED hist
         /\ OnlyLongNamesStay => OnlyLongNamesStay'
         /\ OnlyWrapsOverrun => OnlyWrapsOverrun'
         /\ fault' \in {fault, "abort", "null_write", "overrun_write", "reader_store"}
<1>1. CASE fault = "none" /\ WriterNext
  BY <1>1, WriterKeeps, WriterStep DEF ObjectInv, WriterInv
<1>2. CASE fault = "none" /\ \E r \in Readers : ReaderNext(r)
  <2>1. /\ ObjectInv' /\ UNCHANGED <<hist, w>>
        /\ fault' \in {fault, "abort", "reader_store"}
    BY <1>2, ReaderStep
  <2>2. OnlyLongNamesStay => OnlyLongNamesStay'
    BY <2>1 DEF OnlyLongNamesStay, Now
  <2>3. OnlyWrapsOverrun'
    BY <1>2, <2>1 DEF OnlyWrapsOverrun
  <2>4. QED
    BY <2>1, <2>2, <2>3
<1>3. CASE UNCHANGED vars
  <2>1. UNCHANGED <<hist, floor, w, rd, fault>>
    BY <1>3 DEF vars
  <2>2. ObjectInv'
    BY <2>1, OnlyFaultMoves DEF ObjectInv, TypeOK
  <2>3. OnlyLongNamesStay => OnlyLongNamesStay'
    BY <2>1 DEF OnlyLongNamesStay, Now
  <2>4. OnlyWrapsOverrun => OnlyWrapsOverrun'
    BY <2>1 DEF OnlyWrapsOverrun, Now
  <2>5. QED
    BY <2>1, <2>2, <2>3, <2>4
<1>4. QED
  BY <1>1, <1>2, <1>3 DEF Next

-----------------------------------------------------------------------------
(* The object implements PropertyBag. *)

Map(m) == [k \in Present(m) |-> [type |-> FieldType(m, k), val |-> FieldValue(m, k)]]

LEMMA MapIs ==
  ASSUME NEW m \in Memory, SnapshotOK(m), NEW k, NEW t, NEW v
  PROVE  FieldIs(m, k, t, v) <=>
           k \in Present(m) /\ t = FieldType(m, k) /\ v = FieldValue(m, k)
<1>1. ASSUME FieldIs(m, k, t, v)
      PROVE  k \in Present(m) /\ t = FieldType(m, k) /\ v = FieldValue(m, k)
  <2>1. PICK i \in 1 .. Count(m) : /\ EntryAt(m, i).key = k /\ EntryAt(m, i).type = t
                                   /\ m.cells[EntryAt(m, i).cell].val = v
    BY <1>1 DEF FieldIs
  <2>2. QED
    BY <2>1, FoundField DEF Present
<1>2. ASSUME k \in Present(m), t = FieldType(m, k), v = FieldValue(m, k)
      PROVE  FieldIs(m, k, t, v)
  <2>1. PICK i \in 1 .. Count(m) : EntryAt(m, i).key = k
    BY <1>2 DEF Present
  <2>2. QED
    BY <1>2, <2>1, FoundField DEF FieldIs
<1>3. QED
  BY <1>1, <1>2

LEMMA PresentIs ==
  ASSUME NEW m \in Memory, SnapshotOK(m), NEW k
  PROVE  k \in Present(m) <=> \E t, v : FieldIs(m, k, t, v)
BY MapIs

LEMMA SameMapStep ==
  ASSUME NEW m \in Memory, SnapshotOK(m), NEW n \in Memory, SnapshotOK(n), SameMap(n, m)
  PROVE  Map(n) = Map(m)
<1>1. Present(n) = Present(m)
  <2>1. ASSUME NEW k PROVE k \in Present(n) <=> k \in Present(m)
    BY PresentIs DEF SameMap
  <2>2. QED
    BY <2>1
<1>2. ASSUME NEW k \in Present(m)
      PROVE  FieldType(n, k) = FieldType(m, k) /\ FieldValue(n, k) = FieldValue(m, k)
  <2>1. FieldIs(m, k, FieldType(m, k), FieldValue(m, k))
    BY <1>2, MapIs
  <2>2. FieldIs(n, k, FieldType(m, k), FieldValue(m, k))
    BY <2>1 DEF SameMap
  <2>3. QED
    BY <2>2, MapIs
<1>3. QED
  BY <1>1, <1>2 DEF Map

LEMMA SetMapStep ==
  ASSUME NEW m \in Memory, SnapshotOK(m), NEW n \in Memory, SnapshotOK(n),
         NEW k, SetMap(n, m, k)
  PROVE  \E t \in Types, v \in Values \cup {Zero} :
           /\ k \in Present(m) => FieldType(m, k) = t
           /\ Present(n) = Present(m) \cup {k}
           /\ FieldType(n, k) = t /\ FieldValue(n, k) = v
           /\ \A x \in Present(m) : x # k =>
                FieldType(n, x) = FieldType(m, x) /\ FieldValue(n, x) = FieldValue(m, x)
<1>1. PICK t \in Types, v \in Values \cup {Zero} :
        /\ \A u, x : FieldIs(m, k, u, x) => u = t
        /\ \A key, u, x :
             FieldIs(n, key, u, x) <=> IF key = k THEN u = t /\ x = v
                                       ELSE FieldIs(m, key, u, x)
  BY DEF SetMap
<1>2. k \in Present(m) => FieldType(m, k) = t
  BY <1>1, MapIs
<1>3. FieldIs(n, k, t, v)
  BY <1>1
<1>4. k \in Present(n) /\ FieldType(n, k) = t /\ FieldValue(n, k) = v
  BY <1>3, MapIs
<1>5. ASSUME NEW x, x # k PROVE x \in Present(n) <=> x \in Present(m)
  <2>1. \A u, y : FieldIs(n, x, u, y) <=> FieldIs(m, x, u, y)
    BY <1>1, <1>5
  <2>2. QED
    BY <2>1, PresentIs
<1>6. Present(n) = Present(m) \cup {k}
  BY <1>4, <1>5
<1>7. ASSUME NEW x \in Present(m), x # k
      PROVE  FieldType(n, x) = FieldType(m, x) /\ FieldValue(n, x) = FieldValue(m, x)
  <2>1. FieldIs(m, x, FieldType(m, x), FieldValue(m, x))
    BY <1>7, MapIs
  <2>2. FieldIs(n, x, FieldType(m, x), FieldValue(m, x))
    BY <1>1, <1>7, <2>1
  <2>3. QED
    BY <2>2, MapIs
<1>8. QED
  BY <1>2, <1>4, <1>6, <1>7

LEMMA RemoveMapStep ==
  ASSUME NEW m \in Memory, SnapshotOK(m), NEW n \in Memory, SnapshotOK(n),
         NEW k, RemoveMap(n, m, k)
  PROVE  /\ k \in Present(m) /\ Present(n) = Present(m) \ {k}
         /\ \A x \in Present(n) :
              FieldType(n, x) = FieldType(m, x) /\ FieldValue(n, x) = FieldValue(m, x)
<1>1. /\ \E t, v : FieldIs(m, k, t, v)
      /\ \A key, t, v : FieldIs(n, key, t, v) <=> key # k /\ FieldIs(m, key, t, v)
  BY DEF RemoveMap
<1>2. k \in Present(m)
  BY <1>1, PresentIs
<1>3. ASSUME NEW x PROVE x \in Present(n) <=> x \in Present(m) /\ x # k
  BY <1>1, PresentIs
<1>4. ASSUME NEW x \in Present(n)
      PROVE  FieldType(n, x) = FieldType(m, x) /\ FieldValue(n, x) = FieldValue(m, x)
  <2>1. FieldIs(n, x, FieldType(n, x), FieldValue(n, x))
    BY <1>4, MapIs
  <2>2. FieldIs(m, x, FieldType(n, x), FieldValue(n, x))
    BY <1>1, <2>1
  <2>3. QED
    BY <2>2, MapIs
<1>5. QED
  BY <1>2, <1>3, <1>4

LEMMA BagInit ==
  ASSUME Init
  PROVE  Bag!Init
<1>1. Count(Now) = 0
  BY ObjectInit
<1>2. Present(Now) = {}
  BY <1>1 DEF Present
<1>3. QED
  BY <1>2 DEF Bag!Init, Fields

LEMMA BagStep ==
  ASSUME ObjectInv, ObjectInv', Stored \/ UNCHANGED hist
  PROVE  [Bag!Next]_Fields
<1>1. Fields = Map(Now)
  BY DEF Fields, Map
<1>2. CASE UNCHANGED hist \/ UNCHANGED memoryVars
  <2>1. Now' = Now
    BY <1>2 DEF Now, memoryVars
  <2>2. QED
    BY <2>1 DEF Fields
<1>3. CASE \E n \in Memory : Store(n) /\ StoredOver(n, Now) /\ MapStep(n, Now)
  <2>1. PICK n \in Memory : Store(n) /\ StoredOver(n, Now) /\ MapStep(n, Now)
    BY <1>3
  <2>2. PICK m \in Memory : m = Now /\ SnapshotOK(m)
    BY NowOK DEF ObjectInv, WriterInv
  <2>3. Now' = n /\ SnapshotOK(n)
    BY <2>1, StoreHistory DEF ObjectInv, StoredOver
  <2>4. Fields' = Map(n) /\ Fields = Map(m)
    BY <1>1, <2>2, <2>3 DEF Fields, Map
  <2>5. CASE SameMap(n, m)
    BY <2>2, <2>3, <2>4, <2>5, SameMapStep
  <2>6. ASSUME NEW k \in Keys, SetMap(n, m, k)
        PROVE  Bag!Next
    <3>1. PICK t \in Types, v \in Values \cup {Zero} :
            /\ k \in Present(m) => FieldType(m, k) = t
            /\ Present(n) = Present(m) \cup {k}
            /\ FieldType(n, k) = t /\ FieldValue(n, k) = v
            /\ \A x \in Present(m) : x # k =>
                 FieldType(n, x) = FieldType(m, x) /\ FieldValue(n, x) = FieldValue(m, x)
      BY <2>2, <2>3, <2>6, SetMapStep
    <3>2. DOMAIN Fields = Present(m) /\ \A x \in Present(m) : Fields[x].type = FieldType(m, x)
      BY <2>4 DEF Map
    <3>3. Map(n) = [x \in Present(m) \cup {k} |->
                      IF x = k THEN [type |-> t, val |-> v] ELSE Map(m)[x]]
      BY <3>1 DEF Map
    <3>4. Bag!Set(k, t, v)
      BY <2>4, <3>1, <3>2, <3>3 DEF Bag!Set
    <3>5. QED
      BY <3>4 DEF Bag!Next
  <2>7. ASSUME NEW k \in Keys, RemoveMap(n, m, k)
        PROVE  Bag!Next
    <3>1. /\ k \in Present(m) /\ Present(n) = Present(m) \ {k}
          /\ \A x \in Present(n) :
               FieldType(n, x) = FieldType(m, x) /\ FieldValue(n, x) = FieldValue(m, x)
      BY <2>2, <2>3, <2>7, RemoveMapStep
    <3>2. DOMAIN Fields = Present(m)
      BY <2>4 DEF Map
    <3>3. Map(n) = [x \in Present(m) \ {k} |-> Map(m)[x]]
      BY <3>1 DEF Map
    <3>4. Bag!Remove(k)
      BY <2>4, <3>1, <3>2, <3>3 DEF Bag!Remove
    <3>5. QED
      BY <3>4 DEF Bag!Next
  <2>8. QED
    BY <2>1, <2>2, <2>5, <2>6, <2>7 DEF MapStep
<1>4. QED
  BY <1>2, <1>3 DEF Stored

-----------------------------------------------------------------------------
(* What follows of every behaviour. *)

\* Published buffers are well formed and only grow at the end, and what a call
\* in progress has found it found at a moment of its own
\* (msm_allocator.cpp:566-640, 919-1003).
THEOREM ObjectCorrect == Spec => []ObjectInv
<1>1. Init => ObjectInv
  BY ObjectInit
<1>2. ObjectInv /\ [Next]_vars => ObjectInv'
  BY ObjectStep
<1>3. QED
  BY <1>1, <1>2, PTL DEF Spec

\* The slot's variables keep their types, and no count exceeds the largest
\* capacity (msm_allocator.cpp:591-640).
THEOREM TypeCorrect == Spec => []TypeOK
<1>1. ObjectInv => TypeOK
  BY DEF ObjectInv
<1>2. QED
  BY <1>1, ObjectCorrect, PTL

\* No reader reads outside live, initialised buffers and values (contract G2,
\* msm_allocator.cpp:566-583), however often mallocs fail and capacities wrap:
\* the writer may go wrong then, and until he does the readers do not.
THEOREM ReadersSafeCorrect == Spec => []ReadersSafe
<1>1. Init => ReadersSafe
  BY DEF Init, ReadersSafe
<1>2. ObjectInv /\ ReadersSafe /\ [Next]_vars => ReadersSafe'
  BY ObjectStep DEF ReadersSafe
<1>3. QED
  BY <1>1, <1>2, ObjectCorrect, PTL DEF Spec

\* The writer writes behind a buffer only when the doubled capacity wraps
\* (msm_allocator.cpp:608-620).
THEOREM OnlyWrapsOverrunCorrect == Spec => []OnlyWrapsOverrun
<1>1. Init => OnlyWrapsOverrun
  BY DEF Init, OnlyWrapsOverrun
<1>2. ObjectInv /\ OnlyWrapsOverrun /\ [Next]_vars => OnlyWrapsOverrun'
  BY ObjectStep
<1>3. QED
  BY <1>1, <1>2, ObjectCorrect, PTL DEF Spec

Headroom == MallocMayFail = FALSE /\ 2 * MaxEntries < U32
MemorySafe == fault \in {"none", "abort", "reader_store"}

\* With a malloc that never fails and capacities that double without wrapping,
\* nobody leaves memory (msm_allocator.cpp:591-624, 706-712).
THEOREM MemorySafeCorrect == ASSUME Headroom PROVE Spec => []MemorySafe
<1>1. Init => MemorySafe
  BY DEF Init, MemorySafe
<1>2. ASSUME ObjectInv, fault = "none", WriterNext
      PROVE  fault' \in {"none", "abort"}
  <2>1. /\ WriterInv /\ Cap(Now) \in 0 .. MaxEntries
        /\ MaxEntries \in Nat /\ U32 \in Nat
    <3>1. WriterInv
      BY <1>2 DEF ObjectInv, WriterInv
    <3>2. QED
      BY <3>1, NowOK, CurrentBuffer, ConstantsAssumption
  <2>2. ASSUME NEW n \in Names, NEW t \in Types, NEW v \in ValuesOf(t), AddEntry(n, t, v)
        PROVE  fault' = fault
    BY <2>1, <2>2, AddEntryStep DEF Headroom
  <2>3. ASSUME NEW n \in Names, NEW t \in Types, NEW v \in ValuesOf(t), Overwrite(n, t, v)
        PROVE  fault' \in {fault, "abort"}
    BY <2>1, <2>3, OverwriteStep
  <2>4. CASE FillEntry
    <3>1. w.pc = "fill" => Count(Now) < Cap(Now)
      BY <2>1 DEF WriterInv, WriterOK
    <3>2. QED
      BY <1>2, <2>4, <3>1 DEF FillEntry, Headroom
  <2>5. CASE CommitAdd \/ \E n \in Names : Remove(n)
    BY <1>2, <2>5 DEF CommitAdd, Remove
  <2>6. QED
    BY <1>2, <2>2, <2>3, <2>4, <2>5 DEF WriterNext
<1>3. ObjectInv /\ MemorySafe /\ [Next]_vars => MemorySafe'
  <2>1. SUFFICES ASSUME ObjectInv, MemorySafe, [Next]_vars
                 PROVE  MemorySafe'
    OBVIOUS
  <2>2. CASE fault = "none" /\ WriterNext
    BY <1>2, <2>1, <2>2 DEF MemorySafe
  <2>3. CASE fault = "none" /\ \E r \in Readers : ReaderNext(r)
    BY <2>1, <2>3, ReaderStep DEF MemorySafe
  <2>4. CASE UNCHANGED vars
    BY <2>1, <2>4 DEF vars, MemorySafe
  <2>5. QED
    BY <2>1, <2>2, <2>3, <2>4 DEF Next
<1>4. QED
  BY <1>1, <1>3, ObjectCorrect, PTL DEF Spec

\* Every answer is right for a moment between what the reader had acquired
\* when it called and the return (test_concurrent.cpp:337-350).
THEOREM AnswersAreRegularCorrect == Spec => []AnswersAreRegular
<1>1. ObjectInv => AnswersAreRegular
  BY DEF ObjectInv
<1>2. QED
  BY <1>1, ObjectCorrect, PTL

\* In every buffer the fields have distinct names, and values of their type
\* that they share with no other field (msm_allocator.cpp:591-640).
THEOREM FieldsAreDistinctCorrect == Spec => []FieldsAreDistinct
<1>1. ObjectInv => FieldsAreDistinct
  <2>1. ObjectInv => SnapshotOK(Now)
    BY NowOK DEF ObjectInv, WriterInv
  <2>2. QED
    BY <2>1 DEF SnapshotOK, FieldsAreDistinct
<1>2. QED
  BY <1>1, ObjectCorrect, PTL

\* A remove that succeeds takes the field away; one that does not leaves a
\* field only when the name is cut by the other calls (msm_allocator.cpp:683
\* against 930).
THEOREM OnlyLongNamesStayCorrect == Spec => []OnlyLongNamesStay
<1>1. Init => OnlyLongNamesStay
  BY ObjectInit
<1>2. ObjectInv /\ OnlyLongNamesStay /\ [Next]_vars => OnlyLongNamesStay'
  BY ObjectStep
<1>3. QED
  BY <1>1, <1>2, ObjectCorrect, PTL DEF Spec

\* So a field is gone when remove has returned, as long as every name used is
\* shorter than the 2^16 bytes whose length the other calls keep
\* (msm_allocator.h:171-172).
THEOREM RemovedIsGoneCorrect ==
  ASSUME \A n \in Names : Len(n) < U16
  PROVE  Spec => []RemovedIsGone
<1>1. TypeOK /\ OnlyLongNamesStay => RemovedIsGone
  <2>1. SUFFICES ASSUME TypeOK, OnlyLongNamesStay PROVE RemovedIsGone
    OBVIOUS
  <2>2. w.name \in Names \cup {<<>>}
    BY <2>1 DEF TypeOK, Writer
  <2>3. U16 \in Nat \ {0} /\ Len(<<>>) = 0
    BY ConstantsAssumption
  <2>4. \A n \in Names : Len(n) \in Nat /\ Len(n) < U16
    BY ShortNames
  <2>5. ~(Len(w.name) >= U16)
    BY <2>2, <2>3, <2>4
  <2>6. QED
    BY <2>1, <2>5 DEF OnlyLongNamesStay, RemovedIsGone
<1>2. QED
  BY <1>1, TypeCorrect, OnlyLongNamesStayCorrect, PTL

\* The fields of a published buffer stay where they are, and its count never
\* falls (contract G2, msm_allocator.cpp:591-640, 919-1003).
THEOREM PublishedIsFrozenCorrect == Spec => PublishedIsFrozen
<1> DEFINE Frozen == \A b \in DOMAIN Now.bufs :
                       LET old == Now.bufs[b]
                           new == Now'.bufs[b]
                       IN  /\ old.count <= new.count
                           /\ \A i \in 1 .. old.count : old.entry[i] = new.entry[i]
<1>1. ObjectInv /\ [Next]_vars => [Frozen]_vars
  <2>1. SUFFICES ASSUME ObjectInv, [Next]_vars PROVE Frozen
    OBVIOUS
  <2>2. Now \in Memory
    BY <2>1, NowType DEF ObjectInv
  <2>3. CASE UNCHANGED hist \/ UNCHANGED memoryVars
    <3>1. Now' = Now
      BY <2>3 DEF Now, memoryVars
    <3>2. QED
      BY <2>2, <3>1, CountsAreNat
  <2>4. CASE \E m \in Memory : Store(m) /\ StoredOver(m, Now) /\ MapStep(m, Now)
    <3>1. PICK m \in Memory : Store(m) /\ StoredOver(m, Now)
      BY <2>4
    <3>2. Now' = m
      BY <2>1, <3>1, StoreHistory DEF ObjectInv
    <3>3. Extends(Now, m)
      BY <3>1 DEF StoredOver
    <3>4. QED
      BY <3>2, <3>3 DEF Extends
  <2>5. QED
    BY <2>1, <2>3, <2>4, ObjectStep DEF Stored
<1>2. QED
  BY <1>1, ObjectCorrect, PTL DEF Spec, PublishedIsFrozen

\* To its writer an object is a map from names to typed values, wherever its
\* fields are stored and however they are moved (msm_allocator.cpp:591-855, 919-1003).
THEOREM BagSpecCorrect == Spec => BagSpec
<1>1. Init => Bag!Init
  BY BagInit
<1>2. ObjectInv /\ ObjectInv' /\ [Next]_vars => [Bag!Next]_Fields
  BY ObjectStep, BagStep
<1>3. QED
  BY <1>1, <1>2, ObjectCorrect, PTL DEF Spec, BagSpec, Bag!Spec

=============================================================================
