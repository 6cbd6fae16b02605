----------------------------- MODULE MsmObject ------------------------------
(***************************************************************************)
(* One shared object slot, the dynamic property bag: the writer's          *)
(* msm_object_set_*, ensure_object and remove, and the readers' get_*,     *)
(* get_slot, has_field, get_type and field_count.                          *)
(*                                                                         *)
(* The slot points to a buffer [count|capacity|entries], an entry is       *)
(* [hash|type|value pointer], a value is a cell of its own.  Growing and   *)
(* removing publish a fresh buffer; adding fills the entry behind the last *)
(* one and then raises the count; overwriting changes the cell in place.   *)
(* Buffers and cells are numbered in the order they become reachable, and  *)
(* none is freed.                                                          *)
(***************************************************************************)
EXTENDS SwmrMemory

CONSTANTS
  Names,           \* the field names callers use: sequences of characters
  U16,             \* 2^16, the modulus of the length of a name
  U32,             \* 2^32, the modulus of the capacity field
  Types,           \* the field types callers use
  Values, Zero,    \* what is set, and what memset leaves in a value
  NoKey,           \* what memset leaves in the hash of an entry
  FirstCap,        \* the capacity of the first buffer (4 in the code)
  ReaderOps,       \* the calls the readers make
  MallocMayFail,   \* whether malloc may return null
  MaxEntries,      \* bound: the largest capacity
  MaxStores        \* bound: no writer call starts after so many stores

Chars == UNION {{n[i] : i \in DOMAIN n} : n \in Names}

\* "int32" stands for the four scalar types, whose calls differ in width only.
ASSUME ConstantsAssumption ==
  /\ U16 \in Nat \ {0} /\ U32 \in Nat \ {0}
  /\ Names \subseteq Seq(Chars)
  /\ Types \subseteq {"int32", "string", "object"}
  /\ FirstCap \in 1 .. MaxEntries
  /\ ReaderOps \subseteq {"get", "get_slot", "has", "type", "count", "nested"}
  /\ MallocMayFail \in BOOLEAN
  /\ MaxEntries \in 1 .. U32 - 1 /\ MaxStores \in Nat

VARIABLES
  w,               \* the writer's local state
  rd,              \* per reader, its local state
  fault            \* the abort or the first bad access, or "none"

vars == <<hist, floor, w, rd, fault>>

Null == 0

\* hash_name, taken to be injective: a field is known by the bytes hashed.
\* All calls but remove cut the length of the name to 16 bits first.
FieldKey(n) == SubSeq(n, 1, Len(n) % U16)
FullKey(n) == n
Keys == {FieldKey(n) : n \in Names} \cup {FullKey(n) : n \in Names}

Entry == [key : Keys \cup {NoKey}, type : Types \cup {"none"}, cell : Nat]
Cell == [type : Types, val : Values \cup {Zero}]
Buffer == [count : 0 .. MaxEntries, countRel : BOOLEAN, entry : Seq(Entry)]
Memory == [ptr : Nat, ptrRel : BOOLEAN, bufs : Seq(Buffer), cells : Seq(Cell)]

Faults == {"none", "abort", "null_write", "overrun_write", "reader_store",
           "uninit_read", "overrun_read", "null_read"}

Writer == [pc : {"idle", "fill", "commit"}, op : {"none", "set", "remove"},
           name : Names \cup {<<>>}, type : Types \cup {"none"},
           val : Values \cup {Zero}, ret : {0, -1}]

Reader == [pc : {"idle", "ptr", "count", "scan", "entry", "value", "done"},
           op : ReaderOps \cup {"none"}, key : Keys \cup {NoKey},
           type : Types \cup {"none"},
           since : Nat,               \* the oldest snapshot at the call
           buf : Nat, count : 0 .. MaxEntries, idx : 1 .. MaxEntries + 1,
           cell : Nat, found : BOOLEAN, out : Values \cup {Zero}]

ZeroEntry == [key |-> NoKey, type |-> "none", cell |-> Null]

IdleWriter == [pc |-> "idle", op |-> "none", name |-> <<>>, type |-> "none",
               val |-> Zero, ret |-> 0]
IdleReader == [pc |-> "idle", op |-> "none", key |-> NoKey, type |-> "none",
               since |-> 1, buf |-> Null, count |-> 0, idx |-> 1,
               cell |-> Null, found |-> FALSE, out |-> Zero]

\* A zero-filled slot: entries_ptr is null.
Init ==
  /\ MemoryInit([ptr |-> Null, ptrRel |-> FALSE, bufs |-> <<>>, cells |-> <<>>])
  /\ w = IdleWriter
  /\ rd = [r \in Readers |-> IdleReader]
  /\ fault = "none"

-----------------------------------------------------------------------------
(* The memory orders the code chooses. *)

RelaxedPublish == Relaxed              \* mutant: buffers appear unfinished
PublishOrder == Release
CommitOrder == Release
PtrLoadOrder == Acquire
CountLoadOrder == Acquire

-----------------------------------------------------------------------------
(* The writer *)

Count(m) == IF m.ptr = Null THEN 0 ELSE m.bufs[m.ptr].count
Cap(m) == IF m.ptr = Null THEN 0 ELSE Len(m.bufs[m.ptr].entry)
EntryAt(m, i) == m.bufs[m.ptr].entry[i]

\* Where the writer's scan finds the key: the first match, or no index.
FindSkippingFirst(m, key) ==           \* mutant: the scan starts too late
  {i \in 2 .. Count(m) : EntryAt(m, i).key = key}
Find(m, key) ==
  {i \in 1 .. Count(m) : /\ EntryAt(m, i).key = key
                         /\ \A j \in 1 .. i - 1 : EntryAt(m, j).key # key}

Has(m, key) == Find(m, key) # {}

\* m after a buffer of that many entries was published.
Published(m, count, entries) ==
  [m EXCEPT !.bufs = Append(@, [count |-> count, countRel |-> FALSE,
                                entry |-> entries]),
            !.ptr = Len(m.bufs) + 1,
            !.ptrRel = (PublishOrder = Release)]

NextCapFromZero(c) == (c * 2) % U32    \* mutant: no first capacity
NextCap(c) == IF c = 0 THEN FirstCap ELSE (c * 2) % U32

\* What object_add_entry leaves: room for one more entry, at most MaxEntries.
\* A capacity that wrapped has not even room for the old ones (AddEntry).
AddOutcomes ==
  LET c == NextCap(Cap(Now))
      entries == [i \in 1 .. c |-> IF i <= Count(Now) THEN EntryAt(Now, i)
                                                      ELSE ZeroEntry]
  IN  IF Count(Now) < Cap(Now) THEN {Now}
      ELSE IF c \in Count(Now) .. MaxEntries THEN {Published(Now, Count(Now), entries)} ELSE {}

\* A cell's new content.  A string is replaced by publishing a new text, which
\* is dropped when its malloc fails; a nested object is not touched.
Written(cell, v) ==
  (IF cell.type = "object" THEN {cell} ELSE {[cell EXCEPT !.val = v]}) \cup
  (IF cell.type = "string" /\ MallocMayFail THEN {cell} ELSE {})

\* set_* and ensure_object of a field that exists.
Overwrite(n, t, v) ==
  /\ w.pc = "idle"
  /\ \E i \in Find(Now, FieldKey(n)) :
       LET c == EntryAt(Now, i).cell IN
       IF EntryAt(Now, i).type = t
       THEN /\ \E cell \in Written(Now.cells[c], v) :
                 StoreIfChanged([Now EXCEPT !.cells[c] = cell])
            /\ w' = [IdleWriter EXCEPT !.op = "set", !.name = n]
            /\ UNCHANGED fault
       ELSE /\ fault' = "abort"
            /\ UNCHANGED <<memoryVars, w>>
  /\ UNCHANGED rd

\* set_* and ensure_object of a new field, up to the entry it may fill.  Where
\* the doubled capacity wrapped, the old entries are copied past the new buffer.
AddEntry(n, t, v) ==
  /\ w.pc = "idle"
  /\ ~Has(Now, FieldKey(n))
  /\ \/ /\ \E m \in AddOutcomes : StoreIfChanged(m)
        /\ w' = [pc |-> "fill", op |-> "set", name |-> n, type |-> t,
                 val |-> v, ret |-> 0]
        /\ UNCHANGED fault
     \/ /\ MallocMayFail /\ Count(Now) >= Cap(Now)
        /\ w' = [IdleWriter EXCEPT !.op = "set", !.name = n, !.ret = -1]
        /\ UNCHANGED <<memoryVars, fault>>
     \/ /\ Count(Now) >= Cap(Now) /\ NextCap(Cap(Now)) < Count(Now)
        /\ fault' = "overrun_write"
        /\ UNCHANGED <<memoryVars, w>>
  /\ UNCHANGED rd

\* The entry and its value are written, the entry at index count.  The malloc
\* of the value is not checked.
FillEntry ==
  LET cells == {Append(Now.cells, cell) :
                  cell \in Written([type |-> w.type, val |-> Zero], w.val)}
      entry == [key |-> FieldKey(w.name), type |-> w.type,
                cell |-> Len(Now.cells) + 1]
  IN
  /\ w.pc = "fill"
  /\ \/ /\ Count(Now) < Cap(Now)
        /\ \E cs \in cells :
             Store([Now EXCEPT !.bufs[Now.ptr].entry[Count(Now) + 1] = entry,
                               !.cells = cs])
        /\ w' = [w EXCEPT !.pc = "commit"]
        /\ UNCHANGED fault
     \/ /\ Count(Now) < Cap(Now) => MallocMayFail
        /\ fault' = IF Count(Now) < Cap(Now) THEN "null_write" ELSE "overrun_write"
        /\ UNCHANGED <<memoryVars, w>>
  /\ UNCHANGED rd

CommitRepeated ==                      \* mutant: the call commits again
  /\ w.pc = "commit"
  /\ Store([Now EXCEPT !.bufs[Now.ptr].count = @ + 1])
  /\ UNCHANGED <<w, rd, fault>>

CommitAdd ==
  /\ w.pc = "commit"
  /\ Store([Now EXCEPT !.bufs[Now.ptr].count = @ + 1,
                       !.bufs[Now.ptr].countRel = (CommitOrder = Release)])
  /\ w' = [IdleWriter EXCEPT !.op = "set", !.name = w.name]
  /\ UNCHANGED <<rd, fault>>

\* Mutants of Without: the survivors move up in place; the last field stays;
\* only the fields in front survive.
WithoutInPlace(m, i) ==
  [m EXCEPT !.bufs[m.ptr].count = @ - 1, !.bufs[m.ptr].countRel = TRUE,
            !.bufs[m.ptr].entry = [j \in DOMAIN @ |-> IF j < i \/ j = Len(@)
                                                      THEN @[j] ELSE @[j + 1]]]
WithoutUnlessLast(m, i) ==
  IF Count(m) = 1 THEN m
  ELSE Published(m, Count(m) - 1, [j \in 1 .. Count(m) - 1 |->
                                     EntryAt(m, IF j < i THEN j ELSE j + 1)])

WithoutRest(m, i) ==
  IF i = 1 THEN [m EXCEPT !.ptr = Null]
  ELSE Published(m, i - 1, [j \in 1 .. i - 1 |-> EntryAt(m, j)])

\* m after the field at index i was removed: null, or a tight copy.
Without(m, i) ==
  IF Count(m) = 1
  THEN [m EXCEPT !.ptr = Null, !.ptrRel = (PublishOrder = Release)]
  ELSE Published(m, Count(m) - 1, [j \in 1 .. Count(m) - 1 |->
                                     EntryAt(m, IF j < i THEN j ELSE j + 1)])

Remove(n) ==
  LET done(ret) == w' = [IdleWriter EXCEPT !.op = "remove", !.name = n, !.ret = ret]
  IN
  /\ w.pc = "idle"
  /\ \/ /\ \E i \in Find(Now, FullKey(n)) : Store(Without(Now, i))
        /\ done(0)
     \/ /\ Has(Now, FullKey(n)) => MallocMayFail /\ Count(Now) > 1
        /\ done(-1)
        /\ UNCHANGED memoryVars
  /\ UNCHANGED <<rd, fault>>

ValuesOf(t) == IF t = "object" THEN {Zero} ELSE Values

WriterNext ==
  \/ /\ Len(hist) < MaxStores
     /\ \E n \in Names :
          \/ \E t \in Types : \E v \in ValuesOf(t) :
               Overwrite(n, t, v) \/ AddEntry(n, t, v)
          \/ Remove(n)
  \/ FillEntry
  \/ CommitAdd

-----------------------------------------------------------------------------
(* The readers *)

Call(r, op) ==
  /\ rd[r].pc = "idle"
  /\ \E n \in IF op = "count" THEN {NoKey} ELSE {FieldKey(n) : n \in Names},
        t \in IF op = "get" THEN Types \ {"object"} ELSE {"none"} :
       rd' = [rd EXCEPT ![r] = [IdleReader EXCEPT !.pc = "ptr", !.op = op,
                                !.key = n, !.type = t, !.since = floor[r]]]
  /\ UNCHANGED <<memoryVars, w, fault>>

LoadPtr(r) ==
  /\ rd[r].pc = "ptr"
  /\ \E k \in Visible(r) :
       /\ Load(r, k, PtrLoadOrder, hist[k].ptrRel)
       /\ rd' = [rd EXCEPT ![r].pc = IF hist[k].ptr = Null THEN "done" ELSE "count",
                           ![r].buf = hist[k].ptr]
  /\ UNCHANGED <<w, fault>>

\* An access to something that does not exist in the snapshot looked at.
Bad(what) ==
  /\ fault' = what
  /\ UNCHANGED <<memoryVars, rd>>

LoadCount(r) ==
  LET b == rd[r].buf IN
  /\ rd[r].pc = "count"
  /\ \E k \in Visible(r) :
       IF b \in DOMAIN hist[k].bufs
       THEN LET n == hist[k].bufs[b].count IN
            /\ Load(r, k, CountLoadOrder, hist[k].bufs[b].countRel)
            /\ rd' = [rd EXCEPT ![r].count = n,
                        ![r].pc = IF n = 0 \/ rd[r].op = "count"
                                  THEN "done" ELSE "scan"]
            /\ UNCHANGED fault
       ELSE Bad("uninit_read")
  /\ UNCHANGED w

ScanEndsEarly(i, n) == i + 1 >= n      \* mutant: the last entry is missed
ScanEnds(i, n) == i = n

\* The hash of one entry, a plain load.
Scan(r) ==
  LET b == rd[r].buf
      i == rd[r].idx
  IN
  /\ rd[r].pc = "scan"
  /\ \E k \in Visible(r) :
       IF b \notin DOMAIN hist[k].bufs THEN Bad("uninit_read")
       ELSE IF i \notin DOMAIN hist[k].bufs[b].entry THEN Bad("overrun_read")
       ELSE /\ rd' = IF hist[k].bufs[b].entry[i].key = rd[r].key
                     THEN [rd EXCEPT ![r].found = TRUE, ![r].pc =
                             IF rd[r].op = "has" THEN "done" ELSE "entry"]
                     ELSE [rd EXCEPT ![r].idx = i + 1, ![r].pc =
                             IF ScanEnds(i, rd[r].count) THEN "done" ELSE "scan"]
            /\ UNCHANGED <<memoryVars, fault>>
  /\ UNCHANGED w

\* The type and the value pointer of the entry, two plain loads.
LoadEntry(r) ==
  LET entry(k) == hist[k].bufs[rd[r].buf].entry[rd[r].idx] IN
  /\ rd[r].pc = "entry"
  /\ \E j, k \in Visible(r) :
       LET t == entry(j).type IN
       rd' = [rd EXCEPT ![r] =
         CASE @.op = "type" \/ (@.op = "nested" /\ t # "object") ->
                [@ EXCEPT !.pc = "done", !.type = t]
           [] @.op = "get" /\ t # @.type ->
                [@ EXCEPT !.pc = "done", !.found = FALSE]
           [] OTHER -> [@ EXCEPT !.pc = "value", !.cell = entry(k).cell]]
  /\ UNCHANGED <<memoryVars, w, fault>>

\* The value is read through its pointer; get_string acquires the text.
ReadValue(r) ==
  LET c == rd[r].cell IN
  /\ rd[r].pc = "value"
  /\ \E k \in Visible(r) :
       IF c = Null THEN Bad("null_read")
       ELSE IF c \notin DOMAIN hist[k].cells THEN Bad("uninit_read")
       ELSE /\ Load(r, k, IF rd[r].type = "string" THEN Acquire ELSE Relaxed, TRUE)
            /\ rd' = [rd EXCEPT ![r].pc = "done", ![r].out = hist[k].cells[c].val]
            /\ UNCHANGED fault
  /\ UNCHANGED w

Done(r) ==
  /\ rd[r].pc = "done"
  /\ rd[r].op = "nested" => rd[r].found /\ rd[r].type = "none"
  /\ rd' = [rd EXCEPT ![r] = IdleReader]
  /\ UNCHANGED <<memoryVars, w, fault>>

\* obj[name][nested] finds the nested object with ensure_object, also where
\* it stands for a value to be read: a reader that misses the field adds it,
\* beside the writer, and one that finds another type aborts.
NestedMiss(r) ==
  /\ rd[r].pc = "done" /\ rd[r].op = "nested"
  /\ ~rd[r].found \/ rd[r].type # "none"
  /\ fault' = IF rd[r].found THEN "abort" ELSE "reader_store"
  /\ UNCHANGED <<memoryVars, w, rd>>

ReaderNext(r) ==
  \/ \E op \in ReaderOps : Call(r, op)
  \/ LoadPtr(r)
  \/ LoadCount(r)
  \/ Scan(r)
  \/ LoadEntry(r)
  \/ ReadValue(r)
  \/ Done(r) \/ NestedMiss(r)

\* After an abort, or an access outside live memory, nothing runs any more.
Next ==
  /\ fault = "none"
  /\ WriterNext \/ \E r \in Readers : ReaderNext(r)

Spec == Init /\ [][Next]_vars

-----------------------------------------------------------------------------
(* Properties *)

\* The variables have their types; no count exceeds the largest capacity.
TypeOK ==
  /\ hist \in Seq(Memory) /\ hist # <<>>
  /\ floor \in [Readers -> 1 .. Len(hist)]
  /\ w \in Writer
  /\ rd \in [Readers -> Reader]
  /\ fault \in Faults

\* No reader reads outside live, initialised buffers and values, whatever the
\* writer adds, grows and removes before he stops or leaves memory himself
\* (contract G2 and the two acquire loads of object_find_entry_by_hash, 566-584).
ReadersSafe == fault \notin {"uninit_read", "overrun_read", "null_read"}

\* The writer does not stay within memory: a value that could not be allocated
\* is written through null (707-708 and the same in each set_*).  Behind a
\* buffer he writes in one case only, when it is full of 2^31 entries or more
\* and cap * 2 wraps (608-620), whatever tight copies and grows came before.
OnlyWrapsOverrun ==
  fault = "overrun_write" => Count(Now) = Cap(Now) /\ U32 <= 2 * Cap(Now)

\* The value of a field in a snapshot, and its type.
FieldType(m, key) == EntryAt(m, CHOOSE i \in Find(m, key) : TRUE).type
FieldValue(m, key) ==
  m.cells[EntryAt(m, CHOOSE i \in Find(m, key) : TRUE).cell].val

\* The answer of a finished call is right for snapshot m.
RightFor(q, m) ==
  /\ q.op = "count" => q.count = Count(m)
  /\ ~q.found /\ q.op = "get" => (Has(m, q.key) => FieldType(m, q.key) # q.type)
  /\ ~q.found /\ q.op \notin {"count", "get"} => ~Has(m, q.key)
  /\ q.found =>
       /\ Has(m, q.key)
       /\ q.op = "nested" =>
            FieldType(m, q.key) = IF q.type = "none" THEN "object" ELSE q.type
       /\ q.op \in {"get", "type"} => q.type = FieldType(m, q.key)
       /\ q.op \in {"get", "get_slot"} => q.out = FieldValue(m, q.key)

\* Every answer is right for some moment between what the reader had acquired
\* when it made the call and the return: a field that stays in the object is
\* found, with a value it had, while others come and go around it, and the
\* count is never that of a mixture of two buffers (test_concurrent.cpp:337-350).
\* So obj[name][nested] can only store in a reader's thread (NestedMiss), and
\* only abort it, when the nested object was missing at some such moment.
AnswersAreRegular ==
  \A r \in Readers :
    rd[r].pc = "done" =>
      \E k \in rd[r].since .. Len(hist) : RightFor(rd[r], hist[k])

\* In every buffer ever published the fields have distinct names, and each
\* leads to a value of its type that no other field shares.
WellFormed(m) ==
  \A b \in DOMAIN m.bufs :
    LET e == m.bufs[b].entry
        n == m.bufs[b].count
    IN  /\ n <= Len(e)
        /\ \A i \in 1 .. n :
             /\ e[i].cell \in DOMAIN m.cells
             /\ e[i].type = m.cells[e[i].cell].type
             /\ \A j \in 1 .. i - 1 : e[j].key # e[i].key /\ e[j].cell # e[i].cell
FieldsAreDistinct == WellFormed(Now)

\* When remove has returned, unless its malloc failed, the field is gone
\* (msm_allocator.h:170-171).
RemovedIsGone ==
  w.pc = "idle" /\ w.op = "remove" /\ (w.ret = 0 \/ ~MallocMayFail) =>
    ~Has(Now, FieldKey(w.name))

\* remove hashes the whole name and every other call its first Len % 2^16
\* bytes, although all are to "remove field by name": a field stays only when
\* the name does not fit 16 bits, and then it is another name's field that
\* set and get meant (msm_allocator.cpp:683 against 930).
OnlyLongNamesStay ==
  w.pc = "idle" /\ w.op = "remove" /\ (w.ret = 0 \/ ~MallocMayFail) =>
    ~Has(Now, FieldKey(w.name)) \/ (w.ret = -1 /\ Len(w.name) >= U16)

\* What a reader may be scanning never moves: the fields of a published
\* buffer stay where they are, and its count never falls (contract G2).
PublishedIsFrozen ==
  [][\A b \in DOMAIN Now.bufs :
       LET old == Now.bufs[b]
           new == Now'.bufs[b]
       IN  /\ old.count <= new.count
           /\ \A i \in 1 .. old.count : old.entry[i] = new.entry[i]]_vars

-----------------------------------------------------------------------------
(* What every step of the writer keeps, and what the readers rely on. *)

\* A snapshot: every buffer is well formed and holds keys the calls use, and
\* no value has moved from one field to another.
SnapshotOK(m) ==
  /\ m.ptr \in 0 .. Len(m.bufs)
  /\ WellFormed(m)
  /\ \A b \in DOMAIN m.bufs :
       /\ Len(m.bufs[b].entry) <= MaxEntries
       /\ \A i \in 1 .. m.bufs[b].count :
            m.bufs[b].entry[i].key \in {FieldKey(n) : n \in Names}
  /\ \A a, b \in DOMAIN m.bufs :
       \A i \in 1 .. m.bufs[a].count, j \in 1 .. m.bufs[b].count :
         m.bufs[a].entry[i].cell = m.bufs[b].entry[j].cell =>
           m.bufs[a].entry[i].key = m.bufs[b].entry[j].key

\* What a later snapshot keeps of an earlier one; a count that nobody raised
\* is the one the buffer was published with.
Extends(m, n) ==
  /\ \A b \in DOMAIN m.bufs :
       /\ b \in DOMAIN n.bufs
       /\ m.bufs[b].count <= n.bufs[b].count
       /\ n.bufs[b].countRel
            \/ (n.bufs[b].count = m.bufs[b].count /\ ~m.bufs[b].countRel)
       /\ \A i \in 1 .. m.bufs[b].count : n.bufs[b].entry[i] = m.bufs[b].entry[i]
  /\ \A c \in DOMAIN m.cells : c \in DOMAIN n.cells /\ n.cells[c].type = m.cells[c].type

\* The field key has its value in cell c.
Holds(m, key, c) ==
  \E i \in 1 .. Count(m) : EntryAt(m, i).key = key /\ EntryAt(m, i).cell = c

\* A count, and a value, that a reader finds in a late snapshot are those of a
\* moment when the buffer it is in was the object's, and the field existed.
WasCurrent(j, k) ==
  /\ hist[j].ptr # Null =>
       \E l \in j .. k :
         /\ hist[l].ptr = hist[j].ptr
         /\ hist[l].bufs[hist[j].ptr].count = hist[k].bufs[hist[j].ptr].count
  /\ \A key \in Keys, c \in DOMAIN hist[j].cells :
       Holds(hist[j], key, c) =>
         \E l \in j .. k :
           Holds(hist[l], key, c) /\ hist[l].cells[c].val = hist[k].cells[c].val

HistoryOK ==
  /\ \A k \in 1 .. Len(hist) :
       /\ SnapshotOK(hist[k])
       /\ IF k = 1 THEN hist[k].ptr = Null ELSE hist[k].ptrRel
  /\ \A k \in 1 .. Len(hist) : \A j \in 1 .. k :
       Extends(hist[j], hist[k]) /\ WasCurrent(j, k)

\* An entry being filled, or filled and not yet counted, is a new field with
\* a value of its own.
WriterOK ==
  /\ w.pc # "idle" =>
       /\ w.op = "set" /\ w.name \in Names /\ w.type \in Types
       /\ Count(Now) < Cap(Now) /\ ~Has(Now, FieldKey(w.name))
  /\ w.pc = "commit" =>
       LET e == EntryAt(Now, Count(Now) + 1) IN
       /\ e.key = FieldKey(w.name) /\ e.type = w.type
       /\ e.cell \in DOMAIN Now.cells /\ Now.cells[e.cell].type = w.type
       /\ \A b \in DOMAIN Now.bufs : \A i \in 1 .. Now.bufs[b].count :
            Now.bufs[b].entry[i].cell # e.cell

\* What a reader has found in its buffer was there in the snapshot m.
Found(q, m) ==
  LET b == m.bufs[q.buf] IN
  /\ m.ptr = q.buf /\ b.count = q.count /\ q.idx \in 1 .. q.count
  /\ \A i \in 1 .. q.idx - 1 : b.entry[i].key # q.key
  /\ q.pc # "scan" => b.entry[q.idx].key = q.key
  /\ q.pc = "value" =>
       /\ q.cell = b.entry[q.idx].cell
       /\ q.op = "get" => b.entry[q.idx].type = q.type
       /\ q.op = "nested" => b.entry[q.idx].type = "object"

\* The local state of a call.
CallOK(q) ==
  /\ q.pc # "idle" => q.op \in ReaderOps /\ (q.op # "count" => q.key \in Keys)
  /\ q.pc \notin {"idle", "done"} =>
       /\ IF q.op = "get" THEN q.type \in Types ELSE q.type = "none"
       /\ q.found <=> q.pc \in {"entry", "value"}
  /\ q.pc = "ptr" => q.count = 0 /\ q.idx = 1
  /\ q.pc = "count" => q.buf # Null /\ q.idx = 1
  /\ q.pc \in {"scan", "entry", "value"} => q.buf # Null /\ q.op # "count"
  /\ q.pc \in {"entry", "value"} => q.op # "has"
  /\ q.pc = "value" => q.op # "type"

\* Where a call stands in the history.
ReaderOK(r) ==
  /\ CallOK(rd[r])
  /\ rd[r].since \in 1 .. floor[r]
  /\ rd[r].pc = "count" => hist[floor[r]].ptr = rd[r].buf
  /\ rd[r].pc \in {"scan", "entry", "value"} =>
       \E k \in rd[r].since .. floor[r] : Found(rd[r], hist[k])

ObjectInv ==
  /\ TypeOK /\ HistoryOK /\ WriterOK
  /\ \A r \in Readers : ReaderOK(r)
  /\ AnswersAreRegular

-----------------------------------------------------------------------------

\* To its writer the object is a map: growing, and filling the entry behind
\* the last, change nothing in it; the commit adds one field; an overwrite
\* changes one value; a remove takes one field and no other away.
Present(m) == {EntryAt(m, i).key : i \in 1 .. Count(m)}
Fields == [k \in Present(Now) |->
             [type |-> FieldType(Now, k), val |-> FieldValue(Now, k)]]

Bag == INSTANCE PropertyBag WITH
  fields <- Fields, Values <- Values \cup {Zero}

BagSpec == Bag!Spec

=============================================================================
