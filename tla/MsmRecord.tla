------------------------------ MODULE MsmRecord ------------------------------
(***************************************************************************)
(* Records: where record<...> and array<record<...>> put the payload of    *)
(* each field, and what readers see of the fields while the writer sets    *)
(* them.                                                                   *)
(*                                                                         *)
(* The memory is an array buffer with Items elements, each a record of one *)
(* type, in words of four bytes.  A scalar is copied with memcpy, a plain  *)
(* access; a string, array or object publishes a pointer with release, and *)
(* readers acquire it.  A record alone in a region is element 0.  A word   *)
(* holds the number of the write it has its content from, 0 at first, so   *)
(* that every write differs from every other.                              *)
(***************************************************************************)
EXTENDS SwmrMemory, FiniteSets

LOCAL INSTANCE SequencesExt

CONSTANTS
  Types,           \* the types of the program, those of the fields among them
  Items,           \* the number of elements
  MaxWrites        \* bound: the number of writes

ASSUME ConstantsAssumption ==
  /\ \A t \in Types : t.fields \in Seq([name : STRING, type : Types])
  /\ Items \in Nat \ {0} /\ MaxWrites \in Nat

VARIABLES
  type,            \* the type of the elements
  layout,          \* what the compiler makes of it: the size of its slot and,
                   \* per path to a field, the offset and the type
  log,             \* the fields written, in that order
  filling,         \* the element and the field emplace_back goes on with
  rd               \* per reader, its local state

vars == <<hist, floor, type, layout, log, filling, rd>>

-----------------------------------------------------------------------------
(* The layout, computed by the compiler *)

\* int32 stands for boolean and float32, int64 for float64, pointer for
\* string, array and object.
Int32 == [kind |-> "int32", fields |-> <<>>]
Int64 == [kind |-> "int64", fields |-> <<>>]
Pointer == [kind |-> "pointer", fields |-> <<>>]
Record(fields) == [kind |-> "record", fields |-> fields]
Member(name, t) == [name |-> name, type |-> t]

HeaderSizePacked == 4                  \* mutant: the reserved bytes forgotten
HeaderSize == 8

\* The slot of a record holds its header and the slots of its fields.
SumOf(size, fields) == FoldLeft(LAMBDA sum, f : sum + size[f.type], 0, fields)
SlotSize[t \in Types] ==
  CASE t.kind = "int32" -> 8
    [] t.kind \in {"int64", "pointer"} -> 16
    [] t.kind = "record" -> HeaderSize + SumOf(SlotSize, t.fields)

\* compute_offset: the sizes of the fields before the i-th.
SizeBefore(t, i) == SumOf(SlotSize, SubSeq(t.fields, 1, i - 1))

FieldOffsetNoHeader(t, i) == SizeBefore(t, i)          \* mutant
FieldOffset(t, i) == HeaderSize + SizeBefore(t, i)

\* find_field_index: the first field of that name.
FieldIndex(t, name) ==
  CHOOSE i \in DOMAIN t.fields :
    /\ t.fields[i].name = name
    /\ \A j \in 1 .. i - 1 : t.fields[j].name # name

\* The static_assert.
AllNamesUnique(t) ==
  \A i, j \in DOMAIN t.fields : t.fields[i].name = t.fields[j].name => i = j

\* get<Name>(), repeated until a field that is no record is reached: the
\* paths there are, and the offset and type a path leads to.
Paths[t \in Types] ==
  IF t.kind # "record" THEN {<<>>}
  ELSE UNION {{<<t.fields[i].name>> \o p : p \in Paths[t.fields[i].type]} :
                i \in DOMAIN t.fields}
Get(t, path) ==
  FoldLeft(LAMBDA at, name :
             LET i == FieldIndex(at.type, name)
             IN  [offset |-> at.offset + FieldOffset(at.type, i),
                  type |-> at.type.fields[i].type],
           [offset |-> 0, type |-> t], path)

\* deallocate_fields: the offsets at which a pointer is looked for, found by
\* adding up slot sizes once more.
DeallocateField(at, f, below) ==
  [next |-> at.next + SlotSize[f.type],
   pointers |-> at.pointers \cup {at.next + offset : offset \in below}]
Deallocated[t \in Types] ==
  CASE t.kind = "pointer" -> {0}
    [] t.kind = "record" ->
         FoldLeft(LAMBDA at, f : DeallocateField(at, f, Deallocated[f.type]),
                  [next |-> HeaderSize, pointers |-> {}], t.fields).pointers
    [] OTHER -> {}

\* The fields of all elements, and where they are: elements follow the eight
\* bytes of the buffer's header.
Fields == (0 .. Items - 1) \X DOMAIN layout.at
ItemOffsetPacked(i) ==                 \* mutant: the last field not counted
  8 + i * FieldOffset(type, Len(type.fields))
ItemOffset(i) == 8 + i * layout.size
Address(f) == ItemOffset(f[1]) + layout.at[f[2]].offset
TypeOf(f) == layout.at[f[2]].type

\* The words of a field's payload: bytes 4 to 7 or 8 to 15 of its slot.
Payload(f) ==
  IF TypeOf(f).kind = "int32" THEN {(Address(f) + 4) \div 4}
  ELSE {(Address(f) + 8) \div 4, (Address(f) + 12) \div 4}

\* Eight aligned bytes are loaded and stored at once, others in two halves.
InOneAccess(f) == Cardinality(Payload(f)) = 1 \/ (Address(f) + 8) % 8 = 0

Words == 0 .. (8 + Items * layout.size) \div 4 - 1

-----------------------------------------------------------------------------
(* The writer *)

IdleReader == [pc |-> "idle", field |-> <<>>, since |-> 1, got |-> {}, knows |-> 0]
NotFilling == <<0, 0>>

Init ==
  /\ type \in {t \in Types : t.kind = "record" /\ AllNamesUnique(t)}
  /\ layout = [size |-> SlotSize[type],
               at |-> [path \in Paths[type] |-> Get(type, path)]]
  /\ MemoryInit([word \in Words |-> [by |-> 0, rel |-> FALSE]])
  /\ log = <<>>
  /\ filling = NotFilling
  /\ rd = [r \in Readers |-> IdleReader]

PlainPublish(f) == Relaxed             \* mutant: pointers without release
StoreOrder(f) == IF TypeOf(f).kind = "pointer" THEN Release ELSE Relaxed
LoadOrder(f) == IF TypeOf(f).kind = "pointer" THEN Acquire ELSE Relaxed

\* The scalar's operator=, or the one release store of a string, an array or
\* an object that publishes a buffer.
Write(f) ==
  /\ Store([word \in Words |->
              IF word \in Payload(f)
              THEN [by |-> Len(log) + 1, rel |-> StoreOrder(f) = Release]
              ELSE Now[word]])
  /\ log' = Append(log, f)

SetField(f) ==
  /\ filling = NotFilling
  /\ Write(f)
  /\ UNCHANGED <<type, layout, filling, rd>>

\* emplace_back(a, b, ...) writes the fields of an element, which push_back
\* has published already, in their order; they are scalars.
FillEndless(f) ==                      \* mutant: the index runs on
  /\ Write(f)
  /\ filling' = <<filling[1], filling[2] + 1>>
FillOne(f) ==
  /\ Write(f)
  /\ filling' = IF filling[2] = Len(type.fields) THEN NotFilling
                ELSE <<filling[1], filling[2] + 1>>

EmplaceBack(item) ==
  /\ filling = NotFilling
  /\ Len(type.fields) > 1
  /\ \A i \in DOMAIN type.fields : type.fields[i].type \in {Int32, Int64}
  /\ filling' = <<item, 1>>
  /\ UNCHANGED <<memoryVars, type, layout, log, rd>>

FillField ==
  /\ filling # NotFilling
  /\ FillOne(<<filling[1], <<type.fields[filling[2]].name>>>>)
  /\ UNCHANGED <<type, layout, rd>>

-----------------------------------------------------------------------------
(* The readers *)

Call(r, f) ==
  /\ rd[r].pc = "idle"
  /\ rd' = [rd EXCEPT ![r] = [@ EXCEPT !.pc = "load", !.field = f, !.got = {},
                                       !.since = floor[r]]]
  /\ UNCHANGED <<memoryVars, type, layout, log, filling>>

\* The newest publication r knows of, after it found one more.
Known(r, f, n) ==
  IF TypeOf(f).kind = "pointer" /\ n > rd[r].knows THEN n ELSE rd[r].knows

\* operator T(): the payload, or the first of its halves and then the other.
LoadPayload(r) ==
  LET f == rd[r].field IN
  /\ rd[r].pc \in {"load", "half"}
  /\ \E word \in Payload(f), k \in Visible(r) :
       LET x == hist[k][word] IN
       /\ word = CHOOSE p \in Payload(f) :
                   rd[r].pc = "load" <=> \A q \in Payload(f) : p <= q
       /\ Load(r, k, LoadOrder(f), x.rel)
       /\ rd' = [rd EXCEPT ![r] =
                   [@ EXCEPT !.pc = IF rd[r].pc = "half" \/ InOneAccess(f)
                                    THEN "done" ELSE "half",
                             !.got = rd[r].got \cup {x.by},
                             !.knows = Known(r, f, x.by)]]
  /\ UNCHANGED <<type, layout, log, filling>>

Done(r) ==
  /\ rd[r].pc = "done"
  /\ rd' = [rd EXCEPT ![r] = [IdleReader EXCEPT !.knows = rd[r].knows]]
  /\ UNCHANGED <<memoryVars, type, layout, log, filling>>

Next ==
  \/ /\ Len(log) < MaxWrites
     /\ \/ \E f \in Fields : SetField(f)
        \/ \E item \in 0 .. Items - 1 : EmplaceBack(item)
        \/ FillField
  \/ \E r \in Readers : (\E f \in Fields : Call(r, f)) \/ LoadPayload(r) \/ Done(r)

Spec == Init /\ [][Next]_vars

-----------------------------------------------------------------------------
(* Properties *)

\* The variables have their types; emplace_back stays within the fields.
TypeOK ==
  /\ type \in Types
  /\ hist \in Seq([Words -> [by : 0 .. Len(log), rel : BOOLEAN]])
  /\ floor \in [Readers -> 1 .. Len(hist)]
  /\ log \in Seq(Fields) /\ Len(hist) = Len(log) + 1
  /\ filling \in {NotFilling} \cup (0 .. Items - 1) \X DOMAIN type.fields
  /\ rd \in [Readers -> [pc : {"idle", "load", "half", "done"},
                         field : Fields \cup {<<>>}, since : 1 .. Len(hist),
                         got : SUBSET (0 .. Len(log)), knows : 0 .. Len(log)]]

\* The last write to f among the first n.
LastWrite(f, n) ==
  LET writes == {i \in 1 .. n : log[i] = f}
  IN  IF writes = {} THEN 0 ELSE CHOOSE i \in writes : \A j \in writes : j <= i

\* Every field is a register of its own: what is read is what was last written
\* to that field, whole, at a moment between what the reader had acquired and
\* the return, whatever was written to its neighbours, to the same field of
\* the next element, or by an emplace_back that is half done (the offsets of
\* record.hpp:69-84 and 133-134, the payloads of types.hpp).
FieldsAreRegisters ==
  \A r \in Readers :
    rd[r].pc = "done" =>
      \E k \in rd[r].since - 1 .. Len(log) : rd[r].got = {LastWrite(rd[r].field, k)}

\* A published pointer carries everything written before it: a reader that
\* has acquired a string, an array or an object of the record reads every
\* other field at least as new as it was then, although those are copied
\* without any order (the release store of 442-443 and its like).
CausalAcrossFields ==
  \A r \in Readers :
    rd[r].pc = "done" =>
      \A n \in rd[r].got : n >= LastWrite(rd[r].field, rd[r].knows)

\* msm_free and get<> compute the offsets of a record each in its own way and
\* must agree: deallocate looks for pointers where get finds a string, an
\* array or an object, and nowhere else (record.hpp:185-196 against 160-169).
DeallocateFindsPointers ==
  Deallocated[type] =
    {layout.at[p].offset : p \in {q \in DOMAIN layout.at :
                                 layout.at[q].type = Pointer}}

\* The end of the slot of a field that is no record.
SlotEnd(at) == at.offset + IF at.type.kind = "int32" THEN 8 ELSE 16

\* The compiler lays the slots of a record's fields out one after the other,
\* inside the record's own slot, at multiples of eight bytes as std::atomic_ref
\* requires, and gives every field a name (record.hpp:134 and 69-84, the sizes
\* of types.hpp, string.hpp, array.hpp and object.hpp).
LayoutSound ==
  /\ layout.size \in Nat /\ layout.size % 8 = 0
  /\ \A p \in DOMAIN layout.at :
       LET at == layout.at[p] IN
       at.offset \in Nat /\ at.offset % 8 = 0 /\ SlotEnd(at) <= layout.size
  /\ \A p, q \in DOMAIN layout.at :
       p # q => \/ SlotEnd(layout.at[p]) <= layout.at[q].offset
                \/ SlotEnd(layout.at[q]) <= layout.at[p].offset
  /\ \A i \in DOMAIN type.fields :
       LET field == type.fields[i] IN
       field.type.kind # "record" => <<field.name>> \in DOMAIN layout.at

=============================================================================
