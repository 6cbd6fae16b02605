------------------------------ MODULE MsmArray ------------------------------
(***************************************************************************)
(* One shared array slot: the writer's msm_array_* calls, statement by     *)
(* statement where a reader may run in between, and the readers' size(),   *)
(* get, msm_array_get_int32 (operator[]) and iterator.                     *)
(*                                                                         *)
(* The slot holds a pointer to the current buffer [size|cap|elements].     *)
(* Growing publishes a new buffer and keeps the old one, so buffers are    *)
(* numbered in allocation order and the current one is always the newest:  *)
(* buffer b exists in a snapshot m iff b <= m.ptr.                         *)
(***************************************************************************)
EXTENDS SwmrMemory

CONSTANTS
  Values,          \* what callers push
  Zero,            \* what memset leaves in an element
  FirstCap,        \* the capacity of the first buffer (8 in the code)
  U32,             \* 2^32, the modulus of the size and cap fields
  WriterOps,       \* the calls the writer makes
  ReaderOps,       \* the calls the readers make
  MallocMayFail,   \* whether malloc may return null
  MaxCap,          \* bound: the largest capacity
  MaxBufs,         \* bound: the number of buffers
  MaxStores        \* bound: no writer call starts after so many stores

ASSUME ConstantsAssumption ==
  /\ Zero \notin Values
  /\ FirstCap \in Nat \ {0}
  /\ U32 \in Nat \ {0}
  /\ MaxCap \in 1 .. U32 - 1
  /\ MaxBufs \in Nat
  /\ MaxStores \in Nat
  /\ MallocMayFail \in BOOLEAN
  /\ WriterOps \subseteq {"prepare", "abandon", "push_back", "reserve", "clear"}
  /\ ReaderOps \subseteq {"size", "get", "get_int32", "iterate"}

VARIABLES
  w,               \* the writer's local state
  rd,              \* per reader, its local state
  fault            \* the first access outside live memory, or "none"

vars == <<hist, floor, w, rd, fault>>

Null == 0
Bufs == 1 .. MaxBufs
Index == 0 .. MaxCap - 1
Elems == Values \cup {Zero}

\* ptrRel and sizeRel say whether the last store was a release store.
Memory == [ptr : Bufs \cup {Null}, ptrRel : BOOLEAN,
           size : [Bufs -> 0 .. MaxCap], sizeRel : [Bufs -> BOOLEAN],
           cap : [Bufs -> 0 .. MaxCap],
           elem : [Bufs -> [Index -> Elems]]]

Faults == {"none", "overrun_write", "null_write",
           "null_read", "overrun_read", "uninit_read"}

Writer == [pc : {"idle", "zero", "fill", "commit"},
           op : WriterOps \cup {"none"},
           buf : Bufs \cup {Null}, idx : 0 .. MaxCap, val : Elems]

Reader == [pc : {"idle", "begin", "ptr", "size", "elem", "done"},
           op : ReaderOps \cup {"none"},
           base : Bufs \cup {Null},    \* the iterator's buffer
           buf : Bufs \cup {Null},     \* the buffer the call loaded
           left : 0 .. MaxCap,         \* the iterator's end index
           idx : 0 .. MaxCap,          \* the index asked for
           seen : 0 .. MaxCap,         \* the last size() returned
           out : Elems]                \* the element read

IdleWriter == [pc |-> "idle", op |-> "none", buf |-> Null, idx |-> 0, val |-> Zero]

IdleReader(n) == [pc |-> "idle", op |-> "none", base |-> Null, buf |-> Null,
                  left |-> 0, idx |-> 0, seen |-> n, out |-> Zero]

\* A zero-filled slot: data_ptr is null.
EmptyMemory == [ptr |-> Null, ptrRel |-> FALSE,
                size |-> [b \in Bufs |-> 0], sizeRel |-> [b \in Bufs |-> FALSE],
                cap |-> [b \in Bufs |-> 0],
                elem |-> [b \in Bufs |-> [i \in Index |-> Zero]]]

Init ==
  /\ MemoryInit(EmptyMemory)
  /\ w = IdleWriter
  /\ rd = [r \in Readers |-> IdleReader(0)]
  /\ fault = "none"

-----------------------------------------------------------------------------
(* The memory orders the code chooses. *)

UnorderedPublish == Relaxed            \* mutant: a plain publish
ReservePublishOrder == Release
UnorderedCommit == Relaxed             \* mutant: a plain size store
CommitOrder == Release
ClearOrder == Release
PtrLoadOrder == Acquire
SizeLoadOrder == Acquire

-----------------------------------------------------------------------------
(* The writer *)

Size(m) == IF m.ptr = Null THEN 0 ELSE m.size[m.ptr]
Cap(m) == IF m.ptr = Null THEN 0 ELSE m.cap[m.ptr]

\* Mutants of Grown: the last element is not copied, the elements are copied
\* from behind the first, the size stays zero.
GrownLosingLast(m, c) ==
  LET b == m.ptr + 1
      copy == [i \in Index |-> IF i + 1 < Size(m) THEN m.elem[m.ptr][i] ELSE Zero]
  IN  [ptr |-> b, ptrRel |-> TRUE, size |-> [m.size EXCEPT ![b] = Size(m)],
       sizeRel |-> m.sizeRel, cap |-> [m.cap EXCEPT ![b] = c],
       elem |-> [m.elem EXCEPT ![b] = copy]]
GrownShifted(m, c) ==
  LET b == m.ptr + 1
      copy == [i \in Index |-> IF i + 1 < Size(m) THEN m.elem[m.ptr][i + 1] ELSE Zero]
  IN  [ptr |-> b, ptrRel |-> TRUE, size |-> [m.size EXCEPT ![b] = Size(m)],
       sizeRel |-> m.sizeRel, cap |-> [m.cap EXCEPT ![b] = c],
       elem |-> [m.elem EXCEPT ![b] = copy]]
GrownEmpty(m, c) ==
  LET b == m.ptr + 1
  IN  [m EXCEPT !.ptr = b, !.ptrRel = TRUE, !.cap[b] = c]

\* m after the contents were copied to a fresh zeroed buffer of capacity c,
\* and the fresh buffer was published.
Grown(m, c) ==
  LET b == m.ptr + 1
      copy == [i \in Index |-> IF i < Size(m) THEN m.elem[m.ptr][i] ELSE Zero]
  IN  [ptr |-> b,
       ptrRel |-> ReservePublishOrder = Release,
       size |-> [m.size EXCEPT ![b] = Size(m)],
       sizeRel |-> [m.sizeRel EXCEPT ![b] = FALSE],
       cap |-> [m.cap EXCEPT ![b] = c],
       elem |-> [m.elem EXCEPT ![b] = copy]]

\* The memories msm_array_reserve(c) may leave.  None: beyond the bounds.
ReserveOutcomes(c) ==
  IF c <= Cap(Now)
  THEN {Now}
  ELSE (IF MallocMayFail THEN {Now} ELSE {}) \cup
       (IF c <= MaxCap /\ Now.ptr < MaxBufs THEN {Grown(Now, c)} ELSE {})

Reserve(c) ==
  /\ w.pc = "idle"
  /\ \E m \in ReserveOutcomes(c) : StoreIfChanged(m)
  /\ UNCHANGED <<w, rd, fault>>

\* The capacity prepare_push asks for, a 32-bit product.
NextCap(c) == IF c = 0 THEN FirstCap ELSE (c * 2) % U32

\* Mutant: grows one push too late.
PrepareLate ==
  IF Now.ptr = Null \/ Size(Now) > Cap(Now)
  THEN ReserveOutcomes(NextCap(Cap(Now)))
  ELSE {Now}

\* prepare_push re-loads the buffer after growing it, and checks it for null
\* but not its capacity.
PrepareOutcomes ==
  IF Now.ptr = Null \/ Size(Now) >= Cap(Now)
  THEN ReserveOutcomes(NextCap(Cap(Now)))
  ELSE {Now}

\* prepare_push up to the memset.  A caller of prepare_push stops on null,
\* array<T>::push_back writes through it.
PreparePush(op, v) ==
  /\ w.pc = "idle"
  /\ \E m \in PrepareOutcomes :
       /\ StoreIfChanged(m)
       /\ IF m.ptr = Null
          THEN /\ fault' = IF op = "push_back" THEN "null_write" ELSE fault
               /\ UNCHANGED w
          ELSE /\ w' = [pc |-> "zero", op |-> op, buf |-> m.ptr,
                        idx |-> Size(Now), val |-> v]
               /\ UNCHANGED fault
  /\ UNCHANGED rd

SetElem(m, b, i, v) == [m EXCEPT !.elem[b][i] = v]

\* The memset of the prepared element.
ZeroElem ==
  /\ w.pc = "zero"
  /\ IF w.idx < Now.cap[w.buf]
     THEN /\ StoreIfChanged(SetElem(Now, w.buf, w.idx, Zero))
          /\ w' = [w EXCEPT !.pc = IF w.op = "push_back" THEN "commit" ELSE "fill"]
          /\ UNCHANGED fault
     ELSE /\ fault' = "overrun_write"
          /\ UNCHANGED <<memoryVars, w>>
  /\ UNCHANGED rd

\* The caller writes the value through the pointer it was given.
Fill ==
  /\ w.pc = "fill"
  /\ StoreIfChanged(SetElem(Now, w.buf, w.idx, w.val))
  /\ w' = IF w.op = "push_back" THEN IdleWriter ELSE [w EXCEPT !.pc = "commit"]
  /\ UNCHANGED <<rd, fault>>

Sized(m, n, order) ==
  [m EXCEPT !.size[m.ptr] = n, !.sizeRel[m.ptr] = (order = Release)]

\* Mutant: the call commits again and again.
CommitRepeated ==
  /\ w.pc = "commit"
  /\ Store(Sized(Now, (Size(Now) + 1) % U32, CommitOrder))
  /\ UNCHANGED <<w, rd, fault>>

CommitPush ==
  /\ w.pc = "commit"
  /\ Store(Sized(Now, (Size(Now) + 1) % U32, CommitOrder))
  /\ w' = IF w.op = "push_back" THEN [w EXCEPT !.pc = "fill"] ELSE IdleWriter
  /\ UNCHANGED <<rd, fault>>

\* The caller of prepare_push gives up: nothing obliges it to commit.
Abandon ==
  /\ w.pc = "commit"
  /\ w.op = "prepare"
  /\ w' = IdleWriter
  /\ UNCHANGED <<memoryVars, rd, fault>>

Clear ==
  /\ w.pc = "idle"
  /\ Now.ptr # Null
  /\ Store(Sized(Now, 0, ClearOrder))
  /\ UNCHANGED <<w, rd, fault>>

\* The writer makes a call, or goes on with the one it is in.
WriterNext ==
  \/ /\ Len(hist) < MaxStores
     /\ \/ \E op \in WriterOps \cap {"prepare", "push_back"}, v \in Values :
             PreparePush(op, v)
        \/ "reserve" \in WriterOps /\ \E c \in 0 .. MaxCap : Reserve(c)
        \/ "clear" \in WriterOps /\ Clear
  \/ ZeroElem
  \/ Fill
  \/ CommitPush
  \/ "abandon" \in WriterOps /\ Abandon

-----------------------------------------------------------------------------
(* The readers *)

\* get checks its index; msm_array_get_int32 and operator[] dereference what
\* get returns, so their callers keep to an index below the size they know.
Indices(r, op) ==
  CASE op = "get" -> Index
    [] op = "get_int32" -> 0 .. rd[r].seen - 1
    [] OTHER -> {0}

Call(r, op) ==
  /\ rd[r].pc = "idle"
  /\ \E i \in Indices(r, op) :
       rd' = [rd EXCEPT ![r].pc = IF op = "iterate" THEN "begin" ELSE "ptr",
                        ![r].op = op, ![r].idx = i]
  /\ UNCHANGED <<memoryVars, w, fault>>

\* begin() copies the pointer with a plain memcpy.
Begin(r) ==
  /\ rd[r].pc = "begin"
  /\ \E k \in Visible(r) :
       /\ Load(r, k, Relaxed, hist[k].ptrRel)
       /\ rd' = [rd EXCEPT ![r].pc = "ptr", ![r].base = hist[k].ptr]
  /\ UNCHANGED <<w, fault>>

InBoundsOrAtEnd(i, n) == i <= n        \* mutant: off by one
InBounds(i, n) == i < n

\* r has found the size n, zero when the pointer was null: what each call
\* does with it.  get returns null when its index is out of bounds.
WithSize(r, b, n) ==
  \/ /\ rd[r].op = "size"
     /\ rd' = [rd EXCEPT ![r] = IdleReader(n)]
     /\ UNCHANGED fault
  \/ /\ rd[r].op # "size"
     /\ InBounds(rd[r].idx, n)
     /\ rd' = [rd EXCEPT ![r].pc = "elem", ![r].buf = b, ![r].left = n]
     /\ UNCHANGED fault
  \/ /\ rd[r].op \in {"get", "iterate"}
     /\ ~InBounds(rd[r].idx, n)
     /\ rd' = [rd EXCEPT ![r] = IdleReader(@.seen)]
     /\ UNCHANGED fault
  \/ /\ rd[r].op = "get_int32"
     /\ ~InBounds(rd[r].idx, n)
     /\ fault' = "null_read"
     /\ UNCHANGED rd

LoadPtr(r) ==
  /\ rd[r].pc = "ptr"
  /\ \E k \in Visible(r) :
       /\ Load(r, k, PtrLoadOrder, hist[k].ptrRel)
       /\ IF hist[k].ptr = Null
          THEN WithSize(r, Null, 0)
          ELSE /\ rd' = [rd EXCEPT ![r].pc = "size", ![r].buf = hist[k].ptr]
               /\ UNCHANGED fault
  /\ UNCHANGED w

\* A buffer that is not yet in the snapshot looked at holds garbage.
LoadSize(r) ==
  /\ rd[r].pc = "size"
  /\ \E k \in Visible(r) :
       LET b == rd[r].buf IN
       IF b <= hist[k].ptr
       THEN /\ Load(r, k, SizeLoadOrder, hist[k].sizeRel[b])
            /\ WithSize(r, b, hist[k].size[b])
       ELSE /\ fault' = "uninit_read"
            /\ UNCHANGED <<memoryVars, rd>>
  /\ UNCHANGED w

\* The reader dereferences its pointer, a plain load of the element.
ReadElem(r) ==
  LET b == IF rd[r].op = "iterate" THEN rd[r].base ELSE rd[r].buf
      i == rd[r].idx
  IN
  /\ rd[r].pc = "elem"
  /\ \E k \in Visible(r) :
       LET m == hist[k] IN
       IF b # Null /\ b <= m.ptr /\ i < m.cap[b]
       THEN /\ rd' = [rd EXCEPT ![r].pc = "done", ![r].out = m.elem[b][i]]
            /\ UNCHANGED fault
       ELSE /\ fault' = IF b = Null THEN "null_read"
                        ELSE IF b <= m.ptr THEN "overrun_read" ELSE "uninit_read"
            /\ UNCHANGED rd
  /\ UNCHANGED <<memoryVars, w>>

\* The caller is through with the element; an iterator goes on to the next.
Done(r) ==
  /\ rd[r].pc = "done"
  /\ rd' = IF rd[r].op = "iterate" /\ rd[r].idx + 1 < rd[r].left
           THEN [rd EXCEPT ![r].pc = "elem", ![r].idx = rd[r].idx + 1]
           ELSE [rd EXCEPT ![r] = IdleReader(@.seen)]
  /\ UNCHANGED <<memoryVars, w, fault>>

ReaderNext(r) ==
  \/ \E op \in ReaderOps : Call(r, op)
  \/ Begin(r)
  \/ LoadPtr(r)
  \/ LoadSize(r)
  \/ ReadElem(r)
  \/ Done(r)

\* After an access outside live memory nothing is promised any more.
Next ==
  /\ fault = "none"
  /\ WriterNext \/ \E r \in Readers : ReaderNext(r)

Spec == Init /\ [][Next]_vars

-----------------------------------------------------------------------------
(* Properties *)

\* The variables have their types; in particular no size ever exceeds the
\* largest capacity (the guards and bounds of every operation, 275-374).
TypeOK ==
  /\ hist \in Seq(Memory) /\ hist # <<>>
  /\ floor \in [Readers -> 1 .. Len(hist)]
  /\ w \in Writer
  /\ rd \in [Readers -> Reader]
  /\ fault \in Faults

\* The buffer and the index a reader's pointer leads to.
Target(r) == <<IF rd[r].op = "iterate" THEN rd[r].base ELSE rd[r].buf, rd[r].idx>>
Holds(r) == rd[r].pc \in {"elem", "done"}

\* A reader that dereferenced the pointer get returned, however late and
\* however often the array grew meanwhile, has the committed element of that
\* index: never a zero, never a value of another index, never an element
\* that is not committed (reserve's copy, fill before commit, the two
\* acquire loads of msm_array_get).
ReadsCommitted ==
  \A r \in Readers :
    rd[r].pc = "done" => /\ rd[r].idx < Size(Now)
                         /\ rd[r].out = Now.elem[Now.ptr][rd[r].idx]

\* No call reads or writes outside a live, initialised buffer.  For
\* msm_array_get_int32 this says that an index below a size the reader was
\* told stays valid: get never returns the null that would be dereferenced.
MemorySafe == fault = "none"

\* Whatever goes wrong in the writer when malloc fails, a reader that came
\* through the C API is not harmed: a failed reserve publishes nothing.
ReadersSafe == fault \notin {"null_read", "overrun_read", "uninit_read"}

\* "Concurrent readers do not observe the new slot until commit": no reader
\* has a pointer to the element the writer is preparing (msm_allocator.h:95).
PrivateUntilCommit ==
  w.pc # "idle" /\ w.op = "prepare" =>
    \A r \in Readers : Holds(r) => Target(r) # <<w.buf, w.idx>>

\* prepare_push "returns pointer to zero-initialized slot"
\* (msm_allocator.h:92): the element it clears lies inside the buffer.
PreparedSlotInBounds == fault # "overrun_write"

\* The pointer begin() took and the size end() took can only be at odds when
\* the two loads saw different buffers.  Nothing else ever takes a reader out
\* of live memory: neither a loop whose loads saw the same buffer nor a
\* pointer get returned, although clear and later pushes reuse what they lead
\* to and allocations fail (array.hpp:194-207).
OnlyTornIterationsFault ==
  ~ReadersSafe =>
    \E r \in Readers : rd[r].op = "iterate" /\ rd[r].base # rd[r].buf

\* A loop over the array stays inside the buffer it walks: "the (ptr, size)
\* snapshot [is] inseparable" (msm_allocator.cpp:228-229).
IterationInBounds ==
  \A r \in Readers : rd[r].op = "iterate" => fault # "overrun_read"

\* As long as the writer only appends, the size a reader is told never goes
\* back, across grows and across the two loads of msm_array_size.
SizeNeverShrinks == [][\A r \in Readers : rd[r].seen <= rd'[r].seen]_vars

\* The array was cleared at some time.
Cleared == \E k \in 2 .. Len(hist) : Size(hist[k]) < Size(hist[k - 1])

\* Until the first clear, every element a reader gets while the writer uses
\* push_back is the pushed one or the zero it is published with, "convenience
\* for single-threaded use only" (msm_allocator.h:88); the zero is the only
\* harm.  It holds of loops as well, of those too whose begin() and end() saw
\* different buffers, as long as they stay in memory.
ReadsCommittedOrZero ==
  ~Cleared =>
    \A r \in Readers :
      rd[r].pc = "done" => rd[r].out \in {Zero, Now.elem[Now.ptr][rd[r].idx]}

\* An append-only array implements one growing sequence.
Committed == [i \in 1 .. Size(Now) |-> Now.elem[Now.ptr][i - 1]]

Known == [r \in Readers |-> rd[r].seen]
InHand == [r \in Readers |->
             IF rd[r].pc = "done" THEN <<rd[r].idx + 1, rd[r].out>> ELSE <<>>]

Sequence == INSTANCE SharedSequence WITH
  seq <- Committed, known <- Known, got <- InHand, Nothing <- <<>>

SequenceSpec == Sequence!Spec

-----------------------------------------------------------------------------
(* The inductive invariant behind the properties of an array whose writer   *)
(* only appends and whose readers go through the C API.                     *)

\* Every published buffer is a prefix of the current one.
MemoryOK(m) ==
  /\ m.ptr # Null => m.ptrRel
  /\ \A b \in 1 .. m.ptr :
       /\ m.size[b] <= m.cap[b]
       /\ m.size[b] <= m.size[m.ptr]
       /\ \A i \in 0 .. m.size[b] - 1 : m.elem[b][i] = m.elem[m.ptr][i]

\* What a reader can rely on when it goes from snapshot m to a later one, n.
Extends(m, n) ==
  /\ m.ptr <= n.ptr
  /\ \A b \in 1 .. m.ptr :
       /\ n.cap[b] = m.cap[b]
       /\ m.size[b] <= n.size[b]
       /\ m.sizeRel[b] => n.sizeRel[b]
       /\ ~n.sizeRel[b] => n.size[b] = m.size[b]
       /\ \A i \in 0 .. m.size[b] - 1 : n.elem[b][i] = m.elem[b][i]

HistoryOK ==
  /\ \A k \in 1 .. Len(hist) : MemoryOK(hist[k])
  /\ \A j, k \in 1 .. Len(hist) : j <= k => Extends(hist[j], hist[k])

\* The writer works on the current buffer, at the end of what is committed.
WriterOK ==
  /\ w.pc # "idle" => /\ w.op \in {"prepare", "push_back"}
                      /\ w.buf = Now.ptr
                      /\ w.buf # Null
  /\ w.pc \in {"zero", "commit"} => w.idx = Size(Now)
  /\ w.pc = "fill" /\ w.op = "prepare" => w.idx = Size(Now)
  /\ w.pc \in {"fill", "commit"} => w.idx < Now.cap[w.buf]

\* What a reader knows already holds in the oldest snapshot it may read.
ReaderOK(r) ==
  LET m == hist[floor[r]] IN
  /\ rd[r].seen <= Size(m)
  /\ rd[r].pc = "begin" => rd[r].op = "iterate"
  /\ rd[r].pc = "ptr" /\ rd[r].op = "get_int32" => rd[r].idx < rd[r].seen
  /\ rd[r].pc = "size" =>
       /\ rd[r].buf \in 1 .. m.ptr
       /\ rd[r].seen <= m.size[rd[r].buf]
       /\ rd[r].op = "get_int32" => rd[r].idx < m.size[rd[r].buf]
  /\ rd[r].pc = "elem" =>
       /\ rd[r].buf \in 1 .. m.ptr
       /\ rd[r].idx < m.size[rd[r].buf]

\* A reader holding an element can trust every earlier promise: what it knows
\* of sizes, buffers and elements is already true in every snapshot it may
\* still load from (the acquire/release pairs of 259-265 and 352-365).
AppendInv ==
  /\ HistoryOK
  /\ WriterOK
  /\ \A r \in Readers : ReaderOK(r)
  /\ ReadsCommitted
  /\ ReadersSafe

=============================================================================
