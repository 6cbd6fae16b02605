------------------------ MODULE MsmArrayMixedProofs ------------------------
(* What an array promises when its writer uses every call and its readers    *)
(* loop over it as well: which accesses leave live memory, and what a reader *)
(* finds before the first clear.                                             *)
EXTENDS MsmArrayProofs

\* msm_array_get_int32 trusts an index its caller knows to be below the size,
\* which no caller knows once the array may be cleared.
IndicesChecked == "get_int32" \notin ReaderOps

-----------------------------------------------------------------------------
(* The steps of a reader, with what each tells it. *)

\* The buffer a reader dereferences.
Source(q) == IF q.op = "iterate" THEN q.base ELSE q.buf

\* The call it is in goes on.
SameCall(p, q) == q.op = p.op /\ q.base = p.base

\* It holds no buffer.
Restarts(q) == q.pc \in {"idle", "begin", "ptr"}

TookPtr(q, m) == q.pc = "size" /\ q.buf = m.ptr /\ m.ptr # Null

TookSize(p, q, m) ==
  /\ p.pc = "size" /\ q.pc = "elem" /\ SameCall(p, q) /\ q.buf = p.buf
  /\ q.buf <= m.ptr /\ q.idx < q.left /\ q.left = m.size[q.buf]

TookElem(p, q, m) ==
  /\ p.pc = "elem" /\ q.pc = "done" /\ SameCall(p, q) /\ q.buf = p.buf
  /\ q.idx = p.idx /\ q.left = p.left
  /\ Source(p) \in 1 .. m.ptr /\ q.idx < m.cap[Source(p)]
  /\ q.out = m.elem[Source(p)][q.idx]

TookNext(p, q) ==
  /\ p.pc = "done" /\ q.pc = "elem" /\ SameCall(p, q) /\ q.buf = p.buf
  /\ q.left = p.left /\ q.idx < q.left

\* An access leaves live memory.
Lost(p, m) ==
  \/ p.pc = "size" /\ ~(p.buf <= m.ptr)
  \/ p.pc = "elem" /\ ~(Source(p) \in 1 .. m.ptr /\ p.idx < m.cap[Source(p)])

\* A load of a location whose last store was a release store raises the floor.
Raised(r, k, released) == floor'[r] = IF released THEN k ELSE floor[r]

ReaderMoves(r, k) ==
  LET p == rd[r]
      q == rd'[r]
      m == hist[k]
  IN  \/ Restarts(q) /\ fault' = fault
      \/ TookPtr(q, m) /\ Raised(r, k, m.ptrRel) /\ fault' = fault
      \/ TookSize(p, q, m) /\ Raised(r, k, m.sizeRel[q.buf]) /\ fault' = fault
      \/ TookElem(p, q, m) /\ floor'[r] = floor[r] /\ fault' = fault
      \/ TookNext(p, q) /\ floor'[r] = floor[r] /\ fault' = fault
      \/ Lost(p, m) /\ q = p /\ floor'[r] = floor[r]

Untouched(r) ==
  /\ hist' = hist /\ w' = w
  /\ \A s \in Readers \ {r} : rd'[s] = rd[s] /\ floor'[s] = floor[s]
  /\ rd'[r] \in Reader /\ floor'[r] \in floor[r] .. Len(hist)

LEMMA ReaderStep ==
  ASSUME IndicesChecked, TypeOK, SizeHasBuffer, NEW r \in Readers, ReaderNext(r)
  PROVE  Untouched(r) /\ \E k \in Visible(r) : ReaderMoves(r, k)
<1> USE DEF IndicesChecked
<1>1. PICK p \in Reader : p = rd[r]
  BY DEF TypeOK
<1>2. rd' \in [Readers -> Reader] /\ hist' = hist /\ w' = w
  BY ReaderTypeStep DEF TypeOK
<1>3. floor[r] \in Visible(r) /\ floor \in [Readers -> 1 .. Len(hist)] /\ Len(hist) \in Nat
  BY NowType DEF TypeOK, Visible
<1>4. ASSUME NEW b, NEW n, WithSize(r, b, n)
      PROVE  /\ \A s \in Readers \ {r} : rd'[s] = rd[s]
             /\ fault' = fault
             /\ \/ Restarts(rd'[r])
                \/ /\ rd'[r] = [p EXCEPT !.pc = "elem", !.buf = b, !.left = n]
                   /\ p.idx < n
  <2>1. p.op \in ReaderOps \cup {"none"}
    BY DEF Reader
  <2>2. p.op # "get_int32"
    BY <2>1
  <2>3. \/ rd' = [rd EXCEPT ![r] = IdleReader(n)] /\ fault' = fault
        \/ rd' = [rd EXCEPT ![r] = IdleReader(@.seen)] /\ fault' = fault
        \/ /\ rd' = [rd EXCEPT ![r].pc = "elem", ![r].buf = b, ![r].left = n]
           /\ p.idx < n /\ fault' = fault
    BY <1>1, <1>4, <2>2 DEF WithSize, InBounds
  <2>4. fault' = fault /\ \A s \in Readers \ {r} : rd'[s] = rd[s]
    BY <2>3 DEF TypeOK
  <2>5. \/ rd'[r].pc = "idle"
        \/ /\ rd'[r] = [p EXCEPT !.pc = "elem", !.buf = b, !.left = n]
           /\ p.idx < n
    <3>1. \A x : IdleReader(x).pc = "idle"
      BY DEF IdleReader
    <3>2. rd'[r] = IdleReader(n) \/ rd'[r] = IdleReader(p.seen)
            \/ (rd'[r] = [p EXCEPT !.pc = "elem", !.buf = b, !.left = n] /\ p.idx < n)
      BY <1>1, <2>3 DEF TypeOK
    <3>3. QED
      BY <3>1, <3>2
  <2>6. QED
    BY <2>4, <2>5 DEF Restarts
<1>5. ASSUME NEW op \in ReaderOps, Call(r, op)
      PROVE  Untouched(r) /\ \E k \in Visible(r) : ReaderMoves(r, k)
  <2>1. PICK i \in Indices(r, op) :
          rd' = [rd EXCEPT ![r].pc = IF op = "iterate" THEN "begin" ELSE "ptr",
                           ![r].op = op, ![r].idx = i]
    BY <1>5 DEF Call
  <2>2. fault' = fault /\ floor' = floor
    BY <1>5 DEF Call, memoryVars
  <2>3. rd'[r].pc \in {"begin", "ptr"} /\ \A s \in Readers \ {r} : rd'[s] = rd[s]
    BY <1>1, <2>1 DEF TypeOK, Reader
  <2>4. QED
    BY <1>2, <1>3, <2>2, <2>3 DEF Untouched, ReaderMoves, Restarts
<1>6. CASE Begin(r)
  <2>1. PICK k \in Visible(r) :
          /\ Load(r, k, Relaxed, hist[k].ptrRel)
          /\ rd' = [rd EXCEPT ![r].pc = "ptr", ![r].base = hist[k].ptr]
    BY <1>6 DEF Begin
  <2>2. fault' = fault /\ floor'[r] = floor[r] /\ \A s \in Readers \ {r} : floor'[s] = floor[s]
    BY <1>3, <1>6, <2>1 DEF Begin, Load, Relaxed, Acquire
  <2>3. rd'[r].pc = "ptr" /\ \A s \in Readers \ {r} : rd'[s] = rd[s]
    BY <1>1, <2>1 DEF TypeOK, Reader
  <2>4. QED
    BY <1>2, <1>3, <2>2, <2>3 DEF Untouched, ReaderMoves, Restarts
<1>7. CASE LoadPtr(r)
  <2>1. PICK k \in Visible(r) :
          /\ Load(r, k, PtrLoadOrder, hist[k].ptrRel)
          /\ IF hist[k].ptr = Null
             THEN WithSize(r, Null, 0)
             ELSE /\ rd' = [rd EXCEPT ![r].pc = "size", ![r].buf = hist[k].ptr]
                  /\ UNCHANGED fault
    BY <1>7 DEF LoadPtr
  <2>2. /\ Raised(r, k, hist[k].ptrRel) /\ \A s \in Readers \ {r} : floor'[s] = floor[s]
        /\ floor'[r] \in floor[r] .. Len(hist)
    BY <1>3, <2>1 DEF Load, PtrLoadOrder, Acquire, Raised, Visible
  <2>3. CASE hist[k].ptr = Null
    <3>1. p.idx \in Nat
      BY ConstantsAssumption DEF Reader
    <3>2. WithSize(r, Null, 0)
      BY <2>1, <2>3
    <3>3. /\ fault' = fault /\ \A s \in Readers \ {r} : rd'[s] = rd[s]
          /\ Restarts(rd'[r]) \/ p.idx < 0
      BY <1>4, <3>2
    <3>4. QED
      BY <1>2, <1>3, <2>2, <3>1, <3>3 DEF Untouched, ReaderMoves
  <2>4. CASE hist[k].ptr # Null
    <3>1. /\ rd'[r].pc = "size" /\ rd'[r].buf = hist[k].ptr /\ fault' = fault
          /\ \A s \in Readers \ {r} : rd'[s] = rd[s]
      BY <1>1, <2>1, <2>4 DEF TypeOK, Reader
    <3>2. TookPtr(rd'[r], hist[k])
      BY <2>4, <3>1 DEF TookPtr
    <3>3. QED
      BY <1>2, <1>3, <2>2, <3>1, <3>2 DEF Untouched, ReaderMoves
  <2>5. QED
    BY <2>3, <2>4
<1>8. CASE LoadSize(r)
  <2>1. PICK k \in Visible(r) :
          LET b == rd[r].buf IN
          IF b <= hist[k].ptr
          THEN /\ Load(r, k, SizeLoadOrder, hist[k].sizeRel[b])
               /\ WithSize(r, b, hist[k].size[b])
          ELSE /\ fault' = "uninit_read"
               /\ UNCHANGED <<memoryVars, rd>>
    BY <1>8 DEF LoadSize
  <2>2. p.pc = "size"
    BY <1>1, <1>8 DEF LoadSize
  <2>3. CASE p.buf <= hist[k].ptr
    <3>1. /\ Load(r, k, SizeLoadOrder, hist[k].sizeRel[p.buf])
          /\ WithSize(r, p.buf, hist[k].size[p.buf])
      BY <1>1, <2>1, <2>3
    <3>2. /\ Raised(r, k, hist[k].sizeRel[p.buf])
          /\ \A s \in Readers \ {r} : floor'[s] = floor[s]
          /\ floor'[r] \in floor[r] .. Len(hist)
      BY <1>3, <3>1 DEF Load, SizeLoadOrder, Acquire, Raised, Visible
    <3>3. /\ fault' = fault /\ \A s \in Readers \ {r} : rd'[s] = rd[s]
          /\ \/ Restarts(rd'[r])
             \/ /\ rd'[r] = [p EXCEPT !.pc = "elem", !.buf = p.buf,
                                      !.left = hist[k].size[p.buf]]
                /\ p.idx < hist[k].size[p.buf]
      BY <1>4, <3>1
    <3>4. CASE Restarts(rd'[r])
      BY <1>2, <1>3, <3>2, <3>3, <3>4 DEF Untouched, ReaderMoves
    <3>5. CASE /\ rd'[r] = [p EXCEPT !.pc = "elem", !.buf = p.buf,
                                     !.left = hist[k].size[p.buf]]
               /\ p.idx < hist[k].size[p.buf]
      <4>1. TookSize(p, rd'[r], hist[k]) /\ rd'[r].buf = p.buf
        BY <2>2, <2>3, <3>5 DEF TookSize, SameCall, Reader
      <4>2. QED
        BY <1>1, <1>2, <1>3, <3>2, <3>3, <4>1 DEF Untouched, ReaderMoves
    <3>6. QED
      BY <3>3, <3>4, <3>5
  <2>4. CASE ~(p.buf <= hist[k].ptr)
    <3>1. rd' = rd /\ floor' = floor
      BY <1>1, <2>1, <2>4 DEF memoryVars
    <3>2. Lost(p, hist[k])
      BY <2>2, <2>4 DEF Lost
    <3>3. QED
      BY <1>1, <1>2, <1>3, <3>1, <3>2 DEF Untouched, ReaderMoves
  <2>5. QED
    BY <2>3, <2>4
<1>9. CASE ReadElem(r)
  <2>1. PICK k \in Visible(r) :
          LET m == hist[k]
              b == Source(rd[r])
              i == rd[r].idx
          IN
          IF b # Null /\ b <= m.ptr /\ i < m.cap[b]
          THEN /\ rd' = [rd EXCEPT ![r].pc = "done", ![r].out = m.elem[b][i]]
               /\ UNCHANGED fault
          ELSE /\ fault' = IF b = Null THEN "null_read"
                           ELSE IF b <= m.ptr THEN "overrun_read" ELSE "uninit_read"
               /\ UNCHANGED rd
    BY <1>9 DEF ReadElem, Source
  <2>2. p.pc = "elem" /\ floor' = floor
    BY <1>1, <1>9 DEF ReadElem, memoryVars
  <2>3. Source(p) \in Nat /\ hist[k].ptr \in Nat
    <3>1. p.buf \in Nat /\ p.base \in Nat
      BY DEF Reader, Bufs, Null
    <3>2. hist[k].ptr \in Nat
      <4>1. k \in 1 .. Len(hist)
        BY <1>3, <2>1 DEF Visible
      <4>2. hist[k] \in Memory
        BY <4>1 DEF TypeOK
      <4>3. QED
        BY <4>2 DEF Memory, Bufs, Null
    <3>3. QED
      BY <3>1, <3>2 DEF Source
  <2>4. (Source(p) # Null /\ Source(p) <= hist[k].ptr) <=> Source(p) \in 1 .. hist[k].ptr
    BY <2>3 DEF Null
  <2>5. CASE Source(p) \in 1 .. hist[k].ptr /\ p.idx < hist[k].cap[Source(p)]
    <3>1. /\ rd' = [rd EXCEPT ![r].pc = "done", ![r].out = hist[k].elem[Source(p)][p.idx]]
          /\ fault' = fault
      BY <1>1, <2>1, <2>4, <2>5
    <3>2. /\ rd'[r] = [p EXCEPT !.pc = "done", !.out = hist[k].elem[Source(p)][p.idx]]
          /\ \A s \in Readers \ {r} : rd'[s] = rd[s]
      BY <1>1, <3>1 DEF TypeOK
    <3>3. TookElem(p, rd'[r], hist[k])
      BY <2>2, <2>5, <3>2 DEF TookElem, SameCall, Reader
    <3>4. QED
      <4>1. ReaderMoves(r, k)
        BY <1>1, <2>2, <3>1, <3>3 DEF ReaderMoves
      <4>2. Untouched(r)
        BY <1>2, <1>3, <2>2, <3>2 DEF Untouched
      <4>3. QED
        BY <4>1, <4>2
  <2>6. CASE ~(Source(p) \in 1 .. hist[k].ptr /\ p.idx < hist[k].cap[Source(p)])
    <3>1. rd' = rd
      BY <1>1, <2>1, <2>4, <2>6
    <3>2. Lost(p, hist[k])
      BY <2>2, <2>6 DEF Lost
    <3>3. QED
      BY <1>1, <1>2, <1>3, <2>2, <3>1, <3>2 DEF Untouched, ReaderMoves
  <2>7. QED
    BY <2>5, <2>6
<1>10. CASE Done(r)
  <2>1. fault' = fault /\ floor' = floor /\ p.pc = "done"
    BY <1>1, <1>10 DEF Done, memoryVars
  <2>2. CASE p.op = "iterate" /\ p.idx + 1 < p.left
    <3>1. /\ rd'[r] = [p EXCEPT !.pc = "elem", !.idx = p.idx + 1]
          /\ \A s \in Readers \ {r} : rd'[s] = rd[s]
      BY <1>1, <1>10, <2>2 DEF Done, TypeOK
    <3>2. TookNext(p, rd'[r])
      BY <2>1, <2>2, <3>1 DEF TookNext, SameCall, Reader
    <3>3. QED
      BY <1>1, <1>2, <1>3, <2>1, <3>1, <3>2 DEF Untouched, ReaderMoves
  <2>3. CASE ~(p.op = "iterate" /\ p.idx + 1 < p.left)
    <3>1. /\ rd'[r] = IdleReader(p.seen) /\ \A s \in Readers \ {r} : rd'[s] = rd[s]
      BY <1>1, <1>10, <2>3 DEF Done, TypeOK
    <3>2. Restarts(rd'[r])
      BY <3>1 DEF Restarts, IdleReader
    <3>3. QED
      BY <1>2, <1>3, <2>1, <3>1, <3>2 DEF Untouched, ReaderMoves
  <2>4. QED
    BY <2>2, <2>3
<1>11. QED
  BY <1>5, <1>6, <1>7, <1>8, <1>9, <1>10 DEF ReaderNext

-----------------------------------------------------------------------------
(* What the writer stores. *)

\* The memory m the writer may leave.
Grew(m) == \E c \in 0 .. MaxCap : Cap(Now) < c /\ Now.ptr < MaxBufs /\ m = Grown(Now, c)
WroteElem(m) ==
  /\ Now.ptr # Null
  /\ \E i \in Index, v \in Elems : m = SetElem(Now, Now.ptr, i, v)
Committed1(m) ==
  Now.ptr # Null /\ Size(Now) < Cap(Now) /\ m = Sized(Now, Size(Now) + 1, Release)
WasCleared(m) == Now.ptr # Null /\ m = Sized(Now, 0, Release)

WriterFaults == {"overrun_write", "null_write"}

LEMMA WriterStores ==
  ASSUME TypeOK, WriterOK, WriterNext
  PROVE  /\ \/ UNCHANGED memoryVars
            \/ \E m \in Memory :
                 /\ Store(m) \/ StoreIfChanged(m)
                 /\ m = Now \/ Grew(m) \/ WroteElem(m) \/ Committed1(m) \/ WasCleared(m)
         /\ fault' \in {fault} \cup WriterFaults
<1> DEFINE Stores == \E m \in Memory :
                       /\ Store(m) \/ StoreIfChanged(m)
                       /\ \/ m = Now \/ Grew(m) \/ WroteElem(m) \/ Committed1(m)
                          \/ WasCleared(m)
           Good == /\ UNCHANGED memoryVars \/ Stores
                   /\ fault' \in {fault} \cup WriterFaults
<1>1. Now \in Memory
  BY NowType DEF TypeOK
<1>2. ASSUME NEW m, StoreIfChanged(m),
             \/ m \in PrepareOutcomes
             \/ \E c \in 0 .. MaxCap : m \in ReserveOutcomes(c)
      PROVE  Stores
  BY <1>2, OutcomeType, OutcomeCases DEF Grew
<1>3. ASSUME NEW op \in WriterOps \cap {"prepare", "push_back"}, NEW v \in Values,
             PreparePush(op, v)
      PROVE  Good
  <2>1. PICK m \in PrepareOutcomes : StoreIfChanged(m)
    BY <1>3 DEF PreparePush
  <2>2. fault' \in {fault} \cup WriterFaults
    BY <1>3 DEF PreparePush, WriterFaults
  <2>3. QED
    BY <1>2, <2>1, <2>2
<1>4. ASSUME NEW c \in 0 .. MaxCap, Reserve(c)
      PROVE  Good
  BY <1>2, <1>4 DEF Reserve
<1>5. CASE Clear
  <2>1. Sized(Now, 0, Release) \in Memory
    BY <1>1, <1>5, SizedType, ConstantsAssumption DEF Clear
  <2>2. QED
    BY <1>5, <2>1 DEF Clear, ClearOrder, WasCleared
<1>6. ASSUME NEW i \in Index, NEW v \in Elems, Now.ptr # Null,
             StoreIfChanged(SetElem(Now, Now.ptr, i, v)), fault' = fault
      PROVE  Good
  <2>1. SetElem(Now, Now.ptr, i, v) \in Memory
    BY <1>1, <1>6, SetElemType, MemoryFacts
  <2>2. WroteElem(SetElem(Now, Now.ptr, i, v))
    BY <1>6 DEF WroteElem
  <2>3. QED
    BY <1>6, <2>1, <2>2
<1>7. CASE ZeroElem
  <2>1. CASE w.idx < Now.cap[w.buf]
    <3>1. w.buf = Now.ptr /\ Now.ptr # Null /\ w.idx \in Index
      BY <1>1, <1>7, <2>1, ConstantsAssumption
      DEF TypeOK, WriterOK, ZeroElem, Writer, Memory, Index
    <3>2. Zero \in Elems
      BY DEF Elems
    <3>3. StoreIfChanged(SetElem(Now, Now.ptr, w.idx, Zero)) /\ fault' = fault
      BY <1>7, <2>1, <3>1 DEF ZeroElem
    <3>4. QED
      BY <1>6, <3>1, <3>2, <3>3
  <2>2. CASE ~(w.idx < Now.cap[w.buf])
    BY <1>7, <2>2 DEF ZeroElem, WriterFaults
  <2>3. QED
    BY <2>1, <2>2
<1>8. CASE Fill
  <2>1. w.buf = Now.ptr /\ Now.ptr # Null /\ w.idx \in Index /\ w.val \in Elems
    BY <1>1, <1>8, ConstantsAssumption
    DEF TypeOK, WriterOK, Fill, Writer, Memory, Index
  <2>2. StoreIfChanged(SetElem(Now, Now.ptr, w.idx, w.val)) /\ fault' = fault
    BY <1>8, <2>1 DEF Fill
  <2>3. QED
    BY <1>6, <2>1, <2>2
<1>9. CASE CommitPush
  <2>1. Now.ptr # Null /\ w.idx = Size(Now) /\ w.idx < Cap(Now)
    BY <1>9 DEF TypeOK, WriterOK, CommitPush, Writer, Cap
  <2>2. Size(Now) \in 0 .. MaxCap /\ Cap(Now) \in 0 .. MaxCap
    BY <1>1, SizeType
  <2>3. (Size(Now) + 1) % U32 = Size(Now) + 1 /\ Size(Now) + 1 \in 0 .. MaxCap
    BY <2>1, <2>2, ConstantsAssumption
  <2>4. Sized(Now, Size(Now) + 1, Release) \in Memory
    BY <1>1, <2>1, <2>3, SizedType
  <2>5. Committed1(Sized(Now, Size(Now) + 1, Release))
    BY <2>1 DEF Committed1
  <2>6. Store(Sized(Now, Size(Now) + 1, Release)) /\ fault' = fault
    BY <1>9, <2>3 DEF CommitPush, CommitOrder
  <2>7. QED
    BY <2>4, <2>5, <2>6
<1>10. CASE Abandon
  BY <1>10 DEF Abandon
<1>11. QED
  BY <1>3, <1>4, <1>5, <1>7, <1>8, <1>9, <1>10 DEF WriterNext

-----------------------------------------------------------------------------
(* What can leave live memory.  Whatever the writer calls, a buffer never    *)
(* changes its capacity and never holds more elements than that, and a       *)
(* reader that loaded its pointer and its size from one buffer stays in it.  *)

BufferOK(m) ==
  /\ m.ptr # Null => m.ptrRel
  /\ \A b \in 1 .. m.ptr : m.size[b] <= m.cap[b]

Keeps(m, n) ==
  /\ m.ptr <= n.ptr
  /\ \A b \in 1 .. m.ptr : n.cap[b] = m.cap[b]

BuffersOK ==
  /\ \A k \in 1 .. Len(hist) : BufferOK(hist[k])
  /\ \A j, k \in 1 .. Len(hist) : j <= k => Keeps(hist[j], hist[k])

CursorOK(q, m) ==
  /\ q.pc = "size" => q.buf \in 1 .. m.ptr
  /\ q.pc \in {"elem", "done"} =>
       /\ q.buf \in 1 .. m.ptr
       /\ q.idx < q.left
       /\ q.left <= m.cap[q.buf]

TornInv ==
  /\ BuffersOK
  /\ \A r \in Readers : CursorOK(rd[r], hist[floor[r]])
  /\ OnlyTornIterationsFault

LEMMA MemoryNumbers ==
  ASSUME NEW m \in Memory
  PROVE  /\ m.ptr \in Nat /\ Size(m) \in Nat /\ Cap(m) \in Nat
         /\ \A b \in 1 .. m.ptr : b \in Bufs /\ m.cap[b] \in Nat /\ m.size[b] \in Nat
<1>1. m.ptr \in Nat
  BY MemoryFacts DEF Bufs, Null
<1>2. Size(m) \in Nat /\ Cap(m) \in Nat
  BY SizeType
<1>3. ASSUME NEW b \in 1 .. m.ptr
      PROVE  b \in Bufs /\ m.cap[b] \in Nat /\ m.size[b] \in Nat
  <2>1. b \in Bufs /\ m.cap[b] \in 0 .. MaxCap /\ m.size[b] \in 0 .. MaxCap
    BY MemoryFacts
  <2>2. QED
    BY <2>1
<1>4. QED
  BY <1>1, <1>2, <1>3

LEMMA KeepsReflexive ==
  ASSUME NEW m \in Memory
  PROVE  Keeps(m, m)
BY MemoryFacts DEF Keeps, Bufs, Null

LEMMA KeepsTransitive ==
  ASSUME NEW l \in Memory, NEW m \in Memory, NEW n \in Memory, Keeps(l, m), Keeps(m, n)
  PROVE  Keeps(l, n)
<1>1. l.ptr \in Nat /\ m.ptr \in Nat /\ n.ptr \in Nat
  BY MemoryFacts DEF Bufs, Null
<1>2. \A b \in 1 .. l.ptr : b \in 1 .. m.ptr
  BY <1>1 DEF Keeps
<1>3. QED
  BY <1>1, <1>2 DEF Keeps

\* Every store of the writer keeps the buffers in order.
LEMMA StoreKeeps ==
  ASSUME NEW m \in Memory, Now \in Memory, BufferOK(Now),
         m = Now \/ Grew(m) \/ WroteElem(m) \/ Committed1(m) \/ WasCleared(m)
  PROVE  BufferOK(m) /\ Keeps(Now, m)
<1>1. /\ Now.ptr \in Nat /\ Size(Now) \in Nat /\ Cap(Now) \in Nat
      /\ \A b \in 1 .. Now.ptr : b \in Bufs /\ Now.cap[b] \in Nat /\ Now.size[b] \in Nat
  BY MemoryNumbers
<1>2. Size(Now) <= Cap(Now)
  BY <1>1 DEF BufferOK, Size, Cap, Null
<1>3. CASE m = Now
  BY <1>3, KeepsReflexive
<1>4. CASE Grew(m)
  <2>1. PICK c \in 0 .. MaxCap : Cap(Now) < c /\ Now.ptr < MaxBufs /\ m = Grown(Now, c)
    BY <1>4 DEF Grew
  <2>2. /\ m.ptr = Now.ptr + 1 /\ m.ptrRel
        /\ m.size[Now.ptr + 1] = Size(Now) /\ m.cap[Now.ptr + 1] = c
        /\ \A b \in 1 .. Now.ptr : m.size[b] = Now.size[b] /\ m.cap[b] = Now.cap[b]
    BY <2>1, GrownFields
  <2>3. Size(Now) <= c
    BY <1>1, <1>2, <2>1
  <2>4. \A b \in 1 .. m.ptr : b = Now.ptr + 1 \/ b \in 1 .. Now.ptr
    BY <1>1, <2>2
  <2>5. QED
    BY <1>1, <2>2, <2>3, <2>4 DEF BufferOK, Keeps
<1>5. CASE WroteElem(m)
  <2>1. m.ptr = Now.ptr /\ m.ptrRel = Now.ptrRel /\ m.size = Now.size /\ m.cap = Now.cap
    BY <1>5, SetElemFields DEF WroteElem
  <2>2. QED
    BY <1>1, <2>1 DEF BufferOK, Keeps
<1>6. ASSUME NEW n \in Nat, n <= Cap(Now), Now.ptr # Null, m = Sized(Now, n, Release)
      PROVE  BufferOK(m) /\ Keeps(Now, m)
  <2>1. /\ m.ptr = Now.ptr /\ m.ptrRel = Now.ptrRel /\ m.cap = Now.cap
        /\ m.size[Now.ptr] = n
        /\ \A b \in Bufs : b # Now.ptr => m.size[b] = Now.size[b]
    BY <1>6, SizedFields
  <2>2. Cap(Now) = Now.cap[Now.ptr]
    BY <1>6 DEF Cap
  <2>3. QED
    BY <1>1, <1>6, <2>1, <2>2 DEF BufferOK, Keeps
<1>7. CASE Committed1(m)
  BY <1>1, <1>6, <1>7 DEF Committed1
<1>8. CASE WasCleared(m)
  BY <1>1, <1>6, <1>8 DEF WasCleared
<1>9. QED
  BY <1>3, <1>4, <1>5, <1>7, <1>8

LEMMA WriterTornStep ==
  ASSUME TypeOK, WriterOK, TornInv, WriterNext, fault = "none"
  PROVE  TornInv'
<1>1. Now \in Memory /\ Len(hist) \in Nat \ {0} /\ Now = hist[Len(hist)]
  BY NowType DEF TypeOK, Now
<1>2. rd' = rd
  BY WriterTypeStep
<1>3. OnlyTornIterationsFault'
  BY WriterStores DEF WriterFaults, OnlyTornIterationsFault, ReadersSafe
<1>4. CASE UNCHANGED memoryVars
  BY <1>2, <1>3, <1>4 DEF TornInv, BuffersOK, memoryVars
<1>5. CASE \E m \in Memory :
             /\ Store(m) \/ StoreIfChanged(m)
             /\ m = Now \/ Grew(m) \/ WroteElem(m) \/ Committed1(m) \/ WasCleared(m)
  <2>1. PICK m \in Memory :
               /\ Store(m) \/ StoreIfChanged(m)
               /\ m = Now \/ Grew(m) \/ WroteElem(m) \/ Committed1(m) \/ WasCleared(m)
    BY <1>5
  <2>2. /\ Len(hist') \in {Len(hist), Len(hist) + 1} /\ floor' = floor
        /\ \A k \in 1 .. Len(hist) : hist'[k] = hist[k]
        /\ hist'[Len(hist')] = m
    BY <2>1, StoreHistory DEF TypeOK
  <2>3. BufferOK(Now)
    BY <1>1 DEF TornInv, BuffersOK
  <2>4. BufferOK(m) /\ Keeps(Now, m)
    BY <1>1, <2>1, <2>3, StoreKeeps
  <2>5. \A k \in 1 .. Len(hist) : hist[k] \in Memory /\ Keeps(hist[k], Now)
    BY <1>1 DEF TornInv, BuffersOK, TypeOK
  <2>6. \A k \in 1 .. Len(hist) : Keeps(hist[k], m)
    BY <1>1, <2>4, <2>5, KeepsTransitive
  <2>7. \A k \in 1 .. Len(hist') : k \in 1 .. Len(hist) \/ (k = Len(hist') /\ hist'[k] = m)
    BY <1>1, <2>2
  <2>8. \A k \in 1 .. Len(hist') : BufferOK(hist'[k])
    BY <2>2, <2>4, <2>7 DEF TornInv, BuffersOK
  <2>9. ASSUME NEW j \in 1 .. Len(hist'), NEW k \in 1 .. Len(hist'), j <= k
        PROVE  Keeps(hist'[j], hist'[k])
    <3>1. CASE k \in 1 .. Len(hist)
      <4>1. j \in 1 .. Len(hist)
        BY <1>1, <2>9, <3>1
      <4>2. QED
        BY <2>2, <2>9, <3>1, <4>1 DEF TornInv, BuffersOK
    <3>2. CASE hist'[k] = m
      BY <2>2, <2>6, <2>7, <3>2, KeepsReflexive
    <3>3. QED
      BY <2>7, <3>1, <3>2
  <2>10. BuffersOK'
    BY <2>8, <2>9 DEF BuffersOK
  <2>11. \A r \in Readers : CursorOK(rd[r], hist[floor[r]])'
    <3>1. SUFFICES ASSUME NEW r \in Readers
                   PROVE  CursorOK(rd[r], hist[floor[r]])'
      OBVIOUS
    <3>2. floor[r] \in 1 .. Len(hist)
      BY DEF TypeOK
    <3>3. hist'[floor'[r]] = hist[floor[r]] /\ rd'[r] = rd[r]
      BY <1>2, <2>2, <3>2
    <3>4. QED
      BY <3>3 DEF TornInv, CursorOK
  <2>12. QED
    BY <1>3, <2>10, <2>11 DEF TornInv
<1>6. QED
  BY <1>4, <1>5, WriterStores

LEMMA ReaderTornStep ==
  ASSUME IndicesChecked, TypeOK, SizeHasBuffer, TornInv, fault = "none",
         NEW r \in Readers, ReaderNext(r)
  PROVE  TornInv'
<1>1. PICK k \in Visible(r) : ReaderMoves(r, k)
  BY ReaderStep
<1>2. Untouched(r)
  BY ReaderStep
<1>3. PICK p \in Reader : p = rd[r]
  BY DEF TypeOK
<1>4. PICK q \in Reader : q = rd'[r]
  BY <1>2 DEF Untouched
<1>5. /\ floor[r] \in 1 .. Len(hist) /\ k \in 1 .. Len(hist) /\ floor[r] <= k
      /\ floor'[r] \in 1 .. Len(hist) /\ floor[r] <= floor'[r]
  BY <1>2, NowType DEF Untouched, TypeOK, Visible
<1> DEFINE l == hist[floor[r]]
           n == hist[floor'[r]]
           m == hist[k]
<1>6. /\ l \in Memory /\ n \in Memory /\ m \in Memory
      /\ Keeps(l, n) /\ Keeps(l, m) /\ BufferOK(m) /\ BufferOK(l)
  BY <1>5 DEF TypeOK, TornInv, BuffersOK
<1>7. CursorOK(p, l)
  BY <1>3 DEF TornInv
<1>8. hist'[floor'[r]] = n
  BY <1>2 DEF Untouched
<1>9. /\ p.buf \in Nat /\ p.idx \in Nat /\ p.left \in Nat
      /\ l.ptr \in Nat /\ n.ptr \in Nat /\ m.ptr \in Nat
      /\ \A b \in 1 .. l.ptr : l.cap[b] \in Nat /\ l.size[b] \in Nat
      /\ \A b \in 1 .. m.ptr : m.cap[b] \in Nat /\ m.size[b] \in Nat
  <2>1. p.buf \in Nat /\ p.idx \in Nat /\ p.left \in Nat
    BY ConstantsAssumption DEF Reader, Bufs, Null
  <2> HIDE DEF l, m, n
  <2>2. QED
    BY <1>6, <2>1, MemoryNumbers
<1>10. \A b \in 1 .. l.ptr : /\ b \in 1 .. n.ptr /\ n.cap[b] = l.cap[b]
                             /\ b \in 1 .. m.ptr /\ m.cap[b] = l.cap[b]
  BY <1>6, <1>9 DEF Keeps
<1>11. ~Lost(p, m) \/ (p.op = "iterate" /\ p.base # p.buf)
  BY <1>7, <1>9, <1>10 DEF Lost, CursorOK, Source
<1>12. CursorOK(q, n) /\ (fault' = fault \/ (q.op = "iterate" /\ q.base # q.buf))
  <2>1. CASE Restarts(q) /\ fault' = fault
    BY <2>1 DEF Restarts, CursorOK
  <2>2. CASE TookPtr(q, m) /\ Raised(r, k, m.ptrRel) /\ fault' = fault
    <3>1. n = m /\ q.buf \in 1 .. m.ptr
      BY <1>6, <1>9, <2>2 DEF TookPtr, Raised, BufferOK, Null
    <3>2. QED
      BY <2>2, <3>1 DEF TookPtr, CursorOK
  <2>3. CASE TookSize(p, q, m) /\ Raised(r, k, m.sizeRel[q.buf]) /\ fault' = fault
    <3>1. q.buf \in 1 .. l.ptr
      BY <1>7, <2>3 DEF TookSize, CursorOK
    <3>2. q.left = m.size[q.buf] /\ m.size[q.buf] <= m.cap[q.buf]
      BY <1>6, <1>10, <2>3, <3>1 DEF TookSize, BufferOK
    <3>3. QED
      BY <1>9, <1>10, <2>3, <3>1, <3>2 DEF TookSize, CursorOK
  <2>4. CASE TookElem(p, q, m) /\ floor'[r] = floor[r] /\ fault' = fault
    BY <1>7, <2>4 DEF TookElem, CursorOK
  <2>5. CASE TookNext(p, q) /\ floor'[r] = floor[r] /\ fault' = fault
    BY <1>7, <2>5 DEF TookNext, CursorOK
  <2>6. CASE Lost(p, m) /\ q = p /\ floor'[r] = floor[r]
    BY <1>7, <1>11, <2>6
  <2>7. QED
    BY <1>1, <1>3, <1>4, <2>1, <2>2, <2>3, <2>4, <2>5, <2>6 DEF ReaderMoves
<1> HIDE DEF l, m, n
<1>13. CursorOK(rd[r], hist[floor[r]])'
  BY <1>4, <1>8, <1>12
<1>14. \A s \in Readers \ {r} : CursorOK(rd[s], hist[floor[s]])'
  BY <1>2 DEF Untouched, TornInv, CursorOK
<1>15. BuffersOK'
  BY <1>2 DEF Untouched, TornInv, BuffersOK
<1>16. OnlyTornIterationsFault'
  BY <1>4, <1>12 DEF OnlyTornIterationsFault, ReadersSafe
<1>17. QED
  BY <1>13, <1>14, <1>15, <1>16 DEF TornInv

LEMMA TornInit ==
  ASSUME Init
  PROVE  TornInv
<1>1. Len(hist) = 1 /\ hist[1] = EmptyMemory
  BY DEF Init, MemoryInit
<1>2. BufferOK(EmptyMemory) /\ Keeps(EmptyMemory, EmptyMemory)
  BY EmptyMemoryType, KeepsReflexive DEF BufferOK, EmptyMemory, Null
<1>3. \A r \in Readers : rd[r].pc = "idle"
  BY DEF Init, IdleReader
<1>4. QED
  BY <1>1, <1>2, <1>3 DEF TornInv, BuffersOK, CursorOK, OnlyTornIterationsFault,
                         ReadersSafe, Init

\* A reader leaves live memory only in a loop whose begin() and end() loaded
\* different buffers (array.hpp:194-207), whatever the writer calls and
\* whichever of its allocations fail.
THEOREM OnlyTornIterationsFaultCorrect ==
  ASSUME IndicesChecked
  PROVE  Spec => []OnlyTornIterationsFault
<1>1. Init => TornInv
  BY TornInit
<1>2. TypeOK /\ WriterOK /\ SizeHasBuffer /\ TornInv /\ [Next]_vars => TornInv'
  <2>1. SUFFICES ASSUME TypeOK, WriterOK, SizeHasBuffer, TornInv, [Next]_vars
                 PROVE  TornInv'
    OBVIOUS
  <2>2. CASE Next
    BY <2>1, <2>2, WriterTornStep, ReaderTornStep DEF Next
  <2>3. CASE UNCHANGED vars
    BY <2>1, <2>3 DEF vars, TornInv, BuffersOK, CursorOK, OnlyTornIterationsFault, ReadersSafe
  <2>4. QED
    BY <2>1, <2>2, <2>3
<1>3. TornInv => OnlyTornIterationsFault
  BY DEF TornInv
<1>4. QED
  BY <1>1, <1>2, <1>3, TypeInit, TypeNext, PTL DEF Spec, TypeInv

-----------------------------------------------------------------------------
(* What a reader finds before the first clear.  An element that is not zero  *)
(* never changes any more, and a buffer that was replaced holds, below its   *)
(* size or above, nothing but zeros and elements of the current one.  An     *)
(* abandoned element would break this: it stays behind in the old buffer,    *)
(* where a torn loop finds it.                                               *)

EveryPrepareCommits == "abandon" \notin WriterOps

ElementsOK(m) ==
  \A b \in 1 .. m.ptr :
    /\ m.size[b] <= Size(m)
    /\ \A i \in Index :
         \/ m.elem[b][i] = Zero
         \/ i < Size(m) /\ m.elem[b][i] = m.elem[m.ptr][i]
         \/ i = Size(m) /\ b = m.ptr

Grows(m, n) ==
  /\ Size(m) <= Size(n)
  /\ \A i \in Index : i < Size(m) => m.elem[m.ptr][i] \in {Zero, n.elem[n.ptr][i]}
  /\ \A b \in 1 .. m.ptr :
       /\ m.sizeRel[b] => n.sizeRel[b]
       /\ ~n.sizeRel[b] => n.size[b] = m.size[b]

Growing ==
  /\ \A k \in 1 .. Len(hist) : ElementsOK(hist[k])
  /\ \A j, k \in 1 .. Len(hist) : j <= k => Grows(hist[j], hist[k])

\* Behind the committed elements there is at most the one the writer filled.
TailZero(m, filled) ==
  m.ptr # Null =>
    \A i \in Index : i > Size(m) \/ (i = Size(m) /\ ~filled) => m.elem[m.ptr][i] = Zero

Filled(u) == u.pc = "commit" /\ u.op = "prepare"

\* push_back has published the element it is about to fill.
PublishedZero(u, m) ==
  u.pc = "fill" /\ u.op = "push_back" =>
    u.idx + 1 = Size(m) /\ m.elem[m.ptr][u.idx] = Zero

Asked(q, m) == q.pc \in {"elem", "done"} => q.left <= Size(m)

Got(q, m) == q.pc = "done" => q.out \in {Zero, m.elem[m.ptr][q.idx]}

GrowingInv ==
  ~Cleared =>
    /\ Growing
    /\ TailZero(Now, Filled(w))
    /\ PublishedZero(w, Now)
    /\ \A r \in Readers : Asked(rd[r], hist[floor[r]]) /\ Got(rd[r], Now)

LEMMA GrowsReflexive ==
  ASSUME NEW m \in Memory
  PROVE  Grows(m, m)
BY MemoryNumbers DEF Grows

LEMMA GrowsTransitive ==
  ASSUME NEW l \in Memory, NEW m \in Memory, NEW n \in Memory,
         Keeps(l, m), Grows(l, m), Grows(m, n)
  PROVE  Grows(l, n)
<1>1. /\ l.ptr \in Nat /\ m.ptr \in Nat
      /\ Size(l) \in Nat /\ Size(m) \in Nat /\ Size(n) \in Nat
  BY MemoryNumbers
<1>2. \A b \in 1 .. l.ptr : b \in 1 .. m.ptr
  BY <1>1 DEF Keeps
<1>3. Size(l) <= Size(n)
  BY <1>1 DEF Grows
<1>4. ASSUME NEW i \in Index, i < Size(l)
      PROVE  l.elem[l.ptr][i] \in {Zero, n.elem[n.ptr][i]}
  <2>1. i < Size(m)
    BY <1>1, <1>4 DEF Grows, Index
  <2>2. QED
    BY <1>4, <2>1 DEF Grows
<1>5. ASSUME NEW b \in 1 .. l.ptr
      PROVE  /\ l.sizeRel[b] => n.sizeRel[b]
             /\ ~n.sizeRel[b] => n.size[b] = l.size[b]
  BY <1>2 DEF Grows
<1>6. QED
  BY <1>3, <1>4, <1>5 DEF Grows

\* A store that clears nothing.
LEMMA NotCleared ==
  ASSUME TypeOK, NEW m \in Memory, Store(m) \/ StoreIfChanged(m), ~Cleared'
  PROVE  ~Cleared /\ Size(Now) <= Size(m)
<1>1. Now \in Memory /\ Len(hist) \in Nat \ {0} /\ Now = hist[Len(hist)]
  BY NowType DEF TypeOK, Now
<1>2. /\ Len(hist') \in {Len(hist), Len(hist) + 1}
      /\ \A k \in 1 .. Len(hist) : hist'[k] = hist[k]
      /\ hist'[Len(hist')] = m
  BY StoreHistory DEF TypeOK
<1>3. \A k \in 2 .. Len(hist') : ~(Size(hist'[k]) < Size(hist'[k - 1]))
  BY DEF Cleared, Size
<1>4. ~Cleared
  <2>1. SUFFICES ASSUME NEW k \in 2 .. Len(hist), Size(hist[k]) < Size(hist[k - 1])
                 PROVE  FALSE
    BY DEF Cleared
  <2>2. k \in 2 .. Len(hist') /\ k \in 1 .. Len(hist) /\ k - 1 \in 1 .. Len(hist)
    BY <1>1, <1>2
  <2>3. QED
    BY <1>2, <1>3, <2>1, <2>2
<1>5. Size(Now) \in Nat /\ Size(m) \in Nat
  BY <1>1, MemoryNumbers
<1>6. CASE Len(hist') = Len(hist)
  <2>1. m = Now
    BY <1>1, <1>2, <1>6
  <2>2. QED
    BY <1>4, <1>5, <2>1
<1>7. CASE Len(hist') = Len(hist) + 1
  <2>1. Len(hist') \in 2 .. Len(hist') /\ Len(hist') - 1 = Len(hist)
    BY <1>1, <1>7
  <2>2. ~(Size(m) < Size(Now))
    BY <1>1, <1>2, <1>3, <2>1
  <2>3. QED
    BY <1>4, <1>5, <2>2
<1>8. QED
  BY <1>2, <1>6, <1>7

\* A store that grows the sequence keeps what the readers know.
LEMMA GrowingStep ==
  ASSUME TypeOK, TornInv, GrowingInv, ~Cleared, rd' = rd,
         NEW m \in Memory, Store(m) \/ StoreIfChanged(m),
         ElementsOK(m), Grows(Now, m), TailZero(m, Filled(w')), PublishedZero(w', m)
  PROVE  GrowingInv'
<1>1. Now \in Memory /\ Len(hist) \in Nat \ {0} /\ Now = hist[Len(hist)]
  BY NowType DEF TypeOK, Now
<1>2. /\ Len(hist') \in {Len(hist), Len(hist) + 1} /\ floor' = floor /\ Now' = m
      /\ \A k \in 1 .. Len(hist) : hist'[k] = hist[k]
      /\ hist'[Len(hist')] = m
  BY StoreHistory DEF TypeOK
<1>3. \A k \in 1 .. Len(hist) : /\ hist[k] \in Memory
                                /\ Keeps(hist[k], Now) /\ Grows(hist[k], Now)
  BY <1>1 DEF TornInv, BuffersOK, GrowingInv, Growing, TypeOK
<1>4. \A k \in 1 .. Len(hist) : Grows(hist[k], m)
  BY <1>1, <1>3, GrowsTransitive
<1>5. \A k \in 1 .. Len(hist') : k \in 1 .. Len(hist) \/ (k = Len(hist') /\ hist'[k] = m)
  BY <1>1, <1>2
<1>6. \A k \in 1 .. Len(hist') : ElementsOK(hist'[k])
  BY <1>2, <1>5 DEF GrowingInv, Growing
<1>7. ASSUME NEW j \in 1 .. Len(hist'), NEW k \in 1 .. Len(hist'), j <= k
      PROVE  Grows(hist'[j], hist'[k])
  <2>1. CASE k \in 1 .. Len(hist)
    <3>1. j \in 1 .. Len(hist)
      BY <1>1, <1>7, <2>1
    <3>2. QED
      BY <1>2, <1>7, <2>1, <3>1 DEF GrowingInv, Growing
  <2>2. CASE hist'[k] = m
    BY <1>2, <1>4, <1>5, <2>2, GrowsReflexive
  <2>3. QED
    BY <1>5, <2>1, <2>2
<1>8. Growing'
  BY <1>6, <1>7 DEF Growing, ElementsOK, Grows, Size
<1>9. ASSUME NEW r \in Readers
      PROVE  Asked(rd[r], hist[floor[r]])' /\ Got(rd[r], Now)'
  <2>1. PICK q \in Reader : q = rd[r]
    BY DEF TypeOK
  <2>2. rd'[r] = q
    BY <2>1
  <2>3. floor[r] \in 1 .. Len(hist)
    BY DEF TypeOK
  <2> DEFINE l == hist[floor[r]]
  <2>4. hist'[floor'[r]] = l /\ l \in Memory /\ Grows(l, Now)
    BY <1>2, <1>3, <2>3
  <2>5. /\ Asked(q, l) /\ Got(q, Now) /\ CursorOK(q, l)
    BY <2>1 DEF GrowingInv, TornInv
  <2>6. Got(q, m)
    <3>1. SUFFICES ASSUME q.pc = "done"
                   PROVE  q.out \in {Zero, m.elem[m.ptr][q.idx]}
      BY DEF Got
    <3>2. q.idx < q.left /\ q.left <= Size(l) /\ Size(l) <= Size(Now)
      BY <2>4, <2>5, <3>1 DEF CursorOK, Asked, Grows
    <3>3. q.idx \in Nat /\ q.left \in 0 .. MaxCap /\ MaxCap \in Nat
      BY ConstantsAssumption DEF Reader
    <3>4. Size(l) \in Nat /\ Size(Now) \in Nat
      BY <1>1, <2>4, MemoryNumbers
    <3>5. q.idx \in Index /\ q.idx < Size(Now)
      BY <3>2, <3>3, <3>4 DEF Index
    <3>6. Now.elem[Now.ptr][q.idx] \in {Zero, m.elem[m.ptr][q.idx]}
      BY <3>5 DEF Grows
    <3>7. QED
      BY <2>5, <3>1, <3>6 DEF Got
  <2> HIDE DEF l
  <2>7. QED
    BY <1>2, <2>2, <2>4, <2>5, <2>6
<1>10. TailZero(Now, Filled(w))' /\ PublishedZero(w, Now)'
  BY <1>2 DEF TailZero, PublishedZero, Filled, Size
<1>11. QED
  BY <1>8, <1>9, <1>10 DEF GrowingInv

\* The four kinds of store.
LEMMA GrownGrows ==
  ASSUME NEW m \in Memory, ElementsOK(m), TailZero(m, FALSE), m.ptr < MaxBufs,
         NEW c \in 0 .. MaxCap
  PROVE  /\ ElementsOK(Grown(m, c)) /\ Grows(m, Grown(m, c))
         /\ TailZero(Grown(m, c), FALSE)
<1> DEFINE g == Grown(m, c)
           f == m.ptr + 1
<1>1. g \in Memory /\ Size(g) = Size(m) /\ Size(m) \in Nat /\ m.ptr \in Nat
  BY GrownType, GrownSize, MemoryNumbers
<1>2. /\ g.ptr = f /\ g.size[f] = Size(m)
      /\ \A i \in Index : g.elem[f][i] = IF i < Size(m) THEN m.elem[m.ptr][i] ELSE Zero
      /\ \A b \in 1 .. m.ptr :
           /\ b # f /\ g.size[b] = m.size[b]
           /\ g.sizeRel[b] = m.sizeRel[b] /\ g.elem[b] = m.elem[b]
  BY GrownFields
<1>3. \A b \in 1 .. f : b = f \/ b \in 1 .. m.ptr
  BY <1>1
<1> HIDE DEF g, f
<1>4. ASSUME NEW b \in 1 .. m.ptr, NEW i \in Index
      PROVE  m.elem[b][i] = Zero \/ (i < Size(m) /\ m.elem[b][i] = m.elem[m.ptr][i])
  <2>1. CASE i = Size(m) /\ b = m.ptr
    <3>1. m.ptr # Null
      BY <1>1, <1>4, <2>1 DEF Null
    <3>2. QED
      BY <1>1, <2>1, <3>1 DEF TailZero
  <2>2. CASE ~(i = Size(m) /\ b = m.ptr)
    BY <2>2 DEF ElementsOK
  <2>3. QED
    BY <2>1, <2>2
<1>5. ASSUME NEW b \in 1 .. g.ptr
      PROVE  /\ g.size[b] <= Size(g)
             /\ \A i \in Index :
                  g.elem[b][i] = Zero \/ (i < Size(g) /\ g.elem[b][i] = g.elem[g.ptr][i])
  <2>1. CASE b = f
    BY <1>1, <1>2, <2>1
  <2>2. CASE b \in 1 .. m.ptr
    <3>1. m.size[b] <= Size(m)
      BY <2>2 DEF ElementsOK
    <3>2. QED
      BY <1>1, <1>2, <1>4, <2>2, <3>1
  <2>3. QED
    BY <1>2, <1>3, <2>1, <2>2
<1>6. ElementsOK(g)
  BY <1>5 DEF ElementsOK
<1>7. Grows(m, g)
  BY <1>1, <1>2 DEF Grows
<1>8. TailZero(g, FALSE)
  BY <1>1, <1>2 DEF TailZero, Index
<1>9. QED
  BY <1>6, <1>7, <1>8 DEF g

\* The element behind the last is written: zeroed, or filled.
LEMMA TailWriteGrows ==
  ASSUME NEW m \in Memory, ElementsOK(m), TailZero(m, FALSE), m.ptr # Null,
         NEW i \in Index, i = Size(m), NEW v \in Elems
  PROVE  LET s == SetElem(m, m.ptr, i, v) IN
         /\ ElementsOK(s) /\ Grows(m, s) /\ Size(s) = Size(m)
         /\ TailZero(s, TRUE) /\ (v = Zero => TailZero(s, FALSE))
<1> DEFINE s == SetElem(m, m.ptr, i, v)
<1>1. /\ s.ptr = m.ptr /\ s.size = m.size /\ s.sizeRel = m.sizeRel
      /\ s.elem[m.ptr][i] = v
      /\ \A b \in Bufs, j \in Index : b # m.ptr \/ j # i => s.elem[b][j] = m.elem[b][j]
  BY SetElemFields
<1>2. /\ Size(m) \in Nat /\ m.ptr \in Bufs
      /\ \A b \in 1 .. m.ptr : b \in Bufs
  BY MemoryNumbers, MemoryFacts
<1> HIDE DEF s
<1>3. Size(s) = Size(m)
  BY <1>1 DEF Size
<1>4. ASSUME NEW b \in 1 .. m.ptr, NEW j \in Index
      PROVE  \/ s.elem[b][j] = Zero
             \/ j < Size(m) /\ s.elem[b][j] = s.elem[m.ptr][j]
             \/ j = Size(m) /\ b = m.ptr
  <2>1. CASE b = m.ptr /\ j = i
    BY <2>1
  <2>2. CASE ~(b = m.ptr /\ j = i)
    <3>1. s.elem[b][j] = m.elem[b][j] /\ (j < Size(m) => s.elem[m.ptr][j] = m.elem[m.ptr][j])
      BY <1>1, <1>2, <2>2
    <3>2. QED
      BY <3>1 DEF ElementsOK
  <2>3. QED
    BY <2>1, <2>2
<1>5. ElementsOK(s)
  BY <1>1, <1>3, <1>4 DEF ElementsOK
<1>6. Grows(m, s)
  BY <1>1, <1>2, <1>3 DEF Grows
<1>7. TailZero(s, TRUE) /\ (v = Zero => TailZero(s, FALSE))
  BY <1>1, <1>2, <1>3 DEF TailZero, Index
<1>8. QED
  BY <1>3, <1>5, <1>6, <1>7 DEF s

\* push_back fills the zero it has published.
LEMMA LateFillGrows ==
  ASSUME NEW m \in Memory, ElementsOK(m), TailZero(m, FALSE), m.ptr # Null,
         NEW i \in Index, i < Size(m), m.elem[m.ptr][i] = Zero, NEW v \in Elems
  PROVE  LET s == SetElem(m, m.ptr, i, v) IN
         ElementsOK(s) /\ Grows(m, s) /\ TailZero(s, FALSE)
<1> DEFINE s == SetElem(m, m.ptr, i, v)
<1>1. /\ s.ptr = m.ptr /\ s.size = m.size /\ s.sizeRel = m.sizeRel
      /\ s.elem[m.ptr][i] = v
      /\ \A b \in Bufs, j \in Index : b # m.ptr \/ j # i => s.elem[b][j] = m.elem[b][j]
  BY SetElemFields
<1>2. /\ Size(m) \in Nat /\ m.ptr \in Bufs
      /\ \A b \in 1 .. m.ptr : b \in Bufs
  BY MemoryNumbers, MemoryFacts
<1> HIDE DEF s
<1>3. Size(s) = Size(m)
  BY <1>1 DEF Size
<1>4. ASSUME NEW b \in 1 .. m.ptr, NEW j \in Index
      PROVE  \/ s.elem[b][j] = Zero
             \/ j < Size(m) /\ s.elem[b][j] = s.elem[m.ptr][j]
             \/ j = Size(m) /\ b = m.ptr
  <2>1. CASE j # i
    <3>1. s.elem[b][j] = m.elem[b][j] /\ s.elem[m.ptr][j] = m.elem[m.ptr][j]
      BY <1>1, <1>2, <2>1
    <3>2. QED
      BY <3>1 DEF ElementsOK
  <2>2. CASE j = i /\ b # m.ptr
    <3>1. s.elem[b][j] = m.elem[b][j]
      BY <1>1, <1>2, <2>2
    <3>2. m.elem[b][j] = Zero
      BY <2>2 DEF ElementsOK
    <3>3. QED
      BY <3>1, <3>2
  <2>3. CASE j = i /\ b = m.ptr
    BY <2>3
  <2>4. QED
    BY <2>1, <2>2, <2>3
<1>5. ElementsOK(s)
  BY <1>1, <1>3, <1>4 DEF ElementsOK
<1>6. Grows(m, s)
  BY <1>1, <1>2, <1>3 DEF Grows
<1>7. TailZero(s, FALSE)
  BY <1>1, <1>2, <1>3 DEF TailZero, Index
<1>8. QED
  BY <1>5, <1>6, <1>7 DEF s

\* The size goes up by one, or is stored as it is.
LEMMA SizedGrows ==
  ASSUME NEW m \in Memory, ElementsOK(m), m.ptr # Null,
         NEW n \in {Size(m), Size(m) + 1}
  PROVE  LET s == Sized(m, n, Release) IN
         /\ ElementsOK(s) /\ Grows(m, s) /\ Size(s) = n /\ s.elem = m.elem /\ s.ptr = m.ptr
         /\ n = Size(m) + 1 /\ TailZero(m, TRUE) => TailZero(s, FALSE)
         /\ TailZero(m, FALSE) => TailZero(s, FALSE)
<1> DEFINE s == Sized(m, n, Release)
<1>1. /\ Size(m) \in Nat /\ n \in Nat /\ Size(m) = m.size[m.ptr]
      /\ \A b \in 1 .. m.ptr : b \in Bufs /\ m.size[b] \in Nat
  BY MemoryNumbers DEF Size
<1>2. /\ s.ptr = m.ptr /\ s.elem = m.elem /\ s.size[m.ptr] = n /\ s.sizeRel[m.ptr]
      /\ \A b \in Bufs : b # m.ptr => s.size[b] = m.size[b] /\ s.sizeRel[b] = m.sizeRel[b]
  BY <1>1, SizedFields
<1> HIDE DEF s
<1>3. Size(s) = n
  BY <1>2 DEF Size
<1>4. ASSUME NEW b \in 1 .. m.ptr
      PROVE  s.size[b] <= n
  BY <1>1, <1>2 DEF ElementsOK
<1>5. ASSUME NEW b \in 1 .. m.ptr, NEW i \in Index
      PROVE  \/ m.elem[b][i] = Zero
             \/ i < n /\ m.elem[b][i] = m.elem[m.ptr][i]
             \/ i = n /\ b = m.ptr
  <2>1. i \in Int
    BY DEF Index
  <2>2. QED
    BY <1>1, <2>1 DEF ElementsOK
<1>6. ElementsOK(s)
  BY <1>2, <1>3, <1>4, <1>5 DEF ElementsOK
<1>7. Grows(m, s)
  BY <1>1, <1>2, <1>3 DEF Grows
<1>8. /\ n = Size(m) + 1 /\ TailZero(m, TRUE) => TailZero(s, FALSE)
      /\ TailZero(m, FALSE) => TailZero(s, FALSE)
  BY <1>1, <1>2, <1>3 DEF TailZero, Index
<1>9. QED
  BY <1>2, <1>3, <1>6, <1>7, <1>8 DEF s

LEMMA WriterGrowingStep ==
  ASSUME EveryPrepareCommits, TypeOK, WriterOK, TornInv, GrowingInv, WriterNext
  PROVE  GrowingInv'
<1>1. Now \in Memory /\ Len(hist) \in Nat \ {0} /\ Now = hist[Len(hist)]
  BY NowType DEF TypeOK, Now
<1>2. rd' = rd
  BY WriterTypeStep
<1>3. /\ Size(Now) \in 0 .. MaxCap /\ Cap(Now) \in 0 .. MaxCap
      /\ MaxCap \in Nat /\ w \in Writer /\ w.idx \in Nat
  BY <1>1, SizeType, ConstantsAssumption DEF TypeOK, Writer
<1>4. ASSUME ~Cleared
      PROVE  /\ ElementsOK(Now) /\ TailZero(Now, Filled(w)) /\ PublishedZero(w, Now)
  BY <1>1, <1>4 DEF GrowingInv, Growing
<1>5. ASSUME UNCHANGED memoryVars, Filled(w') = Filled(w), w'.pc # "fill" \/ w' = w
      PROVE  GrowingInv'
  <2>1. Now' = Now /\ Cleared' = Cleared
    BY <1>5 DEF memoryVars, Now, Cleared, Size
  <2>2. hist' = hist /\ floor' = floor
    BY <1>5 DEF memoryVars
  <2>3. Growing' = Growing
    BY <2>2 DEF Growing
  <2>4. ASSUME ~Cleared
        PROVE  PublishedZero(w', Now)
    BY <1>4, <1>5, <2>4 DEF PublishedZero
  <2>5. QED
    BY <1>2, <1>4, <1>5, <2>1, <2>2, <2>3, <2>4
    DEF GrowingInv, TailZero, PublishedZero, Filled, Asked, Got, Size
<1>6. ASSUME NEW m \in Memory, Store(m) \/ StoreIfChanged(m),
             ~Cleared => /\ ElementsOK(m) /\ Grows(Now, m)
                         /\ TailZero(m, Filled(w')) /\ PublishedZero(w', m)
      PROVE  GrowingInv'
  <2>1. CASE Cleared'
    BY <2>1 DEF GrowingInv
  <2>2. CASE ~Cleared'
    BY <1>2, <1>6, <2>2, NotCleared, GrowingStep
  <2>3. QED
    BY <2>1, <2>2
\* An outcome of reserve or prepare_push.
<1>7. ASSUME NEW m, StoreIfChanged(m), w.pc = "idle", w'.pc \in {"idle", "zero"},
             \/ m \in PrepareOutcomes
             \/ \E c \in 0 .. MaxCap : m \in ReserveOutcomes(c)
      PROVE  GrowingInv'
  <2>1. ~Filled(w) /\ ~Filled(w') /\ w'.pc # "fill"
    BY <1>7 DEF Filled
  <2>2. m \in Memory
    BY <1>7, OutcomeType
  <2>3. ASSUME ~Cleared
        PROVE  ElementsOK(m) /\ Grows(Now, m) /\ TailZero(m, FALSE)
    <3>1. ElementsOK(Now) /\ TailZero(Now, FALSE)
      BY <1>4, <2>1, <2>3 DEF TailZero
    <3>2. CASE m = Now
      BY <1>1, <3>1, <3>2, GrowsReflexive
    <3>3. CASE \E c \in 0 .. MaxCap : Cap(Now) < c /\ Now.ptr < MaxBufs /\ m = Grown(Now, c)
      BY <1>1, <3>1, <3>3, GrownGrows
    <3>4. QED
      BY <1>7, <3>2, <3>3, OutcomeCases
  <2>4. ~Cleared => TailZero(m, Filled(w')) /\ PublishedZero(w', m)
    BY <2>1, <2>3 DEF TailZero, PublishedZero
  <2>5. QED
    BY <1>6, <1>7, <2>2, <2>3, <2>4
<1>8. ASSUME NEW op \in WriterOps \cap {"prepare", "push_back"}, NEW v \in Values,
             PreparePush(op, v)
      PROVE  GrowingInv'
  <2>1. PICK m \in PrepareOutcomes :
          /\ StoreIfChanged(m)
          /\ IF m.ptr = Null
             THEN UNCHANGED w
             ELSE w' = [pc |-> "zero", op |-> op, buf |-> m.ptr,
                        idx |-> Size(Now), val |-> v]
    BY <1>8 DEF PreparePush
  <2>2. w.pc = "idle" /\ w'.pc \in {"idle", "zero"}
    BY <1>8, <2>1 DEF PreparePush
  <2>3. QED
    BY <1>7, <2>1, <2>2
<1>9. ASSUME NEW c \in 0 .. MaxCap, Reserve(c)
      PROVE  GrowingInv'
  BY <1>7, <1>9 DEF Reserve
<1>10. CASE Clear
  <2> DEFINE m == Sized(Now, 0, Release)
  <2>1. m \in Memory /\ Store(m) /\ Now.ptr # Null /\ w' = w /\ w.pc = "idle"
    BY <1>1, <1>10, SizedType, ConstantsAssumption DEF Clear, ClearOrder
  <2>2. CASE Cleared'
    BY <2>2 DEF GrowingInv
  <2>3. CASE ~Cleared'
    <3>1. ~Cleared /\ Size(Now) <= Size(m)
      BY <2>1, <2>3, NotCleared
    <3>2. m.ptr = Now.ptr /\ m.size[Now.ptr] = 0
      BY <1>1, <2>1, SizedFields
    <3>3. Size(Now) = 0
      BY <1>3, <2>1, <3>1, <3>2 DEF Size
    <3>4. TailZero(Now, FALSE) /\ ~Filled(w') /\ PublishedZero(w', m)
      BY <1>4, <2>1, <3>1 DEF TailZero, Filled, PublishedZero
    <3>5. ElementsOK(m) /\ Grows(Now, m) /\ TailZero(m, FALSE)
      BY <1>1, <1>4, <2>1, <3>1, <3>3, <3>4, SizedGrows
    <3>6. TailZero(m, Filled(w'))
      BY <3>4, <3>5 DEF TailZero
    <3> HIDE DEF m
    <3>7. QED
      BY <1>6, <2>1, <3>4, <3>5, <3>6
  <2>4. QED
    BY <2>2, <2>3
<1>11. CASE ZeroElem
  <2>1. CASE w.idx < Now.cap[w.buf]
    <3> DEFINE m == SetElem(Now, Now.ptr, w.idx, Zero)
    <3>1. /\ w.buf = Now.ptr /\ Now.ptr # Null /\ w.idx \in Index /\ w.idx = Size(Now)
      BY <1>1, <1>11, <2>1, ConstantsAssumption
      DEF TypeOK, WriterOK, ZeroElem, Writer, Memory, Index
    <3>2. /\ StoreIfChanged(m)
          /\ w' = [w EXCEPT !.pc = IF w.op = "push_back" THEN "commit" ELSE "fill"]
      BY <1>11, <2>1, <3>1 DEF ZeroElem
    <3>3. m \in Memory /\ Zero \in Elems
      BY <1>1, <3>1, SetElemType, MemoryFacts DEF Elems
    <3>4. ~Filled(w) /\ ~Filled(w') /\ (w'.pc = "fill" => w'.op # "push_back")
      BY <1>3, <1>11, <3>2 DEF ZeroElem, Filled, Writer
    <3>5. ASSUME ~Cleared
          PROVE  ElementsOK(m) /\ Grows(Now, m) /\ TailZero(m, FALSE)
      <4>1. ElementsOK(Now) /\ TailZero(Now, FALSE)
        BY <1>4, <3>4, <3>5 DEF TailZero
      <4>2. QED
        BY <1>1, <3>1, <3>3, <4>1, TailWriteGrows
    <3>6. ~Cleared => TailZero(m, Filled(w')) /\ PublishedZero(w', m)
      BY <3>4, <3>5 DEF TailZero, PublishedZero
    <3> HIDE DEF m
    <3>7. QED
      BY <1>6, <3>2, <3>3, <3>5, <3>6
  <2>2. CASE ~(w.idx < Now.cap[w.buf])
    <3>1. UNCHANGED memoryVars /\ w' = w
      BY <1>11, <2>2 DEF ZeroElem
    <3>2. QED
      BY <1>5, <3>1 DEF Filled
  <2>3. QED
    BY <2>1, <2>2
<1>12. CASE Fill
  <2> DEFINE m == SetElem(Now, Now.ptr, w.idx, w.val)
  <2>1. /\ w.buf = Now.ptr /\ Now.ptr # Null /\ w.idx \in Index /\ w.val \in Elems
        /\ w.pc = "fill" /\ w.op \in {"prepare", "push_back"}
        /\ w.op = "prepare" => w.idx = Size(Now)
    BY <1>1, <1>12, ConstantsAssumption
    DEF TypeOK, WriterOK, Fill, Writer, Memory, Index
  <2>2. /\ StoreIfChanged(m)
        /\ w' = IF w.op = "push_back" THEN IdleWriter ELSE [w EXCEPT !.pc = "commit"]
    BY <1>12, <2>1 DEF Fill
  <2>3. m \in Memory
    BY <1>1, <2>1, SetElemType, MemoryFacts
  <2>4. ~Filled(w) /\ w'.pc # "fill" /\ (Filled(w') <=> w.op = "prepare")
    BY <1>3, <2>1, <2>2 DEF Filled, IdleWriter, Writer
  <2>5. ASSUME ~Cleared
        PROVE  ElementsOK(m) /\ Grows(Now, m) /\ TailZero(m, Filled(w'))
    <3>1. ElementsOK(Now) /\ TailZero(Now, FALSE) /\ PublishedZero(w, Now)
      BY <1>4, <2>4, <2>5 DEF TailZero
    <3>2. CASE w.op = "prepare"
      <4>1. ElementsOK(m) /\ Grows(Now, m) /\ TailZero(m, TRUE)
        BY <1>1, <2>1, <3>1, <3>2, TailWriteGrows
      <4>2. QED
        BY <2>4, <3>2, <4>1 DEF TailZero
    <3>3. CASE w.op = "push_back"
      <4>1. w.idx < Size(Now) /\ Now.elem[Now.ptr][w.idx] = Zero
        BY <1>3, <2>1, <3>1, <3>3 DEF PublishedZero
      <4>2. ElementsOK(m) /\ Grows(Now, m) /\ TailZero(m, FALSE)
        BY <1>1, <2>1, <3>1, <4>1, LateFillGrows
      <4>3. QED
        BY <2>4, <3>3, <4>2 DEF TailZero
    <3>4. QED
      BY <2>1, <3>2, <3>3
  <2>6. PublishedZero(w', m)
    BY <2>4 DEF PublishedZero
  <2> HIDE DEF m
  <2>7. QED
    BY <1>6, <2>2, <2>3, <2>5, <2>6
<1>13. CASE CommitPush
  <2> DEFINE n == Size(Now) + 1
             m == Sized(Now, n, Release)
  <2>1. /\ w.buf = Now.ptr /\ Now.ptr # Null /\ w.idx = Size(Now) /\ w.idx < Cap(Now)
        /\ w.pc = "commit" /\ w.op \in {"prepare", "push_back"}
    BY <1>13 DEF TypeOK, WriterOK, CommitPush, Writer, Cap
  <2>2. n % U32 = n /\ n \in 0 .. MaxCap /\ Size(Now) \in Index
    BY <1>3, <2>1, ConstantsAssumption DEF Index
  <2>3. m \in Memory
    BY <1>1, <2>1, <2>2, SizedType
  <2>4. /\ Store(m)
        /\ w' = IF w.op = "push_back" THEN [w EXCEPT !.pc = "fill"] ELSE IdleWriter
    BY <1>13, <2>2 DEF CommitPush, CommitOrder
  <2>5. ~Filled(w') /\ (Filled(w) <=> w.op = "prepare")
    BY <1>3, <2>1, <2>4 DEF Filled, IdleWriter, Writer
  <2>6. ASSUME ~Cleared
        PROVE  /\ ElementsOK(m) /\ Grows(Now, m) /\ TailZero(m, Filled(w'))
               /\ PublishedZero(w', m)
    <3>1. ElementsOK(Now) /\ TailZero(Now, Filled(w))
      BY <1>4, <2>6
    <3>2. TailZero(Now, TRUE)
      BY <3>1 DEF TailZero
    <3>3. /\ ElementsOK(m) /\ Grows(Now, m) /\ TailZero(m, FALSE)
          /\ Size(m) = n /\ m.elem = Now.elem /\ m.ptr = Now.ptr
      BY <1>1, <2>1, <3>1, <3>2, SizedGrows
    <3>4. PublishedZero(w', m)
      <4>1. CASE w.op = "push_back"
        <5>1. Now.elem[Now.ptr][w.idx] = Zero
          BY <2>1, <2>2, <2>5, <3>1, <4>1 DEF TailZero
        <5>2. w'.idx = w.idx
          BY <1>3, <2>4, <4>1 DEF Writer
        <5>3. QED
          BY <2>1, <3>3, <5>1, <5>2 DEF PublishedZero
      <4>2. CASE w.op # "push_back"
        BY <2>4, <4>2 DEF PublishedZero, IdleWriter
      <4>3. QED
        BY <4>1, <4>2
    <3>5. TailZero(m, Filled(w'))
      BY <2>5, <3>3 DEF TailZero
    <3>6. QED
      BY <3>3, <3>4, <3>5
  <2> HIDE DEF m
  <2>7. QED
    BY <1>6, <2>3, <2>4, <2>6
<1>14. ~("abandon" \in WriterOps /\ Abandon)
  BY DEF EveryPrepareCommits
<1>15. QED
  BY <1>8, <1>9, <1>10, <1>11, <1>12, <1>13, <1>14 DEF WriterNext

LEMMA ReaderGrowingStep ==
  ASSUME IndicesChecked, TypeOK, SizeHasBuffer, TornInv, GrowingInv,
         NEW r \in Readers, ReaderNext(r)
  PROVE  GrowingInv'
<1>1. PICK k \in Visible(r) : ReaderMoves(r, k)
  BY ReaderStep
<1>2. Untouched(r)
  BY ReaderStep
<1>3. hist' = hist /\ Now' = Now /\ Cleared' = Cleared
  BY <1>2 DEF Untouched, Now, Cleared, Size
<1>4. SUFFICES ASSUME ~Cleared
               PROVE  GrowingInv'
  BY <1>3 DEF GrowingInv
<1>5. PICK p \in Reader : p = rd[r]
  BY DEF TypeOK
<1>6. PICK q \in Reader : q = rd'[r]
  BY <1>2 DEF Untouched
<1>7. /\ floor[r] \in 1 .. Len(hist) /\ k \in 1 .. Len(hist) /\ floor[r] <= k
      /\ Len(hist) \in 1 .. Len(hist) /\ k <= Len(hist)
  BY NowType DEF TypeOK, Visible
<1> DEFINE l == hist[floor[r]]
           n == hist[floor'[r]]
           m == hist[k]
<1>8. /\ l \in Memory /\ m \in Memory /\ Now \in Memory /\ ElementsOK(m) /\ ElementsOK(l)
      /\ Keeps(l, m) /\ Grows(l, m) /\ Grows(m, Now)
  BY <1>4, <1>7 DEF TypeOK, TornInv, BuffersOK, GrowingInv, Growing, Now
<1>9. CursorOK(p, l) /\ Asked(p, l) /\ Got(p, Now)
  BY <1>4, <1>5 DEF TornInv, GrowingInv
<1>10. /\ p.idx \in Nat /\ p.left \in 0 .. MaxCap /\ MaxCap \in Nat
       /\ Size(l) \in Nat /\ Size(m) \in Nat
       /\ l.ptr \in Nat /\ m.ptr \in Nat
       /\ \A b \in 1 .. l.ptr : l.size[b] \in Nat
       /\ \A b \in 1 .. m.ptr : m.size[b] \in Nat
  <2>1. p.idx \in Nat /\ p.left \in 0 .. MaxCap /\ MaxCap \in Nat
    BY ConstantsAssumption DEF Reader
  <2> HIDE DEF l, m
  <2>2. QED
    BY <1>8, <2>1, MemoryNumbers
<1>11. Asked(q, n) /\ Got(q, Now)
  <2>1. CASE Restarts(q)
    BY <2>1 DEF Restarts, Asked, Got
  <2>2. CASE TookPtr(q, m)
    BY <2>2 DEF TookPtr, Asked, Got
  <2>3. CASE TookSize(p, q, m) /\ Raised(r, k, m.sizeRel[q.buf])
    <3>1. q.buf \in 1 .. l.ptr /\ q.buf \in 1 .. m.ptr /\ q.left = m.size[q.buf]
      BY <1>8, <1>9, <1>10, <2>3 DEF TookSize, CursorOK, Keeps
    <3>2. CASE m.sizeRel[q.buf]
      <4>1. n = m /\ m.size[q.buf] <= Size(m)
        BY <1>8, <2>3, <3>1, <3>2 DEF Raised, ElementsOK
      <4>2. QED
        BY <2>3, <3>1, <4>1 DEF TookSize, Asked, Got
    <3>3. CASE ~m.sizeRel[q.buf]
      <4>1. n = l /\ m.size[q.buf] = l.size[q.buf] /\ l.size[q.buf] <= Size(l)
        BY <1>8, <2>3, <3>1, <3>3 DEF Raised, ElementsOK, Grows
      <4>2. QED
        BY <2>3, <3>1, <4>1 DEF TookSize, Asked, Got
    <3>4. QED
      BY <3>2, <3>3
  <2>4. CASE TookElem(p, q, m) /\ floor'[r] = floor[r]
    <3>1. p.idx < p.left /\ p.left <= Size(l) /\ Size(l) <= Size(m)
      BY <1>8, <1>9, <2>4 DEF TookElem, CursorOK, Asked, Grows
    <3>2. p.idx \in Index /\ p.idx < Size(m)
      BY <1>10, <3>1 DEF Index
    <3>3. Source(p) \in 1 .. m.ptr /\ q.out = m.elem[Source(p)][p.idx] /\ q.idx = p.idx
      BY <2>4 DEF TookElem
    <3>4. q.out = Zero \/ q.out = m.elem[m.ptr][p.idx]
      BY <1>8, <1>10, <3>2, <3>3 DEF ElementsOK
    <3>5. m.elem[m.ptr][p.idx] \in {Zero, Now.elem[Now.ptr][p.idx]}
      BY <1>8, <3>2 DEF Grows
    <3>6. Got(q, Now)
      BY <3>3, <3>4, <3>5 DEF Got
    <3>7. Asked(q, n)
      BY <1>9, <2>4 DEF TookElem, Asked
    <3>8. QED
      BY <3>6, <3>7
  <2>5. CASE TookNext(p, q) /\ floor'[r] = floor[r]
    BY <1>9, <2>5 DEF TookNext, Asked, Got
  <2>6. CASE q = p /\ floor'[r] = floor[r]
    BY <1>9, <2>6
  <2>7. QED
    BY <1>1, <1>5, <1>6, <2>1, <2>2, <2>3, <2>4, <2>5, <2>6 DEF ReaderMoves
<1> HIDE DEF l, n, m
<1>12. Asked(rd[r], hist[floor[r]])' /\ Got(rd[r], Now)'
  <2>1. rd'[r] = q /\ hist'[floor'[r]] = n
    BY <1>3, <1>6 DEF n
  <2>2. QED
    BY <1>3, <1>11, <2>1
<1>13. \A s \in Readers \ {r} : Asked(rd[s], hist[floor[s]])' /\ Got(rd[s], Now)'
  BY <1>2, <1>3, <1>4 DEF Untouched, GrowingInv, Asked, Got, Size
<1>14. Growing' /\ TailZero(Now, Filled(w))' /\ PublishedZero(w, Now)'
  <2>1. hist' = hist /\ w' = w /\ Now' = Now
    BY <1>2, <1>3, <1>4 DEF Untouched
  <2>2. Growing' <=> Growing
    BY <2>1 DEF Growing
  <2>3. TailZero(Now, Filled(w))' <=> TailZero(Now, Filled(w))
    BY <2>1 DEF TailZero, Filled, Size
  <2>4. PublishedZero(w, Now)' <=> PublishedZero(w, Now)
    BY <2>1 DEF PublishedZero, Size
  <2>5. QED
    BY <1>2, <1>3, <1>4, <2>2, <2>3, <2>4 DEF GrowingInv
<1>15. QED
  BY <1>12, <1>13, <1>14 DEF GrowingInv

LEMMA GrowingInit ==
  ASSUME Init
  PROVE  GrowingInv
<1>1. Len(hist) = 1 /\ hist[1] = EmptyMemory /\ Now = EmptyMemory
  BY DEF Init, MemoryInit, Now
<1>2. EmptyMemory.ptr = Null
  BY DEF EmptyMemory
<1>3. ElementsOK(EmptyMemory) /\ Grows(EmptyMemory, EmptyMemory)
  BY <1>2, EmptyMemoryType, GrowsReflexive DEF ElementsOK, Null
<1>4. TailZero(Now, Filled(w)) /\ PublishedZero(w, Now)
  BY <1>1, <1>2 DEF TailZero, PublishedZero, Init, IdleWriter
<1>5. \A r \in Readers : rd[r].pc = "idle"
  BY DEF Init, IdleReader
<1>6. QED
  BY <1>1, <1>3, <1>4, <1>5 DEF GrowingInv, Growing, Asked, Got

\* Before the first clear, the worst a reader of an array finds is the zero
\* push_back publishes before it fills the element (msm_array_push_back,
\* array.hpp:97-103), also in a loop whose begin() and end() loaded different
\* buffers.
THEOREM ReadsCommittedOrZeroCorrect ==
  ASSUME IndicesChecked, EveryPrepareCommits
  PROVE  Spec => []ReadsCommittedOrZero
<1>1. Init => TypeInv /\ TornInv /\ GrowingInv
  BY TypeInit, TornInit, GrowingInit
<1>2. TypeInv /\ TornInv /\ GrowingInv /\ [Next]_vars => (TypeInv /\ TornInv /\ GrowingInv)'
  <2>1. SUFFICES ASSUME TypeInv, TornInv, GrowingInv, [Next]_vars
                 PROVE  (TypeInv /\ TornInv /\ GrowingInv)'
    OBVIOUS
  <2>2. TypeInv'
    BY <2>1, TypeNext
  <2>3. CASE Next
    BY <2>1, <2>2, <2>3, WriterTornStep, ReaderTornStep, WriterGrowingStep, ReaderGrowingStep
    DEF Next, TypeInv
  <2>4. CASE UNCHANGED vars
    <3>1. hist' = hist /\ floor' = floor /\ w' = w /\ rd' = rd /\ fault' = fault
      BY <2>4 DEF vars
    <3>2. TornInv'
      BY <2>1, <3>1 DEF TornInv, BuffersOK, CursorOK, OnlyTornIterationsFault, ReadersSafe
    <3>3. Now' = Now /\ Cleared' = Cleared /\ Growing' = Growing
      BY <3>1 DEF Now, Cleared, Growing, Size
    <3>4. GrowingInv'
      BY <2>1, <3>1, <3>3 DEF GrowingInv, TailZero, Filled, PublishedZero, Asked, Got, Size
    <3>5. QED
      BY <2>2, <3>2, <3>4
  <2>5. QED
    BY <2>1, <2>3, <2>4
<1>3. GrowingInv => ReadsCommittedOrZero
  BY DEF GrowingInv, Got, ReadsCommittedOrZero
<1>4. QED
  BY <1>1, <1>2, <1>3, PTL DEF Spec

=============================================================================
