--------------------------- MODULE MsmArrayProofs ---------------------------
(* Theorems about MsmArray, for every set of readers and values and for      *)
(* every bound.                                                              *)
EXTENDS MsmArray, TLAPS

-----------------------------------------------------------------------------
(* The memories the writer's stores build are memories. *)

LEMMA MemoryFacts ==
  ASSUME NEW m \in Memory
  PROVE  /\ m.ptr \in Bufs \cup {Null}
         /\ m.size \in [Bufs -> 0 .. MaxCap]
         /\ m.cap \in [Bufs -> 0 .. MaxCap]
         /\ m.sizeRel \in [Bufs -> BOOLEAN]
         /\ m.elem \in [Bufs -> [Index -> Elems]]
         /\ 1 .. m.ptr \subseteq Bufs
         /\ MaxCap \in Nat /\ MaxBufs \in Nat
BY ConstantsAssumption DEF Memory, Bufs, Null

LEMMA SizeType ==
  ASSUME NEW m \in Memory
  PROVE  Size(m) \in 0 .. MaxCap /\ Cap(m) \in 0 .. MaxCap
BY ConstantsAssumption DEF Size, Cap, Memory, Null, Bufs

LEMMA GrownType ==
  ASSUME NEW m \in Memory, m.ptr < MaxBufs, NEW c \in 0 .. MaxCap
  PROVE  Grown(m, c) \in Memory
<1> DEFINE b == m.ptr + 1
           copy == [i \in Index |-> IF i < Size(m) THEN m.elem[m.ptr][i] ELSE Zero]
<1>1. b \in Bufs
  BY ConstantsAssumption DEF Memory, Bufs, Null
<1>2. copy \in [Index -> Elems]
  <2>1. SUFFICES ASSUME NEW i \in Index, i < Size(m)
                 PROVE  m.elem[m.ptr][i] \in Elems
    BY DEF Elems
  <2>2. m.ptr # Null
    BY <2>1 DEF Size, Index
  <2>3. QED
    BY <2>1, <2>2 DEF Memory
<1>3. [m.elem EXCEPT ![b] = copy] \in [Bufs -> [Index -> Elems]]
  BY <1>1, <1>2 DEF Memory
<1>4. QED
  BY <1>1, <1>3, SizeType DEF Grown, Memory

LEMMA SetElemType ==
  ASSUME NEW m \in Memory, NEW b \in Bufs, NEW i \in Index, NEW v \in Elems
  PROVE  SetElem(m, b, i, v) \in Memory
BY DEF SetElem, Memory

LEMMA SizedType ==
  ASSUME NEW m \in Memory, m.ptr # Null, NEW n \in 0 .. MaxCap, NEW order
  PROVE  Sized(m, n, order) \in Memory
BY DEF Sized, Memory

LEMMA EmptyMemoryType == EmptyMemory \in Memory
BY ConstantsAssumption DEF EmptyMemory, Memory, Elems, Index

\* What a store leaves as it was.
LEMMA GrownFields ==
  ASSUME NEW m \in Memory, m.ptr < MaxBufs, NEW c \in 0 .. MaxCap
  PROVE  /\ m.ptr \in Nat /\ m.ptr + 1 \in Bufs
         /\ Grown(m, c).ptr = m.ptr + 1 /\ Grown(m, c).ptrRel
         /\ Grown(m, c).size[m.ptr + 1] = Size(m) /\ Grown(m, c).cap[m.ptr + 1] = c
         /\ ~Grown(m, c).sizeRel[m.ptr + 1]
         /\ \A i \in Index : Grown(m, c).elem[m.ptr + 1][i] =
                               IF i < Size(m) THEN m.elem[m.ptr][i] ELSE Zero
         /\ \A b \in 1 .. m.ptr :
              /\ b \in Bufs /\ b # m.ptr + 1
              /\ Grown(m, c).size[b] = m.size[b] /\ Grown(m, c).cap[b] = m.cap[b]
              /\ Grown(m, c).sizeRel[b] = m.sizeRel[b] /\ Grown(m, c).elem[b] = m.elem[b]
<1>1. m.ptr \in Nat /\ m.ptr + 1 \in Bufs
  BY MemoryFacts DEF Bufs, Null
<1>2. /\ Grown(m, c).ptr = m.ptr + 1 /\ Grown(m, c).ptrRel
      /\ Grown(m, c).size[m.ptr + 1] = Size(m) /\ Grown(m, c).cap[m.ptr + 1] = c
      /\ ~Grown(m, c).sizeRel[m.ptr + 1]
  BY <1>1, MemoryFacts DEF Grown, ReservePublishOrder, Release
<1>3. \A i \in Index : Grown(m, c).elem[m.ptr + 1][i] =
                         IF i < Size(m) THEN m.elem[m.ptr][i] ELSE Zero
  BY <1>1, MemoryFacts DEF Grown
<1>4. ASSUME NEW b \in 1 .. m.ptr
      PROVE  /\ b \in Bufs /\ b # m.ptr + 1
             /\ Grown(m, c).size[b] = m.size[b] /\ Grown(m, c).cap[b] = m.cap[b]
             /\ Grown(m, c).sizeRel[b] = m.sizeRel[b] /\ Grown(m, c).elem[b] = m.elem[b]
  <2>1. b \in Bufs /\ b # m.ptr + 1
    BY <1>1, MemoryFacts
  <2>2. QED
    BY <2>1, MemoryFacts DEF Grown
<1>5. QED
  BY <1>1, <1>2, <1>3, <1>4

LEMMA SetElemFields ==
  ASSUME NEW m \in Memory, m.ptr # Null, NEW i \in Index, NEW v \in Elems
  PROVE  LET s == SetElem(m, m.ptr, i, v) IN
         /\ s.ptr = m.ptr /\ s.ptrRel = m.ptrRel /\ s.size = m.size
         /\ s.cap = m.cap /\ s.sizeRel = m.sizeRel
         /\ s.elem[m.ptr][i] = v
         /\ \A b \in Bufs, j \in Index :
              b # m.ptr \/ j # i => s.elem[b][j] = m.elem[b][j]
<1>1. m.ptr \in Bufs
  BY MemoryFacts
<1>2. SetElem(m, m.ptr, i, v).elem = [m.elem EXCEPT ![m.ptr][i] = v]
  BY DEF SetElem, Memory
<1>3. QED
  BY <1>1, <1>2, MemoryFacts DEF SetElem, Memory

LEMMA SizedFields ==
  ASSUME NEW m \in Memory, m.ptr # Null, NEW n \in Nat
  PROVE  LET s == Sized(m, n, Release) IN
         /\ s.ptr = m.ptr /\ s.ptrRel = m.ptrRel /\ s.cap = m.cap /\ s.elem = m.elem
         /\ m.ptr \in 1 .. m.ptr /\ s.size[m.ptr] = n /\ s.sizeRel[m.ptr]
         /\ \A b \in Bufs : b # m.ptr => s.size[b] = m.size[b] /\ s.sizeRel[b] = m.sizeRel[b]
<1>1. m.ptr \in Bufs /\ m.ptr \in 1 .. m.ptr
  BY MemoryFacts DEF Bufs, Null
<1>2. /\ Sized(m, n, Release).size = [m.size EXCEPT ![m.ptr] = n]
      /\ Sized(m, n, Release).sizeRel = [m.sizeRel EXCEPT ![m.ptr] = TRUE]
  BY DEF Sized, Memory
<1>3. QED
  BY <1>1, <1>2, MemoryFacts DEF Sized, Memory

\* What a store does to the history.
LEMMA StoreHistory ==
  ASSUME hist \in Seq(Memory), hist # <<>>, NEW m \in Memory,
         Store(m) \/ StoreIfChanged(m)
  PROVE  /\ hist' \in Seq(Memory) /\ hist' # <<>>
         /\ Now' = m
         /\ floor' = floor
         /\ Len(hist) <= Len(hist')
         /\ Len(hist') \in {Len(hist), Len(hist) + 1}
         /\ \A k \in 1 .. Len(hist) : hist'[k] = hist[k]
         /\ hist'[Len(hist')] = m
BY SMTT(30) DEF Store, StoreIfChanged, memoryVars, Now

LEMMA NowType ==
  ASSUME hist \in Seq(Memory), hist # <<>>
  PROVE  Now \in Memory /\ Len(hist) \in Nat \ {0}
BY DEF Now

-----------------------------------------------------------------------------
(* Type correctness.  The writer's part of it needs WriterOK: the size only  *)
(* goes up after an element inside the buffer was filled.                    *)

SizeHasBuffer == \A r \in Readers : rd[r].pc = "size" => rd[r].buf # Null

TypeInv == TypeOK /\ WriterOK /\ SizeHasBuffer

LEMMA IdleType ==
  /\ IdleWriter \in Writer
  /\ \A n \in 0 .. MaxCap : IdleReader(n) \in Reader
BY ConstantsAssumption DEF IdleWriter, IdleReader, Writer, Reader, Elems

\* The outcomes of msm_array_reserve: as it was, or grown.
LEMMA OutcomeCases ==
  ASSUME TypeOK, NEW m,
         \/ m \in PrepareOutcomes
         \/ \E c \in 0 .. MaxCap : m \in ReserveOutcomes(c)
  PROVE  \/ m = Now
         \/ \E c \in 0 .. MaxCap :
              Cap(Now) < c /\ Now.ptr < MaxBufs /\ m = Grown(Now, c)
<1>1. Now \in Memory
  BY NowType DEF TypeOK
<1>2. Cap(Now) \in 0 .. MaxCap
  BY <1>1, SizeType
<1>3. NextCap(Cap(Now)) \in Nat
  BY <1>2, ConstantsAssumption DEF NextCap
<1>4. ASSUME NEW c \in Nat, m \in ReserveOutcomes(c)
      PROVE  \/ m = Now
             \/ c \in 0 .. MaxCap /\ Cap(Now) < c /\ Now.ptr < MaxBufs /\ m = Grown(Now, c)
  BY <1>2, <1>4, ConstantsAssumption DEF ReserveOutcomes
<1>5. m = Now \/ \E c \in Nat : m \in ReserveOutcomes(c)
  BY <1>3, ConstantsAssumption DEF PrepareOutcomes
<1>6. QED
  BY <1>4, <1>5

\* A reserve leaves a memory of the same size.
LEMMA GrownSize ==
  ASSUME NEW m \in Memory, m.ptr < MaxBufs, NEW c \in 0 .. MaxCap
  PROVE  /\ Grown(m, c).ptr = m.ptr + 1
         /\ Size(Grown(m, c)) = Size(m)
         /\ Cap(Grown(m, c)) = c
<1>1. m.ptr + 1 \in Bufs /\ m.ptr + 1 # Null
  BY ConstantsAssumption DEF Memory, Bufs, Null
<1>2. m.size \in [Bufs -> 0 .. MaxCap] /\ m.cap \in [Bufs -> 0 .. MaxCap]
  BY DEF Memory
<1>3. Grown(m, c).ptr = m.ptr + 1
  BY DEF Grown
<1>4. Grown(m, c).size[m.ptr + 1] = Size(m) /\ Grown(m, c).cap[m.ptr + 1] = c
  BY <1>1, <1>2 DEF Grown
<1>5. QED
  BY <1>1, <1>3, <1>4 DEF Size, Cap

LEMMA OutcomeType ==
  ASSUME TypeOK, NEW m,
         \/ m \in PrepareOutcomes
         \/ \E c \in 0 .. MaxCap : m \in ReserveOutcomes(c)
  PROVE  m \in Memory /\ Size(m) = Size(Now)
<1>1. Now \in Memory
  BY NowType DEF TypeOK
<1>2. QED
  BY <1>1, OutcomeCases, GrownType, GrownSize

LEMMA WriterTypeStep ==
  ASSUME TypeOK, WriterOK, WriterNext
  PROVE  TypeOK' /\ WriterOK' /\ UNCHANGED rd
<1>1. Now \in Memory /\ Len(hist) \in Nat \ {0}
  BY NowType DEF TypeOK
<1>2. ASSUME NEW m \in Memory, Store(m) \/ StoreIfChanged(m)
      PROVE  /\ hist' \in Seq(Memory) /\ hist' # <<>>
             /\ floor' \in [Readers -> 1 .. Len(hist')]
             /\ Now' = m
  BY <1>1, <1>2, StoreHistory DEF TypeOK
<1>3. ASSUME UNCHANGED memoryVars
      PROVE  /\ hist' \in Seq(Memory) /\ hist' # <<>>
             /\ floor' \in [Readers -> 1 .. Len(hist')]
             /\ Now' = Now
  BY <1>3 DEF TypeOK, memoryVars, Now
<1>4. ASSUME NEW op \in WriterOps \cap {"prepare", "push_back"}, NEW v \in Values,
             PreparePush(op, v)
      PROVE  TypeOK' /\ WriterOK'
  <2>1. PICK m \in PrepareOutcomes :
          /\ StoreIfChanged(m)
          /\ IF m.ptr = Null
             THEN /\ fault' = IF op = "push_back" THEN "null_write" ELSE fault
                  /\ UNCHANGED w
             ELSE /\ w' = [pc |-> "zero", op |-> op, buf |-> m.ptr,
                           idx |-> Size(Now), val |-> v]
                  /\ UNCHANGED fault
    BY <1>4 DEF PreparePush
  <2>2. m \in Memory /\ Size(m) = Size(Now) /\ Size(Now) \in 0 .. MaxCap
    BY <1>1, OutcomeType, SizeType
  <2>3. /\ hist' \in Seq(Memory) /\ hist' # <<>>
        /\ floor' \in [Readers -> 1 .. Len(hist')]
        /\ Now' = m
    BY <1>2, <2>1, <2>2
  <2>4. Size(Now)' = Size(m)
    BY <2>3 DEF Size
  <2>5. w' \in Writer /\ fault' \in Faults
    BY <2>1, <2>2 DEF TypeOK, Writer, Faults, Memory, Elems
  <2>6. WriterOK'
    BY <1>4, <2>1, <2>2, <2>3, <2>4 DEF WriterOK, PreparePush
  <2>7. QED
    BY <1>4, <2>3, <2>5, <2>6 DEF TypeOK, PreparePush
<1>5. ASSUME NEW c \in 0 .. MaxCap, Reserve(c)
      PROVE  TypeOK' /\ WriterOK'
  <2>1. PICK m \in ReserveOutcomes(c) : StoreIfChanged(m)
    BY <1>5 DEF Reserve
  <2>2. m \in Memory
    BY OutcomeType
  <2>3. QED
    BY <1>2, <1>5, <2>1, <2>2 DEF TypeOK, WriterOK, Reserve
<1>6. CASE Clear
  <2>1. Sized(Now, 0, ClearOrder) \in Memory
    BY <1>1, <1>6, SizedType, ConstantsAssumption DEF Clear
  <2>2. QED
    BY <1>2, <1>6, <2>1 DEF TypeOK, WriterOK, Clear
<1>7. CASE ZeroElem
  <2>1. CASE w.idx < Now.cap[w.buf]
    <3> DEFINE m == SetElem(Now, w.buf, w.idx, Zero)
    <3>1. w.buf \in Bufs /\ w.idx \in Index /\ Now.ptr = w.buf /\ w.idx = Size(Now)
      BY <1>1, <1>7, <2>1, ConstantsAssumption
      DEF TypeOK, WriterOK, ZeroElem, Writer, Memory, Index
    <3>2. m \in Memory
      BY <1>1, <3>1, SetElemType DEF Elems
    <3>3. m.ptr = Now.ptr /\ m.size = Now.size /\ m.cap = Now.cap
      BY <1>1 DEF SetElem, Memory
    <3>4. /\ hist' \in Seq(Memory) /\ hist' # <<>>
          /\ floor' \in [Readers -> 1 .. Len(hist')]
          /\ Now' = m
      BY <1>2, <1>7, <2>1, <3>2 DEF ZeroElem
    <3>5. Size(Now)' = Size(Now)
      BY <3>3, <3>4 DEF Size
    <3>6. QED
      BY <1>7, <2>1, <3>1, <3>3, <3>4, <3>5 DEF TypeOK, WriterOK, ZeroElem, Writer
  <2>2. CASE ~(w.idx < Now.cap[w.buf])
    BY <1>3, <1>7, <2>2 DEF TypeOK, WriterOK, ZeroElem, Faults, Size
  <2>3. QED
    BY <2>1, <2>2
<1>8. CASE Fill
  <2> DEFINE m == SetElem(Now, w.buf, w.idx, w.val)
  <2>1. w.buf \in Bufs /\ w.idx \in Index /\ w.val \in Elems
    BY <1>1, <1>8, ConstantsAssumption DEF TypeOK, WriterOK, Fill, Writer, Memory, Index
  <2>2. m \in Memory
    BY <1>1, <2>1, SetElemType
  <2>3. m.ptr = Now.ptr /\ m.size = Now.size /\ m.cap = Now.cap
    BY <1>1 DEF SetElem, Memory
  <2>4. /\ hist' \in Seq(Memory) /\ hist' # <<>>
        /\ floor' \in [Readers -> 1 .. Len(hist')]
        /\ Now' = m
    BY <1>2, <1>8, <2>2 DEF Fill
  <2>5. Size(Now)' = Size(Now)
    BY <2>3, <2>4 DEF Size
  <2>6. w' \in Writer
    BY <1>8, IdleType DEF TypeOK, Fill, Writer
  <2>7. WriterOK'
    BY <1>8, <2>3, <2>4, <2>5 DEF WriterOK, Fill, IdleWriter, TypeOK, Writer
  <2>8. QED
    BY <1>8, <2>4, <2>6, <2>7 DEF TypeOK, Fill
<1>9. CASE CommitPush
  <2> DEFINE n == (Size(Now) + 1) % U32
             m == Sized(Now, n, CommitOrder)
  <2>1. /\ w.buf \in Bufs /\ w.buf = Now.ptr /\ Now.ptr # Null
        /\ Size(Now) + 1 <= MaxCap
    BY <1>1, <1>9, ConstantsAssumption DEF TypeOK, WriterOK, CommitPush, Writer, Memory
  <2>2. n = Size(Now) + 1 /\ n \in 0 .. MaxCap
    BY <1>1, <2>1, SizeType, ConstantsAssumption
  <2>3. m \in Memory
    BY <1>1, <2>1, <2>2, SizedType
  <2>4. m.ptr = Now.ptr /\ m.cap = Now.cap
    BY <1>1 DEF Sized, Memory
  <2>5. /\ hist' \in Seq(Memory) /\ hist' # <<>>
        /\ floor' \in [Readers -> 1 .. Len(hist')]
        /\ Now' = m
    BY <1>2, <1>9, <2>3 DEF CommitPush
  <2>6. w' \in Writer
    <3>1. w \in Writer /\ [w EXCEPT !.pc = "fill"] \in Writer
      BY DEF TypeOK, Writer
    <3>2. QED
      BY <1>9, <3>1, IdleType DEF CommitPush
  <2>7. WriterOK'
    BY <1>9, <2>1, <2>4, <2>5 DEF WriterOK, CommitPush, IdleWriter, TypeOK, Writer
  <2>8. QED
    BY <1>9, <2>5, <2>6, <2>7 DEF TypeOK, CommitPush
<1>10. CASE Abandon
  <2>1. w' \in Writer
    BY <1>10, IdleType DEF Abandon
  <2>2. QED
    BY <1>3, <1>10, <2>1 DEF TypeOK, WriterOK, Abandon, IdleWriter
<1>11. UNCHANGED rd
  BY DEF WriterNext, PreparePush, Reserve, Clear, ZeroElem, Fill, CommitPush, Abandon
<1>12. QED
  BY <1>4, <1>5, <1>6, <1>7, <1>8, <1>9, <1>10, <1>11 DEF WriterNext

\* A load moves the floor inside the history, or leaves it.
LEMMA LoadType ==
  ASSUME TypeOK, NEW r \in Readers, NEW k \in Visible(r), NEW order, NEW released,
         Load(r, k, order, released)
  PROVE  /\ k \in 1 .. Len(hist) /\ floor[r] <= k /\ hist[k] \in Memory
         /\ hist' = hist
         /\ floor' \in [Readers -> 1 .. Len(hist)]
         /\ floor'[r] = IF order = Acquire /\ released THEN k ELSE floor[r]
         /\ \A s \in Readers \ {r} : floor'[s] = floor[s]
BY DEF TypeOK, Visible, Load

LEMMA WithSizeType ==
  ASSUME TypeOK, NEW r \in Readers, rd[r].pc \in {"ptr", "size"},
         NEW b \in Bufs \cup {Null}, NEW n \in 0 .. MaxCap, WithSize(r, b, n)
  PROVE  rd' \in [Readers -> Reader] /\ fault' \in Faults
<1>1. rd[r] \in Reader
  BY DEF TypeOK
<1>2. rd[r].seen \in 0 .. MaxCap
  BY <1>1 DEF Reader
<1>3. IdleReader(n) \in Reader /\ IdleReader(rd[r].seen) \in Reader
  BY <1>2, IdleType
<1>4. [rd[r] EXCEPT !.pc = "elem", !.buf = b, !.left = n] \in Reader
  BY <1>1 DEF Reader
<1>5. QED
  BY <1>1, <1>3, <1>4 DEF WithSize, TypeOK, Faults

LEMMA ReaderTypeStep ==
  ASSUME TypeOK, SizeHasBuffer, NEW r \in Readers, ReaderNext(r)
  PROVE  TypeOK' /\ UNCHANGED <<hist, w>>
<1>1. rd[r] \in Reader
  BY DEF TypeOK
<1>2. ASSUME NEW op \in ReaderOps, Call(r, op)
      PROVE  TypeOK' /\ UNCHANGED <<hist, w>>
  <2>1. PICK i \in Indices(r, op) :
          rd' = [rd EXCEPT ![r].pc = IF op = "iterate" THEN "begin" ELSE "ptr",
                           ![r].op = op, ![r].idx = i]
    BY <1>2 DEF Call
  <2>2. i \in 0 .. MaxCap
    <3>1. rd[r].seen \in 0 .. MaxCap
      BY <1>1 DEF Reader
    <3>2. QED
      BY <2>1, <3>1, ConstantsAssumption DEF Indices, Index
  <2>3. [rd[r] EXCEPT !.pc = IF op = "iterate" THEN "begin" ELSE "ptr",
                      !.op = op, !.idx = i] \in Reader
    BY <1>1, <2>2 DEF Reader
  <2>4. QED
    BY <1>2, <2>1, <2>3 DEF TypeOK, Call, memoryVars
<1>3. CASE Begin(r)
  <2>1. PICK k \in Visible(r) :
          /\ Load(r, k, Relaxed, hist[k].ptrRel)
          /\ rd' = [rd EXCEPT ![r].pc = "ptr", ![r].base = hist[k].ptr]
    BY <1>3 DEF Begin
  <2>2. hist[k].ptr \in Bufs \cup {Null}
    BY <2>1, LoadType DEF Memory
  <2>3. [rd[r] EXCEPT !.pc = "ptr", !.base = hist[k].ptr] \in Reader
    BY <1>1, <2>2 DEF Reader
  <2>4. hist' = hist /\ floor' \in [Readers -> 1 .. Len(hist)]
    BY <2>1, LoadType
  <2>5. QED
    BY <1>3, <2>1, <2>3, <2>4 DEF TypeOK, Begin
<1>4. CASE LoadPtr(r)
  <2>1. PICK k \in Visible(r) :
          /\ Load(r, k, PtrLoadOrder, hist[k].ptrRel)
          /\ IF hist[k].ptr = Null
             THEN WithSize(r, Null, 0)
             ELSE /\ rd' = [rd EXCEPT ![r].pc = "size", ![r].buf = hist[k].ptr]
                  /\ UNCHANGED fault
    BY <1>4 DEF LoadPtr
  <2>2. hist[k].ptr \in Bufs \cup {Null}
    BY <2>1, LoadType DEF Memory
  <2>3. [rd[r] EXCEPT !.pc = "size", !.buf = hist[k].ptr] \in Reader
    BY <1>1, <2>2 DEF Reader
  <2>4. rd' \in [Readers -> Reader] /\ fault' \in Faults
    <3>1. CASE hist[k].ptr = Null
      BY <1>4, <2>1, <3>1, WithSizeType, ConstantsAssumption DEF LoadPtr
    <3>2. CASE hist[k].ptr # Null
      BY <2>1, <2>3, <3>2 DEF TypeOK
    <3>3. QED
      BY <3>1, <3>2
  <2>5. hist' = hist /\ floor' \in [Readers -> 1 .. Len(hist)]
    BY <2>1, LoadType
  <2>6. QED
    BY <1>4, <2>4, <2>5 DEF TypeOK, LoadPtr
<1>5. CASE LoadSize(r)
  <2> DEFINE b == rd[r].buf
  <2>1. PICK k \in Visible(r) :
          IF b <= hist[k].ptr
          THEN /\ Load(r, k, SizeLoadOrder, hist[k].sizeRel[b])
               /\ WithSize(r, b, hist[k].size[b])
          ELSE /\ fault' = "uninit_read"
               /\ UNCHANGED <<memoryVars, rd>>
    BY <1>5 DEF LoadSize
  <2>2. CASE b <= hist[k].ptr
    <3>1. hist[k] \in Memory /\ hist' = hist /\ floor' \in [Readers -> 1 .. Len(hist)]
      BY <2>1, <2>2, LoadType
    <3>2. b \in Bufs \cup {Null}
      BY <1>1 DEF Reader
    <3>3. rd' \in [Readers -> Reader] /\ fault' \in Faults
      <4>1. CASE b # Null
        <5>1. hist[k].size[b] \in 0 .. MaxCap
          BY <3>1, <3>2, <4>1 DEF Memory
        <5>2. QED
          BY <1>5, <2>1, <2>2, <3>2, <5>1, WithSizeType DEF LoadSize
      <4>2. b # Null
        BY <1>5 DEF SizeHasBuffer, LoadSize
      <4>3. QED
        BY <4>1, <4>2
    <3>4. QED
      BY <1>5, <3>1, <3>3 DEF TypeOK, LoadSize
  <2>3. CASE ~(b <= hist[k].ptr)
    BY <1>5, <2>1, <2>3 DEF TypeOK, LoadSize, memoryVars, Faults
  <2>4. QED
    BY <2>2, <2>3
<1>6. CASE ReadElem(r)
  <2> DEFINE b == IF rd[r].op = "iterate" THEN rd[r].base ELSE rd[r].buf
             i == rd[r].idx
  <2>1. PICK k \in Visible(r) :
          LET m == hist[k] IN
          IF b # Null /\ b <= m.ptr /\ i < m.cap[b]
          THEN /\ rd' = [rd EXCEPT ![r].pc = "done", ![r].out = m.elem[b][i]]
               /\ UNCHANGED fault
          ELSE /\ fault' = IF b = Null THEN "null_read"
                           ELSE IF b <= m.ptr THEN "overrun_read" ELSE "uninit_read"
               /\ UNCHANGED rd
    BY <1>6 DEF ReadElem
  <2>2. hist[k] \in Memory
    BY <2>1 DEF TypeOK, Visible
  <2>3. CASE b # Null /\ b <= hist[k].ptr /\ i < hist[k].cap[b]
    <3>1. b \in Bufs /\ i \in 0 .. MaxCap
      BY <1>1, <2>3 DEF Reader
    <3>2. hist[k].cap[b] \in 0 .. MaxCap
      BY <2>2, <3>1 DEF Memory
    <3>3. i \in Index
      BY <2>3, <3>1, <3>2, ConstantsAssumption DEF Index
    <3>4. hist[k].elem[b][i] \in Elems
      BY <2>2, <3>1, <3>3 DEF Memory
    <3>5. [rd[r] EXCEPT !.pc = "done", !.out = hist[k].elem[b][i]] \in Reader
      BY <1>1, <3>4 DEF Reader
    <3>6. rd' = [rd EXCEPT ![r].pc = "done", ![r].out = hist[k].elem[b][i]] /\ UNCHANGED fault
      BY <2>1, <2>3
    <3>7. QED
      BY <1>6, <3>5, <3>6 DEF TypeOK, ReadElem, memoryVars
  <2>4. CASE ~(b # Null /\ b <= hist[k].ptr /\ i < hist[k].cap[b])
    BY <1>6, <2>1, <2>4 DEF TypeOK, ReadElem, memoryVars, Faults
  <2>5. QED
    BY <2>3, <2>4
<1>7. CASE Done(r)
  <2>1. IdleReader(rd[r].seen) \in Reader
    BY <1>1, IdleType DEF Reader
  <2>2. CASE rd[r].op = "iterate" /\ rd[r].idx + 1 < rd[r].left
    <3> DEFINE next == rd[r].idx + 1
    <3>0. next \in 0 .. MaxCap
      BY <1>1, <2>2, ConstantsAssumption DEF Reader
    <3> HIDE DEF next
    <3>1. [rd[r] EXCEPT !.pc = "elem", !.idx = next] \in Reader
      BY <1>1, <3>0 DEF Reader
    <3>2. rd' = [rd EXCEPT ![r].pc = "elem", ![r].idx = next]
      BY <1>7, <2>2 DEF Done, next
    <3>3. QED
      BY <1>7, <3>1, <3>2 DEF TypeOK, Done, memoryVars
  <2>3. CASE ~(rd[r].op = "iterate" /\ rd[r].idx + 1 < rd[r].left)
    BY <1>7, <2>1, <2>3 DEF TypeOK, Done, memoryVars
  <2>4. QED
    BY <2>2, <2>3
<1>8. QED
  BY <1>2, <1>3, <1>4, <1>5, <1>6, <1>7 DEF ReaderNext

\* Only a load of a pointer that is not null leads to a load of the size.
LEMMA SizeHasBufferStep ==
  ASSUME TypeOK, SizeHasBuffer, NEW r \in Readers, ReaderNext(r)
  PROVE  SizeHasBuffer'
<1>1. ASSUME NEW b, NEW n, WithSize(r, b, n), rd[r].pc # "size" \/ rd[r].buf # Null
      PROVE  SizeHasBuffer'
  <2>1. /\ \A s \in Readers \ {r} : rd'[s] = rd[s]
        /\ rd'[r] = rd[r] \/ rd'[r].pc # "size"
    BY <1>1 DEF WithSize, TypeOK, Reader, IdleReader
  <2>2. QED
    BY <1>1, <2>1 DEF SizeHasBuffer
<1>2. ASSUME NEW op \in ReaderOps, Call(r, op)
      PROVE  SizeHasBuffer'
  BY <1>2 DEF Call, SizeHasBuffer, TypeOK
<1>3. CASE Begin(r)
  BY <1>3 DEF Begin, SizeHasBuffer, TypeOK
<1>4. CASE LoadPtr(r)
  <2>1. PICK k \in Visible(r) :
          IF hist[k].ptr = Null
          THEN WithSize(r, Null, 0)
          ELSE rd' = [rd EXCEPT ![r].pc = "size", ![r].buf = hist[k].ptr]
    BY <1>4 DEF LoadPtr
  <2>2. CASE hist[k].ptr = Null
    BY <1>1, <1>4, <2>1, <2>2 DEF LoadPtr
  <2>3. CASE hist[k].ptr # Null
    BY ZenonT(60), <2>1, <2>3 DEF SizeHasBuffer, TypeOK, Reader
  <2>4. QED
    BY <2>2, <2>3
<1>5. CASE LoadSize(r)
  BY <1>1, <1>5 DEF LoadSize, SizeHasBuffer
<1>6. CASE ReadElem(r)
  BY ZenonT(60), <1>6 DEF ReadElem, SizeHasBuffer, TypeOK, Reader
<1>7. CASE Done(r)
  BY <1>7 DEF Done, SizeHasBuffer, TypeOK, IdleReader, Reader
<1>8. QED
  BY <1>2, <1>3, <1>4, <1>5, <1>6, <1>7 DEF ReaderNext

LEMMA TypeInit == Init => TypeInv
<1> SUFFICES ASSUME Init PROVE TypeInv
  OBVIOUS
<1>1. hist \in Seq(Memory) /\ hist # <<>> /\ Len(hist) = 1
  BY EmptyMemoryType DEF Init, MemoryInit
<1>2. rd \in [Readers -> Reader]
  BY IdleType, ConstantsAssumption DEF Init
<1>3. QED
  BY <1>1, <1>2, IdleType
  DEF Init, MemoryInit, TypeInv, TypeOK, WriterOK, SizeHasBuffer, IdleWriter, IdleReader, Faults

LEMMA TypeNext == TypeInv /\ [Next]_vars => TypeInv'
<1> SUFFICES ASSUME TypeInv, [Next]_vars PROVE TypeInv'
  OBVIOUS
<1>1. CASE WriterNext
  BY <1>1, WriterTypeStep DEF TypeInv, SizeHasBuffer
<1>2. ASSUME NEW r \in Readers, ReaderNext(r)
      PROVE  TypeInv'
  BY <1>2, ReaderTypeStep, SizeHasBufferStep DEF TypeInv, WriterOK, Now, Size
<1>3. CASE UNCHANGED vars
  BY <1>3 DEF vars, TypeInv, TypeOK, WriterOK, SizeHasBuffer, Now, Size
<1>4. QED
  BY <1>1, <1>2, <1>3 DEF Next

\* Whatever the writer and the readers call, and whether malloc fails or the
\* capacity wraps: every size stays within the bounds of the buffers, and the
\* writer's element is the one after the last (msm_allocator.cpp:275-374).
THEOREM TypeCorrect == Spec => []TypeOK
<1>1. TypeInv => TypeOK
  BY DEF TypeInv
<1>2. QED
  BY TypeInit, TypeNext, <1>1, PTL DEF Spec

=============================================================================
