------------------------ MODULE MsmArrayAppendProofs ------------------------
(* What an append-only array guarantees its readers, for every number of     *)
(* readers, every capacity and every length of history.  The argument is     *)
(* AppendInv: every snapshot extends the earlier ones, and what a reader     *)
(* knows already holds in the oldest snapshot it may still read.             *)
EXTENDS MsmArrayProofs, SequenceTheorems

\* The writer appends with prepare_push and commit_push and may reserve; the
\* readers use the C API.
AppendOnly ==
  /\ WriterOps \subseteq {"prepare", "abandon", "reserve"}
  /\ ReaderOps \subseteq {"size", "get", "get_int32"}

-----------------------------------------------------------------------------
(* Snapshots *)

LEMMA ExtendsReflexive ==
  ASSUME NEW m \in Memory
  PROVE  Extends(m, m)
BY MemoryFacts DEF Extends, Bufs, Null

LEMMA ExtendsTransitive ==
  ASSUME NEW l \in Memory, NEW m \in Memory, NEW n \in Memory,
         Extends(l, m), Extends(m, n)
  PROVE  Extends(l, n)
<1>1. l.ptr <= m.ptr /\ m.ptr <= n.ptr /\ l.ptr <= n.ptr
  <2>1. l.ptr \in Nat /\ m.ptr \in Nat /\ n.ptr \in Nat
    BY MemoryFacts DEF Bufs, Null
  <2>2. QED
    BY <2>1 DEF Extends
<1>2. ASSUME NEW b \in 1 .. l.ptr
      PROVE  /\ n.cap[b] = l.cap[b]
             /\ l.size[b] <= n.size[b]
             /\ l.sizeRel[b] => n.sizeRel[b]
             /\ ~n.sizeRel[b] => n.size[b] = l.size[b]
             /\ \A i \in 0 .. l.size[b] - 1 : n.elem[b][i] = l.elem[b][i]
  <2>1. b \in 1 .. m.ptr /\ b \in Bufs
    BY <1>1, MemoryFacts DEF Bufs, Null
  <2>2. l.size[b] \in Nat /\ m.size[b] \in Nat /\ n.size[b] \in Nat
    BY <2>1, MemoryFacts
  <2>3. /\ m.cap[b] = l.cap[b] /\ l.size[b] <= m.size[b]
        /\ l.sizeRel[b] => m.sizeRel[b]
        /\ ~m.sizeRel[b] => m.size[b] = l.size[b]
        /\ \A i \in 0 .. l.size[b] - 1 : m.elem[b][i] = l.elem[b][i]
    BY DEF Extends
  <2>4. /\ n.cap[b] = m.cap[b] /\ m.size[b] <= n.size[b]
        /\ m.sizeRel[b] => n.sizeRel[b]
        /\ ~n.sizeRel[b] => n.size[b] = m.size[b]
        /\ \A i \in 0 .. m.size[b] - 1 : n.elem[b][i] = m.elem[b][i]
    BY <2>1 DEF Extends
  <2>5. QED
    BY <2>2, <2>3, <2>4
<1>3. QED
  BY <1>1, <1>2 DEF Extends

\* What was committed stays so, in the current buffer too.
LEMMA ExtendsCommitted ==
  ASSUME NEW m \in Memory, NEW n \in Memory, Extends(m, n), MemoryOK(n)
  PROVE  /\ Size(m) \in Nat /\ Size(n) \in Nat /\ Size(m) <= Size(n)
         /\ \A i \in 0 .. Size(m) - 1 : n.elem[n.ptr][i] = m.elem[m.ptr][i]
<1>1. CASE m.ptr = Null
  BY <1>1, SizeType, ConstantsAssumption DEF Size
<1>2. CASE m.ptr # Null
  <2>1. m.ptr \in 1 .. m.ptr /\ m.ptr \in 1 .. n.ptr /\ n.ptr # Null
    BY <1>2, MemoryFacts DEF Extends, Bufs, Null
  <2>2. Size(m) = m.size[m.ptr] /\ Size(n) = n.size[n.ptr]
    BY <1>2, <2>1 DEF Size
  <2>3. /\ m.size[m.ptr] <= n.size[m.ptr]
        /\ \A i \in 0 .. m.size[m.ptr] - 1 : n.elem[m.ptr][i] = m.elem[m.ptr][i]
    BY <2>1 DEF Extends
  <2>4. /\ n.size[m.ptr] <= n.size[n.ptr]
        /\ \A i \in 0 .. n.size[m.ptr] - 1 : n.elem[m.ptr][i] = n.elem[n.ptr][i]
    BY <2>1 DEF MemoryOK
  <2>5. m.size[m.ptr] \in Nat /\ n.size[m.ptr] \in Nat /\ n.size[n.ptr] \in Nat
    BY <2>1, MemoryFacts DEF Bufs, Null
  <2>6. QED
    BY <2>2, <2>3, <2>4, <2>5
<1>3. QED
  BY <1>1, <1>2

\* The current buffer of a good memory holds no more than its capacity.
LEMMA SizeWithinCap ==
  ASSUME NEW m \in Memory, MemoryOK(m)
  PROVE  Size(m) <= Cap(m)
BY MemoryFacts DEF MemoryOK, Size, Cap, Bufs, Null

\* Growing keeps the promise made to readers of the old buffer.
LEMMA GrownExtends ==
  ASSUME NEW m \in Memory, MemoryOK(m), m.ptr < MaxBufs,
         NEW c \in 0 .. MaxCap, Cap(m) < c
  PROVE  MemoryOK(Grown(m, c)) /\ Extends(m, Grown(m, c))
<1> DEFINE g == Grown(m, c)
           f == m.ptr + 1
<1>1. f \in Bufs /\ f # Null /\ m.ptr \in 0 .. MaxBufs
  BY MemoryFacts DEF Bufs, Null
<1>2. g \in Memory
  BY GrownType
<1>3. /\ g.ptr = f /\ g.ptrRel
      /\ g.size[f] = Size(m) /\ g.cap[f] = c /\ ~g.sizeRel[f]
  BY <1>1, MemoryFacts DEF Grown, ReservePublishOrder, Release
<1>4. \A i \in Index : i < Size(m) => g.elem[f][i] = m.elem[m.ptr][i]
  BY <1>1, MemoryFacts DEF Grown
<1>5. ASSUME NEW b \in 1 .. m.ptr
      PROVE  /\ g.size[b] = m.size[b] /\ g.cap[b] = m.cap[b]
             /\ g.sizeRel[b] = m.sizeRel[b] /\ g.elem[b] = m.elem[b]
             /\ b \in Bufs /\ b # f
  <2>1. b \in Bufs /\ b # f
    BY <1>1, MemoryFacts DEF Bufs, Null
  <2>2. QED
    BY <2>1, MemoryFacts DEF Grown
<1>6. Size(m) \in Nat /\ Size(m) <= c
  <2>1. Cap(m) \in Nat /\ Size(m) \in Nat /\ Size(m) <= Cap(m)
    BY SizeType, SizeWithinCap
  <2>2. QED
    BY <2>1
<1>7. ASSUME NEW b \in 1 .. m.ptr
      PROVE  /\ m.size[b] \in 0 .. MaxCap /\ m.size[b] <= m.cap[b] /\ m.size[b] <= Size(m)
             /\ \A i \in 0 .. m.size[b] - 1 : m.elem[b][i] = m.elem[m.ptr][i] /\ i \in Index
  BY SMTT(30), <1>1, <1>5, MemoryFacts DEF MemoryOK, Size, Null, Index
<1> HIDE DEF g, f
<1>8. MemoryOK(g)
  <2>1. ASSUME NEW b \in 1 .. g.ptr
        PROVE  /\ g.size[b] <= g.cap[b]
               /\ g.size[b] <= g.size[g.ptr]
               /\ \A i \in 0 .. g.size[b] - 1 : g.elem[b][i] = g.elem[g.ptr][i]
    <3>1. CASE b = f
      BY <1>3, <1>6, <3>1
    <3>2. CASE b \in 1 .. m.ptr
      <4>1. \A i \in 0 .. m.size[b] - 1 : i \in Index /\ i < Size(m)
        BY <1>6, <1>7, <3>2
      <4>2. QED
        BY <1>3, <1>4, <1>5, <1>6, <1>7, <3>2, <4>1
    <3>3. QED
      BY <1>1, <1>3, <3>1, <3>2 DEF f
  <2>2. QED
    BY <1>3, <2>1 DEF MemoryOK
<1>9. Extends(m, g)
  BY <1>1, <1>3, <1>5, <1>7 DEF Extends, f
<1>10. QED
  BY <1>8, <1>9 DEF g

\* Writing behind the committed elements disturbs none of them.
LEMMA SetElemExtends ==
  ASSUME NEW m \in Memory, MemoryOK(m), m.ptr # Null,
         NEW i \in Index, Size(m) <= i, NEW v \in Elems
  PROVE  MemoryOK(SetElem(m, m.ptr, i, v)) /\ Extends(m, SetElem(m, m.ptr, i, v))
<1> DEFINE s == SetElem(m, m.ptr, i, v)
<1>1. /\ s.ptr = m.ptr /\ s.ptrRel = m.ptrRel /\ s.size = m.size
      /\ s.cap = m.cap /\ s.sizeRel = m.sizeRel
  BY DEF SetElem, Memory
<1>2. s.elem = [m.elem EXCEPT ![m.ptr][i] = v]
  BY DEF SetElem, Memory
<1>3. \A b \in 1 .. m.ptr, j \in Index :
        j < Size(m) => s.elem[b][j] = m.elem[b][j]
  BY <1>2, MemoryFacts, SizeType, ConstantsAssumption DEF Index
<1>4. m.ptr \in 1 .. m.ptr /\ Size(m) = m.size[m.ptr] /\ Size(m) \in Nat
  BY MemoryFacts, SizeType DEF Size, Bufs, Null
<1>5. ASSUME NEW b \in 1 .. m.ptr
      PROVE  /\ m.size[b] \in 0 .. MaxCap /\ m.size[b] <= m.cap[b] /\ m.size[b] <= Size(m)
             /\ \A j \in 0 .. m.size[b] - 1 :
                  m.elem[b][j] = m.elem[m.ptr][j] /\ j \in Index /\ j < Size(m)
  <2>1. m.size[b] \in 0 .. MaxCap /\ MaxCap \in Nat
    BY MemoryFacts
  <2>2. /\ m.size[b] <= m.cap[b] /\ m.size[b] <= Size(m)
        /\ \A j \in 0 .. m.size[b] - 1 : m.elem[b][j] = m.elem[m.ptr][j]
    BY <1>4 DEF MemoryOK
  <2>3. \A j \in 0 .. m.size[b] - 1 : j \in Index /\ j < Size(m)
    BY <1>4, <2>1, <2>2 DEF Index
  <2>4. QED
    BY <2>1, <2>2, <2>3
<1> HIDE DEF s
<1>6. MemoryOK(s)
  BY <1>1, <1>3, <1>4, <1>5 DEF MemoryOK
<1>7. Extends(m, s)
  BY <1>1, <1>3, <1>5, MemoryFacts DEF Extends, Bufs, Null
<1>8. QED
  BY <1>6, <1>7 DEF s

\* Publishing one more element, with a release store.
LEMMA SizedExtends ==
  ASSUME NEW m \in Memory, MemoryOK(m), m.ptr # Null, Size(m) + 1 <= Cap(m)
  PROVE  LET s == Sized(m, Size(m) + 1, Release)
         IN  MemoryOK(s) /\ Extends(m, s) /\ Size(s) = Size(m) + 1
<1> DEFINE s == Sized(m, Size(m) + 1, Release)
<1>1. /\ s.ptr = m.ptr /\ s.ptrRel = m.ptrRel /\ s.cap = m.cap /\ s.elem = m.elem
      /\ s.size = [m.size EXCEPT ![m.ptr] = Size(m) + 1]
      /\ s.sizeRel = [m.sizeRel EXCEPT ![m.ptr] = TRUE]
  BY DEF Sized, Memory
<1>2. /\ m.ptr \in 1 .. m.ptr /\ m.ptr \in Bufs
      /\ Size(m) = m.size[m.ptr] /\ Cap(m) = m.cap[m.ptr] /\ Size(m) \in Nat
  BY MemoryFacts, SizeType DEF Size, Cap, Bufs, Null
<1>3. s.size[m.ptr] = Size(m) + 1 /\ s.sizeRel[m.ptr]
  BY <1>1, <1>2, MemoryFacts
<1>4. \A b \in 1 .. m.ptr : b # m.ptr => s.size[b] = m.size[b] /\ s.sizeRel[b] = m.sizeRel[b]
  BY <1>1, MemoryFacts
<1>5. \A b \in 1 .. m.ptr : m.size[b] \in Nat /\ m.cap[b] \in Nat
  BY MemoryFacts
<1> HIDE DEF s
<1>6. MemoryOK(s)
  BY <1>1, <1>2, <1>3, <1>4, <1>5 DEF MemoryOK
<1>7. Extends(m, s)
  BY <1>1, <1>2, <1>3, <1>4, <1>5, MemoryFacts DEF Extends, Bufs, Null
<1>8. Size(s) = Size(m) + 1
  BY <1>1, <1>3 DEF Size
<1>9. QED
  BY <1>6, <1>7, <1>8 DEF s

\* A store of a memory that extends the current one keeps the history good.
LEMMA HistoryStep ==
  ASSUME TypeOK, HistoryOK, NEW m \in Memory, MemoryOK(m), Extends(Now, m),
         Store(m) \/ StoreIfChanged(m)
  PROVE  HistoryOK'
<1>1. Now \in Memory /\ Len(hist) \in Nat \ {0}
  BY NowType DEF TypeOK
<1>2. /\ Len(hist') \in {Len(hist), Len(hist) + 1}
      /\ \A k \in 1 .. Len(hist) : hist'[k] = hist[k]
      /\ hist'[Len(hist')] = m
  BY StoreHistory DEF TypeOK
<1>3. \A k \in 1 .. Len(hist) : hist[k] \in Memory /\ Extends(hist[k], Now)
  BY <1>1 DEF HistoryOK, TypeOK, Now
<1>4. \A k \in 1 .. Len(hist) : Extends(hist[k], m)
  BY <1>1, <1>3, ExtendsTransitive
<1>5. ASSUME NEW k \in 1 .. Len(hist')
      PROVE  k \in 1 .. Len(hist) \/ (k = Len(hist') /\ hist'[k] = m)
  BY <1>1, <1>2
<1>6. \A k \in 1 .. Len(hist') : MemoryOK(hist'[k])
  BY <1>2, <1>5 DEF HistoryOK
<1>7. ASSUME NEW j \in 1 .. Len(hist'), NEW k \in 1 .. Len(hist'), j <= k
      PROVE  Extends(hist'[j], hist'[k])
  <2>1. CASE k \in 1 .. Len(hist)
    <3>1. j \in 1 .. Len(hist)
      BY <1>1, <1>7, <2>1
    <3>2. QED
      BY <1>2, <1>7, <2>1, <3>1 DEF HistoryOK
  <2>2. CASE hist'[k] = m /\ j \in 1 .. Len(hist)
    BY <1>2, <1>4, <2>2
  <2>3. CASE hist'[k] = m /\ hist'[j] = m
    BY <2>3, ExtendsReflexive
  <2>4. QED
    BY <1>5, <2>1, <2>2, <2>3
<1>8. QED
  BY <1>6, <1>7 DEF HistoryOK

-----------------------------------------------------------------------------
(* The writer's steps *)

\* Whatever an appending writer stores extends what was there.
LEMMA WriterExtends ==
  ASSUME AppendOnly, TypeOK, WriterOK, HistoryOK, WriterNext
  PROVE  /\ \/ UNCHANGED memoryVars
            \/ \E m \in Memory : /\ MemoryOK(m) /\ Extends(Now, m)
                                 /\ Store(m) \/ StoreIfChanged(m)
         /\ fault' \in {fault, "overrun_write"}
<1> DEFINE Stored == \E m \in Memory : /\ MemoryOK(m) /\ Extends(Now, m)
                                       /\ Store(m) \/ StoreIfChanged(m)
           Good == /\ UNCHANGED memoryVars \/ Stored
                   /\ fault' \in {fault, "overrun_write"}
<1>1. Now \in Memory /\ MemoryOK(Now)
  BY NowType DEF TypeOK, HistoryOK, Now
<1>2. ASSUME NEW m, StoreIfChanged(m),
             \/ m \in PrepareOutcomes
             \/ \E c \in 0 .. MaxCap : m \in ReserveOutcomes(c)
      PROVE  Stored
  <2>1. m \in Memory
    BY <1>2, OutcomeType
  <2>2. CASE m = Now
    BY <1>1, <1>2, <2>2, ExtendsReflexive
  <2>3. CASE \E c \in 0 .. MaxCap : Cap(Now) < c /\ Now.ptr < MaxBufs /\ m = Grown(Now, c)
    BY <1>1, <1>2, <2>1, <2>3, GrownExtends
  <2>4. QED
    BY <1>2, <2>2, <2>3, OutcomeCases
<1>3. ASSUME NEW op \in WriterOps \cap {"prepare", "push_back"}, NEW v \in Values,
             PreparePush(op, v)
      PROVE  Good
  <2>1. op = "prepare"
    BY DEF AppendOnly
  <2>2. PICK m \in PrepareOutcomes : StoreIfChanged(m)
    BY <1>3 DEF PreparePush
  <2>3. fault' = fault
    BY <1>3, <2>1 DEF PreparePush
  <2>4. QED
    BY <1>2, <2>2, <2>3
<1>4. ASSUME NEW c \in 0 .. MaxCap, Reserve(c)
      PROVE  Good
  BY <1>2, <1>4 DEF Reserve
<1>5. ~("clear" \in WriterOps /\ Clear)
  BY DEF AppendOnly
<1>6. CASE ZeroElem
  <2>1. CASE w.idx < Now.cap[w.buf]
    <3>1. /\ w.buf = Now.ptr /\ w.buf # Null /\ w.idx = Size(Now) /\ w.idx \in Index
      BY <1>1, <1>6, <2>1, ConstantsAssumption
      DEF TypeOK, WriterOK, ZeroElem, Writer, Memory, Index
    <3>2. SetElem(Now, w.buf, w.idx, Zero) \in Memory
      BY <1>1, <3>1, SetElemType DEF Elems, Memory
    <3>3. Size(Now) <= w.idx
      BY <3>1 DEF Index
    <3>4. /\ MemoryOK(SetElem(Now, w.buf, w.idx, Zero))
          /\ Extends(Now, SetElem(Now, w.buf, w.idx, Zero))
      BY <1>1, <3>1, <3>3, SetElemExtends DEF Elems
    <3>5. QED
      BY <1>6, <2>1, <3>2, <3>4 DEF ZeroElem
  <2>2. CASE ~(w.idx < Now.cap[w.buf])
    BY <1>6, <2>2 DEF ZeroElem
  <2>3. QED
    BY <2>1, <2>2
<1>7. w.op # "push_back"
  BY DEF AppendOnly, TypeOK, Writer
<1>8. CASE Fill
  <2>1. /\ w.buf = Now.ptr /\ w.buf # Null /\ w.idx = Size(Now)
        /\ w.idx \in Index /\ w.val \in Elems
    BY <1>1, <1>7, <1>8, ConstantsAssumption
    DEF TypeOK, WriterOK, Fill, Writer, Memory, Index
  <2>2. SetElem(Now, w.buf, w.idx, w.val) \in Memory
    BY <1>1, <2>1, SetElemType DEF Memory
  <2>3. Size(Now) <= w.idx
    BY <2>1 DEF Index
  <2>4. /\ MemoryOK(SetElem(Now, w.buf, w.idx, w.val))
        /\ Extends(Now, SetElem(Now, w.buf, w.idx, w.val))
    BY <1>1, <2>1, <2>3, SetElemExtends
  <2>5. QED
    BY <1>8, <2>2, <2>4 DEF Fill
<1>9. CASE CommitPush
  <2>1. /\ Now.ptr # Null /\ Size(Now) \in Nat /\ Cap(Now) \in 0 .. MaxCap
        /\ Size(Now) + 1 <= Cap(Now)
    <3>1. Size(Now) \in 0 .. MaxCap /\ Cap(Now) \in 0 .. MaxCap
      BY <1>1, SizeType
    <3>2. /\ Now.ptr # Null /\ w.idx = Size(Now) /\ w.idx < Now.cap[Now.ptr]
      BY <1>9 DEF TypeOK, WriterOK, CommitPush, Writer
    <3>3. QED
      BY <3>1, <3>2, ConstantsAssumption DEF Cap
  <2>2. (Size(Now) + 1) % U32 = Size(Now) + 1 /\ Size(Now) + 1 \in 0 .. MaxCap
    BY <2>1, ConstantsAssumption
  <2>3. Sized(Now, Size(Now) + 1, Release) \in Memory
    BY <1>1, <2>1, <2>2, SizedType
  <2>4. /\ MemoryOK(Sized(Now, Size(Now) + 1, Release))
        /\ Extends(Now, Sized(Now, Size(Now) + 1, Release))
    BY <1>1, <2>1, SizedExtends
  <2>5. QED
    BY <1>9, <2>2, <2>3, <2>4 DEF CommitPush, CommitOrder
<1>10. CASE Abandon
  BY <1>10 DEF Abandon
<1>11. QED
  BY <1>3, <1>4, <1>5, <1>6, <1>8, <1>9, <1>10 DEF WriterNext

LEMMA WriterAppendStep ==
  ASSUME AppendOnly, TypeOK, AppendInv, WriterNext
  PROVE  AppendInv'
<1>1. TypeOK' /\ WriterOK' /\ UNCHANGED rd
  BY WriterTypeStep DEF AppendInv
<1>2. fault' \in {fault, "overrun_write"}
  BY WriterExtends DEF AppendInv
<1>3. ReadersSafe'
  BY <1>2 DEF AppendInv, ReadersSafe
<1>4. CASE UNCHANGED memoryVars
  BY <1>1, <1>3, <1>4
  DEF AppendInv, memoryVars, HistoryOK, ReaderOK, ReadsCommitted, Now, Size
<1>5. CASE \E m \in Memory : /\ MemoryOK(m) /\ Extends(Now, m)
                             /\ Store(m) \/ StoreIfChanged(m)
  <2>1. PICK m \in Memory : /\ MemoryOK(m) /\ Extends(Now, m)
                            /\ Store(m) \/ StoreIfChanged(m)
    BY <1>5
  <2>2. HistoryOK'
    BY <2>1, HistoryStep DEF AppendInv
  <2>3. /\ Now' = m /\ floor' = floor
        /\ \A k \in 1 .. Len(hist) : hist'[k] = hist[k]
    BY <2>1, StoreHistory DEF TypeOK
  <2>4. ASSUME NEW r \in Readers
        PROVE  ReaderOK(r)'
    <3>1. hist'[floor'[r]] = hist[floor[r]]
      BY <2>3 DEF TypeOK
    <3>2. QED
      BY <1>1, <3>1 DEF AppendInv, ReaderOK, Size
  <2>5. ReadsCommitted'
    <3>1. Now \in Memory
      BY NowType DEF TypeOK
    <3>2. /\ Size(Now) \in Nat /\ Size(m) \in Nat /\ Size(Now) <= Size(m)
          /\ \A i \in 0 .. Size(Now) - 1 : m.elem[m.ptr][i] = Now.elem[Now.ptr][i]
      BY <2>1, <3>1, ExtendsCommitted
    <3>3. SUFFICES ASSUME NEW r \in Readers, rd[r].pc = "done"
                   PROVE  /\ rd[r].idx < Size(m)
                          /\ rd[r].out = m.elem[m.ptr][rd[r].idx]
      BY <1>1, <2>3 DEF ReadsCommitted, Size
    <3>4. rd[r].idx \in Nat
      BY DEF TypeOK, Reader
    <3>5. rd[r].idx < Size(Now) /\ rd[r].out = Now.elem[Now.ptr][rd[r].idx]
      BY <3>3 DEF AppendInv, ReadsCommitted
    <3>6. QED
      BY <3>2, <3>4, <3>5
  <2>6. QED
    BY <1>1, <1>3, <2>2, <2>4, <2>5 DEF AppendInv
<1>6. QED
  BY <1>4, <1>5, WriterExtends DEF AppendInv


-----------------------------------------------------------------------------
(* The readers' steps *)

\* A snapshot a reader can see extends the oldest one it may still read.
LEMMA VisibleExtends ==
  ASSUME TypeOK, HistoryOK, NEW r \in Readers, NEW k \in Visible(r)
  PROVE  /\ k \in 1 .. Len(hist) /\ floor[r] \in 1 .. Len(hist)
         /\ hist[k] \in Memory /\ hist[floor[r]] \in Memory /\ Now \in Memory
         /\ MemoryOK(hist[k]) /\ MemoryOK(hist[floor[r]]) /\ MemoryOK(Now)
         /\ Extends(hist[floor[r]], hist[k])
         /\ Extends(hist[floor[r]], Now)
         /\ Size(hist[floor[r]]) <= Size(hist[k])
<1>1. floor[r] \in 1 .. Len(hist) /\ k \in 1 .. Len(hist) /\ floor[r] <= k
  BY DEF TypeOK, Visible
<1>2. Len(hist) \in 1 .. Len(hist)
  BY <1>1
<1>3. hist[k] \in Memory /\ hist[floor[r]] \in Memory /\ Now \in Memory
  BY <1>1, <1>2 DEF TypeOK, Now
<1>4. /\ MemoryOK(hist[k]) /\ MemoryOK(hist[floor[r]]) /\ MemoryOK(Now)
      /\ Extends(hist[floor[r]], hist[k]) /\ Extends(hist[floor[r]], Now)
  BY <1>1, <1>2 DEF HistoryOK, Now
<1>5. QED
  BY <1>1, <1>3, <1>4, ExtendsCommitted

\* No reader is told a smaller size than before.
SeenGrows == \A r \in Readers : rd[r].seen <= rd'[r].seen

\* The parts of the invariant a step of r cannot disturb.
LEMMA ReaderFrame ==
  ASSUME TypeOK, AppendInv, NEW r \in Readers, UNCHANGED <<hist, w>>,
         \A s \in Readers \ {r} : rd'[s] = rd[s] /\ floor'[s] = floor[s],
         ReaderOK(r)', ReadersSafe', rd[r].seen <= rd'[r].seen,
         rd'[r].pc = "done" => /\ rd'[r].idx < Size(Now)
                               /\ rd'[r].out = Now.elem[Now.ptr][rd'[r].idx]
  PROVE  AppendInv' /\ SeenGrows
<1>1. HistoryOK'
  BY DEF AppendInv, HistoryOK
<1>2. WriterOK'
  BY DEF AppendInv, WriterOK, Now, Size
<1>3. \A s \in Readers \ {r} : ReaderOK(s)'
  BY DEF AppendInv, ReaderOK, Size
<1>4. ReadsCommitted'
  BY DEF AppendInv, ReadsCommitted, Now, Size
<1>5. SeenGrows
  <2>1. \A s \in Readers : rd[s].seen \in Int
    BY DEF TypeOK, Reader
  <2>2. QED
    BY <2>1 DEF SeenGrows
<1>6. QED
  BY <1>1, <1>2, <1>3, <1>4, <1>5 DEF AppendInv

\* The calls of the C API go through "ptr", "size", "elem" and "done" only.
LEMMA ReaderOpCases ==
  ASSUME AppendOnly, TypeOK, NEW r \in Readers
  PROVE  rd[r] \in Reader /\ rd[r].op # "iterate"
BY DEF AppendOnly, TypeOK, Reader

LEMMA ReaderAppendStep ==
  ASSUME AppendOnly, TypeOK, AppendInv, NEW r \in Readers, ReaderNext(r)
  PROVE  AppendInv' /\ SeenGrows
<1>1. rd[r] \in Reader /\ rd[r].op # "iterate" /\ ReaderOK(r)
  BY ReaderOpCases DEF AppendInv
<1>2. rd[r].seen \in Nat /\ rd[r].idx \in Nat /\ rd[r].buf \in Bufs \cup {Null}
  BY <1>1, ConstantsAssumption DEF Reader
<1>3. HistoryOK /\ ReadersSafe
  BY DEF AppendInv
<1>4. CASE \E op \in ReaderOps : Call(r, op)
  <2>0. PICK op \in ReaderOps : Call(r, op)
    BY <1>4
  <2>1. PICK i \in Indices(r, op) :
          /\ rd[r].pc = "idle"
          /\ rd' = [rd EXCEPT ![r].pc = IF op = "iterate" THEN "begin" ELSE "ptr",
                              ![r].op = op, ![r].idx = i]
          /\ UNCHANGED <<memoryVars, w, fault>>
    BY <2>0 DEF Call
  <2>2. op # "iterate"
    BY DEF AppendOnly
  <2>3. /\ rd'[r].pc = "ptr" /\ rd'[r].op = op /\ rd'[r].idx = i
        /\ rd'[r].seen = rd[r].seen
        /\ \A s \in Readers \ {r} : rd'[s] = rd[s]
    BY <1>1, <2>1, <2>2 DEF TypeOK, Reader
  <2>4. op = "get_int32" => i < rd[r].seen
    BY <1>2, <2>1 DEF Indices
  <2>5. hist' = hist /\ floor' = floor /\ fault' = fault /\ w' = w
    BY <2>1 DEF memoryVars
  <2>6. ReaderOK(r)'
    BY <1>1, <2>3, <2>4, <2>5 DEF ReaderOK, Size
  <2>7. QED
    BY <1>2, <1>3, <2>3, <2>5, <2>6, ReaderFrame DEF ReadersSafe
<1>5. ~Begin(r)
  BY <1>1 DEF Begin, ReaderOK
<1>6. ASSUME NEW b \in Bufs \cup {Null}, NEW n \in 0 .. MaxCap, WithSize(r, b, n),
             UNCHANGED <<hist, w>>, floor'[r] \in 1 .. Len(hist),
             \A s \in Readers \ {r} : floor'[s] = floor[s],
             rd[r].seen <= n,
             rd[r].op = "get_int32" => rd[r].idx < n,
             n <= Size(hist[floor'[r]]),
             n > 0 => /\ b \in 1 .. hist[floor'[r]].ptr
                      /\ n <= hist[floor'[r]].size[b]
      PROVE  AppendInv' /\ SeenGrows
  <2> DEFINE m == hist[floor'[r]]
  <2>1. m \in Memory /\ Size(m) \in Nat
    BY <1>6, SizeType DEF TypeOK
  <2>2. \A s \in Readers \ {r} : rd'[s] = rd[s]
    BY <1>6 DEF WithSize, TypeOK
  <2>3. fault' = fault
    BY <1>6 DEF WithSize, InBounds
  <2>4. \/ rd'[r] = IdleReader(n)
        \/ rd'[r] = IdleReader(rd[r].seen)
        \/ /\ rd'[r] = [rd[r] EXCEPT !.pc = "elem", !.buf = b, !.left = n]
           /\ rd[r].idx < n
    BY <1>1, <1>6 DEF WithSize, InBounds, TypeOK, Reader
  <2>5. hist'[floor'[r]] = m
    BY <1>6
  <2>6. n \in Nat /\ rd[r].seen <= Size(m)
    BY <1>2, <1>6, <2>1, ConstantsAssumption
  <2>7. ReaderOK(r)' /\ rd'[r].pc # "done"
    <3>1. CASE rd'[r] = IdleReader(n)
      BY <1>6, <2>5, <3>1 DEF ReaderOK, IdleReader, Size
    <3>2. CASE rd'[r] = IdleReader(rd[r].seen)
      BY <2>5, <2>6, <3>2 DEF ReaderOK, IdleReader, Size
    <3>3. CASE /\ rd'[r] = [rd[r] EXCEPT !.pc = "elem", !.buf = b, !.left = n]
               /\ rd[r].idx < n
      <4>1. /\ rd'[r].pc = "elem" /\ rd'[r].buf = b
            /\ rd'[r].seen = rd[r].seen /\ rd'[r].idx = rd[r].idx
        BY <1>1, <3>3 DEF Reader
      <4>2. n > 0 /\ b \in 1 .. m.ptr /\ n <= m.size[b] /\ m.size[b] \in Nat
        BY <1>2, <1>6, <2>1, <2>6, <3>3, MemoryFacts
      <4>3. rd[r].idx < m.size[b]
        BY <1>2, <2>6, <3>3, <4>2
      <4>4. QED
        BY <2>5, <2>6, <4>1, <4>2, <4>3 DEF ReaderOK, Size
    <3>4. QED
      BY <2>4, <3>1, <3>2, <3>3
  <2>8. rd[r].seen <= rd'[r].seen
    <3>1. IdleReader(n).seen = n /\ IdleReader(rd[r].seen).seen = rd[r].seen
      BY DEF IdleReader
    <3>2. [rd[r] EXCEPT !.pc = "elem", !.buf = b, !.left = n].seen = rd[r].seen
      BY <1>1 DEF Reader
    <3> HIDE DEF m
    <3>3. rd'[r].seen \in {n, rd[r].seen}
      BY <2>4, <3>1, <3>2
    <3>4. QED
      BY <1>2, <1>6, <3>3
  <2>9. QED
    BY <1>3, <1>6, <2>2, <2>3, <2>7, <2>8, ReaderFrame DEF ReadersSafe
<1>7. CASE LoadPtr(r)
  <2>1. PICK k \in Visible(r) :
          /\ rd[r].pc = "ptr"
          /\ Load(r, k, PtrLoadOrder, hist[k].ptrRel)
          /\ IF hist[k].ptr = Null
             THEN WithSize(r, Null, 0)
             ELSE /\ rd' = [rd EXCEPT ![r].pc = "size", ![r].buf = hist[k].ptr]
                  /\ UNCHANGED fault
    BY <1>7 DEF LoadPtr
  <2>2. w' = w
    BY <1>7 DEF LoadPtr
  <2> DEFINE l == hist[floor[r]]
             m == hist[k]
  <2>3. /\ k \in 1 .. Len(hist) /\ floor[r] \in 1 .. Len(hist)
        /\ l \in Memory /\ m \in Memory /\ MemoryOK(m)
        /\ Size(l) <= Size(m)
    BY <1>3, VisibleExtends
  <2>4. /\ hist' = hist
        /\ floor'[r] = IF m.ptrRel THEN k ELSE floor[r]
        /\ \A s \in Readers \ {r} : floor'[s] = floor[s]
    BY <2>1, LoadType DEF PtrLoadOrder, Acquire
  <2>5. rd[r].seen <= Size(m) /\ Size(l) \in Nat /\ Size(m) \in Nat
    BY <1>1, <1>2, <2>3, SizeType DEF ReaderOK
  <2>6. CASE m.ptr = Null
    <3>1. Size(m) = 0 /\ rd[r].seen = 0
      BY <1>2, <2>5, <2>6 DEF Size
    <3>2. rd[r].op # "get_int32"
      BY <1>1, <1>2, <2>1, <3>1 DEF ReaderOK
    <3>3. floor'[r] \in 1 .. Len(hist)
      BY <2>3, <2>4
    <3>4. 0 <= Size(hist[floor'[r]])
      BY <2>3, <2>4, <2>5
    <3>5. WithSize(r, Null, 0)
      BY <2>1, <2>6
    <3>6. 0 \in 0 .. MaxCap /\ Null \in Bufs \cup {Null} /\ ~(0 > 0)
      BY ConstantsAssumption
    <3>7. rd[r].seen <= 0
      BY <3>1
    <3> HIDE DEF l, m
    <3>8. QED
      BY <1>6, <2>2, <2>4, <3>2, <3>3, <3>4, <3>5, <3>6, <3>7
  <2>7. CASE m.ptr # Null
    <3>1. floor'[r] = k
      BY <2>3, <2>4, <2>7 DEF MemoryOK
    <3>2. /\ rd'[r].pc = "size" /\ rd'[r].buf = m.ptr
          /\ rd'[r].op = rd[r].op /\ rd'[r].idx = rd[r].idx /\ rd'[r].seen = rd[r].seen
          /\ \A s \in Readers \ {r} : rd'[s] = rd[s]
          /\ fault' = fault
      BY <1>1, <2>1, <2>7 DEF TypeOK, Reader
    <3>3. m.ptr \in 1 .. m.ptr /\ Size(m) = m.size[m.ptr]
      BY <2>3, <2>7, MemoryFacts DEF Size, Bufs, Null
    <3>4. rd[r].op = "get_int32" => rd[r].idx < Size(m)
      BY <1>1, <1>2, <2>1, <2>5 DEF ReaderOK
    <3>5. ReaderOK(r)'
      BY <2>4, <2>5, <3>1, <3>2, <3>3, <3>4 DEF ReaderOK, Size
    <3>6. QED
      BY <1>2, <1>3, <2>2, <2>4, <3>2, <3>5, ReaderFrame DEF ReadersSafe
  <2>8. QED
    BY <2>6, <2>7
<1>8. CASE LoadSize(r)
  <2> DEFINE b == rd[r].buf
             l == hist[floor[r]]
  <2>1. PICK k \in Visible(r) :
          /\ rd[r].pc = "size"
          /\ IF b <= hist[k].ptr
             THEN /\ Load(r, k, SizeLoadOrder, hist[k].sizeRel[b])
                  /\ WithSize(r, b, hist[k].size[b])
             ELSE /\ fault' = "uninit_read"
                  /\ UNCHANGED <<memoryVars, rd>>
    BY <1>8 DEF LoadSize
  <2>2. w' = w
    BY <1>8 DEF LoadSize
  <2> DEFINE m == hist[k]
             n == m.size[b]
  <2>3. /\ k \in 1 .. Len(hist) /\ floor[r] \in 1 .. Len(hist)
        /\ l \in Memory /\ m \in Memory /\ MemoryOK(m) /\ MemoryOK(l) /\ Extends(l, m)
    BY <1>3, VisibleExtends
  <2>4. /\ b \in 1 .. l.ptr /\ rd[r].seen <= l.size[b]
        /\ rd[r].op = "get_int32" => rd[r].idx < l.size[b]
    BY <1>1, <2>1 DEF ReaderOK
  <2>5. /\ b \in Bufs /\ b \in 1 .. m.ptr /\ b <= m.ptr
        /\ n \in 0 .. MaxCap /\ l.size[b] \in Nat
    <3>1. b \in Bufs /\ l.ptr \in Nat /\ m.ptr \in Nat /\ l.ptr <= m.ptr
      <4>1. l.ptr \in Nat /\ m.ptr \in Nat
        BY <2>3, MemoryFacts DEF Bufs, Null
      <4>2. b \in Bufs /\ l.ptr <= m.ptr
        BY <2>3, <2>4, MemoryFacts DEF Extends
      <4>3. QED
        BY <4>1, <4>2
    <3>2. QED
      BY SMTT(30), <2>3, <2>4, <3>1, MemoryFacts
  <2>6. /\ l.size[b] <= n
        /\ ~m.sizeRel[b] => n = l.size[b]
    BY <2>3, <2>4 DEF Extends
  <2>7. /\ hist' = hist
        /\ floor'[r] = IF m.sizeRel[b] THEN k ELSE floor[r]
        /\ \A s \in Readers \ {r} : floor'[s] = floor[s]
        /\ WithSize(r, b, n)
    BY <2>1, <2>5, LoadType DEF SizeLoadOrder, Acquire
  <2>8. rd[r].seen <= n /\ (rd[r].op = "get_int32" => rd[r].idx < n)
    BY <1>2, <2>4, <2>5, <2>6, ConstantsAssumption
  <2>9. /\ floor'[r] \in 1 .. Len(hist)
        /\ b \in 1 .. hist[floor'[r]].ptr
        /\ n <= hist[floor'[r]].size[b]
        /\ n <= Size(hist[floor'[r]])
    <3>1. CASE m.sizeRel[b]
      <4>1. floor'[r] = k /\ n <= n
        BY <2>5, <2>7, <3>1
      <4>2. n <= Size(m)
        BY <2>3, <2>5 DEF MemoryOK, Size, Null
      <4>3. QED
        BY <2>3, <2>5, <4>1, <4>2
    <3>2. CASE ~m.sizeRel[b]
      <4>1. floor'[r] = floor[r] /\ n = l.size[b]
        BY <2>6, <2>7, <3>2
      <4>2. l.size[b] <= Size(l)
        BY <2>3, <2>4 DEF MemoryOK, Size, Null
      <4>3. l.size[b] <= l.size[b]
        BY <2>5
      <4>4. QED
        BY <2>3, <2>4, <2>7, <4>1, <4>2, <4>3
    <3>3. QED
      BY <3>1, <3>2
  <2> HIDE DEF b, n
  <2>10. QED
    BY <1>6, <2>2, <2>5, <2>7, <2>8, <2>9
<1>9. CASE ReadElem(r)
  <2> DEFINE b == rd[r].buf
             i == rd[r].idx
             l == hist[floor[r]]
  <2>1. PICK k \in Visible(r) :
          LET m == hist[k] IN
          IF b # Null /\ b <= m.ptr /\ i < m.cap[b]
          THEN /\ rd' = [rd EXCEPT ![r].pc = "done", ![r].out = m.elem[b][i]]
               /\ UNCHANGED fault
          ELSE /\ fault' = IF b = Null THEN "null_read"
                           ELSE IF b <= m.ptr THEN "overrun_read" ELSE "uninit_read"
               /\ UNCHANGED rd
    BY <1>1, <1>9 DEF ReadElem
  <2>2. rd[r].pc = "elem" /\ hist' = hist /\ floor' = floor /\ w' = w
    BY <1>9 DEF ReadElem, memoryVars
  <2> DEFINE m == hist[k]
  <2>3. /\ l \in Memory /\ m \in Memory /\ Now \in Memory
        /\ MemoryOK(l) /\ MemoryOK(Now) /\ Extends(l, m) /\ Extends(l, Now)
    BY <1>3, VisibleExtends
  <2>4. b \in 1 .. l.ptr /\ i < l.size[b]
    BY <1>1, <2>2 DEF ReaderOK
  <2>5. /\ b \in Bufs /\ b # Null /\ b <= m.ptr
        /\ l.size[b] \in Nat /\ l.cap[b] \in Nat
    <3>1. b \in Bufs /\ l.ptr \in Nat /\ m.ptr \in Nat /\ l.ptr <= m.ptr
      <4>1. l.ptr \in Nat /\ m.ptr \in Nat
        BY <2>3, MemoryFacts DEF Bufs, Null
      <4>2. b \in Bufs /\ l.ptr <= m.ptr
        BY <2>3, <2>4, MemoryFacts DEF Extends
      <4>3. QED
        BY <4>1, <4>2
    <3>2. QED
      BY <2>3, <2>4, <3>1, MemoryFacts DEF Bufs, Null
  <2>6. i < m.cap[b] /\ m.elem[b][i] = l.elem[b][i]
    <3>1. l.size[b] <= l.cap[b] /\ m.cap[b] = l.cap[b]
      BY <2>3, <2>4 DEF MemoryOK, Extends
    <3>2. \A j \in 0 .. l.size[b] - 1 : m.elem[b][j] = l.elem[b][j]
      BY <2>3, <2>4 DEF Extends
    <3>3. i \in 0 .. l.size[b] - 1
      BY <1>2, <2>4, <2>5
    <3>4. i < m.cap[b]
      BY <2>5, <3>1, <3>3
    <3>5. QED
      BY <3>2, <3>3, <3>4
  <2>7. /\ i \in 0 .. Size(l) - 1 /\ l.elem[b][i] = l.elem[l.ptr][i]
    <3>1. /\ l.size[b] <= l.size[l.ptr] /\ l.size[l.ptr] \in Nat
          /\ Size(l) = l.size[l.ptr]
      BY SMTT(30), <2>3, <2>4, MemoryFacts DEF MemoryOK, Size, Bufs, Null
    <3>2. \A j \in 0 .. l.size[b] - 1 : l.elem[b][j] = l.elem[l.ptr][j]
      BY <2>3, <2>4 DEF MemoryOK
    <3>3. i \in 0 .. l.size[b] - 1
      BY <1>2, <2>4, <2>5
    <3>4. i \in 0 .. Size(l) - 1
      BY <2>5, <3>1, <3>3
    <3>5. QED
      BY <3>2, <3>3, <3>4
  <2>8. i < Size(Now) /\ l.elem[l.ptr][i] = Now.elem[Now.ptr][i]
    <3>1. /\ Size(l) \in Nat /\ Size(Now) \in Nat /\ Size(l) <= Size(Now)
          /\ \A j \in 0 .. Size(l) - 1 : Now.elem[Now.ptr][j] = l.elem[l.ptr][j]
      BY <2>3, ExtendsCommitted
    <3>2. i < Size(Now)
      <4>1. \A s, t \in Nat, j \in Nat : j \in 0 .. s - 1 /\ s <= t => j < t
        OBVIOUS
      <4>2. i \in Nat /\ i \in 0 .. Size(l) - 1
        BY <1>2, <2>7
      <4>3. QED
        BY <3>1, <4>1, <4>2
    <3>3. QED
      BY <2>7, <3>1, <3>2
  <2>9. /\ rd' = [rd EXCEPT ![r].pc = "done", ![r].out = m.elem[b][i]]
        /\ fault' = fault
    BY <2>1, <2>5, <2>6
  <2>10. /\ rd'[r].pc = "done" /\ rd'[r].idx = i /\ rd'[r].out = Now.elem[Now.ptr][i]
         /\ rd'[r].seen = rd[r].seen
         /\ \A s \in Readers \ {r} : rd'[s] = rd[s]
    BY <1>1, <2>6, <2>7, <2>8, <2>9 DEF TypeOK, Reader
  <2>11. ReaderOK(r)'
    BY <1>1, <2>2, <2>10 DEF ReaderOK, Size
  <2>12. rd[r].seen <= rd'[r].seen
    BY <1>2, <2>10
  <2> HIDE DEF b, i, l, m
  <2>13. QED
    BY <1>3, <2>2, <2>8, <2>12, <2>9, <2>10, <2>11, ReaderFrame DEF ReadersSafe
<1>10. CASE Done(r)
  <2>1. /\ rd' = [rd EXCEPT ![r] = IdleReader(@.seen)]
        /\ hist' = hist /\ floor' = floor /\ w' = w /\ fault' = fault
    BY <1>1, <1>10 DEF Done, memoryVars
  <2>2. /\ rd'[r].pc = "idle" /\ rd'[r].seen = rd[r].seen
        /\ \A s \in Readers \ {r} : rd'[s] = rd[s]
    BY <2>1 DEF TypeOK, IdleReader
  <2>3. ReaderOK(r)'
    BY <1>1, <2>1, <2>2 DEF ReaderOK, Size
  <2>4. QED
    BY <1>2, <1>3, <2>1, <2>2, <2>3, ReaderFrame DEF ReadersSafe
<1>11. QED
  BY <1>4, <1>5, <1>7, <1>8, <1>9, <1>10 DEF ReaderNext

-----------------------------------------------------------------------------
(* The theorems *)

LEMMA AppendInit ==
  ASSUME Init
  PROVE  AppendInv
<1>1. Len(hist) = 1 /\ hist[1] = EmptyMemory /\ Now = EmptyMemory
  BY DEF Init, MemoryInit, Now
<1>2. EmptyMemory.ptr = Null
  BY DEF EmptyMemory
<1>3. HistoryOK
  <2>1. MemoryOK(EmptyMemory)
    BY <1>2 DEF MemoryOK, Null
  <2>2. Extends(EmptyMemory, EmptyMemory)
    BY EmptyMemoryType, ExtendsReflexive
  <2>3. QED
    BY <1>1, <2>1, <2>2 DEF HistoryOK
<1>4. WriterOK
  BY DEF Init, WriterOK, IdleWriter
<1>5. \A r \in Readers : ReaderOK(r)
  <2>1. SUFFICES ASSUME NEW r \in Readers
                 PROVE  ReaderOK(r)
    OBVIOUS
  <2>2. hist[floor[r]] = EmptyMemory /\ Size(EmptyMemory) = 0
    BY <1>1, <1>2 DEF Init, MemoryInit, Size
  <2>3. rd[r].pc = "idle" /\ rd[r].seen = 0
    BY DEF Init, IdleReader
  <2>4. QED
    BY <2>2, <2>3 DEF ReaderOK
<1>6. QED
  BY <1>3, <1>4, <1>5 DEF AppendInv, Init, ReadsCommitted, ReadersSafe, IdleReader

LEMMA AppendNext ==
  ASSUME AppendOnly, TypeOK, AppendInv, [Next]_vars
  PROVE  AppendInv' /\ SeenGrows
<1>1. CASE WriterNext
  <2>1. rd' = rd /\ \A r \in Readers : rd[r].seen \in Int
    BY <1>1, WriterTypeStep DEF AppendInv, TypeOK, Reader
  <2>2. QED
    BY <1>1, <2>1, WriterAppendStep DEF SeenGrows
<1>2. CASE \E r \in Readers : ReaderNext(r)
  BY <1>2, ReaderAppendStep
<1>3. CASE UNCHANGED vars
  <2>1. \A r \in Readers : rd[r].seen \in Int
    BY DEF TypeOK, Reader
  <2>2. QED
    BY <1>3, <2>1 DEF vars, AppendInv, HistoryOK, WriterOK, ReaderOK, ReadsCommitted,
                      ReadersSafe, Now, Size, SeenGrows
<1>4. QED
  BY <1>1, <1>2, <1>3 DEF Next

\* The invariant of an array that is only appended to.
THEOREM AppendCorrect ==
  ASSUME AppendOnly
  PROVE  Spec => []AppendInv
<1>1. Init => AppendInv
  BY AppendInit
<1>2. TypeOK /\ AppendInv /\ [Next]_vars => AppendInv'
  BY AppendNext
<1>3. QED
  BY <1>1, <1>2, TypeCorrect, PTL DEF Spec

\* Whatever a reader dereferences is the committed element of its index
\* (msm_array_get, msm_array_get_int32).
THEOREM ReadsCommittedCorrect ==
  ASSUME AppendOnly
  PROVE  Spec => []ReadsCommitted
<1>1. AppendInv => ReadsCommitted
  BY DEF AppendInv
<1>2. QED
  BY <1>1, AppendCorrect, PTL

\* A failing malloc or a wrapped capacity never harms a reader.
THEOREM ReadersSafeCorrect ==
  ASSUME AppendOnly
  PROVE  Spec => []ReadersSafe
<1>1. AppendInv => ReadersSafe
  BY DEF AppendInv
<1>2. QED
  BY <1>1, AppendCorrect, PTL

\* No reader has a pointer to the element being prepared
\* (msm_allocator.h:95).
THEOREM PrivateUntilCommitCorrect ==
  ASSUME AppendOnly
  PROVE  Spec => []PrivateUntilCommit
<1>1. TypeOK /\ AppendInv => PrivateUntilCommit
  <2>1. SUFFICES ASSUME TypeOK, AppendInv, w.op = "prepare", w.pc # "idle",
                        NEW r \in Readers, Holds(r)
                 PROVE  Target(r) # <<w.buf, w.idx>>
    BY DEF PrivateUntilCommit, AppendInv, WriterOK
  <2>2. w.idx = Size(Now) /\ rd[r].idx \in Nat /\ Now \in Memory /\ Size(Now) \in Nat
    BY <2>1, NowType, SizeType DEF TypeOK, AppendInv, WriterOK, Writer, Reader
  <2>3. rd[r].idx < Size(Now)
    <3>1. CASE rd[r].pc = "done"
      BY <3>1, <2>1 DEF AppendInv, ReadsCommitted
    <3>2. CASE rd[r].pc = "elem"
      <4> DEFINE l == hist[floor[r]]
      <4>1. floor[r] \in Visible(r)
        <5>1. floor[r] \in 1 .. Len(hist) /\ Len(hist) \in Nat
          BY <2>1, NowType DEF TypeOK
        <5>2. QED
          BY <5>1 DEF Visible
      <4>2. /\ l \in Memory /\ MemoryOK(l) /\ MemoryOK(Now) /\ Extends(l, Now)
        BY <2>1, <4>1, VisibleExtends DEF AppendInv
      <4>3. rd[r].buf \in 1 .. l.ptr /\ rd[r].idx < l.size[rd[r].buf]
        BY <2>1, <3>2 DEF AppendInv, ReaderOK
      <4>4. /\ l.size[rd[r].buf] <= Size(l) /\ l.size[rd[r].buf] \in Nat
        BY <4>2, <4>3, MemoryFacts DEF MemoryOK, Size, Null
      <4>5. Size(l) \in Nat /\ Size(l) <= Size(Now)
        BY <2>2, <4>2, ExtendsCommitted
      <4>6. QED
        BY <2>2, <4>3, <4>4, <4>5
    <3>3. QED
      BY <2>1, <3>1, <3>2 DEF Holds
  <2>4. QED
    BY <2>2, <2>3 DEF Target
<1>2. QED
  BY <1>1, AppendCorrect, TypeCorrect, PTL

\* A reader is never told a smaller size (msm_array_size).
THEOREM SizeNeverShrinksCorrect ==
  ASSUME AppendOnly
  PROVE  Spec => SizeNeverShrinks
<1>1. TypeOK /\ AppendInv /\ [Next]_vars => [SeenGrows]_vars
  BY AppendNext
<1>2. Spec => [][SeenGrows]_vars
  BY <1>1, AppendCorrect, TypeCorrect, PTL DEF Spec
<1>3. QED
  BY <1>2 DEF SizeNeverShrinks, SeenGrows

-----------------------------------------------------------------------------
(* With a malloc that never fails and capacities that double without         *)
(* wrapping, the writer is safe as well.                                     *)

Headroom == MallocMayFail = FALSE /\ 2 * MaxCap < U32

\* The prepared element fits.
RoomOK == w.pc = "zero" => w.idx < Now.cap[w.buf]

LEMMA PreparedFits ==
  ASSUME Headroom, TypeOK, HistoryOK, NEW m \in PrepareOutcomes, m.ptr # Null
  PROVE  Size(Now) < m.cap[m.ptr]
<1>1. Now \in Memory /\ MemoryOK(Now)
  BY NowType DEF TypeOK, HistoryOK, Now
<1>2. Size(Now) \in 0 .. MaxCap /\ Cap(Now) \in 0 .. MaxCap /\ Size(Now) <= Cap(Now)
  BY <1>1, SizeType, SizeWithinCap
<1>3. CASE Now.ptr = Null \/ Size(Now) >= Cap(Now)
  <2>1. NextCap(Cap(Now)) \in Nat /\ NextCap(Cap(Now)) > Cap(Now)
    <3>1. CASE Cap(Now) = 0
      BY <3>1, ConstantsAssumption DEF NextCap
    <3>2. CASE Cap(Now) # 0
      <4>1. Cap(Now) * 2 \in Nat /\ Cap(Now) * 2 < U32
        BY <1>2, ConstantsAssumption DEF Headroom
      <4>2. QED
        BY <1>2, <3>2, <4>1, ConstantsAssumption DEF NextCap
    <3>3. QED
      BY <3>1, <3>2
  <2>2. /\ NextCap(Cap(Now)) <= MaxCap /\ Now.ptr < MaxBufs
        /\ m = Grown(Now, NextCap(Cap(Now)))
    BY <1>2, <1>3, <2>1 DEF PrepareOutcomes, ReserveOutcomes, Headroom
  <2>3. Cap(m) = NextCap(Cap(Now))
    BY <1>1, <2>1, <2>2, GrownSize
  <2>4. Cap(m) = m.cap[m.ptr]
    BY DEF Cap
  <2>5. QED
    BY <1>2, <2>1, <2>3, <2>4
<1>4. CASE ~(Now.ptr = Null \/ Size(Now) >= Cap(Now))
  <2>1. m = Now
    BY <1>4 DEF PrepareOutcomes
  <2>2. QED
    BY <1>2, <1>4, <2>1 DEF Cap
<1>5. QED
  BY <1>3, <1>4

LEMMA RoomNext ==
  ASSUME AppendOnly, Headroom, TypeOK, AppendInv, RoomOK, MemorySafe, [Next]_vars
  PROVE  RoomOK' /\ MemorySafe'
<1>1. Now \in Memory /\ HistoryOK
  BY NowType DEF TypeOK, AppendInv
<1>2. ASSUME NEW op \in WriterOps \cap {"prepare", "push_back"}, NEW v \in Values,
             PreparePush(op, v)
      PROVE  RoomOK' /\ MemorySafe'
  <2>1. op = "prepare"
    BY DEF AppendOnly
  <2>2. PICK m \in PrepareOutcomes :
          /\ StoreIfChanged(m)
          /\ IF m.ptr = Null
             THEN UNCHANGED w
             ELSE w' = [pc |-> "zero", op |-> op, buf |-> m.ptr, idx |-> Size(Now), val |-> v]
    BY <1>2 DEF PreparePush
  <2>3. w.pc = "idle" /\ fault' = fault
    BY <1>2, <2>1 DEF PreparePush
  <2>4. Now' = m
    BY <2>2, OutcomeType, StoreHistory DEF TypeOK
  <2>5. QED
    BY <1>1, <2>2, <2>3, <2>4, PreparedFits DEF RoomOK, MemorySafe
<1>3. CASE WriterNext /\ \A op \in WriterOps \cap {"prepare", "push_back"}, v \in Values :
                            ~PreparePush(op, v)
  <2>1. w'.pc # "zero" /\ fault' = fault
    BY <1>3 DEF WriterNext, Reserve, Clear, ZeroElem, Fill, CommitPush, Abandon,
                RoomOK, IdleWriter, TypeOK, Writer
  <2>2. QED
    BY <2>1 DEF RoomOK, MemorySafe
<1>4. ASSUME NEW r \in Readers, ReaderNext(r)
      PROVE  RoomOK' /\ MemorySafe'
  <2>1. UNCHANGED <<hist, w>>
    BY <1>4 DEF ReaderNext, Call, Begin, LoadPtr, LoadSize, ReadElem, Done, Load, memoryVars
  <2>2. fault' \in {fault, "null_read", "overrun_read", "uninit_read"}
    BY <1>4 DEF ReaderNext, Call, Begin, LoadPtr, LoadSize, WithSize, ReadElem, Done
  <2>3. fault' \notin {"null_read", "overrun_read", "uninit_read"}
    BY <1>4, ReaderAppendStep DEF AppendInv, ReadersSafe
  <2>4. QED
    BY <2>1, <2>2, <2>3 DEF RoomOK, MemorySafe, Now
<1>5. CASE UNCHANGED vars
  BY <1>5 DEF vars, RoomOK, MemorySafe, Now
<1>6. QED
  BY <1>2, <1>3, <1>4, <1>5 DEF Next

\* Under these two conditions no call reads or writes outside live memory;
\* without the first one, or without the second, the writer does.
THEOREM MemorySafeCorrect ==
  ASSUME AppendOnly, Headroom
  PROVE  Spec => []MemorySafe
<1>1. Init => RoomOK /\ MemorySafe
  BY DEF Init, RoomOK, MemorySafe, IdleWriter
<1>2. TypeOK /\ AppendInv /\ RoomOK /\ MemorySafe /\ [Next]_vars => RoomOK' /\ MemorySafe'
  BY RoomNext
<1>3. QED
  BY <1>1, <1>2, AppendCorrect, TypeCorrect, PTL DEF Spec

-----------------------------------------------------------------------------
(* The array implements one growing sequence.                                *)

\* What is committed was given to the call.
ValuesOK ==
  /\ w.pc \in {"zero", "fill"} => w.val \in Values
  /\ w.pc = "commit" => Now.elem[Now.ptr][w.idx] \in Values

LEMMA CommittedSeq ==
  ASSUME TypeOK
  PROVE  /\ Committed \in Seq(Elems) /\ Len(Committed) = Size(Now)
         /\ Size(Now) \in 0 .. MaxCap /\ DOMAIN Committed = 1 .. Size(Now)
         /\ \A i \in 1 .. Size(Now) : Committed[i] = Now.elem[Now.ptr][i - 1]
<1>1. Now \in Memory /\ Size(Now) \in 0 .. MaxCap
  BY NowType, SizeType DEF TypeOK
<1>2. ASSUME NEW i \in 1 .. Size(Now)
      PROVE  Now.elem[Now.ptr][i - 1] \in Elems
  <2>1. Now.ptr # Null
    BY <1>2 DEF Size
  <2>2. i - 1 \in Index
    BY <1>1, <1>2, ConstantsAssumption DEF Index
  <2>3. QED
    BY <1>1, <2>1, <2>2 DEF Memory
<1>3. Committed \in [1 .. Size(Now) -> Elems]
  BY <1>2 DEF Committed
<1>4. QED
  BY <1>1, <1>3 DEF Committed

\* Only a commit changes the sequence, by one element at its end.
LEMMA WriterSequence ==
  ASSUME AppendOnly, TypeOK, AppendInv, ValuesOK, WriterNext
  PROVE  /\ ValuesOK'
         /\ \/ Committed' = Committed
            \/ \E v \in Values : Committed' = Append(Committed, v)
<1>1. Now \in Memory /\ Len(hist) \in Nat \ {0} /\ Size(Now) \in 0 .. MaxCap
  BY NowType, SizeType DEF TypeOK
<1>2. TypeOK' /\ WriterOK'
  BY WriterTypeStep DEF AppendInv
<1>3. Now' \in Memory
  BY <1>2 DEF TypeOK, Now
<1>4. Extends(Now, Now') /\ MemoryOK(Now')
  <2>1. MemoryOK(Now)
    BY <1>1 DEF AppendInv, HistoryOK, Now
  <2>2. CASE UNCHANGED memoryVars
    <3>1. Now' = Now
      BY <2>2 DEF memoryVars, Now
    <3>2. QED
      BY <1>1, <2>1, <3>1, ExtendsReflexive
  <2>3. CASE \E m \in Memory : /\ MemoryOK(m) /\ Extends(Now, m)
                               /\ Store(m) \/ StoreIfChanged(m)
    BY <2>3, StoreHistory DEF TypeOK
  <2>4. QED
    BY <2>2, <2>3, WriterExtends DEF AppendInv
<1>5. \A i \in 0 .. Size(Now) - 1 : Now'.elem[Now'.ptr][i] = Now.elem[Now.ptr][i]
  BY <1>1, <1>3, <1>4, ExtendsCommitted
<1>6. ASSUME Size(Now)' = Size(Now)
      PROVE  Committed' = Committed
  BY <1>1, <1>5, <1>6 DEF Committed
<1>7. w.op # "push_back" /\ w \in Writer
  BY DEF AppendOnly, TypeOK, Writer
<1>8. ASSUME NEW op \in WriterOps \cap {"prepare", "push_back"}, NEW v \in Values,
             PreparePush(op, v)
      PROVE  ValuesOK' /\ Size(Now)' = Size(Now)
  <2>1. PICK m \in PrepareOutcomes :
          /\ StoreIfChanged(m)
          /\ IF m.ptr = Null
             THEN UNCHANGED w
             ELSE w' = [pc |-> "zero", op |-> op, buf |-> m.ptr,
                        idx |-> Size(Now), val |-> v]
    BY <1>8 DEF PreparePush
  <2>2. m \in Memory /\ Size(m) = Size(Now) /\ Now' = m
    BY <2>1, OutcomeType, StoreHistory DEF TypeOK
  <2>3. Size(Now)' = Size(m)
    BY <2>2 DEF Size
  <2>4. w.pc = "idle"
    BY <1>8 DEF PreparePush
  <2>5. QED
    BY <2>1, <2>2, <2>3, <2>4 DEF ValuesOK
<1>9. ASSUME NEW c \in 0 .. MaxCap, Reserve(c)
      PROVE  ValuesOK' /\ Size(Now)' = Size(Now)
  <2>1. PICK m \in ReserveOutcomes(c) : StoreIfChanged(m)
    BY <1>9 DEF Reserve
  <2>2. m \in Memory /\ Size(m) = Size(Now) /\ Now' = m
    BY <2>1, OutcomeType, StoreHistory DEF TypeOK
  <2>3. Size(Now)' = Size(m)
    BY <2>2 DEF Size
  <2>4. w.pc = "idle" /\ w' = w
    BY <1>9 DEF Reserve
  <2>5. QED
    BY <2>2, <2>3, <2>4 DEF ValuesOK
<1>10. ~("clear" \in WriterOps /\ Clear)
  BY DEF AppendOnly
<1>11. ASSUME NEW v \in Elems, NEW i \in Index, Now.ptr # Null,
              StoreIfChanged(SetElem(Now, Now.ptr, i, v))
       PROVE  Size(Now)' = Size(Now) /\ Now'.elem[Now'.ptr][i] = v
  <2>1. SetElem(Now, Now.ptr, i, v) \in Memory
    BY <1>1, <1>11, SetElemType, MemoryFacts
  <2>2. Now' = SetElem(Now, Now.ptr, i, v)
    BY <1>11, <2>1, StoreHistory DEF TypeOK
  <2>3. Now'.ptr = Now.ptr /\ Now'.size = Now.size /\ Now'.elem[Now.ptr][i] = v
    BY <1>1, <1>11, <2>2, SetElemFields
  <2>4. QED
    BY <2>3 DEF Size
<1>12. CASE ZeroElem
  <2>1. CASE w.idx < Now.cap[w.buf]
    <3>1. w.buf = Now.ptr /\ Now.ptr # Null /\ w.idx \in Index /\ Zero \in Elems
      BY <1>1, <1>12, <2>1, ConstantsAssumption
      DEF TypeOK, AppendInv, WriterOK, ZeroElem, Writer, Memory, Index, Elems
    <3>2. StoreIfChanged(SetElem(Now, Now.ptr, w.idx, Zero)) /\ w' = [w EXCEPT !.pc = "fill"]
      BY <1>7, <1>12, <2>1, <3>1 DEF ZeroElem
    <3>3. Size(Now)' = Size(Now)
      BY <1>11, <3>1, <3>2
    <3>4. w'.pc = "fill" /\ w'.val = w.val
      BY <1>7, <3>2 DEF Writer
    <3>5. QED
      BY <1>6, <1>12, <3>3, <3>4 DEF ValuesOK, ZeroElem
  <2>2. CASE ~(w.idx < Now.cap[w.buf])
    BY <1>6, <1>12, <2>2 DEF ZeroElem, memoryVars, Now, Size, ValuesOK
  <2>3. QED
    BY <2>1, <2>2
<1>13. CASE Fill
  <2>1. w.buf = Now.ptr /\ Now.ptr # Null /\ w.idx \in Index /\ w.val \in Elems
    BY <1>1, <1>13, ConstantsAssumption
    DEF TypeOK, AppendInv, WriterOK, Fill, Writer, Memory, Index
  <2>2. StoreIfChanged(SetElem(Now, Now.ptr, w.idx, w.val)) /\ w' = [w EXCEPT !.pc = "commit"]
    BY <1>7, <1>13, <2>1 DEF Fill
  <2>3. Size(Now)' = Size(Now) /\ Now'.elem[Now'.ptr][w.idx] = w.val
    BY <1>11, <2>1, <2>2
  <2>4. w'.pc = "commit" /\ w'.idx = w.idx
    BY <1>7, <2>2 DEF Writer
  <2>5. QED
    BY <1>6, <1>13, <2>3, <2>4 DEF ValuesOK, Fill
<1>14. CASE CommitPush
  <2>1. /\ Now.ptr # Null /\ w.idx = Size(Now) /\ w.idx < Cap(Now) /\ w.pc = "commit"
        /\ Cap(Now) \in 0 .. MaxCap
    BY <1>1, <1>14, SizeType DEF TypeOK, AppendInv, WriterOK, CommitPush, Writer, Cap
  <2>2. (Size(Now) + 1) % U32 = Size(Now) + 1 /\ Size(Now) + 1 \in 0 .. MaxCap
    BY <1>1, <2>1, ConstantsAssumption
  <2>3. Sized(Now, Size(Now) + 1, Release) \in Memory
    BY <1>1, <2>1, <2>2, SizedType
  <2>4. Now' = Sized(Now, Size(Now) + 1, Release) /\ w' = IdleWriter
    BY <1>7, <1>14, <2>2, <2>3, StoreHistory DEF CommitPush, CommitOrder, TypeOK
  <2>5. Now'.ptr = Now.ptr /\ Now'.elem = Now.elem /\ Now'.size[Now.ptr] = Size(Now) + 1
    BY <1>1, <2>1, <2>2, <2>4, SizedFields
  <2>6. Size(Now)' = Size(Now) + 1
    BY <2>1, <2>5 DEF Size
  <2>7. PICK v \in Values : v = Now.elem[Now.ptr][Size(Now)]
    BY <2>1 DEF ValuesOK
  <2>8. /\ Committed \in Seq(Elems) /\ Len(Committed) = Size(Now)
        /\ \A i \in 1 .. Size(Now) : Committed[i] = Now.elem[Now.ptr][i - 1]
    BY CommittedSeq
  <2>9. /\ Committed' \in Seq(Elems) /\ Len(Committed') = Size(Now) + 1
        /\ \A i \in 1 .. Size(Now) + 1 : Committed'[i] = Now.elem[Now.ptr][i - 1]
    <3>1. Committed' = [i \in 1 .. Size(Now) + 1 |-> Now.elem[Now.ptr][i - 1]]
      BY <2>5, <2>6 DEF Committed
    <3>2. ASSUME NEW i \in 1 .. Size(Now) + 1
          PROVE  Now.elem[Now.ptr][i - 1] \in Elems
      <4>1. i - 1 \in Index
        BY <1>1, <2>2, <3>2, ConstantsAssumption DEF Index
      <4>2. QED
        BY <1>1, <2>1, <4>1, MemoryFacts
    <3>3. PICK n \in Nat : n = Size(Now) + 1
      BY <1>1
    <3>4. Committed' \in [1 .. n -> Elems]
      BY <3>1, <3>2, <3>3
    <3>5. Committed' \in Seq(Elems) /\ Len(Committed') = n
      BY <3>4
    <3>6. QED
      BY <3>1, <3>3, <3>5
  <2>10. v \in Elems
    BY DEF Elems
  <2>11. /\ Append(Committed, v) \in Seq(Elems)
         /\ Len(Append(Committed, v)) = Size(Now) + 1
         /\ \A i \in 1 .. Size(Now) : Append(Committed, v)[i] = Committed[i]
         /\ Append(Committed, v)[Size(Now) + 1] = v
    BY <2>8, <2>10, AppendProperties
  <2>12. ASSUME NEW i \in 1 .. Size(Now) + 1
         PROVE  Committed'[i] = Append(Committed, v)[i]
    <3>1. CASE i \in 1 .. Size(Now)
      BY <2>8, <2>9, <2>11, <3>1
    <3>2. CASE i = Size(Now) + 1
      <4>1. i - 1 = Size(Now)
        BY <1>1, <3>2
      <4>2. QED
        BY <2>7, <2>9, <2>11, <3>2, <4>1
    <3>3. i \in 1 .. Size(Now) \/ i = Size(Now) + 1
      BY <1>1, <2>12
    <3>4. QED
      BY <3>1, <3>2, <3>3
  <2>13. Committed' = Append(Committed, v)
    BY <2>9, <2>11, <2>12, SeqEqual
  <2>14. QED
    BY <2>4, <2>13 DEF ValuesOK, IdleWriter
<1>15. CASE Abandon
  BY <1>6, <1>15 DEF Abandon, memoryVars, Now, Size, ValuesOK, IdleWriter
<1>16. QED
  BY <1>6, <1>8, <1>9, <1>10, <1>12, <1>13, <1>14, <1>15 DEF WriterNext

\* A step of a reader teaches it a length, or gives it an element, or takes
\* the element away.
LEMMA ReaderSequence ==
  ASSUME AppendOnly, TypeOK, AppendInv, NEW r \in Readers, ReaderNext(r)
  PROVE  Sequence!Learn(r) \/ Sequence!Read(r) \/ Sequence!Forget(r)
<1>1. rd[r] \in Reader /\ rd[r].op # "iterate" /\ rd[r].seen \in Nat /\ rd[r].idx \in Nat
  BY ReaderOpCases, ConstantsAssumption DEF Reader
<1>2. TypeOK' /\ hist' = hist /\ rd' \in [Readers -> Reader]
  <2>1. SizeHasBuffer
    BY MemoryFacts DEF AppendInv, ReaderOK, SizeHasBuffer, Null
  <2>2. QED
    BY <2>1, ReaderTypeStep DEF TypeOK
<1>3. Now' = Now /\ Committed' = Committed
  BY <1>2 DEF Now, Committed, Size
<1>4. AppendInv' /\ rd[r].seen <= rd'[r].seen
  BY ReaderAppendStep DEF SeenGrows
<1>5. Len(Committed) = Size(Now) /\ DOMAIN Committed = 1 .. Size(Now) /\ Size(Now) \in Nat
  BY CommittedSeq
<1>6. \A s \in Readers \ {r} : rd'[s] = rd[s]
  BY <1>1 DEF ReaderNext, Call, Begin, LoadPtr, LoadSize, WithSize, ReadElem, Done, TypeOK
<1>7. rd'[r].seen \in Nat /\ rd'[r].seen <= Size(Now)
  <2>1. PICK q \in Reader : q = rd'[r]
    BY <1>2
  <2>2. q.seen \in Nat
    BY ConstantsAssumption DEF Reader
  <2>3. floor'[r] \in 1 .. Len(hist) /\ Len(hist) \in 1 .. Len(hist)
    BY <1>2 DEF TypeOK
  <2> DEFINE m == hist[floor'[r]]
  <2>4. m \in Memory /\ Now \in Memory /\ Extends(m, Now) /\ MemoryOK(Now)
    BY <2>3 DEF TypeOK, AppendInv, HistoryOK, Now
  <2>5. q.seen <= Size(m)
    BY <1>2, <1>4, <2>1 DEF AppendInv, ReaderOK, Size
  <2>6. Size(m) \in Nat /\ Size(m) <= Size(Now)
    BY <2>4, ExtendsCommitted
  <2> HIDE DEF m
  <2>7. QED
    BY <1>5, <2>1, <2>2, <2>5, <2>6
<1>8. /\ Known' = [Known EXCEPT ![r] = rd'[r].seen]
      /\ rd'[r].seen = rd[r].seen => Known' = Known
  BY <1>6 DEF Known
<1>9. /\ rd[r].pc # "done" /\ rd'[r].pc # "done" => InHand' = InHand
      /\ rd'[r].pc # "done" => InHand' = [InHand EXCEPT ![r] = <<>>]
      /\ rd'[r].pc = "done" =>
           InHand' = [InHand EXCEPT ![r] = <<rd'[r].idx + 1, rd'[r].out>>]
  BY <1>6 DEF InHand
<1>10. CASE rd[r].pc # "done" /\ rd'[r].pc # "done"
  <2>1. rd'[r].seen \in Known[r] .. Len(Committed)
    BY <1>1, <1>4, <1>5, <1>7 DEF Known
  <2>2. QED
    BY <1>3, <1>8, <1>9, <1>10, <2>1 DEF Sequence!Learn
<1>11. CASE rd'[r].pc = "done" /\ rd[r].pc # "done"
  <2>1. ReadElem(r)
    <3>1. \A n : IdleReader(n).pc = "idle"
      BY DEF IdleReader
    <3>2. ASSUME NEW b, NEW n, WithSize(r, b, n)
          PROVE  rd'[r].pc # "done"
      BY <1>1, <1>11, <3>1, <3>2 DEF WithSize, TypeOK, Reader
    <3>3. ASSUME NEW op \in ReaderOps, Call(r, op)
          PROVE  rd'[r].pc # "done"
      BY <1>1, <3>3 DEF Call, TypeOK, Reader
    <3>4. CASE Begin(r)
      BY <1>1, <1>11, <3>4 DEF Begin, TypeOK, Reader
    <3>5. CASE LoadPtr(r)
      BY <1>1, <1>11, <3>2, <3>5 DEF LoadPtr, TypeOK, Reader
    <3>6. CASE LoadSize(r)
      BY <1>11, <3>2, <3>6 DEF LoadSize
    <3>7. CASE Done(r)
      BY <1>11, <3>7 DEF Done
    <3>8. QED
      BY <1>11, <3>3, <3>4, <3>5, <3>6, <3>7 DEF ReaderNext
  <2>2. rd'[r].seen = rd[r].seen
    BY <1>1, <1>11, <2>1 DEF ReadElem, TypeOK, Reader
  <2>3. rd'[r].idx \in Nat /\ rd'[r].idx < Size(Now) /\ rd'[r].out = Now.elem[Now.ptr][rd'[r].idx]
    <3>1. PICK q \in Reader : q = rd'[r]
      BY <1>2
    <3>2. q.idx \in Nat
      BY ConstantsAssumption DEF Reader
    <3>3. ReadsCommitted'
      BY <1>4 DEF AppendInv
    <3>4. QED
      BY <1>3, <1>11, <3>1, <3>2, <3>3 DEF ReadsCommitted, Size
  <2> DEFINE i == rd'[r].idx + 1
  <2>4. i \in DOMAIN Committed /\ Committed[i] = rd'[r].out
    <3>1. i \in 1 .. Size(Now) /\ i - 1 = rd'[r].idx
      BY <1>5, <2>3
    <3>2. QED
      BY <1>5, <2>3, <3>1, CommittedSeq
  <2>5. InHand' = [InHand EXCEPT ![r] = <<i, Committed[i]>>]
    BY <1>9, <1>11, <2>4
  <2> HIDE DEF i
  <2>6. QED
    BY <1>3, <1>8, <2>2, <2>4, <2>5 DEF Sequence!Read
<1>12. CASE rd[r].pc = "done"
  <2>1. Done(r)
    BY <1>12 DEF ReaderNext, Call, Begin, LoadPtr, LoadSize, ReadElem
  <2>2. rd'[r].pc = "idle" /\ rd'[r].seen = rd[r].seen
    BY <1>1, <2>1 DEF Done, IdleReader, TypeOK
  <2>3. QED
    BY <1>3, <1>8, <1>9, <2>2 DEF Sequence!Forget
<1>13. QED
  BY <1>10, <1>11, <1>12

LEMMA SequenceInit ==
  ASSUME Init
  PROVE  Sequence!Init /\ ValuesOK
<1>1. Now = EmptyMemory
  BY DEF Init, MemoryInit, Now
<1>2. Size(Now) = 0
  BY <1>1 DEF Size, EmptyMemory
<1>3. Committed = <<>>
  BY <1>2 DEF Committed
<1>4. Known = [r \in Readers |-> 0] /\ InHand = [r \in Readers |-> <<>>]
  BY DEF Init, IdleReader, Known, InHand
<1>5. QED
  BY <1>3, <1>4 DEF Sequence!Init, Init, ValuesOK, IdleWriter

LEMMA SequenceNext ==
  ASSUME AppendOnly, TypeOK, AppendInv, ValuesOK, [Next]_vars
  PROVE  ValuesOK' /\ [Sequence!Next]_(Sequence!vars)
<1>1. CASE WriterNext
  <2>1. rd' = rd
    BY <1>1, WriterTypeStep DEF AppendInv
  <2>2. Known' = Known /\ InHand' = InHand
    BY <2>1 DEF Known, InHand
  <2>3. QED
    BY <1>1, <2>2, WriterSequence DEF Sequence!Next, Sequence!Append1, Sequence!vars
<1>2. ASSUME NEW r \in Readers, ReaderNext(r)
      PROVE  ValuesOK' /\ [Sequence!Next]_(Sequence!vars)
  <2>1. SizeHasBuffer
    BY MemoryFacts DEF AppendInv, ReaderOK, SizeHasBuffer, Null
  <2>2. hist' = hist /\ w' = w
    BY <1>2, <2>1, ReaderTypeStep
  <2>3. ValuesOK'
    BY <2>2 DEF ValuesOK, Now
  <2>4. QED
    BY <1>2, <2>3, ReaderSequence DEF Sequence!Next
<1>3. CASE UNCHANGED vars
  BY <1>3 DEF vars, ValuesOK, Now, Size, Sequence!vars, Committed, Known, InHand
<1>4. QED
  BY <1>1, <1>2, <1>3 DEF Next

\* While the writer only appends, an array is one growing sequence: every
\* step of writer and readers, inside a call too, appends one element,
\* teaches a reader a length it did not have, hands it a committed element,
\* or changes nothing (msm_array_prepare_push to msm_array_get_int32).
THEOREM SequenceSpecCorrect ==
  ASSUME AppendOnly
  PROVE  Spec => SequenceSpec
<1>1. Init => Sequence!Init /\ ValuesOK
  BY SequenceInit
<1>2. TypeOK /\ AppendInv /\ ValuesOK /\ [Next]_vars =>
        ValuesOK' /\ [Sequence!Next]_(Sequence!vars)
  BY SequenceNext
<1>3. QED
  BY <1>1, <1>2, AppendCorrect, TypeCorrect, PTL DEF Spec, SequenceSpec, Sequence!Spec

=============================================================================
