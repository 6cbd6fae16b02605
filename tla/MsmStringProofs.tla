-------------------------- MODULE MsmStringProofs ---------------------------
(* Theorems about MsmString, for every set of readers and texts and for      *)
(* every bound: what a reader walks is one text (StringInv).                 *)
EXTENDS MsmString, SequenceTheorems, TLAPS

-----------------------------------------------------------------------------
(* The texts and the buffers built of them. *)

\* The bytes of a buffer are those of its text, then the terminator.
LEMMA BytesOfBuffer ==
  ASSUME NEW b \in Buffer, BufferOK(b)
  PROVE  /\ DOMAIN Bytes(b) = 0 .. Len(b.text)
         /\ \A i \in 0 .. Len(b.text) - 1 : Bytes(b)[i] = b.text[i + 1]
         /\ Bytes(b)[Len(b.text)] = NUL
<1>1. Len(b.text) \in Nat
  BY ConstantsAssumption DEF Buffer
<1>2. b.cap - 1 = Len(b.text) /\ b.len = Len(b.text)
  BY <1>1 DEF BufferOK
<1>3. QED
  BY <1>1, <1>2 DEF Bytes

LEMMA BytesOfLiteral ==
  DOMAIN Bytes(Literal) = {0} /\ Bytes(Literal)[0] = NUL
BY DEF Bytes, Literal

\* A walk that stops at a terminator, or where the text ends, has read the
\* text as it looks through a pointer to char.
LEMMA WalkIsCString ==
  ASSUME NEW t \in Seq(Chars), NEW got \in Seq(Chars), Walked(got, t),
         \A i \in 1 .. Len(got) : got[i] # NUL,
         Len(got) = Len(t) \/ t[Len(got) + 1] = NUL
  PROVE  got = CString(t)
<1> DEFINE ends == {n \in 0 .. Len(t) : n = Len(t) \/ t[n + 1] = NUL}
           least(n) == \A e \in ends : n <= e
<1>1. Len(got) \in ends /\ Len(got) \in Nat /\ Len(t) \in Nat
  BY DEF Walked
<1>2. least(Len(got))
  <2>1. SUFFICES ASSUME NEW e \in ends, e < Len(got) PROVE FALSE
    BY <1>1
  <2>2. e # Len(t) /\ e + 1 \in 1 .. Len(got)
    BY <1>1, <2>1 DEF Walked
  <2>3. t[e + 1] = NUL /\ got[e + 1] = t[e + 1]
    BY <2>1, <2>2 DEF Walked
  <2>4. QED
    BY <2>2, <2>3
<1>3. \A n \in ends : least(n) => n = Len(got)
  BY <1>1, <1>2
<1>4. (CHOOSE n \in ends : least(n)) = Len(got)
  BY <1>1, <1>2, <1>3
<1>5. CString(t) = SubSeq(t, 1, Len(got))
  BY <1>4 DEF CString
<1>6. /\ SubSeq(t, 1, Len(got)) \in Seq(Chars)
      /\ Len(SubSeq(t, 1, Len(got))) = Len(got)
      /\ \A i \in 1 .. Len(got) : SubSeq(t, 1, Len(got))[i] = t[i]
  BY <1>1, SubSeqProperties DEF Walked
<1>7. SubSeq(t, 1, Len(got)) = got
  BY <1>6, SeqEqual DEF Walked
<1>8. QED
  BY <1>5, <1>7

LEMMA NowType ==
  ASSUME TypeOK
  PROVE  Now \in Memory /\ Len(hist) \in Nat \ {0} /\ Now = hist[Len(hist)]
BY DEF Now, TypeOK

\* What a store does to the history.
LEMMA StoreHistory ==
  ASSUME TypeOK, NEW m \in Memory, Store(m)
  PROVE  /\ hist' \in Seq(Memory) /\ hist' # <<>> /\ floor' = floor
         /\ Len(hist) \in Nat \ {0}
         /\ Len(hist') = Len(hist) + 1
         /\ \A k \in 1 .. Len(hist) : hist'[k] = hist[k]
         /\ hist'[Len(hist) + 1] = m
BY DEF Store, TypeOK

LEMMA PublishedType ==
  ASSUME NEW m \in Memory, NEW b \in Nat
  PROVE  /\ Published(m, b) \in Memory
         /\ Published(m, b).ptr = b /\ Published(m, b).ptrRel
         /\ Published(m, b).bufs = m.bufs
BY DEF Published, PublishOrder, Release, Memory

\* The buffer a set builds is whole when the text and its terminator fit it.
LEMMA NewBufferOK ==
  ASSUME NEW t \in Texts, t # <<>>, Len(t) < NewBuffer(t).cap
  PROVE  NewBuffer(t) \in Buffer /\ BufferOK(NewBuffer(t)) /\ NewBuffer(t).text = t
<1>1. Len(t) \in 0 .. U32 - 1 /\ U32 \in Nat \ {0}
  BY ConstantsAssumption
<1>2. /\ NewBuffer(t) \in Buffer /\ NewBuffer(t).text = t
      /\ NewBuffer(t).len = Len(t) /\ NewBuffer(t).cap = (Len(t) + 1) % U32
  BY <1>1 DEF NewBuffer, Buffer
<1>3. NewBuffer(t).cap = Len(t) + 1
  <2>1. CASE Len(t) + 1 < U32
    BY <1>1, <1>2, <2>1
  <2>2. CASE Len(t) + 1 = U32
    BY <1>1, <1>2, <2>2
  <2>3. QED
    BY <1>1, <2>1, <2>2
<1>4. QED
  BY <1>2, <1>3 DEF BufferOK

LEMMA AddedBuffer ==
  ASSUME NEW m \in Memory, NEW b \in Buffer
  PROVE  LET n == [m EXCEPT !.bufs = Append(@, b)] IN
         /\ n \in Memory /\ Len(m.bufs) \in Nat
         /\ Len(n.bufs) = Len(m.bufs) + 1
         /\ n.bufs[Len(m.bufs) + 1] = b
         /\ \A i \in 1 .. Len(m.bufs) : n.bufs[i] = m.bufs[i]
         /\ DOMAIN m.bufs = 1 .. Len(m.bufs) /\ DOMAIN n.bufs = 1 .. Len(n.bufs)
<1>1. m.bufs \in Seq(Buffer)
  BY DEF Memory
<1>2. PICK s \in Seq(Buffer) : s = Append(m.bufs, b)
  BY <1>1, AppendProperties
<1>3. /\ Len(s) = Len(m.bufs) + 1 /\ s[Len(m.bufs) + 1] = b /\ Len(m.bufs) \in Nat
      /\ \A i \in 1 .. Len(m.bufs) : s[i] = m.bufs[i]
      /\ DOMAIN m.bufs = 1 .. Len(m.bufs) /\ DOMAIN s = 1 .. Len(s)
  BY <1>1, <1>2
<1>4. [m EXCEPT !.bufs = s] \in Memory /\ [m EXCEPT !.bufs = s].bufs = s
  BY DEF Memory
<1>5. [m EXCEPT !.bufs = Append(@, b)] = [m EXCEPT !.bufs = s]
  BY <1>2
<1>6. QED
  BY <1>3, <1>4, <1>5

\* A published memory: the old buffers, and the one the pointer leads to.
PublishedOver(n, m) ==
  /\ n.ptr \in 0 .. Len(n.bufs) /\ n.ptrRel
  /\ Extends(m, n)
  /\ \A b \in DOMAIN n.bufs : b \in DOMAIN m.bufs \/ BufferOK(n.bufs[b])
  /\ TextOf(n) \in Texts \cup {<<>>}

LEMMA TextPublished ==
  ASSUME NEW m \in Memory, NEW t \in Texts, t # <<>>, Len(t) < NewBuffer(t).cap
  PROVE  \E n \in Memory :
           /\ n = Published([m EXCEPT !.bufs = Append(@, NewBuffer(t))], Len(m.bufs) + 1)
           /\ PublishedOver(n, m)
<1>1. PICK b \in Buffer : b = NewBuffer(t) /\ BufferOK(b) /\ b.text = t
  BY NewBufferOK
<1>2. PICK m1 : m1 = [m EXCEPT !.bufs = Append(@, b)]
  OBVIOUS
<1>3. /\ m1 \in Memory /\ Len(m.bufs) \in Nat
      /\ Len(m1.bufs) = Len(m.bufs) + 1
      /\ m1.bufs[Len(m.bufs) + 1] = b
      /\ \A i \in 1 .. Len(m.bufs) : m1.bufs[i] = m.bufs[i]
      /\ DOMAIN m.bufs = 1 .. Len(m.bufs) /\ DOMAIN m1.bufs = 1 .. Len(m1.bufs)
  BY <1>2, AddedBuffer
<1>4. PICK n \in Memory :
        /\ n = Published(m1, Len(m.bufs) + 1)
        /\ n.ptr = Len(m.bufs) + 1 /\ n.ptrRel /\ n.bufs = m1.bufs
  <2>1. Len(m.bufs) + 1 \in Nat /\ m1 \in Memory
    BY <1>3
  <2>2. QED
    BY <2>1, PublishedType
<1>5. TextOf(n) = t
  BY <1>1, <1>3, <1>4 DEF TextOf, Null
<1>6. PublishedOver(n, m)
  BY <1>1, <1>3, <1>4, <1>5 DEF PublishedOver, Extends
<1>7. QED
  BY <1>1, <1>2, <1>4, <1>6

LEMMA EmptyPublished ==
  ASSUME NEW m \in Memory
  PROVE  Published(m, Null) \in Memory /\ PublishedOver(Published(m, Null), m)
<1>1. PICK n \in Memory : /\ n = Published(m, Null) /\ n.ptr = Null /\ n.ptrRel
                         /\ n.bufs = m.bufs
  BY PublishedType DEF Null
<1>2. Len(n.bufs) \in Nat
  BY DEF Memory
<1>3. PublishedOver(n, m)
  BY <1>1, <1>2 DEF PublishedOver, Extends, TextOf, Null
<1>4. QED
  BY <1>1, <1>3

\* Every step of the writer publishes a text over the snapshot before it, or
\* leaves the memory as it was.
LEMMA WriterStores ==
  ASSUME TypeOK, WriterNext
  PROVE  /\ UNCHANGED rd
         /\ \/ \E m \in Memory : Store(m) /\ UNCHANGED fault /\ PublishedOver(m, Now)
            \/ /\ UNCHANGED <<hist, floor>>
               /\ \/ UNCHANGED fault
                  \/ fault' = "overrun_write" /\ \E t \in Texts : ~(Len(t) < NewBuffer(t).cap)
<1>1. Now \in Memory
  BY NowType
<1>2. ASSUME NEW t \in Texts, SetText(t), Len(t) < NewBuffer(t).cap
      PROVE  \E m \in Memory : Store(m) /\ UNCHANGED fault /\ PublishedOver(m, Now)
  <2>1. t # <<>>
    BY <1>2 DEF SetText
  <2>2. PICK n \in Memory :
          /\ n = Published([Now EXCEPT !.bufs = Append(@, NewBuffer(t))], Len(Now.bufs) + 1)
          /\ PublishedOver(n, Now)
    BY <1>1, <1>2, <2>1, TextPublished
  <2>3. Store(n) /\ UNCHANGED fault
    BY <1>2, <2>2 DEF SetText
  <2>4. QED
    BY <2>2, <2>3
<1>3. ASSUME SetEmpty
      PROVE  \E m \in Memory : Store(m) /\ UNCHANGED fault /\ PublishedOver(m, Now)
  BY <1>1, <1>3, EmptyPublished DEF SetEmpty
<1>4. ASSUME NEW t \in Texts, SetText(t), ~(Len(t) < NewBuffer(t).cap)
      PROVE  UNCHANGED <<hist, floor>> /\ fault' = "overrun_write"
  BY <1>4 DEF SetText, memoryVars
<1>5. ASSUME NEW t \in Texts, SetDropped(t)
      PROVE  UNCHANGED <<hist, floor, fault>>
  BY <1>5 DEF SetDropped, memoryVars
<1>6. QED
  BY <1>2, <1>3, <1>4, <1>5 DEF WriterNext

-----------------------------------------------------------------------------
(* StringInv is inductive: the writer. *)

\* What ReadsOneText says of one reader.
ReadOK(r) ==
  LET t == TextOf(hist[floor[r]]) IN
  rd[r].pc = "done" =>
    /\ rd[r].op = "get" => rd[r].got = CString(t)
    /\ rd[r].op = "length" => rd[r].len = Len(t)
    /\ rd[r].op = "copy" /\ rd[r].lenBuf = rd[r].buf => rd[r].got = t

LEMMA EachReads == ReadsOneText <=> \A r \in Readers : ReadOK(r)
BY DEF ReadsOneText, ReadOK

LEMMA ExtendsTransitive ==
  ASSUME NEW l, NEW m, NEW n, Extends(l, m), Extends(m, n)
  PROVE  Extends(l, n)
BY DEF Extends

LEMMA HistoryStep ==
  ASSUME TypeOK, HistoryOK, NEW m \in Memory, Store(m), PublishedOver(m, Now)
  PROVE  HistoryOK'
<1> DEFINE n == Len(hist)
<1>1. /\ hist' \in Seq(Memory) /\ n \in Nat \ {0} /\ Len(hist') = n + 1
      /\ \A k \in 1 .. n : hist'[k] = hist[k]
      /\ hist'[n + 1] = m /\ Now = hist[n]
  BY StoreHistory, NowType
<1>2. \A b \in DOMAIN m.bufs : BufferOK(m.bufs[b])
  BY <1>1 DEF PublishedOver, Extends, HistoryOK
<1>3. ASSUME NEW k \in 1 .. n + 1
      PROVE  /\ hist'[k].ptr \in 0 .. Len(hist'[k].bufs)
             /\ IF k = 1 THEN hist'[k].ptr = Null ELSE hist'[k].ptrRel
             /\ \A b \in DOMAIN hist'[k].bufs : BufferOK(hist'[k].bufs[b])
  <2>1. CASE k = n + 1
    BY <1>1, <1>2, <2>1 DEF PublishedOver
  <2>2. CASE k # n + 1
    BY <1>1, <2>2 DEF HistoryOK
  <2>3. QED
    BY <2>1, <2>2
<1>4. ASSUME NEW k \in 1 .. n + 1, NEW j \in 1 .. k
      PROVE  Extends(hist'[j], hist'[k])
  <2>1. CASE k # n + 1
    BY <1>1, <2>1 DEF HistoryOK
  <2>2. CASE k = n + 1 /\ j # n + 1
    <3>1. Extends(hist[j], Now) /\ Extends(Now, m)
      BY <1>1, <2>2 DEF HistoryOK, PublishedOver
    <3>2. QED
      BY <1>1, <2>2, <3>1, ExtendsTransitive
  <2>3. CASE j = n + 1
    BY <2>3 DEF Extends
  <2>4. QED
    BY <2>1, <2>2, <2>3
<1>5. QED
  BY <1>1, <1>3, <1>4 DEF HistoryOK

LEMMA WriterStep ==
  ASSUME StringInv, WriterNext
  PROVE  StringInv'
<1>1. TypeOK /\ HistoryOK /\ UNCHANGED rd
  BY WriterStores DEF StringInv
<1>2. ASSUME NEW m \in Memory, Store(m), UNCHANGED fault, PublishedOver(m, Now)
      PROVE  StringInv'
  <2>1. /\ hist' \in Seq(Memory) /\ hist' # <<>> /\ floor' = floor
        /\ Len(hist) \in Nat \ {0} /\ Len(hist') = Len(hist) + 1
        /\ \A k \in 1 .. Len(hist) : hist'[k] = hist[k]
    BY <1>1, <1>2, StoreHistory
  <2>2. \A r \in Readers : floor[r] \in 1 .. Len(hist) /\ hist'[floor'[r]] = hist[floor[r]]
    BY <1>1, <2>1 DEF TypeOK
  <2>3. TypeOK'
    BY <1>1, <1>2, <2>1 DEF TypeOK
  <2>4. HistoryOK'
    BY <1>1, <1>2, HistoryStep
  <2>5. \A r \in Readers : ReaderOK(r)' /\ ReadOK(r)'
    BY SMTT(30), <1>1, <2>2, EachReads DEF StringInv, ReaderOK, ReadOK
  <2>6. QED
    BY <2>3, <2>4, <2>5, EachReads DEF StringInv, ReadsOneText, ReadOK
<1>3. ASSUME UNCHANGED <<hist, floor>>, fault' \in Faults
      PROVE  StringInv'
  BY <1>1, <1>3 DEF StringInv, TypeOK, HistoryOK, ReadsOneText, ReaderOK
<1>4. QED
  BY <1>1, <1>2, <1>3, WriterStores DEF TypeOK, Faults

-----------------------------------------------------------------------------
(* StringInv is inductive: the readers. *)

\* A reader's step concerns that reader, and the memory not at all.
LEMMA ReaderMoves ==
  ASSUME StringInv, NEW r \in Readers, UNCHANGED hist,
         NEW q \in Reader, rd' = [rd EXCEPT ![r] = q],
         NEW k \in 1 .. Len(hist), floor' = [floor EXCEPT ![r] = k],
         fault' \in Faults, q.pc = "len" => q.buf # Null,
         ReaderOK(r)', ReadOK(r)'
  PROVE  StringInv'
<1>1. /\ rd'[r] = q /\ rd' \in [Readers -> Reader]
      /\ floor' \in [Readers -> 1 .. Len(hist)]
      /\ \A s \in Readers \ {r} : rd'[s] = rd[s] /\ floor'[s] = floor[s]
  BY DEF StringInv, TypeOK
<1>2. TypeOK'
  BY <1>1 DEF StringInv, TypeOK
<1>3. HistoryOK'
  BY DEF StringInv, HistoryOK
<1>4. \A s \in Readers \ {r} : ReaderOK(s)' /\ ReadOK(s)'
  BY <1>1, EachReads DEF StringInv, ReaderOK, ReadOK
<1>5. ReadsOneText'
  BY <1>4 DEF ReadsOneText, ReadOK
<1>6. QED
  BY <1>2, <1>3, <1>4, <1>5 DEF StringInv

\* What a reader may look at extends what it has acquired.
LEMMA VisibleOK ==
  ASSUME StringInv, NEW r \in Readers, NEW k \in Visible(r)
  PROVE  /\ floor[r] \in 1 .. Len(hist) /\ k \in 1 .. Len(hist) /\ floor[r] <= k
         /\ hist[k] \in Memory /\ hist[floor[r]] \in Memory
         /\ Extends(hist[floor[r]], hist[k])
<1>1. Len(hist) \in Nat /\ floor[r] \in 1 .. Len(hist)
  BY DEF StringInv, TypeOK
<1>2. k \in 1 .. Len(hist) /\ floor[r] \in 1 .. k /\ floor[r] <= k
  BY <1>1 DEF Visible
<1>3. QED
  BY <1>1, <1>2 DEF StringInv, TypeOK, HistoryOK

\* The text of a snapshot, and the buffer it is in.
LEMMA SnapshotText ==
  ASSUME StringInv, NEW k \in 1 .. Len(hist)
  PROVE  /\ hist[k] \in Memory /\ hist[k].bufs \in Seq(Buffer)
         /\ Len(hist[k].bufs) \in Nat /\ DOMAIN hist[k].bufs = 1 .. Len(hist[k].bufs)
         /\ TextOf(hist[k]) \in Seq(Chars) /\ Len(TextOf(hist[k])) \in 0 .. U32 - 1
         /\ \/ hist[k].ptr = Null /\ TextOf(hist[k]) = <<>>
            \/ /\ hist[k].ptr # Null /\ hist[k].ptr \in DOMAIN hist[k].bufs
               /\ hist[k].bufs[hist[k].ptr] \in Buffer
               /\ BufferOK(hist[k].bufs[hist[k].ptr])
               /\ TextOf(hist[k]) = hist[k].bufs[hist[k].ptr].text
               /\ hist[k].bufs[hist[k].ptr].len = Len(TextOf(hist[k]))
               /\ Len(TextOf(hist[k])) # 0
<1> DEFINE m == hist[k]
<1>1. m \in Memory
  BY DEF StringInv, TypeOK
<1>2. /\ m.bufs \in Seq(Buffer) /\ Len(m.bufs) \in Nat
      /\ DOMAIN m.bufs = 1 .. Len(m.bufs)
  BY <1>1 DEF Memory
<1>3. /\ m.ptr \in 0 .. Len(m.bufs)
      /\ \A b \in DOMAIN m.bufs : BufferOK(m.bufs[b])
  BY DEF StringInv, HistoryOK
<1>4. CASE m.ptr = Null
  BY <1>1, <1>2, <1>4, ConstantsAssumption DEF TextOf
<1>5. CASE m.ptr # Null
  <2>1. m.ptr \in DOMAIN m.bufs /\ m.bufs[m.ptr] \in Buffer
    BY <1>2, <1>3, <1>5 DEF Null
  <2>2. PICK b \in Buffer : b = m.bufs[m.ptr]
    BY <2>1
  <2>3. TextOf(m) = b.text /\ BufferOK(b)
    BY <1>3, <1>5, <2>1, <2>2 DEF TextOf
  <2>4. b.text \in Seq(Chars) /\ Len(b.text) \in 0 .. U32 - 1 /\ b.text # <<>>
    BY <2>3, ConstantsAssumption DEF Buffer, BufferOK
  <2>5. Len(b.text) # 0
    BY <2>4
  <2>6. QED
    BY <1>1, <1>2, <1>5, <2>1, <2>2, <2>3, <2>4, <2>5 DEF BufferOK
<1>6. QED
  BY <1>4, <1>5

\* What a reader is when length returned, for copy and for its own sake, and
\* when get did.
LEMMA ReturnedReader ==
  ASSUME TypeOK, NEW r \in Readers, NEW n \in 0 .. U32 - 1, NEW b \in Nat,
         n = 0 <=> b = Null, Returns(r, b, n),
         rd[r].call \in {"length", "get"}, rd[r].op = "copy" \/ rd[r].op = rd[r].call
  PROVE  \E q \in Reader :
           /\ rd' = [rd EXCEPT ![r] = q] /\ q.op = rd[r].op /\ q.got = rd[r].got
           /\ \/ /\ rd[r].call = "length" /\ q.len = n /\ q.lenBuf = b
                 /\ \/ rd[r].op = "copy" /\ q.pc = "ptr" /\ q.call = "get"
                    \/ rd[r].op = "length" /\ q.pc = "done" /\ q.call = "length"
              \/ /\ rd[r].call = "get" /\ q.call = "get" /\ q.pc = "byte"
                 /\ q.buf = b /\ q.len = rd[r].len /\ q.lenBuf = rd[r].lenBuf
<1>1. PICK c \in Reader : c = rd[r]
  BY DEF TypeOK
<1>2. CASE c.call = "length" /\ c.op = "copy"
  <2>1. PICK q : q = [c EXCEPT !.pc = "ptr", !.call = "get", !.len = n, !.lenBuf = b]
    OBVIOUS
  <2>2. /\ q \in Reader /\ q.op = c.op /\ q.got = c.got
        /\ q.pc = "ptr" /\ q.call = "get" /\ q.len = n /\ q.lenBuf = b
    BY <2>1 DEF Reader
  <2>3. rd' = [rd EXCEPT ![r] = q]
    BY <1>1, <1>2, <2>1 DEF Returns
  <2>4. QED
    BY <1>1, <1>2, <2>2, <2>3
<1>3. CASE c.call = "length" /\ c.op = "length"
  <2>1. PICK q : q = [c EXCEPT !.pc = "done", !.len = n, !.lenBuf = b]
    OBVIOUS
  <2>2. /\ q \in Reader /\ q.op = c.op /\ q.got = c.got
        /\ q.pc = "done" /\ q.call = c.call /\ q.len = n /\ q.lenBuf = b
    BY <2>1 DEF Reader
  <2>3. rd' = [rd EXCEPT ![r] = q]
    BY <1>1, <1>3, <2>1 DEF Returns
  <2>4. QED
    BY <1>1, <1>3, <2>2, <2>3
<1>4. CASE c.call = "get"
  <2>1. PICK q : q = [c EXCEPT !.pc = "byte", !.buf = b]
    OBVIOUS
  <2>2. /\ q \in Reader /\ q.op = c.op /\ q.got = c.got /\ q.pc = "byte"
        /\ q.call = c.call /\ q.len = c.len /\ q.lenBuf = c.lenBuf /\ q.buf = b
    BY <2>1 DEF Reader
  <2>3. rd' = [rd EXCEPT ![r] = q]
    BY <1>1, <1>4, <2>1 DEF Returns
  <2>4. QED
    BY <1>1, <1>4, <2>2, <2>3
<1>5. QED
  BY <1>1, <1>2, <1>3, <1>4

\* A call that has found the pointer of the snapshot k, and the length of the
\* text there, returns to its caller.
LEMMA ReturnsOK ==
  ASSUME StringInv, NEW r \in Readers, NEW k \in Visible(r), NEW b, NEW n,
         UNCHANGED <<hist, fault>>, floor' = [floor EXCEPT ![r] = k],
         rd[r].pc \in {"ptr", "len"},
         b = hist[k].ptr, n = Len(TextOf(hist[k])), Returns(r, b, n)
  PROVE  StringInv'
<1> DEFINE c == rd[r]
           m == hist[k]
<1>1. /\ c \in Reader /\ c.op \in ReaderOps /\ c.got = <<>>
      /\ c.call \in {"length", "get"} /\ (c.op = "copy" \/ c.call = c.op)
  BY DEF StringInv, TypeOK, ReaderOK, Reader
<1>2. k \in 1 .. Len(hist) /\ floor'[r] = k /\ m \in Memory
  BY VisibleOK DEF StringInv, TypeOK
<1>3. /\ n \in 0 .. U32 - 1 /\ b \in 0 .. Len(m.bufs) /\ Len(m.bufs) \in Nat
      /\ n = (IF b = Null THEN 0 ELSE Len(m.bufs[b].text)) /\ (n = 0 <=> b = Null)
      /\ TextOf(m) \in Seq(Chars)
  BY SMTT(60), <1>2, SnapshotText DEF Null
<1>4. PICK q \in Reader :
        /\ rd' = [rd EXCEPT ![r] = q] /\ q.op = rd[r].op /\ q.got = rd[r].got
        /\ \/ /\ rd[r].call = "length" /\ q.len = n /\ q.lenBuf = b
              /\ \/ rd[r].op = "copy" /\ q.pc = "ptr" /\ q.call = "get"
                 \/ rd[r].op = "length" /\ q.pc = "done" /\ q.call = "length"
           \/ /\ rd[r].call = "get" /\ q.call = "get" /\ q.pc = "byte"
              /\ q.buf = b /\ q.len = rd[r].len /\ q.lenBuf = rd[r].lenBuf
  <2>1. TypeOK /\ b \in Nat /\ n \in 0 .. U32 - 1 /\ (n = 0 <=> b = Null)
    BY <1>3 DEF StringInv
  <2>2. rd[r].call \in {"length", "get"} /\ (rd[r].op = "copy" \/ rd[r].op = rd[r].call)
    BY <1>1
  <2> HIDE DEF c, m
  <2>3. QED
    BY <2>1, <2>2, ReturnedReader
<1>5. rd'[r] = q
  BY <1>4 DEF StringInv, TypeOK
<1>6. c.op = "copy" /\ c.call = "get" =>
        /\ c.lenBuf \in 0 .. Len(m.bufs)
        /\ c.len = IF c.lenBuf = Null THEN 0 ELSE Len(m.bufs[c.lenBuf].text)
  <2>1. SUFFICES ASSUME c.op = "copy", c.call = "get"
                 PROVE  /\ c.lenBuf \in 0 .. Len(m.bufs)
                        /\ c.len = IF c.lenBuf = Null THEN 0 ELSE Len(m.bufs[c.lenBuf].text)
    OBVIOUS
  <2> DEFINE f == hist[floor[r]]
  <2>2. Extends(f, m) /\ floor[r] \in 1 .. Len(hist)
    BY VisibleOK
  <2>3. Len(f.bufs) \in Nat /\ DOMAIN f.bufs = 1 .. Len(f.bufs)
    BY <2>2, SnapshotText
  <2>4. Len(m.bufs) \in Nat /\ DOMAIN m.bufs = 1 .. Len(m.bufs)
    BY <1>2, SnapshotText
  <2>5. /\ c.lenBuf \in 0 .. Len(f.bufs)
        /\ c.len = IF c.lenBuf = Null THEN 0 ELSE Len(f.bufs[c.lenBuf].text)
    BY <2>1 DEF StringInv, ReaderOK
  <2>6. CASE c.lenBuf = Null
    BY <2>4, <2>5, <2>6 DEF Null
  <2>7. CASE c.lenBuf # Null
    <3>1. c.lenBuf \in DOMAIN f.bufs
      BY <2>3, <2>5, <2>7 DEF Null
    <3>2. c.lenBuf \in DOMAIN m.bufs /\ m.bufs[c.lenBuf] = f.bufs[c.lenBuf]
      BY <2>2, <3>1 DEF Extends
    <3>3. QED
      BY <2>4, <2>5, <2>7, <3>2
  <2>8. QED
    BY <2>6, <2>7
<1>7. ReaderOK(r)'
  <2>1. /\ q.op \in ReaderOps /\ (q.op = "copy" \/ q.call = q.op) /\ q.call # "none"
        /\ q.got = <<>> /\ q.pc \in {"ptr", "done", "byte"}
        /\ q.pc = "byte" => q.call = "get" /\ q.buf = m.ptr
        /\ q.pc = "done" => q.op = "length" /\ q.call = "length"
    BY <1>1, <1>4
  <2>2. q.op = "copy" /\ q.call = "get" =>
          /\ q.lenBuf \in 0 .. Len(m.bufs)
          /\ q.len = IF q.lenBuf = Null THEN 0 ELSE Len(m.bufs[q.lenBuf].text)
    BY <1>1, <1>3, <1>4, <1>6
  <2>3. Walked(<<>>, TextOf(m))
    BY <1>3 DEF Walked
  <2> HIDE DEF c, m
  <2>4. hist'[floor'[r]] = m /\ TextOf(hist'[floor'[r]]) = TextOf(m)
    BY <1>2 DEF m
  <2>5. QED
    BY <1>5, <2>1, <2>2, <2>3, <2>4 DEF ReaderOK
<1>8. ReadOK(r)'
  BY <1>1, <1>2, <1>3, <1>4, <1>5, ConstantsAssumption DEF ReadOK
<1>9. QED
  BY <1>2, <1>4, <1>7, <1>8, ReaderMoves DEF StringInv, TypeOK

\* The acquire load of the pointer always makes its snapshot the reader's: the
\* store it read from was a release store, or there was none before it.
LEMMA PtrLoad ==
  ASSUME StringInv, NEW r \in Readers, NEW k \in Visible(r),
         Load(r, k, PtrLoadOrder, hist[k].ptrRel)
  PROVE  floor' = [floor EXCEPT ![r] = k] /\ UNCHANGED hist
<1>1. /\ floor[r] \in 1 .. Len(hist) /\ k \in 1 .. Len(hist) /\ floor[r] <= k
      /\ floor \in [Readers -> 1 .. Len(hist)]
  BY VisibleOK DEF StringInv, TypeOK
<1>2. CASE hist[k].ptrRel
  BY <1>2 DEF Load, PtrLoadOrder
<1>3. CASE ~hist[k].ptrRel
  <2>1. k = 1
    BY <1>1, <1>3 DEF StringInv, HistoryOK
  <2>2. floor[r] = k
    BY <1>1, <2>1
  <2>3. QED
    BY <1>1, <1>3, <2>2 DEF Load
<1>4. QED
  BY <1>2, <1>3

LEMMA LoadPtrStep ==
  ASSUME StringInv, NEW r \in Readers, LoadPtr(r)
  PROVE  StringInv'
<1>1. PICK k \in Visible(r) :
        /\ Load(r, k, PtrLoadOrder, hist[k].ptrRel)
        /\ IF hist[k].ptr = Null
           THEN Returns(r, Null, 0)
           ELSE rd' = [rd EXCEPT ![r].pc = "len", ![r].buf = hist[k].ptr]
  BY DEF LoadPtr
<1>2. /\ rd[r].pc = "ptr" /\ UNCHANGED <<hist, fault>>
      /\ floor' = [floor EXCEPT ![r] = k]
  BY <1>1, PtrLoad DEF LoadPtr
<1>3. k \in 1 .. Len(hist) /\ Extends(hist[floor[r]], hist[k]) /\ floor'[r] = k
      /\ floor[r] \in 1 .. Len(hist)
  BY <1>2, VisibleOK DEF StringInv, TypeOK
<1>4. CASE hist[k].ptr = Null
  <2>1. TextOf(hist[k]) = <<>>
    BY <1>4 DEF TextOf
  <2>2. Returns(r, hist[k].ptr, Len(TextOf(hist[k])))
    BY <1>1, <1>4, <2>1
  <2>3. QED
    BY <1>2, <2>2, ReturnsOK
<1>5. CASE hist[k].ptr # Null
  <2>1. PICK c \in Reader : c = rd[r]
    BY DEF StringInv, TypeOK
  <2>2. PICK b \in Nat : b = hist[k].ptr
    BY <1>3, SnapshotText DEF Memory
  <2>3. PICK q : q = [c EXCEPT !.pc = "len", !.buf = b]
    OBVIOUS
  <2>4. /\ q \in Reader /\ q.pc = "len" /\ q.buf = b /\ q.op = c.op /\ q.call = c.call
        /\ q.got = c.got /\ q.len = c.len /\ q.lenBuf = c.lenBuf
    BY <2>3 DEF Reader
  <2>5. rd' = [rd EXCEPT ![r] = q]
    BY <1>1, <1>5, <2>1, <2>2, <2>3
  <2>6. rd'[r] = q
    BY <2>5 DEF StringInv, TypeOK
  <2>7. /\ c.op \in ReaderOps /\ (c.op = "copy" \/ c.call = c.op) /\ c.call # "none"
        /\ c.got = <<>>
    BY <1>2, <2>1 DEF StringInv, ReaderOK
  <2>8. q.op = "copy" /\ q.call = "get" =>
          /\ q.lenBuf \in 0 .. Len(hist[k].bufs)
          /\ q.len = IF q.lenBuf = Null THEN 0 ELSE Len(hist[k].bufs[q.lenBuf].text)
    <3>1. SUFFICES ASSUME c.op = "copy", c.call = "get"
                   PROVE  /\ c.lenBuf \in 0 .. Len(hist[k].bufs)
                          /\ c.len = IF c.lenBuf = Null THEN 0
                                     ELSE Len(hist[k].bufs[c.lenBuf].text)
      BY <2>4
    <3>2. c.lenBuf \in 0 .. Len(hist[floor[r]].bufs)
          /\ c.len = IF c.lenBuf = Null THEN 0 ELSE Len(hist[floor[r]].bufs[c.lenBuf].text)
      BY <2>1, <3>1 DEF StringInv, ReaderOK
    <3>3. /\ Len(hist[k].bufs) \in Nat /\ DOMAIN hist[k].bufs = 1 .. Len(hist[k].bufs)
          /\ Len(hist[floor[r]].bufs) \in Nat
          /\ DOMAIN hist[floor[r]].bufs = 1 .. Len(hist[floor[r]].bufs)
      BY <1>3, SnapshotText
    <3>4. CASE c.lenBuf = Null
      BY <3>2, <3>3, <3>4 DEF Null
    <3>5. CASE c.lenBuf # Null
      <4>1. c.lenBuf \in DOMAIN hist[floor[r]].bufs
        BY <3>2, <3>3, <3>5 DEF Null
      <4>2. /\ c.lenBuf \in DOMAIN hist[k].bufs
            /\ hist[k].bufs[c.lenBuf] = hist[floor[r]].bufs[c.lenBuf]
        BY <1>3, <4>1 DEF Extends
      <4>3. QED
        BY <3>2, <3>3, <3>5, <4>2
    <3>6. QED
      BY <3>4, <3>5
  <2>9. hist'[floor'[r]] = hist[k]
    BY <1>2, <1>3
  <2>10. ReaderOK(r)'
    BY <2>2, <2>4, <2>6, <2>7, <2>8, <2>9 DEF ReaderOK
  <2>11. ReadOK(r)'
    BY <2>4, <2>6 DEF ReadOK
  <2>12. QED
    BY <1>2, <1>3, <1>5, <2>2, <2>4, <2>5, <2>10, <2>11, ReaderMoves DEF StringInv, TypeOK
<1>6. QED
  BY <1>4, <1>5

\* The length is found where the pointer leads, whichever snapshot it is
\* loaded from: the buffer has not changed since.
LEMMA LoadLenStep ==
  ASSUME StringInv, NEW r \in Readers, LoadLen(r)
  PROVE  StringInv'
<1> DEFINE b == rd[r].buf
           m == hist[floor[r]]
<1>1. PICK k \in Visible(r) :
        IF b \in DOMAIN hist[k].bufs
        THEN /\ Load(r, k, LenLoadOrder, FALSE)
             /\ Returns(r, b, hist[k].bufs[b].len)
             /\ UNCHANGED fault
        ELSE /\ fault' = "uninit_read"
             /\ UNCHANGED <<memoryVars, rd>>
  BY DEF LoadLen
<1>2. /\ rd[r].pc = "len" /\ b # Null /\ b = m.ptr
  BY DEF LoadLen, StringInv, TypeOK, ReaderOK
<1>3. /\ floor[r] \in 1 .. Len(hist) /\ k \in 1 .. Len(hist) /\ Extends(m, hist[k])
      /\ Len(hist) \in Nat
  BY VisibleOK DEF StringInv, TypeOK
<1>4. b \in DOMAIN m.bufs /\ m.bufs[b].len = Len(TextOf(m))
  BY <1>2, <1>3, SnapshotText
<1>5. b \in DOMAIN hist[k].bufs /\ hist[k].bufs[b].len = Len(TextOf(m))
  BY <1>3, <1>4 DEF Extends
<1>6. /\ Load(r, k, LenLoadOrder, FALSE) /\ UNCHANGED fault
      /\ Returns(r, m.ptr, Len(TextOf(m)))
  BY <1>1, <1>2, <1>5
<1>7. UNCHANGED <<hist, fault>> /\ floor' = [floor EXCEPT ![r] = floor[r]]
  BY <1>6 DEF Load, StringInv, TypeOK
<1>8. floor[r] \in Visible(r)
  BY <1>3 DEF Visible
<1>9. QED
  BY <1>2, <1>6, <1>7, <1>8, ReturnsOK

\* The bytes behind the pointer of a snapshot, in that snapshot and in every
\* later one: its text, and the terminator.
LEMMA SnapshotBytes ==
  ASSUME StringInv, NEW r \in Readers, NEW k \in Visible(r),
         NEW b, b = hist[floor[r]].ptr
  PROVE  LET t == TextOf(hist[floor[r]])
             bytes == Bytes(IF b = Null THEN Literal ELSE hist[k].bufs[b])
         IN  /\ b = Null \/ b \in DOMAIN hist[k].bufs
             /\ DOMAIN bytes = 0 .. Len(t)
             /\ \A i \in 0 .. Len(t) - 1 : bytes[i] = t[i + 1]
             /\ bytes[Len(t)] = NUL
<1> DEFINE m == hist[floor[r]]
<1>1. floor[r] \in 1 .. Len(hist) /\ Extends(m, hist[k])
  BY VisibleOK
<1>2. CASE b = Null
  <2>1. TextOf(m) = <<>>
    BY <1>2 DEF TextOf
  <2>2. QED
    BY <1>2, <2>1, BytesOfLiteral
<1>3. CASE b # Null
  <2>1. /\ b \in DOMAIN m.bufs /\ m.bufs[b] \in Buffer /\ BufferOK(m.bufs[b])
        /\ TextOf(m) = m.bufs[b].text
    BY <1>1, <1>3, SnapshotText
  <2>2. b \in DOMAIN hist[k].bufs /\ hist[k].bufs[b] = m.bufs[b]
    BY <1>1, <2>1 DEF Extends
  <2>3. QED
    BY <1>3, <2>1, <2>2, BytesOfBuffer
<1>4. QED
  BY <1>2, <1>3

\* What a walking reader knows.
LEMMA WalkerKnows ==
  ASSUME StringInv, NEW r \in Readers, rd[r].pc = "byte"
  PROVE  LET t == TextOf(hist[floor[r]])
             q == rd[r]
         IN  /\ q \in Reader /\ q.got \in Seq(Chars) /\ Len(q.got) \in Nat
             /\ q.op \in {"get", "copy"} /\ q.op \in ReaderOps /\ q.call = "get"
             /\ q.buf = hist[floor[r]].ptr
             /\ t \in Seq(Chars) /\ Len(t) \in Nat
             /\ q.op = "get" \/ q.lenBuf = q.buf => Walked(q.got, t)
             /\ q.op = "get" => \A i \in 1 .. Len(q.got) : q.got[i] # NUL
             /\ q.op = "copy" /\ q.lenBuf = q.buf => q.len = Len(t)
             /\ q.op = "copy" =>
                  /\ q.lenBuf \in 0 .. Len(hist[floor[r]].bufs)
                  /\ q.len = IF q.lenBuf = Null THEN 0
                             ELSE Len(hist[floor[r]].bufs[q.lenBuf].text)
<1> DEFINE t == TextOf(hist[floor[r]])
           q == rd[r]
<1>1. q \in Reader /\ floor[r] \in 1 .. Len(hist)
  BY DEF StringInv, TypeOK
<1>2. q.got \in Seq(Chars) /\ Len(q.got) \in Nat
  BY <1>1 DEF Reader
<1>3. t \in Seq(Chars) /\ Len(t) \in Nat
  BY <1>1, SnapshotText
<1>4. ReaderOK(r)
  BY DEF StringInv
<1>5. /\ q.op \in {"get", "copy"} /\ q.op \in ReaderOps /\ q.call = "get"
      /\ q.buf = hist[floor[r]].ptr
      /\ q.op = "get" \/ q.lenBuf = q.buf => Walked(q.got, t)
      /\ q.op = "get" => \A i \in 1 .. Len(q.got) : q.got[i] # NUL
      /\ q.op = "copy" =>
           /\ q.lenBuf \in 0 .. Len(hist[floor[r]].bufs)
           /\ q.len = IF q.lenBuf = Null THEN 0
                      ELSE Len(hist[floor[r]].bufs[q.lenBuf].text)
  BY <1>4 DEF ReaderOK
<1>6. q.op = "copy" /\ q.lenBuf = q.buf => q.len = Len(t)
  BY <1>1, <1>5, SnapshotText DEF TextOf
<1>7. QED
  BY <1>1, <1>2, <1>3, <1>5, <1>6

LEMMA ReadByteStep ==
  ASSUME StringInv, fault = "none", NEW r \in Readers, ReadByte(r)
  PROVE  /\ StringInv'
         /\ fault' # "none" => rd'[r].op = "copy" /\ rd'[r].lenBuf # rd'[r].buf
<1>1. PICK c \in Reader : c = rd[r]
  BY DEF StringInv, TypeOK
<1>2. PICK t \in Seq(Chars) : t = TextOf(hist[floor[r]])
  BY SnapshotText DEF StringInv, TypeOK
<1> DEFINE i == Len(c.got)
           ended == c.op = "copy" /\ i = c.len
<1>3. /\ rd[r].pc = "byte" /\ c.pc = "byte" /\ UNCHANGED <<hist, floor>>
      /\ Len(t) \in Nat /\ i \in Nat /\ c.got \in Seq(Chars)
      /\ floor[r] \in 1 .. Len(hist) /\ floor' = [floor EXCEPT ![r] = floor[r]]
  BY <1>1, <1>2 DEF ReadByte, memoryVars, Reader, StringInv, TypeOK
<1>4. /\ c.op \in {"get", "copy"} /\ c.op \in ReaderOps /\ c.call = "get"
      /\ c.buf = hist[floor[r]].ptr
      /\ c.op = "get" \/ c.lenBuf = c.buf => Walked(c.got, t)
      /\ c.op = "get" => \A j \in 1 .. Len(c.got) : c.got[j] # NUL
      /\ c.op = "copy" /\ c.lenBuf = c.buf => c.len = Len(t)
      /\ c.op = "copy" =>
           /\ c.lenBuf \in 0 .. Len(hist[floor[r]].bufs)
           /\ c.len = IF c.lenBuf = Null THEN 0
                      ELSE Len(hist[floor[r]].bufs[c.lenBuf].text)
  BY <1>1, <1>2, <1>3, WalkerKnows
<1>5. PICK k \in Visible(r) :
        LET bytes == Bytes(IF c.buf = Null THEN Literal ELSE hist[k].bufs[c.buf])
            known == c.buf = Null \/ c.buf \in DOMAIN hist[k].bufs
        IN IF ended \/ (known /\ i \in DOMAIN bytes)
           THEN /\ rd' = IF ended \/ (c.op = "get" /\ bytes[i] = NUL)
                         THEN [rd EXCEPT ![r].pc = "done"]
                         ELSE [rd EXCEPT ![r].got = Append(@, bytes[i])]
                /\ UNCHANGED fault
           ELSE /\ fault' = IF known THEN "overrun_read" ELSE "uninit_read"
                /\ UNCHANGED rd
  BY <1>1 DEF ReadByte
<1>6. PICK bytes : bytes = Bytes(IF c.buf = Null THEN Literal ELSE hist[k].bufs[c.buf])
  OBVIOUS
<1>7. /\ c.buf = Null \/ c.buf \in DOMAIN hist[k].bufs
      /\ DOMAIN bytes = 0 .. Len(t)
      /\ \A j \in 0 .. Len(t) - 1 : bytes[j] = t[j + 1]
      /\ bytes[Len(t)] = NUL
  BY ZenonT(60), <1>2, <1>4, <1>6, SnapshotBytes
<1>8. ASSUME i \in 0 .. Len(t)
       PROVE  IF i = Len(t) THEN bytes[i] = NUL
              ELSE i < Len(t) /\ bytes[i] = t[i + 1] /\ t[i + 1] \in Chars
  <2>1. CASE i = Len(t)
    <3> HIDE DEF i
    <3>1. QED
      BY <1>7, <2>1
  <2>2. CASE i # Len(t)
    <3>1. i \in 0 .. Len(t) - 1 /\ i + 1 \in 1 .. Len(t) /\ i < Len(t)
      BY <1>3, <1>8, <2>2
    <3> HIDE DEF i
    <3>2. bytes[i] = t[i + 1]
      BY <1>7, <3>1
    <3>3. t[i + 1] \in Chars
      BY <3>1
    <3>4. QED
      BY <2>2, <3>1, <3>2, <3>3
  <2>3. QED
    BY <2>1, <2>2
<1>9. IF ended \/ i \in 0 .. Len(t)
      THEN /\ rd' = IF ended \/ (c.op = "get" /\ bytes[i] = NUL)
                    THEN [rd EXCEPT ![r].pc = "done"]
                    ELSE [rd EXCEPT ![r].got = Append(@, bytes[i])]
           /\ UNCHANGED fault
      ELSE fault' = "overrun_read" /\ UNCHANGED rd
  BY <1>5, <1>6, <1>7
<1>10. CASE ended \/ (c.op = "get" /\ i \in 0 .. Len(t) /\ bytes[i] = NUL)
  <2>1. rd' = [rd EXCEPT ![r].pc = "done"] /\ UNCHANGED fault
    BY <1>9, <1>10
  <2>2. PICK q : q = [c EXCEPT !.pc = "done"]
    OBVIOUS
  <2>3. /\ q \in Reader /\ q.pc = "done" /\ q.op = c.op /\ q.call = c.call
        /\ q.buf = c.buf /\ q.len = c.len /\ q.lenBuf = c.lenBuf /\ q.got = c.got
    BY <2>2 DEF Reader
  <2>4. rd' = [rd EXCEPT ![r] = q] /\ rd'[r] = q
    BY <1>1, <2>1, <2>2 DEF StringInv, TypeOK
  <2>5. c.op = "get" => c.got = CString(t)
    <3>1. SUFFICES ASSUME c.op = "get" PROVE c.got = CString(t)
      OBVIOUS
    <3>2. Walked(c.got, t) /\ \A j \in 1 .. Len(c.got) : c.got[j] # NUL
      BY <1>4, <3>1
    <3>3. Len(c.got) = Len(t) \/ t[Len(c.got) + 1] = NUL
      BY <1>3, <1>10, <1>8, <3>1
    <3>4. QED
      BY <1>3, <3>2, <3>3, WalkIsCString
  <2>6. c.op = "copy" /\ c.lenBuf = c.buf => c.got = t
    <3>1. SUFFICES ASSUME c.op = "copy", c.lenBuf = c.buf PROVE c.got = t
      OBVIOUS
    <3>2. Walked(c.got, t) /\ Len(c.got) = Len(t)
      BY <1>4, <1>10, <3>1
    <3>3. QED
      BY <1>3, <3>2, SeqEqual DEF Walked
  <2>7. ReadOK(r)'
    BY <1>2, <1>3, <1>4, <2>3, <2>4, <2>5, <2>6 DEF ReadOK
  <2>8. ReaderOK(r)'
    BY SMTT(60), <1>3, <1>4, <2>3, <2>4 DEF ReaderOK
  <2>9. StringInv'
    BY <1>3, <2>1, <2>3, <2>4, <2>7, <2>8, ReaderMoves DEF StringInv, TypeOK
  <2>10. QED
    BY <2>1, <2>9
<1>11. CASE ~ended /\ i \in 0 .. Len(t) /\ ~(c.op = "get" /\ bytes[i] = NUL)
  <2>1. rd' = [rd EXCEPT ![r].got = Append(@, bytes[i])] /\ UNCHANGED fault
    BY <1>9, <1>11
  <2>2. PICK x \in Chars : x = bytes[i]
    <3>1. NUL \in Chars
      BY DEF Chars
    <3>2. bytes[i] \in Chars
      BY <1>11, <1>8, <3>1
    <3>3. QED
      BY <3>2
  <2>3. PICK g \in Seq(Chars) : g = Append(c.got, x)
    BY <1>3, AppendProperties
  <2>4. /\ Len(g) = i + 1 /\ g[i + 1] = x /\ \A j \in 1 .. i : g[j] = c.got[j]
    BY <1>3, <2>3, AppendProperties
  <2>5. PICK q : q = [c EXCEPT !.got = g]
    OBVIOUS
  <2>6. /\ q \in Reader /\ q.pc = c.pc /\ q.op = c.op /\ q.call = c.call
        /\ q.buf = c.buf /\ q.len = c.len /\ q.lenBuf = c.lenBuf /\ q.got = g
    BY <2>5 DEF Reader
  <2>7. rd' = [rd EXCEPT ![r] = q] /\ rd'[r] = q
    BY <1>1, <2>1, <2>2, <2>3, <2>5 DEF StringInv, TypeOK
  <2>8. c.op = "get" \/ c.lenBuf = c.buf => i < Len(t)
    <3>1. CASE c.op = "get"
      BY <1>3, <1>7, <1>11, <3>1
    <3>2. CASE c.op = "copy" /\ c.lenBuf = c.buf
      BY <1>3, <1>4, <1>11, <3>2
    <3>3. QED
      BY <1>4, <3>1, <3>2
  <2>9. c.op = "get" \/ c.lenBuf = c.buf => Walked(g, t)
    BY SMTT(30), <1>3, <1>4, <1>11, <1>8, <2>2, <2>4, <2>8 DEF Walked
  <2>10. c.op = "get" => \A j \in 1 .. Len(g) : g[j] # NUL
    BY <1>3, <1>4, <1>11, <2>2, <2>4
  <2>11. ReaderOK(r)'
    BY SMTT(60), <1>2, <1>3, <1>4, <2>6, <2>7, <2>9, <2>10 DEF ReaderOK
  <2>12. ReadOK(r)'
    BY <1>3, <2>6, <2>7 DEF ReadOK
  <2>13. StringInv'
    BY ZenonT(60), <1>3, <2>1, <2>6, <2>7, <2>11, <2>12, ReaderMoves DEF StringInv, TypeOK
  <2>14. QED
    BY <2>1, <2>13
<1>12. CASE ~ended /\ i \notin 0 .. Len(t)
  <2>1. UNCHANGED <<hist, floor, rd>> /\ fault' = "overrun_read"
    BY <1>3, <1>9, <1>12
  <2>2. ~Walked(c.got, t)
    BY <1>3, <1>12 DEF Walked
  <2>3. rd'[r].op = "copy" /\ rd'[r].lenBuf # rd'[r].buf
    BY <1>1, <1>4, <2>1, <2>2
  <2>4. StringInv'
    BY <2>1 DEF StringInv, TypeOK, HistoryOK, ReadsOneText, ReaderOK, Faults
  <2>5. QED
    BY <2>3, <2>4
<1>13. QED
  BY <1>10, <1>11, <1>12

LEMMA IdleReaderType ==
  /\ IdleReader \in Reader /\ IdleReader.pc = "idle" /\ IdleReader.got = <<>>
  /\ IdleReader.op = "none"
BY ConstantsAssumption DEF IdleReader, Reader, Null

LEMMA DoneStep ==
  ASSUME StringInv, NEW r \in Readers, Done(r)
  PROVE  StringInv'
<1>1. PICK q \in Reader : /\ q = IdleReader /\ q.pc = "idle" /\ q.got = <<>>
                          /\ q.op = "none"
  BY IdleReaderType
<1>2. /\ rd' = [rd EXCEPT ![r] = q] /\ rd'[r] = q /\ UNCHANGED <<hist, floor, fault>>
      /\ floor[r] \in 1 .. Len(hist) /\ floor' = [floor EXCEPT ![r] = floor[r]]
  BY <1>1 DEF Done, memoryVars, StringInv, TypeOK
<1>3. ReaderOK(r)' /\ ReadOK(r)'
  BY <1>1, <1>2 DEF ReaderOK, ReadOK
<1>4. QED
  BY <1>1, <1>2, <1>3, ReaderMoves DEF StringInv, TypeOK

LEMMA CallStep ==
  ASSUME StringInv, NEW r \in Readers, NEW op \in ReaderOps, Call(r, op)
  PROVE  StringInv'
<1> DEFINE call == IF op = "copy" THEN "length" ELSE op
<1>1. PICK i \in Reader : /\ i = IdleReader /\ i.pc = "idle" /\ i.got = <<>>
  BY IdleReaderType
<1>2. call \in {"length", "get"}
  BY ConstantsAssumption
<1>3. PICK q : q = [i EXCEPT !.pc = "ptr", !.op = op, !.call = call]
  OBVIOUS
<1>4. /\ q \in Reader /\ q.pc = "ptr" /\ q.op = op /\ q.call = call /\ q.got = <<>>
  <2> HIDE DEF call
  <2>1. QED
    BY <1>1, <1>2, <1>3 DEF Reader
<1>5. /\ rd' = [rd EXCEPT ![r] = q] /\ rd'[r] = q /\ UNCHANGED <<hist, floor, fault>>
      /\ floor[r] \in 1 .. Len(hist) /\ floor' = [floor EXCEPT ![r] = floor[r]]
  BY <1>1, <1>3 DEF Call, memoryVars, StringInv, TypeOK
<1>6. ReaderOK(r)' /\ ReadOK(r)'
  BY <1>2, <1>4, <1>5 DEF ReaderOK, ReadOK
<1>7. QED
  BY <1>4, <1>5, <1>6, ReaderMoves DEF StringInv, TypeOK

LEMMA StringInit == Init => StringInv
<1> SUFFICES ASSUME Init PROVE StringInv
  OBVIOUS
<1> DEFINE m == [ptr |-> Null, ptrRel |-> FALSE, bufs |-> <<>>]
<1>1. m \in Memory /\ m.ptr = 0 /\ m.bufs = <<>>
  BY DEF Memory, Null
<1>2. hist = <<m>> /\ floor = [r \in Readers |-> 1]
  BY DEF Init, MemoryInit
<1> HIDE DEF m
<1>3. hist \in Seq(Memory) /\ hist # <<>> /\ Len(hist) = 1 /\ hist[1] = m
  BY <1>1, <1>2
<1>4. \A r \in Readers : /\ rd[r] = IdleReader /\ rd[r].pc = "idle"
                         /\ rd[r].op = "none"
  BY IdleReaderType DEF Init
<1>5. TypeOK
  BY <1>2, <1>3, <1>4, IdleReaderType DEF Init, TypeOK, Faults
<1>6. HistoryOK
  BY <1>1, <1>3 DEF HistoryOK, Extends, Null
<1>7. \A r \in Readers : ReaderOK(r) /\ ReadOK(r)
  BY <1>4 DEF ReaderOK, ReadOK
<1>8. QED
  BY <1>5, <1>6, <1>7, EachReads DEF StringInv

LEMMA StringNext == StringInv /\ [Next]_vars => StringInv'
<1> SUFFICES ASSUME StringInv, [Next]_vars PROVE StringInv'
  OBVIOUS
<1>1. CASE fault = "none" /\ WriterNext
  BY <1>1, WriterStep
<1>2. ASSUME fault = "none", NEW r \in Readers, ReaderStep(r)
      PROVE  StringInv'
  BY <1>2, LoadPtrStep, LoadLenStep, ReadByteStep, DoneStep DEF ReaderStep
<1>3. ASSUME NEW r \in Readers, NEW op \in ReaderOps, Call(r, op)
      PROVE  StringInv'
  BY <1>3, CallStep
<1>4. CASE UNCHANGED vars
  BY <1>4 DEF vars, StringInv, TypeOK, HistoryOK, ReadsOneText, ReaderOK
<1>5. QED
  BY <1>1, <1>2, <1>3, <1>4 DEF Next, ReaderNext

-----------------------------------------------------------------------------
(* The string implements SharedText.  A store is a Set, the load of the      *)
(* pointer an Advance, and the last byte of a walk the Return of the text    *)
(* the reader had acquired.                                                  *)

LEMMA VersionsSeq ==
  ASSUME TypeOK
  PROVE  /\ Versions \in Seq({TextOf(hist[k]) : k \in 1 .. Len(hist)})
         /\ Len(Versions) = Len(hist)
         /\ \A k \in 1 .. Len(hist) : Versions[k] = TextOf(hist[k])
<1>1. Len(hist) \in Nat
  BY DEF TypeOK
<1>2. Versions \in [1 .. Len(hist) -> {TextOf(hist[k]) : k \in 1 .. Len(hist)}]
  BY DEF Versions
<1>3. Versions \in Seq({TextOf(hist[k]) : k \in 1 .. Len(hist)}) /\ Len(Versions) = Len(hist)
  BY <1>1, <1>2
<1>4. QED
  BY <1>3 DEF Versions

LEMMA RegisterInit == Init => Register!Init
<1> SUFFICES ASSUME Init PROVE Register!Init
  OBVIOUS
<1>1. TypeOK
  BY StringInit DEF StringInv
<1>2. Len(hist) = 1 /\ TextOf(hist[1]) = <<>>
  BY DEF Init, MemoryInit, TextOf
<1>3. Versions \in Seq({<<>>}) /\ Len(Versions) = 1 /\ Versions[1] = <<>>
  BY <1>1, <1>2, VersionsSeq
<1>4. Versions = << <<>> >>
  BY <1>3
<1>5. \A r \in Readers : rd[r].pc = "idle"
  BY IdleReaderType DEF Init
<1>6. Results = [r \in Readers |-> NUL]
  BY <1>5 DEF Results
<1>7. QED
  BY <1>4, <1>6 DEF Register!Init, Init, MemoryInit

LEMMA WriterRegister ==
  ASSUME StringInv, WriterNext
  PROVE  Register!Next \/ UNCHANGED Register!vars
<1>1. TypeOK /\ UNCHANGED rd
  BY WriterStores DEF StringInv
<1>2. UNCHANGED Results
  BY <1>1 DEF Results
<1>3. ASSUME NEW m \in Memory, Store(m), UNCHANGED fault, PublishedOver(m, Now)
      PROVE  Register!Next
  <2>1. /\ hist' \in Seq(Memory) /\ hist' # <<>> /\ floor' = floor
        /\ Len(hist) \in Nat \ {0} /\ Len(hist') = Len(hist) + 1
        /\ \A k \in 1 .. Len(hist) : hist'[k] = hist[k]
        /\ hist'[Len(hist) + 1] = m
    BY <1>1, <1>3, StoreHistory
  <2> DEFINE n == Len(hist)
             S == {TextOf(hist[k]) : k \in 1 .. n} \cup {TextOf(m)}
  <2>2. Versions \in Seq(S) /\ Len(Versions) = n /\ \A k \in 1 .. n : Versions[k] = TextOf(hist[k])
    BY <1>1, VersionsSeq
  <2>3. \A k \in 1 .. n + 1 : Versions'[k] = IF k = n + 1 THEN TextOf(m) ELSE TextOf(hist[k])
    BY <2>1 DEF Versions
  <2>4. Versions' \in Seq(S) /\ Len(Versions') = n + 1
    <3>1. Versions' \in [1 .. n + 1 -> S]
      BY <2>1 DEF Versions
    <3>2. n + 1 \in Nat
      BY <2>1
    <3>3. QED
      BY <3>1, <3>2
  <2>5. Versions' = Append(Versions, TextOf(m))
    <3>1. /\ Append(Versions, TextOf(m)) \in Seq(S)
          /\ Len(Append(Versions, TextOf(m))) = n + 1
          /\ \A k \in 1 .. n : Append(Versions, TextOf(m))[k] = Versions[k]
          /\ Append(Versions, TextOf(m))[n + 1] = TextOf(m)
      BY <2>2, AppendProperties
    <3>2. \A k \in 1 .. n + 1 : Versions'[k] = Append(Versions, TextOf(m))[k]
      BY <2>1, <2>2, <2>3, <3>1
    <3>3. QED
      BY <2>4, <3>1, <3>2, SeqEqual
  <2>6. TextOf(m) \in Texts \cup {<<>>}
    BY <1>3 DEF PublishedOver
  <2>7. Register!Set(TextOf(m))
    BY <1>2, <2>1, <2>5 DEF Register!Set
  <2>8. QED
    BY <2>6, <2>7 DEF Register!Next
<1>4. ASSUME UNCHANGED <<hist, floor>>
      PROVE  UNCHANGED Register!vars
  BY <1>2, <1>4 DEF Register!vars, Versions
<1>5. QED
  BY <1>1, <1>3, <1>4, WriterStores

\* What one reader has in its hands.
Result(r) == IF rd[r].pc = "done" /\ rd[r].op = "get" THEN rd[r].got ELSE NUL

\* A reader's step concerns the result of that reader.
LEMMA ResultsMove ==
  ASSUME NEW r \in Readers, \A s \in Readers \ {r} : rd'[s] = rd[s]
  PROVE  /\ Results' = [Results EXCEPT ![r] = Result(r)']
         /\ Result(r)' = Result(r) => Results' = Results
<1>1. Results = [s \in Readers |-> Result(s)] /\ Results' = [s \in Readers |-> Result(s)']
  BY DEF Results, Result
<1>2. \A s \in Readers \ {r} : Result(s)' = Result(s)
  BY DEF Result
<1> HIDE DEF Result
<1>3. QED
  BY <1>1, <1>2

\* Every step of a reader leaves the other readers alone.
LEMMA OthersStay ==
  ASSUME StringInv, NEW r \in Readers, ReaderNext(r)
  PROVE  \A s \in Readers \ {r} : rd'[s] = rd[s]
<1>1. \A op \in ReaderOps : Call(r, op) => \A s \in Readers \ {r} : rd'[s] = rd[s]
  BY DEF Call, StringInv, TypeOK
<1>2. \A b, n : Returns(r, b, n) => \A s \in Readers \ {r} : rd'[s] = rd[s]
  BY DEF Returns, StringInv, TypeOK
<1>3. LoadPtr(r) \/ LoadLen(r) => \A s \in Readers \ {r} : rd'[s] = rd[s]
  BY <1>2 DEF LoadPtr, LoadLen, StringInv, TypeOK
<1>4. ReadByte(r) \/ Done(r) => \A s \in Readers \ {r} : rd'[s] = rd[s]
  BY DEF ReadByte, Done, StringInv, TypeOK
<1>5. QED
  BY <1>1, <1>3, <1>4 DEF ReaderNext, ReaderStep

\* A call that goes on, or returns a length, has no text to show.
LEMMA NothingReturned ==
  ASSUME StringInv, NEW r \in Readers, NEW b, NEW n, Returns(r, b, n),
         rd[r].pc \in {"ptr", "len"}
  PROVE  Result(r)' = NUL
<1>1. /\ rd[r].op = "copy" \/ rd[r].call = rd[r].op
      /\ rd[r].call \in {"length", "get"} /\ rd \in [Readers -> Reader]
  BY DEF StringInv, TypeOK, ReaderOK, Reader
<1>2. PICK c \in Reader : c = rd[r]
  BY <1>1
<1>3. CASE c.call = "length" /\ c.op = "copy"
  <2>1. rd'[r] = [c EXCEPT !.pc = "ptr", !.call = "get", !.len = n, !.lenBuf = b]
    BY <1>1, <1>2, <1>3 DEF Returns
  <2>2. rd'[r].pc = "ptr"
    BY <2>1 DEF Reader
  <2>3. QED
    BY <2>2 DEF Result
<1>4. CASE c.call = "length" /\ c.op = "length"
  <2>1. rd'[r] = [c EXCEPT !.pc = "done", !.len = n, !.lenBuf = b]
    BY <1>1, <1>2, <1>4 DEF Returns
  <2>2. rd'[r].op = "length"
    BY <1>4, <2>1 DEF Reader
  <2>3. QED
    BY <2>2 DEF Result
<1>5. CASE c.call = "get"
  <2>1. rd'[r] = [c EXCEPT !.pc = "byte", !.buf = IF n = 0 THEN Null ELSE b]
    BY <1>1, <1>2, <1>5 DEF Returns
  <2>2. rd'[r].pc = "byte"
    BY <2>1 DEF Reader
  <2>3. QED
    BY <2>2 DEF Result
<1>6. QED
  BY <1>1, <1>2, <1>3, <1>4, <1>5

LEMMA LoadPtrRegister ==
  ASSUME StringInv, NEW r \in Readers, LoadPtr(r)
  PROVE  Register!Advance(r)
<1>1. PICK k \in Visible(r) :
        /\ Load(r, k, PtrLoadOrder, hist[k].ptrRel)
        /\ IF hist[k].ptr = Null
           THEN Returns(r, Null, 0)
           ELSE rd' = [rd EXCEPT ![r].pc = "len", ![r].buf = hist[k].ptr]
  BY DEF LoadPtr
<1>2. floor' = [floor EXCEPT ![r] = k] /\ UNCHANGED hist /\ rd[r].pc = "ptr"
  BY <1>1, PtrLoad DEF LoadPtr
<1>3. k \in floor[r] .. Len(Versions)
  BY VersionsSeq DEF Visible, StringInv
<1>4. Result(r) = NUL
  BY <1>2 DEF Result
<1>5. Result(r)' = NUL
  <2>1. CASE hist[k].ptr = Null
    BY <1>1, <1>2, <2>1, NothingReturned
  <2>2. CASE hist[k].ptr # Null
    <3>1. PICK c \in Reader : c = rd[r]
      BY DEF StringInv, TypeOK
    <3>2. rd'[r] = [c EXCEPT !.pc = "len", !.buf = hist[k].ptr]
      BY <1>1, <2>2, <3>1 DEF StringInv, TypeOK
    <3>3. rd'[r].pc = "len"
      BY <3>2 DEF Reader
    <3>4. QED
      BY <3>3 DEF Result
  <2>3. QED
    BY <2>1, <2>2
<1>6. UNCHANGED Results
  BY <1>4, <1>5, ResultsMove, OthersStay DEF ReaderNext, ReaderStep
<1>7. UNCHANGED Versions
  BY <1>2 DEF Versions
<1>8. QED
  BY <1>2, <1>3, <1>6, <1>7 DEF Register!Advance

LEMMA LoadLenRegister ==
  ASSUME StringInv, NEW r \in Readers, LoadLen(r)
  PROVE  UNCHANGED Register!vars
<1>1. UNCHANGED <<hist, floor>>
  BY DEF LoadLen, Load, memoryVars, StringInv, TypeOK
<1>2. rd[r].pc = "len" /\ Result(r) = NUL
  BY DEF LoadLen, Result
<1>3. Result(r)' = NUL
  <2>1. (\E b, n : Returns(r, b, n)) \/ UNCHANGED rd
    BY DEF LoadLen
  <2>2. QED
    BY <1>2, <2>1, NothingReturned DEF Result
<1>4. UNCHANGED Results
  BY <1>2, <1>3, ResultsMove, OthersStay DEF ReaderNext, ReaderStep
<1>5. QED
  BY <1>1, <1>4 DEF Register!vars, Versions

LEMMA ReadByteRegister ==
  ASSUME StringInv, fault = "none", NEW r \in Readers, ReadByte(r)
  PROVE  Register!Return(r) \/ UNCHANGED Register!vars
<1>1. UNCHANGED <<hist, floor>> /\ UNCHANGED Versions /\ floor[r] \in 1 .. Len(hist)
  BY DEF ReadByte, memoryVars, Versions, StringInv, TypeOK
<1>2. rd[r].pc = "byte" /\ Result(r) = NUL
  BY DEF ReadByte, Result
<1>3. \A s \in Readers \ {r} : rd'[s] = rd[s]
  BY OthersStay DEF ReaderNext, ReaderStep
<1>4. CASE rd'[r].pc = "done" /\ rd'[r].op = "get"
  <2>1. ReadsOneText'
    BY ReadByteStep DEF StringInv
  <2>2. Result(r)' = CString(TextOf(hist[floor[r]]))
    BY <1>1, <1>4, <2>1 DEF ReadsOneText, Result
  <2>3. Versions[floor[r]] = TextOf(hist[floor[r]])
    BY <1>1 DEF Versions
  <2>4. Results' = [Results EXCEPT ![r] = CString(Versions[floor[r]])]
    BY <1>3, <2>2, <2>3, ResultsMove
  <2>5. QED
    BY <1>1, <2>4 DEF Register!Return
<1>5. CASE ~(rd'[r].pc = "done" /\ rd'[r].op = "get")
  <2>1. Result(r)' = NUL
    BY <1>5 DEF Result
  <2>2. UNCHANGED Results
    BY <1>2, <1>3, <2>1, ResultsMove
  <2>3. QED
    BY <1>1, <2>2 DEF Register!vars
<1>6. QED
  BY <1>4, <1>5

LEMMA DoneRegister ==
  ASSUME StringInv, NEW r \in Readers, Done(r)
  PROVE  Register!Forget(r)
<1>1. UNCHANGED floor /\ UNCHANGED Versions
  BY DEF Done, memoryVars, Versions
<1>2. rd'[r] = IdleReader
  BY DEF Done, StringInv, TypeOK
<1>3. Result(r)' = NUL
  BY <1>2, IdleReaderType DEF Result
<1>4. Results' = [Results EXCEPT ![r] = NUL]
  BY <1>3, ResultsMove, OthersStay DEF ReaderNext, ReaderStep
<1>5. QED
  BY <1>1, <1>4 DEF Register!Forget

LEMMA CallRegister ==
  ASSUME StringInv, NEW r \in Readers, NEW op \in ReaderOps, Call(r, op)
  PROVE  UNCHANGED Register!vars
<1>1. UNCHANGED floor /\ UNCHANGED Versions
  BY DEF Call, memoryVars, Versions
<1>2. PICK c \in Reader : c = IdleReader
  BY IdleReaderType
<1>3. PICK call : call = IF op = "copy" THEN "length" ELSE op
  OBVIOUS
<1>4. rd'[r] = [c EXCEPT !.pc = "ptr", !.op = op, !.call = call]
  BY <1>2, <1>3 DEF Call, StringInv, TypeOK
<1>5. rd[r].pc = "idle" /\ rd'[r].pc = "ptr"
  BY ZenonT(60), <1>4 DEF Call, Reader
<1>6. Result(r) = NUL /\ Result(r)' = NUL
  BY <1>5 DEF Result
<1>7. UNCHANGED Results
  BY <1>6, ResultsMove, OthersStay DEF ReaderNext
<1>8. QED
  BY <1>1, <1>7 DEF Register!vars

LEMMA RegisterNext ==
  StringInv /\ [Next]_vars => [Register!Next]_(Register!vars)
<1> SUFFICES ASSUME StringInv, [Next]_vars
             PROVE  Register!Next \/ UNCHANGED Register!vars
  OBVIOUS
<1>1. CASE WriterNext
  BY <1>1, WriterRegister
<1>2. ASSUME fault = "none", NEW r \in Readers, ReaderNext(r)
      PROVE  Register!Next \/ UNCHANGED Register!vars
  <2>1. Register!Advance(r) \/ Register!Return(r) \/ Register!Forget(r)
          \/ UNCHANGED Register!vars
    BY <1>2, LoadPtrRegister, LoadLenRegister, ReadByteRegister, DoneRegister,
       CallRegister DEF ReaderNext, ReaderStep
  <2>2. QED
    BY <2>1 DEF Register!Next
<1>3. CASE UNCHANGED vars
  BY <1>3 DEF vars, Register!vars, Versions, Results
<1>4. QED
  BY <1>1, <1>2, <1>3 DEF Next

-----------------------------------------------------------------------------
(* What follows of every behaviour. *)

\* Published buffers are whole and never change, and a call in progress is on
\* the buffer of the snapshot it acquired (msm_allocator.cpp:376-468).
THEOREM StringCorrect == Spec => []StringInv
BY StringInit, StringNext, PTL DEF Spec

\* The slot's variables keep their types, and len is only loaded through a
\* pointer that is not null (msm_allocator.cpp:446-468).
THEOREM TypeCorrect == Spec => []TypeOK
<1>1. StringInv => TypeOK
  BY DEF StringInv
<1>2. QED
  BY <1>1, StringCorrect, PTL

\* The bytes walked and the length told are those of one text, however often
\* the writer sets another one meanwhile (msm_allocator.cpp:383-386).
THEOREM ReadsOneTextCorrect == Spec => []ReadsOneText
<1>1. StringInv => ReadsOneText
  BY DEF StringInv
<1>2. QED
  BY <1>1, StringCorrect, PTL

\* No text of 2^32 - 1 bytes: its capacity would wrap to zero.
NoCapWraps == \A t \in Texts : Len(t) + 1 < U32

LEMMA FaultStep ==
  ASSUME NoCapWraps, StringInv, OnlyUnpairedCopiesFault, [Next]_vars
  PROVE  OnlyUnpairedCopiesFault'
<1>1. CASE fault = "none" /\ WriterNext
  <2>1. \A t \in Texts : Len(t) \in Nat /\ Len(t) < NewBuffer(t).cap
    <3>1. ASSUME NEW t \in Texts
          PROVE  Len(t) \in Nat /\ Len(t) < NewBuffer(t).cap
      <4>1. Len(t) \in Nat /\ Len(t) + 1 < U32 /\ U32 \in Nat \ {0}
        BY <3>1, ConstantsAssumption DEF NoCapWraps
      <4>2. NewBuffer(t).cap = Len(t) + 1
        BY <4>1 DEF NewBuffer
      <4>3. QED
        BY <4>1, <4>2
    <3>2. QED
      BY <3>1
  <2>2. UNCHANGED <<fault, rd>>
    BY <1>1, <2>1, WriterStores DEF StringInv
  <2>3. QED
    BY <1>1, <2>2 DEF OnlyUnpairedCopiesFault
<1>2. ASSUME fault = "none", NEW r \in Readers, ReadByte(r)
      PROVE  OnlyUnpairedCopiesFault'
  BY <1>2, ReadByteStep DEF OnlyUnpairedCopiesFault
<1>3. ASSUME fault = "none", NEW r \in Readers, LoadLen(r)
      PROVE  UNCHANGED fault
  <2>1. floor[r] \in 1 .. Len(hist) /\ rd[r].buf = hist[floor[r]].ptr /\ rd[r].buf # Null
    BY <1>3 DEF LoadLen, StringInv, TypeOK, ReaderOK
  <2>2. rd[r].buf \in DOMAIN hist[floor[r]].bufs
    BY <2>1, SnapshotText
  <2>3. \A k \in Visible(r) : rd[r].buf \in DOMAIN hist[k].bufs
    BY <2>2, VisibleOK DEF Extends
  <2>4. QED
    BY <1>3, <2>3 DEF LoadLen
<1>4. ASSUME NEW r \in Readers, LoadPtr(r) \/ Done(r) \/ \E op \in ReaderOps : Call(r, op)
      PROVE  UNCHANGED fault
  BY <1>4 DEF LoadPtr, Done, Call
<1>5. ASSUME fault = "none", UNCHANGED fault
      PROVE  OnlyUnpairedCopiesFault'
  BY <1>5 DEF OnlyUnpairedCopiesFault
<1>6. CASE UNCHANGED vars
  BY <1>6 DEF vars, OnlyUnpairedCopiesFault
<1>7. QED
  BY <1>1, <1>2, <1>3, <1>4, <1>5, <1>6 DEF Next, ReaderNext, ReaderStep

\* While no text is as long as its 32-bit capacity can count, no call and no
\* walk leaves a live buffer, unless a caller walks one text by the length of
\* another (msm_allocator.cpp:415-468; the hypothesis is the one
\* msm_allocator.cpp:430 does not check).
THEOREM OnlyUnpairedCopiesFaultCorrect ==
  ASSUME NoCapWraps
  PROVE  Spec => []OnlyUnpairedCopiesFault
<1>1. Init => OnlyUnpairedCopiesFault
  BY DEF Init, OnlyUnpairedCopiesFault
<1>2. StringInv /\ OnlyUnpairedCopiesFault /\ [Next]_vars => OnlyUnpairedCopiesFault'
  BY FaultStep
<1>3. QED
  BY <1>1, <1>2, StringCorrect, PTL DEF Spec

\* A string is a register with one writer: a reader is given whole texts, as
\* they look through a pointer to char, and never one older than it was given
\* last (msm_allocator.cpp:383-468).
THEOREM RegisterSpecCorrect == Spec => RegisterSpec
BY RegisterInit, RegisterNext, StringCorrect, PTL DEF Spec, RegisterSpec, Register!Spec

=============================================================================
