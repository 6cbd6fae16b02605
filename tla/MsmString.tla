----------------------------- MODULE MsmString ------------------------------
(***************************************************************************)
(* One shared string slot.  Every set builds a private buffer              *)
(* [len|cap|data] and publishes it with one release store of data_ptr, or  *)
(* publishes null for the empty text; published buffers never change and   *)
(* are never freed.  Readers call msm_string_length and msm_string_get and *)
(* walk the bytes get returns, one plain load at a time.                   *)
(***************************************************************************)
EXTENDS SwmrMemory

CONSTANTS
  Texts,           \* what is set: sequences of bytes, NUL may occur in them
  NUL,
  U32,             \* 2^32, the modulus of the len and cap fields
  ReaderOps,       \* the calls the readers make
  MallocMayFail,   \* whether malloc may return null
  MaxStores        \* bound: no set starts after so many stores

Chars == (UNION {{t[i] : i \in DOMAIN t} : t \in Texts}) \cup {NUL}

ASSUME ConstantsAssumption ==
  /\ U32 \in Nat \ {0}
  /\ \A t \in Texts : t \in Seq(Chars) /\ Len(t) < U32
  /\ ReaderOps \subseteq {"length", "get", "copy"}
  /\ MallocMayFail \in BOOLEAN
  /\ MaxStores \in Nat

VARIABLES
  rd,              \* per reader, its local state
  fault            \* the first access outside live memory, or "none"

vars == <<hist, floor, rd, fault>>

Null == 0

\* bufs[b] is the b-th buffer ever published.
Buffer == [len : 0 .. U32 - 1, cap : 0 .. U32 - 1, text : Texts]
Memory == [ptr : Nat, ptrRel : BOOLEAN, bufs : Seq(Buffer)]

Faults == {"none", "overrun_write", "overrun_read", "uninit_read"}

Reader == [pc : {"idle", "ptr", "len", "byte", "done"},
           op : ReaderOps \cup {"none"},
           call : {"length", "get", "none"},  \* copy makes both calls
           buf : Nat,                         \* the buffer the call loaded
           len : 0 .. U32 - 1,                \* what length returned
           lenBuf : Nat,                      \* the buffer length looked at
           got : Seq(Chars)]

IdleReader == [pc |-> "idle", op |-> "none", call |-> "none", buf |-> Null,
               len |-> 0, lenBuf |-> Null, got |-> <<>>]

Init ==
  /\ MemoryInit([ptr |-> Null, ptrRel |-> FALSE, bufs |-> <<>>])
  /\ rd = [r \in Readers |-> IdleReader]
  /\ fault = "none"

-----------------------------------------------------------------------------
(* The writer *)

PlainPublish == Relaxed     \* mutant: a plain store of the pointer
PublishOrder == Release
PtrLoadOrder == Acquire
LenLoadOrder == Acquire

Published(m, b) == [m EXCEPT !.ptr = b, !.ptrRel = (PublishOrder = Release)]

\* A tight fit: the text and its terminator, a 32-bit sum.
NewBuffer(t) == [len |-> Len(t), cap |-> (Len(t) + 1) % U32, text |-> t]

\* Mutant: the current buffer is reused when the text fits.
SetTextReusing(t) ==
  /\ t # <<>>
  /\ IF Now.ptr # Null /\ Len(t) < Now.bufs[Now.ptr].cap
     THEN Store([Now EXCEPT !.bufs[Now.ptr].text = t, !.bufs[Now.ptr].len = Len(t)])
     ELSE Store(Published([Now EXCEPT !.bufs = Append(@, NewBuffer(t))],
                          Len(Now.bufs) + 1))
  /\ UNCHANGED fault

\* The private copy, terminator included, must fit the buffer; then it is
\* published.
SetText(t) ==
  /\ t # <<>>
  /\ IF Len(t) < NewBuffer(t).cap
     THEN /\ Store(Published([Now EXCEPT !.bufs = Append(@, NewBuffer(t))],
                             Len(Now.bufs) + 1))
          /\ UNCHANGED fault
     ELSE /\ fault' = "overrun_write"
          /\ UNCHANGED memoryVars

\* A failed malloc drops the text without a word.
SetDropped(t) ==
  /\ MallocMayFail /\ t # <<>>
  /\ UNCHANGED <<memoryVars, fault>>

\* set of a null or empty string, and clear.
SetEmpty ==
  /\ Store(Published(Now, Null))
  /\ UNCHANGED fault

WriterNext ==
  /\ Len(hist) < MaxStores
  /\ \/ \E t \in Texts : SetText(t) \/ SetDropped(t)
     \/ SetEmpty
  /\ UNCHANGED rd

-----------------------------------------------------------------------------
(* The readers.  copy is a caller that asks for the length, then for the     *)
(* pointer, and copies that many bytes.                                      *)

Call(r, op) ==
  /\ rd[r].pc = "idle"
  /\ rd' = [rd EXCEPT ![r] =
             [IdleReader EXCEPT !.pc = "ptr", !.op = op,
                                !.call = IF op = "copy" THEN "length" ELSE op]]
  /\ UNCHANGED <<memoryVars, fault>>

\* The call in progress has found the buffer b and its length n; the bytes of
\* "", which get returns for n = 0, are not in any buffer.
Returns(r, b, n) ==
  rd' = [rd EXCEPT ![r] =
    CASE @.call = "length" /\ @.op = "copy" ->
           [@ EXCEPT !.pc = "ptr", !.call = "get", !.len = n, !.lenBuf = b]
      [] @.call = "length" /\ @.op = "length" ->
           [@ EXCEPT !.pc = "done", !.len = n, !.lenBuf = b]
      [] @.call = "get" ->
           [@ EXCEPT !.pc = "byte", !.buf = IF n = 0 THEN Null ELSE b]]

LoadPtrUnchecked(r) ==                 \* mutant: null is not told apart
  /\ rd[r].pc = "ptr"
  /\ \E k \in Visible(r) :
       /\ Load(r, k, PtrLoadOrder, hist[k].ptrRel)
       /\ rd' = [rd EXCEPT ![r].pc = "len", ![r].buf = hist[k].ptr]
  /\ UNCHANGED fault

LoadPtrSpinning(r) ==                  \* mutant: a reader waits for a text
  /\ rd[r].pc = "ptr"
  /\ \E k \in Visible(r) :
       /\ hist[k].ptr # Null
       /\ Load(r, k, PtrLoadOrder, hist[k].ptrRel)
       /\ rd' = [rd EXCEPT ![r].pc = "len", ![r].buf = hist[k].ptr]
  /\ UNCHANGED fault

LoadPtr(r) ==
  /\ rd[r].pc = "ptr"
  /\ \E k \in Visible(r) :
       /\ Load(r, k, PtrLoadOrder, hist[k].ptrRel)
       /\ IF hist[k].ptr = Null
          THEN Returns(r, Null, 0)
          ELSE rd' = [rd EXCEPT ![r].pc = "len", ![r].buf = hist[k].ptr]
  /\ UNCHANGED fault

\* len is stored with a relaxed store before the buffer is published.
LoadLen(r) ==
  LET b == rd[r].buf IN
  /\ rd[r].pc = "len"
  /\ \E k \in Visible(r) :
       IF b \in DOMAIN hist[k].bufs
       THEN /\ Load(r, k, LenLoadOrder, FALSE)
            /\ Returns(r, b, hist[k].bufs[b].len)
            /\ UNCHANGED fault
       ELSE /\ fault' = "uninit_read"
            /\ UNCHANGED <<memoryVars, rd>>

\* Byte i of buffer b: the text, its terminator, and nothing behind it.
Bytes(b) == [i \in 0 .. b.cap - 1 |-> IF i < b.len THEN b.text[i + 1] ELSE NUL]
Literal == [len |-> 0, cap |-> 1, text |-> <<>>]

\* strlen stops at the terminator, copy after the length it was told.
ReadByte(r) ==
  LET b == rd[r].buf
      i == Len(rd[r].got)
      ended == rd[r].op = "copy" /\ i = rd[r].len
  IN
  /\ rd[r].pc = "byte"
  /\ \E k \in Visible(r) :
       LET known == b = Null \/ b \in DOMAIN hist[k].bufs
           bytes == Bytes(IF b = Null THEN Literal ELSE hist[k].bufs[b])
       IN  IF ended \/ (known /\ i \in DOMAIN bytes)
           THEN /\ rd' = IF ended \/ (rd[r].op = "get" /\ bytes[i] = NUL)
                         THEN [rd EXCEPT ![r].pc = "done"]
                         ELSE [rd EXCEPT ![r].got = Append(@, bytes[i])]
                /\ UNCHANGED fault
           ELSE /\ fault' = IF known THEN "overrun_read" ELSE "uninit_read"
                /\ UNCHANGED rd
  /\ UNCHANGED memoryVars

Done(r) ==
  /\ rd[r].pc = "done"
  /\ rd' = [rd EXCEPT ![r] = IdleReader]
  /\ UNCHANGED <<memoryVars, fault>>

\* The steps of a call that has begun.
ReaderStep(r) == LoadPtr(r) \/ LoadLen(r) \/ ReadByte(r) \/ Done(r)

ReaderNext(r) == ReaderStep(r) \/ \E op \in ReaderOps : Call(r, op)

Next ==
  /\ fault = "none"
  /\ WriterNext \/ \E r \in Readers : ReaderNext(r)

Spec == Init /\ [][Next]_vars

\* A reader inside a call keeps running; nothing is asked of the writer.
FairSpec ==
  Spec /\ \A r \in Readers : WF_vars(fault = "none" /\ ReaderStep(r))

-----------------------------------------------------------------------------
(* Properties *)

\* The variables have their types; len is only loaded through a pointer that
\* is not null (446-468).
TypeOK ==
  /\ hist \in Seq(Memory) /\ hist # <<>>
  /\ floor \in [Readers -> 1 .. Len(hist)]
  /\ rd \in [Readers -> Reader]
  /\ \A r \in Readers : rd[r].pc = "len" => rd[r].buf # Null
  /\ fault \in Faults

\* No call, and no walk to the terminator over what get returned, leaves a
\* live, initialised buffer, however often the writer sets the string
\* meanwhile: buffers are private until published, whole when they are, and
\* not reused (msm_allocator.cpp:415-468).  length() and get() are two
\* snapshots, and only a set between them can send a caller that combines
\* them out of the buffer (test_concurrent.cpp:199-203).
OnlyUnpairedCopiesFault ==
  fault # "none" =>
    \E r \in Readers : rd[r].op = "copy" /\ rd[r].lenBuf # rd[r].buf

TextOf(m) == IF m.ptr = Null THEN <<>> ELSE m.bufs[m.ptr].text

\* What a text looks like through a pointer to char.
CString(t) ==
  LET ends == {n \in 0 .. Len(t) : n = Len(t) \/ t[n + 1] = NUL}
  IN  SubSeq(t, 1, CHOOSE n \in ends : \A e \in ends : n <= e)

\* The walked bytes and the length are those of one text, the one the reader
\* acquired, and length() and get() agree when they saw the same buffer: bytes
\* of two texts never mix, and an old length is never paired with a new buffer
\* (msm_allocator.cpp:383-386).
ReadsOneText ==
  \A r \in Readers :
    LET t == TextOf(hist[floor[r]]) IN
    rd[r].pc = "done" =>
      /\ rd[r].op = "get" => rd[r].got = CString(t)
      /\ rd[r].op = "length" => rd[r].len = Len(t)
      /\ rd[r].op = "copy" /\ rd[r].lenBuf = rd[r].buf => rd[r].got = t

\* What the readers rely on: a published buffer is whole, its capacity counts
\* the terminator, and every later snapshot has it unchanged.
BufferOK(b) == b.text # <<>> /\ b.len = Len(b.text) /\ b.cap = b.len + 1

Extends(m, n) ==
  \A b \in DOMAIN m.bufs : b \in DOMAIN n.bufs /\ n.bufs[b] = m.bufs[b]

HistoryOK ==
  /\ \A k \in 1 .. Len(hist) :
       /\ hist[k].ptr \in 0 .. Len(hist[k].bufs)
       /\ IF k = 1 THEN hist[k].ptr = Null ELSE hist[k].ptrRel
       /\ \A b \in DOMAIN hist[k].bufs : BufferOK(hist[k].bufs[b])
  /\ \A k \in 1 .. Len(hist) : \A j \in 1 .. k : Extends(hist[j], hist[k])

\* The bytes walked so far are the first ones of the text t.
Walked(got, t) == Len(got) <= Len(t) /\ \A i \in 1 .. Len(got) : got[i] = t[i]

\* Where a call stands: the pointer it has loaded is that of the snapshot it
\* acquired, and a copy remembers the length of a buffer it has acquired too.
ReaderOK(r) ==
  LET q == rd[r]
      m == hist[floor[r]]
  IN
  /\ q.pc # "idle" =>
       q.op \in ReaderOps /\ (q.op = "copy" \/ q.call = q.op) /\ q.call # "none"
  /\ q.pc \in {"ptr", "len"} => q.got = <<>>
  /\ q.pc = "byte" => q.call = "get"
  /\ q.pc = "done" => q.op = "length" \/ q.call = "get"
  /\ q.pc = "len" \/ (q.pc \in {"byte", "done"} /\ q.call = "get") => q.buf = m.ptr
  /\ q.op = "copy" /\ q.call = "get" =>
       /\ q.lenBuf \in 0 .. Len(m.bufs)
       /\ q.len = IF q.lenBuf = Null THEN 0 ELSE Len(m.bufs[q.lenBuf].text)
  /\ q.pc = "byte" /\ (q.op = "get" \/ q.lenBuf = q.buf) => Walked(q.got, TextOf(m))
  /\ q.pc = "byte" /\ q.op = "get" => \A i \in 1 .. Len(q.got) : q.got[i] # NUL

StringInv ==
  TypeOK /\ HistoryOK /\ ReadsOneText /\ \A r \in Readers : ReaderOK(r)

\* Reads are wait-free (README.md:8): a reader that runs finishes its call,
\* whether the writer goes on, stands still or never set anything.
ReadsFinish ==
  \A r \in Readers : rd[r].pc # "idle" ~> (rd[r].pc = "idle" \/ fault # "none")

\* A set copies the len bytes it is given into a buffer grown for them, the
\* terminator included (msm_allocator.h:112-113).
CopiesInBounds == fault # "overrun_write"

\* The string implements a register whose readers never go back.
Versions == [k \in 1 .. Len(hist) |-> TextOf(hist[k])]
Results == [r \in Readers |->
              IF rd[r].pc = "done" /\ rd[r].op = "get" THEN rd[r].got ELSE NUL]

Register == INSTANCE SharedText WITH
  versions <- Versions, known <- floor, result <- Results,
  View <- CString, Texts <- Texts \cup {<<>>}, Nothing <- NUL

RegisterSpec == Register!Spec

=============================================================================
