------------------------- MODULE MsmRegistryProofs --------------------------
(* Theorems about MsmRegistry, for every set of threads, names and schemas   *)
(* and for every number of blocks and calls: what the mutex gives the calls  *)
(* (RegistryInv) is kept by every step of every call.                        *)
EXTENDS MsmRegistry, TLAPS

-----------------------------------------------------------------------------
(* What a thread is while another one holds the mutex. *)

Holding == {"find", "malloc", "insert", "destroy", "free", "unlock"}

\* Between its lock and its unlock a call is alone.
LEMMA Alone ==
  ASSUME TypeOK, NEW t \in Threads, th[t].pc \in Holding
  PROVE  /\ owner = t
         /\ \A u \in Threads \ {t} : th[u].pc \in {"idle", "lock", "return"}
<1>1. owner = t
  BY DEF TypeOK, Holding
<1>2. ASSUME NEW u \in Threads \ {t}
      PROVE  th[u].pc \in {"idle", "lock", "return"}
  BY <1>1 DEF TypeOK
<1>3. QED
  BY <1>1, <1>2

\* A step of t leaves the other threads where they are.
OnlyMoves(t) ==
  /\ th' \in [Threads -> Thread]
  /\ \A u \in Threads \ {t} : th'[u] = th[u]

LEMMA GotoMoves ==
  ASSUME TypeOK, NEW t \in Threads,
         NEW pc \in {"find", "malloc", "free", "return"}, Goto(t, pc)
  PROVE  /\ OnlyMoves(t)
         /\ th'[t] = [th[t] EXCEPT !.pc = pc]
<1>1. th[t] \in Thread
  BY DEF TypeOK
<1>2. [th[t] EXCEPT !.pc = pc] \in Thread
  BY <1>1 DEF Thread
<1>3. th' = [th EXCEPT ![t] = [th[t] EXCEPT !.pc = pc]]
  BY DEF Goto
<1>4. QED
  BY <1>2, <1>3 DEF TypeOK, OnlyMoves

\* Where Finish leaves the thread.
Answering(t, ret) ==
  [th[t] EXCEPT !.pc = "unlock", !.ret = ret, !.blk = Null, !.dtor = FALSE]

LEMMA FinishMoves ==
  ASSUME TypeOK, NEW t \in Threads,
         NEW ret \in Blocks \cup {Null, Threw} \cup Schemas, Finish(t, ret)
  PROVE  /\ OnlyMoves(t)
         /\ th'[t] = Answering(t, ret)
<1>1. th[t] \in Thread
  BY DEF TypeOK
<1>2. Answering(t, ret) \in Thread
  BY <1>1 DEF Thread, Answering
<1>3. th' = [th EXCEPT ![t] = Answering(t, ret)]
  BY DEF Finish, Answering
<1>4. QED
  BY <1>2, <1>3 DEF TypeOK, OnlyMoves

-----------------------------------------------------------------------------
(* RegistryInv is inductive. *)

\* What CallOK says of a thread outside its critical section is about that
\* thread only, so no step of another one can disturb it.
LEMMA OthersKeep ==
  ASSUME NEW t \in Threads, OnlyMoves(t),
         NEW u \in Threads \ {t}, CallOK(u),
         th[u].pc \in {"idle", "lock", "return"} \/ UNCHANGED <<reg, heap>>
  PROVE  CallOK(u)'
<1>1. th'[u] = th[u]
  BY DEF OnlyMoves
<1>2. CASE th[u].pc \in {"idle", "lock", "return"}
  BY <1>1, <1>2 DEF CallOK
<1>3. CASE UNCHANGED <<reg, heap>>
  BY <1>1, <1>3 DEF CallOK, Exists
<1>4. QED
  BY <1>2, <1>3

LEMMA RegistryInit == Init => RegistryInv
<1> SUFFICES ASSUME Init PROVE RegistryInv
  OBVIOUS
<1>1. IdleThread(0) \in Thread
  BY ConstantsAssumption DEF IdleThread, Thread
<1>2. DOMAIN reg = {}
  BY DEF Init
<1>3. \A t \in Threads : th[t] = IdleThread(0) /\ th[t].pc = "idle"
  BY DEF Init, IdleThread
<1>4. TypeOK
  BY <1>1, <1>2, <1>3, ConstantsAssumption DEF Init, TypeOK
<1>5. NoBlockLost
  BY <1>2 DEF Init, NoBlockLost
<1>6. \A t \in Threads : CallOK(t)
  BY <1>3 DEF CallOK
<1>7. QED
  BY <1>4, <1>5, <1>6 DEF RegistryInv, BlocksUsedRightly, Init

\* A step that moves t between the steps of its call and leaves the map and
\* the blocks alone: what remains to be seen is what t knows at its new step.
LEMMA QuietStep ==
  ASSUME RegistryInv, NEW t \in Threads, UNCHANGED <<reg, heap>>,
         OnlyMoves(t), CallOK(t)',
         owner' \in Threads \cup {Nobody},
         fault' \in {"none", "abort"},
         \A u \in Threads : owner' = u <=> th'[u].pc \notin {"idle", "lock", "return"},
         th[t].pc \notin {"insert", "destroy", "free"}
  PROVE  RegistryInv'
<1>1. TypeOK'
  BY DEF RegistryInv, TypeOK, OnlyMoves
<1>2. \A u \in Threads, b \in Blocks : InHand(u, b) => InHand(u, b)'
  BY DEF InHand, OnlyMoves
<1>3. NoBlockLost'
  <2>1. \A n \in DOMAIN reg : reg[n].blk \in Blocks
    BY DEF RegistryInv, TypeOK, Entry
  <2>2. QED
    BY <1>2, <2>1 DEF RegistryInv, NoBlockLost
<1>4. \A u \in Threads : CallOK(u)'
  BY OthersKeep DEF RegistryInv
<1>5. QED
  BY <1>1, <1>3, <1>4 DEF RegistryInv, BlocksUsedRightly

LEMMA IdleThreadType ==
  ASSUME NEW k \in Nat
  PROVE  /\ IdleThread(k) \in Thread
         /\ IdleThread(k).pc = "idle" /\ IdleThread(k).name = NullName
BY ConstantsAssumption DEF IdleThread, Thread

\* The state of a thread that has just called.
LEMMA CallMoves ==
  ASSUME RegistryInv, NEW t \in Threads, NEW op \in Ops, Call(t, op)
  PROVE  /\ OnlyMoves(t)
         /\ th'[t].op = op
         /\ \/ th'[t].pc = "return" /\ th'[t].name = NullName
            \/ /\ th'[t].pc = "lock" /\ th'[t].name \in Names \ {NullName}
               /\ th'[t].ret = IF op = "get_hash" THEN NoSchema ELSE Null
<1> DEFINE S == IF op \in {"alloc", "get_with_schema"} THEN Schemas ELSE {NoSchema}
           D == IF op = "alloc" THEN BOOLEAN ELSE {FALSE}
<1>1. PICK n \in Names \cup {NullName}, s \in S, d \in D :
        th' = [th EXCEPT ![t] =
          [IdleThread(th[t].calls + 1) EXCEPT
            !.pc = IF n = NullName THEN "return" ELSE "lock",
            !.ret = IF op = "get_hash" THEN NoSchema ELSE Null,
            !.op = op, !.name = n, !.schema = s, !.dtor = d]]
  BY DEF Call
<1> DEFINE pc == IF n = NullName THEN "return" ELSE "lock"
           ret == IF op = "get_hash" THEN NoSchema ELSE Null
<1>2. th[t].calls + 1 \in Nat
  BY DEF RegistryInv, TypeOK, Thread
<1>3. PICK idle \in Thread : idle = IdleThread(th[t].calls + 1)
  BY <1>2, IdleThreadType
<1> DEFINE c == [idle EXCEPT !.pc = pc, !.ret = ret, !.op = op, !.name = n,
                             !.schema = s, !.dtor = d]
<1>4. s \in Schemas /\ d \in BOOLEAN /\ ret \in {Null} \cup Schemas
      /\ pc \in {"return", "lock"}
  BY ConstantsAssumption
<1>5. c \in Thread /\ c.pc = pc /\ c.op = op /\ c.name = n /\ c.ret = ret
  <2> HIDE DEF pc, ret
  <2>1. QED
    BY ZenonT(60), <1>4 DEF Thread
<1>6. th' = [th EXCEPT ![t] = c]
  BY <1>1, <1>3
<1>7. OnlyMoves(t) /\ th'[t] = c
  <2> HIDE DEF c
  <2>1. QED
    BY <1>5, <1>6 DEF OnlyMoves, RegistryInv, TypeOK
<1>8. QED
  BY <1>5, <1>7

LEMMA CallStep ==
  ASSUME RegistryInv, fault = "none", NEW t \in Threads, NEW op \in Ops, Call(t, op)
  PROVE  RegistryInv'
<1>1. CallOK(t)'
  BY CallMoves DEF CallOK
<1>2. th'[t].pc \in {"lock", "return"}
  BY CallMoves
<1>3. \A u \in Threads : owner' = u <=> th'[u].pc \notin {"idle", "lock", "return"}
  BY ZenonT(60), <1>2, CallMoves DEF Call, At, OnlyMoves, RegistryInv, TypeOK
<1>4. QED
  BY <1>1, <1>3, CallMoves, QuietStep DEF Call, At, RegistryInv, TypeOK

\* The steps that take the mutex, look the name up and give the mutex back.
LEMMA LockStep ==
  ASSUME RegistryInv, fault = "none", NEW t \in Threads, Lock(t)
  PROVE  RegistryInv'
<1>1. OnlyMoves(t) /\ th'[t] = [th[t] EXCEPT !.pc = "find"] /\ th[t] \in Thread
  BY GotoMoves DEF Lock, RegistryInv, TypeOK
<1>2. /\ th'[t].pc = "find" /\ th'[t].op = th[t].op
      /\ th'[t].name = th[t].name /\ th'[t].ret = th[t].ret
  BY <1>1 DEF Thread
<1>3. CallOK(t)'
  BY <1>2 DEF CallOK, RegistryInv, Lock, At
<1>4. \A u \in Threads : owner' = u <=> th'[u].pc \notin {"idle", "lock", "return"}
  <2>1. \A u \in Threads : th[u].pc \in {"idle", "lock", "return"}
    BY ConstantsAssumption DEF Lock, RegistryInv, TypeOK
  <2>2. owner' = t /\ \A u \in Threads \ {t} : th'[u] = th[u]
    BY <1>1 DEF Lock, OnlyMoves
  <2>3. QED
    BY <1>2, <2>1, <2>2
<1>5. QED
  BY <1>1, <1>3, <1>4, QuietStep DEF Lock, At, RegistryInv, TypeOK

LEMMA UnlockStep ==
  ASSUME RegistryInv, fault = "none", NEW t \in Threads, Unlock(t)
  PROVE  RegistryInv'
<1>1. OnlyMoves(t) /\ th'[t] = [th[t] EXCEPT !.pc = "return"] /\ th[t] \in Thread
  BY GotoMoves DEF Unlock, RegistryInv, TypeOK
<1>2. th'[t].pc = "return"
  BY <1>1 DEF Thread
<1>3. CallOK(t)'
  BY <1>2 DEF CallOK
<1>4. \A u \in Threads : owner' = u <=> th'[u].pc \notin {"idle", "lock", "return"}
  BY <1>1, <1>2, Alone, ConstantsAssumption
  DEF Unlock, At, Holding, OnlyMoves, RegistryInv
<1>5. QED
  BY <1>1, <1>3, <1>4, QuietStep DEF Unlock, At, RegistryInv, TypeOK

LEMMA ReturnStep ==
  ASSUME RegistryInv, fault = "none", NEW t \in Threads, Return(t)
  PROVE  RegistryInv'
<1>1. th[t].calls \in Nat
  BY DEF RegistryInv, TypeOK, Thread
<1>2. OnlyMoves(t) /\ th'[t] = IdleThread(th[t].calls)
  BY <1>1, IdleThreadType DEF Return, OnlyMoves, RegistryInv, TypeOK
<1>3. th'[t].pc = "idle"
  BY <1>1, <1>2, IdleThreadType
<1>4. CallOK(t)'
  BY <1>3 DEF CallOK
<1>5. \A u \in Threads : owner' = u <=> th'[u].pc \notin {"idle", "lock", "return"}
  BY <1>2, <1>3 DEF Return, At, OnlyMoves, RegistryInv, TypeOK
<1>6. QED
  BY <1>2, <1>4, <1>5, QuietStep DEF Return, At, RegistryInv, TypeOK

\* While a call looks its name up no other call has a block in its hands.
LEMMA AloneInHand ==
  ASSUME RegistryInv, NEW t \in Threads, th[t].pc \in Holding
  PROVE  \A u \in Threads, b \in Blocks : InHand(u, b) => u = t
BY Alone DEF InHand, RegistryInv

\* What the mutex says after a step of its holder that keeps it.
LEMMA StillHolding ==
  ASSUME RegistryInv, NEW t \in Threads, th[t].pc \in Holding,
         OnlyMoves(t), UNCHANGED owner, th'[t].pc \in Holding
  PROVE  /\ owner' \in Threads \cup {Nobody}
         /\ \A u \in Threads : owner' = u <=> th'[u].pc \notin {"idle", "lock", "return"}
         /\ \A u \in Threads \ {t} : CallOK(u)'
<1>1. owner = t /\ \A u \in Threads \ {t} : th[u].pc \in {"idle", "lock", "return"}
  BY Alone DEF RegistryInv
<1>2. \A u \in Threads \ {t} : CallOK(u)'
  BY <1>1, OthersKeep DEF RegistryInv
<1>3. QED
  BY <1>1, <1>2 DEF OnlyMoves, Holding

LEMMA FindPresentStep ==
  ASSUME RegistryInv, fault = "none", NEW t \in Threads, FindPresent(t)
  PROVE  RegistryInv'
<1> DEFINE e == reg[th[t].name]
<1>1. /\ th[t].pc = "find" /\ th[t].pc \in Holding /\ th[t] \in Thread
      /\ th[t].op \in Ops /\ Exists(th[t].name) /\ e \in Entry
      /\ UNCHANGED <<owner, reg, heap>>
  BY DEF FindPresent, At, Exists, Holding, RegistryInv, TypeOK, CallOK
<1>2. ASSUME NEW ret \in Blocks \cup {Null, Threw} \cup Schemas, Finish(t, ret), UNCHANGED fault
      PROVE  RegistryInv'
  <2>1. OnlyMoves(t) /\ th'[t] = Answering(t, ret)
    BY <1>2, FinishMoves DEF RegistryInv
  <2>2. th'[t].pc = "unlock" /\ th'[t].op = th[t].op /\ th'[t].name = th[t].name
    BY <1>1, <2>1 DEF Thread, Answering
  <2>3. CallOK(t)'
    BY <1>1, <2>2 DEF CallOK, RegistryInv
  <2>4. QED
    BY <1>1, <1>2, <2>1, <2>2, <2>3, StillHolding, QuietStep DEF Holding
<1>3. ASSUME Aborts
      PROVE  RegistryInv'
  <2>1. UNCHANGED <<owner, reg, heap, th>> /\ fault' = "abort"
    BY <1>1, <1>3 DEF Aborts
  <2>2. TypeOK' /\ NoBlockLost'
    BY <2>1 DEF RegistryInv, TypeOK, NoBlockLost, InHand
  <2>3. \A u \in Threads : CallOK(u)'
    BY <2>1 DEF RegistryInv, CallOK, Exists
  <2>4. QED
    BY <2>1, <2>2, <2>3 DEF RegistryInv, BlocksUsedRightly
<1>4. ASSUME th[t].op = "free", UNCHANGED fault,
             th' = [th EXCEPT ![t].blk = e.blk, ![t].dtor = e.dtor,
                              ![t].pc = IF e.dtor THEN "destroy" ELSE "free"]
      PROVE  RegistryInv'
  <2>1. e.blk \in Blocks /\ e.dtor \in BOOLEAN
    BY <1>1 DEF Entry
  <2> DEFINE pc == IF e.dtor THEN "destroy" ELSE "free"
             c == [th[t] EXCEPT !.blk = e.blk, !.dtor = e.dtor, !.pc = pc]
  <2>2. pc \in {"destroy", "free"}
    OBVIOUS
  <2>3. /\ c \in Thread /\ c.pc = pc /\ c.blk = e.blk
        /\ c.op = th[t].op /\ c.name = th[t].name
    <3> HIDE DEF pc, e
    <3>1. QED
      BY <1>1, <2>1, <2>2 DEF Thread
  <2>4. OnlyMoves(t) /\ th'[t] = c
    <3>1. th' = [th EXCEPT ![t] = c]
      BY <1>4
    <3> HIDE DEF c
    <3>2. QED
      BY <2>3, <3>1 DEF OnlyMoves, RegistryInv, TypeOK
  <2>5. heap[e.blk] = "live"
    <3>1. ~ \E u \in Threads : InHand(u, e.blk)
      BY <1>1, <2>1, AloneInHand DEF InHand
    <3>2. QED
      BY <1>1, <3>1 DEF RegistryInv, NoBlockLost, Exists
  <2>6. CallOK(t)'
    <3>1. /\ th'[t].pc \in {"destroy", "free"} /\ th'[t].op = "free"
          /\ th'[t].name = th[t].name /\ th'[t].blk = reg[th[t].name].blk
          /\ heap'[th'[t].blk] = "live"
      BY <1>1, <1>4, <2>2, <2>3, <2>4, <2>5
    <3>2. th[t].op \in Ops /\ th[t].name \in Names \ {NullName}
      BY <1>1 DEF CallOK, RegistryInv
    <3>3. QED
      BY <1>1, <1>4, <3>1, <3>2 DEF CallOK, Exists
  <2>7. QED
    BY <1>1, <1>4, <2>2, <2>3, <2>4, <2>6, StillHolding, QuietStep DEF Holding
<1>5. QED
  BY <1>1, <1>2, <1>3, <1>4 DEF FindPresent, GetWithSchema, Entry

LEMMA FindAbsentStep ==
  ASSUME RegistryInv, fault = "none", NEW t \in Threads, FindAbsent(t)
  PROVE  RegistryInv'
<1>1. /\ th[t].pc = "find" /\ th[t].pc \in Holding /\ th[t] \in Thread
      /\ th[t].op \in Ops /\ ~Exists(th[t].name)
      /\ UNCHANGED <<owner, reg, heap, fault>>
  BY DEF FindAbsent, At, Holding, RegistryInv, TypeOK, CallOK
<1>2. /\ OnlyMoves(t) /\ th'[t].op = th[t].op /\ th'[t].name = th[t].name
      /\ \/ th[t].op = "alloc" /\ th'[t].pc = "malloc"
         \/ th'[t].pc = "unlock"
  <2>1. CASE th[t].op = "alloc"
    <3>1. OnlyMoves(t) /\ th'[t] = [th[t] EXCEPT !.pc = "malloc"]
      BY <2>1, GotoMoves DEF FindAbsent, RegistryInv
    <3>2. QED
      BY <1>1, <2>1, <3>1 DEF Thread
  <2>2. CASE th[t].op # "alloc"
    <3>1. th[t].ret \in Blocks \cup {Null, Threw} \cup Schemas
      BY <1>1 DEF Thread
    <3>2. OnlyMoves(t) /\ th'[t] = Answering(t, th[t].ret)
      BY <2>2, <3>1, FinishMoves DEF FindAbsent, RegistryInv
    <3>3. QED
      BY <1>1, <3>2 DEF Thread, Answering
  <2>3. QED
    BY <2>1, <2>2
<1>3. CallOK(t)'
  BY <1>1, <1>2 DEF CallOK, RegistryInv, Exists
<1>4. QED
  BY <1>1, <1>2, <1>3, StillHolding, QuietStep DEF Holding

LEMMA FindThrowsStep ==
  ASSUME RegistryInv, fault = "none", NEW t \in Threads, FindThrows(t)
  PROVE  RegistryInv'
<1>1. /\ th[t].pc = "find" /\ th[t].pc \in Holding /\ th[t] \in Thread
      /\ UNCHANGED <<owner, reg, heap, fault>>
  BY DEF FindThrows, At, Holding, RegistryInv, TypeOK
<1>2. OnlyMoves(t) /\ th'[t] = Answering(t, Threw)
  BY FinishMoves DEF FindThrows, RegistryInv
<1>3. th'[t].pc = "unlock" /\ th'[t].op = th[t].op /\ th'[t].name = th[t].name
  BY <1>1, <1>2 DEF Thread, Answering
<1>4. CallOK(t)'
  BY <1>1, <1>3 DEF CallOK, RegistryInv
<1>5. QED
  BY <1>1, <1>2, <1>3, <1>4, StillHolding, QuietStep DEF Holding

\* The steps that allocate, register, destroy and release a block.  A block in
\* hand belongs to one call, so each of them is about that call and that block.
LEMMA MallocStep ==
  ASSUME RegistryInv, fault = "none", NEW t \in Threads, Malloc(t)
  PROVE  RegistryInv'
<1>1. /\ th[t].pc = "malloc" /\ th[t].pc \in Holding /\ th[t] \in Thread
      /\ th[t].op \in Ops /\ th[t].op = "alloc" /\ ~Exists(th[t].name)
      /\ th[t].name \in Names \ {NullName}
      /\ UNCHANGED <<owner, reg, fault>>
  BY DEF Malloc, At, Holding, RegistryInv, TypeOK, CallOK
<1>2. ASSUME Finish(t, Null), UNCHANGED heap
      PROVE  RegistryInv'
  <2>1. OnlyMoves(t) /\ th'[t] = Answering(t, Null)
    BY <1>2, FinishMoves DEF RegistryInv
  <2>2. th'[t].pc = "unlock" /\ th'[t].op = th[t].op /\ th'[t].name = th[t].name
    BY <1>1, <2>1 DEF Thread, Answering
  <2>3. CallOK(t)'
    BY <1>1, <2>2 DEF CallOK
  <2>4. QED
    BY <1>1, <1>2, <2>1, <2>2, <2>3, StillHolding, QuietStep DEF Holding
<1>3. ASSUME NEW b \in Blocks, heap[b] = "unused",
             heap' = [heap EXCEPT ![b] = "live"],
             th' = [th EXCEPT ![t].blk = b, ![t].pc = "insert"]
      PROVE  RegistryInv'
  <2> DEFINE c == [th[t] EXCEPT !.blk = b, !.pc = "insert"]
  <2>1. /\ c \in Thread /\ c.pc = "insert" /\ c.blk = b
        /\ c.op = th[t].op /\ c.name = th[t].name
    BY <1>1 DEF Thread
  <2>2. OnlyMoves(t) /\ th'[t] = c
    <3>1. th' = [th EXCEPT ![t] = c]
      BY <1>3
    <3> HIDE DEF c
    <3>2. QED
      BY <2>1, <3>1 DEF OnlyMoves, RegistryInv, TypeOK
  <2>3. /\ heap' \in [Blocks -> {"unused", "live", "destroyed", "freed", "lost"}]
        /\ heap'[b] = "live" /\ \A x \in Blocks \ {b} : heap'[x] = heap[x]
    BY <1>3 DEF RegistryInv, TypeOK
  <2>4. \A n \in DOMAIN reg : reg[n].blk \in Blocks \ {b}
    BY <1>3 DEF RegistryInv, TypeOK, Entry, NoBlockLost
  <2>5. TypeOK'
    BY <1>1, <2>1, <2>2, <2>3, StillHolding DEF RegistryInv, TypeOK, OnlyMoves, Holding
  <2>6. CallOK(t)'
    BY <1>1, <2>1, <2>2, <2>3, <2>4 DEF CallOK, Exists
  <2>7. \A u \in Threads \ {t} : CallOK(u)'
    BY <1>1, <2>1, <2>2, StillHolding DEF Holding
  <2>8. ~ \E u \in Threads, x \in Blocks : InHand(u, x)
    BY <1>1, AloneInHand DEF InHand
  <2>9. NoBlockLost'
    <3>1. InHand(t, b)'
      BY <2>1, <2>2 DEF InHand
    <3>2. \A n \in DOMAIN reg : heap[reg[n].blk] = "live"
      BY <2>4, <2>8 DEF RegistryInv, NoBlockLost
    <3>3. \A n \in DOMAIN reg : heap'[reg[n].blk] = "live"
      BY <2>3, <2>4, <3>2
    <3>4. \A x \in Blocks \ {b} : heap[x] \in {"live", "destroyed"} =>
             \E n \in DOMAIN reg : reg[n].blk = x
      BY <2>8 DEF RegistryInv, NoBlockLost
    <3>5. QED
      BY <1>1, <2>3, <3>1, <3>3, <3>4 DEF RegistryInv, NoBlockLost
  <2>10. QED
    BY <1>1, <2>5, <2>6, <2>7, <2>9 DEF RegistryInv, BlocksUsedRightly
<1>4. QED
  BY <1>2, <1>3 DEF Malloc

LEMMA DestroyStep ==
  ASSUME RegistryInv, fault = "none", NEW t \in Threads, Destroy(t)
  PROVE  RegistryInv'
<1> DEFINE b == th[t].blk
<1>1. /\ th[t].pc = "destroy" /\ th[t].pc \in Holding /\ th[t] \in Thread
      /\ th[t].op \in Ops /\ th[t].op = "free" /\ Exists(th[t].name)
      /\ th[t].name \in Names \ {NullName}
      /\ b = reg[th[t].name].blk /\ b \in Blocks /\ heap[b] = "live"
      /\ UNCHANGED <<owner, reg>>
  BY DEF Destroy, At, Holding, RegistryInv, TypeOK, CallOK, Exists, Entry
<1>2. OnlyMoves(t) /\ th'[t] = [th[t] EXCEPT !.pc = "free"]
  BY GotoMoves DEF Destroy, RegistryInv
<1>3. /\ th'[t].pc = "free" /\ th'[t].op = "free" /\ th'[t].blk = b
      /\ th'[t].name = th[t].name
  BY <1>1, <1>2 DEF Thread
<1>4. /\ heap' \in [Blocks -> {"unused", "live", "destroyed", "freed", "lost"}]
      /\ heap'[b] = "destroyed" /\ \A x \in Blocks \ {b} : heap'[x] = heap[x]
      /\ fault' = "none"
  BY <1>1 DEF Destroy, RegistryInv, TypeOK
<1>5. TypeOK'
  BY <1>1, <1>2, <1>3, <1>4, StillHolding DEF RegistryInv, TypeOK, OnlyMoves, Holding
<1>6. CallOK(t)'
  BY <1>1, <1>3 DEF CallOK, Exists
<1>7. \A u \in Threads \ {t} : CallOK(u)'
  BY <1>1, <1>2, <1>3, StillHolding DEF Holding
<1>8. NoBlockLost'
  <2>1. \A x \in Blocks \ {b} : ~ \E u \in Threads : InHand(u, x)
    BY <1>1, AloneInHand DEF InHand
  <2>2. \A n \in DOMAIN reg : reg[n].blk \in Blocks
    BY DEF RegistryInv, TypeOK, Entry
  <2>3. \A x \in Blocks : heap'[x] \in {"live", "destroyed"} =>
          \E n \in DOMAIN reg' : reg'[n].blk = x
    BY <1>1, <1>4, <2>1 DEF RegistryInv, NoBlockLost, Exists
  <2>4. \A n \in DOMAIN reg :
          \/ heap'[reg[n].blk] = "live"
          \/ heap'[reg[n].blk] = "destroyed" /\ reg[n].blk = b
    BY <1>1, <1>4, <2>1, <2>2 DEF RegistryInv, NoBlockLost
  <2>5. \A m, n \in DOMAIN reg' : reg'[m].blk = reg'[n].blk => m = n
    BY <1>1 DEF RegistryInv, NoBlockLost
  <2>6. \E u \in Threads : th'[u].blk = b /\ th'[u].pc \in {"insert", "destroy", "free"}
    BY <1>3
  <2>7. QED
    BY <1>1, <2>3, <2>4, <2>5, <2>6 DEF NoBlockLost, InHand
<1>9. QED
  BY <1>4, <1>5, <1>6, <1>7, <1>8 DEF RegistryInv, BlocksUsedRightly

LEMMA InsertStep ==
  ASSUME RegistryInv, fault = "none", NEW t \in Threads, Insert(t)
  PROVE  RegistryInv'
<1> DEFINE b == th[t].blk
           k == th[t].name
           e == [blk |-> b, schema |-> th[t].schema, dtor |-> th[t].dtor]
<1>1. /\ th[t].pc = "insert" /\ th[t].pc \in Holding /\ th[t] \in Thread
      /\ th[t].op \in Ops /\ ~Exists(k) /\ k \in Names \ {NullName}
      /\ b \in Blocks /\ heap[b] = "live"
      /\ \A n \in DOMAIN reg : reg[n].blk \in Blocks \ {b}
      /\ UNCHANGED <<owner, fault>>
  BY DEF Insert, At, Holding, RegistryInv, TypeOK, CallOK, Exists, Entry
<1>2. PICK ret \in Blocks \cup {Threw} : Finish(t, ret)
  BY <1>1 DEF Insert
<1>3. OnlyMoves(t) /\ th'[t] = Answering(t, ret)
  BY <1>2, FinishMoves DEF RegistryInv
<1>4. /\ th'[t].pc = "unlock" /\ th'[t].op = th[t].op /\ th'[t].name = k
  BY <1>1, <1>3 DEF Thread, Answering
<1>5. CallOK(t)'
  BY <1>1, <1>4 DEF CallOK
<1>6. \A u \in Threads \ {t} : CallOK(u)'
  BY <1>1, <1>3, <1>4, StillHolding DEF Holding
<1>7. \A x \in Blocks \ {b} : ~ \E u \in Threads : InHand(u, x)
  BY <1>1, AloneInHand DEF InHand
<1>8. \A n \in DOMAIN reg : heap[reg[n].blk] = "live"
  BY <1>1, <1>7 DEF RegistryInv, NoBlockLost
<1>9. ASSUME reg' = [n \in DOMAIN reg \cup {k} |-> IF n = k THEN e ELSE reg[n]],
             UNCHANGED heap
      PROVE  TypeOK' /\ NoBlockLost'
  <2>1. e \in Entry /\ e.blk = b
    BY <1>1 DEF Entry, Thread
  <2>2. /\ DOMAIN reg' = DOMAIN reg \cup {k} /\ reg'[k] = e
        /\ \A n \in DOMAIN reg : reg'[n] = reg[n]
    <3> HIDE DEF e
    <3>1. QED
      BY <1>1, <1>9 DEF Exists
  <2>3. TypeOK'
    <3>1. DOMAIN reg' \subseteq Names /\ \A n \in DOMAIN reg' : reg'[n] \in Entry
      BY <1>1, <2>1, <2>2 DEF RegistryInv, TypeOK
    <3>2. QED
      BY <1>1, <1>3, <1>4, <1>9, <3>1, StillHolding
      DEF RegistryInv, TypeOK, OnlyMoves, Holding
  <2>4. \A x \in Blocks : heap'[x] \in {"live", "destroyed"} =>
          \E n \in DOMAIN reg' : reg'[n].blk = x
    BY <1>7, <1>9, <2>1, <2>2 DEF RegistryInv, NoBlockLost
  <2>5. \A n \in DOMAIN reg' : heap'[reg'[n].blk] = "live"
    BY <1>1, <1>8, <1>9, <2>1, <2>2
  <2>6. \A m, n \in DOMAIN reg' : reg'[m].blk = reg'[n].blk => m = n
    BY <1>1, <2>1, <2>2 DEF RegistryInv, NoBlockLost
  <2>7. QED
    BY <2>3, <2>4, <2>5, <2>6 DEF NoBlockLost
<1>10. ASSUME heap' = [heap EXCEPT ![b] = "lost"], UNCHANGED reg
       PROVE  TypeOK' /\ NoBlockLost'
  <2>1. /\ heap' \in [Blocks -> {"unused", "live", "destroyed", "freed", "lost"}]
        /\ heap'[b] = "lost" /\ \A x \in Blocks \ {b} : heap'[x] = heap[x]
    BY <1>1, <1>10 DEF RegistryInv, TypeOK
  <2>2. TypeOK'
    BY <1>1, <1>3, <1>4, <1>10, <2>1, StillHolding DEF RegistryInv, TypeOK, OnlyMoves, Holding
  <2>3. NoBlockLost'
    BY <1>1, <1>7, <1>8, <1>10, <2>1 DEF RegistryInv, NoBlockLost
  <2>4. QED
    BY <2>2, <2>3
<1>11. TypeOK' /\ NoBlockLost'
  BY <1>9, <1>10 DEF Insert
<1>12. QED
  BY <1>1, <1>5, <1>6, <1>11 DEF RegistryInv, BlocksUsedRightly

LEMMA EraseStep ==
  ASSUME RegistryInv, fault = "none", NEW t \in Threads, Erase(t)
  PROVE  RegistryInv'
<1> DEFINE b == th[t].blk
           k == th[t].name
<1>1. /\ th[t].pc = "free" /\ th[t].pc \in Holding /\ th[t] \in Thread
      /\ th[t].op \in Ops /\ Exists(k) /\ k \in Names \ {NullName}
      /\ b = reg[k].blk /\ b \in Blocks
      /\ UNCHANGED owner
  BY DEF Erase, At, Holding, RegistryInv, TypeOK, CallOK, Exists, Entry
<1>2. heap[b] \in {"live", "destroyed"}
  BY <1>1 DEF RegistryInv, NoBlockLost, Exists
<1>3. /\ heap' \in [Blocks -> {"unused", "live", "destroyed", "freed", "lost"}]
      /\ heap'[b] = "freed" /\ \A x \in Blocks \ {b} : heap'[x] = heap[x]
      /\ fault' = "none"
  BY <1>1, <1>2 DEF Erase, RegistryInv, TypeOK
<1>4. OnlyMoves(t) /\ th'[t] = Answering(t, Null)
  BY FinishMoves DEF Erase, RegistryInv
<1>5. th'[t].pc = "unlock" /\ th'[t].op = th[t].op /\ th'[t].name = k
  BY <1>1, <1>4 DEF Thread, Answering
<1>6. /\ DOMAIN reg' = DOMAIN reg \ {k}
      /\ \A n \in DOMAIN reg' : reg'[n] = reg[n] /\ reg[n].blk \in Blocks \ {b}
  BY <1>1 DEF Erase, RegistryInv, TypeOK, NoBlockLost, Entry, Exists
<1>7. TypeOK'
  BY <1>1, <1>3, <1>4, <1>5, <1>6, StillHolding DEF RegistryInv, TypeOK, OnlyMoves, Holding
<1>8. CallOK(t)'
  BY <1>1, <1>5 DEF CallOK
<1>9. \A u \in Threads \ {t} : CallOK(u)'
  BY <1>1, <1>4, <1>5, StillHolding DEF Holding
<1>10. NoBlockLost'
  <2>1. \A x \in Blocks \ {b} : ~ \E u \in Threads : InHand(u, x)
    BY <1>1, AloneInHand DEF InHand
  <2>2. \A x \in Blocks : heap'[x] \in {"live", "destroyed"} =>
          \E n \in DOMAIN reg' : reg'[n].blk = x
    BY <1>1, <1>3, <1>6, <2>1 DEF RegistryInv, NoBlockLost
  <2>3. \A n \in DOMAIN reg' : heap'[reg'[n].blk] = "live"
    BY <1>3, <1>6, <2>1 DEF RegistryInv, NoBlockLost
  <2>4. \A m, n \in DOMAIN reg' : reg'[m].blk = reg'[n].blk => m = n
    BY <1>6 DEF RegistryInv, NoBlockLost
  <2>5. QED
    BY <2>2, <2>3, <2>4 DEF NoBlockLost
<1>11. QED
  BY <1>3, <1>7, <1>8, <1>9, <1>10 DEF RegistryInv, BlocksUsedRightly

LEMMA RegistryNext == RegistryInv /\ [Next]_vars => RegistryInv'
<1> SUFFICES ASSUME RegistryInv, [Next]_vars PROVE RegistryInv'
  OBVIOUS
<1>1. ASSUME NEW t \in Threads, Step(t)
      PROVE  RegistryInv'
  <2>1. fault = "none"
    BY <1>1 DEF Step
  <2>2. CASE Lock(t)
    BY <2>1, <2>2, LockStep
  <2>3. CASE FindPresent(t)
    BY <2>1, <2>3, FindPresentStep
  <2>4. CASE FindAbsent(t)
    BY <2>1, <2>4, FindAbsentStep
  <2>5. CASE Malloc(t)
    BY <2>1, <2>5, MallocStep
  <2>6. CASE Insert(t)
    BY <2>1, <2>6, InsertStep
  <2>7. CASE Destroy(t)
    BY <2>1, <2>7, DestroyStep
  <2>8. CASE Erase(t)
    BY <2>1, <2>8, EraseStep
  <2>9. CASE Unlock(t)
    BY <2>1, <2>9, UnlockStep
  <2>10. CASE Return(t)
    BY <2>1, <2>10, ReturnStep
  <2>11. CASE FindThrows(t)
    BY <2>1, <2>11, FindThrowsStep
  <2>12. QED
    BY <1>1, <2>2, <2>3, <2>4, <2>5, <2>6, <2>7, <2>8, <2>9, <2>10, <2>11 DEF Step
<1>2. ASSUME NEW t \in Threads, fault = "none", NEW op \in Ops, Call(t, op)
      PROVE  RegistryInv'
  BY <1>2, CallStep
<1>3. CASE UNCHANGED vars
  <2>1. TypeOK' /\ NoBlockLost' /\ BlocksUsedRightly'
    BY <1>3 DEF vars, RegistryInv, TypeOK, NoBlockLost, InHand, BlocksUsedRightly
  <2>2. \A t \in Threads : CallOK(t)'
    BY <1>3 DEF vars, RegistryInv, CallOK, Exists
  <2>3. QED
    BY <2>1, <2>2 DEF RegistryInv
<1>4. QED
  BY <1>1, <1>2, <1>3 DEF Next

-----------------------------------------------------------------------------
(* What follows of every behaviour. *)

\* However many threads call at once, what a call found in the map is still so
\* when it acts on it (the registry mutex, msm_allocator.cpp:89-221).
THEOREM RegistryCorrect == Spec => []RegistryInv
BY RegistryInit, RegistryNext, PTL DEF Spec

\* The mutex is held by exactly the call that is between its lock and its
\* unlock, whichever way the call ends (the lock guards of
\* msm_allocator.cpp:89-221).
THEOREM TypeCorrect == Spec => []TypeOK
<1>1. RegistryInv => TypeOK
  BY DEF RegistryInv
<1>2. QED
  BY <1>1, RegistryCorrect, PTL

\* No block is lost or registered twice, and none is registered that is not
\* intact, except by the call that is freeing it (msm_allocator.cpp:89-111,
\* 203-221).
THEOREM NoBlockLostCorrect == Spec => []NoBlockLost
<1>1. RegistryInv => NoBlockLost
  BY DEF RegistryInv
<1>2. QED
  BY <1>1, RegistryCorrect, PTL

\* A destructor runs on a live region only and no block is freed twice,
\* whichever threads free one name together (msm_allocator.cpp:203-221).
THEOREM BlocksUsedRightlyCorrect == Spec => []BlocksUsedRightly
<1>1. RegistryInv => BlocksUsedRightly
  BY DEF RegistryInv
<1>2. QED
  BY <1>1, RegistryCorrect, PTL


-----------------------------------------------------------------------------
(* What a step of one thread does to what the callers see. *)

LEMMA SeenMoves ==
  ASSUME NEW t \in Threads, OnlyMoves(t)
  PROVE  /\ OpenCalls' = [OpenCalls EXCEPT ![t] = CallOf(t)']
         /\ OpenAnswers' = [OpenAnswers EXCEPT ![t] = AnswerOf(t)']
<1>1. \A u \in Threads \ {t} : CallOf(u)' = CallOf(u) /\ AnswerOf(u)' = AnswerOf(u)
  BY DEF OnlyMoves, CallOf, AnswerOf, InCall, Answered
<1>2. OpenCalls' = [OpenCalls EXCEPT ![t] = CallOf(t)']
  BY <1>1 DEF OpenCalls
<1>3. OpenAnswers' = [OpenAnswers EXCEPT ![t] = AnswerOf(t)']
  BY <1>1 DEF OpenAnswers
<1>4. QED
  BY <1>2, <1>3

\* An open call is not the absence of a call, nor is an answer.
LEMMA SeenIsThere ==
  ASSUME RegistryInv, NEW t \in Threads
  PROVE  /\ OpenCalls[t] = CallOf(t) /\ OpenAnswers[t] = AnswerOf(t)
         /\ th[t].pc \in Holding =>
              /\ OpenCalls[t] # Nobody
              /\ OpenCalls[t].op = th[t].op
              /\ OpenCalls[t].name = th[t].name
              /\ OpenCalls[t].schema = th[t].schema
         /\ Answered(t) => OpenAnswers[t] = th[t].ret /\ OpenAnswers[t] # Nobody
         /\ ~Answered(t) => OpenAnswers[t] = Nobody
<1>1. th[t] \in Thread
  BY DEF RegistryInv, TypeOK
<1>2. OpenCalls[t] = CallOf(t) /\ OpenAnswers[t] = AnswerOf(t)
  BY DEF OpenCalls, OpenAnswers
<1>3. ASSUME th[t].pc \in Holding
      PROVE  /\ CallOf(t) = [op |-> th[t].op, name |-> th[t].name, schema |-> th[t].schema]
             /\ CallOf(t) \in [op : Ops, name : Names, schema : Schemas]
  BY <1>1, <1>3 DEF CallOf, InCall, Holding, RegistryInv, CallOK, Thread
<1>4. th[t].ret # Nobody
  BY <1>1, ConstantsAssumption DEF Thread, Blocks, Null
<1>5. QED
  BY <1>2, <1>3, <1>4, ConstantsAssumption DEF AnswerOf

\* A step leaves the regions there were when it allocates and loses no block
\* and inserts none.
LEMMA RegionsKept ==
  ASSUME NEW t \in Threads, OnlyMoves(t), th[t].pc # "insert", th'[t].pc # "insert",
         \A b \in Blocks : heap'[b] \in {"unused", "lost"} <=> heap[b] \in {"unused", "lost"}
  PROVE  /\ UNCHANGED WereRegions
         /\ UNCHANGED reg => UNCHANGED RegionMap
<1>1. \A u \in Threads, b \in Blocks :
        (th'[u].pc # "insert" \/ th'[u].blk # b) <=> (th[u].pc # "insert" \/ th[u].blk # b)
  BY DEF OnlyMoves
<1>2. UNCHANGED WereRegions
  BY <1>1 DEF WereRegions
<1>3. QED
  BY <1>2 DEF RegionMap

\* A step inside a call that has not been answered is not seen.
LEMMA Unseen ==
  ASSUME RegistryInv, NEW t \in Threads, OnlyMoves(t),
         CallOf(t)' = CallOf(t), AnswerOf(t)' = AnswerOf(t),
         UNCHANGED <<RegionMap, WereRegions>>
  PROVE  UNCHANGED Regions!vars
<1>1. OpenCalls' = OpenCalls /\ OpenAnswers' = OpenAnswers
  BY SeenMoves DEF OpenCalls, OpenAnswers
<1>2. QED
  BY <1>1 DEF Regions!vars

\* The step that answers: the call stays open, with the answer it was given.
LEMMA Answers ==
  ASSUME RegistryInv, NEW t \in Threads, th[t].pc \in Holding \ {"unlock"},
         NEW ret \in Blocks \cup {Null, Threw} \cup Schemas, Finish(t, ret)
  PROVE  /\ OnlyMoves(t) /\ th'[t].pc = "unlock"
         /\ Regions!Answer(t, ret)
<1>1. th[t] \in Thread /\ th[t].name \in Names \ {NullName} /\ th[t].pc \in Holding
  BY DEF RegistryInv, TypeOK, CallOK, Holding
<1>2. OnlyMoves(t) /\ th'[t] = Answering(t, ret)
  BY FinishMoves DEF RegistryInv
<1>3. /\ th'[t].pc = "unlock" /\ th'[t].ret = ret /\ th'[t].op = th[t].op
      /\ th'[t].name = th[t].name /\ th'[t].schema = th[t].schema
  BY <1>1, <1>2 DEF Thread, Answering
<1>4. CallOf(t)' = CallOf(t) /\ AnswerOf(t)' = ret
  BY <1>1, <1>3 DEF CallOf, AnswerOf, InCall, Answered, Holding
<1>5. ~Answered(t)
  BY DEF Answered, Holding
<1>6. OpenCalls' = OpenCalls /\ OpenAnswers' = [OpenAnswers EXCEPT ![t] = ret]
  BY <1>2, <1>4, SeenMoves DEF OpenCalls
<1>7. QED
  BY <1>1, <1>2, <1>3, <1>5, <1>6, SeenIsThere DEF Regions!Answer

-----------------------------------------------------------------------------
(* Each step of a call is a step of NamedRegions, or is not seen. *)

LEMMA AtomicInit == Init => Regions!Init
<1> SUFFICES ASSUME Init PROVE Regions!Init
  OBVIOUS
<1>1. RegionMap = <<>>
  BY DEF Init, RegionMap
<1>2. WereRegions = {}
  BY DEF Init, WereRegions
<1>3. \A t \in Threads : th[t].pc = "idle"
  BY DEF Init, IdleThread
<1>4. OpenCalls = [t \in Threads |-> Nobody] /\ OpenAnswers = [t \in Threads |-> Nobody]
  BY <1>3 DEF OpenCalls, OpenAnswers, CallOf, AnswerOf, InCall, Answered
<1>5. QED
  BY <1>1, <1>2, <1>4 DEF Regions!Init

LEMMA CallAtomic ==
  ASSUME RegistryInv, NEW t \in Threads, NEW op \in Ops, Call(t, op)
  PROVE  Regions!Next \/ UNCHANGED Regions!vars
<1>1. /\ th[t].pc = "idle" /\ th'[t].pc \in {"lock", "return"}
      /\ OnlyMoves(t) /\ UNCHANGED <<reg, heap>>
  BY CallMoves DEF Call, At
<1>2. UNCHANGED <<RegionMap, WereRegions>>
  BY <1>1, RegionsKept
<1>3. AnswerOf(t)' = AnswerOf(t)
  BY <1>1, CallMoves DEF AnswerOf, Answered
<1>4. OpenAnswers' = OpenAnswers
  BY <1>1, <1>3, SeenMoves DEF OpenAnswers
<1>5. OpenCalls[t] = Nobody
  BY <1>1 DEF OpenCalls, CallOf, InCall
<1>6. \A u \in Threads \ {t} : OpenCalls'[u] = OpenCalls[u]
  BY <1>1, SeenMoves DEF OpenCalls
<1>7. CASE OpenCalls' = OpenCalls
  BY <1>2, <1>4, <1>7 DEF Regions!vars
<1>8. CASE OpenCalls' # OpenCalls
  BY <1>2, <1>4, <1>5, <1>6, <1>8 DEF Regions!Next, Regions!Invoke
<1>9. QED
  BY <1>7, <1>8

\* Taking the mutex, running the destructor and giving the mutex back.
LEMMA LockAtomic ==
  ASSUME RegistryInv, NEW t \in Threads, Lock(t)
  PROVE  UNCHANGED Regions!vars
<1>1. OnlyMoves(t) /\ th'[t] = [th[t] EXCEPT !.pc = "find"] /\ th[t] \in Thread
  BY GotoMoves DEF Lock, RegistryInv, TypeOK
<1>2. /\ th'[t].pc = "find" /\ th'[t].op = th[t].op /\ th[t].pc = "lock"
      /\ th'[t].name = th[t].name /\ th'[t].schema = th[t].schema
  BY <1>1 DEF Thread, Lock, At
<1>3. CallOf(t)' = CallOf(t) /\ AnswerOf(t)' = AnswerOf(t)
  BY <1>2 DEF CallOf, AnswerOf, InCall, Answered
<1>4. QED
  BY <1>1, <1>2, <1>3, Unseen, RegionsKept DEF Lock

LEMMA UnlockAtomic ==
  ASSUME RegistryInv, NEW t \in Threads, Unlock(t)
  PROVE  UNCHANGED Regions!vars
<1>1. OnlyMoves(t) /\ th'[t] = [th[t] EXCEPT !.pc = "return"] /\ th[t] \in Thread
  BY GotoMoves DEF Unlock, RegistryInv, TypeOK
<1>2. /\ th'[t].pc = "return" /\ th'[t].op = th[t].op /\ th[t].pc = "unlock"
      /\ th'[t].name = th[t].name /\ th'[t].schema = th[t].schema
      /\ th'[t].ret = th[t].ret
  BY <1>1 DEF Thread, Unlock, At
<1>3. CallOf(t)' = CallOf(t) /\ AnswerOf(t)' = AnswerOf(t)
  BY <1>2 DEF CallOf, AnswerOf, InCall, Answered
<1>4. QED
  BY <1>1, <1>2, <1>3, Unseen, RegionsKept DEF Unlock

LEMMA DestroyAtomic ==
  ASSUME RegistryInv, NEW t \in Threads, Destroy(t)
  PROVE  UNCHANGED Regions!vars
<1>1. OnlyMoves(t) /\ th'[t] = [th[t] EXCEPT !.pc = "free"] /\ th[t] \in Thread
  BY GotoMoves DEF Destroy, RegistryInv, TypeOK
<1>2. /\ th'[t].pc = "free" /\ th'[t].op = th[t].op /\ th[t].pc = "destroy"
      /\ th'[t].name = th[t].name /\ th'[t].schema = th[t].schema
      /\ heap[th[t].blk] = "live"
  BY <1>1 DEF Thread, Destroy, At, RegistryInv, CallOK
<1>3. CallOf(t)' = CallOf(t) /\ AnswerOf(t)' = AnswerOf(t)
  BY <1>2 DEF CallOf, AnswerOf, InCall, Answered
<1>4. \A b \in Blocks : heap'[b] \in {"unused", "lost"} <=> heap[b] \in {"unused", "lost"}
  BY <1>2 DEF Destroy, RegistryInv, TypeOK
<1>5. QED
  BY <1>1, <1>2, <1>3, <1>4, Unseen, RegionsKept DEF Destroy

\* The answer is no longer pending when the call returns.
LEMMA ReturnAtomic ==
  ASSUME RegistryInv, NEW t \in Threads, Return(t)
  PROVE  Regions!Next \/ UNCHANGED Regions!vars
<1>1. th[t].calls \in Nat /\ th[t] \in Thread
  BY DEF RegistryInv, TypeOK, Thread
<1>2. /\ OnlyMoves(t) /\ th'[t].pc = "idle" /\ th[t].pc = "return"
      /\ UNCHANGED <<reg, heap>>
  BY <1>1, IdleThreadType DEF Return, At, OnlyMoves, RegistryInv, TypeOK
<1>3. UNCHANGED <<RegionMap, WereRegions>>
  BY <1>2, RegionsKept
<1>4. CallOf(t)' = Nobody /\ AnswerOf(t)' = Nobody
  BY <1>2 DEF CallOf, AnswerOf, InCall, Answered
<1>5. CASE th[t].name = NullName
  <2>1. CallOf(t) = Nobody /\ AnswerOf(t) = Nobody
    BY <1>5 DEF CallOf, AnswerOf, Answered
  <2>2. QED
    BY <1>2, <1>3, <1>4, <2>1, Unseen
<1>6. CASE th[t].name # NullName
  <2>1. Answered(t)
    BY <1>2, <1>6 DEF Answered
  <2>2. OpenAnswers[t] # Nobody
    BY <2>1, SeenIsThere
  <2>3. QED
    BY <1>2, <1>3, <1>4, <2>2, SeenMoves DEF Regions!Next, Regions!Respond
<1>7. QED
  BY <1>5, <1>6

LEMMA FindPresentAtomic ==
  ASSUME RegistryInv, NEW t \in Threads, FindPresent(t)
  PROVE  Regions!Next \/ UNCHANGED Regions!vars
<1> DEFINE e == reg[th[t].name]
<1>1. /\ th[t].pc = "find" /\ th[t] \in Thread /\ th[t].pc \in Holding \ {"unlock"}
      /\ Exists(th[t].name) /\ e \in Entry
      /\ UNCHANGED <<reg, heap>>
  BY DEF FindPresent, At, Exists, Holding, RegistryInv, TypeOK
<1>2. /\ OpenCalls[t] # Nobody /\ OpenCalls[t].op = th[t].op
      /\ OpenCalls[t].name = th[t].name /\ OpenCalls[t].schema = th[t].schema
  BY <1>1, SeenIsThere
<1>3. /\ Regions!Exists(OpenCalls[t].name)
      /\ RegionMap[OpenCalls[t].name].blk = e.blk
      /\ RegionMap[OpenCalls[t].name].schema = e.schema
  BY <1>1, <1>2 DEF Regions!Exists, RegionMap, Exists
<1>4. ASSUME NEW ret \in Blocks \cup {Null, Threw} \cup Schemas, Finish(t, ret),
             \/ th[t].op = "get" /\ ret = e.blk
             \/ th[t].op = "get_with_schema" /\ e.schema = th[t].schema /\ ret = e.blk
             \/ th[t].op = "get_hash" /\ ret = e.schema
      PROVE  Regions!Next
  <2>1. Regions!Answer(t, ret) /\ UNCHANGED <<RegionMap, WereRegions>>
    BY <1>1, <1>4, Answers, RegionsKept
  <2>2. Regions!Look(t)
    BY <1>2, <1>3, <1>4, <2>1 DEF Regions!Look
  <2>3. QED
    BY <2>2 DEF Regions!Next
<1>5. CASE Aborts
  BY <1>1, <1>5 DEF Aborts, Regions!vars, RegionMap, WereRegions, OpenCalls,
     OpenAnswers, CallOf, AnswerOf, InCall, Answered
<1>6. ASSUME th' = [th EXCEPT ![t].blk = e.blk, ![t].dtor = e.dtor,
                              ![t].pc = IF e.dtor THEN "destroy" ELSE "free"]
      PROVE  UNCHANGED Regions!vars
  <2>1. e.blk \in Blocks /\ e.dtor \in BOOLEAN
    BY <1>1 DEF Entry
  <2> DEFINE pc == IF e.dtor THEN "destroy" ELSE "free"
             c == [th[t] EXCEPT !.blk = e.blk, !.dtor = e.dtor, !.pc = pc]
  <2>2. pc \in {"destroy", "free"}
    OBVIOUS
  <2>3. /\ c \in Thread /\ c.pc = pc
        /\ c.op = th[t].op /\ c.name = th[t].name /\ c.schema = th[t].schema
    <3> HIDE DEF pc, e
    <3>1. QED
      BY <1>1, <2>1, <2>2 DEF Thread
  <2>4. OnlyMoves(t) /\ th'[t] = c
    <3>1. th' = [th EXCEPT ![t] = c]
      BY <1>6
    <3> HIDE DEF c
    <3>2. QED
      BY <2>3, <3>1 DEF OnlyMoves, RegistryInv, TypeOK
  <2>5. CallOf(t)' = CallOf(t) /\ AnswerOf(t)' = AnswerOf(t)
    BY <1>1, <2>2, <2>3, <2>4 DEF CallOf, AnswerOf, InCall, Answered
  <2>6. QED
    BY <1>1, <2>2, <2>3, <2>4, <2>5, Unseen, RegionsKept
<1>7. QED
  BY <1>1, <1>4, <1>5, <1>6 DEF FindPresent, GetWithSchema, Entry

LEMMA FindAbsentAtomic ==
  ASSUME RegistryInv, NEW t \in Threads, FindAbsent(t)
  PROVE  Regions!Next \/ UNCHANGED Regions!vars
<1>1. /\ th[t].pc = "find" /\ th[t] \in Thread /\ th[t].pc \in Holding \ {"unlock"}
      /\ ~Exists(th[t].name) /\ th[t].op \in Ops
      /\ th[t].ret = (IF th[t].op = "get_hash" THEN NoSchema ELSE Null)
      /\ UNCHANGED <<reg, heap>>
  BY DEF FindAbsent, At, Exists, Holding, RegistryInv, TypeOK, CallOK
<1>2. /\ OpenCalls[t] # Nobody /\ OpenCalls[t].op = th[t].op
      /\ OpenCalls[t].name = th[t].name
  BY <1>1, SeenIsThere
<1>3. ~Regions!Exists(OpenCalls[t].name) /\ th[t].name \notin DOMAIN RegionMap
  BY <1>1, <1>2 DEF Regions!Exists, RegionMap, Exists
<1>4. CASE th[t].op = "alloc"
  <2>1. OnlyMoves(t) /\ th'[t] = [th[t] EXCEPT !.pc = "malloc"]
    BY <1>4, GotoMoves DEF FindAbsent, RegistryInv
  <2>2. /\ th'[t].pc = "malloc" /\ th'[t].op = th[t].op
        /\ th'[t].name = th[t].name /\ th'[t].schema = th[t].schema
    BY <1>1, <2>1 DEF Thread
  <2>3. CallOf(t)' = CallOf(t) /\ AnswerOf(t)' = AnswerOf(t)
    BY <1>1, <2>2 DEF CallOf, AnswerOf, InCall, Answered
  <2>4. QED
    BY <1>1, <2>1, <2>2, <2>3, Unseen, RegionsKept
<1>5. CASE th[t].op # "alloc"
  <2>1. th[t].ret \in Blocks \cup {Null, Threw} \cup Schemas
    BY <1>1 DEF Thread
  <2>2. Finish(t, th[t].ret)
    BY <1>5 DEF FindAbsent
  <2>3. Regions!Answer(t, th[t].ret) /\ UNCHANGED <<RegionMap, WereRegions>>
    BY <1>1, <2>1, <2>2, Answers, RegionsKept
  <2>4. CASE th[t].op = "free"
    <3>1. RegionMap' = [n \in DOMAIN RegionMap \ {OpenCalls[t].name} |-> RegionMap[n]]
      BY <1>2, <1>3, <2>3 DEF RegionMap
    <3>2. QED
      BY <1>1, <1>2, <2>3, <2>4, <3>1 DEF Regions!Next, Regions!Drop
  <2>5. CASE th[t].op # "free"
    <3>1. th[t].op \in {"get", "get_with_schema", "get_hash"}
      BY <1>1, <1>5, <2>5, ConstantsAssumption
    <3>2. Regions!Look(t)
      BY <1>1, <1>2, <1>3, <2>3, <3>1 DEF Regions!Look
    <3>3. QED
      BY <3>2 DEF Regions!Next
  <2>6. QED
    BY <2>4, <2>5
<1>6. QED
  BY <1>4, <1>5

LEMMA FindThrowsAtomic ==
  ASSUME RegistryInv, NEW t \in Threads, FindThrows(t)
  PROVE  Regions!Next
<1>1. /\ th[t].pc = "find" /\ th[t].pc \in Holding \ {"unlock"}
      /\ UNCHANGED <<reg, heap>> /\ Finish(t, Threw)
  BY DEF FindThrows, At, Holding
<1>2. /\ OnlyMoves(t) /\ th'[t].pc = "unlock" /\ Regions!Answer(t, Threw)
  BY <1>1, Answers
<1>3. QED
  BY <1>1, <1>2, RegionsKept, SeenIsThere DEF Regions!Next, Regions!Throw

\* The block is the caller's own until it is registered.
LEMMA MallocAtomic ==
  ASSUME RegistryInv, NEW t \in Threads, Malloc(t)
  PROVE  Regions!Next \/ UNCHANGED Regions!vars
<1>1. /\ th[t].pc = "malloc" /\ th[t] \in Thread /\ th[t].pc \in Holding \ {"unlock"}
      /\ th[t].op = "alloc" /\ UNCHANGED reg
  BY DEF Malloc, At, Holding, RegistryInv, TypeOK, CallOK
<1>2. OpenCalls[t] # Nobody /\ OpenCalls[t].op = th[t].op
  BY <1>1, SeenIsThere
<1>3. ASSUME Finish(t, Null), UNCHANGED heap
      PROVE  Regions!Next
  <2>1. Regions!Answer(t, Null) /\ UNCHANGED <<RegionMap, WereRegions>>
    BY <1>1, <1>3, Answers, RegionsKept
  <2>2. QED
    BY <1>1, <1>2, <2>1 DEF Regions!Next, Regions!CreateFails
<1>4. ASSUME NEW b \in Blocks, heap[b] = "unused",
             heap' = [heap EXCEPT ![b] = "live"],
             th' = [th EXCEPT ![t].blk = b, ![t].pc = "insert"]
      PROVE  UNCHANGED Regions!vars
  <2> DEFINE c == [th[t] EXCEPT !.blk = b, !.pc = "insert"]
  <2>1. /\ c \in Thread /\ c.pc = "insert" /\ c.blk = b
        /\ c.op = th[t].op /\ c.name = th[t].name /\ c.schema = th[t].schema
    BY <1>1 DEF Thread
  <2>2. OnlyMoves(t) /\ th'[t] = c
    <3>1. th' = [th EXCEPT ![t] = c]
      BY <1>4
    <3> HIDE DEF c
    <3>2. QED
      BY <2>1, <3>1 DEF OnlyMoves, RegistryInv, TypeOK
  <2>3. CallOf(t)' = CallOf(t) /\ AnswerOf(t)' = AnswerOf(t)
    BY <1>1, <2>1, <2>2 DEF CallOf, AnswerOf, InCall, Answered
  <2>4. \A x \in Blocks : x \in WereRegions' <=> x \in WereRegions
    <3>1. b \notin WereRegions /\ b \notin WereRegions'
      BY <1>4, <2>1, <2>2 DEF WereRegions
    <3>2. \A x \in Blocks \ {b} : heap'[x] = heap[x]
      BY <1>4 DEF RegistryInv, TypeOK
    <3>3. \A u \in Threads, x \in Blocks \ {b} :
            (th'[u].pc # "insert" \/ th'[u].blk # x) <=> (th[u].pc # "insert" \/ th[u].blk # x)
      BY <1>1, <2>1, <2>2 DEF OnlyMoves
    <3>4. QED
      BY <3>1, <3>2, <3>3 DEF WereRegions
  <2>5. UNCHANGED WereRegions
    <3>1. WereRegions' \subseteq Blocks /\ WereRegions \subseteq Blocks
      BY DEF WereRegions
    <3>2. QED
      BY <2>4, <3>1
  <2>6. UNCHANGED RegionMap
    BY <1>1 DEF RegionMap
  <2>7. QED
    BY <2>2, <2>3, <2>5, <2>6, Unseen
<1>5. QED
  BY <1>3, <1>4 DEF Malloc

\* The insert is the moment an allocation takes effect; when it throws, the
\* allocation has failed.
LEMMA InsertAtomic ==
  ASSUME RegistryInv, NEW t \in Threads, Insert(t)
  PROVE  Regions!Next \/ UNCHANGED Regions!vars
<1> DEFINE b == th[t].blk
           k == th[t].name
           e == [blk |-> b, schema |-> th[t].schema, dtor |-> th[t].dtor]
<1>1. /\ th[t].pc = "insert" /\ th[t] \in Thread /\ th[t].pc \in Holding \ {"unlock"}
      /\ th[t].pc \in Holding /\ th[t].op = "alloc" /\ ~Exists(k)
      /\ b \in Blocks /\ heap[b] = "live"
  BY DEF Insert, At, Holding, RegistryInv, TypeOK, CallOK
<1>2. /\ OpenCalls[t] # Nobody /\ OpenCalls[t].op = "alloc"
      /\ OpenCalls[t].name = k /\ OpenCalls[t].schema = th[t].schema
  BY <1>1, SeenIsThere
<1>3. \A u \in Threads \ {t} : th[u].pc # "insert"
  BY <1>1, Alone DEF RegistryInv
<1>4. b \notin WereRegions
  BY <1>1 DEF WereRegions
<1>5. ~Regions!Exists(k) /\ DOMAIN RegionMap = DOMAIN reg
  BY <1>1 DEF Regions!Exists, RegionMap, Exists
<1>6. ASSUME reg' = [n \in DOMAIN reg \cup {k} |-> IF n = k THEN e ELSE reg[n]],
             Finish(t, b), UNCHANGED heap
      PROVE  Regions!Next
  <2>1. Regions!Answer(t, b) /\ OnlyMoves(t) /\ th'[t].pc = "unlock"
    BY <1>1, <1>6, Answers
  <2>2. WereRegions' = WereRegions \cup {b}
    <3>1. \A u \in Threads : th'[u].pc # "insert"
      BY <1>3, <2>1 DEF OnlyMoves
    <3>2. \A u \in Threads, x \in Blocks \ {b} : th[u].pc # "insert" \/ th[u].blk # x
      BY <1>3
    <3>3. \A x \in Blocks : x \in WereRegions' <=> x \in WereRegions \/ x = b
      BY <1>1, <1>6, <3>1, <3>2 DEF WereRegions
    <3>4. WereRegions' \subseteq Blocks /\ WereRegions \subseteq Blocks
      BY DEF WereRegions
    <3>5. QED
      BY <1>1, <3>3, <3>4
  <2>3. RegionMap' = [n \in DOMAIN RegionMap \cup {k} |->
                       IF n = k THEN [blk |-> b, schema |-> th[t].schema]
                       ELSE RegionMap[n]]
    <3>1. /\ DOMAIN reg' = DOMAIN reg \cup {k}
          /\ reg'[k].blk = b /\ reg'[k].schema = th[t].schema
          /\ \A n \in DOMAIN reg \ {k} : reg'[n] = reg[n]
      BY <1>6
    <3>2. QED
      BY <1>1, <3>1 DEF RegionMap, Exists
  <2>4. Regions!Create(t)
    BY <1>2, <1>4, <1>5, <2>1, <2>2, <2>3 DEF Regions!Create
  <2>5. QED
    BY <2>4 DEF Regions!Next
<1>7. ASSUME heap' = [heap EXCEPT ![b] = "lost"], Finish(t, Threw), UNCHANGED reg
      PROVE  Regions!Next
  <2>1. Regions!Answer(t, Threw) /\ OnlyMoves(t) /\ th'[t].pc = "unlock"
    BY <1>1, <1>7, Answers
  <2>2. WereRegions' = WereRegions
    <3>1. \A u \in Threads : th'[u].pc # "insert"
      BY <1>3, <2>1 DEF OnlyMoves
    <3>2. \A u \in Threads, x \in Blocks \ {b} : th[u].pc # "insert" \/ th[u].blk # x
      BY <1>3
    <3>3. heap'[b] = "lost" /\ \A x \in Blocks \ {b} : heap'[x] = heap[x]
      BY <1>1, <1>7 DEF RegistryInv, TypeOK
    <3>4. \A x \in Blocks : x \in WereRegions' <=> x \in WereRegions
      BY <1>4, <3>1, <3>2, <3>3 DEF WereRegions
    <3>5. WereRegions' \subseteq Blocks /\ WereRegions \subseteq Blocks
      BY DEF WereRegions
    <3>6. QED
      BY <3>4, <3>5
  <2>3. QED
    BY <1>2, <1>7, <2>1, <2>2 DEF Regions!Next, Regions!Throw, RegionMap
<1>8. QED
  BY <1>6, <1>7 DEF Insert

LEMMA EraseAtomic ==
  ASSUME RegistryInv, NEW t \in Threads, Erase(t)
  PROVE  Regions!Next \/ UNCHANGED Regions!vars
<1> DEFINE b == th[t].blk
           k == th[t].name
<1>1. /\ th[t].pc = "free" /\ th[t] \in Thread /\ th[t].pc \in Holding \ {"unlock"}
      /\ th[t].op = "free" /\ Exists(k) /\ b \in Blocks
      /\ heap[b] \in {"live", "destroyed"}
  BY DEF Erase, At, Holding, RegistryInv, TypeOK, CallOK, NoBlockLost, Exists, Entry
<1>2. OpenCalls[t] # Nobody /\ OpenCalls[t].op = "free" /\ OpenCalls[t].name = k
  BY <1>1, SeenIsThere
<1>3. Regions!Answer(t, Null) /\ OnlyMoves(t) /\ th'[t].pc = "unlock"
  BY <1>1, Answers DEF Erase
<1>4. \A x \in Blocks : heap'[x] \in {"unused", "lost"} <=> heap[x] \in {"unused", "lost"}
  BY <1>1 DEF Erase, RegistryInv, TypeOK
<1>5. UNCHANGED WereRegions
  BY <1>1, <1>3, <1>4, RegionsKept
<1>6. RegionMap' = [n \in DOMAIN RegionMap \ {k} |-> RegionMap[n]]
  BY DEF RegionMap, Erase
<1>7. QED
  BY <1>2, <1>3, <1>5, <1>6 DEF Regions!Next, Regions!Drop

LEMMA AtomicNext ==
  RegistryInv /\ [Next]_vars => [Regions!Next]_(Regions!vars)
<1> SUFFICES ASSUME RegistryInv, [Next]_vars
             PROVE  Regions!Next \/ UNCHANGED Regions!vars
  OBVIOUS
<1>1. ASSUME NEW t \in Threads, Step(t)
      PROVE  Regions!Next \/ UNCHANGED Regions!vars
  BY <1>1, LockAtomic, FindPresentAtomic, FindAbsentAtomic, FindThrowsAtomic,
     MallocAtomic, InsertAtomic,
     DestroyAtomic, EraseAtomic, UnlockAtomic, ReturnAtomic DEF Step
<1>2. ASSUME NEW t \in Threads, NEW op \in Ops, Call(t, op)
      PROVE  Regions!Next \/ UNCHANGED Regions!vars
  BY <1>2, CallAtomic
<1>3. CASE UNCHANGED vars
  BY <1>3 DEF vars, Regions!vars, RegionMap, WereRegions, OpenCalls, OpenAnswers,
     CallOf, AnswerOf, InCall, Answered
<1>4. QED
  BY <1>1, <1>2, <1>3 DEF Next

\* Each call of the registry takes effect at one moment, in some order all the
\* threads agree on, and a region is given to those who agree on its schema
\* only (contract C2, msm_allocator.cpp:89-221).
THEOREM RegionsSpecCorrect == Spec => RegionsSpec
BY AtomicInit, AtomicNext, RegistryCorrect, PTL DEF Spec, RegionsSpec, Regions!Spec

=============================================================================
