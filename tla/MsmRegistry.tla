---------------------------- MODULE MsmRegistry -----------------------------
(***************************************************************************)
(* The registry of named regions: msm_alloc, msm_alloc_with_schema,        *)
(* msm_get, msm_get_with_schema, msm_get_schema_hash and msm_free, called  *)
(* by any thread.  Every call holds one mutex from its first look at the   *)
(* map to its return; its steps are kept apart so that what the mutex is   *)
(* for can be seen.                                                        *)
(***************************************************************************)
EXTENDS Integers, FiniteSets

CONSTANTS
  Threads,
  Names,
  Schemas, NoSchema,   \* the schema hashes, and 0
  Nobody,              \* no thread, no call, no answer
  Ops,                 \* the calls the threads make
  MallocMayFail,       \* whether malloc may return null
  MapMayThrow,         \* whether the map may fail to allocate a key or a node
  Threw,               \* an exception in place of an answer
  MaxBlocks,           \* bound: the regions allocated in a run
  MaxCalls             \* bound: the calls of one thread

ASSUME ConstantsAssumption ==
  /\ NoSchema \in Schemas
  /\ Nobody \notin Threads \cup Schemas \cup {Threw} \cup 0 .. MaxBlocks
  /\ Nobody \notin [op : Ops, name : Names, schema : Schemas]
  /\ Ops \subseteq {"alloc", "get", "get_with_schema", "get_hash", "free"}
  /\ MallocMayFail \in BOOLEAN /\ MapMayThrow \in BOOLEAN
  /\ MaxBlocks \in Nat /\ MaxCalls \in Nat

VARIABLES
  owner,     \* the thread that holds the mutex, or Nobody
  reg,       \* the map: name |-> entry
  heap,      \* per block, what became of it
  th,        \* per thread, its local state
  fault      \* the abort or the first misuse of a block, or "none"

vars == <<owner, reg, heap, th, fault>>

Null == 0
NullName == "null"
Blocks == 1 .. MaxBlocks

Entry == [blk : Blocks, schema : Schemas, dtor : BOOLEAN]

Thread == [pc : {"idle", "lock", "find", "malloc", "insert", "destroy", "free",
                 "unlock", "return"},
           op : Ops \cup {"none"}, name : Names \cup {NullName},
           schema : Schemas, dtor : BOOLEAN, blk : Blocks \cup {Null},
           ret : Blocks \cup {Null, Threw} \cup Schemas, calls : Nat]

IdleThread(n) == [pc |-> "idle", op |-> "none", name |-> NullName,
                  schema |-> NoSchema, dtor |-> FALSE, blk |-> Null,
                  ret |-> Null, calls |-> n]

Init ==
  /\ owner = Nobody
  /\ reg = <<>>
  /\ heap = [b \in Blocks |-> "unused"]
  /\ th = [t \in Threads |-> IdleThread(0)]
  /\ fault = "none"

-----------------------------------------------------------------------------

At(t, pc) == th[t].pc = pc
Exists(n) == n \in DOMAIN reg
Goto(t, pc) == th' = [th EXCEPT ![t].pc = pc]

\* A call that has its answer; its other locals are dead.
Finish(t, ret) ==
  th' = [th EXCEPT ![t].pc = "unlock", ![t].ret = ret,
                   ![t].blk = Null, ![t].dtor = FALSE]

\* A null name, and a size of zero, are turned away before the mutex.  The
\* entry points of segment.hpp make these same calls.
Call(t, op) ==
  /\ At(t, "idle") /\ th[t].calls < MaxCalls
  /\ \E n \in Names \cup {NullName},
        s \in IF op \in {"alloc", "get_with_schema"} THEN Schemas ELSE {NoSchema},
        d \in IF op = "alloc" THEN BOOLEAN ELSE {FALSE} :
       th' = [th EXCEPT ![t] =
         [IdleThread(th[t].calls + 1) EXCEPT
            !.pc = IF n = NullName THEN "return" ELSE "lock",
            !.ret = IF op = "get_hash" THEN NoSchema ELSE Null,
            !.op = op, !.name = n, !.schema = s, !.dtor = d]]
  /\ UNCHANGED <<owner, reg, heap, fault>>

LockNothing(t) ==                       \* mutant: a call without the guard
  /\ At(t, "lock")
  /\ Goto(t, "find")
  /\ UNCHANGED <<owner, reg, heap, fault>>

Lock(t) ==
  /\ At(t, "lock") /\ owner = Nobody
  /\ owner' = t
  /\ Goto(t, "find")
  /\ UNCHANGED <<reg, heap, fault>>

Aborts ==
  /\ fault' = "abort"
  /\ UNCHANGED th

GetWithSchemaUnchecked(t, e) == Finish(t, e.blk) /\ UNCHANGED fault  \* mutant
GetWithSchema(t, e) ==
  IF e.schema = th[t].schema THEN Finish(t, e.blk) /\ UNCHANGED fault ELSE Aborts

\* What each call does once it has looked its name up.
FindPresent(t) ==
  LET e == reg[th[t].name] IN
  /\ At(t, "find") /\ Exists(th[t].name)
  /\ \/ th[t].op = "alloc" /\ Aborts
     \/ th[t].op = "get" /\ Finish(t, e.blk) /\ UNCHANGED fault
     \/ th[t].op = "get_with_schema" /\ GetWithSchema(t, e)
     \/ th[t].op = "get_hash" /\ Finish(t, e.schema) /\ UNCHANGED fault
     \/ /\ th[t].op = "free"
        /\ th' = [th EXCEPT ![t].blk = e.blk, ![t].dtor = e.dtor,
                            ![t].pc = IF e.dtor THEN "destroy" ELSE "free"]
        /\ UNCHANGED fault
  /\ UNCHANGED <<owner, reg, heap>>

FindAbsent(t) ==
  /\ At(t, "find") /\ ~Exists(th[t].name)
  /\ IF th[t].op = "alloc" THEN Goto(t, "malloc") ELSE Finish(t, th[t].ret)
  /\ UNCHANGED <<owner, reg, heap, fault>>

\* The lookup builds a std::string of the name first, with the mutex held; when
\* that throws, the guard releases the mutex and the exception leaves the call.
FindThrows(t) ==
  /\ At(t, "find") /\ MapMayThrow
  /\ Finish(t, Threw)
  /\ UNCHANGED <<owner, reg, heap, fault>>

\* malloc and memset.  Blocks are named in the order they are allocated.
Malloc(t) ==
  /\ At(t, "malloc")
  /\ \/ \E b \in Blocks :
          /\ heap[b] = "unused" /\ \A c \in 1 .. b - 1 : heap[c] # "unused"
          /\ heap' = [heap EXCEPT ![b] = "live"]
          /\ th' = [th EXCEPT ![t].blk = b, ![t].pc = "insert"]
     \/ /\ MallocMayFail \/ \A b \in Blocks : heap[b] # "unused"
        /\ Finish(t, Null)
        /\ UNCHANGED heap
  /\ UNCHANGED <<owner, reg, fault>>

InsertForgetting(t) ==                  \* mutant: only blocks with a destructor
  /\ At(t, "insert")
  /\ reg' = IF th[t].dtor
            THEN [n \in DOMAIN reg \cup {th[t].name} |->
                    IF n = th[t].name
                    THEN [blk |-> th[t].blk, schema |-> th[t].schema, dtor |-> TRUE]
                    ELSE reg[n]]
            ELSE reg
  /\ Finish(t, th[t].blk)
  /\ UNCHANGED <<owner, heap, fault>>

\* reg[name] = entry allocates a node; when that throws, nobody has the block.
Insert(t) ==
  /\ At(t, "insert")
  /\ \/ /\ reg' = [n \in DOMAIN reg \cup {th[t].name} |->
                     IF n = th[t].name
                     THEN [blk |-> th[t].blk, schema |-> th[t].schema,
                           dtor |-> th[t].dtor]
                     ELSE reg[n]]
        /\ Finish(t, th[t].blk)
        /\ UNCHANGED heap
     \/ /\ MapMayThrow
        /\ heap' = [heap EXCEPT ![th[t].blk] = "lost"]
        /\ Finish(t, Threw)
        /\ UNCHANGED reg
  /\ UNCHANGED <<owner, fault>>

\* The destructor frees what the region points to; it needs a live region.
Destroy(t) ==
  /\ At(t, "destroy")
  /\ heap' = [heap EXCEPT ![th[t].blk] = "destroyed"]
  /\ fault' = IF heap[th[t].blk] = "live" THEN fault ELSE "bad_destroy"
  /\ Goto(t, "free")
  /\ UNCHANGED <<owner, reg>>

EraseNothing(t) ==                      \* mutant: the entry stays
  /\ At(t, "free")
  /\ heap' = [heap EXCEPT ![th[t].blk] = "freed"]
  /\ fault' = IF heap[th[t].blk] = "freed" THEN "double_free" ELSE fault
  /\ Finish(t, Null)
  /\ UNCHANGED <<owner, reg>>

Erase(t) ==
  /\ At(t, "free")
  /\ heap' = [heap EXCEPT ![th[t].blk] = "freed"]
  /\ fault' = IF heap[th[t].blk] = "freed" THEN "double_free" ELSE fault
  /\ reg' = [n \in DOMAIN reg \ {th[t].name} |-> reg[n]]
  /\ Finish(t, Null)
  /\ UNCHANGED owner

UnlockUnlessNull(t) ==                  \* mutant: kept when null is returned
  /\ At(t, "unlock")
  /\ owner' = IF th[t].ret = Null THEN owner ELSE Nobody
  /\ Goto(t, "return")
  /\ UNCHANGED <<reg, heap, fault>>

Unlock(t) ==
  /\ At(t, "unlock")
  /\ owner' = Nobody
  /\ Goto(t, "return")
  /\ UNCHANGED <<reg, heap, fault>>

Return(t) ==
  /\ At(t, "return")
  /\ th' = [th EXCEPT ![t] = IdleThread(@.calls)]
  /\ UNCHANGED <<owner, reg, heap, fault>>

\* The steps of a call that has begun.
Step(t) ==
  /\ fault = "none"
  /\ \/ Lock(t) \/ FindPresent(t) \/ FindAbsent(t) \/ FindThrows(t)
     \/ Malloc(t) \/ Insert(t) \/ Destroy(t) \/ Erase(t) \/ Unlock(t) \/ Return(t)

Next ==
  \E t \in Threads :
    \/ Step(t)
    \/ fault = "none" /\ \E op \in Ops : Call(t, op)

Spec == Init /\ [][Next]_vars

\* A thread inside a call is scheduled again and again.
FairSpec == Spec /\ \A t \in Threads : WF_vars(Step(t))

-----------------------------------------------------------------------------
(* Properties *)

\* The variables have their types; the mutex is held by whoever is between
\* its lock and its unlock.
TypeOK ==
  /\ owner \in Threads \cup {Nobody}
  /\ DOMAIN reg \subseteq Names /\ \A n \in DOMAIN reg : reg[n] \in Entry
  /\ heap \in [Blocks -> {"unused", "live", "destroyed", "freed", "lost"}]
  /\ th \in [Threads -> Thread]
  /\ fault \in {"none", "abort", "bad_destroy", "double_free"}
  /\ \A t \in Threads : owner = t <=> th[t].pc \notin {"idle", "lock", "return"}

InHand(t, b) == th[t].blk = b /\ th[t].pc \in {"insert", "destroy", "free"}

\* Every block that was allocated and not freed is reachable: registered
\* under exactly one name or in the hands of the one call that works on it
\* (a throwing insert is the one way to lose a block, and is marked); every
\* registered block is intact unless that call is freeing it
\* (msm_allocator.cpp:86-109, 202-220).
NoBlockLost ==
  /\ \A b \in Blocks : heap[b] \in {"live", "destroyed"} =>
       \/ \E n \in DOMAIN reg : reg[n].blk = b
       \/ \E t \in Threads : InHand(t, b)
  /\ \A m, n \in DOMAIN reg : reg[m].blk = reg[n].blk => m = n
  /\ \A n \in DOMAIN reg :
       \/ heap[reg[n].blk] = "live"
       \/ heap[reg[n].blk] = "destroyed" /\ \E t \in Threads : InHand(t, reg[n].blk)

\* The destructor runs once, on a live region, and a block is freed once,
\* whichever threads free the name at the same time (202-220).
BlocksUsedRightly == fault \in {"none", "abort"}

\* What a call knows at each of its steps.  The lookup stays true until the
\* call changes the map itself, and no other call has the block it works on:
\* this is what the mutex is held from the find to the return for
\* (msm_allocator.cpp:81-109, 121-131, 202-220).
CallOK(t) ==
  LET c == th[t] IN
  /\ c.pc \notin {"idle", "return"} => c.op \in Ops /\ c.name \in Names \ {NullName}
  /\ c.pc \in {"lock", "find"} =>
       c.ret = IF c.op = "get_hash" THEN NoSchema ELSE Null
  /\ c.pc \in {"malloc", "insert"} => c.op = "alloc" /\ ~Exists(c.name)
  /\ c.pc = "insert" =>
       c.blk \in Blocks /\ heap[c.blk] = "live" /\ \A n \in DOMAIN reg : reg[n].blk # c.blk
  /\ c.pc \in {"destroy", "free"} =>
       c.op = "free" /\ Exists(c.name) /\ c.blk = reg[c.name].blk
  /\ c.pc = "destroy" => heap[c.blk] = "live"

RegistryInv ==
  TypeOK /\ NoBlockLost /\ BlocksUsedRightly /\ \A t \in Threads : CallOK(t)

\* Each call takes effect at one moment, and a region is only ever given to
\* a caller that agrees on its schema (contract C2, 147-175).
InCall(t) == th[t].pc # "idle"
Answered(t) == th[t].pc \in {"unlock", "return"} /\ th[t].name # NullName

RegionMap == [n \in DOMAIN reg |-> [blk |-> reg[n].blk, schema |-> reg[n].schema]]

WereRegions ==
  {b \in Blocks : /\ heap[b] \notin {"unused", "lost"}
                  /\ \A t \in Threads : th[t].pc # "insert" \/ th[t].blk # b}

CallOf(t) ==
  IF InCall(t) /\ th[t].name # NullName
  THEN [op |-> th[t].op, name |-> th[t].name, schema |-> th[t].schema]
  ELSE Nobody
AnswerOf(t) == IF Answered(t) THEN th[t].ret ELSE Nobody

OpenCalls == [t \in Threads |-> CallOf(t)]
OpenAnswers == [t \in Threads |-> AnswerOf(t)]

Regions == INSTANCE NamedRegions WITH
  regions <- RegionMap, used <- WereRegions,
  call <- OpenCalls, answer <- OpenAnswers, None <- Nobody

RegionsSpec == Regions!Spec

\* Every call returns, unless some call ended the program.
CallsReturn ==
  \A t \in Threads : InCall(t) ~> (th[t].pc = "idle" \/ fault # "none")

=============================================================================
