---------------------------- MODULE NamedRegions ----------------------------
(***************************************************************************)
(* What the registry promises to the threads that call it: a map from      *)
(* names to regions on which every call takes effect at one moment between *)
(* its invocation and its response.                                        *)
(***************************************************************************)
EXTENDS Integers

CONSTANTS Threads, NoSchema, Null, Threw, None

VARIABLES
  regions,    \* name |-> [blk, schema], for the names that exist
  used,       \* the blocks that ever were regions
  call,       \* per thread, the call it makes, or None
  answer      \* per thread, the answer it will be given, or None

vars == <<regions, used, call, answer>>

Init ==
  /\ regions = <<>>
  /\ used = {}
  /\ call = [t \in Threads |-> None]
  /\ answer = [t \in Threads |-> None]

Exists(n) == n \in DOMAIN regions

Invoke(t) ==
  /\ call[t] = None
  /\ call' # call /\ \A u \in Threads \ {t} : call'[u] = call[u]
  /\ UNCHANGED <<regions, used, answer>>

Answer(t, a) ==
  /\ call[t] # None /\ answer[t] = None
  /\ answer' = [answer EXCEPT ![t] = a]
  /\ UNCHANGED call

\* A new region is a block nobody was ever given before.
Create(t) ==
  /\ call[t] # None /\ call[t].op = "alloc" /\ ~Exists(call[t].name)
  /\ used' # used
  /\ \E b \in used' \ used :
       /\ used' = used \cup {b}
       /\ regions' = [n \in DOMAIN regions \cup {call[t].name} |->
                        IF n = call[t].name
                        THEN [blk |-> b, schema |-> call[t].schema]
                        ELSE regions[n]]
       /\ Answer(t, b)

\* A call that ends with an exception has changed nothing.
Throw(t) ==
  /\ call[t] # None
  /\ Answer(t, Threw)
  /\ UNCHANGED <<regions, used>>

CreateFails(t) ==
  /\ call[t] # None /\ call[t].op = "alloc"
  /\ Answer(t, Null)
  /\ UNCHANGED <<regions, used>>

\* A region is only given to those who agree on its schema.
Look(t) ==
  /\ call[t] # None
  /\ \/ /\ Exists(call[t].name)
        /\ LET e == regions[call[t].name] IN
           \/ call[t].op = "get" /\ Answer(t, e.blk)
           \/ /\ call[t].op = "get_with_schema" /\ e.schema = call[t].schema
              /\ Answer(t, e.blk)
           \/ call[t].op = "get_hash" /\ Answer(t, e.schema)
     \/ /\ ~Exists(call[t].name)
        /\ call[t].op \in {"get", "get_with_schema"} /\ Answer(t, Null)
     \/ /\ ~Exists(call[t].name)
        /\ call[t].op = "get_hash" /\ Answer(t, NoSchema)
  /\ UNCHANGED <<regions, used>>

Drop(t) ==
  /\ call[t] # None /\ call[t].op = "free"
  /\ regions' = [n \in DOMAIN regions \ {call[t].name} |-> regions[n]]
  /\ Answer(t, Null)
  /\ UNCHANGED used

Respond(t) ==
  /\ answer[t] # None
  /\ call' = [call EXCEPT ![t] = None]
  /\ answer' = [answer EXCEPT ![t] = None]
  /\ UNCHANGED <<regions, used>>

Next ==
  \E t \in Threads :
    \/ Invoke(t) \/ Create(t) \/ CreateFails(t) \/ Look(t) \/ Drop(t)
    \/ Throw(t) \/ Respond(t)

Spec == Init /\ [][Next]_vars

=============================================================================
