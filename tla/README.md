# TLA+ models of MSM

MSM keeps arrays, strings, key/value objects and records in named memory
regions. One writer and any number of readers share a region without locks:
the writer builds a buffer privately and publishes it with one release store of
a pointer, readers acquire the pointer and never write. These modules model that
protocol, the layout of records, the registry of regions and what freeing a
region does, and check them with TLC on small instances. The safety of the array,
the string, the object, the registry, the teardown and the fields of records, and
that each of the first four implements its abstract specification, is also proved
with TLAPS for all instances.

Paths below are relative to the repository; `cpp` is
`src/msm/msm_allocator.cpp`, `h` is `src/msm/msm_allocator.h`.

## 1. Inventory

| component | code | state | operations | who runs them |
|---|---|---|---|---|
| atomic access | cpp 11-43 | none | `atomic_load/store_u32/ptr` with a memory order | all |
| registry | cpp 63-221, `segment.hpp` | map name -> (pointer, size, destructor, schema hash), one static mutex | `msm_alloc`, `_with_schema`, `msm_get`, `_with_schema`, `msm_get_schema_hash`, `msm_free` | any thread |
| array | cpp 223-374, `array.hpp`, `capi.cpp` | slot `[header, data_ptr]` -> buffer `[size, cap, elements]` | `reserve`, `prepare_push`, `commit_push`, `push_back`, `clear`; `size`, `capacity`, `get`, `operator[]`, iterator | writer; readers |
| string | cpp 376-475, `string.hpp` | slot -> buffer `[len, cap, data]` | `set`, `clear`; `get`, `length` | writer; readers |
| object | cpp 486-1059, `object.hpp` | slot -> buffer `[count, cap, entries]`, an entry is `[hash, type, value_ptr]` | `set_*`, `ensure_object`, `remove`; `get_*`, `get_slot`, `has_field`, `get_type`, `field_count` | writer; readers |
| teardown | `deallocate` of `array.hpp`, `string.hpp`, `object.hpp`, `record.hpp`; cpp 642-676 | the heap | frees what a region points to | `msm_free`, under the mutex |
| record | cpp 477-484, `record.hpp`, `member.hpp` | none | offsets of fields at compile time | all |
| scalars, fixed string | `types.hpp`, `fixed_string.hpp`, `capi.cpp` | none | memcpy into a slot | all |
| schema hash | cpp 113-125 | none | FNV-1a, 64 bits | all |

They interact by calls and by shared memory only. A region from the registry is
zeroed and handed out under the mutex; from then on the writer and the readers
meet in its slots. An object's string value is a string slot, its nested object
another object slot. `msm_free` calls the region's destructor, which walks the
slots, with the mutex held.

The hard behaviours are:

- **ordering and interleaving**: a reader performs two to many loads, and the
  writer may grow, shrink or replace the buffer between any two of them; what it
  then sees depends on which stores are release stores and which loads acquire;
- **stale state**: pointers and sizes a reader keeps while the writer goes on;
- **partial failure**: `malloc` fails in the middle of a call;
- **numeric edges**: `cap * 2`, `len + 1`, and name lengths cut to 16 bits;
- **ownership**: replaced buffers, removed values and stale views, and a
  destructor that must find every live block once;
- **contention** for the registry's mutex, and aborts while it is held.

What makes each component correct: *array*: a reader only sees committed
elements, in place, and sizes that do not go back; *string*: one whole text at a
time, never an older one; *object*: every answer is right for some moment the
reader could have seen, buffers a reader may scan do not change, a field occurs
once and is gone when removed; *registry*: calls are atomic, no region is lost
or released twice, every call returns; *teardown*: what is reachable is a tree
of live blocks, freed once each, and what is left behind is known; *record*:
fields do not overlap, and everybody computes the same offsets; *all*: no access outside live,
initialised memory. `PROJECT.json` lists the hazards line by line with the
properties that cover them.

## 2. Modules

| module | what it is |
|---|---|
| `SwmrMemory` | the memory one writer shares with readers, with release/acquire |
| `MsmArray`, `MCMsmArray` | the array; its small instances |
| `MsmArrayProofs` | type correctness, and the lemmas about buffers the next two use |
| `MsmArrayAppendProofs`, `MsmArrayMixedProofs` | the append-only theorems; the theorems for all calls |
| `SharedSequence` | abstract: one growing sequence |
| `MsmString`, `MCMsmString` | the string |
| `MsmStringProofs` | the theorems about the string |
| `SharedText` | abstract: a register whose readers never go back |
| `MsmObject`, `MCMsmObject` | the object |
| `MsmObjectProofs` | what each call of the writer does to the memory; the theorems about the object |
| `PropertyBag` | abstract: a map from names to a type and a value |
| `MsmRecord`, `MCMsmRecord` | the layout of records, and their fields beside readers |
| `MsmRecordProofs` | the theorems about the fields, over any sound layout |
| `MsmTeardown`, `MCMsmTeardown` | who owns which heap block, and `msm_free` |
| `MsmTeardownProofs` | the theorems about it |
| `MsmRegistry`, `MCMsmRegistry` | the registry |
| `MsmRegistryProofs` | the theorems about the registry; that its calls are atomic |
| `NamedRegions` | abstract: an atomic map from names to regions |

### The memory (`SwmrMemory`)

Because there is one writer (contract C1), all stores form one sequence:
`hist[k]` is the shared memory after the `k`-th store. `floor[r]` is the newest
snapshot that happens-before reader `r`'s next step. A load may return the
location's value in *any* snapshot from `floor[r]` on, independently of other
locations, which is how plain and relaxed loads behave. An acquire load that
finds the value of a release store raises the floor. Readers can therefore be
arbitrarily late and see the writer's stores out of order unless an
acquire/release pair forbids it. A changed memory order in the code is a changed
operator (`CommitOrder`, `PtrLoadOrder`, ...) in a module. Old buffers are never
freed (contract G2), so a buffer number never becomes invalid, and a buffer that
is not yet in the snapshot looked at counts as garbage (`uninit_read`). A plain
load racing with a plain store returns one of the stored values; a tear inside
one aligned word is not modelled.

Every component keeps a variable `fault` with the first access outside live,
initialised memory, or the abort. After it nothing runs any more.

### The array (`MsmArray`)

State: the snapshot has the slot's pointer, and per buffer `size`, `cap` and the
elements; `w` is the writer's place in its call; `rd[r]` a reader's place in its
call, what it has loaded, and the last size it was told (`seen`).

| action | code |
|---|---|
| `Reserve` | `msm_array_reserve`, cpp 275-301 |
| `PreparePush`, `ZeroElem`, `Fill`, `CommitPush`, `Abandon` | `prepare_push`, the caller's write, `commit_push`, a caller that gives up; `array<T>::push_back` and `emplace_back` are the same steps in the order zero, commit, fill (cpp 303-350, `array.hpp` 95-120) |
| `Clear` | cpp 367-374 |
| `Call`, `Begin`, `LoadPtr`, `LoadSize`, `ReadElem`, `Done` | `size`, `get`, `msm_array_get_int32` and the iterator, one load at a time |

The private part of `reserve` (allocate, copy) is one step with its publication,
because no reader can reach the buffer before.

### The string (`MsmString`)

`SetText`, `SetDropped` (malloc fails) and `SetEmpty` are the writer;
`LoadPtr`, `LoadLen` and `ReadByte` the readers, whose operation `get` walks to
the terminator and whose operation `copy` combines `length()` with `get()`.
`FairSpec` adds weak fairness of a reader inside a call, and of nobody else.

### The object (`MsmObject`)

`Overwrite`, `AddEntry`, `FillEntry`, `CommitAdd` are the `set_*` calls and
`ensure_object`; `Remove` is one step, since only its last store is visible.
`Call`, `LoadPtr`, `LoadCount`, `Scan` (one entry's hash per step), `LoadEntry`
and `ReadValue` are the readers. `hash_name` is taken to be injective on the
bytes it is given; how many bytes it is given, `strlen` cut to 16 bits in all
calls but `remove`, is modelled (`FieldKey`, `FullKey`). `"int32"` stands for
the four scalar types. A string value is replaced as a whole (that this is
sound is what `MsmString` shows). A reader that writes `obj[name][nested]` calls
`ensure_object` (`object.hpp` 84-91): where it misses the field it becomes a
second writer, and `NestedMiss` ends the behaviour with the fault
`reader_store`. `AnswersAreRegular` says that this needs a field that was missing.
`BagSpec` compares the writer's calls with `PropertyBag`.

The writer can leave memory by himself in two ways, and the model has both. Each
`set_*` writes the value it allocates without looking (cpp 706-708, and the same
at 741, 775, 810, 846 and 1053): a failed malloc is a write through null, the
fault `null_write` of `FillEntry`. And `cap * 2` in `object_add_entry` is computed
in 32 bits (cpp 608): where a full buffer of 2^31 entries or more grows, the new one
is too small for the entries copied into it, the fault `overrun_write` of `AddEntry`.

### Records (`MsmRecord`)

What the compiler computes is a set of functions over `Types`, the types of the
program with those of their fields: `SlotSize`, `Paths` and `Deallocated` (the
offsets `deallocate` visits) are recursive functions, and `SizeBefore` and `Get`
(get<> through nested records) are folds, each as its template computes it. The
variable `layout` holds what comes out for the type at hand, and never changes.
`LayoutSound` is what must be true of it: the slots of the fields of one record
are aligned, apart, inside the record, and named. Over it runs a writer that sets
fields of the elements of one `array<record<...>>` (`SetField`) or writes an
element field by field after publishing it (`EmplaceBack`, `FillField`), and
readers that load one payload, in two halves when it is not one aligned access.
Memory is a row of four-byte words, and a word holds the number of the write it
comes from, so an overlap or a mixture of two writes shows. `int32` stands for
`boolean` and `float32`, `int64` for `float64`, and a pointer for a string,
array or object, which publishes with release.

### Teardown (`MsmTeardown`)

`heap` is the blocks ever allocated, each with its slots and whether it is
still `live`; a slot is a pair of a block and an index. `SetText`, `ClearText`,
`Reserve`, `PreparePush`, `CommitPush`, `PushBack`, `Clear`, `Destroy`,
`AddField` and `RemoveField` are the calls that hang blocks below a slot or cut
them off. `TakeView` keeps a view of any slot; the calls go through slots found
from the region or through that view, however stale. `Free` starts `msm_free`,
with a destructor or without; `WalkStep` then works off the stack of slots to
deallocate, blocks to free and pointers to reset in the order of the four
`T::deallocate`. A record is its fields in place. `SlotTypes` are the types of the
program's slots, so that the elements of an array are of one of them, to any
depth. What can be reached is `Closure`, the least set of blocks that has the
region's and is closed under the pointers in use: a definition without recursion,
so that theorems can be stated about it.

Blocks that are cut off are never used again except through a stale view, and
never freed. `TeardownReleases` says exactly which blocks that leaves behind:
replaced buffers and texts, values that were removed, what destroyed or cleared
elements owned, everything below an object in an object, and without a
destructor everything but the region. Several sentences of the repository are at
odds with this:

- `h` 83-84 says `reserve` "frees old"; it keeps it (cpp 298-300). The mutant
  `GrownFreeing` is that sentence, and breaks `OnlyDeadViewsFault`;
- cpp 955 says a removed value "leaks until segment teardown", and
  `test_memory_overhead.cpp` 208 that "msm_free actually releases everything";
  neither old buffers nor removed values are found by any destructor. That
  test passes no destructor, and stays below its tolerance of 5 MB;
- `object.hpp` 108 says `deallocate` takes "all entries": the value of an
  object field is freed, its own entries are not. `object_deallocate_entry_value`
  (cpp 642-676), which would recurse, is never called.

### The registry (`MsmRegistry`)

One action per statement of a call: `Lock`, `FindPresent`, `FindAbsent`,
`FindThrows`, `Malloc`, `Insert`, `Destroy`, `Erase`, `Unlock`, `Return`. The mutex makes the
steps of a call indivisible for the others; they are kept apart so that losing
the guard, the order of destructor and free, and a throwing map can be seen.
An exception that leaves a call is the answer `Threw`. When a call has its answer
`Finish` resets the locals it no longer uses.
`create`, `open` and `close` of `segment.hpp` make these same calls.

## 3. Runs

All bounds are constants: `MaxStores` (no writer call *starts* after so many
stores), `MaxBufs`, `MaxCap`, `MaxEntries`, `MaxBlocks`, `MaxCalls`. `FirstCap`
(8 and 4 in the code), `U32` and `U16` are smaller than in the code so that
growing and wrapping happen.

| run | question | why the bounds are enough |
|---|---|---|
| `array_append` | what do readers see while the writer prepares, commits, abandons, reserves? Is that one growing sequence? | three buffers: two grows with a reader on the oldest |
| `array_mixed` | what harm do `push_back`, a failing malloc and `clear` do to a reader, and what can leave live memory? | a grow and a failed one, a published zero, a refill after clear, a grow before, between and after `begin()`/`end()` |
| `string_swmr` | is each walk one whole text, never an older one, and when do `length()` and `get()` belong together? Does a reader ever wait? | four sets after the first load: shrink, grow, empty, embedded NUL |
| `object_swmr` | are answers right, and do readers stay within memory, while fields come and go, allocations fail and value pointers are kept; is a removed field gone? | grow, add, overwrite, tight copy, re-add; three types |
| `object_names` | is the object a map of unmoved fields; what does `remove` leave, and where does the writer leave a buffer (the writer alone, names that alias)? | first capacity 3, tight copies of 2 and 1, a grow from 1 to 2, back to null; with `U32` = 4 the full capacities 2 and 3 wrap to 0 and 2; names cut to another's and to nothing |
| `record_fields` | do fields or elements overlap, what does a published pointer carry, do `deallocate` and `get<>` agree? | every record of one or two fields, nested ones included, and one of three; two elements; three writes |
| `teardown` | is a block freed twice, used after it, or left behind, for every order of calls through live and stale views? | four types of region that nest every type the library allows; a grow of each array and object, and 4 to 6 blocks |
| `registry_calls` | are the calls atomic, is a region lost or released twice, is the schema respected, does every call return? | two threads, two names, two calls each: a name freed and re-created with another schema under a pending call |

Readers do not influence each other or the writer, so one reader stands for all.

The inductive invariants of the proofs are checked too: `AppendInv` in
`array_append`, `StringInv` in `string_swmr`, `RegistryInv` in `registry_calls`,
and `ObjectInv` in `object_names`. That last run has no readers, so it exercises
what `ObjectInv` says of the memory and the writer; what it says of readers is
proved, and what the readers need it for, `AnswersAreRegular` and `ReadersSafe`, is
checked in `object_swmr`. `TeardownInv` looks for a set among all sets of blocks in
every state, too slow to be part of a run; before the proof it was evaluated once
in all of the 1 949 684 states of `teardown`, and held.

Safety needs no fairness. `CallsReturn` (in `registry_calls`) assumes weak fairness of each
thread's steps *inside* a call (`FairSpec`): the scheduler runs a thread that can
run. Nothing obliges a thread to make a call. A mutex that other threads take
over and over need not be fair, so the property holds because each thread
makes finitely many calls (`MaxCalls`). `ReadsFinish` (in `string_swmr`) assumes
weak fairness of a reader inside a call and nothing of the writer: README.md 8
calls reads wait-free, and a reader must finish whether the writer goes on,
stops or never starts. The reads of arrays and objects are loops over a count
loaded once; that they end is not checked separately.

Four runs end in a violation, on purpose. Each states what a header or comment
says and the code does not do:

| run | what happens |
|---|---|
| `array_clear_reuse` | after `clear` the next `prepare_push` writes into an element a reader holds |
| `array_failed_grow` | a failed grow goes unnoticed and `prepare_push` zeroes behind the buffer; the same happens when `cap * 2` wraps to 0 |
| `array_torn_iteration` | `begin()` and `end()` load the pointer separately; a grow in between sends the loop out of the old buffer |
| `string_len_wrap` | `len + 1` wraps to 0 for a text of 2^32-1 bytes |

A fifth divergence is part of a passing property, `OnlyLongNamesStay`: all calls
cut `strlen(name)` to 16 bits before they hash it (cpp 683) and `remove` hashes
the whole name (cpp 930), so a field whose name is longer than 65535 bytes is set
and found but not removed, although `h` 171 says "Remove field by name. Returns 0
on success, -1 if not found." The property says that no other field stays.

Two more are faults that passing properties admit, because a behaviour ends with
them. `object_swmr` reaches the `null_write` of a failed value malloc; `h` says
nothing of this failure, and the calls return -1 only for the buffer's. `object_names`
reaches the wrap of cpp 608, and `OnlyWrapsOverrun` says that the writer leaves a
buffer nowhere else. So `ReadersSafe`, `AnswersAreRegular`, `RemovedIsGone` and `BagSpec`
speak of a program up to its first fault. In `array_mixed` the same holds of
`array<T>::push_back`, which writes through the null it gets when the first
allocation fails (`array.hpp` 99).

Where the registry's map allocates it may throw: the `std::string` each lookup makes
of the name (`FindThrows`), and the node of `reg[name] = entry` (`Insert`). The
exception leaves a call that the header calls noexcept (`h` 19, 24, 30), the guard
releases the mutex, and a block about to be inserted is marked `lost`; `NoBlockLost`
says that no block is lost in any other way, and `RegionsSpec` that a call which
threw has changed nothing else.

`CHECK_DEADLOCK FALSE` is set where the system may really stop: every writer has
used up its stores and there are no readers, every thread has made its calls, or
the program aborted.

## 4. Proofs

Every theorem is about `Spec`, for all values of the constants that satisfy the
module's `ConstantsAssumption`: any number of readers or threads, any names,
texts and values, any capacities and any bound on stores. The bounds
(`MaxStores`, `MaxBufs`, `MaxEntries`, `MaxBlocks`, `MaxCalls`) stay parameters, so
a theorem covers runs of every length. What a theorem assumes beyond that stands
in its statement and in this table:

| property | theorem in | assumes |
|---|---|---|
| array: `TypeOK` | `MsmArrayProofs` | - |
| `AppendInv`, `ReadsCommitted`, `ReadersSafe`, `PrivateUntilCommit`, `SizeNeverShrinks`, `SequenceSpec` | `MsmArrayAppendProofs` | `AppendOnly` |
| `MemorySafe` | `MsmArrayAppendProofs` | `AppendOnly`, `Headroom` |
| `OnlyTornIterationsFault` | `MsmArrayMixedProofs` | `IndicesChecked` |
| `ReadsCommittedOrZero` | `MsmArrayMixedProofs` | `IndicesChecked`, `EveryPrepareCommits` |
| string: `TypeOK`, `StringInv`, `ReadsOneText`, `RegisterSpec` | `MsmStringProofs` | - |
| `OnlyUnpairedCopiesFault` | `MsmStringProofs` | `NoCapWraps` |
| object: `TypeOK`, `ObjectInv`, `ReadersSafe`, `OnlyWrapsOverrun`, `AnswersAreRegular`, `FieldsAreDistinct`, `OnlyLongNamesStay`, `PublishedIsFrozen`, `BagSpec` | `MsmObjectProofs` | - |
| `MemorySafe` | `MsmObjectProofs` | `Headroom` |
| `RemovedIsGone` | `MsmObjectProofs` | names shorter than `U16` |
| registry: `TypeOK`, `RegistryInv`, `NoBlockLost`, `BlocksUsedRightly` | `MsmRegistryProofs` | - |
| `RegionsSpec` | `MsmRegistryProofs` | - |
| record: `TypeOK`, `FieldsAreRegisters`, `CausalAcrossFields` | `MsmRecordProofs` | `LayoutSound` |
| teardown: `TypeOK`, `OneOwner`, `OnlyDeadViewsFault`, `TeardownReleases`, `GrowKeepsContents` | `MsmTeardownProofs` | - |

The name of the theorem is that of the property with `Correct` behind it
(`StringCorrect` for `StringInv`, and so on).

The assumptions, and where they come from:

- `AppendOnly`: the writer does not call `clear` or `push_back` and the readers
  do not iterate. `prepare_push` with `commit_push` is the protocol `h` 89-99 gives for
  pushes beside readers; `array_mixed`, `array_clear_reuse` and `array_torn_iteration`
  show what the other calls do.
- `Headroom`: malloc does not fail and no capacity wraps. For the array,
  `array_failed_grow` shows what happens otherwise; for the object, `object_swmr` meets
  the one and `object_names` the other. The object's `MemorySafe` is in
  `MsmObjectProofs`: then no call, of writer or readers, leaves live memory.
- `IndicesChecked`: no reader calls `msm_array_get_int32` (`capi.cpp` 25-28), which
  dereferences what `get` returned without looking: no caller knows that its
  index is still below the size once the array may be cleared.
- `EveryPrepareCommits`: the writer does not abandon an element it prepared. An
  abandoned element that was filled stays in the old buffer when the array
  grows, and a loop torn between two buffers finds it there, although the array
  never held it: without the assumption `ReadsCommittedOrZero` is false.
- `NoCapWraps`: no text is as long as 2^32 - 1 bytes (`string_len_wrap`).
- `LayoutSound`: the layout of the record's type, which is fixed when the program
  is compiled, has its slots apart. `record_fields` checks it of every type with
  up to two fields, and the mutant that takes the header for 4 bytes breaks it.
- names shorter than `U16`: the length `remove` does not cut (section 3).

### Arrays

`TypeOK` is not inductive alone: that a commit keeps the size within the
capacity needs to know that the element prepared lies inside the current
buffer. `TypeInv` adds that (`WriterOK`'s part for the writer, and
`SizeHasBuffer`).

The heart of `AppendInv` is `HistoryOK`: every published buffer is a prefix of the
current one (`MemoryOK`) and each snapshot `Extends` all earlier ones - sizes only
grow, capacities and committed elements stay, and a size that was not stored
with release is still the one the buffer was published with. From it `ReaderOK`
follows step by step: whatever a reader relies on is already true in
`hist[floor[r]]`, the oldest snapshot it may still read, so it is true wherever
its next load looks. Without the history a reader that is arbitrarily late could
not be covered. `SequenceSpecCorrect` is the refinement, one lemma for each
action; it needs `ValuesOK` besides, that what a commit publishes is a value the
writer has filled in.

With `clear` and the iterator nothing of that history holds. `TornInv` keeps what
does: buffers and their capacities stay (`BuffersOK`), a size fits the capacity of
its own buffer, and the index of a reader fits the buffer it dereferences as
long as the buffer is the one its size came from (`CursorOK`). `GrowingInv` is about
the time before the first `clear`: sizes grow, an element that is not zero stays
(`Grows`), every old buffer holds only zeros and elements of the current one
(`ElementsOK`), and behind the committed elements there are zeros but for the one
being filled (`TailZero`).

### Strings

`StringInv`: every published buffer is whole (`BufferOK`) and in every later
snapshot unchanged (`Extends`), and the pointer a reader holds is the one of
`hist[floor[r]]`, because it was stored with release and loaded with acquire
(`ReaderOK`). What it has walked so far is then the beginning of that one text.
`RegisterSpecCorrect` maps `floor[r]` to the version of the register the reader
knows: an acquire may advance it, a finished walk returns it, and a set appends a
version.

### Objects

`ObjectInv` has three layers. `HistoryOK`: every snapshot is well formed, a later one
keeps the published fields of an earlier one in place (`Extends`), and whatever
count or value a late reader meets was the object's own at some moment since
(`WasCurrent`); that is what makes an answer regular, since values are overwritten in
place without any order. `WriterOK`: the entry behind the last field is for a new
key and has a value of its own, so that counting it keeps keys distinct.
`ReaderOK`: there is one snapshot, since the call began, in which everything the
scan has seen so far was there together (`Found`), although the reader took one
load at a time.

`MsmObjectProofs` reduces each call of the writer to what it does to the memory
(`Overwrite` to one cell, `AddEntry` to a buffer or an entry nobody counts,
`CommitAdd` to one more field, `Remove` to a tight copy) and shows that this keeps
`HistoryOK` and `WriterOK`, and what it does to the map of fields (`MapStep`), which is
`BagSpec`. Its second half adds the readers. `OnlyLongNamesStay` and
`PublishedIsFrozen` then follow from the same steps. `FieldsAreDistinct` is the part of
`HistoryOK` about the keys of the current buffer, and is not run by itself.

### Records

`RecordInv` says that every snapshot holds, in every word of every field's payload,
the last write to that field before it, and whether it was published
(`HistoryOK`); and of a reader that what it knows of lies before its floor, and
that what it got is the last write before one snapshot it could see (`GotOne`).
That the last write of a prefix of the log exists (`LastsExist`) is carried along
as a part of the invariant, one write at a time, where a proof over the length
would need an induction. A write then touches one field's payload only, because
payloads are apart, and the payload is loaded at once, because it is aligned:
both follow from `LayoutSound` (`LayoutKeepsApart`), for an array of any length, by
counting in units of eight bytes.

### The registry

`RegistryInv` says for each step of a call what it knows (`CallOK`): a name that was
found absent still is, the block about to be inserted is live and nobody else's,
the block about to be destroyed is still the name's. This is kept because a call
at such a step is the `owner` of the mutex and all others are not (`TypeOK` has
that part), so two calls never both rely on the map. From it `RegionsSpecCorrect`
maps the insert, the erase, or the lookup under the mutex to the one step in
which a call takes effect; its lock, its malloc and its destructor are stutters.

### Teardown

None of the four invariants of the run is inductive: that what is reachable is a
tree says nothing of the slots behind the size of an array, which the next commit
brings back, nor of slots that only a stale view leads to. `TeardownInv` is, and it
implies the four. It has a part for all times and one for each phase:

- `WellTyped`: a block is `Shaped` as its kind demands, has whole elements
  (`Fits`), and every slot is null or leads to a block of the slot's own type
  (`LedRight`). This holds of garbage as well, because a stale view may still write
  there; with the rule that a type does not contain itself it makes a call
  through any view harmless to blocks of other types.
- `OpenHeap`, while the region is open: there is a set `R` of blocks that is a
  `Tree`, slots behind the size included, which only grows by blocks that are new.
  `OneOwner` follows since all that is reached lies in `R`. A `destroy` through a
  slot of `R` frees a leaf of it; through a stale view it may free a block of `R`,
  and then `R` still is a tree but no longer one of live blocks. Freed blocks are
  array buffers, and without a `destroy` there are none.
- `FreeingInv`, while `msm_free` runs. `Walking` is about what the tasks that are
  left will free: nothing outside `owned` (`StaysIn`), each block only behind all
  that it leads to and each pointer reset only behind its block (`InOrder`), and
  all of `owned` that is still live (`Covers`, which says it of every set closed
  under the pointers and so needs no induction over paths). When no task is left
  the last two give `TeardownReleases`. `SafeWalk` is about what a task meets: a
  block in `R` is freed by one task at most, the block a slot lies in is freed
  behind the slot's task, and a block is `Touched` (freed, or about to be) only if
  the block that leads to it is. So a slot about to be entered leads to a live
  block nothing else will free, which is why `double_free` and `use_after_free`
  need a `destroy` through a stale view. Without a destructor there is one task
  (`Bare`).

One lemma per call shows that it keeps `WellTyped` and `OpenHeap` (`CallDone`), one per
kind of task that it keeps `FreeingInv`. For `GrowKeepsContents` a call that grows is
reduced to `Regrown`: the new buffer has what was in use of the old one, and
besides it leads to new blocks only. What is reached before and after is then
compared by giving, for each inclusion, a set that is closed under the pointers.

### What is only model-checked

- Liveness, `CallsReturn` and `ReadsFinish`: fairness is outside what the prover
  covers.
- That `record.hpp` computes a layout with `LayoutSound`, and that `deallocate` and
  `get<>` agree on it (`DeallocateFindsPointers`): both are recursive over the type,
  and facts about them for every type need an induction over data.
- The four violations, which are counterexamples.

## 5. Not modelled, and the plan

Not modelled: the schema hash function (a pure function without a property of
its own: it is taken to tell names and layouts apart, cpp 497 accepts the risk),
exported macros, tests and benchmark. The registry abstracts a destructor to
"the region was destroyed"; what it does is in `MsmTeardown`, which in turn has
one thread, because `msm_free` runs under the mutex and the interface gives
readers no way to hold a region (`UseDead` shows what a late one meets).
Allocations succeed in `MsmTeardown`. Texts of 2^32 bytes and more, whose `strlen` is cut
at `string.hpp` 57, are excluded, as are `size_t` indices of 2^32 and more, which are cut
at `array.hpp` 87 and 92. A `reserve`, or a second commit,
between `prepare_push` and `commit_push` breaks the documented protocol and is
not generated. Several writers would break contract C1.

The plan, in order:

1. *(done)* `SwmrMemory`, `MsmArray`, its runs and its append-only theorems.
2. *(done)* `MsmString`, `MsmObject`, `MsmRegistry` and their runs.
3. *(done)* `MsmTeardown`, `MsmRecord`, `PropertyBag`, wait-free string reads.
4. *(done)* Theorems: every safety property of the array, the string, the object
   and the registry, and the refinements of their four abstract specifications.
5. *(done)* `MsmTeardown`: all its properties proved, `GrowKeepsContents` included.
6. *(done)* `MsmRecord`: the protocol of its fields proved over any sound layout, so
   that only the layout itself stays with TLC.
