# gpumemd: TLA+ specifications

gpumemd is a broker for the memory of one accelerator.  A daemon listens on a
Unix socket; clients reserve bytes by name, wait for bytes in a priority queue,
and have models loaded, evicted and kept.  The files here model that program,
check it with TLC on small instances and prove its safety with TLAPS for every
instance.  `PROJECT.json` maps each definition to the source lines it stands for.

## The system

| Part | State | Operations | Talks to |
|---|---|---|---|
| `ResourceManager` | `used_`, `reservations_`, `model_reservations_`, `pending_` under `mutex_`, one condition variable | `try_acquire`, `acquire` (waits), `release`, `acquire_model`, `release_model`, `replace_model_reservations`, `cancel_waiters`, `status` | called by sessions, the residency manager and the server |
| `ModelRegistry` | `models_`: footprint, reference count, source | register, register file, retain, release, unregister | called by sessions and the residency manager |
| `ModelResidencyManager` | `records_`: footprint, copy of the reference count, resident or not | `load`, `unload`, `share`, `retain`, `release_model`, `unregister_model` under its own mutex | registry, resource manager, backend |
| backends (mock, CUDA, Metal) | allocations by model | `load`, `unload`, `share` | called by the residency manager |
| `UnixSocketServer` | stop flag, listening socket, socket path, one thread per client with an input buffer | `run`, `request_shutdown`, `client_session`, `process_input`, `dispatch` | everything above |
| daemon | signal flag | `main`, `handle_signal` | server |
| protocol | none | parse a line, format an answer | server, `gpumemctl` |
| client library, `gpumemctl` | one connection per request | send a command, read until the answer is complete | server, over the socket |
| `Metrics`, `NodeRegistry` | counters; nodes by id, each under a mutex | record; register, remove, report usage and health | called by `dispatch` |
| `MemoryAllocator`, `DevicePlacement` | free list; usage per device and placements | allocate/release; place/release | stand alone |

What is hard in it, and what has to hold:

- **Waiting.**  A waiting request is settled by its own thread, by any other
  waiter, by whoever frees memory, by its deadline or by the shutdown.  The
  ledger has to stay exact, nobody may be settled twice or sleep through being
  settled, and memory must not lie idle next to a waiter that fits.
- **Order.**  A pass skips what does not fit.  It must not thereby hand memory to
  a later waiter that an earlier one could have used.
- **Load.**  A load plans with the free memory it has read, then fills the device
  while clients go on, then reserves, whereupon waiters are granted what is left
  over, and only then evicts.  Records, reservations, registry and device must
  agree whichever step fails.
- **Shutdown.**  Flags are polled between reads, waiters are cancelled once, and
  threads are joined without a limit.
- **The socket.**  Both directions arrive in arbitrary pieces.  The daemon must
  cut requests into the lines that were sent; a client must know when an answer is
  complete, whether it is a line, a list or an error, and whether the daemon lives.
- **Meaning.**  Numbers with units near the limits of their types, and optional
  fields whose meaning depends on how many there are.
- **Counters.**  An operation, its counters and the request counter are separate
  critical sections, with other sessions in between.

`PROJECT.json` lists these and smaller hazards at the lines where they bite.

## Modules

| Module | What it is |
|---|---|
| `Memory` | Ledgers (maps from keys to bytes), their total, `emplace` and `erase`. |
| `GrantOrder` | The order of waiters and the set of waiters that one pass grants, without a loop. |
| `GrantLoop` | The two loops of `grant_waiters_locked`, iteration by iteration; shown to compute the `GrantOrder` set. |
| `Broker` | What the resource manager promises: who asks, who holds, nothing promised twice, nothing idle next to a waiter. |
| `ResourceManager` | The resource manager with the threads that wait inside `acquire`; shown to implement `Broker`. |
| `ModelResidency` | Registry, residency manager and the three backends, extending `ResourceManager`, whose actions they call. |
| `Metrics`, `NodeRegistry` | The counters and the node table, each with its operations. |
| `Server` | `run()`, sessions, signals and the socket path, extending all of the above; its threads are the session threads. |
| `Protocol` | Parsing and formatting, as operators over words, numerals and line breaks. |
| `Exchange` | One connection, with either client at one end and a session at the other, extending `Protocol`. |
| `AddressSpace` | What the allocator promises, without a free list: who owns each address. |
| `MemoryAllocator` | The free list, its coalescing and the direct strategy; shown to implement `AddressSpace`. |
| `DevicePlacement` | Placement of models on several devices. |
| `MC...` | Instances: symmetry sets, views and constants a configuration cannot write. |
| `MemoryProofs` | Lemmas about totals of ledgers, demands, least elements and removal from a sequence. |
| `GrantLoopProofs`, `ResourceManagerProofs`, `ModelResidencyProofs`, `ServerProofs`, `ExchangeProofs`, `MemoryAllocatorProofs`, `DevicePlacementProofs` | The theorems, one module per component. |

### ResourceManager

Every method that never waits is one action, because it runs under `mutex_` from
the first read of state to its return; the checks before the lock read only
arguments and constants.  `acquire` is split where it gives the mutex up:
`Acquire` (checks, immediate grant or `Enqueue`), `TryAgain` (one turn of the
loop up to the wait), `WaitTimeout` (`wait_until` reports a timeout), `Return`.
`pc[t]` says whether the thread holds the mutex, sleeps, or has been woken and
must take the mutex again; while a thread is "locked" nobody else runs.
`SpuriousWakeup` is the condition variable's freedom.

| Code | Model |
|---|---|
| `pending_`, `sequence` | `pending`, a set of threads, and `older`, the order of their sequence numbers; the numbers themselves are unbounded and only compared |
| `PendingRequest` | `request[t]`; `completed` and `result` are `result[t]` ("Waiting" is not completed) |
| `deadline`, `Clock::now()` | `request[t].timed`, and `expired`, the pending threads whose deadline has passed; a deadline may pass at any moment.  A timeout too long for the clock counts as infinite, as in the code |
| `grant_waiters_locked` | `GrantWaiters`: one step.  That one step is what the loops do is proved in `GrantLoopProofs` |
| return value | `reply`, for the error code; the amount is implied |

`Broker` keeps only the two ledgers and, by name, what is asked for.  Each of its
actions ends in `Settle`: some who wait are granted exactly what they asked for,
some are turned away, holders keep what they have, and nobody who goes on waiting
fits in what is left.  Threads, priorities, deadlines, wakeups and the queue's
order are gone; the refinement mapping reads the pending requests by name.

Bytes are natural numbers.  The code's 64-bit subtractions and additions cannot
wrap as long as `used_ <= capacity_`, which is proved (`AccountingCorrect`).

### ModelResidency

All residency operations hold the residency mutex, so at most one is under way.
`load` is cut wherever it touches the resource manager or the device, because
clients, waiters and registrations do not take that mutex and run in between:
`Load` (plan, read the source, fill the backend), `LoadReserve`
(`replace_model_reservations`, which also grants to waiters what the evictions
leave over), then one `LoadEvict` for each planned eviction and `LoadFinish`, or
`LoadUndo` if the memory was refused.  `loading` carries the plan and the phase
from step to step.  Eviction candidates are sorted by a score with measured load
times in it, so the model lets any order come up and takes the shortest prefix
that is enough, as the code does.  `Backend` selects one of three: mock never
fails, Metal may fail to load, CUDA may fail to load, unload and share; a failure
leaves the allocation table as the code leaves it.  Results that the code
discards are discarded here, and `stranded` remembers which models the backend
kept.
`last_access`, `last_loaded` and load counts feed only the score and the lists,
and are left out.

### Server

`run()` is cut at each system call that another actor can interfere with.  A
session is "checking" the flag, "reading", "processing" its buffer, "waiting"
inside `acquire`, "loading" (between two steps of a load), "recording" the
operation, "counting" the request or "answering".  `process_input` goes on until
its buffer has no complete line and does not look at the flag.  The content of a
line is chosen when it is dispatched: any operation of the resource manager, the
residency manager, the registry or the node registry, or a listing or malformed
line, which change nothing.  `due` is the local `result` of `dispatch`, from the
operation until its last counter has been written.  A client may connect, send,
and hang up at any time; `poll` may fail; another process may create the socket
path whenever it is free.  `update_usage` and `set_health` have no command; the
embedding program calls them (`NodeReport`).

### Protocol and Exchange

Text is a sequence of cells.  A word is known by its text, a numeral by sign,
digits and unit; line breaks, carriage returns, and the blanks before the first
word and behind the last one are cells of their own.  Blanks between words, which
both sides treat alike, are not written.  Which words are valid names, metadata or
paths is a parameter.  The types' limits are
constants, so that small instances cross them.  `parse_error` gives the first
error in the order in which `parse_command` checks, `command_of` the command.
`"none"` stands for no sign and for no unit, and `Units["none"]` is 1.
Answers keep their code, their rows and `END`.  The codes tell errors apart; the
wording does not matter.

`Exchange` puts one request, or for a raw client any text, on the wire.  Both
streams are delivered in pieces of any length, in whole cells: cutting a word does
not matter to either side, since both look at all that has arrived.  The session
cuts lines, parses them with `Protocol`, picks an outcome of the operation
(waiting and the state behind it belong to `Server`) and answers.  The client
(`Complete`) decides from the text so far.  Connecting may fail, a write may fail
half way, the session may stop at the flag, and the daemon may die with any part
of an answer delivered.  `LineOf`, `GoodLines` and `Oversized` say what the lines
of a text are without buffers and reads, by counting line breaks; `FramedAsSent`
compares.

What a client reports is compared with what the session did (`OutcomeArrives`), in
one direction: a reported success stands for an operation that was run without
error, and a reported rejection for a line that is too long or for the one error
that the code in the answer stands for, of all that the line could have ended with.
The other direction is false of the code and not stated: a client that reports
`ReadFailed` cannot know whether its operation was done, because the daemon may
die or stop between the operation and the delivery of the answer.

`CommandsAssumption` says what callers can ask for.  A raw client sends any cells;
a caller of the library any words, line breaks (which `request` refuses), and
blanks and a carriage return around them.  `gpumemctl` joins its arguments by
blanks and parses the result as one line, but a path may hold any letter.  A word
with line breaks in it is a `Broken` token, to which `parse_error` gives the same
treatment as to any other word; on the wire (`Spelled`) it is the cells inside it,
and the daemon sees several lines.  At most one word of a command is broken,
because no command has two fields that take such a word and the others make it
refused; and no blank is inside it, so a line after the break has the words that
happen to stand there.  `RefusedEarly` and `Multiline` are about the text as each
client sees it: the library looks for line breaks and takes what stands before the
first blank for the verb, so that a blank in front or a carriage return right
behind hides a query; `gpumemctl` looks at what it has parsed.

### MemoryAllocator

Both operations hold the mutex and are one action each.  `free_blocks_` stays a
sequence, because the first block that fits is the first of the list, whatever
its address; that the list is sorted is part of `FreeListIsTheGaps`.
`coalesce_locked` is a sort (`Sorted`, the only ascending arrangement, since no two
free blocks have the same offset) and a fold of `Merge`.  `allocations_` is a function from ids: its
order shows only in `snapshot`, which sorts.  The strategy is chosen in the initial
state.  `AddressSpace` is the same interface over a map from addresses to owners;
the refinement mapping (`Owner`) computes that map from the allocations, and the
answers (error, offset, bytes) are part of the comparison.

### DevicePlacement

`place` and `release` are one action each.  The loop of `place` is a recursive
function over the devices; `PlacesLeastUsed` states the choice without it.

## Runs

| Run | Question | Instance |
|---|---|---|
| `rm_waiting` | Is memory ever idle next to a waiter that fits, or given to the wrong waiter?  Does every acquire with a deadline, and every settled one, return? | 2 threads, 2 priorities, sizes 1 and 2, capacity 2, finite and infinite timeouts, one model |
| `rm_races` | Do grants, deadlines, cancellations, releases and model replacements in any order keep the ledger and the queue right, and implement `Broker`? | 2 threads, 3 names, 2 models, one invalid name, sizes 0 to 3, capacity 2, costs -1, 0, 2, every kind of timeout, every eviction list of up to 2 ids |
| `grant_loop` | Do the loops compute the set that `ResourceManager` grants, and end? | every queue of up to 3 requests, 2 sizes, 2 priorities, 2 costs, free memory 0 to 3, any subset expired |
| `allocator` | Does the free list stay the gaps between allocations, and does the allocator refuse only what does not fit? | 4 ids and an invalid one, sizes 0 to 3, capacity 6, direct offsets up to 9 |
| `placement` | Is each device's usage what is placed on it, and does a model go to the first of the least used devices with room? | 3 devices of 3, 2 and 3 bytes, 5 models and an invalid one, sizes 0 to 4 |
| `residency` | Do records, reservations, registry and backend agree, is the excess on the device bounded, are retained models and failed loads safe? | CUDA backend, 3 models (one from a file), one invalid id, one client that may wait, footprints 1 and 2, capacity 2, reference counts up to 1 |
| `server_safety` | Do the counters add up, is anything left behind when `run()` returns, is a foreign path ever removed? | mock backend, 2 clients, 3 lines in all, one model, one node |
| `server_shutdown` | Does a shutdown complete if every acquire has a deadline, also during a load?  Does `run()` end after a failed `poll` when the clients leave? | Metal backend, 2 clients, 2 lines in all, one model |
| `server_late_acquire` | The same without deadlines. **Violated.** | 2 clients, 2 lines in all |
| `exchange` | Are lines parsed as sent, answers read whole, outcomes and numbers delivered, and does everybody get an answer or an error? | 3 kinds of clients; every verb with good, bad, missing and extra fields, with blanks and carriage returns around it and with line breaks in an argument; 4-bit sizes with 4 units, 3-bit priorities and timeouts; raw texts of up to 5 cells and lines around a limit of 8 cells; lists of up to 2 rows, with paths that end in `END` among them |
| `exchange_timeout` | Does the timeout of `Client::acquire` reach the daemon? **Violated.** | calls with a timeout, with and without a cost |
| `exchange_cut` | Does `gpumemctl nodes` print the whole list? **Violated.** | one command, lists of up to 2 rows |

Bounds.  Three waiters are the fewest for a pass that grants one, passes over one
and leaves one: `grant_loop` has them.  What is proved does not depend on a
bound; see below.  Sizes go up to the capacity and one beyond.  Three models are
the fewest for a load that evicts two.  Two clients are the fewest for one that waits
for the other; three lines let one session work while the other records.  Two
lines in one read are the fewest that can be left lying, and a text of five cells
has up to five.  The numbers cross every limit of the parser: the largest value,
the one beyond, the largest product and the one beyond, the smallest int.  Four
allocations are enough for a gap with neighbours on both sides and another gap
behind; direct offsets go beyond the capacity, so that space is used again.  The
runs with many states use symmetry over threads, valid names and ids, which no
definition tells apart, and a view that drops the last answer, which no guard or
later step reads.  Both are used with safety properties only; the properties that
read an answer read the primed one, and TLC evaluates step properties on every
step, also one that ends in a known view.  `CHECK_DEADLOCK FALSE` is set for
the server, which stops, and for the grant loop and the exchange, which end.
The lists in `exchange` have rows with a path that ends in `END` (`RowEnds`), and its
commands include `gpumemctl nodes` and queries whose verb the library does not
find.  `ResponseWhole` names these as the cases in which a client may report a list
without its end (`RowLooksLikeEnd`, `TakenForOneLine`) and requires at least the
first line then; in all others, the whole answer.  `AnswerWhole`, without
exceptions, is what the repository's tests expect, and `exchange_cut` violates it.

Fairness.  `rm_waiting` assumes that time passes (`WF` of `DeadlinePasses`) and
that a thread which again and again could take the mutex gets it (`SF` of the
steps of the waiter): the mutex is held for short times and the platform's
mutexes do not starve a thread for ever.  Nothing is assumed of clients: no
release ever has to come, and a waiter without a deadline may wait for ever.
The server run adds that `run()` and the sessions run on (`SF` of `Step` for each
session, since a step may need a mutex; a session stays at its place until it
takes its step, so one condition covers all its steps) and that clients read
their answers; a client that never reads can hold up a shutdown in `send_all`.
A failing `poll` is never forced.  In `exchange` each side runs on (`WF`) and
operations end; the daemon need not die or stop.

### What the violated runs show

- **A shutdown may hang** (`server_late_acquire`).  `run()` sets the flag, calls
  `cancel_waiters` once and joins.  A session that was past its check of the flag
  reads one more line, or has it in its buffer, and starts an `acquire` without a
  deadline.  Nobody cancels it; `join` waits and the socket file stays.
  `server.hpp:25` says that `run` blocks until the request or the external stop.
- **The timeout is ignored when there is a cost** (`exchange_timeout`).
  `parse_command` reads the fifth word only if it is the last (`protocol.cpp:344`).
  With a cost the acquire has six words, as the repository's README describes and
  as `Client::acquire` sends, and waits for ever instead of for the timeout.
- **`gpumemctl nodes` may print the first line only** (`exchange_cut`).  The list of
  multiline commands in `main.cpp:106-109` lacks `nodes`, which `client.cpp:51` has.
  If the first line arrives alone the tool prints it and returns 0.

Noted while modelling and not stated as runs: a `request_shutdown()` made before
`run()` has cleared the flag is lost (`unix_socket_server.cpp:228`);
`Client::acquire` without a timeout drops the cost; a row of `models` ends with the
path of the model's file, and `gpumemctl` (`main.cpp:115`) and the library
(`client.cpp:102`) take a text that ends in `END` and a line break for a complete
list, so that a path that ends in `END`, at the end of a read, cuts the list with a
success as the result (`AnswerWhole` fails for `models` too once `RowEnds` has
`"pathEND"`); the library reads one line of
a list if a blank stands before the verb or a carriage return right behind it
(`client.cpp:48`); a path with a line break in an argument of `gpumemctl` is sent
as several requests, of which only the first answer is reported (`main.cpp:77-96`).
The last three are inside the model and `ResponseWhole` and `OutcomeArrives` say what
still holds.

## Proofs

Every safety property that a passing run checks is also a theorem, for every
value of the constants that the assumptions allow:

| Module | Theorems |
|---|---|
| `ResourceManagerProofs` | `TypeCorrect`, `AccountingCorrect`, `NamesCorrect`, `WorkConservation`, `QueueCorrect`, `WakeupCorrect` (invariants); `SettlementCorrect`, `PriorityCorrect` (steps); `Refinement`: the manager implements `Broker` |
| `GrantLoopProofs` | `LoopTypeCorrect`, `PartitionCorrect`, `PassCorrect` |
| `ModelResidencyProofs` | `ResidencyTypeCorrect`, `ResidencyCorrect`, `BackendCorrect`, `ResidentsAllocated`, `RefCountsCorrect`, `OvercommitCorrect` (invariants); `RetainedCorrect`, `FailedLoadCorrect` (steps) |
| `ServerProofs` | `ServerTypeCorrect`, `StoppedCorrect`, `MetricsCorrect` (invariants); `OtherPathCorrect` (steps); `ServerInvariance`: the managers' invariants hold inside the server |
| `ExchangeProofs` | `FramingCorrect`, `OutcomeCorrect`, `NumbersCorrect`, `ResponseCorrect` (invariants); `ExchangeInvariance` |
| `MemoryAllocatorProofs` | `AllocatorTypeCorrect`, `UsedCorrect`, `FreeListCorrect` (invariants); `AllocatorRefinement`: the allocator implements `AddressSpace`; `AllocatorInvariance` |
| `DevicePlacementProofs` | `DevicesCorrect` (invariant), `LeastUsedCorrect` (steps) |

The assumptions are the named `ASSUME`s of the modules: finite threads and valid
names, natural sizes, integer priorities and costs, a positive capacity, one of
the two policies, one of the three backends, at least one device and no device of
size 0 (the constructor throws otherwise), and constants such as `NoLoad` that
are none of the values they stand beside; for the exchange also what callers can
ask for (`CommandsAssumption`), units that are positive numbers, ints and
milliseconds narrower than bytes, and `VerbsAssumption`, which only tells the
provers that the verbs are strings.  Nothing is assumed about the number of
models, devices, clients, lines, queue entries, free blocks, cells or rows beyond
finiteness.

**Totals and induction.**  `MemoryProofs` shows that a total splits over disjoint
keys, so that an `emplace` adds and an `erase` subtracts exactly one entry; a
total is the cardinality of a set of units, which makes these laws instances of
the library's facts about finite sets.  The provers cannot use the library's
induction theorems, whose parameter is an operator; `LeastNatural`, from the
well-foundedness of the naturals, is about sets, and the proofs that need
induction take the least counterexample instead.

**The manager.**  The inductive invariant `IInv` is the conjunction of the type
invariant, `Accounting`, `PendingNamesFree`, `WorkConserving`, `NoOrphanWaiter`,
`NoLostWakeup` and `ArrivalOrder` (the sequence numbers order the pending
requests totally).  None of them is inductive alone: accounting needs free names,
because `emplace` keeps an entry that is there; free names need every pending
thread to have a request; work conservation after a timeout needs it before; the
immediate grant of `acquire` keeps the order only because nobody waits.
The first lemmas show what a grant set guarantees: it fits, and whoever is passed
over does not fit in what is left.  `PassEffect` and `PassKeepsIInv` show
that a pass preserves the invariant from any state with a sound queue; each
action then has one lemma, most of which reduce to the pass.

**The pass.**  `LoopInv` says of the sweep that the due requests before its index
are gone, of the scan that it has selected the first in the order of service of
those that fit so far (`BestSoFar`), and of everybody who still waits that they
come after all that were granted or do not fit in what those before them have
left (`PassedOver`).  The last is the heart: a request that does not fit once
never fits again, and a later grant only adds to those before.  `ServiceOrder`
shows that the comparison in the code is a strict total order under both
policies, and `GrantIsUnique` that two grant sets cannot differ, by looking at
the first waiter in which they would.  So `GrantWaiters`, which takes any grant
set, takes the one the loops compute.

**The refinement of `Broker`.**  Each action is mapped to a broker action or to a
stutter with `IInv` before and after the step.  The mapping reads the pending
requests by name, which is a function only because of `PendingNamesFree`; that
nobody left waiting fits is `WorkConserving` of the new state.

**Residency.**  `RInv` is `IInv` with the residency properties, `LoadingSound` and
`PlanShort`: what the later steps of a load rely on.  Until it ends, the model it
loads stays registered with the same footprint and reference count, is in the
backend and not resident, and the models it is yet to evict are still resident,
unused and different.  That holds because the residency mutex keeps other
residency operations out and clients never touch model reservations
(`ClientsLeaveReservations`); without it `ResidencyAgrees` is not inductive, since a
load would evict models that are gone.  From `LoadReserve` to `LoadFinish` the
records lag behind the reservations, and `ResidencyAgrees` says by what: the models
yet to be evicted, which have no reservation any more, and the one yet to be
entered, which has.

In that interval the device still holds the models to be evicted while waiters
have been granted what they leave over, so device and clients exceed the capacity.
`OvercommitBounded` says by how much (`Overhang`): before the reservation by the
footprint of the model loaded, after it by the footprints of the models yet to be
evicted, apart from what the backend failed to unload.  What is allocated and not
stranded is the resident models and the one being loaded; `RInv` accounts for all
of them but the overhang.  The second half needs `PlanShort`: the plan is a shortest
prefix, so without its last model the evictions do not make room for the load, and
together they are smaller than the load and that one model.

**The server.**  `SInv` adds to `RInv` that a session's place agrees with the
managers: sessions that wait are exactly the threads inside `acquire`, a load half
done belongs to a session, sessions exist only while the accept loop or the join
is under way, the path is ours exactly from `bind` to `unlink`, and what a session
has to record is known until it is recorded.  `StoppedIsQuiet` follows: after the
join no session is left, hence nobody waits and no load is half done.
`ServerCallsManagers` shows that each step of the server is an operation of the
managers or none of their business, so that their invariants carry over.
`MetricsAddUp` is inductive on top of `SInv`: an operation moves bytes in the
ledger and into what is due by the same amount, and recording moves them from
what is due into the counters; the sums over the sessions are totals of ledgers.

**Placement.**  `Select` is a recursive function over the devices.  That there is
such a function (`RunExists`) and that its value after i devices is the first of
the least used ones among them (`SelectChooses`) are two least-counterexample
arguments over one iteration.  The accounts then follow from the laws of totals;
that only finitely many models are placed is part of the invariant.

**The allocator.**  `AllocatorInv` adds to the type invariant and `UsedIsExact`
that allocations do not overlap (`HeldApart`) and end below the capacity or, under
the direct strategy, below the next offset (`HeldBelow`), and for a pool that the
free blocks ascend without touching (`Spaced`), overlap no allocation
(`FreeNotHeld`) and leave no address of the pool out (`NothingLost`).
`FreeListIsTheGaps` follows: it counts holders and free blocks of each address.
Itself it would be awkward as the invariant, because a release would have to argue
with cardinalities; and `UsedIsExact` alone does not bound `used` in a pool, where
nothing compares with the capacity: that the allocations lie apart and below the
capacity does (`TotalIsAddresses`, the bytes held are the number of addresses
held).  The release is the hard step.  `SortingExists` shows that blocks which lie
apart can be sorted, `FoldExists` and `FoldIsLoop` that the fold is a loop over the
list, and `MergeKeeps` that after each block merged the result is spaced and covers
exactly the blocks so far.  `AllocateFromPool` cuts the front off a block
(`TakeFrontTakes`).  For the refinement, `FirstFitIsLowest` shows that the first
block that fits begins the lowest gap of that size, because a gap lies inside one
block (`GapInFreeBlock`: the blocks do not touch), and `OutOfMemory` is answered
only if there is no gap.

**The exchange: framing.**  `FrameInv` compares the session with the text on the
wire.  How much the session has taken out of its buffer is a position in that text
(`Position`); the buffer and what is on its way continue the text there, the
position is the end of the last line handled, and as many line breaks lie before
it as lines were handled (`InStep`).  The lines handled are lines of the text, none
too long (`HandledAsSent`), and a session that reads has no complete line in its
buffer and less than the limit (`NothingLeft`).  `FramedAsSent` is not inductive: it
does not know where in the text the buffer is.  `LineEndIs` ties the count of line
breaks to the line's end, `NextLine` shows that the first line break in the buffer
ends the next line of the text, `LastLine` that without any line break left the
buffer and what is on its way are the unfinished end of the text; the two tests of
the limit then agree with the text however it was cut.

**The exchange: outcomes and numbers.**  For the library and `gpumemctl`,
`ReplyInv` says that what is on the wire is the command spelled out (`CommandMeant`)
and was accepted (`Accepted`), with one line break at its end if no word is broken
(`OneRequest`; a write that failed has none); that every line handled has an
outcome and the command received is what the line says (`ReceivedAsSent`); and that
a client that listens has no answer yet, with nothing handled (`NoAnswer`), or a
first answer that tells what became of the first line, and what it has read and
what is on its way begin with that answer as far as they go (`Answered`).  With one
line there is no second answer, because one line takes the whole wire
(`OnceHandled`, `Unanswered`); with several, later answers only come behind the
first (`LaterAnswer`).  `LineReplies` goes through every verb and every error of its
operation, and `ErrorCodesTold` shows that no two errors a line can end with have
the same code, which makes the code the client has read stand for one error.
`WriteFailedLines` shows that of a command that was not written to its end the last
line is not handled.  `NumbersCorrect` needs no further invariant; `ProductFits` is
the argument for the check before the multiplication in `parse_size`.

**The exchange: whole answers.**  `WholeInv` adds that no proper part of the first
answer from its start looks complete, but for the two exceptions (`Whole`), and that
a client that has finished has something complete.  A line is complete only with
its line break (`OneLineWhole`); a list, to a client that knows the command as one,
only with its `END` or at a row that looks like it (`ListingWhole`).  The daemon's
view of the verb, after tokenizing, and the client's, before it, are brought
together by `VerbOfLine` and `VerbOfCommand`: a list is answered only to a line whose
verb is a query, and then the client knows it as one (`QueryIsMultiline`) or
`TakenForOneLine` holds.  `WholeSuffices` derives `ResponseWhole`.  There are no
hypotheses on rows or commands beyond `CommandsAssumption`; `exchange_cut` shows the first exception happen, and
the run `exchange` has rows for the second.

Only model-checked: liveness under fairness (`rm_waiting`, `grant_loop`,
`server_shutdown`, `exchange`), which is out of the provers' reach.

## Not modelled

- Characters: which strings are names, metadata, paths or numerals, the blanks
  between words, and the wording of answers.  `parse_share_response`, and the option parsing of the
  daemon, are pure text functions without state.
- The allocator's direct offset wraps after 2^64 bytes; the model bounds it.
- Device pointers, copies and IPC handles: calls into vendor libraries, present
  only as outcomes of the backend.
- Benchmarks, the demo and scripts: measurement, outside the broker.
- The CUDA client and IPC wrappers: ownership of an imported pointer around
  vendor calls.

## State of the work

Modelled and checked: the resource manager, the grant loop, the abstract broker,
residency with the three backends, the server with all commands, metrics and
nodes, the protocol and the exchange over the socket, the allocator and device
placement.  Proved: every safety property that a passing run checks.  What could
be added is in the hazards of `PROJECT.json` that name no property: processes that
still use a shared model, and clients that disconnect while they wait.
