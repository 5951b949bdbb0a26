# LeanAT: a TLA+ model of the runtime

LeanAT compiles transaction-level device models, written in a Lean 4 DSL, to a
descriptor that a C++17 runtime executes inside a SystemC simulation. This
directory holds TLA+ modules of that runtime, TLC configurations that check them
on small instances, and TLAPS proofs for every instance. Paths are relative to
the repository; `runtime/`, `stdlib/` and `systemc/` are the C++ code.

1. [The system](#the-system)
2. [Modules](#modules)
3. [What the runs check](#what-the-runs-check)
4. [What is proved](#what-is-proved)
5. [Disagreements between code and tests](#disagreements-between-code-and-tests)
6. [Observations](#observations)
7. [What is not modelled](#what-is-not-modelled)

## The system

Everything runs in one operating-system thread. What makes the runtime hard is
not parallelism but *reentrancy* and *deferral*: handlers, callbacks and native
TLM calls call the runtime back in the middle of its own operations; work is
prepared in one segment and committed in another; and a handle, an epoch or a
version that was read before such a gap is used after it.

Time is a pair (tick, turn). The pump takes all events of the earliest instant
as one *closed batch*; whatever its members post at the same tick lands in the
next turn. A *segment* runs inside an event: it buffers writes, reserves events
and prepares changes of other stores, and commits or discards them together. The
*protocol engine* keeps a ledger per hop for the TLM four-phase protocol. The
*drain store* knows which transactions still owe wire activity; a *reset* waits
for them or cancels them, and moves the instance to the next epoch.

### Inventory

| Part | State | Operations that change it | What is hard | What must hold |
| --- | --- | --- | --- | --- |
| Event queue (`runtime/src/event_queue.cpp`) | slots with state, generation, key; open batch; frontier; cursors; counters | prepare, enqueue, retarget, abandon, cancel, pop_batch, ack_executed, resolver_step, finish_batch, collect_stale | reservations older than the frontier; collection during a batch; counters at their end | frozen frontier, closed batches, total order, handles name one event, nothing dropped |
| Segment transactions (`event_txn.cpp`) | buffered writes, actions, events, cancels, participants, bytes, savepoints; versioned cells | open, read/write, stage, grow, checkpoint, rollback, commit, discard | validation and apply with other segments between staging and commit | apply never fails after validation, everything settled once, first committer wins |
| Drain store (`drain.cpp`) | records with hops, receipts, per-instance epoch and reset, shadows of segments | register, defer, add/drop/observe hop, finish, retire, cancel, reset (two policies), advance, prepare/apply/discard | resets against late work; collection against cohorts and receipts | epoch barrier, exact cohort, no deferred root forgotten, resets end |
| Protocol engine (`protocol.cpp`, `protocol_binding.cpp`) | ledgers, tickets, request and response lanes, prepared bindings and retirements | bind, begin_call, end_call, fault, retire, prepare/apply/discard | calls nested in calls; returns that jump phases; retirement prepared earlier | exclusive lanes, milestones once and in order, tickets keep their ledger |
| Finite protocol packages (`protocol_finite.cpp`, `protocol_services.cpp`) | installed rule tables | install, match | ambiguity of rules | at most one rule wins |
| Runtime facade and pump (`runtime.cpp`) | blocking requests, intents, outgoing calls, wire events, cleanups, pending boundary work, depth, stop flag | submit/complete/cancel blocking, allocate/dispatch intents, enter/return of native calls, pump_batch, reset, cancel_local, stop, reconcile | reentrancy; stop in the middle of a batch; wakeups | callers answered once, no lost wakeup, current work only |
| Processes (`process.cpp`) | frames, suspensions, single waits | spawn, suspend, notify, resume, cancel, finish | notification against cancellation; staged copies | one outcome per suspension |
| Results and shadows (`result_store.cpp`) | reservations, published results, consumers, pins | reserve, publish, consume, pin, release | consumers that come late or twice | published once, freed when unused |
| Wait groups (`wait_group.cpp`) | groups, arms, recorded outcomes | create, arm, record, resolve, cancel | several arms ready in one batch | one winner, losers cancelled |
| Cancel scopes (`cancel_scope.cpp`) | scope tree, owned resources | open, close, own, transfer, cancel | transfer during cancellation | every resource in one scope |
| Task pool (`task_pool.cpp`) | slots, queue, tickets | spawn, start, finish, reap, cancel | full pool, cancelled tickets | bound kept, nobody forgotten |
| Admission (`admission.cpp`, `admission_event.cpp`) | request lanes, gates, service and response permits | request, grant, revoke, release, resolve | grant against timeout | one holder per lane |
| Managed access (`managed.cpp`) | leases, operations, backing | acquire, use, invalidate, replace | use after invalidation | no access through a dead lease |
| Standard objects (`stdlib/src/`: queue, resource, pipeline, timer, crossbar, memory, register bank, timeouts, retries) | cells of a segment plus events | per object | tickets of discarded segments; timeout and answer in one batch | per object |
| SystemC adapters (`systemc/src/adapter.cpp`) | armed wakeup, native call stack, payload pins, waiting threads | arm, dispatch, nonblocking transport, blocking wait | the kernel unwinds threads; time passes between pumps | pump wakes in time, pins released |
| Interpreter, descriptors, service backends, object registry, generated template, tools | none of their own over time, or that of the stores above | evaluation, validation, marshalling | | |
| Lean frontend, compiler, reference semantics (`LeanAT/`) | none | pure translation | | |

`PROJECT.json` lists every part with its status, every hazard at the line where
it bites with the properties that cover it, and, for each definition, the lines
it models.

## Modules

An operation that returns an error without changing anything is a stuttering
step. Errors that do change something are actions or branches. Handles are slot
and generation, or a model value; payloads are left out; counters keep the bound
at which the code reports exhaustion.

### EventQueue (`runtime/src/event_queue.cpp`)

The slots are functions `state`, `generation`, `key`, `cancelled`; the batch is
`batch`, `members`, `cursor`, `resolverCursor`, `resolverTotal`. `held` is the
set of live `EventReservation` objects and `acked` the last acknowledged key
(history). There is one action per method. The key fields between turn and
sequence (stage, instance, connection) are one number, the rank. A slot whose
generation is used up retires, as in `prepare`.

### EventCalendar, EventQueueCalendar

`EventCalendar` is what the queue promises its clients, without slots, handles,
reservations or limits: waiting events, a batch of *all* the earliest ones, run
in key order. `EventQueueCalendar` maps the queue to it: queued slots are the
waiting events, members from the cursor on are the running ones.

### EventTxn (`runtime/src/event_txn.cpp`), extends EventQueue

`txn` holds the open `EventTxn` objects, `cells` the versioned cells, `saves`
the live savepoints, `fate` the calls each participant saw (history),
`terminated` whether `std::terminate` was reached in the apply phase. All steps
of the queue interleave with those of the transactions.

### DrainStore (`runtime/src/drain.cpp`)

All fields of the store are one record `store`, because a segment works on a
copy of it: `views` are the shadows of chained `DrainUpdate`s. Each operation is
an operator from store to store, applied to the store or to the shadow, so that
`BlockingCalls` can use the same operators.

### ProtocolEngine (`runtime/src/protocol.cpp`, `protocol_binding.cpp`)

`ledgers` by hop, `pending` call tickets, the lanes `requests` and `responses`
per connection, `prepared` bindings and `retiring` hops of segments. A call is
two steps, `begin_call` and `end_call`, with everything else allowed between;
the return may carry any status and phase. Base rules, extension rules
and ignorable phases are included, faults too.

### BlockingCalls (`runtime/src/runtime.cpp`, `systemc/src/adapter.cpp`)

A composition: the event calendar in place of the queue, the operators of
`DrainStore` for one instance, and the runtime's own tables `blocking` and
`blockingEvents`. `pump` is the slice that `pump_batch` is dispatching; since
handlers and callbacks may call the runtime, every host call is enabled between
two members. `clock` is the simulation time, `now` the runtime's `now_`, `armed`
the pending notification of `EventPump`. `Reconcile` is the destructor of the
outermost `Entry`. `handed`, `answers` and `unwound` are history. The limit of
events per tick stops the runtime like the cumulative one and is not a second
action.

### CancelScope, TaskPool (`runtime/src/cancel_scope.cpp`, `task_pool.cpp`, `structured_services.cpp`)

`CancelScope` has the tree of scopes, what each owns, frozen plans and observers;
`scopes` is one record because segments prepare copies of it. `TaskPool` has the
frames, queues and tickets of several pools, driven directly or through the task
and scope services, which chain copies of the scopes and of the pool. Scopes are
flat there; the tree is in `CancelScope`.

### ResultStore, PayloadViews, TargetStorage (`runtime/src/result_store.cpp`, `stdlib/src/memory.cpp`, `register_bank.cpp`)

`ResultStore` has slots with producer, consumers, pins and publication, and the
copies that a segment stages one from the other. `PayloadViews` has the views of
the two sides of a hop, with masks, one extension and the delivery of a response;
`TargetStorage` extends it with a memory and a register bank. A byte is the set
of its bits that are one, and byte order, masks and read-to-clear are computed.

### ProcessStore, BoundedQueue (`runtime/src/process.cpp`, `stdlib/src/queue.cpp`)

Frames, suspensions, single waits and controlled cancellation, directly or in
staged copies; and a queue whose rows own the right to consume a result, with the
part of the result store that the queue uses.

### WaitGroup (`runtime/src/wait_group.cpp`)

Groups with branches over sources, resolved when a batch closes. Times stand for
ready keys; copies of segments are included.

### Admission, Transact (`runtime/src/admission.cpp`, `admission_event.cpp`, `stdlib/src/payload_helpers.cpp`, `structured.cpp`)

`Admission` is one side's store of hops, responses and request gates, changed
directly or in drafts. `Transact` composes it with `TransactOperation`,
`TimeoutOperation` and `RetryController` and with what they use of the runtime
(intents and their hooks, cleanup bindings, latched milestones, lane events), of
the engine (the wire state of a hop) and of the drains (one record per
transaction). An operation is a helper that asks for its gate, one that is handed
the permit of a timeout, or a timeout whose caller makes the call itself.

### Resource, Managed, Timers (`stdlib/src/resource.cpp`, `pipeline.cpp`, `runtime/src/managed.cpp`, `stdlib/src/timer.cpp`)

`Resource` is one cell that segments copy, with channels, records and the ready
events of a pipeline. `Managed` extends it with leases, accesses ordered by their
events, scheduled changes and replaced backings; what is stored is the set of
accesses that wrote it. `Timers` has a timer and an interrupt output over the
part of the event queue that they see.

### Crossbar (`stdlib/src/crossbar.cpp`, the class `Crossbar`)

The address map, chosen among configurations that the constructor accepts,
routed requests with their references, and the direct memory grants passed on.
`grants` is the vector `grants_`; a tag keeps equal entries apart. `held` and
`backed` are the world around it: what upstreams may still use, cell by cell, and
what targets granted and did not take back. Upstreams are told inside the call
that invalidates, as in the test case E-T33 of `tests/conformance/systemc.cpp`
("synchronous upstream invalidations"). A call that fails changes nothing.

## What the runs check

| Run | Shows | Bounds |
| --- | --- | --- |
| `event_queue_safety` | closed batches, handles that name one event, nothing dropped, with counters reaching their limits | 2 slots, 2 ticks, 2 turns, 2 ranks |
| `event_queue_calendar` | the queue implements the calendar; with a fair pump every queued event settles | 2 slots, 2 ticks, 2 turns, 1 rank |
| `event_txn` | a validated commit never terminates, writers are serialised across resets, participants are settled once, rollbacks restore | 2 transactions, 2 slots, 2 cells, 2 participants, 2 nested savepoints |
| `wire` | drains: epoch barrier, exact cohort, receipts; protocol: tickets keep ledgers, lanes, milestones | 3 transactions, 2 hops, capacity 2, 2 chained views; 3 hops, 1 connection, 2 segments |
| `blocking_safety` | callers answered exactly once, drains agree, no lost wakeup, handlers get current work | 3 callers, capacities 2, budget 4 events |
| `blocking_liveness` | callers return, resets end | 2 callers, prompt host |
| `structured` | one owner for everything, complete plans, exact counters, nothing live is unowned, no closed knot of waiting tasks | 3 scopes, 2 things; 2 pools of 1 frame, 3 tasks, 3 results |
| `stores` | results, delivered responses, stored bytes, processes, queue rows, crossbar grants | 2 result slots; 2 bytes; 2 processes; 2 rows; 4 addresses, 2 upstreams, 2 grants |
| `services` | wait groups, response order, request lanes, helpers, reservations, accesses, tokens | 2 groups of 2; 3 hops; 2 operations; 2 channels; 2 accesses; 1 device, 2 segments |
| `blocking_late_host`, `scope_cancel_leak`, `cleanup_lost` | the disagreements below | as the runs above |

`wire`, `structured`, `stores` and `services` look at several components: the
initial state chooses one and the others stay as they are. Their MC modules have
predicates `Small...` that keep the steps of a component within a focus: which
of its features are combined, said in the comment above each. They are bounds
like the constants, and a combination they exclude is not checked.

Every property of a passing run has a mutant in `PROJECT.json`: a plausible bug
in one definition (a dropped guard, a missing reset, a stale comparison) under
which TLC violates it.

**Why the bounds are enough.** The interesting cases need two of something: two
reservations for one slot (reuse needs 2 slots, 3 generations), two transactions
that race for a cell, a member and a non-member of a cohort plus one deferred
root (3 transactions), a request lane that is taken (2 hops), a caller in the
batch, one deferred and one refused (3 callers with capacity 2), a pool whose
frame is held by a task that waits for the other pool (2 pools), two sources
ready in one batch, an operation that holds the lane the other one wants, a
grant with a hole in the middle and an alias of it (4 addresses, 2 grants).
Capacities are below the number of clients so that "full" happens; counters are
small so that exhaustion happens. For resources the durations are at least 1: a
reservation of no time is a corner that is not looked at.

**Deadlock.** It is checked in the event queue runs (the queue never blocks its
clients). Elsewhere the system may stop: all transactions are settled, a store
is at its limits, or the runtime is stopped.

**Fairness.** `event_queue_calendar` assumes that the pump keeps running, which
`EventPump` does while an event is queued. `blocking_liveness` assumes that the
SystemC kernel delivers the notification the pump waits for, that a running pump
goes on, that simulated time passes, and that a handler answers what it keeps.
No fairness is assumed of callers, cancellations or resets. That resets end is
checked in `blocking_liveness` only; the drain store alone cannot force wire
activity to end. `WaitsResolvedInTime` is an action property and needs none.

## What is proved

### The event queue

The theorems of `EventQueueInvariant`, `EventQueueProofs` and
`EventQueueCalendarProofs` hold for every number of
slots, every bound of ticks, turns, generations, sequence and batch numbers and
every set of ranks. The only assumption is `EventQueueAssumption`: the bounds
are natural numbers, and there is at least one slot, sequence number and batch
number.

**The inductive invariant.** `IInv` (in `EventQueueInvariant`) is the conjunction
of the type invariant, of `QueuedBeyondFrontier`, `ClosedBatch`,
`ReservationsOwnSlots`, `SequencesUnique` and three strengthenings.
`SortedBatch` adds to `ClosedBatch` that the members are in key order. `LiveKeys`
says that a live slot has a real key with a number already drawn: without it the
next number could collide with a live one.
`AckedBehind` says that the last acknowledged key is before every live event
that may still run: without it the order of acknowledgements across two
batches does not follow from the order inside one. `InitEstablishes`, one lemma
`...Preserves` per operation, and `NextPreserves` give `Invariance`.

| Theorem | States |
| --- | --- |
| `TypeCorrect` | `TypeOK` always holds |
| `FrontierStaysFrozen` | `QueuedBeyondFrontier` |
| `BatchesAreClosed` | `ClosedBatch` |
| `ReservationsExact` | `ReservationsOwnSlots` |
| `SequencesStayUnique` | `SequencesUnique` |
| `ExecutionOrdered` | `AckedInKeyOrder` |
| `HandlesNameEvents` | `GenerationNamesEvent` |
| `EventsAreNotDropped` | `NothingDropped` |
| `QueueImplementsCalendar` | `ImplementsCalendar`: the queue refines the calendar |

**The refinement.** `CInv` adds to `IInv` that a reserved slot is not cancelled
(so a new event does not start out revoked) and that without a batch there are
no members (so the mapped `running` is empty). One lemma `...Maps` per operation
shows that it is a step of the calendar or invisible. Opening a batch is the
hard one: the slots of the least ready key, sorted, are the enumeration of the
earliest keys.

`ClosedBatch`, `GenerationNamesEvent`, `NothingDropped` and `ImplementsCalendar`
are also checked by the runs; the others are parts of `IInv` or follow from it,
and are only proved.

### The crossbar

`CrossbarCorrect` (in `CrossbarProofs`) states `CrossbarExact` for every set of
address maps, every size of the address space, every capacity and every number of
upstreams and targets. The assumption, `CrossbarAssumption`, is that the address
space is numbered from 0, regions are numbered and lengths are not negative; that
the map is valid comes from `CrossbarInit`, as it does from the constructor.

The inductive invariant `XInv` adds to `CrossbarExact` the types and that a grant
which is remembered lies in the region it was made for (`InRegion`). That is what
the argument turns on. Regions do not overlap (`OneRegion`), so an address that
an upstream holds and a grant that covers it are about the same region and the
same cell (`SameRegion`). An invalidation takes from a grant exactly the
addresses whose cells it names (`HitMeaning`), and what is left is the rest
(`LeftMeaning`). So whoever holds a cell that is taken back is told, through
whichever alias, and an upstream is told only of addresses it holds. There is one
lemma per action.

### The protocol engine

`LanesStayExact` and `TicketsStay` (in `ProtocolEngineProofs`) state `LanesExact`
and `TicketsKeepLedgers`, which the run `wire` also checks, for every set of
hops, connections, transports and segments, every limit and every set of
extension rules. The assumption, `ProtocolAssumption`, is what `install_rules`
checks of the rules, that limits and times are natural numbers, and that the mark
for a free lane is not a hop.

The inductive invariant `PInv` says of each lane that its owner is the one hop in
the state that goes with it (`LaneOf`). A return releases or takes a lane by the
state its hop was in when it was called; other calls may have run in between, so
`CallsKnown` ties the phase of an open call to the state of its hop. It also says
that an open call has counted its ordinal, so a ledger that may be discarded as
unstarted has none. `TransportsApart` covers reserved bindings as well as ledgers,
because a commit turns the one into the other without asking again. `LaneMoves`
is the step all calls share: a hop changes its state, and leaves its lane, has
nothing to do with it, or takes a free one. There is one lemma per action.

### Only model-checked

Liveness (fairness and `ENABLED` are beyond the prover), the order of the
milestones of a hop, and everything about transactions, drains, blocking calls,
structured concurrency, the other stores and the services. `Managed` uses a recursive operator, which rules
out proofs about it.

## Disagreements between code and tests

Each has a run that TLC ends with a violation.

**`blocking_late_host`.** `tests/cpp/test_runtime_boundaries.cpp:184` checks that
a runtime that stops has told the waiting caller, and `Runtime::stop` does that
for every caller. But `reconcile` (`runtime/src/runtime.cpp:338`) sets `stopped_`
without `stop()` when the host cannot be armed. Two callers submit, time passes,
the thread of one unwinds and `RuntimeHostAdapter::blocking` cancels its request;
the completion is scheduled at the successor of `now_`, the time of the *last
pump*, which is over; `EventPump::arm` refuses a past deadline, and the other
caller is never called back.

**`scope_cancel_leak`.** `tests/cpp/test_structured_services.cpp:353` says that
cancelling a scope cleans up the capabilities owned there. `ScopeCancel` prepares
the pool on one copy of the scopes and applies a later copy last
(`runtime/src/structured_services.cpp:635`). When the cancelled task frees a
frame, the ticket of *another* scope is granted, and the consumer that the grant
creates is attached to the first copy only: no scope owns it, and no later
cancellation releases it. `OwnedWhileLive` excepts exactly these consumers.

**`cleanup_lost`.** `tests/conformance/systemc_lifecycle.cpp:193` requires that
repeated resets leave one cleanup phase sent. `Runtime::cancel_local` and an
aborting reset (`runtime/src/runtime.cpp:1722`) erase all unsent intents of a
cancelled transaction, the scheduled cleanup included, while the binding stays
marked as scheduled: a second cancellation before the phase was dispatched loses
it. In the test the phase is sent before the next cancellation.

## Observations

Behaviour that the models show and no doc or test speaks about.

- A helper whose request was not sent when an aborting reset came cannot finish:
  its cancellation retires the hop (`stdlib/src/payload_helpers.cpp:588`) and is
  then refused by `retire_responsibility` (`runtime/src/drain.cpp:248`), because
  the reset made a receipt that is not released. `HelpersExact` (the property
  `HelpersHold` of `services`) says that this is the only way for a helper to be
  stuck.
- A timeout that expires before its helper was given the permit does not cancel
  that helper (`stdlib/src/structured.cpp:150`); its owner must.
- A helper that is cancelled while its timeout still holds the gate is refused by
  `retire_unstarted`, and can be cancelled again once the timeout is over.
- A wait group whose process was cancelled cannot resume it
  (`runtime/src/wait_group.cpp:226`, `:301`); groups of higher slots wait behind
  it, which is why `WaitsResolvedInTime` names that case.
- A failed invalidation of the crossbar changes nothing and tells nobody. A grant
  that would be split when the table is full is such a case: the target must not
  take the range back until a call succeeds.

## What is not modelled

- **Crossbar sessions** (`CrossbarSession`): one transaction with an admitted hop
  upstream and a hop downstream. `Transact` has only the initiating side.
- **The nonblocking bridge** of the adapters (`NbBridge`), with the hazard at
  `systemc/src/adapter.cpp:357`; the ingress of native calls and the records of
  outgoing ones in `runtime.cpp`.
- **Handlers**: application code. What a handler does with a request whose epoch
  is over (`runtime/src/runtime.cpp:1517`) is assumed, not checked.
- **Finite protocol packages**: a static table that is searched.
- **Task groups, fan-out, `FinishResponseOperation`**: loops over, or reads of,
  what is modelled.
- **Interpreter, descriptors, metadata, service backends, object registry,
  generated template**: sequential evaluation, validation and marshalling; their
  effects are those of the stores.
- **Lean frontend, compiler and reference semantics; tools**: pure functions from
  programs to programs, and input and output.
- **The SystemC kernel**: only the source of notifications and time.
- **Data**: payload bytes outside the stores that serve them, sidebands, byte
  limits, traces and error texts; the crossbar's latencies and debug prefix.
- **Real 64-bit widths**: counters have small limits and the code's own
  exhaustion checks.
