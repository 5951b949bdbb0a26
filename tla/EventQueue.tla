----------------------------- MODULE EventQueue -----------------------------
(***************************************************************************)
(* The bounded event queue of the runtime (runtime/src/event_queue.cpp).   *)
(*                                                                         *)
(* A fixed array of slots holds the events.  A client first reserves a     *)
(* slot, then enqueues, retargets or abandons the reservation.  The pump   *)
(* closes a batch (every queued event with the least ready key becomes     *)
(* active), acknowledges its members in key order, runs the resolver and   *)
(* finishes the batch.  The frontier is the ready key of the last closed   *)
(* batch: nothing may be scheduled at or before it.                        *)
(*                                                                         *)
(* A call that returns an error without changing the queue is a stuttering *)
(* step.  Payload values, owners, domains and store identities are left    *)
(* out: a handle is a slot and a generation.  The components of an event   *)
(* key between turn and sequence (stage, instance, connection) are one     *)
(* number, the rank.                                                       *)
(***************************************************************************)
EXTENDS Integers, Sequences

CONSTANTS
    NumSlots,       \* capacity of the queue
    MaxTime,        \* greatest tick
    MaxTurn,        \* greatest turn (UINT64_MAX in the code)
    Ranks,          \* ranks of event keys
    MaxGeneration,  \* greatest slot generation (UINT64_MAX in the code)
    MaxSequence,    \* value at which sequence numbers are exhausted
    MaxBatch,       \* value at which batch identifiers are exhausted
    MaxWork         \* greatest amount of resolver work for one batch

ASSUME EventQueueAssumption ==
    /\ NumSlots \in Nat \ {0}
    /\ MaxTime \in Nat
    /\ MaxTurn \in Nat
    /\ Ranks \subseteq Nat
    /\ MaxGeneration \in Nat
    /\ MaxSequence \in Nat \ {0}
    /\ MaxBatch \in Nat \ {0}
    /\ MaxWork \in Nat

Slots == 1..NumSlots
ReadyKeys == [time : 0..MaxTime, turn : 0..MaxTurn]
NoKey == [time |-> -1, turn |-> 0]       \* an empty std::optional<ReadyKey>
NoBatch == 0                             \* an empty std::optional<BatchId>
NoTotal == -1                            \* an empty resolver_total_

\* The key of an EventDraft before the queue numbers it, and after.
Drafts == [time : 0..MaxTime, turn : 0..MaxTurn, rank : Ranks]
EventKeys == [time : -1..MaxTime, turn : 0..MaxTurn, rank : Ranks \cup {0},
              sequence : 0..MaxSequence]
NoEvent == [time |-> -1, turn |-> 0, rank |-> 0, sequence |-> 0]

Handles == [slot : Slots, generation : 0..MaxGeneration]

SlotStates == {"Free", "Reserved", "Queued", "Active", "Done", "Retired"}

VARIABLES
    state,          \* Slot::state of every slot
    generation,     \* Slot::generation
    key,            \* Slot::event.key, meaningful once a slot was reserved
    cancelled,      \* Slot::cancelled
    frontier,       \* frontier_
    batch,          \* batch_
    members,        \* members_
    cursor,         \* cursor_: members already acknowledged
    resolverCursor, \* resolver_cursor_
    resolverTotal,  \* resolver_total_
    reclaimCursor,  \* reclaim_cursor_
    nextBatch,      \* next_batch_
    nextSequence,   \* next_sequence_
    held,           \* handles of the live EventReservation objects
    acked           \* history: the key acknowledged last

slotVars  == <<state, generation, key, cancelled>>
batchVars == <<frontier, batch, members, cursor, resolverCursor,
               resolverTotal, nextBatch>>
vars == <<state, generation, key, cancelled, frontier, batch, members, cursor,
          resolverCursor, resolverTotal, reclaimCursor, nextBatch,
          nextSequence, held, acked>>

-----------------------------------------------------------------------------
(* Keys and handles *)

\* ReadyKey::operator<
ReadyLess(a, b) == \/ a.time < b.time
                   \/ a.time = b.time /\ a.turn < b.turn

\* ReadyKey{key.time, key.turn}
Ready(k) == [time |-> k.time, turn |-> k.turn]

\* EventKey::operator<, lexicographic in time, turn, rank and sequence
KeyLess(a, b) ==
    \/ ReadyLess(a, b)
    \/ /\ Ready(a) = Ready(b)
       /\ \/ a.rank < b.rank
          \/ a.rank = b.rank /\ a.sequence < b.sequence

\* The key of draft d under sequence number n
Numbered(d, n) == [time |-> d.time, turn |-> d.turn, rank |-> d.rank,
                   sequence |-> n]

\* "frontier_ && !(frontier_.value() < r)" is an error everywhere
BeyondFrontier(k) == frontier = NoKey \/ ReadyLess(frontier, k)

Handle(i) == [slot |-> i, generation |-> generation[i]]

\* EventQueue::validate
Valid(h) == /\ h.generation # 0
            /\ h.generation = generation[h.slot]
            /\ state[h.slot] # "Retired"

\* EventQueue::preflight
Preflight(h) == /\ Valid(h)
                /\ state[h.slot] = "Reserved"
                /\ BeyondFrontier(key[h.slot])

\* EventQueue::validate_cancel
ValidateCancel(h) == Valid(h) /\ state[h.slot] # "Reserved"

\* EventQueue::can_cancel, when it does not fail
CanCancel(h) == /\ ValidateCancel(h)
                /\ state[h.slot] \in {"Queued", "Active"}
                /\ ~cancelled[h.slot]

\* A slot that EventQueue::occupied counts
Live(i) == state[i] \notin {"Free", "Retired"}

-----------------------------------------------------------------------------
Init ==
    /\ state = [i \in Slots |-> "Free"]
    /\ generation = [i \in Slots |-> 0]
    /\ key = [i \in Slots |-> NoEvent]
    /\ cancelled = [i \in Slots |-> FALSE]
    /\ frontier = NoKey
    /\ batch = NoBatch
    /\ members = <<>>
    /\ cursor = 0
    /\ resolverCursor = 0
    /\ resolverTotal = NoTotal
    /\ reclaimCursor = 1
    /\ nextBatch = 1
    /\ nextSequence = 1
    /\ held = {}
    /\ acked = NoEvent

(* Reservations *)

Usable(i) == state[i] = "Free" /\ generation[i] < MaxGeneration

\* Mutant of NextGeneration: a reused slot keeps its generation.
SameGeneration(g) == g

NextGeneration(g) == g + 1

\* The search of prepare stops at the first usable slot; an exhausted free
\* slot it passes on the way is retired.
Passed(i) == {j \in Slots : j < i /\ state[j] = "Free"}

\* EventQueue::prepare on slot i, leaving the slot in state s
Claim(d, i, s) ==
    /\ nextSequence # MaxSequence
    /\ BeyondFrontier(d)
    /\ Usable(i)
    /\ \A j \in Slots : j < i => ~Usable(j)
    /\ state' = [j \in Slots |-> IF j = i THEN s
                                ELSE IF j \in Passed(i) THEN "Retired"
                                ELSE state[j]]
    /\ generation' = [generation EXCEPT ![i] = NextGeneration(@)]
    /\ key' = [key EXCEPT ![i] = Numbered(d, nextSequence)]
    /\ cancelled' = [cancelled EXCEPT ![i] = FALSE]
    /\ nextSequence' = nextSequence + 1
    /\ UNCHANGED <<batchVars, reclaimCursor, acked>>

Prepare(d) ==
    \E i \in Slots :
        /\ Claim(d, i, "Reserved")
        /\ held' = held \cup {[slot |-> i, generation |-> generation'[i]]}

\* EventQueue::enqueue(EventDraft): prepare, then enqueue the reservation
EnqueueDraft(d) ==
    \E i \in Slots : Claim(d, i, "Queued") /\ UNCHANGED held

\* prepare without a usable slot: Capacity, but exhausted slots are retired
PrepareFull(d) ==
    /\ nextSequence # MaxSequence
    /\ BeyondFrontier(d)
    /\ \A i \in Slots : ~Usable(i)
    /\ state' = [j \in Slots |-> IF state[j] = "Free" THEN "Retired" ELSE state[j]]
    /\ UNCHANGED <<generation, key, cancelled, batchVars, reclaimCursor,
                   nextSequence, held, acked>>

\* ~EventReservation and move assignment
Abandon(h) ==
    /\ h \in held
    /\ held' = held \ {h}
    /\ state' = IF h.generation = generation[h.slot] /\ state[h.slot] = "Reserved"
                THEN [state EXCEPT ![h.slot] = "Free"]
                ELSE state
    /\ UNCHANGED <<generation, key, cancelled, batchVars, reclaimCursor,
                   nextSequence, acked>>

\* EventQueue::enqueue(EventReservation&&)
Enqueue(h) ==
    /\ h \in held
    /\ Preflight(h)
    /\ state' = [state EXCEPT ![h.slot] = "Queued"]
    /\ held' = held \ {h}
    /\ UNCHANGED <<generation, key, cancelled, batchVars, reclaimCursor,
                   nextSequence, acked>>

KeptSequence(i) == key[i].sequence

\* EventQueue::retarget: the reservation keeps its sequence number
Retarget(h, d) ==
    /\ h \in held
    /\ Preflight(h)
    /\ BeyondFrontier(d)
    /\ key' = [key EXCEPT ![h.slot] = Numbered(d, KeptSequence(h.slot))]
    /\ UNCHANGED <<state, generation, cancelled, batchVars, reclaimCursor,
                   nextSequence, held, acked>>

Cancel(h) ==
    /\ CanCancel(h)
    /\ cancelled' = [cancelled EXCEPT ![h.slot] = TRUE]
    /\ UNCHANGED <<state, generation, key, batchVars, reclaimCursor,
                   nextSequence, held, acked>>

(* Batches *)


Due(now) == {i \in Slots : state[i] = "Queued" /\ key[i].time <= now}

\* The slots that the next batch closes over: those with the least ready key
Frontmost(now) ==
    {i \in Due(now) : \A j \in Due(now) : ~ReadyLess(key[j], key[i])}

\* Mutant of InKeyOrder: the members are not sorted.
InAnyOrder(S) ==
    {s \in UNION {[1..n -> S] : n \in 0..NumSlots} :
        /\ \A m, n \in 1..Len(s) : m # n => s[m] # s[n]
        /\ \A i \in S : \E n \in 1..Len(s) : s[n] = i}

\* std::stable_sort of the members by event key: a sorted enumeration
InKeyOrder(S) ==
    {s \in UNION {[1..n -> S] : n \in 0..NumSlots} :
        /\ \A m, n \in 1..Len(s) : m < n => KeyLess(key[s[m]], key[s[n]])
        /\ \A i \in S : \E n \in 1..Len(s) : s[n] = i}

\* EventQueue::pop_batch when no batch is open; with one open it only copies
\* the members from the cursor on.
PopBatch(now) ==
    /\ batch = NoBatch
    /\ nextBatch # MaxBatch
    /\ Due(now) # {}
    /\ batch' = nextBatch
    /\ nextBatch' = nextBatch + 1
    /\ \E i \in Frontmost(now) : frontier' = Ready(key[i])
    /\ members' \in InKeyOrder(Frontmost(now))
    /\ state' = [i \in Slots |-> IF i \in Frontmost(now) THEN "Active" ELSE state[i]]
    /\ cursor' = 0
    /\ resolverCursor' = 0
    /\ resolverTotal' = NoTotal
    /\ UNCHANGED <<generation, key, cancelled, reclaimCursor, nextSequence,
                   held, acked>>

\* The slot of the batch member that must be acknowledged next
Current == members[cursor + 1]

\* EventQueue::ack_executed; committed is disposition Committed
AckExecuted(h, committed) ==
    /\ batch # NoBatch
    /\ cursor # Len(members)
    /\ Valid(h)
    /\ h.slot = Current
    /\ committed => ~cancelled[h.slot]
    /\ state' = [state EXCEPT ![h.slot] = "Done"]
    /\ cursor' = cursor + 1
    /\ acked' = key[h.slot]
    /\ UNCHANGED <<generation, key, cancelled, frontier, batch, members,
                   resolverCursor, resolverTotal, reclaimCursor, nextBatch,
                   nextSequence, held>>

\* EventQueue::resolver_step
ResolverStep(budget, total) ==
    /\ batch # NoBatch
    /\ cursor = Len(members)
    /\ resolverTotal \in {NoTotal, total}
    /\ resolverTotal' = total
    /\ resolverCursor' = IF budget < total - resolverCursor
                         THEN resolverCursor + budget ELSE total
    /\ UNCHANGED <<slotVars, frontier, batch, members, cursor, reclaimCursor,
                   nextBatch, nextSequence, held, acked>>

\* EventQueue::finish_batch
FinishBatch ==
    /\ batch # NoBatch
    /\ cursor = Len(members)
    /\ resolverTotal # NoTotal
    /\ resolverCursor = resolverTotal
    /\ state' = [i \in Slots |-> IF \E n \in 1..Len(members) : members[n] = i
                                THEN "Free" ELSE state[i]]
    /\ members' = <<>>
    /\ batch' = NoBatch
    /\ UNCHANGED <<generation, key, cancelled, frontier, cursor,
                   resolverCursor, resolverTotal, reclaimCursor, nextBatch,
                   nextSequence, held, acked>>

\* The slots that one collect_stale call visits, from reclaim_cursor_ on
Scanned(budget) ==
    {((reclaimCursor - 1 + n) % NumSlots) + 1 :
        n \in 0..((IF budget < NumSlots THEN budget ELSE NumSlots) - 1)}

\* Mutants of Stale: the open batch, or the cancellation, is not tested.
StaleInBatch(i) == \/ state[i] = "Done"
                   \/ state[i] = "Queued" /\ cancelled[i]
StaleWhenQueued(i) == \/ state[i] = "Done" /\ batch = NoBatch
                      \/ state[i] = "Queued"

Stale(i) == \/ state[i] = "Done" /\ batch = NoBatch
            \/ state[i] = "Queued" /\ cancelled[i]

CollectStale(budget) ==
    /\ state' = [i \in Slots |-> IF i \in Scanned(budget) /\ Stale(i)
                                THEN "Free" ELSE state[i]]
    /\ reclaimCursor' = ((reclaimCursor - 1
                           + (IF budget < NumSlots THEN budget ELSE NumSlots))
                         % NumSlots) + 1
    /\ UNCHANGED <<generation, key, cancelled, batchVars, nextSequence, held,
                   acked>>

-----------------------------------------------------------------------------
Reserve == \E d \in Drafts : Prepare(d) \/ PrepareFull(d)
Post == \E d \in Drafts : EnqueueDraft(d)
UseReservation == \E h \in held : \/ Abandon(h)
                                  \/ Enqueue(h)
                                  \/ \E d \in Drafts : Retarget(h, d)
Revoke == \E h \in Handles : Cancel(h)
Open == \E now \in 0..MaxTime : PopBatch(now)
Ack == \E h \in Handles, committed \in BOOLEAN : AckExecuted(h, committed)
Resolve == \E total \in 0..MaxWork, budget \in 1..(MaxWork + 1) :
               ResolverStep(budget, total)
Collect == \E budget \in 1..NumSlots : CollectStale(budget)

Next == \/ Reserve \/ Post \/ UseReservation \/ Revoke
        \/ Open \/ Ack \/ Resolve \/ FinishBatch \/ Collect

Spec == Init /\ [][Next]_vars

\* The host pumps the queue at its next wakeup, so an enabled step of a batch
\* is eventually taken and time passes; clients owe nothing.
Pump == Open \/ Ack \/ Resolve \/ FinishBatch

FairSpec == Spec /\ WF_vars(Pump)

-----------------------------------------------------------------------------
(* Properties *)

\* Type correctness of the queue's fields.
TypeOK ==
    /\ state \in [Slots -> SlotStates]
    /\ generation \in [Slots -> 0..MaxGeneration]
    /\ key \in [Slots -> EventKeys]
    /\ cancelled \in [Slots -> BOOLEAN]
    /\ frontier \in ReadyKeys \cup {NoKey}
    /\ batch \in 0..MaxBatch
    /\ members \in Seq(Slots)
    /\ cursor \in Nat
    /\ resolverCursor \in 0..MaxWork
    /\ resolverTotal \in {NoTotal} \cup 0..MaxWork
    /\ reclaimCursor \in Slots
    /\ nextBatch \in 1..MaxBatch
    /\ nextSequence \in 1..MaxSequence
    /\ held \subseteq Handles
    /\ acked \in EventKeys

\* A frozen frontier stays frozen: no event that still waits is due at or
\* before the ready key of the last closed batch, whatever prepares, retargets,
\* cancels and late enqueues of old reservations happened since.
QueuedBeyondFrontier ==
    \A i \in Slots : state[i] = "Queued" => BeyondFrontier(key[i])

\* A batch is closed: while it is open its members are exactly the active and
\* done slots, all at the frontier; the done ones are those before the cursor.
\* With no batch open no slot is active or done.
ClosedBatch ==
    IF batch = NoBatch
    THEN \A i \in Slots : state[i] \notin {"Active", "Done"}
    ELSE /\ cursor \in 0..Len(members)
         /\ \A n \in 1..Len(members) :
                /\ state[members[n]] = IF n <= cursor THEN "Done" ELSE "Active"
                /\ Ready(key[members[n]]) = frontier
         /\ \A i \in Slots : state[i] \in {"Active", "Done"} =>
                \E n \in 1..Len(members) : members[n] = i

\* Every reserved slot belongs to exactly one live EventReservation, whose
\* handle is current: destroying, moving or enqueuing reservations neither
\* leaks a slot nor frees one that a later reservation or event took over.
ReservationsOwnSlots ==
    held = {Handle(i) : i \in {j \in Slots : state[j] = "Reserved"}}

\* Sequence numbers of live events are unique, so the key order is total and
\* events with equal time, turn and rank run in the order they were prepared.
SequencesUnique ==
    \A i, j \in Slots :
        i # j /\ Live(i) /\ Live(j) => key[i].sequence # key[j].sequence

\* A handle names one event forever: a slot never carries another event under
\* the same generation, so a stale token cannot reach a later event, up to
\* and including the generation limit.
GenerationNamesEvent ==
    [][\A i \in Slots :
          \/ generation'[i] > generation[i]
          \/ /\ generation'[i] = generation[i]
             /\ key'[i].sequence = key[i].sequence]_vars

\* Execution is totally ordered: across all batches the acknowledged events
\* are strictly increasing in key.
AckedInKeyOrder == [][acked' # acked => KeyLess(acked, acked')]_vars

\* Nothing is dropped: an event that was enqueued and not cancelled leaves the
\* queue only through a batch, and a batch member only by being acknowledged.
NothingDropped ==
    [][\A i \in Slots :
          /\ state[i] = "Queued" /\ ~cancelled[i] => state'[i] \in {"Queued", "Active"}
          /\ state[i] = "Active" => \/ state'[i] = "Active"
                                    \/ state'[i] = "Done" /\ acked' = key[i]]_vars


=============================================================================
