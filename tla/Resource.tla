----------------------------- MODULE Resource -----------------------------
(***************************************************************************)
(* A resource with a number of channels and the pipeline built on it       *)
(* (stdlib/src/resource.cpp, pipeline.cpp).  The resource is one cell: a   *)
(* segment works on a copy of it and its commit is refused when another    *)
(* writer came first.  A ticket is a slot and the generation kept in the   *)
(* cell, so the tickets of a discarded segment are handed out again.       *)
(* Values, waiting times and the domain are left out.                      *)
(***************************************************************************)
EXTENDS Integers, Sequences, FiniteSets, SequencesExt, FiniteSetsExt, Functions, TLC

CONSTANTS
    Kind,                   \* "Serial", "Capacity" or "Pipeline"
    Channels,               \* number of channels, spec_.capacity
    Interval,               \* spec_.initiation_interval
    ReservationCapacity,    \* number of records
    Durations,              \* durations asked for
    ResourceOwners, ResourceSegments,
    TicketGenerations,      \* bound on the generation of a ticket
    ResourceClock           \* bound on the time

VARIABLES
    resource,       \* the committed cell
    copyOf,         \* segment -> its copy, and what it stages with it
    readyEvents,    \* ready events of the pipeline: [time, ticket]
    resourceTime,   \* the time at which segments run
    granted         \* history: the reservations of committed segments

resourceVars == <<resource, copyOf, readyEvents, resourceTime, granted>>

NoRecord == [live |-> FALSE, generation |-> 0, owner |-> 0, start |-> 0, finish |-> 0,
             channel |-> 1, cancelled |-> FALSE]
NoCopy == [open |-> FALSE, current |-> TRUE, written |-> FALSE, cell |-> {}, owner |-> 0, added |-> {}]

ResourceInit ==
    /\ resource = [issue |-> 0, start |-> 0, arrival |-> 0,
                   channels |-> [c \in 1..Channels |-> 0],
                   records |-> [i \in 1..ReservationCapacity |-> NoRecord]]
    /\ copyOf = [s \in ResourceSegments |-> NoCopy]
    /\ readyEvents = {}
    /\ resourceTime = 0
    /\ granted = {}

Ticket(cell, i) == [slot |-> i, generation |-> cell.records[i].generation,
                    owner |-> cell.records[i].owner]
Names(cell, t) == t.slot \in DOMAIN cell.records /\ Ticket(cell, t.slot) = t
Tickets(cell) == {Ticket(cell, i) : i \in {j \in DOMAIN cell.records : cell.records[j].live}}
Interspace == IF Kind = "Pipeline" THEN Interval ELSE 0

FreeRecords(cell) == {i \in DOMAIN cell.records : /\ ~cell.records[i].live
                                                  /\ cell.records[i].generation < TicketGenerations}
CanReserveAt(cell, now, earliest) ==
    earliest >= now /\ now >= cell.arrival /\ FreeRecords(cell) # {}

\* The channel that is free first, and the first of these.
FirstChannel(cell) ==
    Min({c \in 1..Channels : cell.channels[c] = Min(Range(cell.channels))})

Reserved(cell, owner, now, earliest, duration) ==
    LET i == Min(FreeRecords(cell))
        c == FirstChannel(cell)
        start == Max({earliest, cell.start, cell.channels[c],
                      IF Kind = "Pipeline" THEN cell.issue ELSE 0})
    IN [issue |-> start + Interspace, start |-> start, arrival |-> now,
        channels |-> [cell.channels EXCEPT ![c] = start + duration],
        records |-> [cell.records EXCEPT ![i] =
            [live |-> TRUE, generation |-> @.generation + 1, owner |-> owner, start |-> start,
             finish |-> start + duration, channel |-> c, cancelled |-> FALSE]]]

\* A reservation that is not committed gives its channel back: the committed
\* schedule with the reservations that are still live on top of it.
RebuiltBare(cell, committed) ==
    [cell EXCEPT !.issue = committed.issue, !.start = committed.start,
                 !.channels = committed.channels]
Rebuilt(cell, committed) ==
    LET live == {r \in Range(cell.records) : r.live}
        last(base, S) == Max({base} \cup S)
    IN [cell EXCEPT
          !.issue = last(committed.issue, {r.start + Interspace : r \in live}),
          !.start = last(committed.start, {r.start : r \in live}),
          !.channels = [c \in 1..Channels |->
              last(committed.channels[c], {r.finish : r \in {x \in live : x.channel = c}})]]

Published(committed, t) == Names(committed, t) /\ committed.records[t.slot].live

\* cancel_pending of a live reservation that was not cancelled
CancelledTicket(cell, committed, t) ==
    LET marked == [cell EXCEPT !.records[t.slot].cancelled = TRUE]
    IN IF Published(committed, t) THEN marked
       ELSE Rebuilt([marked EXCEPT !.records[t.slot].live = FALSE], committed)

CompletedTicket(cell, t) == [cell EXCEPT !.records[t.slot].live = FALSE]

\* What a reservation of a committed segment promised.
Promise(r, i) == [slot |-> i, generation |-> r.generation, owner |-> r.owner, start |-> r.start,
                  finish |-> r.finish, channel |-> r.channel]
Promises(cell, since) ==
    {Promise(cell.records[i], i) : i \in {j \in DOMAIN cell.records :
        /\ cell.records[j].generation # since.records[j].generation
        /\ cell.records[j].live \/ ~cell.records[j].cancelled}}

OpenCopy(s, owner) ==
    /\ ~copyOf[s].open
    /\ copyOf' = [copyOf EXCEPT ![s] = [NoCopy EXCEPT !.open = TRUE, !.owner = owner]]
    /\ UNCHANGED <<resource, readyEvents, resourceTime, granted>>

CellOf(s) == IF copyOf[s].written THEN copyOf[s].cell ELSE resource

WriteCopy(s, cell, added, revoked) ==
    /\ copyOf' = [copyOf EXCEPT ![s].written = TRUE, ![s].cell = cell,
                                ![s].added = (@ \ revoked) \cup added]
    /\ UNCHANGED <<resource, readyEvents, resourceTime, granted>>

\* Pipeline::submit also stages the event at which the ticket is ready.
ReserveIn(s, earliest, duration, submit) ==
    LET cell == CellOf(s)
        next == Reserved(cell, copyOf[s].owner, resourceTime, earliest, duration)
        i == Min(FreeRecords(cell))
    IN /\ copyOf[s].open
       /\ CanReserveAt(cell, resourceTime, earliest)
       /\ WriteCopy(s, next, IF submit
                             THEN {[time |-> next.records[i].finish, ticket |-> Ticket(next, i)]}
                             ELSE {}, {})

\* Pipeline::cancel_pending withdraws the event of a ticket that was not
\* committed; it was staged by this segment.
CancelIn(s, t) ==
    LET cell == CellOf(s)
    IN /\ copyOf[s].open
       /\ copyOf[s].owner = t.owner
       /\ t \in Tickets(cell)
       /\ ~cell.records[t.slot].cancelled
       /\ WriteCopy(s, CancelledTicket(cell, resource, t), {},
                    IF Published(resource, t) THEN {} ELSE {e \in copyOf[s].added : e.ticket = t})

\* A ticket of the pipeline is completed by its ready event only.
CompleteIn(s, t) ==
    LET cell == CellOf(s)
    IN /\ copyOf[s].open
       /\ copyOf[s].owner = t.owner
       /\ t \in Tickets(cell)
       /\ \A e \in readyEvents \cup copyOf[s].added : e.ticket # t
       /\ resourceTime >= cell.records[t.slot].finish
       /\ WriteCopy(s, CompletedTicket(cell, t), {}, {})

\* The ready event is dispatched: the segment that it starts completes the
\* ticket.
OnReady(s, e) ==
    LET live == e.ticket \in Tickets(resource)
    IN /\ ~copyOf[s].open
       /\ e.time = resourceTime
       /\ readyEvents' = readyEvents \ {e}
       /\ copyOf' = [copyOf EXCEPT ![s] =
            [NoCopy EXCEPT !.open = TRUE, !.owner = e.ticket.owner, !.written = live,
                           !.cell = IF live THEN CompletedTicket(resource, e.ticket) ELSE {}]]
       /\ UNCHANGED <<resource, resourceTime, granted>>

\* The other segments that wrote the cell have been overtaken.
Overtaking(s) ==
    [r \in ResourceSegments |-> IF r = s THEN NoCopy
                                ELSE [copyOf[r] EXCEPT !.current = @ /\ ~copyOf[r].written]]
CommitCopy(s) ==
    /\ copyOf[s].open
    /\ copyOf[s].current
    /\ IF copyOf[s].written
       THEN /\ resource' = copyOf[s].cell
            /\ readyEvents' = readyEvents \cup copyOf[s].added
            /\ granted' = granted \cup Promises(copyOf[s].cell, resource)
            /\ copyOf' = Overtaking(s)
       ELSE copyOf' = [copyOf EXCEPT ![s] = NoCopy] /\ UNCHANGED <<resource, readyEvents, granted>>
    /\ UNCHANGED resourceTime

DiscardCopy(s) ==
    /\ copyOf[s].open
    /\ copyOf' = [copyOf EXCEPT ![s] = NoCopy]
    /\ UNCHANGED <<resource, readyEvents, resourceTime, granted>>

\* An event is dispatched at its time, after the segments before it.
PassResourceTime ==
    /\ \A s \in ResourceSegments : ~copyOf[s].open
    /\ \A e \in readyEvents : e.time > resourceTime
    /\ resourceTime < ResourceClock
    /\ resourceTime' = resourceTime + 1
    /\ UNCHANGED <<resource, copyOf, readyEvents, granted>>

ResourceNext ==
    \/ \E s \in ResourceSegments :
        \/ \E o \in ResourceOwners : OpenCopy(s, o)
        \/ \E wait \in {0, 1}, d \in Durations, submit \in BOOLEAN :
             ReserveIn(s, resourceTime + wait, d, submit)
        \/ \E t \in Tickets(CellOf(s)) : CancelIn(s, t) \/ CompleteIn(s, t)
        \/ \E e \in readyEvents : OnReady(s, e)
        \/ CommitCopy(s)
        \/ DiscardCopy(s)
    \/ PassResourceTime

\* Reservations of committed segments keep their promise, whatever is
\* reserved, cancelled or discarded around them: two of one channel never
\* overlap, those of a pipeline start at least an interval apart, and no two
\* have the same ticket.  A ready event names a live reservation that
\* finishes at its time.
ReservationsFit ==
    /\ \A p, q \in granted : p # q =>
        /\ p.channel = q.channel => p.finish <= q.start \/ q.finish <= p.start
        /\ p.start >= q.start => p.start - q.start >= Interspace
        /\ p.slot = q.slot => p.generation # q.generation
    /\ \A e \in readyEvents : /\ e.ticket \in Tickets(resource)
                              /\ resource.records[e.ticket.slot].finish = e.time

=============================================================================
