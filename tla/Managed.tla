------------------------------ MODULE Managed ------------------------------
(***************************************************************************)
(* Managed access (runtime/src/managed.cpp): leases on ranges of a region, *)
(* accesses that are admitted and finished in the order of their events,   *)
(* invalidations that take effect at their time, and the service resource  *)
(* an access holds in between, its own one or a bound Resource.  A segment *)
(* works on a view that replaces the manager when it commits, unless the   *)
(* manager was called in between.                                          *)
(*                                                                         *)
(* The result of an access is published with its end and is left to        *)
(* ResultStore.  A backing is known by a name; what is stored in it is the *)
(* set of the accesses that wrote it.  Generations are bounded; the turn   *)
(* of an event and the version of the memory's cell are left out.          *)
(***************************************************************************)
EXTENDS Resource

CONSTANTS
    LeaseCount, AccessCount,
    Addresses,          \* addresses of the region
    AccessGenerations,  \* bound on the generations of accesses and leases
    InputLimit,         \* limits.input_bytes
    ChangeLimit,        \* limits.scheduled_changes
    BackingLimit,       \* number of backings
    SequenceLimit,      \* bound on the events that are scheduled
    ManagedClock        \* bound on the time

VARIABLES
    manager,    \* now, leases, ops, changes, sequence, input
    identities, \* lease_generations and op_generations, shared with views
    region,     \* the region: none until it is added
    bound,      \* binding: a Resource is bound
    freeAt,     \* free_ of the manager's own resource
    view,       \* the view of the open segment
    stored      \* backing -> the accesses that wrote it

managedVars == <<manager, identities, region, bound, freeAt, view, stored>>

NoLease == [generation |-> 0]
NoOp == [generation |-> 0]
NoRegion == [backing |-> 0, policy |-> "AllowToComplete"]
NoView == [open |-> FALSE, current |-> FALSE, manager |-> {}]
Ranges == {i..j : i, j \in Addresses} \ {{}}
Commands == {"Read", "Write"}

ManagedInit ==
    /\ manager = [now |-> 0, sequence |-> 0, input |-> 0, changes |-> {},
                  leases |-> [i \in 1..LeaseCount |-> NoLease],
                  ops |-> [i \in 1..AccessCount |-> NoOp]]
    /\ identities = [leases |-> [i \in 1..LeaseCount |-> 0], ops |-> [i \in 1..AccessCount |-> 0]]
    /\ region = NoRegion
    /\ bound = FALSE
    /\ freeAt = 0
    /\ view = NoView
    /\ stored = [b \in 1..BackingLimit |-> {}]

Leases(m) == {i \in 1..LeaseCount : m.leases[i] # NoLease}
Ops(m) == {i \in 1..AccessCount : m.ops[i] # NoOp}
InputOf(o) == IF o.command = "Write" THEN Cardinality(o.range) ELSE 0

\* terminal: the outcome is published once, with no data unless it succeeded.
Terminated(m, i, failure, disposition) ==
    IF m.ops[i].terminal THEN m
    ELSE [m EXCEPT !.ops[i].terminal = TRUE, !.ops[i].failure = failure,
                   !.ops[i].disposition = disposition, !.input = @ - InputOf(m.ops[i])]
TerminatedAll(m, S, failure) ==
    FoldSet(LAMBDA i, n : Terminated(n, i, failure, "NotCommitted"), m, S)

Collected(m) ==
    [m EXCEPT !.ops = [i \in 1..AccessCount |->
        IF @[i] # NoOp /\ @[i].terminal /\ @[i].pin = 0 /\ @[i].released THEN NoOp ELSE @[i]]]

\* change: leases of the range end, and accesses that the policy does not let
\* finish.
Hit(m, range) == {i \in Ops(m) : /\ m.ops[i].range \cap range # {}
                                 /\ ~m.ops[i].terminal
                                 /\ ~m.ops[i].admitted \/ region.policy = "CancelBeforeCommit"}
Changed(m, range) ==
    LET ended == [m EXCEPT !.leases = [i \in 1..LeaseCount |->
                    IF @[i] # NoLease /\ @[i].range \cap range # {}
                    THEN [@[i] EXCEPT !.valid = FALSE] ELSE @[i]]]
    IN Collected(TerminatedAll(ended, Hit(m, range), "Invalidated"))

----------------------------------------------------------------------------
(* Calls, made directly or in a segment *)

\* Every call counts as one, also when it is refused, and overtakes the view.
Called(m) ==
    /\ manager' = m
    /\ view' = [view EXCEPT !.current = FALSE]
    /\ UNCHANGED <<freeAt, stored, resourceVars>>

\* A segment of time t may work on a view when no earlier event is due.
EventTime(o) == IF o.admitted THEN o.finish ELSE o.arrival
Waiting(m) == {i \in Ops(m) : ~m.ops[i].terminal \/ m.ops[i].pin # 0}
NextReady(m) == {EventTime(m.ops[i]) : i \in Waiting(m)} \cup {c.time : c \in m.changes}
OpenView(t) ==
    /\ ~view.open
    /\ t >= manager.now
    /\ \A e \in NextReady(manager) : t <= e
    /\ view' = [open |-> TRUE, current |-> TRUE, manager |-> [manager EXCEPT !.now = t]]
    /\ UNCHANGED <<manager, identities, region, bound, freeAt, stored, resourceVars>>

\* The manager that a call of a segment, or a direct call, finds.
Seen(staged) == IF staged THEN view.manager ELSE manager
Returns(staged, m) ==
    IF staged THEN /\ view' = [view EXCEPT !.manager = m]
                   /\ UNCHANGED <<manager, freeAt, stored, resourceVars>>
              ELSE Called(m)

Request(staged, range, permission) ==
    LET m == Seen(staged)
        free == {i \in (1..LeaseCount) \ Leases(m) : identities.leases[i] < AccessGenerations}
        i == Min(free)
    IN /\ region.backing # 0
       /\ free # {}
       /\ identities' = [identities EXCEPT !.leases[i] = @ + 1]
       /\ Returns(staged, [m EXCEPT !.leases[i] =
            [generation |-> identities.leases[i] + 1, range |-> range, permission |-> permission,
             backing |-> region.backing, valid |-> TRUE]])
       /\ UNCHANGED <<region, bound>>

Begin(staged, l, command, range, arrival) ==
    LET m == Seen(staged)
        free == {i \in (1..AccessCount) \ Ops(m) : identities.ops[i] < AccessGenerations}
        i == Min(free)
        op == [generation |-> identities.ops[i] + 1, lease |-> <<l, m.leases[l].generation>>,
               command |-> command, range |-> range, arrival |-> arrival,
               sequence |-> m.sequence + 1, admitted |-> FALSE, finish |-> 0, pin |-> 0,
               ticket |-> {}, settled |-> FALSE, terminal |-> FALSE, failure |-> "None",
               disposition |-> "NotCommitted", released |-> FALSE]
    IN /\ m.leases[l].valid
       /\ command \in m.leases[l].permission
       /\ arrival >= m.now
       /\ range \subseteq m.leases[l].range
       /\ free # {}
       /\ InputOf(op) <= InputLimit - m.input
       /\ m.sequence < SequenceLimit
       /\ identities' = [identities EXCEPT !.ops[i] = @ + 1]
       /\ Returns(staged, [m EXCEPT !.ops[i] = op, !.sequence = @ + 1, !.input = @ + InputOf(op)])
       /\ UNCHANGED <<region, bound>>

Invalidate(staged, range, time) ==
    LET m == Seen(staged)
    IN /\ region.backing # 0
       /\ time >= m.now
       /\ Cardinality(m.changes) < ChangeLimit
       /\ m.sequence < SequenceLimit
       /\ Returns(staged, [m EXCEPT !.sequence = @ + 1, !.changes = @ \cup
            {[range |-> range, time |-> time, sequence |-> m.sequence + 1]}])
       /\ UNCHANGED <<identities, region, bound>>

ReleaseLease(staged, l) ==
    LET m == Seen(staged)
        orphans == {i \in Ops(m) : /\ m.ops[i].lease = <<l, m.leases[l].generation>>
                                   /\ ~m.ops[i].admitted /\ ~m.ops[i].terminal}
    IN /\ Returns(staged, Collected([TerminatedAll(m, orphans, "Invalidated")
                                     EXCEPT !.leases[l] = NoLease]))
       /\ UNCHANGED <<identities, region, bound>>

\* The consumer of the result is released before or after the access ends.
ReleaseResult(staged, i) ==
    LET m == Seen(staged)
    IN /\ ~m.ops[i].released
       /\ Returns(staged, Collected([m EXCEPT !.ops[i].released = TRUE]))
       /\ UNCHANGED <<identities, region, bound>>

CancelAccess(i) ==
    /\ Called(Collected(Terminated(manager, i, "Cancelled", "NotCommitted")))
    /\ UNCHANGED <<identities, region, bound>>

ResetManager ==
    /\ Called(Collected(TerminatedAll(
            [manager EXCEPT !.leases = [i \in 1..LeaseCount |->
                IF @[i] = NoLease THEN NoLease ELSE [@[i] EXCEPT !.valid = FALSE]]],
            Ops(manager), "Reset")))
    /\ UNCHANGED <<identities, region, bound>>

ReplaceBacking(b) ==
    /\ region.backing # 0
    /\ b > region.backing
    /\ Called(Changed(manager, Addresses))
    /\ region' = [region EXCEPT !.backing = b]
    /\ UNCHANGED <<identities, bound>>

AddRegion(policy) ==
    /\ region.backing = 0
    /\ Called(manager)
    /\ region' = [backing |-> 1, policy |-> policy]
    /\ UNCHANGED <<identities, bound>>

BindResource ==
    /\ Ops(manager) = {}
    /\ ~bound
    /\ Called(manager)
    /\ bound' = TRUE
    /\ UNCHANGED <<identities, region>>

RefusedCall ==
    /\ view.current
    /\ Called(manager)
    /\ UNCHANGED <<identities, region, bound>>

CommitView ==
    /\ view.open /\ view.current
    /\ manager' = view.manager
    /\ view' = NoView
    /\ UNCHANGED <<identities, region, bound, freeAt, stored, resourceVars>>

DiscardView ==
    /\ view.open
    /\ view' = NoView
    /\ UNCHANGED <<manager, identities, region, bound, freeAt, stored, resourceVars>>

----------------------------------------------------------------------------
(* advance: the events that are due, in order.  w is what an event may     *)
(* change: the manager m, its own resource free, the bound resource cell,  *)
(* the contents data.                                                      *)

\* The access of slot i arrives.
Admitted(w, i, fails) ==
    LET o == w.m.ops[i]
        l == w.m.leases[o.lease[1]]
        now == w.m.now
        service == Cardinality(o.range)
        end(failure) == [w EXCEPT !.m = Terminated(@, i, failure, "NotCommitted")]
        pinned(finish, ticket) == [w EXCEPT !.m.ops[i] =
            [@ EXCEPT !.admitted = TRUE, !.finish = finish, !.pin = region.backing, !.ticket = ticket]]
        grant == Reserved(w.cell, 1, now, now, service)
        slot == Min(FreeRecords(w.cell))
        own == Max({now, w.free}) + service
    IN IF l = NoLease \/ l.generation # o.lease[2] \/ ~l.valid THEN end("Invalidated")
       ELSE IF fails THEN end("ServiceFailure")
       ELSE IF ~bound THEN [pinned(own, {}) EXCEPT !.free = own]
       ELSE IF ~CanReserveAt(w.cell, now, now) THEN end("ServiceFailure")
       ELSE [pinned(grant.records[slot].finish, Ticket(grant, slot)) EXCEPT !.cell = grant]

\* Mutant of Finished: an access that has ended still takes effect.
FinishedLate(w, i) ==
    LET o == w.m.ops[i]
        write == o.command = "Write"
        effective == ~(bound /\ w.cell.records[o.ticket.slot].cancelled)
        ended == IF effective
                 THEN Terminated(w.m, i, "None", IF write THEN "WriteCommitted" ELSE "ReadObserved")
                 ELSE Terminated(w.m, i, "Cancelled", "NotCommitted")
    IN [w EXCEPT !.m = [ended EXCEPT !.ops[i].settled = TRUE, !.ops[i].pin = 0],
                 !.cell = IF bound THEN CompletedTicket(@, o.ticket) ELSE @,
                 !.data[o.pin] = IF effective /\ write THEN @ \cup {<<i, o.generation>>} ELSE @]

\* The access of slot i is due: it takes effect unless it has ended already
\* or its ticket was cancelled, and gives up what it holds.
Finished(w, i) ==
    LET o == w.m.ops[i]
        write == o.command = "Write"
        effective == ~o.terminal /\ ~(bound /\ w.cell.records[o.ticket.slot].cancelled)
        ended == IF effective
                 THEN Terminated(w.m, i, "None", IF write THEN "WriteCommitted" ELSE "ReadObserved")
                 ELSE Terminated(w.m, i, "Cancelled", "NotCommitted")
    IN [w EXCEPT !.m = [ended EXCEPT !.ops[i].settled = TRUE, !.ops[i].pin = 0],
                 !.cell = IF bound THEN CompletedTicket(@, o.ticket) ELSE @,
                 !.data[o.pin] = IF effective /\ write THEN @ \cup {<<i, o.generation>>} ELSE @]

Due(m, until) ==
    {[time |-> EventTime(m.ops[i]), sequence |-> m.ops[i].sequence, op |-> i] :
        i \in {j \in Waiting(m) : EventTime(m.ops[j]) <= until}}
    \cup {[time |-> c.time, sequence |-> c.sequence, op |-> 0] :
        c \in {x \in m.changes : x.time <= until}}
FirstDue(m, until) ==
    CHOOSE e \in Due(m, until) : \A f \in Due(m, until) :
        e.time < f.time \/ (e.time = f.time /\ e.sequence <= f.sequence)

Processed(w, e, failing) ==
    LET at == [w EXCEPT !.m.now = e.time]
        change == CHOOSE c \in w.m.changes : c.sequence = e.sequence
        next == IF e.op = 0
                THEN [at EXCEPT !.m = Changed([@ EXCEPT !.changes = @ \ {change}], change.range)]
                ELSE IF w.m.ops[e.op].admitted THEN Finished(at, e.op)
                ELSE Admitted(at, e.op, e.op \in failing)
    IN [next EXCEPT !.m = Collected(@)]

RECURSIVE Advanced(_, _, _)
Advanced(w, until, failing) ==
    IF Due(w.m, until) = {} THEN [w EXCEPT !.m.now = until]
    ELSE Advanced(Processed(w, FirstDue(w.m, until), failing), until, failing)

Applies(w) ==
    /\ manager' = w.m
    /\ view' = [view EXCEPT !.current = FALSE]
    /\ freeAt' = w.free
    /\ stored' = w.data
    /\ resource' = w.cell
    /\ granted' = granted \cup Promises(w.cell, resource)
    /\ copyOf' = IF w.cell = resource THEN copyOf
                 ELSE [s \in ResourceSegments |->
                        [copyOf[s] EXCEPT !.current = @ /\ ~copyOf[s].written]]
    /\ UNCHANGED <<identities, region, bound, readyEvents, resourceTime>>

World == [m |-> manager, free |-> freeAt, cell |-> resource, data |-> stored]

\* The service callback fails for the accesses of failing.
Advance(until, failing) ==
    /\ until >= manager.now
    /\ Applies(Advanced(World, until, failing))

AdvanceOne(failing) ==
    /\ NextReady(manager) # {}
    /\ LET until == Min(NextReady(manager))
       IN Applies([Processed(World, FirstDue(manager, until), failing) EXCEPT !.m.now = until])

Modes == IF view.open /\ view.current THEN BOOLEAN ELSE {FALSE}

ManagedNext ==
    \/ \E staged \in Modes :
        \/ \E range \in Ranges, p \in (SUBSET Commands) \ {{}} : Request(staged, range, p)
        \/ \E l \in Leases(Seen(staged)) :
            \/ ReleaseLease(staged, l)
            \/ \E c \in Commands, range \in Ranges, t \in 0..ManagedClock :
                 Begin(staged, l, c, range, t)
        \/ \E range \in Ranges, t \in 0..ManagedClock : Invalidate(staged, range, t)
        \/ \E i \in Ops(Seen(staged)) : ReleaseResult(staged, i)
    \/ \E i \in Ops(manager) : CancelAccess(i)
    \/ ResetManager
    \/ \E b \in 1..BackingLimit : ReplaceBacking(b)
    \/ \E p \in {"AllowToComplete", "CancelBeforeCommit"} : AddRegion(p)
    \/ BindResource
    \/ RefusedCall
    \/ \E t \in 0..ManagedClock : OpenView(t)
    \/ CommitView
    \/ DiscardView
    \/ \E t \in 0..ManagedClock, failing \in SUBSET Waiting(manager) :
        Advance(t, failing)
    \/ \E failing \in SUBSET Waiting(manager) : AdvanceOne(failing)

\* An access writes its backing exactly when its outcome says so, once, and
\* never after it was cancelled, reset or invalidated; it holds its backing
\* and its reservation from admission to its finish, whatever ended it in
\* between, and nothing else holds them.  Where a change of the region cancels
\* accesses, none of them goes on with a backing that was replaced; no event
\* is left behind the time, and the input that is counted is that of the
\* accesses that have not ended.
ManagedExact ==
    LET m == manager
    IN /\ \A e \in NextReady(m) : e >= m.now
       /\ m.input = FoldSet(LAMBDA i, n : n + InputOf(m.ops[i]), 0,
                            {i \in Ops(m) : ~m.ops[i].terminal})
       /\ \A i \in Ops(m) : LET o == m.ops[i] IN
            /\ (o.disposition = "WriteCommitted")
                <=> \E b \in 1..BackingLimit : <<i, o.generation>> \in stored[b]
            /\ (o.pin # 0) <=> (o.admitted /\ ~o.settled)
            /\ (o.pin # 0 /\ ~o.terminal /\ region.policy = "CancelBeforeCommit")
                => o.pin = region.backing
            /\ (bound /\ o.pin # 0) => o.ticket \in Tickets(resource)
       /\ \A i \in Leases(m) : m.leases[i].valid => m.leases[i].backing = region.backing
       /\ \A b, c \in 1..BackingLimit : b # c => stored[b] \cap stored[c] = {}

=============================================================================
