------------------------------ MODULE TaskPool ------------------------------
(***************************************************************************)
(* Task pools and the services that drive them (runtime/src/task_pool.cpp, *)
(* runtime/src/structured_services.cpp).  A pool admits tasks to a bounded *)
(* number of frames; who finds no frame queues a task or holds a ticket    *)
(* that schedule() grants in order.  Every task, ticket and result         *)
(* consumer is owned by a cancellation scope.                              *)
(*                                                                         *)
(* Slots are interchangeable, so a task or ticket is named by its pool and *)
(* generation alone, and the process that runs a task by the task.  Scopes *)
(* are kept flat: CancelScope has the tree.  Arguments, outcomes and       *)
(* reasons are left out.  A call that fails is a stuttering step: the      *)
(* services roll back to their checkpoint, and the direct calls that fail  *)
(* after schedule() are Poll steps.                                        *)
(***************************************************************************)
EXTENDS Integers, Sequences, FiniteSets, SequencesExt, FiniteSetsExt, Functions, TLC

CONSTANTS
    Pools, TaskScopes,
    MaxInstances, TaskCapacity, ResultCapacity, QueueDepth, WaiterLimit,
    ResultSlots,    \* capacity of the ResultStore that the pools share
    PoolEntryLimit, \* entries_ of the CancelScopeStore
    MaxHandles      \* bound on the handles that a pool allocates

VARIABLES
    world,      \* pools, results, scopes and bindings, changed together
    hosted,     \* does the host call the pools directly, or through the services?
    overflow,   \* desc_.overflow
    dropped     \* history: consumers whose ownership a ScopeCancel lost

poolVars == <<world, hosted, overflow, dropped>>

NoTask == <<0, 0>>      \* as a waiter: a process that runs no task

EmptyPool == [tasks |-> <<>>, tickets |-> <<>>, reserved |-> {}, queue |-> <<>>,
              pending |-> <<>>, frames |-> 0, grants |-> 0, next |-> 1]

PoolInit ==
    /\ world = [pool |-> [p \in Pools |-> EmptyPool],
                producers |-> {}, consumers |-> {},
                scopes |-> [s \in TaskScopes |-> [state |-> "Open", entries |-> <<>>]],
                programs |-> {}, processes |-> {}, starts |-> {}]
    /\ hosted \in BOOLEAN
    /\ overflow \in {"AwaitSlot", "Queue"}
    /\ dropped = {}

-----------------------------------------------------------------------------
(* Looking things up *)

Tasks(w, p) == DOMAIN w.pool[p].tasks
Task(w, h) == w.pool[h[1]].tasks[h]
Used(w, h) == h[1] \in Pools /\ h \in Tasks(w, h[1])
Ticket(w, k) == w.pool[k[1]].tickets[k]
Tickets(w, p) == DOMAIN w.pool[p].tickets
Occupied(w) == w.producers \cup w.consumers
Holders(w, p) == {h \in Tasks(w, p) : Task(w, h).state = "Runnable"}
IsOpen(w, s) == w.scopes[s].state = "Open"
Entries(w, s) == w.scopes[s].entries

Own(w, xs, s) == [w EXCEPT !.scopes[s].entries = @ \o xs]
\* Mutant of Disown: completed things stay in the scope.
DisownNothing(w, x, s) == w

Disown(w, x, s) == [w EXCEPT !.scopes[s].entries = SelectSeq(@, LAMBDA y : y # x)]
DisownIfOpen(w, x, s) == IF IsOpen(w, s) THEN Disown(w, x, s) ELSE w

ReleaseConsumer(w, h) == [w EXCEPT !.consumers = @ \ {h}]
ReleaseProducer(w, h) == [w EXCEPT !.producers = @ \ {h}]
Reserve(w, hs) == [w EXCEPT !.producers = @ \cup hs, !.consumers = @ \cup hs]

-----------------------------------------------------------------------------
(* Scheduling *)

Reap(w, p) ==
    LET dead == {h \in Tasks(w, p) : Task(w, h).released /\ h \notin Occupied(w)}
    IN [w EXCEPT !.pool[p].tasks = Restrict(@, DOMAIN @ \ dead)]

\* Frames go to queued tasks first come, first served.
Promote(w, p) ==
    LET q == w.pool[p]
        n == Min({Len(q.queue), MaxInstances - q.frames - q.grants})
        up == {q.queue[j] : j \in 1..n}
    IN [w EXCEPT !.pool[p].queue = SubSeq(@, n + 1, Len(@)),
                 !.pool[p].frames = @ + n,
                 !.pool[p].tasks = [h \in DOMAIN @ |->
                     IF h \in up THEN [@[h] EXCEPT !.state = "Runnable"] ELSE @[h]]]

Room(w, p) ==
    LET q == w.pool[p]
        used == Cardinality(Tasks(w, p))
    IN Min({Len(q.pending),
            MaxInstances - q.frames - q.grants,
            ResultCapacity - used - q.grants,
            TaskCapacity - used - Cardinality(q.reserved),
            ResultSlots - Cardinality(Occupied(w)),
            MaxHandles + 1 - q.next})

\* The pending tickets that get a frame: a prefix, cut at the first one whose
\* scope cannot take the consumer of the reserved result.
Granted(w, p) ==
    LET q == w.pool[p]
        ScopeOf(j) == Ticket(w, q.pending[j]).scope
        Fits(j) == /\ IsOpen(w, ScopeOf(j))
                   /\ Len(Entries(w, ScopeOf(j)))
                        + Cardinality({i \in 1..j : ScopeOf(i) = ScopeOf(j)}) <= PoolEntryLimit
    IN Max({n \in 0..Max({0, Room(w, p)}) : \A j \in 1..n : Fits(j)})

Grant(w, p) ==
    LET q == w.pool[p]
        n == Granted(w, p)
        TaskOf(j) == <<p, q.next + j - 1>>
        at(k) == CHOOSE j \in 1..n : q.pending[j] = k
        lucky == {q.pending[j] : j \in 1..n}
        held == [w EXCEPT
            !.pool[p].pending = SubSeq(@, n + 1, Len(@)),
            !.pool[p].grants = @ + n,
            !.pool[p].next = @ + n,
            !.pool[p].reserved = @ \cup {TaskOf(j) : j \in 1..n},
            !.pool[p].tickets = [k \in DOMAIN @ |->
                IF k \in lucky
                THEN [@[k] EXCEPT !.state = "Granted", !.task = TaskOf(at(k)),
                                  !.result = TaskOf(at(k)), !.consumerReleased = FALSE]
                ELSE @[k]]]
    IN FoldLeft(LAMBDA v, j : Own(v, <<<<"Consumer", TaskOf(j)>>>>, Ticket(w, q.pending[j]).scope),
                Reserve(held, {TaskOf(j) : j \in 1..n}),
                [j \in 1..n |-> j])

Schedule(w, p) == Grant(Promote(Reap(w, p), p), p)

-----------------------------------------------------------------------------
(* Operations of the pool *)

Admits(w, p, s, queued) ==
    LET q == w.pool[p]
        used == Cardinality(Tasks(w, p))
    IN /\ IsOpen(w, s)
       /\ used + q.grants < ResultCapacity
       /\ IF queued THEN Len(q.queue) < QueueDepth ELSE q.frames + q.grants < MaxInstances
       /\ used + Cardinality(q.reserved) < TaskCapacity
       /\ q.next <= MaxHandles
       /\ Cardinality(Occupied(w)) < ResultSlots
       /\ Len(Entries(w, s)) + 2 <= PoolEntryLimit

NewTask(s, state) == [scope |-> s, state |-> state, bound |-> FALSE, released |-> FALSE]

Spawned(w, p, s, queued) ==
    LET h == <<p, w.pool[p].next>>
    IN Own(Reserve([w EXCEPT
                    !.pool[p].next = @ + 1,
                    !.pool[p].tasks = @ @@ (h :> NewTask(s, IF queued THEN "Queued" ELSE "Runnable")),
                    !.pool[p].queue = IF queued THEN Append(@, h) ELSE @,
                    !.pool[p].frames = IF queued THEN @ ELSE @ + 1], {h}),
           <<<<"Task", h>>, <<"Consumer", h>>>>, s)

\* Mutant of Completed: a queued task gives back a frame that it never had.
CompletedRunning(w, h, state) ==
    LET p == h[1]
        t == Task(w, h)
        done == [ReleaseProducer(w, h) EXCEPT
                    !.pool[p].queue = SelectSeq(@, LAMBDA g : g # h),
                    !.pool[p].frames = @ - 1,
                    !.pool[p].tasks[h] = [t EXCEPT !.state = state, !.released = TRUE]]
    IN Schedule(DisownIfOpen(done, <<"Task", h>>, t.scope), p)

\* complete: the outcome is published and the frame, or the place in the queue,
\* goes to the next one.
Completed(w, h, state) ==
    LET p == h[1]
        t == Task(w, h)
        done == [ReleaseProducer(w, h) EXCEPT
                    !.pool[p].queue = SelectSeq(@, LAMBDA g : g # h),
                    !.pool[p].frames = IF t.state = "Queued" THEN @ ELSE @ - 1,
                    !.pool[p].tasks[h] = [t EXCEPT !.state = state, !.released = TRUE]]
    IN Schedule(DisownIfOpen(done, <<"Task", h>>, t.scope), p)

Cancelled(w, h) == IF Task(w, h).released THEN w ELSE Completed(w, h, "Cancelled")

\* A granted ticket gives its frame and producer back.  The consumer is left to
\* the plan of a scope that is being cancelled, which has an action for it.
TicketCancelled(w, k) ==
    LET t == Ticket(w, k)
        p == k[1]
        planned == w.scopes[t.scope].state = "Cancelling"
        kept == IF planned THEN w
                ELSE ReleaseConsumer(DisownIfOpen(w, <<"Consumer", t.task>>, t.scope), t.task)
        back == IF t.state # "Granted" THEN w
                ELSE [ReleaseProducer(kept, t.task) EXCEPT
                        !.pool[p].grants = @ - 1,
                        !.pool[p].reserved = @ \ {t.task},
                        !.pool[p].tickets[k].task = NoTask,
                        !.pool[p].tickets[k].result =
                            IF planned /\ ~t.consumerReleased THEN @ ELSE NoTask]
    IN IF t.state = "Cancelled" THEN w
       ELSE Schedule([back EXCEPT !.pool[p].tickets[k].state = "Cancelled",
                                  !.pool[p].pending = SelectSeq(@, LAMBDA i : i # k)], p)

\* The tickets of scope s that still hold the reservation of h's result
Reserving(w, h, s) ==
    {k \in Tickets(w, h[1]) : Ticket(w, k).scope = s /\ Ticket(w, k).result = h}

\* execute_cancel_action releases a consumer for the task or ticket that has it.
ConsumerReleased(w, h, s) ==
    LET Freed(k) == LET t == Ticket(w, k)
                    IN [t EXCEPT !.consumerReleased = TRUE,
                                 !.result = IF t.state = "Granted" THEN h ELSE NoTask]
    IN IF Used(w, h) THEN ReleaseConsumer(w, h)
       ELSE [ReleaseConsumer(w, h) EXCEPT
                !.pool[h[1]].tickets = [k \in DOMAIN @ |->
                    IF k \in Reserving(w, h, s) THEN Freed(k) ELSE @[k]]]

\* Does execute_cancel_action succeed?
Applicable(w, x, s) ==
    LET h == x[2]
    IN CASE x[1] = "Task" -> Used(w, h)
         [] x[1] = "Ticket" -> /\ h \in Tickets(w, h[1])
                               /\ Ticket(w, h).state \in {"Pending", "Granted", "Cancelled"}
         [] OTHER -> h \in w.consumers /\ (Used(w, h) \/ Reserving(w, h, s) # {})

Executed(w, x, s) ==
    CASE x[1] = "Task" -> Cancelled(w, x[2])
      [] x[1] = "Ticket" -> TicketCancelled(w, x[2])
      [] OTHER -> ConsumerReleased(w, x[2], s)

-----------------------------------------------------------------------------
(* Bindings of the services: tasks get a process and a start event *)

Dispatch(w, p) ==
    LET ready == {h \in w.programs \ w.processes : h[1] = p /\ Task(w, h).state = "Runnable"}
    IN [w EXCEPT !.processes = @ \cup ready,
                 !.starts = @ \cup ready,
                 !.pool[p].tasks = [h \in DOMAIN @ |->
                     IF h \in ready THEN [@[h] EXCEPT !.bound = TRUE] ELSE @[h]]]

Unbound(w, hs) ==
    [w EXCEPT !.programs = @ \ hs, !.processes = @ \ hs, !.starts = @ \ hs]

Step(w) == world' = w /\ UNCHANGED <<hosted, overflow, dropped>>

\* TrySpawnProcess, SpawnProcess and SubmitTask, or the direct calls; a task is
\* queued only when no frame is left.
Spawn(p, s) ==
    LET w == Schedule(world, p)
        queued == overflow = "Queue" /\ w.pool[p].frames >= MaxInstances
        new == Spawned(w, p, s, queued)
        h == <<p, w.pool[p].next>>
    IN /\ Admits(w, p, s, queued)
       /\ Step(IF hosted THEN new ELSE Dispatch([new EXCEPT !.programs = @ \cup {h}], p))

\* start_task consumes the start event.
StartTask(h) ==
    /\ h \in world.starts
    /\ Step([world EXCEPT !.starts = @ \ {h}])

\* bind_execution by the host
BindExecution(h) ==
    /\ Used(world, h)
    /\ Task(world, h).state = "Runnable"
    /\ h \notin world.programs
    /\ Step([world EXCEPT !.pool[h[1]].tasks[h].bound = TRUE])

\* The pools on which a process waits for a slot
WaitsOn(w, process) ==
    {p \in Pools : \E k \in Tickets(w, p) : /\ Ticket(w, k).waiting
                                            /\ Ticket(w, k).state = "Pending"
                                            /\ Ticket(w, k).waiter = process}

\* A process that waits for a slot is suspended and cannot complete its task.
CompleteTask(h) ==
    /\ Used(world, h)
    /\ ~Task(world, h).released
    /\ Task(world, h).state = "Runnable"
    /\ WaitsOn(world, h) = {}
    /\ LET w == Completed(Unbound(world, {h}), h, "Completed")
       IN Step(IF hosted THEN w ELSE Dispatch(w, h[1]))

CancelTask(h) ==
    /\ Used(world, h)
    /\ ~Task(world, h).released
    /\ LET w == Completed(Unbound(world, {h}), h, "Cancelled")
       IN Step(IF hosted THEN w ELSE Dispatch(w, h[1]))

\* release_result by the task's creator; a plan keeps its entry.
ReleaseResult(h) ==
    LET w == ReleaseConsumer(world, h)
        s == Task(world, h).scope
    IN /\ Used(world, h)
       /\ h \in world.consumers
       /\ Step(Schedule(IF w.scopes[s].state = "Cancelling" THEN w
                        ELSE Disown(w, <<"Consumer", h>>, s), h[1]))

-----------------------------------------------------------------------------
(* Tickets *)

RequestSlot(p, s, waiter) ==
    LET q == world.pool[p]
        k == <<p, q.next>>
        new == [waiter |-> waiter, scope |-> s, state |-> "Pending", waiting |-> FALSE,
                consumerReleased |-> FALSE, task |-> NoTask, result |-> NoTask]
    IN /\ overflow = "AwaitSlot"
       /\ IsOpen(world, s)
       /\ waiter # NoTask => Used(world, waiter) /\ Task(world, waiter).bound
                                /\ Task(world, waiter).state = "Runnable"
                                /\ WaitsOn(world, waiter) = {}
       /\ Cardinality(Tickets(world, p)) < WaiterLimit
       /\ q.next <= MaxHandles
       /\ Len(Entries(world, s)) < PoolEntryLimit
       /\ Step(Schedule(Own([world EXCEPT
                                !.pool[p].next = @ + 1,
                                !.pool[p].tickets = @ @@ (k :> new),
                                !.pool[p].pending = Append(@, k)],
                             <<<<"Ticket", k>>>>, s), p))

\* spawn_reserved turns the ticket of an open scope into its task, ...
SpawnReserved(k) ==
    LET t == Ticket(world, k)
        p == k[1]
        owned == [world EXCEPT !.scopes[t.scope].entries =
                    [j \in DOMAIN @ |-> IF @[j] = <<"Ticket", k>> THEN <<"Task", t.task>> ELSE @[j]]]
    IN /\ t.state = "Granted"
       /\ IsOpen(world, t.scope)
       /\ Step(Schedule([owned EXCEPT
                    !.pool[p].reserved = @ \ {t.task},
                    !.pool[p].grants = @ - 1,
                    !.pool[p].frames = @ + 1,
                    !.pool[p].tasks = @ @@ (t.task :> NewTask(t.scope, "Runnable")),
                    !.pool[p].tickets[k] = [t EXCEPT !.state = "Consumed", !.task = NoTask,
                                                     !.result = NoTask]], p))

\* ... or gives everything back when the arguments do not fit.
SpawnReservedFails(k) ==
    LET t == Ticket(world, k)
        p == k[1]
        back == ReleaseProducer(ReleaseConsumer(
                    Disown(world, <<"Consumer", t.task>>, t.scope), t.task), t.task)
    IN /\ t.state = "Granted"
       /\ IsOpen(world, t.scope)
       /\ Step(Schedule([back EXCEPT
                    !.pool[p].reserved = @ \ {t.task},
                    !.pool[p].grants = @ - 1,
                    !.pool[p].tickets[k] = [t EXCEPT !.state = "Failed", !.task = NoTask,
                                                     !.result = NoTask]], p))

CancelTicket(k) ==
    /\ Ticket(world, k).state \in {"Pending", "Granted"}
    /\ Step(TicketCancelled(world, k))

ReleaseTicket(k) ==
    LET t == Ticket(world, k)
        w == IF t.state = "Consumed" THEN world
             ELSE DisownIfOpen(world, <<"Ticket", k>>, t.scope)
    IN /\ t.state \notin {"Pending", "Granted"}
       /\ t.result = NoTask
       /\ Step([w EXCEPT !.pool[k[1]].tickets = Restrict(@, DOMAIN @ \ {k})])

\* ticket_info, and a direct call that fails after schedule()
Poll(p) ==
    /\ hosted
    /\ Schedule(world, p) # world
    /\ Step(Schedule(world, p))

-----------------------------------------------------------------------------
(* Waiting for a slot.  A full pool stays blocked while every holder of one  *)
(* of its frames waits for a blocked pool; removing the others until nothing *)
(* changes leaves the closed knots.                                          *)

Full(w) == {p \in Pools : w.pool[p].frames >= MaxInstances /\ w.pool[p].grants = 0}

\* Mutant of Knots: only full pools that wait for themselves are seen.
KnotsAlone(w, process, target) ==
    {p \in Full(w) : \A h \in Holders(w, p) :
        Task(w, h).bound /\ p \in (IF h = process THEN {target} ELSE WaitsOn(w, h))}

\* TaskPoolDependencies::check, with the wait of process for target added
Knots(w, process, target) ==
    LET Stuck(K, h) == /\ Task(w, h).bound
                       /\ (IF h = process THEN {target} ELSE WaitsOn(w, h)) \cap K # {}
        blocked[n \in 0..Cardinality(Pools)] ==
            IF n = 0 THEN Full(w)
            ELSE LET K == blocked[n - 1] IN {p \in K : \A h \in Holders(w, p) : Stuck(K, h)}
    IN blocked[Cardinality(Pools)]

BeginSlotWait(k) ==
    LET t == Ticket(world, k)
    IN /\ t.state = "Pending"
       /\ ~t.waiting
       /\ WaitsOn(world, t.waiter) = {}
       /\ t.waiter # NoTask => Used(world, t.waiter) /\ Task(world, t.waiter).state = "Runnable"
       /\ k[1] \notin Knots(world, t.waiter, k[1])
       /\ Step([world EXCEPT !.pool[k[1]].tickets[k].waiting = TRUE])

-----------------------------------------------------------------------------
(* Cancelling a scope *)

Plan(w, s) == Entries(w, s)

\* The scope after its cancel(), and after its last action
Cancelling(w, s) == [w EXCEPT !.scopes[s].state = "Cancelling"]
Settled(w, s) == IF Entries(w, s) = <<>> THEN [w EXCEPT !.scopes[s].state = "Cancelled"] ELSE w

\* All actions in the order of the plan, as long as none fails
ExecuteAll(w, s) ==
    FoldLeft(LAMBDA v, x : IF v.ok /\ Applicable(v.w, x, s)
                           THEN [ok |-> TRUE, w |-> Executed(v.w, x, s)]
                           ELSE [v EXCEPT !.ok = FALSE],
             [ok |-> TRUE, w |-> w], Plan(w, s))

\* The ScopeCancel service.  The pool works on one copy of the scopes, the
\* plan's progress is kept in a later copy, and the later copy is applied last:
\* entries that schedule() added for other scopes are not in it.
ScopeCancel(s) ==
    LET w == Cancelling(world, s)
        end == ExecuteAll(w, s)
        cancelled == {x[2] : x \in {y \in ToSet(Plan(w, s)) : y[1] = "Task"}}
        later == [Unbound(end.w, cancelled) EXCEPT
                    !.scopes = [w.scopes EXCEPT ![s] = [state |-> "Cancelled", entries |-> <<>>]]]
    IN /\ ~hosted
       /\ IsOpen(world, s)
       /\ end.ok
       /\ world' = FoldSet(LAMBDA p, v : Dispatch(v, p), later, Pools)
       /\ dropped' = dropped \cup
            {h \in end.w.consumers : \E r \in TaskScopes :
                /\ <<"Consumer", h>> \in ToSet(Entries(end.w, r))
                /\ <<"Consumer", h>> \notin ToSet(Entries(w, r))}
       /\ UNCHANGED <<hosted, overflow>>

\* The host cancels a scope and executes the actions one by one, in any order.
HostCancel(s) ==
    /\ hosted
    /\ IsOpen(world, s)
    /\ Step(Settled(Cancelling(world, s), s))

HostApply(s, x) ==
    /\ hosted
    /\ world.scopes[s].state = "Cancelling"
    /\ Applicable(world, x, s)
    /\ Step(Settled(Disown(Executed(world, x, s), x, s), s))

-----------------------------------------------------------------------------
TaskStep ==
    \E p \in Pools :
        \/ \E s \in TaskScopes : Spawn(p, s)
        \/ \E h \in Tasks(world, p) : \/ StartTask(h) \/ BindExecution(h) \/ CompleteTask(h)
                                     \/ CancelTask(h) \/ ReleaseResult(h)

TicketStep ==
    \E p \in Pools :
        \/ \E s \in TaskScopes : \E r \in Pools : \E h \in Tasks(world, r) \cup {NoTask} :
                RequestSlot(p, s, h)
        \/ \E k \in Tickets(world, p) : \/ SpawnReserved(k) \/ SpawnReservedFails(k)
                                       \/ CancelTicket(k) \/ ReleaseTicket(k) \/ BeginSlotWait(k)
        \/ Poll(p)

PoolNext ==
    \/ TaskStep \/ TicketStep
    \/ \E s \in TaskScopes : \/ ScopeCancel(s) \/ HostCancel(s)
                             \/ \E x \in ToSet(Entries(world, s)) : HostApply(s, x)

PoolSpec == PoolInit /\ [][PoolNext]_poolVars

-----------------------------------------------------------------------------
(* Properties *)

\* frames_ and grants_ are exact however tasks end, queue_ and pending_ hold
\* exactly the queued tasks and the pending tickets in order of arrival, and
\* together they never exceed the frames and results of the pool.  A task that
\* the services admitted is started exactly when it has a frame, whoever freed
\* the frame: it has a process when it is runnable, none while it is queued,
\* and no binding outlives it.
CountersExact ==
    /\ world.starts \subseteq world.processes
    /\ world.processes \subseteq world.programs
    /\ \A h \in world.programs : /\ Used(world, h)
                                 /\ Task(world, h).state \in {"Queued", "Runnable"}
                                 /\ (h \in world.processes) = (Task(world, h).state = "Runnable")
    /\ \A p \in Pools :
        LET q == world.pool[p]
            granted == {k \in Tickets(world, p) : Ticket(world, k).state = "Granted"}
            Sorted(z) == \A i, j \in DOMAIN z : i < j => z[i][2] < z[j][2]
        IN /\ q.frames = Cardinality(Holders(world, p))
           /\ q.grants = Cardinality(granted)
           /\ q.reserved = {Ticket(world, k).task : k \in granted}
           /\ q.frames + q.grants <= MaxInstances
           /\ Cardinality(Tasks(world, p)) + q.grants <= ResultCapacity
           /\ ToSet(q.queue) = {h \in Tasks(world, p) : Task(world, h).state = "Queued"}
           /\ ToSet(q.pending) = {k \in Tickets(world, p) : Ticket(world, k).state = "Pending"}
           /\ Sorted(q.queue) /\ Sorted(q.pending)

Owners(x) == {s \in TaskScopes : x \in ToSet(Entries(world, s))}

\* Everything that must be cleaned up is owned by its scope until it ends, so
\* that nothing outlives a cancelled scope; and an open scope owns nothing that
\* has ended.  Consumers that a ScopeCancel dropped are the exception.
OwnedWhileLive ==
    /\ \A p \in Pools :
        /\ \A h \in Tasks(world, p) : ~Task(world, h).released =>
                Owners(<<"Task", h>>) = {Task(world, h).scope}
        /\ \A k \in Tickets(world, p) : Ticket(world, k).state \in {"Pending", "Granted"} =>
                Owners(<<"Ticket", k>>) = {Ticket(world, k).scope}
    /\ \A h \in world.consumers \ dropped : Owners(<<"Consumer", h>>) # {}
    /\ \A s \in TaskScopes : IsOpen(world, s) => \A x \in ToSet(Entries(world, s)) :
        CASE x[1] = "Task" -> Used(world, x[2]) /\ ~Task(world, x[2]).released
          [] x[1] = "Ticket" -> x[2] \in Tickets(world, x[2][1])
          [] OTHER -> x[2] \in world.consumers

\* Cancelling a scope executes its whole plan, "including queued tasks and the
\* producer/consumer capabilities independently owned there"
\* (tests/cpp/test_structured_services.cpp): so every result consumer that a
\* pool creates stays owned by a scope until it is released.
ConsumersOwned == \A h \in world.consumers : Owners(<<"Consumer", h>>) # {}

\* begin_slot_wait never lets processes wait for each other's frames: no set of
\* full pools has all of its frames held by processes that wait inside the set.
NoClosedKnot ==
    \A K \in SUBSET Pools \ {{}} :
        \E p \in K : \/ p \notin Full(world)
                     \/ \E h \in Holders(world, p) :
                            ~Task(world, h).bound \/ WaitsOn(world, h) \cap K = {}

=============================================================================
