---------------------------- MODULE BlockingCalls ----------------------------
(***************************************************************************)
(* Blocking calls of the runtime (runtime/src/runtime.cpp) and the pump    *)
(* that serves them (EventPump in systemc/src/adapter.cpp).                *)
(*                                                                         *)
(* A host thread submits a request and sleeps until its completion         *)
(* callback is called.  The request becomes an event, the pump hands it to *)
(* the blocking handler, the handler's answer becomes a second event, and  *)
(* the pump calls the callback.  Each request also owes a drain            *)
(* responsibility, so that resets wait for it or cancel it; requests       *)
(* submitted while a reset drains are deferred until a pump promotes them. *)
(*                                                                         *)
(* The module composes the event calendar, which EventQueue implements,    *)
(* and the operators of DrainStore, for one instance.  Everything runs in  *)
(* one thread, but handlers and callbacks call the runtime: any call may   *)
(* happen between two members of a batch.  Payloads are left out.          *)
(***************************************************************************)
EXTENDS Integers, SequencesExt

CONSTANTS
    MaxBusiness,        \* value at which next_business_ is exhausted
    BlockingCapacity,   \* config_.blocking_capacity
    EventCapacity,      \* config_.event_capacity
    DrainCapacity,      \* config_.drain_capacity
    Budget,             \* members of a batch that one pump dispatches
    MaxEvents,          \* config_.max_events
    MaxTime, MaxTurn,   \* greatest tick and turn
    MaxReset,           \* bound on the number of resets
    Prompt              \* the host answers and cancels within the tick of the
                        \* last pump; otherwise at any time

ASSUME BlockingCallsAssumption ==
    /\ {MaxTime, MaxTurn, MaxEvents} \subseteq Nat
    /\ {MaxBusiness, BlockingCapacity, EventCapacity, DrainCapacity, Budget, MaxReset}
          \subseteq Nat \ {0}
    /\ Prompt \in BOOLEAN

VARIABLES
    waiting, open, running, frontier,   \* events_, as an event calendar
    batchSize,      \* members of the open batch, run or not: their slots are taken
    nextSequence,   \* number of the next event
    blocking,       \* blocking_
    blockingEvents, \* blocking_events_, by the number of the event
    nextBusiness,   \* next_business_
    unwound,        \* history: tokens of the callers whose thread is gone
    handed,         \* history: tokens given to the handler
    answers,        \* history: how often each accepted caller was called back
    store,          \* drains_
    pump,           \* pumping_, the members left in the slice, members_complete
    now,            \* now_
    clock,          \* sc_time_stamp
    armed,          \* EventPump::armed_
    stopped,        \* stopped_
    eventCount      \* event_count_

calendarVars == <<waiting, open, running, frontier, batchSize>>
requestVars == <<nextSequence, blocking, blockingEvents>>
hostVars == <<nextBusiness, unwound, now, clock>>
vars == <<waiting, open, running, frontier, batchSize, nextSequence, blocking,
          blockingEvents, nextBusiness, unwound, handed, answers, store, pump,
          now, clock, armed, stopped, eventCount>>

Tokens == 1..MaxBusiness
None == -1                          \* an empty std::optional<WakePoint>
Instance == "instance"
Idle == [active |-> FALSE, left |-> 0, complete |-> FALSE]
Input == 1                          \* EventStage::Input
Output == 2                         \* EventStage::Output
Keys == [time : 0..MaxTime, turn : 0..MaxTurn, rank : {Input, Output},
         sequence : 1..(3 * MaxBusiness)]

Calendar == INSTANCE EventCalendar WITH revoked <- {}

D == INSTANCE DrainStore WITH
        Transactions <- Tokens, Hops <- {}, Instances <- {Instance},
        Owner <- [t \in Tokens |-> t], Capacity <- DrainCapacity, HopLimit <- 0,
        MaxEpoch <- MaxReset, MaxReceipt <- 1, MaxViews <- 0, Pins <- {},
        SetFlags <- {}, views <- <<>>, editing <- FALSE,
        issued <- [receipt |-> 0, reset |-> 0]

Init ==
    /\ Calendar!CalendarInit
    /\ batchSize = 0
    /\ nextSequence = 1
    /\ blocking = <<>>
    /\ blockingEvents = <<>>
    /\ nextBusiness = 1
    /\ unwound = {}
    /\ handed = {}
    /\ answers = <<>>
    /\ store = [records |-> <<>>,
                instances |-> [i \in {Instance} |->
                    [epoch |-> 0, draining |-> FALSE, cohort |-> {}]],
                receipts |-> <<>>, nextReceipt |-> 1, nextReset |-> 1,
                known |-> {}, knownHops |-> {}]
    /\ pump = Idle
    /\ now = 0
    /\ clock = 0
    /\ armed = None
    /\ stopped = FALSE
    /\ eventCount = 0

-----------------------------------------------------------------------------
(* Wakeups and the end of the runtime *)

\* EventQueue::next_wakeup
NextWakeup == IF open THEN frontier.time
              ELSE IF waiting = {} THEN None
              ELSE Min({k.time : k \in waiting})

\* EventPump::arm cannot notify for a tick that is over.
Past(tick) == tick < clock


\* The outermost call leaves the runtime and arms the host.  EventPump::arm
\* throws when the wakeup lies in the past; reconcile then marks the runtime
\* stopped and calls nobody back.
Reconcile(stop) ==
    IF pump'.active THEN stopped' = stop /\ UNCHANGED armed
    ELSE IF stop \/ NextWakeup' = None THEN stopped' = stop /\ armed' = None
    ELSE IF Past(NextWakeup') THEN stopped' = TRUE /\ armed' = None
    ELSE stopped' = FALSE /\ armed' = NextWakeup'

With(f, x, y) == [z \in DOMAIN f \cup {x} |-> IF z = x THEN y ELSE f[z]]
Without(f, x) == Restrict(f, DOMAIN f \ {x})

\* The callbacks of the requests in b that have not been called yet
Uncalled(b) == {t \in DOMAIN b : b[t].callback}

\* Mutant of Silenced: stop does not take the callbacks away.
SilencedNot(b) == b

\* Runtime::stop calls them all, with an error.
Silenced(b) == [t \in DOMAIN b |-> [b[t] EXCEPT !.callback = FALSE]]
Told(a, b) == [t \in DOMAIN a |-> IF t \in Uncalled(b) THEN a[t] + 1 ELSE a[t]]

\* The requests become b and the answers a, then the runtime stops if it fails.
Settle(b, a, fails) ==
    /\ blocking' = IF fails THEN Silenced(b) ELSE b
    /\ answers' = IF fails THEN Told(a, b) ELSE a

-----------------------------------------------------------------------------
(* Events of requests *)

\* EventQueue::successor, when it does not fail
Successor(tick) == [time |-> tick,
                    turn |-> IF tick = frontier.time THEN frontier.turn + 1 ELSE 0]

Schedulable(tick) == /\ frontier.time <= tick
                     /\ tick = frontier.time => frontier.turn < MaxTurn

\* A free slot is left for n more events.
Room(n) == Cardinality(waiting) + batchSize + n <= EventCapacity

Key(tick, stage, number) ==
    [time |-> Successor(tick).time, turn |-> Successor(tick).turn, rank |-> stage,
     sequence |-> number]

Draining == store.instances[Instance].draining
Epoch == store.instances[Instance].epoch
Cancelled(t) == t \in D!Tracked(store) /\ store.records[t].cancelled

\* Runtime::complete_blocking can queue its event
Completable == Room(1) /\ Schedulable(now)

\* Runtime::complete_blocking up to its event
QueueCompletion(t) ==
    /\ waiting' = waiting \cup {Key(now, Output, nextSequence)}
    /\ blockingEvents' = With(blockingEvents, nextSequence, [token |-> t, completion |-> TRUE])
    /\ nextSequence' = nextSequence + 1

Answered(t) == [blocking EXCEPT ![t].response = TRUE]

-----------------------------------------------------------------------------
(* Calls of the host *)

Submittable(arrival) ==
    /\ ~stopped
    /\ Cardinality(DOMAIN blocking) < BlockingCapacity
    /\ arrival >= now
    /\ nextBusiness <= MaxBusiness

\* Neither the event nor the responsibility can be refused any more
Acceptable(arrival) == /\ Draining \/ (Room(1) /\ Schedulable(arrival))
                       /\ D!Room(store, nextBusiness, {})

\* submit_blocking: the request gets an event, or is deferred by a reset
Submit(arrival) ==
    LET t == nextBusiness
    IN /\ Submittable(arrival)
       /\ Acceptable(arrival)
       /\ nextBusiness' = t + 1
       /\ blocking' = With(blocking, t, [arrival |-> arrival, epoch |-> Epoch,
                                         deferred |-> Draining, response |-> FALSE,
                                         callback |-> TRUE])
       /\ answers' = With(answers, t, 0)
       /\ store' = D!WithRecord(store, t, D!NewRecord(Instance, Epoch, <<>>, Draining))
       /\ IF Draining
          THEN UNCHANGED <<waiting, blockingEvents, nextSequence>>
          ELSE /\ waiting' = waiting \cup {Key(arrival, Input, nextSequence)}
               /\ blockingEvents' = With(blockingEvents, nextSequence,
                                         [token |-> t, completion |-> FALSE])
               /\ nextSequence' = nextSequence + 1
       /\ UNCHANGED <<open, running, frontier, batchSize, unwound, handed, pump, now,
                      clock, eventCount>>
       /\ Reconcile(stopped)

\* submit_blocking without room: the caller gets an error, the token is spent
SubmitRefused(arrival) ==
    /\ Submittable(arrival)
    /\ ~Acceptable(arrival)
    /\ nextBusiness' = nextBusiness + 1
    /\ UNCHANGED <<calendarVars, requestVars, unwound, handed, answers, store, pump,
                   now, clock, armed, stopped, eventCount>>

\* Tokens the handler was given and has not answered
Owed == {t \in handed \cap DOMAIN blocking : ~blocking[t].response}

OnTime == Prompt => now = clock

\* complete_blocking by a handler that kept the request
Complete(t) ==
    /\ t \in Owed
    /\ OnTime
    /\ Completable
    /\ QueueCompletion(t)
    /\ blocking' = Answered(t)
    /\ UNCHANGED <<open, running, frontier, batchSize, hostVars, handed, answers,
                   store, pump, eventCount>>
    /\ Reconcile(stopped)

CancelledStore(t) == D!Collected(D!CancelledAll(store, {t}))

\* The thread of the caller unwinds: RuntimeHostAdapter::blocking cancels the
\* request, and stops the runtime if cancel_blocking fails.
CallerUnwinds(t) ==
    /\ t \in DOMAIN blocking
    /\ answers[t] = 0
    /\ t \notin unwound
    /\ OnTime
    /\ unwound' = unwound \cup {t}
    /\ LET answered == blocking[t].response
           fails == \/ t \notin D!Tracked(store)
                    \/ ~answered /\ ~Completable
       IN /\ store' = IF t \in D!Tracked(store) THEN CancelledStore(t) ELSE store
          /\ IF answered \/ fails
             THEN /\ UNCHANGED <<waiting, nextSequence, blockingEvents>>
                  /\ Settle(blocking, answers, fails /\ ~stopped)
             ELSE QueueCompletion(t) /\ Settle(Answered(t), answers, FALSE)
          /\ UNCHANGED <<open, running, frontier, batchSize, nextBusiness, now, clock,
                         handed, pump, eventCount>>
          /\ Reconcile(stopped \/ fails)

\* Runtime::cancel_local of a request
CancelLocal(t) ==
    /\ ~stopped
    /\ t \in D!Tracked(store)
    /\ ~store.records[t].cancelled
    /\ store' = CancelledStore(t)
    /\ UNCHANGED <<calendarVars, requestVars, hostVars, handed, answers, pump, eventCount>>
    /\ Reconcile(stopped)

DrainThenReset == D!Advanced(D!Begun(store, Instance), Instance)

AbortLocalAndDrain ==
    LET begun == D!Begun(store, Instance)
    IN D!Applied(D!CancelledAll(begun, begun.instances[Instance].cohort), Instance)

\* Runtime::reset; draining again while it drains changes nothing
Reset ==
    /\ ~stopped
    /\ D!ResetPossible(store, Instance)
    /\ \/ ~Draining /\ store' = DrainThenReset
       \/ store' = AbortLocalAndDrain
    /\ UNCHANGED <<calendarVars, requestVars, hostVars, handed, answers, pump, eventCount>>
    /\ Reconcile(stopped)

\* report_host_failure, possibly from inside a handler or a callback
HostFailure ==
    /\ ~stopped
    /\ Settle(blocking, answers, TRUE)
    /\ UNCHANGED <<calendarVars, nextSequence, blockingEvents, hostVars, handed, store,
                   pump, eventCount>>
    /\ Reconcile(TRUE)

-----------------------------------------------------------------------------
(* The pump *)

\* Simulated time passes, but not beyond a pending notification; a prompt
\* handler answers before.
Tick ==
    /\ ~pump.active
    /\ clock < MaxTime
    /\ armed = None \/ clock < armed
    /\ Prompt => Owed = {}
    /\ clock' = clock + 1
    /\ UNCHANGED <<calendarVars, requestVars, nextBusiness, unwound, handed, answers,
                   store, pump, now, armed, stopped, eventCount>>

Slice(members) == [active |-> TRUE,
                   left |-> IF Len(members) < Budget THEN Len(members) ELSE Budget,
                   complete |-> members = <<>>]

\* EventPump::dispatch calls pump_batch, which closes a batch or goes on with
\* the open one; members_complete is taken before the slice is dispatched.
PumpBegin ==
    /\ ~stopped
    /\ ~pump.active
    /\ armed # None /\ armed <= clock
    /\ now' = clock
    /\ armed' = None
    /\ IF open
       THEN UNCHANGED calendarVars
       ELSE /\ running' = SetToSortSeq(Calendar!Earliest, Calendar!RunsBefore)
            /\ Calendar!CloseBatch
            /\ batchSize' = Cardinality(Calendar!Earliest)
    /\ pump' = Slice(running')
    /\ UNCHANGED <<requestVars, nextBusiness, unwound, handed, answers, store, clock,
                   stopped, eventCount>>

\* The cumulative event budget ends in the middle of a slice.
FuelExhausted ==
    /\ pump.left > 0
    /\ eventCount >= MaxEvents
    /\ Settle(blocking, answers, TRUE)
    /\ pump' = [pump EXCEPT !.left = 0]
    /\ UNCHANGED <<calendarVars, nextSequence, blockingEvents, hostVars, handed, store,
                   eventCount>>
    /\ Reconcile(TRUE)

Current == blockingEvents[Head(running).sequence]

\* A member is dispatched and acknowledged; the slice ends when it fails.
Dispatching(fails) ==
    /\ pump.left > 0
    /\ eventCount < MaxEvents
    /\ eventCount' = eventCount + 1
    /\ pump' = [pump EXCEPT !.left = IF fails THEN 0 ELSE @ - 1]
    /\ running' = Tail(running)
    /\ UNCHANGED <<open, frontier, batchSize, hostVars>>
    /\ Reconcile(stopped \/ fails)

EventDone == blockingEvents' = Without(blockingEvents, Head(running).sequence)

\* dispatch_blocking of an event whose request is gone or answered already
DispatchObsolete ==
    /\ pump.left > 0
    /\ Current.token \in DOMAIN blocking =>
          ~Current.completion /\ blocking[Current.token].response
    /\ EventDone
    /\ Dispatching(FALSE)
    /\ UNCHANGED <<waiting, nextSequence, blocking, handed, answers, store>>

\* finish_local, then retire_responsibility, whose refusal is ignored
Retired(s, t) ==
    IF t \in D!Tracked(s) /\ D!Complete(s.records[t])
    THEN IF D!InCohort(s, t) THEN [s EXCEPT !.records[t].retire = TRUE]
         ELSE [s EXCEPT !.records = Without(@, t)]
    ELSE s

\* Mutant of Finished: the responsibility is left behind.
Unfinished(t) == store

Finished(t) ==
    LET s == IF t \in D!Tracked(store)
             THEN D!Collected([store EXCEPT !.records[t].finished = TRUE]) ELSE store
    IN Retired(s, t)

\* dispatch_blocking of an answer: the request is forgotten, its work is done
\* and its caller called back.  A callback may throw; one that stop has taken
\* away already always does.
DispatchCompletion(throws) ==
    LET t == Current.token
    IN /\ pump.left > 0
       /\ Current.completion
       /\ t \in DOMAIN blocking
       /\ blocking[t].callback \/ throws
       /\ EventDone
       /\ store' = Finished(t)
       /\ Settle(Without(blocking, t),
                 IF blocking[t].callback THEN [answers EXCEPT ![t] = @ + 1] ELSE answers,
                 throws)
       /\ Dispatching(throws)
       /\ UNCHANGED <<waiting, nextSequence, handed>>

\* Mutant of Outdated: cancellations are not looked at.
OutdatedByEpoch(t) == blocking[t].epoch # Epoch

\* The request is cancelled, or of an epoch that is over.
Outdated(t) == Cancelled(t) \/ blocking[t].epoch # Epoch

Starting == /\ pump.left > 0
            /\ ~Current.completion
            /\ Current.token \in DOMAIN blocking
            /\ ~blocking[Current.token].response

\* The answer to a request within its own dispatch; without room it fails
AnswerNow(t) ==
    IF Completable
    THEN /\ waiting' = waiting \cup {Key(now, Output, nextSequence)}
         /\ blockingEvents' = With(Without(blockingEvents, Head(running).sequence),
                                   nextSequence, [token |-> t, completion |-> TRUE])
         /\ nextSequence' = nextSequence + 1
         /\ Settle(Answered(t), answers, FALSE)
    ELSE /\ EventDone
         /\ UNCHANGED <<waiting, nextSequence>>
         /\ Settle(blocking, answers, TRUE)

\* dispatch_blocking answers an outdated request with an error.
DispatchOutdated ==
    /\ Starting
    /\ Outdated(Current.token)
    /\ AnswerNow(Current.token)
    /\ Dispatching(~Completable)
    /\ UNCHANGED <<handed, store>>

\* The handler answers at once.
DispatchAnswered ==
    /\ Starting
    /\ ~Outdated(Current.token)
    /\ AnswerNow(Current.token)
    /\ Dispatching(~Completable)
    /\ handed' = handed \cup {Current.token}
    /\ UNCHANGED store

\* The handler keeps the request, or fails.
DispatchKept(fails) ==
    /\ Starting
    /\ ~Outdated(Current.token)
    /\ EventDone
    /\ Settle(blocking, answers, fails)
    /\ Dispatching(fails)
    /\ handed' = handed \cup {Current.token}
    /\ UNCHANGED <<waiting, nextSequence, store>>

\* Mutant of AdvancedStore: the pump does not advance resets.
AdvancedNever == store

\* The store after advance_reset
AdvancedStore == IF Draining THEN D!Advanced(store, Instance) ELSE store

\* Mutant of Promotable: requests wait for their reset even when it is over.
PromotableNever(s) == {}

\* Requests the runtime deferred and the drain store does not any more
Promotable(s) ==
    {t \in DOMAIN blocking : /\ blocking[t].deferred
                             /\ t \in D!Tracked(s) => ~s.records[t].deferred}

PromotionTick(t) == IF now < blocking[t].arrival THEN blocking[t].arrival ELSE now

\* The pump ends: a batch whose members were complete is finished, the reset
\* advances, and requests it had deferred get their events.
PumpEnd ==
    LET s == AdvancedStore
        promoted == Promotable(s)
        finishes == pump.complete /\ open
        size == IF finishes THEN 0 ELSE batchSize
        fails == \/ Cardinality(waiting) + size + Cardinality(promoted) > EventCapacity
                 \/ \E t \in promoted : ~Schedulable(PromotionTick(t))
    IN /\ pump.active /\ pump.left = 0 /\ ~stopped
       /\ pump' = Idle
       /\ open' = (open /\ ~finishes)
       /\ batchSize' = size
       /\ store' = s
       /\ IF fails
          THEN /\ Settle(blocking, answers, TRUE)
               /\ UNCHANGED <<waiting, nextSequence, blockingEvents>>
          ELSE \E numbers \in Bijection(promoted,
                       nextSequence..(nextSequence + Cardinality(promoted) - 1)) :
               /\ waiting' = waiting \cup
                     {Key(PromotionTick(t), Input, numbers[t]) : t \in promoted}
               /\ blockingEvents' =
                     [n \in DOMAIN blockingEvents \cup Range(numbers) |->
                        IF n \in DOMAIN blockingEvents THEN blockingEvents[n]
                        ELSE [token |-> CHOOSE t \in promoted : numbers[t] = n,
                              completion |-> FALSE]]
               /\ nextSequence' = nextSequence + Cardinality(promoted)
               /\ Settle([t \in DOMAIN blocking |->
                            IF t \in promoted
                            THEN [blocking[t] EXCEPT !.deferred = FALSE,
                                    !.epoch = s.instances[Instance].epoch]
                            ELSE blocking[t]], answers, FALSE)
       /\ UNCHANGED <<running, frontier, hostVars, handed, eventCount>>
       /\ Reconcile(fails)

\* A stopped runtime only leaves the pump.
PumpStops ==
    /\ pump.active /\ pump.left = 0 /\ stopped
    /\ pump' = Idle
    /\ UNCHANGED <<calendarVars, requestVars, hostVars, handed, answers, store, eventCount>>
    /\ Reconcile(TRUE)

-----------------------------------------------------------------------------
Dispatch == \/ FuelExhausted
            \/ DispatchObsolete
            \/ \E throws \in BOOLEAN : DispatchCompletion(throws)
            \/ DispatchOutdated
            \/ DispatchAnswered
            \/ \E fails \in BOOLEAN : DispatchKept(fails)

Pump == PumpBegin \/ Dispatch \/ PumpEnd \/ PumpStops

Next == \/ \E arrival \in clock..MaxTime : Submit(arrival) \/ SubmitRefused(arrival)
        \/ \E t \in Tokens : Complete(t) \/ CallerUnwinds(t) \/ CancelLocal(t)
        \/ Reset
        \/ HostFailure
        \/ Tick
        \/ Pump

Spec == Init /\ [][Next]_vars

\* The simulation kernel delivers the notification that the pump waits for,
\* and the pump runs to its end; a handler answers what it was given.
FairSpec == /\ Spec
            /\ WF_vars(Pump)
            /\ WF_vars(Tick)
            /\ \A t \in Tokens : WF_vars(Complete(t))

-----------------------------------------------------------------------------
(* Properties *)

\* Every accepted caller is called back exactly once: not while its request is
\* alive, and never twice, whatever completes, cancels, resets or stops first,
\* also when the runtime stops in the middle of a batch.
AnswersExact ==
    \A t \in DOMAIN answers :
        answers[t] = IF t \in DOMAIN blocking /\ blocking[t].callback THEN 0 ELSE 1

\* The drain store and the runtime agree: a live request owes its work, unless
\* it was cancelled, and what no request stands behind holds up no reset.
DrainsAgree ==
    /\ \A t \in DOMAIN blocking :
          /\ t \in D!Tracked(store)
          /\ store.records[t].finished => store.records[t].cancelled
    /\ \A t \in D!Tracked(store) \ DOMAIN blocking : store.records[t].finished

\* A handler is only given work of the current epoch that nobody cancelled,
\* and while a reset drains only work that the reset waits for.
StartsAreCurrent ==
    [][\A t \in handed' \ handed :
          /\ store.records[t].epoch = Epoch
          /\ ~Cancelled(t)
          /\ Draining => t \in store.instances[Instance].cohort]_vars


\* A stopped runtime has called back every caller that still waits.
StoppedMeansAnswered ==
    stopped => \A t \in DOMAIN answers : answers[t] = 1 \/ t \in unwound

\* Every accepted caller is called back in the end: by its answer, by its
\* cancellation, or because the runtime stops.
CallersReturn == \A t \in Tokens : t \in DOMAIN blocking ~> t \in DOMAIN answers /\ answers[t] > 0

\* A reset ends, although it waits for requests and others wait for it.
ResetsApply == Draining ~> ~Draining \/ stopped

=============================================================================
