------------------------------- MODULE Timers -------------------------------
(***************************************************************************)
(* A timer and an interrupt output with its pulses (stdlib/src/timer.cpp). *)
(* Both keep the token of their event in a cell that segments write; the   *)
(* queue is what they see of EventQueue: a token is stale once the batch   *)
(* of its event is finished, or once a cancelled event is collected.       *)
(* Event values, ports and owners are left out, and so are the settled     *)
(* tokens, which only tell a late cancel apart from a wrong one.           *)
(***************************************************************************)
EXTENDS Integers, Sequences, FiniteSets, SequencesExt, FiniteSetsExt, Functions, TLC

CONSTANTS
    TimerSegments,
    Periods,        \* config_: periods, 0 for one deadline
    Deadline,       \* config_.deadline of a timer without period
    PulseWidth,
    TokenLimit,     \* bound on the tokens handed out
    EpochLimit, TimerClock

VARIABLES
    config,     \* the period of the timer
    timed,      \* device -> its cell: token, deadline, active
    level,      \* output_value_ of the interrupt
    shown,      \* last_published_: what the sink was told last
    cleanup,    \* cleanup_: the token of the pulse to be cleared, 0 for none
    deviceEpoch,
    epoch,      \* the epoch of the instance
    timerEvents,    \* token -> the event in the queue
    lastToken,
    timerNow,
    draft,      \* segment -> what it has buffered and staged
    missed      \* history: devices whose event ended without being handled

timerVars == <<config, timed, level, shown, cleanup, deviceEpoch, epoch, timerEvents, lastToken,
               timerNow, draft, missed>>

Devices == {"timer", "interrupt"}
Disarmed == [token |-> 0, deadline |-> 0, active |-> FALSE]
NoDraft == [open |-> FALSE, current |-> TRUE, epoch |-> 0, cells |-> <<>>, staged |-> <<>>,
            cancels |-> {}, pulses |-> <<>>, resets |-> {}]

TimersInit ==
    /\ config \in Periods
    /\ timed = [d \in Devices |-> Disarmed]
    /\ level = FALSE
    /\ shown = FALSE
    /\ cleanup = 0
    /\ deviceEpoch = [d \in Devices |-> 0]
    /\ epoch = 0
    /\ timerEvents = <<>>
    /\ lastToken = 0
    /\ timerNow = 0
    /\ draft = [s \in TimerSegments |-> NoDraft]
    /\ missed = {}

queueVars == <<timerEvents, timerNow, missed, epoch>>
committedVars == <<timed, level, shown, cleanup, deviceEpoch>>

Live(t) == t \in DOMAIN timerEvents /\ timerEvents[t].stage \in {"Queued", "Active"}
                                    /\ ~timerEvents[t].cancelled
IsActive(t) == t \in DOMAIN timerEvents /\ timerEvents[t].stage = "Active"
                                        /\ ~timerEvents[t].cancelled

----------------------------------------------------------------------------
(* Segments *)

BeginDraft(s) ==
    /\ ~draft[s].open
    /\ draft' = [draft EXCEPT ![s] = [NoDraft EXCEPT !.open = TRUE, !.epoch = epoch]]
    /\ UNCHANGED <<config, lastToken, committedVars, queueVars>>

Shadow(s, d) == IF d \in DOMAIN draft[s].cells THEN draft[s].cells[d] ELSE timed[d]
ShadowLevel(s) == IF "level" \in DOMAIN draft[s].cells THEN draft[s].cells["level"] ELSE level

\* context: the segment is of the epoch of the device.
Allowed(s, d) == draft[s].open /\ draft[s].epoch = deviceEpoch[d]

\* stage_cancel refuses a token that is stale.
CanStage(s, t) == t \in DOMAIN draft[s].staged \/ t \in DOMAIN timerEvents

\* Buffered cells, the events to add and the tokens to cancel
Drafted(s, cells, added, cancels, pulses) ==
    /\ draft' = [draft EXCEPT ![s].cells = cells @@ @, ![s].staged = added @@ @,
                              ![s].cancels = @ \cup cancels, ![s].pulses = @ \o pulses]
    /\ lastToken' = lastToken + Cardinality(DOMAIN added)
    /\ UNCHANGED <<config, committedVars, queueVars>>

NewToken == lastToken + 1
Scheduled(d, time) == NewToken :> [time |-> time, device |-> d, stage |-> "Queued",
                                   cancelled |-> FALSE]
Armed(time) == [token |-> NewToken, deadline |-> time, active |-> TRUE]
Stopped(c) == [c EXCEPT !.active = FALSE]

\* Mutant: arming again leaves the event of the first deadline in the queue.
ArmTimerOver(s) ==
    LET time == IF config = 0 THEN Deadline ELSE timerNow + config
    IN /\ Allowed(s, "timer")
       /\ time >= timerNow
       /\ lastToken < TokenLimit
       /\ Drafted(s, "timer" :> Armed(time), Scheduled("timer", time), {}, <<>>)
ArmTimer(s) ==
    LET old == Shadow(s, "timer")
        time == IF config = 0 THEN Deadline ELSE timerNow + config
    IN /\ Allowed(s, "timer")
       /\ time >= timerNow
       /\ lastToken < TokenLimit
       /\ old.active => CanStage(s, old.token)
       /\ Drafted(s, "timer" :> Armed(time), Scheduled("timer", time),
                  IF old.active THEN {old.token} ELSE {}, <<>>)

\* cancel of the current token, cancel_active and reset
CancelTimer(s) ==
    LET old == Shadow(s, "timer")
    IN /\ Allowed(s, "timer")
       /\ old.active
       /\ CanStage(s, old.token)
       /\ Drafted(s, "timer" :> Stopped(old), <<>>, {old.token}, <<>>)

OnTimer(s, t) ==
    LET old == Shadow(s, "timer")
        next == old.deadline + config
    IN /\ Allowed(s, "timer")
       /\ t = old.token /\ old.active
       /\ IsActive(t)
       /\ timerNow >= old.deadline
       /\ IF config = 0
          THEN Drafted(s, "timer" :> Stopped(old), <<>>, {}, <<>>)
          ELSE /\ lastToken < TokenLimit
               /\ Drafted(s, "timer" :> Armed(next), Scheduled("timer", next), {}, <<>>)

SetLevel(s, value) ==
    LET old == Shadow(s, "interrupt")
    IN /\ Allowed(s, "interrupt")
       /\ old.active => CanStage(s, old.token)
       /\ Drafted(s, ("interrupt" :> Stopped(old)) @@ ("level" :> value), <<>>,
                  IF old.active THEN {old.token} ELSE {}, <<0>>)

Pulse(s) ==
    /\ Allowed(s, "interrupt")
    /\ ~Shadow(s, "interrupt").active
    /\ ~ShadowLevel(s)
    /\ lastToken < TokenLimit
    /\ Drafted(s, ("interrupt" :> Armed(timerNow + PulseWidth)) @@ ("level" :> TRUE),
               Scheduled("interrupt", timerNow + PulseWidth), {}, <<NewToken>>)

OnClear(s, t) ==
    LET old == Shadow(s, "interrupt")
    IN /\ Allowed(s, "interrupt")
       /\ old.active /\ t = old.token
       /\ IsActive(t)
       /\ timerNow >= old.deadline
       /\ Drafted(s, ("interrupt" :> Stopped(old)) @@ ("level" :> FALSE), <<>>, {}, <<0>>)

\* reset_epoch looks at the committed cell, and takes a stale token as gone.
ResetDevice(s, d) ==
    /\ draft[s].open
    /\ d \notin draft[s].resets
    /\ draft' = [draft EXCEPT
            ![s].resets = @ \cup {d},
            ![s].cancels = IF timed[d].active /\ timed[d].token \in DOMAIN timerEvents
                           THEN @ \cup {timed[d].token} ELSE @]
    /\ UNCHANGED <<config, lastToken, committedVars, queueVars>>

\* Commit: cells, events, cancellations, then the participants in order: the
\* epoch of a reset device, and what the interrupt shows after each PulseCommit.
Refused(s) ==
    \/ ~draft[s].current
    \/ draft[s].epoch # epoch
    \/ \E t \in draft[s].cancels : ~CanStage(s, t)
    \/ \E d \in draft[s].resets : draft[s].epoch <= deviceEpoch[d] \/ d \in DOMAIN draft[s].cells
CommitDraft(s) ==
    LET c == draft[s]
        events == timerEvents @@ c.staged
        reset(d) == d \in c.resets
        touched == {d \in Devices : d \in (DOMAIN c.cells) \cup c.resets}
    IN /\ c.open
       /\ ~Refused(s)
       /\ timed' = [d \in Devices |-> IF reset(d) THEN Disarmed ELSE Shadow(s, d)]
       /\ level' = IF reset("interrupt") THEN FALSE ELSE ShadowLevel(s)
       /\ deviceEpoch' = [d \in Devices |-> IF reset(d) THEN c.epoch ELSE deviceEpoch[d]]
       /\ cleanup' = IF reset("interrupt") THEN 0 ELSE Last(<<cleanup>> \o c.pulses)
       /\ shown' = IF reset("interrupt") \/ c.pulses # <<>> THEN level' ELSE shown
       /\ timerEvents' = [t \in DOMAIN events |->
            IF t \in c.cancels /\ events[t].stage # "Done"
            THEN [events[t] EXCEPT !.cancelled = TRUE] ELSE events[t]]
       /\ missed' = missed \ touched
       /\ draft' = [r \in TimerSegments |->
            IF r = s THEN NoDraft
            ELSE [draft[r] EXCEPT !.current = @ /\ \A d \in touched :
                    d \notin (DOMAIN draft[r].cells) \cup draft[r].resets]]
       /\ UNCHANGED <<config, epoch, lastToken, timerNow>>

DiscardTimerDraft(s) ==
    /\ draft[s].open
    /\ draft' = [draft EXCEPT ![s] = NoDraft]
    /\ UNCHANGED <<config, lastToken, committedVars, queueVars>>

----------------------------------------------------------------------------
(* The host and the queue *)

\* dispatch_clear needs no segment: it commits one of its own.
DispatchClear(t) ==
    /\ cleanup = t /\ t # 0
    /\ IsActive(t)
    /\ timed["interrupt"].active /\ timed["interrupt"].token = t
    /\ cleanup' = 0
    /\ timed' = [timed EXCEPT !["interrupt"] = Stopped(@)]
    /\ level' = FALSE
    /\ shown' = FALSE
    /\ draft' = [s \in TimerSegments |-> [draft[s] EXCEPT !.current = @ /\
                    "interrupt" \notin (DOMAIN draft[s].cells) \cup draft[s].resets]]
    /\ UNCHANGED <<config, lastToken, deviceEpoch, queueVars>>

InBatch == {t \in DOMAIN timerEvents : timerEvents[t].stage \in {"Active", "Done"}}
Queued == {t \in DOMAIN timerEvents : timerEvents[t].stage = "Queued"}
Quiet == \A s \in TimerSegments : ~draft[s].open

TakeBatch ==
    /\ Quiet
    /\ InBatch = {}
    /\ Queued # {}
    /\ LET time == Min({timerEvents[t].time : t \in Queued})
       IN /\ time <= TimerClock
          /\ timerNow' = Max({time, timerNow})
          /\ timerEvents' = [t \in DOMAIN timerEvents |->
                IF timerEvents[t].time = time THEN [timerEvents[t] EXCEPT !.stage = "Active"]
                                              ELSE timerEvents[t]]
    /\ UNCHANGED <<config, lastToken, epoch, draft, missed, committedVars>>

\* The member is acknowledged, handled or not.
AckEvent(t) ==
    /\ Quiet
    /\ t \in InBatch /\ timerEvents[t].stage = "Active"
    /\ timerEvents' = [timerEvents EXCEPT ![t].stage = "Done"]
    /\ missed' = missed \cup {d \in Devices : timed[d].active /\ timed[d].token = t}
    /\ UNCHANGED <<config, lastToken, epoch, timerNow, draft, committedVars>>

FinishTimerBatch ==
    /\ InBatch # {}
    /\ \A t \in InBatch : timerEvents[t].stage = "Done"
    /\ timerEvents' = Restrict(timerEvents, Queued)
    /\ UNCHANGED <<config, lastToken, epoch, timerNow, draft, missed, committedVars>>

CollectCancelled(t) ==
    /\ t \in Queued /\ timerEvents[t].cancelled
    /\ timerEvents' = Restrict(timerEvents, (DOMAIN timerEvents) \ {t})
    /\ UNCHANGED <<config, lastToken, epoch, timerNow, draft, missed, committedVars>>

\* A reset of the instance; the devices follow with reset_epoch.
AdvanceEpoch ==
    /\ epoch < EpochLimit
    /\ epoch' = epoch + 1
    /\ UNCHANGED <<config, lastToken, timerEvents, timerNow, draft, missed, committedVars>>

TimersNext ==
    \/ \E s \in TimerSegments :
        \/ BeginDraft(s)
        \/ ArmTimer(s)
        \/ CancelTimer(s)
        \/ Pulse(s)
        \/ \E value \in BOOLEAN : SetLevel(s, value)
        \/ \E d \in Devices : ResetDevice(s, d)
        \/ \E t \in InBatch : OnTimer(s, t) \/ OnClear(s, t)
        \/ CommitDraft(s)
        \/ DiscardTimerDraft(s)
    \/ \E t \in InBatch : DispatchClear(t) \/ AckEvent(t)
    \/ \E t \in Queued : CollectCancelled(t)
    \/ TakeBatch
    \/ FinishTimerBatch
    \/ AdvanceEpoch

\* However segments race, are discarded or cross a reset: an armed device has
\* its event in the queue, at its deadline, unless that event was dispatched
\* and nobody handled it; an event that is still to come is the one its device
\* waits for; the sink has been told the committed level, and a pulse that
\* is on can be cleared.
TimersExact ==
    /\ \A d \in Devices \ missed : timed[d].active =>
        /\ Live(timed[d].token)
        /\ timerEvents[timed[d].token].time = timed[d].deadline
    /\ \A t \in Queued : ~timerEvents[t].cancelled =>
        LET c == timed[timerEvents[t].device] IN c.active /\ c.token = t
    /\ shown = level
    /\ IF timed["interrupt"].active THEN level /\ cleanup = timed["interrupt"].token
                                    ELSE cleanup = 0

=============================================================================
