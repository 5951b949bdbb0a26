------------------------------ MODULE Transact ------------------------------
(***************************************************************************)
(* Transactions driven by helpers of the library: TransactOperation        *)
(* (stdlib/src/payload_helpers.cpp), TimeoutOperation and RetryController  *)
(* (stdlib/src/structured.cpp), with the parts of Runtime, of the engine   *)
(* and of the drains that they go through.  The request lane is the one of *)
(* Admission.                                                              *)
(*                                                                         *)
(* An operation is "own" (a helper that asks for its gate), "external" (a  *)
(* helper whose gate belongs to a timeout, which hands it the permit) or   *)
(* "plain" (a timeout whose caller makes the wire call itself).  When      *)
(* `retrying', the operations are the attempts of one RetryController that *)
(* relies on the previous attempt being unsent.  Calls of a helper that    *)
(* fail before they commit leave nothing behind.  Processes do not run     *)
(* inside a call of the host.  Payloads and byte limits are left out.      *)
(***************************************************************************)
EXTENDS Admission

CONSTANTS
    Attempts,   \* 1..n, the operations
    AbortLimit, \* bound on the resets
    MaxRetries, DrainCapacity

VARIABLES
    helper,     \* TransactOperation
    timeout,    \* TimeoutOperation
    retry,      \* RetryController
    hopWire,    \* the ledger of the hop: None, Idle, Request, Released, Response, Terminal
    latched,    \* latches_: the milestones that took effect
    intents,    \* intents_ with their hooks, and whether they are for cleanup
    record,     \* the drain's record of the transaction
    binding,    \* cleanup_: "none", "tracked" or "scheduled"
    laneEvent,  \* a queued event will look at the request lane
    instanceEpoch,
    aborted,    \* history: operations that a reset cut off before they were sent
    wired       \* history: operations whose request reached the wire

helperVars == <<helper, timeout, retry, hopWire, latched, intents, record, binding, laneEvent,
                instanceEpoch, aborted, wired>>
transactVars == <<admissionVars, helperVars>>

Wire == CHOOSE c \in Connections : TRUE
NoHelper == [state |-> "Fresh", kind |-> "none", epoch |-> 0, txn |-> 0, hop |-> 0, gate |-> 0,
             response |-> FALSE, storage |-> FALSE, receipt |-> FALSE, reaped |-> FALSE]
NoTimeout == [state |-> "None", gate |-> 0, transferred |-> FALSE, published |-> FALSE,
              drain |-> FALSE, response |-> 0, timeout |-> 0]
NoRecord0 == [there |-> FALSE, hop |-> FALSE, over |-> FALSE, finished |-> FALSE,
              cancelled |-> FALSE, receipt |-> "none"]

TransactInit ==
    /\ AdmissionInit
    /\ helper = [o \in Attempts |-> NoHelper]
    /\ timeout = [o \in Attempts |-> NoTimeout]
    /\ \E retrying \in BOOLEAN :
        retry = [on |-> retrying, attempts |-> 0, awaiting |-> FALSE, last |-> "none",
                 published |-> FALSE, drains |-> 0]
    /\ hopWire = [o \in Attempts |-> "None"]
    /\ latched = [o \in Attempts |-> {}]
    /\ intents = {}
    /\ record = [o \in Attempts |-> NoRecord0]
    /\ binding = [o \in Attempts |-> "none"]
    /\ laneEvent = FALSE
    /\ instanceEpoch = 0
    /\ aborted = {}
    /\ wired = {}

\* request_lane_free of the engine, and update_request_lane with it
EngineFree == \A o \in Attempts : hopWire[o] # "Request"
LaneSet(st) ==
    IF EngineFree THEN LaneUpdated([st EXCEPT !.busy = @ \ {Wire}], Wire)
                  ELSE [st EXCEPT !.busy = @ \cup {Wire}]
WithoutGate(st, t) == [st EXCEPT !.gates = Restrict(@, DOMAIN @ \ {t})]

----------------------------------------------------------------------------
(* RetryController *)

\* Mutant of MayTry: the outcome of the last attempt does not matter.
MayTryAgain(retryable) ==
    /\ ~retry.awaiting
    /\ retry.attempts > 0 => retryable /\ retry.attempts <= MaxRetries

\* next: the first attempt, or one after an attempt that was not published
MayTry(retryable) ==
    /\ ~retry.awaiting
    /\ retry.attempts > 0 =>
        /\ retryable
        /\ retry.attempts <= MaxRetries
        /\ retry.last # "ModelError"
        /\ ~retry.published
        /\ retry.drains < DrainCapacity

Record(o) ==
    /\ retry.on
    /\ retry.awaiting
    /\ o = retry.attempts
    /\ timeout[o].state \in {"Success", "TimedOut", "ModelError"}
    /\ timeout[o].drain => retry.drains < DrainCapacity
    /\ retry' = [retry EXCEPT !.awaiting = FALSE, !.last = timeout[o].state,
                              !.published = timeout[o].published,
                              !.drains = IF timeout[o].drain THEN @ + 1 ELSE @]
    /\ UNCHANGED <<admissionVars, helper, timeout, hopWire, latched, intents, record, binding,
                   laneEvent, instanceEpoch, aborted, wired>>

----------------------------------------------------------------------------
(* TransactOperation *)

\* start: the hop, its ledger, the result, the responsibility, the cleanup and
\* the gate, or none of them.  A ticket has the number of its transaction.
Start(o, kind) ==
    LET g == admissionGeneration
        hop == WithHop(admission, g + 1, NoHop(g, Wire, o, admission.sequence))
        txn == IF kind = "plain" THEN 0 ELSE g
    IN /\ helper[o].state = "Fresh"
       /\ timeout[o].state = "None"
       /\ IF retry.on THEN kind = "external" /\ MayTry(retry.last # "Success") /\ o = retry.attempts + 1
                      ELSE \A p \in 1..(o - 1) : helper[p].state # "Fresh"
       /\ \A h \in OnConnection(admission, Wire) : admission.hops[h].transport # o
       /\ Cardinality(DOMAIN admission.hops) < AdmissionLimits.hops
       /\ IF kind = "own"
          THEN /\ MayRequest(hop, g, Wire)
               /\ KeepGates(FALSE, Requested(LaneSet(hop), g, Wire), 3)
          ELSE KeepGates(FALSE, hop, 3)
       /\ helper' = [helper EXCEPT ![o] = [NoHelper EXCEPT
                        !.state = IF kind = "plain" THEN "Plain" ELSE "GateWaiting",
                        !.kind = kind, !.epoch = instanceEpoch, !.txn = g, !.hop = g + 1,
                        !.gate = IF kind = "own" THEN g ELSE 0, !.storage = kind # "plain"]]
       /\ timeout' = [timeout EXCEPT ![o].state = IF kind = "own" THEN "None" ELSE "Fresh"]
       /\ retry' = IF retry.on THEN [retry EXCEPT !.attempts = @ + 1, !.awaiting = TRUE] ELSE retry
       /\ hopWire' = [hopWire EXCEPT ![o] = "Idle"]
       /\ record' = [record EXCEPT ![o].there = txn # 0, ![o].hop = txn # 0]
       /\ binding' = [binding EXCEPT ![o] = IF txn # 0 THEN "tracked" ELSE "none"]
       /\ UNCHANGED <<latched, intents, laneEvent, instanceEpoch, aborted, wired>>

Current(o) == helper[o].epoch = instanceEpoch
Running(o) == helper[o].state \in {"GateWaiting", "RequestQueued", "ResponseWaiting", "TerminalWaiting"}

\* What the helper gives the runtime to send: the request, with the permit that
\* the hook of the intent will use, and the acknowledgement.
RequestIntent(o, t) == [op |-> o, phase |-> "request", ticket |-> t, cleanup |-> FALSE]
AckIntent(o) == [op |-> o, phase |-> "ack", ticket |-> 0, cleanup |-> FALSE]

\* queue_request
Queued1(o, t) ==
    /\ intents' = intents \cup {RequestIntent(o, t)}
    /\ helper' = [helper EXCEPT ![o].state = "RequestQueued", ![o].gate = 0]

\* advance while waiting for the gate
AdvanceGate(o) ==
    LET st == LaneSet(admission)
        t == helper[o].gate
    IN /\ helper[o].state = "GateWaiting" /\ helper[o].kind = "own"
       /\ Current(o) /\ ~record[o].cancelled
       /\ IF st.gates[t].state = "Granted"
          THEN KeepGates(FALSE, [st EXCEPT !.gates[t].state = "Consumed"], 0) /\ Queued1(o, t)
          ELSE KeepGates(FALSE, st, 0) /\ UNCHANGED <<helper, intents>>
       /\ UNCHANGED <<timeout, retry, hopWire, latched, record, binding, laneEvent, instanceEpoch,
                      aborted, wired>>

\* A record goes when it is complete and nobody holds its receipt; one that was
\* cancelled without a receipt waits for retire_responsibility.
Settled(r) == r.finished /\ (r.hop => r.over)
Collected1(r) ==
    IF r.there /\ Settled(r) /\ (r.receipt = "released" \/ (r.receipt = "none" /\ ~r.cancelled))
    THEN NoRecord0 ELSE r

\* advance after the gate, to the acknowledgement or to the end
AdvanceWire(o) ==
    LET sent == hopWire[o] # "Idle"
        lane == IF sent THEN LaneSet(admission) ELSE admission
        ready == "Response" \in latched[o]
        over == ready /\ "Terminal" \in latched[o]
        ack == ready /\ ~over /\ hopWire[o] = "Response" /\ helper[o].state # "TerminalWaiting"
    IN /\ helper[o].state \in {"RequestQueued", "ResponseWaiting", "TerminalWaiting"}
       /\ Current(o) /\ ~record[o].cancelled
       /\ KeepGates(FALSE, IF over THEN WithoutHop(lane, helper[o].hop) ELSE lane, 0)
       /\ over => ~Gated(lane, helper[o].txn)
       /\ helper' = [helper EXCEPT
            ![o].state = IF over THEN "Complete"
                         ELSE IF ack THEN "TerminalWaiting"
                         ELSE IF sent /\ @ = "RequestQueued" THEN "ResponseWaiting" ELSE @,
            ![o].response = ready,
            ![o].storage = @ /\ ~over,
            ![o].reaped = over]
       /\ intents' = IF ack THEN intents \cup {AckIntent(o)} ELSE intents
       /\ record' = [record EXCEPT ![o] = IF over THEN Collected1([@ EXCEPT !.finished = TRUE]) ELSE @]
       /\ hopWire' = [hopWire EXCEPT ![o] = IF over THEN "None" ELSE @]
       /\ binding' = [binding EXCEPT ![o] = IF over THEN "none" ELSE @]
       /\ latched' = [latched EXCEPT ![o] = IF over THEN {} ELSE @]
       /\ UNCHANGED <<timeout, retry, laneEvent, instanceEpoch, aborted, wired>>

----------------------------------------------------------------------------
(* Runtime: cancellation, cleanup and the wire *)

\* The intents of a cancelled transaction go, with the permit of a request.
DroppedGates(st, gone) ==
    LET tickets == {i.ticket : i \in {x \in gone : x.phase = "request"}}
    IN IF tickets = {} THEN st
       ELSE LET t == CHOOSE x \in tickets : TRUE IN WithoutGate(Cancelled(st, t), t)

\* progress_cleanup: the answer of an initiator that gave up is acknowledged,
\* once; the mark stays until an intent of the transaction was sent.
CleanedUp(o, r) ==
    IF binding[o] = "tracked" /\ r.cancelled /\ hopWire[o] = "Response" THEN "scheduled"
    ELSE IF hopWire[o] = "Terminal" /\ binding[o] # "none" THEN "tracked"
    ELSE binding[o]
CleanupIntent(o, before, after) ==
    IF before # "scheduled" /\ after = "scheduled"
    THEN {[AckIntent(o) EXCEPT !.cleanup = TRUE]} ELSE {}

\* DrainStore::cancel_local
Given(r) ==
    IF r.receipt # "none" THEN r
    ELSE [r EXCEPT !.cancelled = TRUE, !.finished = TRUE,
                   !.receipt = IF r.hop THEN "held" ELSE "none"]
\* Runtime::cancel_local: a hop that did not start is not waited for.
Unstarted(o, r) ==
    IF ~Settled(r) /\ hopWire[o] = "Idle" THEN [r EXCEPT !.hop = FALSE] ELSE r

IntentsOf(o) == {i \in intents : i.op = o}

\* The call of Runtime::cancel_local, with the rest of the caller in `st'
RuntimeCancelled(o, st, r, cleaned) ==
    /\ KeepGates(FALSE, DroppedGates(st, IntentsOf(o)), 0)
    /\ record' = [record EXCEPT ![o] = r]
    /\ binding' = [binding EXCEPT ![o] = cleaned]
    /\ intents' = (intents \ IntentsOf(o)) \cup CleanupIntent(o, binding[o], cleaned)

\* cancel of a helper, also by the drain of a timeout and by an advance that
\* finds the transaction cancelled
CancelGate(o) ==
    LET t == helper[o].gate
    IN IF t = 0 THEN admission ELSE WithoutGate(Cancelled(admission, t), t)

CancelHelper(o) ==
    LET sent == hopWire[o] # "Idle"
        st == DroppedGates(CancelGate(o), IntentsOf(o))
        r == Given(Unstarted(o, record[o]))
        blocked == ~sent /\ Gated(st, helper[o].txn)   \* the ticket of a timeout
        owned == ~sent /\ r.receipt = "held"           \* NotReady from the drain
    IN /\ Running(o)
       /\ hopWire[o] # "None"
       /\ record[o].there
       /\ IF sent
          THEN RuntimeCancelled(o, CancelGate(o), r, CleanedUp(o, r)) /\ UNCHANGED <<hopWire, latched>>
          ELSE /\ KeepGates(FALSE, IF blocked THEN st ELSE WithoutHop(st, helper[o].hop), 0)
               /\ intents' = intents \ IntentsOf(o)
               /\ record' = [record EXCEPT ![o] = IF blocked \/ owned THEN r ELSE NoRecord0]
               /\ binding' = [binding EXCEPT ![o] = IF blocked \/ owned THEN @ ELSE "none"]
               /\ hopWire' = [hopWire EXCEPT ![o] = IF blocked THEN @ ELSE "None"]
               /\ UNCHANGED latched
       /\ helper' = [helper EXCEPT
            ![o].gate = 0,
            ![o].state = IF blocked \/ owned THEN @ ELSE "Cancelled",
            ![o].storage = @ /\ (blocked \/ owned),
            ![o].receipt = sent,
            ![o].reaped = ~sent /\ ~blocked]

CancelAlone(o) ==
    /\ CancelHelper(o)
    /\ UNCHANGED <<timeout, retry, laneEvent, instanceEpoch, aborted, wired>>

\* Another holder of the transaction cancels it.
CancelElsewhere(o) ==
    LET r == Given(Unstarted(o, record[o]))
    IN /\ Running(o)
       /\ record[o].there
       /\ RuntimeCancelled(o, admission, r, CleanedUp(o, r))
       /\ UNCHANGED <<helper, timeout, retry, hopWire, latched, laneEvent, instanceEpoch, aborted, wired>>

Reap(o) ==
    /\ helper[o].state = "Cancelled" /\ ~helper[o].reaped
    /\ "Terminal" \in latched[o]
    /\ ~(record[o].there /\ ~Settled(record[o]))
    /\ ~Gated(admission, helper[o].txn)
    /\ KeepGates(FALSE, WithoutHop(admission, helper[o].hop), 0)
    /\ helper' = [helper EXCEPT ![o].reaped = TRUE]
    /\ hopWire' = [hopWire EXCEPT ![o] = "None"]
    /\ binding' = [binding EXCEPT ![o] = "none"]
    /\ latched' = [latched EXCEPT ![o] = {}]
    /\ UNCHANGED <<timeout, retry, intents, record, laneEvent, instanceEpoch, aborted, wired>>

ReleaseReceipt(o) ==
    /\ helper[o].state = "Cancelled" /\ helper[o].receipt
    /\ record[o].receipt = "held"
    /\ record' = [record EXCEPT ![o] = Collected1([@ EXCEPT !.receipt = "released"])]
    /\ UNCHANGED <<admissionVars, helper, timeout, retry, hopWire, latched, intents, binding, laneEvent,
                   instanceEpoch, aborted, wired>>

\* reset with AbortLocalAndDrain: the drain cancels every record, without
\* asking whether its hop started.
AbortReset ==
    LET Aborts(o) == record[o].there
        rec(o) == Collected1(Given(record[o]))
        gone == {i \in intents : record'[i.op].cancelled}
    IN /\ instanceEpoch < AbortLimit
       /\ instanceEpoch' = instanceEpoch + 1
       /\ record' = [o \in Attempts |-> IF Aborts(o) THEN rec(o) ELSE record[o]]
       /\ KeepGates(FALSE, DroppedGates(admission, gone), 0)
       /\ binding' = [o \in Attempts |-> CleanedUp(o, record'[o])]
       /\ intents' = (intents \ gone) \cup
                      UNION {CleanupIntent(o, binding[o], binding'[o]) : o \in Attempts}
       /\ aborted' = aborted \cup {o \in Attempts : Aborts(o) /\ hopWire[o] = "Idle"}
       /\ UNCHANGED <<helper, timeout, retry, hopWire, latched, laneEvent, wired>>

\* The host is called for an intent; the hook of a request starts with it.  The
\* answer of the other side comes with the return.
Answers == [request |-> {"Request", "Released", "Response", "Terminal"}, ack |-> {"Terminal"}]
Dispatch(i, answer) ==
    LET o == i.op
        sent == [admission EXCEPT !.busy = @ \cup {Wire}]
    IN /\ i \in intents
       /\ answer \in Answers[i.phase]
       /\ record[o].cancelled => i.cleanup
       /\ IF i.phase = "request" THEN KeepGates(FALSE, WithoutGate(sent, i.ticket), 0)
                                  ELSE UNCHANGED admissionVars
       /\ hopWire' = [hopWire EXCEPT ![o] = answer]
       /\ intents' = intents \ {i}
       /\ binding' = [binding EXCEPT ![o] = IF @ = "scheduled" THEN "tracked" ELSE @]
       /\ laneEvent' = TRUE
       /\ wired' = wired \cup {o}
       /\ UNCHANGED <<helper, timeout, retry, latched, record, instanceEpoch, aborted>>

\* dispatch_intents first: what was cancelled goes, except cleanup, and every
\* binding is looked at.
DropCancelled ==
    LET gone == {i \in intents : record[i.op].cancelled /\ ~i.cleanup}
    IN /\ KeepGates(FALSE, DroppedGates(admission, gone), 0)
       /\ binding' = [o \in Attempts |-> CleanedUp(o, record[o])]
       /\ intents' = (intents \ gone) \cup
                      UNION {CleanupIntent(o, binding[o], binding'[o]) : o \in Attempts}
       /\ UNCHANGED <<helper, timeout, retry, hopWire, latched, record, laneEvent, instanceEpoch,
                      aborted, wired>>

\* A call of the other side
PeerMoves(o, to) ==
    /\ <<hopWire[o], to>> \in {<<"Request", "Released">>, <<"Request", "Response">>,
                               <<"Released", "Response">>}
    /\ hopWire' = [hopWire EXCEPT ![o] = to]
    /\ laneEvent' = TRUE
    /\ UNCHANGED <<admissionVars, helper, timeout, retry, latched, intents, record, binding,
                   instanceEpoch, aborted, wired>>

\* The milestones take effect in order, as events of the queue; the last one is
\* what the drain waits for.
Latch(o) ==
    /\ helper[o].kind # "plain"
    /\ hopWire[o] \in {"Response", "Terminal"}
    /\ LET m == IF "Response" \in latched[o] THEN "Terminal" ELSE "Response"
       IN /\ m \notin latched[o]
          /\ m = "Terminal" => hopWire[o] = "Terminal"
          /\ latched' = [latched EXCEPT ![o] = @ \cup {m}]
          /\ record' = [record EXCEPT ![o] = IF m = "Terminal" THEN Collected1([@ EXCEPT !.over = TRUE])
                                                              ELSE @]
    /\ UNCHANGED <<admissionVars, helper, timeout, retry, hopWire, intents, binding, laneEvent,
                   instanceEpoch, aborted, wired>>

ResolveLane ==
    /\ laneEvent
    /\ laneEvent' = FALSE
    /\ KeepGates(FALSE, LaneSet(admission), 0)
    /\ UNCHANGED <<helper, timeout, retry, hopWire, latched, intents, record, binding,
                   instanceEpoch, aborted, wired>>

----------------------------------------------------------------------------
(* TimeoutOperation *)

runtimeVars == <<hopWire, latched, intents, record, binding>>
elsewhere == <<retry, laneEvent, instanceEpoch, aborted, wired>>

GivenUp(st, t) ==
    IF t = 0 THEN st
    ELSE WithoutGate(IF st.gates[t].state \in {"Pending", "Granted"} THEN Cancelled(st, t) ELSE st, t)

\* expire: the gate goes first; what may have been published is drained by
\* cancelling the helper, and when that fails the timeout stays as it is.
Expire(o) ==
    LET w == timeout[o]
        published == IF w.transferred THEN o \in wired ELSE w.published
        over(drain) == [w EXCEPT !.state = "TimedOut", !.gate = 0, !.published = published,
                                 !.drain = drain, !.response = 0, !.timeout = 0]
    IN IF w.transferred /\ Running(o)
       THEN /\ hopWire[o] # "None"
            /\ CancelHelper(o)
            /\ timeout' = [timeout EXCEPT ![o] =
                    IF helper'[o].state = "Cancelled" THEN over(helper'[o].receipt)
                                                      ELSE [w EXCEPT !.published = published]]
       ELSE /\ KeepGates(FALSE, GivenUp(admission, w.gate), 0)
            /\ timeout' = [timeout EXCEPT ![o] =
                    over(IF w.transferred THEN helper[o].receipt ELSE published)]
            /\ UNCHANGED <<helper, runtimeVars>>

\* start, late when the deadline has come
StartTimeout(o, late) ==
    /\ timeout[o].state = "Fresh"
    /\ IF late THEN Expire(o)
       ELSE /\ MayRequest(admission, helper[o].txn, Wire)
            /\ KeepGates(FALSE, Requested(admission, helper[o].txn, Wire), 1)
            /\ timeout' = [timeout EXCEPT ![o].state = "GateWaiting", ![o].gate = admissionGeneration]
            /\ UNCHANGED <<helper, runtimeVars>>
    /\ UNCHANGED elsewhere

\* advance_gate: the permit is taken, then published.  A helper takes it over
\* with its intent; otherwise the caller has made the call when it returns.
Publish1(o, accepted) ==
    LET t == timeout[o].gate
        consumed == [admission EXCEPT !.gates[t].state = "Consumed"]
        external == helper[o].kind = "external"
        possible == external => helper[o].state = "GateWaiting" /\ Current(o)
    IN /\ admission.gates[t].state = "Granted"
       /\ accepted => possible
       /\ IF ~accepted
          THEN /\ KeepGates(FALSE, WithoutGate(Cancelled(consumed, t), t), 0)
               /\ timeout' = [timeout EXCEPT ![o].state = "ModelError", ![o].gate = 0, ![o].timeout = 0]
               /\ UNCHANGED <<helper, runtimeVars, wired>>
          ELSE IF external
          THEN /\ KeepGates(FALSE, consumed, 0)
               /\ Queued1(o, t)
               /\ timeout' = [timeout EXCEPT ![o].state = "ResponseWaiting", ![o].gate = 0,
                                             ![o].transferred = TRUE]
               /\ UNCHANGED <<hopWire, latched, record, binding, wired>>
          ELSE /\ KeepGates(FALSE, [consumed EXCEPT !.gates[t].state = "Sent", !.busy = @ \cup {Wire}], 0)
               /\ timeout' = [timeout EXCEPT ![o].state = "ResponseWaiting", ![o].published = TRUE]
               /\ hopWire' = [hopWire EXCEPT ![o] = "Request"]
               /\ wired' = wired \cup {o}
               /\ UNCHANGED <<helper, latched, intents, record, binding>>
       /\ UNCHANGED <<retry, laneEvent, instanceEpoch, aborted>>

AdvanceTimeout(o, late, accepted) ==
    /\ timeout[o].state = "GateWaiting"
    /\ IF late THEN Expire(o) /\ UNCHANGED elsewhere ELSE Publish1(o, accepted)

\* Keys are ordered, and the timer's is the deadline's; they are forgotten at the
\* end.
DeadlineKey == 2
RecordResponse(o, key) ==
    /\ timeout[o].state = "ResponseWaiting"
    /\ timeout[o].response = 0
    /\ hopWire[o] \in {"Response", "Terminal", "None"}
    /\ timeout' = [timeout EXCEPT ![o].response = key]
    /\ UNCHANGED <<admissionVars, helper, runtimeVars, elsewhere>>

RecordTimeout(o) ==
    /\ timeout[o].state \in {"ResponseWaiting", "GateWaiting"}
    /\ timeout[o].timeout = 0
    /\ timeout' = [timeout EXCEPT ![o].timeout = DeadlineKey]
    /\ UNCHANGED <<admissionVars, helper, runtimeVars, elsewhere>>

ResolveTimeout(o) ==
    LET w == timeout[o]
    IN /\ w.state \in {"ResponseWaiting", "GateWaiting"}
       /\ IF w.response # 0 /\ (w.timeout = 0 \/ w.timeout >= w.response)
          THEN /\ timeout' = [timeout EXCEPT ![o].state = "FinishingResponse", ![o].timeout = 0]
               /\ UNCHANGED <<admissionVars, helper, runtimeVars>>
          ELSE w.timeout # 0 /\ Expire(o)
       /\ UNCHANGED elsewhere

FinishResponse(o) ==
    /\ timeout[o].state = "FinishingResponse"
    /\ KeepGates(FALSE, GivenUp(admission, timeout[o].gate), 0)
    /\ timeout' = [timeout EXCEPT ![o].state = "Success", ![o].gate = 0, ![o].response = 0]
    /\ UNCHANGED <<helper, runtimeVars, elsewhere>>

----------------------------------------------------------------------------

TransactNext ==
    \/ \E o \in Attempts :
        \/ \E kind \in {"own", "external", "plain"} : Start(o, kind)
        \/ AdvanceGate(o) \/ AdvanceWire(o)
        \/ CancelAlone(o) \/ CancelElsewhere(o)
        \/ Reap(o) \/ ReleaseReceipt(o) \/ Record(o)
        \/ \E to \in {"Released", "Response"} : PeerMoves(o, to)
        \/ Latch(o)
        \/ \E late \in BOOLEAN : StartTimeout(o, late)
        \/ \E late, accepted \in BOOLEAN : AdvanceTimeout(o, late, accepted)
        \/ \E key \in 1..3 : RecordResponse(o, key)
        \/ RecordTimeout(o)
        \/ ResolveTimeout(o) \/ FinishResponse(o)
    \/ \E i \in intents : \E answer \in Answers[i.phase] : Dispatch(i, answer)
    \/ DropCancelled \/ ResolveLane \/ AbortReset

\* Whatever cancels, resets or times out an operation, and whenever:
\* - a ticket of the lane belongs to the operation that still waits with it, a
\*   permit to the intent that will use it, and a lane that the wire left is
\*   about to be looked at;
\* - an operation that is over holds nothing, or its cleanup is still tracked;
\* - one that cannot finish was cut off by a reset before its request was sent;
\* - an attempt that is reported unpublished never reaches the wire, so retries
\*   that rely on it put one request there.
HelpersExact ==
    /\ \A t \in DOMAIN admission.gates :
        LET g == admission.gates[t]
        IN CASE g.state \in {"Pending", "Granted"} ->
                \E o \in Attempts : \/ helper[o].gate = t /\ helper[o].state = "GateWaiting"
                                    \/ timeout[o].gate = t /\ timeout[o].state = "GateWaiting"
             [] g.state = "Consumed" -> \E i \in intents : i.phase = "request" /\ i.ticket = t
             [] g.state = "Sent" -> \E o \in Attempts : timeout[o].gate = t
             [] OTHER -> FALSE
    /\ Wire \in admission.busy /\ EngineFree => laneEvent
    /\ \A o \in Attempts :
        /\ helper[o].state \in {"Complete", "Cancelled"} /\ helper[o].reaped =>
            /\ hopWire[o] = "None" /\ binding[o] = "none" /\ IntentsOf(o) = {}
            /\ helper[o].hop \notin DOMAIN admission.hops /\ ~helper[o].storage
            /\ record[o].there => record[o].receipt = "held" /\ Settled(record[o])
        /\ helper[o].state = "Cancelled" /\ ~helper[o].reaped =>
            binding[o] # "none" /\ (record[o].there => record[o].cancelled)
        /\ Running(o) /\ hopWire[o] = "None" => o \in aborted
        /\ timeout[o].state \in {"TimedOut", "ModelError"} /\ ~timeout[o].published =>
            /\ o \notin wired
            /\ IntentsOf(o) = {}
    /\ retry.on => Cardinality(wired) <= 1

\* What the repeated resets of the lifecycle test require: a cleanup phase that
\* was scheduled is not lost, it is in the queue until it is sent.
CleanupKept ==
    \A o \in Attempts : binding[o] = "scheduled" => \E i \in IntentsOf(o) : i.cleanup

=============================================================================
