---------------------------- MODULE ProcessStore ----------------------------
(***************************************************************************)
(* Process frames and the single wait each may be suspended on             *)
(* (runtime/src/process.cpp).  An operation works on the store itself, or, *)
(* within a segment, on a copy of the copy made by the operation before    *)
(* it; copies are dropped one by one when the segment rolls back, and the  *)
(* last one becomes the store when it commits.                             *)
(*                                                                         *)
(* A handle is <<kind, slot, generation, owner>>.  Resume blocks and live  *)
(* values are left out; the clock stands for the ready time and for the    *)
(* sequence number of edges.                                               *)
(***************************************************************************)
EXTENDS Integers, Sequences, FiniteSets, SequencesExt, FiniteSetsExt, Functions, TLC

CONSTANTS
    FrameLimit, WaitLimit,      \* frames_limit_, waits_limit_
    ProcessContexts,            \* contexts of segments: owner and instance
    ProcessGenerations,         \* bound on generation_
    ProcessClock,               \* bound on the clock
    CopyLimit                   \* SegmentBudget::writes, which bounds participants too

VARIABLES
    processes,          \* frames_ and waits_, and the history of tokens resumed
    processGeneration,  \* generation_ of the store itself
    copies,             \* the copies of the open segment: the last is pending_view_
    processContext,     \* its context, Direct when there is none
    processClock,
    forsaken            \* history: handles that were issued and rolled back

processVars == <<processes, processGeneration, copies, processContext, processClock, forsaken>>

Direct0 == [owner |-> 0, instance |-> 0]    \* no segment
NoToken == <<>>
TimerKinds == {"Until"}         \* After becomes Until when the wait is made
EdgeKinds == {"InputChanged"}   \* and Internal
WaitKinds == TimerKinds \cup EdgeKinds \cup {"Response"}    \* and the kinds like it

ProcessesInit ==
    /\ processes = [frames |-> <<>>, waits |-> <<>>, resumed |-> {}]
    /\ processGeneration = 1
    /\ copies = <<>>
    /\ processContext = Direct0
    /\ processClock = 0
    /\ forsaken = {}

\* draft: direct operations are refused while a segment has copies.
Draft(c) == IF c = Direct0 \/ copies = <<>> THEN processes ELSE Last(copies)
MayDraft(c) == IF c = Direct0 THEN copies = <<>> ELSE c = processContext /\ Len(copies) < CopyLimit

\* The checks of a staged operation; a controlled one takes the owner's place.
Authorized(st, h, c, controlled) ==
    /\ h \in DOMAIN st.frames
    /\ c # Direct0 => /\ c.owner = h[4] \/ controlled
                      /\ st.frames[h].instance \in {0, c.instance}

\* authorize binds a frame to the first instance that uses it.
Bound(st, h, c) == IF c = Direct0 THEN st ELSE [st EXCEPT !.frames[h].instance = c.instance]

\* stage_copy, or the operation on the store itself
Put(c, st, generation) ==
    /\ IF c = Direct0 THEN processes' = st /\ UNCHANGED copies
                      ELSE copies' = Append(copies, st) /\ UNCHANGED processes
    /\ processGeneration' = generation
    /\ UNCHANGED <<processContext, processClock, forsaken>>

FreeIn(handles) == Min({n \in 0..Cardinality(handles) : \A h \in handles : h[2] # n})

CreateProcess(owner, c, controlled) ==
    LET st == Draft(c)
        h == <<"Process", FreeIn(DOMAIN st.frames), processGeneration, owner>>
        f == [state |-> "Runnable", instance |-> c.instance, ordinal |-> 0, suspension |-> NoToken]
    IN /\ MayDraft(c)
       /\ c = Direct0 \/ controlled \/ c.owner = owner
       /\ Cardinality(DOMAIN st.frames) < FrameLimit
       /\ processGeneration < ProcessGenerations
       /\ Put(c, [st EXCEPT !.frames = (h :> f) @@ @], processGeneration + 1)

BeginProcess(h, c) ==
    LET st == Draft(c)
    IN /\ MayDraft(c)
       /\ Authorized(st, h, c, FALSE)
       /\ st.frames[h].state = "Runnable"
       /\ Put(c, [Bound(st, h, c) EXCEPT !.frames[h].state = "Executing"], processGeneration)

Mature(spec) == spec.kind \in TimerKinds /\ processClock >= spec.at

\* The frame is suspended on the wait, or due for resumption at once.
SuspendedOn(st, h, token, outcome) ==
    [st EXCEPT !.frames[h].suspension = token, !.frames[h].ordinal = token[3],
               !.frames[h].state = IF outcome = "None" THEN "Suspended" ELSE "ResumeQueued"]

NewWait(st, h) == <<"Wait", FreeIn(DOMAIN st.waits), processGeneration, h[4]>>
WithWait(st, w, spec, token, outcome) ==
    [st EXCEPT !.waits = (w :> [spec |-> spec, token |-> token, outcome |-> outcome, time |-> processClock]) @@ @]

\* suspend: latched history counts for every kind but edges.
SuspendProcess(h, spec, latched, c) ==
    LET st == Draft(c)
        w == NewWait(st, h)
        token == <<h, w, st.frames[h].ordinal + 1>>
        outcome == CASE Mature(spec) -> "Ready"
                     [] spec.kind \in EdgeKinds -> "None"
                     [] OTHER -> latched
    IN /\ MayDraft(c)
       /\ Authorized(st, h, c, FALSE)
       /\ st.frames[h].state = "Executing"
       /\ Cardinality(DOMAIN st.waits) < WaitLimit
       /\ processGeneration < ProcessGenerations
       /\ Put(c, SuspendedOn(WithWait(Bound(st, h, c), w, spec, token, outcome), h, token, outcome),
              processGeneration + 1)

\* Only segments register waits.
RegisterWait(h, spec, c) ==
    LET st == Draft(c)
        w == NewWait(st, h)
        token == <<h, w, st.frames[h].ordinal + 1>>
    IN /\ c # Direct0
       /\ MayDraft(c)
       /\ Authorized(st, h, c, FALSE)
       /\ st.frames[h].state = "Executing"
       /\ \A v \in DOMAIN st.waits : st.waits[v].token[1] # h
       /\ Cardinality(DOMAIN st.waits) < WaitLimit
       /\ processGeneration < ProcessGenerations
       /\ Put(c, WithWait(Bound(st, h, c), w, spec, token, IF Mature(spec) THEN "Ready" ELSE "None"),
              processGeneration + 1)

SuspendRegistered(w, c) ==
    LET st == Draft(c)
        wait == st.waits[w]
        h == wait.token[1]
    IN /\ c # Direct0
       /\ MayDraft(c)
       /\ w \in DOMAIN st.waits
       /\ Authorized(st, h, c, FALSE)
       /\ st.frames[h].state = "Executing"
       /\ Put(c, SuspendedOn(Bound(st, h, c), h, wait.token, wait.outcome), processGeneration)

\* waiting_on
WaitingOn(st) ==
    {st.waits[w].token : w \in {v \in DOMAIN st.waits : LET h == st.waits[v].token[1] IN
        st.waits[v].outcome = "None" /\ h \in DOMAIN st.frames /\ st.frames[h].state = "Suspended"}}

\* Mutant of Timely: timers may be notified early.
TimelyAlways(wait, status, sequence) ==
    wait.spec.kind \in EdgeKinds => sequence > wait.spec.at

\* A timer is not ready before its deadline, and an edge must be a later one,
\* whatever the outcome.
Timely(wait, status, sequence) ==
    /\ wait.spec.kind \in TimerKinds /\ status = "Ready" => processClock >= wait.spec.at
    /\ wait.spec.kind \in EdgeKinds => sequence > wait.spec.at

NotifyProcess(token, status, sequence, c) ==
    LET st == Draft(c)
        h == token[1]
        w == token[2]
    IN /\ MayDraft(c)
       /\ Authorized(st, h, c, FALSE)
       /\ st.frames[h].suspension = token
       /\ st.frames[h].state = "Suspended"
       /\ Timely(st.waits[w], status, sequence)
       /\ Put(c, [Bound(st, h, c) EXCEPT !.waits[w].outcome = status, !.waits[w].time = processClock,
                                         !.frames[h].state = "ResumeQueued"],
              processGeneration)

WithoutWaits(st, ws) == [st EXCEPT !.waits = Restrict(@, DOMAIN @ \ ws)]

TakeResume(token, c) ==
    LET st == Draft(c)
        h == token[1]
    IN /\ MayDraft(c)
       /\ Authorized(st, h, c, FALSE)
       /\ st.frames[h].suspension = token
       /\ st.frames[h].state = "ResumeQueued"
       /\ Put(c, [WithoutWaits(Bound(st, h, c), {token[2]}) EXCEPT
                    !.frames[h].suspension = NoToken, !.frames[h].state = "Executing",
                    !.resumed = @ \cup {token}],
              processGeneration)

\* Only the wait that the frame is suspended on goes with it.
Ended(st, h) ==
    LET token == st.frames[h].suspension
    IN [WithoutWaits(st, IF token = NoToken THEN {} ELSE {token[2]}) EXCEPT
            !.frames = Restrict(@, DOMAIN @ \ {h})]

\* complete and cancel
CompleteProcess(h, c) ==
    LET st == Draft(c)
    IN /\ MayDraft(c)
       /\ Authorized(st, h, c, FALSE)
       /\ Put(c, Ended(st, h), processGeneration)

\* cancel_controlled drops a wait that is only registered, too.
CancelControlled(h, c) ==
    LET st == Draft(c)
        own == {w \in DOMAIN st.waits : st.waits[w].token[1] = h}
    IN /\ c # Direct0
       /\ MayDraft(c)
       /\ Authorized(st, h, c, TRUE)
       /\ Put(c, Ended(WithoutWaits(st, own), h), processGeneration)

CancelWaitControlled(w, c) ==
    LET st == Draft(c)
        token == st.waits[w].token
        h == token[1]
    IN /\ c # Direct0
       /\ MayDraft(c)
       /\ w \in DOMAIN st.waits
       /\ Authorized(st, h, c, TRUE)
       /\ \/ /\ st.frames[h].suspension = token
             /\ Put(c, Ended(st, h), processGeneration)
          \/ /\ st.frames[h].suspension = NoToken
             /\ st.frames[h].state = "Executing"
             /\ Put(c, WithoutWaits(Bound(st, h, c), {w}), processGeneration)

-----------------------------------------------------------------------------
(* The segment *)

BeginSegment(c) ==
    /\ processContext = Direct0
    /\ processContext' = c
    /\ UNCHANGED <<processes, processGeneration, copies, processClock, forsaken>>

\* validate looks at the last copy: each wait has its frame suspended on it.
Consistent(st) ==
    \A w \in DOMAIN st.waits : LET token == st.waits[w].token IN
        token[1] \in DOMAIN st.frames /\ st.frames[token[1]].suspension = token

CommitProcesses ==
    /\ processContext # Direct0
    /\ copies # <<>> => Consistent(Last(copies))
    /\ processes' = Draft(processContext)
    /\ copies' = <<>>
    /\ processContext' = Direct0
    /\ UNCHANGED <<processGeneration, processClock, forsaken>>

HandlesIn(st) == DOMAIN st.frames \cup DOMAIN st.waits

\* Back to a savepoint with n copies
RollbackProcesses(n) ==
    /\ processContext # Direct0
    /\ n < Len(copies)
    /\ LET kept == HandlesIn(processes) \cup UNION {HandlesIn(copies[i]) : i \in 1..n}
       IN forsaken' = forsaken \cup (UNION {HandlesIn(copies[i]) : i \in (n + 1)..Len(copies)} \ kept)
    /\ copies' = SubSeq(copies, 1, n)
    /\ UNCHANGED <<processes, processGeneration, processContext, processClock>>

AbandonSegment ==
    /\ processContext # Direct0
    /\ copies = <<>>        \* after RollbackProcesses(0)
    /\ processContext' = Direct0
    /\ UNCHANGED <<processes, processGeneration, copies, processClock, forsaken>>

PassTime ==
    /\ processClock < ProcessClock
    /\ processClock' = processClock + 1
    /\ UNCHANGED <<processes, processGeneration, copies, processContext, forsaken>>

\* A deadline or an edge to come; of the other kinds the number means nothing.
Specs == [kind : TimerKinds \cup EdgeKinds, at : {processClock, processClock + 1}]
         \cup [kind : WaitKinds \ (TimerKinds \cup EdgeKinds), at : {0}]

ProcessesNext ==
    \/ \E c \in ProcessContexts : BeginSegment(c)
    \/ CommitProcesses \/ AbandonSegment \/ PassTime
    \/ \E n \in 0..(CopyLimit - 1) : RollbackProcesses(n)
    \/ \E c \in {Direct0, processContext} : LET st == Draft(c) IN
        \/ \E d \in ProcessContexts, controlled \in BOOLEAN : CreateProcess(d.owner, c, controlled)
        \/ \E h \in DOMAIN st.frames :
            \/ BeginProcess(h, c)
            \/ \E spec \in Specs : \/ SuspendProcess(h, spec, "None", c)
                                   \/ /\ spec.kind \notin TimerKinds
                                      /\ SuspendProcess(h, spec, "Ready", c)
            \/ \E spec \in Specs : RegisterWait(h, spec, c)
            \/ CompleteProcess(h, c)
            \/ CancelControlled(h, c)
            \/ st.frames[h].suspension # NoToken /\ TakeResume(st.frames[h].suspension, c)
        \/ \E w \in DOMAIN st.waits : SuspendRegistered(w, c) \/ CancelWaitControlled(w, c)
        \/ \E token \in WaitingOn(st), status \in {"Ready", "Cancelled"}, n \in 0..(processClock + 1) :
            NotifyProcess(token, status, n, c)

-----------------------------------------------------------------------------
(* Properties *)

\* In the store itself every wait belongs to a frame suspended on it and every
\* suspended frame has its wait; a frame is due for resumption exactly when the
\* outcome is there; a timer is ready no earlier than its deadline; a
\* suspension is resumed once; and no handle that a segment was given and lost
\* by rolling back comes to mean anything.
ProcessesExact ==
    /\ Consistent(processes)
    /\ \A h \in DOMAIN processes.frames : LET f == processes.frames[h] IN
        /\ f.state \in {"Suspended", "ResumeQueued"} <=> f.suspension # NoToken
        /\ f.suspension # NoToken =>
            /\ f.suspension[2] \in DOMAIN processes.waits
            /\ f.suspension \notin processes.resumed
            /\ f.state = "ResumeQueued" <=> processes.waits[f.suspension[2]].outcome # "None"
    /\ \A w \in DOMAIN processes.waits : LET wait == processes.waits[w] IN
        wait.spec.kind \in TimerKinds /\ wait.outcome = "Ready" => wait.time >= wait.spec.at
    /\ forsaken \cap HandlesIn(processes) = {}

=============================================================================
