----------------------------- MODULE Admission -----------------------------
(***************************************************************************)
(* Admission of requests, the order of responses and the gates of request  *)
(* lanes on one side (runtime/src/admission.cpp, admission_event.cpp).     *)
(* Hops are admitted within limits; a response permit of a connection is   *)
(* outstanding until the wire is done; a transaction asks for the request  *)
(* lane of a connection with a ticket and is granted it in turn.           *)
(*                                                                         *)
(* The store is changed directly or through the drafts of a segment.       *)
(* Transactions, hops, tickets and permits are numbers of one generator.   *)
(* The wire (ProtocolEngine) and the deferral of roots (DrainStore) are    *)
(* what these operations see of them.  Payloads, routes and input times    *)
(* are left out.                                                           *)
(***************************************************************************)
EXTENDS Integers, Sequences, FiniteSets, SequencesExt, FiniteSetsExt, Functions, TLC

CONSTANTS
    Connections, Transports,
    AdmissionLimits,        \* transactions, hops, services, responses, gates
    ResponseOrders,         \* within {"InOrder", "ReadyOrder"}: a store has one
    AdmissionGenerations,   \* bound on generation_
    DraftLimit,             \* bound on the drafts of a segment
    ResponseTimes

VARIABLES
    admission,      \* hops_, gates_, responses_, wire_busy_ and the counters
    admissionGeneration,    \* generation_, which drafts share
    drafts,         \* the drafts of the open segment, the last one on top
    deferredRoots,  \* roots that a reset holds back
    overtook        \* history: requests granted before one that was asked for earlier

admissionVars == <<admission, admissionGeneration, drafts, deferredRoots, overtook>>

AdmissionInit ==
    /\ \E order \in ResponseOrders :
        admission = [hops |-> <<>>, gates |-> <<>>, responses |-> <<>>, busy |-> {},
                     services |-> 0, reserved |-> 0, sequence |-> 0, order |-> order]
    /\ admissionGeneration = 1
    /\ drafts = <<>>
    /\ deferredRoots = {}
    /\ overtook = FALSE

Drafting == drafts # <<>>
Store == IF Drafting THEN Last(drafts) ELSE admission

\* touch refuses direct operations while a draft is open; a draft is one
\* operation of a segment.
Keep(staged, st, used) ==
    /\ admissionGeneration + used <= AdmissionGenerations
    /\ admissionGeneration' = admissionGeneration + used
    /\ IF staged THEN Len(drafts) < DraftLimit /\ drafts' = Append(drafts, st) /\ UNCHANGED admission
                 ELSE ~Drafting /\ admission' = st /\ UNCHANGED drafts

Txns(st) == {st.hops[h].txn : h \in DOMAIN st.hops}
OnConnection(st, c) == {h \in DOMAIN st.hops : st.hops[h].connection = c}
NoHop(txn, c, transport, sequence) ==
    [txn |-> txn, connection |-> c, transport |-> transport, pending |-> FALSE, servicing |-> FALSE,
     wire |-> FALSE, semantic |-> FALSE, deferred |-> FALSE, sequence |-> sequence]

WithHop(st, h, record) == [st EXCEPT !.hops = (h :> record) @@ @, !.sequence = @ + 1]
WithoutHop(st, h) == [st EXCEPT !.hops = Restrict(@, DOMAIN @ \ {h})]

Serving(st, h) ==
    [st EXCEPT !.hops[h].pending = FALSE, !.hops[h].servicing = TRUE,
               !.services = @ + 1, !.reserved = @ + 1]
CanServe(st) == st.services < AdmissionLimits.services /\ st.reserved < AdmissionLimits.responses

-----------------------------------------------------------------------------
(* Hops *)

CreateInitiator(c, transport, staged) ==
    LET st == Store
        g == admissionGeneration
    IN /\ \A h \in OnConnection(st, c) : st.hops[h].transport # transport
       /\ Cardinality(Txns(st)) < AdmissionLimits.transactions
       /\ Cardinality(DOMAIN st.hops) < AdmissionLimits.hops
       /\ Keep(staged, WithHop(st, g + 1, NoHop(g, c, transport, st.sequence)), 2)
       /\ UNCHANGED <<deferredRoots, overtook>>

\* A hop of a transaction on another connection
CreateHop(txn, c, transport, staged) ==
    LET st == Store
        g == admissionGeneration
    IN /\ txn \in Txns(st)
       /\ Cardinality(DOMAIN st.hops) < AdmissionLimits.hops
       /\ \A h \in OnConnection(st, c) : st.hops[h].transport # transport
       /\ Keep(staged, WithHop(st, g, NoHop(txn, c, transport, st.sequence)), 1)
       /\ UNCHANGED <<deferredRoots, overtook>>

\* admit, and stage_admission with the drain's word on the root
Admit(c, transport, deferred, staged) ==
    LET st == Store
        g == admissionGeneration
        h == g + 1
        service == ~deferred /\ CanServe(st)
        record == [NoHop(g, c, transport, st.sequence) EXCEPT !.pending = ~service, !.deferred = deferred]
        admitted == WithHop(st, h, record)
    IN /\ \A k \in OnConnection(st, c) : ~st.hops[k].pending /\ st.hops[k].transport # transport
       /\ Cardinality(Txns(st)) < AdmissionLimits.transactions
       /\ Cardinality(DOMAIN st.hops) < AdmissionLimits.hops
       /\ Keep(staged, IF service THEN Serving(admitted, h) ELSE admitted, 2)
       /\ deferredRoots' = IF deferred THEN deferredRoots \cup {g} ELSE deferredRoots
       /\ UNCHANGED overtook

\* The drain lets a root go on when the reset is over.
ReleaseRoot(txn) ==
    /\ txn \in deferredRoots
    /\ deferredRoots' = deferredRoots \ {txn}
    /\ UNCHANGED <<admission, admissionGeneration, drafts, overtook>>

\* promote_pending with the drain: a root that is held back stays pending, and
\* its mark goes even when there is no room for it yet.
PromotePending(c, staged) ==
    LET st == Store
        waiting == {h \in OnConnection(st, c) : st.hops[h].pending}
    IN /\ waiting # {}
       /\ \A h \in waiting : st.hops[h].txn \notin deferredRoots
       /\ LET h == Min(waiting)
              marked == [st EXCEPT !.hops[h].deferred = FALSE]
          IN Keep(staged, IF CanServe(st) THEN Serving(marked, h) ELSE marked, 0)
       /\ UNCHANGED <<deferredRoots, overtook>>

QueueResponse(h, ready, staged) ==
    LET st == Store
    IN /\ h \in DOMAIN st.hops
       /\ st.hops[h].servicing
       /\ h \notin DOMAIN st.responses
       /\ Keep(staged, [st EXCEPT !.responses = (h :> [ready |-> ready, permit |-> 0, sent |-> FALSE]) @@ @,
                                  !.hops[h].servicing = FALSE, !.services = @ - 1], 0)
       /\ UNCHANGED <<deferredRoots, overtook>>

\* Mutant of Outstanding: a permit that was used no longer counts.
OutstandingUnsent(st, c) ==
    {h \in DOMAIN st.responses \cap OnConnection(st, c) :
        st.responses[h].permit # 0 /\ ~st.responses[h].sent}

Outstanding(st, c) ==
    {h \in DOMAIN st.responses \cap OnConnection(st, c) :
        st.responses[h].permit # 0 \/ st.responses[h].sent}

\* The responses that may go next
Selectable(st, c) ==
    LET open == {h \in OnConnection(st, c) : ~st.hops[h].wire}
        queued == DOMAIN st.responses \cap OnConnection(st, c)
        First(h, among) == \A k \in among : st.hops[h].sequence <= st.hops[k].sequence
    IN IF st.order = "InOrder" THEN {h \in queued \cap open : First(h, open)}
       ELSE {h \in queued : \A k \in queued : \/ st.responses[h].ready < st.responses[k].ready
                                              \/ /\ st.responses[h].ready = st.responses[k].ready
                                                 /\ st.hops[h].sequence <= st.hops[k].sequence}

SelectResponse(c, staged) ==
    LET st == Store
    IN /\ Outstanding(st, c) = {}
       /\ \E h \in Selectable(st, c) :
            Keep(staged, [st EXCEPT !.responses[h].permit = admissionGeneration], 1)
       /\ UNCHANGED <<deferredRoots, overtook>>

CancelResponsePermit(h, staged) ==
    LET st == Store
    IN /\ h \in DOMAIN st.responses
       /\ st.responses[h].permit # 0
       /\ ~st.responses[h].sent
       /\ Keep(staged, [st EXCEPT !.responses[h].permit = 0], 0)
       /\ UNCHANGED <<deferredRoots, overtook>>

ResponseSent(h, staged) ==
    LET st == Store
    IN /\ h \in DOMAIN st.responses
       /\ st.responses[h].permit # 0
       /\ ~st.responses[h].sent
       /\ Keep(staged, [st EXCEPT !.responses[h].sent = TRUE], 0)
       /\ UNCHANGED <<deferredRoots, overtook>>

\* mark_wire_terminal and mark_semantic_terminal; sync_terminal does both.
MarkTerminal(h, semantic, staged) ==
    LET st == Store
        r == st.hops[h]
        answered == h \in DOMAIN st.responses
    IN /\ h \in DOMAIN st.hops
       /\ ~r.pending /\ ~r.servicing
       /\ semantic \/ ~r.wire
       /\ ~r.semantic
       /\ Keep(staged, [st EXCEPT !.hops[h].wire = TRUE, !.hops[h].semantic = semantic,
                                  !.responses = Restrict(@, DOMAIN @ \ {h}),
                                  !.reserved = IF answered THEN @ - 1 ELSE @], 0)
       /\ UNCHANGED <<deferredRoots, overtook>>

Gated(st, txn) == \E t \in DOMAIN st.gates : st.gates[t].txn = txn

Retire(h, staged) ==
    LET st == Store
    IN /\ h \in DOMAIN st.hops
       /\ st.hops[h].wire /\ st.hops[h].semantic
       /\ ~Gated(st, st.hops[h].txn)
       /\ Keep(staged, WithoutHop(st, h), 0)
       /\ UNCHANGED <<deferredRoots, overtook>>

\* retire_unstarted, stage_retire_unstarted: the ledger of the hop did not start.
RetireUnstarted(h, staged) ==
    LET st == Store
    IN /\ h \in DOMAIN st.hops
       /\ ~st.hops[h].servicing /\ ~st.hops[h].pending
       /\ h \notin DOMAIN st.responses
       /\ ~st.hops[h].wire
       /\ ~Gated(st, st.hops[h].txn)
       /\ Keep(staged, WithoutHop(st, h), 0)
       /\ UNCHANGED <<deferredRoots, overtook>>

-----------------------------------------------------------------------------
(* Request gates *)

InState(st, c, states) == {t \in DOMAIN st.gates : st.gates[t].connection = c /\ st.gates[t].state \in states}

\* update_request_lane: a free lane goes to the earliest pending ticket, unless
\* one was granted it already.
LaneUpdated(st, c) ==
    LET waiting == InState(st, c, {"Pending"})
        first == CHOOSE t \in waiting : \A u \in waiting : st.gates[t].sequence <= st.gates[u].sequence
    IN IF c \in st.busy \/ InState(st, c, {"Granted", "Consumed"}) # {} \/ waiting = {} THEN st
       ELSE [st EXCEPT !.gates[first].state = "Granted"]

\* What the lane's owner did to the order of requests
Granting(st, after) ==
    LET new == {t \in DOMAIN after.gates : after.gates[t].state \in {"Granted", "Consumed"} /\
                    (t \in DOMAIN st.gates => st.gates[t].state = "Pending")}
    IN overtook' = (overtook \/ \E t \in new, u \in DOMAIN after.gates :
                        /\ after.gates[u].state = "Pending"
                        /\ after.gates[u].connection = after.gates[t].connection
                        /\ after.gates[u].sequence < after.gates[t].sequence)

KeepGates(staged, after, used) ==
    Keep(staged, after, used) /\ Granting(Store, after) /\ UNCHANGED deferredRoots

UpdateRequestLane(c, free, staged) ==
    LET st == [Store EXCEPT !.busy = IF free THEN @ \ {c} ELSE @ \cup {c}]
    IN KeepGates(staged, IF free THEN LaneUpdated(st, c) ELSE st, 0)

Requested(st, txn, c) ==
    LaneUpdated([st EXCEPT !.gates = (admissionGeneration :> [txn |-> txn, connection |-> c,
                                        state |-> "Pending", sequence |-> st.sequence]) @@ @,
                           !.sequence = @ + 1], c)
MayRequest(st, txn, c) ==
    LET there == {t \in DOMAIN st.gates : st.gates[t].connection = c}
    IN /\ txn \in Txns(st)
       /\ \A t \in there : st.gates[t].txn = txn => st.gates[t].state \in {"Cancelled", "Sent"}
       /\ Cardinality(there) < AdmissionLimits.gates

RequestRequestGate(txn, c, staged) ==
    /\ MayRequest(Store, txn, c)
    /\ KeepGates(staged, Requested(Store, txn, c), 1)

\* A permit at once, when nobody is before it
TryRequestPermit(txn, c, staged) ==
    LET st == Store
    IN /\ c \notin st.busy
       /\ InState(st, c, {"Pending", "Granted", "Consumed"}) = {}
       /\ MayRequest(st, txn, c)
       /\ KeepGates(staged, [Requested(st, txn, c) EXCEPT !.gates[admissionGeneration].state = "Consumed"], 1)

ConsumeRequestGate(t, staged) ==
    LET st == Store
    IN /\ t \in DOMAIN st.gates
       /\ st.gates[t].state = "Granted"
       /\ KeepGates(staged, [st EXCEPT !.gates[t].state = "Consumed"], 0)

\* Mutant of Cancelled: nobody gets the lane that the ticket gave up.
CancelledOnly(st, t) == [st EXCEPT !.gates[t].state = "Cancelled"]

Cancelled(st, t) == LaneUpdated([st EXCEPT !.gates[t].state = "Cancelled"], st.gates[t].connection)

CancelRequestGate(t, staged) ==
    LET st == Store
    IN /\ t \in DOMAIN st.gates
       /\ st.gates[t].state \notin {"Consumed", "Sent"}
       /\ KeepGates(staged, Cancelled(st, t), 0)

CancelRequestPermit(t, staged) ==
    LET st == Store
    IN /\ t \in DOMAIN st.gates
       /\ st.gates[t].state = "Consumed"
       /\ KeepGates(staged, Cancelled(st, t), 0)

RequestSent(t, staged) ==
    LET st == Store
    IN /\ t \in DOMAIN st.gates
       /\ st.gates[t].state = "Consumed"
       /\ KeepGates(staged, [st EXCEPT !.gates[t].state = "Sent", !.busy = @ \cup {st.gates[t].connection}], 0)

RetireRequestTicket(t, staged) ==
    LET st == Store
    IN /\ t \in DOMAIN st.gates
       /\ st.gates[t].state \in {"Sent", "Cancelled"}
       /\ KeepGates(staged, [st EXCEPT !.gates = Restrict(@, DOMAIN @ \ {t})], 0)

-----------------------------------------------------------------------------

ApplyDrafts ==
    /\ Drafting
    /\ admission' = Last(drafts)
    /\ drafts' = <<>>
    /\ UNCHANGED <<admissionGeneration, deferredRoots, overtook>>

\* A rolled back draft takes the deferral of a root it admitted with it.
DiscardDraft ==
    /\ Drafting
    /\ drafts' = Front(drafts)
    /\ deferredRoots' = deferredRoots \cap Txns(IF Len(drafts) = 1 THEN admission ELSE drafts[Len(drafts) - 1])
    /\ UNCHANGED <<admission, admissionGeneration, overtook>>

HopsNext(staged) ==
    \/ \E c \in Connections :
        \/ \E transport \in Transports :
            \/ CreateInitiator(c, transport, staged)
            \/ \E deferred \in BOOLEAN : Admit(c, transport, deferred, staged)
            \/ \E txn \in Txns(Store) : CreateHop(txn, c, transport, staged)
        \/ PromotePending(c, staged)
        \/ SelectResponse(c, staged)
    \/ \E h \in DOMAIN Store.hops :
        \/ \E ready \in ResponseTimes : QueueResponse(h, ready, staged)
        \/ CancelResponsePermit(h, staged) \/ ResponseSent(h, staged)
        \/ \E semantic \in BOOLEAN : MarkTerminal(h, semantic, staged)
        \/ Retire(h, staged) \/ RetireUnstarted(h, staged)

GatesNext(staged) ==
    \/ \E c \in Connections :
        \/ \E free \in BOOLEAN : UpdateRequestLane(c, free, staged)
        \/ \E txn \in Txns(Store) : RequestRequestGate(txn, c, staged) \/ TryRequestPermit(txn, c, staged)
    \/ \E t \in DOMAIN Store.gates :
        \/ ConsumeRequestGate(t, staged) \/ CancelRequestGate(t, staged)
        \/ CancelRequestPermit(t, staged) \/ RequestSent(t, staged) \/ RetireRequestTicket(t, staged)

AdmissionNext ==
    \/ \E staged \in BOOLEAN : HopsNext(staged) \/ GatesNext(staged)
    \/ \E txn \in deferredRoots : ReleaseRoot(txn)
    \/ ApplyDrafts \/ DiscardDraft

-----------------------------------------------------------------------------
(* Properties *)

\* The counters of services and of reserved responses are exact and within the
\* limits; a connection has one hop pending and one response permit outstanding
\* until its wire is done, under InOrder that of the oldest open hop.
ResponsesInTurn ==
    LET st == admission
        serving == {h \in DOMAIN st.hops : st.hops[h].servicing}
    IN /\ st.services = Cardinality(serving)
       /\ st.reserved = Cardinality(serving) + Cardinality(DOMAIN st.responses)
       /\ st.services <= AdmissionLimits.services /\ st.reserved <= AdmissionLimits.responses
       /\ DOMAIN st.responses \subseteq DOMAIN st.hops \ serving
       /\ \A c \in Connections : LET there == OnConnection(st, c) IN
            /\ Cardinality({h \in there : st.hops[h].pending}) <= 1
            /\ Cardinality({h \in there \cap DOMAIN st.responses : st.responses[h].permit # 0}) <= 1
            /\ st.order = "InOrder" =>
                \A h \in there \cap DOMAIN st.responses, k \in there :
                    st.responses[h].permit # 0 /\ ~st.hops[k].wire => st.hops[h].sequence <= st.hops[k].sequence

\* A request lane has one owner at a time, is granted in the order in which it
\* was asked for, and is never idle while a ticket waits for it: whichever way
\* the owner gives it up, the next one is granted.
LaneNeverIdle ==
    /\ ~overtook
    /\ \A c \in Connections :
        LET owners == InState(admission, c, {"Granted", "Consumed"})
        IN /\ Cardinality(owners) <= 1
           /\ c \notin admission.busy /\ InState(admission, c, {"Pending"}) # {} => owners # {}
           /\ \A t \in InState(admission, c, {"Pending", "Granted", "Consumed"}) :
                admission.gates[t].txn \in Txns(admission)

=============================================================================
