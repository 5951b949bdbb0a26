---------------------------- MODULE PayloadViews ----------------------------
(***************************************************************************)
(* Local views of payloads (PayloadShadow in runtime/src/result_store.cpp) *)
(* and the targets that serve them (stdlib/src/memory.cpp,                 *)
(* stdlib/src/register_bank.cpp).  The two sides of a hop have views of    *)
(* their own; all that a side may change lies in versioned cells that      *)
(* segments read through and write when they commit.                       *)
(*                                                                         *)
(* A byte is the set of its bits that are one.  A view is named by its hop *)
(* and side; one extension stands for all of them.  Byte limits and the    *)
(* kinds of error status are left out, and a call that is refused leaves   *)
(* everything as it is.                                                    *)
(***************************************************************************)
EXTENDS Integers, Sequences, FiniteSets, SequencesExt, FiniteSetsExt, Functions, TLC

CONSTANTS
    ViewHops,       \* numbers from 1
    BitsPerByte,    \* 8 in the code, which does not depend on it
    Requests,       \* payloads that initiators send
    MemorySize,
    Registers,      \* specs_ of the register bank
    PayloadSegments,
    WriteBudget     \* SegmentBudget::writes

VARIABLES
    request,    \* the payload of each hop, from which its views are made
    views,      \* views_, without the values of their cells
    cells,      \* VersionedCell::value by cell
    segment,    \* the open segments: epoch, writes_ and what a commit will report
    epochNow,   \* the epoch of the instances
    rule,       \* extension_rules_, of one extension
    sent,       \* responses that committed segments projected, by hop
    owed        \* history: read-to-clear bits that were raised and not reported yet,
                \* and those that were reported without being owed

payloadVars == <<request, views, cells, segment, epochNow, rule, sent, owed>>

Bits == 0..(BitsPerByte - 1)
Sides == {"Initiator", "Target"}
RequestPhases == {"begin_req", "end_resp"}
Phases == RequestPhases \cup {"end_req", "begin_resp"}

\* A registered rule is consistent: register_extension refuses the others.
Rules == {r \in [requestAllowed : BOOLEAN, responseAllowed : BOOLEAN, responseWritable : BOOLEAN,
                 requestRequired : BOOLEAN, responseRequired : BOOLEAN] :
            /\ r.responseWritable => r.responseAllowed
            /\ r.requestRequired => r.requestAllowed
            /\ r.responseRequired => r.responseAllowed}

\* check_extensions
ExtensionFits(value, response) ==
    /\ value # "None" => IF response THEN rule.responseAllowed ELSE rule.requestAllowed
    /\ (IF response THEN rule.responseRequired ELSE rule.requestRequired) => value # "None"

-----------------------------------------------------------------------------
(* Segments: EventTxn restricted to what cells need *)

Fresh(e) == [open |-> TRUE, epoch |-> e, writes |-> <<>>, conflict |-> FALSE,
             outbox |-> <<>>, raised |-> {}, lowered |-> {}, reported |-> {}]
Closed == [Fresh(0) EXCEPT !.open = FALSE]

ReadCell(t, c) == IF c \in DOMAIN t.writes THEN t.writes[c] ELSE cells[c]


\* Buffers the writes, or rolls back to the checkpoint when the budget is spent.
WriteAll(t, ws) ==
    IF Cardinality(DOMAIN t.writes \cup DOMAIN ws) <= WriteBudget
    THEN [t EXCEPT !.writes = ws @@ @]
    ELSE t

\* A view is the segment's own when its context is the segment's; epochs differ
\* after an abort.
Resolved(t, k) == t.open /\ k \in DOMAIN views /\ views[k].epoch = t.epoch

Enabled(p, j) ==        \* j counts from 1
    p.enable = <<>> \/ p.enable[((j - 1) % Len(p.enable)) + 1] # 0

\* Disabled bytes keep the baseline.
Masked(p, data) == [j \in DOMAIN data |-> IF Enabled(p, j) THEN data[j] ELSE p.data[j]]

OpenSegment(s) ==
    /\ ~segment[s].open
    /\ segment' = [segment EXCEPT ![s] = Fresh(epochNow)]
    /\ UNCHANGED <<request, views, cells, epochNow, rule, sent, owed>>

\* Segments that wrote one of the cells did so at its old version.
Overtaken(written) ==
    [s \in PayloadSegments |->
        [segment[s] EXCEPT !.conflict = @ \/ DOMAIN segment[s].writes \cap written # {}]]

CommitCells(s) ==
    LET t == segment[s]
    IN /\ t.open
       /\ ~t.conflict
       /\ t.epoch = epochNow
       /\ cells' = t.writes @@ cells
       /\ sent' = [h \in ViewHops |->
                    sent[h] \cup {t.outbox[n].response : n \in {m \in DOMAIN t.outbox : t.outbox[m].hop = h}}]
       /\ owed' = [bits |-> (owed.bits \ t.lowered) \cup t.raised,
                   twice |-> owed.twice \cup (t.reported \ owed.bits)]
       /\ segment' = [Overtaken(DOMAIN t.writes) EXCEPT ![s] = Closed]
       /\ UNCHANGED <<request, views, epochNow, rule>>

DiscardCells(s) ==
    /\ segment[s].open
    /\ segment' = [segment EXCEPT ![s] = Closed]
    /\ UNCHANGED <<request, views, cells, epochNow, rule, sent, owed>>

MoveEpoch ==
    /\ epochNow = 0
    /\ epochNow' = 1
    /\ UNCHANGED <<request, views, cells, segment, rule, sent, owed>>

InSegment(s, t) ==
    segment' = [segment EXCEPT ![s] = t] /\ UNCHANGED <<request, views, cells, epochNow, rule, sent, owed>>

-----------------------------------------------------------------------------
(* Views *)

RegisterExtension(r) ==
    /\ DOMAIN views = {}
    /\ ~rule.registered
    /\ rule' = r @@ [registered |-> TRUE]
    /\ UNCHANGED <<request, views, cells, segment, epochNow, sent, owed>>

\* The side of the initiator is created by it, the other one by the target with
\* what came in; only a target may be allowed to write the response.
CreateView(k, extension, writable) ==
    LET p == request[k[1]] IN
    /\ k \notin DOMAIN views
    /\ p.width > 0
    /\ extension # "None" => rule.registered
    /\ ExtensionFits(extension, FALSE)
    /\ views' = (k :> [epoch |-> epochNow, extension |-> extension, writable |-> writable]) @@ views
    /\ cells' = (<<k, "data">> :> p.data) @@ (<<k, "status">> :> "Incomplete") @@
                (<<k, "dmi">> :> FALSE) @@ (<<k, "latched">> :> FALSE) @@
                (<<k, "extension">> :> extension) @@ cells
    /\ UNCHANGED <<request, segment, epochNow, rule, sent, owed>>

CellsOf(k) == {k} \X {"data", "status", "dmi", "latched", "extension"}

\* Cells are addressed by pointer: the host erases no view that an open segment
\* has written.
EraseView(k) ==
    /\ \A s \in PayloadSegments : CellsOf(k) \cap DOMAIN segment[s].writes = {}
    /\ views' = Restrict(views, DOMAIN views \ {k})
    /\ cells' = Restrict(cells, DOMAIN cells \ CellsOf(k))
    /\ UNCHANGED <<request, segment, epochNow, rule, sent, owed>>

\* supplies_response: does this part of an exchange carry a response?
SuppliesResponse(access) ==
    \/ access.stage = "Call" /\ access.phase = "begin_resp"
    \/ /\ access.stage = "Return"
       /\ access.phase = "begin_req"
       /\ \/ access.sync = "Completed"
          \/ access.sync = "Updated" /\ access.returned = "begin_resp"

WritePermitted(k, access) ==
    /\ k[2] = "Target"
    /\ views[k].writable
    /\ access.permit
    /\ access.phase \in {"begin_req", "begin_resp"}

BufferStatus(s, k, status, access) ==
    /\ Resolved(segment[s], k)
    /\ WritePermitted(k, access)
    /\ InSegment(s, WriteAll(segment[s], <<k, "status">> :> status))

BufferDmi(s, k, hint, access) ==
    /\ Resolved(segment[s], k)
    /\ WritePermitted(k, access)
    /\ InSegment(s, WriteAll(segment[s], <<k, "dmi">> :> hint))

BufferExtension(s, k, value, access) ==
    /\ Resolved(segment[s], k)
    /\ rule.registered /\ rule.responseWritable
    /\ WritePermitted(k, access)
    /\ InSegment(s, WriteAll(segment[s], <<k, "extension">> :> value))

DataWritable(k) == views[k].writable /\ k[2] = "Target" /\ request[k[1]].command = "Read"

BufferedData(t, k, data) == WriteAll(t, <<k, "data">> :> Masked(request[k[1]], data))

\* buffer_data of its own takes no access context.
BufferData(s, k, data) ==
    /\ Resolved(segment[s], k)
    /\ DataWritable(k)
    /\ Len(data) = Len(request[k[1]].data)
    /\ InSegment(s, BufferedData(segment[s], k, data))

\* project_response, published with the segment
ProjectResponse(s, k, access) ==
    LET t == segment[s]
        value == ReadCell(t, <<k, "extension">>)
        response == [status |-> ReadCell(t, <<k, "status">>), dmi |-> ReadCell(t, <<k, "dmi">>),
                     data |-> IF request[k[1]].command = "Read"
                              THEN ReadCell(t, <<k, "data">>) ELSE <<>>,
                     extension |-> IF rule.responseAllowed THEN value ELSE "None"]
    IN /\ k[2] = "Target"
       /\ Resolved(t, k)
       /\ SuppliesResponse(access)
       /\ t.outbox = <<>>
       /\ ExtensionFits(response.extension, TRUE)
       /\ InSegment(s, [t EXCEPT !.outbox = <<[hop |-> k[1], response |-> response]>>])

\* deliver_response: everything the response says, and the latch, or nothing
Delivery(k, response) ==
    LET p == request[k[1]]
        data == IF p.command = "Read" THEN <<k, "data">> :> Masked(p, response.data) ELSE <<>>
        extension == IF rule.responseAllowed
                     THEN <<k, "extension">> :> response.extension ELSE <<>>
    IN (<<k, "status">> :> response.status) @@ (<<k, "dmi">> :> response.dmi) @@
       (<<k, "latched">> :> TRUE) @@ data @@ extension

DeliverResponse(s, k, response, access) ==
    LET t == segment[s]
    IN /\ Resolved(t, k)
       /\ SuppliesResponse(access)
       /\ k[2] = "Initiator"
       /\ ~ReadCell(t, <<k, "latched">>)
       /\ ExtensionFits(response.extension, TRUE)
       /\ InSegment(s, WriteAll(t, Delivery(k, response)))

=============================================================================
