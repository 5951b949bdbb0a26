--------------------------- MODULE ProtocolEngine ---------------------------
(***************************************************************************)
(* The TLM base protocol ledgers of one side (runtime/src/protocol.cpp)    *)
(* and their prepared binding and retirement in segments                   *)
(* (runtime/src/protocol_binding.cpp).  A ledger follows one hop on a      *)
(* connection through BEGIN_REQ, END_REQ, BEGIN_RESP and END_RESP.  A call *)
(* is two steps, begin_call and end_call with what the other side          *)
(* returned; calls of other hops, and reentrant ones, come in between.     *)
(* The return may take several phases at once.  A call that breaks the     *)
(* protocol on its return faults its ledger for good.                      *)
(*                                                                         *)
(* Calls refused without an effect are stuttering steps.  A hop has at     *)
(* most one call ticket, which is named by the hop.  Time is the tick of   *)
(* a call plus its delay.  Of a response only its usability is kept: it is *)
(* missing or incomplete, or shorter than the READ asks, or whole.         *)
(***************************************************************************)
EXTENDS Integers, Sequences, FiniteSets, Functions

CONSTANTS
    WireHops, Connections, Transports,
    Segments,       \* event transactions that prepare bindings and retirements
    LedgerLimit, TicketLimit, HistoryLimit,
    MaxTime,        \* the greatest tick; beyond it times overflow
    Extensions,     \* the extension rules of install_rules
    Ignorable       \* the phases of allow_ignorable

BasePhases == {"BEGIN_REQ", "END_REQ", "BEGIN_RESP", "END_RESP"}
Syncs == {"Accepted", "Updated", "Completed", "Unknown"}
WireStates == {"Idle", "Request", "RequestReleased", "Response", "Terminal"}
Flows == {"Forward", "Backward"}

\* What install_rules accepts: extensions leave an idle hop idle or close it,
\* never override a base phase, and are deterministic.  The mark of a free
\* lane is not a hop.
ASSUME ProtocolAssumption ==
    /\ {LedgerLimit, TicketLimit, HistoryLimit, MaxTime} \subseteq Nat
    /\ \A r \in Extensions :
          /\ r.flow \in Flows
          /\ r.phase \notin BasePhases
          /\ r.sync \in Syncs \ {"Unknown"}
          /\ r.next \in {"Idle", "Terminal"}
          /\ r.needsResponse => r.sync # "Accepted"
    /\ \A r, s \in Extensions :
          r # s => \/ r.flow # s.flow \/ r.phase # s.phase \/ r.sync # s.sync
                   \/ r.sync = "Updated" /\ r.returned # s.returned
    /\ Ignorable \cap BasePhases = {}
    /\ "none" \notin WireHops

Phases == BasePhases \cup Ignorable \cup {r.phase : r \in Extensions}

VARIABLES
    ledgers,    \* ledgers_ by hop
    pending,    \* pending_, the call ticket of a hop
    requests,   \* requests_: the hop that owns the request lane of a connection
    responses,  \* responses_
    prepared,   \* prepared_bindings_ with the segment of each
    retiring,   \* prepared_retirements_
    used        \* history: the hop handles bound so far; the store of hops never repeats one

lanes == <<requests, responses>>
protocolVars == <<ledgers, pending, requests, responses, prepared, retiring, used>>

None == "none"

ProtocolInit ==
    /\ ledgers = <<>>
    /\ pending = <<>>
    /\ requests = [c \in Connections |-> None]
    /\ responses = [c \in Connections |-> None]
    /\ prepared = <<>>
    /\ retiring = <<>>
    /\ used = {}

Put(f, x, y) == [z \in DOMAIN f \cup {x} |-> IF z = x THEN y ELSE f[z]]
Drop(f, S) == Restrict(f, DOMAIN f \ S)

\* log is history: the milestones reported for the hop
NewLedger(c, t) == [connection |-> c, transport |-> t, wire |-> "Idle", last |-> 0,
                    faulted |-> FALSE, ordinal |-> 0, log |-> <<>>]

-----------------------------------------------------------------------------
(* Ledgers *)

Bindable(h, c, t) ==
    /\ h \notin used
    /\ \A g \in DOMAIN ledgers :
          ledgers[g].connection # c \/ ledgers[g].transport # t
    /\ \A g \in DOMAIN prepared :
          prepared[g].connection # c \/ prepared[g].transport # t
    /\ Cardinality(DOMAIN ledgers) + Cardinality(DOMAIN prepared) < LedgerLimit

\* create_ledger and bind_ledger
BindLedger(h, c, t) ==
    /\ Bindable(h, c, t)
    /\ ledgers' = Put(ledgers, h, NewLedger(c, t))
    /\ used' = used \cup {h}
    /\ UNCHANGED <<pending, lanes, prepared, retiring>>

RetireLedger(h) ==
    /\ h \in DOMAIN ledgers \ DOMAIN pending
    /\ ~ledgers[h].faulted
    /\ ledgers[h].wire = "Terminal"
    /\ ledgers' = Drop(ledgers, {h})
    /\ UNCHANGED <<pending, lanes, prepared, retiring, used>>

\* The snapshot of a ledger that never entered the wire; a hop with a pending
\* call has made one.
Unstarted(l) == l.wire = "Idle" /\ ~l.faulted /\ l.ordinal = 0

DiscardUnstartedLedger(h) ==
    /\ h \in DOMAIN ledgers
    /\ Unstarted(ledgers[h])
    /\ ledgers' = Drop(ledgers, {h})
    /\ UNCHANGED <<pending, lanes, prepared, retiring, used>>

-----------------------------------------------------------------------------
(* Prepared bindings and retirements *)

PrepareBindLedger(x, h, c, t) ==
    /\ Bindable(h, c, t)
    /\ prepared' = Put(prepared, h, [connection |-> c, transport |-> t, segment |-> x])
    /\ used' = used \cup {h}
    /\ UNCHANGED <<ledgers, pending, lanes, retiring>>

\* prepared_inspect: a live ledger, or one that the same segment binds
RetirementProof(x, h) ==
    \/ h \in DOMAIN ledgers /\ Unstarted(ledgers[h])
    \/ h \in DOMAIN prepared /\ prepared[h].segment = x

StageRetireUnstarted(x, h) ==
    /\ h \notin DOMAIN retiring
    /\ RetirementProof(x, h)
    /\ retiring' = Put(retiring, h, x)
    /\ UNCHANGED <<ledgers, pending, lanes, prepared, used>>

Binds(x) == {h \in DOMAIN prepared : prepared[h].segment = x}
Retires(x) == {h \in DOMAIN retiring : retiring[h] = x}

\* Mutant of SegmentValid: a retirement is not validated again.
SegmentTrusted(x) == Binds(x) \cap DOMAIN ledgers = {}

\* ProtocolBinding::validate and ProtocolRetirement::validate
SegmentValid(x) ==
    /\ Binds(x) \cap DOMAIN ledgers = {}
    /\ \A h \in Retires(x) : RetirementProof(x, h)

\* The segment commits: bindings become ledgers, retired ledgers go.
CommitSegment(x) ==
    /\ Binds(x) \cup Retires(x) # {}
    /\ SegmentValid(x)
    /\ ledgers' = Restrict(
          [h \in DOMAIN ledgers \cup Binds(x) |->
             IF h \in Binds(x)
             THEN NewLedger(prepared[h].connection, prepared[h].transport)
             ELSE ledgers[h]],
          (DOMAIN ledgers \cup Binds(x)) \ Retires(x))
    /\ prepared' = Drop(prepared, Binds(x))
    /\ retiring' = Drop(retiring, Retires(x))
    /\ UNCHANGED <<pending, lanes, used>>

\* A rollback, or the discarded segment, gives one reservation back; what was
\* staged last goes first.
DiscardPrepared(h) ==
    /\ IF h \in DOMAIN retiring
       THEN retiring' = Drop(retiring, {h}) /\ UNCHANGED prepared
       ELSE /\ h \in DOMAIN prepared
            /\ prepared' = Drop(prepared, {h})
            /\ UNCHANGED retiring
    /\ UNCHANGED <<ledgers, pending, lanes, used>>

-----------------------------------------------------------------------------
(* Calls *)

\* A call against the direction of a pending one on its connection is refused.
SameDirection(c, flow) ==
    \A g \in DOMAIN pending : ledgers[g].connection = c => pending[g].flow = flow

\* The predecessor, direction and lane of a mandatory phase.  A BEGIN_RESP
\* without a whole response is refused.
Follows(h, flow, phase) ==
    LET l == ledgers[h]
    IN \/ /\ phase = "BEGIN_REQ" /\ flow = "Forward" /\ l.wire = "Idle"
          /\ requests[l.connection] = None
       \/ phase = "END_REQ" /\ flow = "Backward" /\ l.wire = "Request"
       \/ /\ phase = "BEGIN_RESP" /\ flow = "Backward"
          /\ l.wire \in {"Request", "RequestReleased"}
          /\ responses[l.connection] = None
       \/ phase = "END_RESP" /\ flow = "Forward" /\ l.wire = "Response"
       \/ /\ l.wire = "Idle"
          /\ \E r \in Extensions : r.flow = flow /\ r.phase = phase

NextWire(w, phase) ==
    CASE phase = "BEGIN_REQ" -> "Request"
      [] phase = "END_REQ" -> "RequestReleased"
      [] phase = "BEGIN_RESP" -> "Response"
      [] phase = "END_RESP" -> "Terminal"
      [] OTHER -> w

Released(lane, h) == [c \in Connections |-> IF lane[c] = h THEN None ELSE lane[c]]

BeginCall(h, flow, phase, input) ==
    LET l == ledgers[h]
        ignored == phase \in Ignorable
    IN /\ h \in DOMAIN ledgers \ DOMAIN pending
       /\ ~l.faulted
       /\ SameDirection(l.connection, flow)
       /\ Cardinality(DOMAIN pending) < TicketLimit
       /\ l.ordinal < HistoryLimit
       /\ input >= l.last
       /\ ignored \/ Follows(h, flow, phase)
       /\ pending' = Put(pending, h, [flow |-> flow, phase |-> phase, pre |-> l.wire,
                                      input |-> input, ignored |-> ignored,
                                      failed |-> FALSE])
       /\ ledgers' = [ledgers EXCEPT
             ![h].ordinal = @ + 1,
             ![h].wire = IF ignored THEN @ ELSE NextWire(@, phase),
             ![h].last = IF ignored THEN @ ELSE input]
       /\ requests' = IF phase = "BEGIN_REQ" THEN [requests EXCEPT ![l.connection] = h]
                      ELSE IF phase \in {"END_REQ", "BEGIN_RESP"} THEN Released(requests, h)
                      ELSE requests
       /\ responses' = IF phase = "BEGIN_RESP" THEN [responses EXCEPT ![l.connection] = h]
                       ELSE IF phase = "END_RESP" THEN Released(responses, h)
                       ELSE responses
       /\ UNCHANGED <<prepared, retiring, used>>

FailCall(h) ==
    /\ h \in DOMAIN pending
    /\ ~pending[h].failed
    /\ pending' = [pending EXCEPT ![h].failed = TRUE]
    /\ ledgers' = [ledgers EXCEPT ![h].faulted = TRUE]
    /\ UNCHANGED <<lanes, prepared, retiring, used>>

-----------------------------------------------------------------------------
(* Returns: r has a sync, a phase, a time and a response *)

\* The return of BEGIN_REQ carries the response, or releases the request.
Shortcut(p, r) ==
    /\ p.phase = "BEGIN_REQ"
    /\ r.sync = "Completed" \/ (r.sync = "Updated" /\ r.phase = "BEGIN_RESP")
ReleasesRequest(p, r) == p.phase = "BEGIN_REQ" /\ r.sync # "Accepted"

Matching(p, r) ==
    {x \in Extensions : /\ x.flow = p.flow /\ x.phase = p.phase /\ x.sync = r.sync
                        /\ r.sync = "Updated" => x.returned = r.phase}

Closes(p, r) ==
    \/ p.phase = "BEGIN_REQ" /\ r.sync = "Completed"
    \/ p.phase = "BEGIN_RESP" /\ r.sync # "Accepted"
    \/ p.phase = "END_RESP"
    \/ \E x \in Matching(p, r) : x.next = "Terminal"

\* A return that the phase does not allow
WrongReturn(p, r) ==
    \/ r.sync = "Unknown"
    \/ p.phase = "BEGIN_REQ" /\ r.sync = "Updated" /\ r.phase \notin {"END_REQ", "BEGIN_RESP"}
    \/ p.phase = "END_REQ" /\ r.sync # "Accepted"
    \/ p.phase = "BEGIN_RESP" /\ r.sync = "Updated" /\ r.phase # "END_RESP"
    \/ p.phase = "END_RESP" /\ r.sync = "Updated"
    \/ /\ p.phase \notin BasePhases
       /\ ~\E x \in Matching(p, r) : x.needsResponse => r.response # "missing"

\* Mutant of Bad: the shortcut does not look at the response lane.
BadUncrowded(h, r) ==
    LET p == pending[h]
    IN IF p.ignored THEN r.sync # "Accepted"
       ELSE \/ WrongReturn(p, r)
            \/ r.sync # "Accepted" /\ (r.time > MaxTime \/ r.time < ledgers[h].last)
            \/ Shortcut(p, r) /\ r.response # "whole"

\* Every reason for which end_call faults the ledger
Bad(h, r) ==
    LET p == pending[h]
    IN IF p.ignored THEN r.sync # "Accepted"
       ELSE \/ WrongReturn(p, r)
            \/ r.sync # "Accepted" /\ (r.time > MaxTime \/ r.time < ledgers[h].last)
            \/ Shortcut(p, r) /\ r.response # "whole"
            \/ Shortcut(p, r) /\ responses[ledgers[h].connection] # None

\* Mutant of Milestones: an implicit release is not reported.
MilestonesExplicit(p, r) ==
    LET at == IF r.sync = "Accepted" THEN p.input ELSE r.time
        If(c, kind, time) == IF c THEN <<[kind |-> kind, time |-> time]>> ELSE <<>>
    IN If(p.phase = "END_REQ", "RequestReleased", p.input)
       \o If(p.phase = "BEGIN_RESP", "ResponseReady", p.input)
       \o If(ReleasesRequest(p, r), "RequestReleased", at)
       \o If(Shortcut(p, r), "ResponseReady", at)
       \o If(Closes(p, r), "Terminal", at)

\* The milestones of a good return, in the order they are reported
Milestones(p, r) ==
    LET at == IF r.sync = "Accepted" THEN p.input ELSE r.time
        If(c, kind, time) == IF c THEN <<[kind |-> kind, time |-> time]>> ELSE <<>>
    IN If(p.phase = "END_REQ" \/ (p.phase = "BEGIN_RESP" /\ p.pre = "Request"),
          "RequestReleased", p.input)
       \o If(p.phase = "BEGIN_RESP", "ResponseReady", p.input)
       \o If(ReleasesRequest(p, r), "RequestReleased", at)
       \o If(Shortcut(p, r), "ResponseReady", at)
       \o If(Closes(p, r), "Terminal", at)

WireAfter(w, p, r) ==
    IF Closes(p, r) THEN "Terminal"
    ELSE IF Shortcut(p, r) THEN "Response"
    ELSE IF ReleasesRequest(p, r) THEN "RequestReleased"
    ELSE w

\* end_call with a bad return: the ticket stays and the ledger is faulted
EndCallBad(h, r) ==
    /\ h \in DOMAIN pending
    /\ ~ledgers[h].faulted
    /\ Bad(h, r)
    /\ pending' = [pending EXCEPT ![h].failed = TRUE]
    /\ ledgers' = [ledgers EXCEPT ![h].faulted = TRUE]
    /\ UNCHANGED <<lanes, prepared, retiring, used>>

EndCallIgnored(h, r) ==
    /\ h \in DOMAIN pending
    /\ ~ledgers[h].faulted
    /\ pending[h].ignored
    /\ ~Bad(h, r)
    /\ pending' = Drop(pending, {h})
    /\ UNCHANGED <<ledgers, lanes, prepared, retiring, used>>

EndCall(h, r) ==
    LET p == pending[h]
        l == ledgers[h]
    IN /\ h \in DOMAIN pending
       /\ ~l.faulted
       /\ ~p.ignored
       /\ ~Bad(h, r)
       /\ pending' = Drop(pending, {h})
       /\ ledgers' = [ledgers EXCEPT
             ![h].wire = WireAfter(@, p, r),
             ![h].last = IF r.sync = "Accepted" THEN @ ELSE r.time,
             ![h].log = @ \o Milestones(p, r)]
       /\ requests' = IF ReleasesRequest(p, r) \/ Closes(p, r)
                      THEN Released(requests, h) ELSE requests
       /\ responses' = IF Closes(p, r) THEN Released(responses, h)
                       ELSE IF Shortcut(p, r) THEN [responses EXCEPT ![l.connection] = h]
                       ELSE responses
       /\ UNCHANGED <<prepared, retiring, used>>

-----------------------------------------------------------------------------
\* What is read of an accepted return is its sync, and of a completed one not
\* its phase.
Returns ==
    LET Return(sync, phase, time, response) ==
            [sync : sync, phase : phase, time : time, response : response]
        Times == 0..(MaxTime + 1)
        Usable == {"missing", "short", "whole"}
    IN Return({"Accepted", "Unknown"}, {"END_RESP"}, {0}, {"missing"})
       \cup Return({"Updated"}, BasePhases, Times, Usable)
       \cup Return({"Completed"}, {"END_RESP"}, Times, Usable)

LedgerStep ==
    \E h \in WireHops :
        \/ \E c \in Connections, t \in Transports :
              \/ BindLedger(h, c, t)
              \/ \E x \in Segments : PrepareBindLedger(x, h, c, t)
        \/ RetireLedger(h)
        \/ DiscardUnstartedLedger(h)
        \/ \E x \in Segments : StageRetireUnstarted(x, h)
        \/ DiscardPrepared(h)

CallStep ==
    \E h \in WireHops :
        \/ \E flow \in Flows, phase \in Phases, input \in 0..MaxTime :
              BeginCall(h, flow, phase, input)
        \/ FailCall(h)
        \/ \E r \in Returns : EndCallBad(h, r) \/ EndCallIgnored(h, r) \/ EndCall(h, r)

ProtocolNext == LedgerStep \/ CallStep \/ \E x \in Segments : CommitSegment(x)

ProtocolSpec == ProtocolInit /\ [][ProtocolNext]_protocolVars

-----------------------------------------------------------------------------
(* Properties *)

\* The exclusion rule of the base protocol: a hop owns the request lane of
\* its connection exactly while it is in a request, and the response lane
\* while it is in a response, through shortcuts, faults and retirement; so
\* each lane has one user, and none is leaked.  Calls in progress on a
\* connection never cross.
LanesExact ==
    \A c \in Connections :
        LET In(w) == {h \in DOMAIN ledgers : ledgers[h].connection = c /\ ledgers[h].wire = w}
            calls == {h \in DOMAIN pending : ledgers[h].connection = c}
        IN /\ In("Request") = {requests[c]} \ {None}
           /\ In("Response") = {responses[c]} \ {None}
           /\ \A g, h \in calls : pending[g].flow = pending[h].flow

\* The milestones of a hop tell its whole story once: between calls they are
\* those of its wire state, in order, and their times never go back.
MilestonesTellState ==
    \A h \in DOMAIN ledgers :
        LET l == ledgers[h]
            Kinds == [n \in DOMAIN l.log |-> l.log[n].kind]
            Story == <<"RequestReleased", "ResponseReady", "Terminal">>
        IN /\ \A m, n \in DOMAIN l.log : m < n => l.log[m].time <= l.log[n].time
           /\ h \notin DOMAIN pending =>
                 CASE l.wire \in {"Idle", "Request"} -> Kinds = <<>>
                   [] l.wire = "RequestReleased" -> Kinds = SubSeq(Story, 1, 1)
                   [] l.wire = "Response" -> Kinds = SubSeq(Story, 1, 2)
                   [] l.wire = "Terminal" -> Kinds \in {Story, <<"Terminal">>}

\* A call ticket keeps its ledger: neither retirement nor a segment prepared
\* before the call began can take it away, and no other ledger, bound or
\* reserved, answers to the same transport on the connection.
TicketsKeepLedgers ==
    LET Where(h) == IF h \in DOMAIN ledgers
                    THEN <<ledgers[h].connection, ledgers[h].transport>>
                    ELSE <<prepared[h].connection, prepared[h].transport>>
        All == DOMAIN ledgers \cup DOMAIN prepared
    IN /\ DOMAIN pending \subseteq DOMAIN ledgers
       /\ \A g, h \in All : g # h => Where(g) # Where(h)

=============================================================================
