------------------------ MODULE ProtocolEngineProofs ------------------------
(***************************************************************************)
(* LanesExact and TicketsKeepLedgers for every set of hops, connections    *)
(* and segments, every set of extension rules that install_rules accepts,  *)
(* and all limits.                                                         *)
(*                                                                         *)
(* The properties are not inductive alone.  A return releases or takes a   *)
(* lane by the state its hop was in, so the invariant ties the phase of an *)
(* open call to that state (CallsKnown); a discarded ledger must have no   *)
(* call, so an open call has counted its ordinal; and a commit binds what  *)
(* was reserved, so the homes cover reservations too (TransportsApart).    *)
(***************************************************************************)
EXTENDS ProtocolEngine, TLAPS

Milestone == [kind : {"RequestReleased", "ResponseReady", "Terminal"}, time : Int]
Ledger == [connection : Connections, transport : Transports, wire : WireStates, last : Int,
           faulted : BOOLEAN, ordinal : Nat, log : Seq(Milestone)]
Ticket == [flow : Flows, phase : Phases, pre : WireStates, input : Int,
           ignored : BOOLEAN, failed : BOOLEAN]
Binding == [connection : Connections, transport : Transports, segment : Segments]

Types ==
    /\ ledgers \in [DOMAIN ledgers -> Ledger]
    /\ pending \in [DOMAIN pending -> Ticket]
    /\ prepared \in [DOMAIN prepared -> Binding]
    /\ requests \in [Connections -> WireHops \cup {None}]
    /\ responses \in [Connections -> WireHops \cup {None}]
    /\ used \subseteq WireHops

\* A hop has one home: a ledger or a reservation, and its handle is used up.
Homes ==
    /\ DOMAIN ledgers \cup DOMAIN prepared \subseteq used
    /\ DOMAIN ledgers \cap DOMAIN prepared = {}

\* Two homes on a connection differ in their transport.
Apart(f, g) ==
    \A x \in DOMAIN f, y \in DOMAIN g :
        x # y => f[x].connection # g[y].connection \/ f[x].transport # g[y].transport
TransportsApart == Apart(ledgers, ledgers) /\ Apart(ledgers, prepared) /\ Apart(prepared, prepared)

\* Whoever owns a lane is in the state that goes with it, and the other way round.
LaneOf(f, lane, w) ==
    /\ \A c \in Connections : lane[c] # None =>
          lane[c] \in DOMAIN f /\ f[lane[c]].connection = c /\ f[lane[c]].wire = w
    /\ \A h \in DOMAIN f : f[h].wire = w => lane[f[h].connection] = h

\* The state a call has put its hop in
CallState(p) ==
    CASE p.phase = "BEGIN_REQ" -> "Request"
      [] p.phase = "END_REQ" -> "RequestReleased"
      [] p.phase = "BEGIN_RESP" -> "Response"
      [] p.phase = "END_RESP" -> "Terminal"
      [] OTHER -> "Idle"

\* A call keeps its ledger, which is in the state the call has put it in.
CallsKnown ==
    \A h \in DOMAIN pending :
        /\ h \in DOMAIN ledgers
        /\ ledgers[h].ordinal > 0
        /\ pending[h].ignored <=> pending[h].phase \in Ignorable
        /\ ~pending[h].ignored => ledgers[h].wire = CallState(pending[h])

OneWay ==
    \A g, h \in DOMAIN pending :
        ledgers[g].connection = ledgers[h].connection => pending[g].flow = pending[h].flow

PInv == /\ Types /\ Homes /\ TransportsApart
        /\ LaneOf(ledgers, requests, "Request") /\ LaneOf(ledgers, responses, "Response")
        /\ CallsKnown /\ OneWay

-----------------------------------------------------------------------------
(* What the invariant says of the properties *)

\* The invariant gives the lane property: owners and states match one to one.
LEMMA InvariantLanes == PInv => LanesExact
<1> SUFFICES ASSUME PInv, NEW c \in Connections
             PROVE  LET In(w) == {h \in DOMAIN ledgers : ledgers[h].connection = c /\ ledgers[h].wire = w}
                        calls == {h \in DOMAIN pending : ledgers[h].connection = c}
                    IN /\ In("Request") = {requests[c]} \ {None}
                       /\ In("Response") = {responses[c]} \ {None}
                       /\ \A g, h \in calls : pending[g].flow = pending[h].flow
  BY DEF LanesExact
<1>1. ASSUME NEW h \in DOMAIN ledgers
      PROVE  h # None
  BY ProtocolAssumption DEF PInv, Types, Homes, None
<1>2. {h \in DOMAIN ledgers : ledgers[h].connection = c /\ ledgers[h].wire = "Request"} = {requests[c]} \ {None}
  BY <1>1 DEF PInv, LaneOf
<1>3. {h \in DOMAIN ledgers : ledgers[h].connection = c /\ ledgers[h].wire = "Response"} = {responses[c]} \ {None}
  BY <1>1 DEF PInv, LaneOf
<1>4. \A g, h \in {h \in DOMAIN pending : ledgers[h].connection = c} : pending[g].flow = pending[h].flow
  BY DEF PInv, OneWay
<1> QED
  BY <1>2, <1>3, <1>4

\* The invariant gives the ticket property: a call has its ledger, a transport one home.
LEMMA InvariantTickets == PInv => TicketsKeepLedgers
<1> SUFFICES ASSUME PInv
             PROVE  TicketsKeepLedgers
  OBVIOUS
<1>1. DOMAIN pending \subseteq DOMAIN ledgers
  BY DEF PInv, CallsKnown
<1>2. ASSUME NEW g \in DOMAIN ledgers \cup DOMAIN prepared, NEW h \in DOMAIN ledgers \cup DOMAIN prepared, g # h
      PROVE  (IF g \in DOMAIN ledgers THEN <<ledgers[g].connection, ledgers[g].transport>>
                                      ELSE <<prepared[g].connection, prepared[g].transport>>)
             # (IF h \in DOMAIN ledgers THEN <<ledgers[h].connection, ledgers[h].transport>>
                                        ELSE <<prepared[h].connection, prepared[h].transport>>)
  BY <1>2 DEF PInv, TransportsApart, Apart
<1> QED
  BY <1>1, <1>2 DEF TicketsKeepLedgers

\* The invariant holds of an engine with no ledger, call or reservation.
LEMMA InitEstablishesPInv == ProtocolInit => PInv
BY DEF ProtocolInit, PInv, Types, Homes, TransportsApart, Apart, LaneOf, CallsKnown, OneWay, None

-----------------------------------------------------------------------------
(* Ledgers, bindings and retirements *)

\* bind_ledger adds an idle ledger under a handle that was never used.
LEMMA BindLedgerKeeps ==
    ASSUME PInv, NEW h \in WireHops, NEW c \in Connections, NEW t \in Transports, BindLedger(h, c, t)
    PROVE  PInv'
<1> USE DEF PInv, BindLedger, Bindable, Put, NewLedger, lanes
<1>0. h \notin DOMAIN ledgers /\ h \notin DOMAIN prepared /\ h \notin DOMAIN pending /\ h # None
  BY ProtocolAssumption DEF Homes, CallsKnown, None
<1>1. Types'
  BY DEF Types, Ledger, WireStates
<1>2. Homes'
  BY <1>0 DEF Homes
<1>3. TransportsApart'
  BY <1>0 DEF TransportsApart, Apart
<1>4. LaneOf(ledgers, requests, "Request")' /\ LaneOf(ledgers, responses, "Response")'
  BY <1>0 DEF LaneOf
<1>5. CallsKnown' /\ OneWay'
  BY <1>0 DEF CallsKnown, OneWay, CallState
<1> QED
  BY <1>1, <1>2, <1>3, <1>4, <1>5

\* A ledger without a call, in a state without a lane, may go.
LEMMA DroppedLedgerKeeps ==
    ASSUME PInv, NEW h \in DOMAIN ledgers \ DOMAIN pending, ledgers[h].wire \in {"Idle", "Terminal"},
           ledgers' = Drop(ledgers, {h}), UNCHANGED <<pending, lanes, prepared, retiring, used>>
    PROVE  PInv'
<1> USE DEF PInv, Drop, Restrict, lanes
<1>1. Types'
  BY DEF Types
<1>2. Homes'
  BY DEF Homes
<1>3. TransportsApart'
  BY DEF TransportsApart, Apart
<1>4. LaneOf(ledgers, requests, "Request")' /\ LaneOf(ledgers, responses, "Response")'
  BY DEF LaneOf
<1>5. CallsKnown' /\ OneWay'
  BY DEF CallsKnown, OneWay, CallState
<1> QED
  BY <1>1, <1>2, <1>3, <1>4, <1>5

\* retire_ledger drops a terminal ledger that has no call.
LEMMA RetireLedgerKeeps ==
    ASSUME PInv, NEW h \in WireHops, RetireLedger(h)
    PROVE  PInv'
BY DroppedLedgerKeeps DEF RetireLedger

\* A ledger that never entered the wire has no call.
LEMMA UnstartedHasNoCall ==
    ASSUME PInv, NEW h \in DOMAIN ledgers, Unstarted(ledgers[h])
    PROVE  h \notin DOMAIN pending /\ ledgers[h].wire = "Idle"
BY DEF PInv, CallsKnown, Unstarted

\* discard_unstarted_ledger drops a ledger that no call has entered.
LEMMA DiscardUnstartedKeeps ==
    ASSUME PInv, NEW h \in WireHops, DiscardUnstartedLedger(h)
    PROVE  PInv'
BY DroppedLedgerKeeps, UnstartedHasNoCall DEF DiscardUnstartedLedger

\* A reservation of a segment takes a new handle and a free transport.
LEMMA PrepareBindKeeps ==
    ASSUME PInv, NEW x \in Segments, NEW h \in WireHops, NEW c \in Connections, NEW t \in Transports,
           PrepareBindLedger(x, h, c, t)
    PROVE  PInv'
<1> USE DEF PInv, PrepareBindLedger, Bindable, Put, lanes
<1>0. h \notin DOMAIN ledgers /\ h \notin DOMAIN prepared
  BY DEF Homes
<1>1. Types'
  BY DEF Types, Binding
<1>2. Homes'
  BY <1>0 DEF Homes
<1>3. TransportsApart'
  BY <1>0 DEF TransportsApart, Apart
<1>4. LaneOf(ledgers, requests, "Request")' /\ LaneOf(ledgers, responses, "Response")'
  BY DEF LaneOf
<1>5. CallsKnown' /\ OneWay'
  BY DEF CallsKnown, OneWay, CallState
<1> QED
  BY <1>1, <1>2, <1>3, <1>4, <1>5

\* What is said of ledgers and calls does not depend on retirements.
LEMMA StageRetireKeeps ==
    ASSUME PInv, NEW x \in Segments, NEW h \in WireHops, StageRetireUnstarted(x, h)
    PROVE  PInv'
BY DEF PInv, StageRetireUnstarted, lanes, Types, Homes, TransportsApart, Apart, LaneOf, CallsKnown,
       CallState, OneWay

\* Discarding a segment drops its reservations and nothing else.
LEMMA DiscardPreparedKeeps ==
    ASSUME PInv, NEW h \in WireHops, DiscardPrepared(h)
    PROVE  PInv'
<1> USE DEF PInv, DiscardPrepared, lanes, Drop, Restrict
<1>1. Types'
  BY DEF Types
<1>2. Homes'
  BY DEF Homes
<1>3. TransportsApart'
  BY DEF TransportsApart, Apart
<1>4. LaneOf(ledgers, requests, "Request")' /\ LaneOf(ledgers, responses, "Response")'
  BY DEF LaneOf
<1>5. CallsKnown' /\ OneWay'
  BY DEF CallsKnown, OneWay, CallState
<1> QED
  BY <1>1, <1>2, <1>3, <1>4, <1>5

\* A commit turns reservations into idle ledgers and drops the ledgers it retires.
LEMMA CommitKeeps ==
    ASSUME PInv, NEW x \in Segments, CommitSegment(x)
    PROVE  PInv'
<1> DEFINE B == Binds(x)
           R == Retires(x)
<1>1. B \subseteq DOMAIN prepared /\ B \cap DOMAIN ledgers = {}
  BY DEF Binds, CommitSegment, SegmentValid
<1>2. \A h \in R : h \in DOMAIN ledgers => h \notin DOMAIN pending /\ ledgers[h].wire = "Idle"
  <2> SUFFICES ASSUME NEW h \in R, h \in DOMAIN ledgers
               PROVE  h \notin DOMAIN pending /\ ledgers[h].wire = "Idle"
    OBVIOUS
  <2>1. Unstarted(ledgers[h])
    BY DEF CommitSegment, SegmentValid, RetirementProof, PInv, Homes
  <2> QED
    BY <2>1, UnstartedHasNoCall
<1>3. /\ DOMAIN ledgers' = (DOMAIN ledgers \cup B) \ R
      /\ ledgers' = [h \in DOMAIN ledgers' |-> IF h \in B
                        THEN NewLedger(prepared[h].connection, prepared[h].transport) ELSE ledgers[h]]
      /\ DOMAIN prepared' = DOMAIN prepared \ B
      /\ prepared' = [h \in DOMAIN prepared' |-> prepared[h]]
      /\ UNCHANGED <<pending, requests, responses, used>>
  BY DEF CommitSegment, Restrict, Drop, lanes
<1> HIDE DEF B, R
<1>4. Types'
  <2>1. \A h \in B : NewLedger(prepared[h].connection, prepared[h].transport) \in Ledger
    BY <1>1 DEF PInv, Types, Ledger, Binding, NewLedger, WireStates
  <2>2. ledgers' \in [DOMAIN ledgers' -> Ledger] /\ prepared' \in [DOMAIN prepared' -> Binding]
    BY <2>1, <1>3 DEF PInv, Types
  <2> QED
    BY <2>2, <1>3 DEF PInv, Types
<1>5. Homes'
  BY <1>1, <1>3 DEF PInv, Homes
<1>6. TransportsApart'
  BY <1>1, <1>3 DEF PInv, TransportsApart, Apart, NewLedger
<1>7. LaneOf(ledgers, requests, "Request")' /\ LaneOf(ledgers, responses, "Response")'
  BY <1>1, <1>2, <1>3 DEF PInv, LaneOf, NewLedger
<1>8. CallsKnown' /\ OneWay'
  BY <1>1, <1>2, <1>3 DEF PInv, CallsKnown, OneWay, CallState
<1> QED
  BY <1>4, <1>5, <1>6, <1>7, <1>8 DEF PInv

-----------------------------------------------------------------------------
(* Calls *)

\* A hop h moves from one state to another, and its lane with it: it leaves the
\* lane, or it has nothing to do with the lane, or it takes a free one.
LEMMA LaneMoves ==
    ASSUME NEW f, NEW g, NEW h \in DOMAIN f, None \notin DOMAIN f, NEW w,
           NEW lane \in [Connections -> WireHops \cup {None}], NEW after,
           \A x \in DOMAIN f : f[x].connection \in Connections,
           DOMAIN g = DOMAIN f,
           \A x \in DOMAIN f : g[x].connection = f[x].connection,
           \A x \in DOMAIN f : x # h => g[x].wire = f[x].wire,
           LaneOf(f, lane, w),
           \/ after = Released(lane, h) /\ g[h].wire # w
           \/ after = lane /\ f[h].wire # w /\ g[h].wire # w
           \/ after = lane /\ f[h].wire = g[h].wire
           \/ /\ after = [lane EXCEPT ![f[h].connection] = h]
              /\ lane[f[h].connection] = None /\ g[h].wire = w
    PROVE  LaneOf(g, after, w)
<1>1. CASE after = Released(lane, h) /\ g[h].wire # w
  BY <1>1 DEF LaneOf, Released
<1>2. CASE after = lane /\ f[h].wire # w /\ g[h].wire # w
  BY <1>2 DEF LaneOf
<1>3. CASE after = lane /\ f[h].wire = g[h].wire
  BY <1>3 DEF LaneOf
<1>4. CASE /\ after = [lane EXCEPT ![f[h].connection] = h]
           /\ lane[f[h].connection] = None /\ g[h].wire = w
  BY <1>4 DEF LaneOf
<1> QED
  BY <1>1, <1>2, <1>3, <1>4

\* A ledger that a call has moved
Moved(l, n, w, t) == [l EXCEPT !.ordinal = n, !.wire = w, !.last = t]

\* The fields of a ledger that a call changes, and those it does not
LEMMA LedgerFields ==
    ASSUME NEW l \in Ledger, NEW w \in WireStates, NEW n \in Nat, NEW t \in Int
    PROVE  LET k == Moved(l, n, w, t)
           IN /\ k \in Ledger
              /\ k.connection = l.connection /\ k.transport = l.transport
              /\ k.wire = w /\ k.ordinal = n
BY ZenonT(40) DEF Ledger, Moved

\* begin_call moves its hop by the phase of the call, and the lanes with it.
LEMMA BeginCallKeeps ==
    ASSUME PInv, NEW h \in WireHops, NEW flow \in Flows, NEW phase \in Phases, NEW input \in 0..MaxTime,
           BeginCall(h, flow, phase, input)
    PROVE  PInv'
<1> DEFINE l == ledgers[h]
           p == [flow |-> flow, phase |-> phase, pre |-> l.wire, input |-> input,
                 ignored |-> phase \in Ignorable, failed |-> FALSE]
           w == IF phase \in Ignorable THEN l.wire ELSE NextWire(l.wire, phase)
           last == IF phase \in Ignorable THEN l.last ELSE input
<1>1. /\ h \in DOMAIN ledgers /\ h \notin DOMAIN pending /\ h # None
      /\ l \in Ledger /\ l.connection \in Connections
  BY ProtocolAssumption DEF BeginCall, PInv, Types, Ledger, None
<1>2. /\ SameDirection(l.connection, flow)
      /\ phase \in Ignorable \/ Follows(h, flow, phase)
      /\ DOMAIN ledgers' = DOMAIN ledgers
      /\ ledgers' = [ledgers EXCEPT ![h] = [l EXCEPT !.ordinal = l.ordinal + 1, !.wire = w, !.last = last]]
      /\ pending' = Put(pending, h, p)
      /\ requests' = IF phase = "BEGIN_REQ" THEN [requests EXCEPT ![l.connection] = h]
                     ELSE IF phase \in {"END_REQ", "BEGIN_RESP"} THEN Released(requests, h)
                     ELSE requests
      /\ responses' = IF phase = "BEGIN_RESP" THEN [responses EXCEPT ![l.connection] = h]
                      ELSE IF phase = "END_RESP" THEN Released(responses, h)
                      ELSE responses
      /\ UNCHANGED <<prepared, used>>
  BY <1>1 DEF BeginCall, PInv, Types, Ledger
<1>3. /\ w \in WireStates /\ last \in Int
      /\ phase \notin Ignorable => w = CallState(p)
      /\ phase = "BEGIN_REQ" => w = "Request" /\ l.wire = "Idle" /\ requests[l.connection] = None
      /\ phase = "END_REQ" => w = "RequestReleased" /\ l.wire = "Request"
      /\ phase = "BEGIN_RESP" => /\ w = "Response" /\ l.wire \in {"Request", "RequestReleased"}
                                 /\ responses[l.connection] = None
      /\ phase = "END_RESP" => w = "Terminal" /\ l.wire = "Response"
      /\ phase \notin BasePhases => w = l.wire
  BY <1>1, <1>2, ProtocolAssumption DEF Follows, NextWire, CallState, BasePhases, Ledger, WireStates
<1>4. /\ ledgers'[h] \in Ledger
      /\ ledgers'[h].connection = l.connection /\ ledgers'[h].transport = l.transport
      /\ ledgers'[h].wire = w /\ ledgers'[h].ordinal = l.ordinal + 1
      /\ \A g \in DOMAIN ledgers : g # h => ledgers'[g] = ledgers[g]
  <2> DEFINE n == l.ordinal + 1
  <2>1. l \in Ledger /\ n \in Nat /\ w \in WireStates /\ last \in Int
    BY <1>1, <1>3 DEF Ledger
  <2>2. ledgers' = [ledgers EXCEPT ![h] = Moved(l, n, w, last)]
    BY <1>2 DEF Moved
  <2> HIDE DEF l, n, w, last
  <2>3. LET k == Moved(l, n, w, last)
        IN /\ k \in Ledger
           /\ k.connection = l.connection /\ k.transport = l.transport
           /\ k.wire = w /\ k.ordinal = n
    BY <2>1, LedgerFields
  <2>4. ledgers'[h] = Moved(l, n, w, last)
    BY <2>2, <1>1
  <2>5. \A g \in DOMAIN ledgers : g # h => ledgers'[g] = ledgers[g]
    BY <2>2
  <2> QED
    BY <2>3, <2>4, <2>5, SMTT(40) DEF n
<1>5. /\ DOMAIN pending' = DOMAIN pending \cup {h}
      /\ pending'[h] = p
      /\ \A g \in DOMAIN pending : pending'[g] = pending[g]
  BY <1>1, <1>2 DEF Put
<1>6. p \in Ticket
  BY <1>1, SMTT(40) DEF Ticket, Ledger
<1>7. Types'
  BY <1>1, <1>2, <1>4, <1>5, <1>6, ProtocolAssumption DEF PInv, Types, Released, Put
<1> HIDE DEF l, p, w, last
<1>8. Homes'
  BY <1>2 DEF PInv, Homes
<1>9. TransportsApart'
  BY <1>1, <1>2, <1>4 DEF PInv, TransportsApart, Apart, l
<1>10. \A g \in DOMAIN ledgers : /\ ledgers[g].connection \in Connections
                                 /\ ledgers'[g].connection = ledgers[g].connection
                                 /\ g # h => ledgers'[g].wire = ledgers[g].wire
                                 /\ g # None
  BY <1>4, ProtocolAssumption, SMTT(40) DEF PInv, Types, Homes, Ledger, l, None
<1>11. LaneOf(ledgers, requests, "Request")'
  <2>1. \/ requests' = Released(requests, h) /\ w # "Request"
        \/ requests' = requests /\ l.wire # "Request" /\ w # "Request"
        \/ requests' = requests /\ l.wire = w
        \/ requests' = [requests EXCEPT ![l.connection] = h] /\ requests[l.connection] = None /\ w = "Request"
    BY <1>2, <1>3 DEF BasePhases
  <2>2. /\ requests \in [Connections -> WireHops \cup {None}] /\ LaneOf(ledgers, requests, "Request")
        /\ None \notin DOMAIN ledgers /\ h \in DOMAIN ledgers /\ DOMAIN ledgers' = DOMAIN ledgers
        /\ ledgers'[h].wire = w
    BY <1>1, <1>2, <1>4, <1>10 DEF PInv, Types
  <2> QED
    BY <2>1, <2>2, <1>10, LaneMoves DEF l
<1>12. LaneOf(ledgers, responses, "Response")'
  <2>1. \/ responses' = Released(responses, h) /\ w # "Response"
        \/ responses' = responses /\ l.wire # "Response" /\ w # "Response"
        \/ responses' = responses /\ l.wire = w
        \/ responses' = [responses EXCEPT ![l.connection] = h] /\ responses[l.connection] = None /\ w = "Response"
    BY <1>2, <1>3 DEF BasePhases
  <2>2. /\ responses \in [Connections -> WireHops \cup {None}] /\ LaneOf(ledgers, responses, "Response")
        /\ None \notin DOMAIN ledgers /\ h \in DOMAIN ledgers /\ DOMAIN ledgers' = DOMAIN ledgers
        /\ ledgers'[h].wire = w
    BY <1>1, <1>2, <1>4, <1>10 DEF PInv, Types
  <2> QED
    BY <2>1, <2>2, <1>10, LaneMoves DEF l
<1>13. CallsKnown'
  <2> SUFFICES ASSUME NEW g \in DOMAIN pending'
               PROVE  /\ g \in DOMAIN ledgers'
                      /\ ledgers'[g].ordinal > 0
                      /\ pending'[g].ignored <=> pending'[g].phase \in Ignorable
                      /\ ~pending'[g].ignored => ledgers'[g].wire = CallState(pending'[g])
    BY DEF CallsKnown, CallState
  <2>1. CASE g = h
    <3>1. p.phase = phase /\ (p.ignored <=> phase \in Ignorable) /\ l.ordinal \in Nat
      BY <1>1, ZenonT(40) DEF p, Ledger
    <3> QED
      BY <2>1, <3>1, <1>1, <1>2, <1>3, <1>4, <1>5
  <2>2. CASE g # h
    BY <2>2, <1>2, <1>4, <1>5 DEF PInv, CallsKnown
  <2> QED
    BY <2>1, <2>2
<1>14. OneWay'
  <2>1. p.flow = flow
    BY DEF p
  <2> QED
    BY <2>1, <1>1, <1>2, <1>4, <1>5 DEF PInv, OneWay, CallsKnown, SameDirection, l
<1> QED
  BY <1>7, <1>8, <1>9, <1>11, <1>12, <1>13, <1>14 DEF PInv

\* A fault changes no state of a hop and no lane.
LEMMA FaultKeeps ==
    ASSUME PInv, NEW h \in DOMAIN pending,
           pending' = [pending EXCEPT ![h].failed = TRUE],
           ledgers' = [ledgers EXCEPT ![h].faulted = TRUE],
           UNCHANGED <<lanes, prepared, retiring, used>>
    PROVE  PInv'
<1>1. h \in DOMAIN ledgers /\ ledgers[h] \in Ledger /\ pending[h] \in Ticket
  BY DEF PInv, CallsKnown, Types
<1>2. /\ DOMAIN ledgers' = DOMAIN ledgers /\ DOMAIN pending' = DOMAIN pending
      /\ ledgers' \in [DOMAIN ledgers -> Ledger] /\ pending' \in [DOMAIN pending -> Ticket]
  BY <1>1, ZenonT(40) DEF PInv, Types, Ledger, Ticket
<1>3. \A g \in DOMAIN ledgers :
        /\ ledgers'[g].connection = ledgers[g].connection /\ ledgers'[g].transport = ledgers[g].transport
        /\ ledgers'[g].wire = ledgers[g].wire /\ ledgers'[g].ordinal = ledgers[g].ordinal
  BY <1>1 DEF PInv, Types, Ledger
<1>4. \A g \in DOMAIN pending :
        /\ pending'[g].flow = pending[g].flow /\ pending'[g].phase = pending[g].phase
        /\ pending'[g].ignored = pending[g].ignored
  BY <1>1 DEF PInv, Types, Ticket
<1>5. Types'
  BY <1>2 DEF PInv, Types, lanes
<1>6. Homes'
  BY <1>2 DEF PInv, Homes
<1>7. TransportsApart'
  BY <1>2, <1>3 DEF PInv, TransportsApart, Apart
<1>8. LaneOf(ledgers, requests, "Request")' /\ LaneOf(ledgers, responses, "Response")'
  BY <1>2, <1>3 DEF PInv, LaneOf, lanes
<1>9. CallsKnown'
  BY <1>2, <1>3, <1>4 DEF PInv, CallsKnown, CallState
<1>10. OneWay'
  BY <1>2, <1>3, <1>4 DEF PInv, OneWay, CallsKnown
<1> QED
  BY <1>5, <1>6, <1>7, <1>8, <1>9, <1>10 DEF PInv

\* fail_call faults its hop and leaves the rest alone.
LEMMA FailCallKeeps ==
    ASSUME PInv, NEW h \in WireHops, FailCall(h)
    PROVE  PInv'
BY FaultKeeps, ZenonT(40) DEF FailCall

\* A return the rules refuse faults its hop and leaves the rest alone.
LEMMA EndCallBadKeeps ==
    ASSUME PInv, NEW h \in WireHops, NEW r \in Returns, EndCallBad(h, r)
    PROVE  PInv'
BY FaultKeeps, ZenonT(40) DEF EndCallBad

\* The return of an ignorable call moves neither hop nor lane.
LEMMA EndCallIgnoredKeeps ==
    ASSUME PInv, NEW h \in WireHops, NEW r \in Returns, EndCallIgnored(h, r)
    PROVE  PInv'
<1> USE DEF PInv, EndCallIgnored, lanes, Drop, Restrict
<1>1. Types'
  BY DEF Types
<1>2. Homes' /\ TransportsApart'
  BY SMTT(40) DEF Homes, TransportsApart, Apart
<1>3. LaneOf(ledgers, requests, "Request")' /\ LaneOf(ledgers, responses, "Response")'
  BY DEF LaneOf
<1>4. CallsKnown' /\ OneWay'
  BY DEF CallsKnown, OneWay, CallState
<1> QED
  BY <1>1, <1>2, <1>3, <1>4

\* What a return carries
LEMMA ReturnFields ==
    ASSUME NEW r \in Returns
    PROVE  r.sync \in Syncs /\ r.time \in Int
BY ProtocolAssumption DEF Returns, Syncs

\* A good return reports a sequence of milestones.
LEMMA MilestonesTyped ==
    ASSUME NEW p \in Ticket, NEW r \in Returns
    PROVE  Milestones(p, r) \in Seq(Milestone)
<1> DEFINE at == IF r.sync = "Accepted" THEN p.input ELSE r.time
           If(c, kind, time) == IF c THEN <<[kind |-> kind, time |-> time]>> ELSE <<>>
<1>1. at \in Int /\ p.input \in Int
  BY ReturnFields DEF Ticket
<1> DEFINE a == If(p.phase = "END_REQ" \/ (p.phase = "BEGIN_RESP" /\ p.pre = "Request"),
                   "RequestReleased", p.input)
           b == If(p.phase = "BEGIN_RESP", "ResponseReady", p.input)
           d == If(ReleasesRequest(p, r), "RequestReleased", at)
           e == If(Shortcut(p, r), "ResponseReady", at)
           f == If(Closes(p, r), "Terminal", at)
<1>3. a \in Seq(Milestone) /\ b \in Seq(Milestone) /\ d \in Seq(Milestone) /\ e \in Seq(Milestone) /\ f \in Seq(Milestone)
  <2>1. /\ <<>> \in Seq(Milestone)
        /\ <<[kind |-> "RequestReleased", time |-> p.input]>> \in Seq(Milestone)
        /\ <<[kind |-> "ResponseReady", time |-> p.input]>> \in Seq(Milestone)
        /\ <<[kind |-> "RequestReleased", time |-> at]>> \in Seq(Milestone)
        /\ <<[kind |-> "ResponseReady", time |-> at]>> \in Seq(Milestone)
        /\ <<[kind |-> "Terminal", time |-> at]>> \in Seq(Milestone)
    <3>1. \A k \in {"RequestReleased", "ResponseReady", "Terminal"}, t \in Int :
             [kind |-> k, time |-> t] \in Milestone
      BY DEF Milestone
    <3>2. <<>> \in Seq(Milestone) /\ \A m \in Milestone : <<m>> \in Seq(Milestone)
      OBVIOUS
    <3> HIDE DEF at
    <3> QED
      BY <1>1, <3>1, <3>2
  <2> HIDE DEF at
  <2>2. a \in Seq(Milestone) /\ b \in Seq(Milestone)
    BY <2>1
  <2>3. d \in Seq(Milestone)
    BY <2>1
  <2>4. e \in Seq(Milestone)
    BY <2>1
  <2>5. f \in Seq(Milestone)
    BY <2>1
  <2> QED
    BY <2>2, <2>3, <2>4, <2>5
<1>4. Milestones(p, r) = a \o b \o d \o e \o f
  BY DEF Milestones
<1> HIDE DEF a, b, d, e, f
<1>5. a \o b \o d \o e \o f \in Seq(Milestone)
  BY <1>3, SMTT(40)
<1> QED
  BY <1>4, <1>5

\* Where a good return may take a hop, by the phase of its call
LEMMA GoodReturn ==
    ASSUME PInv, NEW h \in DOMAIN pending, NEW r \in Returns, ~pending[h].ignored, ~Bad(h, r)
    PROVE  LET p == pending[h]
               v == ledgers[h].wire
               w == WireAfter(v, p, r)
           IN /\ w \in WireStates
              /\ ReleasesRequest(p, r) => v = "Request" /\ w \in {"RequestReleased", "Response", "Terminal"}
              /\ Closes(p, r) => w = "Terminal"
              /\ Shortcut(p, r) /\ ~Closes(p, r) =>
                    v = "Request" /\ w = "Response" /\ responses[ledgers[h].connection] = None
              /\ ~ReleasesRequest(p, r) /\ ~Closes(p, r) => w = v
              /\ ~Shortcut(p, r) /\ ~Closes(p, r) /\ ReleasesRequest(p, r) => w = "RequestReleased"
<1> DEFINE p == pending[h]
           v == ledgers[h].wire
<1>1. v = CallState(p) /\ v \in WireStates /\ r.sync \in Syncs
  BY ReturnFields DEF PInv, CallsKnown, Types, Ledger
<1>2. Shortcut(p, r) => /\ p.phase = "BEGIN_REQ" /\ ReleasesRequest(p, r)
                        /\ responses[ledgers[h].connection] = None
  BY DEF Shortcut, ReleasesRequest, Bad
<1>3. ReleasesRequest(p, r) => v = "Request"
  BY <1>1 DEF ReleasesRequest, CallState
<1> QED
  BY <1>1, <1>2, <1>3 DEF WireAfter, WireStates

\* A ledger that a return has moved
Answered(l, w, t, log) == [l EXCEPT !.wire = w, !.last = t, !.log = log]

\* The fields of a ledger that a return changes, and those it does not
LEMMA AnsweredFields ==
    ASSUME NEW l \in Ledger, NEW w \in WireStates, NEW t \in Int,
           NEW log \in Seq(Milestone)
    PROVE  LET k == Answered(l, w, t, log)
           IN /\ k \in Ledger
              /\ k.connection = l.connection /\ k.transport = l.transport
              /\ k.wire = w /\ k.ordinal = l.ordinal
BY ZenonT(40) DEF Ledger, Answered

\* A good return moves its hop by its phase and reply, and the lanes with it.
LEMMA EndCallKeeps ==
    ASSUME PInv, NEW h \in WireHops, NEW r \in Returns, EndCall(h, r)
    PROVE  PInv'
<1> DEFINE l == ledgers[h]
           p == pending[h]
           w == WireAfter(l.wire, p, r)
           last == IF r.sync = "Accepted" THEN l.last ELSE r.time
           log == l.log \o Milestones(p, r)
<1>1. /\ h \in DOMAIN pending /\ h \in DOMAIN ledgers /\ l \in Ledger /\ p \in Ticket
      /\ ~p.ignored /\ ~Bad(h, r)
  BY DEF EndCall, PInv, CallsKnown, Types
<1>2. /\ ledgers' = [ledgers EXCEPT ![h] = Answered(l, w, last, log)]
      /\ DOMAIN ledgers' = DOMAIN ledgers
      /\ pending' = Drop(pending, {h})
      /\ requests' = IF ReleasesRequest(p, r) \/ Closes(p, r) THEN Released(requests, h) ELSE requests
      /\ responses' = IF Closes(p, r) THEN Released(responses, h)
                      ELSE IF Shortcut(p, r) THEN [responses EXCEPT ![l.connection] = h]
                      ELSE responses
      /\ UNCHANGED <<prepared, used>>
  BY <1>1, ZenonT(40) DEF EndCall, Answered
<1>3. /\ w \in WireStates
      /\ ReleasesRequest(p, r) => l.wire = "Request" /\ w \in {"RequestReleased", "Response", "Terminal"}
      /\ Closes(p, r) => w = "Terminal"
      /\ Shortcut(p, r) /\ ~Closes(p, r) =>
            l.wire = "Request" /\ w = "Response" /\ responses[l.connection] = None
      /\ ~ReleasesRequest(p, r) /\ ~Closes(p, r) => w = l.wire
      /\ ~Shortcut(p, r) /\ ~Closes(p, r) /\ ReleasesRequest(p, r) => w = "RequestReleased"
  BY <1>1, GoodReturn
<1>4. last \in Int /\ log \in Seq(Milestone)
  <2>1. l.log \in Seq(Milestone) /\ l.last \in Int
    BY <1>1 DEF Ledger
  <2>2. Milestones(p, r) \in Seq(Milestone)
    BY <1>1, MilestonesTyped, SMTT(40)
  <2> QED
    BY <2>1, <2>2, ReturnFields
<1>5. w \in WireStates
  BY <1>3
<1> HIDE DEF l, p, w, last, log
<1>6. LET k == Answered(l, w, last, log)
      IN /\ k \in Ledger
         /\ k.connection = l.connection /\ k.transport = l.transport
         /\ k.wire = w /\ k.ordinal = l.ordinal
  BY <1>1, <1>4, <1>5, AnsweredFields
<1>7. ledgers'[h] = Answered(l, w, last, log) /\ \A g \in DOMAIN ledgers : g # h => ledgers'[g] = ledgers[g]
  BY <1>1, <1>2
<1>8. \A g \in DOMAIN ledgers : /\ ledgers[g].connection \in Connections
                                /\ ledgers'[g].connection = ledgers[g].connection
                                /\ ledgers'[g].transport = ledgers[g].transport
                                /\ ledgers'[g].ordinal = ledgers[g].ordinal
                                /\ g # h => ledgers'[g].wire = ledgers[g].wire
                                /\ g # None /\ ledgers'[g] \in Ledger
  BY <1>6, <1>7, ProtocolAssumption, SMTT(40) DEF PInv, Types, Homes, Ledger, l, None
<1>9. ledgers'[h].wire = w /\ l.connection \in Connections
  BY <1>1, <1>6, <1>7, <1>8 DEF l
<1>10. Types'
  <2>1. ledgers' \in [DOMAIN ledgers' -> Ledger]
    BY <1>2, <1>8, ZenonT(40) DEF PInv, Types
  <2>2. requests' \in [Connections -> WireHops \cup {None}] /\ responses' \in [Connections -> WireHops \cup {None}]
    BY <1>2, <1>9, SMTT(40) DEF PInv, Types, Released
  <2> QED
    BY <2>1, <2>2, <1>2 DEF PInv, Types, Drop, Restrict
<1>11. Homes' /\ TransportsApart'
  BY <1>2, <1>8, SMTT(40) DEF PInv, Homes, TransportsApart, Apart
<1>12. LaneOf(ledgers, requests, "Request")'
  <2>1. \/ requests' = Released(requests, h) /\ w # "Request"
        \/ requests' = requests /\ l.wire = w
    BY <1>2, <1>3
  <2>2. /\ requests \in [Connections -> WireHops \cup {None}] /\ LaneOf(ledgers, requests, "Request")
        /\ None \notin DOMAIN ledgers
    BY <1>8 DEF PInv, Types
  <2> QED
    BY <2>1, <2>2, <1>1, <1>2, <1>8, <1>9, LaneMoves, ZenonT(40) DEF l
<1>13. LaneOf(ledgers, responses, "Response")'
  <2>1. \/ responses' = Released(responses, h) /\ w # "Response"
        \/ responses' = responses /\ l.wire # "Response" /\ w # "Response"
        \/ responses' = responses /\ l.wire = w
        \/ responses' = [responses EXCEPT ![l.connection] = h] /\ responses[l.connection] = None /\ w = "Response"
    BY <1>2, <1>3
  <2>2. /\ responses \in [Connections -> WireHops \cup {None}] /\ LaneOf(ledgers, responses, "Response")
        /\ None \notin DOMAIN ledgers /\ h \in DOMAIN ledgers /\ DOMAIN ledgers' = DOMAIN ledgers
    BY <1>1, <1>2, <1>8 DEF PInv, Types
  <2> QED
    BY <2>1, <2>2, <1>8, <1>9, LaneMoves DEF l
<1>14. CallsKnown' /\ OneWay'
  <2>1. /\ DOMAIN pending' = DOMAIN pending \ {h}
        /\ \A g \in DOMAIN pending' : pending'[g] = pending[g]
    BY <1>2, SMTT(40) DEF Drop, Restrict
  <2>2. \A g \in DOMAIN pending' : /\ g \in DOMAIN ledgers' /\ g # h
                                   /\ ledgers'[g].wire = ledgers[g].wire
                                   /\ ledgers'[g].ordinal = ledgers[g].ordinal
                                   /\ ledgers'[g].connection = ledgers[g].connection
    BY <2>1, <1>2, <1>8 DEF PInv, CallsKnown
  <2>3. CallsKnown'
    BY <2>1, <2>2, SMTT(40) DEF PInv, CallsKnown, CallState
  <2>4. OneWay'
    BY <2>1, <2>2 DEF PInv, OneWay
  <2> QED
    BY <2>3, <2>4
<1> QED
  BY <1>10, <1>11, <1>12, <1>13, <1>14 DEF PInv

-----------------------------------------------------------------------------
(* The theorems *)

\* Every step of the engine keeps the invariant.
LEMMA ProtocolStepKeeps == PInv /\ [ProtocolNext]_protocolVars => PInv'
<1> SUFFICES ASSUME PInv, [ProtocolNext]_protocolVars
             PROVE  PInv'
  OBVIOUS
<1>1. CASE LedgerStep
  BY <1>1, BindLedgerKeeps, PrepareBindKeeps, RetireLedgerKeeps, DiscardUnstartedKeeps,
     StageRetireKeeps, DiscardPreparedKeeps DEF LedgerStep
<1>2. CASE CallStep
  BY <1>2, BeginCallKeeps, FailCallKeeps, EndCallBadKeeps, EndCallIgnoredKeeps, EndCallKeeps DEF CallStep
<1>3. CASE \E x \in Segments : CommitSegment(x)
  BY <1>3, CommitKeeps
<1>4. CASE UNCHANGED protocolVars
  BY <1>4 DEF protocolVars, PInv, Types, Homes, TransportsApart, Apart, LaneOf, CallsKnown, CallState,
              OneWay
<1> QED
  BY <1>1, <1>2, <1>3, <1>4 DEF ProtocolNext

\* PInv holds in every state of the protocol engine.
THEOREM ProtocolInvariance == ProtocolSpec => []PInv
<1>1. ProtocolInit => PInv
  BY InitEstablishesPInv
<1>2. PInv /\ [ProtocolNext]_protocolVars => PInv'
  BY ProtocolStepKeeps
<1> QED
  BY <1>1, <1>2, PTL DEF ProtocolSpec

\* A lane of a connection is owned by the one hop that is in the state that
\* goes with it, and calls never cross, whatever begin_call, end_call, faults,
\* retirements and segments do.
THEOREM LanesStayExact == ProtocolSpec => []LanesExact
<1>1. PInv => LanesExact
  BY InvariantLanes
<1> QED
  BY <1>1, ProtocolInvariance, PTL

\* A call ticket keeps its ledger, and a transport of a connection has one home.
THEOREM TicketsStay == ProtocolSpec => []TicketsKeepLedgers
<1>1. PInv => TicketsKeepLedgers
  BY InvariantTickets
<1> QED
  BY <1>1, ProtocolInvariance, PTL

=============================================================================
