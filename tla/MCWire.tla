------------------------------- MODULE MCWire -------------------------------
(***************************************************************************)
(* Model checking of the wire protocol and of the drains, one component at *)
(* a time: the component is chosen initially and the other stays as it is. *)
(* The bounds are in the .cfg file.                                        *)
(***************************************************************************)
EXTENDS DrainStore, ProtocolEngine, TLC

CONSTANTS h1, h2, h3

VARIABLE component

wireVars == <<component, vars, protocolVars>>

OneOwner == [t \in Transactions |-> 1]
SomeFlags ==
    {[terminal |-> TRUE, consumed |-> TRUE, returned |-> TRUE, pin |-> FALSE],
     [terminal |-> TRUE, consumed |-> FALSE, returned |-> FALSE, pin |-> TRUE]}

\* Segments prepare shadows for one transaction without hops: a shadow goes
\* through the same steps as the store.
SmallShadows == views = <<>> \/ (View.known \subseteq {1} /\ View.knownHops = {})

ThreeHops == {h1, h2, h3}
HopSymmetry == Permutations(ThreeHops)

\* A probe that may be accepted, or close the hop with a response
Probe == {[flow |-> "Forward", phase |-> "PROBE", sync |-> "Accepted",
           returned |-> None, next |-> "Idle", needsResponse |-> FALSE],
          [flow |-> "Forward", phase |-> "PROBE", sync |-> "Completed",
           returned |-> None, next |-> "Terminal", needsResponse |-> TRUE]}

\* Two hops make calls of every kind, extensions one at a time, or three are
\* bound and retired by segments and make few calls at one time.
Probing(h) == h \in DOMAIN pending /\ pending[h].phase \in {"PROBE", "TRACE"}
CallsAlone ==
    /\ prepared = <<>> /\ retiring = <<>> /\ Cardinality(used) <= 2
    /\ Cardinality(used) = 2 =>
        /\ \A h \in DOMAIN pending : Probing(h) => DOMAIN pending = {h}
        /\ Cardinality({h \in DOMAIN ledgers : ledgers[h].last # 0}) <= 1
FewCalls ==
    /\ \A h \in DOMAIN ledgers : ledgers[h].ordinal <= 2 /\ ledgers[h].last = 0
    /\ \A h \in DOMAIN pending : pending[h].input = 0 /\ pending[h].phase # "PROBE"

WireInit == component \in {"drains", "protocol"} /\ Init /\ ProtocolInit

WireNext ==
    /\ UNCHANGED component
    /\ \/ component = "drains" /\ Next /\ SmallShadows' /\ UNCHANGED protocolVars
       \/ component = "protocol" /\ ProtocolNext /\ (CallsAlone \/ FewCalls)' /\ UNCHANGED vars

WireSpec == WireInit /\ [][WireNext]_wireVars

=============================================================================
