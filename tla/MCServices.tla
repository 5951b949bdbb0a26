----------------------------- MODULE MCServices -----------------------------
(***************************************************************************)
(* Model checking of what processes use while they run: wait groups,       *)
(* admission, the helpers of transactions, resources, managed accesses,    *)
(* timers and interrupts, one component at a time: the component is chosen *)
(* initially and the others stay as they are.  The bounds are in the .cfg  *)
(* file.                                                                   *)
(***************************************************************************)
EXTENDS WaitGroup, Transact, Managed, Timers

VARIABLE component

servicesVars == <<component, waitVars, transactVars, resourceVars, managedVars, timerVars>>

FewOfEach == [transactions |-> 3, hops |-> 3, services |-> 1, responses |-> 2, gates |-> 3]

\* Process i waits with the group in slot i.  The second group waits for any of
\* its sources; failures come from the second source; a group of its own has
\* no branches, collects everything, or is resolved without a process.
SmallWaits ==
    LET used == UsedGroups(Present)
        Group(i) == Present.groups[i]
    IN /\ \A i \in used :
            LET g == Group(i) IN
            /\ g.desc.process = i
            /\ i = 2 => g.desc.mode = "Any" /\ g.desc.count = 1 /\ g.desc.resumes
            /\ \A o \in DOMAIN g.branches :
                /\ g.branches[o].source = o
                /\ o = 2 => g.branches[o].priority = 0 /\ 1 \in DOMAIN g.branches
                /\ g.desc.count = 1 => g.branches[o].priority = 0
                /\ g.desc.resumes => g.branches[o].candidate \in {Unready, sourceResult[g.branches[o].source]}
            /\ (\/ g.desc.policy = "CollectAll" /\ g.desc.mode = "All"
                \/ ~g.desc.resumes
                \/ g.desc.count = 0) => used = {i}
            /\ ~g.desc.resumes => g.desc.mode = "Any"
       /\ \A s \in Sources : sourceResult[s].failed =>
            s = 2 /\ \A i \in used : Group(i).desc.policy = "FailFast"
       /\ sourceResult[2].ready <= waitClock

\* Responses and the lane are looked at separately; a segment works on two hops
\* and a root is deferred alone.
SmallAdmission ==
    LET st == Store
        hops == DOMAIN st.hops
        plain == {h \in hops : ~st.hops[h].pending /\ ~st.hops[h].servicing /\ ~st.hops[h].wire}
    IN /\ admissionGeneration <= 8
       /\ \A h \in hops : st.hops[h].transport = 1 + (st.hops[h].sequence % 3)
       /\ st.gates # <<>> => /\ plain = hops /\ st.responses = <<>> /\ plain \cap Txns(st) = {}
                             /\ st.sequence <= 5
       /\ st.busy # {} => st.gates # <<>>
       /\ st.order = "InOrder" => \A h \in DOMAIN st.responses : st.responses[h].ready = 0
       /\ st.order = "ReadyOrder" => st.gates = <<>> /\ ~Drafting /\ deferredRoots = {} /\ Cardinality(hops) <= 2
       /\ Drafting => Cardinality(hops) <= 2 /\ st.sequence <= 4
       /\ Cardinality(hops) >= 2 => \A h \in hops : ~st.hops[h].deferred
       /\ deferredRoots \subseteq Txns(st)

\* A reset and a release before the response are looked at with one operation.
\* The second one is a retry, or wants the lane that the first one has.
SmallTransact ==
    LET two == helper[2].state # "Fresh"
    IN /\ two => instanceEpoch = 0 /\ "Released" \notin {hopWire[1], hopWire[2]}
       /\ two => record[1].receipt # "held" \/ helper[1].kind = "external"
       /\ two /\ ~retry.on => /\ helper[2].kind = "own"
                              /\ record[1].cancelled => helper[2].state = "GateWaiting"
                              /\ ~record[2].cancelled
       /\ retry.on => instanceEpoch = 0

\* Three tickets in all, one of them in a second segment
Issued(cell) == FoldFunction(LAMBDA r, n : n + r.generation, 0, cell.records)
SmallResource ==
    /\ \A s \in ResourceSegments : Issued(CellOf(s)) <= 3
    /\ copyOf[2].open => /\ copyOf[1].written \/ copyOf[2].written
                         /\ Issued(CellOf(2)) - Issued(resource) <= 1
                         /\ copyOf[1].open => Issued(CellOf(1)) + Issued(CellOf(2)) <= 3

\* The first access is to one address, the second one writes both; a change of
\* the region, a replaced backing, a reused lease, a bound resource and a view
\* are looked at with the first access only, or one at a time.
SmallManaged ==
    LET m == IF view.open THEN view.manager ELSE manager
        ops == Ops(m)
    IN /\ \A i \in Leases(m) : m.leases[i].permission = Commands /\ m.leases[i].range = Addresses
       /\ \A i \in ops :
            /\ m.ops[i].range = IF i = 1 THEN {0} ELSE {0, 1}
            /\ m.ops[i].arrival <= 1
            /\ m.ops[i].released => m.ops[i].terminal \/ (ops = {1} /\ m.changes = {})
       /\ 2 \in ops => /\ m.ops[2].command = "Write" /\ 1 \in ops
                       /\ m.ops[2].failure # "ServiceFailure" /\ identities.leases[1] = 1
       /\ \A c \in m.changes : c.range = {0} /\ c.time >= 1 /\ ops = {1}
       /\ view.open => /\ ~bound /\ manager.sequence <= 1 /\ m.now <= 1
                       /\ ops \cup Ops(manager) \subseteq {1}
                       /\ identities.ops[1] <= 1 /\ identities.leases[1] <= 1
                       /\ region.backing # 0
       /\ identities.leases[1] = 2 => ops \subseteq {1} /\ m.changes = {}
       /\ bound => region.policy = "CancelBeforeCommit" /\ m.changes = {}
       /\ granted # {} /\ copyOf[1].open => ops \subseteq {1}
       /\ region.backing = 2 => identities.ops[1] <= 1 /\ (identities.ops[1] = 0 => ops # {})
       /\ identities.ops[1] = 2 => ~bound /\ region.policy = "AllowToComplete"

\* A view that was overtaken is only discarded.
ViewCurrent == view.open /\ ~view.current => ~view.open'

\* Another client cancels the tickets of the resource that accesses reserved.
Interferes == bound /\ (OpenCopy(1, 1) \/ CommitCopy(1) \/ \E t \in Tickets(CellOf(1)) : CancelIn(1, t))

\* One device; a segment makes two changes, a second one beside it makes one.
Operations(s) ==
    Len(draft[s].pulses) + Cardinality(DOMAIN draft[s].staged) + Cardinality(draft[s].resets)
SmallTimers ==
    /\ \A s \in TimerSegments :
        /\ DOMAIN draft[s].cells \cup draft[s].resets \subseteq {component, "level"}
        /\ Operations(s) <= 2
    /\ component = "interrupt" => lastToken <= 2
    /\ draft[2].open => Operations(1) > 0 /\ Operations(2) <= 1

\* A segment that was overtaken does nothing but end.
DraftsCurrent ==
    \A s \in TimerSegments : draft[s].open /\ (~draft[s].current \/ draft[s].epoch # epoch) =>
        ~draft'[s].open \/ draft'[s] = draft[s]

ServicesInit ==
    /\ component \in {"waits", "admission", "helpers", "resource", "managed", "timer", "interrupt"}
    /\ GroupsInit /\ TransactInit /\ ResourceInit /\ ManagedInit /\ TimersInit
    /\ component # "admission" => admission.order = "InOrder"
    /\ component # "helpers" => ~retry.on
    /\ component # "timer" => config = 0

WaitsStep == WaitsNext /\ SmallWaits' /\ UNCHANGED <<transactVars, resourceVars, managedVars, timerVars>>
AdmissionStep ==
    AdmissionNext /\ SmallAdmission' /\ UNCHANGED <<waitVars, helperVars, resourceVars, managedVars, timerVars>>
HelpersStep == TransactNext /\ SmallTransact' /\ UNCHANGED <<waitVars, resourceVars, managedVars, timerVars>>
ResourceStep ==
    ResourceNext /\ SmallResource' /\ UNCHANGED <<waitVars, transactVars, managedVars, timerVars>>
ManagedStep ==
    /\ (ManagedNext /\ ViewCurrent) \/ (Interferes /\ UNCHANGED managedVars)
    /\ SmallManaged'
    /\ UNCHANGED <<waitVars, transactVars, timerVars>>
TimersStep ==
    /\ TimersNext /\ SmallTimers' /\ DraftsCurrent
    /\ UNCHANGED <<waitVars, transactVars, resourceVars, managedVars>>

ServicesNext ==
    /\ UNCHANGED component
    /\ \/ component = "waits" /\ WaitsStep
       \/ component = "admission" /\ AdmissionStep
       \/ component = "helpers" /\ HelpersStep
       \/ component = "resource" /\ ResourceStep
       \/ component = "managed" /\ ManagedStep
       \/ component \in {"timer", "interrupt"} /\ TimersStep

ServicesSpec == ServicesInit /\ [][ServicesNext]_servicesVars

\* The helpers alone
HelpersSpec == ServicesInit /\ component = "helpers" /\ [][ServicesNext]_servicesVars

\* HelpersExact of Transact, where the lane is used by helpers: what the
\* operations of transactions hold in the lane, on the wire and in the drains,
\* however they are cancelled, reset, timed out and retried.
HelpersHold == component = "helpers" => HelpersExact

=============================================================================
