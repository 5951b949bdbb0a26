----------------------------- MODULE MCStores -----------------------------
(***************************************************************************)
(* Model checking of the stores that segments write, one component at a    *)
(* time: the component is chosen initially and the others stay as they     *)
(* are.  The bounds are in the .cfg file.                                  *)
(***************************************************************************)
EXTENDS ResultStore, TargetStorage, ProcessStore, BoundedQueue, Crossbar

VARIABLE component

storesVars == <<component, resultVars, payloadVars, processVars, queueVarsAll, crossbarVars>>

\* A read with a disabled byte, and a write whose second byte falls on the
\* first one.
ReadOne == [command |-> "Read", address |-> 0, data |-> <<{0}, {0}>>, width |-> 2,
            enable |-> <<255, 0>>]
WriteTwice == [command |-> "Write", address |-> 0, data |-> <<{0}, {}>>, width |-> 1,
               enable |-> <<>>]
TwoRequests == {ReadOne, WriteTwice}

\* One big endian register with a read-to-clear bit in each byte
OneRegister ==
    <<[offset |-> 0, bytes |-> 2, endian |-> "Big", allowed |-> {1, 2}, alignment |-> 0,
       fields |-> {[lsb |-> 0, width |-> 1, access |-> "RC"],
                   [lsb |-> 1, width |-> 1, access |-> "RC"]}]>>

Written == UNION {DOMAIN segment[s].writes : s \in PayloadSegments}
Opened == {s \in PayloadSegments : segment[s].open}

\* Either the memory or the bank is used, and only the bank by two segments.
SmallTargets ==
    \/ MemoryCell \notin Written /\ \A a \in DOMAIN cells[MemoryCell] : cells[MemoryCell][a] = {}
    \/ BankCell \notin Written /\ cells[BankCell] = {} /\ Opened \subseteq {1}

\* An extension, a change of the epoch and two open segments are looked at
\* separately; two segments are there for two deliveries to the initiator.
SmallViews ==
    /\ rule.registered => /\ rule.requestAllowed /\ ~rule.requestRequired /\ rule.responseAllowed
                          /\ request[1] = WriteTwice
    /\ epochNow = 1 => /\ ~rule.registered /\ sent[1] = {} /\ Opened \subseteq {1}
                       /\ request[1] = ReadOne
    /\ Cardinality(sent[1]) <= IF rule.registered THEN 1 ELSE 2
    /\ \A t \in {segment[s] : s \in Opened} :
        t.outbox # <<>> => t.outbox[1].response.dmi = (t.outbox[1].response.status = "Ok")
    /\ \E side \in Sides : Written \subseteq CellsOf(<<1, side>>)
    /\ Cardinality(Opened) = 2 => /\ ~rule.registered
                                  /\ Written \subseteq CellsOf(<<1, "Initiator">>)
                                  /\ \A s \in Opened : segment[s].outbox = <<>>

\* Two processes of one instance
TwoContexts == {[owner |-> 1, instance |-> 1], [owner |-> 2, instance |-> 1]}

\* A second segment makes one change beside the first one, and one that was
\* overtaken does nothing but end.
SmallQueue ==
    /\ queueDraft[2].open => queueDraft[1].wrote \/ queueDraft[2].wrote
    /\ queueDraft[2].wrote => queueDraft[1].open
    /\ queueDraft[2].open => openScopes = QueueScopes
QueueDraftsCurrent ==
    /\ queueDraft[2].wrote => ~queueDraft'[2].open \/ [queueDraft'[2] EXCEPT !.current = TRUE] = queueDraft[2]
    /\ \A s \in QueueSegments : ~queueDraft[s].current => ~queueDraft'[s].open

\* Regions that alias each other at a target, the second one read-only; a region
\* that is not affine beside one that ends with the address space; a region that
\* overlaps another, which is refused; and an empty map for the other components.
RegionOf(source, size, target, permissions, affine) ==
    [source |-> source, size |-> size, target |-> target, down |-> "memory",
     permissions |-> permissions, affine |-> affine]
FewMaps ==
    {<<RegionOf(0, 3, 1, Permissions, TRUE), RegionOf(3, 1, 2, {"Read"}, TRUE)>>,
     <<RegionOf(0, 2, 0, Permissions, FALSE), RegionOf(2, 2, 1, Permissions, TRUE)>>,
     <<RegionOf(0, 3, 0, Permissions, TRUE), RegionOf(2, 2, 0, Permissions, TRUE)>>,
     <<>>}

\* Routes and grants are looked at separately.  Upstreams are alike: the first
\* grant goes to the first one.  Two grants are for reading.
SmallCrossbar ==
    /\ routes # {} => backed = {}
    /\ \A g \in grants : g.tag = 1 => g.upstream = 1
    /\ grantsMade = 2 => \A b \in backed : b.permission = "Read"

StoresInit ==
    /\ component \in {"results", "views", "targets", "processes", "queue", "crossbar"}
    /\ ResultsInit
    /\ StorageInit
    /\ ProcessesInit
    /\ QueueInit
    /\ CrossbarInit
    /\ component = "crossbar" <=> addressMap # <<>>
    /\ component \notin {"views", "targets"} => \A h \in ViewHops : request[h] = ReadOne

StoresNext ==
    /\ UNCHANGED component
    /\ \/ component = "results" /\ ResultsNext /\ UNCHANGED <<payloadVars, processVars, queueVarsAll, crossbarVars>>
       \/ /\ component = "views" /\ ViewsNext /\ SmallViews'
          /\ UNCHANGED <<resultVars, processVars, queueVarsAll, crossbarVars>>
       \/ /\ component = "targets"
          /\ TargetsNext \/ CreateView(<<1, "Target">>, "None", TRUE)
          /\ SmallTargets'
          /\ UNCHANGED <<resultVars, processVars, queueVarsAll, crossbarVars>>
       \/ component = "processes" /\ ProcessesNext /\ UNCHANGED <<resultVars, payloadVars, queueVarsAll, crossbarVars>>
       \/ /\ component = "queue" /\ QueueNext /\ SmallQueue' /\ QueueDraftsCurrent
          /\ UNCHANGED <<resultVars, payloadVars, processVars, crossbarVars>>
       \/ /\ component = "crossbar" /\ CrossbarNext /\ SmallCrossbar'
          /\ UNCHANGED <<resultVars, payloadVars, processVars, queueVarsAll>>

StoresSpec == StoresInit /\ [][StoresNext]_storesVars

=============================================================================
