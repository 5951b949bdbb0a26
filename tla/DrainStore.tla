----------------------------- MODULE DrainStore -----------------------------
(***************************************************************************)
(* Drain responsibilities and instance resets (runtime/src/drain.cpp).     *)
(* Every transaction that may still owe wire activity has a record.  A     *)
(* record is complete when its local work is finished and each of its hops *)
(* reached the end of the wire protocol, had its terminal timing consumed  *)
(* and its cleanup returned, and is not pinned by a call.  A reset either  *)
(* waits for the cohort of the old epoch or cancels it; roots that arrive  *)
(* while it drains are deferred to the next epoch.  A segment prepares its *)
(* changes on a shadow copy (DrainUpdate), chained when it prepares again. *)
(*                                                                         *)
(* Calls that fail change nothing and are stuttering steps.                *)
(***************************************************************************)
EXTENDS Integers, Sequences, FiniteSets, Functions

CONSTANTS
    Transactions,   \* transaction handles, ordered
    Hops,           \* hop handles
    Instances,      \* the instances of add_instance
    Owner,          \* Handle::owner of every transaction
    Capacity,       \* capacity_
    HopLimit,       \* hop_limit_
    MaxEpoch, MaxReceipt, MaxReset,  \* values at which identities are exhausted
    MaxViews,       \* bound on chained preparations
    Pins,           \* the pin argument of observe_wire
    SetFlags        \* the flags passed to set_hop, which the runtime never calls

Flags == [terminal : BOOLEAN, consumed : BOOLEAN, returned : BOOLEAN, pin : BOOLEAN]

ASSUME DrainStoreAssumption ==
    /\ SetFlags \subseteq Flags
    /\ Pins \subseteq BOOLEAN
    /\ Transactions \subseteq Nat
    /\ IsFiniteSet(Transactions)
    /\ {Capacity, HopLimit, MaxEpoch, MaxViews} \subseteq Nat
    /\ {MaxReceipt, MaxReset} \subseteq Nat \ {0}

VARIABLES
    store,      \* the fields of the DrainStore; known and knownHops
                \* are history, the handles that ever had a record
    views,      \* the shadows of the pending DrainUpdates, oldest first
    editing,    \* the newest DrainUpdate is not staged yet
    issued      \* history: greatest receipt and reset identity handed out

vars == <<store, views, editing, issued>>

NoReceipt == 0
NewHop == [terminal |-> FALSE, consumed |-> FALSE, returned |-> FALSE, pin |-> FALSE]

NewRecord(i, e, hops, deferred) ==
    [instance |-> i, epoch |-> e, hops |-> hops, finished |-> FALSE,
     cancelled |-> FALSE, receipt |-> NoReceipt, released |-> FALSE,
     deferred |-> deferred, retire |-> FALSE]

\* An instance that was never reset counts as one whose reset is applied.
Init ==
    /\ store = [records |-> <<>>,
                instances |-> [i \in Instances |->
                    [epoch |-> 0, draining |-> FALSE, cohort |-> {}]],
                receipts |-> <<>>, nextReceipt |-> 1, nextReset |-> 1,
                known |-> {}, knownHops |-> {}]
    /\ views = <<>>
    /\ editing = FALSE
    /\ issued = [receipt |-> 0, reset |-> 0]

-----------------------------------------------------------------------------
(* Records *)

\* While a preparation is pending only its newest shadow can be changed, and
\* only until it is staged.
View == IF views = <<>> THEN store ELSE views[Len(views)]

Set(s) ==
    /\ IF views = <<>>
       THEN store' = s /\ UNCHANGED views
       ELSE editing /\ views' = [views EXCEPT ![Len(views)] = s] /\ UNCHANGED store
    /\ UNCHANGED editing
    /\ issued' = [receipt |-> IF s.nextReceipt # View.nextReceipt
                              THEN s.nextReceipt - 1 ELSE issued.receipt,
                  reset |-> IF s.nextReset # View.nextReset
                            THEN s.nextReset - 1 ELSE issued.reset]

Tracked(s) == DOMAIN s.records

Returned(f) == f.terminal /\ f.consumed /\ f.returned /\ ~f.pin

\* DrainStore::complete
Complete(r) ==
    /\ ~r.deferred
    /\ r.finished
    /\ \A h \in DOMAIN r.hops : Returned(r.hops[h])

Status(r) == IF Complete(r) THEN "Complete" ELSE "Pending"

\* DrainStore::refresh of the records in T
Refreshed(s, T) ==
    LET changed == {t \in T : /\ s.records[t].receipt # NoReceipt
                              /\ ~s.records[t].released}
    IN [s EXCEPT !.receipts = [n \in DOMAIN @ |->
           IF \E t \in changed : s.records[t].receipt = n
           THEN Status(s.records[CHOOSE t \in changed : s.records[t].receipt = n])
           ELSE @[n]]]

InCohort(s, t) == \E i \in Instances : t \in s.instances[i].cohort

\* Mutants of Collectable: the cohort, or the receipt, is not looked at.
CollectableInCohort(s, t) ==
    LET r == s.records[t]
    IN /\ Complete(r)
       /\ r.receipt # NoReceipt => r.released
       /\ ~(r.cancelled /\ r.receipt = NoReceipt /\ ~r.retire)

Collectable(s, t) ==
    LET r == s.records[t]
    IN /\ Complete(r)
       /\ r.receipt # NoReceipt => r.released
       /\ ~InCohort(s, t)
       /\ ~(r.cancelled /\ r.receipt = NoReceipt /\ ~r.retire)

\* DrainStore::collect
Collected(s) ==
    [s EXCEPT !.records = Restrict(@, {t \in DOMAIN @ : ~Collectable(s, t)})]

WithRecord(s, t, r) ==
    [s EXCEPT !.records = [u \in DOMAIN @ \cup {t} |-> IF u = t THEN r ELSE @[u]],
              !.known = @ \cup {t},
              !.knownHops = @ \cup DOMAIN r.hops]

-----------------------------------------------------------------------------
(* Registration *)

Room(s, t, hops) ==
    /\ t \notin Tracked(s)
    /\ Cardinality(Tracked(s)) < Capacity
    /\ Cardinality(hops) <= HopLimit

\* Transaction and hop handles are not used again: a new hop belongs to one
\* transaction.
Fresh(s, t, hops) == t \notin s.known /\ hops \cap s.knownHops = {}

\* parent is a set of at most one transaction
Register(t, i, parent, hops) ==
    LET s == View
        v == s.instances[i]
        inherited == \E p \in parent : p \in v.cohort
    IN /\ Fresh(s, t, hops)
       /\ Room(s, t, hops)
       /\ \A p \in parent : /\ p \in Tracked(s)
                            /\ ~s.records[p].cancelled
                            /\ ~s.records[p].finished
                            /\ s.records[p].instance = i
                            /\ Owner[p] = Owner[t]
       /\ v.draining => inherited
       /\ LET new == WithRecord(s, t, NewRecord(i, v.epoch, [h \in hops |-> NewHop], FALSE))
          IN Set(IF inherited
                 THEN [new EXCEPT !.instances[i].cohort = @ \cup {t}] ELSE new)

\* defer_root, while the instance drains
DeferRoot(t, i, hops) ==
    LET s == View
    IN /\ Fresh(s, t, hops)
       /\ s.instances[i].draining
       /\ Room(s, t, hops)
       /\ Set(WithRecord(s, t, NewRecord(i, s.instances[i].epoch,
                                         [h \in hops |-> NewHop], TRUE)))

AddHop(t, h) ==
    LET s == View
    IN /\ t \in Tracked(s)
       /\ h \notin s.knownHops
       /\ Cardinality(DOMAIN s.records[t].hops) < HopLimit
       /\ ~s.records[t].cancelled
       /\ Set([s EXCEPT !.records[t].hops =
                  [g \in DOMAIN @ \cup {h} |-> IF g = h THEN NewHop ELSE @[g]],
                 !.knownHops = @ \cup {h}])

\* drop_unstarted_hop: the protocol engine shows a hop that never entered the
\* wire; its receipt is not refreshed.
DropUnstartedHop(t, h) ==
    LET s == View
    IN /\ t \in Tracked(s)
       /\ h \in DOMAIN s.records[t].hops
       /\ s.records[t].hops[h] = NewHop
       /\ Set([s EXCEPT !.records[t].hops = Restrict(@, DOMAIN @ \ {h})])

-----------------------------------------------------------------------------
(* Progress of records *)

\* Replaces the flags of hop h of transaction t
WithHop(s, t, h, f) == [s EXCEPT !.records[t].hops[h] = f]

SetHop(t, h, f) ==
    LET s == View
    IN /\ t \in Tracked(s)
       /\ h \in DOMAIN s.records[t].hops
       /\ LET old == s.records[t].hops[h]
          IN /\ old.terminal => f.terminal
             /\ old.consumed => f.consumed
             /\ old.returned => f.returned
             /\ f.pin => old.pin
       /\ Set(Collected(Refreshed(WithHop(s, t, h, f), {t})))

\* observe_wire after a wire call: the pin follows the call.
ObserveWire(h, terminal, pin) ==
    LET s == View
    IN \E t \in Tracked(s) :
          /\ h \in DOMAIN s.records[t].hops
          /\ LET old == s.records[t].hops[h]
                 f == [terminal |-> old.terminal \/ terminal,
                       consumed |-> old.consumed,
                       returned |-> old.returned \/ (terminal /\ ~pin),
                       pin |-> pin]
             IN Set(Collected(Refreshed(WithHop(s, t, h, f), {t})))

ConsumeTerminal(h) ==
    LET s == View
    IN \E t \in Tracked(s) :
          /\ h \in DOMAIN s.records[t].hops
          /\ s.records[t].hops[h].terminal
          /\ LET f == [s.records[t].hops[h] EXCEPT !.consumed = TRUE]
             IN Set(Collected(Refreshed(WithHop(s, t, h, f), {t})))

FinishLocal(t) ==
    LET s == View
    IN /\ t \in Tracked(s)
       /\ Set(Collected(Refreshed([s EXCEPT !.records[t].finished = TRUE], {t})))

\* retire_responsibility: a record of a reset's cohort stays until it advances
RetireResponsibility(t) ==
    LET s == View
    IN /\ t \in Tracked(s)
       /\ Complete(s.records[t])
       /\ s.records[t].receipt # NoReceipt => s.records[t].released
       /\ Set(IF InCohort(s, t)
              THEN [s EXCEPT !.records[t].retire = TRUE]
              ELSE [s EXCEPT !.records = Restrict(@, DOMAIN @ \ {t})])

-----------------------------------------------------------------------------
(* Cancellation *)

\* Transactions of T that need a receipt to be cancelled
Needy(s, T) ==
    {t \in T : s.records[t].receipt = NoReceipt /\ DOMAIN s.records[t].hops # {}}

\* cancel_local of every transaction in T in handle order: what has hops gets
\* a receipt, what has none is cancelled on the spot.
CancelledAll(s, T) ==
    LET needy == Needy(s, T)
        receipt == [t \in needy |->
                       s.nextReceipt + Cardinality({u \in needy : u < t})]
        records == [t \in Tracked(s) |->
           IF t \notin T \/ s.records[t].receipt # NoReceipt
           THEN s.records[t]
           ELSE [s.records[t] EXCEPT !.cancelled = TRUE, !.finished = TRUE,
                    !.receipt = IF t \in needy THEN receipt[t] ELSE NoReceipt]]
    IN [s EXCEPT
          !.records = records,
          !.receipts = [n \in DOMAIN @ \cup Range(receipt) |->
             IF n \in DOMAIN @ THEN @[n]
             ELSE Status(records[CHOOSE t \in needy : receipt[t] = n])],
          !.nextReceipt = @ + Cardinality(needy)]

CancelLocal(t) ==
    LET s == View
    IN /\ t \in Tracked(s)
       /\ s.records[t].receipt = NoReceipt
       /\ t \in Needy(s, {t}) => s.nextReceipt # MaxReceipt
       /\ Set(IF t \in Needy(s, {t}) THEN CancelledAll(s, {t})
              ELSE Collected(CancelledAll(s, {t})))

ReleaseReceipt(n) ==
    LET s == View
        freed == [s EXCEPT
          !.records = [t \in DOMAIN @ |->
             IF @[t].receipt = n THEN [@[t] EXCEPT !.released = TRUE] ELSE @[t]],
          !.receipts = Restrict(@, DOMAIN @ \ {n})]
    IN /\ n \in DOMAIN s.receipts
       /\ Set(Collected(freed))

-----------------------------------------------------------------------------
(* Reset *)

Cohort(s, i) ==
    {t \in Tracked(s) : /\ s.records[t].instance = i
                        /\ s.records[t].epoch = s.instances[i].epoch
                        /\ ~s.records[t].deferred}

\* The next epoch starts: deferred roots of the instance join it.
Applied(s, i) ==
    LET e == s.instances[i].epoch + 1
    IN Collected([s EXCEPT
          !.instances[i] = [epoch |-> e, draining |-> FALSE, cohort |-> {}],
          !.records = [t \in DOMAIN @ |->
             IF @[t].instance = i /\ @[t].deferred
             THEN [@[t] EXCEPT !.deferred = FALSE, !.epoch = e] ELSE @[t]]])

\* Mutants of Drained: hops do not count, or one member that is not complete
\* is enough to wait for ever.
DrainedLocally(s, i) ==
    \A t \in s.instances[i].cohort : t \in Tracked(s) => s.records[t].finished

Drained(s, i) == \A t \in s.instances[i].cohort : t \in Tracked(s) => Complete(s.records[t])

\* advance_reset when there is something to advance
Advanced(s, i) == IF Drained(s, i) THEN Applied(s, i) ELSE s

\* The reset takes an identity and fixes its cohort.
Begun(s, i) ==
    [s EXCEPT !.instances[i].draining = TRUE,
              !.instances[i].cohort = Cohort(s, i),
              !.nextReset = @ + 1]

ResetPossible(s, i) == s.instances[i].epoch # MaxEpoch /\ s.nextReset # MaxReset

\* reset(DrainThenReset); repeated while draining it returns the same reset
DrainThenReset(i) ==
    LET s == View
    IN /\ ~s.instances[i].draining
       /\ ResetPossible(s, i)
       /\ Set(Advanced(Begun(s, i), i))

\* reset(AbortLocalAndDrain), also of an instance that is draining
AbortLocalAndDrain(i) ==
    LET s == View
        b == Begun(s, i)
        ofInstance == {t \in Tracked(s) : s.records[t].instance = i}
    IN /\ ResetPossible(s, i)
       /\ Cardinality(Needy(s, ofInstance)) <= MaxReceipt - s.nextReceipt
       /\ Set(Applied(CancelledAll(b, b.instances[i].cohort), i))

AdvanceReset(i) ==
    LET s == View
    IN /\ s.instances[i].draining
       /\ Drained(s, i)
       /\ Set(Applied(s, i))

-----------------------------------------------------------------------------
(* Prepared updates *)

Greater(a, b) == IF a < b THEN b ELSE a

\* The shadow of a new update copies the newest pending view, but never goes
\* back to identities that a discarded successor burned in the store.
Shadow == [View EXCEPT !.nextReceipt = Greater(@, store.nextReceipt),
                       !.nextReset = Greater(@, store.nextReset)]

Prepare ==
    /\ ~editing
    /\ Len(views) < MaxViews
    /\ editing' = TRUE
    /\ views' = Append(views, Shadow)
    /\ UNCHANGED <<store, issued>>

\* stage_participant takes the update
StageUpdate ==
    /\ editing
    /\ editing' = FALSE
    /\ UNCHANGED <<store, views, issued>>

\* The participants of the segment apply in order: the newest shadow prevails.
ApplyUpdates ==
    /\ views # <<>>
    /\ ~editing
    /\ store' = Shadow
    /\ views' = <<>>
    /\ UNCHANGED <<editing, issued>>

\* The newest preparation is discarded (rollback, rejection, destruction).
DiscardUpdate ==
    /\ views # <<>>
    /\ store' = [store EXCEPT !.nextReceipt = Greater(@, View.nextReceipt),
                              !.nextReset = Greater(@, View.nextReset)]
    /\ views' = SubSeq(views, 1, Len(views) - 1)
    /\ editing' = FALSE
    /\ UNCHANGED issued

-----------------------------------------------------------------------------
HopSets == {{}} \cup {{h} : h \in Hops}
Parents == {{}} \cup {{p} : p \in Transactions}

RecordStep ==
    \E t \in Transactions :
        \/ \E i \in Instances, hops \in HopSets :
              \/ \E parent \in Parents : Register(t, i, parent, hops)
              \/ DeferRoot(t, i, hops)
        \/ \E h \in Hops : \/ AddHop(t, h)
                           \/ DropUnstartedHop(t, h)
                           \/ \E f \in SetFlags : SetHop(t, h, f)
        \/ FinishLocal(t)
        \/ RetireResponsibility(t)
        \/ CancelLocal(t)

WireStep == \E h \in Hops : \/ \E terminal \in BOOLEAN, pin \in Pins : ObserveWire(h, terminal, pin)
                            \/ ConsumeTerminal(h)

ResetStep == \E i \in Instances : \/ DrainThenReset(i)
                                  \/ AbortLocalAndDrain(i)
                                  \/ AdvanceReset(i)

UpdateStep == Prepare \/ StageUpdate \/ ApplyUpdates \/ DiscardUpdate

Next == \/ RecordStep \/ WireStep \/ ResetStep \/ UpdateStep
        \/ \E n \in 1..MaxReceipt : ReleaseReceipt(n)

Spec == Init /\ [][Next]_vars

-----------------------------------------------------------------------------
(* Properties *)

Stores == {store} \cup Range(views)

\* No work of an old epoch survives a reset unnoticed: what is still owed
\* from before the current epoch of its instance was cancelled by the reset.
EpochBarrier ==
    \A s \in Stores : \A t \in Tracked(s) :
        LET r == s.records[t]
            e == s.instances[r.instance].epoch
        IN /\ r.epoch <= e
           /\ r.epoch < e => Complete(r) \/ r.cancelled

\* While an instance drains its cohort is exactly its current work: nothing
\* but inherited children passed the barrier, and nothing left the cohort.
CohortExact ==
    \A s \in Stores : \A i \in Instances :
        s.instances[i].cohort = IF s.instances[i].draining THEN Cohort(s, i) ELSE {}


=============================================================================
