---------------------------- MODULE CancelScope -----------------------------
(***************************************************************************)
(* The tree of cancellation scopes (runtime/src/cancel_scope.cpp) with the *)
(* copies that segments prepare (PreparedScopes in                         *)
(* runtime/src/structured_services.cpp).  A scope owns handles: its child  *)
(* scopes and things such as tasks, tickets, waits and result consumers.   *)
(* Cancelling a scope freezes the whole subtree under it and turns what    *)
(* each scope owns into a plan; every action of a plan is applied once.    *)
(* Observers of a cancellation must stay outside of what it cancels.       *)
(*                                                                         *)
(* Calls that fail change nothing and are stuttering steps.  An action of  *)
(* a plan is named by the handle it cleans up, so its identity and its     *)
(* kind, which only its executor looks at, are left out.                   *)
(***************************************************************************)
EXTENDS Integers, Sequences, FiniteSets

CONSTANTS
    NumScopes,      \* records_.size(), with the root
    Things,         \* handles of owned objects other than scopes
    EntryLimit, ActionLimit, ObserverLimit,  \* entries_, actions_, observers_
    MaxGeneration, MaxSequence,  \* values at which identities are exhausted
    MaxViews        \* bound on chained preparations

ASSUME CancelScopeAssumption ==
    /\ NumScopes \in Nat \ {0}
    /\ {EntryLimit, ActionLimit, ObserverLimit, MaxSequence, MaxViews} \subseteq Nat
    /\ MaxGeneration \in Nat \ {0, 1}

VARIABLES
    store,      \* the fields of the CancelScopeStore; gone is history, the
                \* things that left their scope
    views,      \* the snapshots prepared by the open segment, oldest first
    allocation  \* *allocation_generation_, shared by the store and its copies:
                \* generations are never given back, not even by a discarded segment

scopeVars == <<store, views, allocation>>

Slots == 0..(NumScopes - 1)
ScopeHandles == [slot : Slots, generation : 0..MaxGeneration]
NoHandle == [slot |-> 0, generation |-> 0]
Root == [slot |-> 0, generation |-> 1]

EmptyRecord ==
    [generation |-> 1, used |-> FALSE, parent |-> NoHandle, state |-> "Open",
     entries |-> {}, plan |-> {}, applied |-> {}]

ScopesInit ==
    /\ store = [records |-> [i \in Slots |-> [EmptyRecord EXCEPT !.used = (i = 0)]],
                observers |-> {}, sequence |-> 0, gone |-> {}]
    /\ views = <<>>
    /\ allocation = 2

-----------------------------------------------------------------------------
(* The tree *)

Live(s, h) == /\ h \in ScopeHandles
              /\ s.records[h.slot].used
              /\ s.records[h.slot].generation = h.generation
Record(s, h) == s.records[h.slot]
Handle(s, i) == [slot |-> i, generation |-> s.records[i].generation]
LiveScopes(s) == {Handle(s, i) : i \in {j \in Slots : s.records[j].used}}

\* The scopes met on the way up, as far as the loops of inside and frozen go;
\* the way ends at the root or at a handle that is not live.
Ancestry(s, h) ==
    LET up[n \in Slots] ==
            IF n = 0 THEN h
            ELSE LET below == up[n - 1]
                 IN IF Live(s, below) /\ below.slot # 0 THEN Record(s, below).parent ELSE below
    IN up

Inside(s, h, ancestor) ==
    LET up == Ancestry(s, h)
    IN \E n \in Slots : up[n] = ancestor

Frozen(s, h) ==
    LET up == Ancestry(s, h)
    IN \/ \E n \in Slots : ~Live(s, up[n]) \/ Record(s, up[n]).state # "Open"
       \/ up[NumScopes - 1].slot # 0

Owned(s, x) == \E i \in Slots : x \in s.records[i].entries

\* owner_of as a set with at most one element
OwnerOf(s, x) ==
    IF x \in Things THEN {h \in LiveScopes(s) : x \in Record(s, h).entries}
    ELSE {h \in LiveScopes(s) : h = x}

-----------------------------------------------------------------------------
(* Preparations.  While a segment holds a copy, the store refuses every call *)
(* and the segment works on its newest copy.                                 *)

View == IF views = <<>> THEN store ELSE views[Len(views)]

Set(s) ==
    IF views = <<>> THEN store' = s /\ UNCHANGED views
    ELSE views' = [views EXCEPT ![Len(views)] = s] /\ UNCHANGED store

Prepare ==
    /\ Len(views) < MaxViews
    /\ views' = Append(views, View)
    /\ UNCHANGED <<store, allocation>>

\* The participants of a segment are applied in the order of preparation.
Commit ==
    /\ views # <<>>
    /\ store' = views[Len(views)]
    /\ views' = <<>>
    /\ UNCHANGED allocation

\* A discarded segment, or a rollback to a savepoint, drops the newest copies.
Discard ==
    /\ views # <<>>
    /\ views' = SubSeq(views, 1, Len(views) - 1)
    /\ UNCHANGED <<store, allocation>>

-----------------------------------------------------------------------------
(* Scopes *)

FreeSlots(s) ==
    {i \in Slots \ {0} : ~s.records[i].used /\ s.records[i].generation # MaxGeneration}

Create(parent) ==
    LET s == View
    IN /\ Live(s, parent)
       /\ ~Frozen(s, parent)
       /\ Cardinality(Record(s, parent).entries) < EntryLimit
       /\ allocation # MaxGeneration
       /\ \E i \in FreeSlots(s) :
             LET h == [slot |-> i, generation |-> allocation]
             IN /\ \A j \in FreeSlots(s) : i <= j
                /\ Set([s EXCEPT
                        !.records[i] = [EmptyRecord EXCEPT !.generation = h.generation,
                                                           !.used = TRUE,
                                                           !.parent = parent],
                        !.records[parent.slot].entries = @ \cup {h}])
       /\ allocation' = allocation + 1

Childless(s, h) ==
    /\ Record(s, h).entries = {}
    /\ \A i \in Slots : s.records[i].used => s.records[i].parent # h

Close(h) ==
    LET s == View
        parent == Record(s, h).parent
    IN /\ Live(s, h)
       /\ h.slot # 0
       /\ Record(s, h).state # "Cancelling"
       /\ Childless(s, h)
       /\ \A o \in s.observers : h \notin {o.source, o.process, o.wait}
       /\ Set([s EXCEPT
               !.records = [i \in Slots |->
                    IF i = h.slot
                    THEN [@[i] EXCEPT !.state = "Closed", !.used = FALSE,
                                      !.generation = h.generation + 1]
                    ELSE IF Live(s, parent) /\ i = parent.slot
                    THEN [@[i] EXCEPT !.entries = @ \ {h}]
                    ELSE @[i]]])
       /\ UNCHANGED allocation

-----------------------------------------------------------------------------
(* Ownership *)

\* Mutant of Attachable: only the target scope is searched.
AttachableHere(s, x, h) == ~Frozen(s, h) /\ x \notin Record(s, h).entries

Attachable(s, x, h) == ~Frozen(s, h) /\ ~Owned(s, x)

\* Handles carry generations: a thing that left never comes back.
Attach(x, h) ==
    LET s == View
    IN /\ Live(s, h)
       /\ x \notin s.gone
       /\ Attachable(s, x, h)
       /\ Cardinality(Record(s, h).entries) < EntryLimit
       /\ Set([s EXCEPT !.records[h.slot].entries = @ \cup {x}])
       /\ UNCHANGED allocation

\* replace_owned, which only ever replaces a spawn ticket by its task
ReplaceOwned(old, new, h) ==
    LET s == View
    IN /\ Live(s, h)
       /\ new \notin s.gone
       /\ old \in Record(s, h).entries
       /\ Attachable(s, new, h)
       /\ Set([s EXCEPT !.records[h.slot].entries = (@ \ {old}) \cup {new},
                        !.gone = @ \cup {old}])
       /\ UNCHANGED allocation

\* Mutant of Detachable: a plan does not keep what it has to clean up.
DetachableAlways(s, x, h) == x \in Record(s, h).entries

Detachable(s, x, h) ==
    /\ Record(s, h).state # "Cancelling"
    /\ x \in Record(s, h).entries

DetachCompleted(x, h) ==
    LET s == View
    IN /\ Live(s, h)
       /\ Detachable(s, x, h)
       /\ Set([s EXCEPT !.records[h.slot].entries = @ \ {x}, !.gone = @ \cup {x}])
       /\ UNCHANGED allocation

\* Would an observer get into the scope it observes?
Enters(s, o) ==
    \E x \in {o.process, o.wait} : \E h \in OwnerOf(s, x) : Inside(s, h, o.source)

\* The store after the move, and the parent of a moved scope with it
Moved(s, x, from, to) ==
    LET owned == [s EXCEPT !.records[from.slot].entries = @ \ {x},
                           !.records[to.slot].entries = @ \cup {x}]
    IN IF x \in Things THEN owned
       ELSE [owned EXCEPT !.records[x.slot].parent = to]

Acyclic(s, x, to) == x \in Things \/ (Live(s, x) /\ ~Inside(s, to, x))

ObserversStayOut(s, x, from, to) ==
    /\ x \notin Things => \A o \in s.observers : ~Enters(Moved(s, x, from, to), o)
    /\ \A o \in s.observers : \A y \in {o.process, o.wait} :
          \A h \in (IF y = x THEN {to} ELSE OwnerOf(s, y)) : ~Inside(s, h, o.source)

Transfer(x, from, to) ==
    LET s == View
    IN /\ Live(s, from) /\ Live(s, to)
       /\ x \in Record(s, from).entries
       /\ ~Frozen(s, from) /\ ~Frozen(s, to)
       /\ from # to
       /\ Cardinality(Record(s, to).entries) < EntryLimit
       /\ Acyclic(s, x, to)
       /\ ObserversStayOut(s, x, from, to)
       /\ Set(Moved(s, x, from, to))
       /\ UNCHANGED allocation

-----------------------------------------------------------------------------
(* Cancellation *)

Closure(s, h) == {d \in LiveScopes(s) : Inside(s, d, h) /\ Record(s, d).state = "Open"}

EntriesOf(s, closure) == UNION {Record(s, d).entries : d \in closure}

\* Freezes the closure.  A scope has a plan exactly when it is not open, and a
\* second cancel returns that plan.
Cancel(h) ==
    LET s == View
        closure == Closure(s, h)
        count == Cardinality(EntriesOf(s, closure))
    IN /\ Live(s, h)
       /\ Record(s, h).state = "Open"
       /\ count <= ActionLimit
       /\ count <= MaxSequence - s.sequence
       /\ Set([s EXCEPT
               !.sequence = @ + count,
               !.records = [i \in Slots |->
                    LET r == s.records[i]
                    IN IF Handle(s, i) \in closure
                       THEN [r EXCEPT
                               !.plan = r.entries,
                               !.applied = {},
                               !.state = IF r.entries = {} THEN "Cancelled" ELSE "Cancelling"]
                       ELSE r]])
       /\ UNCHANGED allocation

\* The executor cleaned up x.  When it fails nothing changes.
Apply(h, x) ==
    LET s == View
        left == Record(s, h).entries \ {x}
    IN /\ Live(s, h)
       /\ Record(s, h).state # "Open"
       /\ x \in Record(s, h).plan \ Record(s, h).applied
       /\ Set([s EXCEPT
               !.records[h.slot].applied = @ \cup {x},
               !.records[h.slot].entries = left,
               !.records[h.slot].state = IF left = {} THEN "Cancelled" ELSE @,
               !.gone = @ \cup ({x} \cap Things)])
       /\ UNCHANGED allocation

-----------------------------------------------------------------------------
(* Observers *)

ObserveCancel(source, process, wait) ==
    LET s == View
        o == [id |-> s.sequence + 1, source |-> source, process |-> process, wait |-> wait]
    IN /\ Live(s, source)
       /\ Cardinality(s.observers) < ObserverLimit
       /\ s.sequence # MaxSequence
       /\ OwnerOf(s, process) # {} /\ OwnerOf(s, wait) # {}
       /\ ~Enters(s, o)
       /\ Set([s EXCEPT !.sequence = @ + 1, !.observers = @ \cup {o}])
       /\ UNCHANGED allocation

ReleaseObserver(id) ==
    LET s == View
    IN /\ \E o \in s.observers : o.id = id
       /\ Set([s EXCEPT !.observers = {o \in @ : o.id # id}])
       /\ UNCHANGED allocation

-----------------------------------------------------------------------------
ScopeStep ==
    \E h \in LiveScopes(View) :
        \/ Create(h) \/ Close(h) \/ Cancel(h)
        \/ \E x \in Record(View, h).plan : Apply(h, x)

OwnershipStep ==
    \E h \in LiveScopes(View) :
        \/ \E x \in Things : \/ Attach(x, h)
                             \/ DetachCompleted(x, h)
                             \/ \E y \in Things : ReplaceOwned(x, y, h)
        \/ \E to \in LiveScopes(View), x \in Record(View, h).entries : Transfer(x, h, to)

ObserverStep ==
    \/ \E h \in LiveScopes(View), p, w \in Things \cup LiveScopes(View) : ObserveCancel(h, p, w)
    \/ \E id \in 1..MaxSequence : ReleaseObserver(id)

ScopesNext == ScopeStep \/ OwnershipStep \/ ObserverStep \/ Prepare \/ Commit \/ Discard

ScopesSpec == ScopesInit /\ [][ScopesNext]_scopeVars

-----------------------------------------------------------------------------
(* Properties *)

Stores == {store} \cup {views[n] : n \in DOMAIN views}

\* The scopes in use form one tree in which everything has one owner, so that
\* it is cleaned up once, whatever is moved, closed and allocated again: every
\* scope leads up to the root over live scopes, no handle is an entry of two
\* scopes, and a scope is an entry of its parent until the parent's plan has
\* dealt with it (create, attach, transfer and close of cancel_scope.cpp).  A
\* cancellation reaches the whole subtree and nothing slips into it later: the
\* task pool relies on it when it only asks for the state of one scope.  Who
\* observes the cancellation of a scope is not cancelled with it, however
\* scopes and things move after observe_cancel.
OwnedOnce ==
    \A s \in Stores :
    /\ \A o \in s.observers : Live(s, o.source) /\ ~Enters(s, o)
    /\ \A h \in LiveScopes(s) :
        /\ h # Root /\ Record(s, h).state = "Open" => ~Frozen(s, h)
        /\ Inside(s, h, Root)
        /\ \A d \in LiveScopes(s) \ {h} : Record(s, h).entries \cap Record(s, d).entries = {}
        /\ \A x \in Record(s, h).entries \ Things : Live(s, x) /\ Record(s, x).parent = h
        /\ h # Root => LET parent == Record(s, h).parent
                       IN /\ Live(s, parent)
                          /\ h \in Record(s, parent).entries \cup Record(s, parent).applied

\* Nothing escapes its cleanup and nothing is cleaned up twice: what a plan
\* listed is applied, still owned, or a child scope that was closed; and a
\* scope counts as cancelled only when none of its entries is left.
PlansComplete ==
    \A s \in Stores : \A h \in LiveScopes(s) :
        LET r == Record(s, h)
        IN r.state # "Open" =>
              /\ r.entries \cap r.applied = {}
              /\ r.entries \subseteq r.plan
              /\ \A x \in r.plan \ (r.entries \cup r.applied) : x \notin Things /\ ~Live(s, x)
              /\ r.state = "Cancelled" => r.entries = {}

=============================================================================
