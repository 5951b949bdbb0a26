---------------------------- MODULE ResultStore ----------------------------
(***************************************************************************)
(* The store of published results (runtime/src/result_store.cpp).  A       *)
(* result has one producer, counted consumers and counted pins; its slot   *)
(* is free when nobody holds it.  Operations act directly or in a segment, *)
(* which stages a copy of the whole store for each operation, every copy   *)
(* made from the one before it, and swaps the copies in when it commits.   *)
(*                                                                         *)
(* `version' is only compared for equality, so a staged copy has a flag    *)
(* that says whether the version is still the one it was made at.  Owners, *)
(* byte limits and ready keys are left out; a call that is refused leaves  *)
(* everything as it is.                                                    *)
(***************************************************************************)
EXTENDS Integers, Sequences, FiniteSets, SequencesExt, FiniteSetsExt

CONSTANTS
    ResultSlotCount, ConsumerCount, PinLimit,
    ResultSegments,
    StagedLimit,        \* bound on the participants of a segment
    ResultGenerations, ConsumerGenerations  \* bounds on the generations given out

VARIABLES
    results,     \* Impl: slots and consumers
    generations, \* next_result_generation and next_consumer_generation, shared by all copies
    staged,      \* the participants of each segment, oldest first
    guards,      \* the guards of pinned views: <<slot, generation, number>>
    discarded    \* history: handles that a rolled back operation returned

resultVars == <<results, generations, staged, guards, discarded>>

ResultIndex == 1..ResultSlotCount
ConsumerIndex == 1..ConsumerCount

FreeSlot == [used |-> FALSE, generation |-> 0, producer |-> FALSE, publishing |-> FALSE,
             value |-> FALSE, consumers |-> 0, pins |-> 0]
NoConsumer == [active |-> FALSE, generation |-> 0, slot |-> 0]

ResultsInit ==
    /\ results = [slots |-> [i \in ResultIndex |-> FreeSlot],
                  consumers |-> [c \in ConsumerIndex |-> NoConsumer]]
    /\ generations = [result |-> 0, consumer |-> 0]
    /\ staged = [s \in ResultSegments |-> <<>>]
    /\ guards = {}
    /\ discarded = {}

-----------------------------------------------------------------------------
(* Operations on a store, or on a copy of it *)

\* Mutant of Collect: a slot is given back while views of it are pinned.
CollectPinned(st, i) ==
    LET s == st.slots[i]
    IN IF s.used /\ ~s.producer /\ s.consumers = 0 /\ ~s.publishing
       THEN [st EXCEPT !.slots[i] = FreeSlot]
       ELSE st

Collect(st, i) ==
    LET s == st.slots[i]
    IN IF s.used /\ ~s.producer /\ s.consumers = 0 /\ s.pins = 0 /\ ~s.publishing
       THEN [st EXCEPT !.slots[i] = FreeSlot]
       ELSE st

FreeConsumers(st) == {c \in ConsumerIndex : ~st.consumers[c].active}
CanAdd(st) == FreeConsumers(st) # {} /\ generations.consumer < ConsumerGenerations

NextConsumer(st) == generations.consumer + 1

AddConsumer(st, i) ==
    [st EXCEPT !.consumers[Min(FreeConsumers(st))] =
                    [active |-> TRUE, generation |-> NextConsumer(st), slot |-> i],
               !.slots[i].consumers = @ + 1]

DropConsumer(st, c) ==
    [st EXCEPT !.consumers[c].active = FALSE,
               !.slots[st.consumers[c].slot].consumers = @ - 1]

FreeResults(st) == {i \in ResultIndex : ~st.slots[i].used}
CanReserve(st) ==
    /\ FreeResults(st) # {}
    /\ generations.result < ResultGenerations
    /\ CanAdd(st)

ReserveResult(st) ==
    LET i == Min(FreeResults(st))
    IN AddConsumer([st EXCEPT !.slots[i] = [FreeSlot EXCEPT
                                                !.used = TRUE, !.producer = TRUE,
                                                !.generation = generations.result + 1]], i)

CanPublish(st, i) == st.slots[i].producer /\ ~st.slots[i].value /\ ~st.slots[i].publishing
PublishResult(st, i) == [st EXCEPT !.slots[i].value = TRUE]
ReleaseResultConsumer(st, c) == Collect(DropConsumer(st, c), st.consumers[c].slot)
\* The new consumer is added before the old one goes, so nothing is collected.
TransferConsumer(st, c) == DropConsumer(AddConsumer(st, st.consumers[c].slot), c)
ReleaseProducerOf(st, i) == Collect([st EXCEPT !.slots[i].producer = FALSE], i)

ActiveConsumers(st) == {c \in ConsumerIndex : st.consumers[c].active}

CountConsumer == generations' = [generations EXCEPT !.consumer = @ + 1]
CountReserve == generations' = [generations EXCEPT !.consumer = @ + 1, !.result = @ + 1]

-----------------------------------------------------------------------------
(* Direct calls: each of them moves the version *)

\* Staged copies made at another version than the present one fail to validate.
Outdated(segments) ==
    [s \in ResultSegments |->
        [n \in DOMAIN segments[s] |->
            IF segments[s][n].kind = "Copy" THEN [segments[s][n] EXCEPT !.current = FALSE]
                                            ELSE segments[s][n]]]

Direct(st) == results' = st /\ staged' = Outdated(staged)

Reserve ==
    /\ CanReserve(results)
    /\ Direct(ReserveResult(results))
    /\ CountReserve
    /\ UNCHANGED <<guards, discarded>>

Publish(i) ==
    /\ CanPublish(results, i)
    /\ Direct(PublishResult(results, i))
    /\ UNCHANGED <<generations, guards, discarded>>

\* retain by a consumer, or subscribe by the producer of the result
Retain(i) ==
    /\ results.slots[i].used
    /\ CanAdd(results)
    /\ Direct(AddConsumer(results, i))
    /\ CountConsumer
    /\ UNCHANGED <<guards, discarded>>

\* release; take reads the value first.
Release(c) ==
    /\ results.consumers[c].active
    /\ Direct(ReleaseResultConsumer(results, c))
    /\ UNCHANGED <<generations, guards, discarded>>

ReleaseOwner(i) ==
    /\ results.slots[i].producer
    /\ Direct(ReleaseProducerOf(results, i))
    /\ UNCHANGED <<generations, guards, discarded>>

Pin(c) ==
    LET i == results.consumers[c].slot
        n == Min({k \in 1..PinLimit : \A g \in guards : g[3] # k})
    IN /\ results.consumers[c].active
       /\ results.slots[i].value
       /\ Cardinality(guards) < PinLimit
       /\ Direct([results EXCEPT !.slots[i].pins = @ + 1])
       /\ guards' = guards \cup {<<i, results.slots[i].generation, n>>}
       /\ UNCHANGED <<generations, discarded>>

\* The guard of a pinned view knows its slot by index only.
Unpin(g) ==
    /\ Direct(Collect([results EXCEPT !.slots[g[1]].pins = @ - 1], g[1]))
    /\ guards' = guards \ {g}
    /\ UNCHANGED <<generations, discarded>>

-----------------------------------------------------------------------------
(* Segments *)

Copies(seq) == {n \in DOMAIN seq : seq[n].kind = "Copy"}
Top(seq) == IF Copies(seq) = {} THEN results ELSE seq[Max(Copies(seq))].store
Publishing == {i \in ResultIndex : results.slots[i].publishing}

\* stage: refused while a publication is prepared
Stageable(s) == Publishing = {} /\ Len(staged[s]) < StagedLimit

Stage(s, st) ==
    /\ staged' = [staged EXCEPT ![s] = Append(@, [kind |-> "Copy", store |-> st, current |-> TRUE])]
    /\ UNCHANGED <<results, guards, discarded>>

PrepareReserve(s) ==
    /\ Stageable(s)
    /\ CanReserve(Top(staged[s]))
    /\ Stage(s, ReserveResult(Top(staged[s])))
    /\ CountReserve

PreparePublishIn(s, i) ==
    /\ Stageable(s)
    /\ CanPublish(Top(staged[s]), i)
    /\ Stage(s, PublishResult(Top(staged[s]), i))
    /\ UNCHANGED generations

PrepareRetain(s, c) ==
    /\ Stageable(s)
    /\ CanAdd(Top(staged[s]))
    /\ c \in ActiveConsumers(Top(staged[s]))
    /\ Stage(s, AddConsumer(Top(staged[s]), Top(staged[s]).consumers[c].slot))
    /\ CountConsumer

PrepareRelease(s, c) ==
    /\ Stageable(s)
    /\ c \in ActiveConsumers(Top(staged[s]))
    /\ Stage(s, ReleaseResultConsumer(Top(staged[s]), c))
    /\ UNCHANGED generations

PrepareTransfer(s, c) ==
    /\ Stageable(s)
    /\ CanAdd(Top(staged[s]))
    /\ c \in ActiveConsumers(Top(staged[s]))
    /\ Stage(s, TransferConsumer(Top(staged[s]), c))
    /\ CountConsumer

PrepareReleaseOwner(s, i) ==
    /\ Stageable(s)
    /\ Top(staged[s]).slots[i].producer
    /\ Stage(s, ReleaseProducerOf(Top(staged[s]), i))
    /\ UNCHANGED generations

\* prepare_publish marks the slot in the store itself.
PreparePublish(s, i) ==
    /\ CanPublish(results, i)
    /\ Len(staged[s]) < StagedLimit
    /\ results' = [results EXCEPT !.slots[i].publishing = TRUE]
    /\ staged' = [Outdated(staged) EXCEPT ![s] =
                    Append(@, [kind |-> "Publish", slot |-> i,
                               generation |-> results.slots[i].generation])]
    /\ UNCHANGED <<generations, guards, discarded>>

Resolves(st, p) == st.slots[p.slot].used /\ st.slots[p.slot].generation = p.generation

Valid(p) ==
    IF p.kind = "Copy" THEN p.current
    ELSE /\ Resolves(results, p)
         /\ results.slots[p.slot].producer
         /\ ~results.slots[p.slot].value

Applied(st, p) ==
    IF p.kind = "Copy" THEN p.store
    ELSE [st EXCEPT !.slots[p.slot].value = TRUE, !.slots[p.slot].publishing = FALSE]

\* EventTxn::commit: all participants validate, then each of them is applied.
CommitSegment(s) ==
    /\ staged[s] # <<>>
    /\ \A n \in DOMAIN staged[s] : Valid(staged[s][n])
    /\ results' = FoldLeft(Applied, results, staged[s])
    /\ staged' = Outdated([staged EXCEPT ![s] = <<>>])
    /\ UNCHANGED <<generations, guards, discarded>>

\* Publish::discard takes the mark back; a copy is just dropped.
Undone(st, p) ==
    IF p.kind = "Publish" /\ Resolves(st, p)
    THEN Collect([st EXCEPT !.slots[p.slot].publishing = FALSE], p.slot)
    ELSE st

HandlesOf(st) ==
    {<<"Result", i, st.slots[i].generation>> : i \in {j \in ResultIndex : st.slots[j].used}} \cup
    {<<"Consumer", c, st.consumers[c].generation>> : c \in ActiveConsumers(st)}

\* rollback to a savepoint with n participants; discard is the rollback to none.
RollbackSegment(s, n) ==
    LET kept == SubSeq(staged[s], 1, n)
        gone == SubSeq(staged[s], n + 1, Len(staged[s]))
        publications == SelectSeq(gone, LAMBDA p : p.kind = "Publish")
        rest == [staged EXCEPT ![s] = kept]
        returned == UNION {HandlesOf(gone[k].store) : k \in Copies(gone)}
    IN /\ n < Len(staged[s])
       /\ results' = FoldLeft(Undone, results, Reverse(publications))
       /\ staged' = IF publications = <<>> THEN rest ELSE Outdated(rest)
       /\ discarded' = discarded \cup (returned \ (HandlesOf(Top(kept)) \cup HandlesOf(results)))
       /\ UNCHANGED <<generations, guards>>

ResultsNext ==
    \/ Reserve
    \/ \E i \in ResultIndex : Publish(i) \/ Retain(i) \/ ReleaseOwner(i)
    \/ \E c \in ConsumerIndex : Release(c) \/ Pin(c)
    \/ \E g \in guards : Unpin(g)
    \/ \E s \in ResultSegments :
        \/ PrepareReserve(s)
        \/ \E i \in ResultIndex :
            PreparePublishIn(s, i) \/ PrepareReleaseOwner(s, i) \/ PreparePublish(s, i)
        \/ \E c \in ConsumerIndex :
            PrepareRetain(s, c) \/ PrepareRelease(s, c) \/ PrepareTransfer(s, c)
        \/ CommitSegment(s)
        \/ \E n \in 0..(StagedLimit - 1) : RollbackSegment(s, n)

-----------------------------------------------------------------------------
(* Properties *)

\* A handle that was returned by an operation that was rolled back names
\* nothing, neither in the store nor in the copy that a segment works on:
\* its generation is never given out again.
DiscardedStale ==
    \A h \in discarded :
        /\ h \notin HandlesOf(results)
        /\ \A s \in ResultSegments : h \notin HandlesOf(Top(staged[s]))

\* The counts of a slot are the consumers and the pinned views there are, so
\* that collect gives a slot back exactly when nobody holds it; a view stays
\* pinned to the result it was taken of, and a slot is marked as publishing
\* exactly while a segment holds the publication.  Copies that are still going
\* to be applied agree with the views that are pinned meanwhile, and what was
\* rolled back stays stale.
ResultsExact ==
    LET Exact(st) ==
            \A i \in ResultIndex : LET s == st.slots[i] IN
                /\ s.consumers = Cardinality({c \in ActiveConsumers(st) : st.consumers[c].slot = i})
                /\ s.pins = Cardinality({g \in guards : g[1] = i})
                /\ \A g \in guards : g[1] = i => s.generation = g[2]
                /\ s.used <=> s.producer \/ s.consumers > 0 \/ s.pins > 0 \/ s.publishing
        pending == {<<s, n>> \in ResultSegments \X (1..StagedLimit) :
                        n \in DOMAIN staged[s] /\ staged[s][n].kind = "Publish"}
    IN /\ Exact(results)
       /\ \A s \in ResultSegments : \A n \in Copies(staged[s]) :
            (\A k \in 1..n : Valid(staged[s][k])) => Exact(staged[s][n].store)
       /\ \A i \in Publishing : Cardinality({q \in pending : staged[q[1]][q[2]].slot = i}) = 1
       /\ \A q \in pending : LET p == staged[q[1]][q[2]]
                             IN Resolves(results, p) /\ p.slot \in Publishing
       /\ DiscardedStale

=============================================================================
