-------------------------- MODULE EventQueueProofs --------------------------
(***************************************************************************)
(* Theorems about EventQueue for every capacity, time range, generation,   *)
(* sequence and batch limit: the operations that run and end a batch keep  *)
(* the inductive invariant too, so the checked invariants and the action   *)
(* properties hold of every behaviour.                                     *)
(***************************************************************************)
EXTENDS EventQueueInvariant

\* An acknowledgement moves the cursor over the least active member.
LEMMA AckExecutedPreserves ==
    ASSUME IInv, NEW h \in Handles, NEW committed \in BOOLEAN, AckExecuted(h, committed)
    PROVE  IInv'
<1>i. /\ TypeOK /\ QueuedBeyondFrontier /\ SortedBatch /\ ReservationsOwnSlots
      /\ SequencesUnique /\ LiveKeys /\ AckedBehind
  BY DEF IInv
<1>p. /\ state' = [state EXCEPT ![h.slot] = "Done"]
      /\ cursor' = cursor + 1
      /\ acked' = key[h.slot]
  BY DEF AckExecuted
<1>u. UNCHANGED <<generation, key, cancelled, frontier, batch, members,
                  resolverCursor, resolverTotal, reclaimCursor, nextBatch,
                  nextSequence, held>>
  BY DEF AckExecuted
<1>1. /\ batch # NoBatch
      /\ cursor \in 0..(Len(members) - 1)
      /\ cursor + 1 \in 1..Len(members)
      /\ h.slot = members[cursor + 1]
      /\ h.slot \in Slots
      /\ state[h.slot] = "Active"
  BY <1>i, AckTakesCurrent
<1>2. /\ \A n \in 1..Len(members) : members[n] \in Slots
      /\ Len(members) \in Nat
  BY <1>i, MembersAreSlots DEF TypeOK
<1>3. \A i \in Slots : state'[i] = IF i = h.slot THEN "Done" ELSE state[i]
  BY <1>p, <1>i DEF TypeOK
<1>c. /\ \A n \in 1..Len(members) :
            /\ state[members[n]] = IF n <= cursor THEN "Done" ELSE "Active"
            /\ Ready(key[members[n]]) = frontier
      /\ \A m, n \in 1..Len(members) :
            m < n => KeyLess(key[members[m]], key[members[n]])
      /\ \A i \in Slots : state[i] \in {"Active", "Done"} =>
            \E n \in 1..Len(members) : members[n] = i
  BY Zenon, <1>i, <1>1 DEF SortedBatch, ClosedBatch
<1>4. ASSUME NEW n \in 1..Len(members), n # cursor + 1
      PROVE  members[n] # h.slot
  <2>1. key[h.slot] \in EventKeys
    BY <1>1, <1>i DEF TypeOK
  <2>2. ~KeyLess(key[h.slot], key[h.slot])
    BY <2>1, KeyLessIrreflexive
  <2>3. n < cursor + 1 \/ cursor + 1 < n
    BY <1>1, <1>4
  <2>4. KeyLess(key[members[n]], key[h.slot]) \/ KeyLess(key[h.slot], key[members[n]])
    BY <2>3, <1>1, <1>c
  <2> QED
    BY <2>2, <2>4
<1>5. TypeOK'
  <2>1. state' \in [Slots -> SlotStates]
    BY Zenon, <1>p, <1>i DEF TypeOK, SlotStates
  <2>2. acked' \in EventKeys
    BY <1>p, <1>1, <1>i DEF TypeOK
  <2>3. cursor' \in Nat
    BY <1>p, <1>i DEF TypeOK
  <2> QED
    BY <2>1, <2>2, <2>3, <1>i, <1>u DEF TypeOK
<1>6. QueuedBeyondFrontier'
  BY <1>3, <1>i, <1>u DEF QueuedBeyondFrontier, BeyondFrontier
<1>7. SortedBatch'
  <2>1. cursor' \in 0..Len(members)
    BY <1>1, <1>2, <1>p
  <2>2. ASSUME NEW n \in 1..Len(members)
        PROVE  state'[members[n]] = IF n <= cursor' THEN "Done" ELSE "Active"
    <3>1. CASE n = cursor + 1
      <4>1. state'[members[n]] = "Done"
        BY <3>1, <1>1, <1>3
      <4>2. n <= cursor'
        BY <3>1, <1>1, <1>p
      <4> QED
        BY <4>1, <4>2
    <3>2. CASE n # cursor + 1
      <4>1. state'[members[n]] = state[members[n]]
        BY <3>2, <1>2, <1>3, <1>4
      <4>2. n <= cursor' <=> n <= cursor
        BY <3>2, <1>1, <1>p
      <4> QED
        BY <4>1, <4>2, <1>c
    <3> QED
      BY <3>1, <3>2
  <2>3. \A i \in Slots : state'[i] \in {"Active", "Done"} =>
            \E n \in 1..Len(members) : members[n] = i
    BY <1>1, <1>3, <1>c
  <2> QED
    BY <1>1, <2>1, <2>2, <2>3, <1>c, <1>u DEF SortedBatch, ClosedBatch
<1>8. ReservationsOwnSlots'
  <2>1. \A i \in Slots : state'[i] = "Reserved" <=> state[i] = "Reserved"
    BY <1>1, <1>3
  <2> QED
    BY <2>1, <1>i, <1>u DEF ReservationsOwnSlots, Handle
<1>9. LiveKeys' /\ SequencesUnique'
  <2>1. \A i \in Slots : Live(i)' <=> Live(i)
    BY <1>1, <1>3 DEF Live
  <2> QED
    BY Zenon, <2>1, <1>i, <1>u DEF LiveKeys, SequencesUnique
<1>10. AckedBehind'
  <2>1. Ready(acked') = frontier
    BY Zenon, <1>1, <1>c, <1>p
  <2>2. ASSUME NEW i \in Slots, state'[i] = "Active"
        PROVE  KeyLess(acked', key[i])
    <3>1. state[i] = "Active" /\ i # h.slot
      BY <2>2, <1>3
    <3>2. PICK n \in 1..Len(members) : members[n] = i
      BY <3>1, <1>c
    <3>3. ~(n <= cursor) /\ n # cursor + 1
      BY <3>1, <3>2, <1>c, <1>1
    <3>4. cursor + 1 < n
      BY <3>3, <1>1
    <3> QED
      BY <3>2, <3>4, <1>1, <1>c, <1>p
  <2> QED
    BY <2>1, <2>2, <1>u DEF AckedBehind
<1> QED
  BY <1>5, <1>6, <1>7, <1>8, <1>9, <1>10 DEF IInv

\* The resolver moves its own cursor only.
LEMMA ResolverStepPreserves ==
    ASSUME IInv, NEW total \in 0..MaxWork, NEW budget \in 1..(MaxWork + 1),
           ResolverStep(budget, total)
    PROVE  IInv'
<1> USE EventQueueAssumption DEF IInv, ResolverStep, slotVars
<1>1. TypeOK'
  BY DEF TypeOK, NoTotal
<1>2. QueuedBeyondFrontier' /\ SortedBatch' /\ ReservationsOwnSlots'
  BY DEF QueuedBeyondFrontier, BeyondFrontier, SortedBatch, ClosedBatch, ReservationsOwnSlots, Handle
<1>3. SequencesUnique' /\ LiveKeys' /\ AckedBehind'
  BY Zenon DEF SequencesUnique, LiveKeys, Live, AckedBehind
<1> QED
  BY <1>1, <1>2, <1>3

\* A queue without a batch has no members.
LEMMA EmptySlots == <<>> \in Seq(Slots)
OBVIOUS

\* Finishing a batch frees its members: every one of them is done.
LEMMA FinishBatchPreserves ==
    ASSUME IInv, FinishBatch
    PROVE  IInv'
<1> USE EventQueueAssumption DEF IInv, FinishBatch
<1>1. \A i \in Slots : \/ state'[i] = "Free" /\ InBatch(state[i])
                       \/ state'[i] = state[i] /\ ~InBatch(state[i])
  <2>1. SUFFICES ASSUME NEW i \in Slots
                 PROVE  \/ state'[i] = "Free" /\ InBatch(state[i])
                        \/ state'[i] = state[i] /\ ~InBatch(state[i])
    OBVIOUS
  <2>2. InBatch(state[i]) <=> \E n \in 1..Len(members) : members[n] = i
    BY DEF SortedBatch, ClosedBatch, InBatch
  <2> QED
    BY <2>2 DEF TypeOK
<1>2. TypeOK'
  <2>1. state' \in [Slots -> SlotStates]
    BY DEF TypeOK, SlotStates
  <2>2. members' = <<>>
    OBVIOUS
  <2>3. members' \in Seq(Slots)
    BY <2>2, EmptySlots
  <2> QED
    BY <2>1, <2>3 DEF TypeOK, NoBatch
<1>3. QueuedBeyondFrontier'
  BY <1>1 DEF QueuedBeyondFrontier, BeyondFrontier
<1>4. SortedBatch'
  BY <1>1 DEF SortedBatch, ClosedBatch, InBatch
<1>5. ReservationsOwnSlots'
  <2>1. \A i \in Slots : state'[i] = "Reserved" <=> state[i] = "Reserved"
    BY <1>1 DEF InBatch
  <2> QED
    BY <2>1 DEF ReservationsOwnSlots, Handle
<1>6. LiveKeys' /\ SequencesUnique'
  <2>1. \A i \in Slots : Live(i)' => Live(i)
    BY <1>1 DEF Live
  <2> QED
    BY <2>1 DEF LiveKeys, SequencesUnique
<1>7. AckedBehind'
  BY <1>1 DEF AckedBehind
<1> QED
  BY Zenon, <1>2, <1>3, <1>4, <1>5, <1>6, <1>7

\* Collection frees queued events that were cancelled; a done slot exists only
\* while a batch is open.
LEMMA CollectStalePreserves ==
    ASSUME IInv, NEW budget \in 1..NumSlots, CollectStale(budget)
    PROVE  IInv'
<1> USE EventQueueAssumption DEF IInv, CollectStale
<1>1. \A i \in Slots : \/ state'[i] = state[i]
                       \/ state'[i] = "Free" /\ state[i] = "Queued"
  BY DEF Stale, SortedBatch, ClosedBatch, TypeOK
<1>2. TypeOK'
  <2>1. state' \in [Slots -> SlotStates]
    BY DEF TypeOK, SlotStates
  <2>2. reclaimCursor' \in Slots
    BY DEF TypeOK, Slots
  <2> QED
    BY <2>1, <2>2 DEF TypeOK, batchVars
<1>3. QueuedBeyondFrontier'
  BY <1>1 DEF QueuedBeyondFrontier, BeyondFrontier, batchVars
<1>4. SortedBatch' /\ AckedBehind'
  <2>1. \A j \in Slots : InBatch(state[j]) \/ InBatch(state'[j]) =>
            state'[j] = state[j] /\ key'[j] = key[j]
    BY <1>1 DEF InBatch
  <2> QED
    BY <2>1, BatchUndisturbed
<1>5. ReservationsOwnSlots'
  <2>1. \A i \in Slots : state'[i] = "Reserved" <=> state[i] = "Reserved"
    BY <1>1
  <2> QED
    BY <2>1 DEF ReservationsOwnSlots, Handle
<1>6. LiveKeys' /\ SequencesUnique'
  <2>1. \A i \in Slots : Live(i)' => Live(i)
    BY <1>1 DEF Live
  <2> QED
    BY <2>1 DEF LiveKeys, SequencesUnique
<1> QED
  BY <1>2, <1>3, <1>4, <1>5, <1>6

-----------------------------------------------------------------------------
(* The theorems *)

\* A step that changes nothing keeps the invariant.
LEMMA StutterPreserves ==
    ASSUME IInv, UNCHANGED vars
    PROVE  IInv'
<1> USE DEF IInv, vars
<1>1. TypeOK' /\ QueuedBeyondFrontier' /\ SortedBatch'
  BY DEF TypeOK, QueuedBeyondFrontier, BeyondFrontier, SortedBatch, ClosedBatch
<1>2. ReservationsOwnSlots' /\ SequencesUnique' /\ LiveKeys' /\ AckedBehind'
  BY Zenon DEF ReservationsOwnSlots, Handle, SequencesUnique, LiveKeys, Live, AckedBehind
<1> QED
  BY <1>1, <1>2, SMTT(40)

\* Every step of the queue keeps the invariant.
LEMMA NextPreserves == IInv /\ [Next]_vars => IInv'
<1> SUFFICES ASSUME IInv, [Next]_vars PROVE IInv'
  OBVIOUS
<1>1. CASE Reserve
  <2>1. PICK d \in Drafts : Prepare(d) \/ PrepareFull(d)
    BY <1>1 DEF Reserve
  <2>2. CASE Prepare(d)
    <3>1. PICK i \in Slots :
            /\ Claim(d, i, "Reserved")
            /\ held' = held \cup {[slot |-> i, generation |-> generation'[i]]}
      BY <2>2 DEF Prepare
    <3> QED
      BY <3>1, ClaimPreserves
  <2>3. CASE PrepareFull(d)
    BY <2>3, PrepareFullPreserves
  <2> QED
    BY <2>1, <2>2, <2>3
<1>2. CASE Post
  <2>1. PICK d \in Drafts, i \in Slots : Claim(d, i, "Queued") /\ UNCHANGED held
    BY <1>2 DEF Post, EnqueueDraft
  <2> QED
    BY <2>1, ClaimPreserves
<1>3. CASE UseReservation
  BY <1>3, AbandonPreserves, EnqueuePreserves, RetargetPreserves DEF UseReservation
<1>4. CASE Revoke
  BY <1>4, CancelPreserves DEF Revoke
<1>5. CASE Open
  BY <1>5, PopBatchPreserves DEF Open
<1>6. CASE Ack
  BY <1>6, AckExecutedPreserves DEF Ack
<1>7. CASE Resolve
  BY <1>7, ResolverStepPreserves DEF Resolve
<1>8. CASE FinishBatch
  BY <1>8, FinishBatchPreserves
<1>9. CASE Collect
  BY <1>9, CollectStalePreserves DEF Collect
<1>10. CASE UNCHANGED vars
  BY <1>10, StutterPreserves
<1> QED
  BY <1>1, <1>2, <1>3, <1>4, <1>5, <1>6, <1>7, <1>8, <1>9, <1>10 DEF Next

\* Every reachable state of the event queue satisfies the inductive invariant.
THEOREM Invariance == Spec => []IInv
BY InitEstablishes, NextPreserves, PTL DEF Spec

\* The queue's fields keep their types, the generation and sequence limits
\* included, for every capacity and every limit.
THEOREM TypeCorrect == Spec => []TypeOK
BY Invariance, PTL DEF IInv

\* No queued event ever lies at or before the frozen frontier.
THEOREM FrontierStaysFrozen == Spec => []QueuedBeyondFrontier
BY Invariance, PTL DEF IInv

\* An open batch is exactly the active and done slots, at the frontier.
THEOREM BatchesAreClosed == Spec => []ClosedBatch
BY Invariance, PTL DEF IInv, SortedBatch

\* Reserved slots and live reservations correspond one to one.
THEOREM ReservationsExact == Spec => []ReservationsOwnSlots
BY Invariance, PTL DEF IInv

\* The key order is total on live events.
THEOREM SequencesStayUnique == Spec => []SequencesUnique
BY Invariance, PTL DEF IInv

\* Acknowledgements are strictly increasing in key, across batches.
THEOREM ExecutionOrdered == Spec => AckedInKeyOrder
<1>1. IInv /\ [Next]_vars => [acked' # acked => KeyLess(acked, acked')]_vars
  <2>1. SUFFICES ASSUME IInv, Next, acked' # acked
                 PROVE  KeyLess(acked, acked')
    BY SMTT(40) DEF vars
  <2>2. Ack
    BY <2>1 DEF Next, Reserve, Prepare, Claim, PrepareFull, Post, EnqueueDraft,
       UseReservation, Abandon, Enqueue, Retarget, Revoke, Cancel, Open, PopBatch,
       Resolve, ResolverStep, FinishBatch, Collect, CollectStale
  <2>3. PICK h \in Handles, committed \in BOOLEAN : AckExecuted(h, committed)
    BY <2>2, SMTT(40) DEF Ack
  <2>4. h.slot \in Slots /\ state[h.slot] = "Active"
    BY <2>1, <2>3, AckTakesCurrent DEF IInv
  <2> QED
    BY <2>1, <2>3, <2>4 DEF IInv, AckedBehind, AckExecuted
<1> QED
  BY <1>1, Invariance, PTL DEF Spec, AckedInKeyOrder

\* A handle names one event forever.
THEOREM HandlesNameEvents == Spec => GenerationNamesEvent
<1> DEFINE A == \A i \in Slots :
                    \/ generation'[i] > generation[i]
                    \/ /\ generation'[i] = generation[i]
                       /\ key'[i].sequence = key[i].sequence
<1>1. IInv /\ [Next]_vars => [A]_vars
  <2>1. SUFFICES ASSUME IInv, Next PROVE A
    BY DEF vars
  <2>2. generation \in [Slots -> 0..MaxGeneration] /\ key \in [Slots -> EventKeys]
    BY <2>1 DEF IInv, TypeOK
  <2>3. ASSUME NEW d \in Drafts, NEW i \in Slots, NEW s, Claim(d, i, s)
        PROVE  A
    BY <2>2, <2>3, EventQueueAssumption DEF Claim, NextGeneration
  <2>4. CASE Reserve \/ Post
    <3>1. CASE generation' = generation /\ key' = key
      BY <3>1
    <3> QED
      BY Zenon, <2>3, <2>4, <3>1 DEF Reserve, Prepare, PrepareFull, Post, EnqueueDraft
  <2>5. ASSUME NEW h \in held, NEW d \in Drafts, Retarget(h, d)
        PROVE  A
    <3>1. h.slot \in Slots
      BY <2>1, <2>5, SMTT(40) DEF IInv, TypeOK, Handles
    <3> QED
      BY <2>2, <2>5, <3>1 DEF Retarget, KeptSequence, Numbered
  <2>6. CASE UseReservation
    <3>1. CASE generation' = generation /\ key' = key
      BY <3>1
    <3> QED
      BY <2>5, <2>6, <3>1 DEF UseReservation, Abandon, Enqueue
  <2>7. CASE Revoke \/ Open \/ Ack \/ Resolve \/ FinishBatch \/ Collect
    <3>1. generation' = generation /\ key' = key
      BY <2>7 DEF Revoke, Cancel, Open, PopBatch, Ack, AckExecuted, Resolve,
         ResolverStep, slotVars, FinishBatch, Collect, CollectStale
    <3> QED
      BY <3>1, SMTT(40)
  <2> QED
    BY <2>1, <2>4, <2>6, <2>7 DEF Next
<1> QED
  BY <1>1, Invariance, PTL DEF Spec, GenerationNamesEvent

\* An enqueued event that is not cancelled leaves only through a batch, and a
\* batch member only by being acknowledged.
THEOREM EventsAreNotDropped == Spec => NothingDropped
<1> DEFINE Kept(i) ==
      /\ state[i] = "Queued" /\ ~cancelled[i] => state'[i] \in {"Queued", "Active"}
      /\ state[i] = "Active" => \/ state'[i] = "Active"
                                \/ state'[i] = "Done" /\ acked' = key[i]
<1>1. IInv /\ [Next]_vars => [\A i \in Slots : Kept(i)]_vars
  <2>1. SUFFICES ASSUME IInv, Next, NEW i \in Slots PROVE Kept(i)
    BY DEF vars
  <2>2. state \in [Slots -> SlotStates]
    BY <2>1, SMTT(40) DEF IInv, TypeOK
  <2>3. CASE Reserve \/ Post
    BY <2>2, <2>3 DEF Reserve, Prepare, PrepareFull, Post, EnqueueDraft, Claim, Usable, Passed
  <2>4. CASE UseReservation
    <3>1. PICK h \in held : Abandon(h) \/ Enqueue(h) \/ \E d \in Drafts : Retarget(h, d)
      BY <2>4, SMTT(40) DEF UseReservation
    <3>2. h.slot \in Slots /\ state[h.slot] = "Reserved"
      BY <2>1, <3>1, HeldIsReserved, SMTT(40) DEF IInv
    <3> QED
      BY Zenon, <2>2, <3>1, <3>2 DEF Abandon, Enqueue, Retarget
  <2>5. CASE Open
    BY <2>2, <2>5 DEF Open, PopBatch
  <2>6. CASE Ack
    <3>1. PICK h \in Handles, committed \in BOOLEAN : AckExecuted(h, committed)
      BY <2>6 DEF Ack
    <3>2. h.slot \in Slots /\ state[h.slot] = "Active"
      BY <2>1, <3>1, AckTakesCurrent DEF IInv
    <3> QED
      BY Zenon, <2>2, <3>1, <3>2 DEF AckExecuted
  <2>7. CASE Revoke \/ Resolve
    BY Zenon, <2>7 DEF Revoke, Cancel, Resolve, ResolverStep, slotVars
  <2>8. CASE FinishBatch
    <3>1. state[i] # "Active"
      BY <2>1, <2>8 DEF IInv, SortedBatch, ClosedBatch, FinishBatch, TypeOK
    <3>2. state[i] = "Queued" => ~ \E n \in 1..Len(members) : members[n] = i
      BY Zenon, <2>1, <2>8 DEF IInv, SortedBatch, ClosedBatch, FinishBatch
    <3> QED
      BY <2>2, <2>8, <3>1, <3>2 DEF FinishBatch
  <2>9. CASE Collect
    BY Zenon, <2>2, <2>9 DEF Collect, CollectStale, Stale
  <2> QED
    BY Zenon, <2>1, <2>3, <2>4, <2>5, <2>6, <2>7, <2>8, <2>9 DEF Next
<1> QED
  BY <1>1, Invariance, PTL DEF Spec, NothingDropped

=============================================================================
