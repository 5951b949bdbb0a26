------------------------- MODULE EventQueueInvariant -------------------------
(***************************************************************************)
(* The inductive invariant of EventQueue: it adds to the checked ones what *)
(* they rest on, that a live slot carries a numbered key and that the last *)
(* acknowledged key lies behind everything that can still run.  Every      *)
(* operation up to the opening of a batch preserves it.                    *)
(***************************************************************************)
EXTENDS EventQueue, TLAPS

\* Live slots carry keys of prepared events, numbered before nextSequence.
LiveKeys ==
    \A i \in Slots : Live(i) =>
        /\ key[i].time \in 0..MaxTime
        /\ key[i].rank \in Ranks
        /\ key[i].sequence \in 1..(nextSequence - 1)

\* The last acknowledged key is not beyond the frontier and before every
\* member of the open batch that still waits for its acknowledgement.
AckedBehind ==
    /\ Ready(acked) = frontier \/ ReadyLess(acked, frontier)
    /\ \A i \in Slots : state[i] = "Active" => KeyLess(acked, key[i])

\* The batch is closed and its members are in the order of their keys.
SortedBatch ==
    /\ ClosedBatch
    /\ batch # NoBatch => \A m, n \in 1..Len(members) :
           m < n => KeyLess(key[members[m]], key[members[n]])

IInv == /\ TypeOK
        /\ QueuedBeyondFrontier
        /\ SortedBatch
        /\ ReservationsOwnSlots
        /\ SequencesUnique
        /\ LiveKeys
        /\ AckedBehind

-----------------------------------------------------------------------------
(* Orders *)

\* The fields of keys are integers.
LEMMA KeyFields ==
    /\ \A k \in EventKeys : /\ k.time \in Int /\ k.turn \in Int
                            /\ k.rank \in Int /\ k.sequence \in 0..MaxSequence
    /\ \A k \in ReadyKeys \cup {NoKey} : k.time \in Int /\ k.turn \in Int
<1>1. ASSUME NEW k \in EventKeys
      PROVE  /\ k.time \in Int /\ k.turn \in Int
             /\ k.rank \in Ranks \cup {0} /\ k.sequence \in 0..MaxSequence
  BY EventQueueAssumption DEF EventKeys
<1>2. \A r \in Ranks \cup {0} : r \in Int
  BY EventQueueAssumption
<1>3. \A k \in ReadyKeys \cup {NoKey} : k.time \in Int /\ k.turn \in Int
  BY EventQueueAssumption DEF ReadyKeys, NoKey
<1> QED
  BY <1>1, <1>2, <1>3

\* A numbered draft is an event key.
LEMMA NumberedIsKey ==
    ASSUME NEW d \in Drafts, NEW n \in 0..MaxSequence
    PROVE  Numbered(d, n) \in EventKeys
<1>1. d.time \in -1..MaxTime /\ d.turn \in 0..MaxTurn /\ d.rank \in Ranks \cup {0}
  BY EventQueueAssumption DEF Drafts
<1> QED
  BY <1>1 DEF Numbered, EventKeys

\* A live reservation names a reserved slot.
LEMMA HeldIsReserved ==
    ASSUME ReservationsOwnSlots, NEW h \in held
    PROVE  h.slot \in Slots /\ state[h.slot] = "Reserved" /\ h = Handle(h.slot)
BY DEF ReservationsOwnSlots, Handle

\* EventKey::operator< is irreflexive.
LEMMA KeyLessIrreflexive == \A k \in EventKeys : ~KeyLess(k, k)
BY KeyFields DEF KeyLess, ReadyLess

\* Batch members are slots.
LEMMA MembersAreSlots ==
    ASSUME TypeOK
    PROVE  \A n \in 1..Len(members) : members[n] \in Slots
<1>1. members \in Seq(Slots)
  BY DEF TypeOK
<1> QED
  BY <1>1

\* An acknowledgement is for the active member at the cursor.
LEMMA AckTakesCurrent ==
    ASSUME TypeOK, SortedBatch, NEW h \in Handles, NEW committed,
           AckExecuted(h, committed)
    PROVE  /\ batch # NoBatch
           /\ cursor \in 0..(Len(members) - 1)
           /\ cursor + 1 \in 1..Len(members)
           /\ h.slot \in Slots
           /\ h.slot = members[cursor + 1]
           /\ state[h.slot] = "Active"
<1>1. batch # NoBatch /\ cursor # Len(members) /\ h.slot = members[cursor + 1]
  BY DEF AckExecuted, Current
<1>2. Len(members) \in Nat
  BY DEF TypeOK
<1>3. cursor \in 0..Len(members)
  BY <1>1 DEF SortedBatch, ClosedBatch
<1>4. cursor \in 0..(Len(members) - 1) /\ cursor + 1 \in 1..Len(members)
  BY <1>1, <1>2, <1>3
<1>5. state[members[cursor + 1]] = IF cursor + 1 <= cursor THEN "Done" ELSE "Active"
  BY <1>1, <1>4 DEF SortedBatch, ClosedBatch
<1>6. h.slot \in Slots
  BY DEF Handles
<1> QED
  BY <1>1, <1>4, <1>5, <1>6

\* The members of a batch are finitely many slots, so a sorted enumeration of
\* them is a sequence of slots.
LEMMA EnumerationIsSequence ==
    ASSUME NEW S, S \subseteq Slots, NEW s \in InKeyOrder(S)
    PROVE  /\ s \in Seq(Slots)
           /\ s \in [1..Len(s) -> S]
<1>1. PICK n \in 0..NumSlots : s \in [1..n -> S]
  BY DEF InKeyOrder
<1>2. n \in Nat
  BY EventQueueAssumption
<1> QED
  BY <1>1, <1>2

\* The empty queue satisfies the invariant.
LEMMA InitEstablishes == Init => IInv
<1> SUFFICES ASSUME Init PROVE IInv
  OBVIOUS
<1> USE EventQueueAssumption DEF Init
<1>1. TypeOK
  BY DEF TypeOK, SlotStates, EventKeys, NoEvent, Slots, ReadyKeys, NoKey, NoBatch, NoTotal, Handles
<1>2. QueuedBeyondFrontier
  BY DEF QueuedBeyondFrontier
<1>3. SortedBatch
  BY DEF SortedBatch, ClosedBatch
<1>4. ReservationsOwnSlots
  BY DEF ReservationsOwnSlots
<1>5. SequencesUnique
  BY DEF SequencesUnique, Live
<1>6. LiveKeys
  BY DEF LiveKeys, Live
<1>7. AckedBehind
  BY DEF AckedBehind, Ready, NoEvent, NoKey
<1> QED
  BY <1>1, <1>2, <1>3, <1>4, <1>5, <1>6, <1>7 DEF IInv

-----------------------------------------------------------------------------
(* One lemma per operation: it preserves the inductive invariant. *)

InBatch(s) == s \in {"Active", "Done"}

\* A step that touches neither the batch nor the slots in it keeps the batch
\* closed and the last acknowledged key behind it.
LEMMA BatchUndisturbed ==
    ASSUME TypeOK, SortedBatch, AckedBehind, UNCHANGED <<batchVars, acked>>,
           \A j \in Slots : InBatch(state[j]) \/ InBatch(state'[j]) =>
               state'[j] = state[j] /\ key'[j] = key[j]
    PROVE  SortedBatch' /\ AckedBehind'
<1>1. AckedBehind'
  BY DEF AckedBehind, batchVars, InBatch
<1>2. CASE batch = NoBatch
  BY <1>1, <1>2 DEF SortedBatch, ClosedBatch, batchVars, InBatch
<1>3. CASE batch # NoBatch
  <2>1. \A n \in 1..Len(members) : members[n] \in Slots /\ InBatch(state[members[n]])
    BY <1>3, MembersAreSlots DEF SortedBatch, ClosedBatch, InBatch
  <2>2. \A n \in 1..Len(members) : /\ state'[members[n]] = state[members[n]]
                                   /\ key'[members[n]] = key[members[n]]
    BY <2>1
  <2>3. \A i \in Slots : InBatch(state'[i]) => \E n \in 1..Len(members) : members[n] = i
    BY <1>3 DEF SortedBatch, ClosedBatch, InBatch
  <2>4. UNCHANGED <<frontier, batch, members, cursor>>
    BY DEF batchVars
  <2>5. /\ cursor \in 0..Len(members)
        /\ \A n \in 1..Len(members) :
              /\ state'[members[n]] = IF n <= cursor THEN "Done" ELSE "Active"
              /\ Ready(key'[members[n]]) = frontier
        /\ \A m, n \in 1..Len(members) :
              m < n => KeyLess(key'[members[m]], key'[members[n]])
    BY <1>3, <2>2, SMTT(40) DEF SortedBatch, ClosedBatch
  <2> QED
    BY <1>1, <1>3, <2>3, <2>4, <2>5 DEF SortedBatch, ClosedBatch, InBatch
<1> QED
  BY <1>2, <1>3

\* prepare (and enqueue of a draft) takes a free slot under a fresh sequence
\* number and beyond the frontier; held follows the new reservation.
LEMMA ClaimPreserves ==
    ASSUME IInv, NEW d \in Drafts, NEW i \in Slots, NEW s \in {"Reserved", "Queued"},
           Claim(d, i, s),
           held' = IF s = "Reserved"
                   THEN held \cup {[slot |-> i, generation |-> generation'[i]]}
                   ELSE held
    PROVE  IInv'
<1> USE EventQueueAssumption DEF IInv, Claim
<1>1. TypeOK'
  <2>1. generation' \in [Slots -> 0..MaxGeneration]
    BY DEF TypeOK, Usable, NextGeneration
  <2>2. key' \in [Slots -> EventKeys]
    <3>1. Numbered(d, nextSequence) \in EventKeys
      BY NumberedIsKey DEF TypeOK
    <3> QED
      BY <3>1 DEF TypeOK
  <2>3. state' \in [Slots -> SlotStates]
    BY DEF TypeOK, SlotStates
  <2>4. held' \subseteq Handles
    <3>1. [slot |-> i, generation |-> generation'[i]] \in Handles
      BY <2>1 DEF Handles
    <3> QED
      BY <3>1 DEF TypeOK
  <2> QED
    BY <2>1, <2>2, <2>3, <2>4 DEF TypeOK, batchVars
<1>2. QueuedBeyondFrontier'
  BY DEF QueuedBeyondFrontier, BeyondFrontier, ReadyLess, TypeOK, batchVars, Passed, Numbered
<1>3. SortedBatch' /\ AckedBehind'
  <2>1. \A j \in Slots : InBatch(state[j]) \/ InBatch(state'[j]) =>
            state'[j] = state[j] /\ key'[j] = key[j]
    BY SMTT(40) DEF TypeOK, InBatch, Usable, Passed
  <2> QED
    BY <2>1, BatchUndisturbed
<1>4. ReservationsOwnSlots'
  <2>1. state[i] = "Free"
    BY DEF Usable
  <2>2. \A j \in Slots \ {i} : generation'[j] = generation[j] /\ (state'[j] = "Reserved" <=> state[j] = "Reserved")
    BY DEF TypeOK, Passed
  <2>3. state'[i] = s
    BY DEF TypeOK
  <2> QED
    BY <2>1, <2>2, <2>3 DEF ReservationsOwnSlots, Handle, TypeOK
<1>5. LiveKeys'
  BY SMTT(40) DEF LiveKeys, Live, TypeOK, Drafts, Passed, Numbered
<1>6. SequencesUnique'
  <2>1. \A j \in Slots \ {i} : Live(j)' => Live(j) /\ key'[j] = key[j]
    BY DEF TypeOK, Live, Passed
  <2>2. \A j \in Slots \ {i} : Live(j)' => key'[j].sequence < nextSequence
    BY <2>1 DEF LiveKeys, TypeOK
  <2>3. key'[i].sequence = nextSequence
    BY DEF TypeOK, Numbered
  <2> QED
    BY <2>1, <2>2, <2>3 DEF SequencesUnique, LiveKeys, TypeOK
<1> QED
  BY <1>1, <1>2, <1>3, <1>4, <1>5, <1>6

\* A failed search retires free slots only.
LEMMA PrepareFullPreserves ==
    ASSUME IInv, NEW d \in Drafts, PrepareFull(d)
    PROVE  IInv'
<1> USE EventQueueAssumption DEF IInv, PrepareFull
<1>1. TypeOK'
  BY DEF TypeOK, SlotStates, batchVars
<1>2. QueuedBeyondFrontier'
  BY DEF QueuedBeyondFrontier, BeyondFrontier, TypeOK, batchVars
<1>3. SortedBatch' /\ AckedBehind'
  <2>1. \A j \in Slots : InBatch(state[j]) \/ InBatch(state'[j]) =>
            state'[j] = state[j] /\ key'[j] = key[j]
    BY DEF TypeOK, InBatch
  <2> QED
    BY <2>1, BatchUndisturbed
<1>4. ReservationsOwnSlots'
  BY DEF ReservationsOwnSlots, Handle, TypeOK
<1>5. LiveKeys'
  BY DEF LiveKeys, Live, TypeOK
<1>6. SequencesUnique'
  BY SMTT(40) DEF SequencesUnique, Live, TypeOK
<1> QED
  BY <1>1, <1>2, <1>3, <1>4, <1>5, <1>6

\* A destroyed reservation frees its own slot.
LEMMA AbandonPreserves ==
    ASSUME IInv, NEW h \in held, Abandon(h)
    PROVE  IInv'
<1> USE EventQueueAssumption DEF IInv, Abandon
<1>a. h.slot \in Slots /\ state[h.slot] = "Reserved" /\ h = Handle(h.slot)
  BY HeldIsReserved
<1>b. state' = [state EXCEPT ![h.slot] = "Free"]
  BY <1>a DEF Handle
<1> USE <1>a, <1>b
<1>1. TypeOK'
  BY DEF TypeOK, SlotStates, batchVars
<1>2. QueuedBeyondFrontier'
  BY DEF QueuedBeyondFrontier, BeyondFrontier, TypeOK, batchVars
<1>3. SortedBatch' /\ AckedBehind'
  <2>1. \A j \in Slots : InBatch(state[j]) \/ InBatch(state'[j]) =>
            state'[j] = state[j] /\ key'[j] = key[j]
    BY DEF TypeOK, InBatch
  <2> QED
    BY <2>1, BatchUndisturbed
<1>4. ReservationsOwnSlots'
  BY SMTT(40) DEF ReservationsOwnSlots, Handle, TypeOK
<1>5. LiveKeys'
  BY DEF LiveKeys, Live, TypeOK
<1>6. SequencesUnique'
  BY DEF SequencesUnique, Live, TypeOK
<1> QED
  BY <1>1, <1>2, <1>3, <1>4, <1>5, <1>6

\* An enqueued reservation is still beyond the frontier.
LEMMA EnqueuePreserves ==
    ASSUME IInv, NEW h \in held, Enqueue(h)
    PROVE  IInv'
<1> USE EventQueueAssumption DEF IInv, Enqueue
<1>a. h.slot \in Slots /\ state[h.slot] = "Reserved" /\ h = Handle(h.slot)
  BY HeldIsReserved
<1> USE <1>a
<1>1. TypeOK'
  BY DEF TypeOK, SlotStates, batchVars
<1>2. QueuedBeyondFrontier'
  BY SMTT(40) DEF QueuedBeyondFrontier, BeyondFrontier, TypeOK, batchVars, Preflight
<1>3. SortedBatch' /\ AckedBehind'
  <2>1. \A j \in Slots : InBatch(state[j]) \/ InBatch(state'[j]) =>
            state'[j] = state[j] /\ key'[j] = key[j]
    BY DEF TypeOK, InBatch
  <2> QED
    BY <2>1, BatchUndisturbed
<1>4. ReservationsOwnSlots'
  BY SMTT(40) DEF ReservationsOwnSlots, Handle, TypeOK
<1>5. LiveKeys'
  BY DEF LiveKeys, Live, TypeOK
<1>6. SequencesUnique'
  BY DEF SequencesUnique, Live, TypeOK
<1> QED
  BY <1>1, <1>2, <1>3, <1>4, <1>5, <1>6

\* Steps that make no event live and renumber none keep numbers unique.
LEMMA NumbersKept ==
    ASSUME SequencesUnique,
           \A i \in Slots : Live(i)' => Live(i),
           \A i \in Slots : key'[i].sequence = key[i].sequence
    PROVE  SequencesUnique'
BY DEF SequencesUnique

\* A retargeted reservation keeps its number.
LEMMA RetargetPreserves ==
    ASSUME IInv, NEW h \in held, NEW d \in Drafts, Retarget(h, d)
    PROVE  IInv'
<1> USE EventQueueAssumption DEF IInv, Retarget, KeptSequence
<1>a. h.slot \in Slots /\ state[h.slot] = "Reserved" /\ h = Handle(h.slot)
  BY HeldIsReserved
<1> USE <1>a
<1>1. TypeOK'
  <2>1. key[h.slot].sequence \in 0..MaxSequence
    BY KeyFields, SMTT(40) DEF TypeOK
  <2>2. Numbered(d, key[h.slot].sequence) \in EventKeys
    BY <2>1, NumberedIsKey
  <2> QED
    BY <2>2 DEF TypeOK, batchVars
<1>2. QueuedBeyondFrontier'
  BY SMTT(40) DEF QueuedBeyondFrontier, BeyondFrontier, TypeOK, batchVars
<1>3. SortedBatch' /\ AckedBehind'
  <2>1. \A j \in Slots : InBatch(state[j]) \/ InBatch(state'[j]) =>
            state'[j] = state[j] /\ key'[j] = key[j]
    BY DEF TypeOK, InBatch
  <2> QED
    BY <2>1, BatchUndisturbed
<1>4. ReservationsOwnSlots'
  BY DEF ReservationsOwnSlots, Handle, TypeOK
<1>5. LiveKeys'
  BY Zenon DEF LiveKeys, Live, TypeOK, Drafts, Numbered
<1>6. SequencesUnique'
  <2>1. Numbered(d, key[h.slot].sequence).sequence = key[h.slot].sequence
    BY DEF Numbered
  <2>2. \A j \in Slots : key'[j].sequence = key[j].sequence
    BY <2>1, SMTT(40) DEF TypeOK
  <2>3. \A j \in Slots : Live(j)' <=> Live(j)
    BY DEF Live
  <2> QED
    BY <2>2, <2>3, NumbersKept
<1> QED
  BY <1>1, <1>2, <1>3, <1>4, <1>5, <1>6, SMTT(40)

\* Cancelling only marks a slot.
LEMMA CancelPreserves ==
    ASSUME IInv, NEW h \in Handles, Cancel(h)
    PROVE  IInv'
<1> USE EventQueueAssumption DEF IInv, Cancel
<1>1. TypeOK'
  BY Zenon DEF TypeOK, SlotStates, batchVars
<1>2. QueuedBeyondFrontier'
  BY SMTT(40) DEF QueuedBeyondFrontier, BeyondFrontier, TypeOK, batchVars
<1>3. SortedBatch' /\ AckedBehind'
  <2>1. \A j \in Slots : InBatch(state[j]) \/ InBatch(state'[j]) =>
            state'[j] = state[j] /\ key'[j] = key[j]
    BY DEF TypeOK, InBatch
  <2> QED
    BY <2>1, BatchUndisturbed
<1>4. ReservationsOwnSlots'
  BY DEF ReservationsOwnSlots, Handle, TypeOK
<1>5. LiveKeys'
  BY DEF LiveKeys, Live, TypeOK
<1>6. SequencesUnique'
  BY DEF SequencesUnique, Live, TypeOK
<1> QED
  BY <1>1, <1>2, <1>3, <1>4, <1>5, <1>6

\* Closing a batch takes the least ready key among the queued events: it lies
\* beyond the old frontier, and what stays queued lies beyond the new one.
LEMMA FrontmostKey ==
    ASSUME TypeOK, LiveKeys, NEW now, NEW f \in Frontmost(now)
    PROVE  /\ f \in Slots /\ state[f] = "Queued"
           /\ key[f].time \in 0..MaxTime /\ key[f].turn \in 0..MaxTurn
           /\ \A i \in Frontmost(now) : key[i].time = key[f].time /\ key[i].turn = key[f].turn
           /\ now \in Int => \A i \in Slots :
                 state[i] = "Queued" /\ i \notin Frontmost(now) => ReadyLess(key[f], key[i])
<1>1. /\ f \in Due(now) /\ f \in Slots /\ state[f] = "Queued" /\ key[f].time <= now
      /\ \A j \in Due(now) : ~ReadyLess(key[j], key[f])
  BY DEF Frontmost, Due
<1>2. \A i \in Slots : key[i].time \in Int /\ key[i].turn \in Int
  BY KeyFields DEF TypeOK
<1>3. key[f].time \in 0..MaxTime
  BY <1>1 DEF LiveKeys, Live
<1>4. key[f].turn \in 0..MaxTurn
  <2>1. key[f] \in EventKeys
    BY <1>1 DEF TypeOK
  <2> QED
    BY <2>1 DEF EventKeys
<1>5. ASSUME NEW i \in Frontmost(now)
      PROVE  key[i].time = key[f].time /\ key[i].turn = key[f].turn
  <2>1. i \in Slots /\ ~ReadyLess(key[i], key[f]) /\ ~ReadyLess(key[f], key[i])
    BY <1>1, <1>5 DEF Frontmost, Due
  <2> QED
    BY <2>1, <1>1, <1>2 DEF ReadyLess
<1>6. ASSUME now \in Int, NEW i \in Slots, state[i] = "Queued", i \notin Frontmost(now)
      PROVE  ReadyLess(key[f], key[i])
  <2>1. CASE i \in Due(now)
    <3>1. PICK j \in Due(now) : ReadyLess(key[j], key[i])
      BY <1>6, <2>1 DEF Frontmost
    <3>2. ~ReadyLess(key[j], key[f]) /\ j \in Slots
      BY <1>1 DEF Due
    <3> QED
      BY <3>1, <3>2, <1>1, <1>2 DEF ReadyLess
  <2>2. CASE i \notin Due(now)
    <3>1. ~(key[i].time <= now)
      BY <1>6, <2>2 DEF Due
    <3> QED
      BY <3>1, <1>1, <1>2, <1>6 DEF ReadyLess
  <2> QED
    BY <2>1, <2>2
<1> QED
  BY <1>1, <1>3, <1>4, <1>5, <1>6

\* Opening a batch moves the frontier to the instant of its members.
LEMMA PopBatchPreserves ==
    ASSUME IInv, NEW now \in 0..MaxTime, PopBatch(now)
    PROVE  IInv'
<1> DEFINE S == Frontmost(now)
<1>i. /\ TypeOK /\ QueuedBeyondFrontier /\ SortedBatch /\ ReservationsOwnSlots
      /\ SequencesUnique /\ LiveKeys /\ AckedBehind
  BY DEF IInv
<1>p. /\ batch = NoBatch /\ batch' = nextBatch /\ nextBatch' = nextBatch + 1
      /\ nextBatch # MaxBatch
      /\ \E i \in S : frontier' = Ready(key[i])
      /\ members' \in InKeyOrder(S)
      /\ state' = [i \in Slots |-> IF i \in S THEN "Active" ELSE state[i]]
      /\ cursor' = 0 /\ resolverCursor' = 0 /\ resolverTotal' = NoTotal
  BY DEF PopBatch
<1>u. UNCHANGED <<generation, key, cancelled, reclaimCursor, nextSequence, held, acked>>
  BY DEF PopBatch
<1>1. S \subseteq Slots /\ \A i \in S : state[i] = "Queued"
  BY DEF Frontmost, Due
<1>2. PICK f \in S : frontier' = Ready(key[f])
  BY <1>p
<1>3. /\ f \in Slots /\ state[f] = "Queued"
      /\ key[f].time \in 0..MaxTime /\ key[f].turn \in 0..MaxTurn
      /\ \A i \in S : key[i].time = key[f].time /\ key[i].turn = key[f].turn
      /\ \A i \in Slots : state[i] = "Queued" /\ i \notin S => ReadyLess(key[f], key[i])
  BY <1>i, FrontmostKey, EventQueueAssumption
<1> HIDE DEF S
<1>4. frontier'.time = key[f].time /\ frontier'.turn = key[f].turn
  BY <1>2, SMTT(40) DEF Ready
<1>5. frontier' \in ReadyKeys
  BY <1>2, <1>3, SMTT(40) DEF Ready, ReadyKeys
<1>6. ReadyLess(frontier, frontier')
  <2>1. frontier = NoKey \/ ReadyLess(frontier, key[f])
    BY <1>3, <1>i, SMTT(40) DEF QueuedBeyondFrontier, BeyondFrontier
  <2> QED
    BY <2>1, <1>3, <1>4, EventQueueAssumption, SMTT(40) DEF ReadyLess, NoKey
<1>7. members' \in Seq(Slots) /\ members' \in [1..Len(members') -> S]
  BY <1>1, <1>p, EnumerationIsSequence
<1>8. \A i \in Slots : /\ i \in S => state'[i] = "Active"
                       /\ i \notin S => state'[i] = state[i]
  BY <1>p, SMTT(40)
<1>9. \A i \in Slots : state[i] \notin {"Active", "Done"}
  BY <1>p, <1>i DEF SortedBatch, ClosedBatch
<1>10. TypeOK'
  <2>1. state' \in [Slots -> SlotStates]
    BY <1>p, <1>i DEF TypeOK, SlotStates
  <2>2. batch' \in 0..MaxBatch /\ nextBatch' \in 1..MaxBatch
    BY <1>p, <1>i, EventQueueAssumption DEF TypeOK
  <2>3. resolverCursor' \in 0..MaxWork /\ resolverTotal' \in {NoTotal} \cup 0..MaxWork /\ cursor' \in Nat
    BY <1>p, EventQueueAssumption
  <2> QED
    BY <2>1, <2>2, <2>3, <1>5, <1>7, <1>i, <1>u, SMTT(40) DEF TypeOK
<1>11. QueuedBeyondFrontier'
  <2>1. ASSUME NEW i \in Slots, state'[i] = "Queued" PROVE ReadyLess(frontier', key[i])
    <3>1. ReadyLess(key[f], key[i])
      BY <2>1, <1>3, <1>8, SMTT(40)
    <3> QED
      BY <3>1, <1>4 DEF ReadyLess
  <2> QED
    BY <2>1, <1>u DEF QueuedBeyondFrontier, BeyondFrontier
<1>12. SortedBatch'
  <2>1. members' \in InKeyOrder(S)
    BY <1>p
  <2>2. /\ members' \in [1..Len(members') -> S]
        /\ \A m, n \in 1..Len(members') : m < n => KeyLess(key[members'[m]], key[members'[n]])
        /\ \A i \in S : \E n \in 1..Len(members') : members'[n] = i
    BY <2>1, <1>7 DEF InKeyOrder
  <2>3. \A i \in Slots : state'[i] \in {"Active", "Done"} => i \in S
    BY <1>8, <1>9
  <2>4. cursor' \in 0..Len(members')
    BY <1>7, <1>p
  <2>5. \A n \in 1..Len(members') :
           /\ state'[members'[n]] = IF n <= cursor' THEN "Done" ELSE "Active"
           /\ Ready(key[members'[n]]) = frontier'
    <3>1. ASSUME NEW n \in 1..Len(members')
          PROVE  /\ state'[members'[n]] = "Active" /\ ~(n <= cursor')
                 /\ Ready(key[members'[n]]) = frontier'
      <4>1. members'[n] \in S
        BY <2>2
      <4>2. state'[members'[n]] = "Active"
        BY <4>1, <1>1, <1>8
      <4>3. ~(n <= cursor')
        BY <1>p, <1>7
      <4>4. Ready(key[members'[n]]) = frontier'
        BY <4>1, <1>2, <1>3 DEF Ready
      <4> QED
        BY <4>2, <4>3, <4>4
    <3> QED
      BY <3>1
  <2>6. batch' # NoBatch
    BY <1>p, <1>i DEF TypeOK, NoBatch
  <2> QED
    BY <2>2, <2>3, <2>4, <2>5, <2>6, <1>u DEF SortedBatch, ClosedBatch
<1>13. ReservationsOwnSlots'
  <2>1. \A i \in Slots : state'[i] = "Reserved" <=> state[i] = "Reserved"
    BY <1>1, <1>8, SMTT(40)
  <2> QED
    BY <2>1, <1>i, <1>u DEF ReservationsOwnSlots, Handle
<1>14. LiveKeys' /\ SequencesUnique'
  <2>1. \A i \in Slots : Live(i)' <=> Live(i)
    BY <1>1, <1>8 DEF Live
  <2> QED
    BY <2>1, <1>i, <1>u DEF LiveKeys, SequencesUnique
<1>15. AckedBehind'
  <2>1. ReadyLess(acked, frontier')
    <3>1. \/ acked.time = frontier.time /\ acked.turn = frontier.turn
          \/ ReadyLess(acked, frontier)
      BY <1>i DEF AckedBehind, Ready
    <3>2. acked \in EventKeys /\ frontier \in ReadyKeys \cup {NoKey}
      BY <1>i DEF TypeOK
    <3>3. /\ acked.time \in Int /\ acked.turn \in Int
          /\ frontier.time \in Int /\ frontier.turn \in Int
          /\ frontier'.time \in Int /\ frontier'.turn \in Int
      BY <3>2, <1>5, KeyFields
    <3> QED
      BY <1>6, <3>1, <3>3, SMTT(40) DEF ReadyLess
  <2>2. ASSUME NEW i \in Slots, state'[i] = "Active"
        PROVE  KeyLess(acked, key[i])
    <3>1. i \in S
      BY <2>2, <1>8, <1>9
    <3>2. key[i].time = frontier'.time /\ key[i].turn = frontier'.turn
      BY <3>1, <1>3, <1>4, SMTT(40)
    <3>3. ReadyLess(acked, key[i])
      BY <2>1, <3>2 DEF ReadyLess
    <3> QED
      BY <3>3 DEF KeyLess
  <2> QED
    BY <2>1, <2>2, <1>u DEF AckedBehind
<1> QED
  BY <1>10, <1>11, <1>12, <1>13, <1>14, <1>15 DEF IInv
==============================================================================
