---------------------- MODULE EventQueueCalendarProofs ----------------------
(***************************************************************************)
(* The event queue implements the event calendar, for every capacity and   *)
(* every limit.  The invariant of EventQueueProofs says which slot carries *)
(* which event; two more facts are needed: a reservation is never already  *)
(* cancelled, and no member is left over when no batch is open.            *)
(***************************************************************************)
EXTENDS EventQueueCalendar, EventQueueProofs

\* A reservation is not cancelled, and without a batch there are no members.
Unburdened ==
    /\ \A i \in Slots : state[i] = "Reserved" => ~cancelled[i]
    /\ batch = NoBatch => members = <<>>

CInv == IInv /\ Unburdened

\* No step cancels a reservation or leaves members without a batch.
LEMMA UnburdenedKept == IInv /\ Unburdened /\ [Next]_vars => Unburdened'
<1> SUFFICES ASSUME IInv, Unburdened, [Next]_vars PROVE Unburdened'
  OBVIOUS
<1>1. /\ state \in [Slots -> SlotStates]
      /\ cancelled \in [Slots -> BOOLEAN]
      /\ held \subseteq Handles
  BY DEF IInv, TypeOK
<1>2. CASE Reserve \/ Post
  BY <1>1, <1>2 DEF Unburdened, Reserve, Prepare, PrepareFull, Post, EnqueueDraft,
     Claim, Passed, batchVars
<1>3. CASE UseReservation
  BY <1>1, <1>3 DEF Unburdened, UseReservation, Abandon, Enqueue, Retarget, Handles,
     batchVars
<1>4. CASE Revoke
  BY <1>1, <1>4 DEF Unburdened, Revoke, Cancel, CanCancel, Handles, batchVars
<1>5. CASE Open
  BY <1>1, <1>5, EventQueueAssumption, SMTT(40) DEF IInv, TypeOK, Unburdened, Open, PopBatch, NoBatch
<1>6. CASE Ack
  BY <1>1, <1>6 DEF Unburdened, Ack, AckExecuted, Handles
<1>7. CASE Resolve
  BY <1>7 DEF Unburdened, Resolve, ResolverStep, slotVars
<1>8. CASE FinishBatch
  BY <1>1, <1>8 DEF Unburdened, FinishBatch
<1>9. CASE Collect
  BY <1>1, <1>9 DEF Unburdened, Collect, CollectStale, batchVars
<1>10. CASE UNCHANGED vars
  BY <1>10 DEF Unburdened, vars
<1> QED
  BY <1>2, <1>3, <1>4, <1>5, <1>6, <1>7, <1>8, <1>9, <1>10 DEF Next

\* Every reachable state satisfies the strengthened invariant.
THEOREM CalendarInvariance == Spec => []CInv
<1>1. Init => CInv
  BY InitEstablishes DEF Init, CInv, Unburdened
<1>2. CInv /\ [Next]_vars => CInv'
  BY NextPreserves, UnburdenedKept DEF CInv
<1> QED
  BY <1>1, <1>2, PTL DEF Spec

-----------------------------------------------------------------------------
(* The mapped variables *)

\* The members from the cursor on are the active slots.
LEMMA RunningSlots ==
    ASSUME CInv
    PROVE  /\ Len(members) \in Nat /\ cursor \in Nat
           /\ \A n \in 1..(Len(members) - cursor) :
                 /\ cursor + n \in 1..Len(members)
                 /\ members[cursor + n] \in Slots
                 /\ state[members[cursor + n]] = "Active"
           /\ \A i \in Slots : state[i] = "Active" =>
                 \E n \in 1..(Len(members) - cursor) : members[cursor + n] = i
           /\ batch = NoBatch => Len(members) - cursor <= 0
<1>1. Len(members) \in Nat /\ cursor \in Nat
  BY DEF CInv, IInv, TypeOK
<1>2. CASE batch = NoBatch
  <2>1. Len(members) = 0
    BY <1>2 DEF CInv, Unburdened
  <2>2. \A i \in Slots : state[i] # "Active"
    BY <1>2 DEF CInv, IInv, SortedBatch, ClosedBatch
  <2> QED
    BY <1>1, <2>1, <2>2
<1>3. CASE batch # NoBatch
  <2>1. /\ \A n \in 1..Len(members) :
              state[members[n]] = IF n <= cursor THEN "Done" ELSE "Active"
        /\ \A i \in Slots : state[i] \in {"Active", "Done"} =>
              \E n \in 1..Len(members) : members[n] = i
    BY <1>3 DEF CInv, IInv, SortedBatch, ClosedBatch
  <2>2. \A n \in 1..Len(members) : members[n] \in Slots
    BY MembersAreSlots DEF CInv, IInv
  <2>3. ASSUME NEW n \in 1..(Len(members) - cursor)
        PROVE  /\ cursor + n \in 1..Len(members)
               /\ members[cursor + n] \in Slots
               /\ state[members[cursor + n]] = "Active"
    <3>1. cursor + n \in 1..Len(members) /\ ~(cursor + n <= cursor)
      BY <1>1
    <3> QED
      BY <2>1, <2>2, <3>1
  <2>4. ASSUME NEW i \in Slots, state[i] = "Active"
        PROVE  \E n \in 1..(Len(members) - cursor) : members[cursor + n] = i
    <3>1. PICK n \in 1..Len(members) : members[n] = i
      BY <2>1, <2>4
    <3>2. ~(n <= cursor)
      BY <2>1, <2>4, <3>1
    <3>3. n - cursor \in 1..(Len(members) - cursor) /\ cursor + (n - cursor) = n
      BY <1>1, <3>2
    <3> QED
      BY <3>1, <3>3
  <2> QED
    BY <1>1, <1>3, <2>3, <2>4
<1> QED
  BY <1>2, <1>3

\* RunningKeys is a sequence of event keys, those of the active slots.
LEMMA RunningIsSequence ==
    ASSUME CInv
    PROVE  /\ RunningKeys \in Seq(EventKeys)
           /\ Len(RunningKeys) = IF Len(members) > cursor THEN Len(members) - cursor ELSE 0
           /\ {RunningKeys[n] : n \in 1..Len(RunningKeys)}
                = {key[i] : i \in {j \in Slots : state[j] = "Active"}}
<1> DEFINE L == IF Len(members) > cursor THEN Len(members) - cursor ELSE 0
<1>1. Len(members) \in Nat /\ cursor \in Nat
  BY RunningSlots
<1>2. L \in Nat /\ 1..(Len(members) - cursor) = 1..L
  BY <1>1
<1>3. \A n \in 1..L : key[members[cursor + n]] \in EventKeys
  BY <1>2, RunningSlots DEF CInv, IInv, TypeOK
<1>4. RunningKeys = [n \in 1..L |-> key[members[cursor + n]]]
  BY <1>2 DEF RunningKeys
<1>5. RunningKeys \in Seq(EventKeys) /\ Len(RunningKeys) = L
  <2> HIDE DEF L
  <2> QED
    BY <1>2, <1>3, <1>4
<1>6. {RunningKeys[n] : n \in 1..L} = {key[i] : i \in {j \in Slots : state[j] = "Active"}}
  <2>1. ASSUME NEW n \in 1..L
        PROVE  RunningKeys[n] \in {key[i] : i \in {j \in Slots : state[j] = "Active"}}
    BY Zenon, <1>2, <1>4, RunningSlots
  <2>2. ASSUME NEW i \in Slots, state[i] = "Active"
        PROVE  key[i] \in {RunningKeys[n] : n \in 1..L}
    BY <1>2, <1>4, <2>2, RunningSlots
  <2> QED
    BY <2>1, <2>2
<1> QED
  BY Zenon, <1>5, <1>6

\* The same fact as a state predicate, to be used in the successor state
RunningExact ==
    /\ RunningKeys \in Seq(EventKeys)
    /\ Len(RunningKeys) = IF Len(members) > cursor THEN Len(members) - cursor ELSE 0
    /\ {RunningKeys[n] : n \in 1..Len(RunningKeys)}
         = {key[i] : i \in {j \in Slots : state[j] = "Active"}}

\* The invariant makes the running keys the keys of the active slots.
LEMMA RunningExactHolds == CInv => RunningExact
BY Zenon, RunningIsSequence DEF RunningExact

\* The calendar's events are the queued and the active slots.
LEMMA VisibleKeys ==
    ASSUME CInv
    PROVE  WaitingKeys \cup Calendar!Members
             = {key[i] : i \in {j \in Slots : state[j] \in {"Queued", "Active"}}}
BY Zenon, RunningIsSequence DEF WaitingKeys, Calendar!Members

\* A step that leaves the queued and the active slots and the batch alone is
\* invisible in the calendar.
LEMMA Invisible ==
    ASSUME CInv, UNCHANGED <<frontier, batch, members, cursor>>,
           \A i \in Slots : /\ state'[i] = "Queued" <=> state[i] = "Queued"
                            /\ state'[i] = "Active" <=> state[i] = "Active"
                            /\ state[i] \in {"Queued", "Active"} =>
                                  key'[i] = key[i] /\ cancelled'[i] = cancelled[i]
    PROVE  UNCHANGED Calendar!calendarVars
<1>1. WaitingKeys' = WaitingKeys
  BY DEF WaitingKeys
<1>2. RunningKeys' = RunningKeys
  BY RunningSlots, SMTT(40) DEF RunningKeys
<1>3. RevokedKeys' = RevokedKeys
  BY DEF RevokedKeys
<1> QED
  BY <1>1, <1>2, <1>3 DEF Calendar!calendarVars

\* A step that makes one slot queued, with a key beyond the frontier and a
\* number of its own, posts its event.
LEMMA Posted ==
    ASSUME CInv, UNCHANGED <<frontier, batch, members, cursor>>,
           NEW i \in Slots,
           state[i] \notin {"Queued", "Active"}, state'[i] = "Queued", ~cancelled'[i],
           BeyondFrontier(key'[i]), key'[i].time \in Nat, key'[i].turn \in Nat,
           \A j \in Slots \ {i} : /\ state'[j] = "Queued" <=> state[j] = "Queued"
                                  /\ state'[j] = "Active" <=> state[j] = "Active"
                                  /\ state[j] \in {"Queued", "Active"} =>
                                        /\ key'[j] = key[j]
                                        /\ cancelled'[j] = cancelled[j]
                                        /\ key[j].sequence # key'[i].sequence
    PROVE  Calendar!Post(key'[i])
<1>1. WaitingKeys' = WaitingKeys \cup {key'[i]}
  BY DEF WaitingKeys
<1>2. RunningKeys' = RunningKeys
  BY RunningSlots, SMTT(40) DEF RunningKeys
<1>3. RevokedKeys' = RevokedKeys
  BY DEF RevokedKeys
<1>4. Calendar!Before(frontier, key'[i])
  BY DEF BeyondFrontier, ReadyLess, Calendar!Before, NoKey
<1>5. \A other \in WaitingKeys \cup Calendar!Members : other.sequence # key'[i].sequence
  BY VisibleKeys
<1> QED
  BY <1>1, <1>2, <1>3, <1>4, <1>5 DEF Calendar!Post

-----------------------------------------------------------------------------
(* One lemma per group of actions *)

\* Reserving or posting is a post of the calendar, or invisible to it.
LEMMA ClaimMaps ==
    ASSUME CInv, NEW d \in Drafts, NEW i \in Slots, NEW s \in {"Reserved", "Queued"},
           Claim(d, i, s)
    PROVE  IF s = "Queued" THEN Calendar!Post(key'[i]) /\ key'[i] \in EventKeys
                           ELSE UNCHANGED Calendar!calendarVars
<1>1. /\ state \in [Slots -> SlotStates] /\ key \in [Slots -> EventKeys]
      /\ cancelled \in [Slots -> BOOLEAN] /\ nextSequence \in 1..MaxSequence
  BY DEF CInv, IInv, TypeOK
<1>2. /\ state[i] = "Free"
      /\ state' = [j \in Slots |-> IF j = i THEN s
                                  ELSE IF j \in Passed(i) THEN "Retired" ELSE state[j]]
      /\ key' = [key EXCEPT ![i] = Numbered(d, nextSequence)]
      /\ cancelled' = [cancelled EXCEPT ![i] = FALSE]
      /\ UNCHANGED <<frontier, batch, members, cursor>>
      /\ BeyondFrontier(d)
  BY DEF Claim, Usable, batchVars
<1>3. \A j \in Slots \ {i} : /\ state'[j] = "Queued" <=> state[j] = "Queued"
                             /\ state'[j] = "Active" <=> state[j] = "Active"
                             /\ key'[j] = key[j] /\ cancelled'[j] = cancelled[j]
  BY <1>1, <1>2 DEF Passed
<1>4. CASE s = "Reserved"
  <2>1. \A j \in Slots : /\ state'[j] = "Queued" <=> state[j] = "Queued"
                         /\ state'[j] = "Active" <=> state[j] = "Active"
                         /\ state[j] \in {"Queued", "Active"} =>
                               key'[j] = key[j] /\ cancelled'[j] = cancelled[j]
    BY Zenon, <1>1, <1>2, <1>3, <1>4
  <2> QED
    BY Zenon, <1>2, <1>4, <2>1, Invisible
<1>5. CASE s = "Queued"
  <2>1. key'[i] = Numbered(d, nextSequence) /\ ~cancelled'[i] /\ state'[i] = "Queued"
    BY <1>1, <1>2, <1>5
  <2>2. key'[i] \in EventKeys
    BY <1>1, <2>1, NumberedIsKey, EventQueueAssumption
  <2>3. key'[i].time \in Nat /\ key'[i].turn \in Nat /\ key'[i].sequence = nextSequence
    BY <2>1, EventQueueAssumption DEF Numbered, Drafts
  <2>4. BeyondFrontier(key'[i])
    BY <1>2, <2>1 DEF BeyondFrontier, ReadyLess, Numbered
  <2>5. \A j \in Slots : state[j] \in {"Queued", "Active"} =>
            key[j].sequence # key'[i].sequence
    BY <1>1, <2>3, EventQueueAssumption DEF CInv, IInv, LiveKeys, Live
  <2> QED
    BY Zenon, <1>2, <1>3, <1>5, <2>1, <2>2, <2>3, <2>4, <2>5, Posted
<1> QED
  BY <1>4, <1>5

\* Enqueueing a reservation is a post; dropping or retargeting it is invisible.
LEMMA UseReservationMaps ==
    ASSUME CInv, UseReservation
    PROVE  \/ UNCHANGED Calendar!calendarVars
           \/ \E k \in EventKeys : Calendar!Post(k)
<1>1. PICK h \in held : Abandon(h) \/ Enqueue(h) \/ \E d \in Drafts : Retarget(h, d)
  BY DEF UseReservation
<1>2. h.slot \in Slots /\ state[h.slot] = "Reserved"
  BY HeldIsReserved DEF CInv, IInv
<1>3. /\ state \in [Slots -> SlotStates] /\ key \in [Slots -> EventKeys]
      /\ cancelled \in [Slots -> BOOLEAN]
  BY DEF CInv, IInv, TypeOK
<1>4. CASE Abandon(h)
  BY <1>2, <1>3, <1>4, Invisible DEF Abandon, batchVars
<1>5. CASE \E d \in Drafts : Retarget(h, d)
  BY <1>2, <1>3, <1>5, Invisible DEF Retarget, batchVars
<1>6. CASE Enqueue(h)
  <2> DEFINE i == h.slot
  <2>1. /\ state' = [state EXCEPT ![i] = "Queued"] /\ key' = key /\ cancelled' = cancelled
        /\ UNCHANGED <<frontier, batch, members, cursor>> /\ BeyondFrontier(key[i])
    BY <1>6 DEF Enqueue, Preflight, batchVars
  <2>2. key[i].time \in Nat
    BY <1>2, EventQueueAssumption DEF CInv, IInv, LiveKeys, Live
  <2>3. key[i].turn \in Nat
    <3>1. key[i] \in EventKeys
      BY <1>2, <1>3
    <3> QED
      BY <3>1, EventQueueAssumption DEF EventKeys
  <2>4. \A j \in Slots \ {i} : state[j] \in {"Queued", "Active"} =>
            key[j].sequence # key[i].sequence
    BY <1>2 DEF CInv, IInv, SequencesUnique, Live
  <2>5. ~cancelled[i]
    BY <1>2 DEF CInv, Unburdened
  <2>6. Calendar!Post(key'[i])
    BY <1>2, <1>3, <2>1, <2>2, <2>3, <2>4, <2>5, Posted, SMTT(40)
  <2> QED
    BY <1>2, <1>3, <2>1, <2>6
<1> QED
  BY <1>1, <1>4, <1>5, <1>6

\* Cancelling a queued or active event revokes its key.
LEMMA RevokeMaps ==
    ASSUME CInv, Revoke
    PROVE  \E k \in EventKeys : Calendar!Revoke(k)
<1>1. PICK h \in Handles : Cancel(h)
  BY DEF Revoke
<1> DEFINE i == h.slot
<1>2. /\ i \in Slots /\ state[i] \in {"Queued", "Active"}
      /\ cancelled' = [cancelled EXCEPT ![i] = TRUE]
      /\ UNCHANGED <<state, key, frontier, batch, members, cursor>>
  BY <1>1 DEF Cancel, CanCancel, Handles, batchVars
<1>3. key \in [Slots -> EventKeys] /\ cancelled \in [Slots -> BOOLEAN]
  BY DEF CInv, IInv, TypeOK
<1>4. RevokedKeys' = RevokedKeys \cup {key[i]}
  <2> HIDE DEF i
  <2> QED
    BY <1>2, <1>3 DEF RevokedKeys
<1>5. WaitingKeys' = WaitingKeys /\ RunningKeys' = RunningKeys
  BY <1>2 DEF WaitingKeys, RunningKeys
<1>6. key[i] \in WaitingKeys \cup Calendar!Members
  BY <1>2, VisibleKeys
<1> QED
  BY <1>2, <1>3, <1>4, <1>5, <1>6 DEF Calendar!Revoke

\* Collecting a stale event discards its key.
LEMMA CollectMaps ==
    ASSUME CInv, Collect
    PROVE  \E keys \in SUBSET WaitingKeys : Calendar!Discard(keys)
<1>1. PICK budget \in 1..NumSlots : CollectStale(budget)
  BY DEF Collect
<1> DEFINE Freed == {i \in Slots : i \in Scanned(budget) /\ Stale(i)}
           keys == {key[i] : i \in Freed}
<1>2. /\ state' = [i \in Slots |-> IF i \in Freed THEN "Free" ELSE state[i]]
      /\ UNCHANGED <<key, cancelled, frontier, batch, members, cursor>>
  BY <1>1 DEF CollectStale, batchVars
<1>3. \A i \in Freed : state[i] = "Queued" /\ cancelled[i]
  BY DEF Stale, CInv, IInv, SortedBatch, ClosedBatch
<1>4. state \in [Slots -> SlotStates] /\ Freed \subseteq Slots
  BY DEF CInv, IInv, TypeOK
<1>5. \A i, j \in Slots : state[i] \in {"Queued", "Active"} /\ state[j] \in {"Queued", "Active"}
                            /\ key[i] = key[j] => i = j
  BY DEF CInv, IInv, SequencesUnique, Live
<1> HIDE DEF Freed
<1>6. WaitingKeys' = WaitingKeys \ keys
  BY <1>2, <1>3, <1>4, <1>5 DEF WaitingKeys
<1>7. RevokedKeys' = RevokedKeys \ keys
  BY <1>2, <1>3, <1>4, <1>5 DEF RevokedKeys
<1>8. RunningKeys' = RunningKeys
  BY <1>2 DEF RunningKeys
<1>9. keys \subseteq WaitingKeys \cap RevokedKeys
  BY <1>3, <1>4 DEF WaitingKeys, RevokedKeys
<1> QED
  BY Zenon, <1>2, <1>6, <1>7, <1>8, <1>9 DEF Calendar!Discard

\* An acknowledgement runs the head of the calendar's batch.
LEMMA AckMaps ==
    ASSUME CInv, Ack
    PROVE  Calendar!RunNext
<1>1. PICK h \in Handles, committed \in BOOLEAN : AckExecuted(h, committed)
  BY DEF Ack
<1> DEFINE i == h.slot
<1>2. /\ batch # NoBatch /\ cursor \in 0..(Len(members) - 1)
      /\ i \in Slots /\ i = members[cursor + 1] /\ state[i] = "Active"
  BY <1>1, AckTakesCurrent DEF CInv, IInv
<1>3. /\ state' = [state EXCEPT ![i] = "Done"] /\ cursor' = cursor + 1
      /\ UNCHANGED <<key, cancelled, frontier, batch, members>>
  BY <1>1 DEF AckExecuted
<1>4. state \in [Slots -> SlotStates] /\ Len(members) \in Nat
  BY DEF CInv, IInv, TypeOK
<1>5. \A j \in Slots : state[j] \in {"Queued", "Active"} /\ key[i] = key[j] => i = j
  BY <1>2 DEF CInv, IInv, SequencesUnique, Live
<1>6. /\ RunningKeys \in Seq(EventKeys)
      /\ Len(RunningKeys) = Len(members) - cursor
      /\ Len(RunningKeys) > 0
  BY <1>2, <1>4, RunningIsSequence
<1>7. RunningKeys # <<>>
  BY <1>6
<1>8. Head(RunningKeys) = key[i]
  <2>1. Head(RunningKeys) = RunningKeys[1]
    BY <1>6
  <2> QED
    BY <1>2, <1>4, <2>1 DEF RunningKeys
<1>9. RunningKeys' = Tail(RunningKeys)
  <2> DEFINE L == Len(members) - cursor
  <2>1. L \in Nat /\ L > 0 /\ Len(members) - (cursor + 1) = L - 1
    BY <1>2, <1>4
  <2>2. RunningKeys' = [n \in 1..(L - 1) |-> key[members[(cursor + 1) + n]]]
    BY <1>3, <2>1 DEF RunningKeys
  <2>3. ASSUME NEW n \in 1..(L - 1)
        PROVE  /\ RunningKeys[n + 1] = key[members[(cursor + 1) + n]]
               /\ RunningKeys[n + 1] \in EventKeys
    <3>1. n + 1 \in 1..(Len(members) - cursor) /\ cursor + (n + 1) = (cursor + 1) + n
      BY <1>2, <2>1, SMTT(40)
    <3>2. RunningKeys[n + 1] = key[members[(cursor + 1) + n]]
      BY <3>1 DEF RunningKeys
    <3> QED
      BY <3>1, <3>2, <1>6
  <2>4. /\ Tail(RunningKeys) \in Seq(EventKeys) /\ Len(Tail(RunningKeys)) = L - 1
        /\ \A n \in 1..(L - 1) : Tail(RunningKeys)[n] = RunningKeys[n + 1]
    BY <1>6, <1>7
  <2> HIDE DEF L
  <2>5. RunningKeys' \in Seq(EventKeys) /\ Len(RunningKeys') = L - 1
    BY <2>1, <2>2, <2>3
  <2>6. \A n \in 1..(L - 1) : RunningKeys'[n] = Tail(RunningKeys)[n]
    BY <2>2, <2>3, <2>4
  <2> QED
    BY <2>4, <2>5, <2>6
<1>10. WaitingKeys' = WaitingKeys
  <2> HIDE DEF i
  <2> QED
    BY <1>2, <1>3, <1>4 DEF WaitingKeys
<1>11. RevokedKeys' = RevokedKeys \ {key[i]}
  <2> HIDE DEF i
  <2> QED
    BY <1>2, <1>3, <1>4, <1>5 DEF RevokedKeys
<1> QED
  BY <1>2, <1>3, <1>7, <1>8, <1>9, <1>10, <1>11 DEF Calendar!RunNext

\* Finishing a batch ends the calendar's batch.
LEMMA FinishMaps ==
    ASSUME CInv, FinishBatch
    PROVE  Calendar!EndBatch
<1>1. /\ batch # NoBatch /\ cursor = Len(members) /\ batch' = NoBatch /\ members' = <<>>
      /\ state' = [i \in Slots |-> IF \E n \in 1..Len(members) : members[n] = i
                                  THEN "Free" ELSE state[i]]
      /\ UNCHANGED <<key, cancelled, frontier, cursor>>
  BY DEF FinishBatch
<1>2. /\ Len(members) \in Nat
      /\ \A n \in 1..Len(members) : state[members[n]] = "Done"
      /\ \A i \in Slots : state[i] # "Active"
  BY <1>1, SMTT(40) DEF CInv, IInv, TypeOK, SortedBatch, ClosedBatch
<1>3. \A i \in Slots : /\ state'[i] = "Queued" <=> state[i] = "Queued"
                       /\ state'[i] # "Active"
  BY <1>1, <1>2
<1>4. WaitingKeys' = WaitingKeys /\ RevokedKeys' = RevokedKeys
  BY <1>1, <1>2, <1>3 DEF WaitingKeys, RevokedKeys
<1>5. RunningKeys = <<>>
  BY <1>1, <1>2, RunningIsSequence
<1>6. RunningKeys' = <<>>
  <2>1. Len(members') - cursor' <= 0 /\ Len(members') - cursor' \in Int
    BY <1>1, <1>2
  <2>2. RunningKeys' = [n \in {} |-> key'[members'[cursor' + n]]]
    BY <2>1 DEF RunningKeys
  <2> QED
    BY <2>2
<1> QED
  BY <1>1, <1>4, <1>5, <1>6 DEF Calendar!EndBatch

\* Popping a batch closes the calendar's batch over the earliest instant.
LEMMA OpenMaps ==
    ASSUME CInv, CInv', Open
    PROVE  Calendar!CloseBatch
<1>1. PICK now \in 0..MaxTime : PopBatch(now)
  BY SMTT(40) DEF Open
<1> DEFINE F == Frontmost(now)
<1>2. /\ batch = NoBatch /\ batch' # NoBatch /\ Due(now) # {}
      /\ (\E i \in F : frontier' = Ready(key[i]))
      /\ members' \in InKeyOrder(F) /\ cursor' = 0
      /\ state' = [i \in Slots |-> IF i \in F THEN "Active" ELSE state[i]]
      /\ UNCHANGED <<key, cancelled>>
  BY <1>1, EventQueueAssumption, SMTT(40) DEF PopBatch, CInv, IInv, TypeOK, NoBatch
<1>3. /\ state \in [Slots -> SlotStates] /\ key \in [Slots -> EventKeys] /\ now \in Int
      /\ F \subseteq Slots /\ \A i \in F : state[i] = "Queued"
  BY EventQueueAssumption, SMTT(40) DEF CInv, IInv, TypeOK, Frontmost, Due
<1>4. \A i, j \in Slots : state[i] = "Queued" /\ state[j] = "Queued" /\ key[i] = key[j] => i = j
  BY DEF CInv, IInv, SequencesUnique, Live
<1>5. \A i \in Slots : state[i] # "Active"
  BY <1>2 DEF CInv, IInv, SortedBatch, ClosedBatch
<1>6. Calendar!Earliest = {key[i] : i \in F}
  <2>1. PICK f \in F : frontier' = Ready(key[f])
    BY <1>2
  <2>2. /\ \A i \in F : key[i].time = key[f].time /\ key[i].turn = key[f].turn
        /\ \A i \in Slots : state[i] = "Queued" /\ i \notin F => ReadyLess(key[f], key[i])
    BY <1>3, FrontmostKey DEF CInv, IInv
  <2>3. \A i \in Slots : key[i].time \in Int /\ key[i].turn \in Int
    BY <1>3, KeyFields
  <2>4. ASSUME NEW i \in F, NEW j \in Slots, state[j] = "Queued"
        PROVE  ~Calendar!Before(key[j], key[i])
    BY <1>3, <2>2, <2>3, <2>4 DEF Calendar!Before, ReadyLess
  <2>5. ASSUME NEW i \in Slots, state[i] = "Queued", i \notin F
        PROVE  Calendar!Before(key[f], key[i])
    BY <2>2, <2>5 DEF Calendar!Before, ReadyLess
  <2> QED
    BY <1>3, <2>4, <2>5 DEF Calendar!Earliest, WaitingKeys
<1> HIDE DEF F
<1>7. WaitingKeys' = WaitingKeys \ {key[i] : i \in F}
  BY <1>2, <1>3, <1>4 DEF WaitingKeys
<1>8. RevokedKeys' = RevokedKeys
  BY <1>2, <1>3, <1>5 DEF RevokedKeys
<1>9. /\ RunningKeys' \in Seq(EventKeys)
      /\ Len(RunningKeys') = IF Len(members') > cursor' THEN Len(members') - cursor' ELSE 0
      /\ {RunningKeys'[n] : n \in 1..Len(RunningKeys')}
            = {key'[i] : i \in {j \in Slots : state'[j] = "Active"}}
  <2>1. RunningExact'
    BY RunningExactHolds, PTL
  <2> QED
    BY Zenon, <2>1 DEF RunningExact
<1>10. {RunningKeys'[n] : n \in 1..Len(RunningKeys')} = {key[i] : i \in F}
  BY Zenon, <1>2, <1>3, <1>5, <1>9
<1>11. ASSUME NEW m \in 1..Len(RunningKeys'), NEW n \in 1..Len(RunningKeys'), m < n
       PROVE  Calendar!RunsBefore(RunningKeys'[m], RunningKeys'[n])
  <2>1. members' \in Seq(Slots) /\ Len(members') \in Nat
    BY <1>2, <1>3, EnumerationIsSequence
  <2>2. Len(members') - cursor' = Len(members') /\ Len(RunningKeys') = Len(members')
    BY <1>2, <1>9, <2>1
  <2>3. RunningKeys' = [l \in 1..Len(members') |-> key[members'[0 + l]]]
    BY <1>2, <2>2 DEF RunningKeys
  <2>4. RunningKeys'[m] = key[members'[m]] /\ RunningKeys'[n] = key[members'[n]]
    BY <2>1, <2>2, <2>3
  <2>5. KeyLess(key[members'[m]], key[members'[n]])
    BY <1>2, <1>11, <2>2, SMTT(40) DEF InKeyOrder
  <2> QED
    BY <2>4, <2>5 DEF KeyLess, ReadyLess, Ready, Calendar!RunsBefore, Calendar!Before,
       Calendar!Instant
<1>12. (\E k \in Calendar!Earliest : frontier' = Calendar!Instant(k)) /\ Calendar!Earliest # {}
  BY <1>2, <1>6 DEF Ready, Calendar!Instant
<1> QED
  BY Zenon, <1>2, <1>6, <1>7, <1>8, <1>9, <1>10, <1>11, <1>12 DEF Calendar!CloseBatch

\* Every step of the queue is a step of the calendar or leaves it unchanged.
LEMMA StepsMap ==
    ASSUME CInv, CInv', [Next]_vars
    PROVE  [Calendar!CalendarNext]_(Calendar!calendarVars)
<1>1. CASE Reserve
  <2>1. CASE \E d \in Drafts : Prepare(d)
    BY <2>1, ClaimMaps DEF Prepare
  <2>2. CASE \E d \in Drafts : PrepareFull(d)
    <3>1. /\ state' = [j \in Slots |-> IF state[j] = "Free" THEN "Retired" ELSE state[j]]
          /\ UNCHANGED <<key, cancelled, frontier, batch, members, cursor>>
      BY <2>2 DEF PrepareFull, batchVars
    <3> QED
      BY <3>1, Invisible
  <2> QED
    BY <1>1, <2>1, <2>2, SMTT(40) DEF Reserve
<1>2. CASE Post
  BY <1>2, ClaimMaps DEF Post, EnqueueDraft, Calendar!CalendarNext
<1>3. CASE UseReservation
  BY <1>3, UseReservationMaps DEF Calendar!CalendarNext
<1>4. CASE Revoke
  BY <1>4, RevokeMaps DEF Calendar!CalendarNext
<1>5. CASE Open
  BY <1>5, OpenMaps DEF Calendar!CalendarNext
<1>6. CASE Ack
  BY <1>6, AckMaps DEF Calendar!CalendarNext
<1>7. CASE Resolve
  <2>1. UNCHANGED <<state, key, cancelled, frontier, batch, members, cursor>>
    BY <1>7 DEF Resolve, ResolverStep, slotVars
  <2> QED
    BY <2>1, Invisible
<1>8. CASE FinishBatch
  BY <1>8, FinishMaps DEF Calendar!CalendarNext
<1>9. CASE Collect
  BY <1>9, CollectMaps DEF Calendar!CalendarNext
<1>10. CASE UNCHANGED vars
  <2>1. UNCHANGED <<state, key, cancelled, frontier, batch, members, cursor>>
    BY <1>10 DEF vars
  <2> QED
    BY <2>1, Invisible
<1> QED
  BY <1>1, <1>2, <1>3, <1>4, <1>5, <1>6, <1>7, <1>8, <1>9, <1>10 DEF Next

\* The event queue implements the event calendar: its initial state is an empty
\* calendar and each of its steps is a step of the calendar or invisible in it.
THEOREM QueueImplementsCalendar == Spec => ImplementsCalendar
<1>1. Init => Calendar!CalendarInit
  <2> SUFFICES ASSUME Init PROVE Calendar!CalendarInit
    OBVIOUS
  <2>1. WaitingKeys = {} /\ RevokedKeys = {}
    BY DEF Init, WaitingKeys, RevokedKeys
  <2>2. RunningKeys = <<>>
    BY DEF Init, RunningKeys
  <2> QED
    BY <2>1, <2>2 DEF Init, Calendar!CalendarInit, Calendar!Start, NoKey
<1>2. CInv /\ CInv' /\ [Next]_vars => [Calendar!CalendarNext]_(Calendar!calendarVars)
  BY StepsMap
<1> QED
  BY <1>1, <1>2, CalendarInvariance, PTL DEF Spec, ImplementsCalendar, Calendar!CalendarSpec

=============================================================================
