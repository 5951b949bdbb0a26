------------------------------ MODULE EventTxn ------------------------------
(***************************************************************************)
(* The segment transaction (runtime/src/event_txn.cpp) over the event      *)
(* queue.  Several transactions may be open at once: a running segment and *)
(* ones prepared in advance, such as the cleanup transaction of an         *)
(* interrupt pulse.  Each buffers cell writes with the version it saw,     *)
(* reserves events, stages cancellations, send intents and participants,   *)
(* and takes savepoints.  commit validates everything, then applies        *)
(* everything; a validated apply that still fails calls std::terminate.    *)
(*                                                                         *)
(* Calls that fail change nothing and are stuttering steps.  A value is    *)
(* represented by the bytes it owns; an event, an intent and a participant *)
(* cost one byte each until the participant grows.                         *)
(***************************************************************************)
EXTENDS EventQueue, SequencesExt

CONSTANTS
    Txns,           \* transactions
    Cells,          \* versioned cells
    EpochIndependent, \* cells whose contents outlive resets
    Values,         \* values, each its own size in bytes
    Participants,   \* prepared participants
    MaxVersion,     \* value at which cell versions are exhausted
    MaxEpoch,       \* bound on resets
    WriteBudget, EventBudget, ActionBudget, ByteBudget,  \* SegmentBudget
    MaxSaves        \* bound on nested savepoints

ASSUME EventTxnAssumption ==
    /\ EpochIndependent \subseteq Cells
    /\ Values \subseteq Nat
    /\ MaxVersion \in Nat
    /\ MaxEpoch \in Nat
    /\ {WriteBudget, EventBudget, ActionBudget, ByteBudget, MaxSaves} \subseteq Nat

VARIABLES
    cells,      \* VersionedCell: value, version and epoch of every cell
    txn,        \* the EventTxn objects
    saves,      \* the live Savepoint objects of each transaction, innermost last
    fate,       \* staging, apply and discard calls seen by each participant
    terminated  \* std::terminate was called

txnVars == <<cells, txn, saves, fate, terminated>>
allVars == <<vars, txnVars>>

NewTxn(e) == [status |-> "open", epoch |-> e, writes |-> <<>>, actions |-> 0,
              events |-> <<>>, cancels |-> <<>>, participants |-> <<>>,
              participantBytes |-> <<>>, bytes |-> 0]
Unborn == [NewTxn(0) EXCEPT !.status = "unborn"]

TxnInit ==
    /\ Init
    /\ cells = [c \in Cells |-> [value |-> 0, version |-> 0, epoch |-> 0]]
    /\ txn = [t \in Txns |-> Unborn]
    /\ saves = [t \in Txns |-> <<>>]
    /\ fate = [p \in Participants |-> <<>>]
    /\ terminated = FALSE

-----------------------------------------------------------------------------
Closed(t) == txn[t].status # "open"
Fits(t, n) == n <= ByteBudget - txn[t].bytes

\* Cells such as those of queues and register banks are written in any epoch.
SameEpoch(t, c) == c \in EpochIndependent \/ cells[c].epoch = txn[t].epoch

WrittenCells(t) == {txn[t].writes[n].cell : n \in DOMAIN txn[t].writes}
Prior(t, c) == SelectSeq(txn[t].writes, LAMBDA w : w.cell = c)

\* The bytes of the value that a write to c replaces
Freed(t, c) == IF Prior(t, c) = <<>> THEN 0 ELSE Prior(t, c)[1].value

\* Constructor with the epoch of the execution context
Begin(t) ==
    /\ txn[t].status = "unborn"
    /\ \E e \in 0..MaxEpoch : txn' = [txn EXCEPT ![t] = NewTxn(e)]
    /\ UNCHANGED <<vars, cells, saves, fate, terminated>>

\* buffer: a second write to a cell keeps the version of the first
Buffer(t, c, v) ==
    LET prior == Prior(t, c)
        freed == Freed(t, c)
    IN /\ ~Closed(t)
       /\ SameEpoch(t, c)
       /\ v <= ByteBudget - (txn[t].bytes - freed)
       /\ prior = <<>> => Len(txn[t].writes) # WriteBudget
       /\ txn' = [txn EXCEPT
             ![t].bytes = @ - freed + v,
             ![t].writes =
                IF prior = <<>>
                THEN Append(@, [cell |-> c, version |-> cells[c].version, value |-> v])
                ELSE [n \in DOMAIN @ |-> IF @[n].cell = c
                                         THEN [@[n] EXCEPT !.value = v] ELSE @[n]]]
       /\ UNCHANGED <<vars, cells, saves, fate, terminated>>

StageAction(t) ==
    /\ ~Closed(t)
    /\ txn[t].actions # ActionBudget
    /\ Fits(t, 1)
    /\ txn' = [txn EXCEPT ![t].actions = @ + 1, ![t].bytes = @ + 1]
    /\ UNCHANGED <<vars, cells, saves, fate, terminated>>

StageEvent(t, d) ==
    /\ ~Closed(t)
    /\ Len(txn[t].events) # EventBudget
    /\ Fits(t, 1)
    /\ Prepare(d)
    /\ \E h \in held' \ held :
          txn' = [txn EXCEPT ![t].events = Append(@, h), ![t].bytes = @ + 1]
    /\ UNCHANGED <<cells, saves, fate, terminated>>

Own(t, h) == h \in Range(txn[t].events)

StageCancel(t, h) ==
    /\ ~Closed(t)
    /\ Len(txn[t].cancels) # EventBudget
    /\ Own(t, h) \/ ValidateCancel(h)
    /\ txn' = [txn EXCEPT ![t].cancels = Append(@, h)]
    /\ UNCHANGED <<vars, cells, saves, fate, terminated>>

\* stage_participant: an unusable participant is discarded at once
StageParticipant(t, p) ==
    /\ fate[p] = <<>>
    /\ IF ~Closed(t) /\ Len(txn[t].participants) # WriteBudget /\ Fits(t, 1)
       THEN /\ txn' = [txn EXCEPT ![t].participants = Append(@, p),
                                  ![t].participantBytes = Append(@, 1),
                                  ![t].bytes = @ + 1]
            /\ fate' = [fate EXCEPT ![p] = <<"staged">>]
       ELSE /\ fate' = [fate EXCEPT ![p] = Append(@, "discard")]
            /\ UNCHANGED txn
    /\ UNCHANGED <<vars, cells, saves, terminated>>

\* reserve_participant_growth of the n-th participant to size bytes
ReserveGrowth(t, n, size) ==
    /\ ~Closed(t)
    /\ n \in DOMAIN txn[t].participants
    /\ size > txn[t].participantBytes[n]
    /\ Fits(t, size - txn[t].participantBytes[n])
    /\ txn' = [txn EXCEPT ![t].participantBytes[n] = size,
                          ![t].bytes = @ + size - txn[t].participantBytes[n]]
    /\ UNCHANGED <<vars, cells, saves, fate, terminated>>

-----------------------------------------------------------------------------
(* Savepoints *)

\* checkpoint copies the writes and remembers how long the other lists are;
\* the last field is history: the transaction as it was.
Checkpoint(t) ==
    /\ ~Closed(t)
    /\ Len(saves[t]) < MaxSaves
    /\ saves' = [saves EXCEPT ![t] = Append(@,
          [writes |-> txn[t].writes, participantBytes |-> txn[t].participantBytes,
           bytes |-> txn[t].bytes, actions |-> txn[t].actions,
           events |-> Len(txn[t].events), cancels |-> Len(txn[t].cancels),
           participants |-> Len(txn[t].participants), was |-> txn[t]])]
    /\ UNCHANGED <<vars, cells, txn, fate, terminated>>

\* A savepoint that goes out of scope unused
DropSavepoint(t) ==
    /\ saves[t] # <<>>
    /\ saves' = [saves EXCEPT ![t] = Front(@)]
    /\ UNCHANGED <<vars, cells, txn, fate, terminated>>

\* Mutant of RolledBack: the writes are not restored.
RolledBackKeepingWrites(t, s) ==
    [txn[t] EXCEPT !.participantBytes = s.participantBytes,
                   !.bytes = s.bytes,
                   !.actions = s.actions,
                   !.events = SubSeq(@, 1, s.events),
                   !.cancels = SubSeq(@, 1, s.cancels),
                   !.participants = SubSeq(@, 1, s.participants)]

\* What rolling back transaction t to savepoint s leaves of it
RolledBack(t, s) ==
    [txn[t] EXCEPT !.writes = s.writes,
                   !.participantBytes = s.participantBytes,
                   !.bytes = s.bytes,
                   !.actions = s.actions,
                   !.events = SubSeq(@, 1, s.events),
                   !.cancels = SubSeq(@, 1, s.cancels),
                   !.participants = SubSeq(@, 1, s.participants)]

\* Destroying reservations hs: EventQueue::abandon frees their slots
AbandonAll(hs) ==
    /\ held' = held \ hs
    /\ state' = [i \in Slots |-> IF Handle(i) \in hs /\ state[i] = "Reserved"
                                THEN "Free" ELSE state[i]]
    /\ UNCHANGED <<generation, key, cancelled, batchVars, reclaimCursor,
                   nextSequence, acked>>

\* Mutant of Settle: the participants are not told.
SettleNone(ps, how) == UNCHANGED fate

Settle(ps, how) ==
    fate' = [p \in Participants |->
                  IF p \in ps THEN Append(fate[p], how) ELSE fate[p]]

\* rollback with the innermost live savepoint
Rollback(t) ==
    LET s == Last(saves[t])
        kept == RolledBack(t, s)
    IN /\ ~Closed(t)
       /\ saves[t] # <<>>
       /\ s.actions <= txn[t].actions
       /\ s.events <= Len(txn[t].events)
       /\ s.cancels <= Len(txn[t].cancels)
       /\ s.participants <= Len(txn[t].participants)
       /\ txn' = [txn EXCEPT ![t] = kept]
       /\ AbandonAll(Range(txn[t].events) \ Range(kept.events))
       /\ Settle(Range(txn[t].participants) \ Range(kept.participants), "discard")
       /\ saves' = [saves EXCEPT ![t] = Front(@)]
       /\ UNCHANGED <<cells, terminated>>

-----------------------------------------------------------------------------
(* The end of a transaction *)

\* Mutants of Validated: a check is missing.
ValidatedUnversioned(t) ==
    /\ \A w \in Range(txn[t].writes) : cells[w.cell].version # MaxVersion
    /\ \A h \in Range(txn[t].events) : Preflight(h)
    /\ \A h \in Range(txn[t].cancels) : Own(t, h) \/ ValidateCancel(h)
ValidatedWithoutCancels(t) ==
    /\ \A w \in Range(txn[t].writes) : cells[w.cell].version = w.version
    /\ \A h \in Range(txn[t].events) : Preflight(h)

\* The checks of commit before anything is applied; a participant's own
\* validate may refuse too, and the transaction then stays open.
Validated(t) ==
    /\ \A w \in Range(txn[t].writes) :
          /\ cells[w.cell].version = w.version
          /\ SameEpoch(t, w.cell)
          /\ w.version # MaxVersion
    /\ \A h \in Range(txn[t].events) : Preflight(h)
    /\ \A h \in Range(txn[t].cancels) : Own(t, h) \/ ValidateCancel(h)

\* The queue after the staged events are enqueued
Enqueued(t) ==
    [i \in Slots |-> IF Own(t, Handle(i)) THEN "Queued" ELSE state[i]]

\* An enqueue or a cancel of the apply phase returns an error
ApplyFails(t) ==
    \/ \E h \in Range(txn[t].events) : ~Preflight(h)
    \/ \E h \in Range(txn[t].cancels) :
          ~Valid(h) \/ Enqueued(t)[h.slot] = "Reserved"

\* The staged cancellations take effect on queued and active events
CancelledBy(t) ==
    [i \in Slots |-> cancelled[i] \/ /\ Handle(i) \in Range(txn[t].cancels)
                                     /\ Enqueued(t)[i] \in {"Queued", "Active"}]

\* commit with the epoch of its context
Commit(t) ==
    /\ ~Closed(t)
    /\ Validated(t)
    /\ cells' = [c \in Cells |->
          IF c \in WrittenCells(t)
          THEN [cells[c] EXCEPT !.value = Prior(t, c)[1].value, !.version = @ + 1]
          ELSE cells[c]]
    /\ state' = Enqueued(t)
    /\ held' = held \ Range(txn[t].events)
    /\ cancelled' = CancelledBy(t)
    /\ Settle(Range(txn[t].participants), "apply")
    /\ txn' = [txn EXCEPT ![t].status = "committed"]
    /\ saves' = [saves EXCEPT ![t] = <<>>]
    /\ terminated' = (terminated \/ ApplyFails(t))
    /\ UNCHANGED <<generation, key, batchVars, reclaimCursor, nextSequence, acked>>

\* discard, or the destructor of an open transaction
Discard(t) ==
    /\ ~Closed(t)
    /\ AbandonAll(Range(txn[t].events))
    /\ Settle(Range(txn[t].participants), "discard")
    /\ txn' = [txn EXCEPT ![t] = [NewTxn(@.epoch) EXCEPT !.status = "discarded"]]
    /\ saves' = [saves EXCEPT ![t] = <<>>]
    /\ UNCHANGED <<cells, terminated>>

\* A committed reset participant moves a cell to the next epoch.
ResetCell(c) ==
    /\ c \notin EpochIndependent
    /\ cells[c].epoch < MaxEpoch
    /\ cells[c].version # MaxVersion
    /\ cells' = [cells EXCEPT ![c] = [value |-> 0, version |-> @.version + 1,
                                      epoch |-> @.epoch + 1]]
    /\ UNCHANGED <<vars, txn, saves, fate, terminated>>

-----------------------------------------------------------------------------
TxnStep ==
    \E t \in Txns :
        \/ Begin(t)
        \/ \E c \in Cells, v \in Values : Buffer(t, c, v)
        \/ StageAction(t)
        \/ \E d \in Drafts : StageEvent(t, d)
        \/ \E h \in Handles : StageCancel(t, h)
        \/ \E p \in Participants : StageParticipant(t, p)
        \/ \E n \in 1..WriteBudget, size \in 1..ByteBudget : ReserveGrowth(t, n, size)
        \/ Checkpoint(t) \/ DropSavepoint(t) \/ Rollback(t)
        \/ Commit(t) \/ Discard(t)

\* The pump and direct clients of the queue go on meanwhile.
QueueStep == (Post \/ Revoke \/ Open \/ Ack \/ Resolve \/ FinishBatch) /\ UNCHANGED txnVars

TxnNext == TxnStep \/ QueueStep \/ \E c \in Cells : ResetCell(c)

TxnSpec == TxnInit /\ [][TxnNext]_allVars

-----------------------------------------------------------------------------
(* Properties *)

OpenTxns == {t \in Txns : txn[t].status = "open"}
CommittedTxns == {t \in Txns : txn[t].status = "committed"}

\* A validated commit cannot fail half way: after the checks of commit, no
\* enqueue and no cancel of its apply phase returns an error, whatever the
\* queue and other transactions did since the effects were staged.
NeverTerminates == ~terminated

\* First committer wins: two transactions that buffered a write to the same
\* cell from the same version never both commit, across resets too.
WritersSerialised ==
    \A t, u \in CommittedTxns :
        \A w \in Range(txn[t].writes), x \in Range(txn[u].writes) :
            t # u /\ w.cell = x.cell =>
                w.version # x.version /\ w.version < cells[w.cell].version

\* Every participant handed to a transaction is applied or discarded exactly
\* once, applied only by a commit, and left unsettled only while it is staged
\* in an open transaction: stores never keep a preparation nobody ends.
ParticipantsSettledOnce ==
    LET In(S, p) == \E t \in S : p \in Range(txn[t].participants)
    IN \A p \in Participants :
          /\ fate[p] \in {<<>>, <<"discard">>, <<"staged">>,
                          <<"staged", "apply">>, <<"staged", "discard">>}
          /\ fate[p] = <<"staged">> <=> In(OpenTxns, p)
          /\ fate[p] = <<"staged", "apply">> <=> In(CommittedTxns, p)

\* A live savepoint still restores the transaction as it was when it was
\* taken, although it only remembers the lengths of most lists.
SavepointsRestore ==
    \A t \in OpenTxns : \A n \in DOMAIN saves[t] :
        RolledBack(t, saves[t][n]) = saves[t][n].was

=============================================================================
