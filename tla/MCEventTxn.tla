----------------------------- MODULE MCEventTxn -----------------------------
(* Model checking of EventTxn: the bounds are in the .cfg file. *)
EXTENDS EventTxn, TLC

CONSTANTS t1, t2, p1, p2

TwoTxns == {t1, t2}
TwoParticipants == {p1, p2}
Symmetry == Permutations(TwoTxns) \cup Permutations(TwoParticipants)

\* A behaviour follows either the events of transactions, with two nested
\* savepoints and the queue moving on, or their writes, actions and
\* participants: the two meet only in the byte account.
EventsAlone ==
    /\ \A c \in Cells : cells[c].version = 0
    /\ \A p \in Participants : fate[p] = <<>>
    /\ \A t \in Txns : txn[t].epoch = 0 /\ txn[t].actions = 0 /\ txn[t].writes = <<>>
WritesAlone == nextSequence = 1 /\ \A t \in Txns : Len(saves[t]) <= 1

MCNext == TxnNext /\ (EventsAlone \/ WritesAlone)'
MCSpec == TxnInit /\ [][MCNext]_allVars

=============================================================================
