---------------------------- MODULE EventCalendar ----------------------------
(***************************************************************************)
(* What the event queue promises to its clients, without slots, handles,   *)
(* reservations, cursors or limits: a set of waiting events and one batch  *)
(* that is run to its end.  A batch takes ALL the events of the earliest   *)
(* instant that is due, and runs them in the order of their keys; no event *)
(* is ever posted at or before the instant of the last batch.  An event    *)
(* leaves the calendar by running, or by being discarded once revoked.     *)
(*                                                                         *)
(* EventQueueCalendar shows that the event queue implements this module;   *)
(* BlockingCalls uses it in place of the queue.                            *)
(***************************************************************************)
EXTENDS Integers, Sequences

CONSTANT Keys       \* keys of events: records with time, turn, rank, sequence

VARIABLES
    waiting,        \* keys of the events that wait for their instant
    open,           \* whether a batch is open
    running,        \* the members of the open batch still to run, in order
    frontier,       \* the instant of the last batch
    revoked         \* keys of the waiting and running events that are cancelled

calendarVars == <<waiting, open, running, frontier, revoked>>

Instant(k) == [time |-> k.time, turn |-> k.turn]
Start == [time |-> -1, turn |-> 0]

Before(a, b) == \/ a.time < b.time
                \/ a.time = b.time /\ a.turn < b.turn

RunsBefore(a, b) == \/ Before(a, b)
                    \/ /\ Instant(a) = Instant(b)
                       /\ \/ a.rank < b.rank
                          \/ a.rank = b.rank /\ a.sequence < b.sequence

Members == {running[n] : n \in 1..Len(running)}

CalendarInit ==
    /\ waiting = {}
    /\ open = FALSE
    /\ running = <<>>
    /\ frontier = Start
    /\ revoked = {}

\* An event may be posted only in the future, under a number of its own.
Post(k) ==
    /\ Before(frontier, k)
    /\ \A other \in waiting \cup Members : other.sequence # k.sequence
    /\ waiting' = waiting \cup {k}
    /\ UNCHANGED <<open, running, frontier, revoked>>

Revoke(k) ==
    /\ k \in waiting \cup Members
    /\ revoked' = revoked \cup {k}
    /\ UNCHANGED <<waiting, open, running, frontier>>

\* A revoked event that has not been reached may be forgotten.
Discard(keys) ==
    /\ keys \subseteq waiting \cap revoked
    /\ waiting' = waiting \ keys
    /\ revoked' = revoked \ keys
    /\ UNCHANGED <<open, running, frontier>>

\* The earliest events of the calendar
Earliest == {k \in waiting : \A other \in waiting : ~Before(other, k)}

\* The earliest events become the batch, all of them and in order.
CloseBatch ==
    /\ ~open
    /\ Earliest # {}
    /\ open' = TRUE
    /\ waiting' = waiting \ Earliest
    /\ \E k \in Earliest : frontier' = Instant(k)
    /\ running' \in Seq(Keys)
    /\ {running'[n] : n \in 1..Len(running')} = Earliest
    /\ \A m, n \in 1..Len(running') : m < n => RunsBefore(running'[m], running'[n])
    /\ UNCHANGED revoked

\* The next member runs, or is passed over because it is revoked.
RunNext ==
    /\ open
    /\ running # <<>>
    /\ running' = Tail(running)
    /\ revoked' = revoked \ {Head(running)}
    /\ UNCHANGED <<waiting, open, frontier>>

EndBatch ==
    /\ open
    /\ running = <<>>
    /\ open' = FALSE
    /\ UNCHANGED <<waiting, running, frontier, revoked>>

CalendarNext == \/ \E k \in Keys : Post(k) \/ Revoke(k)
                \/ \E keys \in SUBSET waiting : Discard(keys)
                \/ CloseBatch
                \/ RunNext
                \/ EndBatch

CalendarSpec == CalendarInit /\ [][CalendarNext]_calendarVars

=============================================================================
