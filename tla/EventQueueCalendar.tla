------------------------- MODULE EventQueueCalendar -------------------------
(***************************************************************************)
(* The event queue implements the event calendar: reserved, free and done  *)
(* slots are invisible, a queued slot is a waiting event, and the members  *)
(* of the open batch from the cursor on are the events still to run.       *)
(***************************************************************************)
EXTENDS EventQueue

WaitingKeys == {key[i] : i \in {j \in Slots : state[j] = "Queued"}}
RunningKeys == [n \in 1..(Len(members) - cursor) |-> key[members[cursor + n]]]
RevokedKeys == {key[i] : i \in {j \in Slots : /\ state[j] \in {"Queued", "Active"}
                                             /\ cancelled[j]}}

Calendar == INSTANCE EventCalendar WITH
                Keys     <- EventKeys,
                waiting  <- WaitingKeys,
                open     <- batch # NoBatch,
                running  <- RunningKeys,
                frontier <- frontier,
                revoked  <- RevokedKeys

\* Every behaviour of the event queue is one of the calendar: whatever the
\* reservations, handles, cursors, cancellations and collections do, a client
\* sees events that run once, batch by batch, all the earliest ones together
\* and in key order.
ImplementsCalendar == Calendar!CalendarSpec

=============================================================================
