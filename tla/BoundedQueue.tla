---------------------------- MODULE BoundedQueue ----------------------------
(***************************************************************************)
(* The bounded queue whose entries may carry the right to consume a result *)
(* (stdlib/src/queue.cpp).  The rows are one cell; rights live in the      *)
(* store of results, of which this module has what the queue uses: a right *)
(* has an owner, moving it makes a new one, and room for rights is         *)
(* bounded.  A segment has a copy of both.                                 *)
(***************************************************************************)
EXTENDS Integers, Sequences, FiniteSets, SequencesExt, FiniteSetsExt, Functions, TLC

CONSTANTS
    QueueCapacity, QueueScopes, QueueSegments,
    RightCapacity,  \* consumers of the store
    DrainCap,       \* `cap' of transfer_drain_owned
    RightLimit, EntryLimit  \* bounds on the identities given out

VARIABLES
    fifo,       \* cell_: the next id and the rows
    rights,     \* active rights -> owner
    lastRight,
    openScopes, \* scopes that still accept work
    queueDraft  \* segment -> its copies

queueVarsAll == <<fifo, rights, lastRight, openScopes, queueDraft>>

NoQueueDraft == [open |-> FALSE, current |-> TRUE, fifo |-> [next |-> 0, rows |-> <<>>],
                 rights |-> <<>>, wrote |-> FALSE, moved |-> FALSE]

\* A caller has the right to give away.
QueueInit ==
    /\ fifo = [next |-> 1, rows |-> <<>>]
    /\ rights = (1 :> "caller")
    /\ lastRight = 1
    /\ openScopes = QueueScopes
    /\ queueDraft = [s \in QueueSegments |-> NoQueueDraft]

BeginQueue(s) ==
    /\ ~queueDraft[s].open
    /\ queueDraft' = [queueDraft EXCEPT ![s] = [NoQueueDraft EXCEPT !.open = TRUE, !.fifo = fifo,
                                                                    !.rights = rights]]
    /\ UNCHANGED <<fifo, rights, lastRight, openScopes>>

\* The segment goes on with these copies.
Goes(s, f, r, made) ==
    /\ queueDraft' = [queueDraft EXCEPT ![s].fifo = f, ![s].rights = r,
                                        ![s].wrote = @ \/ f # queueDraft[s].fifo,
                                        ![s].moved = @ \/ r # queueDraft[s].rights]
    /\ lastRight' = lastRight + made
    /\ UNCHANGED <<fifo, rights, openScopes>>

CanAccept(s, scope) ==
    /\ queueDraft[s].open
    /\ scope = "none" \/ scope \in openScopes
    /\ Len(queueDraft[s].fifo.rows) < QueueCapacity
    /\ queueDraft[s].fifo.next <= EntryLimit

Pushed(f, scope, right, owned) ==
    [next |-> f.next + 1,
     rows |-> Append(f.rows, [id |-> f.next, scope |-> scope, published |-> FALSE,
                              consumer |-> right, owned |-> owned])]

TryPush(s, scope) ==
    /\ CanAccept(s, scope)
    /\ Goes(s, Pushed(queueDraft[s].fifo, scope, 0, FALSE), queueDraft[s].rights, 0)

HasRoom(r) == Cardinality(DOMAIN r) < RightCapacity
MovedTo(r, c, owner, new) == Restrict(r, (DOMAIN r) \ {c}) @@ (new :> owner)

\* Mutant: the row stays when the right could not be taken.
TryPushOwnedKept(s, scope, c, move) ==
    LET q == queueDraft[s]
    IN /\ CanAccept(s, scope)
       /\ lastRight < RightLimit
       /\ IF c \in DOMAIN q.rights /\ HasRoom(q.rights)
          THEN Goes(s, Pushed(q.fifo, scope, lastRight + 1, TRUE),
                    IF move THEN MovedTo(q.rights, c, "queue", lastRight + 1)
                            ELSE q.rights @@ (lastRight + 1 :> "queue"), 1)
          ELSE Goes(s, Pushed(q.fifo, scope, 0, TRUE), q.rights, 0)
\* The caller's right is moved or shared; a right that is gone, or a store
\* without room, rolls the push back (the new right comes before the old goes).
TryPushOwned(s, scope, c, move) ==
    LET q == queueDraft[s]
    IN /\ CanAccept(s, scope)
       /\ lastRight < RightLimit
       /\ c \in DOMAIN q.rights /\ q.rights[c] = "caller"
       /\ HasRoom(q.rights)
       /\ Goes(s, Pushed(q.fifo, scope, lastRight + 1, TRUE),
               IF move THEN MovedTo(q.rights, c, "queue", lastRight + 1)
                       ELSE q.rights @@ (lastRight + 1 :> "queue"), 1)

TryPop(s) ==
    LET q == queueDraft[s]
        head == Head(q.fifo.rows)
        rest == [q.fifo EXCEPT !.rows = Tail(@)]
    IN /\ q.open
       /\ q.fifo.rows # <<>>
       /\ IF head.consumer = 0
          THEN Goes(s, rest, q.rights, 0)
          ELSE /\ head.consumer \in DOMAIN q.rights
               /\ HasRoom(q.rights)
               /\ lastRight < RightLimit
               /\ Goes(s, rest, MovedTo(q.rights, head.consumer, "caller", lastRight + 1), 1)

MarkPublished(s, id) ==
    LET q == queueDraft[s]
    IN /\ q.open
       /\ \E n \in DOMAIN q.fifo.rows :
            /\ q.fifo.rows[n].id = id
            /\ Goes(s, [q.fifo EXCEPT !.rows[n].published = TRUE], q.rights, 0)

\* Cancellation of a scope takes its rows that nobody was told of.
RemoveUnpublishedOwned(s, scope) ==
    LET q == queueDraft[s]
        Leaves(row) == row.scope = scope /\ ~row.published
        gone == {row.consumer : row \in {x \in ToSet(q.fifo.rows) : Leaves(x)}} \ {0}
    IN /\ q.open
       /\ gone \subseteq DOMAIN q.rights
       /\ Goes(s, [q.fifo EXCEPT !.rows = SelectSeq(@, LAMBDA row : ~Leaves(row))],
               Restrict(q.rights, (DOMAIN q.rights) \ gone), 0)

\* and hands the published ones, with their rights, to the drain.
TransferDrainOwned(s, scope) ==
    LET q == queueDraft[s]
        rows == q.fifo.rows
        taken == {n \in DOMAIN rows : rows[n].scope = scope /\ rows[n].published}
        moving == {n \in taken : rows[n].consumer # 0}
        new(n) == lastRight + Cardinality({m \in moving : m <= n})
    IN /\ q.open
       /\ Cardinality(taken) <= DrainCap
       /\ lastRight + Cardinality(moving) <= RightLimit
       /\ moving # {} => HasRoom(q.rights)
       /\ \A n \in moving : rows[n].consumer \in DOMAIN q.rights
       /\ Goes(s, [q.fifo EXCEPT !.rows = [n \in DOMAIN rows |->
                        IF n \notin taken THEN rows[n]
                        ELSE [rows[n] EXCEPT !.scope = "drain",
                                             !.consumer = IF @ = 0 THEN 0 ELSE new(n)]]],
               Restrict(q.rights, (DOMAIN q.rights) \ {rows[n].consumer : n \in moving})
                   @@ [c \in {new(n) : n \in moving} |-> "drain"],
               Cardinality(moving))

Overtakes(s, r) == \/ queueDraft[s].wrote /\ queueDraft[r].wrote
                   \/ queueDraft[s].moved /\ queueDraft[r].moved

\* What the segment did not touch it takes from the committed state.
CommitQueue(s) ==
    LET q == queueDraft[s]
        f == IF q.wrote THEN q.fifo ELSE fifo
        r == IF q.moved THEN q.rights ELSE rights
        reads(x) == [x EXCEPT !.fifo = IF x.wrote THEN @ ELSE f,
                              !.rights = IF x.moved THEN @ ELSE r]
    IN /\ q.open
       /\ q.current
       /\ fifo' = f
       /\ rights' = r
       /\ queueDraft' = [x \in QueueSegments |->
            IF x = s THEN NoQueueDraft
            ELSE IF ~queueDraft[x].open THEN queueDraft[x]
            ELSE [reads(queueDraft[x]) EXCEPT !.current = @ /\ ~Overtakes(s, x)]]
       /\ UNCHANGED <<lastRight, openScopes>>

DiscardQueue(s) ==
    /\ queueDraft[s].open
    /\ queueDraft' = [queueDraft EXCEPT ![s] = NoQueueDraft]
    /\ UNCHANGED <<fifo, rights, lastRight, openScopes>>

\* The caller gives a right back directly, which moves the store's version.
ReleaseRight(c) ==
    /\ c \in DOMAIN rights /\ rights[c] = "caller"
    /\ rights' = Restrict(rights, (DOMAIN rights) \ {c})
    /\ queueDraft' = [s \in QueueSegments |->
            IF ~queueDraft[s].open THEN queueDraft[s]
            ELSE IF queueDraft[s].moved THEN [queueDraft[s] EXCEPT !.current = FALSE]
            ELSE [queueDraft[s] EXCEPT !.rights = rights']]
    /\ UNCHANGED <<fifo, lastRight, openScopes>>

CloseScope(scope) ==
    /\ scope \in openScopes
    /\ openScopes' = openScopes \ {scope}
    /\ UNCHANGED <<fifo, rights, lastRight, queueDraft>>

QueueNext ==
    \/ \E s \in QueueSegments :
        \/ BeginQueue(s)
        \/ \E scope \in QueueScopes \cup {"none"} :
            \/ TryPush(s, scope)
            \/ \E c \in DOMAIN rights \cup DOMAIN queueDraft[s].rights, move \in BOOLEAN :
                    TryPushOwned(s, scope, c, move)
        \/ TryPop(s)
        \/ \E id \in 1..EntryLimit : MarkPublished(s, id)
        \/ \E scope \in QueueScopes : RemoveUnpublishedOwned(s, scope)
                                      \/ TransferDrainOwned(s, scope)
        \/ CommitQueue(s)
        \/ DiscardQueue(s)
    \/ \E c \in DOMAIN rights : ReleaseRight(c)
    \/ \E scope \in QueueScopes : CloseScope(scope)

\* In the queue and in every segment that can still commit: the rights the
\* queue and the drain own are exactly those of the rows, each of one row; a
\* row that was pushed with a right has it until it is popped, whoever it
\* was handed to; ids grow along the queue.
QueueOwns ==
    LET Exact(f, r) ==
            LET rows == f.rows
                with == {n \in DOMAIN rows : rows[n].consumer # 0}
            IN /\ {c \in DOMAIN r : r[c] # "caller"} = {rows[n].consumer : n \in with}
               /\ \A n \in DOMAIN rows :
                    /\ rows[n].owned <=> n \in with
                    /\ \A m \in (n + 1)..Len(rows) : rows[n].id < rows[m].id
                    /\ n \in with => r[rows[n].consumer] =
                                        IF rows[n].scope = "drain" THEN "drain" ELSE "queue"
                    /\ n \in with => \A m \in with \ {n} : rows[m].consumer # rows[n].consumer
               /\ Len(rows) <= QueueCapacity
    IN /\ Exact(fifo, rights)
       /\ \A s \in QueueSegments : queueDraft[s].open /\ queueDraft[s].current
                                   => Exact(queueDraft[s].fifo, queueDraft[s].rights)

=============================================================================
