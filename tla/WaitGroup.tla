----------------------------- MODULE WaitGroup -----------------------------
(***************************************************************************)
(* Groups of waits for any or all of several sources (runtime/src/         *)
(* wait_group.cpp, and its part of runtime/src/structured_services.cpp).   *)
(* A branch retains the result of its source; when a batch closes, groups  *)
(* that are due publish a result of their own and resume their process.    *)
(*                                                                         *)
(* A group is changed directly, or in the copies that a segment makes one  *)
(* after the other.  Times are numbers that stand for ReadyKey and for the *)
(* batch.  Handles in the result store are named after what holds them;    *)
(* byte limits and types are left out.                                     *)
(***************************************************************************)
EXTENDS Integers, Sequences, FiniteSets, SequencesExt, FiniteSetsExt, Functions, TLC

CONSTANTS
    GroupCount,         \* groups_.size()
    BranchLimit,        \* branch_limit_
    Sources,            \* tasks whose results are waited for
    WaitProcesses,      \* processes that wait
    Priorities,
    CapabilityLimit,    \* consumers the result store has for waits
    GroupGenerations,   \* bound on *allocation_generation_
    WaitClock,          \* bound on the clock
    GroupCopies         \* bound on the copies of a segment

VARIABLES
    waits,          \* groups_ and the capabilities they hold in the result store
    groupGeneration,    \* *allocation_generation_, shared with the copies
    waitCopies,     \* snapshots of the open segment
    sourceResult,   \* what each source has published
    suspendedOn,    \* per process: the group its frame is suspended on
    waitClock

waitVars == <<waits, groupGeneration, waitCopies, sourceResult, suspendedOn, waitClock>>

GroupIndex == 1..GroupCount
NoGroup == [used |-> FALSE, committed |-> FALSE, resolved |-> FALSE, pending |-> FALSE,
            generation |-> 1, desc |-> <<>>, branches |-> <<>>, outcome |-> <<>>]
Unready == [ready |-> -1, failed |-> FALSE]     \* no candidate
Ended == <<0, 0>>           \* of a process: it was cancelled

GroupsInit ==
    /\ waits = [groups |-> [i \in GroupIndex |-> NoGroup], consumers |-> {}, own |-> {}, producers |-> {}]
    /\ groupGeneration = 2
    /\ waitCopies = <<>>
    /\ sourceResult = [s \in Sources |-> Unready]
    /\ suspendedOn = [p \in WaitProcesses |-> <<>>]
    /\ waitClock = 0

Id(st, i) == <<i, st.groups[i].generation>>
UsedGroups(st) == {i \in GroupIndex : st.groups[i].used}
Staging == waitCopies # <<>>
Present == IF Staging THEN Last(waitCopies) ELSE waits
Room(st) == Cardinality(st.consumers) + Cardinality(st.own) < CapabilityLimit

\* Direct operations are refused while a segment has a copy.
Update(staged, st) ==
    /\ IF staged THEN Len(waitCopies) < GroupCopies /\ waitCopies' = Append(waitCopies, st) /\ UNCHANGED waits
                 ELSE ~Staging /\ waits' = st /\ UNCHANGED waitCopies
    /\ UNCHANGED <<sourceResult, waitClock>>

-----------------------------------------------------------------------------

\* Mutant of Cleaned: the consumers of branches stay with the result store.
CleanedNot(st, i) == [st EXCEPT !.groups[i].branches = [o \in DOMAIN @ |-> [@[o] EXCEPT !.consumer = FALSE]]]

\* cleanup: native registrations, pins and the consumers of branches go.
Cleaned(st, i) ==
    [st EXCEPT !.groups[i].branches = [o \in DOMAIN @ |-> [@[o] EXCEPT !.consumer = FALSE]],
               !.consumers = {c \in @ : c[1] # Id(st, i)}]

\* The control of the group goes, with what it still holds (release, abort).
Dropped(st, i) ==
    LET g == st.groups[i]
    IN [Cleaned(st, i) EXCEPT !.own = @ \ {Id(st, i)}, !.producers = @ \ {Id(st, i)},
                              !.groups[i] = [NoGroup EXCEPT !.generation = g.generation + 1]]

\* A process waits for one group at a time.
Busy(st, p) ==
    \E i \in UsedGroups(st) : LET g == st.groups[i] IN
        (~g.resolved \/ g.pending) /\ g.desc.process = p

\* create: mode and policy, the process and the number of branches
CreateGroup(desc, staged) ==
    LET st == Present
        i == Min(GroupIndex \ UsedGroups(st))
    IN /\ desc.mode = "Any" => desc.count > 0
       /\ ~Busy(st, desc.process)
       /\ suspendedOn[desc.process] = <<>>
       /\ UsedGroups(st) # GroupIndex
       /\ groupGeneration < GroupGenerations
       /\ Room(st)
       /\ groupGeneration' = groupGeneration + 1
       /\ LET id == <<i, groupGeneration>> IN
          /\ Update(staged, [st EXCEPT
                !.groups[i] = [NoGroup EXCEPT !.used = TRUE, !.desc = desc, !.generation = groupGeneration,
                                              !.committed = staged /\ desc.count = 0],
                !.own = @ \cup {id}, !.producers = @ \cup {id}])
          /\ UNCHANGED suspendedOn

\* What a branch finds when it is armed: a result published by now.
Found(s) == IF sourceResult[s] # Unready /\ sourceResult[s].ready <= waitClock THEN sourceResult[s] ELSE Unready

\* arm, and the commit that the service makes of the last branch.  A direct
\* one that fails aborts the group; within a segment it is rolled back.
ArmBranch(i, o, priority, s, staged) ==
    LET st == Present
        g == st.groups[i]
        armed == [st EXCEPT
            !.groups[i].branches = (o :> [priority |-> priority, source |-> s, consumer |-> TRUE,
                                          candidate |-> Found(s)]) @@ @,
            !.groups[i].committed = staged /\ Cardinality(DOMAIN g.branches) + 1 = g.desc.count,
            !.consumers = @ \cup {<<Id(st, i), o>>}]
        fits == o <= g.desc.count /\ o \notin DOMAIN g.branches /\ Room(st)
    IN /\ g.used
       /\ ~g.committed
       /\ staged => fits
       /\ Update(staged, IF fits THEN armed ELSE Dropped(st, i))
       /\ UNCHANGED <<groupGeneration, suspendedOn>>

\* commit by the host: an incomplete group is aborted.
CommitGroup(i) ==
    LET g == waits.groups[i]
    IN /\ g.used
       /\ ~g.committed
       /\ Update(FALSE, IF Cardinality(DOMAIN g.branches) = g.desc.count
                        THEN [waits EXCEPT !.groups[i].committed = TRUE] ELSE Dropped(waits, i))
       /\ UNCHANGED <<groupGeneration, suspendedOn>>

\* record: the first notification of a branch counts.
RecordCandidate(i, o, failed) ==
    LET g == waits.groups[i]
    IN /\ g.used
       /\ ~g.resolved
       /\ o \in DOMAIN g.branches
       /\ g.branches[o].candidate = Unready
       /\ Update(FALSE, [waits EXCEPT !.groups[i].branches[o].candidate =
                            [ready |-> waitClock, failed |-> failed]])
       /\ UNCHANGED <<groupGeneration, suspendedOn>>

\* release.  The service refuses it while the process is suspended and has no
\* outcome; a cancelled scope ends the process as well.
ReleaseGroup(i, staged, cancelling) ==
    LET st == Present
        p == st.groups[i].desc.process
    IN /\ st.groups[i].used
       /\ staged /\ ~cancelling => suspendedOn[p] # Id(st, i)
       /\ Update(staged, Dropped(st, i))
       /\ UNCHANGED <<groupGeneration, suspendedOn>>

\* A committed segment leaves each process it let wait suspended, and has ended
\* those whose group it cancelled.
CommitWaits ==
    /\ Staging
    /\ waits' = Present
    /\ waitCopies' = <<>>
    /\ LET news == {i \in UsedGroups(Present) : Id(Present, i) \notin waits.own}
       IN /\ \A i \in news : Present.groups[i].committed
          /\ suspendedOn' = [p \in WaitProcesses |->
                LET mine == {i \in news : Present.groups[i].desc.process = p}
                IN CASE mine # {} -> Id(Present, CHOOSE i \in mine : TRUE)
                     [] suspendedOn[p] \in waits.own \ Present.own -> Ended
                     [] OTHER -> suspendedOn[p]]
    /\ UNCHANGED <<groupGeneration, sourceResult, waitClock>>

\* Copies are dropped from the last on.
RollbackWaits ==
    /\ Staging
    /\ waitCopies' = Front(waitCopies)
    /\ UNCHANGED <<waits, groupGeneration, sourceResult, suspendedOn, waitClock>>

PublishSource(s, ready, failed) ==
    /\ ~Staging
    /\ sourceResult[s] = Unready
    /\ sourceResult' = [sourceResult EXCEPT ![s] = [ready |-> ready, failed |-> failed]]
    /\ UNCHANGED <<waits, groupGeneration, waitCopies, suspendedOn, waitClock>>

\* The task of the process is cancelled: its group stays.
CancelWaiter(p) ==
    /\ ~Staging
    /\ suspendedOn[p] \in waits.own
    /\ suspendedOn' = [suspendedOn EXCEPT ![p] = Ended]
    /\ UNCHANGED <<waits, groupGeneration, waitCopies, sourceResult, waitClock>>

-----------------------------------------------------------------------------
(* The end of a batch: StructuredServices::resolve *)

\* refresh_sources
Refreshed(g) ==
    IF g.used /\ g.committed /\ ~g.resolved
    THEN [g EXCEPT !.branches = [o \in DOMAIN @ |-> LET b == @[o] IN
            IF b.candidate = Unready THEN [b EXCEPT !.candidate = Found(b.source)] ELSE b]]
    ELSE g

Eligible(g) == {o \in DOMAIN g.branches : g.branches[o].candidate # Unready}

\* Mutant of Earlier: the declared order decides before the priority does.
EarlierByOrdinal(g, a, b) ==
    LET x == g.branches[a] y == g.branches[b]
    IN \/ x.candidate.ready < y.candidate.ready
       \/ x.candidate.ready = y.candidate.ready /\ a < b

\* The order of winners
Earlier(g, a, b) ==
    LET x == g.branches[a] y == g.branches[b]
    IN \/ x.candidate.ready < y.candidate.ready
       \/ /\ x.candidate.ready = y.candidate.ready
          /\ x.priority < y.priority \/ (x.priority = y.priority /\ a < b)

First(g, among) == CHOOSE o \in among : \A b \in among \ {o} : Earlier(g, o, b)

\* The outcome of a group, <<>> while it is not due
Outcome(g) ==
    LET eligible == Eligible(g)
        failed == {o \in eligible : g.branches[o].candidate.failed}
    IN CASE g.desc.mode = "Any" -> IF eligible = {} THEN <<>> ELSE <<"First", First(g, eligible)>>
         [] eligible = DOMAIN g.branches /\ (g.desc.policy = "CollectAll" \/ failed = {}) -> <<"All", 0>>
         [] g.desc.policy = "FailFast" /\ failed # {} -> <<"Failed", First(g, failed)>>
         [] OTHER -> <<>>

\* One group: its result is published, its sources are let go and its process
\* is resumed.  A resumption that fails is left for the next batch, and so is
\* everything behind it.
ResolveGroup(r, i) ==
    LET g == r.st.groups[i]
        outcome == Outcome(g)
        p == g.desc.process
        reached == suspendedOn[p] = Id(r.st, i) \/ ~g.desc.resumes
        published == [Cleaned(r.st, i) EXCEPT !.producers = @ \ {Id(r.st, i)},
                        !.groups[i].resolved = TRUE, !.groups[i].outcome = outcome,
                        !.groups[i].pending = ~reached]
        resumed(st) == [st |-> st, resumed |-> r.resumed \cup {p}, stuck |-> FALSE]
    IN CASE r.stuck \/ ~g.used \/ ~g.committed -> r
         [] g.resolved /\ ~g.pending -> r
         [] g.resolved -> IF reached THEN resumed([r.st EXCEPT !.groups[i].pending = FALSE])
                          ELSE [r EXCEPT !.stuck = TRUE]
         [] outcome = <<>> -> r
         [] reached -> resumed(published)
         [] OTHER -> [r EXCEPT !.st = published, !.stuck = TRUE]

\* A process that the host waits for is resumed by callback alone.
Resolve ==
    LET fresh == [waits EXCEPT !.groups = [i \in GroupIndex |-> Refreshed(@[i])]]
        r == FoldLeft(ResolveGroup, [st |-> fresh, resumed |-> {}, stuck |-> FALSE],
                      [i \in GroupIndex |-> i])
    IN /\ ~Staging
       /\ waitClock < WaitClock
       /\ waits' = r.st
       /\ suspendedOn' = [p \in WaitProcesses |-> IF p \in r.resumed THEN <<>> ELSE suspendedOn[p]]
       /\ waitClock' = waitClock + 1
       /\ UNCHANGED <<groupGeneration, waitCopies, sourceResult>>

Descs == [mode : {"Any"}, policy : {"CollectAll"}, count : 1..BranchLimit, process : WaitProcesses, resumes : BOOLEAN]
    \cup [mode : {"All"}, policy : {"CollectAll", "FailFast"}, count : 0..BranchLimit, process : WaitProcesses, resumes : BOOLEAN]

\* Waits of processes come from services, in segments; those of the host do not
\* suspend a process.
WaitsNext ==
    \/ \E desc \in Descs : CreateGroup(desc, desc.resumes)
    \/ \E i \in UsedGroups(Present) : LET staged == Present.groups[i].desc.resumes IN
        \/ \E o \in 1..(BranchLimit + 1), priority \in Priorities, s \in Sources :
            ArmBranch(i, o, priority, s, staged)
        \/ ~staged /\ CommitGroup(i)
        \/ \E cancelling \in {FALSE, staged} : ReleaseGroup(i, staged, cancelling)
    \/ \E i \in UsedGroups(waits), o \in 1..BranchLimit, failed \in BOOLEAN : RecordCandidate(i, o, failed)
    \/ CommitWaits \/ RollbackWaits \/ Resolve
    \/ \E s \in Sources, ready \in {waitClock, waitClock + 1}, failed \in BOOLEAN : PublishSource(s, ready, failed)
    \/ \E p \in WaitProcesses : CancelWaiter(p)

-----------------------------------------------------------------------------
(* Properties *)

\* Outside of segments the result store holds exactly what live groups need:
\* a consumer per branch until the group is resolved, the producer until then,
\* and the consumer of the group's own result until it is released.
WaitsHold ==
    LET live == {i \in UsedGroups(waits) : ~waits.groups[i].resolved}
    IN /\ waits.own = {Id(waits, i) : i \in UsedGroups(waits)}
       /\ waits.producers = {Id(waits, i) : i \in live}
       /\ waits.consumers = UNION {{Id(waits, i)} \X DOMAIN waits.groups[i].branches : i \in live}

\* The sources that a branch has heard of when the batch closes
Heard(g, o) ==
    LET b == g.branches[o]
    IN IF b.candidate # Unready THEN b.candidate ELSE Found(b.source)

\* When a batch closes, a committed group is resolved exactly when what its
\* sources have published by then makes it due, unless a group of a lower slot
\* could not resume its process; and it reports the branch that came first,
\* the lower priority number and then the lower ordinal breaking ties.
WaitsResolvedInTime ==
    [][ waitClock' # waitClock =>
        \A i \in UsedGroups(waits) : LET g == waits.groups[i]
                                         after == waits'.groups[i]
                                         heard == {o \in DOMAIN g.branches : Heard(g, o) # Unready}
                                         failed == {o \in heard : Heard(g, o).failed}
                                         Rank(o) == <<Heard(g, o).ready, g.branches[o].priority, o>>
                                         Before(a, b) == \E n \in 1..3 : /\ Rank(a)[n] < Rank(b)[n]
                                                                         /\ \A m \in 1..(n - 1) : Rank(a)[m] = Rank(b)[m]
                                         due == IF g.desc.mode = "Any" THEN heard # {}
                                                ELSE \/ heard = DOMAIN g.branches
                                                     \/ g.desc.policy = "FailFast" /\ failed # {}
                                         blocked == \E j \in 1..(i - 1) : waits'.groups[j].pending
           IN g.committed /\ ~g.resolved =>
                /\ after.resolved <=> due /\ ~blocked
                /\ after.resolved /\ after.outcome[1] # "All" =>
                    LET among == IF g.desc.mode = "Any" THEN heard ELSE failed
                    IN /\ after.outcome[2] \in among
                       /\ \A o \in among \ {after.outcome[2]} : Before(after.outcome[2], o)
      ]_waitVars

=============================================================================
