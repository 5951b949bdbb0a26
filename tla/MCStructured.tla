---------------------------- MODULE MCStructured ----------------------------
(***************************************************************************)
(* Model checking of the stores of structured concurrency, one component   *)
(* at a time: the component is chosen initially and the others stay as     *)
(* they are.  The bounds are in the .cfg file.                             *)
(***************************************************************************)
EXTENDS CancelScope, TaskPool

CONSTANTS x1, x2, s1, s2

TwoThings == {x1, x2}
TwoScopes == {s1, s2}
StructuredSymmetry == Permutations(TwoThings) \cup Permutations(TwoScopes)

VARIABLE component

structuredVars == <<component, scopeVars, poolVars>>

\* Copies of the scopes are only looked at near the initial state: each of
\* them goes through the same steps as the store.
SmallCopies == views = <<>> \/ (allocation <= 3 /\ store.sequence = 0)

\* The second pool is there for the frames that processes wait for across
\* pools, with few handles and one scope.
SmallPools ==
    world.pool[2].next = 1 \/
        /\ ~hosted
        /\ overflow = "AwaitSlot"
        /\ \A p \in Pools : world.pool[p].next <= 3
        /\ Cardinality({s \in TaskScopes : ~IsOpen(world, s) \/ Entries(world, s) # <<>>}) <= 1

StructuredInit ==
    /\ component \in {"scopes", "tasks"}
    /\ ScopesInit
    /\ PoolInit
    /\ component = "scopes" => hosted /\ overflow = "Queue"

StructuredNext ==
    /\ UNCHANGED component
    /\ \/ component = "scopes" /\ ScopesNext /\ SmallCopies' /\ UNCHANGED poolVars
       \/ component = "tasks" /\ PoolNext /\ SmallPools' /\ UNCHANGED scopeVars

StructuredSpec == StructuredInit /\ [][StructuredNext]_structuredVars

=============================================================================
