------------------------------ MODULE Crossbar ------------------------------
(***************************************************************************)
(* The address map of a crossbar, the requests it routes and the direct    *)
(* memory grants it passes on (the class Crossbar, stdlib/src/crossbar.cpp *)
(* up to line 247).  A grant of a downstream target is translated, clipped *)
(* to the region and remembered; an invalidation by the target is split    *)
(* into one for every upstream that was given a part of the range.         *)
(*                                                                         *)
(* The callers of both are external: upstreams use what they were given    *)
(* until they are told otherwise, and are told within the call that        *)
(* invalidates.  A memory cell is named by its address at the target.      *)
(* Calls that fail leave nothing behind and are not steps.  The identity   *)
(* and the version of the map, which never change in a crossbar, latencies *)
(* and delays are left out.                                                *)
(***************************************************************************)
EXTENDS Integers, FiniteSets

CONSTANTS
    AddressTop,     \* the last address of every address space
    AddressMaps,    \* the configurations that are tried: sequences of regions
    Upstreams, Downstreams,
    MaxRoutes, MaxGrants,   \* max_routes, max_grants
    Fanouts,        \* the capacities that callers of invalidate pass
    PermissionSets, \* what upstreams ask for and targets give: sets of permissions
    Lengths,        \* of the data and of the streaming width of a request
    RouteLimit, ReferenceLimit,     \* bounds on the routes made and on their references
    GrantLimit      \* bound on the grants made

\* Regions are numbered, addresses and lengths are not negative.
ASSUME CrossbarAssumption ==
    /\ AddressTop \in Nat
    /\ \A map \in AddressMaps : DOMAIN map \subseteq Nat
    /\ Lengths \subseteq Nat

VARIABLES
    addressMap,     \* config_.regions
    routes,         \* routes_
    routesMade,
    grants,         \* grants_; `tag' keeps equal entries apart
    grantsMade,
    held,           \* external: what upstreams may use, cell by cell
    backed          \* external: what the targets granted and did not invalidate

crossbarVars == <<addressMap, routes, routesMade, grants, grantsMade, held, backed>>

AddressSpace == 0..AddressTop
Permissions == {"Read", "Write"}
Region == [source : AddressSpace, size : Nat, target : AddressSpace, down : Downstreams,
           permissions : SUBSET Permissions, affine : BOOLEAN]

LastSource(m) == m.source + m.size - 1
LastTarget(m) == m.target + m.size - 1

\* validate_map: regions are not empty, do not wrap and do not overlap.
ValidMap(map) ==
    /\ \A i \in DOMAIN map :
        /\ map[i] \in Region
        /\ map[i].size > 0
        /\ LastSource(map[i]) <= AddressTop
        /\ LastTarget(map[i]) <= AddressTop
    /\ \A i, j \in DOMAIN map :
        i # j => LastSource(map[i]) < map[j].source \/ LastSource(map[j]) < map[i].source

CrossbarInit ==
    /\ addressMap \in {map \in AddressMaps : ValidMap(map)}
    /\ routes = {}
    /\ routesMade = 0
    /\ grants = {}
    /\ grantsMade = 0
    /\ held = {}
    /\ backed = {}

----------------------------------------------------------------------------
(* Routes *)

Covers(m, a) == a >= m.source /\ a - m.source < m.size

\* decode: the first region that covers the address
Decodes(a, i) ==
    /\ i \in DOMAIN addressMap
    /\ Covers(addressMap[i], a)
    /\ \A j \in DOMAIN addressMap : j < i => ~Covers(addressMap[j], a)

Translated(m, a) == m.target + (a - m.source)

Least(x, y) == IF x <= y THEN x ELSE y
Greatest(x, y) == IF x <= y THEN y ELSE x

\* translate_payload: a transfer stays in its region, whatever its length; what
\* goes beyond the streaming width wraps.
Inside(m, a, command, length, width) ==
    command # "Ignore" =>
        /\ width # 0
        /\ Least(length, width) = 0 \/ Least(length, width) - 1 < m.size - (a - m.source)

Forward(i, a, up, command, length, width) ==
    LET m == addressMap[i]
    IN /\ i \in DOMAIN addressMap
       /\ Covers(m, a)
       /\ m.affine
       /\ Inside(m, a, command, length, width)
       /\ Cardinality(routes) < MaxRoutes
       /\ routesMade < RouteLimit
       /\ routesMade' = routesMade + 1
       /\ routes' = routes \cup {[handle |-> routesMade + 1, upstream |-> up, downstream |-> m.down,
                                  ingress |-> a, egress |-> Translated(m, a),
                                  span |-> IF command = "Ignore" THEN 0 ELSE Least(length, width),
                                  terminal |-> FALSE, draining |-> FALSE, references |-> 1]}
       /\ UNCHANGED <<addressMap, grants, grantsMade, held, backed>>

\* The route r becomes one of `next'
Reroute(r, next) ==
    /\ routes' = (routes \ {r}) \cup next
    /\ UNCHANGED <<addressMap, routesMade, grants, grantsMade, held, backed>>

RetainRoute(r) ==
    /\ r.references < ReferenceLimit
    /\ Reroute(r, {[r EXCEPT !.references = @ + 1]})

\* A route goes with its last reference once it is terminal.
ReleaseRoute(r) ==
    /\ r.references > 0
    /\ Reroute(r, IF r.references = 1 /\ r.terminal THEN {} ELSE {[r EXCEPT !.references = @ - 1]})

TerminalRoute(r) == Reroute(r, IF r.references = 0 THEN {} ELSE {[r EXCEPT !.terminal = TRUE]})

CancelRoute(r) == Reroute(r, {[r EXCEPT !.draining = TRUE]})

----------------------------------------------------------------------------
(* Direct memory grants *)

Cells(down, low, high, permissions) ==
    {[down |-> down, cell |-> c, permission |-> p] : c \in low..high, p \in permissions}

\* What an upstream may use: address start + n is the cell pointer + n.
Usable(up, down, start, end, pointer, permissions) ==
    {[upstream |-> up, address |-> a, down |-> down, cell |-> pointer + (a - start), permission |-> p] :
        a \in start..end, p \in permissions}

\* translate_dmi: the target grants first..last, with a pointer to the first
\* cell, and the upstream is given what lies in the region.
TranslateDmi(i, up, a, command, asked, first, last, given) ==
    LET m == addressMap[i]
        low == Greatest(first, m.target)
        high == Least(last, LastTarget(m))
        permissions == given \cap m.permissions \cap asked
        start == m.source + (low - m.target)
        end == m.source + (high - m.target)
        pointer == first + (low - first)
    IN /\ i \in DOMAIN addressMap
       /\ Covers(m, a)
       /\ m.affine
       /\ Translated(m, a) \in first..last
       /\ command \in permissions
       /\ low <= high
       /\ Cardinality(grants) < MaxGrants
       /\ grantsMade < GrantLimit
       /\ grantsMade' = grantsMade + 1
       /\ grants' = grants \cup {[tag |-> grantsMade + 1, route |-> i, upstream |-> up,
                                  start |-> start, end |-> end]}
       /\ backed' = backed \cup Cells(m.down, first, last, given)
       /\ held' = held \cup Usable(up, m.down, start, end, pointer, permissions)
       /\ UNCHANGED <<addressMap, routes, routesMade>>

\* The part of grant g that an invalidation of low..high at the target takes, as
\* addresses of the upstream
HitLow(g, low) ==
    LET m == addressMap[g.route]
    IN m.source + (Greatest(low, Translated(m, g.start)) - m.target)
HitHigh(g, high) ==
    LET m == addressMap[g.route]
    IN m.source + (Least(high, Translated(m, g.end)) - m.target)
Hits(g, down, low, high) ==
    addressMap[g.route].down = down /\ HitLow(g, low) <= HitHigh(g, high)

\* Mutant of Left: what lies behind the hole is forgotten.
LeftBefore(g, low, high) ==
    {x \in {[g EXCEPT !.end = HitLow(g, low) - 1]} : x.start <= x.end}

\* What is left of it
Left(g, low, high) ==
    {x \in {[g EXCEPT !.end = HitLow(g, low) - 1], [g EXCEPT !.start = HitHigh(g, high) + 1]} :
        x.start <= x.end}

\* invalidate: every grant that is hit is reported, to its upstream, and what is
\* left of it is kept; too many of either and nothing happens.
Invalidate(down, low, high, fanout) ==
    LET hit == {g \in grants : Hits(g, down, low, high)}
        remaining == (grants \ hit) \cup UNION {Left(g, low, high) : g \in hit}
        Told(h) == \E g \in hit : h.upstream = g.upstream /\ h.address \in HitLow(g, low)..HitHigh(g, high)
    IN /\ low <= high
       /\ Cardinality(hit) <= fanout
       /\ Cardinality(remaining) <= MaxGrants
       /\ grants' = remaining
       /\ held' = {h \in held : ~Told(h)}
       /\ backed' = {b \in backed : ~(b.down = down /\ b.cell \in low..high)}
       /\ UNCHANGED <<addressMap, routes, routesMade, grantsMade>>

----------------------------------------------------------------------------

CrossbarNext ==
    \/ \E i \in DOMAIN addressMap, a \in AddressSpace, up \in Upstreams :
        \/ \E command \in Permissions \cup {"Ignore"}, length, width \in Lengths :
            Forward(i, a, up, command, length, width)
        \/ \E command \in Permissions, asked, given \in PermissionSets, first, last \in AddressSpace :
            TranslateDmi(i, up, a, command, asked, first, last, given)
    \/ \E r \in routes : RetainRoute(r) \/ ReleaseRoute(r) \/ TerminalRoute(r) \/ CancelRoute(r)
    \/ \E down \in Downstreams, low, high \in AddressSpace, fanout \in Fanouts :
        Invalidate(down, low, high, fanout)

CrossbarSpec == CrossbarInit /\ [][CrossbarNext]_crossbarVars

----------------------------------------------------------------------------
(* Properties *)

\* However regions alias each other at a target, and whatever part of a grant
\* was taken back before: what an upstream may still use is the cell its address
\* is mapped to, with no permission that the region or the target refuses, the
\* target has not taken it back, and the crossbar remembers whom to tell of it.
GrantsCurrent ==
    \A h \in held :
        /\ \E i \in DOMAIN addressMap :
            LET m == addressMap[i] IN
            /\ Decodes(h.address, i) /\ m.affine
            /\ h.down = m.down /\ h.cell = Translated(m, h.address) /\ h.permission \in m.permissions
        /\ [down |-> h.down, cell |-> h.cell, permission |-> h.permission] \in backed
        /\ \E g \in grants : g.upstream = h.upstream /\ h.address \in g.start..g.end

\* The crossbar remembers nothing else: an upstream is told only of what it has.
GrantsUsed ==
    \A g \in grants : \A a \in g.start..g.end :
        \E h \in held : h.upstream = g.upstream /\ h.address = a

\* Every byte of a request that was routed has one region, that of its first
\* byte, and arrives where the region puts it; a route without references is
\* one that still waits for its end.
RoutesInside ==
    \A r \in routes :
        /\ \E i \in DOMAIN addressMap : \A n \in 0..(r.span - 1) :
            /\ Decodes(r.ingress + n, i)
            /\ r.egress + n = Translated(addressMap[i], r.ingress + n)
            /\ r.downstream = addressMap[i].down
        /\ r.references = 0 => ~r.terminal

\* The grants and the routes of a crossbar together
CrossbarExact == GrantsCurrent /\ GrantsUsed /\ RoutesInside

=============================================================================
