--------------------------- MODULE CrossbarProofs ---------------------------
(***************************************************************************)
(* CrossbarExact for every valid address map, every capacity and every     *)
(* number of upstreams and targets.  The inductive invariant adds that a   *)
(* grant that is remembered lies in its region; with the fact that regions *)
(* do not overlap it ties an address that an upstream holds to the one     *)
(* region, and so to the cells, that an invalidation is about.             *)
(***************************************************************************)
EXTENDS Crossbar, TLAPS

Grant == [tag : Nat, route : Nat, upstream : Upstreams, start : AddressSpace, end : AddressSpace]
Holding == [upstream : Upstreams, address : AddressSpace, down : Downstreams, cell : AddressSpace,
            permission : Permissions]
RouteRecord == [handle : Nat, upstream : Upstreams, downstream : Downstreams, ingress : AddressSpace,
                egress : AddressSpace, span : Nat, terminal : BOOLEAN, draining : BOOLEAN,
                references : Nat]

MapValid == ValidMap(addressMap) /\ DOMAIN addressMap \subseteq Nat

\* A grant lies in the region it was made for.
InRegion(g) ==
    /\ g \in Grant
    /\ g.route \in DOMAIN addressMap
    /\ addressMap[g.route].source <= g.start
    /\ g.start <= g.end
    /\ g.end <= LastSource(addressMap[g.route])

XInv == /\ MapValid
        /\ routesMade \in Nat /\ grantsMade \in Nat
        /\ routes \subseteq RouteRecord
        /\ held \subseteq Holding
        /\ \A g \in grants : InRegion(g)
        /\ CrossbarExact

-----------------------------------------------------------------------------
(* The map *)

\* The fields of a region are numbers and its ends do not wrap.
LEMMA RegionFields ==
    ASSUME MapValid, NEW i \in DOMAIN addressMap
    PROVE  LET m == addressMap[i] IN
           /\ m.source \in Nat /\ m.target \in Nat /\ m.size \in Nat /\ m.size > 0
           /\ m.source + m.size - 1 <= AddressTop /\ m.target + m.size - 1 <= AddressTop
           /\ m.down \in Downstreams /\ m.permissions \subseteq Permissions /\ m.affine \in BOOLEAN
           /\ i \in Nat
BY CrossbarAssumption DEF MapValid, ValidMap, Region, LastSource, LastTarget, AddressSpace

\* An address is in one region, which is the one that decode finds.
LEMMA OneRegion ==
    ASSUME MapValid, NEW a \in Int, NEW i \in DOMAIN addressMap, Covers(addressMap[i], a)
    PROVE  /\ Decodes(a, i)
           /\ \A j \in DOMAIN addressMap : Covers(addressMap[j], a) => j = i
<1>1. ASSUME NEW j \in DOMAIN addressMap, Covers(addressMap[j], a)
      PROVE  j = i
  BY <1>1, RegionFields DEF MapValid, ValidMap, Covers, LastSource
<1> QED
  BY <1>1, RegionFields DEF Decodes

\* The addresses of a grant are covered by its region.
LEMMA GrantCovered ==
    ASSUME MapValid, NEW g, InRegion(g), NEW a \in g.start..g.end
    PROVE  /\ a \in AddressSpace
           /\ Covers(addressMap[g.route], a)
BY RegionFields, CrossbarAssumption DEF InRegion, Grant, Covers, LastSource, AddressSpace

-----------------------------------------------------------------------------
(* Invalidations *)

\* An invalidation takes from a grant exactly the addresses whose cells it
\* names.
LEMMA HitMeaning ==
    ASSUME MapValid, NEW g, InRegion(g), NEW a \in g.start..g.end,
           NEW down, NEW low \in AddressSpace, NEW high \in AddressSpace
    PROVE  (Hits(g, down, low, high) /\ a \in HitLow(g, low)..HitHigh(g, high))
           <=> (addressMap[g.route].down = down /\ Translated(addressMap[g.route], a) \in low..high)
BY RegionFields, CrossbarAssumption
   DEF InRegion, Grant, Hits, HitLow, HitHigh, Translated, Greatest, Least, AddressSpace

\* The hole lies in the grant.
LEMMA HitInside ==
    ASSUME MapValid, NEW g, InRegion(g), NEW low \in AddressSpace, NEW high \in AddressSpace
    PROVE  /\ HitLow(g, low) \in Int /\ HitLow(g, low) >= g.start
           /\ HitHigh(g, high) \in Int /\ HitHigh(g, high) <= g.end
BY RegionFields, CrossbarAssumption
   DEF InRegion, Grant, HitLow, HitHigh, Translated, Greatest, Least, AddressSpace

\* What is left of a grant lies in its region, and is what was not taken.
LEMMA LeftMeaning ==
    ASSUME MapValid, NEW g, InRegion(g), NEW down, NEW low \in AddressSpace, NEW high \in AddressSpace,
           Hits(g, down, low, high)
    PROVE  /\ \A x \in Left(g, low, high) :
                /\ InRegion(x) /\ x.route = g.route /\ x.upstream = g.upstream
                /\ \A a \in x.start..x.end :
                    a \in g.start..g.end /\ a \notin HitLow(g, low)..HitHigh(g, high)
           /\ \A a \in g.start..g.end : a \notin HitLow(g, low)..HitHigh(g, high) =>
                \E x \in Left(g, low, high) : x.upstream = g.upstream /\ a \in x.start..x.end
<1> DEFINE before == [g EXCEPT !.end = HitLow(g, low) - 1]
           after == [g EXCEPT !.start = HitHigh(g, high) + 1]
<1>1. /\ g.start \in Int /\ g.end \in Int /\ g.start >= 0 /\ g.end <= AddressTop
      /\ HitLow(g, low) \in Int /\ HitLow(g, low) >= g.start
      /\ HitHigh(g, high) \in Int /\ HitHigh(g, high) <= g.end
      /\ HitLow(g, low) <= HitHigh(g, high)
  BY HitInside, CrossbarAssumption DEF InRegion, Grant, AddressSpace, Hits
<1>2. /\ before.start = g.start /\ before.end = HitLow(g, low) - 1
      /\ before.route = g.route /\ before.upstream = g.upstream /\ before.tag = g.tag
      /\ after.start = HitHigh(g, high) + 1 /\ after.end = g.end
      /\ after.route = g.route /\ after.upstream = g.upstream /\ after.tag = g.tag
  BY DEF InRegion, Grant
<1>3. Left(g, low, high) = {x \in {before, after} : x.start <= x.end}
  BY DEF Left
<1>4. ASSUME before.start <= before.end
      PROVE  InRegion(before)
  <2>1. before \in Grant
    BY <1>1, <1>2, <1>4, CrossbarAssumption DEF InRegion, Grant, AddressSpace
  <2> QED
    BY <2>1, <1>1, <1>2, <1>4, RegionFields DEF InRegion, LastSource
<1>5. ASSUME after.start <= after.end
      PROVE  InRegion(after)
  <2>1. after \in Grant
    BY <1>1, <1>2, <1>5, CrossbarAssumption DEF InRegion, Grant, AddressSpace
  <2> QED
    BY <2>1, <1>1, <1>2, <1>5, RegionFields DEF InRegion, LastSource
<1> HIDE DEF before, after
<1> QED
  BY <1>1, <1>2, <1>3, <1>4, <1>5

-----------------------------------------------------------------------------
(* The actions *)

\* What is said of the map alone does not change with the rest.
LEMMA MapKept ==
    ASSUME addressMap' = addressMap
    PROVE  /\ MapValid' = MapValid
           /\ \A g : InRegion(g)' = InRegion(g)
           /\ \A a, i : Decodes(a, i)' = Decodes(a, i)
BY DEF MapValid, InRegion, Decodes

\* The crossbar starts with nothing held and nothing remembered.
LEMMA InitExact == CrossbarInit => XInv
BY CrossbarAssumption DEF CrossbarInit, XInv, MapValid, CrossbarExact, GrantsCurrent, GrantsUsed, RoutesInside

\* The grants do not change with the routes.
LEMMA GrantsKept ==
    ASSUME XInv, UNCHANGED <<addressMap, grants, grantsMade, held, backed>>
    PROVE  /\ MapValid' /\ grantsMade' \in Nat /\ held' \subseteq Holding
           /\ (\A g \in grants : InRegion(g))'
           /\ GrantsCurrent' /\ GrantsUsed'
<1>1. MapValid' /\ (\A g \in grants : InRegion(g))'
  BY MapKept DEF XInv
<1>2. GrantsCurrent'
  BY ZenonT(40) DEF XInv, CrossbarExact, GrantsCurrent, Decodes
<1> QED
  BY <1>1, <1>2 DEF XInv, CrossbarExact, GrantsUsed

\* A route that is there is as good as before when only its counters change.
RouteExact(r) ==
    /\ \E i \in DOMAIN addressMap : \A n \in 0..(r.span - 1) :
        /\ Decodes(r.ingress + n, i)
        /\ r.egress + n = Translated(addressMap[i], r.ingress + n)
        /\ r.downstream = addressMap[i].down
    /\ r.references = 0 => ~r.terminal

\* forward adds a route that stays in its region.
LEMMA ForwardExact ==
    ASSUME XInv, NEW i \in DOMAIN addressMap, NEW a \in AddressSpace, NEW up \in Upstreams,
           NEW command \in Permissions \cup {"Ignore"}, NEW length \in Lengths, NEW width \in Lengths,
           Forward(i, a, up, command, length, width)
    PROVE  XInv'
<1> DEFINE m == addressMap[i]
           span == IF command = "Ignore" THEN 0 ELSE Least(length, width)
           r == [handle |-> routesMade + 1, upstream |-> up, downstream |-> m.down,
                 ingress |-> a, egress |-> Translated(m, a), span |-> span,
                 terminal |-> FALSE, draining |-> FALSE, references |-> 1]
<1>1. /\ MapValid /\ routesMade \in Nat /\ routes \subseteq RouteRecord /\ \A x \in routes : RouteExact(x)
      /\ a \in Int /\ length \in Nat /\ width \in Nat /\ a \in Nat
  BY CrossbarAssumption DEF XInv, CrossbarExact, RoutesInside, RouteExact, AddressSpace
<1>2. Covers(m, a) /\ routes' = routes \cup {r} /\ routesMade' = routesMade + 1
  BY DEF Forward
<1>3. span \in Nat /\ (span > 0 => span - 1 < m.size - (a - m.source))
  BY <1>1 DEF Forward, Inside, Least
<1>4. Translated(m, a) \in AddressSpace
  BY <1>1, <1>2, RegionFields, CrossbarAssumption DEF Translated, Covers, AddressSpace
<1>5. r \in RouteRecord
  BY <1>1, <1>3, <1>4, RegionFields DEF RouteRecord
<1>6. ASSUME NEW n \in 0..(span - 1)
      PROVE  Decodes(a + n, i) /\ Translated(m, a) + n = Translated(m, a + n)
  <2>1. Covers(m, a + n)
    BY <1>1, <1>2, <1>3, <1>6, RegionFields DEF Covers
  <2>2. Translated(m, a) + n = Translated(m, a + n)
    BY <1>1, <1>3, <1>6, RegionFields DEF Translated
  <2> QED
    BY <1>1, <1>3, <1>6, <2>1, <2>2, OneRegion, SMTT(40)
<1>7. RouteExact(r)
  BY <1>6 DEF RouteExact
<1>8. addressMap' = addressMap /\ (\A x \in routes' : RouteExact(x))
  BY <1>1, <1>2, <1>7, ZenonT(40) DEF Forward
<1>9. RoutesInside'
  BY <1>8, MapKept DEF RoutesInside, RouteExact
<1> HIDE DEF r
<1>10. routes' \subseteq RouteRecord /\ routesMade' \in Nat
  BY <1>1, <1>2, <1>5
<1> QED
  BY <1>9, <1>10, GrantsKept DEF Forward, XInv, CrossbarExact

\* x stands for the same request as r.
SameRequest(x, r) ==
    /\ x \in RouteRecord
    /\ x.span = r.span /\ x.ingress = r.ingress /\ x.egress = r.egress /\ x.downstream = r.downstream
    /\ x.references = 0 => ~x.terminal

\* A route may be replaced by the same request with other counters.
LEMMA RerouteExact ==
    ASSUME XInv, NEW r \in routes, NEW next, Reroute(r, next), \A x \in next : SameRequest(x, r)
    PROVE  XInv'
<1>1. /\ routes \subseteq RouteRecord /\ (\A x \in routes : RouteExact(x))
      /\ routesMade \in Nat
  BY DEF XInv, CrossbarExact, RoutesInside, RouteExact
<1>2. \A x \in next : RouteExact(x) /\ x \in RouteRecord
  BY <1>1 DEF RouteExact, SameRequest
<1>3. addressMap' = addressMap /\ (\A x \in routes' : RouteExact(x) /\ x \in RouteRecord)
  BY <1>1, <1>2 DEF Reroute
<1>4. RoutesInside'
  BY <1>3 DEF RoutesInside, RouteExact, Decodes
<1> QED
  BY <1>1, <1>3, <1>4, GrantsKept DEF Reroute, XInv, CrossbarExact

\* retain, release, terminal and cancel do so, or remove the route.
LEMMA RouteCallsExact ==
    ASSUME XInv, NEW r \in routes, RetainRoute(r) \/ ReleaseRoute(r) \/ TerminalRoute(r) \/ CancelRoute(r)
    PROVE  XInv'
<1>1. r \in RouteRecord /\ (r.references = 0 => ~r.terminal)
  BY DEF XInv, CrossbarExact, RoutesInside
<1>2. CASE RetainRoute(r)
  <2>1. SameRequest([r EXCEPT !.references = @ + 1], r)
    BY <1>1 DEF RouteRecord, SameRequest
  <2> QED
    BY <1>2, <2>1, RerouteExact DEF RetainRoute
<1>3. CASE ReleaseRoute(r)
  <2>1. CASE r.references = 1 /\ r.terminal
    BY <1>3, <2>1, RerouteExact DEF ReleaseRoute
  <2>2. CASE ~(r.references = 1 /\ r.terminal)
    <3>1. SameRequest([r EXCEPT !.references = @ - 1], r)
      BY <1>1, <1>3, <2>2 DEF RouteRecord, SameRequest, ReleaseRoute
    <3> QED
      BY <1>3, <2>2, <3>1, RerouteExact DEF ReleaseRoute
  <2> QED
    BY <2>1, <2>2
<1>4. CASE TerminalRoute(r)
  <2>1. CASE r.references = 0
    BY <1>4, <2>1, RerouteExact DEF TerminalRoute
  <2>2. CASE r.references # 0
    <3> DEFINE x == [r EXCEPT !.terminal = TRUE]
    <3>1. SameRequest(x, r)
      BY <1>1, <2>2, ZenonT(40) DEF RouteRecord, SameRequest
    <3>2. Reroute(r, {x})
      BY <1>4, <2>2, Zenon DEF TerminalRoute
    <3> HIDE DEF x
    <3> QED
      BY <3>1, <3>2, RerouteExact
  <2> QED
    BY <2>1, <2>2
<1>5. CASE CancelRoute(r)
  <2> DEFINE x == [r EXCEPT !.draining = TRUE]
  <2>1. SameRequest(x, r)
    BY <1>1, ZenonT(40) DEF RouteRecord, SameRequest
  <2>2. Reroute(r, {x})
    BY <1>5, Zenon DEF CancelRoute
  <2> HIDE DEF x
  <2> QED
    BY <2>1, <2>2, RerouteExact
<1> QED
  BY <1>2, <1>3, <1>4, <1>5

\* The routes do not change with the grants.
LEMMA RoutesKept ==
    ASSUME XInv, UNCHANGED <<addressMap, routes, routesMade>>
    PROVE  /\ MapValid' /\ routesMade' \in Nat /\ routes' \subseteq RouteRecord
           /\ RoutesInside'
<1>1. RoutesInside'
  BY DEF XInv, CrossbarExact, RoutesInside, Decodes
<1> QED
  BY <1>1, MapKept DEF XInv

\* What is held where the map puts it, with a permission of the region
Placed(h) ==
    \E i \in DOMAIN addressMap :
        LET m == addressMap[i] IN
        /\ Decodes(h.address, i) /\ m.affine
        /\ h.down = m.down /\ h.cell = Translated(m, h.address) /\ h.permission \in m.permissions
Backing(h) == [down |-> h.down, cell |-> h.cell, permission |-> h.permission]

\* translate_dmi hands out cells of the region that the target gave, and remembers them.
LEMMA TranslateDmiExact ==
    ASSUME XInv, NEW i \in DOMAIN addressMap, NEW up \in Upstreams, NEW a \in AddressSpace,
           NEW command \in Permissions, NEW asked \in PermissionSets, NEW given \in PermissionSets,
           NEW first \in AddressSpace, NEW last \in AddressSpace,
           TranslateDmi(i, up, a, command, asked, first, last, given)
    PROVE  XInv'
<1> DEFINE m == addressMap[i]
           low == Greatest(first, m.target)
           high == Least(last, LastTarget(m))
           permissions == given \cap m.permissions \cap asked
           start == m.source + (low - m.target)
           end == m.source + (high - m.target)
           pointer == first + (low - first)
           g == [tag |-> grantsMade + 1, route |-> i, upstream |-> up, start |-> start, end |-> end]
           new == Usable(up, m.down, start, end, pointer, permissions)
<1>1. /\ MapValid /\ grantsMade \in Nat /\ held \subseteq Holding
      /\ (\A x \in grants : InRegion(x)) /\ GrantsCurrent /\ GrantsUsed
  BY DEF XInv, CrossbarExact
<1>2. /\ m.source \in Nat /\ m.target \in Nat /\ m.size \in Nat /\ m.size > 0
      /\ m.source + m.size - 1 <= AddressTop /\ m.target + m.size - 1 <= AddressTop
      /\ m.down \in Downstreams /\ m.permissions \subseteq Permissions /\ i \in Nat
      /\ first \in Nat /\ last \in Nat /\ first <= AddressTop /\ last <= AddressTop /\ AddressTop \in Nat
  BY <1>1, RegionFields, CrossbarAssumption, SMTT(40) DEF AddressSpace
<1>3. /\ m.affine /\ low <= high /\ command \in permissions
      /\ grants' = grants \cup {g} /\ held' = held \cup new /\ grantsMade' = grantsMade + 1
      /\ backed' = backed \cup Cells(m.down, first, last, given)
      /\ UNCHANGED <<addressMap, routes, routesMade>>
  BY SMTT(40) DEF TranslateDmi
<1>4. /\ low \in Nat /\ high \in Nat /\ first <= low /\ m.target <= low
      /\ high <= last /\ high <= m.target + m.size - 1
  BY <1>2, <1>3, SMTT(40) DEF Greatest, Least, LastTarget
<1>5. /\ start \in Nat /\ end \in Nat /\ m.source <= start /\ start <= end
      /\ end <= m.source + m.size - 1 /\ pointer = low
  BY <1>2, <1>3, <1>4
<1> HIDE DEF low, high, start, end, pointer, permissions
<1>6. InRegion(g)
  <2>1. g \in Grant
    BY <1>1, <1>2, <1>5 DEF Grant, AddressSpace
  <2> QED
    BY <2>1, <1>5 DEF InRegion, LastSource
<1>7. ASSUME NEW h \in new
      PROVE  /\ h \in Holding /\ Placed(h) /\ Backing(h) \in backed'
             /\ h.upstream = up /\ h.address \in start..end
  <2>1. PICK b \in start..end, p \in permissions :
            h = [upstream |-> up, address |-> b, down |-> m.down, cell |-> pointer + (b - start),
                 permission |-> p]
    BY <1>7 DEF Usable
  <2>2. /\ p \in given /\ p \in m.permissions /\ p \in Permissions
    BY <1>2, SMTT(40) DEF permissions
  <2>3. /\ b \in Int /\ Covers(m, b) /\ b \in AddressSpace
        /\ pointer + (b - start) = Translated(m, b)
        /\ pointer + (b - start) \in first..last /\ pointer + (b - start) \in AddressSpace
    BY <1>2, <1>4, <1>5 DEF Covers, Translated, AddressSpace, start, end
  <2>4. Decodes(b, i)
    BY <1>1, <2>3, OneRegion, SMTT(40)
  <2>5. h \in Holding
    BY <1>2, <2>1, <2>2, <2>3, SMTT(40) DEF Holding
  <2>6. Placed(h)
    BY <1>3, <2>1, <2>2, <2>3, <2>4, SMTT(40) DEF Placed
  <2>7. Backing(h) \in Cells(m.down, first, last, given)
    BY <2>1, <2>2, <2>3, SMTT(40) DEF Backing, Cells
  <2> QED
    BY <1>3, <2>1, <2>5, <2>6, <2>7
<1>8. ASSUME NEW b \in start..end
      PROVE  \E h \in new : h.upstream = up /\ h.address = b
  <2> DEFINE h == [upstream |-> up, address |-> b, down |-> m.down, cell |-> pointer + (b - start),
                   permission |-> command]
  <2>1. h \in new
    BY <1>3, <1>8 DEF Usable
  <2> QED
    BY <2>1, SMTT(40)
<1>9. g.upstream = up /\ g.start = start /\ g.end = end
  BY SMTT(40)
<1> HIDE DEF g, new
<1>10. ASSUME NEW h \in held'
       PROVE  /\ h \in Holding /\ Placed(h) /\ Backing(h) \in backed'
              /\ \E x \in grants' : x.upstream = h.upstream /\ h.address \in x.start..x.end
  <2>1. CASE h \in held
    BY <1>1, <1>3, <2>1 DEF GrantsCurrent, Placed, Backing
  <2>2. CASE h \in new
    BY <1>3, <1>7, <1>9, <2>2, SMTT(40)
  <2> QED
    BY <1>3, <1>10, <2>1, <2>2, SMTT(40)
<1>11. GrantsCurrent'
  BY <1>3, <1>10, ZenonT(40) DEF GrantsCurrent, Placed, Backing, Decodes
<1>12. GrantsUsed'
  BY <1>1, <1>3, <1>8, <1>9 DEF GrantsUsed
<1>13. (\A x \in grants : InRegion(x))'
  BY <1>1, <1>3, <1>6, MapKept
<1> QED
  BY <1>1, <1>3, <1>10, <1>11, <1>12, <1>13, RoutesKept DEF XInv, CrossbarExact

\* A grant and a holding of the same address are about the same cell: regions
\* do not overlap.
LEMMA SameRegion ==
    ASSUME MapValid, NEW g, InRegion(g), NEW h, Placed(h), h.address \in g.start..g.end
    PROVE  /\ h.down = addressMap[g.route].down
           /\ h.cell = Translated(addressMap[g.route], h.address)
<1>1. Covers(addressMap[g.route], h.address) /\ h.address \in Int /\ g.route \in DOMAIN addressMap
  BY GrantCovered, CrossbarAssumption DEF InRegion, AddressSpace
<1>2. PICK i \in DOMAIN addressMap :
        /\ Decodes(h.address, i)
        /\ h.down = addressMap[i].down /\ h.cell = Translated(addressMap[i], h.address)
  BY DEF Placed
<1>3. i = g.route
  BY <1>1, <1>2, OneRegion, SMTT(40) DEF Decodes
<1> QED
  BY <1>2, <1>3

\* invalidate tells exactly those who hold what was taken, and forgets exactly that.
LEMMA InvalidateExact ==
    ASSUME XInv, NEW down \in Downstreams, NEW low \in AddressSpace, NEW high \in AddressSpace,
           NEW fanout \in Fanouts, Invalidate(down, low, high, fanout)
    PROVE  XInv'
<1> DEFINE hit == {g \in grants : Hits(g, down, low, high)}
           Hole(g) == HitLow(g, low)..HitHigh(g, high)
           Told(h) == \E g \in hit : h.upstream = g.upstream /\ h.address \in Hole(g)
           Taken(h) == h.down = down /\ h.cell \in low..high
<1>1. /\ MapValid /\ grantsMade \in Nat /\ held \subseteq Holding
      /\ (\A g \in grants : InRegion(g)) /\ GrantsCurrent /\ GrantsUsed
  BY SMTT(40) DEF XInv, CrossbarExact
<1>2. /\ grants' = (grants \ hit) \cup UNION {Left(g, low, high) : g \in hit}
      /\ held' = {h \in held : ~Told(h)}
      /\ backed' = {b \in backed : ~(b.down = down /\ b.cell \in low..high)}
      /\ UNCHANGED <<addressMap, routes, routesMade, grantsMade>>
  BY DEF Invalidate
<1>3. \A h \in held : Placed(h) /\ Backing(h) \in backed
  BY <1>1, ZenonT(40) DEF GrantsCurrent, Placed, Backing
\* An address of a grant is in its hole when its cell was taken.
<1>4. ASSUME NEW h \in held, NEW g \in grants, h.address \in g.start..g.end
      PROVE  (g \in hit /\ h.address \in Hole(g)) <=> Taken(h)
  BY <1>1, <1>3, <1>4, SameRegion, HitMeaning, SMTT(40)
\* The part of a grant that was not taken is still in a grant.
<1>5. ASSUME NEW g \in grants, NEW a \in g.start..g.end, ~(g \in hit /\ a \in Hole(g))
      PROVE  \E x \in grants' : x.upstream = g.upstream /\ a \in x.start..x.end
  <2>1. CASE g \notin hit
    BY <1>2, <2>1
  <2>2. CASE g \in hit
    <3>1. a \notin Hole(g)
      BY <1>5, <2>2
    <3>2. PICK x \in Left(g, low, high) : x.upstream = g.upstream /\ a \in x.start..x.end
      BY <1>1, <2>2, <3>1, LeftMeaning
    <3>3. x \in grants'
      BY <1>2, <2>2, SMTT(40)
    <3> QED
      BY <3>2, <3>3
  <2> QED
    BY <2>1, <2>2
\* A grant of the new ones is a part of an old one without its hole.
<1>6. ASSUME NEW x \in grants'
      PROVE  /\ InRegion(x)
             /\ \E g \in grants : /\ g.upstream = x.upstream
                                  /\ \A a \in x.start..x.end :
                                       a \in g.start..g.end /\ ~(g \in hit /\ a \in Hole(g))
  <2>1. CASE x \in grants \ hit
    BY <1>1, <2>1
  <2>2. CASE x \in UNION {Left(g, low, high) : g \in hit}
    <3>1. PICK g \in hit : x \in Left(g, low, high)
      BY <2>2
    <3>2. InRegion(g) /\ Hits(g, down, low, high) /\ g \in grants
      BY <1>1, <3>1
    <3>3. /\ InRegion(x) /\ x.upstream = g.upstream
          /\ \A a \in x.start..x.end : a \in g.start..g.end /\ a \notin Hole(g)
      BY <1>1, <3>1, <3>2, LeftMeaning, SMTT(40)
    <3> QED
      BY <3>2, <3>3
  <2> QED
    BY <1>2, <1>6, <2>1, <2>2
<1> HIDE DEF hit, Hole
\* What an upstream was not told of was not taken, and is still remembered.
<1>7. ASSUME NEW h \in held'
      PROVE  /\ h \in held /\ Placed(h) /\ Backing(h) \in backed'
             /\ \E x \in grants' : x.upstream = h.upstream /\ h.address \in x.start..x.end
  <2>1. h \in held /\ ~Told(h)
    BY <1>2, <1>7, SMTT(40)
  <2>2. PICK g \in grants : g.upstream = h.upstream /\ h.address \in g.start..g.end
    BY <1>1, <2>1, ZenonT(40) DEF GrantsCurrent
  <2>3. ~(g \in hit /\ h.address \in Hole(g))
    BY <2>1, <2>2
  <2>4. ~Taken(h)
    BY <1>4, <2>1, <2>2, <2>3, SMTT(40)
  <2>5. Backing(h) \in backed'
    BY <1>2, <1>3, <2>1, <2>4 DEF Backing
  <2> QED
    BY <1>3, <1>5, <2>1, <2>2, <2>3, <2>5, SMTT(40)
\* What is remembered was told to nobody: a second grant that covers the
\* address would have the same cell.
<1>8. ASSUME NEW x \in grants', NEW a \in x.start..x.end
      PROVE  \E h \in held' : h.upstream = x.upstream /\ h.address = a
  <2>1. PICK g \in grants : /\ g.upstream = x.upstream /\ a \in g.start..g.end
                            /\ ~(g \in hit /\ a \in Hole(g))
    BY <1>6, <1>8
  <2>2. PICK h \in held : h.upstream = g.upstream /\ h.address = a
    BY <1>1, <2>1 DEF GrantsUsed
  <2>3. ~Taken(h)
    BY <1>4, <2>1, <2>2
  <2>4. ASSUME NEW y \in hit, h.upstream = y.upstream, h.address \in Hole(y)
        PROVE  FALSE
    <3>1. y \in grants /\ InRegion(y)
      BY <1>1 DEF hit
    <3>2. h.address \in y.start..y.end
      BY <1>1, <2>4, <3>1, HitInside, SMTT(40) DEF Hole, InRegion, Grant, AddressSpace
    <3> QED
      BY <1>4, <2>3, <2>4, <3>1, <3>2
  <2> QED
    BY <1>2, <2>1, <2>2, <2>4
<1>9. GrantsCurrent'
  BY <1>2, <1>7, ZenonT(40) DEF GrantsCurrent, Placed, Backing, Decodes
<1>10. GrantsUsed'
  BY <1>8 DEF GrantsUsed
<1>11. (\A x \in grants : InRegion(x))'
  BY <1>2, <1>6, MapKept
<1> QED
  BY <1>1, <1>2, <1>7, <1>9, <1>10, <1>11, RoutesKept DEF XInv, CrossbarExact

-----------------------------------------------------------------------------

\* Every call preserves the invariant.
LEMMA NextExact == XInv /\ [CrossbarNext]_crossbarVars => XInv'
<1>1. SUFFICES ASSUME XInv, [CrossbarNext]_crossbarVars PROVE XInv'
  OBVIOUS
<1>2. CASE UNCHANGED crossbarVars
  BY <1>1, <1>2, GrantsKept, RoutesKept DEF crossbarVars, XInv, CrossbarExact
<1>3. CASE CrossbarNext
  BY <1>1, <1>3, ForwardExact, TranslateDmiExact, RouteCallsExact, InvalidateExact DEF CrossbarNext
<1> QED
  BY <1>1, <1>2, <1>3

\* For every map that the constructor accepts, every capacity and every order of
\* calls: what upstreams hold is current, placed and remembered, nothing else is
\* remembered, and requests stay in the region they were routed by.
THEOREM CrossbarCorrect == CrossbarSpec => []CrossbarExact
<1>1. CrossbarSpec => []XInv
  BY InitExact, NextExact, PTL DEF CrossbarSpec
<1> QED
  BY <1>1, PTL DEF XInv

=============================================================================
