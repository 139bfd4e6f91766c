----------------------------- MODULE TrimBoolean -----------------------------
(***************************************************************************)
(* trimRegionBoolean: the union, the intersection or the difference of two *)
(* trimmed regions of one parameter plane, by the Greiner-Hormann walk.    *)
(*                                                                         *)
(* A region is an outer loop and holes, flattened to polygons before this  *)
(* module begins.  Here their corners are integer points, on a lattice so  *)
(* fine that crossings, midpoints and grid samples are integer points too: *)
(* arithmetic is exact and the tolerances are zero.                        *)
(***************************************************************************)
EXTENDS Integers, FiniteSets, SequencesExt

CONSTANTS
  Inputs,    \* the pairs of regions; a region is a sequence of loops, the
             \* outer one first, a loop a sequence of corners <<u, v>>
  Probes     \* the points at which a result is compared with the operands

Ops == {"union", "intersect", "difference"}
Sides == {"A", "B"}
Other(s) == IF s = "A" THEN "B" ELSE "A"

VARIABLES
  region,    \* of each side
  op,
  pc,        \* the phase: "cross", "resolve", "rings", "walk", "assemble", "done"
  crosses,   \* the crossings, in the order of the sort
  nodes,     \* of each side, the ring of each loop
  visited,   \* the nodes that the walk has been at
  start, cur, fuel,   \* where the walk began, where it is; its guard
  poly, polys,        \* the polygon it traces; those it has traced
  status, loops       \* the result

inVars   == <<region, op>>
walkVars == <<visited, start, cur, fuel, poly, polys>>
vars == <<inVars, pc, crosses, nodes, walkVars, status, loops>>

NoNode == <<"A", 0, 0>>

Init ==
  /\ \E i \in Inputs : region = [s \in Sides |-> IF s = "A" THEN i[1] ELSE i[2]]
  /\ op \in Ops
  /\ pc = "cross"
  /\ crosses = <<>> /\ nodes = [s \in Sides |-> <<>>]
  /\ visited = {} /\ start = NoNode /\ cur = NoNode /\ fuel = 0
  /\ poly = <<>> /\ polys = <<>>
  /\ status = "invalid" /\ loops = <<>>

------------------------------------------------------------------------------
(* Plane geometry.                                                          *)

Minus(p, q) == <<p[1] - q[1], p[2] - q[2]>>
Cross(p, q) == p[1] * q[2] - p[2] * q[1]
Mid(p, q) == <<(p[1] + q[1]) \div 2, (p[2] + q[2]) \div 2>>
Succ(L, e) == L[(e % Len(L)) + 1]
Pred(L, e) == L[((e - 2) % Len(L)) + 1]

(* Twice the signed area.                                                   *)
SignedArea(L) ==
  FoldLeft(LAMBDA sum, e : sum + Cross(L[e], Succ(L, e)), 0, [e \in DOMAIN L |-> e])

(* The elements of S in the total order Less.                               *)
Sorted(S, Less(_, _)) ==
  [n \in 1..Cardinality(S) |->
     CHOOSE x \in S : Cardinality({y \in S : Less(y, x)}) = n - 1]

DropCollinear(L) ==
  LET Corner(e) == Cross(Minus(L[e], Pred(L, e)), Minus(Succ(L, e), L[e])) # 0
      corners == SelectSeq([e \in DOMAIN L |-> e], Corner)
  IN IF Len(corners) < 3 THEN L ELSE [k \in DOMAIN corners |-> L[corners[k]]]

(* The ray from p towards +u meets the edge from a to b; half-open in v.    *)
RayMeets(a, b, p) ==
  LET lo == IF a[2] < b[2] THEN a ELSE b
      hi == IF a[2] < b[2] THEN b ELSE a
  IN lo[2] <= p[2] /\ p[2] < hi[2] /\ Cross(Minus(hi, lo), Minus(p, lo)) > 0

PointInPolygon(L, p) ==
  Cardinality({e \in DOMAIN L : RayMeets(L[e], Succ(L, e), p)}) % 2 = 1

RegionContains(r, p) ==
  PointInPolygon(r[1], p) /\ \A i \in 2..Len(r) : ~PointInPolygon(r[i], p)

(* The first sample of a 12 by 12 grid over the box of the outer loop that  *)
(* is in the region.  (No input is a sliver that none of them hits.)        *)
GridSize == 13

Lowest(L, c)  == CHOOSE x \in {L[e][c] : e \in DOMAIN L} : \A e \in DOMAIN L : x <= L[e][c]
Highest(L, c) == CHOOSE x \in {L[e][c] : e \in DOMAIN L} : \A e \in DOMAIN L : x >= L[e][c]

RegionInterior(r) ==
  LET Sample(c, i) ==
        Lowest(r[1], c) + ((Highest(r[1], c) - Lowest(r[1], c)) * i) \div GridSize
      InRegion(j) == RegionContains(r, <<Sample(1, 1 + (j % (GridSize - 1))),
                                   Sample(2, 1 + j \div (GridSize - 1))>>)
      first == CHOOSE j \in 0..((GridSize - 1) * (GridSize - 1) - 1) :
                 InRegion(j) /\ \A k \in 0..(j - 1) : ~InRegion(k)
  IN <<Sample(1, 1 + (first % (GridSize - 1))), Sample(2, 1 + first \div (GridSize - 1))>>

------------------------------------------------------------------------------
(* The crossings.                                                           *)

EdgesOf(s) == UNION {{<<i, e>> : e \in DOMAIN region[s][i]} : i \in DOMAIN region[s]}
From(s, x) == region[s][x[1]][x[2]]
To(s, x)   == Succ(region[s][x[1]], x[2])
Along(s, x) == Minus(To(s, x), From(s, x))

(* Collinear edges that share more than a point.                            *)
Overlap(x, y) ==
  LET r == Along("A", x)
      d == Minus(From("B", y), From("A", x))
      Pos(v) == r[1] * v[1] + r[2] * v[2]
      t0 == Pos(d)
      t1 == t0 + Pos(Along("B", y))
  IN /\ Cross(r, Along("B", y)) = 0 /\ Cross(d, r) = 0
     /\ (t0 > 0 \/ t1 > 0) /\ (t0 < Pos(r) \/ t1 < Pos(r))

(* Edges that meet in one point, their ends included.                       *)
Meet(x, y) ==
  LET r == Along("A", x)
      s == Along("B", y)
      d == Minus(From("B", y), From("A", x))
      Within(num, den) == IF den > 0 THEN 0 <= num /\ num <= den ELSE den <= num /\ num <= 0
  IN /\ Cross(r, s) # 0
     /\ Within(Cross(d, s), Cross(r, s)) /\ Within(Cross(d, r), Cross(r, s))

MeetingPoint(x, y) ==
  LET r == Along("A", x)
      den == Cross(r, Along("B", y))
      num == Cross(Minus(From("B", y), From("A", x)), Along("B", y))
  IN <<From("A", x)[1] + (r[1] * num) \div den, From("A", x)[2] + (r[2] * num) \div den>>

RECURSIVE Before(_, _)
Before(s, t) == s # <<>> /\ (s[1] < t[1] \/ (s[1] = t[1] /\ Before(Tail(s), Tail(t))))

FindCrossings ==
  LET found == {x \o y : x \in EdgesOf("A"), y \in EdgesOf("B")}
      met == {xy \in found : Meet(SubSeq(xy, 1, 2), SubSeq(xy, 3, 4))}
  IN LET sorted == Sorted(met, Before)
     IN [k \in DOMAIN sorted |->
           LET x == SubSeq(sorted[k], 1, 2)
               y == SubSeq(sorted[k], 3, 4)
           IN [edge |-> [s \in Sides |-> IF s = "A" THEN x ELSE y],
               pt |-> MeetingPoint(x, y)]]

(* Declines on a shared piece of boundary.                                  *)
FindsCrossings ==
  /\ pc = "cross"
  /\ IF \E x \in EdgesOf("A"), y \in EdgesOf("B") : Overlap(x, y)
     THEN status' = "degenerate" /\ pc' = "done" /\ UNCHANGED crosses
     ELSE /\ crosses' = FindCrossings
          /\ pc' = IF crosses' = <<>> THEN "resolve" ELSE "rings"
          /\ UNCHANGED status
  /\ UNCHANGED <<inVars, nodes, walkVars, loops>>

------------------------------------------------------------------------------
(* No crossings: one region is taken to be in the other or apart from it.   *)

Emitted(L, outer) == [poly |-> L, outer |-> outer]
Emit(r) == [i \in DOMAIN r |-> Emitted(r[i], SignedArea(r[i]) > 0)]
AsHole(L) == Emitted(IF SignedArea(L) > 0 THEN Reverse(L) ELSE L, FALSE)

(* Mutant: the other way about.                                             *)
InSwapped(s) == RegionContains(region[s], RegionInterior(region[Other(s)]))
In(s) == RegionContains(region[Other(s)], RegionInterior(region[s]))

ResolvesNoCrossings ==
  /\ pc = "resolve"
  /\ loops' =
       LET emitA == Emit(region["A"])
           emitB == Emit(region["B"])
       IN CASE op = "union" ->
                 IF In("A") THEN emitB ELSE IF In("B") THEN emitA ELSE emitA \o emitB
            [] op = "intersect" ->
                 IF In("A") THEN emitA ELSE IF In("B") THEN emitB ELSE <<>>
            [] op = "difference" ->
                 IF In("A") THEN <<>>
                 ELSE IF In("B") THEN emitA \o <<AsHole(region["B"][1])>> ELSE emitA
  /\ status' = IF loops' = <<>> THEN "empty" ELSE "ok"
  /\ pc' = "done"
  /\ UNCHANGED <<inVars, crosses, nodes, walkVars>>

------------------------------------------------------------------------------
(* The rings: each loop's corners and, after the corner that begins an      *)
(* edge, the crossings on that edge.  A node is a point, the number of its  *)
(* crossing, or 0, and the direction of the arc that the walk leaves on; it *)
(* is named by its side, its loop and its place.                            *)

(* Mutant: crossings in the order in which they were found.                 *)
AsFound(s, edge) == SelectSeq([k \in DOMAIN crosses |-> k],
                              LAMBDA k : crosses[k].edge[s] = edge)
CrossingsOnEdge(s, edge) ==
  LET Way(k) == LET d == Minus(crosses[k].pt, From(s, edge))
                    r == Along(s, edge)
                IN d[1] * r[1] + d[2] * r[2]
  IN Sorted({k \in DOMAIN crosses : crosses[k].edge[s] = edge},
       LAMBDA k, l : Way(k) < Way(l) \/ (Way(k) = Way(l) /\ k < l))

Ring(s, i) ==
  FlattenSeq([e \in DOMAIN region[s][i] |->
    LET ks == CrossingsOnEdge(s, <<i, e>>)
    IN <<[p |-> region[s][i][e], k |-> 0]>>
         \o [n \in DOMAIN ks |-> [p |-> crosses[ks[n]].pt, k |-> ks[n]]]])

(* Whether the arc that leaves a crossing, onwards or backwards, is in the  *)
(* other region: its first segment's midpoint is.                           *)
LeavesInside(s, ring, n, onwards) ==
  RegionContains(region[Other(s)],
    Mid(ring[n].p, IF onwards THEN Succ(ring, n).p ELSE Pred(ring, n).p))

(* The arcs that op keeps of side s: those inside the other region, or      *)
(* those outside.  Mutant: both operands treated alike.                     *)
KeepsInsideAlike(s) == op = "intersect"
KeepsInside(s) == IF s = "A" THEN op = "intersect" ELSE op # "union"

Marked(s, ring) ==
  [n \in DOMAIN ring |->
     [p |-> ring[n].p, k |-> ring[n].k,
      entry |-> ring[n].k # 0 /\ LeavesInside(s, ring, n, TRUE) = KeepsInside(s)]]

AnyTransversal(rings) ==
  \E s \in Sides : \E i \in DOMAIN rings[s] : \E n \in DOMAIN rings[s][i] :
    /\ rings[s][i][n].k # 0
    /\ LeavesInside(s, rings[s][i], n, TRUE) # LeavesInside(s, rings[s][i], n, FALSE)

(* Declines if the boundaries only touch.                                   *)
BuildsRings ==
  /\ pc = "rings"
  /\ LET rings == [s \in Sides |-> [i \in DOMAIN region[s] |-> Ring(s, i)]]
     IN IF AnyTransversal(rings)
        THEN /\ nodes' = [s \in Sides |->
                            [i \in DOMAIN rings[s] |-> Marked(s, rings[s][i])]]
             /\ pc' = "walk" /\ UNCHANGED status
        ELSE /\ status' = "degenerate" /\ pc' = "done" /\ UNCHANGED nodes
  /\ UNCHANGED <<inVars, crosses, walkVars, loops>>

------------------------------------------------------------------------------
(* The walk.                                                                *)

At(n) == nodes[n[1]][n[2]][n[3]]
NodeOf(s, k) ==
  LET i == crosses[k].edge[s][1]
  IN <<s, i, CHOOSE j \in DOMAIN nodes[s][i] : nodes[s][i][j].k = k>>
Mate(n) == NodeOf(Other(n[1]), At(n).k)

(* Mutant: a guard that takes every arc for a single segment.               *)
TightGuard == Len(crosses)
Guard == 16 + 4 * FoldLeft(LAMBDA n, r : n + Len(r), 0, nodes["A"] \o nodes["B"])

(* From the first crossing of A that has not been visited.                  *)
Unvisited == {k \in DOMAIN crosses : NodeOf("A", k) \notin visited}

StartsWalk ==
  /\ pc = "walk" /\ start = NoNode
  /\ \E k \in Unvisited :
       /\ \A l \in Unvisited : k <= l
       /\ start' = NodeOf("A", k)
  /\ cur' = start' /\ fuel' = Guard /\ poly' = <<>>
  /\ UNCHANGED <<inVars, pc, crosses, nodes, visited, polys, status, loops>>

(* The places on the ring from n to the next crossing, n included.          *)
RECURSIVE ArcFrom(_, _)
ArcFrom(n, onwards) ==
  LET ring == nodes[n[1]][n[2]]
      next == [n EXCEPT ![3] = IF onwards THEN (n[3] % Len(ring)) + 1
                               ELSE ((n[3] - 2) % Len(ring)) + 1]
  IN <<n>> \o (IF At(next).k # 0 THEN <<next>> ELSE ArcFrom(next, onwards))

(* Along the kept arc to the next crossing, and over to its mate; closed    *)
(* when that is where it began.                                             *)
WalksArc ==
  /\ start # NoNode
  /\ LET arc == ArcFrom(cur, At(cur).entry)
     IN /\ poly' = poly \o [n \in 1..(Len(arc) - 1) |-> At(arc[n]).p]
        /\ visited' = visited \cup {cur, Last(arc)}
        /\ cur' = Mate(Last(arc))
        /\ fuel' = fuel - (Len(arc) - 1)
  /\ IF cur' = start \/ fuel' <= 0
     THEN /\ start' = NoNode
          /\ polys' = IF Len(poly') < 3 THEN polys ELSE Append(polys, poly')
     ELSE UNCHANGED <<start, polys>>
  /\ UNCHANGED <<inVars, pc, crosses, nodes, status, loops>>

EndsWalk ==
  /\ pc = "walk" /\ start = NoNode /\ Unvisited = {}
  /\ IF polys = <<>> THEN pc' = "done" /\ status' = "empty"
     ELSE pc' = "assemble" /\ UNCHANGED status
  /\ UNCHANGED <<inVars, crosses, nodes, walkVars, loops>>

------------------------------------------------------------------------------
(* The loops, cleaned, and oriented by how many others they are in; of the  *)
(* others, those that are still there.                                      *)

Cleaned(L) ==
  LET Kept(e) == e = 1 \/ L[e] # L[e - 1]
      once == SelectSeq([e \in DOMAIN L |-> e], Kept)
      pts == [n \in DOMAIN once |-> L[once[n]]]
      open == IF Len(pts) >= 2 /\ pts[1] = pts[Len(pts)] THEN Front(pts) ELSE pts
  IN DropCollinear(open)

(* The probe is a third of the sum of three corners: all scaled by 3.  When *)
(* loop i is tested those before it have been moved into the result, and an *)
(* empty polygon contains nothing.  Mutant: nested the other way about.     *)
DepthSwapped(all, i) ==
  Cardinality({j \in DOMAIN all : j > i /\ PointInPolygon(all[i], all[j][1])})
Depth(all, i) ==
  LET L == all[i]
      probe == <<L[1][1] + L[2][1] + L[Len(L)][1], L[1][2] + L[2][2] + L[Len(L)][2]>>
      Scaled(j) == [e \in DOMAIN all[j] |-> <<3 * all[j][e][1], 3 * all[j][e][2]>>]
  IN Cardinality({j \in DOMAIN all : j > i /\ PointInPolygon(Scaled(j), probe)})

Assembles ==
  /\ pc = "assemble"
  /\ LET cleaned == SelectSeq([i \in DOMAIN polys |-> Cleaned(polys[i])], LAMBDA L : Len(L) >= 3)
         Outer(i) == Depth(cleaned, i) % 2 = 0
         Oriented(i) == IF Outer(i) = (SignedArea(cleaned[i]) < 0)
                        THEN Reverse(cleaned[i]) ELSE cleaned[i]
     IN /\ loops' = [i \in DOMAIN cleaned |-> Emitted(Oriented(i), Outer(i))]
        /\ status' = IF cleaned = <<>> THEN "empty" ELSE "ok"
  /\ pc' = "done"
  /\ UNCHANGED <<inVars, crosses, nodes, walkVars>>

Done == pc = "done" /\ UNCHANGED vars

Next ==
  \/ FindsCrossings \/ ResolvesNoCrossings
  \/ BuildsRings \/ StartsWalk \/ WalksArc \/ EndsWalk \/ Assembles
  \/ Done

Spec == Init /\ [][Next]_vars

------------------------------------------------------------------------------
(* Properties.                                                              *)

(* What the boolean should contain.                                         *)
Wanted(p) ==
  LET inA == RegionContains(region["A"], p)
      inB == RegionContains(region["B"], p)
  IN CASE op = "union" -> inA \/ inB
       [] op = "intersect" -> inA /\ inB
       [] op = "difference" -> inA /\ ~inB

(* What the result contains: in more outer loops than holes.                *)
Around(p, L) == {i \in DOMAIN L : PointInPolygon(L[i].poly, p)}
Covered(p) ==
  LET outer == {i \in Around(p, loops) : loops[i].outer}
  IN Cardinality(outer) > Cardinality(Around(p, loops) \ outer)

Answered == pc = "done" /\ status \in {"ok", "empty"}

(* The operands cross in general position: no edges meet at an end.         *)
Proper ==
  /\ crosses # <<>>
  /\ \A k \in DOMAIN crosses, s \in Sides :
       crosses[k].pt \notin {From(s, crosses[k].edge[s]), To(s, crosses[k].edge[s])}
AllCrossed ==
  \A s \in Sides : \A i \in DOMAIN region[s] :
    \E k \in DOMAIN crosses : crosses[k].edge[s][1] = i

(* A loop is outer, and runs counterclockwise, if the loops it is inside    *)
(* are even in number.                                                      *)
Surrounding(i) == Around(loops[i].poly[1], loops) \ {i}
RoleIsRight(i) ==
  /\ loops[i].outer <=> Cardinality(Surrounding(i)) % 2 = 0
  /\ loops[i].outer <=> SignedArea(loops[i].poly) > 0

(* Operands in general position whose every loop is crossed: what the walk  *)
(* traces is the boundary of the boolean, so that a point is in it exactly  *)
(* when it is in an odd number of the loops; and each loop has the role its *)
(* nesting gives it, unless one that surrounds it was traced before it.     *)
WalkIsExact ==
  Answered /\ Proper /\ AllCrossed =>
    /\ \A p \in Probes : (Cardinality(Around(p, loops)) % 2 = 1) <=> Wanted(p)
    /\ \A i \in DOMAIN loops : (\A j \in Surrounding(i) : j > i) => RoleIsRight(i)

(* Such operands are never declined, and each walk comes back to where it   *)
(* began before its guard cuts it.                                          *)
WalkComesHome ==
  Proper => status # "degenerate" /\ (visited # {} => fuel > 0)

(* The sample that stands for s is in the other operand, and s is not.      *)
Misled(s) ==
  /\ RegionContains(region[Other(s)], RegionInterior(region[s]))
  /\ ~RegionContains(region[Other(s)], region[s][1][1])

(* Operands without holes and without crossings, nested or apart: the       *)
(* answer is the boolean, unless a sample misleads.                         *)
NestingIsExact ==
  Answered /\ crosses = <<>> /\ Len(region["A"]) = 1 /\ Len(region["B"]) = 1
  /\ (\A s \in Sides : ~Misled(s))
    => \A p \in Probes : Covered(p) <=> Wanted(p)

(* What the header promises of every pair of operands (refuted, see         *)
(* README): an answer is the boolean; what is ambiguous is declined.        *)
AnswersAreExact == Answered => \A p \in Probes : Covered(p) <=> Wanted(p)
=============================================================================
