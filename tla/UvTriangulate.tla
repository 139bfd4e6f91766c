---------------------------- MODULE UvTriangulate ----------------------------
(***************************************************************************)
(* The triangulation of a trimmed face in its parameter plane: holes are   *)
(* bridged into the outer loop, the polygon is ear-clipped, the triangles  *)
(* are linked to their neighbours and Lawson-legalized, the points of the  *)
(* interior grid and the centroids of refine are inserted, and a flood     *)
(* from the outer loop keeps the triangles of the region.                  *)
(*                                                                         *)
(* Corners are integer points, so that predicates are exact and the        *)
(* tolerances zero; indices begin with 1, and 0 is "no triangle".  Which   *)
(* triangles deviate too far from the surface is the surface's business:   *)
(* refine splits any of them.                                              *)
(***************************************************************************)
EXTENDS Integers, FiniteSets, SequencesExt, Totals

CONSTANTS
  Regions,   \* records: pts, the corners <<u, v>>; loops, sequences of indices
             \* into them, the outer one first; grid, the points to insert
  MaxInner   \* the points of the interior at which refine stops (its maxPts)

(* Loops are sequences of indices of corners, and the outer one has three   *)
(* of them at least; triangulatePolygon answers nothing for less.           *)
ASSUME RegionsAssumption ==
  /\ \A r \in Regions :
       /\ r.pts \in Seq(Int \X Int) /\ r.grid \in Seq(Int \X Int)
       /\ r.loops \in Seq(Seq(DOMAIN r.pts)) /\ Len(r.loops) >= 1 /\ Len(r.loops[1]) >= 3
  /\ MaxInner \in Nat

VARIABLES
  region,
  pc,       \* the phase: "bridge", "clip", "mesh", "done"
  holes,    \* the holes that are not bridged yet
  merged,   \* the polygon with the bridged holes
  loop,     \* what ear clipping has left of it
  pts,      \* the corners, then the points inserted
  constrained,   \* the sides of the loops, which are never flipped
  tris,     \* records: the corners v, and the neighbours n across v[e] -> v[e+1]
  work,     \* the stack of calls of legalize, as <<triangle, edge>>
  offered,  \* how many points of the grid were offered
  pass,     \* of refine's pass: the next triangle, the last one, the points it began with
  kept,     \* the triangles exported
  proper,   \* history: the bridges cross nothing, and no corners are in line
  sound,    \* history: the ears made up the region, and none was reversed
  once      \* history: the ears have three corners each and run no edge twice one way

inVars   == <<region, constrained, proper, sound, once>>
polyVars == <<holes, merged, loop>>
meshVars == <<pts, tris, work>>
vars == <<inVars, pc, polyVars, meshVars, offered, pass, kept>>

Init ==
  /\ region \in Regions
  /\ pc = "bridge"
  /\ holes = {h \in 2..Len(region.loops) : Len(region.loops[h]) >= 3}
  /\ merged = region.loops[1] /\ loop = <<>>
  /\ pts = region.pts /\ tris = <<>> /\ work = <<>>
  /\ offered = 0 /\ pass = <<1, 0, 0>> /\ kept = {}
  /\ constrained = {} /\ proper = FALSE /\ sound = FALSE /\ once = FALSE

------------------------------------------------------------------------------
(* Plane geometry.                                                          *)

Succ(l, i) == l[(i % Len(l)) + 1]
Pred(l, i) == l[((i - 2) % Len(l)) + 1]
Least(S) == CHOOSE i \in S : \A j \in S : i <= j

(* Twice the signed area of a triangle; positive when it runs anticlockwise. *)
Orient(a, b, c) == (b[1] - a[1]) * (c[2] - a[2]) - (b[2] - a[2]) * (c[1] - a[1])
InsideTri(a, b, c, p) == Orient(a, b, p) > 0 /\ Orient(b, c, p) > 0 /\ Orient(c, a, p) > 0
SignedArea(l) ==
  Total([i \in DOMAIN l |-> pts[Pred(l, i)][1] * pts[l[i]][2] - pts[l[i]][1] * pts[Pred(l, i)][2]])

Opposite(x, y) == (x > 0 /\ y < 0) \/ (x < 0 /\ y > 0)
SegmentsCross(p, q, r, s) ==
  /\ Opposite(Orient(r, s, p), Orient(r, s, q))
  /\ Opposite(Orient(p, q, r), Orient(p, q, s))

(* Whether d is inside the circle through a, b and c: a positive determinant. *)
Lifted(p) == p[1] * p[1] + p[2] * p[2]
Minus(p, q) == <<p[1] - q[1], p[2] - q[2]>>
Wedge(p, q) == p[1] * q[2] - q[1] * p[2]
InCircle(a, b, c, d) ==
  LET p == Minus(a, d)
      q == Minus(b, d)
      r == Minus(c, d)
  IN Lifted(p) * Wedge(q, r) - Lifted(q) * Wedge(p, r) + Lifted(r) * Wedge(p, q) > 0

------------------------------------------------------------------------------
(* triangulatePolygon: bridges.                                             *)

(* No edge of the polygon that is not incident to a or b crosses a-b.       *)
Visible(l, a, b) ==
  \A i \in DOMAIN l :
    \/ {l[i], Succ(l, i)} \cap {a, b} # {}
    \/ ~SegmentsCross(pts[a], pts[b], pts[l[i]], pts[Succ(l, i)])

(* The hole's rightmost corner is joined to the nearest visible corner.     *)
BridgeHole(outer, hole) ==
  LET o  == IF SignedArea(outer) < 0 THEN Reverse(outer) ELSE outer
      h  == IF SignedArea(hole) > 0 THEN Reverse(hole) ELSE hole
      at == Least({i \in DOMAIN h : \A j \in DOMAIN h : pts[h[j]][1] <= pts[h[i]][1]})
      Far(i)  == Lifted(Minus(pts[o[i]], pts[h[at]]))
      seen    == {i \in DOMAIN o : Visible(o, o[i], h[at])}
      choices == IF seen = {} THEN DOMAIN o ELSE seen
      pick    == Least({i \in choices : \A j \in choices : Far(i) <= Far(j)})
  IN SubSeq(o, 1, pick)
     \o [k \in 1..(Len(h) + 1) |-> h[((at + k - 2) % Len(h)) + 1]]
     \o SubSeq(o, pick, Len(o))

MaxU(h) ==
  LET l == region.loops[h] IN pts[l[CHOOSE i \in DOMAIN l : \A j \in DOMAIN l : pts[l[j]][1] <= pts[l[i]][1]]][1]

(* The rightmost hole first; the sort leaves ties in any order.             *)
Bridge ==
  /\ pc = "bridge"
  /\ \E h \in holes :
       /\ \A g \in holes : MaxU(g) <= MaxU(h)
       /\ merged' = BridgeHole(merged, region.loops[h])
       /\ holes' = holes \ {h}
  /\ UNCHANGED <<inVars, pc, loop, meshVars, offered, pass, kept>>

------------------------------------------------------------------------------
(* triangulatePolygon: ears.                                                *)

(* What the property TilesTheRegion asks of a region and its bridges: edges *)
(* cross nowhere, at most one bridge ends in a corner, and no three corners *)
(* are in line.                                                             *)
EdgesApart(l) ==
  \A i, j \in DOMAIN l : ~SegmentsCross(pts[l[i]], pts[Succ(l, i)], pts[l[j]], pts[Succ(l, j)])
InLine == \E a, b, c \in DOMAIN region.pts :
            Cardinality({a, b, c}) = 3 /\ Orient(region.pts[a], region.pts[b], region.pts[c]) = 0
Bridged == /\ EdgesApart(merged)
           /\ \A i \in DOMAIN merged : Cardinality({j \in DOMAIN merged : merged[j] = merged[i]}) <= 2

StartClip ==
  /\ pc = "bridge" /\ holes = {}
  /\ loop' = IF SignedArea(merged) < 0 THEN Reverse(merged) ELSE merged
  /\ pc' = "clip" /\ proper' = (Bridged /\ ~InLine)
  /\ UNCHANGED <<region, constrained, sound, once, holes, merged, meshVars, offered, pass, kept>>

(* A corner that is not reflex, with no other corner strictly inside; the   *)
(* second tier of findEar, a tolerance below zero, adds nothing here.       *)
(* Mutant: whatever is inside.                                              *)
ConvexCorner(l, i) == Orient(pts[Pred(l, i)], pts[l[i]], pts[Succ(l, i)]) >= 0
IsEar(l, i) ==
  LET a == Pred(l, i)
      c == Succ(l, i)
  IN /\ Orient(pts[a], pts[l[i]], pts[c]) >= 0
     /\ \A k \in DOMAIN l : l[k] \notin {a, l[i], c} =>
          ~InsideTri(pts[a], pts[l[i]], pts[c], pts[l[k]])

Ears == {i \in DOMAIN loop : IsEar(loop, i)}
Tri(a, b, c, n) == [v |-> <<a, b, c>>, n |-> n]
Unlinked(a, b, c) == Tri(a, b, c, <<0, 0, 0>>)

Clip ==
  /\ pc = "clip" /\ Len(loop) > 3 /\ Ears # {}
  /\ LET i == Least(Ears) IN
       /\ tris' = Append(tris, Unlinked(Pred(loop, i), loop[i], Succ(loop, i)))
       /\ loop' = RemoveAt(loop, i)
  /\ UNCHANGED <<inVars, pc, holes, merged, pts, work, offered, pass, kept>>

------------------------------------------------------------------------------
(* ConstrainedDelaunay: links, and build's legalization of every edge.      *)

Edge(t, e) == <<t.v[e], t.v[(e % 3) + 1]>>
Key(a, b) == {a, b}
KeyOf(t, e) == Key(t.v[e], t.v[(e % 3) + 1])
LoopKeys(l) == {Key(l[i], Succ(l, i)) : i \in DOMAIN l}
AllKeys == UNION {LoopKeys(region.loops[k]) : k \in DOMAIN region.loops}

(* The neighbour across an edge runs it the other way; of two that do, the  *)
(* one written last.                                                        *)
Across(ts, t, e) ==
  LET back == {i \in DOMAIN ts : \E f \in 1..3 : Edge(ts[i], f) = <<Edge(t, e)[2], Edge(t, e)[1]>>}
  IN IF back = {} THEN 0 ELSE CHOOSE i \in back : \A j \in back : j <= i
LinkedUp(ts) ==
  [i \in DOMAIN ts |-> [v |-> ts[i].v, n |-> [e \in 1..3 |-> Across(ts, ts[i], e)]]]

(* What the links can tell apart: corners that differ, and no two triangles *)
(* that run an edge the same way.                                           *)
Cornered(t) == \A e, f \in 1..3 : e # f => t.v[e] # t.v[f]
RunsOnce(ts) ==
  /\ \A i \in DOMAIN ts : Cornered(ts[i])
  /\ \A i, j \in DOMAIN ts : \A e, f \in 1..3 : Edge(ts[i], e) = Edge(ts[j], f) => i = j

(* Twice the area of a triangle, and of the region between the loops.       *)
Corner(t, k) == pts[t.v[k]]
Area(t) == Orient(Corner(t, 1), Corner(t, 2), Corner(t, 3))
RegionArea ==
  LET Twice(k) == LET s == SignedArea(region.loops[k]) IN IF s < 0 THEN -s ELSE s
  IN 2 * Twice(1) - Total([k \in DOMAIN region.loops |-> Twice(k)])

(* The last triangle closes the clip, unless no ear was found before.       *)
Build ==
  /\ pc = "clip" /\ (Len(loop) = 3 \/ Ears = {})
  /\ tris' = LinkedUp(IF Len(loop) = 3 THEN Append(tris, Unlinked(loop[1], loop[2], loop[3])) ELSE tris)
  /\ constrained' = AllKeys
  /\ sound' = (/\ Total([i \in DOMAIN tris' |-> Area(tris'[i])]) = RegionArea
                /\ \A i \in DOMAIN tris' : Area(tris'[i]) >= 0)
  /\ once' = RunsOnce(tris')
  /\ work' = [k \in 1..(3 * Len(tris')) |-> <<((k - 1) \div 3) + 1, ((k - 1) % 3) + 1>>]
  /\ pc' = "mesh"
  /\ UNCHANGED <<region, proper, polyVars, pts, offered, pass, kept>>

EdgeOf(t, a, b) ==
  LET es == {e \in 1..3 : Edge(t, e) = <<a, b>>} IN IF es = {} THEN 0 ELSE Least(es)

(* Triangle i's link on the edge between a and b, whichever way it runs.    *)
(* Mutant: it keeps its link.                                               *)
Between(t, a, b) == IF EdgeOf(t, b, a) # 0 THEN EdgeOf(t, b, a) ELSE EdgeOf(t, a, b)
Linked(t, a, b, to) ==
  [v |-> t.v, n |-> [e \in 1..3 |-> IF e = Between(t, a, b) THEN to ELSE t.n[e]]]
NoRelink(ts, i, a, b, to) == ts
Relink(ts, i, a, b, to) ==
  [k \in DOMAIN ts |-> IF k = i THEN Linked(ts[k], a, b, to) ELSE ts[k]]

(* The flip of edge e of triangle i: an unconstrained edge, a neighbour     *)
(* whose apex is in i's circle, and a quadrilateral that the new diagonal   *)
(* crosses.                                                                 *)
Third(e, k) == ((e + k - 1) % 3) + 1
Flippable(i, e) ==
  LET t    == tris[i]
      a    == t.v[e]
      b    == t.v[Third(e, 1)]
      apex == t.v[Third(e, 2)]
      j    == t.n[e]
      f    == EdgeOf(tris[j], b, a)
      opp  == tris[j].v[Third(f, 2)]
  IN /\ Key(a, b) \notin constrained
     /\ j # 0 /\ f # 0
     /\ InCircle(pts[a], pts[b], pts[apex], pts[opp])
     /\ Opposite(Orient(pts[apex], pts[opp], pts[a]), Orient(pts[apex], pts[opp], pts[b]))

(* The corners of the new triangles.  Mutant: the second is on the side of a. *)
HalvesAstray(a, b, apex, opp) == <<<<apex, a, opp>>, <<apex, opp, a>>>>
Halves(a, b, apex, opp) == <<<<apex, a, opp>>, <<apex, opp, b>>>>

Flip(i, e) ==
  LET t    == tris[i]
      a    == t.v[e]
      b    == t.v[Third(e, 1)]
      apex == t.v[Third(e, 2)]
      j    == t.n[e]
      f    == EdgeOf(tris[j], b, a)
      u    == tris[j]
      opp  == u.v[Third(f, 2)]
      nA   == t.n[Third(e, 1)]
      nB   == t.n[Third(e, 2)]
      nC   == u.n[Third(f, 1)]
      nD   == u.n[Third(f, 2)]
      new  == Halves(a, b, apex, opp)
      s0   == [tris EXCEPT ![i] = [v |-> new[1], n |-> <<nB, nC, j>>]]
      s1   == [s0 EXCEPT ![j] = [v |-> new[2], n |-> <<i, nD, nA>>]]
      s2   == Relink(s1, nB, apex, a, i)
      s3   == Relink(s2, nC, a, opp, i)
      s4   == Relink(s3, nD, opp, b, j)
  IN Relink(s4, nA, b, apex, j)

(* The next call that flips, and those it makes before the ones that wait;  *)
(* the calls before it return at once.                                      *)
Legalize ==
  /\ pc = "mesh" /\ work # <<>>
  /\ LET flips == {k \in DOMAIN work : Flippable(work[k][1], work[k][2])} IN
       IF flips = {} THEN work' = <<>> /\ UNCHANGED tris
       ELSE LET k == Least(flips)
                i == work[k][1]
                e == work[k][2]
            IN /\ tris' = Flip(i, e)
               /\ work' = <<<<i, 2>>, <<tris[i].n[e], 2>>>> \o SubSeq(work, k + 1, Len(work))
  /\ UNCHANGED <<inVars, pc, polyVars, pts, offered, pass, kept>>

------------------------------------------------------------------------------
(* Points of the interior.                                                  *)

Holding(p) == {i \in DOMAIN tris :
                 LET t == tris[i] IN InsideTri(Corner(t, 1), Corner(t, 2), Corner(t, 3), p)}

(* The first triangle around p becomes three; p is skipped when it is       *)
(* strictly inside none.                                                    *)
Insert(p) ==
  IF Holding(p) = {} THEN UNCHANGED meshVars
  ELSE LET i  == Least(Holding(p))
           t  == tris[i]
           a  == t.v[1]
           b  == t.v[2]
           c  == t.v[3]
           n  == Len(tris)
           q  == Len(pts) + 1
           s0 == [tris EXCEPT ![i] = Tri(a, b, q, <<t.n[1], n + 1, n + 2>>)]
           s1 == s0 \o <<Tri(b, c, q, <<t.n[2], n + 2, i>>), Tri(c, a, q, <<t.n[3], i, n + 1>>)>>
           s2 == Relink(s1, t.n[1], a, b, i)
           s3 == Relink(s2, t.n[2], b, c, n + 1)
       IN /\ pts' = Append(pts, p)
          /\ tris' = Relink(s3, t.n[3], c, a, n + 2)
          /\ work' = <<<<i, 1>>, <<n + 1, 1>>, <<n + 2, 1>>>>

Resting == pc = "mesh" /\ work = <<>>
StartPass == pass' = <<1, Len(tris'), Len(pts')>>

InsertGrid ==
  /\ Resting /\ offered < Len(region.grid)
  /\ Insert(region.grid[offered + 1])
  /\ offered' = offered + 1
  /\ StartPass
  /\ UNCHANGED <<inVars, pc, polyVars, kept>>

(* refine: a triangle of the pass is split at its centroid.                 *)
Offered == offered = Len(region.grid)
Full == Len(pts) >= Len(region.pts) + MaxInner
Split ==
  /\ Resting /\ Offered /\ ~Full
  /\ \E i \in pass[1]..pass[2] :
       /\ LET t == tris[i]
              Mean(k) == (Corner(t, 1)[k] + Corner(t, 2)[k] + Corner(t, 3)[k]) \div 3
          IN Insert(<<Mean(1), Mean(2)>>)
       /\ pass' = [pass EXCEPT ![1] = i + 1]
  /\ UNCHANGED <<inVars, pc, polyVars, offered, kept>>

(* The pass is over: no triangle left in it needs a split.                  *)
NextPass ==
  /\ Resting /\ Offered /\ Len(pts) # pass[3]
  /\ UNCHANGED meshVars /\ StartPass
  /\ UNCHANGED <<inVars, pc, polyVars, offered, kept>>

------------------------------------------------------------------------------
(* triangles: the flood from the outer loop, and the folds it drops.        *)

Bordering(T, k) == {i \in T : \E e \in 1..3 : KeyOf(tris[i], e) = k}

(* Over the links that cross no side of a loop, from the outer loop.        *)
Flood ==
  LET outer == LoopKeys(region.loops[1])
      seeds == {i \in DOMAIN tris : \E e \in 1..3 : KeyOf(tris[i], e) \in outer}
      open  == {x \in (DOMAIN tris) \X (1..3) : KeyOf(tris[x[1]], x[2]) \notin constrained}
      ways  == {<<x[1], tris[x[1]].n[x[2]]>> : x \in open}
      Grown(T) == T \cup {w[2] : w \in {x \in ways : x[1] \in T /\ x[2] # 0}}
  IN IF seeds = {} THEN DOMAIN tris ELSE FoldLeft(LAMBDA T, t : Grown(T), seeds, tris)

Size(i) == LET x == Area(tris[i]) IN IF x < 0 THEN -x ELSE x

(* Of the kept triangles on one loop edge only one stays, a largest one.    *)
Export ==
  /\ Resting /\ Offered /\ Len(pts) = pass[3]
  /\ IF Len(region.loops) = 1 THEN kept' = DOMAIN tris
     ELSE LET flood   == Flood
              On(k)   == Bordering(flood, k)
              crowded == {k \in constrained : Cardinality(On(k)) > 1}
          IN \E stays \in [crowded -> flood] :
               /\ \A k \in crowded : stays[k] \in On(k) /\ \A i \in On(k) : Size(i) <= Size(stays[k])
               /\ kept' = flood \ UNION {On(k) \ {stays[k]} : k \in crowded}
  /\ pc' = "done"
  /\ UNCHANGED <<inVars, polyVars, meshVars, offered, pass>>

Done == pc = "done" /\ UNCHANGED vars

Next ==
  \/ Bridge \/ StartClip \/ Clip \/ Build
  \/ Legalize \/ InsertGrid \/ Split \/ NextPass \/ Export
  \/ Done

Spec == Init /\ [][Next]_vars

------------------------------------------------------------------------------
(* Properties.                                                              *)

(* Bridging leaves one simple polygon, as the header promises (refuted, see *)
(* README).                                                                 *)
MergedStaysSimple == EdgesApart(merged)

(* The triangles tile the region: their areas make up its area, each side   *)
(* of a loop borders one of them and an edge without a link has no triangle *)
(* beyond it, at first and after every flip and insertion.  Claimed of a    *)
(* region of one loop, and of holes whose bridges are proper; there, every  *)
(* triangle runs anticlockwise too.  Of what is exported it is also claimed *)
(* wherever the ears made up the region, though bridges left slivers on its *)
(* sides: each side borders exactly one.                                    *)
OneLoop == Len(region.loops) = 1
TilesTheRegion ==
  /\ pc = "mesh" /\ (OneLoop \/ proper) =>
       /\ Total([i \in DOMAIN tris |-> Area(tris[i])]) = RegionArea
       /\ \A k \in constrained : Bordering(DOMAIN tris, k) # {}
       /\ once /\ \A i \in DOMAIN tris, e \in 1..3 : tris[i].n[e] = 0 => Across(tris, tris[i], e) = 0
       /\ proper => \A i \in DOMAIN tris : Area(tris[i]) > 0
  /\ pc = "done" /\ (OneLoop \/ proper \/ sound) =>
       /\ Total([i \in DOMAIN tris |-> IF i \in kept THEN Area(tris[i]) ELSE 0]) = RegionArea
       /\ \A k \in constrained : Cardinality(Bordering(kept, k)) = 1

(* Neighbours know each other: a link leads to a triangle that runs the     *)
(* shared edge the other way and links back; flips and insertions repair    *)
(* the links around them.  (Where bridges are not proper the ears may run   *)
(* an edge twice one way, and a link that is taken twice leads back once.)  *)
Reversed(s) == <<s[2], s[1]>>
LinksBack(ts, i, e) ==
  \E f \in 1..3 : /\ Edge(ts[ts[i].n[e]], f) = Reversed(Edge(ts[i], e))
                  /\ ts[ts[i].n[e]].n[f] = i
LinksAgree ==
  pc = "mesh" /\ once =>
    \A i \in DOMAIN tris, e \in 1..3 : tris[i].n[e] # 0 => LinksBack(tris, i, e)

(* No flip or insertion loses a side of the region: the boundary that the   *)
(* neighbouring faces share stays as it was sampled.                        *)
HasEdge(ts, k) == \E i \in DOMAIN ts : \E e \in 1..3 : KeyOf(ts[i], e) = k
LoopEdgesStay ==
  [][pc = "mesh" => \A k \in constrained : HasEdge(tris, k) => HasEdge(tris', k)]_vars
=============================================================================
