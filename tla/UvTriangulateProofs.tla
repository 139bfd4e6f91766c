------------------------- MODULE UvTriangulateProofs -------------------------
(***************************************************************************)
(* Proofs about the triangulation: that the indices it follows are those   *)
(* of corners, triangles and edges; that flips and insertions keep the     *)
(* sides of the region, the links between neighbours, and the way that     *)
(* triangles turn; that bridges, ears, flips and insertions keep the area  *)
(* of the region and all its sides, and turn no triangle over; and that    *)
(* flips come to an end.                                                   *)
(***************************************************************************)
EXTENDS UvTriangulate, OrderLemmas, TLAPS

------------------------------------------------------------------------------
(* Numbers and edges.                                                       *)

(* The least of some numbers is one of them, and no other is below it.      *)
LEMMA LeastIs ==
  ASSUME NEW n \in Nat, NEW S \in SUBSET (1..n), S # {}
  PROVE  Least(S) \in S /\ \A j \in S : Least(S) <= j
<1> DEFINE f == [k \in 1..n |-> k]
<1>1. PICK i \in S : \A j \in S : f[i] <= f[j]
  <2>1. f \in [1..n -> Int]
    OBVIOUS
  <2> QED
    BY <2>1, LeastValue
<1>2. \A j \in S : i <= j
  BY <1>1
<1> QED
  BY <1>2 DEF Least

(* Of some numbers one is the greatest.                                     *)
LEMMA GreatestIs ==
  ASSUME NEW n \in Nat, NEW S \in SUBSET (1..n), S # {}
  PROVE  \E i \in S : \A j \in S : j <= i
<1> DEFINE f == [k \in 1..n |-> n - k]
<1>1. PICK i \in S : \A j \in S : f[i] <= f[j]
  <2>1. f \in [1..n -> Int]
    OBVIOUS
  <2> QED
    BY <2>1, LeastValue
<1>2. \A j \in S : n - i <= n - j
  BY <1>1
<1> QED
  BY <1>2

(* Triangles over np corners, linked to triangles up to nt.                 *)
Triangles(np, nt) == [v : [1..3 -> 1..np], n : [1..3 -> 0..nt]]

(* The place of an edge in a triangle, if it has that edge, and 0 if not.   *)
LEMMA EdgeOfIs ==
  ASSUME NEW t, NEW a, NEW b
  PROVE  /\ EdgeOf(t, a, b) \in 0..3
         /\ EdgeOf(t, a, b) # 0 => EdgeOf(t, a, b) \in 1..3 /\ Edge(t, EdgeOf(t, a, b)) = <<a, b>>
         /\ EdgeOf(t, a, b) = 0 => \A e \in 1..3 : Edge(t, e) # <<a, b>>
<1> DEFINE es == {e \in 1..3 : Edge(t, e) = <<a, b>>}
<1>1. EdgeOf(t, a, b) = IF es = {} THEN 0 ELSE Least(es)
  BY DEF EdgeOf
<1>2. es # {} => Least(es) \in es
  BY LeastIs
<1> HIDE DEF es
<1>3. CASE es = {}
  BY <1>1, <1>3 DEF es
<1>4. CASE es # {}
  BY <1>1, <1>2, <1>4 DEF es
<1> QED
  BY <1>3, <1>4

(* Where the corners differ an edge has one place.                          *)
LEMMA EdgeHasOnePlace ==
  ASSUME NEW t, Cornered(t), NEW e \in 1..3, NEW f \in 1..3, Edge(t, e) = Edge(t, f)
  PROVE  e = f
BY DEF Cornered, Edge

(* EdgeOf finds the edge of a triangle with three corners again.            *)
LEMMA EdgeOfCornered ==
  ASSUME NEW t, Cornered(t), NEW e \in 1..3
  PROVE  EdgeOf(t, Edge(t, e)[1], Edge(t, e)[2]) = e
<1> DEFINE a == Edge(t, e)[1]
           b == Edge(t, e)[2]
<1>1. Edge(t, e) = <<a, b>>
  BY DEF Edge
<1>2. EdgeOf(t, a, b) # 0
  BY <1>1, EdgeOfIs
<1>3. EdgeOf(t, a, b) \in 1..3 /\ Edge(t, EdgeOf(t, a, b)) = <<a, b>>
  BY <1>2, EdgeOfIs
<1> QED
  BY <1>1, <1>3, EdgeHasOnePlace

------------------------------------------------------------------------------
(* Relinking.                                                               *)

(* Relinking keeps the triangles and their corners.                         *)
LEMMA RelinkShape ==
  ASSUME NEW np \in Nat, NEW nt \in Nat, NEW ts \in Seq(Triangles(np, nt)), Len(ts) = nt,
         NEW i, NEW a, NEW b, NEW to \in 0..nt
  PROVE  /\ Relink(ts, i, a, b, to) \in Seq(Triangles(np, nt))
         /\ Len(Relink(ts, i, a, b, to)) = nt
         /\ \A k \in 1..nt : Relink(ts, i, a, b, to)[k].v = ts[k].v
<1>1. ASSUME NEW t \in Triangles(np, nt)
      PROVE  Linked(t, a, b, to) \in Triangles(np, nt) /\ Linked(t, a, b, to).v = t.v
  BY <1>1 DEF Linked, Triangles
<1> DEFINE new == Relink(ts, i, a, b, to)
<1>2. new = [k \in 1..nt |-> IF k = i THEN Linked(ts[k], a, b, to) ELSE ts[k]]
  BY DEF Relink
<1> HIDE DEF new
<1>3. \A k \in 1..nt : new[k] \in Triangles(np, nt) /\ new[k].v = ts[k].v
  BY <1>1, <1>2
<1>4. new \in Seq(Triangles(np, nt)) /\ Len(new) = nt
  BY <1>2, <1>3
<1> QED
  BY <1>3, <1>4 DEF new

(* Relinking a triangle across an edge that it runs changes that link only, *)
(* and where there is no triangle it changes nothing.                       *)
LEMMA RelinkIs ==
  ASSUME NEW np \in Nat, NEW nt \in Nat, NEW ts \in Seq(Triangles(np, nt)), Len(ts) = nt,
         NEW m \in 0..nt, NEW a, NEW b, NEW to,
         m # 0 => Cornered(ts[m]) /\ \E e \in 1..3 : Edge(ts[m], e) = <<b, a>>
  PROVE  \A k \in 1..nt, g \in 1..3 :
           Relink(ts, m, a, b, to)[k].n[g]
             = IF k = m /\ Edge(ts[k], g) = <<b, a>> THEN to ELSE ts[k].n[g]
<1> SUFFICES ASSUME NEW k \in 1..nt, NEW g \in 1..3
             PROVE  Relink(ts, m, a, b, to)[k].n[g]
                      = IF k = m /\ Edge(ts[k], g) = <<b, a>> THEN to ELSE ts[k].n[g]
  OBVIOUS
<1>1. Relink(ts, m, a, b, to)[k].n[g]
        = IF k = m /\ g = Between(ts[k], a, b) THEN to ELSE ts[k].n[g]
  BY DEF Relink, Linked
<1>2. ASSUME k = m PROVE g = Between(ts[k], a, b) <=> Edge(ts[k], g) = <<b, a>>
  <2>1. PICK e \in 1..3 : Edge(ts[k], e) = <<b, a>>
    BY <1>2
  <2>2. Cornered(ts[k])
    BY <1>2
  <2>3. EdgeOf(ts[k], b, a) = e
    BY <2>1, <2>2, EdgeOfCornered
  <2>4. Between(ts[k], a, b) = e
    BY <2>3 DEF Between
  <2> QED
    BY <2>1, <2>2, <2>4, EdgeHasOnePlace
<1> QED
  BY <1>1, <1>2

RelinkedTo(us, ts, np, nt, m, x, y, to) ==
  /\ us \in Seq(Triangles(np, nt)) /\ Len(us) = nt
  /\ \A k \in 1..nt : us[k].v = ts[k].v
  /\ \A k \in 1..nt, g \in 1..3 :
       us[k].n[g] = IF k = m /\ Edge(ts[k], g) = <<x, y>> THEN to ELSE ts[k].n[g]

(* Relink sets one neighbour: that of m across the edge from b to a.        *)
LEMMA RelinkTo ==
  ASSUME NEW np \in Nat, NEW nt \in Nat, NEW ts \in Seq(Triangles(np, nt)), Len(ts) = nt,
         NEW m \in 0..nt, NEW a, NEW b, NEW to \in 0..nt,
         m # 0 => Cornered(ts[m]) /\ \E e \in 1..3 : Edge(ts[m], e) = <<b, a>>
  PROVE  RelinkedTo(Relink(ts, m, a, b, to), ts, np, nt, m, b, a, to)
<1> DEFINE us == Relink(ts, m, a, b, to)
<1>1. us \in Seq(Triangles(np, nt)) /\ Len(us) = nt /\ \A k \in 1..nt : us[k].v = ts[k].v
  BY RelinkShape
<1>2. \A k \in 1..nt, g \in 1..3 :
        us[k].n[g] = IF k = m /\ Edge(ts[k], g) = <<b, a>> THEN to ELSE ts[k].n[g]
  BY RelinkIs, SMTT(20)
<1> HIDE DEF us
<1>3. RelinkedTo(us, ts, np, nt, m, b, a, to)
  BY <1>1, <1>2 DEF RelinkedTo
<1> QED
  BY <1>3 DEF us

(* Edges and corners are told by v alone.                                   *)
LEMMA SameCorners ==
  ASSUME NEW t, NEW u, t.v = u.v
  PROVE  /\ \A e : Edge(t, e) = Edge(u, e) /\ KeyOf(t, e) = KeyOf(u, e)
         /\ Cornered(t) <=> Cornered(u)
BY DEF Edge, KeyOf, Cornered

------------------------------------------------------------------------------
(* The parts of a flip.                                                     *)

MeshIs(np, nt) == tris \in Seq(Triangles(np, nt)) /\ Len(tris) = nt
PointsAre(np) == pts \in Seq(Int \X Int) /\ Len(pts) = np

A(i, e) == tris[i].v[e]
B(i, e) == tris[i].v[Third(e, 1)]
Apex(i, e) == tris[i].v[Third(e, 2)]
Beyond(i, e) == tris[i].n[e]
Shared(i, e) == EdgeOf(tris[Beyond(i, e)], B(i, e), A(i, e))
Opp(i, e) == tris[Beyond(i, e)].v[Third(Shared(i, e), 2)]

(* The three edges of a triangle, from any of them.                         *)
LEMMA ThirdIs ==
  ASSUME NEW e \in 1..3
  PROVE  /\ Third(e, 1) \in 1..3 /\ Third(e, 2) \in 1..3
         /\ e # Third(e, 1) /\ e # Third(e, 2) /\ Third(e, 1) # Third(e, 2)
         /\ \A g \in 1..3 : g = e \/ g = Third(e, 1) \/ g = Third(e, 2)
BY DEF Third

(* The three edges of a triangle, from any of them on.                      *)
LEMMA EdgesAround ==
  ASSUME NEW t, NEW e \in 1..3
  PROVE  /\ Edge(t, e) = <<t.v[e], t.v[Third(e, 1)]>>
         /\ Edge(t, Third(e, 1)) = <<t.v[Third(e, 1)], t.v[Third(e, 2)]>>
         /\ Edge(t, Third(e, 2)) = <<t.v[Third(e, 2)], t.v[e]>>
BY DEF Edge, Third

(* Twice the area over two corners that are one is zero.                    *)
LEMMA OrientFlat ==
  ASSUME NEW p \in Int \X Int, NEW q \in Int \X Int
  PROVE  Orient(p, p, q) = 0 /\ Orient(p, q, p) = 0 /\ Orient(p, q, q) = 0
BY DEF Orient

(* The corners and the neighbours of a triangle of the mesh.                *)
LEMMA PartsOf ==
  ASSUME NEW np \in Nat, NEW nt \in Nat, MeshIs(np, nt), NEW i \in 1..nt, NEW e \in 1..3
  PROVE  tris[i].v[e] \in 1..np /\ tris[i].n[e] \in 0..nt
<1>1. tris[i] \in Triangles(np, nt)
  BY DEF MeshIs
<1> QED
  BY <1>1 DEF Triangles

(* The quadrilateral of a flip: four corners, in two triangles that have    *)
(* three each and are not one.                                              *)
Quadrilateral(np, nt, i, e) ==
  LET a    == A(i, e)
      b    == B(i, e)
      apex == Apex(i, e)
      j    == Beyond(i, e)
      f    == Shared(i, e)
      opp  == Opp(i, e)
  IN /\ {a, b} \notin constrained
     /\ a \in 1..np /\ b \in 1..np /\ apex \in 1..np /\ opp \in 1..np
     /\ a # b /\ a # apex /\ a # opp /\ b # apex /\ b # opp /\ apex # opp
     /\ j \in 1..nt /\ j # i /\ f \in 1..3
     /\ tris[j].v[f] = b /\ tris[j].v[Third(f, 1)] = a
     /\ Cornered(tris[i]) /\ Cornered(tris[j])

(* What may be flipped lies in such a quadrilateral.                        *)
LEMMA FlipParts ==
  ASSUME NEW np \in Nat, NEW nt \in Nat, MeshIs(np, nt), PointsAre(np),
         NEW i \in 1..nt, NEW e \in 1..3, Flippable(i, e)
  PROVE  Quadrilateral(np, nt, i, e)
<1> DEFINE a    == A(i, e)
           b    == B(i, e)
           apex == Apex(i, e)
           j    == Beyond(i, e)
           f    == Shared(i, e)
           opp  == Opp(i, e)
<1>1. /\ a = tris[i].v[e] /\ b = tris[i].v[Third(e, 1)] /\ apex = tris[i].v[Third(e, 2)]
      /\ j = tris[i].n[e] /\ f = EdgeOf(tris[j], b, a) /\ opp = tris[j].v[Third(f, 2)]
  <2>1. a = tris[i].v[e] /\ b = tris[i].v[Third(e, 1)] /\ apex = tris[i].v[Third(e, 2)]
    BY DEF A, B, Apex
  <2>2. j = tris[i].n[e]
    BY DEF Beyond
  <2>3. f = EdgeOf(tris[j], b, a)
    BY DEF Shared
  <2>4. opp = tris[j].v[Third(f, 2)]
    BY DEF Opp
  <2> QED
    BY <2>1, <2>2, <2>3, <2>4
<1>2. j # 0 /\ f # 0
  BY DEF Flippable, A, B, Beyond, Shared
<1>3. Opposite(Orient(pts[apex], pts[opp], pts[a]), Orient(pts[apex], pts[opp], pts[b]))
  BY DEF Flippable, A, B, Apex, Beyond, Shared, Opp
<1> HIDE DEF a, b, apex, j, f, opp
<1>4. /\ Third(e, 1) \in 1..3 /\ Third(e, 2) \in 1..3
      /\ a \in 1..np /\ b \in 1..np /\ apex \in 1..np /\ j \in 1..nt
  <2>1. Third(e, 1) \in 1..3 /\ Third(e, 2) \in 1..3
    BY ThirdIs
  <2>2. a \in 1..np /\ b \in 1..np /\ apex \in 1..np /\ j \in 0..nt
    BY <1>1, <2>1, PartsOf
  <2> QED
    BY <1>2, <2>1, <2>2
<1>5. f \in 1..3 /\ Edge(tris[j], f) = <<b, a>>
  BY <1>1, <1>2, EdgeOfIs
<1>6. opp \in 1..np
  <2>1. Third(f, 2) \in 1..3
    BY <1>5, ThirdIs
  <2> QED
    BY <1>1, <1>4, <2>1, PartsOf
<1>7. pts[a] \in Int \X Int /\ pts[b] \in Int \X Int /\ pts[apex] \in Int \X Int /\ pts[opp] \in Int \X Int
  <2>1. \A x \in 1..np : pts[x] \in Int \X Int
    BY DEF PointsAre
  <2> QED
    BY <1>4, <1>6, <2>1
<1>8. /\ Orient(pts[apex], pts[opp], pts[a]) # 0 /\ Orient(pts[apex], pts[opp], pts[b]) # 0
      /\ pts[a] # pts[b]
  <2> DEFINE x == Orient(pts[apex], pts[opp], pts[a])
             y == Orient(pts[apex], pts[opp], pts[b])
  <2>1. x \in Int /\ y \in Int
    BY <1>7 DEF Orient
  <2>2. Opposite(x, y)
    BY <1>3
  <2>3. pts[a] = pts[b] => x = y
    OBVIOUS
  <2> HIDE DEF x, y
  <2>4. x # 0 /\ y # 0 /\ x # y
    BY <2>1, <2>2 DEF Opposite
  <2> QED
    BY <2>3, <2>4 DEF x, y
<1>9. a # b /\ a # apex /\ a # opp /\ b # apex /\ b # opp /\ apex # opp
  BY <1>7, <1>8, OrientFlat
<1>10. /\ Edge(tris[i], e) = <<a, b>> /\ Edge(tris[i], Third(e, 1)) = <<b, apex>>
       /\ Edge(tris[i], Third(e, 2)) = <<apex, a>>
  BY <1>1, EdgesAround
<1>11. Cornered(tris[i])
  BY <1>1, <1>9, ThirdIs DEF Cornered
<1>12. Cornered(tris[j]) /\ tris[j].v[f] = b /\ tris[j].v[Third(f, 1)] = a
  <2>1. tris[j].v[f] = b /\ tris[j].v[Third(f, 1)] = a /\ tris[j].v[Third(f, 2)] = opp
    <3>1. Edge(tris[j], f) = <<tris[j].v[f], tris[j].v[Third(f, 1)]>>
      BY <1>5, EdgesAround
    <3>2. tris[j].v[f] = b /\ tris[j].v[Third(f, 1)] = a
      BY <1>5, <3>1
    <3> QED
      BY <1>1, <3>2
  <2>2. Cornered(tris[j])
    BY <1>5, <1>9, <2>1, ThirdIs DEF Cornered
  <2> QED
    BY <2>1, <2>2
<1>13. j # i
  <2> SUFFICES ASSUME j = i PROVE FALSE
    OBVIOUS
  <2>1. f = e \/ f = Third(e, 1) \/ f = Third(e, 2)
    BY <1>5, ThirdIs
  <2> QED
    BY <1>5, <1>9, <1>10, <2>1
<1>14. {a, b} \notin constrained
  BY DEF Flippable, Key, A, B, a, b
<1> QED
  BY <1>4, <1>5, <1>6, <1>9, <1>11, <1>12, <1>13, <1>14 DEF Quadrilateral, a, b, apex, j, f, opp

(* Its five edges, as the two triangles run them.                           *)
LEMMA FlipEdges ==
  ASSUME NEW np \in Nat, NEW nt \in Nat, MeshIs(np, nt), PointsAre(np),
         NEW i \in 1..nt, NEW e \in 1..3, Flippable(i, e)
  PROVE  /\ Edge(tris[i], e) = <<A(i, e), B(i, e)>>
         /\ Edge(tris[i], Third(e, 1)) = <<B(i, e), Apex(i, e)>>
         /\ Edge(tris[i], Third(e, 2)) = <<Apex(i, e), A(i, e)>>
         /\ Edge(tris[Beyond(i, e)], Shared(i, e)) = <<B(i, e), A(i, e)>>
         /\ Edge(tris[Beyond(i, e)], Third(Shared(i, e), 1)) = <<A(i, e), Opp(i, e)>>
         /\ Edge(tris[Beyond(i, e)], Third(Shared(i, e), 2)) = <<Opp(i, e), B(i, e)>>
<1> DEFINE t == tris[i]
           u == tris[Beyond(i, e)]
           f == Shared(i, e)
<1>q. Quadrilateral(np, nt, i, e)
  BY FlipParts
<1>1. t.v[e] = A(i, e) /\ t.v[Third(e, 1)] = B(i, e) /\ t.v[Third(e, 2)] = Apex(i, e)
  BY DEF A, B, Apex
<1>2. f \in 1..3 /\ u.v[f] = B(i, e) /\ u.v[Third(f, 1)] = A(i, e)
  BY <1>q DEF Quadrilateral
<1>3. u.v[Third(f, 2)] = Opp(i, e)
  BY DEF Opp
<1> HIDE DEF t, u, f
<1>4. /\ Edge(t, e) = <<t.v[e], t.v[Third(e, 1)]>>
      /\ Edge(t, Third(e, 1)) = <<t.v[Third(e, 1)], t.v[Third(e, 2)]>>
      /\ Edge(t, Third(e, 2)) = <<t.v[Third(e, 2)], t.v[e]>>
  BY EdgesAround
<1>5. /\ Edge(u, f) = <<u.v[f], u.v[Third(f, 1)]>>
      /\ Edge(u, Third(f, 1)) = <<u.v[Third(f, 1)], u.v[Third(f, 2)]>>
      /\ Edge(u, Third(f, 2)) = <<u.v[Third(f, 2)], u.v[f]>>
  BY <1>2, EdgesAround
<1> QED
  BY <1>1, <1>2, <1>3, <1>4, <1>5 DEF t, u, f

------------------------------------------------------------------------------
(* A flip, in its order: the two halves, and then the four neighbours.      *)

Left(i, e)  == tris[i].n[Third(e, 2)]
Right(i, e) == tris[i].n[Third(e, 1)]
FarLeft(i, e)  == tris[Beyond(i, e)].n[Third(Shared(i, e), 1)]
FarRight(i, e) == tris[Beyond(i, e)].n[Third(Shared(i, e), 2)]
FirstHalf(i, e) ==
  [v |-> <<Apex(i, e), A(i, e), Opp(i, e)>>, n |-> <<Left(i, e), FarLeft(i, e), Beyond(i, e)>>]
SecondHalf(i, e) ==
  [v |-> <<Apex(i, e), Opp(i, e), B(i, e)>>, n |-> <<i, FarRight(i, e), Right(i, e)>>]
Halved(i, e) == [[tris EXCEPT ![i] = FirstHalf(i, e)] EXCEPT ![Beyond(i, e)] = SecondHalf(i, e)]
Once(i, e)   == Relink(Halved(i, e), Left(i, e), Apex(i, e), A(i, e), i)
Twice(i, e)  == Relink(Once(i, e), FarLeft(i, e), A(i, e), Opp(i, e), i)
Thrice(i, e) == Relink(Twice(i, e), FarRight(i, e), Opp(i, e), B(i, e), Beyond(i, e))

(* Flip sets the halves, then the four neighbours around them in turn.      *)
LEMMA FlipUnfolds ==
  ASSUME NEW i, NEW e
  PROVE  Flip(i, e) = Relink(Thrice(i, e), Right(i, e), B(i, e), Apex(i, e), Beyond(i, e))
BY DEF Flip, Halves, Thrice, Twice, Once, Halved, FirstHalf, SecondHalf, Left, Right, FarLeft, FarRight,
       A, B, Apex, Beyond, Shared, Opp

(* The halves, in the place of the two triangles.                           *)
HalvesPlaced(np, nt, i, e) ==
  /\ Halved(i, e) \in Seq(Triangles(np, nt)) /\ Len(Halved(i, e)) = nt
  /\ Left(i, e) \in 0..nt /\ Right(i, e) \in 0..nt
  /\ FarLeft(i, e) \in 0..nt /\ FarRight(i, e) \in 0..nt
  /\ \A k \in 1..nt : Halved(i, e)[k] = IF k = i THEN FirstHalf(i, e)
                                        ELSE IF k = Beyond(i, e) THEN SecondHalf(i, e)
                                        ELSE tris[k]

(* Flip puts its halves there.                                              *)
LEMMA HalvedIs ==
  ASSUME NEW np \in Nat, NEW nt \in Nat, MeshIs(np, nt), PointsAre(np),
         NEW i \in 1..nt, NEW e \in 1..3, Flippable(i, e)
  PROVE  HalvesPlaced(np, nt, i, e)
<1>q. Quadrilateral(np, nt, i, e)
  BY FlipParts
<1>1. /\ Beyond(i, e) \in 1..nt /\ Beyond(i, e) # i /\ Shared(i, e) \in 1..3
      /\ A(i, e) \in 1..np /\ B(i, e) \in 1..np /\ Apex(i, e) \in 1..np /\ Opp(i, e) \in 1..np
  BY <1>q DEF Quadrilateral
<1>2. /\ Left(i, e) \in 0..nt /\ Right(i, e) \in 0..nt
      /\ FarLeft(i, e) \in 0..nt /\ FarRight(i, e) \in 0..nt
  <2>1. /\ Third(e, 1) \in 1..3 /\ Third(e, 2) \in 1..3
        /\ Third(Shared(i, e), 1) \in 1..3 /\ Third(Shared(i, e), 2) \in 1..3
    BY <1>1, ThirdIs
  <2> QED
    BY <1>1, <2>1, PartsOf DEF Left, Right, FarLeft, FarRight
<1> DEFINE x == FirstHalf(i, e)
           y == SecondHalf(i, e)
           j == Beyond(i, e)
<1>3. x \in Triangles(np, nt)
  BY <1>1, <1>2 DEF FirstHalf, Triangles
<1>4. y \in Triangles(np, nt)
  BY <1>1, <1>2 DEF SecondHalf, Triangles
<1>5. Halved(i, e) = [[tris EXCEPT ![i] = x] EXCEPT ![j] = y]
  BY DEF Halved
<1>6. j \in 1..nt /\ j # i
  BY <1>1
<1> HIDE DEF x, y, j
<1>7. tris \in Seq(Triangles(np, nt)) /\ Len(tris) = nt
  BY DEF MeshIs
<1>8. /\ Halved(i, e) \in Seq(Triangles(np, nt)) /\ Len(Halved(i, e)) = nt
      /\ \A k \in 1..nt : Halved(i, e)[k] = IF k = i THEN x ELSE IF k = j THEN y ELSE tris[k]
  BY <1>3, <1>4, <1>5, <1>6, <1>7
<1> QED
  BY <1>2, <1>8 DEF HalvesPlaced, x, y, j

(* A flip keeps the triangles but for those two, which are the halves.      *)
LEMMA FlipShape ==
  ASSUME NEW np \in Nat, NEW nt \in Nat, MeshIs(np, nt), PointsAre(np),
         NEW i \in 1..nt, NEW e \in 1..3, Flippable(i, e)
  PROVE  /\ Flip(i, e) \in Seq(Triangles(np, nt)) /\ Len(Flip(i, e)) = nt
         /\ \A k \in 1..nt : Flip(i, e)[k].v = Halved(i, e)[k].v
<1>1. /\ Halved(i, e) \in Seq(Triangles(np, nt)) /\ Len(Halved(i, e)) = nt
      /\ Left(i, e) \in 0..nt /\ Right(i, e) \in 0..nt
      /\ FarLeft(i, e) \in 0..nt /\ FarRight(i, e) \in 0..nt
      /\ Beyond(i, e) \in 0..nt
  <2>1. Beyond(i, e) \in 1..nt
    BY FlipParts DEF Quadrilateral
  <2> QED
    BY <2>1, HalvedIs DEF HalvesPlaced
<1>2. /\ Once(i, e) \in Seq(Triangles(np, nt)) /\ Len(Once(i, e)) = nt
      /\ \A k \in 1..nt : Once(i, e)[k].v = Halved(i, e)[k].v
  BY <1>1, RelinkShape DEF Once
<1>3. /\ Twice(i, e) \in Seq(Triangles(np, nt)) /\ Len(Twice(i, e)) = nt
      /\ \A k \in 1..nt : Twice(i, e)[k].v = Once(i, e)[k].v
  BY <1>2, RelinkShape DEF Twice
<1>4. /\ Thrice(i, e) \in Seq(Triangles(np, nt)) /\ Len(Thrice(i, e)) = nt
      /\ \A k \in 1..nt : Thrice(i, e)[k].v = Twice(i, e)[k].v
  BY <1>1, <1>3, RelinkShape DEF Thrice
<1>5. /\ Flip(i, e) \in Seq(Triangles(np, nt)) /\ Len(Flip(i, e)) = nt
      /\ \A k \in 1..nt : Flip(i, e)[k].v = Thrice(i, e)[k].v
  BY <1>1, <1>4, RelinkShape, FlipUnfolds
<1> QED
  BY <1>2, <1>3, <1>4, <1>5

------------------------------------------------------------------------------
(* Links.                                                                   *)

AllCornered(ts) == \A i \in DOMAIN ts : Cornered(ts[i])
WellLinked(ts) == \A i \in DOMAIN ts, e \in 1..3 : ts[i].n[e] # 0 => LinksBack(ts, i, e)

(* The neighbour across an edge is another triangle, which runs it back.    *)
LEMMA NeighbourIs ==
  ASSUME NEW np \in Nat, NEW nt \in Nat, MeshIs(np, nt), AllCornered(tris), WellLinked(tris),
         NEW i \in 1..nt, NEW e \in 1..3, tris[i].n[e] # 0
  PROVE  /\ tris[i].n[e] \in 1..nt /\ tris[i].n[e] # i
         /\ \E h \in 1..3 : /\ Edge(tris[tris[i].n[e]], h) = Reversed(Edge(tris[i], e))
                            /\ tris[tris[i].n[e]].n[h] = i
<1> DEFINE m == tris[i].n[e]
<1>1. m \in 1..nt
  BY PartsOf
<1>2. i \in DOMAIN tris /\ Cornered(tris[i])
  BY DEF MeshIs, AllCornered
<1>3. PICK h \in 1..3 : Edge(tris[m], h) = Reversed(Edge(tris[i], e)) /\ tris[m].n[h] = i
  BY <1>2 DEF WellLinked, LinksBack
<1> HIDE DEF m
<1>4. m # i
  <2> SUFFICES ASSUME m = i PROVE FALSE
    OBVIOUS
  <2> DEFINE x == tris[i].v[e]
             y == tris[i].v[Third(e, 1)]
             z == tris[i].v[Third(e, 2)]
  <2>1. x # y /\ x # z /\ y # z
    BY <1>2, ThirdIs DEF Cornered
  <2>2. h = e \/ h = Third(e, 1) \/ h = Third(e, 2)
    BY ThirdIs
  <2>3. Edge(tris[i], e) = <<x, y>> /\ Edge(tris[i], Third(e, 1)) = <<y, z>> /\ Edge(tris[i], Third(e, 2)) = <<z, x>>
    BY EdgesAround
  <2> HIDE DEF x, y, z
  <2>4. Edge(tris[i], h) = <<y, x>>
    BY <1>3, <2>3 DEF Reversed
  <2> QED
    BY <2>1, <2>2, <2>3, <2>4
<1> QED
  BY <1>1, <1>3, <1>4 DEF m

(* Around a quadrilateral that is flipped, the four neighbours are others   *)
(* than the two triangles, and link to them.                                *)
RunsBack(m, x, y, k) ==
  m # 0 => \E h \in 1..3 : Edge(tris[m], h) = <<x, y>> /\ tris[m].n[h] = k
Surrounded(i, e) ==
  LET i2 == Beyond(i, e)
  IN /\ {Left(i, e), Right(i, e), FarLeft(i, e), FarRight(i, e)} \cap {i, i2} = {}
     /\ RunsBack(Left(i, e), A(i, e), Apex(i, e), i)
     /\ RunsBack(Right(i, e), Apex(i, e), B(i, e), i)
     /\ RunsBack(FarLeft(i, e), Opp(i, e), A(i, e), i2)
     /\ RunsBack(FarRight(i, e), B(i, e), Opp(i, e), i2)

(* The same, for an edge whose ends are known.                              *)
LEMMA AcrossRunsBack ==
  ASSUME NEW np \in Nat, NEW nt \in Nat, MeshIs(np, nt), AllCornered(tris), WellLinked(tris),
         NEW i \in 1..nt, NEW e \in 1..3, NEW x, NEW y, Edge(tris[i], e) = <<y, x>>
  PROVE  RunsBack(tris[i].n[e], x, y, i) /\ tris[i].n[e] # i
<1>1. CASE tris[i].n[e] = 0
  <2>1. i # 0
    OBVIOUS
  <2> QED
    BY <1>1, <2>1 DEF RunsBack
<1>2. CASE tris[i].n[e] # 0
  <2>1. /\ tris[i].n[e] # i
        /\ \E h \in 1..3 : /\ Edge(tris[tris[i].n[e]], h) = Reversed(Edge(tris[i], e))
                           /\ tris[tris[i].n[e]].n[h] = i
    BY <1>2, NeighbourIs
  <2>2. Reversed(Edge(tris[i], e)) = <<x, y>>
    BY DEF Reversed
  <2> QED
    BY <2>1, <2>2 DEF RunsBack
<1> QED
  BY <1>1, <1>2

(* If the links agree, no neighbour of the quadrilateral is one of its      *)
(* halves, and each of them points back.                                    *)
LEMMA NeighboursApart ==
  ASSUME NEW np \in Nat, NEW nt \in Nat, MeshIs(np, nt), PointsAre(np),
         AllCornered(tris), WellLinked(tris),
         NEW i \in 1..nt, NEW e \in 1..3, Flippable(i, e)
  PROVE  Surrounded(i, e)
<1> DEFINE a    == A(i, e)
           b    == B(i, e)
           apex == Apex(i, e)
           j    == Beyond(i, e)
           f    == Shared(i, e)
           opp  == Opp(i, e)
<1>q. Quadrilateral(np, nt, i, e)
  BY FlipParts
<1>1. /\ j \in 1..nt /\ j # i /\ f \in 1..3
      /\ a # b /\ a # apex /\ a # opp /\ b # apex /\ b # opp /\ apex # opp
  BY <1>q DEF Quadrilateral
<1>2. /\ Edge(tris[i], e) = <<a, b>> /\ Edge(tris[i], Third(e, 1)) = <<b, apex>>
      /\ Edge(tris[i], Third(e, 2)) = <<apex, a>>
  BY FlipEdges
<1>3. /\ Edge(tris[j], f) = <<b, a>>
      /\ Edge(tris[j], Third(f, 1)) = <<a, opp>> /\ Edge(tris[j], Third(f, 2)) = <<opp, b>>
  BY FlipEdges
<1>4. /\ Third(e, 1) \in 1..3 /\ Third(e, 2) \in 1..3 /\ Third(f, 1) \in 1..3 /\ Third(f, 2) \in 1..3
      /\ \A h \in 1..3 : h = e \/ h = Third(e, 1) \/ h = Third(e, 2)
      /\ \A h \in 1..3 : h = f \/ h = Third(f, 1) \/ h = Third(f, 2)
  BY <1>1, ThirdIs
<1>5. /\ Left(i, e) = tris[i].n[Third(e, 2)] /\ Right(i, e) = tris[i].n[Third(e, 1)]
      /\ FarLeft(i, e) = tris[j].n[Third(f, 1)] /\ FarRight(i, e) = tris[j].n[Third(f, 2)]
  BY DEF Left, Right, FarLeft, FarRight
<1>j. j \in 1..nt
  BY <1>1
<1> HIDE DEF a, b, apex, j, f, opp
<1>6. RunsBack(Left(i, e), a, apex, i) /\ Left(i, e) # i
  <2>1. Third(e, 2) \in 1..3 /\ Edge(tris[i], Third(e, 2)) = <<apex, a>>
    BY <1>2, <1>4
  <2>2. RunsBack(tris[i].n[Third(e, 2)], a, apex, i) /\ tris[i].n[Third(e, 2)] # i
    BY <1>j, <2>1, AcrossRunsBack
  <2> QED
    BY <1>5, <2>2
<1>7. RunsBack(Right(i, e), apex, b, i) /\ Right(i, e) # i
  <2>1. Third(e, 1) \in 1..3 /\ Edge(tris[i], Third(e, 1)) = <<b, apex>>
    BY <1>2, <1>4
  <2>2. RunsBack(tris[i].n[Third(e, 1)], apex, b, i) /\ tris[i].n[Third(e, 1)] # i
    BY <1>j, <2>1, AcrossRunsBack
  <2> QED
    BY <1>5, <2>2
<1>8. RunsBack(FarLeft(i, e), opp, a, j) /\ FarLeft(i, e) # j
  <2>1. Third(f, 1) \in 1..3 /\ Edge(tris[j], Third(f, 1)) = <<a, opp>>
    BY <1>3, <1>4
  <2>2. RunsBack(tris[j].n[Third(f, 1)], opp, a, j) /\ tris[j].n[Third(f, 1)] # j
    BY <1>j, <2>1, AcrossRunsBack
  <2> QED
    BY <1>5, <2>2
<1>9. RunsBack(FarRight(i, e), b, opp, j) /\ FarRight(i, e) # j
  <2>1. Third(f, 2) \in 1..3 /\ Edge(tris[j], Third(f, 2)) = <<opp, b>>
    BY <1>3, <1>4
  <2>2. RunsBack(tris[j].n[Third(f, 2)], b, opp, j) /\ tris[j].n[Third(f, 2)] # j
    BY <1>j, <2>1, AcrossRunsBack
  <2> QED
    BY <1>5, <2>2
<1>10. \A h \in 1..3 : /\ Edge(tris[j], h) # <<a, apex>> /\ Edge(tris[j], h) # <<apex, b>>
                       /\ Edge(tris[i], h) # <<opp, a>> /\ Edge(tris[i], h) # <<b, opp>>
  BY <1>1, <1>2, <1>3, <1>4
<1>11. Left(i, e) # j /\ Right(i, e) # j /\ FarLeft(i, e) # i /\ FarRight(i, e) # i
  <2>1. i # 0 /\ j # 0
    BY <1>1
  <2> QED
    BY <1>6, <1>7, <1>8, <1>9, <1>10, <2>1 DEF RunsBack
<1> QED
  BY <1>6, <1>7, <1>8, <1>9, <1>11 DEF Surrounded, a, b, apex, j, opp

(* What a flip leaves: the halves linked to the four neighbours and to each *)
(* other, the neighbours linked to the halves, and no other link changed.   *)
Relinked(i, e, k, g) ==
  CASE k = Left(i, e) /\ Edge(tris[k], g) = <<A(i, e), Apex(i, e)>> -> i
    [] k = FarLeft(i, e) /\ Edge(tris[k], g) = <<Opp(i, e), A(i, e)>> -> i
    [] k = Right(i, e) /\ Edge(tris[k], g) = <<Apex(i, e), B(i, e)>> -> Beyond(i, e)
    [] k = FarRight(i, e) /\ Edge(tris[k], g) = <<B(i, e), Opp(i, e)>> -> Beyond(i, e)
    [] OTHER -> tris[k].n[g]
FlippedTo(ts, np, nt, i, e) ==
  LET j == Beyond(i, e)
  IN /\ ts \in Seq(Triangles(np, nt)) /\ Len(ts) = nt
     /\ ts[i].v = <<Apex(i, e), A(i, e), Opp(i, e)>>
     /\ ts[j].v = <<Apex(i, e), Opp(i, e), B(i, e)>>
     /\ \A k \in (1..nt) \ {i, j} : ts[k].v = tris[k].v
     /\ ts[i].n[1] = Left(i, e) /\ ts[i].n[2] = FarLeft(i, e) /\ ts[i].n[3] = j
     /\ ts[j].n[1] = i /\ ts[j].n[2] = FarRight(i, e) /\ ts[j].n[3] = Right(i, e)
     /\ \A k \in (1..nt) \ {i, j}, g \in 1..3 : ts[k].n[g] = Relinked(i, e, k, g)

(* Flip gives those triangles and those neighbours.                         *)
LEMMA FlipIs ==
  ASSUME NEW np \in Nat, NEW nt \in Nat, MeshIs(np, nt), PointsAre(np),
         AllCornered(tris), WellLinked(tris),
         NEW i \in 1..nt, NEW e \in 1..3, Flippable(i, e)
  PROVE  FlippedTo(Flip(i, e), np, nt, i, e)
<1> DEFINE a    == A(i, e)
           b    == B(i, e)
           apex == Apex(i, e)
           j    == Beyond(i, e)
           opp  == Opp(i, e)
           l    == Left(i, e)
           r    == Right(i, e)
           fl   == FarLeft(i, e)
           fr   == FarRight(i, e)
           s1   == Halved(i, e)
           s2   == Once(i, e)
           s3   == Twice(i, e)
           s4   == Thrice(i, e)
           s5   == Flip(i, e)
<1>q. Quadrilateral(np, nt, i, e)
  BY FlipParts
<1>s. Surrounded(i, e)
  BY NeighboursApart
<1>1. j \in 1..nt /\ j # i /\ a # b /\ a # apex /\ a # opp /\ b # apex /\ b # opp /\ apex # opp
  BY <1>q DEF Quadrilateral
<1>2. /\ l # i /\ l # j /\ r # i /\ r # j /\ fl # i /\ fl # j /\ fr # i /\ fr # j
      /\ l # 0 => \E h \in 1..3 : Edge(tris[l], h) = <<a, apex>>
      /\ fl # 0 => \E h \in 1..3 : Edge(tris[fl], h) = <<opp, a>>
      /\ fr # 0 => \E h \in 1..3 : Edge(tris[fr], h) = <<b, opp>>
      /\ r # 0 => \E h \in 1..3 : Edge(tris[r], h) = <<apex, b>>
  BY <1>s DEF Surrounded, RunsBack
<1>3. /\ s1 \in Seq(Triangles(np, nt)) /\ Len(s1) = nt
      /\ l \in 0..nt /\ r \in 0..nt /\ fl \in 0..nt /\ fr \in 0..nt
      /\ \A k \in 1..nt : s1[k] = IF k = i THEN FirstHalf(i, e)
                                  ELSE IF k = j THEN SecondHalf(i, e) ELSE tris[k]
  <2>1. HalvesPlaced(np, nt, i, e)
    BY HalvedIs
  <2> QED
    BY <2>1 DEF HalvesPlaced
<1>4. /\ s2 = Relink(s1, l, apex, a, i) /\ s3 = Relink(s2, fl, a, opp, i)
      /\ s4 = Relink(s3, fr, opp, b, j) /\ s5 = Relink(s4, r, b, apex, j)
  BY FlipUnfolds DEF Once, Twice, Thrice
<1>5. /\ s1[i].v = <<apex, a, opp>> /\ s1[j].v = <<apex, opp, b>>
      /\ s1[i].n[1] = l /\ s1[i].n[2] = fl /\ s1[i].n[3] = j
      /\ s1[j].n[1] = i /\ s1[j].n[2] = fr /\ s1[j].n[3] = r
  BY <1>1, <1>3 DEF FirstHalf, SecondHalf
<1>6. \A k \in (1..nt) \ {i, j} : s1[k] = tris[k] /\ Cornered(tris[k])
  BY <1>3 DEF MeshIs, AllCornered
<1> HIDE DEF a, b, apex, j, opp, l, r, fl, fr, s1, s2, s3, s4, s5
<1>7. RelinkedTo(s2, s1, np, nt, l, a, apex, i)
  <2>1. l # 0 => Cornered(s1[l]) /\ \E h \in 1..3 : Edge(s1[l], h) = <<a, apex>>
    BY <1>2, <1>3, <1>6, SameCorners
  <2>2. s1 \in Seq(Triangles(np, nt)) /\ Len(s1) = nt /\ l \in 0..nt /\ i \in 0..nt
    BY <1>1, <1>3
  <2> QED
    BY <1>4, <2>1, <2>2, RelinkTo
<1>8. /\ s2 \in Seq(Triangles(np, nt)) /\ Len(s2) = nt
       /\ \A k \in 1..nt : s2[k].v = s1[k].v
  BY <1>7 DEF RelinkedTo
<1>9. RelinkedTo(s3, s2, np, nt, fl, opp, a, i)
  <2>1. fl # 0 => Cornered(s2[fl]) /\ \E h \in 1..3 : Edge(s2[fl], h) = <<opp, a>>
    BY <1>2, <1>3, <1>6, <1>8, SameCorners
  <2>2. s2 \in Seq(Triangles(np, nt)) /\ Len(s2) = nt /\ fl \in 0..nt /\ i \in 0..nt
    BY <1>1, <1>3, <1>8
  <2> QED
    BY <1>4, <2>1, <2>2, RelinkTo
<1>10. /\ s3 \in Seq(Triangles(np, nt)) /\ Len(s3) = nt
       /\ \A k \in 1..nt : s3[k].v = s1[k].v
  BY <1>9, <1>8 DEF RelinkedTo
<1>11. RelinkedTo(s4, s3, np, nt, fr, b, opp, j)
  <2>1. fr # 0 => Cornered(s3[fr]) /\ \E h \in 1..3 : Edge(s3[fr], h) = <<b, opp>>
    BY <1>2, <1>3, <1>6, <1>10, SameCorners
  <2>2. s3 \in Seq(Triangles(np, nt)) /\ Len(s3) = nt /\ fr \in 0..nt /\ j \in 0..nt
    BY <1>1, <1>3, <1>10
  <2> QED
    BY <1>4, <2>1, <2>2, RelinkTo
<1>12. /\ s4 \in Seq(Triangles(np, nt)) /\ Len(s4) = nt
       /\ \A k \in 1..nt : s4[k].v = s1[k].v
  BY <1>11, <1>10 DEF RelinkedTo
<1>13. RelinkedTo(s5, s4, np, nt, r, apex, b, j)
  <2>1. r # 0 => Cornered(s4[r]) /\ \E h \in 1..3 : Edge(s4[r], h) = <<apex, b>>
    BY <1>2, <1>3, <1>6, <1>12, SameCorners
  <2>2. s4 \in Seq(Triangles(np, nt)) /\ Len(s4) = nt /\ r \in 0..nt /\ j \in 0..nt
    BY <1>1, <1>3, <1>12
  <2> QED
    BY <1>4, <2>1, <2>2, RelinkTo
<1>14. /\ s5 \in Seq(Triangles(np, nt)) /\ Len(s5) = nt
       /\ \A k \in 1..nt : s5[k].v = s1[k].v
  BY <1>13, <1>12 DEF RelinkedTo
<1>15. \A k \in 1..nt, g \in 1..3 :
         /\ Edge(s2[k], g) = Edge(s1[k], g)
         /\ Edge(s3[k], g) = Edge(s1[k], g)
         /\ Edge(s4[k], g) = Edge(s1[k], g)
  BY <1>8, <1>10, <1>12, SameCorners
<1>16. \A k \in 1..nt, g \in 1..3 :
         s5[k].n[g] = IF k = r /\ Edge(s1[k], g) = <<apex, b>> THEN j
                      ELSE IF k = fr /\ Edge(s1[k], g) = <<b, opp>> THEN j
                      ELSE IF k = fl /\ Edge(s1[k], g) = <<opp, a>> THEN i
                      ELSE IF k = l /\ Edge(s1[k], g) = <<a, apex>> THEN i
                      ELSE s1[k].n[g]
  BY <1>7, <1>9, <1>11, <1>13, <1>15 DEF RelinkedTo
<1>17. /\ s5[i].n[1] = l /\ s5[i].n[2] = fl /\ s5[i].n[3] = j
       /\ s5[j].n[1] = i /\ s5[j].n[2] = fr /\ s5[j].n[3] = r
  BY <1>1, <1>2, <1>5, <1>16
<1>18. \A k \in (1..nt) \ {i, j}, g \in 1..3 : s5[k].n[g] = Relinked(i, e, k, g)
  <2> SUFFICES ASSUME NEW k \in (1..nt) \ {i, j}, NEW g \in 1..3 PROVE s5[k].n[g] = Relinked(i, e, k, g)
    OBVIOUS
  <2>1. s1[k] = tris[k]
    BY <1>6
  <2>2. <<a, apex>> # <<opp, a>> /\ <<a, apex>> # <<apex, b>> /\ <<a, apex>> # <<b, opp>>
        /\ <<opp, a>> # <<apex, b>> /\ <<opp, a>> # <<b, opp>> /\ <<apex, b>> # <<b, opp>>
    BY <1>1
  <2>3. Relinked(i, e, k, g) = IF k = l /\ Edge(tris[k], g) = <<a, apex>> THEN i
                               ELSE IF k = fl /\ Edge(tris[k], g) = <<opp, a>> THEN i
                               ELSE IF k = r /\ Edge(tris[k], g) = <<apex, b>> THEN j
                               ELSE IF k = fr /\ Edge(tris[k], g) = <<b, opp>> THEN j
                               ELSE tris[k].n[g]
    BY <2>2 DEF Relinked, a, b, apex, j, opp, l, r, fl, fr
  <2> QED
    BY <1>16, <2>1, <2>2, <2>3
<1>19. \A k \in (1..nt) \ {i, j} : s5[k].v = tris[k].v
  BY <1>6, <1>14
<1>20. s5[i].v = <<apex, a, opp>> /\ s5[j].v = <<apex, opp, b>>
  BY <1>1, <1>5, <1>14
<1> QED
  BY <1>14, <1>17, <1>18, <1>19, <1>20 DEF FlippedTo, a, b, apex, j, opp, l, r, fl, fr, s5

(* A flip keeps the corners of triangles apart and the links mutual.        *)
LEMMA FlipKeepsLinks ==
  ASSUME NEW np \in Nat, NEW nt \in Nat, MeshIs(np, nt), PointsAre(np),
         AllCornered(tris), WellLinked(tris),
         NEW i \in 1..nt, NEW e \in 1..3, Flippable(i, e)
  PROVE  AllCornered(Flip(i, e)) /\ WellLinked(Flip(i, e))
<1> DEFINE a    == A(i, e)
           b    == B(i, e)
           apex == Apex(i, e)
           j    == Beyond(i, e)
           f    == Shared(i, e)
           opp  == Opp(i, e)
           l    == Left(i, e)
           r    == Right(i, e)
           fl   == FarLeft(i, e)
           fr   == FarRight(i, e)
           us   == Flip(i, e)
<1>q. Quadrilateral(np, nt, i, e)
  BY FlipParts
<1>1. /\ j \in 1..nt /\ j # i /\ f \in 1..3
      /\ a # b /\ a # apex /\ a # opp /\ b # apex /\ b # opp /\ apex # opp
  BY <1>q DEF Quadrilateral
<1>2. /\ Edge(tris[i], e) = <<a, b>> /\ Edge(tris[i], Third(e, 1)) = <<b, apex>>
      /\ Edge(tris[i], Third(e, 2)) = <<apex, a>>
      /\ Edge(tris[j], f) = <<b, a>>
      /\ Edge(tris[j], Third(f, 1)) = <<a, opp>> /\ Edge(tris[j], Third(f, 2)) = <<opp, b>>
  <2>1. /\ Edge(tris[i], e) = <<a, b>> /\ Edge(tris[i], Third(e, 1)) = <<b, apex>>
        /\ Edge(tris[i], Third(e, 2)) = <<apex, a>>
    BY FlipEdges
  <2>2. /\ Edge(tris[j], f) = <<b, a>>
        /\ Edge(tris[j], Third(f, 1)) = <<a, opp>> /\ Edge(tris[j], Third(f, 2)) = <<opp, b>>
    BY FlipEdges
  <2> QED
    BY <2>1, <2>2
<1>3. /\ tris[i].n[e] = j /\ tris[i].n[Third(e, 1)] = r /\ tris[i].n[Third(e, 2)] = l
      /\ tris[j].n[Third(f, 1)] = fl /\ tris[j].n[Third(f, 2)] = fr
  <2>1. tris[i].n[e] = j
    BY DEF Beyond
  <2>2. tris[i].n[Third(e, 1)] = r /\ tris[i].n[Third(e, 2)] = l
    BY DEF Left, Right
  <2>3. tris[j].n[Third(f, 1)] = fl /\ tris[j].n[Third(f, 2)] = fr
    BY DEF FarLeft, FarRight
  <2> QED
    BY <2>1, <2>2, <2>3
<1>s. Surrounded(i, e) /\ HalvesPlaced(np, nt, i, e)
  BY NeighboursApart, HalvedIs
<1>t. FlippedTo(us, np, nt, i, e)
  BY FlipIs
<1>4. /\ RunsBack(l, a, apex, i) /\ RunsBack(r, apex, b, i)
      /\ RunsBack(fl, opp, a, j) /\ RunsBack(fr, b, opp, j)
      /\ l \in (0..nt) \ {i, j} /\ r \in (0..nt) \ {i, j}
      /\ fl \in (0..nt) \ {i, j} /\ fr \in (0..nt) \ {i, j}
  BY <1>s DEF Surrounded, HalvesPlaced
<1>5. /\ us \in Seq(Triangles(np, nt)) /\ Len(us) = nt
      /\ us[i].v = <<apex, a, opp>> /\ us[j].v = <<apex, opp, b>>
      /\ \A k \in (1..nt) \ {i, j} : us[k].v = tris[k].v
      /\ us[i].n[1] = l /\ us[i].n[2] = fl /\ us[i].n[3] = j
      /\ us[j].n[1] = i /\ us[j].n[2] = fr /\ us[j].n[3] = r
  BY <1>t DEF FlippedTo
<1>6. \A k \in (1..nt) \ {i, j}, g \in 1..3 :
        us[k].n[g] = IF k = l /\ Edge(tris[k], g) = <<a, apex>> THEN i
                     ELSE IF k = fl /\ Edge(tris[k], g) = <<opp, a>> THEN i
                     ELSE IF k = r /\ Edge(tris[k], g) = <<apex, b>> THEN j
                     ELSE IF k = fr /\ Edge(tris[k], g) = <<b, opp>> THEN j
                     ELSE tris[k].n[g]
  <2>1. \A k \in (1..nt) \ {i, j}, g \in 1..3 : us[k].n[g] = Relinked(i, e, k, g)
    BY <1>t DEF FlippedTo
  <2>2. \A k, g : Relinked(i, e, k, g)
                    = IF k = l /\ Edge(tris[k], g) = <<a, apex>> THEN i
                      ELSE IF k = fl /\ Edge(tris[k], g) = <<opp, a>> THEN i
                      ELSE IF k = r /\ Edge(tris[k], g) = <<apex, b>> THEN j
                      ELSE IF k = fr /\ Edge(tris[k], g) = <<b, opp>> THEN j
                      ELSE tris[k].n[g]
    <3> HIDE DEF a, b, apex, j, opp, l, r, fl, fr
    <3>1. <<a, apex>> # <<opp, a>> /\ <<a, apex>> # <<apex, b>> /\ <<a, apex>> # <<b, opp>>
          /\ <<opp, a>> # <<apex, b>> /\ <<opp, a>> # <<b, opp>> /\ <<apex, b>> # <<b, opp>>
      BY <1>1
    <3> QED
      BY <3>1 DEF Relinked, a, b, apex, j, opp, l, r, fl, fr
  <2> QED
    BY <2>1, <2>2
<1> HIDE DEF a, b, apex, j, f, opp, l, r, fl, fr, us
<1>7. \A k \in (1..nt) \ {i, j} : Cornered(tris[k]) /\ (\A g : Edge(us[k], g) = Edge(tris[k], g))
  BY <1>5, SameCorners DEF MeshIs, AllCornered
<1>8. <<a, apex>> # <<opp, a>> /\ <<a, apex>> # <<apex, b>> /\ <<a, apex>> # <<b, opp>>
      /\ <<opp, a>> # <<apex, b>> /\ <<opp, a>> # <<b, opp>> /\ <<apex, b>> # <<b, opp>>
  BY <1>1
<1>9. AllCornered(us)
  <2> SUFFICES ASSUME NEW k \in 1..nt PROVE Cornered(us[k])
    BY <1>5 DEF AllCornered
  <2>1. CASE k = i
    BY <1>1, <1>5, <2>1 DEF Cornered
  <2>2. CASE k = j
    BY <1>1, <1>5, <2>2 DEF Cornered
  <2>3. CASE k \notin {i, j}
    BY <1>5, <1>7, <2>3, SameCorners
  <2> QED
    BY <2>1, <2>2, <2>3
<1>10. /\ Edge(us[i], 1) = <<apex, a>> /\ Edge(us[i], 2) = <<a, opp>> /\ Edge(us[i], 3) = <<opp, apex>>
       /\ Edge(us[j], 1) = <<apex, opp>> /\ Edge(us[j], 2) = <<opp, b>> /\ Edge(us[j], 3) = <<b, apex>>
  BY <1>5 DEF Edge
<1>11. l # 0 => \E h \in 1..3 : Edge(us[l], h) = <<a, apex>> /\ us[l].n[h] = i
  <2> SUFFICES ASSUME l # 0
               PROVE  \E h \in 1..3 : Edge(us[l], h) = <<a, apex>> /\ us[l].n[h] = i
    OBVIOUS
  <2>1. PICK h \in 1..3 : Edge(tris[l], h) = <<a, apex>>
    BY <1>4 DEF RunsBack
  <2>2. l \in (1..nt) \ {i, j}
    BY <1>4
  <2>3. us[l].n[h] = i
    BY <1>6, <1>8, <2>1, <2>2
  <2> QED
    BY <1>7, <2>1, <2>2, <2>3
<1>12. fl # 0 => \E h \in 1..3 : Edge(us[fl], h) = <<opp, a>> /\ us[fl].n[h] = i
  <2> SUFFICES ASSUME fl # 0
               PROVE  \E h \in 1..3 : Edge(us[fl], h) = <<opp, a>> /\ us[fl].n[h] = i
    OBVIOUS
  <2>1. PICK h \in 1..3 : Edge(tris[fl], h) = <<opp, a>>
    BY <1>4 DEF RunsBack
  <2>2. fl \in (1..nt) \ {i, j}
    BY <1>4
  <2>3. us[fl].n[h] = i
    BY <1>6, <1>8, <2>1, <2>2
  <2> QED
    BY <1>7, <2>1, <2>2, <2>3
<1>13. r # 0 => \E h \in 1..3 : Edge(us[r], h) = <<apex, b>> /\ us[r].n[h] = j
  <2> SUFFICES ASSUME r # 0
               PROVE  \E h \in 1..3 : Edge(us[r], h) = <<apex, b>> /\ us[r].n[h] = j
    OBVIOUS
  <2>1. PICK h \in 1..3 : Edge(tris[r], h) = <<apex, b>>
    BY <1>4 DEF RunsBack
  <2>2. r \in (1..nt) \ {i, j}
    BY <1>4
  <2>3. us[r].n[h] = j
    BY <1>6, <1>8, <2>1, <2>2
  <2> QED
    BY <1>7, <2>1, <2>2, <2>3
<1>14. fr # 0 => \E h \in 1..3 : Edge(us[fr], h) = <<b, opp>> /\ us[fr].n[h] = j
  <2> SUFFICES ASSUME fr # 0
               PROVE  \E h \in 1..3 : Edge(us[fr], h) = <<b, opp>> /\ us[fr].n[h] = j
    OBVIOUS
  <2>1. PICK h \in 1..3 : Edge(tris[fr], h) = <<b, opp>>
    BY <1>4 DEF RunsBack
  <2>2. fr \in (1..nt) \ {i, j}
    BY <1>4
  <2>3. us[fr].n[h] = j
    BY <1>6, <1>8, <2>1, <2>2
  <2> QED
    BY <1>7, <2>1, <2>2, <2>3
<1>16. tris[j].n[f] = i
  <2>1. PICK h \in 1..3 : Edge(tris[j], h) = Reversed(Edge(tris[i], e)) /\ tris[j].n[h] = i
    <3>1. tris[i].n[e] # 0
      BY <1>1, <1>3
    <3> QED
      BY <1>3, <3>1, NeighbourIs
  <2>2. Edge(tris[j], h) = Edge(tris[j], f)
    BY <1>2, <2>1 DEF Reversed
  <2>3. Cornered(tris[j])
    BY <1>1 DEF MeshIs, AllCornered
  <2> QED
    BY <1>1, <2>1, <2>2, <2>3, EdgeHasOnePlace
<1>17. ASSUME NEW m \in (1..nt) \ {i, j}, NEW h \in 1..3
       PROVE  /\ m = l /\ Edge(tris[m], h) = <<a, apex>> => tris[m].n[h] = i
              /\ m = fl /\ Edge(tris[m], h) = <<opp, a>> => tris[m].n[h] = j
              /\ m = r /\ Edge(tris[m], h) = <<apex, b>> => tris[m].n[h] = i
              /\ m = fr /\ Edge(tris[m], h) = <<b, opp>> => tris[m].n[h] = j
  <2>1. Cornered(tris[m]) /\ m # 0
    BY <1>7
  <2> QED
    BY <1>4, <2>1, EdgeHasOnePlace DEF RunsBack
<1>15. ASSUME NEW k \in (1..nt) \ {i, j}, NEW g \in 1..3, us[k].n[g] # 0
       PROVE  LinksBack(us, k, g)
  <2>1. Edge(us[k], g) = Edge(tris[k], g)
    BY <1>7
  <2>2. CASE k = l /\ Edge(tris[k], g) = <<a, apex>>
    <3>1. us[k].n[g] = i
      BY <1>6, <2>2
    <3>2. Edge(us[i], 1) = Reversed(Edge(us[k], g)) /\ us[i].n[1] = k
      BY <1>5, <1>10, <2>1, <2>2 DEF Reversed
    <3> QED
      BY <3>1, <3>2 DEF LinksBack
  <2>3. CASE k = fl /\ Edge(tris[k], g) = <<opp, a>>
    <3>1. us[k].n[g] = i
      BY <1>6, <1>8, <2>3
    <3>2. Edge(us[i], 2) = Reversed(Edge(us[k], g)) /\ us[i].n[2] = k
      BY <1>5, <1>10, <2>1, <2>3 DEF Reversed
    <3> QED
      BY <3>1, <3>2 DEF LinksBack
  <2>4. CASE k = r /\ Edge(tris[k], g) = <<apex, b>>
    <3>1. us[k].n[g] = j
      BY <1>6, <1>8, <2>4
    <3>2. Edge(us[j], 3) = Reversed(Edge(us[k], g)) /\ us[j].n[3] = k
      BY <1>5, <1>10, <2>1, <2>4 DEF Reversed
    <3> QED
      BY <3>1, <3>2 DEF LinksBack
  <2>5. CASE k = fr /\ Edge(tris[k], g) = <<b, opp>>
    <3>1. us[k].n[g] = j
      BY <1>6, <1>8, <2>5
    <3>2. Edge(us[j], 2) = Reversed(Edge(us[k], g)) /\ us[j].n[2] = k
      BY <1>5, <1>10, <2>1, <2>5 DEF Reversed
    <3> QED
      BY <3>1, <3>2 DEF LinksBack
  <2>6. CASE /\ ~(k = l /\ Edge(tris[k], g) = <<a, apex>>) /\ ~(k = fl /\ Edge(tris[k], g) = <<opp, a>>)
             /\ ~(k = r /\ Edge(tris[k], g) = <<apex, b>>) /\ ~(k = fr /\ Edge(tris[k], g) = <<b, opp>>)
    <3> DEFINE m == tris[k].n[g]
    <3>1. us[k].n[g] = m
      BY <1>6, <2>6
    <3>2. m \in 1..nt
      BY <1>15, <3>1, PartsOf, SMTT(30)
    <3>3. PICK h \in 1..3 : Edge(tris[m], h) = Reversed(Edge(tris[k], g)) /\ tris[m].n[h] = k
      BY <1>15, <3>1, NeighbourIs
    <3>4. Edge(tris[k], g) = Reversed(Edge(tris[m], h))
      <4>1. Edge(tris[k], g) = <<tris[k].v[g], tris[k].v[(g % 3) + 1]>>
        BY DEF Edge
      <4> QED
        BY <3>3, <4>1 DEF Reversed
    <3> HIDE DEF m
    <3>5. m # i
      <4> SUFFICES ASSUME m = i PROVE FALSE
        OBVIOUS
      <4>1. h = e \/ h = Third(e, 1) \/ h = Third(e, 2)
        BY ThirdIs
      <4> QED
        BY <1>2, <1>3, <2>6, <3>3, <3>4, <4>1 DEF Reversed
    <3>6. m # j
      <4> SUFFICES ASSUME m = j PROVE FALSE
        OBVIOUS
      <4>1. h = f \/ h = Third(f, 1) \/ h = Third(f, 2)
        BY <1>1, ThirdIs
      <4> QED
        BY <1>2, <1>3, <1>16, <2>6, <3>3, <3>4, <4>1 DEF Reversed
    <3>7. us[m].n[h] = k
      <4>1. us[m].n[h] = tris[m].n[h]
        BY <1>6, <1>17, <3>2, <3>3, <3>5, <3>6
      <4> QED
        BY <3>3, <4>1
    <3>8. Edge(us[m], h) = Reversed(Edge(us[k], g))
      BY <1>7, <2>1, <3>2, <3>3, <3>5, <3>6
    <3> QED
      BY <3>1, <3>7, <3>8 DEF LinksBack
  <2> QED
    BY <2>2, <2>3, <2>4, <2>5, <2>6
<1>18. ASSUME NEW g \in 1..3, us[i].n[g] # 0 PROVE LinksBack(us, i, g)
  <2>1. CASE g = 1
    <3>1. us[i].n[g] = l /\ Edge(us[i], g) = <<apex, a>>
      BY <1>5, <1>10, <2>1
    <3>2. Reversed(Edge(us[i], g)) = <<a, apex>>
      BY <3>1 DEF Reversed
    <3>3. PICK h \in 1..3 : Edge(us[l], h) = <<a, apex>> /\ us[l].n[h] = i
      BY <1>11, <1>18, <3>1
    <3> QED
      BY <3>1, <3>2, <3>3 DEF LinksBack
  <2>2. CASE g = 2
    <3>1. us[i].n[g] = fl /\ Edge(us[i], g) = <<a, opp>>
      BY <1>5, <1>10, <2>2
    <3>2. Reversed(Edge(us[i], g)) = <<opp, a>>
      BY <3>1 DEF Reversed
    <3>3. PICK h \in 1..3 : Edge(us[fl], h) = <<opp, a>> /\ us[fl].n[h] = i
      BY <1>12, <1>18, <3>1
    <3> QED
      BY <3>1, <3>2, <3>3 DEF LinksBack
  <2>3. CASE g = 3
    <3>1. Edge(us[j], 1) = Reversed(Edge(us[i], 3)) /\ us[j].n[1] = i /\ us[i].n[3] = j
      BY <1>5, <1>10 DEF Reversed
    <3> QED
      BY <2>3, <3>1 DEF LinksBack
  <2> QED
    BY <2>1, <2>2, <2>3
<1>19. ASSUME NEW g \in 1..3, us[j].n[g] # 0 PROVE LinksBack(us, j, g)
  <2>1. CASE g = 1
    <3>1. Edge(us[i], 3) = Reversed(Edge(us[j], 1)) /\ us[i].n[3] = j /\ us[j].n[1] = i
      BY <1>5, <1>10 DEF Reversed
    <3> QED
      BY <2>1, <3>1 DEF LinksBack
  <2>2. CASE g = 2
    <3>1. us[j].n[g] = fr /\ Edge(us[j], g) = <<opp, b>>
      BY <1>5, <1>10, <2>2
    <3>2. Reversed(Edge(us[j], g)) = <<b, opp>>
      BY <3>1 DEF Reversed
    <3>3. PICK h \in 1..3 : Edge(us[fr], h) = <<b, opp>> /\ us[fr].n[h] = j
      BY <1>14, <1>19, <3>1
    <3> QED
      BY <3>1, <3>2, <3>3 DEF LinksBack
  <2>3. CASE g = 3
    <3>1. us[j].n[g] = r /\ Edge(us[j], g) = <<b, apex>>
      BY <1>5, <1>10, <2>3
    <3>2. Reversed(Edge(us[j], g)) = <<apex, b>>
      BY <3>1 DEF Reversed
    <3>3. PICK h \in 1..3 : Edge(us[r], h) = <<apex, b>> /\ us[r].n[h] = j
      BY <1>13, <1>19, <3>1
    <3> QED
      BY <3>1, <3>2, <3>3 DEF LinksBack
  <2> QED
    BY <2>1, <2>2, <2>3
<1>20. WellLinked(us)
  <2> SUFFICES ASSUME NEW k \in 1..nt, NEW g \in 1..3, us[k].n[g] # 0 PROVE LinksBack(us, k, g)
    BY <1>5 DEF WellLinked
  <2> QED
    BY <1>15, <1>18, <1>19
<1> QED
  BY <1>9, <1>20 DEF us

------------------------------------------------------------------------------
(* An insertion, in its order: three triangles in place of one, and then    *)
(* the three neighbours.                                                    *)

Spread(i) ==
  LET t == tris[i]
      n == Len(tris)
      q == Len(pts) + 1
  IN [tris EXCEPT ![i] = Tri(t.v[1], t.v[2], q, <<t.n[1], n + 1, n + 2>>)]
     \o <<Tri(t.v[2], t.v[3], q, <<t.n[2], n + 2, i>>), Tri(t.v[3], t.v[1], q, <<t.n[3], i, n + 1>>)>>
Inserted1(i) == Relink(Spread(i), tris[i].n[1], tris[i].v[1], tris[i].v[2], i)
Inserted2(i) == Relink(Inserted1(i), tris[i].n[2], tris[i].v[2], tris[i].v[3], Len(tris) + 1)
Inserted(i)  == Relink(Inserted2(i), tris[i].n[3], tris[i].v[3], tris[i].v[1], Len(tris) + 2)

(* What the insertion of a point does, if a triangle holds it.              *)
InsertedInto(p, i) ==
  /\ i \in DOMAIN tris /\ InsideTri(Corner(tris[i], 1), Corner(tris[i], 2), Corner(tris[i], 3), p)
  /\ pts' = Append(pts, p)
  /\ tris' = Inserted(i)
  /\ work' = <<<<i, 1>>, <<Len(tris) + 1, 1>>, <<Len(tris) + 2, 1>>>>

(* Insert splits one triangle that holds the point, or nothing.             *)
LEMMA InsertUnfolds ==
  ASSUME NEW np \in Nat, NEW nt \in Nat, MeshIs(np, nt), NEW p, Insert(p)
  PROVE  UNCHANGED meshVars \/ \E i \in 1..nt : InsertedInto(p, i)
<1>1. CASE Holding(p) = {}
  BY <1>1 DEF Insert
<1>2. CASE Holding(p) # {}
  <2> DEFINE i == Least(Holding(p))
  <2>1. i \in Holding(p)
    <3>1. Holding(p) \in SUBSET (1..nt)
      BY DEF Holding, MeshIs
    <3> QED
      BY <1>2, <3>1, LeastIs
  <2>2. i \in DOMAIN tris /\ InsideTri(Corner(tris[i], 1), Corner(tris[i], 2), Corner(tris[i], 3), p)
    BY <2>1 DEF Holding
  <2>3. pts' = Append(pts, p) /\ work' = <<<<i, 1>>, <<Len(tris) + 1, 1>>, <<Len(tris) + 2, 1>>>>
    BY <1>2 DEF Insert
  <2>4. tris' = Inserted(i)
    BY <1>2, Zenon DEF Insert, Inserted, Inserted2, Inserted1, Spread
  <2> HIDE DEF i
  <2>5. i \in 1..nt
    BY <2>2 DEF MeshIs
  <2> QED
    BY <2>2, <2>3, <2>4, <2>5 DEF InsertedInto
<1> QED
  BY <1>1, <1>2

(* The three, and the rest as before.                                       *)
SpreadTo(np, nt, i) ==
  LET t == tris[i]
  IN /\ Spread(i) \in Seq(Triangles(np + 1, nt + 2)) /\ Len(Spread(i)) = nt + 2
     /\ Spread(i)[i] = Tri(t.v[1], t.v[2], np + 1, <<t.n[1], nt + 1, nt + 2>>)
     /\ Spread(i)[nt + 1] = Tri(t.v[2], t.v[3], np + 1, <<t.n[2], nt + 2, i>>)
     /\ Spread(i)[nt + 2] = Tri(t.v[3], t.v[1], np + 1, <<t.n[3], i, nt + 1>>)
     /\ \A k \in (1..nt) \ {i} : Spread(i)[k] = tris[k]

(* The three triangles of a split, before their neighbours are relinked.    *)
LEMMA SpreadIs ==
  ASSUME NEW np \in Nat, NEW nt \in Nat, MeshIs(np, nt), PointsAre(np), NEW i \in 1..nt
  PROVE  SpreadTo(np, nt, i)
<1> DEFINE t == tris[i]
           x == Tri(t.v[1], t.v[2], np + 1, <<t.n[1], nt + 1, nt + 2>>)
           y == Tri(t.v[2], t.v[3], np + 1, <<t.n[2], nt + 2, i>>)
           z == Tri(t.v[3], t.v[1], np + 1, <<t.n[3], i, nt + 1>>)
           T == Triangles(np + 1, nt + 2)
<1>1. /\ t.v[1] \in 1..np /\ t.v[2] \in 1..np /\ t.v[3] \in 1..np
      /\ t.n[1] \in 0..nt /\ t.n[2] \in 0..nt /\ t.n[3] \in 0..nt
  BY PartsOf
<1>2. x \in T /\ y \in T /\ z \in T
  BY <1>1 DEF Tri, Triangles
<1>3. Spread(i) = [tris EXCEPT ![i] = x] \o <<y, z>>
  BY DEF Spread, MeshIs, PointsAre
<1>4. tris \in Seq(T) /\ Len(tris) = nt
  <2>1. \A k \in 1..nt : tris[k] \in T
    <3>1. \A k \in 1..nt : tris[k] \in Triangles(np, nt)
      BY DEF MeshIs
    <3>2. Triangles(np, nt) \subseteq T
      <4>1. [1..3 -> 1..np] \subseteq [1..3 -> 1..(np + 1)] /\ [1..3 -> 0..nt] \subseteq [1..3 -> 0..(nt + 2)]
        OBVIOUS
      <4> QED
        BY <4>1 DEF Triangles
    <3> QED
      BY <3>1, <3>2
  <2> HIDE DEF T
  <2> QED
    BY <2>1 DEF MeshIs
<1> HIDE DEF x, y, z, T
<1>5. /\ Spread(i) \in Seq(T) /\ Len(Spread(i)) = nt + 2
      /\ Spread(i)[i] = x /\ Spread(i)[nt + 1] = y /\ Spread(i)[nt + 2] = z
      /\ \A k \in (1..nt) \ {i} : Spread(i)[k] = tris[k]
  <2> DEFINE us == [tris EXCEPT ![i] = x]
  <2>1. us \in Seq(T) /\ Len(us) = nt /\ us[i] = x /\ \A k \in (1..nt) \ {i} : us[k] = tris[k]
    BY <1>2, <1>4
  <2> HIDE DEF us
  <2>2. <<y, z>> \in Seq(T) /\ Len(<<y, z>>) = 2
    BY <1>2
  <2>3. Spread(i) = us \o <<y, z>>
    BY <1>3 DEF us
  <2>4. Spread(i) \in Seq(T) /\ Len(Spread(i)) = nt + 2
    <3>1. \A v, w \in Seq(T) : v \o w \in Seq(T) /\ Len(v \o w) = Len(v) + Len(w)
      OBVIOUS
    <3> QED
      BY <2>1, <2>2, <2>3, <3>1
  <2>5. \A k \in 1..nt : Spread(i)[k] = us[k]
    BY <2>1, <2>2, <2>3
  <2>6. Spread(i)[nt + 1] = y /\ Spread(i)[nt + 2] = z
    <3>1. Spread(i)[nt + 1] = <<y, z>>[1] /\ Spread(i)[nt + 2] = <<y, z>>[2]
      BY <2>1, <2>2, <2>3
    <3> QED
      BY <3>1
  <2> QED
    BY <2>1, <2>4, <2>5, <2>6
<1> QED
  BY <1>5 DEF SpreadTo, x, y, z, T

(* An insertion keeps the triangles but for the one that it spreads.        *)
LEMMA InsertShape ==
  ASSUME NEW np \in Nat, NEW nt \in Nat, MeshIs(np, nt), PointsAre(np), NEW i \in 1..nt
  PROVE  /\ Inserted(i) \in Seq(Triangles(np + 1, nt + 2)) /\ Len(Inserted(i)) = nt + 2
         /\ \A k \in 1..(nt + 2) : Inserted(i)[k].v = Spread(i)[k].v
<1> DEFINE T == Triangles(np + 1, nt + 2)
<1>1. Spread(i) \in Seq(T) /\ Len(Spread(i)) = nt + 2 /\ Len(tris) = nt
  BY SpreadIs DEF SpreadTo, MeshIs
<1>2. np + 1 \in Nat /\ nt + 2 \in Nat /\ i \in 0..(nt + 2) /\ nt + 1 \in 0..(nt + 2) /\ nt + 2 \in 0..(nt + 2)
  OBVIOUS
<1>3. /\ Inserted1(i) \in Seq(T) /\ Len(Inserted1(i)) = nt + 2
      /\ \A k \in 1..(nt + 2) : Inserted1(i)[k].v = Spread(i)[k].v
  BY <1>1, <1>2, RelinkShape DEF Inserted1
<1>4. /\ Inserted2(i) \in Seq(T) /\ Len(Inserted2(i)) = nt + 2
      /\ \A k \in 1..(nt + 2) : Inserted2(i)[k].v = Inserted1(i)[k].v
  BY <1>1, <1>2, <1>3, RelinkShape DEF Inserted2
<1>5. /\ Inserted(i) \in Seq(T) /\ Len(Inserted(i)) = nt + 2
      /\ \A k \in 1..(nt + 2) : Inserted(i)[k].v = Inserted2(i)[k].v
  BY <1>1, <1>2, <1>4, RelinkShape DEF Inserted
<1> QED
  BY <1>3, <1>4, <1>5

(* What it leaves: the three linked to the neighbours and to each other,    *)
(* the neighbours linked to them, and no other link changed.                *)
InsertedTo(ts, np, nt, i) ==
  LET a  == tris[i].v[1]
      b  == tris[i].v[2]
      c  == tris[i].v[3]
      n1 == tris[i].n[1]
      n2 == tris[i].n[2]
      n3 == tris[i].n[3]
  IN /\ Len(ts) = nt + 2
     /\ ts[i].v = <<a, b, np + 1>> /\ ts[nt + 1].v = <<b, c, np + 1>> /\ ts[nt + 2].v = <<c, a, np + 1>>
     /\ \A k \in (1..nt) \ {i} : ts[k].v = tris[k].v
     /\ ts[i].n[1] = n1 /\ ts[i].n[2] = nt + 1 /\ ts[i].n[3] = nt + 2
     /\ ts[nt + 1].n[1] = n2 /\ ts[nt + 1].n[2] = nt + 2 /\ ts[nt + 1].n[3] = i
     /\ ts[nt + 2].n[1] = n3 /\ ts[nt + 2].n[2] = i /\ ts[nt + 2].n[3] = nt + 1
     /\ \A k \in (1..nt) \ {i}, g \in 1..3 :
          ts[k].n[g] = IF k = n3 /\ Edge(tris[k], g) = <<a, c>> THEN nt + 2
                       ELSE IF k = n2 /\ Edge(tris[k], g) = <<c, b>> THEN nt + 1
                       ELSE IF k = n1 /\ Edge(tris[k], g) = <<b, a>> THEN i
                       ELSE tris[k].n[g]

(* The neighbours of a triangle are others, and link to it.                 *)
LEMMA Bordered ==
  ASSUME NEW np \in Nat, NEW nt \in Nat, MeshIs(np, nt), AllCornered(tris), WellLinked(tris), NEW i \in 1..nt
  PROVE  /\ RunsBack(tris[i].n[1], tris[i].v[2], tris[i].v[1], i) /\ tris[i].n[1] # i
         /\ RunsBack(tris[i].n[2], tris[i].v[3], tris[i].v[2], i) /\ tris[i].n[2] # i
         /\ RunsBack(tris[i].n[3], tris[i].v[1], tris[i].v[3], i) /\ tris[i].n[3] # i
<1>1. /\ Edge(tris[i], 1) = <<tris[i].v[1], tris[i].v[2]>> /\ Edge(tris[i], 2) = <<tris[i].v[2], tris[i].v[3]>>
      /\ Edge(tris[i], 3) = <<tris[i].v[3], tris[i].v[1]>>
  BY DEF Edge
<1> QED
  BY <1>1, AcrossRunsBack

(* Insert gives those triangles and those neighbours.                       *)
LEMMA InsertedIs ==
  ASSUME NEW np \in Nat, NEW nt \in Nat, MeshIs(np, nt), PointsAre(np),
         AllCornered(tris), WellLinked(tris), NEW i \in 1..nt
  PROVE  InsertedTo(Inserted(i), np, nt, i)
<1> DEFINE a  == tris[i].v[1]
           b  == tris[i].v[2]
           c  == tris[i].v[3]
           n1 == tris[i].n[1]
           n2 == tris[i].n[2]
           n3 == tris[i].n[3]
           s1 == Spread(i)
           s2 == Inserted1(i)
           s3 == Inserted2(i)
           s4 == Inserted(i)
<1>s. SpreadTo(np, nt, i)
  BY SpreadIs
<1>1. /\ n1 \in 0..nt /\ n2 \in 0..nt /\ n3 \in 0..nt
      /\ a \in 1..np /\ b \in 1..np /\ c \in 1..np
      /\ a # b /\ a # c /\ b # c
  <2>1. Cornered(tris[i])
    BY DEF MeshIs, AllCornered
  <2>2. tris[i].v[1] # tris[i].v[2] /\ tris[i].v[1] # tris[i].v[3] /\ tris[i].v[2] # tris[i].v[3]
    BY <2>1 DEF Cornered
  <2> QED
    BY <2>2, PartsOf
<1>2. /\ n1 # i /\ n2 # i /\ n3 # i
      /\ n1 # 0 => \E h \in 1..3 : Edge(tris[n1], h) = <<b, a>>
      /\ n2 # 0 => \E h \in 1..3 : Edge(tris[n2], h) = <<c, b>>
      /\ n3 # 0 => \E h \in 1..3 : Edge(tris[n3], h) = <<a, c>>
  <2>1. /\ RunsBack(n1, b, a, i) /\ n1 # i
        /\ RunsBack(n2, c, b, i) /\ n2 # i
        /\ RunsBack(n3, a, c, i) /\ n3 # i
    BY Bordered
  <2> QED
    BY <2>1 DEF RunsBack
<1>3. s1 \in Seq(Triangles(np + 1, nt + 2)) /\ Len(s1) = nt + 2
  BY <1>s DEF SpreadTo
<1>4. /\ s2 = Relink(s1, n1, a, b, i) /\ s3 = Relink(s2, n2, b, c, nt + 1)
      /\ s4 = Relink(s3, n3, c, a, nt + 2)
  BY DEF MeshIs, Inserted1, Inserted2, Inserted
<1>5. \A k \in (1..nt) \ {i} : s1[k] = tris[k] /\ Cornered(tris[k])
  BY <1>s DEF SpreadTo, MeshIs, AllCornered
<1>6. /\ s1[i].v = <<a, b, np + 1>> /\ s1[nt + 1].v = <<b, c, np + 1>> /\ s1[nt + 2].v = <<c, a, np + 1>>
      /\ s1[i].n[1] = n1 /\ s1[i].n[2] = nt + 1 /\ s1[i].n[3] = nt + 2
      /\ s1[nt + 1].n[1] = n2 /\ s1[nt + 1].n[2] = nt + 2 /\ s1[nt + 1].n[3] = i
      /\ s1[nt + 2].n[1] = n3 /\ s1[nt + 2].n[2] = i /\ s1[nt + 2].n[3] = nt + 1
  BY <1>s DEF SpreadTo, Tri
<1> HIDE DEF a, b, c, n1, n2, n3, s1, s2, s3, s4
<1>7. RelinkedTo(s2, s1, np + 1, nt + 2, n1, b, a, i)
  <2>1. n1 # 0 => Cornered(s1[n1]) /\ \E h \in 1..3 : Edge(s1[n1], h) = <<b, a>>
    <3>1. n1 # 0 => n1 \in (1..nt) \ {i}
      BY <1>1, <1>2
    <3> QED
      BY <1>2, <1>3, <1>5, <3>1, SameCorners
  <2>2. /\ s1 \in Seq(Triangles(np + 1, nt + 2)) /\ Len(s1) = nt + 2
        /\ n1 \in 0..(nt + 2) /\ i \in 0..(nt + 2)
    BY <1>1, <1>3
  <2>3. np + 1 \in Nat /\ nt + 2 \in Nat
    OBVIOUS
  <2> QED
    BY <1>4, <2>1, <2>2, <2>3, RelinkTo
<1>8. /\ s2 \in Seq(Triangles(np + 1, nt + 2)) /\ Len(s2) = nt + 2
      /\ \A k \in 1..(nt + 2) : s2[k].v = s1[k].v
  BY <1>7 DEF RelinkedTo
<1>9. RelinkedTo(s3, s2, np + 1, nt + 2, n2, c, b, nt + 1)
  <2>1. n2 # 0 => Cornered(s2[n2]) /\ \E h \in 1..3 : Edge(s2[n2], h) = <<c, b>>
    <3>1. n2 # 0 => n2 \in (1..nt) \ {i}
      BY <1>1, <1>2
    <3> QED
      BY <1>2, <1>3, <1>5, <3>1, <1>8, SameCorners
  <2>2. /\ s2 \in Seq(Triangles(np + 1, nt + 2)) /\ Len(s2) = nt + 2
        /\ n2 \in 0..(nt + 2) /\ nt + 1 \in 0..(nt + 2)
    BY <1>1, <1>3, <1>8
  <2>3. np + 1 \in Nat /\ nt + 2 \in Nat
    OBVIOUS
  <2> QED
    BY <1>4, <2>1, <2>2, <2>3, RelinkTo
<1>10. /\ s3 \in Seq(Triangles(np + 1, nt + 2)) /\ Len(s3) = nt + 2
      /\ \A k \in 1..(nt + 2) : s3[k].v = s1[k].v
  BY <1>9, <1>8 DEF RelinkedTo
<1>11. RelinkedTo(s4, s3, np + 1, nt + 2, n3, a, c, nt + 2)
  <2>1. n3 # 0 => Cornered(s3[n3]) /\ \E h \in 1..3 : Edge(s3[n3], h) = <<a, c>>
    <3>1. n3 # 0 => n3 \in (1..nt) \ {i}
      BY <1>1, <1>2
    <3> QED
      BY <1>2, <1>3, <1>5, <3>1, <1>10, SameCorners
  <2>2. /\ s3 \in Seq(Triangles(np + 1, nt + 2)) /\ Len(s3) = nt + 2
        /\ n3 \in 0..(nt + 2) /\ nt + 2 \in 0..(nt + 2)
    BY <1>1, <1>3, <1>10
  <2>3. np + 1 \in Nat /\ nt + 2 \in Nat
    OBVIOUS
  <2> QED
    BY <1>4, <2>1, <2>2, <2>3, RelinkTo
<1>12. /\ s4 \in Seq(Triangles(np + 1, nt + 2)) /\ Len(s4) = nt + 2
      /\ \A k \in 1..(nt + 2) : s4[k].v = s1[k].v
  BY <1>11, <1>10 DEF RelinkedTo
<1>13. \A k \in 1..(nt + 2), g \in 1..3 :
         Edge(s2[k], g) = Edge(s1[k], g) /\ Edge(s3[k], g) = Edge(s1[k], g)
  BY <1>8, <1>10, SameCorners, SMTT(20)
<1>14. \A k \in 1..(nt + 2), g \in 1..3 :
         s4[k].n[g] = IF k = n3 /\ Edge(s1[k], g) = <<a, c>> THEN nt + 2
                      ELSE IF k = n2 /\ Edge(s1[k], g) = <<c, b>> THEN nt + 1
                      ELSE IF k = n1 /\ Edge(s1[k], g) = <<b, a>> THEN i
                      ELSE s1[k].n[g]
  BY <1>7, <1>9, <1>11, <1>13 DEF RelinkedTo
<1>15. /\ s4[i].n[1] = n1 /\ s4[i].n[2] = nt + 1 /\ s4[i].n[3] = nt + 2
       /\ s4[nt + 1].n[1] = n2 /\ s4[nt + 1].n[2] = nt + 2 /\ s4[nt + 1].n[3] = i
       /\ s4[nt + 2].n[1] = n3 /\ s4[nt + 2].n[2] = i /\ s4[nt + 2].n[3] = nt + 1
  BY <1>1, <1>2, <1>6, <1>14
<1>16. \A k \in (1..nt) \ {i}, g \in 1..3 :
         s4[k].n[g] = IF k = n3 /\ Edge(tris[k], g) = <<a, c>> THEN nt + 2
                      ELSE IF k = n2 /\ Edge(tris[k], g) = <<c, b>> THEN nt + 1
                      ELSE IF k = n1 /\ Edge(tris[k], g) = <<b, a>> THEN i
                      ELSE tris[k].n[g]
  BY <1>5, <1>14
<1>17. /\ s4[i].v = <<a, b, np + 1>> /\ s4[nt + 1].v = <<b, c, np + 1>> /\ s4[nt + 2].v = <<c, a, np + 1>>
       /\ \A k \in (1..nt) \ {i} : s4[k].v = tris[k].v
  BY <1>5, <1>6, <1>12
<1> QED
  BY <1>12, <1>15, <1>16, <1>17 DEF InsertedTo, a, b, c, n1, n2, n3, s4

(* An insertion keeps the corners of triangles apart and the links mutual.  *)
LEMMA InsertKeepsLinks ==
  ASSUME NEW np \in Nat, NEW nt \in Nat, MeshIs(np, nt), PointsAre(np),
         AllCornered(tris), WellLinked(tris), NEW i \in 1..nt
  PROVE  AllCornered(Inserted(i)) /\ WellLinked(Inserted(i))
<1> DEFINE a  == tris[i].v[1]
           b  == tris[i].v[2]
           c  == tris[i].v[3]
           n1 == tris[i].n[1]
           n2 == tris[i].n[2]
           n3 == tris[i].n[3]
           us == Inserted(i)
<1>t. InsertedTo(us, np, nt, i)
  BY InsertedIs
<1>1. /\ n1 \in 0..nt /\ n2 \in 0..nt /\ n3 \in 0..nt
      /\ a \in 1..np /\ b \in 1..np /\ c \in 1..np
      /\ a # b /\ a # c /\ b # c
  <2>1. Cornered(tris[i])
    BY DEF MeshIs, AllCornered
  <2>2. tris[i].v[1] # tris[i].v[2] /\ tris[i].v[1] # tris[i].v[3] /\ tris[i].v[2] # tris[i].v[3]
    BY <2>1 DEF Cornered
  <2> QED
    BY <2>2, PartsOf
<1>2. /\ n1 # i /\ n2 # i /\ n3 # i
      /\ RunsBack(n1, b, a, i) /\ RunsBack(n2, c, b, i) /\ RunsBack(n3, a, c, i)
  BY Bordered
<1>3. /\ Len(us) = nt + 2
      /\ us[i].v = <<a, b, np + 1>> /\ us[nt + 1].v = <<b, c, np + 1>> /\ us[nt + 2].v = <<c, a, np + 1>>
      /\ us[i].n[1] = n1 /\ us[i].n[2] = nt + 1 /\ us[i].n[3] = nt + 2
      /\ us[nt + 1].n[1] = n2 /\ us[nt + 1].n[2] = nt + 2 /\ us[nt + 1].n[3] = i
      /\ us[nt + 2].n[1] = n3 /\ us[nt + 2].n[2] = i /\ us[nt + 2].n[3] = nt + 1
  BY <1>t DEF InsertedTo
<1>4. \A k \in (1..nt) \ {i}, g \in 1..3 :
        us[k].n[g] = IF k = n3 /\ Edge(tris[k], g) = <<a, c>> THEN nt + 2
                     ELSE IF k = n2 /\ Edge(tris[k], g) = <<c, b>> THEN nt + 1
                     ELSE IF k = n1 /\ Edge(tris[k], g) = <<b, a>> THEN i
                     ELSE tris[k].n[g]
  BY <1>t DEF InsertedTo
<1>5. \A k \in (1..nt) \ {i} : us[k].v = tris[k].v
  BY <1>t DEF InsertedTo
<1>6. /\ Edge(tris[i], 1) = <<a, b>> /\ Edge(tris[i], 2) = <<b, c>> /\ Edge(tris[i], 3) = <<c, a>>
  BY DEF Edge
<1>d. DOMAIN us = 1..(nt + 2)
  BY InsertShape
<1> HIDE DEF a, b, c, n1, n2, n3, us
<1>7. \A k \in (1..nt) \ {i} : Cornered(tris[k]) /\ (\A g : Edge(us[k], g) = Edge(tris[k], g))
  BY <1>5, SameCorners DEF MeshIs, AllCornered
<1>8. <<b, a>> # <<c, b>> /\ <<b, a>> # <<a, c>> /\ <<c, b>> # <<a, c>>
  BY <1>1
<1>9. LET q == np + 1
      IN /\ Edge(us[i], 1) = <<a, b>> /\ Edge(us[i], 2) = <<b, q>> /\ Edge(us[i], 3) = <<q, a>>
         /\ Edge(us[nt + 1], 1) = <<b, c>> /\ Edge(us[nt + 1], 2) = <<c, q>> /\ Edge(us[nt + 1], 3) = <<q, b>>
         /\ Edge(us[nt + 2], 1) = <<c, a>> /\ Edge(us[nt + 2], 2) = <<a, q>> /\ Edge(us[nt + 2], 3) = <<q, c>>
  BY <1>3 DEF Edge
<1>10. AllCornered(us)
  <2> SUFFICES ASSUME NEW k \in 1..(nt + 2) PROVE Cornered(us[k])
    BY <1>d DEF AllCornered
  <2>1. CASE k = i
    BY <1>1, <1>3, <2>1 DEF Cornered
  <2>2. CASE k = nt + 1
    BY <1>1, <1>3, <2>2 DEF Cornered
  <2>3. CASE k = nt + 2
    BY <1>1, <1>3, <2>3 DEF Cornered
  <2>4. CASE k \in (1..nt) \ {i}
    BY <1>5, <1>7, <2>4, SameCorners
  <2> QED
    BY <2>1, <2>2, <2>3, <2>4
<1>11. n1 # 0 => \E h \in 1..3 : Edge(us[n1], h) = <<b, a>> /\ us[n1].n[h] = i
  <2> SUFFICES ASSUME n1 # 0
               PROVE  \E h \in 1..3 : Edge(us[n1], h) = <<b, a>> /\ us[n1].n[h] = i
    OBVIOUS
  <2>1. PICK h \in 1..3 : Edge(tris[n1], h) = <<b, a>>
    BY <1>2 DEF RunsBack
  <2>2. n1 \in (1..nt) \ {i}
    BY <1>1, <1>2
  <2>3. us[n1].n[h] = i
    BY <1>4, <1>8, <2>1, <2>2
  <2> QED
    BY <1>7, <2>1, <2>2, <2>3
<1>12. n2 # 0 => \E h \in 1..3 : Edge(us[n2], h) = <<c, b>> /\ us[n2].n[h] = nt + 1
  <2> SUFFICES ASSUME n2 # 0
               PROVE  \E h \in 1..3 : Edge(us[n2], h) = <<c, b>> /\ us[n2].n[h] = nt + 1
    OBVIOUS
  <2>1. PICK h \in 1..3 : Edge(tris[n2], h) = <<c, b>>
    BY <1>2 DEF RunsBack
  <2>2. n2 \in (1..nt) \ {i}
    BY <1>1, <1>2
  <2>3. us[n2].n[h] = nt + 1
    BY <1>4, <1>8, <2>1, <2>2
  <2> QED
    BY <1>7, <2>1, <2>2, <2>3
<1>13. n3 # 0 => \E h \in 1..3 : Edge(us[n3], h) = <<a, c>> /\ us[n3].n[h] = nt + 2
  <2> SUFFICES ASSUME n3 # 0
               PROVE  \E h \in 1..3 : Edge(us[n3], h) = <<a, c>> /\ us[n3].n[h] = nt + 2
    OBVIOUS
  <2>1. PICK h \in 1..3 : Edge(tris[n3], h) = <<a, c>>
    BY <1>2 DEF RunsBack
  <2>2. n3 \in (1..nt) \ {i}
    BY <1>1, <1>2
  <2>3. us[n3].n[h] = nt + 2
    BY <1>4, <1>8, <2>1, <2>2
  <2> QED
    BY <1>7, <2>1, <2>2, <2>3
<1>14. ASSUME NEW g \in 1..3, us[i].n[g] # 0 PROVE LinksBack(us, i, g)
  <2>1. CASE g = 1
    <3>1. us[i].n[g] = n1 /\ Edge(us[i], g) = <<a, b>>
      BY <1>3, <1>9, <2>1
    <3>2. Reversed(Edge(us[i], g)) = <<b, a>>
      BY <3>1 DEF Reversed
    <3>3. PICK h \in 1..3 : Edge(us[n1], h) = <<b, a>> /\ us[n1].n[h] = i
      BY <1>11, <1>14, <3>1
    <3> QED
      BY <3>1, <3>2, <3>3 DEF LinksBack
  <2>2. CASE g = 2
    <3>1. Edge(us[nt + 1], 3) = Reversed(Edge(us[i], 2)) /\ us[nt + 1].n[3] = i /\ us[i].n[2] = nt + 1
      BY <1>3, <1>9 DEF Reversed
    <3> QED
      BY <2>2, <3>1 DEF LinksBack
  <2>3. CASE g = 3
    <3>1. Edge(us[nt + 2], 2) = Reversed(Edge(us[i], 3)) /\ us[nt + 2].n[2] = i /\ us[i].n[3] = nt + 2
      BY <1>3, <1>9 DEF Reversed
    <3> QED
      BY <2>3, <3>1 DEF LinksBack
  <2> QED
    BY <2>1, <2>2, <2>3
<1>15. ASSUME NEW g \in 1..3, us[nt + 1].n[g] # 0 PROVE LinksBack(us, nt + 1, g)
  <2>1. CASE g = 1
    <3>1. us[nt + 1].n[g] = n2 /\ Edge(us[nt + 1], g) = <<b, c>>
      BY <1>3, <1>9, <2>1
    <3>2. Reversed(Edge(us[nt + 1], g)) = <<c, b>>
      BY <3>1 DEF Reversed
    <3>3. PICK h \in 1..3 : Edge(us[n2], h) = <<c, b>> /\ us[n2].n[h] = nt + 1
      BY <1>12, <1>15, <3>1
    <3> QED
      BY <3>1, <3>2, <3>3 DEF LinksBack
  <2>2. CASE g = 2
    <3>1. Edge(us[nt + 2], 3) = Reversed(Edge(us[nt + 1], 2)) /\ us[nt + 2].n[3] = nt + 1 /\ us[nt + 1].n[2] = nt + 2
      BY <1>3, <1>9 DEF Reversed
    <3> QED
      BY <2>2, <3>1 DEF LinksBack
  <2>3. CASE g = 3
    <3>1. Edge(us[i], 2) = Reversed(Edge(us[nt + 1], 3)) /\ us[i].n[2] = nt + 1 /\ us[nt + 1].n[3] = i
      BY <1>3, <1>9 DEF Reversed
    <3> QED
      BY <2>3, <3>1 DEF LinksBack
  <2> QED
    BY <2>1, <2>2, <2>3
<1>16. ASSUME NEW g \in 1..3, us[nt + 2].n[g] # 0 PROVE LinksBack(us, nt + 2, g)
  <2>1. CASE g = 1
    <3>1. us[nt + 2].n[g] = n3 /\ Edge(us[nt + 2], g) = <<c, a>>
      BY <1>3, <1>9, <2>1
    <3>2. Reversed(Edge(us[nt + 2], g)) = <<a, c>>
      BY <3>1 DEF Reversed
    <3>3. PICK h \in 1..3 : Edge(us[n3], h) = <<a, c>> /\ us[n3].n[h] = nt + 2
      BY <1>13, <1>16, <3>1
    <3> QED
      BY <3>1, <3>2, <3>3 DEF LinksBack
  <2>2. CASE g = 2
    <3>1. Edge(us[i], 3) = Reversed(Edge(us[nt + 2], 2)) /\ us[i].n[3] = nt + 2 /\ us[nt + 2].n[2] = i
      BY <1>3, <1>9 DEF Reversed
    <3> QED
      BY <2>2, <3>1 DEF LinksBack
  <2>3. CASE g = 3
    <3>1. Edge(us[nt + 1], 2) = Reversed(Edge(us[nt + 2], 3)) /\ us[nt + 1].n[2] = nt + 2 /\ us[nt + 2].n[3] = nt + 1
      BY <1>3, <1>9 DEF Reversed
    <3> QED
      BY <2>3, <3>1 DEF LinksBack
  <2> QED
    BY <2>1, <2>2, <2>3
<1>17. ASSUME NEW m \in (1..nt) \ {i}, NEW h \in 1..3
       PROVE  /\ m = n1 /\ Edge(tris[m], h) = <<b, a>> => tris[m].n[h] = i
              /\ m = n2 /\ Edge(tris[m], h) = <<c, b>> => tris[m].n[h] = i
              /\ m = n3 /\ Edge(tris[m], h) = <<a, c>> => tris[m].n[h] = i
  <2>1. Cornered(tris[m]) /\ m # 0
    BY <1>7
  <2> QED
    BY <1>2, <2>1, EdgeHasOnePlace DEF RunsBack
<1>18. ASSUME NEW k \in (1..nt) \ {i}, NEW g \in 1..3, us[k].n[g] # 0
       PROVE  LinksBack(us, k, g)
  <2>1. Edge(us[k], g) = Edge(tris[k], g)
    BY <1>7
  <2>2. CASE k = n1 /\ Edge(tris[k], g) = <<b, a>>
    <3>1. us[k].n[g] = i
      BY <1>4, <1>8, <2>2
    <3>2. Edge(us[i], 1) = Reversed(Edge(us[k], g)) /\ us[i].n[1] = k
      BY <1>3, <1>9, <2>1, <2>2 DEF Reversed
    <3> QED
      BY <3>1, <3>2 DEF LinksBack
  <2>3. CASE k = n2 /\ Edge(tris[k], g) = <<c, b>>
    <3>1. us[k].n[g] = nt + 1
      BY <1>4, <1>8, <2>3
    <3>2. Edge(us[nt + 1], 1) = Reversed(Edge(us[k], g)) /\ us[nt + 1].n[1] = k
      BY <1>3, <1>9, <2>1, <2>3 DEF Reversed
    <3> QED
      BY <3>1, <3>2 DEF LinksBack
  <2>4. CASE k = n3 /\ Edge(tris[k], g) = <<a, c>>
    <3>1. us[k].n[g] = nt + 2
      BY <1>4, <1>8, <2>4
    <3>2. Edge(us[nt + 2], 1) = Reversed(Edge(us[k], g)) /\ us[nt + 2].n[1] = k
      BY <1>3, <1>9, <2>1, <2>4 DEF Reversed
    <3> QED
      BY <3>1, <3>2 DEF LinksBack
  <2>5. CASE /\ ~(k = n1 /\ Edge(tris[k], g) = <<b, a>>) /\ ~(k = n2 /\ Edge(tris[k], g) = <<c, b>>)
             /\ ~(k = n3 /\ Edge(tris[k], g) = <<a, c>>)
    <3> DEFINE m == tris[k].n[g]
    <3>1. us[k].n[g] = m
      BY <1>4, <2>5
    <3>2. m \in 1..nt
      BY <1>18, <3>1, PartsOf
    <3>3. PICK h \in 1..3 : Edge(tris[m], h) = Reversed(Edge(tris[k], g)) /\ tris[m].n[h] = k
      BY <1>18, <3>1, NeighbourIs
    <3>4. Edge(tris[k], g) = Reversed(Edge(tris[m], h))
      <4>1. Edge(tris[k], g) = <<tris[k].v[g], tris[k].v[(g % 3) + 1]>>
        BY DEF Edge
      <4> QED
        BY <3>3, <4>1 DEF Reversed
    <3> HIDE DEF m
    <3>5. m # i
      <4> SUFFICES ASSUME m = i PROVE FALSE
        OBVIOUS
      <4>1. h = 1 \/ h = 2 \/ h = 3
        OBVIOUS
      <4> QED
        BY <1>6, <2>5, <3>3, <3>4, <4>1 DEF Reversed, n1, n2, n3
    <3>6. us[m].n[h] = k
      <4>1. us[m].n[h] = tris[m].n[h]
        BY <1>4, <1>17, <3>2, <3>3, <3>5
      <4> QED
        BY <3>3, <4>1
    <3>7. Edge(us[m], h) = Reversed(Edge(us[k], g))
      BY <1>7, <2>1, <3>2, <3>3, <3>5
    <3> QED
      BY <3>1, <3>6, <3>7 DEF LinksBack
  <2> QED
    BY <2>2, <2>3, <2>4, <2>5
<1>19. WellLinked(us)
  <2> SUFFICES ASSUME NEW k \in 1..(nt + 2), NEW g \in 1..3, us[k].n[g] # 0 PROVE LinksBack(us, k, g)
    BY <1>d DEF WellLinked
  <2>1. k = i \/ k = nt + 1 \/ k = nt + 2 \/ k \in (1..nt) \ {i}
    OBVIOUS
  <2> QED
    BY <1>14, <1>15, <1>16, <1>18, <2>1
<1> QED
  BY <1>10, <1>19 DEF us

------------------------------------------------------------------------------
(* Types.                                                                   *)

Corners == DOMAIN region.pts
CornerPairs == {Key(a, b) : a \in Corners, b \in Corners}
PolygonOK ==
  /\ region \in Regions /\ pc \in {"bridge", "clip", "mesh", "done"}
  /\ holes \subseteq {h \in DOMAIN region.loops : Len(region.loops[h]) >= 3}
  /\ merged \in Seq(Corners) /\ Len(merged) >= 3
  /\ loop \in Seq(Corners) /\ (pc = "clip" => Len(loop) >= 3)
  /\ constrained \subseteq CornerPairs
  /\ offered \in 0..Len(region.grid)
  /\ proper \in BOOLEAN /\ sound \in BOOLEAN /\ once \in BOOLEAN
PointsOK == pts \in Seq(Int \X Int) /\ Len(pts) >= Len(region.pts)
TrianglesOK ==
  /\ tris \in Seq(Triangles(Len(pts), Len(tris)))
  /\ work \in Seq((1..Len(tris)) \X (1..3))
  /\ pass \in (Nat \ {0}) \X Nat \X Nat /\ pass[2] <= Len(tris)
MeshTypeOK == PolygonOK /\ PointsOK /\ TrianglesOK

(* The points of a region, and the corners that its loops name.             *)
RegionIs(r) ==
  /\ r.pts \in Seq(Int \X Int) /\ r.grid \in Seq(Int \X Int)
  /\ r.loops \in Seq(Seq(DOMAIN r.pts)) /\ Len(r.loops) >= 1 /\ Len(r.loops[1]) >= 3

(* The assumption on the regions, for the one that is triangulated.         *)
LEMMA RegionOf ==
  ASSUME PolygonOK
  PROVE  RegionIs(region)
BY RegionsAssumption DEF PolygonOK, RegionIs

(* The corners of a region are points of the mesh.                          *)
LEMMA CornersArePoints ==
  ASSUME PolygonOK, PointsOK
  PROVE  Corners = 1..Len(region.pts) /\ Len(region.pts) \in Nat /\ \A x \in Corners : x \in 1..Len(pts) /\ pts[x] \in Int \X Int
<1>1. region.pts \in Seq(Int \X Int)
  BY RegionOf DEF RegionIs
<1>2. Corners = 1..Len(region.pts) /\ Len(region.pts) \in Nat
  BY <1>1 DEF Corners
<1>3. \A x \in 1..Len(pts) : pts[x] \in Int \X Int
  BY DEF PointsOK
<1>4. Len(pts) \in Nat /\ Len(pts) >= Len(region.pts)
  BY DEF PointsOK
<1> QED
  BY <1>2, <1>3, <1>4

(* What leaves the region, the polygon and the points alone keeps them.     *)
LEMMA PolygonKept ==
  ASSUME PolygonOK, PointsOK, pc' \in {pc, "done"},
         UNCHANGED <<region, constrained, proper, sound, once, holes, merged, loop, pts, offered>>
  PROVE  PolygonOK' /\ PointsOK'
<1>1. Corners' = Corners
  BY DEF Corners
<1>2. CornerPairs' = CornerPairs
  BY <1>1 DEF CornerPairs
<1>3. PolygonOK'
  BY <1>1, <1>2 DEF PolygonOK
<1> QED
  BY <1>3 DEF PointsOK

(* What a polygon turned round, or without a corner, still is.              *)
LEMMA TurnedIs ==
  ASSUME NEW D, NEW l \in Seq(D), NEW s, s = l \/ s = Reverse(l)
  PROVE  s \in Seq(D) /\ Len(s) = Len(l)
<1>1. CASE s = l
  BY <1>1
<1>2. CASE s = Reverse(l)
  <2>1. s = [i \in 1..Len(l) |-> l[(Len(l) - i) + 1]]
    BY <1>2 DEF Reverse
  <2> QED
    BY <2>1
<1> QED
  BY <1>1, <1>2

(* A sequence without one of its members.                                   *)
LEMMA RemovedIs ==
  ASSUME NEW D, NEW l \in Seq(D), NEW i \in 1..Len(l)
  PROVE  RemoveAt(l, i) \in Seq(D) /\ Len(RemoveAt(l, i)) = Len(l) - 1
<1> DEFINE v == SubSeq(l, 1, i - 1)
           w == SubSeq(l, i + 1, Len(l))
<1>1. v \in Seq(D) /\ Len(v) = i - 1
  OBVIOUS
<1>2. w \in Seq(D) /\ Len(w) = Len(l) - i
  OBVIOUS
<1>3. RemoveAt(l, i) = v \o w
  BY DEF RemoveAt
<1> HIDE DEF v, w
<1>4. v \o w \in Seq(D) /\ Len(v \o w) = Len(v) + Len(w)
  BY <1>1, <1>2
<1> QED
  BY <1>1, <1>2, <1>3, <1>4

(* The corners next to one of a polygon.                                    *)
LEMMA NextTo ==
  ASSUME NEW D, NEW l \in Seq(D), NEW i \in 1..Len(l)
  PROVE  l[i] \in D /\ Succ(l, i) \in D /\ Pred(l, i) \in D
<1>1. (i % Len(l)) + 1 \in 1..Len(l) /\ ((i - 2) % Len(l)) + 1 \in 1..Len(l)
  OBVIOUS
<1> QED
  BY <1>1 DEF Succ, Pred

(* Either way round, a polygon with its area positive, or negative.         *)
Outward(l) == IF SignedArea(l) < 0 THEN Reverse(l) ELSE l
Inward(l) == IF SignedArea(l) > 0 THEN Reverse(l) ELSE l

(* How a hole is bridged: out from a corner of the polygon to one of the    *)
(* hole, round it, and back.                                                *)
Around(h, at) == [k \in 1..(Len(h) + 1) |-> h[((at + k - 2) % Len(h)) + 1]]
Joined(o, pick, h, at) == SubSeq(o, 1, pick) \o Around(h, at) \o SubSeq(o, pick, Len(o))

(* Round a hole and back to where it began.                                 *)
LEMMA AroundIs ==
  ASSUME NEW D, NEW h \in Seq(D), Len(h) >= 1, NEW at \in 1..Len(h)
  PROVE  /\ Around(h, at) \in Seq(D) /\ Len(Around(h, at)) = Len(h) + 1
         /\ \A k \in 1..(Len(h) + 1) : Around(h, at)[k] = h[((at + k - 2) % Len(h)) + 1]
<1> DEFINE m == Len(h)
           w == Around(h, at)
<1>1. m \in Nat /\ m >= 1 /\ at \in 1..m /\ \A k \in 1..m : h[k] \in D
  OBVIOUS
<1>2. w = [k \in 1..(m + 1) |-> h[((at + k - 2) % m) + 1]]
  BY DEF Around
<1> HIDE DEF w, m
<1>3. \A k \in 1..(m + 1) : ((at + k - 2) % m) + 1 \in 1..m
  BY <1>1
<1>4. \A k \in 1..(m + 1) : h[((at + k - 2) % m) + 1] \in D
  BY <1>1, <1>3
<1>5. m + 1 \in Nat
  BY <1>1
<1>6. \A f : f = [k \in 1..(m + 1) |-> h[((at + k - 2) % m) + 1]] =>
            f \in [1..(m + 1) -> D] /\ \A k \in 1..(m + 1) : f[k] = h[((at + k - 2) % m) + 1]
  BY <1>4, Zenon
<1>7. w \in [1..(m + 1) -> D] /\ \A k \in 1..(m + 1) : w[k] = h[((at + k - 2) % m) + 1]
  BY <1>2, <1>6, Zenon
<1>8. \A j \in Nat : \A f \in [1..j -> D] : f \in Seq(D) /\ Len(f) = j
  OBVIOUS
<1>9. w \in Seq(D) /\ Len(w) = m + 1
  BY <1>5, <1>7, <1>8
<1> QED
  BY <1>7, <1>9 DEF w, m

(* BridgeHole is such a way, from some corner to some corner.               *)
LEMMA BridgeParts ==
  ASSUME PolygonOK, PointsOK,
         NEW outer \in Seq(Corners), Len(outer) >= 3, NEW hole \in Seq(Corners), Len(hole) >= 3
  PROVE  \E pick \in 1..Len(outer), at \in 1..Len(hole) :
           BridgeHole(outer, hole) = Joined(Outward(outer), pick, Inward(hole), at)
<1> DEFINE o  == Outward(outer)
           h  == Inward(hole)
           ats == {i \in DOMAIN h : \A j \in DOMAIN h : pts[h[j]][1] <= pts[h[i]][1]}
           at == Least(ats)
           Far(i)  == Lifted(Minus(pts[o[i]], pts[h[at]]))
           seen    == {i \in DOMAIN o : Visible(o, o[i], h[at])}
           choices == IF seen = {} THEN DOMAIN o ELSE seen
           picks   == {i \in choices : \A j \in choices : Far(i) <= Far(j)}
           pick    == Least(picks)
<1>1. BridgeHole(outer, hole) = Joined(o, pick, h, at)
  BY DEF BridgeHole, Outward, Inward, Joined, Around
<1>2. o \in Seq(Corners) /\ Len(o) = Len(outer) /\ h \in Seq(Corners) /\ Len(h) = Len(hole)
  <2>1. (o = outer \/ o = Reverse(outer)) /\ (h = hole \/ h = Reverse(hole))
    BY DEF Outward, Inward
  <2> HIDE DEF o, h
  <2> QED
    BY <2>1, TurnedIs
<1> HIDE DEF o, h
<1>3. at \in 1..Len(h)
  <2> DEFINE u == [i \in 1..Len(h) |-> pts[h[i]][1]]
  <2>1. \A i \in 1..Len(h) : h[i] \in Corners /\ pts[h[i]][1] \in Int
    <3>1. \A i \in 1..Len(h) : h[i] \in Corners
      BY <1>2
    <3> QED
      BY <3>1, CornersArePoints
  <2>2. u \in [1..Len(h) -> Int] /\ \A i \in 1..Len(h) : u[i] = pts[h[i]][1]
    BY <2>1
  <2>3. Len(h) \in Nat /\ Len(h) >= 1 /\ 1..Len(h) # {}
    BY <1>2
  <2> HIDE DEF u
  <2>4. PICK i \in 1..Len(h) : \A j \in 1..Len(h) : u[j] <= u[i]
    BY <2>2, <2>3, GreatestValue
  <2>5. \A j \in 1..Len(h) : pts[h[j]][1] <= pts[h[i]][1]
    BY <2>2, <2>4
  <2>6. DOMAIN h = 1..Len(h)
    BY <1>2
  <2>7. i \in ats /\ ats \in SUBSET (1..Len(h))
    BY <2>5, <2>6
  <2> HIDE DEF ats
  <2>8. at \in ats
    BY <2>3, <2>7, LeastIs
  <2> QED
    BY <2>7, <2>8
<1> HIDE DEF at
<1>4. pick \in 1..Len(o)
  <2> DEFINE u == [i \in 1..Len(o) |-> Far(i)]
  <2>1. \A i \in 1..Len(o) : Far(i) \in Int
    <3> SUFFICES ASSUME NEW i \in 1..Len(o) PROVE Far(i) \in Int
      OBVIOUS
    <3>1. o[i] \in Corners /\ h[at] \in Corners
      BY <1>2, <1>3
    <3>2. pts[o[i]] \in Int \X Int /\ pts[h[at]] \in Int \X Int
      BY <3>1, CornersArePoints
    <3>3. \A p, q \in Int \X Int : Lifted(Minus(p, q)) \in Int
      <4> SUFFICES ASSUME NEW p \in Int \X Int, NEW q \in Int \X Int PROVE Lifted(Minus(p, q)) \in Int
        OBVIOUS
      <4> DEFINE x == p[1] - q[1]
                 y == p[2] - q[2]
      <4>1. x \in Int /\ y \in Int
        OBVIOUS
      <4>2. Lifted(Minus(p, q)) = x * x + y * y
        BY DEF Lifted, Minus
      <4> HIDE DEF x, y
      <4>3. x * x \in Int /\ y * y \in Int
        BY <4>1
      <4> QED
        BY <4>2, <4>3
    <3> QED
      BY <3>2, <3>3
  <2> HIDE DEF Far
  <2>2. u \in [1..Len(o) -> Int]
    BY <2>1
  <2>3. Len(o) \in Nat /\ DOMAIN o = 1..Len(o) /\ 1..Len(o) # {}
    BY <1>2
  <2>4. choices \in SUBSET (1..Len(o)) /\ choices # {}
    <3>1. seen \in SUBSET (1..Len(o))
      BY <2>3
    <3> HIDE DEF seen
    <3> QED
      BY <2>3, <3>1
  <2> HIDE DEF choices
  <2>5. PICK i \in choices : \A j \in choices : u[i] <= u[j]
    BY <2>2, <2>3, <2>4, LeastValue
  <2>6. i \in picks /\ picks \in SUBSET (1..Len(o))
    BY <2>4, <2>5
  <2> HIDE DEF picks
  <2>7. pick \in picks
    BY <2>3, <2>6, LeastIs
  <2> QED
    BY <2>6, <2>7
<1> HIDE DEF pick
<1> QED
  BY <1>1, <1>2, <1>3, <1>4 DEF o, h

(* Round a hole and joined to it, a polygon is one.                         *)
LEMMA JoinedIs ==
  ASSUME NEW D, NEW o \in Seq(D), NEW h \in Seq(D), Len(h) >= 1,
         NEW pick \in 1..Len(o), NEW at \in 1..Len(h)
  PROVE  Joined(o, pick, h, at) \in Seq(D) /\ Len(Joined(o, pick, h, at)) >= Len(h) + 1
<1> DEFINE u == SubSeq(o, 1, pick)
           w == Around(h, at)
           v == SubSeq(o, pick, Len(o))
           c == u \o w
<1>1. u \in Seq(D) /\ v \in Seq(D)
  OBVIOUS
<1>2. w \in Seq(D) /\ Len(w) = Len(h) + 1
  BY AroundIs
<1>3. Joined(o, pick, h, at) = c \o v
  BY DEF Joined
<1> HIDE DEF u, v, w
<1>4. c \in Seq(D) /\ Len(c) = Len(u) + Len(w)
  BY <1>1, <1>2, Spliced
<1> HIDE DEF c
<1>5. c \o v \in Seq(D) /\ Len(c \o v) = Len(c) + Len(v)
  BY <1>1, <1>4, Spliced
<1>6. Len(u) \in Nat /\ Len(v) \in Nat /\ Len(h) \in Nat
  BY <1>1
<1> QED
  BY <1>2, <1>3, <1>4, <1>5, <1>6

(* A hole bridged into a polygon leaves a polygon.                          *)
LEMMA BridgeIs ==
  ASSUME PolygonOK, PointsOK,
         NEW outer \in Seq(Corners), Len(outer) >= 3, NEW hole \in Seq(Corners), Len(hole) >= 3
  PROVE  BridgeHole(outer, hole) \in Seq(Corners) /\ Len(BridgeHole(outer, hole)) >= 3
<1> DEFINE o == Outward(outer)
           h == Inward(hole)
<1>1. PICK pick \in 1..Len(outer), at \in 1..Len(hole) :
        BridgeHole(outer, hole) = Joined(o, pick, h, at)
  BY BridgeParts
<1>2. o \in Seq(Corners) /\ Len(o) = Len(outer) /\ h \in Seq(Corners) /\ Len(h) = Len(hole)
  <2>1. (o = outer \/ o = Reverse(outer)) /\ (h = hole \/ h = Reverse(hole))
    BY DEF Outward, Inward
  <2> HIDE DEF o, h
  <2> QED
    BY <2>1, TurnedIs
<1> HIDE DEF o, h
<1>3. Len(h) \in Nat /\ Len(h) >= 3 /\ pick \in 1..Len(o) /\ at \in 1..Len(h)
  BY <1>2
<1>4. Joined(o, pick, h, at) \in Seq(Corners) /\ Len(Joined(o, pick, h, at)) >= Len(h) + 1
  BY <1>2, <1>3, JoinedIs
<1>5. \A j \in Seq(Corners) : Len(j) \in Nat
  OBVIOUS
<1> QED
  BY <1>1, <1>3, <1>4, <1>5

(* The loops of a region are polygons over its corners.                     *)
LEMMA LoopsAre ==
  ASSUME PolygonOK, NEW h \in DOMAIN region.loops
  PROVE  region.loops[h] \in Seq(Corners)
<1>1. region.loops \in Seq(Seq(Corners))
  BY RegionOf DEF RegionIs, Corners
<1> QED
  BY <1>1

(* The neighbour found across an edge runs it back; where none is found,    *)
(* none does.                                                               *)
RunsIt(t, x) == \E f \in 1..3 : Edge(t, f) = x
FoundAcross(ts, nt, t, e) ==
  /\ Across(ts, t, e) \in 0..nt
  /\ Across(ts, t, e) # 0 => RunsIt(ts[Across(ts, t, e)], Reversed(Edge(t, e)))
  /\ Across(ts, t, e) = 0 => \A i \in 1..nt : ~RunsIt(ts[i], Reversed(Edge(t, e)))

(* Build finds the neighbour across an edge if there is one.                *)
LEMMA AcrossIs ==
  ASSUME NEW nt \in Nat, NEW ts, DOMAIN ts = 1..nt, NEW t, NEW e \in 1..3
  PROVE  FoundAcross(ts, nt, t, e)
<1> DEFINE back == {i \in DOMAIN ts : \E f \in 1..3 : Edge(ts[i], f) = <<Edge(t, e)[2], Edge(t, e)[1]>>}
           x    == Reversed(Edge(t, e))
           last == CHOOSE i \in back : \A j \in back : j <= i
<1>1. Across(ts, t, e) = IF back = {} THEN 0 ELSE last
  BY DEF Across
<1>2. back \in SUBSET (1..nt)
  OBVIOUS
<1>3. back # {} => last \in back
  <2> HIDE DEF back
  <2> QED
    BY <1>2, GreatestIs
<1>4. back = {i \in 1..nt : RunsIt(ts[i], x)}
  BY DEF Reversed, RunsIt
<1> HIDE DEF last, back, x
<1>5. CASE back = {}
  BY <1>1, <1>4, <1>5 DEF FoundAcross, x
<1>6. CASE back # {}
  <2>1. last \in 1..nt /\ RunsIt(ts[last], x)
    BY <1>3, <1>4, <1>6
  <2>2. Across(ts, t, e) = last
    BY <1>1, <1>6
  <2> QED
    BY <2>1, <2>2 DEF FoundAcross, x
<1> QED
  BY <1>5, <1>6

(* Linking keeps the triangles and their corners.                           *)
LEMMA LinkedUpIs ==
  ASSUME NEW np \in Nat, NEW mt \in Nat, NEW nt \in Nat,
         NEW ts \in Seq(Triangles(np, mt)), Len(ts) = nt
  PROVE  /\ LinkedUp(ts) \in Seq(Triangles(np, nt)) /\ Len(LinkedUp(ts)) = nt
         /\ \A k \in 1..nt : LinkedUp(ts)[k].v = ts[k].v
         /\ \A k \in 1..nt, e \in 1..3 : LinkedUp(ts)[k].n[e] = Across(ts, ts[k], e)
<1> DEFINE us == LinkedUp(ts)
<1>1. DOMAIN ts = 1..nt
  OBVIOUS
<1>2. us = [k \in 1..nt |-> [v |-> ts[k].v, n |-> [e \in 1..3 |-> Across(ts, ts[k], e)]]]
  BY <1>1 DEF LinkedUp
<1>3. \A k \in 1..nt : us[k] = [v |-> ts[k].v, n |-> [e \in 1..3 |-> Across(ts, ts[k], e)]]
  BY <1>2
<1>4. \A k \in 1..nt : ts[k].v \in [1..3 -> 1..np]
  <2>1. \A k \in 1..nt : ts[k] \in Triangles(np, mt)
    OBVIOUS
  <2>2. \A t \in Triangles(np, mt) : t.v \in [1..3 -> 1..np]
    BY DEF Triangles
  <2> QED
    BY <2>1, <2>2
<1>5. \A k \in 1..nt, e \in 1..3 : Across(ts, ts[k], e) \in 0..nt
  BY <1>1, AcrossIs DEF FoundAcross
<1>6. \A k \in 1..nt : us[k] \in Triangles(np, nt)
  <2> SUFFICES ASSUME NEW k \in 1..nt PROVE us[k] \in Triangles(np, nt)
    OBVIOUS
  <2> DEFINE n == [e \in 1..3 |-> Across(ts, ts[k], e)]
  <2>1. n \in [1..3 -> 0..nt]
    BY <1>5
  <2>2. us[k] = [v |-> ts[k].v, n |-> n]
    BY <1>3
  <2> HIDE DEF n
  <2> QED
    BY <1>4, <2>1, <2>2 DEF Triangles
<1> HIDE DEF us
<1>7. us \in Seq(Triangles(np, nt)) /\ Len(us) = nt
  BY <1>2, <1>6
<1> QED
  BY <1>3, <1>7 DEF us

(* Where no edge runs twice one way, linking makes neighbours know each     *)
(* other.                                                                   *)
LEMMA LinkedUpLinks ==
  ASSUME NEW np \in Nat, NEW mt \in Nat, NEW nt \in Nat,
         NEW ts \in Seq(Triangles(np, mt)), Len(ts) = nt, RunsOnce(LinkedUp(ts))
  PROVE  AllCornered(LinkedUp(ts)) /\ WellLinked(LinkedUp(ts))
<1> DEFINE us == LinkedUp(ts)
<1>1. /\ us \in Seq(Triangles(np, nt)) /\ Len(us) = nt
      /\ \A k \in 1..nt : us[k].v = ts[k].v
      /\ \A k \in 1..nt, e \in 1..3 : us[k].n[e] = Across(ts, ts[k], e)
  BY LinkedUpIs
<1>2. DOMAIN us = 1..nt /\ DOMAIN ts = 1..nt
  BY <1>1
<1>3. RunsOnce(us)
  OBVIOUS
<1> HIDE DEF us
<1>4. AllCornered(us)
  BY <1>3 DEF RunsOnce, AllCornered
<1>5. \A k \in 1..nt : \A e \in 1..3 : Edge(us[k], e) = Edge(ts[k], e)
  BY <1>1, SameCorners
<1>6. ASSUME NEW i \in 1..nt, NEW e \in 1..3, us[i].n[e] # 0 PROVE LinksBack(us, i, e)
  <2> DEFINE m == us[i].n[e]
  <2>1. m = Across(ts, ts[i], e) /\ m # 0
    BY <1>1, <1>6
  <2>2. FoundAcross(ts, nt, ts[i], e)
    BY <1>2, AcrossIs
  <2>3. m \in 1..nt /\ RunsIt(ts[m], Reversed(Edge(ts[i], e)))
    BY <2>1, <2>2 DEF FoundAcross
  <2> HIDE DEF m
  <2>4. PICK f \in 1..3 : Edge(ts[m], f) = Reversed(Edge(ts[i], e))
    BY <2>3 DEF RunsIt
  <2>5. Edge(ts[i], e) = Reversed(Edge(ts[m], f))
    <3>1. Edge(ts[i], e) = <<Edge(ts[i], e)[1], Edge(ts[i], e)[2]>>
      BY DEF Edge
    <3> QED
      BY <2>4, <3>1 DEF Reversed
  <2> DEFINE k == Across(ts, ts[m], f)
  <2>6. FoundAcross(ts, nt, ts[m], f)
    BY <1>2, AcrossIs
  <2>7. us[m].n[f] = k
    BY <1>1, <2>3
  <2>8. RunsIt(ts[i], Reversed(Edge(ts[m], f)))
    BY <2>5 DEF RunsIt
  <2>9. k \in 1..nt /\ RunsIt(ts[k], Reversed(Edge(ts[m], f)))
    BY <2>6, <2>8 DEF FoundAcross
  <2> HIDE DEF k
  <2>10. PICK g \in 1..3 : Edge(ts[k], g) = Reversed(Edge(ts[m], f))
    BY <2>9 DEF RunsIt
  <2>11. Edge(us[k], g) = Edge(us[i], e)
    BY <1>5, <2>5, <2>9, <2>10
  <2>12. k = i
    BY <1>2, <1>3, <2>9, <2>11 DEF RunsOnce
  <2>13. Edge(us[m], f) = Reversed(Edge(us[i], e))
    BY <1>5, <2>3, <2>4
  <2> QED
    BY <2>7, <2>12, <2>13 DEF LinksBack, m
<1>7. WellLinked(us)
  BY <1>2, <1>6 DEF WellLinked
<1> QED
  BY <1>4, <1>7 DEF us

(* What Build makes of the clipped triangles.                               *)
Clipped == IF Len(loop) = 3 THEN Append(tris, Unlinked(loop[1], loop[2], loop[3])) ELSE tris
(* They are triangles on the points that there are.                         *)
LEMMA ClippedIs ==
  ASSUME PolygonOK, PointsOK, TrianglesOK, pc = "clip"
  PROVE  \E mt \in Nat : /\ Clipped \in Seq(Triangles(Len(pts), mt))
                         /\ Len(Clipped) \in Nat /\ Len(Clipped) >= Len(tris)
<1> DEFINE np == Len(pts)
           nt == Len(tris)
<1>1. np \in Nat /\ nt \in Nat
  BY DEF PointsOK, TrianglesOK
<1>2. tris \in Seq(Triangles(np, nt))
  BY DEF TrianglesOK
<1>3. CASE Len(loop) = 3
  <2>1. loop[1] \in 1..np /\ loop[2] \in 1..np /\ loop[3] \in 1..np
    <3>1. loop[1] \in Corners /\ loop[2] \in Corners /\ loop[3] \in Corners
      <4>1. loop \in Seq(Corners)
        BY DEF PolygonOK
      <4> QED
        BY <1>3, <4>1
    <3> QED
      BY <3>1, CornersArePoints
  <2>2. Unlinked(loop[1], loop[2], loop[3]) \in Triangles(np, nt)
    BY <1>1, <2>1 DEF Unlinked, Tri, Triangles
  <2> HIDE DEF np, nt
  <2>3. /\ Append(tris, Unlinked(loop[1], loop[2], loop[3])) \in Seq(Triangles(np, nt))
        /\ Len(Append(tris, Unlinked(loop[1], loop[2], loop[3]))) = Len(tris) + 1
    BY <1>2, <2>2
  <2> QED
    BY <1>1, <1>3, <2>3 DEF Clipped, np, nt
<1>4. CASE Len(loop) # 3
  BY <1>1, <1>2, <1>4 DEF Clipped
<1> QED
  BY <1>3, <1>4

(* An ear leaves the polygon one corner shorter, and one triangle more.     *)
LEMMA ClipIs ==
  ASSUME PolygonOK, PointsOK, TrianglesOK, Clip
  PROVE  /\ loop' \in Seq(Corners) /\ Len(loop') >= 3
         /\ tris' \in Seq(Triangles(Len(pts), Len(tris'))) /\ Len(tris') = Len(tris) + 1
<1> DEFINE np == Len(pts)
           nt == Len(tris)
           i  == Least(Ears)
           t  == Unlinked(Pred(loop, i), loop[i], Succ(loop, i))
<1>1. np \in Nat /\ nt \in Nat /\ loop \in Seq(Corners) /\ Len(loop) > 3 /\ Len(loop) \in Nat
  BY DEF PointsOK, TrianglesOK, PolygonOK, Clip
<1>2. i \in 1..Len(loop)
  <2>1. Ears \in SUBSET (1..Len(loop)) /\ Ears # {}
    BY <1>1 DEF Ears, Clip
  <2> QED
    BY <1>1, <2>1, LeastIs
<1>3. tris' = Append(tris, t) /\ loop' = RemoveAt(loop, i)
  BY DEF Clip
<1> HIDE DEF i
<1>4. loop[i] \in Corners /\ Succ(loop, i) \in Corners /\ Pred(loop, i) \in Corners
  BY <1>1, <1>2, NextTo
<1>5. t \in Triangles(np, nt + 1)
  <2>1. loop[i] \in 1..np /\ Succ(loop, i) \in 1..np /\ Pred(loop, i) \in 1..np
    BY <1>4, CornersArePoints
  <2> QED
    BY <1>1, <2>1 DEF Unlinked, Tri, Triangles
<1>6. loop' \in Seq(Corners) /\ Len(loop') >= 3
  <2>1. RemoveAt(loop, i) \in Seq(Corners) /\ Len(RemoveAt(loop, i)) = Len(loop) - 1
    BY <1>1, <1>2, RemovedIs
  <2> QED
    BY <1>1, <1>3, <2>1
<1>7. tris \in Seq(Triangles(np, nt + 1))
  <2>1. Triangles(np, nt) \subseteq Triangles(np, nt + 1)
    <3>1. [1..3 -> 0..nt] \subseteq [1..3 -> 0..(nt + 1)]
      BY <1>1
    <3> QED
      BY <3>1 DEF Triangles
  <2>2. tris \in Seq(Triangles(np, nt))
    BY DEF TrianglesOK
  <2> HIDE DEF np, nt
  <2> QED
    BY <2>1, <2>2
<1>8. Len(tris) = nt
  OBVIOUS
<1> HIDE DEF np, nt, t
<1>9. tris' \in Seq(Triangles(np, nt + 1)) /\ Len(tris') = nt + 1
  BY <1>3, <1>5, <1>7, <1>8
<1> QED
  BY <1>6, <1>9 DEF np, nt

(* What legalization does: nothing more, or the flip of an edge.            *)
FlipsOne ==
  \E i \in 1..Len(tris), e \in 1..3 :
    /\ Flippable(i, e) /\ tris' = Flip(i, e)
    /\ work' \in Seq((1..Len(tris)) \X (1..3))

(* Legalize flips one edge, or its queue has none to flip.                  *)
LEMMA LegalizeUnfolds ==
  ASSUME PointsOK, TrianglesOK, Legalize
  PROVE  (tris' = tris /\ work' = <<>>) \/ FlipsOne
<1> DEFINE flips == {k \in DOMAIN work : Flippable(work[k][1], work[k][2])}
           k == Least(flips)
           i == work[k][1]
           e == work[k][2]
<1>1. CASE flips = {}
  BY <1>1 DEF Legalize
<1>2. CASE flips # {}
  <2>1. /\ tris' = Flip(i, e)
        /\ work' = <<<<i, 2>>, <<tris[i].n[e], 2>>>> \o SubSeq(work, k + 1, Len(work))
    BY <1>2 DEF Legalize
  <2>2. work \in Seq((1..Len(tris)) \X (1..3)) /\ DOMAIN work = 1..Len(work) /\ Len(work) \in Nat
    BY DEF TrianglesOK
  <2>3. k \in flips
    <3>1. flips \in SUBSET (1..Len(work))
      BY <2>2
    <3> HIDE DEF flips
    <3> QED
      BY <1>2, <2>2, <3>1, LeastIs
  <2>4. k \in 1..Len(work) /\ Flippable(i, e)
    BY <2>2, <2>3
  <2> HIDE DEF k, flips
  <2>5. i \in 1..Len(tris) /\ e \in 1..3
    BY <2>2, <2>4
  <2>6. tris[i].n[e] \in 1..Len(tris)
    <3>1. Len(pts) \in Nat /\ Len(tris) \in Nat /\ MeshIs(Len(pts), Len(tris)) /\ PointsAre(Len(pts))
      BY DEF PointsOK, TrianglesOK, MeshIs, PointsAre
    <3>2. Quadrilateral(Len(pts), Len(tris), i, e)
      BY <2>4, <2>5, <3>1, FlipParts
    <3> QED
      BY <3>2 DEF Quadrilateral, Beyond
  <2> HIDE DEF i, e
  <2>7. work' \in Seq((1..Len(tris)) \X (1..3))
    <3> DEFINE W == (1..Len(tris)) \X (1..3)
               first == <<<<i, 2>>, <<tris[i].n[e], 2>>>>
               rest == SubSeq(work, k + 1, Len(work))
    <3>1. first \in Seq(W)
      <4>1. <<i, 2>> \in W /\ <<tris[i].n[e], 2>> \in W
        BY <2>5, <2>6
      <4> HIDE DEF W
      <4> QED
        BY <4>1
    <3>2. rest \in Seq(W)
      <4>1. work \in Seq(W)
        BY <2>2
      <4> HIDE DEF W
      <4> QED
        BY <2>4, <4>1
    <3>3. work' = first \o rest
      BY <2>1
    <3> HIDE DEF W, first, rest
    <3>4. work' \in Seq(W)
      BY <3>1, <3>2, <3>3
    <3> QED
      BY <3>4 DEF W
  <2> QED
    BY <2>1, <2>4, <2>5, <2>7 DEF FlipsOne
<1> QED
  BY <1>1, <1>2

(* The mesh with its points, as the lemmas about flips and insertions take  *)
(* it.                                                                      *)
LEMMA MeshOf ==
  ASSUME PointsOK, TrianglesOK
  PROVE  Len(pts) \in Nat /\ Len(tris) \in Nat /\ MeshIs(Len(pts), Len(tris)) /\ PointsAre(Len(pts))
BY DEF PointsOK, TrianglesOK, MeshIs, PointsAre

(* An insertion adds one point and two triangles, or nothing.               *)
MeshGrows ==
  /\ pts' \in Seq(Int \X Int) /\ Len(pts') >= Len(pts)
  /\ tris' \in Seq(Triangles(Len(pts'), Len(tris'))) /\ Len(tris') >= Len(tris)
  /\ work' \in Seq((1..Len(tris')) \X (1..3))

(* Insert leaves no fewer points and triangles, all of their types.         *)
LEMMA InsertGrows ==
  ASSUME PointsOK, TrianglesOK, NEW p \in Int \X Int, Insert(p)
  PROVE  MeshGrows
<1> DEFINE np == Len(pts)
           nt == Len(tris)
<1>1. np \in Nat /\ nt \in Nat /\ MeshIs(np, nt) /\ PointsAre(np)
  BY MeshOf
<1>2. UNCHANGED meshVars \/ \E i \in 1..nt : InsertedInto(p, i)
  BY <1>1, InsertUnfolds
<1>3. CASE UNCHANGED meshVars
  BY <1>3 DEF meshVars, MeshGrows, PointsOK, TrianglesOK
<1>4. CASE \E i \in 1..nt : InsertedInto(p, i)
  <2>1. PICK i \in 1..nt : InsertedInto(p, i)
    BY <1>4
  <2>2. pts' = Append(pts, p) /\ tris' = Inserted(i) /\ work' = <<<<i, 1>>, <<nt + 1, 1>>, <<nt + 2, 1>>>>
    BY <2>1 DEF InsertedInto
  <2>3. pts' \in Seq(Int \X Int) /\ Len(pts') = np + 1
    <3> DEFINE I == Int \X Int
    <3>1. pts \in Seq(I) /\ p \in I
      BY DEF PointsOK
    <3> HIDE DEF I
    <3>2. pts' \in Seq(I) /\ Len(pts') = np + 1
      BY <2>2, <3>1
    <3> QED
      BY <3>2 DEF I
  <2>4. tris' \in Seq(Triangles(np + 1, nt + 2)) /\ Len(tris') = nt + 2
    BY <1>1, <2>2, InsertShape
  <2>5. work' \in Seq((1..(nt + 2)) \X (1..3))
    BY <1>1, <2>2
  <2> HIDE DEF np, nt
  <2>6. np + 1 >= np /\ nt + 2 >= nt
    BY <1>1
  <2> QED
    BY <2>3, <2>4, <2>5, <2>6 DEF MeshGrows, np, nt
<1> QED
  BY <1>2, <1>3, <1>4

------------------------------------------------------------------------------
(* Type correctness.                                                        *)

(* A region as given has the types.                                         *)
LEMMA MeshTypesBegin == Init => MeshTypeOK
<1> SUFFICES ASSUME Init PROVE MeshTypeOK
  OBVIOUS
<1>r. RegionIs(region)
  BY RegionsAssumption DEF Init, RegionIs
<1>1. /\ region \in Regions /\ pc = "bridge" /\ loop = <<>> /\ constrained = {} /\ offered = 0
      /\ proper = FALSE /\ sound = FALSE /\ once = FALSE
      /\ merged = region.loops[1] /\ holes = {h \in 2..Len(region.loops) : Len(region.loops[h]) >= 3}
      /\ pts = region.pts /\ tris = <<>> /\ work = <<>> /\ pass = <<1, 0, 0>>
  BY DEF Init
<1>2. PolygonOK
  <2>1. region.loops \in Seq(Seq(Corners)) /\ Len(region.loops) >= 1 /\ Len(region.loops[1]) >= 3
    BY <1>r DEF RegionIs, Corners
  <2>0. Len(region.loops) \in Nat /\ DOMAIN region.loops = 1..Len(region.loops)
    BY <2>1
  <2>2. merged \in Seq(Corners) /\ Len(merged) >= 3
    BY <1>1, <2>1
  <2>3. holes \subseteq {h \in DOMAIN region.loops : Len(region.loops[h]) >= 3}
    BY <1>1, <2>0
  <2>4. 0 \in 0..Len(region.grid)
    BY <1>r DEF RegionIs
  <2>5. loop \in Seq(Corners)
    BY <1>1
  <2> QED
    BY <1>1, <2>2, <2>3, <2>4, <2>5 DEF PolygonOK
<1>3. PointsOK
  BY <1>r, <1>1 DEF PointsOK, RegionIs
<1>4. TrianglesOK
  <2>1. Len(tris) = 0
    BY <1>1
  <2>2. tris \in Seq(Triangles(Len(pts), Len(tris))) /\ work \in Seq((1..Len(tris)) \X (1..3))
    BY <1>1
  <2>3. pass \in (Nat \ {0}) \X Nat \X Nat /\ pass[2] = 0
    BY <1>1
  <2> QED
    BY <2>1, <2>2, <2>3 DEF TrianglesOK
<1> QED
  BY <1>2, <1>3, <1>4 DEF MeshTypeOK

(* The sides of the loops join corners.                                     *)
LEMMA SidesJoinCorners ==
  ASSUME PolygonOK
  PROVE  AllKeys \subseteq CornerPairs
<1> SUFFICES ASSUME NEW h \in DOMAIN region.loops, NEW i \in DOMAIN region.loops[h]
             PROVE  Key(region.loops[h][i], Succ(region.loops[h], i)) \in CornerPairs
  BY DEF AllKeys, LoopKeys
<1> DEFINE l == region.loops[h]
<1>1. l \in Seq(Corners)
  BY LoopsAre
<1>2. i \in 1..Len(l)
  BY <1>1
<1> HIDE DEF l
<1>3. l[i] \in Corners /\ Succ(l, i) \in Corners
  BY <1>1, <1>2, NextTo
<1> QED
  BY <1>3 DEF CornerPairs, l

(* Every action keeps the types.                                            *)
LEMMA MeshTypesStay == MeshTypeOK /\ [Next]_vars => MeshTypeOK'
<1> SUFFICES ASSUME PolygonOK, PointsOK, TrianglesOK, [Next]_vars
             PROVE  PolygonOK' /\ PointsOK' /\ TrianglesOK'
  BY DEF MeshTypeOK
<1>r. RegionIs(region)
  BY RegionOf
<1>m. Len(pts) \in Nat /\ Len(tris) \in Nat /\ MeshIs(Len(pts), Len(tris)) /\ PointsAre(Len(pts))
  BY MeshOf
<1>1. CASE Bridge
  <2>1. PICK h \in holes : merged' = BridgeHole(merged, region.loops[h]) /\ holes' = holes \ {h}
    BY <1>1 DEF Bridge
  <2>2. UNCHANGED <<region, constrained, proper, sound, once, pc, loop, pts, tris, work, offered, pass>>
    BY <1>1 DEF Bridge, inVars, meshVars
  <2>3. h \in DOMAIN region.loops /\ Len(region.loops[h]) >= 3 /\ merged \in Seq(Corners) /\ Len(merged) >= 3
    BY <2>1 DEF PolygonOK
  <2>4. region.loops[h] \in Seq(Corners)
    BY <2>3, LoopsAre
  <2>5. merged' \in Seq(Corners) /\ Len(merged') >= 3
    BY <2>1, <2>3, <2>4, BridgeIs
  <2>6. PolygonOK'
    BY <2>1, <2>2, <2>5 DEF PolygonOK, Corners, CornerPairs
  <2> QED
    BY <2>2, <2>6 DEF PointsOK, TrianglesOK
<1>2. CASE StartClip
  <2>1. UNCHANGED <<region, constrained, sound, once, holes, merged, pts, tris, work, offered, pass>>
    BY <1>2 DEF StartClip, meshVars
  <2>2. (loop' = merged \/ loop' = Reverse(merged)) /\ pc' = "clip" /\ proper' \in BOOLEAN
    BY <1>2 DEF StartClip
  <2>3. merged \in Seq(Corners) /\ Len(merged) >= 3
    BY DEF PolygonOK
  <2>4. loop' \in Seq(Corners) /\ Len(loop') >= 3
    BY <2>2, <2>3, TurnedIs
  <2>5. PolygonOK'
    BY <2>1, <2>2, <2>4 DEF PolygonOK, Corners, CornerPairs
  <2> QED
    BY <2>1, <2>5 DEF PointsOK, TrianglesOK
<1>3. CASE Clip
  <2>1. UNCHANGED <<region, constrained, proper, sound, once, pc, holes, merged, pts, work, offered, pass>>
    BY <1>3 DEF Clip, inVars
  <2>2. /\ loop' \in Seq(Corners) /\ Len(loop') >= 3
        /\ tris' \in Seq(Triangles(Len(pts), Len(tris'))) /\ Len(tris') = Len(tris) + 1
    BY <1>3, ClipIs
  <2>3. PolygonOK'
    BY <2>1, <2>2 DEF PolygonOK, Corners, CornerPairs
  <2>4. TrianglesOK'
    <3>1. work \in Seq((1..Len(tris')) \X (1..3))
      <4>1. (1..Len(tris)) \X (1..3) \subseteq (1..Len(tris')) \X (1..3)
        BY <1>m, <2>2
      <4>2. work \in Seq((1..Len(tris)) \X (1..3))
        BY DEF TrianglesOK
      <4> DEFINE V == (1..Len(tris)) \X (1..3)
                 W == (1..Len(tris')) \X (1..3)
      <4> HIDE DEF V, W
      <4>3. V \subseteq W /\ work \in Seq(V)
        BY <4>1, <4>2 DEF V, W
      <4>4. work \in Seq(W)
        BY <4>3
      <4> QED
        BY <4>4 DEF W
    <3>2. pass \in (Nat \ {0}) \X Nat \X Nat /\ pass[2] <= Len(tris)
      BY DEF TrianglesOK
    <3>3. pass[2] <= Len(tris')
      BY <1>m, <2>2, <3>2
    <3> QED
      BY <2>1, <2>2, <3>1, <3>2, <3>3 DEF TrianglesOK
  <2> QED
    BY <2>1, <2>3, <2>4 DEF PointsOK
<1>4. CASE Build
  <2>1. UNCHANGED <<region, proper, holes, merged, loop, pts, offered, pass>>
    BY <1>4 DEF Build, polyVars
  <2>2. /\ tris' = LinkedUp(Clipped) /\ constrained' = AllKeys /\ pc = "clip" /\ pc' = "mesh"
        /\ sound' \in BOOLEAN /\ once' \in BOOLEAN
    BY <1>4 DEF Build, RunsOnce, Clipped
  <2>3. work' = [k \in 1..(3 * Len(tris')) |-> <<((k - 1) \div 3) + 1, ((k - 1) % 3) + 1>>]
    BY <1>4 DEF Build
  <2>4. /\ tris' \in Seq(Triangles(Len(pts), Len(tris'))) /\ Len(tris') \in Nat
        /\ Len(tris') >= Len(tris)
    <3>1. PICK mt \in Nat : /\ Clipped \in Seq(Triangles(Len(pts), mt))
                            /\ Len(Clipped) \in Nat /\ Len(Clipped) >= Len(tris)
      BY <2>2, ClippedIs
    <3>2. tris' \in Seq(Triangles(Len(pts), Len(Clipped))) /\ Len(tris') = Len(Clipped)
      BY <1>m, <2>2, <3>1, LinkedUpIs
    <3> QED
      BY <3>1, <3>2
  <2>5. PolygonOK'
    <3>1. constrained' \subseteq CornerPairs
      BY <2>2, SidesJoinCorners
    <3> QED
      BY <2>1, <2>2, <3>1 DEF PolygonOK, Corners, CornerPairs
  <2>6. TrianglesOK'
    <3>1. work' \in Seq((1..Len(tris')) \X (1..3))
      <4> DEFINE n == Len(tris')
      <4>1. n \in Nat
        BY <2>4
      <4> HIDE DEF n
      <4>2. \A k \in 1..(3 * n) : ((k - 1) \div 3) + 1 \in 1..n /\ ((k - 1) % 3) + 1 \in 1..3
        BY <4>1
      <4> DEFINE W == (1..n) \X (1..3)
      <4>3. \A k \in 1..(3 * n) : <<((k - 1) \div 3) + 1, ((k - 1) % 3) + 1>> \in W
        BY <4>2
      <4> HIDE DEF W
      <4>4. work' = [k \in 1..(3 * n) |-> <<((k - 1) \div 3) + 1, ((k - 1) % 3) + 1>>]
        BY <2>3 DEF n
      <4>5. 3 * n \in Nat
        BY <4>1
      <4> DEFINE m == 3 * n
      <4> HIDE DEF m
      <4>6. work' \in Seq(W)
        <5>1. /\ m \in Nat /\ work' = [k \in 1..m |-> <<((k - 1) \div 3) + 1, ((k - 1) % 3) + 1>>]
              /\ \A k \in 1..m : <<((k - 1) \div 3) + 1, ((k - 1) % 3) + 1>> \in W
          BY <4>3, <4>4, <4>5 DEF m
        <5> QED
          BY <5>1
      <4> QED
        BY <4>6 DEF W, n
    <3>2. pass \in (Nat \ {0}) \X Nat \X Nat /\ pass[2] <= Len(tris)
      BY DEF TrianglesOK
    <3>3. pass[2] <= Len(tris')
      BY <1>m, <2>4, <3>2
    <3> QED
      BY <2>1, <2>4, <3>1, <3>2, <3>3 DEF TrianglesOK
  <2> QED
    BY <2>1, <2>5, <2>6 DEF PointsOK
<1>5. CASE Legalize
  <2>1. UNCHANGED <<region, constrained, proper, sound, once, pc, holes, merged, loop, pts, offered, pass>>
    BY <1>5 DEF Legalize, inVars, polyVars
  <2>2. PolygonOK' /\ PointsOK'
    BY <2>1, PolygonKept
  <2>3. CASE tris' = tris /\ work' = <<>>
    BY <2>1, <2>2, <2>3 DEF TrianglesOK
  <2>4. CASE FlipsOne
    <3>1. PICK i \in 1..Len(tris), e \in 1..3 : Flippable(i, e) /\ tris' = Flip(i, e)
      BY <2>4 DEF FlipsOne
    <3>2. tris' \in Seq(Triangles(Len(pts), Len(tris))) /\ Len(tris') = Len(tris)
      BY <1>m, <3>1, FlipShape
    <3>3. work' \in Seq((1..Len(tris)) \X (1..3))
      BY <2>4 DEF FlipsOne
    <3>4. TrianglesOK'
      BY <2>1, <3>2, <3>3 DEF TrianglesOK
    <3> QED
      BY <2>2, <3>4
  <2> QED
    BY <1>5, <2>3, <2>4, LegalizeUnfolds
<1>6. ASSUME NEW p \in Int \X Int, Insert(p), UNCHANGED region,
             pass' \in (Nat \ {0}) \X Nat \X Nat, pass'[2] = Len(tris') \/ pass'[2] = pass[2]
      PROVE  PointsOK' /\ TrianglesOK'
  <2>1. MeshGrows
    BY <1>6, InsertGrows
  <2>2. Len(pts') \in Nat /\ Len(tris') \in Nat /\ Len(region.pts) \in Nat
    BY <2>1, <1>r DEF MeshGrows, RegionIs
  <2>3. PointsOK'
    BY <1>6, <1>m, <2>1, <2>2 DEF MeshGrows, PointsOK
  <2>4. pass \in (Nat \ {0}) \X Nat \X Nat /\ pass[2] <= Len(tris)
    BY DEF TrianglesOK
  <2>5. pass'[2] <= Len(tris')
    BY <1>6, <1>m, <2>1, <2>2, <2>4 DEF MeshGrows
  <2> QED
    BY <1>6, <2>1, <2>3, <2>5 DEF MeshGrows, TrianglesOK
<1>7. CASE InsertGrid
  <2>1. UNCHANGED <<region, constrained, proper, sound, once, pc, holes, merged, loop>>
    BY <1>7 DEF InsertGrid, inVars, polyVars
  <2>2. /\ offered < Len(region.grid) /\ Insert(region.grid[offered + 1]) /\ offered' = offered + 1
        /\ pass' = <<1, Len(tris'), Len(pts')>>
    BY <1>7 DEF InsertGrid, StartPass
  <2>3. region.grid[offered + 1] \in Int \X Int /\ offered' \in 0..Len(region.grid)
    <3>1. offered \in 0..Len(region.grid) /\ region.grid \in Seq(Int \X Int)
      BY <1>r DEF PolygonOK, RegionIs
    <3>2. offered + 1 \in 1..Len(region.grid)
      BY <2>2, <3>1
    <3> QED
      BY <2>2, <3>1, <3>2
  <2>4. MeshGrows
    BY <2>2, <2>3, InsertGrows
  <2>5. pass' \in (Nat \ {0}) \X Nat \X Nat /\ pass'[2] = Len(tris')
    <3>1. Len(tris') \in Nat /\ Len(pts') \in Nat
      BY <2>4 DEF MeshGrows
    <3> QED
      BY <2>2, <3>1
  <2>6. PolygonOK'
    BY <2>1, <2>3 DEF PolygonOK, Corners, CornerPairs
  <2> QED
    BY <1>6, <2>1, <2>2, <2>3, <2>5, <2>6
<1>8. CASE Split
  <2>1. UNCHANGED <<region, constrained, proper, sound, once, pc, holes, merged, loop, offered>>
    BY <1>8 DEF Split, inVars, polyVars
  <2>2. PICK i \in pass[1]..pass[2] :
          /\ Insert(<<(Corner(tris[i], 1)[1] + Corner(tris[i], 2)[1] + Corner(tris[i], 3)[1]) \div 3,
                      (Corner(tris[i], 1)[2] + Corner(tris[i], 2)[2] + Corner(tris[i], 3)[2]) \div 3>>)
          /\ pass' = [pass EXCEPT ![1] = i + 1]
    BY <1>8 DEF Split
  <2> DEFINE p == <<(Corner(tris[i], 1)[1] + Corner(tris[i], 2)[1] + Corner(tris[i], 3)[1]) \div 3,
                    (Corner(tris[i], 1)[2] + Corner(tris[i], 2)[2] + Corner(tris[i], 3)[2]) \div 3>>
  <2>3. pass \in (Nat \ {0}) \X Nat \X Nat /\ pass[2] <= Len(tris)
    BY DEF TrianglesOK
  <2>4. i \in 1..Len(tris) /\ i + 1 \in Nat \ {0}
    BY <1>m, <2>3
  <2>5. pass' \in (Nat \ {0}) \X Nat \X Nat /\ pass'[2] = pass[2]
    BY <2>2, <2>3, <2>4
  <2>6. p \in Int \X Int
    <3>1. \A k \in 1..3 : Corner(tris[i], k) \in Int \X Int
      <4> SUFFICES ASSUME NEW k \in 1..3 PROVE Corner(tris[i], k) \in Int \X Int
        OBVIOUS
      <4>1. tris[i].v[k] \in 1..Len(pts)
        BY <1>m, <2>4, PartsOf
      <4>2. pts \in Seq(Int \X Int)
        BY DEF PointsOK
      <4> QED
        BY <4>1, <4>2 DEF Corner
    <3> DEFINE x == Corner(tris[i], 1)
               y == Corner(tris[i], 2)
               z == Corner(tris[i], 3)
    <3>2. x \in Int \X Int /\ y \in Int \X Int /\ z \in Int \X Int
      BY <3>1
    <3> HIDE DEF x, y, z
    <3>3. (x[1] + y[1] + z[1]) \div 3 \in Int /\ (x[2] + y[2] + z[2]) \div 3 \in Int
      BY <3>2
    <3> QED
      BY <3>3 DEF x, y, z
  <2>7. Insert(p)
    BY <2>2
  <2>8. PolygonOK'
    BY <2>1 DEF PolygonOK, Corners, CornerPairs
  <2> HIDE DEF p
  <2> QED
    BY <1>6, <2>1, <2>5, <2>6, <2>7, <2>8
<1>9. CASE NextPass
  <2>1. UNCHANGED <<region, constrained, proper, sound, once, pc, holes, merged, loop, pts, tris, work, offered>>
    BY <1>9 DEF NextPass, inVars, polyVars, meshVars
  <2>2. pass' = <<1, Len(tris'), Len(pts')>>
    BY <1>9 DEF NextPass, StartPass
  <2>3. PolygonOK' /\ PointsOK'
    BY <2>1, PolygonKept
  <2>4. pass' \in (Nat \ {0}) \X Nat \X Nat /\ pass'[2] <= Len(tris')
    BY <1>m, <2>1, <2>2
  <2> QED
    BY <2>1, <2>3, <2>4 DEF TrianglesOK
<1>10. CASE Export
  <2>1. /\ UNCHANGED <<region, constrained, proper, sound, once, holes, merged, loop, pts, tris, work, offered, pass>>
        /\ pc' = "done"
    BY <1>10 DEF Export, inVars, polyVars, meshVars
  <2>2. PolygonOK' /\ PointsOK'
    BY <2>1, PolygonKept
  <2>3. TrianglesOK'
    BY <2>1 DEF TrianglesOK
  <2> QED
    BY <2>2, <2>3
<1>11. CASE UNCHANGED vars
  <2>1. UNCHANGED <<region, constrained, proper, sound, once, pc, holes, merged, loop, pts, tris, work, offered, pass>>
    BY <1>11 DEF vars, inVars, polyVars, meshVars
  <2>2. PolygonOK' /\ PointsOK'
    BY <2>1, PolygonKept
  <2>3. TrianglesOK'
    BY <2>1 DEF TrianglesOK
  <2> QED
    BY <2>2, <2>3
<1> QED
  BY <1>1, <1>2, <1>3, <1>4, <1>5, <1>7, <1>8, <1>9, <1>10, <1>11 DEF Next, Done

(* The indices that the triangulation follows are those of corners, points, *)
(* triangles and edges: a bridge, an ear, a flip or an insertion reads and  *)
(* writes inside the arrays, whatever the corners of the region.            *)
THEOREM MeshTypeCorrect == Spec => []MeshTypeOK
BY MeshTypesBegin, MeshTypesStay, PTL DEF Spec

------------------------------------------------------------------------------
(* Links.                                                                   *)

(* Strengthened: the corners of a triangle differ, without which a          *)
(* triangle may run one edge twice and Relink change the wrong link; and    *)
(* the types, which the flips and the insertions need.                      *)
LinksInv == MeshTypeOK /\ (pc = "mesh" /\ once => AllCornered(tris) /\ WellLinked(tris))

(* The links are right when Build has made them, wherever the ears run no   *)
(* edge twice one way.                                                      *)
LEMMA BuildLinks ==
  ASSUME MeshTypeOK, Build, once'
  PROVE  AllCornered(tris') /\ WellLinked(tris')
<1>0. PolygonOK /\ PointsOK /\ TrianglesOK
  BY DEF MeshTypeOK
<1>1. tris' = LinkedUp(Clipped) /\ once' = RunsOnce(tris') /\ pc = "clip"
  BY DEF Build, Clipped
<1>2. PICK mt \in Nat : /\ Clipped \in Seq(Triangles(Len(pts), mt))
                        /\ Len(Clipped) \in Nat /\ Len(Clipped) >= Len(tris)
  BY <1>0, <1>1, ClippedIs
<1>3. Len(pts) \in Nat
  BY <1>0, MeshOf
<1> QED
  BY <1>1, <1>2, <1>3, LinkedUpLinks

(* An insertion keeps them right.                                           *)
LEMMA InsertLinks ==
  ASSUME PointsOK, TrianglesOK, AllCornered(tris), WellLinked(tris), NEW p, Insert(p)
  PROVE  AllCornered(tris') /\ WellLinked(tris')
<1>1. Len(pts) \in Nat /\ Len(tris) \in Nat /\ MeshIs(Len(pts), Len(tris)) /\ PointsAre(Len(pts))
  BY MeshOf
<1>2. UNCHANGED meshVars \/ \E i \in 1..Len(tris) : InsertedInto(p, i)
  BY <1>1, InsertUnfolds
<1>3. CASE UNCHANGED meshVars
  BY <1>3 DEF meshVars
<1>4. CASE \E i \in 1..Len(tris) : InsertedInto(p, i)
  <2>1. PICK i \in 1..Len(tris) : tris' = Inserted(i)
    BY <1>4 DEF InsertedInto
  <2> QED
    BY <1>1, <2>1, InsertKeepsLinks
<1> QED
  BY <1>2, <1>3, <1>4

(* Every action keeps the invariant of the links.                           *)
LEMMA LinksStay == LinksInv /\ [Next]_vars => LinksInv'
<1> SUFFICES ASSUME LinksInv, [Next]_vars, pc' = "mesh", once'
             PROVE  AllCornered(tris') /\ WellLinked(tris')
  BY MeshTypesStay DEF LinksInv
<1>0. MeshTypeOK /\ PolygonOK /\ PointsOK /\ TrianglesOK
  BY DEF LinksInv, MeshTypeOK
<1>1. CASE Build
  BY <1>0, <1>1, BuildLinks
<1>2. ASSUME pc = "mesh", once' = once PROVE AllCornered(tris) /\ WellLinked(tris)
  BY <1>2 DEF LinksInv
<1>3. CASE Legalize
  <2>1. AllCornered(tris) /\ WellLinked(tris)
    BY <1>2, <1>3 DEF Legalize, inVars
  <2>2. CASE tris' = tris
    BY <2>1, <2>2
  <2>3. CASE FlipsOne
    <3>1. PICK i \in 1..Len(tris), e \in 1..3 : Flippable(i, e) /\ tris' = Flip(i, e)
      BY <2>3 DEF FlipsOne
    <3>2. Len(pts) \in Nat /\ Len(tris) \in Nat /\ MeshIs(Len(pts), Len(tris)) /\ PointsAre(Len(pts))
      BY <1>0, MeshOf
    <3> QED
      BY <2>1, <3>1, <3>2, FlipKeepsLinks
  <2> QED
    BY <1>0, <1>3, <2>2, <2>3, LegalizeUnfolds
<1>4. CASE InsertGrid
  <2>1. AllCornered(tris) /\ WellLinked(tris)
    BY <1>2, <1>4 DEF InsertGrid, Resting, inVars
  <2>2. Insert(region.grid[offered + 1])
    BY <1>4 DEF InsertGrid
  <2> QED
    BY <1>0, <2>1, <2>2, InsertLinks
<1>5. CASE Split
  <2>1. AllCornered(tris) /\ WellLinked(tris)
    BY <1>2, <1>5 DEF Split, Resting, inVars
  <2>2. \E p : Insert(p)
    BY <1>5 DEF Split
  <2> QED
    BY <1>0, <2>1, <2>2, InsertLinks
<1>6. CASE NextPass
  BY <1>2, <1>6 DEF NextPass, Resting, inVars, meshVars
<1>7. CASE UNCHANGED vars
  BY <1>2, <1>7 DEF vars, inVars, meshVars
<1>8. CASE Bridge \/ StartClip \/ Clip \/ Export
  <2>1. pc' # "mesh"
    BY <1>8 DEF Bridge, StartClip, Clip, Export
  <2> QED
    BY <2>1
<1> QED
  BY <1>1, <1>3, <1>4, <1>5, <1>6, <1>7, <1>8 DEF Next, Done

(* Neighbours know each other, for every region and however many points are *)
(* inserted, wherever the ears run no edge twice one way.                   *)
THEOREM NeighboursAgree == Spec => []LinksAgree
<1>1. Init => LinksInv
  <2>1. Init => pc # "mesh"
    BY DEF Init
  <2> QED
    BY <2>1, MeshTypesBegin DEF LinksInv
<1>2. LinksInv => LinksAgree
  BY DEF LinksInv, LinksAgree, WellLinked
<1> QED
  BY <1>1, <1>2, LinksStay, PTL DEF Spec

------------------------------------------------------------------------------
(* The sides of the region.                                                 *)

(* A flip keeps every edge but the one that it flips.                       *)
LEMMA FlipKeepsSides ==
  ASSUME NEW np \in Nat, NEW nt \in Nat, MeshIs(np, nt), PointsAre(np),
         NEW i \in 1..nt, NEW e \in 1..3, Flippable(i, e),
         NEW s \in constrained, HasEdge(tris, s)
  PROVE  HasEdge(Flip(i, e), s)
<1> DEFINE a    == A(i, e)
           b    == B(i, e)
           apex == Apex(i, e)
           j    == Beyond(i, e)
           f    == Shared(i, e)
           opp  == Opp(i, e)
           us   == Flip(i, e)
<1>q. Quadrilateral(np, nt, i, e)
  BY FlipParts
<1>1. {a, b} \notin constrained /\ j \in 1..nt /\ j # i /\ f \in 1..3
  BY <1>q DEF Quadrilateral
<1>2. /\ Edge(tris[i], e) = <<a, b>> /\ Edge(tris[i], Third(e, 1)) = <<b, apex>>
      /\ Edge(tris[i], Third(e, 2)) = <<apex, a>>
      /\ Edge(tris[j], f) = <<b, a>> /\ Edge(tris[j], Third(f, 1)) = <<a, opp>>
      /\ Edge(tris[j], Third(f, 2)) = <<opp, b>>
  BY FlipEdges
<1>3. DOMAIN us = 1..nt /\ \A k \in 1..nt : us[k].v = Halved(i, e)[k].v
  <2>1. us \in Seq(Triangles(np, nt)) /\ Len(us) = nt /\ \A k \in 1..nt : us[k].v = Halved(i, e)[k].v
    BY FlipShape
  <2> HIDE DEF us
  <2> QED
    BY <2>1
<1>4. /\ us[i].v = <<apex, a, opp>> /\ us[j].v = <<apex, opp, b>>
      /\ \A k \in (1..nt) \ {i, j} : us[k].v = tris[k].v
  <2>1. HalvesPlaced(np, nt, i, e)
    BY HalvedIs
  <2>2. \A k \in 1..nt : Halved(i, e)[k] = IF k = i THEN FirstHalf(i, e)
                                           ELSE IF k = j THEN SecondHalf(i, e) ELSE tris[k]
    BY <2>1 DEF HalvesPlaced
  <2>3. FirstHalf(i, e).v = <<apex, a, opp>> /\ SecondHalf(i, e).v = <<apex, opp, b>>
    BY DEF FirstHalf, SecondHalf
  <2> HIDE DEF us, a, b, apex, j, opp
  <2> QED
    BY <1>1, <1>3, <2>2, <2>3
<1>5. DOMAIN tris = 1..nt
  BY DEF MeshIs
<1> HIDE DEF a, b, apex, j, f, opp, us
<1>6. \A t, g : KeyOf(t, g) = {Edge(t, g)[1], Edge(t, g)[2]}
  BY DEF KeyOf, Key, Edge
<1>7. PICK m \in 1..nt, g \in 1..3 : KeyOf(tris[m], g) = s
  BY <1>5 DEF HasEdge
<1>8. /\ Edge(us[i], 1) = <<apex, a>> /\ Edge(us[i], 2) = <<a, opp>>
      /\ Edge(us[j], 2) = <<opp, b>> /\ Edge(us[j], 3) = <<b, apex>>
  BY <1>4 DEF Edge
<1>9. SUFFICES \E k \in 1..nt, h \in 1..3 : KeyOf(us[k], h) = s
  BY <1>3 DEF HasEdge, us
<1>10. CASE m = i
  <2>1. g = e \/ g = Third(e, 1) \/ g = Third(e, 2)
    BY ThirdIs
  <2>2. s # {a, b}
    BY <1>1
  <2>3. s = {b, apex} \/ s = {apex, a}
    BY <1>2, <1>6, <1>7, <1>10, <2>1, <2>2
  <2>4. KeyOf(us[i], 1) = {apex, a} /\ KeyOf(us[j], 3) = {b, apex}
    BY <1>6, <1>8
  <2> QED
    BY <1>1, <2>3, <2>4
<1>11. CASE m = j
  <2>1. g = f \/ g = Third(f, 1) \/ g = Third(f, 2)
    BY <1>1, ThirdIs
  <2>2. s # {b, a}
    BY <1>1
  <2>3. s = {a, opp} \/ s = {opp, b}
    BY <1>2, <1>6, <1>7, <1>11, <2>1, <2>2
  <2>4. KeyOf(us[i], 2) = {a, opp} /\ KeyOf(us[j], 2) = {opp, b}
    BY <1>6, <1>8
  <2> QED
    BY <1>1, <2>3, <2>4
<1>12. CASE m \notin {i, j}
  BY <1>4, <1>7, <1>12, SameCorners
<1> QED
  BY <1>10, <1>11, <1>12

(* An insertion keeps every edge.                                           *)
LEMMA InsertKeepsSides ==
  ASSUME NEW np \in Nat, NEW nt \in Nat, MeshIs(np, nt), PointsAre(np), NEW i \in 1..nt,
         NEW s, HasEdge(tris, s)
  PROVE  HasEdge(Inserted(i), s)
<1> DEFINE t  == tris[i]
           us == Inserted(i)
<1>s. SpreadTo(np, nt, i)
  BY SpreadIs
<1>1. DOMAIN us = 1..(nt + 2) /\ \A k \in 1..(nt + 2) : us[k].v = Spread(i)[k].v
  <2>1. us \in Seq(Triangles(np + 1, nt + 2)) /\ Len(us) = nt + 2 /\ \A k \in 1..(nt + 2) : us[k].v = Spread(i)[k].v
    BY InsertShape
  <2> HIDE DEF us
  <2> QED
    BY <2>1
<1>2. /\ Spread(i)[i].v = <<t.v[1], t.v[2], np + 1>> /\ Spread(i)[nt + 1].v = <<t.v[2], t.v[3], np + 1>>
      /\ Spread(i)[nt + 2].v = <<t.v[3], t.v[1], np + 1>>
      /\ \A k \in (1..nt) \ {i} : Spread(i)[k] = tris[k]
  BY <1>s DEF SpreadTo, Tri
<1> HIDE DEF us
<1>3. /\ us[i].v = <<t.v[1], t.v[2], np + 1>> /\ us[nt + 1].v = <<t.v[2], t.v[3], np + 1>>
      /\ us[nt + 2].v = <<t.v[3], t.v[1], np + 1>>
      /\ \A k \in (1..nt) \ {i} : us[k].v = tris[k].v
  BY <1>1, <1>2
<1>4. PICK m \in 1..nt, g \in 1..3 : KeyOf(tris[m], g) = s
  BY DEF HasEdge, MeshIs
<1>5. SUFFICES \E k \in 1..(nt + 2), h \in 1..3 : KeyOf(us[k], h) = s
  BY <1>1 DEF HasEdge, us
<1>6. CASE m = i
  <2>1. s = Key(t.v[1], t.v[2]) \/ s = Key(t.v[2], t.v[3]) \/ s = Key(t.v[3], t.v[1])
    BY <1>4, <1>6 DEF KeyOf
  <2>2. /\ KeyOf(us[i], 1) = Key(t.v[1], t.v[2]) /\ KeyOf(us[nt + 1], 1) = Key(t.v[2], t.v[3])
        /\ KeyOf(us[nt + 2], 1) = Key(t.v[3], t.v[1])
    BY <1>3 DEF KeyOf
  <2>3. 1 \in 1..3 /\ i \in 1..(nt + 2) /\ nt + 1 \in 1..(nt + 2) /\ nt + 2 \in 1..(nt + 2)
    OBVIOUS
  <2> QED
    BY <2>1, <2>2, <2>3
<1>7. CASE m # i
  BY <1>3, <1>4, <1>7, SameCorners
<1> QED
  BY <1>6, <1>7

(* While there is a mesh no step loses a side of the region.                *)
SidesKept == pc = "mesh" => \A k \in constrained : HasEdge(tris, k) => HasEdge(tris', k)
(* Legalize flips no constrained edge, and Insert splits none.              *)
LEMMA SidesStay == MeshTypeOK /\ [Next]_vars => SidesKept
<1> SUFFICES ASSUME MeshTypeOK, [Next]_vars, pc = "mesh", NEW s \in constrained, HasEdge(tris, s)
             PROVE  HasEdge(tris', s)
  BY DEF SidesKept
<1>0. PolygonOK /\ PointsOK /\ TrianglesOK
  BY DEF MeshTypeOK
<1>m. Len(pts) \in Nat /\ Len(tris) \in Nat /\ MeshIs(Len(pts), Len(tris)) /\ PointsAre(Len(pts))
  BY <1>0, MeshOf
<1>1. CASE Legalize
  <2>1. CASE tris' = tris
    BY <2>1
  <2>2. CASE FlipsOne
    BY <1>m, <2>2, FlipKeepsSides DEF FlipsOne
  <2> QED
    BY <1>0, <1>1, <2>1, <2>2, LegalizeUnfolds
<1>2. ASSUME NEW p, Insert(p) PROVE HasEdge(tris', s)
  <2>1. UNCHANGED meshVars \/ \E i \in 1..Len(tris) : InsertedInto(p, i)
    BY <1>m, <1>2, InsertUnfolds
  <2>2. CASE UNCHANGED meshVars
    BY <2>2 DEF meshVars
  <2>3. CASE \E i \in 1..Len(tris) : InsertedInto(p, i)
    BY <1>m, <2>3, InsertKeepsSides DEF InsertedInto
  <2> QED
    BY <2>1, <2>2, <2>3
<1>3. CASE InsertGrid
  <2>1. Insert(region.grid[offered + 1])
    BY <1>3 DEF InsertGrid
  <2> QED
    BY <1>2, <2>1
<1>4. CASE Split
  <2>1. \E p : Insert(p)
    BY <1>4 DEF Split
  <2> QED
    BY <1>2, <2>1
<1>5. CASE NextPass \/ Export \/ UNCHANGED vars
  <2>1. tris' = tris
    BY <1>5 DEF NextPass, Export, vars, meshVars
  <2> QED
    BY <2>1
<1>6. CASE Bridge \/ StartClip \/ Clip \/ Build
  BY <1>6 DEF Bridge, StartClip, Clip, Build
<1> QED
  BY <1>1, <1>3, <1>4, <1>5, <1>6 DEF Next, Done

(* The boundary that the neighbouring faces share stays as it was sampled:  *)
(* no flip and no insertion loses a side of any loop.                       *)
THEOREM BoundaryStays == Spec => LoopEdgesStay
BY MeshTypesBegin, MeshTypesStay, SidesStay, PTL DEF Spec, LoopEdgesStay, SidesKept

------------------------------------------------------------------------------
(* The way that triangles turn.                                             *)

(* The halves of a quadrilateral have its area, however it is halved, and   *)
(* its corners may be taken in turn.                                        *)
LEMMA HalvesHaveTheArea ==
  ASSUME NEW a \in Int \X Int, NEW b \in Int \X Int, NEW p \in Int \X Int, NEW o \in Int \X Int
  PROVE  /\ Orient(p, o, b) - Orient(p, o, a) = Orient(a, b, p) + Orient(b, a, o)
         /\ Orient(p, a, o) = -Orient(p, o, a)
         /\ Orient(a, b, p) = Orient(b, p, a) /\ Orient(a, b, p) = Orient(p, a, b)
         /\ Orient(a, b, p) \in Int
<1> DEFINE a1 == a[1]
           a2 == a[2]
           b1 == b[1]
           b2 == b[2]
           p1 == p[1]
           p2 == p[2]
           o1 == o[1]
           o2 == o[2]
<1>1. /\ a1 \in Int /\ a2 \in Int /\ b1 \in Int /\ b2 \in Int
      /\ p1 \in Int /\ p2 \in Int /\ o1 \in Int /\ o2 \in Int
  OBVIOUS
<1>2. /\ Orient(p, o, b) = (o1 - p1) * (b2 - p2) - (o2 - p2) * (b1 - p1)
      /\ Orient(p, o, a) = (o1 - p1) * (a2 - p2) - (o2 - p2) * (a1 - p1)
      /\ Orient(p, a, o) = (a1 - p1) * (o2 - p2) - (a2 - p2) * (o1 - p1)
      /\ Orient(a, b, p) = (b1 - a1) * (p2 - a2) - (b2 - a2) * (p1 - a1)
      /\ Orient(b, p, a) = (p1 - b1) * (a2 - b2) - (p2 - b2) * (a1 - b1)
      /\ Orient(p, a, b) = (a1 - p1) * (b2 - p2) - (a2 - p2) * (b1 - p1)
      /\ Orient(b, a, o) = (a1 - b1) * (o2 - b2) - (a2 - b2) * (o1 - b1)
  BY DEF Orient
<1> HIDE DEF a1, a2, b1, b2, p1, p2, o1, o2
<1> QED
  BY <1>1, <1>2

(* Every triangle runs anticlockwise.                                       *)
Anticlockwise == \A i \in DOMAIN tris : Area(tris[i]) > 0

(* The area of a triangle, from any of its edges.                           *)
LEMMA AreaAround ==
  ASSUME NEW np \in Nat, NEW nt \in Nat, MeshIs(np, nt), PointsAre(np), NEW i \in 1..nt, NEW e \in 1..3
  PROVE  Area(tris[i]) = Orient(pts[tris[i].v[e]], pts[tris[i].v[Third(e, 1)]], pts[tris[i].v[Third(e, 2)]])
<1> DEFINE x == pts[tris[i].v[1]]
           y == pts[tris[i].v[2]]
           z == pts[tris[i].v[3]]
<1>1. x \in Int \X Int /\ y \in Int \X Int /\ z \in Int \X Int
  <2>1. tris[i].v[1] \in 1..np /\ tris[i].v[2] \in 1..np /\ tris[i].v[3] \in 1..np
    BY PartsOf
  <2>2. \A k \in 1..np : pts[k] \in Int \X Int
    BY DEF PointsAre
  <2> QED
    BY <2>1, <2>2
<1>2. Area(tris[i]) = Orient(x, y, z)
  BY DEF Area, Corner
<1> HIDE DEF x, y, z
<1>3. Orient(x, y, z) = Orient(y, z, x) /\ Orient(x, y, z) = Orient(z, x, y)
  BY <1>1, HalvesHaveTheArea
<1>4. e = 1 \/ e = 2 \/ e = 3
  OBVIOUS
<1>5. /\ Third(1, 1) = 2 /\ Third(1, 2) = 3 /\ Third(2, 1) = 3 /\ Third(2, 2) = 1
      /\ Third(3, 1) = 1 /\ Third(3, 2) = 2
  BY DEF Third
<1> QED
  BY <1>2, <1>3, <1>4, <1>5 DEF x, y, z

(* The corners around a flip, and what they are after it.                   *)
FlipsCorners(np, nt, i, e) ==
  LET j == Beyond(i, e)
      f == Shared(i, e)
      us == Flip(i, e)
  IN /\ j \in 1..nt /\ j # i /\ f \in 1..3 /\ tris[j].v[f] = B(i, e) /\ tris[j].v[Third(f, 1)] = A(i, e)
     /\ A(i, e) \in 1..np /\ B(i, e) \in 1..np /\ Apex(i, e) \in 1..np /\ Opp(i, e) \in 1..np
     /\ \A k \in 1..nt :
          us[k].v = IF k = i THEN <<Apex(i, e), A(i, e), Opp(i, e)>>
                    ELSE IF k = j THEN <<Apex(i, e), Opp(i, e), B(i, e)>> ELSE tris[k].v
(* The two halves swap their diagonal.                                      *)
LEMMA FlipCorners ==
  ASSUME NEW np \in Nat, NEW nt \in Nat, MeshIs(np, nt), PointsAre(np),
         NEW i \in 1..nt, NEW e \in 1..3, Flippable(i, e)
  PROVE  FlipsCorners(np, nt, i, e)
<1> DEFINE a    == A(i, e)
           b    == B(i, e)
           apex == Apex(i, e)
           j    == Beyond(i, e)
           f    == Shared(i, e)
           opp  == Opp(i, e)
           us   == Flip(i, e)
<1>q. Quadrilateral(np, nt, i, e)
  BY FlipParts
<1>1. /\ j \in 1..nt /\ j # i /\ f \in 1..3 /\ tris[j].v[f] = b /\ tris[j].v[Third(f, 1)] = a
      /\ a \in 1..np /\ b \in 1..np /\ apex \in 1..np /\ opp \in 1..np
  BY <1>q DEF Quadrilateral
<1>2. \A k \in 1..nt : us[k].v = IF k = i THEN <<apex, a, opp>> ELSE IF k = j THEN <<apex, opp, b>> ELSE tris[k].v
  <2> SUFFICES ASSUME NEW k \in 1..nt
               PROVE  us[k].v = IF k = i THEN <<apex, a, opp>> ELSE IF k = j THEN <<apex, opp, b>> ELSE tris[k].v
    OBVIOUS
  <2>1. HalvesPlaced(np, nt, i, e)
    BY HalvedIs
  <2>2. Halved(i, e)[k] = IF k = i THEN FirstHalf(i, e) ELSE IF k = j THEN SecondHalf(i, e) ELSE tris[k]
    BY <2>1 DEF HalvesPlaced
  <2>3. FirstHalf(i, e).v = <<apex, a, opp>> /\ SecondHalf(i, e).v = <<apex, opp, b>>
    BY DEF FirstHalf, SecondHalf
  <2>4. us[k].v = Halved(i, e)[k].v
    BY FlipShape
  <2> HIDE DEF us, a, b, apex, j, opp
  <2> QED
    BY <2>2, <2>3, <2>4
<1> QED
  BY <1>1, <1>2 DEF FlipsCorners

(* A flip leaves two triangles that have the area of the two before, and    *)
(* turn the same way: the new diagonal passes between the ends of the old.  *)
FlipsAreas(nt, i, e) ==
  LET us == Flip(i, e)
      j  == Beyond(i, e)
  IN /\ j \in 1..nt /\ j # i
     /\ Area(us[i]) \in Int /\ Area(us[j]) \in Int /\ Area(tris[i]) \in Int /\ Area(tris[j]) \in Int
     /\ Area(us[i]) + Area(us[j]) = Area(tris[i]) + Area(tris[j])
     /\ (Area(us[i]) > 0 /\ Area(us[j]) > 0) \/ (Area(us[i]) < 0 /\ Area(us[j]) < 0)
     /\ \A k \in 1..nt : k # i /\ k # j => Area(us[k]) = Area(tris[k])

(* The halves of the quadrilateral have its area.                           *)
LEMMA FlipAreas ==
  ASSUME NEW np \in Nat, NEW nt \in Nat, MeshIs(np, nt), PointsAre(np),
         NEW i \in 1..nt, NEW e \in 1..3, Flippable(i, e)
  PROVE  FlipsAreas(nt, i, e)
<1> DEFINE a    == A(i, e)
           b    == B(i, e)
           apex == Apex(i, e)
           j    == Beyond(i, e)
           f    == Shared(i, e)
           opp  == Opp(i, e)
           us   == Flip(i, e)
           x    == Orient(pts[apex], pts[opp], pts[a])
           y    == Orient(pts[apex], pts[opp], pts[b])
<1>q. FlipsCorners(np, nt, i, e)
  BY FlipCorners
<1>1. /\ j \in 1..nt /\ j # i /\ f \in 1..3 /\ tris[j].v[f] = b /\ tris[j].v[Third(f, 1)] = a
      /\ a \in 1..np /\ b \in 1..np /\ apex \in 1..np /\ opp \in 1..np
  BY <1>q DEF FlipsCorners
<1>2. \A k \in 1..nt : us[k].v = IF k = i THEN <<apex, a, opp>> ELSE IF k = j THEN <<apex, opp, b>> ELSE tris[k].v
  BY <1>q DEF FlipsCorners
<1>4. Area(tris[i]) = Orient(pts[a], pts[b], pts[apex])
  BY AreaAround DEF A, B, Apex
<1>5. Area(tris[j]) = Orient(pts[b], pts[a], pts[opp])
  <2>1. tris[j].v[Third(f, 2)] = opp
    BY DEF Opp
  <2> HIDE DEF a, b, j, f, opp
  <2> QED
    BY <1>1, <2>1, AreaAround
<1> HIDE DEF a, b, apex, j, f, opp, us
<1>6. pts[a] \in Int \X Int /\ pts[b] \in Int \X Int /\ pts[apex] \in Int \X Int /\ pts[opp] \in Int \X Int
  <2>1. \A m \in 1..np : pts[m] \in Int \X Int
    BY DEF PointsAre
  <2> QED
    BY <1>1, <2>1
<1>8. /\ y - x = Orient(pts[a], pts[b], pts[apex]) + Orient(pts[b], pts[a], pts[opp])
      /\ Orient(pts[apex], pts[a], pts[opp]) = -x
  <2>1. \A u, v, w, z \in Int \X Int :
          /\ Orient(w, z, v) - Orient(w, z, u) = Orient(u, v, w) + Orient(v, u, z)
          /\ Orient(w, u, z) = -Orient(w, z, u)
    BY HalvesHaveTheArea
  <2>2. Orient(pts[apex], pts[opp], pts[b]) - Orient(pts[apex], pts[opp], pts[a])
          = Orient(pts[a], pts[b], pts[apex]) + Orient(pts[b], pts[a], pts[opp])
    BY <1>6, <2>1
  <2>3. Orient(pts[apex], pts[a], pts[opp]) = -Orient(pts[apex], pts[opp], pts[a])
    BY <1>6, <2>1
  <2> QED
    BY <2>2, <2>3
<1>i. /\ x \in Int /\ y \in Int
      /\ Orient(pts[a], pts[b], pts[apex]) \in Int /\ Orient(pts[b], pts[a], pts[opp]) \in Int
  <2>1. \A u, v, w \in Int \X Int : Orient(u, v, w) \in Int
    BY HalvesHaveTheArea
  <2> QED
    BY <1>6, <2>1
<1>9. Area(us[i]) = -x
  <2>1. Area(us[i]) = Orient(pts[apex], pts[a], pts[opp])
    BY <1>2 DEF Area, Corner
  <2> HIDE DEF x
  <2> QED
    BY <1>8, <2>1
<1>10. Area(us[j]) = y
  BY <1>1, <1>2 DEF Area, Corner
<1>11. \A k \in 1..nt : k # i /\ k # j => Area(us[k]) = Area(tris[k])
  BY <1>2 DEF Area, Corner
<1>o. Opposite(x, y)
  BY DEF Flippable, A, B, Apex, Beyond, Shared, Opp, a, b, apex, opp, j, f
<1> HIDE DEF x, y
<1>12. Area(us[i]) + Area(us[j]) = Area(tris[i]) + Area(tris[j])
  <2> DEFINE ai == Area(us[i])
             aj == Area(us[j])
             ti == Area(tris[i])
             tj == Area(tris[j])
             oi == Orient(pts[a], pts[b], pts[apex])
             oj == Orient(pts[b], pts[a], pts[opp])
  <2>1. ai = -x /\ aj = y /\ ti = oi /\ tj = oj /\ y - x = oi + oj /\ x \in Int /\ y \in Int /\ oi \in Int /\ oj \in Int
    BY <1>4, <1>5, <1>8, <1>9, <1>10, <1>i
  <2> HIDE DEF ai, aj, ti, tj, oi, oj
  <2>2. ai + aj = ti + tj
    BY <2>1
  <2> QED
    BY <2>2 DEF ai, aj, ti, tj
<1>13. (Area(us[i]) > 0 /\ Area(us[j]) > 0) \/ (Area(us[i]) < 0 /\ Area(us[j]) < 0)
  BY <1>9, <1>10, <1>i, <1>o DEF Opposite
<1>14. Area(us[i]) \in Int /\ Area(us[j]) \in Int /\ Area(tris[i]) \in Int /\ Area(tris[j]) \in Int
  BY <1>4, <1>5, <1>9, <1>10, <1>i
<1> QED
  BY <1>1, <1>11, <1>12, <1>13, <1>14 DEF FlipsAreas, j, us

(* A flip turns no triangle over.                                           *)
LEMMA FlipKeepsTurning ==
  ASSUME NEW np \in Nat, NEW nt \in Nat, MeshIs(np, nt), PointsAre(np), Anticlockwise,
         NEW i \in 1..nt, NEW e \in 1..3, Flippable(i, e), NEW k \in 1..nt
  PROVE  Area(Flip(i, e)[k]) > 0
<1> DEFINE us == Flip(i, e)
           j  == Beyond(i, e)
           ui == Area(us[i])
           uj == Area(us[j])
           ti == Area(tris[i])
           tj == Area(tris[j])
<1>1. FlipsAreas(nt, i, e)
  BY FlipAreas
<1>2. /\ j \in 1..nt /\ j # i
      /\ ui \in Int /\ uj \in Int /\ ti \in Int /\ tj \in Int /\ ui + uj = ti + tj
      /\ (ui > 0 /\ uj > 0) \/ (ui < 0 /\ uj < 0)
  BY <1>1 DEF FlipsAreas
<1>3. \A m \in 1..nt : m # i /\ m # j => Area(us[m]) = Area(tris[m])
  BY <1>1 DEF FlipsAreas
<1>4. \A m \in 1..nt : Area(tris[m]) > 0
  BY DEF Anticlockwise, MeshIs
<1>5. ti > 0 /\ tj > 0
  BY <1>2, <1>4
<1> HIDE DEF us, j, ui, uj, ti, tj
<1>6. ui > 0 /\ uj > 0
  BY <1>2, <1>5
<1>7. \A m \in 1..nt : Area(us[m]) > 0
  BY <1>3, <1>4, <1>6 DEF ui, uj
<1> QED
  BY <1>7 DEF us

(* Twice the signed area of the k-th triangle.                              *)
AreaAt(k) == Area(tris[k])

(* Nor does an insertion: the point is inside the triangle that it spreads, *)
(* so the three around it run anticlockwise, and the others stay.           *)
LEMMA InsertedTurns ==
  ASSUME NEW np \in Nat, NEW nt \in Nat, MeshIs(np, nt), PointsAre(np),
         NEW p, NEW i \in 1..nt, InsertedInto(p, i)
  PROVE  /\ DOMAIN tris' = 1..(nt + 2)
         /\ \A k \in 1..(nt + 2) : AreaAt(k)' > 0 \/ (k \in 1..nt /\ AreaAt(k)' = AreaAt(k))
<1> DEFINE t  == tris[i]
           us == Inserted(i)
           vs == Append(pts, p)
<1>s. SpreadTo(np, nt, i)
  BY SpreadIs
<1>1. DOMAIN us = 1..(nt + 2) /\ \A k \in 1..(nt + 2) : us[k].v = Spread(i)[k].v
  <2>1. us \in Seq(Triangles(np + 1, nt + 2)) /\ Len(us) = nt + 2 /\ \A k \in 1..(nt + 2) : us[k].v = Spread(i)[k].v
    BY InsertShape
  <2> HIDE DEF us
  <2> QED
    BY <2>1
<1>2. /\ Spread(i)[i].v = <<t.v[1], t.v[2], np + 1>> /\ Spread(i)[nt + 1].v = <<t.v[2], t.v[3], np + 1>>
      /\ Spread(i)[nt + 2].v = <<t.v[3], t.v[1], np + 1>>
      /\ \A k \in (1..nt) \ {i} : Spread(i)[k] = tris[k]
  BY <1>s DEF SpreadTo, Tri
<1>3. \A k \in 1..np : vs[k] = pts[k]
  <2>1. pts \in Seq(Int \X Int) /\ Len(pts) = np
    BY DEF PointsAre
  <2> QED
    BY <2>1
<1>4. vs[np + 1] = p
  <2>1. pts \in Seq(Int \X Int) /\ Len(pts) = np
    BY DEF PointsAre
  <2> QED
    BY <2>1
<1>5. tris' = us /\ pts' = vs /\ InsideTri(pts[t.v[1]], pts[t.v[2]], pts[t.v[3]], p)
  BY DEF InsertedInto, Corner
<1> HIDE DEF us, vs
<1>6. \A k \in 1..nt : tris[k].v[1] \in 1..np /\ tris[k].v[2] \in 1..np /\ tris[k].v[3] \in 1..np
  BY PartsOf
<1>7. ASSUME NEW k \in 1..(nt + 2)
      PROVE  LET x == Orient(vs[us[k].v[1]], vs[us[k].v[2]], vs[us[k].v[3]])
             IN x > 0 \/ (k \in 1..nt /\ x = Area(tris[k]))
  <2>0. vs[t.v[1]] = pts[t.v[1]] /\ vs[t.v[2]] = pts[t.v[2]] /\ vs[t.v[3]] = pts[t.v[3]]
    BY <1>3, <1>6
  <2>1. CASE k = i
    <3>1. us[k].v[1] = t.v[1] /\ us[k].v[2] = t.v[2] /\ us[k].v[3] = np + 1
      BY <1>1, <1>2, <2>1
    <3> QED
      BY <1>4, <1>5, <2>0, <3>1 DEF InsideTri
  <2>2. CASE k = nt + 1
    <3>1. us[k].v[1] = t.v[2] /\ us[k].v[2] = t.v[3] /\ us[k].v[3] = np + 1
      BY <1>1, <1>2, <2>2
    <3> QED
      BY <1>4, <1>5, <2>0, <3>1 DEF InsideTri
  <2>3. CASE k = nt + 2
    <3>1. us[k].v[1] = t.v[3] /\ us[k].v[2] = t.v[1] /\ us[k].v[3] = np + 1
      BY <1>1, <1>2, <2>3
    <3> QED
      BY <1>4, <1>5, <2>0, <3>1 DEF InsideTri
  <2>4. CASE k \in (1..nt) \ {i}
    <3>1. us[k].v = tris[k].v
      BY <1>1, <1>2, <2>4
    <3>2. vs[tris[k].v[1]] = pts[tris[k].v[1]] /\ vs[tris[k].v[2]] = pts[tris[k].v[2]] /\ vs[tris[k].v[3]] = pts[tris[k].v[3]]
      BY <1>3, <1>6, <2>4
    <3>3. Orient(vs[us[k].v[1]], vs[us[k].v[2]], vs[us[k].v[3]]) = Area(tris[k])
      BY <3>1, <3>2 DEF Area, Corner
    <3> QED
      BY <2>4, <3>3
  <2>5. k = i \/ k = nt + 1 \/ k = nt + 2 \/ k \in (1..nt) \ {i}
    OBVIOUS
  <2> QED
    BY <2>1, <2>2, <2>3, <2>4, <2>5
<1>8. \A k \in 1..(nt + 2) : AreaAt(k)' = Orient(vs[us[k].v[1]], vs[us[k].v[2]], vs[us[k].v[3]])
  BY <1>5 DEF AreaAt, Area, Corner
<1>9. \A k \in 1..nt : AreaAt(k) = Area(tris[k])
  BY DEF AreaAt
<1> QED
  BY <1>1, <1>5, <1>7, <1>8, <1>9

(* So where all run anticlockwise, all do after the insertion.              *)
LEMMA InsertKeepsTurning ==
  ASSUME NEW np \in Nat, NEW nt \in Nat, MeshIs(np, nt), PointsAre(np), Anticlockwise,
         NEW p, NEW i \in 1..nt, InsertedInto(p, i)
  PROVE  Anticlockwise'
<1>1. /\ DOMAIN tris' = 1..(nt + 2)
      /\ \A k \in 1..(nt + 2) : AreaAt(k)' > 0 \/ (k \in 1..nt /\ AreaAt(k)' = AreaAt(k))
  BY InsertedTurns
<1>2. \A k \in 1..nt : AreaAt(k) > 0
  BY DEF Anticlockwise, MeshIs, AreaAt
<1>3. \A k \in DOMAIN tris' : AreaAt(k)' > 0
  BY <1>1, <1>2
<1> QED
  BY <1>3 DEF Anticlockwise, AreaAt

(* Once the triangles all run anticlockwise, no step of the mesh turns one  *)
(* over.                                                                    *)
KeepsTurning == pc = "mesh" /\ Anticlockwise => Anticlockwise'
(* Legalize and Insert keep the turn of what they split.                    *)
LEMMA TurningStays == MeshTypeOK /\ [Next]_vars => KeepsTurning
<1> SUFFICES ASSUME MeshTypeOK, [Next]_vars, pc = "mesh", Anticlockwise
             PROVE  Anticlockwise'
  BY DEF KeepsTurning
<1>0. PolygonOK /\ PointsOK /\ TrianglesOK
  BY DEF MeshTypeOK
<1>m. Len(pts) \in Nat /\ Len(tris) \in Nat /\ MeshIs(Len(pts), Len(tris)) /\ PointsAre(Len(pts))
  BY <1>0, MeshOf
<1>1. ASSUME tris' = tris, pts' = pts PROVE Anticlockwise'
  <2>1. \A k \in DOMAIN tris : Orient(pts[tris[k].v[1]], pts[tris[k].v[2]], pts[tris[k].v[3]]) > 0
    BY DEF Anticlockwise, Area, Corner
  <2>2. \A k \in DOMAIN tris' : Orient(pts'[tris'[k].v[1]], pts'[tris'[k].v[2]], pts'[tris'[k].v[3]]) > 0
    BY <1>1, <2>1
  <2> QED
    BY <2>2 DEF Anticlockwise, Area, Corner
<1>2. CASE Legalize
  <2>1. pts' = pts
    BY <1>2 DEF Legalize
  <2>2. CASE tris' = tris
    BY <1>1, <2>1, <2>2
  <2>3. CASE FlipsOne
    <3>1. PICK i \in 1..Len(tris), e \in 1..3 : Flippable(i, e) /\ tris' = Flip(i, e)
      BY <2>3 DEF FlipsOne
    <3>2. DOMAIN Flip(i, e) = 1..Len(tris)
      BY <1>m, <3>1, FlipShape
    <3>3. \A k \in 1..Len(tris) : Area(Flip(i, e)[k]) > 0
      BY <1>m, <3>1, FlipKeepsTurning
    <3> QED
      BY <2>1, <3>1, <3>2, <3>3 DEF Anticlockwise, Area, Corner
  <2> QED
    BY <1>0, <1>2, <2>2, <2>3, LegalizeUnfolds
<1>3. ASSUME NEW p, Insert(p) PROVE Anticlockwise'
  <2>1. UNCHANGED meshVars \/ \E i \in 1..Len(tris) : InsertedInto(p, i)
    BY <1>m, <1>3, InsertUnfolds
  <2>2. CASE UNCHANGED meshVars
    BY <1>1, <2>2 DEF meshVars
  <2>3. CASE \E i \in 1..Len(tris) : InsertedInto(p, i)
    BY <1>m, <2>3, InsertKeepsTurning
  <2> QED
    BY <2>1, <2>2, <2>3
<1>4. CASE InsertGrid
  <2>1. Insert(region.grid[offered + 1])
    BY <1>4 DEF InsertGrid
  <2> QED
    BY <1>3, <2>1
<1>5. CASE Split
  <2>1. \E p : Insert(p)
    BY <1>5 DEF Split
  <2> QED
    BY <1>3, <2>1
<1>6. CASE NextPass \/ Export \/ UNCHANGED vars
  <2>1. tris' = tris /\ pts' = pts
    BY <1>6 DEF NextPass, Export, vars, meshVars
  <2> QED
    BY <1>1, <2>1
<1>7. CASE Bridge \/ StartClip \/ Clip \/ Build
  BY <1>7 DEF Bridge, StartClip, Clip, Build
<1> QED
  BY <1>2, <1>4, <1>5, <1>6, <1>7 DEF Next, Done

(* Flips and insertions keep a mesh without folds, whatever the points.     *)
THEOREM NothingTurnsOver == Spec => [][KeepsTurning]_vars
BY MeshTypesBegin, MeshTypesStay, TurningStays, PTL DEF Spec

------------------------------------------------------------------------------
(* The areas of polygons.                                                   *)

(* What two points sweep as seen from the origin, and a triangle of three.  *)
LEMMA WedgeIs ==
  ASSUME NEW p \in Int \X Int, NEW q \in Int \X Int
  PROVE  /\ Wedge(p, q) \in Int /\ Wedge(q, p) = -Wedge(p, q) /\ Wedge(p, p) = 0
         /\ Wedge(p, q) = p[1] * q[2] - q[1] * p[2]
<1> DEFINE p1 == p[1]
           p2 == p[2]
           q1 == q[1]
           q2 == q[2]
<1>1. p1 \in Int /\ p2 \in Int /\ q1 \in Int /\ q2 \in Int
  OBVIOUS
<1>2. /\ Wedge(p, q) = p1 * q2 - q1 * p2 /\ Wedge(q, p) = q1 * p2 - p1 * q2
      /\ Wedge(p, p) = p1 * p2 - p1 * p2
  BY DEF Wedge
<1> HIDE DEF p1, p2, q1, q2
<1>3. /\ p1 * q2 - q1 * p2 \in Int /\ q1 * p2 - p1 * q2 = -(p1 * q2 - q1 * p2)
      /\ p1 * p2 - p1 * p2 = 0
  BY <1>1
<1> QED
  BY <1>2, <1>3 DEF p1, p2, q1, q2

(* Twice the area of a triangle is what its sides sweep.                    *)
LEMMA OrientSweeps ==
  ASSUME NEW a \in Int \X Int, NEW b \in Int \X Int, NEW c \in Int \X Int
  PROVE  Orient(a, b, c) = Wedge(a, b) + Wedge(b, c) + Wedge(c, a)
<1> DEFINE a1 == a[1]
           a2 == a[2]
           b1 == b[1]
           b2 == b[2]
           c1 == c[1]
           c2 == c[2]
<1>1. a1 \in Int /\ a2 \in Int /\ b1 \in Int /\ b2 \in Int /\ c1 \in Int /\ c2 \in Int
  OBVIOUS
<1>2. /\ Orient(a, b, c) = (b1 - a1) * (c2 - a2) - (b2 - a2) * (c1 - a1)
      /\ Wedge(a, b) = a1 * b2 - b1 * a2
      /\ Wedge(b, c) = b1 * c2 - c1 * b2
      /\ Wedge(c, a) = c1 * a2 - a1 * c2
  BY DEF Orient, Wedge
<1> HIDE DEF a1, a2, b1, b2, c1, c2
<1> QED
  BY <1>1, <1>2

(* What a way along corners sweeps, step by step.                           *)
StepArea(l, k) == Wedge(pts[l[k]], pts[l[k + 1]])
Steps(l) == [k \in 1..(Len(l) - 1) |-> StepArea(l, k)]
Swept(l) == Total(Steps(l))
PointsOf(D) == \A x \in D : pts[x] \in Int \X Int

(* Its steps are integers.                                                  *)
LEMMA StepsAre ==
  ASSUME NEW D, PointsOf(D), NEW l \in Seq(D), Len(l) >= 1
  PROVE  /\ Steps(l) \in Seq(Int) /\ Len(Steps(l)) = Len(l) - 1
         /\ \A k \in 1..(Len(l) - 1) : Steps(l)[k] = StepArea(l, k) /\ StepArea(l, k) \in Int
         /\ Swept(l) \in Int
<1>1. Len(l) - 1 \in Nat /\ \A k \in 1..(Len(l) - 1) : k \in 1..Len(l) /\ k + 1 \in 1..Len(l)
  OBVIOUS
<1>2. \A k \in 1..Len(l) : pts[l[k]] \in Int \X Int
  BY DEF PointsOf
<1>3. \A k \in 1..(Len(l) - 1) : StepArea(l, k) \in Int
  BY <1>1, <1>2, WedgeIs DEF StepArea
<1>4. Steps(l) \in Seq(Int) /\ Len(Steps(l)) = Len(l) - 1 /\ \A k \in 1..(Len(l) - 1) : Steps(l)[k] = StepArea(l, k)
  BY <1>1, <1>3 DEF Steps
<1>5. Swept(l) \in Int
  BY <1>4, TotalIsInt DEF Swept
<1> QED
  BY <1>3, <1>4, <1>5

(* What a polygon's last side sweeps, and what each side does.              *)
Closing(l) == Wedge(pts[l[Len(l)]], pts[l[1]])
Turns(l) == [i \in DOMAIN l |-> Wedge(pts[Pred(l, i)], pts[l[i]])]
(* A polygon's signed area is what its steps sweep, and the way back.       *)
LEMMA AreaIsSwept ==
  ASSUME NEW D, PointsOf(D), NEW l \in Seq(D), Len(l) >= 1
  PROVE  /\ SignedArea(l) = Swept(l) + Closing(l)
         /\ SignedArea(l) \in Int /\ Closing(l) \in Int /\ Swept(l) \in Int
         /\ Turns(l) \in Seq(Int) /\ Len(Turns(l)) = Len(l) /\ SignedArea(l) = Total(Turns(l))
<1> DEFINE n == Len(l)
           first == [k \in 1..1 |-> Closing(l)]
<1>1. n \in Nat /\ n >= 1 /\ DOMAIN l = 1..n
  OBVIOUS
<1>2. \A k \in 1..n : pts[l[k]] \in Int \X Int
  BY DEF PointsOf
<1>3. \A k \in 1..n : Pred(l, k) = l[IF k = 1 THEN n ELSE k - 1]
  <2> SUFFICES ASSUME NEW k \in 1..n PROVE Pred(l, k) = l[IF k = 1 THEN n ELSE k - 1]
    OBVIOUS
  <2>1. Pred(l, k) = l[((k - 2) % n) + 1]
    BY DEF Pred
  <2>2. CASE k = 1
    <3>1. (k - 2) % n = n - 1
      <4>1. (0 - 1) % n = n - 1
        BY <1>1
      <4> QED
        BY <2>2, <4>1
    <3> QED
      BY <1>1, <2>1, <2>2, <3>1
  <2>3. CASE k # 1
    <3>1. k - 2 \in 0..(n - 1) /\ (k - 2) + 1 = k - 1
      BY <1>1, <2>3
    <3> HIDE DEF n
    <3>2. (k - 2) % n = k - 2
      BY <1>1, <3>1, LeftOver
    <3> QED
      BY <2>1, <2>3, <3>1, <3>2
  <2> QED
    BY <2>2, <2>3
<1>4. Closing(l) \in Int
  BY <1>1, <1>2, WedgeIs DEF Closing
<1>5. /\ Turns(l)[1] = Closing(l) /\ \A k \in 1..(n - 1) : Turns(l)[1 + k] = StepArea(l, k)
  <2>1. \A k \in 1..n : Turns(l)[k] = Wedge(pts[Pred(l, k)], pts[l[k]])
    BY <1>1 DEF Turns
  <2>2. Turns(l)[1] = Closing(l)
    BY <1>1, <1>3, <2>1 DEF Closing
  <2>3. ASSUME NEW k \in 1..(n - 1) PROVE Turns(l)[1 + k] = StepArea(l, k)
    <3>1. 1 + k \in 1..n /\ 1 + k # 1 /\ (1 + k) - 1 = k /\ 1 + k = k + 1
      BY <1>1
    <3>2. Pred(l, 1 + k) = l[k]
      <4>1. Pred(l, 1 + k) = l[(1 + k) - 1]
        BY <1>3, <3>1
      <4> QED
        BY <3>1, <4>1
    <3> QED
      BY <2>1, <3>1, <3>2 DEF StepArea
  <2> QED
    BY <2>2, <2>3
<1>6. /\ Steps(l) \in Seq(Int) /\ Len(Steps(l)) = n - 1 /\ Swept(l) \in Int
      /\ \A k \in 1..(n - 1) : Steps(l)[k] = StepArea(l, k) /\ StepArea(l, k) \in Int
  BY StepsAre
<1>7. Turns(l) \in Seq(Int) /\ Len(Turns(l)) = n
  <2>1. \A k \in 1..n : Turns(l)[k] \in Int
    <3> SUFFICES ASSUME NEW k \in 1..n, k # 1 PROVE Turns(l)[k] \in Int
      BY <1>4, <1>5
    <3>1. k - 1 \in 1..(n - 1) /\ 1 + (k - 1) = k
      BY <1>1
    <3>2. Turns(l)[1 + (k - 1)] \in Int
      BY <1>5, <1>6, <3>1
    <3> QED
      BY <3>1, <3>2
  <2>2. Turns(l) = [k \in 1..n |-> Turns(l)[k]]
    BY <1>1 DEF Turns
  <2> HIDE DEF n
  <2> QED
    BY <1>1, <2>1, <2>2
<1>8. first \in Seq(Int) /\ Len(first) = 1 /\ first[1] = Closing(l) /\ \A k \in 1..1 : first[k] = Closing(l)
  BY <1>4
<1> HIDE DEF first, n
<1>9. Total(first) = Closing(l)
  <2>1. 1 \in 1..Len(first) /\ \A k \in 1..Len(first) : k # 1 => first[k] = 0
    BY <1>8
  <2> QED
    BY <1>8, <2>1, TotalOfOne
<1>10. Total(Turns(l)) = Total(first) + Total(Steps(l))
  <2>1. /\ Len(Turns(l)) = Len(first) + Len(Steps(l))
        /\ \A k \in 1..Len(first) : Turns(l)[k] = first[k]
        /\ \A k \in 1..Len(Steps(l)) : Turns(l)[Len(first) + k] = Steps(l)[k]
    BY <1>1, <1>5, <1>6, <1>7, <1>8
  <2> QED
    BY <1>6, <1>7, <1>8, <2>1, TotalJoins
<1>11. SignedArea(l) = Total(Turns(l))
  <2>1. Turns(l) = [i \in DOMAIN l |-> pts[Pred(l, i)][1] * pts[l[i]][2] - pts[l[i]][1] * pts[Pred(l, i)][2]]
    BY DEF Turns, Wedge
  <2> QED
    BY <2>1 DEF SignedArea
<1> QED
  BY <1>4, <1>6, <1>7, <1>9, <1>10, <1>11 DEF Swept, n

(* One way after another: what each sweeps, and the step between them.      *)
LEMMA SweptJoins ==
  ASSUME NEW D, PointsOf(D), NEW u \in Seq(D), NEW v \in Seq(D), Len(u) >= 1, Len(v) >= 1
  PROVE  Swept(u \o v) = Swept(u) + Wedge(pts[u[Len(u)]], pts[v[1]]) + Swept(v)
<1> DEFINE o == u \o v
           n == Len(u)
           m == Len(v)
           x == Wedge(pts[u[n]], pts[v[1]])
           mid == [k \in 1..n |-> IF k < n THEN Steps(u)[k] ELSE x]
<1>1. /\ n \in Nat /\ m \in Nat /\ n >= 1 /\ m >= 1 /\ o \in Seq(D) /\ Len(o) = n + m
      /\ (\A k \in 1..n : o[k] = u[k]) /\ \A k \in 1..m : o[n + k] = v[k]
  <2>1. n \in Nat /\ m \in Nat /\ n >= 1 /\ m >= 1
    OBVIOUS
  <2>2. o \in Seq(D) /\ Len(o) = n + m
    OBVIOUS
  <2>3. \A k \in 1..n : o[k] = u[k]
    OBVIOUS
  <2>4. \A k \in 1..m : o[n + k] = v[k]
    OBVIOUS
  <2> QED
    BY <2>1, <2>2, <2>3, <2>4
<1>2. /\ Steps(u) \in Seq(Int) /\ Len(Steps(u)) = n - 1 /\ \A k \in 1..(n - 1) : Steps(u)[k] = StepArea(u, k) /\ StepArea(u, k) \in Int
      /\ Steps(v) \in Seq(Int) /\ Len(Steps(v)) = m - 1 /\ \A k \in 1..(m - 1) : Steps(v)[k] = StepArea(v, k)
  BY StepsAre
<1>o. Len(o) >= 1
  BY <1>1
<1> HIDE DEF o
<1>3. Steps(o) \in Seq(Int) /\ Len(Steps(o)) = Len(o) - 1 /\ \A k \in 1..(Len(o) - 1) : Steps(o)[k] = StepArea(o, k)
  BY <1>1, <1>o, StepsAre
<1>4. x \in Int
  <2>1. u[n] \in D /\ v[1] \in D
    BY <1>1
  <2> QED
    BY <2>1, WedgeIs DEF PointsOf
<1>5. /\ mid \in Seq(Int) /\ Len(mid) = n /\ mid[n] = x /\ \A k \in 1..(n - 1) : mid[k] = Steps(u)[k]
  <2>1. \A k \in 1..n : k < n => k \in 1..(n - 1)
    BY <1>1
  <2>2. \A k \in 1..n : (IF k < n THEN Steps(u)[k] ELSE x) \in Int
    BY <1>2, <1>4, <2>1
  <2>3. n \in 1..n /\ ~(n < n) /\ \A k \in 1..(n - 1) : k \in 1..n /\ k < n
    BY <1>1
  <2> HIDE DEF x, n
  <2> QED
    BY <1>1, <2>2, <2>3
<1> HIDE DEF mid, n, m, x
<1>6. Total(mid) = Total(Steps(u)) + x
  <2>1. Len(mid) = Len(Steps(u)) + 1 /\ (\A k \in 1..Len(Steps(u)) : mid[k] = Steps(u)[k]) /\ mid[Len(Steps(u)) + 1] = x
    BY <1>1, <1>2, <1>5
  <2> QED
    BY <1>2, <1>4, <1>5, <2>1, TotalAppends
<1>7. Total(Steps(o)) = Total(mid) + Total(Steps(v))
  <2>1. Len(Steps(o)) = Len(mid) + Len(Steps(v))
    BY <1>1, <1>2, <1>3, <1>5
  <2>2. ASSUME NEW k \in 1..n PROVE Steps(o)[k] = mid[k]
    <3>1. k \in 1..(Len(o) - 1)
      BY <1>1
    <3>2. Steps(o)[k] = Wedge(pts[o[k]], pts[o[k + 1]]) /\ o[k] = u[k]
      BY <1>1, <1>3, <3>1 DEF StepArea
    <3>3. CASE k < n
      <4>1. k + 1 \in 1..n /\ k \in 1..(n - 1)
        BY <1>1, <3>3
      <4> QED
        BY <1>1, <1>2, <1>5, <3>2, <4>1 DEF StepArea
    <3>4. CASE k = n
      <4>1. o[n + 1] = v[1]
        BY <1>1
      <4> QED
        BY <1>5, <3>2, <3>4, <4>1 DEF x
    <3> QED
      BY <1>1, <3>3, <3>4
  <2>3. ASSUME NEW k \in 1..(m - 1) PROVE Steps(o)[n + k] = Steps(v)[k]
    <3>1. n + k \in 1..(Len(o) - 1) /\ k \in 1..m /\ k + 1 \in 1..m /\ (n + k) + 1 = n + (k + 1)
      BY <1>1
    <3>2. o[n + k] = v[k] /\ o[(n + k) + 1] = v[k + 1]
      BY <1>1, <3>1
    <3> QED
      BY <1>2, <1>3, <3>1, <3>2 DEF StepArea
  <2>4. (\A k \in 1..Len(mid) : Steps(o)[k] = mid[k]) /\ \A k \in 1..Len(Steps(v)) : Steps(o)[Len(mid) + k] = Steps(v)[k]
    BY <1>2, <1>5, <2>2, <2>3
  <2> QED
    BY <1>2, <1>3, <1>5, <2>1, <2>4, TotalJoins
<1> QED
  BY <1>6, <1>7 DEF Swept, o, n, x

(* A way is what leads to one of its corners and what goes on from there.   *)
LEMMA SweptSplits ==
  ASSUME NEW D, PointsOf(D), NEW o \in Seq(D), NEW p \in 1..Len(o)
  PROVE  Swept(o) = Swept(SubSeq(o, 1, p)) + Swept(SubSeq(o, p, Len(o)))
<1> DEFINE u == SubSeq(o, 1, p)
           v == SubSeq(o, p, Len(o))
           n == Len(o)
<1>1. /\ n \in Nat /\ p \in 1..n /\ u \in Seq(D) /\ Len(u) = p /\ v \in Seq(D) /\ Len(v) = n - p + 1
      /\ (\A k \in 1..p : u[k] = o[k]) /\ \A k \in 1..(n - p + 1) : v[k] = o[p + k - 1]
  <2>1. n \in Nat /\ p \in 1..n
    OBVIOUS
  <2>2. u \in Seq(D) /\ Len(u) = p /\ \A k \in 1..p : u[k] = o[k]
    OBVIOUS
  <2>3. v \in Seq(D) /\ Len(v) = n - p + 1 /\ \A k \in 1..(n - p + 1) : v[k] = o[p + k - 1]
    OBVIOUS
  <2> QED
    BY <2>1, <2>2, <2>3
<1> HIDE DEF u, v
<1>2. /\ Steps(u) \in Seq(Int) /\ Len(Steps(u)) = p - 1 /\ \A k \in 1..(p - 1) : Steps(u)[k] = StepArea(u, k)
      /\ Steps(v) \in Seq(Int) /\ Len(Steps(v)) = n - p /\ \A k \in 1..(n - p) : Steps(v)[k] = StepArea(v, k)
      /\ Steps(o) \in Seq(Int) /\ Len(Steps(o)) = n - 1 /\ \A k \in 1..(n - 1) : Steps(o)[k] = StepArea(o, k)
  <2>1. Len(u) >= 1 /\ Len(v) >= 1 /\ Len(o) >= 1 /\ Len(v) - 1 = n - p
    BY <1>1
  <2> HIDE DEF n
  <2>2. Steps(u) \in Seq(Int) /\ Len(Steps(u)) = p - 1 /\ \A k \in 1..(p - 1) : Steps(u)[k] = StepArea(u, k)
    BY <1>1, <2>1, StepsAre
  <2>3. Steps(v) \in Seq(Int) /\ Len(Steps(v)) = n - p /\ \A k \in 1..(n - p) : Steps(v)[k] = StepArea(v, k)
    BY <1>1, <2>1, StepsAre
  <2>4. Steps(o) \in Seq(Int) /\ Len(Steps(o)) = n - 1 /\ \A k \in 1..(n - 1) : Steps(o)[k] = StepArea(o, k)
    BY <1>1, <2>1, StepsAre DEF n
  <2> QED
    BY <2>2, <2>3, <2>4
<1> HIDE DEF n
<1>3. \A k \in 1..(p - 1) : Steps(o)[k] = Steps(u)[k]
  <2> SUFFICES ASSUME NEW k \in 1..(p - 1) PROVE Steps(o)[k] = Steps(u)[k]
    OBVIOUS
  <2>1. k \in 1..(n - 1) /\ k \in 1..p /\ k + 1 \in 1..p
    BY <1>1
  <2> QED
    BY <1>1, <1>2, <2>1 DEF StepArea
<1>4. \A k \in 1..(n - p) : Steps(o)[(p - 1) + k] = Steps(v)[k]
  <2> SUFFICES ASSUME NEW k \in 1..(n - p) PROVE Steps(o)[(p - 1) + k] = Steps(v)[k]
    OBVIOUS
  <2> DEFINE j == (p - 1) + k
  <2>1. j \in 1..(n - 1) /\ k \in 1..(n - p + 1) /\ k + 1 \in 1..(n - p + 1) /\ p + k - 1 = j /\ p + (k + 1) - 1 = j + 1
    BY <1>1
  <2>2. v[k] = o[j] /\ v[k + 1] = o[j + 1]
    <3>1. v[k] = o[p + k - 1] /\ v[k + 1] = o[p + (k + 1) - 1]
      BY <1>1, <2>1
    <3> QED
      BY <2>1, <3>1
  <2> HIDE DEF j
  <2>3. Steps(o)[j] = StepArea(o, j) /\ Steps(v)[k] = StepArea(v, k)
    BY <1>2, <2>1
  <2>4. Steps(o)[j] = Steps(v)[k]
    BY <2>2, <2>3 DEF StepArea
  <2> QED
    BY <2>4 DEF j
<1>5. Total(Steps(o)) = Total(Steps(u)) + Total(Steps(v))
  <2>1. /\ Len(Steps(o)) = Len(Steps(u)) + Len(Steps(v))
        /\ (\A k \in 1..Len(Steps(u)) : Steps(o)[k] = Steps(u)[k])
        /\ \A k \in 1..Len(Steps(v)) : Steps(o)[Len(Steps(u)) + k] = Steps(v)[k]
    BY <1>1, <1>2, <1>3, <1>4
  <2> QED
    BY <1>2, <2>1, TotalJoins
<1> QED
  BY <1>5 DEF Swept, u, v, n

(* Turned round, a polygon has the opposite area.                           *)
LEMMA AreaReverses ==
  ASSUME NEW D, PointsOf(D), NEW l \in Seq(D), Len(l) >= 1
  PROVE  SignedArea(Reverse(l)) = -SignedArea(l)
<1> DEFINE r == Reverse(l)
           n == Len(l)
           back == [k \in 1..(n - 1) |-> -Steps(l)[k]]
<1>1. /\ n \in Nat /\ n >= 1 /\ r \in Seq(D) /\ Len(r) = n /\ \A k \in 1..n : r[k] = l[n - k + 1]
  <2>1. r = [k \in 1..n |-> l[(n - k) + 1]]
    BY DEF Reverse
  <2>2. \A k \in 1..n : (n - k) + 1 \in 1..n
    OBVIOUS
  <2>3. \A k \in 1..n : l[(n - k) + 1] \in D
    BY <2>2
  <2> HIDE DEF r
  <2>4. n \in Nat /\ n >= 1
    OBVIOUS
  <2> HIDE DEF n
  <2> QED
    BY <2>1, <2>3, <2>4
<1> HIDE DEF r
<1>2. /\ SignedArea(l) = Swept(l) + Closing(l) /\ Swept(l) \in Int /\ Closing(l) \in Int
      /\ SignedArea(r) = Swept(r) + Closing(r) /\ Swept(r) \in Int /\ Closing(r) \in Int
  BY <1>1, AreaIsSwept
<1>3. /\ Steps(l) \in Seq(Int) /\ Len(Steps(l)) = n - 1 /\ \A k \in 1..(n - 1) : Steps(l)[k] = StepArea(l, k) /\ StepArea(l, k) \in Int
      /\ Steps(r) \in Seq(Int) /\ Len(Steps(r)) = n - 1 /\ \A k \in 1..(n - 1) : Steps(r)[k] = StepArea(r, k)
  BY <1>1, StepsAre
<1>4. \A k \in 1..n : l[k] \in D /\ pts[l[k]] \in Int \X Int
  BY DEF PointsOf
<1> HIDE DEF n
<1>5. back \in Seq(Int) /\ Len(back) = n - 1 /\ \A k \in 1..(n - 1) : back[k] = -Steps(l)[k]
  BY <1>1, <1>3
<1> HIDE DEF back
<1>6. Total(back) = -Total(Steps(l))
  BY <1>3, <1>5, TotalNegates
<1>7. \A k \in 1..(n - 1) : Steps(r)[k] = back[(n - 1) + 1 - k]
  <2> SUFFICES ASSUME NEW k \in 1..(n - 1) PROVE Steps(r)[k] = back[(n - 1) + 1 - k]
    OBVIOUS
  <2> DEFINE j == (n - 1) + 1 - k
  <2>1. j \in 1..(n - 1) /\ j \in 1..n /\ j + 1 \in 1..n /\ k \in 1..n /\ k + 1 \in 1..n /\ n - k + 1 = j + 1 /\ n - (k + 1) + 1 = j
    BY <1>1
  <2> HIDE DEF j
  <2>2. r[k] = l[j + 1] /\ r[k + 1] = l[j]
    <3>1. r[k] = l[n - k + 1] /\ r[k + 1] = l[n - (k + 1) + 1]
      BY <1>1, <2>1
    <3> QED
      BY <2>1, <3>1
  <2>3. Steps(r)[k] = Wedge(pts[l[j + 1]], pts[l[j]])
    BY <1>3, <2>2 DEF StepArea
  <2>4. Steps(l)[j] = Wedge(pts[l[j]], pts[l[j + 1]])
    BY <1>3, <2>1 DEF StepArea
  <2>5. Wedge(pts[l[j + 1]], pts[l[j]]) = -Wedge(pts[l[j]], pts[l[j + 1]])
    BY <1>4, <2>1, WedgeIs
  <2>6. Steps(r)[k] = back[j]
    BY <1>5, <2>1, <2>3, <2>4, <2>5
  <2> QED
    BY <2>6 DEF j
<1>8. Total(Steps(r)) = Total(back)
  <2>1. Len(Steps(r)) = Len(back) /\ \A k \in 1..Len(back) : Steps(r)[k] = back[Len(back) + 1 - k]
    BY <1>3, <1>5, <1>7
  <2> QED
    BY <1>3, <1>5, <2>1, TotalReverses
<1>9. Closing(r) = -Closing(l)
  <2>1. 1 \in 1..n /\ n \in 1..n /\ n - 1 + 1 = n /\ n - n + 1 = 1
    BY <1>1
  <2>2. r[1] = l[n - 1 + 1] /\ r[n] = l[n - n + 1]
    BY <1>1, <2>1
  <2>3. r[1] = l[n] /\ r[n] = l[1]
    BY <2>1, <2>2
  <2>4. Wedge(pts[l[1]], pts[l[n]]) = -Wedge(pts[l[n]], pts[l[1]])
    BY <1>4, <2>1, WedgeIs
  <2> QED
    BY <1>1, <2>3, <2>4 DEF Closing, n
<1>10. Swept(r) = -Swept(l)
  BY <1>6, <1>8 DEF Swept
<1>11. \A x, y \in Int : -x + -y = -(x + y)
  OBVIOUS
<1>12. SignedArea(r) = -Swept(l) + -Closing(l)
  BY <1>2, <1>9, <1>10
<1> QED
  BY <1>2, <1>11, <1>12 DEF r

(* What the walk round a hole sweeps, from any corner back to it, is the    *)
(* area of the hole.                                                        *)
LEMMA SweptRound ==
  ASSUME NEW D, PointsOf(D), NEW h \in Seq(D), Len(h) >= 1, NEW at \in 1..Len(h),
         NEW w \in Seq(D), Len(w) = Len(h) + 1,
         \A k \in 1..(Len(h) + 1) : w[k] = h[((at + k - 2) % Len(h)) + 1]
  PROVE  /\ Swept(w) = SignedArea(h) /\ w[1] = h[at] /\ w[Len(h) + 1] = h[at]
         /\ \A k \in 1..Len(h) : Steps(w)[k] = Turns(h)[((at + k - 1) % Len(h)) + 1]
<1> DEFINE m == Len(h)
<1>1. m \in Nat /\ m >= 1 /\ at \in 1..m /\ DOMAIN h = 1..m
  OBVIOUS
<1>2. Turns(h) \in Seq(Int) /\ Len(Turns(h)) = m /\ SignedArea(h) = Total(Turns(h))
  BY AreaIsSwept
<1>3. Steps(w) \in Seq(Int) /\ Len(Steps(w)) = m /\ \A k \in 1..m : Steps(w)[k] = StepArea(w, k)
  <2>1. Len(w) >= 1 /\ Len(w) - 1 = m
    BY <1>1
  <2> HIDE DEF m
  <2> QED
    BY <2>1, StepsAre
<1>4. \A k \in 1..(m + 1) : w[k] = h[((at + k - 2) % m) + 1]
  OBVIOUS
<1> HIDE DEF m
<1>5. \A k \in 1..m : Steps(w)[k] = Turns(h)[((at + k - 1) % m) + 1]
  <2> SUFFICES ASSUME NEW k \in 1..m PROVE Steps(w)[k] = Turns(h)[((at + k - 1) % m) + 1]
    OBVIOUS
  <2> DEFINE j == ((at + k - 1) % m) + 1
  <2>1. k \in 1..(m + 1) /\ k + 1 \in 1..(m + 1) /\ at + (k + 1) - 2 = at + k - 1
    BY <1>1
  <2>2. j \in 1..m
    BY <1>1
  <2>3. w[k + 1] = h[j]
    <3>1. w[k + 1] = h[((at + (k + 1) - 2) % m) + 1]
      BY <1>4, <2>1
    <3> QED
      BY <2>1, <3>1
  <2>4. (j - 2) % m = (at + k - 2) % m
    <3> DEFINE a == at + k - 1
    <3>1. a \in 1..(2 * m - 1)
      BY <1>1
    <3> HIDE DEF a
    <3>2. ((a % m) - 1) % m = (a - 1) % m
      <4>1. CASE a <= m - 1
        <5>1. a \in 0..(m - 1)
          BY <1>1, <3>1, <4>1
        <5>2. a % m = a
          BY <1>1, <5>1, LeftOver
        <5> QED
          BY <5>2
      <4>2. CASE ~(a <= m - 1)
        <5> DEFINE b == a - m
        <5>1. b \in 0..(m - 1) /\ a = m + b
          BY <1>1, <3>1, <4>2
        <5> HIDE DEF b
        <5>2. a % m = b
          BY <1>1, <5>1, LeftOver
        <5>3. ((m + b) - 1) % m = (b - 1) % m
          <6>1. CASE b = 0
            <7>0. m - 1 \in 0..(m - 1)
              BY <1>1
            <7>1. (0 - 1) % m = m - 1
              BY <1>1, <7>0, LeftOver
            <7>2. (m - 1) % m = m - 1
              BY <1>1, <7>0, LeftOver
            <7>3. (m + b) - 1 = m - 1 /\ b - 1 = 0 - 1
              BY <1>1, <6>1
            <7> QED
              BY <7>1, <7>2, <7>3
          <6>2. CASE b # 0
            <7>1. b - 1 \in 0..(m - 1) /\ (m + b) - 1 = m + (b - 1)
              BY <1>1, <5>1, <6>2
            <7>2. (b - 1) % m = b - 1 /\ (m + (b - 1)) % m = b - 1
              BY <1>1, <7>1, LeftOver
            <7> QED
              BY <7>1, <7>2
          <6> QED
            BY <6>1, <6>2
        <5> QED
          BY <5>1, <5>2, <5>3
      <4> QED
        BY <4>1, <4>2
    <3>3. j - 2 = (a % m) - 1 /\ at + k - 2 = a - 1
      BY <1>1 DEF a
    <3> QED
      BY <3>2, <3>3
  <2>5. w[k] = Pred(h, j)
    BY <1>4, <2>1, <2>4 DEF Pred, m
  <2> HIDE DEF j
  <2>6. Turns(h)[j] = Wedge(pts[Pred(h, j)], pts[h[j]])
    BY <1>1, <2>2 DEF Turns
  <2>7. Steps(w)[k] = Turns(h)[j]
    BY <1>3, <2>3, <2>5, <2>6 DEF StepArea
  <2> QED
    BY <2>7 DEF j
<1>6. Total(Steps(w)) = Total(Turns(h))
  <2>1. at \in 0..Len(Turns(h)) /\ Len(Turns(h)) >= 1 /\ Len(Steps(w)) = Len(Turns(h))
    BY <1>1, <1>2, <1>3
  <2>2. \A k \in 1..Len(Turns(h)) : Steps(w)[k] = Turns(h)[((at + k - 1) % Len(Turns(h))) + 1]
    BY <1>2, <1>5
  <2> QED
    BY <1>2, <1>3, <2>1, <2>2, TotalTurns
<1>7. w[1] = h[at] /\ w[m + 1] = h[at]
  <2>1. at - 1 \in 0..(m - 1) /\ 1 \in 1..(m + 1) /\ m + 1 \in 1..(m + 1) /\ at + 1 - 2 = at - 1 /\ at + (m + 1) - 2 = m + (at - 1) /\ (at - 1) + 1 = at
    BY <1>1
  <2>2. (at - 1) % m = at - 1 /\ (m + (at - 1)) % m = at - 1
    BY <1>1, <2>1, LeftOver
  <2>3. w[1] = h[((at + 1 - 2) % m) + 1] /\ w[m + 1] = h[((at + (m + 1) - 2) % m) + 1]
    BY <1>4, <2>1
  <2> QED
    BY <2>1, <2>2, <2>3
<1> QED
  BY <1>2, <1>5, <1>6, <1>7 DEF Swept, m

(* The corners before and after one of a polygon, by their places.          *)
LEMMA Beside ==
  ASSUME NEW D, NEW l \in Seq(D), NEW i \in 1..Len(l)
  PROVE  /\ Pred(l, i) = l[IF i = 1 THEN Len(l) ELSE i - 1]
         /\ Succ(l, i) = l[IF i = Len(l) THEN 1 ELSE i + 1]
<1> DEFINE n == Len(l)
<1>1. n \in Nat /\ n >= 1 /\ i \in 1..n
  OBVIOUS
<1>2. Pred(l, i) = l[((i - 2) % n) + 1] /\ Succ(l, i) = l[(i % n) + 1]
  BY DEF Pred, Succ
<1> HIDE DEF n
<1>3. (i - 2) % n = IF i = 1 THEN n - 1 ELSE i - 2
  <2>1. CASE i = 1
    <3>1. 0 \in 0..(n - 1) /\ i - 2 = 0 - 1
      BY <1>1, <2>1
    <3>2. (0 - 1) % n = n - 1
      BY <1>1, <3>1, LeftOver
    <3> QED
      BY <2>1, <3>1, <3>2
  <2>2. CASE i # 1
    <3>1. i - 2 \in 0..(n - 1)
      BY <1>1, <2>2
    <3> QED
      BY <1>1, <2>2, <3>1, LeftOver
  <2> QED
    BY <2>1, <2>2
<1>4. i % n = IF i = n THEN 0 ELSE i
  <2>1. CASE i = n
    <3>1. 0 \in 0..(n - 1) /\ n + 0 = i
      BY <1>1, <2>1
    <3>2. (n + 0) % n = 0
      BY <1>1, <3>1, LeftOver
    <3> QED
      BY <2>1, <3>1, <3>2
  <2>2. CASE i # n
    <3>1. i \in 0..(n - 1)
      BY <1>1, <2>2
    <3> QED
      BY <1>1, <2>2, <3>1, LeftOver
  <2> QED
    BY <2>1, <2>2
<1>5. (n - 1) + 1 = n /\ (i - 2) + 1 = i - 1 /\ 0 + 1 = 1
  BY <1>1
<1> QED
  BY <1>2, <1>3, <1>4, <1>5 DEF n

(* A sequence without one of its members, place by place.                   *)
LEMMA RemovedAt ==
  ASSUME NEW D, NEW l \in Seq(D), NEW i \in 1..Len(l)
  PROVE  \A k \in 1..(Len(l) - 1) : RemoveAt(l, i)[k] = l[IF k < i THEN k ELSE k + 1]
<1> DEFINE v == SubSeq(l, 1, i - 1)
           w == SubSeq(l, i + 1, Len(l))
           n == Len(l)
<1>1. v \in Seq(D) /\ Len(v) = i - 1 /\ \A k \in 1..(i - 1) : v[k] = l[k]
  OBVIOUS
<1>2. w \in Seq(D) /\ Len(w) = n - i /\ \A k \in 1..(n - i) : w[k] = l[i + k]
  OBVIOUS
<1>3. RemoveAt(l, i) = v \o w
  BY DEF RemoveAt
<1>4. n \in Nat /\ i \in 1..n
  OBVIOUS
<1> HIDE DEF v, w, n
<1>5. ASSUME NEW k \in 1..(n - 1) PROVE (v \o w)[k] = l[IF k < i THEN k ELSE k + 1]
  <2>1. CASE k < i
    <3>1. k \in 1..(i - 1)
      BY <1>4, <2>1
    <3>2. (v \o w)[k] = v[k]
      BY <1>1, <1>2, <3>1
    <3> QED
      BY <1>1, <2>1, <3>1, <3>2
  <2>2. CASE ~(k < i)
    <3> DEFINE j == k - (i - 1)
    <3>1. j \in 1..(n - i) /\ (i - 1) + j = k /\ i + j = k + 1
      BY <1>4, <2>2
    <3> HIDE DEF j
    <3>2. (v \o w)[(i - 1) + j] = w[j]
      <4>1. v \in Seq(D) /\ w \in Seq(D)
        BY <1>1, <1>2
      <4>2. (v \o w)[Len(v) + j] = w[j]
        <5>1. j \in 1..Len(w)
          BY <1>2, <3>1
        <5> QED
          BY <4>1, <5>1
      <4> QED
        BY <1>1, <4>2
    <3>3. w[j] = l[i + j]
      BY <1>2, <3>1
    <3> QED
      BY <2>2, <3>1, <3>2, <3>3
  <2> QED
    BY <2>1, <2>2
<1> QED
  BY <1>3, <1>5 DEF n

(* An ear takes from a polygon the area of its triangle.                    *)
LEMMA AreaOfEar ==
  ASSUME NEW D, PointsOf(D), NEW l \in Seq(D), Len(l) >= 3, NEW i \in 1..Len(l)
  PROVE  SignedArea(l) = SignedArea(RemoveAt(l, i)) + Orient(pts[Pred(l, i)], pts[l[i]], pts[Succ(l, i)])
<1> DEFINE n == Len(l)
           r == RemoveAt(l, i)
           j == IF i = n THEN 1 ELSE i
           d == [k \in 1..(n - 1) |-> Turns(l)[IF k < i THEN k ELSE k + 1]]
           p == pts[Pred(l, i)]
           c == pts[l[i]]
           s == pts[Succ(l, i)]
<1>1. n \in Nat /\ n >= 3 /\ i \in 1..n /\ DOMAIN l = 1..n /\ n - 1 \in Nat
  OBVIOUS
<1>2. r \in Seq(D) /\ Len(r) = n - 1 /\ \A k \in 1..(n - 1) : r[k] = l[IF k < i THEN k ELSE k + 1]
  BY RemovedIs, RemovedAt
<1>3. Turns(l) \in Seq(Int) /\ Len(Turns(l)) = n /\ SignedArea(l) = Total(Turns(l))
  BY <1>1, AreaIsSwept
<1> HIDE DEF r
<1>4. Turns(r) \in Seq(Int) /\ Len(Turns(r)) = n - 1 /\ SignedArea(r) = Total(Turns(r)) /\ DOMAIN r = 1..(n - 1)
  <2>1. Len(r) >= 1 /\ DOMAIN r = 1..(n - 1)
    BY <1>1, <1>2
  <2> HIDE DEF n
  <2> QED
    BY <1>2, <2>1, AreaIsSwept
<1>5. /\ \A k \in 1..n : Pred(l, k) = l[IF k = 1 THEN n ELSE k - 1] /\ Succ(l, k) = l[IF k = n THEN 1 ELSE k + 1]
      /\ \A k \in 1..(n - 1) : Pred(r, k) = r[IF k = 1 THEN n - 1 ELSE k - 1]
  <2>1. \A k \in 1..Len(r) : Pred(r, k) = r[IF k = 1 THEN Len(r) ELSE k - 1]
    BY <1>2, Beside
  <2>2. \A k \in 1..n : Pred(l, k) = l[IF k = 1 THEN n ELSE k - 1] /\ Succ(l, k) = l[IF k = n THEN 1 ELSE k + 1]
    BY Beside
  <2> HIDE DEF n
  <2> QED
    BY <1>2, <2>1, <2>2
<1>6. /\ \A k \in 1..n : Turns(l)[k] = Wedge(pts[Pred(l, k)], pts[l[k]]) /\ Turns(l)[k] \in Int
      /\ \A k \in 1..(n - 1) : Turns(r)[k] = Wedge(pts[Pred(r, k)], pts[r[k]])
  <2>1. \A k \in 1..n : Turns(l)[k] = Wedge(pts[Pred(l, k)], pts[l[k]])
    BY <1>1 DEF Turns
  <2>2. \A k \in 1..(n - 1) : Turns(r)[k] = Wedge(pts[Pred(r, k)], pts[r[k]])
    BY <1>4 DEF Turns
  <2>3. \A k \in 1..n : Turns(l)[k] \in Int
    BY <1>3
  <2> QED
    BY <2>1, <2>2, <2>3
<1>t. p \in Int \X Int /\ c \in Int \X Int /\ s \in Int \X Int
  <2>1. l[i] \in D /\ Succ(l, i) \in D /\ Pred(l, i) \in D
    BY NextTo
  <2> QED
    BY <2>1 DEF PointsOf
<1> HIDE DEF n
<1>7. d \in Seq(Int) /\ Len(d) = n - 1 /\ \A k \in 1..(n - 1) : d[k] = Turns(l)[IF k < i THEN k ELSE k + 1]
  <2>1. \A k \in 1..(n - 1) : (IF k < i THEN k ELSE k + 1) \in 1..n
    BY <1>1
  <2>2. \A k \in 1..(n - 1) : Turns(l)[IF k < i THEN k ELSE k + 1] \in Int
    BY <1>6, <2>1
  <2> QED
    BY <1>1, <2>2
<1> HIDE DEF d
<1>8. Total(Turns(l)) = Total(d) + Turns(l)[i]
  BY <1>1, <1>3, <1>7, TotalRemoves
<1>9. j \in 1..(n - 1) /\ (i = n => j = 1) /\ (i # n => j = i)
  BY <1>1
<1> HIDE DEF j
<1>10. ASSUME NEW k \in 1..(n - 1), k # j PROVE Turns(r)[k] = d[k]
  <2>1. CASE k < i
    <3>1. k \in 1..n /\ r[k] = l[k] /\ d[k] = Turns(l)[k]
      BY <1>1, <1>2, <1>7, <2>1
    <3>2. Pred(r, k) = Pred(l, k)
      <4>1. CASE k = 1
        <5>1. i # n /\ n - 1 \in 1..(n - 1) /\ ~(n - 1 < i) /\ (n - 1) + 1 = n
          BY <1>1, <1>9, <1>10, <4>1
        <5>2. r[n - 1] = l[n]
          BY <1>2, <5>1
        <5>3. Pred(r, k) = r[n - 1] /\ Pred(l, k) = l[n]
          BY <1>5, <3>1, <4>1
        <5> QED
          BY <5>2, <5>3
      <4>2. CASE k # 1
        <5>1. k - 1 \in 1..(n - 1) /\ k - 1 < i
          BY <1>1, <2>1, <4>2
        <5>2. r[k - 1] = l[k - 1]
          BY <1>2, <5>1
        <5>3. Pred(r, k) = r[k - 1] /\ Pred(l, k) = l[k - 1]
          BY <1>5, <3>1, <4>2
        <5> QED
          BY <5>2, <5>3
      <4> QED
        BY <4>1, <4>2
    <3> QED
      BY <1>6, <3>1, <3>2
  <2>2. CASE ~(k < i)
    <3>1. k + 1 \in 1..n /\ r[k] = l[k + 1] /\ d[k] = Turns(l)[k + 1]
      BY <1>1, <1>2, <1>7, <2>2
    <3>2. k # 1 /\ k - 1 \in 1..(n - 1) /\ ~(k - 1 < i) /\ (k - 1) + 1 = k /\ k + 1 # 1 /\ (k + 1) - 1 = k
      BY <1>1, <1>9, <1>10, <2>2
    <3>3. r[k - 1] = l[k]
      BY <1>2, <3>2
    <3>4. Pred(r, k) = r[k - 1]
      BY <1>5, <3>2
    <3>5. Pred(l, k + 1) = l[k]
      <4>1. Pred(l, k + 1) = l[(k + 1) - 1]
        BY <1>5, <3>1, <3>2
      <4> QED
        BY <3>2, <4>1
    <3> QED
      BY <1>6, <3>1, <3>3, <3>4, <3>5
  <2> QED
    BY <2>1, <2>2
<1>11. Turns(r)[j] = Wedge(p, s) /\ d[j] = Wedge(c, s)
  <2>1. CASE i = n
    <3>1. j = 1 /\ 1 < i /\ 1 \in 1..(n - 1) /\ n - 1 \in 1..(n - 1) /\ n - 1 < i /\ i # 1 /\ 1 \in 1..n
      BY <1>1, <1>9, <2>1
    <3>2. r[1] = l[1] /\ r[n - 1] = l[n - 1] /\ d[1] = Turns(l)[1]
      BY <1>2, <1>7, <3>1
    <3>3. Pred(r, 1) = r[n - 1] /\ Pred(l, 1) = l[n] /\ Pred(l, i) = l[n - 1] /\ Succ(l, i) = l[1]
      BY <1>1, <1>5, <2>1, <3>1
    <3> QED
      BY <1>6, <2>1, <3>1, <3>2, <3>3
  <2>2. CASE i # n
    <3>1. j = i /\ i + 1 \in 1..n /\ i \in 1..(n - 1) /\ ~(i < i) /\ i + 1 # 1 /\ (i + 1) - 1 = i
      BY <1>1, <1>9, <2>2
    <3>2. r[i] = l[i + 1] /\ d[i] = Turns(l)[i + 1] /\ Succ(l, i) = l[i + 1]
      BY <1>1, <1>2, <1>5, <1>7, <2>2, <3>1
    <3>3. Pred(l, i + 1) = l[i]
      <4>1. Pred(l, i + 1) = l[(i + 1) - 1]
        BY <1>5, <3>1
      <4> QED
        BY <3>1, <4>1
    <3>4. Pred(r, i) = Pred(l, i)
      <4>1. CASE i = 1
        <5>1. n - 1 \in 1..(n - 1) /\ ~(n - 1 < i) /\ (n - 1) + 1 = n
          BY <1>1, <4>1
        <5>2. r[n - 1] = l[n]
          BY <1>2, <5>1
        <5>3. Pred(r, i) = r[n - 1] /\ Pred(l, i) = l[n]
          BY <1>1, <1>5, <3>1, <4>1
        <5> QED
          BY <5>2, <5>3
      <4>2. CASE i # 1
        <5>1. i - 1 \in 1..(n - 1) /\ i - 1 < i
          BY <1>1, <4>2
        <5>2. r[i - 1] = l[i - 1]
          BY <1>2, <5>1
        <5>3. Pred(r, i) = r[i - 1] /\ Pred(l, i) = l[i - 1]
          BY <1>1, <1>5, <3>1, <4>2
        <5> QED
          BY <5>2, <5>3
      <4> QED
        BY <4>1, <4>2
    <3> QED
      BY <1>6, <3>1, <3>2, <3>3, <3>4
  <2> QED
    BY <2>1, <2>2
<1>12. Total(Turns(r)) = Total(d) + (Wedge(p, s) - Wedge(c, s))
  <2>1. Len(Turns(r)) = Len(d) /\ j \in 1..Len(d) /\ \A k \in 1..Len(d) : k # j => Turns(r)[k] = d[k]
    BY <1>4, <1>7, <1>9, <1>10
  <2>2. Total(Turns(r)) = Total(d) + (Turns(r)[j] - d[j])
    BY <1>4, <1>7, <2>1, TotalChanges
  <2> QED
    BY <1>11, <2>2
<1>13. Turns(l)[i] = Wedge(p, c)
  BY <1>1, <1>6
<1> HIDE DEF p, c, s
<1>14. Orient(p, c, s) = Wedge(p, c) + Wedge(c, s) + Wedge(s, p) /\ Wedge(s, p) = -Wedge(p, s)
       /\ Wedge(p, c) \in Int /\ Wedge(c, s) \in Int /\ Wedge(p, s) \in Int
  BY <1>t, OrientSweeps, WedgeIs
<1>15. Total(d) \in Int
  BY <1>7, TotalIsInt
<1>16. \A t, pc1, cs, ps \in Int : t + pc1 = (t + (ps - cs)) + (pc1 + cs + -ps)
  OBVIOUS
<1>17. SignedArea(l) = SignedArea(r) + (Wedge(p, c) + Wedge(c, s) + -Wedge(p, s))
  BY <1>3, <1>4, <1>8, <1>12, <1>13, <1>14, <1>15, <1>16
<1> QED
  BY <1>14, <1>17 DEF p, c, s, r

(* Three corners are a triangle.                                            *)
LEMMA AreaOfThree ==
  ASSUME NEW D, PointsOf(D), NEW l \in Seq(D), Len(l) = 3
  PROVE  SignedArea(l) = Orient(pts[l[1]], pts[l[2]], pts[l[3]])
<1> DEFINE t == Turns(l)
           u == [k \in 1..2 |-> t[k]]
           v == [k \in 1..1 |-> t[k]]
<1>1. t \in Seq(Int) /\ Len(t) = 3 /\ SignedArea(l) = Total(t)
  BY AreaIsSwept
<1>2. \A k \in 1..3 : pts[l[k]] \in Int \X Int
  BY DEF PointsOf
<1>3. /\ t[1] = Wedge(pts[l[3]], pts[l[1]]) /\ t[2] = Wedge(pts[l[1]], pts[l[2]])
      /\ t[3] = Wedge(pts[l[2]], pts[l[3]])
  <2>1. DOMAIN l = 1..3
    OBVIOUS
  <2>2. Pred(l, 1) = l[3] /\ Pred(l, 2) = l[1] /\ Pred(l, 3) = l[2]
    <3>1. \A k \in 1..3 : Pred(l, k) = l[IF k = 1 THEN 3 ELSE k - 1]
      BY Beside
    <3>2. Pred(l, 1) = l[3] /\ Pred(l, 2) = l[2 - 1] /\ Pred(l, 3) = l[3 - 1]
      BY <3>1
    <3> QED
      BY <3>2
  <2> QED
    BY <2>1, <2>2 DEF Turns
<1> HIDE DEF t
<1>4. t[1] \in Int /\ t[2] \in Int /\ t[3] \in Int
  <2>1. 1 \in 1..Len(t) /\ 2 \in 1..Len(t) /\ 3 \in 1..Len(t)
    BY <1>1
  <2>2. t \in Seq(Int)
    BY <1>1
  <2>3. \A k \in 1..Len(t) : t[k] \in Int
    BY <2>2
  <2> QED
    BY <2>1, <2>3
<1>5. u \in Seq(Int) /\ Len(u) = 2 /\ u[1] = t[1] /\ u[2] = t[2] /\ v \in Seq(Int) /\ Len(v) = 1 /\ v[1] = t[1]
  BY <1>4
<1> HIDE DEF u, v
<1>6. Total(v) = t[1]
  <2>1. 1 \in 1..Len(v) /\ \A k \in 1..Len(v) : k # 1 => v[k] = 0
    BY <1>5
  <2> QED
    BY <1>5, <2>1, TotalOfOne
<1>7. Total(u) = Total(v) + t[2]
  <2>1. Len(u) = Len(v) + 1 /\ (\A k \in 1..Len(v) : u[k] = v[k]) /\ u[Len(v) + 1] = t[2] /\ t[2] \in Int
    BY <1>4, <1>5
  <2> QED
    BY <1>5, <2>1, TotalAppends
<1>8. Total(t) = Total(u) + t[3]
  <2>1. Len(t) = Len(u) + 1 /\ (\A k \in 1..Len(u) : t[k] = u[k]) /\ t[Len(u) + 1] = t[3] /\ t[3] \in Int
    BY <1>1, <1>4, <1>5
  <2> QED
    BY <1>1, <1>5, <2>1, TotalAppends
<1>9. Total(t) = t[1] + t[2] + t[3]
  BY <1>6, <1>7, <1>8
<1>10. Orient(pts[l[1]], pts[l[2]], pts[l[3]]) = t[2] + t[3] + t[1]
  BY <1>2, <1>3, OrientSweeps
<1>11. t[1] + t[2] + t[3] = t[2] + t[3] + t[1]
  <2>1. t[1] \in Int /\ t[2] \in Int /\ t[3] \in Int
    BY <1>4
  <2>2. \A a, b, c \in Int : a + b + c = b + c + a
    OBVIOUS
  <2> QED
    BY <2>1, <2>2
<1> QED
  BY <1>1, <1>9, <1>10, <1>11

(* Twice the area of a polygon, whichever way it runs; and the polygon is   *)
(* turned so that it comes out positive, or negative.                       *)
Size2(l) == IF SignedArea(l) < 0 THEN -SignedArea(l) ELSE SignedArea(l)
(* Turning a polygon round changes the sign of its area and nothing else.   *)
LEMMA EitherWay ==
  ASSUME NEW D, PointsOf(D), NEW l \in Seq(D), Len(l) >= 1
  PROVE  /\ SignedArea(Outward(l)) = Size2(l) /\ SignedArea(Inward(l)) = -Size2(l)
         /\ Size2(l) \in Int /\ Size2(l) >= 0
         /\ Outward(l) \in Seq(D) /\ Len(Outward(l)) = Len(l)
         /\ Inward(l) \in Seq(D) /\ Len(Inward(l)) = Len(l)
<1>1. SignedArea(l) \in Int /\ SignedArea(Reverse(l)) = -SignedArea(l)
  BY AreaIsSwept, AreaReverses
<1>2. /\ Outward(l) \in Seq(D) /\ Len(Outward(l)) = Len(l)
      /\ Inward(l) \in Seq(D) /\ Len(Inward(l)) = Len(l)
  <2>1. (Outward(l) = l \/ Outward(l) = Reverse(l)) /\ (Inward(l) = l \/ Inward(l) = Reverse(l))
    BY DEF Outward, Inward
  <2> QED
    BY <2>1, TurnedIs
<1> DEFINE a == SignedArea(l)
<1>3. /\ SignedArea(Outward(l)) = (IF a < 0 THEN -a ELSE a)
      /\ SignedArea(Inward(l)) = (IF a > 0 THEN -a ELSE a)
      /\ Size2(l) = (IF a < 0 THEN -a ELSE a)
  BY <1>1 DEF Outward, Inward, Size2
<1>4. a \in Int
  BY <1>1
<1> HIDE DEF a
<1>5. (IF a > 0 THEN -a ELSE a) = -(IF a < 0 THEN -a ELSE a) /\ (IF a < 0 THEN -a ELSE a) \in Int /\ (IF a < 0 THEN -a ELSE a) >= 0
  BY <1>4
<1> QED
  BY <1>2, <1>3, <1>5

(* A polygon with a bridged hole has its area less the hole's.              *)
LEMMA AreaOfJoined ==
  ASSUME NEW D, PointsOf(D), NEW o \in Seq(D), NEW h \in Seq(D), Len(h) >= 1,
         NEW pick \in 1..Len(o), NEW at \in 1..Len(h)
  PROVE  SignedArea(Joined(o, pick, h, at)) = SignedArea(o) + SignedArea(h)
<1> DEFINE u == SubSeq(o, 1, pick)
           w == Around(h, at)
           v == SubSeq(o, pick, Len(o))
           n == Len(o)
           m == Len(h)
           x == pts[o[pick]]
           z == pts[h[at]]
           uw == u \o w
           b == uw \o v
<1>1. Joined(o, pick, h, at) = b
  BY DEF Joined
<1>2. /\ n \in Nat /\ pick \in 1..n /\ u \in Seq(D) /\ Len(u) = pick /\ v \in Seq(D) /\ Len(v) = n - pick + 1
      /\ u[1] = o[1] /\ u[pick] = o[pick] /\ v[1] = o[pick] /\ v[n - pick + 1] = o[n]
  <2>1. n \in Nat /\ pick \in 1..n
    OBVIOUS
  <2>2. u \in Seq(D) /\ Len(u) = pick /\ \A k \in 1..pick : u[k] = o[k]
    OBVIOUS
  <2>3. v \in Seq(D) /\ Len(v) = n - pick + 1 /\ \A k \in 1..(n - pick + 1) : v[k] = o[pick + k - 1]
    OBVIOUS
  <2> HIDE DEF u, v, n
  <2>4. /\ 1 \in 1..pick /\ pick \in 1..pick /\ 1 \in 1..(n - pick + 1) /\ n - pick + 1 \in 1..(n - pick + 1)
        /\ pick + 1 - 1 = pick /\ pick + (n - pick + 1) - 1 = n
    BY <2>1
  <2>5. v[1] = o[pick + 1 - 1] /\ v[n - pick + 1] = o[pick + (n - pick + 1) - 1]
    BY <2>3, <2>4
  <2> QED
    BY <2>1, <2>2, <2>3, <2>4, <2>5
<1>3. /\ m \in Nat /\ m >= 1 /\ w \in Seq(D) /\ Len(w) = m + 1
      /\ \A k \in 1..(m + 1) : w[k] = h[((at + k - 2) % m) + 1]
  BY AroundIs
<1> HIDE DEF u, v, w
<1>4. Swept(w) = SignedArea(h) /\ w[1] = h[at] /\ w[m + 1] = h[at]
  <2>1. Len(w) = Len(h) + 1 /\ \A k \in 1..(Len(h) + 1) : w[k] = h[((at + k - 2) % Len(h)) + 1]
    BY <1>3
  <2>2. w \in Seq(D)
    BY <1>3
  <2>3. /\ Swept(w) = SignedArea(h) /\ w[1] = h[at] /\ w[Len(h) + 1] = h[at]
        /\ \A k \in 1..Len(h) : Steps(w)[k] = Turns(h)[((at + k - 1) % Len(h)) + 1]
    BY <2>1, <2>2, SweptRound
  <2> QED
    BY <2>3
<1>5. Swept(o) = Swept(u) + Swept(v)
  BY SweptSplits DEF u, v
<1>6. SignedArea(o) = Swept(o) + Wedge(pts[o[n]], pts[o[1]]) /\ Wedge(pts[o[n]], pts[o[1]]) \in Int
  <2>1. Len(o) >= 1
    BY <1>2
  <2> QED
    BY <2>1, AreaIsSwept DEF Closing
<1>7. x \in Int \X Int /\ z \in Int \X Int
  <2>1. o[pick] \in D /\ h[at] \in D
    OBVIOUS
  <2> QED
    BY <2>1 DEF PointsOf
<1> HIDE DEF n, m
<1>8. uw \in Seq(D) /\ Len(uw) = pick + (m + 1) /\ uw[1] = o[1] /\ uw[pick + (m + 1)] = h[at]
  <2>0. pick \in Nat /\ pick >= 1 /\ m + 1 \in Nat /\ m + 1 >= 1
    BY <1>2, <1>3
  <2>1. u \in Seq(D) /\ Len(u) >= 1 /\ w \in Seq(D) /\ Len(w) >= 1
    BY <1>2, <1>3
  <2>2. /\ u \o w \in Seq(D) /\ Len(u \o w) = Len(u) + Len(w)
        /\ (u \o w)[1] = u[1] /\ (u \o w)[Len(u) + Len(w)] = w[Len(w)]
    BY <2>1, EndToEnd
  <2> HIDE DEF uw
  <2>3. /\ uw \in Seq(D) /\ Len(uw) = Len(u) + Len(w)
        /\ uw[1] = u[1] /\ uw[Len(u) + Len(w)] = w[Len(w)]
    BY <2>2 DEF uw
  <2> QED
    BY <1>2, <1>3, <1>4, <2>3
<1>9. Swept(uw) = Swept(u) + Wedge(x, z) + Swept(w)
  <2>1. Len(u) >= 1 /\ Len(w) >= 1
    BY <1>2, <1>3
  <2>2. Swept(u \o w) = Swept(u) + Wedge(pts[u[Len(u)]], pts[w[1]]) + Swept(w)
    BY <1>2, <1>3, <2>1, SweptJoins
  <2> QED
    BY <1>2, <1>4, <2>2
<1> HIDE DEF uw
<1>10. b \in Seq(D) /\ Len(b) = (pick + (m + 1)) + (n - pick + 1) /\ b[1] = o[1] /\ b[Len(b)] = o[n] /\ Len(b) >= 1
  <2>0. pick \in Nat /\ pick >= 1 /\ m + 1 \in Nat /\ m + 1 >= 1 /\ n - pick + 1 >= 1 /\ n - pick + 1 \in Nat
    BY <1>2, <1>3
  <2>1. uw \in Seq(D) /\ Len(uw) >= 1 /\ v \in Seq(D) /\ Len(v) >= 1
    BY <1>2, <1>8, <2>0
  <2>2. /\ uw \o v \in Seq(D) /\ Len(uw \o v) = Len(uw) + Len(v)
        /\ (uw \o v)[1] = uw[1] /\ (uw \o v)[Len(uw) + Len(v)] = v[Len(v)]
    BY <2>1, EndToEnd
  <2> HIDE DEF b
  <2>3. /\ b \in Seq(D) /\ Len(b) = Len(uw) + Len(v)
        /\ b[1] = uw[1] /\ b[Len(uw) + Len(v)] = v[Len(v)]
    BY <2>2 DEF b
  <2>4. Len(b) >= 1
    BY <1>2, <1>8, <2>0, <2>3
  <2> QED
    BY <1>2, <1>8, <2>3, <2>4
<1>11. Swept(b) = Swept(uw) + Wedge(z, x) + Swept(v)
  <2>1. Len(uw) >= 1 /\ Len(v) >= 1
    BY <1>2, <1>3, <1>8
  <2>2. Swept(uw \o v) = Swept(uw) + Wedge(pts[uw[Len(uw)]], pts[v[1]]) + Swept(v)
    BY <1>2, <1>8, <2>1, SweptJoins
  <2> QED
    BY <1>2, <1>8, <2>2
<1> HIDE DEF b
<1>12. SignedArea(b) = Swept(b) + Wedge(pts[o[n]], pts[o[1]])
  BY <1>10, AreaIsSwept DEF Closing
<1> HIDE DEF x, z
<1>13. Wedge(z, x) = -Wedge(x, z) /\ Wedge(x, z) \in Int
  BY <1>7, WedgeIs
<1>14. Swept(u) \in Int /\ Swept(v) \in Int /\ Swept(w) \in Int
  <2>1. Len(u) >= 1 /\ Len(v) >= 1 /\ Len(w) >= 1
    BY <1>2, <1>3
  <2> QED
    BY <1>2, <1>3, <2>1, StepsAre
<1>15. \A su, sv, sw, xz, c \in Int : ((su + xz + sw) + -xz + sv) + c = ((su + sv) + c) + sw
  OBVIOUS
<1> QED
  BY <1>1, <1>4, <1>5, <1>6, <1>9, <1>11, <1>12, <1>13, <1>14, <1>15

(* So bridging a hole takes its area away, whichever way either is wound.   *)
LEMMA AreaOfBridge ==
  ASSUME PolygonOK, PointsOK,
         NEW outer \in Seq(Corners), Len(outer) >= 3, NEW hole \in Seq(Corners), Len(hole) >= 3
  PROVE  SignedArea(BridgeHole(outer, hole)) = Size2(outer) - Size2(hole)
<1>1. PointsOf(Corners)
  BY CornersArePoints DEF PointsOf
<1>2. PICK pick \in 1..Len(outer), at \in 1..Len(hole) :
        BridgeHole(outer, hole) = Joined(Outward(outer), pick, Inward(hole), at)
  BY BridgeParts
<1>3. /\ SignedArea(Outward(outer)) = Size2(outer) /\ SignedArea(Inward(hole)) = -Size2(hole)
      /\ Size2(outer) \in Int /\ Size2(hole) \in Int
      /\ Outward(outer) \in Seq(Corners) /\ Len(Outward(outer)) = Len(outer)
      /\ Inward(hole) \in Seq(Corners) /\ Len(Inward(hole)) = Len(hole)
  <2>1. Len(outer) >= 1 /\ Len(hole) >= 1
    OBVIOUS
  <2> QED
    BY <1>1, <2>1, EitherWay
<1>4. SignedArea(Joined(Outward(outer), pick, Inward(hole), at)) = SignedArea(Outward(outer)) + SignedArea(Inward(hole))
  <2>1. Len(Inward(hole)) >= 1
    BY <1>3
  <2> QED
    BY <1>1, <1>3, <2>1, AreaOfJoined
<1>5. \A a, b \in Int : a + -b = a - b
  OBVIOUS
<1> QED
  BY <1>2, <1>3, <1>4, <1>5

------------------------------------------------------------------------------
(* The area of the mesh.                                                    *)

(* Twice the area of every triangle, and of the mesh.                       *)
Areas(ts) == [i \in DOMAIN ts |-> Area(ts[i])]
MeshArea == Total([i \in DOMAIN tris |-> Area(tris[i])])

(* Points of the plane have areas.                                          *)
LEMMA AreasAre ==
  ASSUME NEW np \in Nat, NEW nt \in Nat, PointsAre(np),
         NEW ts, DOMAIN ts = 1..nt, \A k \in 1..nt : \A e \in 1..3 : ts[k].v[e] \in 1..np
  PROVE  /\ Areas(ts) \in Seq(Int) /\ Len(Areas(ts)) = nt
         /\ \A k \in 1..nt : Areas(ts)[k] = Area(ts[k]) /\ Area(ts[k]) \in Int
<1>1. \A k \in 1..nt : Area(ts[k]) \in Int
  <2> SUFFICES ASSUME NEW k \in 1..nt PROVE Area(ts[k]) \in Int
    OBVIOUS
  <2>1. ts[k].v[1] \in 1..np /\ ts[k].v[2] \in 1..np /\ ts[k].v[3] \in 1..np
    OBVIOUS
  <2>2. \A m \in 1..np : pts[m] \in Int \X Int
    BY DEF PointsAre
  <2> DEFINE x == pts[ts[k].v[1]]
             y == pts[ts[k].v[2]]
             z == pts[ts[k].v[3]]
  <2>3. x \in Int \X Int /\ y \in Int \X Int /\ z \in Int \X Int
    BY <2>1, <2>2
  <2>4. Area(ts[k]) = Orient(x, y, z)
    BY DEF Area, Corner
  <2> HIDE DEF x, y, z
  <2> QED
    BY <2>3, <2>4, HalvesHaveTheArea
<1>2. Areas(ts) = [k \in 1..nt |-> Area(ts[k])]
  BY DEF Areas
<1> QED
  BY <1>1, <1>2

(* So a flip keeps the area of the mesh.                                    *)
LEMMA FlipKeepsArea ==
  ASSUME NEW np \in Nat, NEW nt \in Nat, MeshIs(np, nt), PointsAre(np),
         NEW i \in 1..nt, NEW e \in 1..3, Flippable(i, e)
  PROVE  Total(Areas(Flip(i, e))) = MeshArea
<1> DEFINE us == Flip(i, e)
           s  == Areas(tris)
           t  == Areas(us)
           j  == Beyond(i, e)
<1>1. FlipsAreas(nt, i, e)
  BY FlipAreas
<1>2. us \in Seq(Triangles(np, nt)) /\ Len(us) = nt
  BY FlipShape
<1>3. tris \in Seq(Triangles(np, nt)) /\ Len(tris) = nt
  BY DEF MeshIs
<1>4. \A ts \in Seq(Triangles(np, nt)) : Len(ts) = nt =>
        DOMAIN ts = 1..nt /\ \A k \in 1..nt : \A g \in 1..3 : ts[k].v[g] \in 1..np
  <2>1. \A x \in Triangles(np, nt) : \A g \in 1..3 : x.v[g] \in 1..np
    BY DEF Triangles
  <2> QED
    BY <2>1
<1> HIDE DEF us
<1>5. /\ s \in Seq(Int) /\ Len(s) = nt /\ \A k \in 1..nt : s[k] = Area(tris[k])
      /\ t \in Seq(Int) /\ Len(t) = nt /\ \A k \in 1..nt : t[k] = Area(us[k])
  <2>1. DOMAIN tris = 1..nt /\ \A k \in 1..nt : \A g \in 1..3 : tris[k].v[g] \in 1..np
    BY <1>3, <1>4
  <2>2. DOMAIN us = 1..nt /\ \A k \in 1..nt : \A g \in 1..3 : us[k].v[g] \in 1..np
    BY <1>2, <1>4
  <2>3. /\ s \in Seq(Int) /\ Len(s) = nt
        /\ \A k \in 1..nt : s[k] = Area(tris[k]) /\ Area(tris[k]) \in Int
    BY <2>1, AreasAre
  <2>4. /\ t \in Seq(Int) /\ Len(t) = nt
        /\ \A k \in 1..nt : t[k] = Area(us[k]) /\ Area(us[k]) \in Int
    BY <2>2, AreasAre
  <2> QED
    BY <2>3, <2>4
<1>6. j \in 1..nt /\ j # i /\ t[i] + t[j] = s[i] + s[j] /\ \A k \in 1..nt : k # i /\ k # j => t[k] = s[k]
  <2>1. /\ j \in 1..nt /\ j # i
        /\ Area(us[i]) + Area(us[j]) = Area(tris[i]) + Area(tris[j])
        /\ \A k \in 1..nt : k # i /\ k # j => Area(us[k]) = Area(tris[k])
    BY <1>1 DEF FlipsAreas, us
  <2> HIDE DEF s, t, j
  <2> QED
    BY <1>5, <2>1
<1>7. MeshArea = Total(s)
  BY DEF MeshArea, Areas
<1> HIDE DEF s, t, j
<1>8. Total(t) = Total(s)
  <2>1. Swapped(s, t, i, j)
    BY <1>5, <1>6 DEF Swapped, Exchanged
  <2> QED
    BY <1>5, <2>1, TotalSwaps
<1> QED
  BY <1>7, <1>8 DEF t, us

(* The three triangles around a point have the area of the one they are in. *)
LEMMA ThirdsHaveTheArea ==
  ASSUME NEW a \in Int \X Int, NEW b \in Int \X Int, NEW c \in Int \X Int, NEW p \in Int \X Int
  PROVE  /\ Orient(a, b, p) + Orient(b, c, p) + Orient(c, a, p) = Orient(a, b, c)
         /\ Orient(a, b, p) \in Int /\ Orient(b, c, p) \in Int /\ Orient(c, a, p) \in Int
<1> DEFINE a1 == a[1]
           a2 == a[2]
           b1 == b[1]
           b2 == b[2]
           c1 == c[1]
           c2 == c[2]
           p1 == p[1]
           p2 == p[2]
<1>1. /\ a1 \in Int /\ a2 \in Int /\ b1 \in Int /\ b2 \in Int
      /\ c1 \in Int /\ c2 \in Int /\ p1 \in Int /\ p2 \in Int
  OBVIOUS
<1>2. /\ Orient(a, b, p) = (b1 - a1) * (p2 - a2) - (b2 - a2) * (p1 - a1)
      /\ Orient(b, c, p) = (c1 - b1) * (p2 - b2) - (c2 - b2) * (p1 - b1)
      /\ Orient(c, a, p) = (a1 - c1) * (p2 - c2) - (a2 - c2) * (p1 - c1)
      /\ Orient(a, b, c) = (b1 - a1) * (c2 - a2) - (b2 - a2) * (c1 - a1)
  BY DEF Orient
<1> HIDE DEF a1, a2, b1, b2, c1, c2, p1, p2
<1> QED
  BY <1>1, <1>2

(* So an insertion keeps the area of the mesh.                              *)
LEMMA InsertKeepsArea ==
  ASSUME NEW np \in Nat, NEW nt \in Nat, MeshIs(np, nt), PointsAre(np),
         NEW p \in Int \X Int, NEW i \in 1..nt, InsertedInto(p, i)
  PROVE  MeshArea' = MeshArea
<1> DEFINE t  == tris[i]
           us == Inserted(i)
           vs == Append(pts, p)
           a  == pts[t.v[1]]
           b  == pts[t.v[2]]
           c  == pts[t.v[3]]
           s  == Areas(tris)
           r  == [k \in 1..(nt + 2) |-> Orient(vs[us[k].v[1]], vs[us[k].v[2]], vs[us[k].v[3]])]
<1>s. SpreadTo(np, nt, i)
  BY SpreadIs
<1>1. DOMAIN us = 1..(nt + 2) /\ \A k \in 1..(nt + 2) : us[k].v = Spread(i)[k].v
  <2>1. us \in Seq(Triangles(np + 1, nt + 2)) /\ Len(us) = nt + 2 /\ \A k \in 1..(nt + 2) : us[k].v = Spread(i)[k].v
    BY InsertShape
  <2> HIDE DEF us
  <2> QED
    BY <2>1
<1>2. /\ us[i].v = <<t.v[1], t.v[2], np + 1>> /\ us[nt + 1].v = <<t.v[2], t.v[3], np + 1>>
      /\ us[nt + 2].v = <<t.v[3], t.v[1], np + 1>>
      /\ \A k \in 1..nt : k # i => us[k].v = tris[k].v
  <2>1. /\ Spread(i)[i].v = <<t.v[1], t.v[2], np + 1>> /\ Spread(i)[nt + 1].v = <<t.v[2], t.v[3], np + 1>>
        /\ Spread(i)[nt + 2].v = <<t.v[3], t.v[1], np + 1>>
        /\ \A k \in (1..nt) \ {i} : Spread(i)[k] = tris[k]
    BY <1>s DEF SpreadTo, Tri
  <2>2. i \in 1..(nt + 2) /\ nt + 1 \in 1..(nt + 2) /\ nt + 2 \in 1..(nt + 2) /\ \A k \in 1..nt : k \in 1..(nt + 2)
    OBVIOUS
  <2> HIDE DEF us, t
  <2> QED
    BY <1>1, <2>1, <2>2
<1>3. /\ \A k \in 1..np : vs[k] = pts[k] /\ pts[k] \in Int \X Int
      /\ vs[np + 1] = p
  <2>1. pts \in Seq(Int \X Int) /\ Len(pts) = np
    BY DEF PointsAre
  <2> QED
    BY <2>1
<1>4. tris' = us /\ pts' = vs
  BY DEF InsertedInto
<1>5. \A k \in 1..nt : tris[k].v[1] \in 1..np /\ tris[k].v[2] \in 1..np /\ tris[k].v[3] \in 1..np
  BY PartsOf
<1>6. a \in Int \X Int /\ b \in Int \X Int /\ c \in Int \X Int
  BY <1>3, <1>5
<1>7. MeshArea' = Total(r)
  <2>1. MeshArea' = Total([k \in DOMAIN us |-> Orient(vs[us[k].v[1]], vs[us[k].v[2]], vs[us[k].v[3]])])
    BY <1>4 DEF MeshArea, Area, Corner
  <2> QED
    BY <1>1, <2>1
<1> HIDE DEF us, vs
<1>8. /\ s \in Seq(Int) /\ Len(s) = nt /\ \A k \in 1..nt : s[k] = Area(tris[k])
  <2>1. DOMAIN tris = 1..nt /\ \A k \in 1..nt : \A g \in 1..3 : tris[k].v[g] \in 1..np
    BY <1>5, PartsOf DEF MeshIs
  <2>2. /\ Areas(tris) \in Seq(Int) /\ Len(Areas(tris)) = nt
        /\ \A k \in 1..nt : Areas(tris)[k] = Area(tris[k]) /\ Area(tris[k]) \in Int
    BY <2>1, AreasAre
  <2> QED
    BY <2>2
<1>9. /\ r[i] = Orient(a, b, p) /\ r[nt + 1] = Orient(b, c, p) /\ r[nt + 2] = Orient(c, a, p)
      /\ \A k \in 1..nt : k # i => r[k] = Area(tris[k])
  <2>1. vs[t.v[1]] = a /\ vs[t.v[2]] = b /\ vs[t.v[3]] = c
    BY <1>3, <1>5
  <2>2. r[i] = Orient(vs[us[i].v[1]], vs[us[i].v[2]], vs[us[i].v[3]])
    OBVIOUS
  <2>3. r[nt + 1] = Orient(vs[us[nt + 1].v[1]], vs[us[nt + 1].v[2]], vs[us[nt + 1].v[3]])
    OBVIOUS
  <2>4. r[nt + 2] = Orient(vs[us[nt + 2].v[1]], vs[us[nt + 2].v[2]], vs[us[nt + 2].v[3]])
    OBVIOUS
  <2>5. \A k \in 1..nt : k # i => r[k] = Area(tris[k])
    <3> SUFFICES ASSUME NEW k \in 1..nt, k # i PROVE r[k] = Area(tris[k])
      OBVIOUS
    <3>1. r[k] = Orient(vs[us[k].v[1]], vs[us[k].v[2]], vs[us[k].v[3]])
      OBVIOUS
    <3>2. us[k].v = tris[k].v
      BY <1>2
    <3>3. vs[tris[k].v[1]] = pts[tris[k].v[1]] /\ vs[tris[k].v[2]] = pts[tris[k].v[2]] /\ vs[tris[k].v[3]] = pts[tris[k].v[3]]
      BY <1>3, <1>5
    <3> HIDE DEF r
    <3> QED
      BY <3>1, <3>2, <3>3 DEF Area, Corner
  <2> HIDE DEF r, a, b, c, t
  <2>6. /\ us[i].v[1] = t.v[1] /\ us[i].v[2] = t.v[2] /\ us[i].v[3] = np + 1
        /\ us[nt + 1].v[1] = t.v[2] /\ us[nt + 1].v[2] = t.v[3] /\ us[nt + 1].v[3] = np + 1
        /\ us[nt + 2].v[1] = t.v[3] /\ us[nt + 2].v[2] = t.v[1] /\ us[nt + 2].v[3] = np + 1
    BY <1>2
  <2> QED
    BY <1>3, <2>1, <2>2, <2>3, <2>4, <2>5, <2>6
<1>10. /\ Orient(a, b, p) + Orient(b, c, p) + Orient(c, a, p) = Orient(a, b, c)
       /\ Orient(a, b, p) \in Int /\ Orient(b, c, p) \in Int /\ Orient(c, a, p) \in Int
  <2> HIDE DEF a, b, c
  <2> QED
    BY <1>6, ThirdsHaveTheArea
<1>11. Area(t) = Orient(a, b, c)
  BY DEF Area, Corner
<1>12. \A k \in 1..nt : Area(tris[k]) \in Int
  <2> HIDE DEF s
  <2> QED
    BY <1>8
<1>13. r \in Seq(Int) /\ Len(r) = nt + 2
  <2>1. DOMAIN r = 1..(nt + 2) /\ r = [k \in 1..(nt + 2) |-> r[k]]
    OBVIOUS
  <2>2. \A k \in 1..(nt + 2) : r[k] \in Int
    <3> HIDE DEF r, a, b, c
    <3> SUFFICES ASSUME NEW k \in 1..(nt + 2) PROVE r[k] \in Int
      OBVIOUS
    <3>1. k = i \/ k = nt + 1 \/ k = nt + 2 \/ (k \in 1..nt /\ k # i)
      OBVIOUS
    <3> QED
      BY <1>9, <1>10, <1>12, <3>1
  <2> HIDE DEF r
  <2>3. r \in [1..(nt + 2) -> Int]
    BY <2>1, <2>2
  <2>4. \A m \in Nat : \A g \in [1..m -> Int] : g \in Seq(Int) /\ Len(g) = m
    OBVIOUS
  <2>5. nt + 2 \in Nat
    OBVIOUS
  <2> QED
    BY <2>3, <2>4, <2>5
<1>14. SplitAt(s, r, i)
  <2> HIDE DEF s, r, a, b, c
  <2>1. s[i] = Orient(a, b, c)
    BY <1>8, <1>11
  <2>2. r[i] + r[nt + 1] + r[nt + 2] = s[i]
    BY <1>9, <1>10, <2>1
  <2> QED
    BY <1>8, <1>9, <1>13, <2>2 DEF SplitAt
<1>15. MeshArea = Total(s)
  BY DEF MeshArea, Areas
<1> HIDE DEF s, r
<1> QED
  BY <1>7, <1>8, <1>13, <1>14, <1>15, TotalSplits

(* A point of the grid, or a centroid, is a point of the plane.             *)
LEMMA PointsInserted ==
  ASSUME PolygonOK, PointsOK, TrianglesOK, InsertGrid \/ Split
  PROVE  \E p \in Int \X Int : Insert(p)
<1>m. Len(pts) \in Nat /\ Len(tris) \in Nat /\ MeshIs(Len(pts), Len(tris)) /\ PointsAre(Len(pts))
  BY MeshOf
<1>1. CASE InsertGrid
  <2>1. offered < Len(region.grid) /\ Insert(region.grid[offered + 1])
    BY <1>1 DEF InsertGrid
  <2>2. offered \in 0..Len(region.grid) /\ region.grid \in Seq(Int \X Int)
    BY RegionOf DEF PolygonOK, RegionIs
  <2>3. offered + 1 \in 1..Len(region.grid)
    BY <2>1, <2>2
  <2>4. region.grid[offered + 1] \in Int \X Int
    BY <2>2, <2>3
  <2> QED
    BY <2>1, <2>4
<1>2. CASE Split
  <2>1. PICK i \in pass[1]..pass[2] :
          Insert(<<(Corner(tris[i], 1)[1] + Corner(tris[i], 2)[1] + Corner(tris[i], 3)[1]) \div 3,
                   (Corner(tris[i], 1)[2] + Corner(tris[i], 2)[2] + Corner(tris[i], 3)[2]) \div 3>>)
    BY <1>2 DEF Split
  <2>2. pass \in (Nat \ {0}) \X Nat \X Nat /\ pass[2] <= Len(tris)
    BY DEF TrianglesOK
  <2>3. i \in 1..Len(tris)
    BY <1>m, <2>2
  <2>4. \A k \in 1..3 : Corner(tris[i], k) \in Int \X Int
    <3> SUFFICES ASSUME NEW k \in 1..3 PROVE Corner(tris[i], k) \in Int \X Int
      OBVIOUS
    <3>1. tris[i].v[k] \in 1..Len(pts)
      BY <1>m, <2>3, PartsOf
    <3>2. pts \in Seq(Int \X Int)
      BY DEF PointsOK
    <3> QED
      BY <3>1, <3>2 DEF Corner
  <2> DEFINE x == Corner(tris[i], 1)
             y == Corner(tris[i], 2)
             z == Corner(tris[i], 3)
             p == <<(x[1] + y[1] + z[1]) \div 3, (x[2] + y[2] + z[2]) \div 3>>
  <2>5. x \in Int \X Int /\ y \in Int \X Int /\ z \in Int \X Int
    BY <2>4
  <2>6. Insert(p)
    BY <2>1
  <2> HIDE DEF x, y, z
  <2>7. p \in Int \X Int
    BY <2>5
  <2> HIDE DEF p
  <2> QED
    BY <2>6, <2>7
<1> QED
  BY <1>1, <1>2

(* While there is a mesh no step changes its area.                          *)
AreaKept == pc = "mesh" => MeshArea' = MeshArea
(* Legalize and Insert keep the area of what they split.                    *)
LEMMA AreaStays == MeshTypeOK /\ [Next]_vars => AreaKept
<1> SUFFICES ASSUME MeshTypeOK, [Next]_vars, pc = "mesh"
             PROVE  MeshArea' = MeshArea
  BY DEF AreaKept
<1>0. PolygonOK /\ PointsOK /\ TrianglesOK
  BY DEF MeshTypeOK
<1>m. Len(pts) \in Nat /\ Len(tris) \in Nat /\ MeshIs(Len(pts), Len(tris)) /\ PointsAre(Len(pts))
  BY <1>0, MeshOf
<1>1. ASSUME tris' = tris, pts' = pts PROVE MeshArea' = MeshArea
  BY <1>1 DEF MeshArea, Area, Corner
<1>2. CASE Legalize
  <2>1. pts' = pts
    BY <1>2 DEF Legalize
  <2>2. CASE tris' = tris
    BY <1>1, <2>1, <2>2
  <2>3. CASE FlipsOne
    <3>1. PICK i \in 1..Len(tris), e \in 1..3 : Flippable(i, e) /\ tris' = Flip(i, e)
      BY <2>3 DEF FlipsOne
    <3>2. Total(Areas(Flip(i, e))) = MeshArea
      BY <1>m, <3>1, FlipKeepsArea
    <3>3. MeshArea' = Total([k \in DOMAIN Flip(i, e) |-> Area(Flip(i, e)[k])])
      BY <2>1, <3>1 DEF MeshArea, Area, Corner
    <3> QED
      BY <3>2, <3>3 DEF Areas
  <2> QED
    BY <1>0, <1>2, <2>2, <2>3, LegalizeUnfolds
<1>3. CASE InsertGrid \/ Split
  <2>1. PICK p \in Int \X Int : Insert(p)
    BY <1>0, <1>3, PointsInserted
  <2>2. UNCHANGED meshVars \/ \E i \in 1..Len(tris) : InsertedInto(p, i)
    BY <1>m, <2>1, InsertUnfolds
  <2>3. CASE UNCHANGED meshVars
    BY <1>1, <2>3 DEF meshVars
  <2>4. CASE \E i \in 1..Len(tris) : InsertedInto(p, i)
    BY <1>m, <2>4, InsertKeepsArea
  <2> QED
    BY <2>2, <2>3, <2>4
<1>4. CASE NextPass \/ Export \/ UNCHANGED vars
  <2>1. tris' = tris /\ pts' = pts
    BY <1>4 DEF NextPass, Export, vars, meshVars
  <2> QED
    BY <1>1, <2>1
<1>5. CASE Bridge \/ StartClip \/ Clip \/ Build
  BY <1>5 DEF Bridge, StartClip, Clip, Build
<1> QED
  BY <1>2, <1>3, <1>4, <1>5 DEF Next, Done

------------------------------------------------------------------------------
(* The area of the region.                                                  *)

(* Twice the area of the loops of a region, with the holes of some only.    *)
LoopAreas == [k \in DOMAIN region.loops |-> Size2(region.loops[k])]
HoleAreas(S) == [k \in DOMAIN region.loops |-> IF k \in S THEN Size2(region.loops[k]) ELSE 0]

(* A loop of one or two corners, or of none, has no area.                   *)
LEMMA LoopAreasAre ==
  ASSUME PolygonOK, PointsOK, NEW k \in DOMAIN region.loops
  PROVE  /\ region.loops[k] \in Seq(Corners) /\ Size2(region.loops[k]) \in Int /\ Size2(region.loops[k]) >= 0
         /\ Len(region.loops[k]) < 3 => Size2(region.loops[k]) = 0
<1> DEFINE l == region.loops[k]
<1>1. l \in Seq(Corners)
  BY LoopsAre
<1>2. PointsOf(Corners)
  BY CornersArePoints DEF PointsOf
<1> HIDE DEF l
<1>3. CASE Len(l) >= 1
  <2>1. Size2(l) \in Int /\ Size2(l) >= 0
    BY <1>1, <1>2, <1>3, EitherWay
  <2>2. /\ SignedArea(l) \in Int
        /\ Turns(l) \in Seq(Int) /\ Len(Turns(l)) = Len(l) /\ SignedArea(l) = Total(Turns(l))
    BY <1>1, <1>2, <1>3, AreaIsSwept
  <2>3. ASSUME Len(l) < 3 PROVE SignedArea(l) = 0
    <3> DEFINE n == Len(l)
               p == pts[l[1]]
               q == pts[l[n]]
    <3>1. n = 1 \/ n = 2
      <4>1. Len(l) \in Nat
        BY <1>1
      <4>2. \A m \in Nat : m >= 1 /\ m < 3 => m = 1 \/ m = 2
        OBVIOUS
      <4>3. Len(l) >= 1 /\ Len(l) < 3
        BY <1>3, <2>3
      <4> QED
        BY <4>1, <4>2, <4>3
    <3>2. p \in Int \X Int /\ q \in Int \X Int
      <4>1. l[1] \in Corners /\ l[n] \in Corners
        BY <1>1, <1>3
      <4> QED
        BY <1>2, <4>1 DEF PointsOf
    <3>3. Wedge(p, p) = 0 /\ Wedge(q, p) = -Wedge(p, q) /\ Wedge(p, q) \in Int
      <4> HIDE DEF p, q
      <4>1. \A v, w \in Int \X Int : Wedge(w, v) = -Wedge(v, w) /\ Wedge(v, w) \in Int
        BY WedgeIs
      <4>2. \A x \in Int : x = -x => x = 0
        OBVIOUS
      <4> QED
        BY <3>2, <4>1, <4>2
    <3>4. SignedArea(l) = Swept(l) + Wedge(q, p)
      BY <1>1, <1>2, <1>3, AreaIsSwept DEF Closing
    <3>5. /\ Steps(l) \in Seq(Int) /\ Len(Steps(l)) = Len(l) - 1
          /\ \A j \in 1..(Len(l) - 1) : Steps(l)[j] = StepArea(l, j) /\ StepArea(l, j) \in Int
          /\ Swept(l) \in Int
      BY <1>1, <1>2, <1>3, StepsAre
    <3>6. CASE n = 1
      <4>1. \A j \in 1..Len(Steps(l)) : Steps(l)[j] = 0
        BY <3>5, <3>6
      <4>2. Swept(l) = 0
        BY <3>5, <4>1, TotalOfZeros DEF Swept
      <4>3. q = p
        BY <3>6
      <4> QED
        BY <3>3, <3>4, <4>2, <4>3
    <3>7. CASE n = 2
      <4>1. Len(Steps(l)) = 1 /\ 1 \in 1..Len(Steps(l)) /\ Steps(l)[1] = Wedge(p, q)
        BY <3>5, <3>7 DEF StepArea
      <4>2. \A j \in 1..Len(Steps(l)) : j # 1 => Steps(l)[j] = 0
        BY <4>1
      <4>3. Swept(l) = Wedge(p, q)
        BY <3>5, <4>1, <4>2, TotalOfOne DEF Swept
      <4> HIDE DEF p, q
      <4>4. \A x \in Int : x + -x = 0
        OBVIOUS
      <4> QED
        BY <3>3, <3>4, <4>3, <4>4
    <3> QED
      BY <3>1, <3>6, <3>7
  <2>4. Len(l) < 3 => Size2(l) = 0
    BY <2>3 DEF Size2
  <2> QED
    BY <1>1, <2>1, <2>4 DEF l
<1>4. CASE Len(l) = 0
  <2> DEFINE s == [i \in DOMAIN l |-> pts[Pred(l, i)][1] * pts[l[i]][2] - pts[l[i]][1] * pts[Pred(l, i)][2]]
  <2>1. DOMAIN l = {}
    BY <1>1, <1>4
  <2>2. s \in Seq(Int) /\ \A i \in 1..Len(s) : s[i] = 0
    <3>1. s = <<>>
      BY <2>1
    <3> HIDE DEF s
    <3> QED
      BY <3>1
  <2>3. SignedArea(l) = Total(s)
    BY DEF SignedArea
  <2> HIDE DEF s
  <2>4. SignedArea(l) = 0
    BY <2>2, <2>3, TotalOfZeros
  <2>5. Size2(l) = 0
    BY <2>4 DEF Size2
  <2> QED
    BY <1>1, <2>5 DEF l
<1> QED
  BY <1>1, <1>3, <1>4 DEF l

(* The areas of the loops, and what they leave of the region.               *)
RegionAreaParts(S) ==
  /\ LoopAreas \in Seq(Int) /\ Len(LoopAreas) = Len(region.loops)
  /\ HoleAreas(S) \in Seq(Int) /\ Len(HoleAreas(S)) = Len(region.loops)
  /\ Len(region.loops) \in Nat /\ Len(region.loops) >= 1 /\ DOMAIN region.loops = 1..Len(region.loops)
  /\ \A k \in 1..Len(region.loops) :
       /\ Size2(region.loops[k]) \in Int /\ Size2(region.loops[k]) >= 0
       /\ LoopAreas[k] = Size2(region.loops[k])
       /\ HoleAreas(S)[k] = IF k \in S THEN Size2(region.loops[k]) ELSE 0
       /\ Len(region.loops[k]) < 3 => Size2(region.loops[k]) = 0
  /\ RegionArea = 2 * Size2(region.loops[1]) - Total(LoopAreas) /\ RegionArea \in Int
  /\ Total(LoopAreas) \in Int /\ Total(HoleAreas(S)) \in Int /\ Total(HoleAreas(S)) >= 0
(* They are integers.                                                       *)
LEMMA RegionAreaIs ==
  ASSUME PolygonOK, PointsOK, NEW S
  PROVE  RegionAreaParts(S)
<1> DEFINE n == Len(region.loops)
<1>1. n \in Nat /\ n >= 1 /\ DOMAIN region.loops = 1..n
  <2>1. region.loops \in Seq(Seq(Corners)) /\ Len(region.loops) >= 1
    BY RegionOf DEF RegionIs, Corners
  <2> QED
    BY <2>1
<1>2. \A k \in 1..n : /\ Size2(region.loops[k]) \in Int /\ Size2(region.loops[k]) >= 0
                      /\ Len(region.loops[k]) < 3 => Size2(region.loops[k]) = 0
  BY <1>1, LoopAreasAre
<1>3. LoopAreas = [k \in 1..n |-> Size2(region.loops[k])]
  BY <1>1 DEF LoopAreas
<1>4. HoleAreas(S) = [k \in 1..n |-> IF k \in S THEN Size2(region.loops[k]) ELSE 0]
  BY <1>1 DEF HoleAreas
<1>5. RegionArea = 2 * Size2(region.loops[1]) - Total(LoopAreas)
  BY DEF RegionArea, LoopAreas, Size2
<1> HIDE DEF n
<1>f. \A m \in Nat : \A g \in [1..m -> Int] : g \in Seq(Int) /\ Len(g) = m
  OBVIOUS
<1>6. /\ LoopAreas \in Seq(Int) /\ Len(LoopAreas) = n
      /\ \A k \in 1..n : LoopAreas[k] = Size2(region.loops[k])
  <2>1. LoopAreas \in [1..n -> Int]
    BY <1>2, <1>3
  <2> QED
    BY <1>1, <1>3, <1>f, <2>1
<1>7. /\ HoleAreas(S) \in Seq(Int) /\ Len(HoleAreas(S)) = n
      /\ \A k \in 1..n : HoleAreas(S)[k] = (IF k \in S THEN Size2(region.loops[k]) ELSE 0)
  <2>1. HoleAreas(S) \in [1..n -> Int]
    BY <1>2, <1>4
  <2> QED
    BY <1>1, <1>4, <1>f, <2>1
<1>8. Total(LoopAreas) \in Int /\ Total(HoleAreas(S)) \in Int
  BY <1>6, <1>7, TotalIsInt
<1>9. Total(HoleAreas(S)) >= 0
  <2> DEFINE s == HoleAreas(S)
  <2>1. \A k \in 1..n : s[k] >= 0
    <3> SUFFICES ASSUME NEW k \in 1..n PROVE s[k] >= 0
      OBVIOUS
    <3>1. s[k] = (IF k \in S THEN Size2(region.loops[k]) ELSE 0) /\ Size2(region.loops[k]) >= 0
      BY <1>2, <1>7
    <3> HIDE DEF s
    <3> QED
      BY <3>1
  <2>2. s \in Seq(Int) /\ Len(s) = n
    BY <1>7
  <2> HIDE DEF s
  <2>3. Total(s) >= 0
    BY <2>1, <2>2, TotalIsNatural
  <2> QED
    BY <2>3 DEF s
<1>10. RegionArea \in Int
  <2> DEFINE a == Size2(region.loops[1])
             b == Total(LoopAreas)
  <2>1. a \in Int /\ b \in Int /\ RegionArea = 2 * a - b
    BY <1>1, <1>2, <1>5, <1>8
  <2> HIDE DEF a, b
  <2> QED
    BY <2>1
<1> QED
  BY <1>1, <1>2, <1>5, <1>6, <1>7, <1>8, <1>9, <1>10 DEF RegionAreaParts, n

(* The outer loop is the region and all its holes.                          *)
LEMMA HolesAndRegion ==
  ASSUME PolygonOK, PointsOK, holes = {h \in 2..Len(region.loops) : Len(region.loops[h]) >= 3}
  PROVE  Size2(region.loops[1]) = RegionArea + Total(HoleAreas(holes))
<1> DEFINE n == Len(region.loops)
           s == HoleAreas(holes)
           t == LoopAreas
           a == Size2(region.loops[1])
           r == RegionArea
           ts == Total(s)
           tt == Total(t)
<1>1. RegionAreaParts(holes)
  BY RegionAreaIs
<1>2. /\ t \in Seq(Int) /\ Len(t) = n /\ s \in Seq(Int) /\ Len(s) = n
      /\ n \in Nat /\ n >= 1 /\ DOMAIN region.loops = 1..n
  BY <1>1 DEF RegionAreaParts
<1>3. a \in Int /\ r \in Int /\ tt \in Int /\ ts \in Int /\ r = 2 * a - tt
  BY <1>1, <1>2 DEF RegionAreaParts
<1>4. \A k \in 1..n : /\ t[k] = Size2(region.loops[k])
                      /\ s[k] = IF k \in holes THEN Size2(region.loops[k]) ELSE 0
                      /\ Len(region.loops[k]) < 3 => Size2(region.loops[k]) = 0
  BY <1>1 DEF RegionAreaParts
<1>5. s[1] = 0 /\ t[1] = a
  BY <1>2, <1>4
<1>6. \A k \in 1..n : k # 1 => t[k] = s[k]
  <2> SUFFICES ASSUME NEW k \in 1..n, k # 1 PROVE t[k] = s[k]
    OBVIOUS
  <2>1. region.loops[k] \in Seq(Corners)
    BY <1>2, LoopsAre
  <2>2. Len(region.loops[k]) \in Nat
    BY <2>1
  <2>3. CASE Len(region.loops[k]) < 3
    BY <1>4, <2>3
  <2>4. CASE Len(region.loops[k]) >= 3
    <3>1. k \in 2..n
      BY <1>2
    <3>2. k \in holes
      BY <2>4, <3>1
    <3> QED
      BY <1>4, <3>2
  <2> QED
    BY <2>2, <2>3, <2>4
<1> HIDE DEF s, t, a, r
<1>7. tt = ts + (t[1] - s[1])
  <2>1. Len(t) = Len(s) /\ 1 \in 1..Len(s) /\ \A k \in 1..Len(s) : k # 1 => t[k] = s[k]
    BY <1>2, <1>6
  <2> QED
    BY <1>2, <2>1, TotalChanges
<1> HIDE DEF ts, tt
<1>8. a = r + ts
  BY <1>3, <1>5, <1>7
<1> QED
  BY <1>8 DEF a, r, ts, s

(* A hole that is bridged leaves the others; and in the end there are none. *)
LEMMA HoleTaken ==
  ASSUME PolygonOK, PointsOK, NEW h \in holes
  PROVE  Total(HoleAreas(holes)) = Total(HoleAreas(holes \ {h})) + Size2(region.loops[h])
<1> DEFINE n == Len(region.loops)
           s == HoleAreas(holes)
           T == holes \ {h}
           t == HoleAreas(T)
           a == Size2(region.loops[h])
           ts == Total(s)
           tt == Total(t)
<1>0. h \notin T /\ \A k : k # h => (k \in T <=> k \in holes)
  OBVIOUS
<1> HIDE DEF T
<1>1. RegionAreaParts(holes) /\ RegionAreaParts(T)
  BY RegionAreaIs
<1>2. /\ t \in Seq(Int) /\ Len(t) = n /\ s \in Seq(Int) /\ Len(s) = n
      /\ n \in Nat /\ n >= 1 /\ DOMAIN region.loops = 1..n
  BY <1>1 DEF RegionAreaParts
<1>3. h \in 1..n
  BY <1>2 DEF PolygonOK
<1>4. a \in Int /\ tt \in Int /\ ts \in Int
  BY <1>1, <1>3 DEF RegionAreaParts
<1>5. \A k \in 1..n : /\ s[k] = IF k \in holes THEN Size2(region.loops[k]) ELSE 0
                      /\ t[k] = IF k \in T THEN Size2(region.loops[k]) ELSE 0
  BY <1>1 DEF RegionAreaParts
<1>6. s[h] = a /\ t[h] = 0 /\ \A k \in 1..n : k # h => t[k] = s[k]
  BY <1>0, <1>3, <1>5
<1> HIDE DEF s, t, a
<1>7. tt = ts + (t[h] - s[h])
  <2>1. Len(t) = Len(s) /\ h \in 1..Len(s) /\ \A k \in 1..Len(s) : k # h => t[k] = s[k]
    BY <1>2, <1>3, <1>6
  <2> QED
    BY <1>2, <2>1, TotalChanges
<1> HIDE DEF ts, tt
<1>8. ts = tt + a
  BY <1>4, <1>6, <1>7
<1> QED
  BY <1>8 DEF a, ts, tt, s, t, T

(* Without holes nothing is left to take.                                   *)
LEMMA NoHolesLeft ==
  ASSUME PolygonOK, PointsOK
  PROVE  Total(HoleAreas({})) = 0
<1> DEFINE s == HoleAreas({})
<1>1. RegionAreaParts({})
  BY RegionAreaIs
<1>2. s \in Seq(Int) /\ \A k \in 1..Len(s) : s[k] = 0
  BY <1>1 DEF RegionAreaParts
<1> HIDE DEF s
<1> QED
  BY <1>2, TotalOfZeros DEF s

(* The points of the region stay where they are, and with them its area.    *)
LEMMA RegionStays ==
  ASSUME PolygonOK, PointsOK, region' = region, \A x \in Corners : pts'[x] = pts[x]
  PROVE  /\ \A l \in Seq(Corners) : SignedArea(l)' = SignedArea(l)
         /\ RegionArea' = RegionArea
<1>1. ASSUME NEW l \in Seq(Corners)
      PROVE  SignedArea(l)' = SignedArea(l) /\ Size2(l)' = Size2(l)
  <2>1. \A i \in DOMAIN l : pts'[Pred(l, i)] = pts[Pred(l, i)] /\ pts'[l[i]] = pts[l[i]]
    <3> SUFFICES ASSUME NEW i \in DOMAIN l
                 PROVE  pts'[Pred(l, i)] = pts[Pred(l, i)] /\ pts'[l[i]] = pts[l[i]]
      OBVIOUS
    <3>1. i \in 1..Len(l)
      OBVIOUS
    <3>2. l[i] \in Corners /\ Pred(l, i) \in Corners
      BY <3>1, NextTo
    <3> QED
      BY <3>2
  <2>2. SignedArea(l)' = Total([i \in DOMAIN l |-> pts'[Pred(l, i)][1] * pts'[l[i]][2] - pts'[l[i]][1] * pts'[Pred(l, i)][2]])
    BY DEF SignedArea, Pred
  <2>3. SignedArea(l) = Total([i \in DOMAIN l |-> pts[Pred(l, i)][1] * pts[l[i]][2] - pts[l[i]][1] * pts[Pred(l, i)][2]])
    BY DEF SignedArea
  <2>4. [i \in DOMAIN l |-> pts'[Pred(l, i)][1] * pts'[l[i]][2] - pts'[l[i]][1] * pts'[Pred(l, i)][2]]
        = [i \in DOMAIN l |-> pts[Pred(l, i)][1] * pts[l[i]][2] - pts[l[i]][1] * pts[Pred(l, i)][2]]
    BY <2>1
  <2>5. SignedArea(l)' = SignedArea(l)
    BY <2>2, <2>3, <2>4
  <2> QED
    BY <2>5 DEF Size2
<1>2. RegionArea' = RegionArea
  <2>1. \A k \in DOMAIN region.loops : Size2(region.loops[k])' = Size2(region.loops[k])
    <3> SUFFICES ASSUME NEW k \in DOMAIN region.loops PROVE Size2(region.loops[k])' = Size2(region.loops[k])
      OBVIOUS
    <3> DEFINE l == region.loops[k]
    <3>1. l \in Seq(Corners)
      BY LoopsAre
    <3> QED
      BY <1>1, <3>1
  <2>2. RegionArea' = 2 * Size2(region.loops[1])' - Total([k \in DOMAIN region.loops |-> Size2(region.loops[k])'])
    BY DEF RegionArea, Size2
  <2>3. RegionArea = 2 * Size2(region.loops[1]) - Total([k \in DOMAIN region.loops |-> Size2(region.loops[k])])
    BY DEF RegionArea, Size2
  <2>4. [k \in DOMAIN region.loops |-> Size2(region.loops[k])'] = [k \in DOMAIN region.loops |-> Size2(region.loops[k])]
    BY <2>1
  <2>5. 1 \in DOMAIN region.loops
    BY RegionOf DEF RegionIs
  <2>6. Size2(region.loops[1])' = Size2(region.loops[1])
    BY <2>1, <2>5
  <2> QED
    BY <2>2, <2>3, <2>4, <2>6
<1> QED
  BY <1>1, <1>2

(* One more triangle adds its area.                                         *)
LEMMA AppendedArea ==
  ASSUME NEW np \in Nat, PointsAre(np), NEW mt \in Nat,
         NEW ts \in Seq(Triangles(np, mt)), NEW t \in Triangles(np, mt)
  PROVE  Total(Areas(Append(ts, t))) = Total(Areas(ts)) + Area(t)
<1> DEFINE n  == Len(ts)
           us == Append(ts, t)
           s  == Areas(ts)
           u  == Areas(us)
<1>1. /\ n \in Nat /\ DOMAIN ts = 1..n /\ \A k \in 1..n : ts[k] \in Triangles(np, mt)
  OBVIOUS
<1>2. /\ DOMAIN us = 1..(n + 1) /\ us[n + 1] = t /\ \A k \in 1..n : us[k] = ts[k]
  OBVIOUS
<1>3. \A x \in Triangles(np, mt) : \A e \in 1..3 : x.v[e] \in 1..np
  BY DEF Triangles
<1> HIDE DEF n, us
<1>4. n + 1 \in Nat /\ n + 1 \in 1..(n + 1) /\ \A k \in 1..(n + 1) : k \in 1..n \/ k = n + 1
  BY <1>1
<1>5. \A k \in 1..(n + 1) : us[k] \in Triangles(np, mt)
  BY <1>1, <1>2, <1>4
<1>6. /\ s \in Seq(Int) /\ Len(s) = n
      /\ \A k \in 1..n : s[k] = Area(ts[k]) /\ Area(ts[k]) \in Int
  <2>1. \A k \in 1..n : \A e \in 1..3 : ts[k].v[e] \in 1..np
    BY <1>1, <1>3
  <2> QED
    BY <1>1, <2>1, AreasAre
<1>7. /\ u \in Seq(Int) /\ Len(u) = n + 1
      /\ \A k \in 1..(n + 1) : u[k] = Area(us[k]) /\ Area(us[k]) \in Int
  <2>1. \A k \in 1..(n + 1) : \A e \in 1..3 : us[k].v[e] \in 1..np
    BY <1>3, <1>5
  <2> QED
    BY <1>2, <1>4, <2>1, AreasAre
<1> HIDE DEF s, u
<1>8. /\ Area(t) \in Int /\ Len(u) = Len(s) + 1 /\ u[Len(s) + 1] = Area(t)
      /\ \A k \in 1..Len(s) : u[k] = s[k]
  <2>1. u[n + 1] = Area(t) /\ Area(t) \in Int
    BY <1>2, <1>4, <1>7
  <2>2. \A k \in 1..n : u[k] = s[k]
    <3> SUFFICES ASSUME NEW k \in 1..n PROVE u[k] = s[k]
      OBVIOUS
    <3>1. k \in 1..(n + 1)
      BY <1>1
    <3> QED
      BY <1>2, <1>6, <1>7, <3>1
  <2> QED
    BY <1>6, <1>7, <2>1, <2>2
<1>9. Total(u) = Total(s) + Area(t)
  BY <1>6, <1>7, <1>8, TotalAppends
<1> QED
  BY <1>9 DEF u, s, us

(* Without a triangle there is no area.                                     *)
LEMMA NoTrianglesYet ==
  ASSUME tris = <<>>
  PROVE  MeshArea = 0
<1> DEFINE s == [i \in DOMAIN tris |-> Area(tris[i])]
<1>1. s = <<>>
  OBVIOUS
<1>2. MeshArea = Total(s)
  BY DEF MeshArea
<1> HIDE DEF s
<1>3. s \in Seq(Int) /\ \A k \in 1..Len(s) : s[k] = 0
  BY <1>1
<1> QED
  BY <1>2, <1>3, TotalOfZeros

(* What is to come of the region, phase by phase: the polygon has the area  *)
(* of the region and of the holes that are not bridged yet; the triangles   *)
(* and the rest of the polygon make up the region; the triangles do.        *)
AreaToBridge == /\ tris = <<>>
                /\ RegionArea >= 0 => Size2(merged) = RegionArea + Total(HoleAreas(holes))
AreaToClip == RegionArea >= 0 => MeshArea + SignedArea(loop) = RegionArea
AreaMeshed == /\ RegionArea >= 0 /\ Len(loop) = 3 => MeshArea = RegionArea
              /\ pc = "done" /\ OneLoop => kept = DOMAIN tris
AreaInv == /\ MeshTypeOK
           /\ pc = "bridge" => AreaToBridge
           /\ pc = "clip" => AreaToClip
           /\ pc \in {"mesh", "done"} => AreaMeshed

(* A bridge takes its hole's area from the polygon.                         *)
LEMMA BridgesTakeTheirHoles ==
  ASSUME MeshTypeOK, AreaToBridge, Bridge
  PROVE  AreaToBridge'
<1>0. PolygonOK /\ PointsOK /\ TrianglesOK
  BY DEF MeshTypeOK
<1>1. /\ region' = region /\ pts' = pts /\ tris' = tris
  BY DEF Bridge, inVars, meshVars
<1>2. PICK h \in holes : merged' = BridgeHole(merged, region.loops[h]) /\ holes' = holes \ {h}
  BY DEF Bridge
<1>3. tris' = <<>>
  BY <1>1 DEF AreaToBridge
<1>4. RegionArea' = RegionArea
  BY <1>0, <1>1, RegionStays
<1>5. Size2(merged)' = Size2(merged')
  BY <1>1 DEF Size2, SignedArea, Pred
<1>6. HoleAreas(holes)' = HoleAreas(holes \ {h})
  <2>1. HoleAreas(holes)' = [k \in DOMAIN region.loops |-> IF k \in holes \ {h} THEN Size2(region.loops[k])' ELSE 0]
    BY <1>1, <1>2 DEF HoleAreas
  <2>2. \A k \in DOMAIN region.loops : Size2(region.loops[k])' = Size2(region.loops[k])
    BY <1>1 DEF Size2, SignedArea, Pred
  <2> QED
    BY <2>1, <2>2 DEF HoleAreas
<1>7. h \in DOMAIN region.loops /\ Len(region.loops[h]) >= 3 /\ region.loops[h] \in Seq(Corners)
  <2>1. h \in DOMAIN region.loops /\ Len(region.loops[h]) >= 3
    BY <1>0 DEF PolygonOK
  <2> QED
    BY <1>0, <2>1, LoopsAre
<1>8. merged \in Seq(Corners) /\ Len(merged) >= 3
  BY <1>0 DEF PolygonOK
<1>9. SignedArea(merged') = Size2(merged) - Size2(region.loops[h])
  <2>1. SignedArea(BridgeHole(merged, region.loops[h])) = Size2(merged) - Size2(region.loops[h])
    BY <1>0, <1>7, <1>8, AreaOfBridge
  <2> QED
    BY <1>2, <2>1
<1>10. Total(HoleAreas(holes)) = Total(HoleAreas(holes \ {h})) + Size2(region.loops[h])
  BY <1>0, HoleTaken
<1> DEFINE r == RegionArea
           a == Size2(region.loops[h])
           m == Size2(merged)
           t == Total(HoleAreas(holes \ {h}))
           n == SignedArea(merged')
<1>11. r \in Int /\ t \in Int /\ t >= 0 /\ a \in Int
  <2>1. RegionAreaParts(holes \ {h})
    BY <1>0, RegionAreaIs
  <2>2. r \in Int /\ t \in Int /\ t >= 0
    BY <2>1 DEF RegionAreaParts
  <2>3. a \in Int
    BY <1>0, <1>7, LoopAreasAre
  <2> QED
    BY <2>2, <2>3
<1>12. r >= 0 => m = r + (t + a)
  BY <1>10 DEF AreaToBridge
<1>13. n = m - a
  BY <1>9
<1>14. Size2(merged') = IF n < 0 THEN -n ELSE n
  BY DEF Size2
<1> HIDE DEF r, a, m, t, n
<1>15. r >= 0 => Size2(merged') = r + t
  BY <1>11, <1>12, <1>13, <1>14
<1> QED
  BY <1>3, <1>4, <1>5, <1>6, <1>15 DEF AreaToBridge, r, t

(* With all the holes bridged, the polygon has the area of the region.      *)
LEMMA ClipBegins ==
  ASSUME MeshTypeOK, AreaToBridge, StartClip
  PROVE  AreaToClip'
<1>0. PolygonOK /\ PointsOK /\ TrianglesOK
  BY DEF MeshTypeOK
<1>1. /\ region' = region /\ pts' = pts /\ tris' = tris /\ holes = {}
      /\ loop' = Outward(merged)
  BY DEF StartClip, meshVars, Outward
<1>2. RegionArea' = RegionArea
  BY <1>0, <1>1, RegionStays
<1>3. MeshArea' = 0
  <2>1. MeshArea = 0
    BY NoTrianglesYet DEF AreaToBridge
  <2> QED
    BY <1>1, <2>1 DEF MeshArea, Area, Corner
<1>4. SignedArea(loop)' = SignedArea(Outward(merged))
  <2>1. SignedArea(loop)' = SignedArea(loop')
    BY <1>1 DEF SignedArea, Pred
  <2> QED
    BY <1>1, <2>1
<1>5. merged \in Seq(Corners) /\ Len(merged) >= 1
  BY <1>0 DEF PolygonOK
<1>6. PointsOf(Corners)
  BY <1>0, CornersArePoints DEF PointsOf
<1>7. SignedArea(Outward(merged)) = Size2(merged) /\ Size2(merged) \in Int
  BY <1>5, <1>6, EitherWay
<1>8. RegionArea >= 0 => Size2(merged) = RegionArea + Total(HoleAreas({}))
  BY <1>1 DEF AreaToBridge
<1>9. Total(HoleAreas({})) = 0
  BY <1>0, NoHolesLeft
<1>10. RegionArea \in Int
  <2>1. RegionAreaParts({})
    BY <1>0, RegionAreaIs
  <2> QED
    BY <2>1 DEF RegionAreaParts
<1> QED
  BY <1>2, <1>3, <1>4, <1>7, <1>8, <1>9, <1>10 DEF AreaToClip

(* An ear takes its own area from the polygon.                              *)
LEMMA EarsTakeTheirArea ==
  ASSUME MeshTypeOK, AreaToClip, Clip
  PROVE  AreaToClip'
<1> DEFINE i == Least(Ears)
           t == Unlinked(Pred(loop, i), loop[i], Succ(loop, i))
           np == Len(pts)
           nt == Len(tris)
<1>0. PolygonOK /\ PointsOK /\ TrianglesOK
  BY DEF MeshTypeOK
<1>1. region' = region /\ pts' = pts /\ tris' = Append(tris, t) /\ loop' = RemoveAt(loop, i)
  BY DEF Clip, inVars
<1>2. np \in Nat /\ nt \in Nat /\ PointsAre(np) /\ tris \in Seq(Triangles(np, nt))
  BY <1>0, MeshOf DEF MeshIs
<1>3. loop \in Seq(Corners) /\ Len(loop) \in Nat /\ Len(loop) > 3
  BY <1>0 DEF PolygonOK, Clip
<1>4. i \in 1..Len(loop)
  <2>1. Ears \in SUBSET (1..Len(loop)) /\ Ears # {}
    BY <1>3 DEF Ears, Clip
  <2> QED
    BY <1>3, <2>1, LeastIs
<1>5. RegionArea' = RegionArea
  BY <1>0, <1>1, RegionStays
<1> HIDE DEF i
<1>6. PointsOf(Corners)
  BY <1>0, CornersArePoints DEF PointsOf
<1>7. SignedArea(loop) = SignedArea(RemoveAt(loop, i)) + Orient(pts[Pred(loop, i)], pts[loop[i]], pts[Succ(loop, i)])
  <2>1. Len(loop) >= 3
    BY <1>3
  <2> QED
    BY <1>3, <1>4, <1>6, <2>1, AreaOfEar
<1>8. SignedArea(loop)' = SignedArea(RemoveAt(loop, i))
  <2>1. SignedArea(loop)' = SignedArea(loop')
    BY <1>1 DEF SignedArea, Pred
  <2> QED
    BY <1>1, <2>1
<1>9. loop[i] \in Corners /\ Succ(loop, i) \in Corners /\ Pred(loop, i) \in Corners
  BY <1>3, <1>4, NextTo
<1>10. t \in Triangles(np, nt)
  <2>1. loop[i] \in 1..np /\ Succ(loop, i) \in 1..np /\ Pred(loop, i) \in 1..np
    BY <1>0, <1>9, CornersArePoints
  <2> QED
    BY <1>2, <2>1 DEF Unlinked, Tri, Triangles
<1>11. Area(t) = Orient(pts[Pred(loop, i)], pts[loop[i]], pts[Succ(loop, i)])
  BY DEF Area, Corner, Unlinked, Tri
<1> HIDE DEF t, np, nt
<1>12. MeshArea' = MeshArea + Area(t)
  <2>1. Total(Areas(Append(tris, t))) = Total(Areas(tris)) + Area(t)
    BY <1>2, <1>10, AppendedArea
  <2>2. MeshArea' = Total(Areas(Append(tris, t)))
    BY <1>1 DEF MeshArea, Areas, Area, Corner
  <2> QED
    BY <2>1, <2>2 DEF MeshArea, Areas
<1> DEFINE a == Orient(pts[Pred(loop, i)], pts[loop[i]], pts[Succ(loop, i)])
           s == SignedArea(RemoveAt(loop, i))
           m == MeshArea
           r == RegionArea
<1>13. a \in Int /\ s \in Int /\ m \in Int
  <2>1. a \in Int
    <3>1. pts[loop[i]] \in Int \X Int /\ pts[Succ(loop, i)] \in Int \X Int /\ pts[Pred(loop, i)] \in Int \X Int
      BY <1>6, <1>9 DEF PointsOf
    <3> QED
      BY <3>1, HalvesHaveTheArea
  <2>2. s \in Int
    <3>1. RemoveAt(loop, i) \in Seq(Corners) /\ Len(RemoveAt(loop, i)) = Len(loop) - 1
      BY <1>3, <1>4, RemovedIs
    <3>2. Len(RemoveAt(loop, i)) >= 1
      BY <1>3, <3>1
    <3> QED
      BY <1>6, <3>1, <3>2, AreaIsSwept
  <2>3. m \in Int
    <3>1. nt \in Nat /\ DOMAIN tris = 1..nt /\ \A k \in 1..nt : tris[k] \in Triangles(np, nt)
      BY <1>2 DEF nt
    <3>2. \A k \in 1..nt : \A e \in 1..3 : tris[k].v[e] \in 1..np
      BY <3>1 DEF Triangles
    <3>3. /\ Areas(tris) \in Seq(Int) /\ Len(Areas(tris)) = nt
          /\ \A k \in 1..nt : Areas(tris)[k] = Area(tris[k]) /\ Area(tris[k]) \in Int
      BY <1>2, <3>1, <3>2, AreasAre
    <3>4. Total(Areas(tris)) \in Int
      BY <3>3, TotalIsInt
    <3> QED
      BY <3>4 DEF MeshArea, Areas
  <2> QED
    BY <2>1, <2>2, <2>3
<1>14. r >= 0 => m + (s + a) = r
  BY <1>7 DEF AreaToClip
<1>15. MeshArea' = m + a /\ SignedArea(loop)' = s /\ RegionArea' = r
  BY <1>5, <1>8, <1>11, <1>12
<1> HIDE DEF a, s, m, r
<1>16. r >= 0 => (m + a) + s = r
  BY <1>13, <1>14
<1> QED
  BY <1>15, <1>16 DEF AreaToClip

(* The last ear is the rest of the polygon.                                 *)
LEMMA BuildMakesUp ==
  ASSUME MeshTypeOK, AreaToClip, Build
  PROVE  RegionArea' >= 0 /\ Len(loop') = 3 => MeshArea' = RegionArea'
<1> DEFINE np == Len(pts)
           nt == Len(tris)
           t  == Unlinked(loop[1], loop[2], loop[3])
           ts == Append(tris, t)
<1>0. PolygonOK /\ PointsOK /\ TrianglesOK
  BY DEF MeshTypeOK
<1>1. region' = region /\ pts' = pts /\ loop' = loop
  BY DEF Build, polyVars
<1>2. RegionArea' = RegionArea
  BY <1>0, <1>1, RegionStays
<1>3. np \in Nat /\ nt \in Nat /\ PointsAre(np) /\ tris \in Seq(Triangles(np, nt))
  BY <1>0, MeshOf DEF MeshIs
<1> SUFFICES ASSUME RegionArea >= 0, Len(loop) = 3
             PROVE  MeshArea' = RegionArea
  BY <1>1, <1>2
<1>4. tris' = LinkedUp(ts)
  BY DEF Build
<1>5. loop \in Seq(Corners) /\ loop[1] \in Corners /\ loop[2] \in Corners /\ loop[3] \in Corners
  <2>1. loop \in Seq(Corners)
    BY <1>0 DEF PolygonOK
  <2> QED
    BY <2>1
<1>6. t \in Triangles(np, nt)
  <2>1. loop[1] \in 1..np /\ loop[2] \in 1..np /\ loop[3] \in 1..np
    BY <1>0, <1>5, CornersArePoints
  <2> QED
    BY <1>3, <2>1 DEF Unlinked, Tri, Triangles
<1>7. Area(t) = SignedArea(loop)
  <2>1. Area(t) = Orient(pts[loop[1]], pts[loop[2]], pts[loop[3]])
    BY DEF Area, Corner, Unlinked, Tri
  <2>2. PointsOf(Corners)
    BY <1>0, CornersArePoints DEF PointsOf
  <2>3. SignedArea(loop) = Orient(pts[loop[1]], pts[loop[2]], pts[loop[3]])
    BY <1>5, <2>2, AreaOfThree
  <2> QED
    BY <2>1, <2>3
<1> HIDE DEF t, np, nt
<1>8. Total(Areas(ts)) = MeshArea + Area(t)
  <2>1. Total(Areas(ts)) = Total(Areas(tris)) + Area(t)
    BY <1>3, <1>6, AppendedArea
  <2> QED
    BY <2>1 DEF MeshArea, Areas
<1>9. ts \in Seq(Triangles(np, nt)) /\ Len(ts) \in Nat
  BY <1>3, <1>6
<1> HIDE DEF ts
<1>10. MeshArea' = Total(Areas(ts))
  <2> DEFINE us == LinkedUp(ts)
             n  == Len(ts)
  <2>1. us \in Seq(Triangles(np, n)) /\ Len(us) = n /\ \A k \in 1..n : us[k].v = ts[k].v
    BY <1>3, <1>9, LinkedUpIs
  <2>2. MeshArea' = Total([k \in DOMAIN us |-> Area(us[k])])
    BY <1>1, <1>4 DEF MeshArea, Area, Corner
  <2> HIDE DEF us
  <2>3. DOMAIN us = 1..n /\ DOMAIN ts = 1..n
    BY <1>9, <2>1
  <2>4. \A k \in 1..n : Area(us[k]) = Area(ts[k])
    BY <2>1 DEF Area, Corner
  <2>5. [k \in DOMAIN us |-> Area(us[k])] = [k \in DOMAIN ts |-> Area(ts[k])]
    BY <2>3, <2>4
  <2> QED
    BY <2>2, <2>5 DEF Areas
<1> QED
  BY <1>7, <1>8, <1>10 DEF AreaToClip

(* Points are added to the mesh, and no corner of the region moves.         *)
LEMMA CornersStay ==
  ASSUME PolygonOK, PointsOK, TrianglesOK, Legalize \/ InsertGrid \/ Split \/ NextPass
  PROVE  \A x \in Corners : pts'[x] = pts[x]
<1>1. CASE pts' = pts
  BY <1>1
<1>2. CASE InsertGrid \/ Split
  <2>1. PICK p \in Int \X Int : Insert(p)
    BY <1>2, PointsInserted
  <2>2. pts' = pts \/ pts' = Append(pts, p)
    BY <2>1 DEF Insert, meshVars
  <2>3. \A x \in 1..Len(pts) : Append(pts, p)[x] = pts[x]
    BY DEF PointsOK
  <2>4. \A x \in Corners : x \in 1..Len(pts)
    BY CornersArePoints
  <2> QED
    BY <2>2, <2>3, <2>4
<1> QED
  BY <1>1, <1>2 DEF Legalize, NextPass, meshVars

(* Every action keeps what is to come of the region.                        *)
LEMMA AreaInvStays == AreaInv /\ [Next]_vars => AreaInv'
<1> SUFFICES ASSUME AreaInv, [Next]_vars PROVE AreaInv'
  OBVIOUS
<1>0. MeshTypeOK /\ PolygonOK /\ PointsOK /\ TrianglesOK
  BY DEF AreaInv, MeshTypeOK
<1>t. MeshTypeOK'
  BY <1>0, MeshTypesStay
<1>1. CASE Bridge
  <2>1. pc = "bridge" /\ pc' = "bridge"
    BY <1>1 DEF Bridge
  <2>2. AreaToBridge'
    BY <1>0, <1>1, <2>1, BridgesTakeTheirHoles DEF AreaInv
  <2> QED
    BY <1>t, <2>1, <2>2 DEF AreaInv
<1>2. CASE StartClip
  <2>1. pc = "bridge" /\ pc' = "clip"
    BY <1>2 DEF StartClip
  <2>2. AreaToClip'
    BY <1>0, <1>2, <2>1, ClipBegins DEF AreaInv
  <2> QED
    BY <1>t, <2>1, <2>2 DEF AreaInv
<1>3. CASE Clip
  <2>1. pc = "clip" /\ pc' = "clip"
    BY <1>3 DEF Clip
  <2>2. AreaToClip'
    BY <1>0, <1>3, <2>1, EarsTakeTheirArea DEF AreaInv
  <2> QED
    BY <1>t, <2>1, <2>2 DEF AreaInv
<1>4. CASE Build
  <2>1. pc = "clip" /\ pc' = "mesh"
    BY <1>4 DEF Build
  <2>2. AreaMeshed'
    BY <1>0, <1>4, <2>1, BuildMakesUp DEF AreaInv, AreaMeshed
  <2> QED
    BY <1>t, <2>1, <2>2 DEF AreaInv
<1>5. CASE Legalize \/ InsertGrid \/ Split \/ NextPass
  <2>1. pc = "mesh" /\ pc' = "mesh" /\ region' = region /\ loop' = loop
    BY <1>5 DEF Legalize, InsertGrid, Split, NextPass, Resting, inVars, polyVars
  <2>2. MeshArea' = MeshArea
    BY <1>0, <2>1, AreaStays DEF AreaKept
  <2>3. \A x \in Corners : pts'[x] = pts[x]
    BY <1>0, <1>5, CornersStay
  <2>4. RegionArea' = RegionArea
    BY <1>0, <2>1, <2>3, RegionStays
  <2>5. AreaMeshed'
    BY <2>1, <2>2, <2>4 DEF AreaInv, AreaMeshed
  <2> QED
    BY <1>t, <2>1, <2>5 DEF AreaInv
<1>6. CASE Export
  <2>1. pc = "mesh" /\ pc' = "done" /\ region' = region /\ loop' = loop /\ pts' = pts /\ tris' = tris
    BY <1>6 DEF Export, Resting, inVars, polyVars, meshVars
  <2>2. OneLoop' => kept' = DOMAIN tris'
    BY <1>6, <2>1 DEF Export, OneLoop
  <2>3. MeshArea' = MeshArea
    BY <2>1 DEF MeshArea, Area, Corner
  <2>4. RegionArea' = RegionArea
    BY <1>0, <2>1, RegionStays
  <2>5. AreaMeshed'
    BY <2>1, <2>2, <2>3, <2>4 DEF AreaInv, AreaMeshed
  <2> QED
    BY <1>t, <2>1, <2>5 DEF AreaInv
<1>7. CASE UNCHANGED vars
  <2>1. UNCHANGED <<region, pc, holes, merged, loop, pts, tris, kept>>
    BY <1>7 DEF vars, inVars, polyVars, meshVars
  <2>2. MeshArea' = MeshArea
    BY <2>1 DEF MeshArea, Area, Corner
  <2>3. RegionArea' = RegionArea
    BY <1>0, <2>1, RegionStays
  <2>4. Size2(merged)' = Size2(merged) /\ SignedArea(loop)' = SignedArea(loop)
    BY <2>1 DEF Size2, SignedArea, Pred
  <2>5. HoleAreas(holes)' = HoleAreas(holes)
    <3>1. \A k \in DOMAIN region.loops : Size2(region.loops[k])' = Size2(region.loops[k])
      BY <2>1 DEF Size2, SignedArea, Pred
    <3>2. HoleAreas(holes)' = [k \in DOMAIN region.loops |-> IF k \in holes THEN Size2(region.loops[k])' ELSE 0]
      BY <2>1 DEF HoleAreas
    <3> QED
      BY <3>1, <3>2 DEF HoleAreas
  <2>6. /\ AreaToBridge => AreaToBridge'
        /\ AreaToClip => AreaToClip'
        /\ AreaMeshed => AreaMeshed'
    BY <2>1, <2>2, <2>3, <2>4, <2>5 DEF AreaToBridge, AreaToClip, AreaMeshed, OneLoop
  <2> QED
    BY <1>t, <2>1, <2>6 DEF AreaInv
<1> QED
  BY <1>1, <1>2, <1>3, <1>4, <1>5, <1>6, <1>7 DEF Next, Done

(* The outer loop is the region and its holes.                              *)
LEMMA AreaInvBegins == Init => AreaInv
<1> SUFFICES ASSUME Init PROVE AreaInv
  OBVIOUS
<1>1. MeshTypeOK /\ PolygonOK /\ PointsOK
  BY MeshTypesBegin DEF MeshTypeOK
<1>2. /\ pc = "bridge" /\ tris = <<>> /\ merged = region.loops[1]
      /\ holes = {h \in 2..Len(region.loops) : Len(region.loops[h]) >= 3}
  BY DEF Init
<1>3. Size2(region.loops[1]) = RegionArea + Total(HoleAreas(holes))
  BY <1>1, <1>2, HolesAndRegion
<1>4. AreaToBridge
  BY <1>2, <1>3 DEF AreaToBridge
<1> QED
  BY <1>1, <1>2, <1>4 DEF AreaInv

(* Twice the area of what is exported.                                      *)
ExportedArea == Total([i \in DOMAIN tris |-> IF i \in kept THEN Area(tris[i]) ELSE 0])
(* With one loop all triangles are exported.                                *)
LEMMA AllExported ==
  ASSUME AreaInv, pc = "done", OneLoop
  PROVE  ExportedArea = MeshArea
<1>1. kept = DOMAIN tris
  BY DEF AreaInv, AreaMeshed
<1>2. [i \in DOMAIN tris |-> IF i \in kept THEN Area(tris[i]) ELSE 0] = [i \in DOMAIN tris |-> Area(tris[i])]
  BY <1>1
<1> QED
  BY <1>2 DEF ExportedArea, MeshArea

(* Where ears are found to the last, the triangles make up the region: all  *)
(* that the bridges, the ears, the flips and the insertions do keeps its    *)
(* area, and with one loop so does what is exported.                        *)
MakesUpTheRegion ==
  Len(loop) = 3 /\ RegionArea >= 0 =>
    /\ pc \in {"mesh", "done"} => MeshArea = RegionArea
    /\ pc = "done" /\ OneLoop => ExportedArea = RegionArea
(* The mesh has the area of the region, for every region whose holes are    *)
(* not more than it holds, however they are bridged and whatever is         *)
(* inserted.                                                                *)
THEOREM AreaIsKept == Spec => []MakesUpTheRegion
<1>1. AreaInv => MakesUpTheRegion
  <2> SUFFICES ASSUME AreaInv, Len(loop) = 3, RegionArea >= 0
               PROVE  /\ pc \in {"mesh", "done"} => MeshArea = RegionArea
                      /\ pc = "done" /\ OneLoop => ExportedArea = RegionArea
    BY DEF MakesUpTheRegion
  <2>1. pc \in {"mesh", "done"} => MeshArea = RegionArea
    BY DEF AreaInv, AreaMeshed
  <2>2. ASSUME pc = "done", OneLoop PROVE ExportedArea = MeshArea
    BY <2>2, AllExported
  <2> QED
    BY <2>1, <2>2
<1> QED
  BY AreaInvBegins, AreaInvStays, <1>1, PTL DEF Spec

(* And no step of the mesh changes its area, whatever the region.           *)
THEOREM NoAreaIsLost == Spec => [][AreaKept]_vars
BY MeshTypesBegin, MeshTypesStay, AreaStays, PTL DEF Spec

------------------------------------------------------------------------------
(* Triangles that are not turned over.                                      *)

(* No triangle runs clockwise; it may be flat.                              *)
Upright == \A i \in DOMAIN tris : Area(tris[i]) >= 0

(* A flip makes two triangles that turn one way and have the area of the    *)
(* two before: if those did not run clockwise, neither do they.             *)
LEMMA FlipKeepsUpright ==
  ASSUME NEW np \in Nat, NEW nt \in Nat, MeshIs(np, nt), PointsAre(np), Upright,
         NEW i \in 1..nt, NEW e \in 1..3, Flippable(i, e), NEW k \in 1..nt
  PROVE  Area(Flip(i, e)[k]) >= 0
<1> DEFINE us == Flip(i, e)
           j  == Beyond(i, e)
           ui == Area(us[i])
           uj == Area(us[j])
           ti == Area(tris[i])
           tj == Area(tris[j])
<1>1. FlipsAreas(nt, i, e)
  BY FlipAreas
<1>2. /\ j \in 1..nt /\ j # i
      /\ ui \in Int /\ uj \in Int /\ ti \in Int /\ tj \in Int /\ ui + uj = ti + tj
      /\ (ui > 0 /\ uj > 0) \/ (ui < 0 /\ uj < 0)
  BY <1>1 DEF FlipsAreas
<1>3. \A m \in 1..nt : m # i /\ m # j => Area(us[m]) = Area(tris[m])
  BY <1>1 DEF FlipsAreas
<1>4. \A m \in 1..nt : Area(tris[m]) >= 0
  BY DEF Upright, MeshIs
<1>5. ti >= 0 /\ tj >= 0
  BY <1>2, <1>4
<1> HIDE DEF us, j, ui, uj, ti, tj
<1>6. ui >= 0 /\ uj >= 0
  BY <1>2, <1>5
<1>7. \A m \in 1..nt : Area(us[m]) >= 0
  BY <1>3, <1>4, <1>6 DEF ui, uj
<1> QED
  BY <1>7 DEF us

(* Every triangle has an area.                                              *)
LEMMA AreasAreNumbers == MeshTypeOK => \A k \in DOMAIN tris : AreaAt(k) \in Int
<1> SUFFICES ASSUME MeshTypeOK PROVE \A k \in DOMAIN tris : AreaAt(k) \in Int
  OBVIOUS
<1> DEFINE np == Len(pts)
           nt == Len(tris)
<1>1. np \in Nat /\ nt \in Nat /\ MeshIs(np, nt) /\ PointsAre(np)
  BY MeshOf DEF MeshTypeOK
<1> HIDE DEF np, nt
<1>2. DOMAIN tris = 1..nt /\ \A k \in 1..nt : \A g \in 1..3 : tris[k].v[g] \in 1..np
  BY <1>1, PartsOf DEF MeshIs
<1>3. \A k \in 1..nt : Areas(tris)[k] = Area(tris[k]) /\ Area(tris[k]) \in Int
  BY <1>1, <1>2, AreasAre
<1> QED
  BY <1>2, <1>3 DEF AreaAt

(* An insertion makes three that run anticlockwise and leaves the others.   *)
LEMMA InsertKeepsUpright ==
  ASSUME NEW np \in Nat, NEW nt \in Nat, MeshIs(np, nt), PointsAre(np), Upright,
         NEW p, NEW i \in 1..nt, InsertedInto(p, i), \A k \in DOMAIN tris' : AreaAt(k)' \in Int
  PROVE  Upright'
<1>1. /\ DOMAIN tris' = 1..(nt + 2)
      /\ \A k \in 1..(nt + 2) : AreaAt(k)' > 0 \/ (k \in 1..nt /\ AreaAt(k)' = AreaAt(k))
  BY InsertedTurns
<1>2. \A k \in 1..nt : AreaAt(k) >= 0
  BY DEF Upright, MeshIs, AreaAt
<1>3. \A k \in DOMAIN tris' : AreaAt(k)' >= 0
  BY <1>1, <1>2
<1> QED
  BY <1>3 DEF Upright, AreaAt

(* Legalize and Insert turn nothing over that was not.                      *)
LEMMA UprightStays ==
  ASSUME MeshTypeOK, [Next]_vars, pc \in {"mesh", "done"}, Upright
  PROVE  Upright'
<1>0. PolygonOK /\ PointsOK /\ TrianglesOK
  BY DEF MeshTypeOK
<1>m. Len(pts) \in Nat /\ Len(tris) \in Nat /\ MeshIs(Len(pts), Len(tris)) /\ PointsAre(Len(pts))
  BY <1>0, MeshOf
<1>n. \A k \in DOMAIN tris' : AreaAt(k)' \in Int
  <2>1. MeshTypeOK'
    BY MeshTypesStay
  <2>2. MeshTypeOK' => (\A k \in DOMAIN tris : AreaAt(k) \in Int)'
    BY AreasAreNumbers, PTL
  <2> QED
    BY <2>1, <2>2
<1>1. ASSUME tris' = tris, pts' = pts PROVE Upright'
  <2>1. \A k \in DOMAIN tris : Orient(pts[tris[k].v[1]], pts[tris[k].v[2]], pts[tris[k].v[3]]) >= 0
    BY DEF Upright, Area, Corner
  <2>2. \A k \in DOMAIN tris' : Orient(pts'[tris'[k].v[1]], pts'[tris'[k].v[2]], pts'[tris'[k].v[3]]) >= 0
    BY <1>1, <2>1
  <2> QED
    BY <2>2 DEF Upright, Area, Corner
<1>2. CASE Legalize
  <2>1. pts' = pts
    BY <1>2 DEF Legalize
  <2>2. CASE tris' = tris
    BY <1>1, <2>1, <2>2
  <2>3. CASE FlipsOne
    <3>1. PICK i \in 1..Len(tris), e \in 1..3 : Flippable(i, e) /\ tris' = Flip(i, e)
      BY <2>3 DEF FlipsOne
    <3>2. DOMAIN Flip(i, e) = 1..Len(tris)
      BY <1>m, <3>1, FlipShape
    <3>3. \A k \in 1..Len(tris) : Area(Flip(i, e)[k]) >= 0
      BY <1>m, <3>1, FlipKeepsUpright
    <3> QED
      BY <2>1, <3>1, <3>2, <3>3 DEF Upright, Area, Corner
  <2> QED
    BY <1>0, <1>2, <2>2, <2>3, LegalizeUnfolds
<1>3. CASE InsertGrid \/ Split
  <2>1. PICK p \in Int \X Int : Insert(p)
    BY <1>0, <1>3, PointsInserted
  <2>2. UNCHANGED meshVars \/ \E i \in 1..Len(tris) : InsertedInto(p, i)
    BY <1>m, <2>1, InsertUnfolds
  <2>3. CASE UNCHANGED meshVars
    BY <1>1, <2>3 DEF meshVars
  <2>4. CASE \E i \in 1..Len(tris) : InsertedInto(p, i)
    BY <1>m, <1>n, <2>4, InsertKeepsUpright
  <2> QED
    BY <2>2, <2>3, <2>4
<1>4. CASE NextPass \/ Export \/ UNCHANGED vars
  <2>1. tris' = tris /\ pts' = pts
    BY <1>4 DEF NextPass, Export, vars, meshVars
  <2> QED
    BY <1>1, <2>1
<1>5. CASE Bridge \/ StartClip \/ Clip \/ Build
  BY <1>5 DEF Bridge, StartClip, Clip, Build
<1> QED
  BY <1>2, <1>3, <1>4, <1>5 DEF Next, Done

(* A list of triangles, none of which runs clockwise.                       *)
UprightList(ts) == \A k \in DOMAIN ts : Area(ts[k]) >= 0

(* One more triangle that does not run clockwise.                           *)
LEMMA UprightAppends ==
  ASSUME NEW D, NEW ts \in Seq(D), UprightList(ts), NEW t \in D, Area(t) >= 0
  PROVE  UprightList(Append(ts, t))
<1> DEFINE us == Append(ts, t)
<1>1. DOMAIN us = 1..(Len(ts) + 1) /\ us[Len(ts) + 1] = t /\ \A k \in 1..Len(ts) : us[k] = ts[k]
  OBVIOUS
<1>2. Len(ts) \in Nat /\ DOMAIN ts = 1..Len(ts)
  OBVIOUS
<1> HIDE DEF us
<1>3. \A k \in DOMAIN us : k = Len(ts) + 1 \/ k \in 1..Len(ts)
  BY <1>1, <1>2
<1>4. \A k \in DOMAIN us : Area(us[k]) >= 0
  BY <1>1, <1>2, <1>3 DEF UprightList
<1> QED
  BY <1>4 DEF UprightList, us

(* An ear does not run clockwise.                                           *)
LEMMA EarsAreUpright ==
  ASSUME MeshTypeOK, Upright, Clip
  PROVE  Upright'
<1> DEFINE i == Least(Ears)
           t == Unlinked(Pred(loop, i), loop[i], Succ(loop, i))
           np == Len(pts)
           nt == Len(tris)
<1>0. PolygonOK /\ PointsOK /\ TrianglesOK
  BY DEF MeshTypeOK
<1>1. pts' = pts /\ tris' = Append(tris, t)
  BY DEF Clip
<1>2. np \in Nat /\ nt \in Nat /\ tris \in Seq(Triangles(np, nt))
  BY <1>0, MeshOf DEF MeshIs
<1>3. loop \in Seq(Corners) /\ Len(loop) \in Nat
  BY <1>0 DEF PolygonOK
<1>4. i \in Ears
  <2>1. Ears \in SUBSET (1..Len(loop)) /\ Ears # {}
    BY <1>3 DEF Ears, Clip
  <2> QED
    BY <1>3, <2>1, LeastIs
<1>5. i \in 1..Len(loop) /\ IsEar(loop, i)
  BY <1>3, <1>4 DEF Ears
<1> HIDE DEF i
<1>6. loop[i] \in Corners /\ Succ(loop, i) \in Corners /\ Pred(loop, i) \in Corners
  BY <1>3, <1>5, NextTo
<1>7. t \in Triangles(np, nt)
  <2>1. loop[i] \in 1..np /\ Succ(loop, i) \in 1..np /\ Pred(loop, i) \in 1..np
    BY <1>0, <1>6, CornersArePoints
  <2> QED
    BY <1>2, <2>1 DEF Unlinked, Tri, Triangles
<1>8. Area(t) >= 0
  BY <1>5 DEF Area, Corner, Unlinked, Tri, IsEar
<1> HIDE DEF t, np, nt
<1>9. UprightList(Append(tris, t))
  <2>1. UprightList(tris)
    BY DEF Upright, UprightList
  <2> QED
    BY <1>2, <1>7, <1>8, <2>1, UprightAppends
<1>10. \A k \in DOMAIN Append(tris, t) : Area(Append(tris, t)[k]) >= 0
  BY <1>9 DEF UprightList
<1> QED
  BY <1>1, <1>10 DEF Upright, Area, Corner

(* The last ear is the rest of the polygon, whichever way that runs.        *)
LEMMA BuildIsUpright ==
  ASSUME MeshTypeOK, Upright, Build, Len(loop) = 3 => SignedArea(loop) >= 0
  PROVE  Upright'
<1> DEFINE np == Len(pts)
           nt == Len(tris)
           t  == Unlinked(loop[1], loop[2], loop[3])
           ts == IF Len(loop) = 3 THEN Append(tris, t) ELSE tris
<1>0. PolygonOK /\ PointsOK /\ TrianglesOK
  BY DEF MeshTypeOK
<1>1. pts' = pts /\ tris' = LinkedUp(ts)
  BY DEF Build
<1>2. np \in Nat /\ nt \in Nat /\ tris \in Seq(Triangles(np, nt))
  BY <1>0, MeshOf DEF MeshIs
<1>3. UprightList(tris)
  BY DEF Upright, UprightList
<1>4. ASSUME Len(loop) = 3
      PROVE  t \in Triangles(np, nt) /\ Area(t) >= 0
  <2>1. loop \in Seq(Corners) /\ loop[1] \in Corners /\ loop[2] \in Corners /\ loop[3] \in Corners
    <3>1. loop \in Seq(Corners)
      BY <1>0 DEF PolygonOK
    <3>2. \A k \in 1..Len(loop) : loop[k] \in Corners
      BY <3>1
    <3>3. 1 \in 1..3 /\ 2 \in 1..3 /\ 3 \in 1..3
      OBVIOUS
    <3> QED
      BY <1>4, <3>1, <3>2, <3>3
  <2>2. loop[1] \in 1..np /\ loop[2] \in 1..np /\ loop[3] \in 1..np
    BY <1>0, <2>1, CornersArePoints
  <2>3. t \in Triangles(np, nt)
    BY <1>2, <2>2 DEF Unlinked, Tri, Triangles
  <2>4. Area(t) = Orient(pts[loop[1]], pts[loop[2]], pts[loop[3]])
    BY DEF Area, Corner, Unlinked, Tri
  <2>5. PointsOf(Corners)
    BY <1>0, CornersArePoints DEF PointsOf
  <2>6. SignedArea(loop) = Orient(pts[loop[1]], pts[loop[2]], pts[loop[3]])
    BY <1>4, <2>1, <2>5, AreaOfThree
  <2> QED
    BY <1>4, <2>3, <2>4, <2>6
<1> HIDE DEF t, np, nt
<1>5. ts \in Seq(Triangles(np, nt)) /\ UprightList(ts)
  <2>1. CASE Len(loop) = 3
    <3>1. t \in Triangles(np, nt) /\ Area(t) >= 0
      BY <1>4, <2>1
    <3>2. Append(tris, t) \in Seq(Triangles(np, nt))
      BY <1>2, <3>1
    <3>3. UprightList(Append(tris, t))
      BY <1>2, <1>3, <3>1, UprightAppends
    <3> QED
      BY <2>1, <3>2, <3>3
  <2>2. CASE Len(loop) # 3
    BY <1>2, <1>3, <2>2
  <2> QED
    BY <2>1, <2>2
<1> HIDE DEF ts
<1>6. Len(ts) \in Nat /\ DOMAIN ts = 1..Len(ts)
  BY <1>5
<1> DEFINE us == LinkedUp(ts)
           n  == Len(ts)
<1>7. us \in Seq(Triangles(np, n)) /\ Len(us) = n /\ \A k \in 1..n : us[k].v = ts[k].v
  BY <1>2, <1>5, <1>6, LinkedUpIs
<1>8. tris' = us
  BY <1>1
<1> HIDE DEF us
<1>9. DOMAIN us = 1..n
  BY <1>6, <1>7
<1>10. \A k \in DOMAIN us : Area(us[k]) >= 0
  <2>1. \A k \in 1..n : Area(us[k]) = Area(ts[k])
    BY <1>7 DEF Area, Corner
  <2> QED
    BY <1>5, <1>6, <1>9, <2>1 DEF UprightList
<1> QED
  BY <1>1, <1>8, <1>10 DEF Upright, Area, Corner

(* Ears never run clockwise, so before the last ear nothing does; what      *)
(* follows is as the mesh was built.                                        *)
UprightInv ==
  /\ MeshTypeOK
  /\ pc = "bridge" => tris = <<>>
  /\ pc = "clip" => Upright
  /\ pc \in {"mesh", "done"} =>
       /\ (Len(loop) = 3 => SignedArea(loop) >= 0) => Upright
       /\ sound => MeshArea = RegionArea /\ Upright

(* The mesh is built upright, or its last triangle is turned over; and      *)
(* whether it is sound is recorded.                                         *)
LEMMA UprightBuilt ==
  ASSUME UprightInv, Build
  PROVE  UprightInv'
<1>0. MeshTypeOK /\ PolygonOK /\ PointsOK /\ pc = "clip" /\ Upright
  BY DEF UprightInv, MeshTypeOK, Build
<1>1. MeshTypeOK' /\ pc' = "mesh"
  BY <1>0, MeshTypesStay DEF Next, Build
<1>2. region' = region /\ pts' = pts /\ loop' = loop
  BY DEF Build, polyVars
<1>3. loop \in Seq(Corners)
  BY <1>0 DEF PolygonOK
<1>4. SignedArea(loop)' = SignedArea(loop) /\ RegionArea' = RegionArea
  <2>1. SignedArea(loop)' = SignedArea(loop)
    BY <1>2 DEF SignedArea, Pred
  <2> QED
    BY <1>0, <1>2, <2>1, RegionStays
<1>5. (Len(loop') = 3 => SignedArea(loop)' >= 0) => Upright'
  BY <1>0, <1>2, <1>4, BuildIsUpright
<1>6. ASSUME sound' PROVE MeshArea' = RegionArea' /\ Upright'
  <2>1. Total([i \in DOMAIN tris' |-> Area(tris'[i])]) = RegionArea /\ \A i \in DOMAIN tris' : Area(tris'[i]) >= 0
    BY <1>6 DEF Build
  <2>2. MeshArea' = Total([i \in DOMAIN tris' |-> Area(tris'[i])])
    BY <1>2 DEF MeshArea, Area, Corner
  <2>3. Upright'
    BY <1>2, <2>1 DEF Upright, Area, Corner
  <2> QED
    BY <1>4, <2>1, <2>2, <2>3
<1> QED
  BY <1>1, <1>5, <1>6 DEF UprightInv

(* Every action keeps the triangles from running clockwise.                 *)
LEMMA UprightInvStays == UprightInv /\ [Next]_vars => UprightInv'
<1> SUFFICES ASSUME UprightInv, [Next]_vars PROVE UprightInv'
  OBVIOUS
<1>0. MeshTypeOK /\ PolygonOK /\ PointsOK /\ TrianglesOK
  BY DEF UprightInv, MeshTypeOK
<1>t. MeshTypeOK'
  BY <1>0, MeshTypesStay
<1>1. CASE Bridge
  BY <1>t, <1>1 DEF UprightInv, Bridge, meshVars
<1>2. CASE StartClip
  <2>1. pc' = "clip" /\ tris' = <<>>
    BY <1>2 DEF UprightInv, StartClip, meshVars
  <2>2. Upright'
    BY <2>1 DEF Upright
  <2> QED
    BY <1>t, <2>1, <2>2 DEF UprightInv
<1>3. CASE Clip
  <2>1. pc = "clip" /\ pc' = "clip"
    BY <1>3 DEF Clip
  <2>2. Upright'
    BY <1>0, <1>3, <2>1, EarsAreUpright DEF UprightInv
  <2> QED
    BY <1>t, <2>1, <2>2 DEF UprightInv
<1>4. CASE Build
  BY <1>4, UprightBuilt
<1>5. CASE Legalize \/ InsertGrid \/ Split \/ NextPass
  <2>1. pc = "mesh" /\ pc' = "mesh" /\ region' = region /\ loop' = loop /\ sound' = sound
    BY <1>5 DEF Legalize, InsertGrid, Split, NextPass, Resting, inVars, polyVars
  <2>2. \A x \in Corners : pts'[x] = pts[x]
    BY <1>0, <1>5, CornersStay
  <2>3. RegionArea' = RegionArea /\ \A l \in Seq(Corners) : SignedArea(l)' = SignedArea(l)
    BY <1>0, <2>1, <2>2, RegionStays
  <2>4. SignedArea(loop)' = SignedArea(loop)
    <3>1. loop \in Seq(Corners)
      BY <1>0 DEF PolygonOK
    <3> DEFINE Now(l) == Total([i \in DOMAIN l |-> pts'[Pred(l, i)][1] * pts'[l[i]][2] - pts'[l[i]][1] * pts'[Pred(l, i)][2]])
    <3>2. SignedArea(loop)' = Now(loop')
      BY DEF SignedArea, Pred
    <3>3. \A l \in Seq(Corners) : SignedArea(l)' = Now(l)
      BY DEF SignedArea, Pred
    <3> HIDE DEF Now
    <3>4. Now(loop) = SignedArea(loop)
      BY <2>3, <3>1, <3>3
    <3> QED
      BY <2>1, <3>2, <3>4
  <2>5. MeshArea' = MeshArea
    BY <1>0, <2>1, AreaStays DEF AreaKept
  <2>6. Upright => Upright'
    BY <1>0, <2>1, UprightStays
  <2> QED
    BY <1>t, <2>1, <2>3, <2>4, <2>5, <2>6 DEF UprightInv
<1>6. CASE Export \/ UNCHANGED vars
  <2>1. /\ region' = region /\ loop' = loop /\ sound' = sound /\ pts' = pts /\ tris' = tris
        /\ pc' = pc \/ (pc = "mesh" /\ pc' = "done")
    BY <1>6 DEF Export, Resting, vars, inVars, polyVars, meshVars
  <2>2. MeshArea' = MeshArea /\ SignedArea(loop)' = SignedArea(loop)
    BY <2>1 DEF MeshArea, Area, Corner, SignedArea, Pred
  <2>3. RegionArea' = RegionArea
    BY <1>0, <2>1, RegionStays
  <2>4. Upright => Upright'
    BY <2>1 DEF Upright, Area, Corner
  <2> QED
    BY <1>t, <2>1, <2>2, <2>3, <2>4 DEF UprightInv
<1> QED
  BY <1>1, <1>2, <1>3, <1>4, <1>5, <1>6 DEF Next, Done

(* There are no triangles at first.                                         *)
LEMMA UprightInvBegins == Init => UprightInv
<1> SUFFICES ASSUME Init PROVE UprightInv
  OBVIOUS
<1>1. pc = "bridge" /\ tris = <<>>
  BY DEF Init
<1> QED
  BY <1>1, MeshTypesBegin DEF UprightInv

(* No triangle of a mesh runs clockwise unless the last three corners do.   *)
OnlyTheLastTurns ==
  pc \in {"mesh", "done"} /\ (Len(loop) = 3 => SignedArea(loop) >= 0) => Upright
(* An ear is convex, a flip makes triangles that turn one way, an insertion *)
(* is strictly inside: so a mesh runs one way, whatever the region, if what *)
(* earClip leaves to the last does.                                         *)
THEOREM NothingIsTurnedOver == Spec => []OnlyTheLastTurns
<1>1. UprightInv => OnlyTheLastTurns
  BY DEF UprightInv, OnlyTheLastTurns
<1> QED
  BY UprightInvBegins, UprightInvStays, <1>1, PTL DEF Spec

(* A mesh that was sound when built, made up of triangles that have the     *)
(* area of the region and do not run clockwise, stays so.                   *)
StaysSound ==
  pc \in {"mesh", "done"} /\ sound =>
    /\ MeshArea = RegionArea
    /\ Upright
    /\ pc = "done" /\ OneLoop => ExportedArea = RegionArea
(* No flip and no insertion spoils a sound mesh, nor does the export of a   *)
(* region without holes.                                                    *)
THEOREM SoundMeshesStaySound == Spec => []StaysSound
<1>1. UprightInv /\ AreaInv => StaysSound
  <2> SUFFICES ASSUME UprightInv, AreaInv, pc \in {"mesh", "done"}, sound
               PROVE  /\ MeshArea = RegionArea /\ Upright
                      /\ pc = "done" /\ OneLoop => ExportedArea = RegionArea
    BY DEF StaysSound
  <2>1. MeshArea = RegionArea /\ Upright
    BY DEF UprightInv
  <2>2. ASSUME pc = "done", OneLoop PROVE ExportedArea = MeshArea
    BY <2>2, AllExported
  <2> QED
    BY <2>1, <2>2
<1> QED
  BY AreaInvBegins, AreaInvStays, UprightInvBegins, UprightInvStays, <1>1, PTL DEF Spec

------------------------------------------------------------------------------
(* Flips come to an end.                                                    *)

(* Six times the volume below a triangle that is lifted to the paraboloid   *)
(* over the plane, and below the mesh.                                      *)
Rise(x, y, z) == Orient(x, y, z) * (Lifted(x) + Lifted(y) + Lifted(z))
Under(t) == Rise(Corner(t, 1), Corner(t, 2), Corner(t, 3))
Unders(ts) == [i \in DOMAIN ts |-> Under(ts[i])]
MeshRise == Total([i \in DOMAIN tris |-> Under(tris[i])])

(* A volume is an integer, and the same from each corner.                   *)
LEMMA RiseIs ==
  ASSUME NEW x \in Int \X Int, NEW y \in Int \X Int, NEW z \in Int \X Int
  PROVE  /\ Rise(x, y, z) \in Int
         /\ Rise(x, y, z) = Rise(y, z, x) /\ Rise(x, y, z) = Rise(z, x, y)
         /\ Orient(x, y, z) >= 0 => Rise(x, y, z) >= 0
<1>1. \A p \in Int \X Int : Lifted(p) \in Int /\ Lifted(p) >= 0
  <2>1. \A m \in Int : m * m \in Int /\ m * m >= 0
    OBVIOUS
  <2> SUFFICES ASSUME NEW p \in Int \X Int PROVE Lifted(p) \in Int /\ Lifted(p) >= 0
    OBVIOUS
  <2>2. p[1] \in Int /\ p[2] \in Int
    OBVIOUS
  <2> QED
    BY <2>1, <2>2 DEF Lifted
<1>2. /\ Orient(x, y, z) \in Int
      /\ Orient(x, y, z) = Orient(y, z, x) /\ Orient(x, y, z) = Orient(z, x, y)
  BY HalvesHaveTheArea
<1> DEFINE o == Orient(x, y, z)
           lx == Lifted(x)
           ly == Lifted(y)
           lz == Lifted(z)
<1>3. /\ Rise(x, y, z) = o * (lx + ly + lz) /\ Rise(y, z, x) = o * (ly + lz + lx)
      /\ Rise(z, x, y) = o * (lz + lx + ly)
  BY <1>2 DEF Rise
<1>4. o \in Int /\ lx \in Int /\ ly \in Int /\ lz \in Int /\ lx >= 0 /\ ly >= 0 /\ lz >= 0
  BY <1>1, <1>2
<1> HIDE DEF o, lx, ly, lz
<1>5. lx + ly + lz = ly + lz + lx /\ lx + ly + lz = lz + lx + ly /\ lx + ly + lz \in Nat
  BY <1>4
<1>6. \A m \in Int : \A n \in Nat : m * n \in Int /\ (m >= 0 => m * n >= 0)
  OBVIOUS
<1> QED
  BY <1>3, <1>4, <1>5, <1>6 DEF o

(* Where o is inside the circle through a, b and p, the other diagonal of   *)
(* the quadrilateral is lower on the paraboloid.                            *)
LEMMA RiseFalls ==
  ASSUME NEW a \in Int \X Int, NEW b \in Int \X Int, NEW p \in Int \X Int, NEW o \in Int \X Int,
         InCircle(a, b, p, o)
  PROVE  Rise(p, a, o) + Rise(p, o, b) < Rise(a, b, p) + Rise(b, a, o)
<1> DEFINE a1 == a[1]
           a2 == a[2]
           b1 == b[1]
           b2 == b[2]
           p1 == p[1]
           p2 == p[2]
           o1 == o[1]
           o2 == o[2]
           d == ((a1 - o1) * (a1 - o1) + (a2 - o2) * (a2 - o2)) * ((b1 - o1) * (p2 - o2) - (p1 - o1) * (b2 - o2))
                - ((b1 - o1) * (b1 - o1) + (b2 - o2) * (b2 - o2)) * ((a1 - o1) * (p2 - o2) - (p1 - o1) * (a2 - o2))
                + ((p1 - o1) * (p1 - o1) + (p2 - o2) * (p2 - o2)) * ((a1 - o1) * (b2 - o2) - (b1 - o1) * (a2 - o2))
           r1 == ((a1 - p1) * (o2 - p2) - (a2 - p2) * (o1 - p1)) * ((p1 * p1 + p2 * p2) + (a1 * a1 + a2 * a2) + (o1 * o1 + o2 * o2))
           r2 == ((o1 - p1) * (b2 - p2) - (o2 - p2) * (b1 - p1)) * ((p1 * p1 + p2 * p2) + (o1 * o1 + o2 * o2) + (b1 * b1 + b2 * b2))
           r3 == ((b1 - a1) * (p2 - a2) - (b2 - a2) * (p1 - a1)) * ((a1 * a1 + a2 * a2) + (b1 * b1 + b2 * b2) + (p1 * p1 + p2 * p2))
           r4 == ((a1 - b1) * (o2 - b2) - (a2 - b2) * (o1 - b1)) * ((b1 * b1 + b2 * b2) + (a1 * a1 + a2 * a2) + (o1 * o1 + o2 * o2))
<1>1. /\ a1 \in Int /\ a2 \in Int /\ b1 \in Int /\ b2 \in Int
      /\ p1 \in Int /\ p2 \in Int /\ o1 \in Int /\ o2 \in Int
  OBVIOUS
<1>2. Rise(p, a, o) = r1 /\ Rise(p, o, b) = r2 /\ Rise(a, b, p) = r3 /\ Rise(b, a, o) = r4
  BY DEF Rise, Orient, Lifted
<1>3. d > 0
  BY DEF InCircle, Minus, Lifted, Wedge
<1> HIDE DEF a1, a2, b1, b2, p1, p2, o1, o2
<1>4. r1 + r2 + d = r3 + r4
  BY <1>1, SMTT(30)
<1>5. r1 \in Int /\ r2 \in Int /\ r3 \in Int /\ r4 \in Int /\ d \in Int
  BY <1>1, SMTT(30)
<1> HIDE DEF r1, r2, r3, r4, d
<1> QED
  BY <1>2, <1>3, <1>4, <1>5

(* The volume below a triangle, from any of its edges.                      *)
LEMMA UnderAround ==
  ASSUME NEW np \in Nat, NEW nt \in Nat, MeshIs(np, nt), PointsAre(np), NEW i \in 1..nt, NEW e \in 1..3
  PROVE  Under(tris[i]) = Rise(pts[tris[i].v[e]], pts[tris[i].v[Third(e, 1)]], pts[tris[i].v[Third(e, 2)]])
<1> DEFINE x == pts[tris[i].v[1]]
           y == pts[tris[i].v[2]]
           z == pts[tris[i].v[3]]
<1>1. x \in Int \X Int /\ y \in Int \X Int /\ z \in Int \X Int
  <2>1. tris[i].v[1] \in 1..np /\ tris[i].v[2] \in 1..np /\ tris[i].v[3] \in 1..np
    BY PartsOf
  <2>2. \A k \in 1..np : pts[k] \in Int \X Int
    BY DEF PointsAre
  <2> QED
    BY <2>1, <2>2
<1>2. Under(tris[i]) = Rise(x, y, z)
  BY DEF Under, Corner
<1> HIDE DEF x, y, z
<1>3. Rise(x, y, z) = Rise(y, z, x) /\ Rise(x, y, z) = Rise(z, x, y)
  BY <1>1, RiseIs
<1>4. e = 1 \/ e = 2 \/ e = 3
  OBVIOUS
<1>5. /\ Third(1, 1) = 2 /\ Third(1, 2) = 3 /\ Third(2, 1) = 3 /\ Third(2, 2) = 1
      /\ Third(3, 1) = 1 /\ Third(3, 2) = 2
  BY DEF Third
<1> QED
  BY <1>2, <1>3, <1>4, <1>5 DEF x, y, z

(* Points of the plane have volumes below them.                             *)
LEMMA UndersAre ==
  ASSUME NEW np \in Nat, NEW nt \in Nat, PointsAre(np),
         NEW ts, DOMAIN ts = 1..nt, \A k \in 1..nt : \A e \in 1..3 : ts[k].v[e] \in 1..np
  PROVE  /\ Unders(ts) \in Seq(Int) /\ Len(Unders(ts)) = nt
         /\ \A k \in 1..nt : Unders(ts)[k] = Under(ts[k]) /\ Under(ts[k]) \in Int
         /\ \A k \in 1..nt : Area(ts[k]) >= 0 => Under(ts[k]) >= 0
<1>1. \A k \in 1..nt : Under(ts[k]) \in Int /\ (Area(ts[k]) >= 0 => Under(ts[k]) >= 0)
  <2> SUFFICES ASSUME NEW k \in 1..nt
               PROVE  Under(ts[k]) \in Int /\ (Area(ts[k]) >= 0 => Under(ts[k]) >= 0)
    OBVIOUS
  <2>1. ts[k].v[1] \in 1..np /\ ts[k].v[2] \in 1..np /\ ts[k].v[3] \in 1..np
    OBVIOUS
  <2>2. \A m \in 1..np : pts[m] \in Int \X Int
    BY DEF PointsAre
  <2> DEFINE x == pts[ts[k].v[1]]
             y == pts[ts[k].v[2]]
             z == pts[ts[k].v[3]]
  <2>3. x \in Int \X Int /\ y \in Int \X Int /\ z \in Int \X Int
    BY <2>1, <2>2
  <2>4. Area(ts[k]) = Orient(x, y, z) /\ Under(ts[k]) = Rise(x, y, z)
    BY DEF Area, Under, Corner
  <2> HIDE DEF x, y, z
  <2> QED
    BY <2>3, <2>4, RiseIs
<1>2. Unders(ts) = [k \in 1..nt |-> Under(ts[k])]
  BY DEF Unders
<1> QED
  BY <1>1, <1>2

(* What a flip does to the volumes: those of its two triangles fall.        *)
FlipsUnder(nt, i, e) ==
  LET us == Flip(i, e)
      j  == Beyond(i, e)
  IN /\ j \in 1..nt /\ j # i
     /\ Under(us[i]) + Under(us[j]) < Under(tris[i]) + Under(tris[j])
     /\ \A k \in 1..nt : k # i /\ k # j => Under(us[k]) = Under(tris[k])

(* The new diagonal is the lower one.                                       *)
LEMMA FlipFalls ==
  ASSUME NEW np \in Nat, NEW nt \in Nat, MeshIs(np, nt), PointsAre(np),
         NEW i \in 1..nt, NEW e \in 1..3, Flippable(i, e)
  PROVE  FlipsUnder(nt, i, e)
<1> DEFINE a    == A(i, e)
           b    == B(i, e)
           apex == Apex(i, e)
           j    == Beyond(i, e)
           f    == Shared(i, e)
           opp  == Opp(i, e)
           us   == Flip(i, e)
<1>1. FlipsCorners(np, nt, i, e)
  BY FlipCorners
<1>2. /\ j \in 1..nt /\ j # i /\ f \in 1..3 /\ tris[j].v[f] = b /\ tris[j].v[Third(f, 1)] = a
      /\ a \in 1..np /\ b \in 1..np /\ apex \in 1..np /\ opp \in 1..np
      /\ \A k \in 1..nt : us[k].v = IF k = i THEN <<apex, a, opp>> ELSE IF k = j THEN <<apex, opp, b>> ELSE tris[k].v
  BY <1>1 DEF FlipsCorners
<1>3. Under(tris[i]) = Rise(pts[a], pts[b], pts[apex])
  BY UnderAround DEF A, B, Apex
<1>4. Under(tris[j]) = Rise(pts[b], pts[a], pts[opp])
  <2>1. tris[j].v[Third(f, 2)] = opp
    BY DEF Opp
  <2> HIDE DEF a, b, j, f, opp
  <2> QED
    BY <1>2, <2>1, UnderAround
<1>5. InCircle(pts[a], pts[b], pts[apex], pts[opp])
  BY DEF Flippable, A, B, Apex, Beyond, Shared, Opp
<1> HIDE DEF a, b, apex, j, f, opp, us
<1>6. pts[a] \in Int \X Int /\ pts[b] \in Int \X Int /\ pts[apex] \in Int \X Int /\ pts[opp] \in Int \X Int
  <2>1. \A m \in 1..np : pts[m] \in Int \X Int
    BY DEF PointsAre
  <2> QED
    BY <1>2, <2>1
<1>7. Rise(pts[apex], pts[a], pts[opp]) + Rise(pts[apex], pts[opp], pts[b])
        < Rise(pts[a], pts[b], pts[apex]) + Rise(pts[b], pts[a], pts[opp])
  <2> DEFINE pa == pts[a]
             pb == pts[b]
             pp == pts[apex]
             po == pts[opp]
  <2>1. pa \in Int \X Int /\ pb \in Int \X Int /\ pp \in Int \X Int /\ po \in Int \X Int /\ InCircle(pa, pb, pp, po)
    BY <1>5, <1>6
  <2> HIDE DEF pa, pb, pp, po
  <2>2. Rise(pp, pa, po) + Rise(pp, po, pb) < Rise(pa, pb, pp) + Rise(pb, pa, po)
    BY <2>1, RiseFalls
  <2> QED
    BY <2>2 DEF pa, pb, pp, po
<1>8. Under(us[i]) = Rise(pts[apex], pts[a], pts[opp])
  BY <1>2 DEF Under, Corner
<1>9. Under(us[j]) = Rise(pts[apex], pts[opp], pts[b])
  BY <1>2 DEF Under, Corner
<1>10. \A k \in 1..nt : k # i /\ k # j => Under(us[k]) = Under(tris[k])
  BY <1>2 DEF Under, Corner
<1>11. Under(us[i]) + Under(us[j]) < Under(tris[i]) + Under(tris[j])
  BY <1>3, <1>4, <1>7, <1>8, <1>9
<1> QED
  BY <1>2, <1>10, <1>11 DEF FlipsUnder, j, us

(* So a flip lowers the mesh.                                               *)
LEMMA FlipLowersMesh ==
  ASSUME NEW np \in Nat, NEW nt \in Nat, MeshIs(np, nt), PointsAre(np),
         NEW i \in 1..nt, NEW e \in 1..3, Flippable(i, e)
  PROVE  Total(Unders(Flip(i, e))) < MeshRise
<1> DEFINE us == Flip(i, e)
           s  == Unders(tris)
           t  == Unders(us)
           j  == Beyond(i, e)
<1>1. FlipsUnder(nt, i, e)
  BY FlipFalls
<1>2. us \in Seq(Triangles(np, nt)) /\ Len(us) = nt
  BY FlipShape
<1>3. tris \in Seq(Triangles(np, nt)) /\ Len(tris) = nt
  BY DEF MeshIs
<1>4. \A ts \in Seq(Triangles(np, nt)) : Len(ts) = nt =>
        DOMAIN ts = 1..nt /\ \A k \in 1..nt : \A g \in 1..3 : ts[k].v[g] \in 1..np
  <2>1. \A x \in Triangles(np, nt) : \A g \in 1..3 : x.v[g] \in 1..np
    BY DEF Triangles
  <2> QED
    BY <2>1
<1> HIDE DEF us
<1>5. /\ s \in Seq(Int) /\ Len(s) = nt /\ \A k \in 1..nt : s[k] = Under(tris[k])
      /\ t \in Seq(Int) /\ Len(t) = nt /\ \A k \in 1..nt : t[k] = Under(us[k])
  <2>1. DOMAIN tris = 1..nt /\ \A k \in 1..nt : \A g \in 1..3 : tris[k].v[g] \in 1..np
    BY <1>3, <1>4
  <2>2. DOMAIN us = 1..nt /\ \A k \in 1..nt : \A g \in 1..3 : us[k].v[g] \in 1..np
    BY <1>2, <1>4
  <2>3. /\ s \in Seq(Int) /\ Len(s) = nt
        /\ \A k \in 1..nt : s[k] = Under(tris[k]) /\ Under(tris[k]) \in Int
    BY <2>1, UndersAre
  <2>4. /\ t \in Seq(Int) /\ Len(t) = nt
        /\ \A k \in 1..nt : t[k] = Under(us[k]) /\ Under(us[k]) \in Int
    BY <2>2, UndersAre
  <2> QED
    BY <2>3, <2>4
<1>6. j \in 1..nt /\ j # i /\ t[i] + t[j] < s[i] + s[j] /\ \A k \in 1..nt : k # i /\ k # j => t[k] = s[k]
  <2>1. /\ j \in 1..nt /\ j # i
        /\ Under(us[i]) + Under(us[j]) < Under(tris[i]) + Under(tris[j])
        /\ \A k \in 1..nt : k # i /\ k # j => Under(us[k]) = Under(tris[k])
    BY <1>1 DEF FlipsUnder, us
  <2> HIDE DEF s, t, j
  <2> QED
    BY <1>5, <2>1
<1>7. MeshRise = Total(s)
  BY DEF MeshRise, Unders
<1> HIDE DEF s, t, j
<1>8. Total(t) < Total(s)
  <2>1. Exchanged(s, t, i, j)
    BY <1>5, <1>6 DEF Exchanged
  <2>2. Total(t) = Total(s) + ((t[i] + t[j]) - (s[i] + s[j])) /\ Total(s) \in Int
    <3>1. s \in Seq(Int) /\ t \in Seq(Int)
      BY <1>5
    <3>2. Total(t) = Total(s) + ((t[i] + t[j]) - (s[i] + s[j]))
      BY <2>1, <3>1, TotalExchanges
    <3>3. Total(s) \in Int
      BY <3>1, TotalIsInt
    <3> QED
      BY <3>2, <3>3
  <2> DEFINE x == t[i] + t[j]
             y == s[i] + s[j]
             z == Total(s)
  <2>3. x \in Int /\ y \in Int /\ z \in Int /\ x < y
    <3>1. i \in 1..nt /\ j \in 1..nt
      BY <1>6
    <3>2. s[i] \in Int /\ s[j] \in Int
      BY <1>5, <3>1
    <3>3. t[i] \in Int /\ t[j] \in Int
      BY <1>5, <3>1
    <3>4. x \in Int /\ y \in Int
      BY <3>2, <3>3
    <3>5. x < y
      BY <1>6
    <3>6. z \in Int
      BY <2>2
    <3> QED
      BY <3>4, <3>5, <3>6
  <2>4. Total(t) = z + (x - y)
    BY <2>2
  <2> HIDE DEF x, y, z
  <2>5. z + (x - y) < z
    BY <2>3
  <2> QED
    BY <2>4, <2>5 DEF z
<1> QED
  BY <1>7, <1>8 DEF t, us

(* Where no triangle is turned over, the volume is not negative.            *)
LEMMA RiseIsNatural == MeshTypeOK => (Upright => MeshRise >= 0)
<1> SUFFICES ASSUME MeshTypeOK, Upright PROVE MeshRise >= 0
  OBVIOUS
<1> DEFINE np == Len(pts)
           nt == Len(tris)
           s == Unders(tris)
<1>1. np \in Nat /\ nt \in Nat /\ MeshIs(np, nt) /\ PointsAre(np)
  BY MeshOf DEF MeshTypeOK
<1> HIDE DEF np, nt
<1>2. DOMAIN tris = 1..nt /\ \A k \in 1..nt : \A g \in 1..3 : tris[k].v[g] \in 1..np
  BY <1>1, PartsOf DEF MeshIs
<1>3. \A k \in 1..nt : Area(tris[k]) >= 0
  BY <1>2 DEF Upright
<1>4. s \in Seq(Int) /\ Len(s) = nt /\ \A k \in 1..nt : s[k] >= 0
  <2>1. /\ Unders(tris) \in Seq(Int) /\ Len(Unders(tris)) = nt
        /\ \A k \in 1..nt : Unders(tris)[k] = Under(tris[k]) /\ Under(tris[k]) \in Int
        /\ \A k \in 1..nt : Area(tris[k]) >= 0 => Under(tris[k]) >= 0
    BY <1>1, <1>2, UndersAre
  <2> QED
    BY <1>3, <2>1
<1>5. MeshRise = Total(s)
  BY DEF MeshRise, Unders
<1> HIDE DEF s
<1>6. \A k \in 1..Len(s) : s[k] >= 0
  BY <1>4
<1> QED
  BY <1>4, <1>5, <1>6, TotalIsNatural

(* A step that changes the triangles of a mesh and adds no point lowers     *)
(* what is a natural number where no triangle is turned over.               *)
FlipsRunOut ==
  pc = "mesh" /\ pts' = pts /\ tris' # tris =>
    /\ MeshRise' < MeshRise
    /\ Upright' => MeshRise' >= 0
(* Only flips change triangles and no points.                               *)
LEMMA FlipsLower == MeshTypeOK /\ [Next]_vars => FlipsRunOut
<1> SUFFICES ASSUME MeshTypeOK, [Next]_vars, pc = "mesh", pts' = pts, tris' # tris
             PROVE  MeshRise' < MeshRise /\ (Upright' => MeshRise' >= 0)
  BY DEF FlipsRunOut
<1>0. PolygonOK /\ PointsOK /\ TrianglesOK
  BY DEF MeshTypeOK
<1>m. Len(pts) \in Nat /\ Len(tris) \in Nat /\ MeshIs(Len(pts), Len(tris)) /\ PointsAre(Len(pts))
  BY <1>0, MeshOf
<1>1. Upright' => MeshRise' >= 0
  <2>1. MeshTypeOK'
    BY MeshTypesStay
  <2>2. MeshTypeOK' => (Upright => MeshRise >= 0)'
    BY RiseIsNatural, PTL
  <2> QED
    BY <2>1, <2>2
<1>2. CASE Legalize
  <2>1. FlipsOne
    BY <1>0, <1>2, LegalizeUnfolds
  <2>2. PICK i \in 1..Len(tris), e \in 1..3 : Flippable(i, e) /\ tris' = Flip(i, e)
    BY <2>1 DEF FlipsOne
  <2>3. Total(Unders(Flip(i, e))) < MeshRise
    BY <1>m, <2>2, FlipLowersMesh
  <2>4. MeshRise' = Total([k \in DOMAIN Flip(i, e) |-> Under(Flip(i, e)[k])])
    BY <2>2 DEF MeshRise, Under, Corner
  <2> QED
    BY <1>1, <2>3, <2>4 DEF Unders
<1>3. ~(InsertGrid \/ Split)
  <2> SUFFICES ASSUME InsertGrid \/ Split PROVE FALSE
    OBVIOUS
  <2>1. PICK p \in Int \X Int : Insert(p)
    BY <1>0, PointsInserted
  <2>2. UNCHANGED meshVars \/ \E i \in 1..Len(tris) : InsertedInto(p, i)
    BY <1>m, <2>1, InsertUnfolds
  <2>3. pts' = Append(pts, p)
    BY <2>2 DEF InsertedInto, meshVars
  <2>4. Len(Append(pts, p)) = Len(pts) + 1
    BY <1>0 DEF PointsOK
  <2> QED
    BY <1>m, <2>3, <2>4
<1>4. ~(NextPass \/ Export \/ UNCHANGED vars)
  BY DEF NextPass, Export, vars, meshVars
<1>5. ~(Bridge \/ StartClip \/ Clip \/ Build)
  BY DEF Bridge, StartClip, Clip, Build
<1> QED
  BY <1>2, <1>3, <1>4, <1>5 DEF Next, Done

(* legalize calls itself after each flip with no bound on its depth: it     *)
(* comes to an end because every flip lowers the lifted mesh, so that no    *)
(* mesh comes back.                                                         *)
THEOREM LegalizationEnds == Spec => [][FlipsRunOut]_vars
BY MeshTypesBegin, MeshTypesStay, FlipsLower, PTL DEF Spec

------------------------------------------------------------------------------
(* The sides of the region in the mesh.                                     *)

(* The sides of a polygon, in its order: from each corner to the next, and  *)
(* from the last to the first.                                              *)
SidesInTurn(l) ==
  /\ \A k \in 1..(Len(l) - 1) : {l[k], l[k + 1]} \in LoopKeys(l)
  /\ {l[Len(l)], l[1]} \in LoopKeys(l)
  /\ \A s \in LoopKeys(l) : \/ \E k \in 1..(Len(l) - 1) : s = {l[k], l[k + 1]}
                            \/ s = {l[Len(l)], l[1]}
(* They are its keys.                                                       *)
LEMMA SidesAre ==
  ASSUME NEW D, NEW l \in Seq(D), Len(l) >= 1
  PROVE  SidesInTurn(l)
<1> DEFINE n == Len(l)
<1>1. n \in Nat /\ n >= 1 /\ DOMAIN l = 1..n
  OBVIOUS
<1>2. \A k \in 1..n : Succ(l, k) = l[IF k = n THEN 1 ELSE k + 1]
  BY Beside
<1>3. LoopKeys(l) = {{l[k], Succ(l, k)} : k \in 1..n}
  BY <1>1 DEF LoopKeys, Key
<1> HIDE DEF n
<1>4. \A k \in 1..(n - 1) : k \in 1..n /\ k # n
  BY <1>1
<1>5. n \in 1..n /\ \A k \in 1..n : k = n \/ k \in 1..(n - 1)
  BY <1>1
<1>6. \A k \in 1..(n - 1) : {l[k], l[k + 1]} \in LoopKeys(l)
  <2> SUFFICES ASSUME NEW k \in 1..(n - 1) PROVE {l[k], l[k + 1]} \in LoopKeys(l)
    OBVIOUS
  <2>1. k \in 1..n /\ Succ(l, k) = l[k + 1]
    BY <1>2, <1>4
  <2> QED
    BY <1>3, <2>1
<1>7. {l[n], l[1]} \in LoopKeys(l)
  <2>1. Succ(l, n) = l[1]
    BY <1>2, <1>5
  <2> QED
    BY <1>3, <1>5, <2>1
<1>8. ASSUME NEW s \in LoopKeys(l)
      PROVE  (\E k \in 1..(n - 1) : s = {l[k], l[k + 1]}) \/ s = {l[n], l[1]}
  <2>1. PICK k \in 1..n : s = {l[k], Succ(l, k)}
    BY <1>3
  <2>2. CASE k = n
    BY <1>2, <2>1, <2>2
  <2>3. CASE k \in 1..(n - 1)
    <3>1. Succ(l, k) = l[k + 1]
      BY <1>2, <1>4, <2>3
    <3> QED
      BY <2>1, <2>3, <3>1
  <2> QED
    BY <1>5, <2>2, <2>3
<1> QED
  BY <1>6, <1>7, <1>8 DEF SidesInTurn, n

(* A polygon turned round has the same sides.                               *)
LEMMA SidesTurned ==
  ASSUME NEW D, NEW l \in Seq(D), Len(l) >= 1
  PROVE  LoopKeys(l) \subseteq LoopKeys(Reverse(l))
<1> DEFINE n == Len(l)
           r == Reverse(l)
<1>1. n \in Nat /\ n >= 1
  OBVIOUS
<1>2. r \in Seq(D) /\ Len(r) = n
  BY TurnedIs
<1>3. \A k \in 1..n : r[k] = l[(n - k) + 1]
  BY DEF Reverse
<1> HIDE DEF n, r
<1>4. SidesInTurn(l) /\ SidesInTurn(r)
  BY <1>1, <1>2, SidesAre DEF n
<1> SUFFICES ASSUME NEW s \in LoopKeys(l) PROVE s \in LoopKeys(r)
  BY DEF r
<1>5. (\E k \in 1..(n - 1) : s = {l[k], l[k + 1]}) \/ s = {l[n], l[1]}
  BY <1>4 DEF SidesInTurn, n
<1>6. CASE \E k \in 1..(n - 1) : s = {l[k], l[k + 1]}
  <2>1. PICK k \in 1..(n - 1) : s = {l[k], l[k + 1]}
    BY <1>6
  <2> DEFINE j == n - k
  <2>2. j \in 1..(n - 1) /\ j \in 1..n /\ j + 1 \in 1..n /\ (n - j) + 1 = k + 1 /\ (n - (j + 1)) + 1 = k
    BY <1>1
  <2> HIDE DEF j
  <2>3. r[j] = l[k + 1] /\ r[j + 1] = l[k]
    <3>1. r[j] = l[(n - j) + 1] /\ r[j + 1] = l[(n - (j + 1)) + 1]
      BY <1>3, <2>2
    <3> QED
      BY <2>2, <3>1
  <2>4. {r[j], r[j + 1]} \in LoopKeys(r)
    BY <1>2, <1>4, <2>2 DEF SidesInTurn
  <2>5. s = {r[j], r[j + 1]}
    BY <2>1, <2>3
  <2> QED
    BY <2>4, <2>5
<1>7. CASE s = {l[n], l[1]}
  <2>1. 1 \in 1..n /\ n \in 1..n /\ (n - 1) + 1 = n /\ (n - n) + 1 = 1
    BY <1>1
  <2>2. r[1] = l[n] /\ r[n] = l[1]
    <3>1. r[1] = l[(n - 1) + 1] /\ r[n] = l[(n - n) + 1]
      BY <1>3, <2>1
    <3> QED
      BY <2>1, <3>1
  <2>3. {r[n], r[1]} \in LoopKeys(r)
    BY <1>2, <1>4 DEF SidesInTurn
  <2>4. s = {r[n], r[1]}
    BY <1>7, <2>2
  <2> QED
    BY <2>3, <2>4
<1> QED
  BY <1>5, <1>6, <1>7

(* An ear that is cut off takes its two sides, and no other.                *)
LEMMA SidesWithoutEar ==
  ASSUME NEW D, NEW l \in Seq(D), Len(l) > 3, NEW i \in 1..Len(l), NEW s \in LoopKeys(l)
  PROVE  s \in LoopKeys(RemoveAt(l, i)) \/ s = {Pred(l, i), l[i]} \/ s = {l[i], Succ(l, i)}
<1> DEFINE n == Len(l)
           r == RemoveAt(l, i)
<1>1. n \in Nat /\ n > 3 /\ i \in 1..n
  OBVIOUS
<1>2. r \in Seq(D) /\ Len(r) = n - 1
  BY RemovedIs
<1>3. \A k \in 1..(n - 1) : r[k] = l[IF k < i THEN k ELSE k + 1]
  BY RemovedAt
<1>4. /\ Pred(l, i) = l[IF i = 1 THEN n ELSE i - 1]
      /\ Succ(l, i) = l[IF i = n THEN 1 ELSE i + 1]
  BY Beside
<1> HIDE DEF n, r
<1>5. SidesInTurn(l) /\ SidesInTurn(r)
  <2>1. Len(l) >= 1 /\ Len(r) >= 1
    BY <1>1, <1>2 DEF n
  <2> QED
    BY <1>2, <2>1, SidesAre
<1>6. (\E k \in 1..(n - 1) : s = {l[k], l[k + 1]}) \/ s = {l[n], l[1]}
  BY <1>5 DEF SidesInTurn, n
<1>7. /\ \A k \in 1..((n - 1) - 1) : {r[k], r[k + 1]} \in LoopKeys(r)
      /\ {r[n - 1], r[1]} \in LoopKeys(r)
  BY <1>2, <1>5 DEF SidesInTurn
<1>8. CASE \E k \in 1..(n - 1) : s = {l[k], l[k + 1]}
  <2>1. PICK k \in 1..(n - 1) : s = {l[k], l[k + 1]}
    BY <1>8
  <2>2. CASE k + 1 < i
    <3>1. k \in 1..(n - 1) /\ k + 1 \in 1..(n - 1) /\ k < i /\ k \in 1..((n - 1) - 1)
      BY <1>1, <2>2
    <3>2. r[k] = l[k] /\ r[k + 1] = l[k + 1]
      BY <1>3, <2>2, <3>1
    <3>3. s = {r[k], r[k + 1]}
      BY <2>1, <3>2
    <3> QED
      BY <1>7, <3>1, <3>3 DEF r
  <2>3. CASE k > i
    <3> DEFINE j == k - 1
    <3>1. j \in 1..(n - 1) /\ j + 1 \in 1..(n - 1) /\ ~(j < i) /\ ~(j + 1 < i) /\ j \in 1..((n - 1) - 1)
          /\ j + 1 = k /\ (j + 1) + 1 = k + 1
      BY <1>1, <2>3
    <3> HIDE DEF j
    <3>2. r[j] = l[k] /\ r[j + 1] = l[k + 1]
      <4>1. r[j] = l[j + 1] /\ r[j + 1] = l[(j + 1) + 1]
        BY <1>3, <3>1
      <4> QED
        BY <3>1, <4>1
    <3>3. s = {r[j], r[j + 1]}
      BY <2>1, <3>2
    <3> QED
      BY <1>7, <3>1, <3>3 DEF r
  <2>4. CASE k = i
    <3>1. Succ(l, i) = l[k + 1]
      BY <1>1, <1>4, <2>4
    <3> QED
      BY <2>1, <2>4, <3>1
  <2>5. CASE k + 1 = i
    <3>1. i # 1 /\ i - 1 = k
      BY <1>1, <2>5
    <3>2. Pred(l, i) = l[k]
      BY <1>4, <3>1
    <3> QED
      BY <2>1, <2>5, <3>2
  <2> QED
    BY <1>1, <2>2, <2>3, <2>4, <2>5
<1>9. CASE s = {l[n], l[1]}
  <2>1. CASE i = n
    <3>1. Succ(l, i) = l[1]
      BY <1>4, <2>1
    <3> QED
      BY <1>9, <2>1, <3>1
  <2>2. CASE i = 1
    <3>1. Pred(l, i) = l[n]
      BY <1>4, <2>2
    <3> QED
      BY <1>9, <2>2, <3>1
  <2>3. CASE i # n /\ i # 1
    <3>1. 1 \in 1..(n - 1) /\ n - 1 \in 1..(n - 1) /\ 1 < i /\ ~(n - 1 < i) /\ (n - 1) + 1 = n
      BY <1>1, <2>3
    <3>2. r[1] = l[1] /\ r[n - 1] = l[n]
      <4>1. r[1] = l[1] /\ r[n - 1] = l[(n - 1) + 1]
        BY <1>3, <3>1
      <4> QED
        BY <3>1, <4>1
    <3>3. s = {r[n - 1], r[1]}
      BY <1>9, <3>2
    <3> QED
      BY <1>7, <3>3 DEF r
  <2> QED
    BY <2>1, <2>2, <2>3
<1> QED
  BY <1>6, <1>8, <1>9

(* A bridged polygon has the sides of both.                                 *)
LEMMA SidesJoined ==
  ASSUME NEW D, NEW o \in Seq(D), NEW h \in Seq(D), Len(h) >= 1,
         NEW pick \in 1..Len(o), NEW at \in 1..Len(h)
  PROVE  LoopKeys(o) \cup LoopKeys(h) \subseteq LoopKeys(Joined(o, pick, h, at))
<1> DEFINE u == SubSeq(o, 1, pick)
           w == Around(h, at)
           v == SubSeq(o, pick, Len(o))
           n == Len(o)
           m == Len(h)
           b == Joined(o, pick, h, at)
           N == (pick + (m + 1)) + (n - pick + 1)
<1>1. n \in Nat /\ pick \in 1..n /\ n >= 1 /\ m \in Nat /\ m >= 1 /\ at \in 1..m
  OBVIOUS
<1>2. /\ u \in Seq(D) /\ Len(u) = pick /\ \A k \in 1..pick : u[k] = o[k]
      /\ v \in Seq(D) /\ Len(v) = n - pick + 1 /\ \A k \in 1..(n - pick + 1) : v[k] = o[pick + k - 1]
  OBVIOUS
<1>3. w \in Seq(D) /\ Len(w) = m + 1 /\ \A k \in 1..(m + 1) : w[k] = h[((at + k - 2) % m) + 1]
  BY AroundIs
<1>4. b = (u \o w) \o v
  BY DEF Joined
<1> HIDE DEF u, v, w, n, m, b
<1>5. /\ b \in Seq(D) /\ Len(b) = N /\ N >= 1
      /\ \A k \in 1..pick : b[k] = u[k]
      /\ \A k \in 1..(m + 1) : b[pick + k] = w[k]
      /\ \A k \in 1..(n - pick + 1) : b[(pick + (m + 1)) + k] = v[k]
  <2> DEFINE c == u \o w
  <2>1. /\ c \in Seq(D) /\ Len(c) = pick + (m + 1)
        /\ \A k \in 1..pick : c[k] = u[k]
        /\ \A k \in 1..(m + 1) : c[pick + k] = w[k]
    <3>1. /\ u \o w \in Seq(D) /\ Len(u \o w) = Len(u) + Len(w)
          /\ \A k \in 1..Len(u) : (u \o w)[k] = u[k]
          /\ \A k \in 1..Len(w) : (u \o w)[Len(u) + k] = w[k]
      <4>1. u \in Seq(D) /\ w \in Seq(D)
        BY <1>2, <1>3
      <4> QED
        BY <4>1, Spliced
    <3> HIDE DEF c
    <3>2. /\ c \in Seq(D) /\ Len(c) = Len(u) + Len(w)
          /\ \A k \in 1..Len(u) : c[k] = u[k]
          /\ \A k \in 1..Len(w) : c[Len(u) + k] = w[k]
      BY <3>1 DEF c
    <3> QED
      BY <1>2, <1>3, <3>2
  <2> HIDE DEF c
  <2>2. /\ b \in Seq(D) /\ Len(b) = (pick + (m + 1)) + (n - pick + 1)
        /\ \A k \in 1..(pick + (m + 1)) : b[k] = c[k]
        /\ \A k \in 1..(n - pick + 1) : b[(pick + (m + 1)) + k] = v[k]
    <3>1. b = c \o v
      BY <1>4 DEF c
    <3>2. /\ c \o v \in Seq(D) /\ Len(c \o v) = Len(c) + Len(v)
          /\ \A k \in 1..Len(c) : (c \o v)[k] = c[k]
          /\ \A k \in 1..Len(v) : (c \o v)[Len(c) + k] = v[k]
      <4>1. c \in Seq(D) /\ v \in Seq(D)
        BY <1>2, <2>1
      <4> QED
        BY <4>1, Spliced
    <3>3. /\ b \in Seq(D) /\ Len(b) = Len(c) + Len(v)
          /\ \A k \in 1..Len(c) : b[k] = c[k]
          /\ \A k \in 1..Len(v) : b[Len(c) + k] = v[k]
      BY <3>1, <3>2
    <3> QED
      BY <1>2, <2>1, <3>3
  <2>3. /\ \A k \in 1..pick : k \in 1..(pick + (m + 1))
        /\ \A k \in 1..(m + 1) : pick + k \in 1..(pick + (m + 1))
        /\ N >= 1
    BY <1>1
  <2> QED
    BY <2>1, <2>2, <2>3
<1>6. /\ \A k \in 1..(N - 1) : {b[k], b[k + 1]} \in LoopKeys(b)
      /\ {b[N], b[1]} \in LoopKeys(b)
  <2>1. SidesInTurn(b)
    BY <1>5, SidesAre
  <2> QED
    BY <1>5, <2>1 DEF SidesInTurn
<1>7. ASSUME NEW s \in LoopKeys(o) PROVE s \in LoopKeys(b)
  <2>1. (\E k \in 1..(n - 1) : s = {o[k], o[k + 1]}) \/ s = {o[n], o[1]}
    <3>1. SidesInTurn(o)
      BY <1>1, SidesAre DEF n
    <3> QED
      BY <3>1 DEF SidesInTurn, n
  <2>2. CASE \E k \in 1..(n - 1) : s = {o[k], o[k + 1]}
    <3>1. PICK k \in 1..(n - 1) : s = {o[k], o[k + 1]}
      BY <2>2
    <3>2. CASE k < pick
      <4>1. k \in 1..pick /\ k + 1 \in 1..pick /\ k \in 1..(N - 1)
        BY <1>1, <3>2
      <4>2. b[k] = o[k] /\ b[k + 1] = o[k + 1]
        BY <1>2, <1>5, <4>1
      <4>3. s = {b[k], b[k + 1]}
        BY <3>1, <4>2
      <4> QED
        BY <1>6, <4>1, <4>3
    <3>3. CASE k >= pick
      <4> DEFINE j == k - pick + 1
                 q == (pick + (m + 1)) + j
      <4>1. /\ j \in 1..(n - pick + 1) /\ j + 1 \in 1..(n - pick + 1) /\ q \in 1..(N - 1)
            /\ q + 1 = (pick + (m + 1)) + (j + 1)
            /\ pick + j - 1 = k /\ pick + (j + 1) - 1 = k + 1
        BY <1>1, <3>3
      <4> HIDE DEF j
      <4>2. b[q] = o[k] /\ b[q + 1] = o[k + 1]
        <5>1. b[q] = v[j] /\ b[q + 1] = v[j + 1]
          BY <1>5, <4>1
        <5>2. v[j] = o[pick + j - 1] /\ v[j + 1] = o[pick + (j + 1) - 1]
          BY <1>2, <4>1
        <5> QED
          BY <4>1, <5>1, <5>2
      <4> HIDE DEF q
      <4>3. s = {b[q], b[q + 1]}
        BY <3>1, <4>2
      <4> QED
        BY <1>6, <4>1, <4>3
    <3> QED
      BY <1>1, <3>2, <3>3
  <2>3. CASE s = {o[n], o[1]}
    <3>1. /\ 1 \in 1..pick /\ n - pick + 1 \in 1..(n - pick + 1) /\ pick + (n - pick + 1) - 1 = n
      BY <1>1
    <3>2. b[1] = o[1]
      BY <1>2, <1>5, <3>1
    <3>3. b[N] = o[n]
      <4>1. b[N] = v[n - pick + 1]
        BY <1>5, <3>1
      <4>2. v[n - pick + 1] = o[pick + (n - pick + 1) - 1]
        BY <1>2, <3>1
      <4> QED
        BY <3>1, <4>1, <4>2
    <3>4. s = {b[N], b[1]}
      BY <2>3, <3>2, <3>3
    <3> QED
      BY <1>6, <3>4
  <2> QED
    BY <2>1, <2>2, <2>3
<1>8. ASSUME NEW s \in LoopKeys(h) PROVE s \in LoopKeys(b)
  <2>1. PICK j \in 1..m : s = {h[j], h[(j % m) + 1]}
    <3>1. DOMAIN h = 1..m
      BY DEF m
    <3> QED
      BY <3>1 DEF LoopKeys, Key, Succ, m
  <2> DEFINE k == IF j >= at THEN j - at + 1 ELSE j - at + 1 + m
  <2>2. k \in 1..m /\ (at + k - 2) % m = j - 1 /\ (at + (k + 1) - 2) % m = j % m
    <3>1. CASE j >= at
      <4>1. k \in 1..m /\ at + k - 2 = j - 1 /\ at + (k + 1) - 2 = j /\ j - 1 \in 0..(m - 1)
        BY <1>1, <3>1
      <4>2. (j - 1) % m = j - 1
        BY <1>1, <4>1, LeftOver
      <4> QED
        BY <4>1, <4>2
    <3>2. CASE j < at
      <4>1. /\ k \in 1..m /\ at + k - 2 = m + (j - 1) /\ at + (k + 1) - 2 = m + j
            /\ j - 1 \in 0..(m - 1) /\ j \in 0..(m - 1)
        BY <1>1, <3>2
      <4>2. (m + (j - 1)) % m = j - 1
        BY <1>1, <4>1, LeftOver
      <4>3. (m + j) % m = j /\ j % m = j
        BY <1>1, <4>1, LeftOver
      <4> QED
        BY <4>1, <4>2, <4>3
    <3> QED
      BY <1>1, <3>1, <3>2
  <2> HIDE DEF k
  <2>3. /\ k \in 1..(m + 1) /\ k + 1 \in 1..(m + 1) /\ (j - 1) + 1 = j
        /\ pick + k \in 1..(N - 1) /\ (pick + k) + 1 = pick + (k + 1)
    BY <1>1, <2>2
  <2>4. b[pick + k] = h[j] /\ b[(pick + k) + 1] = h[(j % m) + 1]
    <3>1. b[pick + k] = w[k] /\ b[pick + (k + 1)] = w[k + 1]
      BY <1>5, <2>3
    <3>2. w[k] = h[((at + k - 2) % m) + 1] /\ w[k + 1] = h[((at + (k + 1) - 2) % m) + 1]
      BY <1>3, <2>3
    <3> QED
      BY <2>2, <2>3, <3>1, <3>2
  <2> DEFINE q == pick + k
  <2>5. s = {b[q], b[q + 1]} /\ q \in 1..(N - 1)
    BY <2>1, <2>3, <2>4
  <2> HIDE DEF q
  <2> QED
    BY <1>6, <2>5
<1> QED
  BY <1>7, <1>8 DEF b

(* So a bridge leaves every side of the polygon and of the hole in place.   *)
LEMMA SidesBridged ==
  ASSUME PolygonOK, PointsOK,
         NEW outer \in Seq(Corners), Len(outer) >= 3, NEW hole \in Seq(Corners), Len(hole) >= 3
  PROVE  LoopKeys(outer) \cup LoopKeys(hole) \subseteq LoopKeys(BridgeHole(outer, hole))
<1>1. PICK pick \in 1..Len(outer), at \in 1..Len(hole) :
        BridgeHole(outer, hole) = Joined(Outward(outer), pick, Inward(hole), at)
  BY BridgeParts
<1> DEFINE o == Outward(outer)
           h == Inward(hole)
<1>2. o \in Seq(Corners) /\ Len(o) = Len(outer) /\ h \in Seq(Corners) /\ Len(h) = Len(hole)
  <2>1. (o = outer \/ o = Reverse(outer)) /\ (h = hole \/ h = Reverse(hole))
    BY DEF Outward, Inward
  <2> HIDE DEF o, h
  <2> QED
    BY <2>1, TurnedIs
<1>3. LoopKeys(outer) \subseteq LoopKeys(o)
  <2>1. LoopKeys(outer) \subseteq LoopKeys(Reverse(outer))
    <3>1. Len(outer) >= 1
      OBVIOUS
    <3> QED
      BY <3>1, SidesTurned
  <2> QED
    BY <2>1 DEF Outward
<1>4. LoopKeys(hole) \subseteq LoopKeys(h)
  <2>1. LoopKeys(hole) \subseteq LoopKeys(Reverse(hole))
    <3>1. Len(hole) >= 1
      OBVIOUS
    <3> QED
      BY <3>1, SidesTurned
  <2> QED
    BY <2>1 DEF Inward
<1> HIDE DEF o, h
<1>5. LoopKeys(o) \cup LoopKeys(h) \subseteq LoopKeys(Joined(o, pick, h, at))
  <2>1. Len(h) >= 1 /\ pick \in 1..Len(o) /\ at \in 1..Len(h)
    BY <1>2
  <2> QED
    BY <1>2, <2>1, SidesJoined
<1>6. LoopKeys(BridgeHole(outer, hole)) = LoopKeys(Joined(o, pick, h, at))
  BY <1>1 DEF o, h
<1> QED
  BY <1>3, <1>4, <1>5, <1>6

(* The sides of the region with their triangles, phase by phase: first they *)
(* are sides of the polygon, but for the holes that are not bridged; then   *)
(* of the polygon or of a triangle; then of a triangle.                     *)
Looped(h) == h \in DOMAIN region.loops /\ Len(region.loops[h]) >= 3
SidesToBridge == \A h : Looped(h) /\ h \notin holes => LoopKeys(region.loops[h]) \subseteq LoopKeys(merged)
SidesToClip == \A h : Looped(h) => \A s \in LoopKeys(region.loops[h]) : s \in LoopKeys(loop) \/ HasEdge(tris, s)
SidesMeshed == /\ constrained = AllKeys
               /\ Len(loop) = 3 => \A h : Looped(h) => \A s \in LoopKeys(region.loops[h]) : HasEdge(tris, s)
SidesInv == /\ MeshTypeOK
            /\ pc = "bridge" => SidesToBridge
            /\ pc = "clip" => SidesToClip
            /\ pc \in {"mesh", "done"} => SidesMeshed

(* A further triangle leaves the edges of the others, and adds its own.     *)
LEMMA EdgesAppended ==
  ASSUME NEW D, NEW ts \in Seq(D), NEW a, NEW b, NEW c, Unlinked(a, b, c) \in D
  PROVE  LET us == Append(ts, Unlinked(a, b, c))
         IN /\ \A k : HasEdge(ts, k) => HasEdge(us, k)
            /\ HasEdge(us, {a, b}) /\ HasEdge(us, {b, c}) /\ HasEdge(us, {c, a})
<1> DEFINE t  == Unlinked(a, b, c)
           us == Append(ts, t)
           n  == Len(ts)
<1>1. /\ n + 1 \in DOMAIN us /\ us[n + 1] = t
      /\ \A i \in DOMAIN ts : i \in DOMAIN us /\ us[i] = ts[i]
  OBVIOUS
<1>2. KeyOf(t, 1) = {a, b} /\ KeyOf(t, 2) = {b, c} /\ KeyOf(t, 3) = {c, a}
  BY DEF KeyOf, Key, Unlinked, Tri
<1> HIDE DEF t, us
<1>3. \A k : HasEdge(ts, k) => HasEdge(us, k)
  BY <1>1 DEF HasEdge
<1>4. HasEdge(us, {a, b}) /\ HasEdge(us, {b, c}) /\ HasEdge(us, {c, a})
  <2>1. 1 \in 1..3 /\ 2 \in 1..3 /\ 3 \in 1..3
    OBVIOUS
  <2> QED
    BY <1>1, <1>2, <2>1 DEF HasEdge
<1> QED
  BY <1>3, <1>4 DEF us, t

(* Every action keeps the sides with their triangles.                       *)
LEMMA SidesInvStays == SidesInv /\ [Next]_vars => SidesInv'
<1> SUFFICES ASSUME SidesInv, [Next]_vars PROVE SidesInv'
  OBVIOUS
<1>0. MeshTypeOK /\ PolygonOK /\ PointsOK /\ TrianglesOK
  BY DEF SidesInv, MeshTypeOK
<1>t. MeshTypeOK'
  BY <1>0, MeshTypesStay
<1>l. ASSUME region' = region PROVE \A h : Looped(h)' <=> Looped(h)
  BY <1>l DEF Looped
<1>1. CASE Bridge
  <2>1. pc = "bridge" /\ pc' = "bridge" /\ region' = region
    BY <1>1 DEF Bridge, inVars
  <2>2. PICK g \in holes : merged' = BridgeHole(merged, region.loops[g]) /\ holes' = holes \ {g}
    BY <1>1 DEF Bridge
  <2>3. g \in DOMAIN region.loops /\ Len(region.loops[g]) >= 3 /\ region.loops[g] \in Seq(Corners)
    <3>1. g \in DOMAIN region.loops /\ Len(region.loops[g]) >= 3
      BY <1>0 DEF PolygonOK
    <3> QED
      BY <1>0, <3>1, LoopsAre
  <2>4. merged \in Seq(Corners) /\ Len(merged) >= 3
    BY <1>0 DEF PolygonOK
  <2>5. LoopKeys(merged) \cup LoopKeys(region.loops[g]) \subseteq LoopKeys(merged')
    <3>1. LoopKeys(merged) \cup LoopKeys(region.loops[g]) \subseteq LoopKeys(BridgeHole(merged, region.loops[g]))
      BY <1>0, <2>3, <2>4, SidesBridged
    <3> QED
      BY <2>2, <3>1
  <2>6. SidesToBridge'
    <3>1. \A h : Looped(h) /\ h \notin holes \ {g} => LoopKeys(region.loops[h]) \subseteq LoopKeys(merged')
      <4> SUFFICES ASSUME NEW h, Looped(h), h \notin holes \ {g}
                   PROVE  LoopKeys(region.loops[h]) \subseteq LoopKeys(merged')
        OBVIOUS
      <4>1. CASE h = g
        BY <2>5, <4>1
      <4>2. CASE h \notin holes
        <5>1. LoopKeys(region.loops[h]) \subseteq LoopKeys(merged)
          BY <2>1, <4>2 DEF SidesInv, SidesToBridge
        <5> QED
          BY <2>5, <5>1
      <4> QED
        BY <4>1, <4>2
    <3>2. \A h : LoopKeys(region'.loops[h]) = LoopKeys(region.loops[h])
      BY <2>1
    <3>3. \A h : Looped(h)' <=> Looped(h)
      BY <1>l, <2>1
    <3>4. LoopKeys(merged)' = LoopKeys(merged') /\ \A h : LoopKeys(region.loops[h])' = LoopKeys(region'.loops[h])
      BY DEF LoopKeys, Succ
    <3> QED
      BY <2>2, <3>1, <3>2, <3>3, <3>4 DEF SidesToBridge
  <2> QED
    BY <1>t, <2>1, <2>6 DEF SidesInv
<1>2. CASE StartClip
  <2>1. pc = "bridge" /\ pc' = "clip" /\ region' = region /\ holes = {} /\ loop' = Outward(merged)
    BY <1>2 DEF StartClip, Outward
  <2>2. LoopKeys(merged) \subseteq LoopKeys(loop')
    <3>1. merged \in Seq(Corners) /\ Len(merged) >= 1
      BY <1>0 DEF PolygonOK
    <3>2. LoopKeys(merged) \subseteq LoopKeys(Reverse(merged))
      BY <3>1, SidesTurned
    <3> QED
      BY <2>1, <3>2 DEF Outward
  <2>3. \A h : Looped(h) => \A s \in LoopKeys(region.loops[h]) : s \in LoopKeys(loop')
    BY <2>1, <2>2 DEF SidesInv, SidesToBridge
  <2>4. SidesToClip'
    <3>1. \A h : Looped(h)' <=> Looped(h)
      BY <1>l, <2>1
    <3>2. LoopKeys(loop)' = LoopKeys(loop') /\ \A h : LoopKeys(region.loops[h])' = LoopKeys(region.loops[h])
      BY <2>1 DEF LoopKeys, Succ
    <3> QED
      BY <2>3, <3>1, <3>2 DEF SidesToClip
  <2> QED
    BY <1>t, <2>1, <2>4 DEF SidesInv
<1>3. CASE Clip
  <2> DEFINE i == Least(Ears)
             a == Pred(loop, i)
             b == loop[i]
             c == Succ(loop, i)
  <2>1. /\ pc = "clip" /\ pc' = "clip" /\ region' = region
        /\ tris' = Append(tris, Unlinked(a, b, c)) /\ loop' = RemoveAt(loop, i)
    BY <1>3 DEF Clip, inVars
  <2>2. loop \in Seq(Corners) /\ Len(loop) \in Nat /\ Len(loop) > 3
    BY <1>0, <1>3 DEF PolygonOK, Clip
  <2>3. i \in 1..Len(loop)
    <3>1. Ears \in SUBSET (1..Len(loop)) /\ Ears # {}
      BY <1>3, <2>2 DEF Ears, Clip
    <3> QED
      BY <2>2, <3>1, LeastIs
  <2> HIDE DEF i
  <2>4. \A s \in LoopKeys(loop) : s \in LoopKeys(loop') \/ s = {a, b} \/ s = {b, c}
    <3>1. \A s \in LoopKeys(loop) : s \in LoopKeys(RemoveAt(loop, i)) \/ s = {a, b} \/ s = {b, c}
      BY <2>2, <2>3, SidesWithoutEar
    <3> QED
      BY <2>1, <3>1
  <2>5. /\ \A k : HasEdge(tris, k) => HasEdge(tris', k)
        /\ HasEdge(tris', {a, b}) /\ HasEdge(tris', {b, c})
    <3> DEFINE t == Unlinked(a, b, c)
               D == Triangles(Len(pts), Len(tris)) \cup {t}
    <3>1. tris \in Seq(D) /\ t \in D
      <4>1. tris \in Seq(Triangles(Len(pts), Len(tris)))
        BY <1>0 DEF TrianglesOK
      <4>2. \A S, T : S \subseteq T => Seq(S) \subseteq Seq(T)
        OBVIOUS
      <4>3. Triangles(Len(pts), Len(tris)) \subseteq D
        OBVIOUS
      <4> HIDE DEF D
      <4>4. tris \in Seq(D)
        BY <4>1, <4>2, <4>3
      <4> QED
        BY <4>4 DEF D
    <3> HIDE DEF D, a, b, c
    <3>2. LET us == Append(tris, Unlinked(a, b, c))
          IN /\ \A k : HasEdge(tris, k) => HasEdge(us, k)
             /\ HasEdge(us, {a, b}) /\ HasEdge(us, {b, c}) /\ HasEdge(us, {c, a})
      BY <3>1, EdgesAppended
    <3> QED
      BY <2>1, <3>2
  <2> HIDE DEF a, b, c
  <2>6. \A h : Looped(h) => \A s \in LoopKeys(region.loops[h]) : s \in LoopKeys(loop') \/ HasEdge(tris', s)
    BY <2>1, <2>4, <2>5 DEF SidesInv, SidesToClip
  <2>7. SidesToClip'
    <3>1. \A h : Looped(h)' <=> Looped(h)
      BY <1>l, <2>1
    <3>2. /\ LoopKeys(loop)' = LoopKeys(loop') /\ \A h : LoopKeys(region.loops[h])' = LoopKeys(region.loops[h])
          /\ \A k : HasEdge(tris, k)' = HasEdge(tris', k)
      BY <2>1 DEF LoopKeys, Succ, HasEdge
    <3> QED
      BY <2>6, <3>1, <3>2 DEF SidesToClip
  <2> QED
    BY <1>t, <2>1, <2>7 DEF SidesInv
<1>4. CASE Build
  <2>1. /\ pc = "clip" /\ pc' = "mesh" /\ region' = region /\ loop' = loop
        /\ tris' = LinkedUp(Clipped) /\ constrained' = AllKeys
    BY <1>4 DEF Build, polyVars, Clipped
  <2>2. AllKeys' = AllKeys
    BY <2>1 DEF AllKeys, LoopKeys, Succ
  <2>3. ASSUME Len(loop) = 3
        PROVE  \A h : Looped(h) => \A s \in LoopKeys(region.loops[h]) : HasEdge(tris', s)
    <3> DEFINE t == Unlinked(loop[1], loop[2], loop[3])
               D == Triangles(Len(pts), Len(tris)) \cup {t}
               us == Append(tris, t)
    <3>1. tris \in Seq(D) /\ t \in D
      <4>1. tris \in Seq(Triangles(Len(pts), Len(tris)))
        BY <1>0 DEF TrianglesOK
      <4>2. \A S, T : S \subseteq T => Seq(S) \subseteq Seq(T)
        OBVIOUS
      <4>3. Triangles(Len(pts), Len(tris)) \subseteq D
        OBVIOUS
      <4> HIDE DEF D
      <4>4. tris \in Seq(D)
        BY <4>1, <4>2, <4>3
      <4> QED
        BY <4>4 DEF D
    <3> HIDE DEF D
    <3>2. /\ \A k : HasEdge(tris, k) => HasEdge(us, k)
          /\ HasEdge(us, {loop[1], loop[2]}) /\ HasEdge(us, {loop[2], loop[3]}) /\ HasEdge(us, {loop[3], loop[1]})
      BY <3>1, EdgesAppended
    <3>3. us = Clipped
      BY <2>3 DEF Clipped
    <3> HIDE DEF us, t
    <3>4. \A k : HasEdge(us, k) => HasEdge(tris', k)
      <4>1. PICK mt \in Nat : us \in Seq(Triangles(Len(pts), mt)) /\ Len(us) \in Nat
        BY <1>0, <2>1, <3>3, ClippedIs
      <4>2. Len(pts) \in Nat
        BY <1>0 DEF PointsOK
      <4>3. /\ LinkedUp(us) \in Seq(Triangles(Len(pts), Len(us))) /\ Len(LinkedUp(us)) = Len(us)
            /\ \A k \in 1..Len(us) : LinkedUp(us)[k].v = us[k].v
        BY <4>1, <4>2, LinkedUpIs
      <4> DEFINE ws == LinkedUp(us)
      <4>4. DOMAIN ws = 1..Len(us) /\ DOMAIN us = 1..Len(us)
        BY <4>1, <4>3
      <4>5. \A k \in 1..Len(us) : ws[k].v = us[k].v
        BY <4>3
      <4>6. ws = tris'
        BY <2>1, <3>3
      <4> HIDE DEF ws
      <4>7. \A k : HasEdge(us, k) => HasEdge(ws, k)
        BY <4>4, <4>5 DEF HasEdge, KeyOf
      <4> QED
        BY <4>6, <4>7
    <3>5. \A s \in LoopKeys(loop) : s = {loop[1], loop[2]} \/ s = {loop[2], loop[3]} \/ s = {loop[3], loop[1]}
      <4>1. loop \in Seq(Corners) /\ Len(loop) >= 1
        BY <1>0, <2>3 DEF PolygonOK
      <4>2. SidesInTurn(loop)
        BY <4>1, SidesAre
      <4>3. \A s \in LoopKeys(loop) : \/ \E k \in 1..2 : s = {loop[k], loop[k + 1]}
                                      \/ s = {loop[3], loop[1]}
        BY <2>3, <4>2 DEF SidesInTurn
      <4>4. \A k \in 1..2 : (k = 1 /\ k + 1 = 2) \/ (k = 2 /\ k + 1 = 3)
        OBVIOUS
      <4> QED
        BY <4>3, <4>4
    <3>6. \A h : Looped(h) => \A s \in LoopKeys(region.loops[h]) : s \in LoopKeys(loop) \/ HasEdge(tris, s)
      BY <2>1 DEF SidesInv, SidesToClip
    <3>7. \A s \in LoopKeys(loop) : HasEdge(tris', s)
      BY <3>2, <3>4, <3>5
    <3>8. \A k : HasEdge(tris, k) => HasEdge(tris', k)
      BY <3>2, <3>4
    <3> QED
      BY <3>6, <3>7, <3>8
  <2>4. SidesMeshed'
    <3>1. \A h : Looped(h)' <=> Looped(h)
      BY <1>l, <2>1
    <3>2. /\ \A h : LoopKeys(region.loops[h])' = LoopKeys(region.loops[h])
          /\ \A k : HasEdge(tris, k)' = HasEdge(tris', k)
      BY <2>1 DEF LoopKeys, Succ, HasEdge
    <3>3. constrained' = AllKeys'
      BY <2>1, <2>2
    <3>4. Len(loop') = 3 => \A h : Looped(h) => \A s \in LoopKeys(region.loops[h]) : HasEdge(tris', s)
      BY <2>1, <2>3
    <3> QED
      BY <3>1, <3>2, <3>3, <3>4 DEF SidesMeshed
  <2> QED
    BY <1>t, <2>1, <2>4 DEF SidesInv
<1>5. CASE Legalize \/ InsertGrid \/ Split \/ NextPass \/ Export
  <2>1. pc = "mesh" /\ pc' \in {"mesh", "done"} /\ region' = region /\ loop' = loop /\ constrained' = constrained
    BY <1>5 DEF Legalize, InsertGrid, Split, NextPass, Export, Resting, inVars, polyVars
  <2>2. \A k \in constrained : HasEdge(tris, k) => HasEdge(tris', k)
    BY <1>0, <2>1, SidesStay DEF SidesKept
  <2>3. AllKeys' = AllKeys
    BY <2>1 DEF AllKeys, LoopKeys, Succ
  <2>4. constrained = AllKeys
    BY <2>1 DEF SidesInv, SidesMeshed
  <2>5. \A h : Looped(h) => \A s \in LoopKeys(region.loops[h]) : s \in AllKeys
    BY DEF Looped, AllKeys
  <2>6. SidesMeshed'
    <3>1. \A h : Looped(h)' <=> Looped(h)
      BY <1>l, <2>1
    <3>2. /\ \A h : LoopKeys(region.loops[h])' = LoopKeys(region.loops[h])
          /\ \A k : HasEdge(tris, k)' = HasEdge(tris', k)
      BY <2>1 DEF LoopKeys, Succ, HasEdge
    <3>3. Len(loop') = 3 => \A h : Looped(h) => \A s \in LoopKeys(region.loops[h]) : HasEdge(tris', s)
      <4>1. Len(loop) = 3 => \A h : Looped(h) => \A s \in LoopKeys(region.loops[h]) : HasEdge(tris, s)
        BY <2>1 DEF SidesInv, SidesMeshed
      <4> QED
        BY <2>1, <2>2, <2>4, <2>5, <4>1
    <3>4. constrained' = AllKeys'
      BY <2>1, <2>3, <2>4
    <3> QED
      BY <3>1, <3>2, <3>3, <3>4 DEF SidesMeshed
  <2> QED
    BY <1>t, <2>1, <2>6 DEF SidesInv
<1>6. CASE UNCHANGED vars
  <2>1. UNCHANGED <<region, pc, holes, merged, loop, tris, constrained>>
    BY <1>6 DEF vars, inVars, polyVars, meshVars
  <2>2. /\ SidesToBridge => SidesToBridge'
        /\ SidesToClip => SidesToClip'
        /\ SidesMeshed => SidesMeshed'
    <3>1. \A h : Looped(h)' <=> Looped(h)
      BY <1>l, <2>1
    <3>2. /\ LoopKeys(merged)' = LoopKeys(merged) /\ LoopKeys(loop)' = LoopKeys(loop) /\ AllKeys' = AllKeys
          /\ \A h : LoopKeys(region.loops[h])' = LoopKeys(region.loops[h])
          /\ \A k : HasEdge(tris, k)' <=> HasEdge(tris, k)
      BY <2>1 DEF LoopKeys, Succ, HasEdge, AllKeys
    <3>3. SidesToBridge => SidesToBridge'
      BY <2>1, <3>1, <3>2 DEF SidesToBridge
    <3>4. SidesToClip => SidesToClip'
      BY <3>1, <3>2 DEF SidesToClip
    <3>5. SidesMeshed => SidesMeshed'
      BY <2>1, <3>1, <3>2 DEF SidesMeshed
    <3> QED
      BY <3>3, <3>4, <3>5
  <2> QED
    BY <1>t, <2>1, <2>2 DEF SidesInv
<1> QED
  BY <1>1, <1>2, <1>3, <1>4, <1>5, <1>6 DEF Next, Done

(* Every side of a loop that takes part is in the mesh: wherever ears are   *)
(* found to the last, it is the edge of a triangle.                         *)
SidesCovered ==
  pc \in {"mesh", "done"} /\ Len(loop) = 3 =>
    \A h \in DOMAIN region.loops : Len(region.loops[h]) >= 3 =>
      \A s \in LoopKeys(region.loops[h]) : HasEdge(tris, s)
(* No bridge, no ear, no flip and no insertion leaves a side of the region  *)
(* without a triangle, whatever its loops.                                  *)
THEOREM EverySideIsCovered == Spec => []SidesCovered
<1>1. Init => SidesInv
  <2> SUFFICES ASSUME Init PROVE SidesInv
    OBVIOUS
  <2>1. MeshTypeOK /\ PolygonOK
    BY MeshTypesBegin DEF MeshTypeOK
  <2>2. /\ pc = "bridge" /\ merged = region.loops[1]
        /\ holes = {h \in 2..Len(region.loops) : Len(region.loops[h]) >= 3}
    BY DEF Init
  <2>3. \A h \in DOMAIN region.loops : h = 1 \/ h \in 2..Len(region.loops)
    <3>1. region.loops \in Seq(Seq(Corners))
      BY <2>1, RegionOf DEF RegionIs, Corners
    <3> QED
      BY <3>1
  <2>4. SidesToBridge
    BY <2>2, <2>3 DEF SidesToBridge, Looped
  <2> QED
    BY <2>1, <2>2, <2>4 DEF SidesInv
<1>2. SidesInv => SidesCovered
  BY DEF SidesInv, SidesMeshed, SidesCovered, Looped
<1> QED
  BY <1>1, SidesInvStays, <1>2, PTL DEF Spec
==============================================================================
