----------------------------- MODULE PlanarBoolean -----------------------------
(***************************************************************************)
(* The boolean of two planar solids: each is a soup of oriented polygons,  *)
(* sorted into a BSP tree; the trees clip each other, in an order that     *)
(* depends on the operation; what is left of both is the result, out of    *)
(* which walls that seem to bound a slab of air are cancelled; and the     *)
(* native engine accepts the result if its volume is the right one.        *)
(*                                                                         *)
(* Polygons here are parallel to the axes and have integer corners: planes *)
(* cut them at integer points and arithmetic is exact.  A unit is more     *)
(* than the tolerance of near-coincidence, so walls are near-coincident    *)
(* only if they are in one plane.                                          *)
(***************************************************************************)
EXTENDS Integers, FiniteSets, SequencesExt

CONSTANT Pairs   \* the inputs: pairs of solids; a solid is a sequence of
                 \* polygons [ax, sign, pos, loop]: the plane of the points
                 \* whose coordinate ax is pos, outward where sign says, and
                 \* the corners, counterclockwise as seen from outside

Sides == {"A", "B"}
Other(s) == IF s = "A" THEN "B" ELSE "A"
Ops == {"fuse", "cut", "common"}

VARIABLES
  solid,     \* of each side
  op,
  pc,        \* the next step of the script, or a phase after it
  tree,      \* of each side: a tree is Null, or a node with its plane, the
             \* polygons in that plane, and the trees in front and behind
  soup,      \* the polygons of the result
  accepted   \* by the engine's check

vars == <<solid, op, pc, tree, soup, accepted>>

Null == <<>>
IsNull(t) == DOMAIN t = {}

------------------------------------------------------------------------------
(* splitPolygon.                                                            *)

Distance(plane, p) == plane.sign * (p[plane.ax] - plane.pos)
Flipped(p) == [p EXCEPT !.sign = -@, !.loop = Reverse(@)]
Succ(L, i) == L[(i % Len(L)) + 1]

Where(plane, p) ==
  LET d == {Distance(plane, p.loop[i]) : i \in DOMAIN p.loop}
  IN CASE \A x \in d : x = 0 -> "on"
       [] \A x \in d : x >= 0 -> "front"
       [] \A x \in d : x <= 0 -> "back"
       [] OTHER -> "across"
Agree(plane, p) == plane.sign = p.sign

(* The piece in front, for way = 1, or behind, for way = -1.                *)
Piece(plane, p, way) ==
  LET D(i) == way * Distance(plane, p.loop[i])
      J(i) == (i % Len(p.loop)) + 1
      Kept(i) == IF D(i) >= 0 THEN <<p.loop[i]>> ELSE <<>>
      Crossing(i) == IF (D(i) < 0 /\ D(J(i)) > 0) \/ (D(i) > 0 /\ D(J(i)) < 0)
                     THEN <<[p.loop[i] EXCEPT ![plane.ax] = plane.pos]>> ELSE <<>>
  IN [p EXCEPT !.loop = FlattenSeq([i \in DOMAIN p.loop |-> Kept(i) \o Crossing(i)])]

InFront(plane, p) ==
  CASE Where(plane, p) = "front" -> <<p>>
    [] Where(plane, p) = "across" -> <<Piece(plane, p, 1)>>
    [] OTHER -> <<>>
Behind(plane, p) ==
  CASE Where(plane, p) = "back" -> <<p>>
    [] Where(plane, p) = "across" -> <<Piece(plane, p, -1)>>
    [] OTHER -> <<>>
On(plane, p) == IF Where(plane, p) = "on" THEN <<p>> ELSE <<>>

Each(Op(_), polys) == FlattenSeq([i \in DOMAIN polys |-> Op(polys[i])])

------------------------------------------------------------------------------
(* Node.                                                                    *)

RECURSIVE Build(_, _)
Build(t, polys) ==
  IF polys = <<>> THEN t
  ELSE LET n == IF IsNull(t)
                THEN [plane |-> [polys[1] EXCEPT !.loop = <<>>], polys |-> <<>>,
                      front |-> Null, back |-> Null]
                ELSE t
       IN [n EXCEPT !.polys = @ \o Each(LAMBDA p : On(n.plane, p), polys),
                    !.front = Build(@, Each(LAMBDA p : InFront(n.plane, p), polys)),
                    !.back = Build(@, Each(LAMBDA p : Behind(n.plane, p), polys))]

(* A polygon in the plane of a node goes where its normal points.           *)
(* Mutant: in front, whatever its normal.                                   *)
CoplanarAlwaysFront(plane, p) == Where(plane, p) = "on"
CoplanarInFront(plane, p) == Where(plane, p) = "on" /\ Agree(plane, p)

RECURSIVE ClipPolygons(_, _)
ClipPolygons(t, polys) ==
  LET Ahead(p) == IF CoplanarInFront(t.plane, p) THEN <<p>> ELSE InFront(t.plane, p)
      Back(p) == IF Where(t.plane, p) = "on" /\ ~CoplanarInFront(t.plane, p)
                 THEN <<p>> ELSE Behind(t.plane, p)
      outside(u, ps) == IF IsNull(u) THEN ps ELSE ClipPolygons(u, ps)
  IN IF polys = <<>> THEN <<>>
     ELSE outside(t.front, Each(Ahead, polys))
          \o (IF IsNull(t.back) THEN <<>> ELSE ClipPolygons(t.back, Each(Back, polys)))

RECURSIVE ClipTo(_, _)
ClipTo(t, other) ==
  IF IsNull(t) THEN t
  ELSE [t EXCEPT !.polys = ClipPolygons(other, @),
                 !.front = ClipTo(@, other), !.back = ClipTo(@, other)]

(* Mutant: the subtrees stay where they are.                               *)
RECURSIVE InvertedInPlace(_)
InvertedInPlace(t) ==
  IF IsNull(t) THEN t
  ELSE [plane |-> [t.plane EXCEPT !.sign = -@],
        polys |-> [i \in DOMAIN t.polys |-> Flipped(t.polys[i])],
        front |-> InvertedInPlace(t.front), back |-> InvertedInPlace(t.back)]

RECURSIVE Inverted(_)
Inverted(t) ==
  IF IsNull(t) THEN t
  ELSE [plane |-> [t.plane EXCEPT !.sign = -@],
        polys |-> [i \in DOMAIN t.polys |-> Flipped(t.polys[i])],
        front |-> Inverted(t.back), back |-> Inverted(t.front)]

RECURSIVE AllPolygons(_)
AllPolygons(t) ==
  IF IsNull(t) THEN <<>> ELSE t.polys \o AllPolygons(t.front) \o AllPolygons(t.back)

------------------------------------------------------------------------------
(* cancelNearCoincidentWalls.                                               *)

U(ax) == (ax % 3) + 1
V(ax) == ((ax + 1) % 3) + 1
Coordinates(p, c) == {p.loop[i][c] : i \in DOMAIN p.loop}

(* Six times the signed volume: twice the area of each polygon, as its loop *)
(* runs, by its distance from the origin.                                   *)
TwiceArea(p) ==
  LET Term(i) == p.loop[i][U(p.ax)] * Succ(p.loop, i)[V(p.ax)]
                 - p.loop[i][V(p.ax)] * Succ(p.loop, i)[U(p.ax)]
  IN FoldLeft(LAMBDA n, i : n + Term(i), 0, [i \in DOMAIN p.loop |-> i])
Volume(polys) ==
  LET v == FoldLeft(LAMBDA n, p : n + p.pos * TwiceArea(p), 0, polys)
  IN IF v < 0 THEN -v ELSE v

(* The boxes of their loops touch.                                          *)
ProjectionsOverlap(p, q) ==
  \A c \in {U(p.ax), V(p.ax)} :
    \E x \in Coordinates(p, c), y \in Coordinates(q, c),
       x2 \in Coordinates(p, c), y2 \in Coordinates(q, c) : x <= y /\ y2 <= x2

IsAirSlabWallPair(p, q) ==
  p.ax = q.ax /\ p.sign = -q.sign /\ p.pos = q.pos /\ ProjectionsOverlap(p, q)

(* Each polygon with the first one after it that is still there.            *)
Dead(polys) ==
  FoldLeft(LAMBDA dead, i :
    LET twins == {j \in DOMAIN polys \ dead : j > i /\ IsAirSlabWallPair(polys[i], polys[j])}
    IN IF i \in dead \/ twins = {} THEN dead
       ELSE dead \cup {i, CHOOSE j \in twins : \A k \in twins : j <= k},
    {}, [i \in DOMAIN polys |-> i])

CancelWalls(polys) ==
  LET kept == SelectSeq([i \in DOMAIN polys |-> i], LAMBDA i : i \notin Dead(polys))
      reduced == [i \in DOMAIN kept |-> polys[kept[i]]]
      moved == Volume(reduced) - Volume(polys)
  IN IF 1000 * moved > Volume(polys) \/ -1000 * moved > Volume(polys) THEN polys ELSE reduced

------------------------------------------------------------------------------
(* booleanPolygons: the script of each operation.                           *)

Clip(s) == <<"clip", s>>
Invert(s) == <<"invert", s>>
Merge == <<"merge", "A">>

Script(o) ==
  CASE o = "fuse" ->
         <<Clip("A"), Clip("B"), Invert("B"), Clip("B"), Invert("B"), Merge>>
    [] o = "cut" ->
         <<Invert("A"), Clip("A"), Clip("B"), Invert("B"), Clip("B"), Invert("B"), Merge,
           Invert("A")>>
    [] o = "common" ->
         <<Invert("A"), Clip("B"), Invert("B"), Clip("A"), Clip("B"), Merge, Invert("A")>>

Run(step, trees) ==
  LET s == step[2]
  IN [trees EXCEPT ![s] =
        CASE step[1] = "clip" -> ClipTo(@, trees[Other(s)])
          [] step[1] = "invert" -> Inverted(@)
          [] step[1] = "merge" -> Build(@, AllPolygons(trees[Other(s)]))]

Trees == [s \in Sides |-> Build(Null, solid[s])]
Whole(o) == CancelWalls(AllPolygons(FoldLeft(LAMBDA t, step : Run(step, t), Trees, Script(o))["A"]))

Init ==
  /\ \E i \in Pairs : solid = [s \in Sides |-> IF s = "A" THEN i[1] ELSE i[2]]
  /\ op \in Ops
  /\ pc = 0 /\ tree = [s \in Sides |-> Null] /\ soup = <<>> /\ accepted = FALSE

Starts ==
  /\ pc = 0
  /\ tree' = Trees
  /\ pc' = 1
  /\ UNCHANGED <<solid, op, soup, accepted>>

(* One step of the script.                                                  *)
InScript == pc \in 1..Len(Script(op))
StepOf(kind) == InScript /\ Script(op)[pc][1] = kind
Advances ==
  /\ tree' = Run(Script(op)[pc], tree)
  /\ pc' = pc + 1
  /\ UNCHANGED <<solid, op, soup, accepted>>

Clips   == StepOf("clip") /\ Advances
Inverts == StepOf("invert") /\ Advances
Merges  == StepOf("merge") /\ Advances

Collected == Len(Script(op)) + 2
Checked == Collected + 1
Finished == Collected + 2

Collects ==
  /\ pc = Len(Script(op)) + 1
  /\ soup' = AllPolygons(tree["A"])
  /\ pc' = Collected
  /\ UNCHANGED <<solid, op, tree, accepted>>

Cancels ==
  /\ pc = Collected
  /\ soup' = CancelWalls(soup)
  /\ pc' = Checked
  /\ UNCHANGED <<solid, op, tree, accepted>>

------------------------------------------------------------------------------
(* The engine's check.                                                      *)

(* The sides of unit length that the loop of p runs along, each named by    *)
(* its lower end and its direction; one that it runs along twice is inside. *)
Along(a, b) ==
  LET c == CHOOSE x \in 1..3 : a[x] # b[x]
  IN {<<[a EXCEPT ![c] = n], c>> : n \in (a[c]..(b[c] - 1)) \cup (b[c]..(a[c] - 1))}
UnitSides(p) ==
  LET runs == [i \in {i \in DOMAIN p.loop : p.loop[i] # Succ(p.loop, i)} |->
                 Along(p.loop[i], Succ(p.loop, i))]
  IN {e \in UNION {runs[i] : i \in DOMAIN runs} :
        Cardinality({i \in DOMAIN runs : e \in runs[i]}) % 2 = 1}

(* Every side belongs to two polygons.  (assembleSolid inserts the corners  *)
(* that lie on a side in it, and triangulates each polygon for itself.)     *)
Watertight(polys) ==
  LET sides == [i \in DOMAIN polys |-> UnitSides(polys[i])]
  IN \A e \in UNION {sides[i] : i \in DOMAIN sides} :
       Cardinality({i \in DOMAIN sides : e \in sides[i]}) = 2

VolumeOrNothing(polys) == IF polys # <<>> /\ Watertight(polys) THEN Volume(polys) ELSE 0

(* What the volumes of the operands and of their common part let expect.    *)
(* Mutant: the common part is forgotten.                                    *)
ExpectedDisjoint ==
  CASE op = "fuse" -> Volume(solid["A"]) + Volume(solid["B"])
    [] op = "cut" -> Volume(solid["A"])
    [] op = "common" -> VolumeOrNothing(Whole("common"))
Expected ==
  LET va == Volume(solid["A"])
      vb == Volume(solid["B"])
      vc == VolumeOrNothing(Whole("common"))
  IN CASE op = "fuse" -> va + vb - vc [] op = "cut" -> va - vc [] op = "common" -> vc

(* Mutant: an open mesh that has the right volume is accepted.              *)
VolumeOnly == soup # <<>> /\ Expected > 0 /\ Volume(soup) = Expected
Verified == soup # <<>> /\ Watertight(soup) /\ Expected > 0 /\ Volume(soup) = Expected

Verifies ==
  /\ pc = Checked
  /\ accepted' = Verified
  /\ pc' = Finished
  /\ UNCHANGED <<solid, op, tree, soup>>

Done == pc = Finished /\ UNCHANGED vars

Next ==
  \/ Starts \/ Clips \/ Inverts \/ Merges
  \/ Collects \/ Cancels \/ Verifies
  \/ Done

Spec == Init /\ [][Next]_vars

------------------------------------------------------------------------------
(* Properties.                                                              *)

(* Space in unit cells, each named by its lowest corner; it is enough to    *)
(* look at one cell between any two planes of the operands.                 *)
Faces == {solid["A"][i] : i \in DOMAIN solid["A"]} \cup {solid["B"][i] : i \in DOMAIN solid["B"]}
Marks(c) == UNION {Coordinates(p, c) : p \in Faces}
Cells == {<<x, y, z>> : x \in Marks(1), y \in Marks(2), z \in Marks(3)}

(* The projection of the cell along ax is within the loop of p.             *)
Covers(p, c) ==
  LET Right(i) ==
        LET a == p.loop[i]
            b == Succ(p.loop, i)
            v == V(p.ax)
        IN /\ a[U(p.ax)] = b[U(p.ax)] /\ a[U(p.ax)] > c[U(p.ax)]
           /\ (a[v] <= c[v] /\ c[v] < b[v]) \/ (b[v] <= c[v] /\ c[v] < a[v])
  IN Cardinality({i \in DOMAIN p.loop : Right(i)}) % 2 = 1

InSolid(s, c) ==
  Cardinality({i \in DOMAIN solid[s] :
    solid[s][i].ax = 1 /\ solid[s][i].pos > c[1] /\ Covers(solid[s][i], c)}) % 2 = 1

Wanted(c) ==
  CASE op = "fuse" -> InSolid("A", c) \/ InSolid("B", c)
    [] op = "cut" -> InSolid("A", c) /\ ~InSolid("B", c)
    [] op = "common" -> InSolid("A", c) /\ InSolid("B", c)

(* The polygons are the boundary of the boolean: the face between two cells *)
(* is covered once, and outward, if one is in it and the other is not, and  *)
(* not at all otherwise.                                                    *)
IsBoundary(polys) ==
  LET Layers(ax, sign, c) ==
        Cardinality({i \in DOMAIN polys :
          /\ polys[i].ax = ax /\ polys[i].sign = sign /\ polys[i].pos = c[ax]
          /\ Covers(polys[i], c)})
  IN /\ \A i \in DOMAIN polys : polys[i].sign * TwiceArea(polys[i]) >= 0
     /\ \A c \in Cells, ax \in 1..3 :
          LET below == Wanted([c EXCEPT ![ax] = @ - 1])
              above == Wanted(c)
          IN /\ Layers(ax, 1, c) = IF below /\ ~above THEN 1 ELSE 0
             /\ Layers(ax, -1, c) = IF above /\ ~below THEN 1 ELSE 0

(* Where a tree puts a cell.                                                *)
RECURSIVE InTree(_, _)
InTree(t, c) ==
  LET front == (t.plane.sign = 1) = (c[t.plane.ax] >= t.plane.pos)
      next == IF front THEN t.front ELSE t.back
  IN IF IsNull(next) THEN ~front ELSE InTree(next, c)

(* Until the trees are merged each tells the inside of its solid from the   *)
(* outside, or the other way about while it is inverted: that is what the   *)
(* polygons of the other solid are clipped by.                              *)
IsInverted(s) ==
  Cardinality({k \in 1..(pc - 1) : Script(op)[k] = Invert(s)}) % 2 = 1
TreesKnowTheirSolids ==
  InScript /\ (\A k \in 1..(pc - 1) : Script(op)[k] # Merge) =>
    \A s \in Sides, c \in Cells : InTree(tree[s], c) <=> (InSolid(s, c) # IsInverted(s))

(* What the trees leave is exactly the boundary of the boolean, however the *)
(* two solids share planes, edges and corners.                              *)
TreesLeaveTheBoundary == pc = Collected => IsBoundary(soup)

(* A result that the engine accepts is the boundary, whatever was cancelled.*)
AcceptedIsExact == accepted => IsBoundary(soup)

(* Solids without a plane in common: the engine has its answer, unless it   *)
(* is empty.                                                                *)
Planes(s, ax) == {solid[s][i].pos : i \in {i \in DOMAIN solid[s] : solid[s][i].ax = ax}}
ProperPairsAreAnswered ==
  pc = Finished
  /\ (\A ax \in 1..3 : Planes("A", ax) \cap Planes("B", ax) = {})
  /\ (\E c \in Cells : Wanted(c))
    => accepted

(* What bsp.h promises (refuted, see README): walls are cancelled only if   *)
(* they bound a slab of air, and here there is none.  Solids that only      *)
(* touch along an edge or at a corner are left out.                         *)
Meet ==
  \E c \in Cells, ax \in 1..3 :
    LET below == [c EXCEPT ![ax] = @ - 1] IN
    \/ InSolid("A", c) /\ (InSolid("B", c) \/ InSolid("B", below))
    \/ InSolid("A", below) /\ InSolid("B", c)
OnlyAirIsCancelled == pc >= Checked /\ Meet => IsBoundary(soup)
==============================================================================
