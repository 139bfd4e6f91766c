------------------------------ MODULE HealShell ------------------------------
(***************************************************************************)
(* healShell: a soup of planar faces is cleaned, its corners are unified   *)
(* within a tolerance, its sides are shared, near misses are bridged and   *)
(* planar holes capped if the caller opted in, its faces are wound alike;  *)
(* what verifies is a solid, and what does not is handed back.             *)
(*                                                                         *)
(* A corner is <<label, offset>>.  Labels are the true vertices of the     *)
(* solid, far apart, each at a point of the integer lattice; an offset is  *)
(* the error, along one line, with which a face carries its copy of the    *)
(* vertex.  The faces of the inputs are triangles, or become triangles, so *)
(* that a face has no area only if two of its corners coincide.  A face    *)
(* that a pass drops stays in its place without corners.                   *)
(***************************************************************************)
EXTENDS Integers, FiniteSets, SequencesExt, Totals

CONSTANTS
  Soups,      \* the inputs: sequences of faces, a face a sequence of corners
  Options,    \* of the caller: [budget, capOne, capAll]
  Position,   \* the lattice point of each label
  Tolerance,  \* opts.tolerance, in units of the offsets
  Feature     \* a quarter of the shortest side: the cap of a bridged gap

(* A tolerance that is not positive is replaced by one that is, and a side  *)
(* has a length.                                                            *)
ASSUME SoupsAssumption ==
  /\ Position \in [DOMAIN Position -> [1..3 -> Int]]
  /\ Soups \subseteq Seq(Seq((DOMAIN Position) \X Int))
  /\ Options \subseteq [budget : Nat, capOne : BOOLEAN, capAll : BOOLEAN]
  /\ Tolerance \in Nat \ {0} /\ Feature \in Nat \ {0}

VARIABLES
  soup, opts,  \* the call
  phase,       \* the pass to come, or "done"
  working,     \* the working soup
  shell,       \* the loops of shared vertex nodes that sew makes of it
  reversed,    \* of each face of shell
  reached,     \* the faces that it has visited
  verdict, residual

healVars == <<soup, opts, phase, working, shell, reversed, reached, verdict, residual>>

HealInit ==
  /\ soup \in Soups /\ opts \in Options
  /\ phase = "clean"
  /\ working = <<>> /\ shell = <<>> /\ reversed = <<>> /\ reached = {}
  /\ verdict = "none" /\ residual = 0

Abs(x) == IF x < 0 THEN -x ELSE x
Lesser(a, b) == IF a <= b THEN a ELSE b
Near(p, q, d) == p[1] = q[1] /\ Abs(p[2] - q[2]) <= d
NextOf(L, i) == L[(i % Len(L)) + 1]

(* The faces that have not been dropped; the places of corners, by face and *)
(* by place in the face, which is the order in which the passes meet them.  *)
Faces(loops) == {f \in DOMAIN loops : loops[f] # <<>>}
Refs(loops) == UNION {{<<f, i>> : i \in DOMAIN loops[f]} : f \in DOMAIN loops}
CornerAt(loops, c) == loops[c[1]][c[2]]
Sooner(c, d) == c[1] < d[1] \/ (c[1] = d[1] /\ c[2] < d[2])

(* An answer: unhealed for a reason, or healed.                             *)
Answer(s, r) == verdict' = s /\ residual' = r /\ phase' = "done"
Proceed(pass) == phase' = pass /\ UNCHANGED <<verdict, residual>>

------------------------------------------------------------------------------
(* removeDegenerate: sides of no length, then faces that have lost a corner.*)

(* A loop without the corners that are within d of the last one kept, and   *)
(* without a tail that is within d of the first.                            *)
KeptUpTo(L, d) ==
  LET out[i \in 0..Len(L)] ==
        IF i = 0 THEN <<>>
        ELSE LET kept == out[i - 1]
             IN IF kept # <<>> /\ Near(kept[Len(kept)], L[i], d) THEN kept ELSE Append(kept, L[i])
  IN out
Collapsed(L, d) ==
  LET all == KeptUpTo(L, d)[Len(L)]
      apart == {m \in DOMAIN all : m = 1 \/ ~Near(all[1], all[m], d)}
  IN IF all = <<>> THEN <<>> ELSE SubSeq(all, 1, CHOOSE m \in apart : \A k \in apart : k <= m)

Kept(L) == IF Len(L) >= 3 THEN L ELSE <<>>
RemoveDegenerate(faces) == [f \in DOMAIN faces |-> Kept(Collapsed(faces[f], Tolerance))]

Clean ==
  /\ phase = "clean"
  /\ working' = RemoveDegenerate(soup)
  /\ IF Len(soup) < 4 \/ Cardinality(Faces(working')) < 4
     THEN Answer("OpenShell", 0) ELSE Proceed("sew")
  /\ UNCHANGED <<soup, opts, shell, reversed, reached>>

------------------------------------------------------------------------------
(* vertexFor: the representatives so far, one in a cell; a point takes the  *)
(* nearest one of its cell and of the neighbouring cells if it is within    *)
(* the tolerance, and becomes one itself otherwise.                         *)

CellOf(p) ==
  LET half == 2 * Abs(p[2]) + Tolerance
  IN IF p[2] >= 0 THEN half \div (2 * Tolerance) ELSE -(half \div (2 * Tolerance))

(* Mutants: no distance test; the point's own cell only.                    *)
AnyNeighbour(r, p) == r[1] = p[1] /\ Abs(CellOf(r) - CellOf(p)) <= 1
OwnCellOnly(r, p) == Near(r, p, Tolerance) /\ CellOf(r) = CellOf(p)
Joins(r, p) == Near(r, p, Tolerance) /\ Abs(CellOf(r) - CellOf(p)) <= 1

(* Of two at one distance, the one in the later cell.                       *)
Representative(reps, p) ==
  CHOOSE r \in reps : \A q \in reps :
    \/ Abs(r[2] - p[2]) < Abs(q[2] - p[2])
    \/ Abs(r[2] - p[2]) = Abs(q[2] - p[2]) /\ r[2] >= q[2]

(* The node of each corner: sew asks for them in order, and a corner that   *)
(* no representative before it joins is one, and its own node.              *)
Unified(faces) ==
  LET joined == [c \in Refs(faces) |-> {d \in Refs(faces) :
                   Sooner(d, c) /\ Joins(CornerAt(faces, d), CornerAt(faces, c))}]
      isRep[c \in Refs(faces)] == \A d \in joined[c] : ~isRep[d]
      reps(c) == {CornerAt(faces, d) : d \in {d \in joined[c] : isRep[d]}}
  IN [c \in Refs(faces) |->
        IF reps(c) = {} THEN CornerAt(faces, c) ELSE Representative(reps(c), CornerAt(faces, c))]

(* sew: nodes for corners, faces that keep three of them when consecutive   *)
(* corners of one node are one.                                             *)
NodeLoops(faces) ==
  LET node == Unified(faces)
  IN [f \in DOMAIN faces |-> Kept(Collapsed([i \in DOMAIN faces[f] |-> node[<<f, i>>]], 0))]

(* How often a pair of nodes is a side, and the sides used once.            *)
Side(loops, c) == {CornerAt(loops, c), NextOf(loops[c[1]], c[2])}
Sides(loops) == {Side(loops, c) : c \in Refs(loops)}
On(loops, e) == {c \in Refs(loops) : Side(loops, c) = e}
Uses(loops, e) == Cardinality(On(loops, e))
Boundary(loops) == {e \in Sides(loops) : Uses(loops, e) = 1}
Open(loops) == Boundary(loops) # {}

(* The distance of two corners; another label is at least a side away.      *)
Distance(p, q) == IF p[1] = q[1] THEN Abs(p[2] - q[2]) ELSE 4 * Feature

(* The largest distance from a corner without a partner to its nearest      *)
(* other corner.                                                            *)
ResidualGap(faces) ==
  LET Gaps(c) == {Distance(CornerAt(faces, c), CornerAt(faces, d)) : d \in Refs(faces) \ {c}}
      Nearest(c) == CHOOSE g \in Gaps(c) : \A h \in Gaps(c) : g <= h
      unpaired == {Nearest(c) : c \in Refs(faces)} \ (0..Tolerance)
  IN IF unpaired = {} THEN 0 ELSE CHOOSE g \in unpaired : \A h \in unpaired : h <= g

Sew ==
  /\ phase = "sew"
  /\ shell' = NodeLoops(working)
  /\ IF Cardinality(Faces(shell')) < 4
     THEN Answer("OpenShell", IF Open(shell') THEN ResidualGap(working) ELSE 0)
     ELSE Proceed(IF Open(shell') /\ opts.budget > 0 THEN "bridge" ELSE "cap")
  /\ UNCHANGED <<soup, opts, working, reversed, reached>>

------------------------------------------------------------------------------
(* bridgeGaps: decided for every corner on the soup as it is.               *)

Others(faces, c) == {d \in Refs(faces) : d[1] # c[1]}
IsPaired(faces, c) ==
  \E d \in Others(faces, c) : Near(CornerAt(faces, d), CornerAt(faces, c), Tolerance)

(* The nearest corner of another face, the earliest of those equally near.  *)
NearestCrossFace(faces, c) ==
  LET Dist(d) == Distance(CornerAt(faces, d), CornerAt(faces, c))
  IN CHOOSE d \in Others(faces, c) : \A e \in Others(faces, c) :
       Dist(d) < Dist(e) \/ (Dist(d) = Dist(e) /\ ~Sooner(e, d))

(* Mutant: the whole budget, whatever the size of the features.             *)
BudgetOnly == opts.budget
EffectiveBound == Lesser(opts.budget, Feature)

(* Onto a corner that has its partner, or half way to one that has not.     *)
Snapped(faces, c) ==
  LET p == CornerAt(faces, c)
      d == NearestCrossFace(faces, c)
      q == CornerAt(faces, d)
      gap == Distance(p, q)
  IN IF IsPaired(faces, c) \/ Others(faces, c) = {} THEN p
     ELSE IF gap <= Tolerance \/ gap > EffectiveBound THEN p
     ELSE IF IsPaired(faces, d) THEN q
     ELSE IF NearestCrossFace(faces, d) = c THEN <<p[1], (p[2] + q[2]) \div 2>>
     ELSE p

BridgeGaps(faces) ==
  [f \in DOMAIN faces |-> [i \in DOMAIN faces[f] |-> Snapped(faces, <<f, i>>)]]

BridgesGaps ==
  /\ phase = "bridge"
  /\ working' = BridgeGaps(working)
  /\ shell' = NodeLoops(working')
  /\ Proceed("cap")
  /\ UNCHANGED <<soup, opts, reversed, reached>>

------------------------------------------------------------------------------
(* capPlanarHole and capAllPlanarHoles.                                     *)

Det(p, q, r) ==
    p[1] * (q[2] * r[3] - q[3] * r[2])
  - p[2] * (q[1] * r[3] - q[3] * r[1])
  + p[3] * (q[1] * r[2] - q[2] * r[1])
At(v) == Position[v[1]]
From(p, q) == [i \in 1..3 |-> q[i] - p[i]]

(* Whether true vertices are in one plane.  The holes of the inputs are     *)
(* small enough to be simple polygons.                                      *)
InOnePlane(S) ==
  \A p, q, r, s \in S : Det(From(At(p), At(q)), From(At(p), At(r)), From(At(p), At(s))) = 0

(* The passes look at the nodes themselves.  Three are in one plane, and so *)
(* are nodes without error whose vertices are; nodes with errors, whose     *)
(* vertices are, may be or not, within the tolerance; others are not.       *)
IsTriangle(S) == \E p, q, r \in S : S = {p, q, r}
SurelyFlat(S) == InOnePlane(S) /\ (IsTriangle(S) \/ \A v \in S : v[2] = 0)

(* A boundary of which each node has two sides is made of rings: a walk     *)
(* from v goes on to a neighbour where it has not been.                     *)
Ends(es) == UNION es
Incident(es, v) == {e \in es : v \in e}
Onward(es, L) == {u \in Ends(Incident(es, L[Len(L)])) : \A i \in DOMAIN L : L[i] # u}
Walk(es, v) ==
  LET walk[n \in 0..Cardinality(Ends(es))] ==
        IF n = 0 THEN <<v>>
        ELSE LET L == walk[n - 1]
             IN IF Onward(es, L) = {} THEN L ELSE Append(L, CHOOSE u \in Onward(es, L) : TRUE)
  IN walk
Ring(es, v) == Walk(es, v)[Cardinality(Ends(es))]
Met(L) == {L[i] : i \in DOMAIN L}

(* One ring from one node of each; none if a node has more than two sides.  *)
Rings(es) ==
  IF \E v \in Ends(es) : Cardinality(Incident(es, v)) # 2 THEN {}
  ELSE {Ring(es, v) : v \in {v \in Ends(es) : v = CHOOSE u \in Met(Ring(es, v)) : TRUE}}

(* What may be appended: the caps of all the rings, or none; and none for a *)
(* caller that opted for one hole if there are two.                         *)
Caps(es) ==
  LET allowed == opts.capAll \/ Cardinality(Rings(es)) = 1
      may  == allowed /\ \A L \in Rings(es) : InOnePlane(Met(L))
      must == allowed /\ \A L \in Rings(es) : SurelyFlat(Met(L))
  IN (IF may THEN {SetToSeq(Rings(es))} ELSE {}) \cup (IF must THEN {} ELSE {<<>>})

(* Still open after that: unhealed.                                         *)
Cap ==
  /\ phase = "cap"
  /\ \E caps \in IF opts.capAll \/ opts.capOne THEN Caps(Boundary(shell)) ELSE {<<>>} :
       working' = working \o caps
  /\ shell' = NodeLoops(working')
  /\ reversed' = [f \in DOMAIN shell' |-> FALSE]
  /\ LET gap == ResidualGap(working')
     IN IF ~Open(shell') THEN Proceed("orient")
        ELSE IF gap <= Tolerance THEN Answer("OpenShell", gap)
        ELSE Answer(IF opts.budget > 0 THEN "GapBeyondBudget" ELSE "GapBeyondTolerance", gap)
  /\ UNCHANGED <<soup, opts, reached>>

------------------------------------------------------------------------------
(* makeConsistent: from each face not yet visited, over every shared side,  *)
(* reversing the neighbour that runs the side in the same direction.        *)

(* How a face runs the side at c, reversed or not.                          *)
Run(c, rev) ==
  LET a == CornerAt(shell, c)
      b == NextOf(shell[c[1]], c[2])
  IN IF rev[c[1]] THEN <<b, a>> ELSE <<a, b>>

SidesOf(f) == {Side(shell, <<f, i>>) : i \in DOMAIN shell[f]}
Shared(f, g) == {i \in DOMAIN shell[f] : Side(shell, <<f, i>>) \in SidesOf(g)}
RunsAlong(f, g, rev) ==
  LET i == CHOOSE i \in Shared(f, g) : \A k \in Shared(f, g) : i <= k
  IN \E k \in DOMAIN shell[g] : Run(<<g, k>>, rev) = Run(<<f, i>>, rev)

(* Mutant: the neighbour's side is compared as it was before any reversal.  *)
StaleConflict(f, g) == RunsAlong(f, g, [h \in DOMAIN shell |-> FALSE])
Conflict(f, g) == RunsAlong(f, g, reversed)

(* The faces on the stack that have such neighbours are those reached that  *)
(* have them; a visit that finds none is left out.                          *)
Unreached == Faces(shell) \ reached
Fresh(f) == {g \in Unreached \ {f} : Shared(f, g) # {}}
Frontier == {f \in reached : Fresh(f) # {}}
Turn == IF Frontier # {} THEN Frontier ELSE {f \in Unreached : \A g \in Unreached : f <= g}

MakeConsistent ==
  /\ phase = "orient" /\ Unreached # {}
  /\ \E f \in Turn :
       /\ reversed' = [g \in DOMAIN shell |->
                         IF g \in Fresh(f) /\ Conflict(f, g) THEN ~reversed[g] ELSE reversed[g]]
       /\ reached' = reached \cup {f} \cup Fresh(f)
  /\ UNCHANGED <<soup, opts, phase, working, shell, verdict, residual>>

------------------------------------------------------------------------------
(* verify, on the assembled solid.                                          *)

Watertight == Cardinality(Faces(shell)) >= 4 /\ \A e \in Sides(shell) : Uses(shell, e) = 2

(* Six times the signed volume over a set of faces, fanned from the first   *)
(* corner.                                                                  *)
Volume(fs, rev) ==
  LET Fan(f, i) == Det(At(shell[f][1]), At(shell[f][i]), At(shell[f][i + 1]))
      Cone(f) == Total([i \in 1..(Len(shell[f]) - 1) |-> Fan(f, i)])
      Part(f) == IF f \notin fs THEN 0 ELSE IF rev[f] THEN -Cone(f) ELSE Cone(f)
  IN Total([f \in DOMAIN shell |-> Part(f)])

(* An inward shell is reversed as a whole and verified again.               *)
Verify ==
  /\ phase = "orient" /\ Unreached = {}
  /\ reversed' = IF Watertight /\ Volume(Faces(shell), reversed) < 0
                 THEN [f \in DOMAIN shell |-> ~reversed[f]] ELSE reversed
  /\ IF Watertight /\ Volume(Faces(shell), reversed') > 0
     THEN Answer("Healed", 0) ELSE Answer("SelfVerifyFailed", 0)
  /\ UNCHANGED <<soup, opts, working, shell, reached>>

HealDone == phase = "done" /\ UNCHANGED healVars

HealNext ==
  \/ Clean \/ Sew \/ BridgesGaps \/ Cap
  \/ MakeConsistent \/ Verify
  \/ HealDone

HealSpec == HealInit /\ [][HealNext]_healVars

------------------------------------------------------------------------------
(* Properties.                                                              *)

Healed == phase = "done" /\ verdict = "Healed"

(* A healed shell is closed and wound one way: every side is run twice, and *)
(* in both directions, though verify counts its uses only.  A soup that     *)
(* crosses itself may be wound one way by no choice of reversals, and       *)
(* verify would not tell.                                                   *)
WindsOneWay(rev) == \A c, d \in Refs(shell) : c # d => Run(c, rev) # Run(d, rev)
Orientable == \E rev \in [DOMAIN shell -> BOOLEAN] : WindsOneWay(rev)
Against(c, d, rev) == Run(d, rev) = <<Run(c, rev)[2], Run(c, rev)[1]>>
HealedIsOriented ==
  Healed =>
    \/ \A e \in Sides(shell) : \E c, d \in On(shell, e) :
         c # d /\ On(shell, e) = {c, d} /\ Against(c, d, reversed)
    \/ ~Orientable

(* Whatever the passes do, they move no corner further than a bridge and    *)
(* the tolerance allow.                                                     *)
HealedStaysNear ==
  LET given == RemoveDegenerate(soup)
      node == Unified(working)
  IN phase \in {"cap", "done"} => \A c \in Refs(given) :
       Near(node[c], CornerAt(given, c), Tolerance + Lesser(opts.budget, Feature))

(* The soup as it would be without errors.  Two copies that err by half the *)
(* tolerance, on either side of the true vertex, round to cells two apart,  *)
(* and vertexFor does not join them: the one case in which copies within    *)
(* the tolerance of each other do not become one node.                      *)
True(faces) == [f \in DOMAIN faces |-> [i \in DOMAIN faces[f] |-> <<faces[f][i][1], 0>>]]
RoundedApart(p, q) == q[2] = -p[2] /\ 2 * Abs(p[2]) = Tolerance
Tight(faces) ==
  \A c, d \in Refs(faces) : CornerAt(faces, c)[1] = CornerAt(faces, d)[1] =>
    /\ Near(CornerAt(faces, c), CornerAt(faces, d), Tolerance)
    /\ ~RoundedApart(CornerAt(faces, c), CornerAt(faces, d))

(* The holes that a boundary bounds: the least sets of nodes that no side   *)
(* leaves.                                                                  *)
Whole(es, S) == \A e \in es : e \cap S = {} \/ e \subseteq S
Holes(es) ==
  {S \in SUBSET Ends(es) :
     S # {} /\ Whole(es, S) /\ \A T \in SUBSET S : T = {} \/ T = S \/ ~Whole(es, T)}

(* What the caller's options allow to be mended, whatever the errors: the   *)
(* corners at a hole of more than three vertices carry none.                *)
Sharp(faces, S) ==
  \A c \in Refs(faces) : <<CornerAt(faces, c)[1], 0>> \in S => CornerAt(faces, c)[2] = 0
Cappable(faces, es) ==
  /\ \A v \in Ends(es) : Cardinality(Incident(es, v)) = 2
  /\ \A S \in Holes(es) : InOnePlane(S) /\ (IsTriangle(S) \/ Sharp(faces, S))
  /\ opts.capAll \/ (opts.capOne /\ Holes(es) = {Ends(es)})
Mendable ==
  LET given == RemoveDegenerate(soup)
      loops == True(given)
      gaps == Boundary(loops)
  IN /\ Tight(soup) /\ Cardinality(Faces(loops)) >= 4
     /\ \A e \in Sides(loops) : Uses(loops, e) <= 2
     /\ gaps = {} \/ Cappable(given, gaps)

(* A soup whose copies of each vertex lie within the tolerance of each      *)
(* other is healed if it is closed, or if the caller opted for its holes    *)
(* and they are planar (of three corners, or of corners without error),     *)
(* whichever faces are wound the wrong way; unless what it bounds has no    *)
(* volume.                                                                  *)
TightSoupsHeal ==
  phase = "done" /\ Mendable =>
    verdict = "Healed" \/ (verdict = "SelfVerifyFailed" /\ Volume(Faces(shell), reversed) = 0)

(* The parts of a shell between which no side is shared.                    *)
SidesIn(loops, S) == {Side(loops, c) : c \in {c \in Refs(loops) : c[1] \in S}}
Separate(loops, S) == SidesIn(loops, S) \cap SidesIn(loops, DOMAIN loops \ S) = {}
Parts(loops) == {S \in SUBSET Faces(loops) : S # {} /\ Separate(loops, S)}

(* What orient.h and the metrics promise (refuted, see README): a healed    *)
(* soup is wound outward, each connected part of it.                        *)
HealedIsOutward == Healed => \A S \in Parts(shell) : Volume(S, reversed) > 0
=============================================================================
