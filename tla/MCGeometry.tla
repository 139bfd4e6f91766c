------------------------------ MODULE MCGeometry ------------------------------
(***************************************************************************)
(* The inputs on which the geometry modules are checked.  Machines selects *)
(* which of them runs; the variables of the others keep one value.         *)
(***************************************************************************)
EXTENDS UvTriangulate, StepAssembly, HealShell, TLC

CONSTANT Machines

VARIABLES
  machine,
  operands, trimOp, trimPc, crosses, nodes, visited, start, cur, fuel, poly, polys,
  trimStatus, results,
  solid, planarOp, planarPc, tree, planarSoup, accepted,
  splines, origins, edits, torn, spoilt, refused

------------------------------------------------------------------------------
(* Trimmed regions.  The unit holds the grid's 13 parts and crossings at    *)
(* its quarters.                                                            *)

Unit == 52
Pt(u, v) == <<Unit * u, Unit * v>>
Rect(a, b, c, d) == <<Pt(a, b), Pt(c, b), Pt(c, d), Pt(a, d)>>
Clockwise(a, b, c, d) == <<Pt(a, b), Pt(a, d), Pt(c, d), Pt(c, b)>>
Diamond(u, v, r) == <<Pt(u - r, v), Pt(u, v - r), Pt(u + r, v), Pt(u, v + r)>>
Frame(n, a, b) == <<Rect(0, 0, n, n), Clockwise(a, a, b, b)>>
Clamp(w, h, t) == <<Pt(0, 0), Pt(w, 0), Pt(w, t), Pt(t, t),
                    Pt(t, h - t), Pt(w, h - t), Pt(w, h), Pt(0, h)>>
Moved(r, du, dv) ==
  [i \in DOMAIN r |-> [e \in DOMAIN r[i] |-> <<r[i][e][1] + Unit * du, r[i][e][2] + Unit * dv>>]]

Outlines ==
  {<<Rect(0, 0, 6, 6)>>, Frame(8, 2, 6), Frame(8, 1, 4), <<Diamond(4, 4, 4)>>,
   <<Diamond(4, 4, 4), Clockwise(3, 3, 5, 5)>>, <<Clamp(6, 8, 2)>>, <<Rect(0, 0, 16, 16)>>}
Offsets == {-3, 0, 2}

MCInputs == {<<a, Moved(b, du, dv)>> : a, b \in Outlines, du, dv \in Offsets}
MCProbes == {<<Unit * i + 13, Unit * j + 23>> : i, j \in -3..18}

------------------------------------------------------------------------------
(* Soups: a tetrahedron whose faces disagree about a corner, an octahedron  *)
(* with holes, a bowl, two tetrahedra apart, and degenerate faces.          *)

MCPosition ==
  [a |-> <<0, 0, 0>>, b |-> <<4, 0, 0>>, c |-> <<0, 4, 0>>, d |-> <<0, 0, 4>>,
   e |-> <<9, 0, 0>>, f |-> <<11, 0, 0>>, g |-> <<9, 2, 0>>, h |-> <<9, 0, 2>>,
   u |-> <<3, 0, 0>>, v |-> <<-3, 0, 0>>, w |-> <<0, 3, 0>>,
   x |-> <<0, -3, 0>>, y |-> <<0, 0, 3>>, z |-> <<0, 0, -3>>]

Tetra(p, q, r, s) == <<<<p, r, q>>, <<p, q, s>>, <<p, s, r>>, <<q, r, s>>>>
Octa == <<<<"u", "w", "y">>, <<"w", "v", "y">>, <<"v", "x", "y">>, <<"x", "u", "y">>,
          <<"w", "u", "z">>, <<"v", "w", "z">>, <<"x", "v", "z">>, <<"u", "x", "z">>>>
First == Tetra("a", "b", "c", "d")
Pair == First \o Tetra("e", "f", "g", "h")

Flipped(faces, S) == [f \in DOMAIN faces |-> IF f \in S THEN Reverse(faces[f]) ELSE faces[f]]
Without(faces, S) ==
  LET left == SelectSeq([f \in DOMAIN faces |-> f], LAMBDA f : f \notin S)
  IN [n \in DOMAIN left |-> faces[left[n]]]
Exact(faces) == [f \in DOMAIN faces |-> [i \in DOMAIN faces[f] |-> <<faces[f][i], 0>>]]
Shaken(faces, j) ==
  [f \in DOMAIN faces |-> [i \in DOMAIN faces[f] |->
     <<faces[f][i], IF faces[f][i] = "a" THEN j[f] ELSE 0>>]]

MCSoups ==
       {Shaken(Flipped(First, S), j) :
          S \in {{}, {1}, {2, 3}, 1..4}, j \in [1..3 -> {-8, 0, 10, 14}]}
  \cup {Exact(Without(Flipped(Octa, F), S)) :
          F \in {{}, {2, 5}, {1, 3, 8}},
          S \in {S \in SUBSET (1..8) : Cardinality(S) <= 2}}
  \cup {Exact(Without(Flipped(Pair, F), S)) :
          F \in SUBSET {1, 2, 5} \cup {1..4, 5..8}, S \in {{}, {3}, {7}, {3, 7}}}
  \cup {Append(Exact(First), L) :
          L \in {<<<<"a", 0>>, <<"a", 8>>, <<"b", 0>>>>, <<<<"b", 0>>, <<"c", 0>>, <<"d", 0>>>>}}
  \cup {Without(Shaken(First, j), {1}) : j \in [1..3 -> {-8, 0, 10, 14}]}
  \cup {[Exact(Without(Octa, 1..4)) EXCEPT ![1] = <<<<"w", 0>>, <<"u", e>>, <<"z", 0>>>>] : e \in {0, 8}}
  \cup {[Exact(First) EXCEPT ![2] = <<<<"a", 0>>, <<"a", 6>>, <<"b", 0>>, <<"d", 0>>>>]}
MCOptions == {o \in [budget : {0, 30}, capOne : BOOLEAN, capAll : BOOLEAN] : ~o.capOne \/ ~o.capAll}

------------------------------------------------------------------------------
(* Files: r1 lists a solid and r2 one or two, s is a subassembly, t the root.*)

MCClass == [p |-> "conformal", q |-> "conformal", m |-> "mirror", x |-> "bad"]
Rel(c, p, o, k) == [child |-> c, parent |-> p, op |-> o, cdsr |-> k]
Rels(cs, ps) ==
       {Rel(c, p, o, TRUE) : c \in cs, p \in ps, o \in {"p", "m", "x", "none"}}
  \cup {Rel(c, p, "none", FALSE) : c \in cs, p \in ps}
Items(a, b, s) == [r1 |-> a, r2 |-> b, s |-> s, t |-> {}]
FormAFiles(items, rels, un) ==
  [items : items, rels : rels, mapped : {<<>>}, loneMap : {FALSE}, usage : {TRUE}, unmappable : un]
Map(r, o) == [rep |-> r, op |-> o]

MCFiles ==
       FormAFiles({Items({1}, {2}, {})},
             Rels({"r1"}, {"s", "t"}) \X Rels({"r2", "s"}, {"s", "t"}) \X Rels({"s", "t"}, {"r1", "t", "s"}),
             {{}})
  \cup FormAFiles({Items({1}, b, {3}) : b \in {{1}, {2}}},
             {<<x, y, x>> : x \in Rels({"r1"}, {"s", "t"}), y \in Rels({"r2", "s"}, {"s", "t"})},
             {{}})
  \cup FormAFiles({Items({1}, b, c) : b \in {{2, 3}, {1, 2}}, c \in {{}, {3}}},
             Rels({"r1"}, {"s"}) \X Rels({"r2", "s"}, {"t"}),
             {{}})
  \cup FormAFiles({Items({1}, {2}, {})},
             {<<Rel("r1", "s", "p", TRUE), Rel("r2", "s", "m", TRUE),
                Rel("s", "t", o, TRUE), Rel("s", r, q, TRUE)>> : o, q \in {"m", "q"}, r \in {"t", "r1"}},
             SUBSET {1})
  \cup [items : {Items(a, {2}, {}) : a \in {{1}, {2}, {1, 3}}},
        rels : {<<>>} \cup {<<x>> : x \in Rels({"r1", "s"}, {"t"})},
        mapped : {<<>>}
            \cup {<<Map(r, o)>> : r \in {"r1", "r2", "s"}, o \in {"p", "m", "x"}}
            \cup {<<Map(r, o), Map("r2", "q")>> : r \in {"r1", "s"}, o \in {"p", "m", "x"}},
        loneMap : BOOLEAN, usage : BOOLEAN, unmappable : {{}}]

------------------------------------------------------------------------------
(* Solids: prisms over a box or an L, pairwise apart, touching, flush,      *)
(* crossing or one inside the other, along each axis.                       *)

Polygon(ax, sign, corners) == [ax |-> ax, sign |-> sign, pos |-> corners[1][ax], loop |-> corners]
Sign(x) == IF x > 0 THEN 1 ELSE -1
Prism(profile, z) ==
  LET Lift(h) == [i \in DOMAIN profile |-> <<profile[i][1], profile[i][2], h>>]
      Wall(i) ==
        LET p == profile[i]
            q == profile[(i % Len(profile)) + 1]
            sides == <<Lift(z[1])[i], <<q[1], q[2], z[1]>>, <<q[1], q[2], z[2]>>, Lift(z[2])[i]>>
        IN IF p[1] = q[1] THEN Polygon(1, Sign(q[2] - p[2]), sides)
           ELSE Polygon(2, Sign(p[1] - q[1]), sides)
  IN <<Polygon(3, -1, Reverse(Lift(z[1]))), Polygon(3, 1, Lift(z[2]))>>
     \o [i \in DOMAIN profile |-> Wall(i)]
Box(x, y, z) == Prism(<<<<x[1], y[1]>>, <<x[2], y[1]>>, <<x[2], y[2]>>, <<x[1], y[2]>>>>, z)
Ell == Prism(<<<<0, 0>>, <<6, 0>>, <<6, 2>>, <<2, 2>>, <<2, 6>>, <<0, 6>>>>, <<0, 4>>)

Spans == {<<-2, -1>>, <<-2, 0>>, <<-2, 2>>, <<-1, 5>>, <<0, 4>>, <<1, 3>>, <<2, 4>>, <<2, 6>>}
FewSpans == {<<-2, 0>>, <<0, 4>>, <<1, 3>>, <<2, 6>>}
EllPairs ==
  {<<Ell, Box(x, y, z)>> : x, y \in {<<-1, 1>>, <<1, 3>>, <<0, 6>>, <<2, 4>>}, z \in {<<0, 4>>, <<2, 5>>}}
MCPairs ==
       {<<Box(<<0, 4>>, <<0, 4>>, <<0, 4>>), Box(x, y, z)>> : x \in Spans, y, z \in FewSpans}
  \cup EllPairs \cup {<<p[2], p[1]>> : p \in EllPairs}

------------------------------------------------------------------------------
(* Faces: plain and reflex polygons, plates with one and two holes, with    *)
(* every corner as the first one, some with corners in line; each with      *)
(* points of a grid, on corners and sides too.  Ninths keep the centroids   *)
(* of two refinements integer.                                              *)

Face(rings, g) ==
  LET Scaled(r) == [i \in DOMAIN r |-> <<9 * r[i][1], 9 * r[i][2]>>]
      Earlier(k) == Len(FlattenSeq(SubSeq(rings, 1, k - 1)))
  IN [pts |-> Scaled(FlattenSeq(rings)),
      loops |-> [k \in DOMAIN rings |-> [i \in DOMAIN rings[k] |-> Earlier(k) + i]],
      grid |-> Scaled(g)]
Rotations(r) == {[i \in DOMAIN r |-> r[((i + s) % Len(r)) + 1]] : s \in DOMAIN r}
Turned(R) == UNION {Rotations(r) \cup Rotations(Reverse(r)) : r \in R}
Plate(w, h) == <<<<0, 0>>, <<w, 0>>, <<w, h>>, <<0, h>>>>
Hole(u, v, w, h) == <<<<u, v>>, <<u, v + h>>, <<u + w, v + h>>, <<u + w, v>>>>
RoundHole(u, v) == <<<<u - 1, v>>, <<u, v + 1>>, <<u + 1, v>>, <<u, v - 1>>>>

Plain == Turned(
  {<<<<0, 0>>, <<8, 0>>, <<8, 7>>, <<0, 8>>>>,
   <<<<0, 0>>, <<8, 0>>, <<8, 2>>, <<2, 2>>, <<2, 8>>, <<0, 8>>>>,
   <<<<0, 0>>, <<8, 1>>, <<3, 3>>, <<7, 8>>, <<1, 6>>>>,
   <<<<1, 3>>, <<2, 0>>, <<4, 2>>, <<5, 1>>, <<8, 6>>, <<3, 7>>>>,
   <<<<0, 0>>, <<4, 0>>, <<8, 0>>, <<8, 4>>, <<8, 8>>, <<0, 8>>>>,
   <<<<0, 0>>, <<9, 1>>, <<8, 7>>, <<5, 5>>, <<1, 9>>>>})
OneHole ==
       {<<Plate(8, 4), RoundHole(u, 2)>> : u \in 2..6}
  \cup {<<Plate(8, 7), RoundHole(u, v)>> : u \in 2..6, v \in {2, 3}}
  \cup {<<<<<<0, 0>>, <<9, 1>>, <<7, 8>>, <<0, 9>>>>, h>> :
          h \in Turned({<<<<3, 3>>, <<5, 4>>, <<2, 6>>>>, <<<<1, 4>>, <<4, 7>>, <<3, 2>>>>})}
TwoHoles ==
  {<<<<<<0, 0>>, <<12, 1>>, <<11, 9>>, <<1, 10>>>>, <<<<2, 2>>, <<3, 6>>, <<5, 3>>>>, h>> :
     h \in Turned({<<<<8, 3>>, <<7, 7>>, <<10, 4>>>>, <<<<6, 4>>, <<7, 7>>, <<10, 6>>>>,
                   <<<<3, 7>>, <<5, 9>>, <<7, 6>>>>})}
HolesInLine ==
  {<<<<<<0, 6>>, <<2, 2>>, <<5, 0>>, <<6, 5>>>>, <<<<3, 5>>, <<3, 4>>, <<3, 2>>, <<5, 2>>>>>>,
   <<<<<<1, 6>>, <<6, 4>>, <<4, 0>>, <<1, 2>>>>, <<<<4, 2>>, <<4, 1>>, <<2, 3>>>>>>,
   <<<<<<2, 9>>, <<6, 0>>, <<8, 4>>>>, <<<<4, 7>>, <<6, 4>>, <<6, 2>>>>>>,
   <<<<<<6, 0>>, <<0, 1>>, <<2, 5>>>>, <<<<3, 3>>, <<1, 1>>, <<3, 1>>>>>>,
   <<Plate(8, 8), Hole(2, 2, 4, 4)>>, <<Plate(5, 9), Hole(1, 1, 3, 3), Hole(1, 5, 3, 3)>>,
   <<Plate(9, 5), Hole(1, 1, 3, 3), Hole(5, 1, 3, 3)>>}
MCFaces ==
       {Face(<<p>>, g) : p \in Plain, g \in {<<>>, <<<<4, 4>>, <<1, 1>>>>, <<<<4, 3>>, <<4, 5>>, <<2, 2>>>>}}
  \cup {Face(p, <<<<1, 1>>, <<4, 3>>>>) : p \in OneHole \cup HolesInLine}
  \cup {Face(p, <<<<6, 2>>, <<6, 1>>>>) : p \in TwoHoles}

------------------------------------------------------------------------------
(* Splines: curves with simple and double knots and without any, paired     *)
(* with others of other degrees and knots, and surfaces of two lines.       *)

Clamped(p, inner, end) ==
  [i \in 0..(2 * p + 1 + Len(inner)) |->
     IF i <= p THEN 0 ELSE IF i <= p + Len(inner) THEN inner[i - p] ELSE end]
Net(xs) == [i \in 0..(Len(xs) - 1) |-> <<xs[i + 1], 1>>]
Spl(p, inner, nets) ==
  [p |-> p, U |-> Clamped(p, inner, 4), lines |-> [l \in DOMAIN nets |-> Net(nets[l])]]

Bent == Spl(1, <<2>>, <<<<0, 3, 1>>>>)
Arc == Spl(2, <<>>, <<<<1, 4, 2>>>>)
Quadratic == Spl(2, <<2>>, <<<<1, 0, 3, 2>>>>)
Kinked == Spl(2, <<2, 2, 3>>, <<<<1, 0, 3, 2, 5, 1>>>>)
Cubic == Spl(3, <<1, 2>>, <<<<1, 0, 3, 2, 5, 1>>>>)
CubicTwice == Spl(3, <<1, 1, 3>>, <<<<1, 0, 3, 2, 0, 5, 1>>>>)
MCSections ==
  {<<Bent, Cubic>>, <<Quadratic, Kinked>>, <<Kinked, Cubic>>, <<Cubic, Bent>>,
   <<CubicTwice, Quadratic>>, <<Arc, CubicTwice>>,
   <<Spl(1, <<2>>, <<<<0, 1, 2>>, <<0, 3, 1>>>>)>>,
   <<Spl(2, <<2>>, <<<<0, 1, 3, 2>>, <<2, 3, 1, 5>>>>)>>}
MCMaxEdits == 2

------------------------------------------------------------------------------
Trim ==
  INSTANCE TrimBoolean WITH region <- operands, op <- trimOp, pc <- trimPc,
    status <- trimStatus, loops <- results, Inputs <- MCInputs, Probes <- MCProbes
Planar ==
  INSTANCE PlanarBoolean WITH op <- planarOp, pc <- planarPc, soup <- planarSoup,
    Pairs <- MCPairs

Bspline ==
  INSTANCE BsplineOps WITH shapes <- splines, ops <- edits,
    Sections <- MCSections, MaxOps <- MCMaxEdits

trimVars ==
  <<operands, trimOp, trimPc, crosses, nodes, visited, start, cur, fuel, poly, polys,
    trimStatus, results>>
planarVars == <<solid, planarOp, planarPc, tree, planarSoup, accepted>>
splineVars == <<splines, origins, edits, torn, spoilt, refused>>
mcVars == <<machine, vars, stepVars, trimVars, healVars, planarVars, splineVars>>

TrimIdle ==
  /\ operands = <<>> /\ trimOp = "union" /\ trimPc = "idle" /\ crosses = <<>> /\ nodes = <<>>
  /\ visited = {} /\ start = <<>> /\ cur = <<>> /\ fuel = 0
  /\ poly = <<>> /\ polys = <<>> /\ trimStatus = "invalid" /\ results = <<>>
HealIdle ==
  /\ soup = <<>> /\ opts = <<>> /\ phase = "idle" /\ working = <<>> /\ shell = <<>>
  /\ reversed = <<>> /\ reached = {} /\ verdict = "none" /\ residual = 0
StepIdle ==
  /\ file = <<>> /\ stage = "idle" /\ todo = {} /\ edges = {}
  /\ placed = <<>> /\ status = "none"
PlanarIdle ==
  /\ solid = <<>> /\ planarOp = "fuse" /\ planarPc = 0 /\ tree = <<>>
  /\ planarSoup = <<>> /\ accepted = FALSE

MeshIdle ==
  /\ region = <<>> /\ pc = "idle" /\ holes = {} /\ merged = <<>> /\ loop = <<>>
  /\ pts = <<>> /\ constrained = {} /\ tris = <<>> /\ work = <<>>
  /\ offered = 0 /\ pass = <<>> /\ kept = {} /\ proper = FALSE /\ sound = FALSE /\ once = FALSE

SplineIdle ==
  /\ splines = <<>> /\ origins = <<>> /\ edits = 0 /\ torn = FALSE /\ spoilt = FALSE
  /\ refused = FALSE

MCInit ==
  /\ machine \in Machines
  /\ IF machine = "trim" THEN Trim!Init ELSE TrimIdle
  /\ IF machine = "heal" THEN HealInit ELSE HealIdle
  /\ IF machine = "step" THEN StepInit ELSE StepIdle
  /\ IF machine = "planar" THEN Planar!Init ELSE PlanarIdle
  /\ IF machine = "mesh" THEN Init ELSE MeshIdle
  /\ IF machine = "spline" THEN Bspline!Init ELSE SplineIdle

(* The steps of one machine leave the others, in rest, as they are.         *)
TrimNext ==
  machine = "trim" /\ Trim!Next /\ UNCHANGED <<machine, vars, stepVars, healVars, planarVars, splineVars>>
HealingNext ==
  machine = "heal" /\ HealNext /\ UNCHANGED <<machine, vars, stepVars, trimVars, planarVars, splineVars>>
PlacingNext ==
  machine = "step" /\ StepNext /\ UNCHANGED <<machine, vars, trimVars, healVars, planarVars, splineVars>>
PlanarNext ==
  machine = "planar" /\ Planar!Next /\ UNCHANGED <<machine, vars, stepVars, trimVars, healVars, splineVars>>
MeshNext ==
  machine = "mesh" /\ Next /\ UNCHANGED <<machine, stepVars, trimVars, healVars, planarVars, splineVars>>
SplineNext ==
  machine = "spline" /\ Bspline!Next /\ UNCHANGED <<machine, vars, stepVars, trimVars, healVars, planarVars>>

MCSpec ==
  MCInit /\ [][TrimNext \/ HealingNext \/ PlacingNext \/ PlanarNext \/ MeshNext \/ SplineNext]_mcVars

------------------------------------------------------------------------------
(* The properties of the instances, which say nothing of an idle machine;   *)
(* those of UvTriangulate, StepAssembly and HealShell are used as they are. *)

(* The walk traces the boundary of the boolean (TrimBoolean).               *)
WalkIsExact == machine = "trim" => Trim!WalkIsExact

(* The walk comes back to where it began (TrimBoolean).                     *)
WalkComesHome == machine = "trim" => Trim!WalkComesHome

(* Nested and separate regions are told apart (TrimBoolean).                *)
NestingIsExact == machine = "trim" => Trim!NestingIsExact

(* An answer is the boolean (TrimBoolean; refuted).                         *)
AnswersAreExact == machine = "trim" => Trim!AnswersAreExact

(* The trees tell the solids' insides from their outsides (PlanarBoolean).  *)
TreesKnowTheirSolids == machine = "planar" => Planar!TreesKnowTheirSolids

(* Clipping leaves the boundary of the boolean (PlanarBoolean).             *)
TreesLeaveTheBoundary == machine = "planar" => Planar!TreesLeaveTheBoundary

(* What the engine accepts is the boundary of the boolean (PlanarBoolean).  *)
AcceptedIsExact == machine = "planar" => Planar!AcceptedIsExact

(* Solids that share no plane are answered (PlanarBoolean).                 *)
ProperPairsAreAnswered == machine = "planar" => Planar!ProperPairsAreAnswered

(* Only walls of slabs of air are cancelled (PlanarBoolean; refuted).       *)
OnlyAirIsCancelled == machine = "planar" => Planar!OnlyAirIsCancelled

(* A spline evaluates to what it was after any operations (BsplineOps).     *)
KeepsItsShape == machine = "spline" => Bspline!KeepsItsShape

(* What was inserted or raised can be removed or lowered (BsplineOps).      *)
AddedIsUndone == machine = "spline" => Bspline!AddedIsUndone

(* Sections over one domain are made compatible (BsplineOps).               *)
SectionsMatch == Bspline!SectionsMatch

(* A lowered surface has lines with the same knots (BsplineOps; refuted).   *)
LoweredWhole == Bspline!LoweredWhole
=============================================================================
