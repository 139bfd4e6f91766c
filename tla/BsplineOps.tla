------------------------------ MODULE BsplineOps ------------------------------
(***************************************************************************)
(* The exact operations on B-spline curves and surfaces: knots inserted,   *)
(* refined and removed, the degree raised and lowered, a shape split or    *)
(* cut into Bezier segments, sections brought to common knots.  Each is    *)
(* said to keep the geometry, or to decline.                               *)
(*                                                                         *)
(* Numbers are fractions, so arithmetic is exact and tolerances are zero.  *)
(* A pole has one coordinate: every operation treats them alike.  A shape  *)
(* is the lines of a surface along one direction (a curve is one line)     *)
(* with the knots they share.  Arrays start at 0, as in the code.          *)
(***************************************************************************)
EXTENDS Integers, Sequences, FiniteSetsExt

CONSTANTS
  Sections,   \* what to start from: pairs of shapes on one domain, of which
              \* no line is constant, so that none is lowered to degree 0
  MaxOps      \* bound: the operations in a row

------------------------------------------------------------------------------
(* Fractions, in lowest terms.                                              *)

RECURSIVE Gcd(_, _)
Gcd(a, b) == IF b = 0 THEN a ELSE Gcd(b, a % b)
Abs(x) == IF x < 0 THEN -x ELSE x
Frac(n, d) ==
  LET g == Gcd(Abs(n), Abs(d)) * (IF d < 0 THEN -1 ELSE 1) IN <<n \div g, d \div g>>
Zero == <<0, 1>>
One == <<1, 1>>
a \oplus b == Frac(a[1] * b[2] + b[1] * a[2], a[2] * b[2])
a \ominus b == Frac(a[1] * b[2] - b[1] * a[2], a[2] * b[2])
a \odot b == Frac(a[1] * b[1], a[2] * b[2])
a \oslash b == Frac(a[1] * b[2], a[2] * b[1])
Total(S, f(_)) == FoldSet(LAMBDA i, acc : f(i) \oplus acc, Zero, S)

(* alpha x + (1 - alpha) y, the step of every algorithm below; and the x of *)
(* which that is z.                                                         *)
Blend(alpha, x, y) == (alpha \odot x) \oplus ((One \ominus alpha) \odot y)
Unblend(alpha, z, y) == (z \ominus ((One \ominus alpha) \odot y)) \oslash alpha

(* How far u is from knot i towards knot j.                                 *)
Way(U, i, j, u) == Frac(u - U[i], U[j] - U[i])

Top(f) == Cardinality(DOMAIN f) - 1
Curve(p, U, P) == [p |-> p, U |-> U, P |-> P]
KnotMultiplicity(U, u) == Cardinality({i \in DOMAIN U : U[i] = u})

------------------------------------------------------------------------------
(* Evaluation.                                                              *)

RECURSIVE Search(_, _, _, _)
Search(u, U, low, high) ==
  LET mid == (low + high) \div 2
  IN CASE u < U[mid] -> Search(u, U, low, mid)
       [] u >= U[mid + 1] -> Search(u, U, mid, high)
       [] OTHER -> mid
FindSpan(p, u, U) ==
  LET n == Top(U) - p - 1
  IN IF u >= U[n + 1] THEN n ELSE IF u <= U[p] THEN p ELSE Search(u, U, p, n + 1)

Gap(U, span, j, r) == <<U[span + r + 1] - U[span + 1 - j + r], 1>>
BasisFuns(span, u, p, U) ==
  LET N[j \in 0..p] ==
        LET temp(r) == N[j - 1][r] \oslash Gap(U, span, j, r)
            right(r) == <<U[span + r] - u, 1>>
            left(r) == <<u - U[span + 1 - r], 1>>
        IN [r \in 0..j |->
              IF j = 0 THEN One
              ELSE (IF r < j THEN right(r + 1) \odot temp(r) ELSE Zero)
                   \oplus (IF r > 0 THEN left(j - r + 1) \odot temp(r - 1) ELSE Zero)]
  IN N

(* a[q] holds the coefficients of the q-th derivative of the r-th function  *)
(* in the functions of degree p - q, the first of them that of r - q.       *)
DersBasisFuns(span, u, p, U, k, r) ==
  LET N == BasisFuns(span, u, p, U)
      a[q \in 0..k] ==
        [j \in 0..q |->
           IF q = 0 THEN One
           ELSE IF r - q + j \notin 0..(p - q) THEN Zero
           ELSE ((IF j < q THEN a[q - 1][j] ELSE Zero)
                 \ominus (IF j > 0 THEN a[q - 1][j - 1] ELSE Zero))
                \oslash Gap(U, span, p - q + 1, r - q + j)]
      factor == FoldSet(LAMBDA i, acc : i * acc, 1, (p - k + 1)..p)
  IN <<factor, 1>> \odot
       Total({j \in 0..k : r - k + j \in 0..(p - k)},
             LAMBDA j : a[k][j] \odot N[p - k][r - k + j])

CurvePoint(c, u) ==
  LET span == FindSpan(c.p, u, c.U)
      N == BasisFuns(span, u, c.p, c.U)[c.p]
  IN Total(0..c.p, LAMBDA i : c.P[span - c.p + i] \odot N[i])

CurveDeriv(c, u, k) ==
  LET span == FindSpan(c.p, u, c.U)
      N(i) == DersBasisFuns(span, u, c.p, c.U, k, i)
  IN IF k > c.p THEN Zero ELSE Total(0..c.p, LAMBDA i : c.P[span - c.p + i] \odot N(i))

CurvePointDeBoor(c, u) ==
  LET span == FindSpan(c.p, u, c.U)
      d[r \in 0..c.p] ==
        [j \in r..c.p |->
           LET i == span - c.p + j
               top == i + c.p - r + 1
               alpha == IF c.U[top] > c.U[i] THEN Way(c.U, i, top, u) ELSE Zero
           IN IF r = 0 THEN c.P[i] ELSE Blend(alpha, d[r - 1][j], d[r - 1][j - 1])]
  IN d[c.p][c.p]

------------------------------------------------------------------------------
(* Knots inserted: one value r times, and a sorted sequence of values.      *)

InsertKnot(c, u, r) ==
  LET p == c.p
      s == KnotMultiplicity(c.U, u)
      rr == Max({0, Min({r, p - s})})
      k == FindSpan(p, u, c.U)
      R[j \in 0..rr] ==   \* the poles that the j-th insertion recomputes
        [i \in 0..(p - j - s) |->
           IF j = 0 THEN c.P[k - p + i]
           ELSE Blend(Way(c.U, k - p + j + i, i + k + 1, u), R[j - 1][i + 1], R[j - 1][i])]
      NewPole(x) ==
        CASE x <= k - p      -> c.P[x]
          [] x >= k - s + rr -> c.P[x - rr]
          [] x - (k - p) \in 1..rr -> R[x - (k - p)][0]
          [] k - s + rr - x \in 1..rr -> LET j == k - s + rr - x IN R[j][p - j - s]
          [] OTHER -> R[rr][x - (k - p + rr)]
  IN IF rr = 0 THEN c
     ELSE Curve(p,
            [i \in 0..(Top(c.U) + rr) |->
               IF i <= k THEN c.U[i] ELSE IF i <= k + rr THEN u ELSE c.U[i - rr]],
            [x \in 0..(Top(c.P) + rr) |-> NewPole(x)])

(* From the last new knot X[j] to the first.  Knots and poles from kk on    *)
(* are those of the result, up to i still those of c.                       *)
RECURSIVE Refined(_, _, _, _, _, _, _)
Refined(c, X, j, i, kk, U, P) ==
  LET p == c.p
      a == FindSpan(p, X[1], c.U)
      stop == Max({a} \cup {q \in a..i : c.U[q] < X[j]})
      n == i - stop              \* old knots moved up unchanged
      at == kk - n
      U1 == [q \in DOMAIN U |-> IF q \in (at + 1)..kk THEN c.U[q - kk + i] ELSE U[q]]
      P1 == [q \in DOMAIN P |-> IF q \in (at - p)..(kk - p - 1) THEN c.P[q - kk + i] ELSE P[q]]
      P2 == [P1 EXCEPT ![at - p - 1] = P1[at - p]]
      Mixed(q) ==                \* ind - 1 = q
        LET l == q + 1 - (at - p)
            alpha == Frac(U1[at + l] - X[j], U1[at + l] - c.U[stop - p + l])
        IN IF U1[at + l] = X[j] THEN P2[q + 1] ELSE Blend(alpha, P2[q], P2[q + 1])
  IN IF j = 0 THEN Curve(p, U, P)
     ELSE Refined(c, X, j - 1, stop, at - 1, [U1 EXCEPT ![at] = X[j]],
            [q \in DOMAIN P |-> IF q \in (at - p)..(at - 1) THEN Mixed(q) ELSE P2[q]])
RefineKnot(c, X) ==
  LET p == c.p
      r == Len(X) - 1
      a == FindSpan(p, X[1], c.U)
      b == FindSpan(p, X[Len(X)], c.U) + 1
  IN IF X = <<>> THEN c
     ELSE Refined(c, X, r + 1, b + p - 1, b + p + r,
            [q \in 0..(Top(c.U) + r + 1) |->
               IF q <= a THEN c.U[q] ELSE IF q >= b + p + r + 1 THEN c.U[q - r - 1] ELSE 0],
            [q \in 0..(Top(c.P) + r + 1) |->
               IF q <= a - p THEN c.P[q] ELSE IF q >= b + r THEN c.P[q - r - 1] ELSE Zero])

(* One occurrence of u less, where the poles computed from the left and     *)
(* from the right agree: u is knot r, of multiplicity k; n poles of first   *)
(* to last come from either side.                                           *)
RemovedFrom(c, u, r, k, first, last, n) ==
  LET Alf(i) == Way(c.U, i, i + c.p + 1, u)
      left[q \in 0..n] ==
        IF q = 0 THEN c.P[first - 1]
        ELSE Unblend(Alf(first + q - 1), c.P[first + q - 1], left[q - 1])
      right[q \in 0..n] ==
        IF q = 0 THEN c.P[last + 1]
        ELSE Unblend(One \ominus Alf(last - q + 1), c.P[last - q + 1], right[q - 1])
      fout == (2 * r - k - c.p) \div 2
      Pole(x) ==
        CASE x \in (last - n + 1)..last -> right[last - x + 1]
          [] x \in first..(first + n - 1) -> left[x - first + 1]
          [] OTHER -> c.P[x]
  IN [ok |-> IF (last - first) % 2 = 0
             THEN c.P[first + n] = Blend(Alf(first + n), right[n], left[n])
             ELSE left[n] = right[n],
      curve |-> Curve(c.p, [i \in 0..(Top(c.U) - 1) |-> c.U[IF i < r THEN i ELSE i + 1]],
                           [x \in 0..(Top(c.P) - 1) |-> Pole(IF x < fout THEN x ELSE x + 1)])]
RemovedAt(c, u, r, k) ==
  RemovedFrom(c, u, r, k, r - c.p, r - k, (c.p - k + 1) \div 2)
RemovesOnce(c, u) ==
  RemovedAt(c, u, Max({i \in DOMAIN c.U : c.U[i] = u}), KnotMultiplicity(c.U, u))
RECURSIVE RemoveKnot(_, _, _)
RemovesMore(c, u, num, once) ==
  IF ~once.ok THEN [removed |-> 0, curve |-> c]
  ELSE [RemoveKnot(once.curve, u, num - 1) EXCEPT !.removed = @ + 1]
RemoveKnot(c, u, num) ==
  IF num = 0 \/ KnotMultiplicity(c.U, u) = 0 THEN [removed |-> 0, curve |-> c]
  ELSE RemovesMore(c, u, num, RemovesOnce(c, u))

------------------------------------------------------------------------------
(* Bezier segments.  A span runs from the last of the knots at its start, a,*)
(* to the last of those at its end, b; insertions at its end cut it off     *)
(* what follows.                                                            *)

LastAt(U, i) == Max({q \in DOMAIN U : U[q] = U[i]})
Mult(U, b) == KnotMultiplicity(U, U[b])

(* The poles of the span after each insertion.                              *)
Cuts(c, bez, a, b) ==
  LET mul == Mult(c.U, b)
      Q[j \in 0..Max({0, c.p - mul})] ==
        [k \in 0..c.p |->
           IF j = 0 THEN bez[k]
           ELSE IF k < mul + j THEN Q[j - 1][k]
           ELSE Blend(Way(c.U, a, a + k - j + 1, c.U[b]), Q[j - 1][k], Q[j - 1][k - 1])]
  IN Q

NextSpan(c, Q, b) ==
  LET r == c.p - Mult(c.U, b)
  IN [i \in 0..c.p |-> IF i < r THEN Q[r - i][c.p] ELSE c.P[b - c.p + i]]
RECURSIVE Spans(_, _, _)
SpansFrom(c, a, b, Q) ==
  <<[a |-> a, b |-> b, bez |-> Q[Top(Q)]]>>
  \o IF b = Top(c.U) THEN <<>> ELSE Spans(c, NextSpan(c, Q, b), b)
Spans(c, bez, a) ==
  LET b == LastAt(c.U, a + 1) IN SpansFrom(c, a, b, Cuts(c, bez, a, b))
BezierSpans(c) == Spans(c, [i \in 0..c.p |-> c.P[i]], c.p)
Bezier(c, span) ==
  Curve(c.p, [i \in 0..(2 * c.p + 1) |-> c.U[IF i <= c.p THEN span.a ELSE span.b]], span.bez)
Beziers(c, S) == [s \in DOMAIN S |-> Bezier(c, S[s])]
DecomposeToBezier(c) == Beziers(c, BezierSpans(c))

(* Splitting at an inner value.                                             *)
SplitAt(h, p, u, span) ==
  LET n == Top(h.P)
  IN <<Curve(p, [i \in 0..(span + 1) |-> IF i <= span THEN h.U[i] ELSE u],
                [x \in 0..(span - p) |-> h.P[x]]),
       Curve(p, [i \in 0..(p + Top(h.U) - span) |-> IF i <= p THEN u ELSE h.U[i + span - p]],
                [x \in 0..(n - span + p) |-> h.P[x + span - p]])>>
SplitFull(h, u) == SplitAt(h, h.p, u, FindSpan(h.p, u, h.U))
Split(c, u) == SplitFull(InsertKnot(c, u, c.p), u)

------------------------------------------------------------------------------
(* The degree raised: each Bezier span is, and merged with those before it  *)
(* by removing the knots between them again.                                *)

Binom(n, k) ==
  LET c[i \in 0..n] == IF i = 0 THEN 1 ELSE (c[i - 1] * (n - i + 1)) \div i
  IN IF k \in 0..n THEN c[k] ELSE 0
Bezalf(p, t, i, j) == Frac(Binom(p, j) * Binom(t, i - j), Binom(p + t, i))

(* The poles between two spans; e has the place of the merge, P and U are   *)
(* of the result, eb are the raised poles of the span.                      *)
RECURSIVE MergesLeft(_, _, _, _, _, _)
MergesLeft(e, tr, i, j, P, eb) ==
  LET kj == j - e.kind + 1
      from == IF j - tr <= e.kind - e.ph + e.oldr THEN j - tr ELSE e.kind - 1
      P1 == IF i < e.cind
            THEN [P EXCEPT ![i] = Blend(Frac(e.ub - e.U[i], e.ua - e.U[i]), P[i], P[i - 1])]
            ELSE P
      eb1 == IF j >= e.lbz
             THEN [eb EXCEPT ![kj] = Blend(Frac(e.ub - e.U[from], e.ub - e.ua), eb[kj], eb[kj + 1])]
             ELSE eb
  IN IF tr >= e.oldr THEN [P |-> P, eb |-> eb]
     ELSE IF j - i <= tr THEN MergesLeft(e, tr + 1, e.kind - 2 - tr, e.kind + tr, P, eb)
     ELSE MergesLeft(e, tr, i + 1, j - 1, P1, eb1)

(* The first of a span's raised poles that those before have not settled.   *)
FirstOwn(oldr) == 1     \* mutant: none of them is
FirstFree(oldr) == IF oldr > 0 THEN (oldr + 2) \div 2 ELSE 1

(* st: the poles and knots written, the next of each, the raised poles of   *)
(* the span before and the insertions that cut it off.  The span's own      *)
(* raised poles are written from lbz to rbz, once merged with those before. *)
Written(c, span, ph, st, lbz, r, merged) ==
  LET rbz == IF r > 0 THEN ph - (r + 1) \div 2 ELSE ph
      kind == IF span.a = c.p THEN st.kind ELSE st.kind + ph - st.r
  IN [kind |-> kind,
      cind |-> st.cind + rbz - lbz + 1,
      r |-> r,
      eb |-> merged.eb,
      U |-> [q \in DOMAIN st.U |->
               IF q \in st.kind..(kind - 1) THEN c.U[span.a]
               ELSE IF span.b = Top(c.U) /\ q \in kind..(kind + ph) THEN c.U[span.b]
               ELSE st.U[q]],
      P |-> [q \in DOMAIN st.P |->
               IF q \in st.cind..(st.cind + rbz - lbz) THEN merged.eb[q - st.cind + lbz]
               ELSE merged.P[q]]]
Raised(c, t, bez, st, lbz) ==
  [i \in 0..(c.p + t) |->
    IF i < lbz THEN st.eb[i]
    ELSE Total(Max({0, i - t})..Min({c.p, i}), LAMBDA j : bez[j] \odot Bezalf(c.p, t, i, j))]
Place(c, ph, span, st, lbz) ==
  [kind |-> st.kind, cind |-> st.cind, oldr |-> st.r, lbz |-> lbz, ph |-> ph,
   ua |-> c.U[span.a], ub |-> c.U[span.b], U |-> st.U]
RaisesSpan(c, t, span, st) ==
  LET lbz == FirstFree(st.r)
  IN Written(c, span, c.p + t, st, lbz, c.p - Mult(c.U, span.b),
       MergesLeft(Place(c, c.p + t, span, st, lbz), 1, st.kind - 2, st.kind, st.P,
         Raised(c, t, span.bez, st, lbz)))

Unraised(c, ph, mh) ==
  [kind |-> ph + 1, cind |-> 1, r |-> -1, eb |-> [i \in 0..ph |-> Zero],
   U |-> [q \in 0..mh |-> c.U[0]],
   P |-> [q \in 0..(mh - ph - 1) |-> IF q = 0 THEN c.P[0] ELSE Zero]]
RaisesSpans(c, t, S) ==
  LET st[s \in 0..Len(S)] ==
        IF s = 0 THEN Unraised(c, c.p + t, Top(c.U) + t * (Len(S) + 1))
        ELSE RaisesSpan(c, t, S[s], st[s - 1])
  IN st[Len(S)]
ElevateDegree(c, t) ==
  LET Result(st) == Curve(c.p + t, st.U, st.P)
  IN IF t = 0 THEN c ELSE Result(RaisesSpans(c, t, BezierSpans(c)))

------------------------------------------------------------------------------
(* The degree lowered by one: each Bezier span is, the spans are joined, and*)
(* knots removed while the curve allows it; then the result is compared.    *)

ReduceBezier(b, p) ==
  LET rr == (p - 1) \div 2
      fwd[i \in 0..rr] ==
        IF i = 0 THEN b[0] ELSE Unblend(Frac(p - i, p), b[i], fwd[i - 1])
      back[n \in 0..(p - 1)] ==   \* from the end
        IF n = 0 THEN b[p] ELSE Unblend(Frac(p - n, p), b[p - n], back[n - 1])
      meets == IF p % 2 = 0
               THEN b[p \div 2] = Blend(<<1, 2>>, fwd[rr], back[p - 2 - rr])
               ELSE fwd[rr] = back[p - 1 - rr]
  IN [exact |-> meets,
      poles |-> [i \in 0..(p - 1) |->
                   IF i < rr \/ (i = rr /\ p % 2 = 0) THEN fwd[i]
                   ELSE IF i = rr THEN Blend(<<1, 2>>, fwd[i], back[p - 1 - i])
                   ELSE back[p - 1 - i]]]

Samples(U) == U[0]..U[Top(U)]
OnceOnly(c) == 1     \* mutant: a knot is tried once
Attempts(c) == c.p
RECURSIVE RemoveAll(_, _)
RemoveAll(c, us) ==
  IF us = <<>> THEN c ELSE RemoveAll(RemoveKnot(c, Head(us), Attempts(c)).curve, Tail(us))
JoinedAt(c, q, breaks, red) ==
  LET nb == Len(breaks)
  IN Curve(q,
       [i \in 0..(q * (nb + 1) + 1) |->
          IF i <= q THEN breaks[1] ELSE IF i > q * nb THEN c.U[Top(c.U)]
          ELSE breaks[((i - 1) \div q) + 1]],
       [x \in 0..(q * nb) |-> IF x = 0 THEN red[1].poles[0]
                              ELSE red[((x - 1) \div q) + 1].poles[((x - 1) % q) + 1]])
Joined(c, breaks, red) == RemoveAll(JoinedAt(c, c.p - 1, breaks, red), Tail(breaks))
Compared(c, red, cand) ==
  IF /\ \A s \in DOMAIN red : red[s].exact
     /\ \A u \in Samples(c.U) : CurvePoint(c, u) = CurvePoint(cand, u)
  THEN [ok |-> TRUE, curve |-> cand] ELSE [ok |-> FALSE, curve |-> c]
Reduced(c, breaks, red) == Compared(c, red, Joined(c, breaks, red))
ReducedSpans(c, S) ==
  Reduced(c, [s \in DOMAIN S |-> c.U[S[s].a]], [s \in DOMAIN S |-> ReduceBezier(S[s].bez, c.p)])
ReduceDegree(c) == ReducedSpans(c, BezierSpans(c))

------------------------------------------------------------------------------
(* Shapes: every line is a curve; the surface that is put together again    *)
(* has the knots and the length of the first (a pole past the end of a      *)
(* shorter line is whatever is there, here 0).                              *)

Line(s, l) == Curve(s.p, s.U, s.lines[l])
Assembled(c, curves) ==
  [p |-> c.p, U |-> c.U,
   lines |-> [l \in DOMAIN curves |->
     [x \in DOMAIN c.P |-> IF x \in DOMAIN curves[l].P THEN curves[l].P[x] ELSE Zero]]]
AssembleFromLines(curves) == Assembled(curves[1], curves)
OnLines(s, f(_)) == AssembleFromLines([l \in DOMAIN s.lines |-> f(Line(s, l))])

(* A knot is removed as often as every line allows.                         *)
RemovedFromAll(s, u, n) ==
  [removed |-> n, shape |-> OnLines(s, LAMBDA c : RemoveKnot(c, u, n).curve)]
RemoveKnotSurface(s, u, num) ==
  RemovedFromAll(s, u, Min({RemoveKnot(Line(s, l), u, num).removed : l \in DOMAIN s.lines}))

LinesReduced(s, red) ==
  IF \E l \in DOMAIN red : ~red[l].ok THEN [whole |-> TRUE, shape |-> s]
  ELSE [whole |-> \A l \in DOMAIN red : red[l].curve.U = red[1].curve.U,
        shape |-> AssembleFromLines([l \in DOMAIN red |-> red[l].curve])]
ReduceDegreeSurface(s) ==
  LinesReduced(s, [l \in DOMAIN s.lines |-> ReduceDegree(Line(s, l))])

InteriorKnots(s) == {s.U[i] : i \in (s.p + 1)..(Top(s.U) - s.p - 1)}
SamePoints(s, t) ==
  \A l \in DOMAIN s.lines : \A u \in Samples(s.U) :
    CurvePoint(Line(s, l), u) = CurvePoint(Line(t, l), u)

(* removeKnotsBounded: of the knots that can go without a deviation the     *)
(* first goes, until none can.                                              *)
RECURSIVE WithoutKnots(_, _)
WithoutOne(orig, s, gone) ==
  LET can == {u \in DOMAIN gone : gone[u].removed = 1 /\ SamePoints(orig, gone[u].shape)}
  IN IF can = {} THEN s ELSE WithoutKnots(orig, gone[Min(can)].shape)
WithoutKnots(orig, s) ==
  WithoutOne(orig, s, [u \in InteriorKnots(s) |-> RemoveKnotSurface(s, u, 1)])
RemoveKnotsBounded(s) == WithoutKnots(s, s)

(* Sections: the common degree, and the knots of each that the other lacks. *)
MissingValue(U, V, u) ==   \* mutant: values are compared, not multiplicities
  IF KnotMultiplicity(U, u) = 0 /\ KnotMultiplicity(V, u) > 0 THEN 1 ELSE 0
Missing(U, V, u) == Max({0, KnotMultiplicity(V, u) - KnotMultiplicity(U, u)})
KnotsToInsert(U, V) ==
  LET ins[u \in (U[0] - 1)..U[Top(U)]] ==
        IF u < U[0] THEN <<>> ELSE ins[u - 1] \o [i \in 1..Missing(U, V, u) |-> u]
  IN ins[U[Top(U)]]
Merged(s, V) ==
  LET Inserted(knots) == OnLines(s, LAMBDA c : RefineKnot(c, knots))
  IN Inserted(KnotsToInsert(s.U, V))
MergedPair(pair) == [i \in 1..2 |-> Merged(pair[i], pair[3 - i].U)]
SectionsCompatible(pair) ==
  LET p == Max({pair[1].p, pair[2].p})
  IN MergedPair([i \in 1..2 |-> OnLines(pair[i], LAMBDA c : ElevateDegree(c, p - pair[i].p))])

------------------------------------------------------------------------------
VARIABLES
  shapes,   \* the shapes being worked on
  origins,  \* what they were
  ops,      \* how many operations they have been through
  torn,     \* lines with different knots were put together
  spoilt,   \* poles were computed from what is outside an array
  refused   \* sections could not be made compatible
vars == <<shapes, origins, ops, torn, spoilt, refused>>

Init ==
  /\ shapes \in Sections
  /\ origins = shapes
  /\ ops = 0 /\ torn = FALSE /\ spoilt = FALSE /\ refused = FALSE

s1 == shapes[1]
IsCurve(s) == Len(s.lines) = 1
Inside(s) == (s.U[0] + 1)..(s.U[Top(s.U)] - 1)
Going == ops < MaxOps /\ ~torn /\ ~spoilt /\ ~refused
Goes == Going /\ ops' = ops + 1 /\ UNCHANGED origins
Becomes(s) == Goes /\ shapes' = [shapes EXCEPT ![1] = s] /\ UNCHANGED <<torn, spoilt, refused>>

(* A value is inside the domain and, refined, of multiplicity p at most.    *)
Inserts == \E u \in Inside(s1) : \E r \in 1..s1.p : Becomes(OnLines(s1, LAMBDA c : InsertKnot(c, u, r)))
Refines ==
  \E u, v \in Inside(s1) :
    /\ u <= v
    /\ \A w \in {u, v} : KnotMultiplicity(s1.U, w) + (IF u = v THEN 2 ELSE 1) <= s1.p
    /\ Becomes(OnLines(s1, LAMBDA c : RefineKnot(c, <<u, v>>)))
Removes ==
  \E u \in InteriorKnots(s1) : \E num \in 1..s1.p : Becomes(RemoveKnotSurface(s1, u, num).shape)
Simplifies == Becomes(RemoveKnotsBounded(s1))
Raises == \E t \in 1..2 : s1.p + t <= 4 /\ Becomes(OnLines(s1, LAMBDA c : ElevateDegree(c, t)))
LoweredTo(red) == shapes' = [shapes EXCEPT ![1] = red.shape] /\ torn' = ~red.whole
Lowers ==
  s1.p >= 1 /\ Goes /\ LoweredTo(ReduceDegreeSurface(s1)) /\ UNCHANGED <<spoilt, refused>>

(* At degree 1 reduceBezier reads outside its array, at both ends, and      *)
(* multiplies what is there by 0: nothing comes of a number.  Of what is no *)
(* number the poles become none either, and no comparison fails.            *)
LowersOutside ==
  s1.p = 1 /\ Goes /\ spoilt' = TRUE /\ UNCHANGED <<shapes, torn, refused>>
Splits ==
  \E u \in Inside(s1) : \E side \in 1..2 : Becomes(OnLines(s1, LAMBDA c : Split(c, u)[side]))
Decomposes ==
  /\ IsCurve(s1)
  /\ \E i \in DOMAIN DecomposeToBezier(Line(s1, 1)) :
       Becomes(OnLines(s1, LAMBDA c : DecomposeToBezier(c)[i]))
MatchedTo(m) ==
  IF m[1].p = m[2].p /\ m[1].U = m[2].U
  THEN shapes' = m /\ UNCHANGED refused
  ELSE refused' = TRUE /\ UNCHANGED shapes
Matches ==
  /\ Len(shapes) = 2 /\ s1.U[0] = shapes[2].U[0]
  /\ s1.U[Top(s1.U)] = shapes[2].U[Top(shapes[2].U)]
  /\ Goes /\ MatchedTo(SectionsCompatible(shapes)) /\ UNCHANGED <<torn, spoilt>>

Terminated == ~Going /\ UNCHANGED vars
Next ==
  \/ Inserts \/ Refines \/ Removes \/ Simplifies \/ Raises \/ Lowers \/ LowersOutside
  \/ Splits \/ Decomposes \/ Matches \/ Terminated
Spec == Init /\ [][Next]_vars

------------------------------------------------------------------------------
(* What a B-spline is: the functions of Cox and de Boor, 0 / 0 being 0.     *)

RECURSIVE Spline(_, _, _, _), SplineDeriv(_, _, _, _, _)
Over(x, a, b) == IF a = b THEN Zero ELSE x \oslash <<b - a, 1>>
Spline(U, i, k, u) ==
  IF k = 0
  THEN IF u \in U[i]..(U[i + 1] - 1) \/ (U[i] < u /\ u = U[i + 1] /\ u = U[Top(U)])
       THEN One ELSE Zero
  ELSE Over(<<u - U[i], 1>> \odot Spline(U, i, k - 1, u), U[i], U[i + k])
       \oplus Over(<<U[i + k + 1] - u, 1>> \odot Spline(U, i + 1, k - 1, u), U[i + 1], U[i + k + 1])
SplineDeriv(U, i, k, u, d) ==
  IF d = 0 THEN Spline(U, i, k, u)
  ELSE IF k = 0 THEN Zero
  ELSE <<k, 1>> \odot (Over(SplineDeriv(U, i, k - 1, u, d - 1), U[i], U[i + k])
                       \ominus Over(SplineDeriv(U, i + 1, k - 1, u, d - 1), U[i + 1], U[i + k + 1]))
Value(c, u, d) == Total(DOMAIN c.P, LAMBDA i : c.P[i] \odot SplineDeriv(c.U, i, c.p, u, d))

(* Whatever operations it has been through, a shape evaluates, by either    *)
(* evaluator and with its derivatives, to what the first one was            *)
(* (bspline_ops.h: every operation preserves the represented geometry).     *)
KeepsItsShape ==
  ~torn /\ ~spoilt =>
    \A n \in DOMAIN shapes : \A l \in DOMAIN shapes[n].lines :
      LET c == Line(shapes[n], l)
          o == Line(origins[n], l)
      IN \A u \in Samples(c.U) :
           /\ CurvePoint(c, u) = Value(o, u, 0)
           /\ CurvePointDeBoor(c, u) = Value(o, u, 0)
           /\ u # c.U[Top(c.U)] =>
                \A d \in 1..2 : CurveDeriv(c, u, d) = Value(o, u, d)

(* Nothing that was added is left behind: the knots that can go are those   *)
(* that were not there, in whatever order they came and went, and a raised  *)
(* curve is lowered to what it was.                                         *)
Undone(o, least, c, low) ==
  /\ s1.p = o.p /\ Samples(s1.U) = Samples(o.U) => least = RemoveKnotsBounded(o)
  /\ IsCurve(s1) /\ s1.p <= 3 => low.ok /\ low.curve = Line(least, 1)
UndoneFor(o, c) == Undone(o, RemoveKnotsBounded(s1), c, ReduceDegree(ElevateDegree(c, 1)))
AddedIsUndone == ~torn /\ ~spoilt => UndoneFor(origins[1], Line(s1, 1))

(* Sections over one domain are made compatible, never refused              *)
(* (makeSectionsCompatible checks what it has done).                        *)
SectionsMatch == ~refused

(* A lowered surface is put together from lines with the same knots (the    *)
(* doc of reduceDegreeSurface; refuted).                                    *)
LoweredWhole == ~torn
=============================================================================
