--------------------------- MODULE HealShellProofs ---------------------------
(***************************************************************************)
(* Theorems about HealShell, for any soups, options, tolerance and size of *)
(* features: no corner moves further than a bridge and the tolerance       *)
(* allow; what is healed is wound one way if the soup can be; and a soup   *)
(* that is tight, and closed or cappable, is healed.  The first rests on   *)
(* what each pass does to one corner, the second on an orientation of the  *)
(* soup that the faces visited so far agree with, and the third on the     *)
(* comparison of the shell with the one that a soup without errors makes,  *)
(* and on the rings that its boundary falls into.                          *)
(***************************************************************************)
EXTENDS HealShell, OrderLemmas, FiniteSetTheorems

Corner == (DOMAIN Position) \X Int
Loops == Seq(Seq(Corner))

------------------------------------------------------------------------------
(* The loops that the passes make.                                          *)

(* A function on 1..n is a sequence.                                        *)
LEMMA ListOf ==
  ASSUME NEW S, NEW n \in Nat, NEW s \in [1..n -> S]
  PROVE  s \in Seq(S)
OBVIOUS

(* How removeDegenerate goes on from the corners it has kept: by a corner   *)
(* that is not within d of the last of them.                                *)
Grown(kept, p, d) ==
  IF kept # <<>> /\ Near(kept[Len(kept)], p, d) THEN kept ELSE Append(kept, p)
KeptStepwise(L, d) ==
  /\ KeptUpTo(L, d)[0] = <<>>
  /\ \A i \in 1..Len(L) : KeptUpTo(L, d)[i] = Grown(KeptUpTo(L, d)[i - 1], L[i], d)

(* So it goes through the corners of a loop, one by one.                    *)
LEMMA KeptUpToSteps ==
  ASSUME NEW E, NEW L \in Seq(E), NEW d
  PROVE  KeptStepwise(L, d)
<1> DEFINE S == Seq(E)
           step == [i \in 1..Len(L) |-> [kept \in S |-> Grown(kept, L[i], d)]]
           Body(out) == [i \in 0..Len(L) |-> IF i = 0 THEN <<>> ELSE Grown(out[i - 1], L[i], d)]
           n == Len(L)
<1>1. n \in Nat /\ <<>> \in S
  OBVIOUS
<1>2. \A i \in 1..n : \A kept \in S : Grown(kept, L[i], d) \in S
  <2> TAKE i \in 1..n
  <2> TAKE kept \in S
  <2>1. L[i] \in E
    OBVIOUS
  <2>2. Append(kept, L[i]) \in S
    BY <2>1
  <2> QED
    BY <2>2 DEF Grown
<1>3. KeptUpTo(L, d) = CHOOSE out : out = Body(out)
  BY DEF KeptUpTo, Grown
<1> HIDE DEF S
<1>4. step \in [1..n -> [S -> S]]
  BY <1>2
<1>5. \A i \in 1..n : \A kept \in S : step[i][kept] = Grown(kept, L[i], d)
  OBVIOUS
<1> HIDE DEF step, n
<1> DEFINE s0 == <<>>
<1> HIDE DEF s0
<1>6. s0 \in S
  BY <1>1 DEF s0
<1>7. Iterates(S, n, s0, step)
  BY <1>1, <1>6, <1>4, IterationExists
<1>8. PICK g \in [0..n -> S] :
        g[0] = s0 /\ \A i \in 1..n : g[i] = step[i][g[i - 1]]
  BY <1>7 DEF Iterates
<1>9. \A i \in 1..n : g[i] = Grown(g[i - 1], L[i], d)
  <2> TAKE i \in 1..n
  <2>1. i - 1 \in 0..n
    BY <1>1
  <2> QED
    BY <1>5, <1>8, <2>1
<1>10. g = Body(g)
  <2>1. \A i \in 0..n : g[i] = IF i = 0 THEN <<>> ELSE Grown(g[i - 1], L[i], d)
    <3>1. \A i \in 0..n : i # 0 => i \in 1..n
      BY <1>1
    <3> QED
      BY <1>8, <1>9, <3>1 DEF s0
  <2>2. g = [i \in 0..n |-> g[i]]
    BY <1>8
  <2> QED
    BY <2>1, <2>2 DEF n
<1> DEFINE out == KeptUpTo(L, d)
<1>11. out = Body(out)
  BY <1>3, <1>10
<1>12. 0 \in 0..n /\ \A i \in 1..n : i \in 0..n /\ i # 0
  BY <1>1
<1> HIDE DEF out
<1>13. out[0] = <<>> /\ \A i \in 1..n : out[i] = Grown(out[i - 1], L[i], d)
  BY <1>11, <1>12 DEF n
<1> QED
  BY <1>13 DEF KeptStepwise, out, n

(* A loop none of whose corners is within d of the one before it.           *)
Apart(L, d) ==
  /\ \A i \in 1..(Len(L) - 1) : ~Near(L[i], L[i + 1], d)
  /\ Len(L) > 1 => ~Near(L[1], L[Len(L)], d)

(* The corners kept are corners of the loop, and apart from each other.     *)
LEMMA KeptIsApart ==
  ASSUME NEW E, NEW L \in Seq(E), NEW d, NEW all, all = KeptUpTo(L, d)[Len(L)]
  PROVE  all \in Seq(E) /\ \A j \in 1..(Len(all) - 1) : ~Near(all[j], all[j + 1], d)
<1> DEFINE S == {s \in Seq(E) : \A j \in 1..(Len(s) - 1) : ~Near(s[j], s[j + 1], d)}
           out == KeptUpTo(L, d)
           n == Len(L)
<1>1. out[0] = <<>> /\ \A i \in 1..n : out[i] = Grown(out[i - 1], L[i], d)
  BY KeptUpToSteps DEF KeptStepwise
<1>2. n \in Nat /\ <<>> \in S
  OBVIOUS
<1>3. ASSUME NEW i \in 1..n, NEW s \in S PROVE Grown(s, L[i], d) \in S
  <2> DEFINE t == Append(s, L[i])
  <2>1. s \in Seq(E) /\ L[i] \in E /\ Len(s) \in Nat
    OBVIOUS
  <2>2. t \in Seq(E) /\ Len(t) = Len(s) + 1 /\ t[Len(s) + 1] = L[i]
        /\ \A j \in 1..Len(s) : t[j] = s[j]
    BY <2>1
  <2>3. CASE s # <<>> /\ Near(s[Len(s)], L[i], d)
    BY <2>3 DEF Grown
  <2>4. CASE s = <<>> \/ ~Near(s[Len(s)], L[i], d)
    <3>1. \A j \in 1..(Len(s) - 1) : ~Near(s[j], s[j + 1], d)
      OBVIOUS
    <3> HIDE DEF t, S
    <3>2. ASSUME NEW j \in 1..(Len(t) - 1) PROVE ~Near(t[j], t[j + 1], d)
      <4>1. j \in 1..Len(s)
        BY <2>1, <2>2
      <4>2. CASE j = Len(s)
        <5>1. s # <<>>
          BY <4>1
        <5> QED
          BY <2>2, <2>4, <4>1, <4>2, <5>1
      <4>3. CASE j # Len(s)
        <5>1. j \in 1..(Len(s) - 1) /\ j + 1 \in 1..Len(s)
          BY <2>1, <4>1, <4>3
        <5> QED
          BY <2>2, <3>1, <4>1, <5>1
      <4> QED
        BY <4>2, <4>3
    <3>3. t \in S
      BY <2>2, <3>2 DEF S
    <3>4. Grown(s, L[i], d) = t
      BY <2>4 DEF Grown, t
    <3> QED
      BY <3>3, <3>4
  <2> QED
    BY <2>3, <2>4
<1> HIDE DEF S, out
<1>4. \A i \in 0..n : out[i] \in S
  <2>1. \A i \in 1..n : out[i - 1] \in S => out[i] \in S
    BY <1>1, <1>3
  <2>2. out[0] \in S
    BY <1>1, <1>2
  <2> HIDE DEF n
  <2> QED
    BY <1>2, <2>1, <2>2, IterationStays
<1>5. all \in S
  BY <1>2, <1>4 DEF out
<1> QED
  BY <1>5 DEF S

(* So are those left when the tail at the first corner is cut off.          *)
LEMMA CollapsedIsApart ==
  ASSUME NEW E, NEW L \in Seq(E), NEW d
  PROVE  Collapsed(L, d) \in Seq(E) /\ Apart(Collapsed(L, d), d)
<1> DEFINE all == KeptUpTo(L, d)[Len(L)]
           apart == {m \in DOMAIN all : m = 1 \/ ~Near(all[1], all[m], d)}
           last == CHOOSE m \in apart : \A k \in apart : k <= m
           C == SubSeq(all, 1, last)
<1>1. all \in Seq(E) /\ \A j \in 1..(Len(all) - 1) : ~Near(all[j], all[j + 1], d)
  BY KeptIsApart
<1>2. Collapsed(L, d) = (IF all = <<>> THEN <<>> ELSE C)
  BY DEF Collapsed
<1> HIDE DEF all
<1>3. CASE all = <<>>
  BY <1>2, <1>3 DEF Apart
<1>4. CASE all # <<>>
  <2>1. Len(all) \in Nat /\ apart \in SUBSET (1..Len(all)) /\ 1 \in apart
    BY <1>1, <1>4
  <2> HIDE DEF apart
  <2>2. \E m \in apart : \A k \in apart : k <= m
    BY <2>1, GreatestNumber
  <2>3. last \in apart
    BY <2>2
  <2> HIDE DEF last
  <2>4. last \in 1..Len(all) /\ (last = 1 \/ ~Near(all[1], all[last], d))
    BY <2>1, <2>3 DEF apart
  <2>5. C \in Seq(E) /\ Len(C) = last /\ \A j \in 1..last : C[j] = all[j]
    BY <1>1, <2>4
  <2> HIDE DEF C
  <2>6. \A j \in 1..(last - 1) : ~Near(C[j], C[j + 1], d)
    <3> TAKE j \in 1..(last - 1)
    <3>1. j \in 1..last /\ j + 1 \in 1..last /\ j \in 1..(Len(all) - 1)
      BY <2>1, <2>4
    <3> QED
      BY <1>1, <2>5, <3>1
  <2>7. last > 1 => ~Near(C[1], C[last], d)
    <3>1. 1 \in 1..last /\ last \in 1..last
      BY <2>4
    <3> QED
      BY <2>4, <2>5, <3>1
  <2>8. Apart(C, d)
    BY <2>5, <2>6, <2>7 DEF Apart
  <2> QED
    BY <1>2, <1>4, <2>5, <2>8
<1> QED
  BY <1>3, <1>4

(* A loop that is apart loses nothing.                                      *)
LEMMA ApartIsKept ==
  ASSUME NEW E, NEW L \in Seq(E), NEW d, Apart(L, d)
  PROVE  Collapsed(L, d) = L
<1> DEFINE out == KeptUpTo(L, d)
           n == Len(L)
           T == {i \in Nat : i <= n => out[i] = SubSeq(L, 1, i)}
           all == out[n]
           apart == {m \in DOMAIN all : m = 1 \/ ~Near(all[1], all[m], d)}
           last == CHOOSE m \in apart : \A k \in apart : k <= m
<1>1. out[0] = <<>> /\ \A i \in 1..n : out[i] = Grown(out[i - 1], L[i], d)
  BY KeptUpToSteps DEF KeptStepwise
<1>2. n \in Nat
  OBVIOUS
<1> HIDE DEF out
<1>3. 0 \in T
  <2>1. SubSeq(L, 1, 0) = <<>>
    OBVIOUS
  <2> QED
    BY <1>1, <2>1
<1>4. ASSUME NEW i \in Nat, i \in T PROVE i + 1 \in T
  <2> SUFFICES ASSUME i + 1 <= n PROVE out[i + 1] = SubSeq(L, 1, i + 1)
    OBVIOUS
  <2> DEFINE s == SubSeq(L, 1, i)
  <2>1. out[i] = s /\ i + 1 \in 1..n /\ (i + 1) - 1 = i
    BY <1>2, <1>4
  <2>2. out[i + 1] = Grown(s, L[i + 1], d)
    BY <1>1, <2>1
  <2>3. s \in Seq(E) /\ Len(s) = i /\ \A j \in 1..i : s[j] = L[j]
    BY <1>2
  <2>4. Append(s, L[i + 1]) = SubSeq(L, 1, i + 1)
    BY <1>2, <2>1
  <2> HIDE DEF s, T
  <2>5. s # <<>> => ~Near(s[Len(s)], L[i + 1], d)
    <3> SUFFICES ASSUME s # <<>> PROVE ~Near(s[Len(s)], L[i + 1], d)
      OBVIOUS
    <3>1. i # 0
      BY <2>3
    <3>2. i \in 1..i /\ i \in 1..(n - 1)
      BY <1>2, <2>1, <3>1
    <3> QED
      BY <2>3, <3>2 DEF Apart
  <2> QED
    BY <2>2, <2>4, <2>5 DEF Grown
<1>5. n \in T
  <2> HIDE DEF T
  <2>1. Nat \subseteq T
    BY <1>3, <1>4, SetInduction
  <2> QED
    BY <1>2, <2>1
<1>6. all = L
  BY <1>2, <1>5
<1>7. Collapsed(L, d) = (IF all = <<>> THEN <<>> ELSE SubSeq(all, 1, last))
  BY DEF Collapsed, out
<1> HIDE DEF all
<1>8. CASE L = <<>>
  BY <1>6, <1>7, <1>8
<1>9. CASE L # <<>>
  <2>1. DOMAIN all = 1..n /\ n \in 1..n
    BY <1>2, <1>6, <1>9
  <2>2. n \in apart /\ apart \subseteq 1..n
    BY <1>6, <2>1 DEF Apart
  <2> HIDE DEF apart, n
  <2>3. \A k \in apart : k <= n
    BY <1>2, <2>2
  <2>4. last \in apart /\ \A k \in apart : k <= last
    BY <2>2, <2>3
  <2> HIDE DEF last
  <2>5. last = n
    BY <1>2, <2>2, <2>3, <2>4
  <2>6. SubSeq(L, 1, n) = L
    BY DEF n
  <2> QED
    BY <1>6, <1>7, <1>9, <2>5, <2>6
<1> QED
  BY <1>8, <1>9

(* So a loop of corners stays one.                                          *)
LEMMA CollapsedType ==
  ASSUME NEW L \in Seq(Corner), NEW d
  PROVE  Collapsed(L, d) \in Seq(Corner)
<1> DEFINE E == Corner
<1>1. L \in Seq(E)
  OBVIOUS
<1> HIDE DEF E
<1>2. Collapsed(L, d) \in Seq(E)
  BY <1>1, CollapsedIsApart
<1> QED
  BY <1>2 DEF E

(* A face keeps three corners, or none.                                     *)
LEMMA KeptType ==
  ASSUME NEW L \in Seq(Corner)
  PROVE  Kept(L) \in Seq(Corner)
BY DEF Kept

(* Cleaning a soup leaves a soup, each face in its place.                   *)
LEMMA RemoveDegenerateType ==
  ASSUME NEW faces \in Loops
  PROVE  RemoveDegenerate(faces) \in Loops
<1>1. faces \in Seq(Seq(Corner)) /\ DOMAIN faces = 1..Len(faces) /\ Len(faces) \in Nat
  BY DEF Loops
<1>2. ASSUME NEW f \in DOMAIN faces PROVE Kept(Collapsed(faces[f], Tolerance)) \in Seq(Corner)
  <2>1. faces[f] \in Seq(Corner)
    BY <1>1
  <2>2. Collapsed(faces[f], Tolerance) \in Seq(Corner)
    BY <2>1, CollapsedType
  <2> QED
    BY <2>2, KeptType
<1>3. RemoveDegenerate(faces) \in [1..Len(faces) -> Seq(Corner)]
  BY <1>1, <1>2 DEF RemoveDegenerate
<1>4. RemoveDegenerate(faces) \in Seq(Seq(Corner))
  BY <1>1, <1>3, ListOf
<1> QED
  BY <1>4 DEF Loops

------------------------------------------------------------------------------
(* The places of corners.                                                   *)

(* A place of a corner is a face and a place in it.                         *)
LEMMA RefsAre ==
  ASSUME NEW loops \in Loops
  PROVE  /\ \A f \in DOMAIN loops : \A i \in DOMAIN loops[f] : <<f, i>> \in Refs(loops)
         /\ \A c \in Refs(loops) :
              /\ c[1] \in DOMAIN loops /\ c[2] \in DOMAIN loops[c[1]] /\ c = <<c[1], c[2]>>
              /\ c[1] \in Nat /\ c[2] \in Nat
              /\ CornerAt(loops, c) \in Corner
<1>1. \A f \in DOMAIN loops : f \in Nat /\ loops[f] \in Seq(Corner)
  BY DEF Loops
<1>2. \A f \in DOMAIN loops : \A i \in DOMAIN loops[f] : i \in Nat /\ loops[f][i] \in Corner
  BY <1>1
<1>3. \A f \in DOMAIN loops : \A i \in DOMAIN loops[f] : <<f, i>> \in Refs(loops)
  BY DEF Refs
<1>4. ASSUME NEW c \in Refs(loops)
      PROVE  \E f \in DOMAIN loops : \E i \in DOMAIN loops[f] : c = <<f, i>>
  BY DEF Refs
<1> QED
  BY <1>1, <1>2, <1>3, <1>4 DEF CornerAt

------------------------------------------------------------------------------
(* Corners become nodes: a node is within the tolerance of its corner.      *)

(* findRepresentative answers with one of the representatives it compares.  *)
LEMMA RepresentativeExists ==
  ASSUME NEW reps \in SUBSET Corner, reps # {}, NEW p \in Corner, \A r \in reps : r[1] = p[1]
  PROVE  Representative(reps, p) \in reps
<1> DEFINE Gap(r) == Abs(r[2] - p[2])
           Gaps == {Gap(r) : r \in reps}
<1>1. \A r \in reps : Gap(r) \in Nat /\ r[2] \in Int /\ p[2] \in Int
  BY DEF Corner, Abs
<1>2. PICK near \in reps : \A q \in reps : Gap(near) <= Gap(q)
  <2>1. Gaps \in SUBSET Nat /\ Gaps # {}
    BY <1>1
  <2>2. PICK g \in Gaps : \A h \in Gaps : g <= h
    BY <2>1, LeastNumber
  <2> QED
    BY <2>2
<1>3. PICK r \in reps : /\ Gap(r) = Gap(near)
                       /\ \A q \in reps : Gap(q) = Gap(near) => r[2] >= q[2]
  <2> DEFINE d == Gap(near)
  <2>1. \A q \in reps : Gap(q) = d => q[2] = p[2] - d \/ q[2] = p[2] + d
    BY <1>1 DEF Abs
  <2>2. CASE \E q \in reps : Gap(q) = d /\ q[2] = p[2] + d
    <3>1. PICK q \in reps : Gap(q) = d /\ q[2] = p[2] + d
      BY <2>2
    <3>2. \A x \in reps : Gap(x) = d => q[2] >= x[2]
      BY <1>1, <2>1, <3>1
    <3> QED
      BY <3>1, <3>2
  <2>3. CASE ~\E q \in reps : Gap(q) = d /\ q[2] = p[2] + d
    <3>1. \A x \in reps : Gap(x) = d => x[2] = p[2] - d
      BY <2>1, <2>3
    <3>2. \A x \in reps : Gap(x) = d => near[2] >= x[2]
      BY <1>1, <3>1
    <3> QED
      BY <3>2
  <2> QED
    BY <2>2, <2>3
<1>4. \A q \in reps : \/ Gap(r) < Gap(q)
                      \/ Gap(r) = Gap(q) /\ r[2] >= q[2]
  BY <1>1, <1>2, <1>3
<1> QED
  BY <1>4 DEF Representative

(* vertexFor gives every corner a node, within the tolerance of it.         *)
LEMMA UnifiedIsNear ==
  ASSUME NEW faces \in Loops, Tolerance \in Nat
  PROVE  /\ DOMAIN Unified(faces) = Refs(faces)
         /\ \A c \in Refs(faces) :
              Unified(faces)[c] \in Corner /\ Near(Unified(faces)[c], CornerAt(faces, c), Tolerance)
<1> DEFINE joined == [c \in Refs(faces) |-> {d \in Refs(faces) :
                       Sooner(d, c) /\ Joins(CornerAt(faces, d), CornerAt(faces, c))}]
           isRep == CHOOSE isRep : isRep = [c \in Refs(faces) |-> \A d \in joined[c] : ~isRep[d]]
           reps(c) == {CornerAt(faces, d) : d \in {d \in joined[c] : isRep[d]}}
           Node(c) == IF reps(c) = {} THEN CornerAt(faces, c)
                      ELSE Representative(reps(c), CornerAt(faces, c))
<1>1. Unified(faces) = [c \in Refs(faces) |-> Node(c)]
  BY DEF Unified
<1>2. ASSUME NEW c \in Refs(faces)
      PROVE  Node(c) \in Corner /\ Near(Node(c), CornerAt(faces, c), Tolerance)
  <2> DEFINE p == CornerAt(faces, c)
  <2>1. p \in Corner /\ \A d \in Refs(faces) : CornerAt(faces, d) \in Corner
    BY RefsAre
  <2>2. \A r \in reps(c) : r \in Corner /\ Near(r, p, Tolerance)
    BY <2>1 DEF Joins
  <2> HIDE DEF reps
  <2>3. CASE reps(c) = {}
    <3>1. Near(p, p, Tolerance)
      BY <2>1 DEF Near, Abs, Corner
    <3> QED
      BY <2>1, <2>3, <3>1
  <2>4. CASE reps(c) # {}
    <3>1. \A r \in reps(c) : r[1] = p[1]
      BY <2>2 DEF Near
    <3> HIDE DEF p
    <3>2. Representative(reps(c), p) \in reps(c)
      BY <2>1, <2>2, <2>4, <3>1, RepresentativeExists
    <3> QED
      BY <2>2, <2>4, <3>2 DEF p
  <2> QED
    BY <2>3, <2>4
<1> HIDE DEF Node
<1> QED
  BY <1>1, <1>2

(* The loops that sew makes are one for each face, of nodes.                *)
LEMMA NodeLoopsType ==
  ASSUME NEW faces \in Loops, Tolerance \in Nat
  PROVE  NodeLoops(faces) \in Loops /\ DOMAIN NodeLoops(faces) = DOMAIN faces
<1> DEFINE node == Unified(faces)
           Renamed(f) == [i \in DOMAIN faces[f] |-> node[<<f, i>>]]
<1>1. faces \in Seq(Seq(Corner)) /\ DOMAIN faces = 1..Len(faces) /\ Len(faces) \in Nat
  BY DEF Loops
<1>2. ASSUME NEW f \in DOMAIN faces PROVE Kept(Collapsed(Renamed(f), 0)) \in Seq(Corner)
  <2>1. faces[f] \in Seq(Corner)
    BY <1>1
  <2>2. Len(faces[f]) \in Nat /\ DOMAIN faces[f] = 1..Len(faces[f])
    BY <2>1
  <2>3. \A i \in DOMAIN faces[f] : node[<<f, i>>] \in Corner
    BY RefsAre, UnifiedIsNear
  <2> HIDE DEF node
  <2>4. Renamed(f) \in [1..Len(faces[f]) -> Corner]
    BY <2>2, <2>3
  <2> HIDE DEF Renamed
  <2>5. Renamed(f) \in Seq(Corner)
    BY <2>2, <2>4, ListOf
  <2>6. Collapsed(Renamed(f), 0) \in Seq(Corner)
    BY <2>5, CollapsedType
  <2> QED
    BY <2>6, KeptType
<1>3. NodeLoops(faces) = [f \in DOMAIN faces |-> Kept(Collapsed(Renamed(f), 0))]
  BY DEF NodeLoops
<1> HIDE DEF Renamed
<1>4. NodeLoops(faces) \in [1..Len(faces) -> Seq(Corner)]
  BY <1>1, <1>2, <1>3
<1>5. NodeLoops(faces) \in Seq(Seq(Corner))
  BY <1>1, <1>4, ListOf
<1> QED
  BY <1>1, <1>4, <1>5 DEF Loops

------------------------------------------------------------------------------
(* Bridging: a corner moves no further than the bound.                      *)

(* Distances are natural numbers, so that there is a least of several.      *)
LEMMA DistanceIsNat ==
  ASSUME NEW p \in Corner, NEW q \in Corner, Feature \in Nat
  PROVE  Distance(p, q) \in Nat
BY DEF Distance, Corner, Abs

(* A corner with corners of other faces has a nearest one among them.       *)
LEMMA NearestExists ==
  ASSUME NEW faces \in Loops, NEW c \in Refs(faces), Others(faces, c) # {}, Feature \in Nat
  PROVE  NearestCrossFace(faces, c) \in Others(faces, c)
<1> DEFINE O == Others(faces, c)
           Dist(d) == Distance(CornerAt(faces, d), CornerAt(faces, c))
           Gaps == {Dist(d) : d \in O}
           g == CHOOSE x \in Gaps : \A y \in Gaps : x <= y
           Closest == {d \in O : Dist(d) = g}
           ff == CHOOSE x \in {d[1] : d \in Closest} : \A y \in {d[1] : d \in Closest} : x <= y
           InFirst == {d \in Closest : d[1] = ff}
           places == {d[2] : d \in InFirst}
<1>1. \A d \in O : Dist(d) \in Nat /\ d \in Refs(faces) /\ d[1] \in Nat /\ d[2] \in Nat /\ d = <<d[1], d[2]>>
  BY RefsAre, DistanceIsNat DEF Others
<1>2. g \in Gaps /\ \A d \in O : g <= Dist(d)
  <2>1. Gaps \in SUBSET Nat /\ Gaps # {}
    BY <1>1
  <2>2. \E x \in Gaps : \A y \in Gaps : x <= y
    BY <2>1, LeastNumber
  <2> QED
    BY <2>2
<1>3. Closest # {}
  BY <1>2
<1> HIDE DEF g
<1>4. ff \in {d[1] : d \in Closest} /\ \A d \in Closest : ff <= d[1]
  <2>1. {d[1] : d \in Closest} \in SUBSET Nat /\ {d[1] : d \in Closest} # {}
    BY <1>1, <1>3
  <2>2. \E x \in {d[1] : d \in Closest} : \A y \in {d[1] : d \in Closest} : x <= y
    BY <2>1, LeastNumber
  <2> QED
    BY <2>2
<1>5. InFirst # {}
  BY <1>4
<1> HIDE DEF ff
<1>6. PICK d \in InFirst : \A e \in InFirst : d[2] <= e[2]
  <2>1. places \in SUBSET Nat /\ places # {}
    BY <1>1, <1>5
  <2>2. PICK x \in places : \A y \in places : x <= y
    BY <2>1, LeastNumber
  <2> QED
    BY <2>2
<1>7. \A e \in O : Dist(d) < Dist(e) \/ (Dist(d) = Dist(e) /\ ~Sooner(e, d))
  <2> TAKE e \in O
  <2>1. d \in O /\ Dist(d) = g /\ d[1] = ff
    BY <1>6
  <2>2. CASE Dist(e) # g
    BY <1>1, <1>2, <2>1, <2>2
  <2>3. CASE Dist(e) = g
    <3>1. ff <= e[1] /\ (e[1] = ff => d[2] <= e[2])
      BY <1>4, <1>6, <2>3
    <3>2. ~Sooner(e, d)
      BY <1>1, <2>1, <3>1 DEF Sooner
    <3> QED
      BY <2>1, <2>3, <3>2
  <2> QED
    BY <2>2, <2>3
<1>8. d \in O
  BY <1>6
<1> HIDE DEF O
<1>9. NearestCrossFace(faces, c) = CHOOSE d_1 \in O : \A e \in O :
        Dist(d_1) < Dist(e) \/ (Dist(d_1) = Dist(e) /\ ~Sooner(e, d_1))
  BY DEF NearestCrossFace, O
<1> QED
  BY <1>7, <1>8, <1>9 DEF O

(* Bridging moves one corner no further than the bound: onto the corner it  *)
(* is nearest to, or half way there.                                        *)
LEMMA SnappedIsNear ==
  ASSUME NEW faces \in Loops, NEW c \in Refs(faces),
         opts.budget \in Nat, Tolerance \in Nat, Feature \in Nat \ {0}
  PROVE  Snapped(faces, c) \in Corner /\ Near(Snapped(faces, c), CornerAt(faces, c), EffectiveBound)
<1> DEFINE p == CornerAt(faces, c)
           d == NearestCrossFace(faces, c)
           q == CornerAt(faces, d)
           gap == Distance(p, q)
<1>1. EffectiveBound \in Nat /\ EffectiveBound <= Feature
  BY DEF EffectiveBound, Lesser
<1>2. p \in Corner /\ Near(p, p, EffectiveBound)
  BY <1>1, RefsAre DEF Near, Abs, Corner
<1>3. CASE Snapped(faces, c) = p
  BY <1>2, <1>3
<1>4. CASE Snapped(faces, c) # p
  <2>1. Others(faces, c) # {} /\ ~(gap > EffectiveBound)
    BY <1>4 DEF Snapped
  <2>2. d \in Refs(faces)
    BY <2>1, NearestExists DEF Others
  <2>3. q \in Corner
    BY <2>2, RefsAre
  <2>4. Snapped(faces, c) \in {q, <<p[1], (p[2] + q[2]) \div 2>>}
    BY <1>4 DEF Snapped
  <2> HIDE DEF p, q, d
  <2>5. gap \in Nat
    BY <1>2, <2>3, DistanceIsNat
  <2>6. p[1] = q[1] /\ Abs(p[2] - q[2]) <= EffectiveBound
    BY <1>1, <2>1, <2>5 DEF Distance
  <2>7. p = <<p[1], p[2]>> /\ q = <<q[1], q[2]>> /\ p[1] \in DOMAIN Position
        /\ p[2] \in Int /\ q[2] \in Int
    BY <1>2, <2>3 DEF Corner
  <2>8. CASE Snapped(faces, c) = q
    BY <1>1, <2>3, <2>6, <2>7, <2>8 DEF Near, Abs, p
  <2>9. CASE Snapped(faces, c) = <<p[1], (p[2] + q[2]) \div 2>>
    <3>1. (p[2] + q[2]) \div 2 \in Int
          /\ Abs(((p[2] + q[2]) \div 2) - p[2]) <= EffectiveBound
      BY <1>1, <2>6, <2>7 DEF Abs
    <3>2. <<p[1], (p[2] + q[2]) \div 2>> \in Corner
      BY <2>7, <3>1 DEF Corner
    <3> QED
      BY <2>9, <3>1, <3>2 DEF Near, p
  <2> QED
    BY <2>4, <2>8, <2>9
<1> QED
  BY <1>3, <1>4

(* Bridging a soup leaves each corner in its place, moved within the bound. *)
LEMMA BridgeGapsType ==
  ASSUME NEW faces \in Loops, opts.budget \in Nat, Tolerance \in Nat, Feature \in Nat \ {0}
  PROVE  /\ BridgeGaps(faces) \in Loops
         /\ Refs(BridgeGaps(faces)) = Refs(faces)
         /\ \A c \in Refs(faces) :
              Near(CornerAt(BridgeGaps(faces), c), CornerAt(faces, c), EffectiveBound)
<1> DEFINE made == BridgeGaps(faces)
           Moved(f) == [i \in DOMAIN faces[f] |-> Snapped(faces, <<f, i>>)]
<1>1. faces \in Seq(Seq(Corner)) /\ DOMAIN faces = 1..Len(faces) /\ Len(faces) \in Nat
  BY DEF Loops
<1>2. made = [f \in DOMAIN faces |-> Moved(f)]
  BY DEF BridgeGaps
<1>3. ASSUME NEW f \in DOMAIN faces PROVE Moved(f) \in Seq(Corner)
  <2>1. faces[f] \in Seq(Corner)
    BY <1>1
  <2>2. Len(faces[f]) \in Nat /\ DOMAIN faces[f] = 1..Len(faces[f])
    BY <2>1
  <2>3. \A i \in DOMAIN faces[f] : Snapped(faces, <<f, i>>) \in Corner
    BY RefsAre, SnappedIsNear
  <2>4. Moved(f) \in [1..Len(faces[f]) -> Corner]
    BY <2>2, <2>3
  <2> HIDE DEF Moved
  <2> QED
    BY <2>2, <2>4, ListOf
<1>4. \A f \in DOMAIN faces : DOMAIN Moved(f) = DOMAIN faces[f]
  OBVIOUS
<1>5. \A f \in DOMAIN faces : \A i \in DOMAIN faces[f] : Moved(f)[i] = Snapped(faces, <<f, i>>)
  OBVIOUS
<1> HIDE DEF Moved, made
<1>6. made \in [1..Len(faces) -> Seq(Corner)] /\ DOMAIN made = DOMAIN faces
  BY <1>1, <1>2, <1>3
<1>7. made \in Loops
  <2>1. made \in Seq(Seq(Corner))
    BY <1>1, <1>6, ListOf
  <2> QED
    BY <2>1 DEF Loops
<1>8. \A f \in DOMAIN faces : DOMAIN made[f] = DOMAIN faces[f]
  BY <1>2, <1>4
<1>9. Refs(made) = Refs(faces)
  BY <1>6, <1>8 DEF Refs
<1>10. ASSUME NEW c \in Refs(faces)
       PROVE  Near(CornerAt(made, c), CornerAt(faces, c), EffectiveBound)
  <2>1. c[1] \in DOMAIN faces /\ c[2] \in DOMAIN faces[c[1]] /\ c = <<c[1], c[2]>>
    BY RefsAre
  <2>2. CornerAt(made, c) = Snapped(faces, c)
    BY <1>2, <1>5, <2>1 DEF CornerAt
  <2> QED
    BY <2>2, SnappedIsNear
<1> QED
  BY <1>7, <1>9, <1>10 DEF made

------------------------------------------------------------------------------
(* A soup has finitely many sides, and finitely many rings of them.         *)

(* A soup has finitely many corners.                                        *)
LEMMA RefsFinite ==
  ASSUME NEW loops \in Loops
  PROVE  IsFiniteSet(Refs(loops))
<1> DEFINE at == [f \in DOMAIN loops |-> {<<f, i>> : i \in DOMAIN loops[f]}]
           T == {at[f] : f \in DOMAIN loops}
<1>1. Len(loops) \in Nat /\ DOMAIN loops = 1..Len(loops)
  BY DEF Loops
<1>2. IsFiniteSet(DOMAIN loops)
  BY <1>1, FS_Interval
<1>3. IsFiniteSet(T)
  <2>1. at \in Surjection(DOMAIN loops, T)
    BY DEF Surjection
  <2> HIDE DEF at, T
  <2> QED
    BY <1>2, <2>1, FS_Surjection
<1>4. ASSUME NEW f \in DOMAIN loops PROVE IsFiniteSet(at[f])
  <2> DEFINE place == [i \in DOMAIN loops[f] |-> <<f, i>>]
  <2>1. Len(loops[f]) \in Nat /\ DOMAIN loops[f] = 1..Len(loops[f])
    <3>1. loops[f] \in Seq(Corner)
      BY DEF Loops
    <3> QED
      BY <3>1
  <2>2. IsFiniteSet(DOMAIN loops[f])
    BY <2>1, FS_Interval
  <2>3. place \in Surjection(DOMAIN loops[f], at[f])
    BY DEF Surjection
  <2> HIDE DEF place, at
  <2> QED
    BY <2>2, <2>3, FS_Surjection
<1>5. \A t \in T : IsFiniteSet(t)
  BY <1>4
<1>6. Refs(loops) = UNION T
  BY DEF Refs
<1> HIDE DEF T
<1> QED
  BY <1>3, <1>5, <1>6, FS_UNION

(* The corner after one of a loop is one of the loop.                       *)
LEMMA NextIsCorner ==
  ASSUME NEW L \in Seq(Corner), NEW i \in DOMAIN L
  PROVE  NextOf(L, i) \in Corner
<1>1. i \in 1..Len(L) /\ Len(L) \in Nat
  OBVIOUS
<1>2. (i % Len(L)) + 1 \in 1..Len(L)
  BY <1>1
<1>3. \A k \in 1..Len(L) : L[k] \in Corner
  OBVIOUS
<1> QED
  BY <1>2, <1>3 DEF NextOf

(* There are finitely many sides, and each is a set of nodes.               *)
LEMMA SidesAre ==
  ASSUME NEW loops \in Loops
  PROVE  /\ IsFiniteSet(Sides(loops))
         /\ \A e \in Sides(loops) : IsFiniteSet(e) /\ e \subseteq Corner
<1> DEFINE side == [c \in Refs(loops) |-> Side(loops, c)]
<1>1. side \in Surjection(Refs(loops), Sides(loops))
  BY DEF Surjection, Sides
<1>2. IsFiniteSet(Sides(loops))
  <2> HIDE DEF side
  <2> QED
    BY <1>1, RefsFinite, FS_Surjection
<1>3. ASSUME NEW c \in Refs(loops) PROVE IsFiniteSet(Side(loops, c)) /\ Side(loops, c) \subseteq Corner
  <2> DEFINE a == CornerAt(loops, c)
             b == NextOf(loops[c[1]], c[2])
  <2>1. a \in Corner /\ c[1] \in DOMAIN loops /\ c[2] \in DOMAIN loops[c[1]]
    BY RefsAre
  <2>2. loops[c[1]] \in Seq(Corner)
    BY <2>1 DEF Loops
  <2>3. b \in Corner
    BY <2>1, <2>2, NextIsCorner
  <2>4. Side(loops, c) = {a} \cup {b}
    BY DEF Side
  <2> HIDE DEF a, b
  <2>5. IsFiniteSet({a} \cup {b})
    BY FS_Singleton, FS_Union
  <2> QED
    BY <2>1, <2>3, <2>4, <2>5
<1> QED
  BY <1>2, <1>3 DEF Sides

(* How a walk goes on: to a neighbour where it has not been.                *)
Longer(es, L) == IF Onward(es, L) = {} THEN L ELSE Append(L, CHOOSE u \in Onward(es, L) : TRUE)

(* A longer walk is along nodes too.                                        *)
LEMMA LongerType ==
  ASSUME NEW E, NEW es, Ends(es) \subseteq E, NEW L \in Seq(E)
  PROVE  Longer(es, L) \in Seq(E)
<1>1. CASE Onward(es, L) = {}
  BY <1>1 DEF Longer
<1>2. CASE Onward(es, L) # {}
  <2> DEFINE u == CHOOSE u \in Onward(es, L) : TRUE
  <2>1. u \in Onward(es, L)
    BY <1>2
  <2>2. u \in E
    BY <2>1 DEF Onward, Ends, Incident
  <2> HIDE DEF u
  <2>3. Append(L, u) \in Seq(E)
    BY <2>2
  <2> QED
    BY <1>2, <2>3 DEF u, Longer
<1> QED
  BY <1>1, <1>2

(* So it does from any node.                                               *)
WalkStepwise(es, v) ==
  /\ Walk(es, v)[0] = <<v>>
  /\ \A i \in 1..Cardinality(Ends(es)) : Walk(es, v)[i] = Longer(es, Walk(es, v)[i - 1])

(* It is the walk that its recursion says.                                  *)
LEMMA WalkSteps ==
  ASSUME NEW E, NEW es, IsFiniteSet(Ends(es)), Ends(es) \subseteq E, NEW v \in E
  PROVE  WalkStepwise(es, v)
<1> DEFINE n == Cardinality(Ends(es))
           S == Seq(E)
           s0 == <<v>>
           step == [i \in 1..n |-> [L \in S |-> Longer(es, L)]]
           Body(walk) == [i \in 0..n |-> IF i = 0 THEN <<v>> ELSE Longer(es, walk[i - 1])]
           walk == Walk(es, v)
<1>1. n \in Nat
  BY FS_CardinalityType
<1>2. s0 \in S
  OBVIOUS
<1>3. \A L \in S : Longer(es, L) \in S
  BY LongerType
<1>4. walk = CHOOSE w : w = Body(w)
  BY DEF Walk, Longer
<1> HIDE DEF S, n
<1>5. step \in [1..n -> [S -> S]] /\ \A i \in 1..n : \A L \in S : step[i][L] = Longer(es, L)
  BY <1>3
<1> HIDE DEF step, s0
<1>6. Iterates(S, n, s0, step)
  BY <1>1, <1>2, <1>5, IterationExists
<1>7. PICK g \in [0..n -> S] : g[0] = s0 /\ \A i \in 1..n : g[i] = step[i][g[i - 1]]
  BY <1>6 DEF Iterates
<1>8. \A i \in 1..n : g[i] = Longer(es, g[i - 1])
  <2> TAKE i \in 1..n
  <2>1. i - 1 \in 0..n
    BY <1>1
  <2> QED
    BY <1>5, <1>7, <2>1
<1>9. g = Body(g)
  <2>1. \A i \in 0..n : g[i] = IF i = 0 THEN <<v>> ELSE Longer(es, g[i - 1])
    <3>1. \A i \in 0..n : i # 0 => i \in 1..n
      BY <1>1
    <3> QED
      BY <1>7, <1>8, <3>1 DEF s0
  <2>2. g = [i \in 0..n |-> g[i]]
    BY <1>7
  <2> QED
    BY <2>1, <2>2
<1>10. walk = Body(walk)
  BY <1>4, <1>9
<1>11. 0 \in 0..n /\ \A i \in 1..n : i \in 0..n /\ i # 0
  BY <1>1
<1> HIDE DEF walk
<1>12. walk[0] = <<v>> /\ \A i \in 1..n : walk[i] = Longer(es, walk[i - 1])
  BY <1>10, <1>11
<1> QED
  BY <1>12 DEF WalkStepwise, walk, n

(* A walk along the boundary is a loop of nodes.                            *)
LEMMA RingType ==
  ASSUME NEW es, IsFiniteSet(Ends(es)), Ends(es) \subseteq Corner, NEW v \in Corner
  PROVE  Ring(es, v) \in Seq(Corner)
<1> DEFINE n == Cardinality(Ends(es))
           E == Corner
           S == Seq(E)
           walk == Walk(es, v)
<1>1. n \in Nat /\ v \in E /\ Ends(es) \subseteq E
  BY FS_CardinalityType
<1> HIDE DEF E
<1>2. WalkStepwise(es, v)
  BY <1>1, WalkSteps
<1>3. walk[0] = <<v>> /\ \A i \in 1..n : walk[i] = Longer(es, walk[i - 1])
  BY <1>2 DEF WalkStepwise
<1>4. <<v>> \in S /\ \A L \in S : Longer(es, L) \in S
  BY <1>1, LongerType
<1> HIDE DEF S, n, walk
<1>5. \A i \in 0..n : walk[i] \in S
  BY <1>1, <1>3, <1>4, IterationStays
<1>6. n \in 0..n
  BY <1>1
<1> QED
  BY <1>5, <1>6 DEF Ring, walk, n, S, E

(* SetToSeq lists each element of a finite set, once.                       *)
LEMMA Listed ==
  ASSUME NEW R, IsFiniteSet(R)
  PROVE  LET s == SetToSeq(R)
         IN  /\ s \in Seq(R)
             /\ \A x \in R : \E i \in DOMAIN s : s[i] = x
             /\ \A i, j \in DOMAIN s : s[i] = s[j] => i = j
<1> DEFINE s == SetToSeq(R)
           n == Cardinality(R)
           I == 1..n
<1>1. PICK m \in Nat : ExistsBijection(1..m, R)
  BY FS_NatBijection
<1>2. n = m
  BY <1>1, FS_CountingElements
<1>3. PICK f : f \in Bijection(1..m, R)
  BY <1>1 DEF ExistsBijection
<1>4. f \in [1..n -> R] /\ IsInjective(f)
  BY <1>2, <1>3 DEF Bijection, Injection, IsInjective
<1>5. s \in [1..n -> R] /\ IsInjective(s)
  BY <1>4 DEF SetToSeq
<1> HIDE DEF s
<1>6. n \in Nat
  BY FS_CardinalityType
<1>7. Cardinality(I) = n
  BY <1>6, FS_Interval
<1> HIDE DEF n, I
<1>8. s \in Injection(I, R)
  BY <1>5 DEF Injection, I, IsInjective
<1>9. s \in Surjection(I, R)
  BY <1>7, <1>8, FS_Injection DEF n
<1>10. \A x \in R : \E i \in I : s[i] = x
  BY <1>9 DEF Surjection
<1>11. s \in Seq(R) /\ DOMAIN s = I
  BY <1>5, <1>6, ListOf DEF I
<1> QED
  BY <1>5, <1>10, <1>11 DEF s, IsInjective

(* There are finitely many rings.                                           *)
LEMMA RingsFinite ==
  ASSUME NEW es, IsFiniteSet(Ends(es))
  PROVE  IsFiniteSet(Rings(es))
<1> DEFINE V == {v \in Ends(es) : v = CHOOSE u \in Met(Ring(es, v)) : TRUE}
           ring == [v \in V |-> Ring(es, v)]
           T == {ring[v] : v \in V}
<1>1. IsFiniteSet(V)
  BY FS_Subset
<1>2. ring \in Surjection(V, T)
  BY DEF Surjection
<1>3. Rings(es) = {} \/ Rings(es) = T
  BY DEF Rings
<1> HIDE DEF V, ring
<1>4. IsFiniteSet(T)
  BY <1>1, <1>2, FS_Surjection
<1> QED
  BY <1>3, <1>4, FS_EmptySet

(* The caps are loops of the nodes of the boundary.                         *)
LEMMA CapsType ==
  ASSUME NEW es, IsFiniteSet(Ends(es)), Ends(es) \subseteq Corner
  PROVE  \A caps \in Caps(es) : caps \in Loops
<1> DEFINE R == Rings(es)
<1>1. IsFiniteSet(R)
  BY RingsFinite
<1>2. \A v \in Ends(es) : Ring(es, v) \in Seq(Corner)
  BY RingType
<1>3. R \subseteq Seq(Corner)
  BY <1>2 DEF Rings
<1>4. \A caps \in Caps(es) : caps \in {<<>>, SetToSeq(R)}
  BY DEF Caps
<1> HIDE DEF R
<1>5. SetToSeq(R) \in Seq(R)
  BY <1>1, Listed
<1>6. SetToSeq(R) \in Loops /\ <<>> \in Loops
  BY <1>3, <1>5 DEF Loops
<1> QED
  BY <1>4, <1>6

(* So they are for the boundary of any shell.                               *)
LEMMA BoundaryCaps ==
  ASSUME NEW loops \in Loops
  PROVE  \A caps \in Caps(Boundary(loops)) : caps \in Loops
<1>1. Boundary(loops) \subseteq Sides(loops)
  BY DEF Boundary
<1>2. IsFiniteSet(Boundary(loops))
  BY <1>1, SidesAre, FS_Subset
<1>3. IsFiniteSet(Ends(Boundary(loops))) /\ Ends(Boundary(loops)) \subseteq Corner
  BY <1>1, <1>2, SidesAre, FS_UNION DEF Ends
<1> QED
  BY <1>3, CapsType

------------------------------------------------------------------------------
(* The type invariant.                                                      *)

Early == {"clean", "sew", "bridge", "cap"}
HealTypeOK ==
  /\ soup \in Soups /\ opts \in Options
  /\ phase \in Early \cup {"orient", "done"}
  /\ working \in Loops /\ shell \in Loops
  /\ phase \in Early => reached = {}
  /\ phase # "done" => verdict = "none"
  /\ phase = "orient" \/ verdict = "Healed" =>
       reversed \in [DOMAIN shell -> BOOLEAN] /\ reached \subseteq Faces(shell)

(* What the assumption on the inputs says of the constants.                 *)
LEMMA ConstantsAre ==
  /\ Tolerance \in Nat /\ Feature \in Nat \ {0} /\ Soups \subseteq Loops
  /\ \A o \in Options : o.budget \in Nat
BY SoupsAssumption DEF Loops, Corner

(* The call is a soup and the options of its caller.                        *)
LEMMA TypeInit == HealInit => HealTypeOK
<1> SUFFICES ASSUME HealInit PROVE HealTypeOK
  OBVIOUS
<1>1. <<>> \in Loops
  BY DEF Loops
<1> QED
  BY <1>1 DEF HealInit, HealTypeOK, Early

(* Every pass leaves soups and shells.                                      *)
LEMMA TypeStep == HealTypeOK /\ [HealNext]_healVars => HealTypeOK'
<1> SUFFICES ASSUME HealTypeOK, [HealNext]_healVars PROVE HealTypeOK'
  OBVIOUS
<1>0. /\ soup \in Soups /\ opts \in Options
      /\ working \in Loops /\ shell \in Loops /\ soup \in Loops
      /\ opts.budget \in Nat /\ Tolerance \in Nat /\ Feature \in Nat \ {0}
  BY ConstantsAre DEF HealTypeOK
<1>1. CASE Clean
  <2>1. working' \in Loops
    BY <1>0, <1>1, RemoveDegenerateType DEF Clean
  <2>2. phase' \in {"done", "sew"} /\ verdict' # "Healed" /\ (phase' = "sew" => verdict' = "none")
    BY <1>1 DEF Clean, Answer, Proceed, HealTypeOK
  <2>3. phase = "clean" /\ reached = {} /\ UNCHANGED <<soup, opts, shell, reversed, reached>>
    BY <1>1 DEF Clean, HealTypeOK, Early
  <2> QED
    BY <1>0, <2>1, <2>2, <2>3 DEF HealTypeOK, Early
<1>2. CASE Sew
  <2>1. shell' \in Loops
    BY <1>0, <1>2, NodeLoopsType DEF Sew
  <2>2. phase' \in {"done", "bridge", "cap"} /\ verdict' # "Healed" /\ (phase' # "done" => verdict' = "none")
    BY <1>2 DEF Sew, Answer, Proceed, HealTypeOK
  <2>3. phase = "sew" /\ reached = {} /\ UNCHANGED <<soup, opts, working, reversed, reached>>
    BY <1>2 DEF Sew, HealTypeOK, Early
  <2> QED
    BY <1>0, <2>1, <2>2, <2>3 DEF HealTypeOK, Early
<1>3. CASE BridgesGaps
  <2>1. working' \in Loops
    BY <1>0, <1>3, BridgeGapsType DEF BridgesGaps
  <2>2. shell' \in Loops
    BY <1>0, <1>3, <2>1, NodeLoopsType DEF BridgesGaps
  <2>3. phase' = "cap" /\ verdict' = "none" /\ reached = {}
        /\ UNCHANGED <<soup, opts, reversed, reached>>
    BY <1>3 DEF BridgesGaps, Proceed, HealTypeOK, Early
  <2> QED
    BY <1>0, <2>1, <2>2, <2>3 DEF HealTypeOK, Early
<1>4. CASE Cap
  <2>1. working' \in Loops
    <3>1. \A caps \in Caps(Boundary(shell)) : caps \in Loops
      BY <1>0, BoundaryCaps
    <3>2. <<>> \in Loops
      BY DEF Loops
    <3>3. PICK more \in Loops : working' = working \o more
      BY <1>4, <3>1, <3>2 DEF Cap
    <3>4. working \o more \in Loops
      BY <1>0, <3>3 DEF Loops
    <3> QED
      BY <3>3, <3>4
  <2>2. shell' \in Loops
    BY <1>0, <1>4, <2>1, NodeLoopsType DEF Cap
  <2>3. phase' \in {"done", "orient"} /\ verdict' # "Healed" /\ (phase' = "orient" => verdict' = "none")
    BY <1>4 DEF Cap, Answer, Proceed, HealTypeOK
  <2>4. reversed' \in [DOMAIN shell' -> BOOLEAN] /\ reached' = {} /\ UNCHANGED <<soup, opts>>
    BY <1>4 DEF Cap, HealTypeOK, Early
  <2> QED
    BY <1>0, <2>1, <2>2, <2>3, <2>4 DEF HealTypeOK, Early
<1>5. CASE MakeConsistent
  <2>1. PICK f \in Turn :
          /\ reversed' = [g \in DOMAIN shell |->
                            IF g \in Fresh(f) /\ Conflict(f, g) THEN ~reversed[g] ELSE reversed[g]]
          /\ reached' = reached \cup {f} \cup Fresh(f)
    BY <1>5 DEF MakeConsistent
  <2>2. UNCHANGED <<soup, opts, phase, working, shell, verdict, residual>> /\ phase = "orient"
    BY <1>5 DEF MakeConsistent
  <2>3. reversed \in [DOMAIN shell -> BOOLEAN] /\ reached \subseteq Faces(shell)
    BY <2>2 DEF HealTypeOK
  <2>4. Turn \subseteq Faces(shell) /\ Fresh(f) \subseteq Faces(shell)
    BY <2>3 DEF Turn, Frontier, Fresh, Unreached
  <2>5. reached' \subseteq Faces(shell)
    BY <2>1, <2>3, <2>4
  <2>6. reversed' \in [DOMAIN shell -> BOOLEAN]
    <3>1. \A g \in DOMAIN shell :
            (IF g \in Fresh(f) /\ Conflict(f, g) THEN ~reversed[g] ELSE reversed[g]) \in BOOLEAN
      BY <2>3
    <3> QED
      BY <2>1, <3>1, Zenon
  <2>7. Faces(shell)' = Faces(shell) /\ DOMAIN shell' = DOMAIN shell
    BY <2>2 DEF Faces
  <2> QED
    BY <1>0, <2>2, <2>5, <2>6, <2>7 DEF HealTypeOK, Early
<1>6. CASE Verify
  <2>1. UNCHANGED <<soup, opts, working, shell, reached>> /\ phase = "orient" /\ phase' = "done"
    BY <1>6 DEF Verify, Answer
  <2>2. reversed \in [DOMAIN shell -> BOOLEAN] /\ reached \subseteq Faces(shell)
    BY <2>1 DEF HealTypeOK
  <2>3. reversed' \in [DOMAIN shell -> BOOLEAN]
    <3>1. [f \in DOMAIN shell |-> ~reversed[f]] \in [DOMAIN shell -> BOOLEAN]
      BY <2>2
    <3> QED
      BY <1>6, <2>2, <3>1, Zenon DEF Verify
  <2>4. Faces(shell)' = Faces(shell) /\ DOMAIN shell' = DOMAIN shell
    BY <2>1 DEF Faces
  <2> QED
    BY <1>0, <2>1, <2>2, <2>3, <2>4 DEF HealTypeOK, Early
<1>7. CASE UNCHANGED healVars
  BY <1>7 DEF HealTypeOK, healVars, Faces
<1> QED
  BY <1>1, <1>2, <1>3, <1>4, <1>5, <1>6, <1>7 DEF HealNext, HealDone

(* The soups and the shells are lists of loops of corners throughout.       *)
THEOREM HealTypeCorrect == HealSpec => []HealTypeOK
BY TypeInit, TypeStep, PTL DEF HealSpec

------------------------------------------------------------------------------
(* Nothing moves far.                                                       *)

Given == RemoveDegenerate(soup)
Bound == Lesser(opts.budget, Feature)

(* Bridges are built on the soup as it was cleaned, and caps are added at   *)
(* its end.                                                                 *)
StaysPut ==
  /\ phase \in {"sew", "bridge"} => working = Given
  /\ phase # "clean" =>
       \A c \in Refs(Given) :
         c \in Refs(working) /\ Near(CornerAt(working, c), CornerAt(Given, c), Bound)

(* No pass moves a corner beyond the bound: cleaning comes first, bridging  *)
(* moves once, capping only appends faces.                                  *)
LEMMA StepsStayPut == HealTypeOK /\ StaysPut /\ [HealNext]_healVars => StaysPut'
<1> SUFFICES ASSUME HealTypeOK, StaysPut, [HealNext]_healVars PROVE StaysPut'
  OBVIOUS
<1>0. /\ working \in Loops /\ shell \in Loops /\ soup \in Loops /\ Given \in Loops
      /\ opts.budget \in Nat /\ Tolerance \in Nat /\ Feature \in Nat \ {0}
      /\ Bound \in Nat
  BY ConstantsAre, RemoveDegenerateType DEF HealTypeOK, Given, Bound, Lesser
<1>s. soup' = soup /\ opts' = opts
  BY DEF HealNext, healVars, Clean, Sew, BridgesGaps, Cap, MakeConsistent, Verify, HealDone
<1>g. Given' = Given /\ Bound' = Bound
  BY <1>s DEF Given, Bound
<1>1. CASE Clean
  <2>1. working' = Given /\ phase' \in {"done", "sew"}
    BY <1>1 DEF Clean, Given, Answer, Proceed
  <2>2. \A c \in Refs(Given) : Near(CornerAt(Given, c), CornerAt(Given, c), Bound)
    BY <1>0, RefsAre DEF Near, Abs, Corner
  <2> HIDE DEF Given, Bound
  <2> QED
    BY <1>g, <2>1, <2>2 DEF StaysPut, CornerAt, Refs
<1>2. CASE Sew
  <2>1. working' = working /\ phase = "sew"
    BY <1>2 DEF Sew
  <2>2. Refs(working)' = Refs(working)
    BY <2>1 DEF Refs
  <2>3. \A c : CornerAt(working, c)' = CornerAt(working, c) /\ CornerAt(Given, c)' = CornerAt(Given, c)
    BY <1>g, <2>1 DEF CornerAt
  <2>4. Refs(Given)' = Refs(Given)
    BY <1>g DEF Refs
  <2> HIDE DEF Given, Bound
  <2> QED
    BY <1>g, <2>1, <2>2, <2>3, <2>4 DEF StaysPut
<1>3. CASE BridgesGaps
  <2>1. working = Given /\ working' = BridgeGaps(working) /\ phase' = "cap"
    BY <1>3 DEF BridgesGaps, Proceed, StaysPut
  <2>2. /\ Refs(BridgeGaps(working)) = Refs(Given)
        /\ \A c \in Refs(Given) :
             Near(CornerAt(BridgeGaps(working), c), CornerAt(Given, c), EffectiveBound)
    BY <1>0, <2>1, BridgeGapsType
  <2>3. EffectiveBound = Bound
    BY DEF EffectiveBound, Bound
  <2>4. \A c \in Refs(Given) :
          c \in Refs(working') /\ Near(CornerAt(working', c), CornerAt(Given, c), Bound)
    BY <2>1, <2>2, <2>3
  <2>5. phase' \notin {"sew", "bridge"}
    BY <2>1
  <2> HIDE DEF Given, Bound
  <2> QED
    BY <1>g, <2>4, <2>5 DEF StaysPut
<1>4. CASE Cap
  <2>1. phase = "cap" /\ phase' \notin {"sew", "bridge"}
    BY <1>4 DEF Cap, Answer, Proceed
  <2>2. PICK more \in Loops : working' = working \o more
    <3>1. PICK caps \in IF opts.capAll \/ opts.capOne THEN Caps(Boundary(shell)) ELSE {<<>>} :
            working' = working \o caps
      BY <1>4 DEF Cap
    <3>2. \A given \in Caps(Boundary(shell)) : given \in Loops
      BY <1>0, BoundaryCaps
    <3>3. <<>> \in Loops
      BY DEF Loops
    <3> QED
      BY <3>1, <3>2, <3>3
  <2>3. \A f \in DOMAIN working : f \in DOMAIN (working \o more) /\ (working \o more)[f] = working[f]
    BY <1>0 DEF Loops
  <2>4. \A c \in Refs(working) : c \in Refs(working') /\ CornerAt(working', c) = CornerAt(working, c)
    <3> TAKE c \in Refs(working)
    <3>1. c[1] \in DOMAIN working /\ c[2] \in DOMAIN working[c[1]] /\ c = <<c[1], c[2]>>
      BY <1>0, RefsAre
    <3>2. c[1] \in DOMAIN working' /\ working'[c[1]] = working[c[1]]
      BY <2>2, <2>3, <3>1
    <3> QED
      BY <3>1, <3>2 DEF Refs, CornerAt
  <2>5. \A c \in Refs(Given) :
          c \in Refs(working') /\ Near(CornerAt(working', c), CornerAt(Given, c), Bound)
    BY <2>1, <2>4 DEF StaysPut
  <2> HIDE DEF Given, Bound
  <2> QED
    BY <1>g, <2>1, <2>5 DEF StaysPut
<1>5. CASE MakeConsistent \/ Verify \/ UNCHANGED healVars
  <2>1. working' = working /\ (phase' = phase \/ (phase = "orient" /\ phase' = "done"))
    BY <1>5 DEF MakeConsistent, Verify, Answer, healVars
  <2>2. Refs(working)' = Refs(working) /\ Refs(Given)' = Refs(Given)
    BY <1>g, <2>1 DEF Refs
  <2>3. \A c : CornerAt(working, c)' = CornerAt(working, c) /\ CornerAt(Given, c)' = CornerAt(Given, c)
    BY <1>g, <2>1 DEF CornerAt
  <2> HIDE DEF Given, Bound
  <2> QED
    BY <1>g, <2>1, <2>2, <2>3 DEF StaysPut
<1> QED
  BY <1>1, <1>2, <1>3, <1>4, <1>5 DEF HealNext, HealDone

(* Whatever the passes do, they move no corner further than a bridge and    *)
(* the tolerance allow.                                                     *)
THEOREM CornersStayNear == HealSpec => []HealedStaysNear
<1>1. HealInit => StaysPut
  BY DEF HealInit, StaysPut
<1>2. HealTypeOK /\ StaysPut => HealedStaysNear
  <2> SUFFICES ASSUME HealTypeOK, StaysPut, phase \in {"cap", "done"}, NEW c \in Refs(Given)
               PROVE  Near(Unified(working)[c], CornerAt(Given, c), Tolerance + Bound)
    BY DEF HealedStaysNear, Given, Bound
  <2> DEFINE node == Unified(working)[c]
             p == CornerAt(working, c)
             q == CornerAt(Given, c)
  <2>0. /\ working \in Loops /\ soup \in Loops /\ Given \in Loops
        /\ opts.budget \in Nat /\ Tolerance \in Nat /\ Feature \in Nat \ {0} /\ Bound \in Nat
    BY ConstantsAre, RemoveDegenerateType DEF HealTypeOK, Given, Bound, Lesser
  <2>1. c \in Refs(working) /\ Near(p, q, Bound)
    BY DEF StaysPut
  <2>2. node \in Corner /\ Near(node, p, Tolerance)
    BY <2>0, <2>1, UnifiedIsNear
  <2>3. p \in Corner /\ q \in Corner
    BY <2>0, <2>1, RefsAre
  <2> HIDE DEF node, p, q, Bound
  <2>4. Near(node, q, Tolerance + Bound)
    BY <2>0, <2>1, <2>2, <2>3 DEF Near, Abs, Corner
  <2> QED
    BY <2>4 DEF node, q
<1> QED
  BY <1>1, <1>2, TypeInit, TypeStep, StepsStayPut, PTL DEF HealSpec

------------------------------------------------------------------------------
(* Sides and how faces run them.                                            *)

Windings == [DOMAIN shell -> BOOLEAN]
Turned(r) == <<r[2], r[1]>>

(* A run is along the side; a face that is turned over runs it back.        *)
RunsAre ==
  \A c \in Refs(shell) :
    /\ c[1] \in Faces(shell) /\ c[1] \in DOMAIN shell
    /\ \A rev \in Windings :
         /\ Run(c, rev) = <<Run(c, rev)[1], Run(c, rev)[2]>>
         /\ Side(shell, c) = {Run(c, rev)[1], Run(c, rev)[2]}
         /\ \A other \in Windings :
              /\ rev[c[1]] = other[c[1]] => Run(c, rev) = Run(c, other)
              /\ rev[c[1]] # other[c[1]] => Run(c, rev) = Turned(Run(c, other))

(* Which follows from Run, whatever the shell.                              *)
LEMMA HowRunsAre ==
  ASSUME shell \in Loops
  PROVE  RunsAre
<1> SUFFICES ASSUME NEW c \in Refs(shell)
             PROVE  /\ c[1] \in Faces(shell) /\ c[1] \in DOMAIN shell
                    /\ \A rev \in Windings :
                         /\ Run(c, rev) = <<Run(c, rev)[1], Run(c, rev)[2]>>
                         /\ Side(shell, c) = {Run(c, rev)[1], Run(c, rev)[2]}
                         /\ \A other \in Windings :
                              /\ rev[c[1]] = other[c[1]] => Run(c, rev) = Run(c, other)
                              /\ rev[c[1]] # other[c[1]] => Run(c, rev) = Turned(Run(c, other))
  BY DEF RunsAre
<1> DEFINE a == CornerAt(shell, c)
           b == NextOf(shell[c[1]], c[2])
<1>1. c[1] \in DOMAIN shell /\ c[2] \in DOMAIN shell[c[1]]
  BY RefsAre
<1>2. c[1] \in Faces(shell)
  <2>1. shell[c[1]] # <<>>
    BY <1>1
  <2> QED
    BY <1>1, <2>1 DEF Faces
<1>3. \A rev : Run(c, rev) = IF rev[c[1]] THEN <<b, a>> ELSE <<a, b>>
  BY DEF Run
<1>4. Side(shell, c) = {a, b}
  BY DEF Side
<1>5. \A rev \in Windings : rev[c[1]] \in BOOLEAN
  BY <1>1 DEF Windings
<1> HIDE DEF a, b
<1> QED
  BY <1>1, <1>2, <1>3, <1>4, <1>5 DEF Turned

(* Two runs of one side that differ are opposite, and its ends differ.      *)
LEMMA OppositeRuns ==
  ASSUME NEW x, NEW y, NEW u, NEW w, {x, y} = {u, w}, <<x, y>> # <<u, w>>
  PROVE  u = y /\ w = x /\ x # y
OBVIOUS

(* A neighbour reached over a shared side is turned over if it is wound     *)
(* otherwise than in an orientation that the face agrees with.              *)
LEMMA NeighbourIsSettled ==
  ASSUME shell \in Loops, reversed \in Windings, NEW o \in Windings, WindsOneWay(o),
         NEW f \in Faces(shell), reversed[f] = o[f], NEW g \in Faces(shell), g # f,
         Shared(f, g) # {}
  PROVE  Conflict(f, g) <=> reversed[g] # o[g]
<1> DEFINE i == CHOOSE i \in Shared(f, g) : \A k \in Shared(f, g) : i <= k
           c == <<f, i>>
<1>1. RunsAre
  BY HowRunsAre
<1>2. i \in Shared(f, g)
  <2>1. Shared(f, g) \in SUBSET Nat
    <3>1. shell[f] \in Seq(Corner)
      BY DEF Loops, Faces
    <3> QED
      BY <3>1 DEF Shared
  <2>2. \E x \in Shared(f, g) : \A y \in Shared(f, g) : x <= y
    BY <2>1, LeastNumber
  <2> QED
    BY <2>2
<1>3. Conflict(f, g) <=> \E k \in DOMAIN shell[g] : Run(<<g, k>>, reversed) = Run(c, reversed)
  BY DEF Conflict, RunsAlong
<1> HIDE DEF i
<1>4. PICK k0 \in DOMAIN shell[g] : Side(shell, <<g, k0>>) = Side(shell, c)
  BY <1>2 DEF Shared, SidesOf
<1>5. c \in Refs(shell) /\ c[1] = f
  BY <1>2, RefsAre DEF Shared, Faces
<1>6. \A k \in DOMAIN shell[g] : <<g, k>> \in Refs(shell) /\ <<g, k>>[1] = g
  BY RefsAre DEF Faces
<1> HIDE DEF c
<1>7. Run(c, reversed) = Run(c, o)
  BY <1>1, <1>5 DEF RunsAre
<1>8. \A k \in DOMAIN shell[g] : Run(<<g, k>>, o) # Run(c, o)
  BY <1>5, <1>6 DEF WindsOneWay
<1>9. CASE reversed[g] = o[g]
  <2>1. \A k \in DOMAIN shell[g] : Run(<<g, k>>, reversed) = Run(<<g, k>>, o)
    BY <1>1, <1>6, <1>9 DEF RunsAre
  <2> QED
    BY <1>3, <1>7, <1>8, <1>9, <2>1
<1>10. CASE reversed[g] # o[g]
  <2> DEFINE r == Run(c, o)
             s == Run(<<g, k0>>, o)
  <2>1. r = <<r[1], r[2]>> /\ s = <<s[1], s[2]>> /\ {r[1], r[2]} = {s[1], s[2]} /\ r # s
    BY <1>1, <1>4, <1>5, <1>6, <1>8 DEF RunsAre
  <2>2. Run(<<g, k0>>, reversed) = Turned(s)
    BY <1>1, <1>6, <1>10 DEF RunsAre
  <2> HIDE DEF r, s
  <2>3. s[1] = r[2] /\ s[2] = r[1]
    BY <2>1, OppositeRuns
  <2>4. Turned(s) = r
    BY <2>1, <2>3 DEF Turned
  <2> QED
    BY <1>3, <1>7, <1>10, <2>2, <2>4 DEF r
<1> QED
  BY <1>9, <1>10

(* Turning over a set of faces that shares no side with the others leaves   *)
(* a soup wound one way.                                                    *)
LEMMA TurningApart ==
  ASSUME shell \in Loops, NEW o \in Windings, WindsOneWay(o), NEW p \in Windings,
         NEW S, \A f \in Faces(shell) : p[f] # o[f] <=> f \in S,
         \A c, d \in Refs(shell) : c[1] \in S /\ d[1] \notin S => Side(shell, c) # Side(shell, d)
  PROVE  WindsOneWay(p)
<1> SUFFICES ASSUME NEW c \in Refs(shell), NEW d \in Refs(shell), c # d,
                    Run(c, p) = Run(d, p)
             PROVE  FALSE
  BY DEF WindsOneWay
<1>1. RunsAre
  BY HowRunsAre
<1>2. Run(c, o) # Run(d, o)
  BY DEF WindsOneWay
<1>3. Side(shell, c) = Side(shell, d) /\ c[1] \in Faces(shell) /\ d[1] \in Faces(shell)
  BY <1>1 DEF RunsAre
<1>4. c[1] \in S <=> d[1] \in S
  BY <1>3
<1>5. CASE c[1] \notin S
  <2>1. Run(c, p) = Run(c, o) /\ Run(d, p) = Run(d, o)
    BY <1>1, <1>3, <1>4, <1>5 DEF RunsAre
  <2> QED
    BY <1>2, <2>1
<1>6. CASE c[1] \in S
  <2> DEFINE r == Run(c, o)
             s == Run(d, o)
  <2>1. Run(c, p) = Turned(r) /\ Run(d, p) = Turned(s)
    BY <1>1, <1>3, <1>4, <1>6 DEF RunsAre
  <2>2. r = <<r[1], r[2]>> /\ s = <<s[1], s[2]>>
    BY <1>1 DEF RunsAre
  <2>3. r # s
    BY <1>2
  <2> HIDE DEF r, s
  <2>4. Turned(r) = Turned(s)
    BY <2>1
  <2> QED
    BY <2>2, <2>3, <2>4 DEF Turned
<1> QED
  BY <1>5, <1>6

(* So does turning over none of the faces, or all of them.                  *)
LEMMA TurningNone ==
  ASSUME shell \in Loops, NEW o \in Windings, WindsOneWay(o), NEW p \in Windings,
         \A f \in Faces(shell) : p[f] = o[f]
  PROVE  WindsOneWay(p)
<1> DEFINE None == {}
<1>1. \A f \in Faces(shell) : p[f] # o[f] <=> f \in None
  OBVIOUS
<1>2. \A c, d \in Refs(shell) : c[1] \in None /\ d[1] \notin None => Side(shell, c) # Side(shell, d)
  OBVIOUS
<1> HIDE DEF None
<1> QED
  BY <1>1, <1>2, TurningApart

(* All of them: the reversal of an inward shell in verify.                  *)
LEMMA TurningAll ==
  ASSUME shell \in Loops, NEW o \in Windings, WindsOneWay(o), NEW p \in Windings,
         NEW q, q = [f \in DOMAIN shell |-> ~p[f]], \A f \in Faces(shell) : p[f] = o[f]
  PROVE  WindsOneWay(q)
<1>1. q \in Windings
  BY DEF Windings
<1>2. \A f \in Faces(shell) : f \in DOMAIN shell /\ p[f] \in BOOLEAN /\ q[f] = ~p[f]
  BY DEF Faces, Windings
<1>3. \A f \in Faces(shell) : q[f] # o[f] <=> f \in Faces(shell)
  BY <1>2
<1>4. \A c, d \in Refs(shell) :
        c[1] \in Faces(shell) /\ d[1] \notin Faces(shell) => Side(shell, c) # Side(shell, d)
  BY HowRunsAre DEF RunsAre
<1> QED
  BY <1>1, <1>3, <1>4, TurningApart

------------------------------------------------------------------------------
(* What is healed is wound one way, if that can be.                         *)

(* An orientation of the soup that the visited faces agree with.            *)
Fits(o) == WindsOneWay(o) /\ \A f \in reached : reversed[f] = o[f]
SomeFits == \E o \in Windings : Fits(o)
Oriented ==
  /\ phase = "orient" /\ Orientable => SomeFits
  /\ Healed => Watertight /\ (Orientable => WindsOneWay(reversed))

(* A visit keeps the orientation if the face visited agrees with it.        *)
LEMMA VisitFits ==
  ASSUME shell \in Loops, reversed \in Windings, reached \subseteq Faces(shell),
         NEW o \in Windings, Fits(o), NEW f \in Faces(shell), reversed[f] = o[f],
         shell' = shell, reached' = reached \cup {f} \cup Fresh(f),
         reversed' = [g \in DOMAIN shell |->
                        IF g \in Fresh(f) /\ Conflict(f, g) THEN ~reversed[g] ELSE reversed[g]]
  PROVE  SomeFits'
<1>1. Windings' = Windings /\ WindsOneWay(o)'
  BY DEF Fits, WindsOneWay, Windings, Refs, Run, CornerAt
<1>2. ASSUME NEW g \in reached' PROVE reversed'[g] = o[g]
  <2>1. g \in DOMAIN shell /\ reversed[g] \in BOOLEAN /\ o[g] \in BOOLEAN
    BY <1>2 DEF Faces, Fresh, Unreached, Windings
  <2>2. CASE g \in Fresh(f)
    <3>1. g \in Faces(shell) /\ g # f /\ Shared(f, g) # {}
      BY <2>2 DEF Fresh, Unreached
    <3>2. Conflict(f, g) <=> reversed[g] # o[g]
      BY <3>1, NeighbourIsSettled DEF Fits
    <3>3. reversed'[g] = IF Conflict(f, g) THEN ~reversed[g] ELSE reversed[g]
      BY <2>1, <2>2, Zenon
    <3>4. CASE reversed[g] = o[g]
      BY <3>2, <3>3, <3>4
    <3>5. CASE reversed[g] # o[g]
      <4>1. reversed'[g] = ~reversed[g]
        BY <3>2, <3>3, <3>5
      <4>2. (~reversed[g]) = o[g]
        BY <2>1, <3>5
      <4> QED
        BY <4>1, <4>2
    <3> QED
      BY <3>4, <3>5
  <2>3. CASE g \notin Fresh(f)
    <3>1. reversed'[g] = reversed[g]
      BY <2>1, <2>3, Zenon
    <3>2. g \in reached \/ g = f
      BY <1>2, <2>3
    <3> QED
      BY <3>1, <3>2 DEF Fits
  <2> QED
    BY <2>2, <2>3
<1>3. Fits(o)'
  BY <1>1, <1>2 DEF Fits
<1> QED
  BY <1>1, <1>3 DEF SomeFits

(* When no visited face has a neighbour left, an orientation can be turned  *)
(* over on the faces that are left, to agree with the next one.             *)
LEMMA SeedFits ==
  ASSUME shell \in Loops, reversed \in Windings, reached \subseteq Faces(shell),
         SomeFits, Frontier = {}, NEW f \in Unreached
  PROVE  \E o \in Windings : Fits(o) /\ o[f] = reversed[f]
<1>1. PICK o \in Windings : Fits(o)
  BY DEF SomeFits
<1>2. CASE o[f] = reversed[f]
  BY <1>1, <1>2
<1>3. CASE o[f] # reversed[f]
  <2> DEFINE p == [g \in DOMAIN shell |-> IF g \in reached THEN o[g] ELSE ~o[g]]
  <2>1. f \in DOMAIN shell /\ f \notin reached /\ Faces(shell) \subseteq DOMAIN shell
        /\ \A g \in DOMAIN shell : o[g] \in BOOLEAN /\ reversed[g] \in BOOLEAN
    BY DEF Unreached, Faces, Windings
  <2>2. p \in Windings
    BY <2>1 DEF Windings
  <2>3. \A g \in Faces(shell) : p[g] # o[g] <=> g \in Unreached
    BY <2>1 DEF Unreached
  <2>4. p[f] = reversed[f]
    BY <1>3, <2>1
  <2>5. \A g \in reached : p[g] = o[g]
    BY <2>1
  <2> HIDE DEF p
  <2>6. ASSUME NEW c \in Refs(shell), NEW d \in Refs(shell), c[1] \in Unreached, d[1] \notin Unreached
        PROVE  Side(shell, c) # Side(shell, d)
    <3>1. /\ c[1] \in DOMAIN shell /\ c[2] \in DOMAIN shell[c[1]] /\ c = <<c[1], c[2]>>
          /\ d[1] \in DOMAIN shell /\ d[2] \in DOMAIN shell[d[1]] /\ d = <<d[1], d[2]>>
      BY RefsAre
    <3>2. d[1] \in reached /\ c[1] # d[1]
      <4>1. d[1] \in Faces(shell)
        BY HowRunsAre DEF RunsAre
      <4> QED
        BY <2>6, <4>1 DEF Unreached
    <3>3. Shared(d[1], c[1]) = {}
      BY <2>6, <3>2 DEF Frontier, Fresh
    <3>4. Side(shell, d) \notin SidesOf(c[1])
      BY <3>1, <3>3 DEF Shared
    <3> QED
      BY <3>1, <3>4 DEF SidesOf
  <2>7. WindsOneWay(p)
    BY <1>1, <2>2, <2>3, <2>6, TurningApart DEF Fits
  <2> QED
    BY <1>1, <2>2, <2>4, <2>5, <2>7 DEF Fits
<1> QED
  BY <1>2, <1>3

(* A visit of the flood, a new seed, the reversal of the whole shell: each  *)
(* leaves an orientation that the visited faces agree with.                 *)
LEMMA OrientedStep == HealTypeOK /\ Oriented /\ [HealNext]_healVars => Oriented'
<1> SUFFICES ASSUME HealTypeOK, Oriented, [HealNext]_healVars PROVE Oriented'
  OBVIOUS
<1>0. /\ shell \in Loops /\ (phase # "done" => verdict = "none")
      /\ phase = "orient" \/ verdict = "Healed" =>
           reversed \in Windings /\ reached \subseteq Faces(shell)
  BY DEF HealTypeOK, Windings
<1>1. CASE Clean \/ Sew \/ BridgesGaps
  <2>1. phase' # "orient" /\ verdict' # "Healed"
    BY <1>0, <1>1 DEF Clean, Sew, BridgesGaps, Answer, Proceed
  <2> QED
    BY <2>1 DEF Oriented, Healed
<1>2. CASE Cap
  <2>1. verdict' # "Healed" /\ reached' = {}
    BY <1>0, <1>2 DEF Cap, Answer, Proceed, HealTypeOK, Early
  <2>2. Orientable' => SomeFits'
    BY <2>1 DEF Orientable, SomeFits, Fits, Windings
  <2> QED
    BY <2>1, <2>2 DEF Oriented, Healed
<1>3. CASE MakeConsistent
  <2>1. PICK f \in Turn :
          /\ reversed' = [g \in DOMAIN shell |->
                            IF g \in Fresh(f) /\ Conflict(f, g) THEN ~reversed[g] ELSE reversed[g]]
          /\ reached' = reached \cup {f} \cup Fresh(f)
    BY <1>3 DEF MakeConsistent
  <2>2. shell' = shell /\ phase = "orient" /\ phase' = "orient"
    BY <1>3 DEF MakeConsistent
  <2>3. reversed \in Windings /\ reached \subseteq Faces(shell) /\ f \in Faces(shell)
    BY <1>0, <2>2 DEF Turn, Frontier, Unreached
  <2>4. Orientable' = Orientable
    BY <2>2 DEF Orientable, WindsOneWay, Refs, Run, CornerAt
  <2>5. ASSUME Orientable PROVE SomeFits'
    <3>1. SomeFits
      BY <2>2, <2>5 DEF Oriented
    <3>2. \E o \in Windings : Fits(o) /\ o[f] = reversed[f]
      <4>1. CASE Frontier = {}
        <5>1. f \in Unreached
          BY <4>1 DEF Turn
        <5> QED
          BY <1>0, <2>3, <3>1, <4>1, <5>1, SeedFits
      <4>2. CASE Frontier # {}
        <5>1. f \in reached
          BY <4>2 DEF Turn, Frontier
        <5> QED
          BY <3>1, <5>1 DEF SomeFits, Fits
      <4> QED
        BY <4>1, <4>2
    <3> QED
      BY <1>0, <2>1, <2>2, <2>3, <3>2, VisitFits
  <2> QED
    BY <2>2, <2>4, <2>5 DEF Oriented, Healed
<1>4. CASE Verify
  <2>1. shell' = shell /\ phase = "orient" /\ phase' = "done" /\ Unreached = {}
    BY <1>4 DEF Verify, Answer
  <2>2. reversed \in Windings /\ Faces(shell) \subseteq reached
    BY <1>0, <2>1 DEF Unreached
  <2>3. Orientable' = Orientable /\ Watertight' = Watertight
        /\ \A rev : WindsOneWay(rev)' <=> \A c, d \in Refs(shell) : c # d => (Run(c, rev) # Run(d, rev))'
    BY <2>1 DEF Orientable, WindsOneWay, Refs, Run, CornerAt, Watertight, Faces, Sides, Uses, On, Side
  <2>4. ASSUME Healed' PROVE Watertight
    BY <1>4, <2>1, <2>4 DEF Verify, Answer, Healed
  <2>5. ASSUME Orientable PROVE WindsOneWay(reversed)'
    <3>1. PICK o \in Windings : Fits(o)
      BY <2>1, <2>5 DEF Oriented, SomeFits
    <3>2. \A f \in Faces(shell) : reversed[f] = o[f] /\ reversed[f] \in BOOLEAN /\ f \in DOMAIN shell
      BY <2>2, <3>1 DEF Fits, Windings, Faces
    <3>3. reversed' = reversed \/ reversed' = [f \in DOMAIN shell |-> ~reversed[f]]
      BY <1>4, Zenon DEF Verify
    <3>4. WindsOneWay(reversed')
      <4>1. CASE reversed' = reversed
        <5>1. WindsOneWay(reversed)
          BY <1>0, <2>2, <3>1, <3>2, TurningNone DEF Fits
        <5> QED
          BY <4>1, <5>1
      <4>2. CASE reversed' = [f \in DOMAIN shell |-> ~reversed[f]]
        BY <1>0, <2>2, <3>1, <3>2, <4>2, TurningAll DEF Fits
      <4> QED
        BY <3>3, <4>1, <4>2
    <3> QED
      BY <2>1, <3>4 DEF WindsOneWay, Refs, Run, CornerAt
  <2> QED
    BY <2>1, <2>3, <2>4, <2>5 DEF Oriented
<1>5. CASE UNCHANGED healVars
  BY <1>5 DEF healVars, Oriented, Healed, Orientable, SomeFits, Fits, Windings, WindsOneWay,
              Refs, Run, CornerAt, Watertight, Faces, Sides, Uses, On, Side
<1> QED
  BY <1>1, <1>2, <1>3, <1>4, <1>5 DEF HealNext, HealDone

(* The set with two elements, and a set of two elements.                    *)
LEMMA TwoElements ==
  ASSUME NEW S
  PROVE  /\ \A x, y : x # y /\ S = {x, y} => IsFiniteSet(S) /\ Cardinality(S) = 2
         /\ IsFiniteSet(S) /\ Cardinality(S) = 2 => \E x, y \in S : x # y /\ S = {x, y}
<1>1. ASSUME NEW x, NEW y, x # y, S = {x, y} PROVE IsFiniteSet(S) /\ Cardinality(S) = 2
  <2> DEFINE A == {x}
  <2>1. IsFiniteSet(A) /\ Cardinality(A) = 1
    BY FS_Singleton
  <2>2. y \notin A /\ S = A \cup {y}
    BY <1>1
  <2> HIDE DEF A
  <2>3. IsFiniteSet(A \cup {y}) /\ Cardinality(A \cup {y}) = Cardinality(A) + 1
    BY <2>1, <2>2, FS_AddElement
  <2> QED
    BY <2>1, <2>2, <2>3
<1>2. ASSUME IsFiniteSet(S), Cardinality(S) = 2 PROVE \E x, y \in S : x # y /\ S = {x, y}
  <2>1. PICK x : x \in S
    <3>1. S # {}
      BY <1>2, FS_EmptySet
    <3> QED
      BY <3>1
  <2>2. IsFiniteSet(S \ {x}) /\ Cardinality(S \ {x}) = 1
    BY <1>2, <2>1, FS_RemoveElement
  <2>3. PICK y : S \ {x} = {y}
    BY <2>2, FS_Singleton
  <2> QED
    BY <2>1, <2>3
<1> QED
  BY <1>1, <1>2

(* Of the places that use a side that is used twice, there are two.         *)
LEMMA UsedTwice ==
  ASSUME shell \in Loops, NEW e \in Sides(shell), Uses(shell, e) = 2
  PROVE  \E c, d \in On(shell, e) : c # d /\ On(shell, e) = {c, d}
<1> DEFINE S == On(shell, e)
<1>1. S \in SUBSET Refs(shell)
  BY DEF On
<1>2. IsFiniteSet(S) /\ Cardinality(S) = 2
  BY <1>1, RefsFinite, FS_Subset DEF Uses
<1> HIDE DEF S
<1>3. \E c, d \in S : c # d /\ S = {c, d}
  BY <1>2, TwoElements
<1> QED
  BY <1>3 DEF S

(* A healed shell is closed and wound one way: every side is run twice, and *)
(* in both directions, if the soup can be wound one way at all.             *)
THEOREM HealedIsWoundOneWay == HealSpec => []HealedIsOriented
<1>1. HealInit => Oriented
  BY DEF HealInit, Oriented, Healed
<1>2. HealTypeOK /\ Oriented => HealedIsOriented
  <2> SUFFICES ASSUME HealTypeOK, Oriented, Healed, Orientable, NEW e \in Sides(shell)
               PROVE  \E c, d \in On(shell, e) :
                        c # d /\ On(shell, e) = {c, d} /\ Against(c, d, reversed)
    BY DEF HealedIsOriented
  <2>1. shell \in Loops /\ reversed \in Windings /\ WindsOneWay(reversed) /\ Uses(shell, e) = 2
    BY DEF HealTypeOK, Oriented, Healed, Windings, Watertight
  <2>2. PICK c, d \in On(shell, e) : c # d /\ On(shell, e) = {c, d}
    BY <2>1, UsedTwice
  <2>3. c \in Refs(shell) /\ d \in Refs(shell) /\ Side(shell, c) = Side(shell, d)
    BY DEF On
  <2> DEFINE r == Run(c, reversed)
             s == Run(d, reversed)
  <2>4. r = <<r[1], r[2]>> /\ s = <<s[1], s[2]>> /\ {r[1], r[2]} = {s[1], s[2]} /\ r # s
    BY <2>1, <2>2, <2>3, HowRunsAre DEF RunsAre, WindsOneWay
  <2> HIDE DEF r, s
  <2>5. s[1] = r[2] /\ s[2] = r[1]
    BY <2>4, OppositeRuns
  <2>6. s = <<r[2], r[1]>>
    BY <2>4, <2>5
  <2>7. Against(c, d, reversed)
    BY <2>6 DEF Against, r, s
  <2> QED
    BY <2>2, <2>7
<1> QED
  BY <1>1, <1>2, TypeInit, TypeStep, OrientedStep, PTL DEF HealSpec

------------------------------------------------------------------------------
(* The nodes of a tight soup: one for each vertex.                          *)

(* Numbers at most one divisor apart have quotients at most one apart.      *)
LEMMA Quotients ==
  ASSUME NEW D \in Nat \ {0}, NEW m \in Nat, NEW n \in Nat
  PROVE  /\ m \div D \in Nat /\ n \div D \in Nat
         /\ m <= n => m \div D <= n \div D
         /\ m <= n + D => m \div D <= (n \div D) + 1
         /\ m < D => m \div D = 0
         /\ m < 2 * D => m \div D <= 1
<1> DEFINE a == m \div D
           b == n \div D
<1>1. a \in Nat /\ b \in Nat /\ a * D <= m /\ n < (b + 1) * D
  OBVIOUS
<1> HIDE DEF a, b
<1>2. (b + 1) * D \in Int /\ (b + 2) * D = (b + 1) * D + D /\ a * D \in Int
  BY <1>1
<1>3. \A x, y \in Nat : x <= y => x * D <= y * D
  OBVIOUS
<1>4. ASSUME m <= n PROVE a <= b
  <2> SUFFICES ASSUME b + 1 <= a PROVE FALSE
    BY <1>1
  <2>1. (b + 1) * D <= a * D
    BY <1>1, <1>3
  <2> QED
    BY <1>1, <1>2, <1>4, <2>1
<1>5. ASSUME m <= n + D PROVE a <= b + 1
  <2> SUFFICES ASSUME b + 2 <= a PROVE FALSE
    BY <1>1
  <2>1. (b + 2) * D <= a * D
    BY <1>1, <1>3
  <2> QED
    BY <1>1, <1>2, <1>5, <2>1
<1>6. ASSUME m < D PROVE a = 0
  <2> SUFFICES ASSUME 1 <= a PROVE FALSE
    BY <1>1
  <2>1. 1 * D <= a * D
    BY <1>1, <1>3
  <2> QED
    BY <1>1, <1>2, <1>6, <2>1
<1>7. ASSUME m < 2 * D PROVE a <= 1
  <2> SUFFICES ASSUME 2 <= a PROVE FALSE
    BY <1>1
  <2>1. 2 * D <= a * D
    BY <1>1, <1>3
  <2> QED
    BY <1>1, <1>2, <1>7, <2>1
<1> QED
  BY <1>1, <1>4, <1>5, <1>6, <1>7 DEF a, b

(* Copies of a vertex within the tolerance of each other lie in one cell or *)
(* in neighbouring ones, but for the two that are rounded apart.            *)
LEMMA CellsMeet ==
  ASSUME Tolerance \in Nat \ {0}, NEW p \in Corner, NEW q \in Corner,
         Near(p, q, Tolerance), ~RoundedApart(p, q)
  PROVE  Joins(p, q)
<1> DEFINE D == 2 * Tolerance
           Half(x) == (2 * Abs(x) + Tolerance) \div D
           Cell(x) == IF x >= 0 THEN Half(x) ELSE -Half(x)
<1>1. CellOf(p) = Cell(p[2]) /\ CellOf(q) = Cell(q[2])
  BY DEF CellOf
<1>2. p[2] \in Int /\ q[2] \in Int
  BY DEF Corner
<1>3. ASSUME NEW x \in Int, NEW y \in Int, x <= y, y - x <= Tolerance,
             ~(2 * y = Tolerance /\ x = -y)
      PROVE  Cell(y) - Cell(x) \in {0, 1}
  <2> DEFINE m == 2 * Abs(y) + Tolerance
             n == 2 * Abs(x) + Tolerance
  <2>1. D \in Nat \ {0} /\ m \in Nat /\ n \in Nat
    BY <1>3 DEF Abs
  <2> HIDE DEF D
  <2>2. m \div D \in Nat /\ n \div D \in Nat
    BY <2>1, Quotients
  <2>3. CASE x >= 0
    <3>1. n <= m /\ m <= n + D
      BY <1>3, <2>3 DEF Abs, D
    <3> HIDE DEF m, n
    <3>2. n \div D <= m \div D /\ m \div D <= (n \div D) + 1
      BY <2>1, <3>1, Quotients
    <3>3. Cell(y) = m \div D /\ Cell(x) = n \div D
      BY <1>3, <2>3 DEF m, n
    <3> HIDE DEF Cell
    <3> QED
      BY <2>2, <3>2, <3>3
  <2>4. CASE y < 0
    <3>1. m <= n /\ n <= m + D
      BY <1>3, <2>4 DEF Abs, D
    <3> HIDE DEF m, n
    <3>2. m \div D <= n \div D /\ n \div D <= (m \div D) + 1
      BY <2>1, <3>1, Quotients
    <3>3. Cell(y) = -(m \div D) /\ Cell(x) = -(n \div D)
      BY <1>3, <2>4 DEF m, n
    <3> HIDE DEF Cell
    <3> QED
      BY <2>2, <3>2, <3>3
  <2>5. CASE x < 0 /\ y >= 0
    <3>1. m < 2 * D /\ n < 2 * D /\ (m < D \/ n < D)
      BY <1>3, <2>5 DEF Abs, D
    <3> HIDE DEF m, n
    <3>2. m \div D <= 1 /\ n \div D <= 1 /\ (m \div D = 0 \/ n \div D = 0)
      BY <2>1, <3>1, Quotients
    <3>3. Cell(y) = m \div D /\ Cell(x) = -(n \div D)
      BY <1>3, <2>5 DEF m, n
    <3> HIDE DEF Cell
    <3> QED
      BY <2>2, <3>2, <3>3
  <2> QED
    BY <1>3, <2>3, <2>4, <2>5
<1>4. ASSUME NEW x \in Int PROVE Cell(x) \in Int
  <2> DEFINE n == 2 * Abs(x) + Tolerance
  <2>1. D \in Nat \ {0} /\ n \in Nat
    BY DEF Abs
  <2> HIDE DEF D, n
  <2>2. n \div D \in Nat
    BY <2>1, Quotients
  <2>3. Cell(x) \in {n \div D, -(n \div D)}
    BY DEF n
  <2> HIDE DEF Cell
  <2> QED
    BY <2>2, <2>3
<1> DEFINE x == p[2]
           y == q[2]
           cx == Cell(x)
           cy == Cell(y)
<1> HIDE DEF Cell
<1>5. Abs(x - y) <= Tolerance /\ ~(y = -x /\ 2 * Abs(x) = Tolerance)
  BY DEF Near, RoundedApart
<1>6. x \in Int /\ y \in Int
  BY <1>2
<1> HIDE DEF x, y
<1>7. cx \in Int /\ cy \in Int
  BY <1>4, <1>6
<1>8. x <= y => cy - cx \in {0, 1}
  <2> SUFFICES ASSUME x <= y PROVE cy - cx \in {0, 1}
    OBVIOUS
  <2>1. y - x <= Tolerance /\ ~(2 * y = Tolerance /\ x = -y)
    BY <1>5, <1>6 DEF Abs
  <2> QED
    BY <1>3, <1>6, <2>1
<1>9. y <= x => cx - cy \in {0, 1}
  <2> SUFFICES ASSUME y <= x PROVE cx - cy \in {0, 1}
    OBVIOUS
  <2>1. x - y <= Tolerance /\ ~(2 * x = Tolerance /\ y = -x)
    BY <1>5, <1>6 DEF Abs
  <2> QED
    BY <1>3, <1>6, <2>1
<1>10. CellOf(p) = cx /\ CellOf(q) = cy
  BY <1>1 DEF x, y
<1> HIDE DEF cx, cy
<1>11. Abs(cx - cy) <= 1
  BY <1>6, <1>7, <1>8, <1>9 DEF Abs
<1> QED
  BY <1>10, <1>11 DEF Joins

Label(faces, c) == CornerAt(faces, c)[1]

(* The first of the copies of a vertex that sew comes to.                   *)
Soonest(faces, s) ==
  /\ s \in Refs(faces)
  /\ \A d \in Refs(faces) : Label(faces, d) = Label(faces, s) /\ d # s => Sooner(s, d) /\ ~Sooner(d, s)
HasSoonest(faces, c) == \E s : Soonest(faces, s) /\ Label(faces, s) = Label(faces, c)

(* There is one for every corner: the least face, and the least place in it.*)
LEMMA SoonestExists ==
  ASSUME NEW faces \in Loops, NEW c \in Refs(faces)
  PROVE  HasSoonest(faces, c)
<1> DEFINE Copies == {d \in Refs(faces) : Label(faces, d) = Label(faces, c)}
           fs == {d[1] : d \in Copies}
<1>1. \A d \in Refs(faces) : d[1] \in Nat /\ d[2] \in Nat /\ d = <<d[1], d[2]>>
  BY RefsAre
<1>2. fs \in SUBSET Nat /\ fs # {}
  BY <1>1
<1>3. PICK f \in fs : \A g \in fs : f <= g
  BY <1>2, LeastNumber
<1> DEFINE In == {d \in Copies : d[1] = f}
           places == {d[2] : d \in In}
<1>4. places \in SUBSET Nat /\ places # {}
  BY <1>1, <1>3
<1>5. PICK i \in places : \A k \in places : i <= k
  BY <1>4, LeastNumber
<1>6. PICK s \in In : s[2] = i
  OBVIOUS
<1>7. s \in Refs(faces) /\ s[1] = f /\ Label(faces, s) = Label(faces, c)
  OBVIOUS
<1>8. ASSUME NEW d \in Refs(faces), Label(faces, d) = Label(faces, s), d # s
      PROVE  Sooner(s, d) /\ ~Sooner(d, s)
  <2>1. d \in Copies /\ f <= d[1] /\ (d[1] = f => s[2] <= d[2])
    BY <1>3, <1>5, <1>6, <1>7, <1>8
  <2>2. d[1] # s[1] \/ d[2] # s[2]
    BY <1>1, <1>7, <1>8
  <2>3. d[1] \in Nat /\ d[2] \in Nat /\ s[1] \in Nat /\ s[2] \in Nat /\ s[1] = f
    BY <1>1, <1>7
  <2> HIDE DEF Copies, In, places, fs
  <2> QED
    BY <2>1, <2>2, <2>3 DEF Sooner
<1> QED
  BY <1>7, <1>8 DEF Soonest, HasSoonest

(* In a tight soup, a node is a corner of the soup, and there is one for    *)
(* each vertex.                                                             *)
OneNodeEach(faces) ==
  /\ \A c \in Refs(faces) :
       \E s \in Refs(faces) : Unified(faces)[c] = CornerAt(faces, s) /\ Label(faces, s) = Label(faces, c)
  /\ \A c, d \in Refs(faces) :
       Label(faces, c) = Label(faces, d) => Unified(faces)[c] = Unified(faces)[d]

(* Of the copies of a vertex the soonest is a representative, and the only  *)
(* one, since all the others join it.                                       *)
LEMMA TightNodes ==
  ASSUME NEW faces \in Loops, Tolerance \in Nat \ {0}, Tight(faces)
  PROVE  OneNodeEach(faces)
<1> DEFINE joined == [c \in Refs(faces) |-> {d \in Refs(faces) :
                       Sooner(d, c) /\ Joins(CornerAt(faces, d), CornerAt(faces, c))}]
           Body(isRep) == [c \in Refs(faces) |-> \A d \in joined[c] : ~isRep[d]]
           isRep == CHOOSE r : r = Body(r)
           reps(c) == {CornerAt(faces, d) : d \in {d \in joined[c] : isRep[d]}}
           Node(c) == IF reps(c) = {} THEN CornerAt(faces, c)
                      ELSE Representative(reps(c), CornerAt(faces, c))
           first == [c \in Refs(faces) |-> Soonest(faces, c)]
<1>1. Unified(faces) = [c \in Refs(faces) |-> Node(c)]
  BY DEF Unified
<1>2. \A c, d \in Refs(faces) :
        d \in joined[c] <=> Sooner(d, c) /\ Label(faces, d) = Label(faces, c)
  <2> SUFFICES ASSUME NEW c \in Refs(faces), NEW d \in Refs(faces)
               PROVE  Joins(CornerAt(faces, d), CornerAt(faces, c)) <=> Label(faces, d) = Label(faces, c)
    OBVIOUS
  <2> DEFINE p == CornerAt(faces, d)
             q == CornerAt(faces, c)
  <2>1. p \in Corner /\ q \in Corner
    BY RefsAre
  <2>2. p[1] = q[1] => Near(p, q, Tolerance) /\ ~RoundedApart(p, q)
    BY DEF Tight
  <2>3. Joins(p, q) => p[1] = q[1]
    BY DEF Joins, Near
  <2> HIDE DEF p, q
  <2>4. Joins(p, q) <=> p[1] = q[1]
    BY <2>1, <2>2, <2>3, CellsMeet
  <2> QED
    BY <2>4 DEF Label, p, q
<1>3. \A c \in Refs(faces) : joined[c] \subseteq Refs(faces)
  OBVIOUS
<1> HIDE DEF joined
<1>4. ASSUME NEW c \in Refs(faces), Soonest(faces, c) PROVE joined[c] = {}
  <2> SUFFICES ASSUME NEW d \in joined[c] PROVE FALSE
    OBVIOUS
  <2>1. d \in Refs(faces) /\ Sooner(d, c) /\ Label(faces, d) = Label(faces, c)
    BY <1>2, <1>3
  <2>2. c[1] \in Nat /\ c[2] \in Nat
    BY RefsAre
  <2>3. d # c
    BY <2>1, <2>2 DEF Sooner
  <2> QED
    BY <1>4, <2>1, <2>3 DEF Soonest
<1>5. ASSUME NEW c \in Refs(faces), ~Soonest(faces, c)
      PROVE  \E s \in joined[c] : Soonest(faces, s)
  <2>1. HasSoonest(faces, c)
    BY SoonestExists
  <2>2. PICK s : Soonest(faces, s) /\ Label(faces, s) = Label(faces, c)
    BY <2>1 DEF HasSoonest
  <2>3. s \in Refs(faces) /\ Sooner(s, c)
    BY <1>5, <2>2 DEF Soonest
  <2> QED
    BY <1>2, <2>2, <2>3
<1>6. first = Body(first)
  <2>1. \A c \in Refs(faces) : Soonest(faces, c) <=> \A d \in joined[c] : ~first[d]
    BY <1>3, <1>4, <1>5
  <2> DEFINE Free(c) == \A d \in joined[c] : ~first[d]
  <2>2. Body(first) = [c \in Refs(faces) |-> Free(c)]
    OBVIOUS
  <2>3. \A c \in Refs(faces) : Soonest(faces, c) <=> Free(c)
    BY <2>1
  <2>4. \A c : Soonest(faces, c) \in BOOLEAN /\ Free(c) \in BOOLEAN
    BY DEF Soonest
  <2>5. \A c \in Refs(faces) : Soonest(faces, c) = Free(c)
    <3> HIDE DEF Free
    <3> QED
      BY <2>3, <2>4
  <2>6. first = [c \in Refs(faces) |-> Soonest(faces, c)]
    OBVIOUS
  <2> HIDE DEF Free, first, Body
  <2> QED
    BY <2>2, <2>5, <2>6, Zenon
<1>7. isRep = Body(isRep)
  BY <1>6
<1> HIDE DEF isRep
<1>8. \A c \in Refs(faces) : isRep[c] = \A d \in joined[c] : ~isRep[d]
  BY <1>7
<1>9. ASSUME NEW s, Soonest(faces, s) PROVE isRep[s]
  <2>1. s \in Refs(faces) /\ joined[s] = {}
    BY <1>4, <1>9 DEF Soonest
  <2> QED
    BY <1>8, <2>1
<1>10. ASSUME NEW c \in Refs(faces), ~Soonest(faces, c) PROVE ~isRep[c]
  BY <1>5, <1>8, <1>9, <1>10
<1>11. ASSUME NEW c \in Refs(faces), NEW s, Soonest(faces, s), Label(faces, s) = Label(faces, c)
       PROVE  Unified(faces)[c] = CornerAt(faces, s)
  <2>1. \A d \in joined[c] : isRep[d] => d = s
    <3> SUFFICES ASSUME NEW d \in joined[c], isRep[d] PROVE d = s
      OBVIOUS
    <3>1. d \in Refs(faces) /\ Soonest(faces, d) /\ Label(faces, d) = Label(faces, s)
      BY <1>2, <1>3, <1>10, <1>11
    <3>2. d # s => Sooner(s, d) /\ ~Sooner(d, s) /\ Sooner(d, s)
      BY <1>11, <3>1 DEF Soonest
    <3> QED
      BY <3>2
  <2>2. Unified(faces)[c] = Node(c)
    BY <1>1
  <2>3. CASE s \in joined[c]
    <3>1. reps(c) = {CornerAt(faces, s)}
      BY <1>9, <1>11, <2>1, <2>3
    <3> DEFINE R == {CornerAt(faces, s)}
               p == CornerAt(faces, c)
    <3>2. R \in SUBSET Corner /\ R # {} /\ p \in Corner /\ \A r \in R : r[1] = p[1]
      <4>1. s \in Refs(faces)
        BY <1>11 DEF Soonest
      <4> QED
        BY <1>11, <4>1, RefsAre DEF Label
    <3>3. Node(c) = Representative(R, p)
      BY <3>1
    <3> HIDE DEF R, p
    <3>4. Representative(R, p) \in R
      BY <3>2, RepresentativeExists
    <3> QED
      BY <2>2, <3>3, <3>4 DEF R
  <2>4. CASE s \notin joined[c]
    <3>1. reps(c) = {}
      BY <2>1, <2>4
    <3>2. c = s
      BY <1>2, <1>11, <2>4 DEF Soonest
    <3> QED
      BY <2>2, <3>1, <3>2
  <2> QED
    BY <2>3, <2>4
<1>12. \A c \in Refs(faces) : \E s \in Refs(faces) :
         /\ Unified(faces)[c] = CornerAt(faces, s) /\ Label(faces, s) = Label(faces, c)
         /\ \A d \in Refs(faces) : Label(faces, d) = Label(faces, c) => Unified(faces)[d] = CornerAt(faces, s)
  <2> TAKE c \in Refs(faces)
  <2>1. HasSoonest(faces, c)
    BY SoonestExists
  <2>2. PICK s : Soonest(faces, s) /\ Label(faces, s) = Label(faces, c)
    BY <2>1 DEF HasSoonest
  <2>3. s \in Refs(faces)
    BY <2>2 DEF Soonest
  <2> QED
    BY <1>11, <2>2, <2>3
<1> QED
  BY <1>12 DEF OneNodeEach

(* The place after one of a loop.                                           *)
LEMMA NextIs ==
  ASSUME NEW E, NEW L \in Seq(E), NEW i \in DOMAIN L
  PROVE  /\ (i % Len(L)) + 1 \in DOMAIN L /\ NextOf(L, i) = L[(i % Len(L)) + 1]
         /\ i < Len(L) => (i % Len(L)) + 1 = i + 1
         /\ i = Len(L) => (i % Len(L)) + 1 = 1
<1>1. i \in 1..Len(L) /\ Len(L) \in Nat
  OBVIOUS
<1>2. /\ (i % Len(L)) + 1 \in 1..Len(L)
      /\ i < Len(L) => (i % Len(L)) + 1 = i + 1
      /\ i = Len(L) => (i % Len(L)) + 1 = 1
  BY <1>1
<1> QED
  BY <1>2 DEF NextOf

(* Loops on which no two corners in a row are copies of one vertex.         *)
Simple(L) == L # <<>> => Len(L) >= 3 /\ \A i \in DOMAIN L : L[i][1] # NextOf(L, i)[1]
AllSimple(loops) == \A f \in DOMAIN loops : Simple(loops[f])

(* A soup of the corners of a tight one is tight.                           *)
LEMMA TightCorners ==
  ASSUME NEW faces, NEW more, Tight(faces),
         \A c \in Refs(more) : \E d \in Refs(faces) : CornerAt(more, c) = CornerAt(faces, d)
  PROVE  Tight(more)
<1> SUFFICES ASSUME NEW c \in Refs(more), NEW d \in Refs(more),
                    CornerAt(more, c)[1] = CornerAt(more, d)[1]
             PROVE  /\ Near(CornerAt(more, c), CornerAt(more, d), Tolerance)
                    /\ ~RoundedApart(CornerAt(more, c), CornerAt(more, d))
  BY DEF Tight
<1>1. PICK x \in Refs(faces) : CornerAt(more, c) = CornerAt(faces, x)
  OBVIOUS
<1>2. PICK y \in Refs(faces) : CornerAt(more, d) = CornerAt(faces, y)
  OBVIOUS
<1> QED
  BY <1>1, <1>2 DEF Tight

(* removeDegenerate leaves a tight soup tight, and simple.                  *)
LEMMA CleanedTight ==
  ASSUME NEW faces \in Loops, Tight(faces)
  PROVE  Tight(RemoveDegenerate(faces)) /\ AllSimple(RemoveDegenerate(faces))
<1> DEFINE G == RemoveDegenerate(faces)
<1>1. G \in Loops /\ DOMAIN G = DOMAIN faces
  BY RemoveDegenerateType DEF RemoveDegenerate
<1>2. ASSUME NEW f \in DOMAIN faces
      PROVE  /\ \A i \in DOMAIN G[f] : \E k \in DOMAIN faces[f] : G[f][i] = faces[f][k]
             /\ G[f] # <<>> => Len(G[f]) >= 3 /\ Apart(G[f], Tolerance)
             /\ G[f] \in Seq(Corner)
  <2> DEFINE L == faces[f]
             E == {L[k] : k \in DOMAIN L}
             C == Collapsed(L, Tolerance)
  <2>1. L \in Seq(Corner) /\ G[f] \in Seq(Corner)
    BY <1>1 DEF Loops
  <2>2. L \in Seq(E)
    <3>1. Len(L) \in Nat /\ L \in [1..Len(L) -> E]
      BY <2>1
    <3> HIDE DEF E, L
    <3> QED
      BY <3>1, ListOf
  <2>3. G[f] = Kept(C)
    BY DEF RemoveDegenerate
  <2>4. C \in Seq(E) /\ Apart(C, Tolerance)
    <3> HIDE DEF E, L
    <3> QED
      BY <2>2, CollapsedIsApart
  <2> HIDE DEF C, G
  <2>5. G[f] = <<>> \/ (G[f] = C /\ Len(C) >= 3)
    BY <2>3 DEF Kept
  <2>6. \A i \in DOMAIN C : C[i] \in E
    <3> HIDE DEF E
    <3> QED
      BY <2>4
  <2> QED
    BY <2>1, <2>4, <2>5, <2>6
<1> HIDE DEF G
<1>3. \A c \in Refs(G) : \E d \in Refs(faces) : CornerAt(G, c) = CornerAt(faces, d)
  <2> TAKE c \in Refs(G)
  <2>1. c[1] \in DOMAIN faces /\ c[2] \in DOMAIN G[c[1]]
    BY <1>1, RefsAre
  <2>2. PICK k \in DOMAIN faces[c[1]] : G[c[1]][c[2]] = faces[c[1]][k]
    BY <1>2, <2>1
  <2>3. <<c[1], k>> \in Refs(faces)
    BY <2>1, RefsAre
  <2> QED
    BY <2>2, <2>3 DEF CornerAt
<1>4. Tight(G)
  BY <1>3, TightCorners
<1>5. ASSUME NEW f \in DOMAIN G, G[f] # <<>>, NEW i \in DOMAIN G[f]
      PROVE  G[f][i][1] # NextOf(G[f], i)[1]
  <2> DEFINE L == G[f]
             k == (i % Len(L)) + 1
  <2>1. L \in Seq(Corner) /\ Len(L) >= 3 /\ Apart(L, Tolerance)
    BY <1>1, <1>2, <1>5
  <2>2. i \in 1..Len(L) /\ Len(L) \in Nat /\ DOMAIN L = 1..Len(L) /\ i \in DOMAIN L
    BY <2>1
  <2>3. k \in DOMAIN L /\ NextOf(L, i) = L[k] /\ (i < Len(L) => k = i + 1) /\ (i = Len(L) => k = 1)
    <3> HIDE DEF L
    <3> QED
      BY <2>1, <2>2, NextIs
  <2> HIDE DEF k
  <2>4. <<f, i>> \in Refs(G) /\ <<f, k>> \in Refs(G)
    BY <1>1, <2>3, RefsAre
  <2>5. CornerAt(G, <<f, i>>) = L[i] /\ CornerAt(G, <<f, k>>) = L[k]
    BY DEF CornerAt
  <2> HIDE DEF L
  <2>6. L[i][1] = L[k][1] => Near(L[i], L[k], Tolerance) /\ Near(L[k], L[i], Tolerance)
    BY <1>4, <2>4, <2>5 DEF Tight
  <2>7. ~Near(L[i], L[k], Tolerance) \/ ~Near(L[k], L[i], Tolerance)
    <3>1. CASE i < Len(L)
      <4>1. i \in 1..(Len(L) - 1)
        BY <2>2, <3>1
      <4>2. k = i + 1 /\ ~Near(L[i], L[i + 1], Tolerance)
        BY <2>1, <2>3, <3>1, <4>1 DEF Apart
      <4> QED
        BY <4>2
    <3>2. CASE i = Len(L)
      BY <2>1, <2>2, <2>3, <3>2 DEF Apart
    <3> QED
      BY <2>2, <3>1, <3>2
  <2> QED
    BY <2>3, <2>6, <2>7 DEF L
<1>6. AllSimple(G)
  BY <1>1, <1>2, <1>5 DEF AllSimple, Simple
<1> QED
  BY <1>4, <1>6 DEF G

(* The shell that sew makes of a soup, corner by corner.                    *)
Sewn(faces, loops) ==
  /\ loops \in Loops /\ DOMAIN loops = DOMAIN faces /\ Refs(loops) = Refs(faces)
  /\ \A f \in DOMAIN faces :
       DOMAIN loops[f] = DOMAIN faces[f] /\ Len(loops[f]) = Len(faces[f])
       /\ (loops[f] = <<>> <=> faces[f] = <<>>)
  /\ \A c \in Refs(faces) : CornerAt(loops, c) = Unified(faces)[c]
  /\ \A c \in Refs(faces) : Label(loops, c) = Label(faces, c)

(* sew drops no corner of a simple soup, for nodes keep their labels.       *)
LEMMA SimpleIsSewn ==
  ASSUME NEW faces \in Loops, Tolerance \in Nat, AllSimple(faces)
  PROVE  Sewn(faces, NodeLoops(faces))
<1> DEFINE node == Unified(faces)
           loops == NodeLoops(faces)
           Renamed(f) == [i \in DOMAIN faces[f] |-> node[<<f, i>>]]
<1>1. loops \in Loops /\ DOMAIN loops = DOMAIN faces
  BY NodeLoopsType
<1>2. \A c \in Refs(faces) : node[c] \in Corner /\ node[c][1] = Label(faces, c)
  BY UnifiedIsNear DEF Near, Label
<1>3. \A f \in DOMAIN faces : loops[f] = Kept(Collapsed(Renamed(f), 0))
  BY DEF NodeLoops
<1> HIDE DEF node, loops
<1>4. ASSUME NEW f \in DOMAIN faces PROVE loops[f] = Renamed(f) /\ Len(Renamed(f)) = Len(faces[f])
  <2> DEFINE L == faces[f]
             R == Renamed(f)
  <2>1. L \in Seq(Corner)
    BY DEF Loops
  <2>2. Len(L) \in Nat /\ DOMAIN L = 1..Len(L)
    BY <2>1
  <2>3. \A i \in DOMAIN L : R[i] \in Corner /\ R[i][1] = L[i][1]
    BY <1>2, RefsAre DEF Label, CornerAt
  <2>4. R \in [1..Len(L) -> Corner]
    BY <2>2, <2>3
  <2> HIDE DEF R, L
  <2>5. R \in Seq(Corner) /\ Len(R) = Len(L)
    BY <2>2, <2>4, ListOf
  <2>6. Apart(R, 0)
    <3>1. ASSUME NEW i \in DOMAIN L, NEW k, k = (i % Len(L)) + 1
          PROVE  ~Near(R[i], R[k], 0) /\ ~Near(R[k], R[i], 0)
      <4>1. L # <<>>
        BY <2>2, <3>1
      <4>2. L[i][1] # NextOf(L, i)[1]
        BY <4>1 DEF AllSimple, Simple, L
      <4>3. NextOf(L, i) = L[k] /\ k \in DOMAIN L
        BY <2>1, <3>1, NextIs
      <4> QED
        BY <2>3, <4>2, <4>3 DEF Near
    <3>2. ASSUME NEW i \in 1..(Len(R) - 1) PROVE ~Near(R[i], R[i + 1], 0)
      <4>1. i \in DOMAIN L /\ i < Len(L)
        BY <2>2, <2>5
      <4>2. (i % Len(L)) + 1 = i + 1
        BY <2>1, <4>1, NextIs
      <4> QED
        BY <3>1, <4>1, <4>2
    <3>3. ASSUME Len(R) > 1 PROVE ~Near(R[1], R[Len(R)], 0)
      <4>1. Len(L) \in DOMAIN L
        BY <2>2, <2>5, <3>3
      <4>2. (Len(L) % Len(L)) + 1 = 1
        BY <2>1, <4>1, NextIs
      <4> QED
        BY <2>5, <3>1, <4>1, <4>2
    <3> QED
      BY <3>2, <3>3 DEF Apart
  <2>7. Collapsed(R, 0) = R
    BY <2>5, <2>6, ApartIsKept
  <2>8. Kept(R) = R
    <3>1. CASE L = <<>>
      <4>1. R = <<>>
        BY <2>5, <3>1
      <4> QED
        BY <4>1 DEF Kept
    <3>2. CASE L # <<>>
      BY <2>5, <3>2 DEF Kept, AllSimple, Simple, L
    <3> QED
      BY <3>1, <3>2
  <2> QED
    BY <1>3, <2>5, <2>7, <2>8 DEF R, L
<1>5. \A f \in DOMAIN faces : /\ DOMAIN loops[f] = DOMAIN faces[f] /\ Len(loops[f]) = Len(faces[f])
                             /\ \A i \in DOMAIN faces[f] : loops[f][i] = node[<<f, i>>]
  BY <1>4
<1>6. \A f \in DOMAIN faces : loops[f] = <<>> <=> faces[f] = <<>>
  <2> TAKE f \in DOMAIN faces
  <2>1. loops[f] \in Seq(Corner) /\ faces[f] \in Seq(Corner)
    BY <1>1 DEF Loops
  <2>2. Len(loops[f]) = Len(faces[f])
    BY <1>5
  <2> QED
    BY <2>1, <2>2
<1>7. Refs(loops) = Refs(faces)
  BY <1>1, <1>5 DEF Refs
<1>8. \A c \in Refs(faces) : CornerAt(loops, c) = node[c]
  <2> TAKE c \in Refs(faces)
  <2>1. c[1] \in DOMAIN faces /\ c[2] \in DOMAIN faces[c[1]] /\ c = <<c[1], c[2]>>
    BY RefsAre
  <2> QED
    BY <1>5, <2>1 DEF CornerAt
<1> QED
  BY <1>1, <1>2, <1>5, <1>6, <1>7, <1>8 DEF Sewn, Label, node, loops

(* In a tight soup a corner has its partner, or the corners of the other    *)
(* faces are copies of other vertices, beyond any bound.                    *)
LEMMA TightStays ==
  ASSUME NEW faces \in Loops, Tight(faces),
         opts.budget \in Nat, Tolerance \in Nat, Feature \in Nat \ {0}
  PROVE  BridgeGaps(faces) = faces
<1>1. ASSUME NEW c \in Refs(faces) PROVE Snapped(faces, c) = CornerAt(faces, c)
  <2> DEFINE p == CornerAt(faces, c)
             d == NearestCrossFace(faces, c)
             q == CornerAt(faces, d)
  <2>1. CASE IsPaired(faces, c) \/ Others(faces, c) = {}
    BY <2>1 DEF Snapped
  <2>2. CASE ~IsPaired(faces, c) /\ Others(faces, c) # {}
    <3>1. d \in Others(faces, c) /\ d \in Refs(faces)
      BY <2>2, NearestExists DEF Others
    <3>2. q[1] # p[1]
      <4>1. ~Near(q, p, Tolerance)
        BY <2>2, <3>1 DEF IsPaired
      <4> QED
        BY <3>1, <4>1 DEF Tight
    <3>3. Distance(p, q) = 4 * Feature
      BY <3>2 DEF Distance
    <3>4. EffectiveBound \in Nat /\ 4 * Feature > EffectiveBound
      BY DEF EffectiveBound, Lesser
    <3> QED
      BY <2>2, <3>3, <3>4 DEF Snapped
  <2> QED
    BY <2>1, <2>2
<1>2. ASSUME NEW f \in DOMAIN faces PROVE [i \in DOMAIN faces[f] |-> Snapped(faces, <<f, i>>)] = faces[f]
  <2>1. faces[f] \in Seq(Corner)
    BY DEF Loops
  <2>2. \A i \in DOMAIN faces[f] : Snapped(faces, <<f, i>>) = faces[f][i]
    <3> TAKE i \in DOMAIN faces[f]
    <3>1. <<f, i>> \in Refs(faces)
      BY RefsAre
    <3> QED
      BY <1>1, <3>1 DEF CornerAt
  <2>3. faces[f] = [i \in DOMAIN faces[f] |-> faces[f][i]]
    BY <2>1
  <2> QED
    BY <2>2, <2>3
<1>3. faces = [f \in DOMAIN faces |-> faces[f]]
  BY DEF Loops
<1> QED
  BY <1>2, <1>3 DEF BridgeGaps

------------------------------------------------------------------------------
(* Loops with the same corners in common have the same sides in common.     *)

(* The place of the corner after one.                                       *)
After(loops, c) == <<c[1], (c[2] % Len(loops[c[1]])) + 1>>

(* A side is that of its corner and of the corner after it.                 *)
LEMMA SideEnds ==
  ASSUME NEW loops \in Loops, NEW c \in Refs(loops)
  PROVE  /\ After(loops, c) \in Refs(loops)
         /\ CornerAt(loops, After(loops, c)) = NextOf(loops[c[1]], c[2])
         /\ Side(loops, c) = {CornerAt(loops, c), CornerAt(loops, After(loops, c))}
<1>1. c[1] \in DOMAIN loops /\ c[2] \in DOMAIN loops[c[1]]
  BY RefsAre
<1>2. loops[c[1]] \in Seq(Corner)
  BY <1>1 DEF Loops
<1>3. (c[2] % Len(loops[c[1]])) + 1 \in DOMAIN loops[c[1]]
      /\ NextOf(loops[c[1]], c[2]) = loops[c[1]][(c[2] % Len(loops[c[1]])) + 1]
  BY <1>1, <1>2, NextIs
<1>4. After(loops, c) \in Refs(loops)
  BY <1>1, <1>3, RefsAre DEF After
<1>5. CornerAt(loops, After(loops, c)) = NextOf(loops[c[1]], c[2])
  BY <1>3 DEF After, CornerAt
<1> QED
  BY <1>4, <1>5 DEF Side

(* Two lists of loops with corners at the same places, that are one node in *)
(* the one when they are one in the other.                                  *)
Alike(a, b) ==
  /\ a \in Loops /\ b \in Loops /\ DOMAIN a = DOMAIN b
  /\ \A f \in DOMAIN a : DOMAIN a[f] = DOMAIN b[f] /\ Len(a[f]) = Len(b[f])
  /\ Refs(a) = Refs(b)
  /\ \A c, d \in Refs(a) : CornerAt(a, c) = CornerAt(a, d) <=> CornerAt(b, c) = CornerAt(b, d)

(* So each side is used at the same places in both.                         *)
LEMMA AlikeSides ==
  ASSUME NEW a, NEW b, Alike(a, b), NEW c \in Refs(a)
  PROVE  On(a, Side(a, c)) = On(b, Side(b, c))
<1>1. ASSUME NEW d \in Refs(a) PROVE Side(a, d) = Side(a, c) <=> Side(b, d) = Side(b, c)
  <2>1. a \in Loops /\ b \in Loops /\ Refs(a) = Refs(b)
    BY DEF Alike
  <2>2. \A x \in Refs(a) : x[1] \in DOMAIN a
    BY <2>1, RefsAre
  <2>3. \A x \in Refs(a) : After(a, x) = After(b, x)
    BY <2>2 DEF After, Alike
  <2> DEFINE cn == After(a, c)
             dn == After(a, d)
  <2>4. cn \in Refs(a) /\ dn \in Refs(a)
        /\ Side(a, c) = {CornerAt(a, c), CornerAt(a, cn)} /\ Side(a, d) = {CornerAt(a, d), CornerAt(a, dn)}
    BY <2>1, SideEnds
  <2>5. Side(b, c) = {CornerAt(b, c), CornerAt(b, cn)} /\ Side(b, d) = {CornerAt(b, d), CornerAt(b, dn)}
    BY <2>1, <2>3, SideEnds
  <2> HIDE DEF cn, dn
  <2>6. \A x, y \in Refs(a) : CornerAt(a, x) = CornerAt(a, y) <=> CornerAt(b, x) = CornerAt(b, y)
    BY DEF Alike
  <2>7. /\ CornerAt(a, c) = CornerAt(a, d) <=> CornerAt(b, c) = CornerAt(b, d)
        /\ CornerAt(a, c) = CornerAt(a, dn) <=> CornerAt(b, c) = CornerAt(b, dn)
        /\ CornerAt(a, cn) = CornerAt(a, d) <=> CornerAt(b, cn) = CornerAt(b, d)
        /\ CornerAt(a, cn) = CornerAt(a, dn) <=> CornerAt(b, cn) = CornerAt(b, dn)
        /\ CornerAt(a, c) = CornerAt(a, cn) <=> CornerAt(b, c) = CornerAt(b, cn)
        /\ CornerAt(a, d) = CornerAt(a, dn) <=> CornerAt(b, d) = CornerAt(b, dn)
    BY <2>4, <2>6
  <2>8. \A x, y, u, w : {x, y} = {u, w} <=> (x = u /\ y = w) \/ (x = w /\ y = u)
    OBVIOUS
  <2> QED
    BY <2>4, <2>5, <2>7, <2>8
<1>2. Refs(a) = Refs(b)
  BY DEF Alike
<1> QED
  BY <1>1, <1>2 DEF On

(* The soup without errors.                                                 *)
LEMMA TrueIs ==
  ASSUME NEW faces \in Loops
  PROVE  /\ True(faces) \in Loops /\ DOMAIN True(faces) = DOMAIN faces
         /\ \A f \in DOMAIN faces :
              /\ DOMAIN True(faces)[f] = DOMAIN faces[f] /\ Len(True(faces)[f]) = Len(faces[f])
              /\ True(faces)[f] = <<>> <=> faces[f] = <<>>
         /\ Refs(True(faces)) = Refs(faces)
         /\ \A c \in Refs(faces) : CornerAt(True(faces), c) = <<Label(faces, c), 0>>
<1> DEFINE Flat(f) == [i \in DOMAIN faces[f] |-> <<faces[f][i][1], 0>>]
           T == True(faces)
<1>1. faces \in Seq(Seq(Corner)) /\ DOMAIN faces = 1..Len(faces) /\ Len(faces) \in Nat
  BY DEF Loops
<1>2. ASSUME NEW f \in DOMAIN faces
      PROVE  /\ Flat(f) \in Seq(Corner) /\ Len(Flat(f)) = Len(faces[f])
             /\ DOMAIN Flat(f) = DOMAIN faces[f] /\ (Flat(f) = <<>> <=> faces[f] = <<>>)
  <2>1. faces[f] \in Seq(Corner)
    BY <1>1
  <2>2. Len(faces[f]) \in Nat /\ DOMAIN faces[f] = 1..Len(faces[f])
        /\ \A i \in DOMAIN faces[f] : faces[f][i] \in Corner
    BY <2>1
  <2>3. \A i \in DOMAIN faces[f] : <<faces[f][i][1], 0>> \in Corner
    BY <2>2 DEF Corner
  <2>4. Flat(f) \in [1..Len(faces[f]) -> Corner]
    BY <2>2, <2>3
  <2> HIDE DEF Flat
  <2>5. Flat(f) \in Seq(Corner) /\ Len(Flat(f)) = Len(faces[f]) /\ DOMAIN Flat(f) = DOMAIN faces[f]
    BY <2>2, <2>4, ListOf
  <2> QED
    BY <2>1, <2>5
<1>3. T = [f \in DOMAIN faces |-> Flat(f)]
  BY DEF True
<1>4. \A f \in DOMAIN faces : \A i \in DOMAIN faces[f] : Flat(f)[i] = <<faces[f][i][1], 0>>
  OBVIOUS
<1> HIDE DEF Flat, T
<1>5. T \in [1..Len(faces) -> Seq(Corner)] /\ DOMAIN T = DOMAIN faces
  BY <1>1, <1>2, <1>3
<1>6. T \in Loops
  <2>1. T \in Seq(Seq(Corner))
    BY <1>1, <1>5, ListOf
  <2> QED
    BY <2>1 DEF Loops
<1>7. \A f \in DOMAIN faces : T[f] = Flat(f)
  BY <1>3
<1>8. Refs(T) = Refs(faces)
  BY <1>2, <1>5, <1>7 DEF Refs
<1>9. \A c \in Refs(faces) : CornerAt(T, c) = <<Label(faces, c), 0>>
  <2> TAKE c \in Refs(faces)
  <2>1. c[1] \in DOMAIN faces /\ c[2] \in DOMAIN faces[c[1]]
    BY RefsAre
  <2> QED
    BY <1>4, <1>7, <2>1 DEF CornerAt, Label
<1> QED
  BY <1>2, <1>5, <1>6, <1>7, <1>8, <1>9 DEF T

(* The shell that sew makes of a tight and simple soup is that of the soup  *)
(* without errors, but for the places of its nodes.                         *)
LEMMA SewnIsTrue ==
  ASSUME NEW faces \in Loops, Tolerance \in Nat \ {0}, Tight(faces), AllSimple(faces)
  PROVE  Sewn(faces, NodeLoops(faces)) /\ Alike(NodeLoops(faces), True(faces))
<1> DEFINE loops == NodeLoops(faces)
<1>1. Sewn(faces, loops)
  BY SimpleIsSewn
<1>2. OneNodeEach(faces)
  BY TightNodes
<1> HIDE DEF loops
<1>3. ASSUME NEW c \in Refs(faces), NEW d \in Refs(faces)
      PROVE  CornerAt(loops, c) = CornerAt(loops, d) <=> CornerAt(True(faces), c) = CornerAt(True(faces), d)
  <2>1. CornerAt(True(faces), c) = <<Label(faces, c), 0>> /\ CornerAt(True(faces), d) = <<Label(faces, d), 0>>
    BY TrueIs
  <2>2. /\ CornerAt(loops, c) = Unified(faces)[c] /\ CornerAt(loops, d) = Unified(faces)[d]
        /\ CornerAt(loops, c)[1] = Label(faces, c) /\ CornerAt(loops, d)[1] = Label(faces, d)
    BY <1>1 DEF Sewn, Label
  <2>3. Label(faces, c) = Label(faces, d) => Unified(faces)[c] = Unified(faces)[d]
    BY <1>2 DEF OneNodeEach
  <2> QED
    BY <2>1, <2>2, <2>3
<1>4. Alike(loops, True(faces))
  BY <1>1, <1>3, TrueIs DEF Alike, Sewn
<1> QED
  BY <1>1, <1>4 DEF loops

------------------------------------------------------------------------------
(* The rings of a boundary on which every node has two sides.               *)

Adjacent(es, u, w) == {u, w} \in es
Regular(es) ==
  /\ IsFiniteSet(Ends(es))
  /\ \A e \in es : \E u, w \in Ends(es) : u # w /\ e = {u, w}
  /\ \A v \in Ends(es) : \E x, y \in Ends(es) :
       x # y /\ x # v /\ y # v /\ \A u : Adjacent(es, v, u) <=> u \in {x, y}

(* A walk is along sides, and nowhere twice.                                *)
Path(es, v, L) ==
  /\ L \in Seq(Ends(es)) /\ Len(L) >= 1 /\ L[1] = v
  /\ \A i, j \in DOMAIN L : L[i] = L[j] => i = j
  /\ \A i \in 1..(Len(L) - 1) : Adjacent(es, L[i], L[i + 1])

(* A walk that can go on is longer by one neighbour.                        *)
LEMMA PathGoesOn ==
  ASSUME NEW es, Regular(es), NEW v, NEW L, Path(es, v, L), Onward(es, L) # {}
  PROVE  Path(es, v, Longer(es, L)) /\ Len(Longer(es, L)) = Len(L) + 1
<1> DEFINE u == CHOOSE u \in Onward(es, L) : TRUE
           M == Append(L, u)
           n == Len(L)
<1>1. u \in Onward(es, L)
  OBVIOUS
<1> HIDE DEF u
<1>2. L \in Seq(Ends(es)) /\ n \in Nat /\ n >= 1 /\ n \in DOMAIN L /\ DOMAIN L = 1..n
  BY DEF Path
<1>3. u \in Ends(es) /\ Adjacent(es, L[n], u) /\ \A i \in DOMAIN L : L[i] # u
  <2>1. PICK e \in es : L[n] \in e /\ u \in e
    BY <1>1 DEF Onward, Ends, Incident
  <2>2. PICK x, y \in Ends(es) : e = {x, y}
    BY DEF Regular
  <2>3. \A i \in DOMAIN L : L[i] # u
    BY <1>1 DEF Onward
  <2>4. e = {L[n], u}
    BY <1>2, <2>1, <2>2, <2>3
  <2> QED
    BY <2>1, <2>2, <2>3, <2>4 DEF Adjacent
<1>4. M \in Seq(Ends(es)) /\ Len(M) = n + 1 /\ M[n + 1] = u /\ DOMAIN M = 1..(n + 1)
      /\ \A i \in 1..n : M[i] = L[i]
  BY <1>2, <1>3
<1> HIDE DEF M, n
<1>5. \A i, j \in DOMAIN M : M[i] = M[j] => i = j
  <2> SUFFICES ASSUME NEW i \in 1..(n + 1), NEW j \in 1..(n + 1), M[i] = M[j] PROVE i = j
    BY <1>4
  <2>1. \A k \in 1..(n + 1) : k = n + 1 \/ k \in 1..n
    BY <1>2
  <2>2. \A k, l \in 1..n : L[k] = L[l] => k = l
    BY <1>2 DEF Path
  <2> QED
    BY <1>2, <1>3, <1>4, <2>1, <2>2
<1>6. \A i \in 1..n : Adjacent(es, M[i], M[i + 1])
  <2> TAKE i \in 1..n
  <2>1. CASE i = n
    BY <1>3, <1>4, <2>1
  <2>2. CASE i # n
    <3>1. i \in 1..(n - 1) /\ i + 1 \in 1..n
      BY <1>2, <2>2
    <3>2. Adjacent(es, L[i], L[i + 1])
      BY <3>1 DEF Path, n
    <3> QED
      BY <1>4, <3>1, <3>2
  <2> QED
    BY <2>1, <2>2
<1>7. M[1] = v
  <2>1. 1 \in 1..n
    BY <1>2
  <2> QED
    BY <1>4, <2>1 DEF Path
<1>8. Path(es, v, M)
  <2>1. Len(M) - 1 = n /\ Len(M) >= 1
    BY <1>2, <1>4
  <2> QED
    BY <1>4, <1>5, <1>6, <1>7, <2>1 DEF Path
<1> QED
  BY <1>4, <1>8 DEF Longer, M, u, n

(* It ends where no neighbour is left, for it has time to go everywhere.    *)
LEMMA WalkEnds ==
  ASSUME NEW es, Regular(es), NEW v \in Ends(es)
  PROVE  Path(es, v, Ring(es, v)) /\ Onward(es, Ring(es, v)) = {}
<1> DEFINE n == Cardinality(Ends(es))
           walk == Walk(es, v)
           T == {i \in Nat : i <= n => /\ Path(es, v, walk[i])
                                       /\ Onward(es, walk[i]) = {} \/ Len(walk[i]) = i + 1}
<1>1. n \in Nat /\ IsFiniteSet(Ends(es))
  BY FS_CardinalityType DEF Regular
<1>2. walk[0] = <<v>> /\ \A i \in 1..n : walk[i] = Longer(es, walk[i - 1])
  <2>1. Ends(es) \subseteq Ends(es)
    OBVIOUS
  <2>2. WalkStepwise(es, v)
    BY <1>1, <2>1, WalkSteps
  <2> QED
    BY <2>2 DEF WalkStepwise
<1> HIDE DEF walk, n
<1>3. 0 \in T
  <2>1. <<v>> \in Seq(Ends(es)) /\ Len(<<v>>) = 1 /\ DOMAIN <<v>> = 1..1 /\ <<v>>[1] = v
    OBVIOUS
  <2>2. Path(es, v, <<v>>)
    BY <2>1 DEF Path
  <2> QED
    BY <1>2, <2>1, <2>2
<1>4. ASSUME NEW i \in Nat, i \in T PROVE i + 1 \in T
  <2> SUFFICES ASSUME i + 1 <= n
               PROVE  /\ Path(es, v, walk[i + 1])
                      /\ Onward(es, walk[i + 1]) = {} \/ Len(walk[i + 1]) = (i + 1) + 1
    OBVIOUS
  <2>1. Path(es, v, walk[i]) /\ (Onward(es, walk[i]) = {} \/ Len(walk[i]) = i + 1)
    BY <1>1, <1>4
  <2>2. walk[i + 1] = Longer(es, walk[i])
    <3>1. i + 1 \in 1..n /\ (i + 1) - 1 = i
      BY <1>1
    <3> QED
      BY <1>2, <3>1
  <2>3. CASE Onward(es, walk[i]) = {}
    BY <2>1, <2>2, <2>3 DEF Longer
  <2>4. CASE Onward(es, walk[i]) # {}
    BY <2>1, <2>2, <2>4, PathGoesOn
  <2> QED
    BY <2>3, <2>4
<1>5. n \in T
  <2> HIDE DEF T
  <2>1. Nat \subseteq T
    BY <1>3, <1>4, SetInduction
  <2> QED
    BY <1>1, <2>1
<1>6. Ring(es, v) = walk[n]
  BY DEF Ring, walk, n
<1> DEFINE L == walk[n]
<1>7. Path(es, v, L) /\ (Onward(es, L) = {} \/ Len(L) = n + 1)
  BY <1>1, <1>5
<1> HIDE DEF L, T
<1>8. Len(L) # n + 1
  <2> SUFFICES ASSUME Len(L) = n + 1 PROVE FALSE
    OBVIOUS
  <2> DEFINE I == 1..(n + 1)
  <2>1. L \in [I -> Ends(es)] /\ DOMAIN L = I
    BY <1>7 DEF Path
  <2>2. \A i, j \in I : L[i] = L[j] => i = j
    BY <1>7, <2>1 DEF Path
  <2>3. L \in Injection(I, Ends(es))
    BY <2>1, <2>2 DEF Injection, IsInjective
  <2>4. Cardinality(I) = n + 1
    BY <1>1, FS_Interval
  <2> HIDE DEF I
  <2>5. Cardinality(I) <= Cardinality(Ends(es))
    BY <1>1, <2>3, FS_Injection
  <2> QED
    BY <1>1, <2>4, <2>5 DEF n
<1> QED
  BY <1>6, <1>7, <1>8 DEF L

(* A closed walk, from each node of which the only sides are those to the   *)
(* node after it and to the node that it is after.                          *)
Cycle(es, L) ==
  /\ L \in Seq(Ends(es)) /\ Len(L) >= 3
  /\ \A i, j \in DOMAIN L : L[i] = L[j] => i = j
  /\ \A i \in DOMAIN L : Adjacent(es, L[i], NextOf(L, i))
  /\ \A i \in DOMAIN L, u \in Ends(es) : Adjacent(es, L[i], u) =>
       u = NextOf(L, i) \/ \E k \in DOMAIN L : u = L[k] /\ L[i] = NextOf(L, k)

(* Of two neighbours of a node there is no third.                           *)
LEMMA TwoNeighbours ==
  ASSUME NEW es, Regular(es), NEW v \in Ends(es), NEW a, NEW b, a # b,
         Adjacent(es, v, a), Adjacent(es, v, b)
  PROVE  \A u : Adjacent(es, v, u) => u = a \/ u = b
BY DEF Regular

(* A side has no direction.                                                 *)
LEMMA Symmetric ==
  ASSUME NEW es, NEW u, NEW w, Adjacent(es, u, w)
  PROVE  Adjacent(es, w, u)
<1>1. {u, w} = {w, u}
  OBVIOUS
<1> QED
  BY <1>1 DEF Adjacent

(* A walk that can go no further has come back to where it began: all the   *)
(* nodes between have their two neighbours already.                         *)
LEMMA RingIsCycle ==
  ASSUME NEW es, Regular(es), NEW v \in Ends(es)
  PROVE  Cycle(es, Ring(es, v)) /\ v \in Met(Ring(es, v))
<1> DEFINE L == Ring(es, v)
           m == Len(L)
<1>1. Path(es, v, L) /\ Onward(es, L) = {}
  BY WalkEnds
<1> HIDE DEF L
<1>2. L \in Seq(Ends(es)) /\ m \in Nat /\ m >= 1 /\ DOMAIN L = 1..m /\ L[1] = v
      /\ \A i \in 1..m : L[i] \in Ends(es)
  BY <1>1 DEF Path
<1>3. /\ \A i, j \in 1..m : L[i] = L[j] => i = j
      /\ \A i \in 1..(m - 1) : Adjacent(es, L[i], L[i + 1])
  BY <1>1, <1>2 DEF Path
<1>4. \A u \in Ends(es) : Adjacent(es, L[m], u) => \E j \in 1..m : u = L[j]
  <2> SUFFICES ASSUME NEW u \in Ends(es), Adjacent(es, L[m], u), \A j \in 1..m : L[j] # u
               PROVE  FALSE
    OBVIOUS
  <2>1. u \in Ends(Incident(es, L[m]))
    BY DEF Adjacent, Incident, Ends
  <2>2. u \in Onward(es, L)
    BY <1>2, <2>1 DEF Onward
  <2> QED
    BY <1>1, <2>2
<1> HIDE DEF m
<1>5. PICK x, y \in Ends(es) : x # y /\ x # L[m] /\ y # L[m] /\ Adjacent(es, L[m], x) /\ Adjacent(es, L[m], y)
  <2>1. m \in 1..m
    BY <1>2
  <2> QED
    BY <1>2, <2>1 DEF Regular
<1>6. PICK jj \in 1..m, kk \in 1..m : x = L[jj] /\ y = L[kk]
  BY <1>4, <1>5
<1>7. m >= 3 /\ jj # kk /\ jj # m /\ kk # m
  BY <1>2, <1>5, <1>6
<1>8. PICK h \in 1..m : h # m /\ h # m - 1 /\ Adjacent(es, L[m], L[h])
  <2>1. jj # m - 1 \/ kk # m - 1
    BY <1>7
  <2> QED
    BY <1>5, <1>6, <1>7, <2>1
<1>9. h = 1
  <2> SUFFICES ASSUME h # 1 PROVE FALSE
    OBVIOUS
  <2>1. h - 1 \in 1..(m - 1) /\ h \in 1..(m - 1) /\ h + 1 \in 1..m /\ h - 1 \in 1..m
        /\ (h - 1) + 1 = h /\ h - 1 # h + 1 /\ h - 1 # m /\ h + 1 # m /\ m \in 1..m
    BY <1>2, <1>7, <1>8
  <2>2. Adjacent(es, L[h - 1], L[h]) /\ Adjacent(es, L[h], L[h + 1])
    BY <1>3, <2>1
  <2>3. Adjacent(es, L[h], L[h - 1]) /\ Adjacent(es, L[h], L[m])
    BY <1>8, <2>2, Symmetric
  <2>4. L[h - 1] # L[h + 1] /\ L[m] # L[h - 1] /\ L[m] # L[h + 1] /\ L[h] \in Ends(es)
    BY <1>2, <1>3, <2>1
  <2> QED
    BY <2>2, <2>3, <2>4, TwoNeighbours
<1>10. \A i \in 1..m : /\ NextOf(L, i) = L[IF i < m THEN i + 1 ELSE 1]
                       /\ Adjacent(es, L[i], NextOf(L, i))
  <2> TAKE i \in 1..m
  <2>1. i \in DOMAIN L
    BY <1>2
  <2>2. CASE i < m
    <3>1. NextOf(L, i) = L[i + 1]
      BY <1>2, <2>1, <2>2, NextIs DEF m
    <3>2. i \in 1..(m - 1)
      BY <1>2, <2>2
    <3> QED
      BY <1>3, <2>2, <3>1, <3>2
  <2>3. CASE i = m
    <3>1. NextOf(L, i) = L[1]
      BY <1>2, <2>1, <2>3, NextIs DEF m
    <3>2. ~(i < m)
      BY <1>2, <2>3
    <3> QED
      BY <1>8, <1>9, <2>3, <3>1, <3>2
  <2> QED
    BY <1>2, <2>2, <2>3
<1>11. ASSUME NEW i \in 1..m, NEW u \in Ends(es), Adjacent(es, L[i], u)
       PROVE  u = NextOf(L, i) \/ \E b \in 1..m : u = L[b] /\ L[i] = NextOf(L, b)
  <2>1. PICK b \in 1..m : L[i] = NextOf(L, b) /\ L[b] # NextOf(L, i)
    <3>1. CASE i = 1
      <4>1. m \in 1..m /\ ~(m < m) /\ 1 < m /\ 1 + 1 \in 1..m /\ m # 1 + 1
        BY <1>2, <1>7
      <4>2. NextOf(L, m) = L[1] /\ NextOf(L, 1) = L[1 + 1]
        BY <1>10, <3>1, <4>1
      <4> QED
        BY <1>3, <3>1, <4>1, <4>2
    <3>2. CASE i # 1
      <4>1. i - 1 \in 1..m /\ i - 1 < m /\ (i - 1) + 1 = i
        BY <1>2, <3>2
      <4>2. NextOf(L, i - 1) = L[i]
        BY <1>10, <4>1
      <4> DEFINE n == IF i < m THEN i + 1 ELSE 1
      <4>3. n \in 1..m /\ n # i - 1
        BY <1>2, <1>7, <3>2
      <4>4. NextOf(L, i) = L[n]
        BY <1>10
      <4> HIDE DEF n
      <4>5. L[i - 1] # L[n]
        BY <1>3, <4>1, <4>3
      <4> QED
        BY <4>1, <4>2, <4>4, <4>5
    <3> QED
      BY <3>1, <3>2
  <2>2. Adjacent(es, L[i], L[b]) /\ Adjacent(es, L[i], NextOf(L, i))
    BY <1>10, <2>1, Symmetric
  <2> QED
    BY <1>2, <1>11, <2>1, <2>2, TwoNeighbours
<1>12. v \in Met(L)
  BY <1>2 DEF Met
<1>13. /\ \A i, j \in DOMAIN L : L[i] = L[j] => i = j
       /\ \A i \in DOMAIN L : Adjacent(es, L[i], NextOf(L, i))
       /\ \A i \in DOMAIN L, u \in Ends(es) : Adjacent(es, L[i], u) =>
            u = NextOf(L, i) \/ \E k \in DOMAIN L : u = L[k] /\ L[i] = NextOf(L, k)
  BY <1>2, <1>3, <1>10, <1>11
<1>14. Cycle(es, L)
  BY <1>2, <1>7, <1>13 DEF Cycle, m
<1> QED
  BY <1>12, <1>14 DEF L

(* A set that no side leaves contains a ring, or none of its nodes.         *)
LEMMA CycleIsLeast ==
  ASSUME NEW es, NEW L, Cycle(es, L), NEW S, Whole(es, S), S \cap Met(L) # {}
  PROVE  Met(L) \subseteq S
<1> DEFINE m == Len(L)
<1>1. m \in Nat /\ m >= 3 /\ DOMAIN L = 1..m /\ L \in Seq(Ends(es))
  BY DEF Cycle
<1>2. ASSUME NEW i \in 1..m, L[i] \in S PROVE NextOf(L, i) \in S
  <2>1. {L[i], NextOf(L, i)} \in es
    BY <1>1 DEF Cycle, Adjacent
  <2>2. {L[i], NextOf(L, i)} \cap S # {}
    BY <1>2
  <2> QED
    BY <2>1, <2>2 DEF Whole
<1>3. ASSUME NEW k \in 1..m, L[k] \in S PROVE \A j \in k..m : L[j] \in S
  <2> DEFINE T == {j \in Nat : k + j <= m => L[k + j] \in S}
  <2>1. 0 \in T
    BY <1>1, <1>3
  <2>2. ASSUME NEW j \in Nat, j \in T PROVE j + 1 \in T
    <3> SUFFICES ASSUME k + (j + 1) <= m PROVE L[k + (j + 1)] \in S
      OBVIOUS
    <3>1. k + j \in 1..m /\ k + j < m /\ (k + j) + 1 = k + (j + 1)
      BY <1>1
    <3>2. L[k + j] \in S
      BY <1>1, <2>2, <3>1
    <3> DEFINE i == k + j
    <3> HIDE DEF i, T
    <3>3. i \in DOMAIN L /\ i < Len(L)
      BY <1>1, <3>1 DEF i
    <3>4. NextOf(L, i) = L[i + 1]
      BY <1>1, <3>3, NextIs
    <3> QED
      BY <1>2, <3>1, <3>2, <3>4 DEF i
  <2>3. Nat \subseteq T
    <3> HIDE DEF T
    <3> QED
      BY <2>1, <2>2, SetInduction
  <2> TAKE j \in k..m
  <2>4. j - k \in Nat /\ k + (j - k) = j /\ j <= m
    BY <1>1
  <2> QED
    BY <2>3, <2>4
<1>4. PICK k \in 1..m : L[k] \in S
  BY <1>1 DEF Met
<1>5. L[m] \in S
  <2>1. m \in k..m
    BY <1>1
  <2> QED
    BY <1>3, <1>4, <2>1
<1>6. L[1] \in S
  <2>1. m \in 1..m /\ m \in DOMAIN L
    BY <1>1
  <2>2. NextOf(L, m) = L[1]
    BY <1>1, <2>1, NextIs
  <2> QED
    BY <1>2, <1>5, <2>1, <2>2
<1>7. \A j \in 1..m : L[j] \in S
  <2>1. 1 \in 1..m
    BY <1>1
  <2> QED
    BY <1>3, <1>6, <2>1
<1> QED
  BY <1>1, <1>7 DEF Met

(* No side leaves a ring.                                                   *)
LEMMA CycleIsWhole ==
  ASSUME NEW es, Regular(es), NEW L, Cycle(es, L)
  PROVE  Whole(es, Met(L)) /\ Met(L) # {} /\ Met(L) \subseteq Ends(es)
<1>1. Len(L) \in Nat /\ Len(L) >= 3 /\ DOMAIN L = 1..Len(L) /\ L \in Seq(Ends(es))
  BY DEF Cycle
<1>2. ASSUME NEW e \in es, e \cap Met(L) # {} PROVE e \subseteq Met(L)
  <2>1. PICK i \in DOMAIN L : L[i] \in e
    BY <1>2 DEF Met
  <2>2. PICK u, w \in Ends(es) : e = {u, w}
    BY DEF Regular
  <2>3. PICK x \in Ends(es) : e = {L[i], x}
    BY <2>1, <2>2
  <2>4. Adjacent(es, L[i], x)
    BY <2>3 DEF Adjacent
  <2>5. x \in Met(L)
    <3>1. x = NextOf(L, i) \/ \E k \in DOMAIN L : x = L[k]
      BY <2>4 DEF Cycle
    <3>2. NextOf(L, i) \in Met(L)
      BY <1>1, NextIs DEF Met
    <3> QED
      BY <3>1, <3>2 DEF Met
  <2> QED
    BY <2>3, <2>5 DEF Met
<1>3. 1 \in DOMAIN L
  BY <1>1
<1> QED
  BY <1>1, <1>2, <1>3 DEF Whole, Met

(* Of every ring there is one, and every node is on one.                    *)
RingsApart(es) ==
  /\ \A L \in Rings(es) : Cycle(es, L)
  /\ \A u \in Ends(es) : \E L \in Rings(es) : u \in Met(L)
  /\ \A L, M \in Rings(es) : Met(L) \cap Met(M) # {} => L = M

(* Two rings that meet in a node have all their nodes in common, and so one *)
(* first node; and the walk from a node is a ring that it is on.            *)
LEMMA RingsPartition ==
  ASSUME NEW es, Regular(es)
  PROVE  RingsApart(es)
<1> DEFINE R(v) == Ring(es, v)
           Chosen(S) == CHOOSE u \in S : TRUE
           V == {v \in Ends(es) : v = Chosen(Met(R(v)))}
<1>1. \A v \in Ends(es) : Cardinality(Incident(es, v)) = 2
  <2> TAKE v \in Ends(es)
  <2>1. PICK x, y \in Ends(es) :
          x # y /\ x # v /\ y # v /\ \A u : Adjacent(es, v, u) <=> u \in {x, y}
    BY DEF Regular
  <2> DEFINE a == {v, x}
             b == {v, y}
  <2>2. Incident(es, v) = {a, b} /\ a # b
    <3>1. \A e \in Incident(es, v) : e = a \/ e = b
      <4> TAKE e \in Incident(es, v)
      <4>1. e \in es /\ v \in e
        BY DEF Incident
      <4>2. PICK u, w \in Ends(es) : e = {u, w}
        BY <4>1 DEF Regular
      <4>3. PICK z : e = {v, z}
        BY <4>1, <4>2
      <4> QED
        BY <2>1, <4>1, <4>3 DEF Adjacent
    <3>2. a \in Incident(es, v) /\ b \in Incident(es, v)
      BY <2>1 DEF Adjacent, Incident
    <3> QED
      BY <2>1, <3>1, <3>2
  <2> HIDE DEF a, b
  <2> QED
    BY <2>2, TwoElements
<1>2. Rings(es) = {R(v) : v \in V}
  BY <1>1 DEF Rings
<1>3. \A v \in Ends(es) : Cycle(es, R(v)) /\ v \in Met(R(v))
  BY RingIsCycle
<1> HIDE DEF R
<1>4. ASSUME NEW v \in Ends(es), NEW w \in Ends(es), Met(R(v)) \cap Met(R(w)) # {}
      PROVE  Met(R(v)) = Met(R(w))
  <2>1. Whole(es, Met(R(v))) /\ Whole(es, Met(R(w)))
    BY <1>3, CycleIsWhole
  <2>2. Met(R(v)) \subseteq Met(R(w))
    <3>1. Met(R(w)) \cap Met(R(v)) # {}
      BY <1>4
    <3> QED
      BY <1>3, <2>1, <3>1, CycleIsLeast
  <2>3. Met(R(w)) \subseteq Met(R(v))
    BY <1>3, <1>4, <2>1, CycleIsLeast
  <2> QED
    BY <2>2, <2>3
<1>5. ASSUME NEW u \in Ends(es) PROVE \E L \in Rings(es) : u \in Met(L)
  <2> DEFINE w == Chosen(Met(R(u)))
  <2>1. w \in Met(R(u))
    BY <1>3
  <2>2. w \in Ends(es)
    BY <1>3, <2>1, CycleIsWhole
  <2> HIDE DEF w
  <2>3. Met(R(w)) = Met(R(u))
    <3>1. w \in Met(R(w))
      BY <1>3, <2>2
    <3> QED
      BY <1>4, <2>1, <2>2, <3>1
  <2>4. w \in V
    BY <2>2, <2>3 DEF w
  <2> QED
    BY <1>2, <1>3, <2>3, <2>4
<1>6. ASSUME NEW v \in V, NEW w \in V, Met(R(v)) \cap Met(R(w)) # {} PROVE R(v) = R(w)
  <2>1. Met(R(v)) = Met(R(w))
    BY <1>4, <1>6
  <2>2. v = Chosen(Met(R(v))) /\ w = Chosen(Met(R(w)))
    OBVIOUS
  <2> HIDE DEF Chosen
  <2>3. v = w
    BY <2>1, <2>2
  <2> QED
    BY <2>3
<1> QED
  BY <1>2, <1>3, <1>5, <1>6 DEF RingsApart

(* A ring runs a side once.                                                 *)
LEMMA CycleRunsOnce ==
  ASSUME NEW es, NEW L, Cycle(es, L), NEW i \in DOMAIN L, NEW k \in DOMAIN L,
         {L[i], NextOf(L, i)} = {L[k], NextOf(L, k)}
  PROVE  i = k
<1> DEFINE m == Len(L)
           ii == (i % m) + 1
           kk == (k % m) + 1
<1>1. L \in Seq(Ends(es)) /\ m \in Nat /\ m >= 3 /\ DOMAIN L = 1..m
  BY DEF Cycle
<1>2. /\ ii \in DOMAIN L /\ NextOf(L, i) = L[ii] /\ (i < m => ii = i + 1) /\ (i = m => ii = 1)
      /\ kk \in DOMAIN L /\ NextOf(L, k) = L[kk] /\ (k < m => kk = k + 1) /\ (k = m => kk = 1)
  BY <1>1, NextIs
<1>3. \A a, b \in DOMAIN L : L[a] = L[b] => a = b
  BY DEF Cycle
<1> HIDE DEF m, ii, kk
<1>4. CASE L[i] = L[k]
  BY <1>3, <1>4
<1>5. CASE L[i] # L[k]
  <2>1. L[i] = L[kk] /\ L[ii] = L[k]
    BY <1>2, <1>5
  <2>2. i = kk /\ ii = k
    BY <1>2, <1>3, <2>1
  <2>3. i \in 1..m /\ k \in 1..m
    BY <1>1
  <2> QED
    BY <1>1, <1>2, <2>2, <2>3
<1> QED
  BY <1>4, <1>5

(* Every side of the boundary is run by one ring, in one place.             *)
RunByOne(es) ==
  /\ \A L \in Rings(es) : \A i \in DOMAIN L : {L[i], NextOf(L, i)} \in es
  /\ \A e \in es : \E L \in Rings(es) : \E i \in DOMAIN L :
       /\ {L[i], NextOf(L, i)} = e
       /\ \A M \in Rings(es) : \A k \in DOMAIN M : {M[k], NextOf(M, k)} = e => M = L /\ k = i

(* For the ring through one end of a side runs to its other end or from it, *)
(* and no other ring comes by.                                              *)
LEMMA SidesOfRings ==
  ASSUME NEW es, Regular(es)
  PROVE  RunByOne(es)
<1>1. RingsApart(es)
  BY RingsPartition
<1>2. ASSUME NEW L \in Rings(es), NEW i \in DOMAIN L
      PROVE  {L[i], NextOf(L, i)} \in es /\ L[i] \in Met(L) /\ NextOf(L, i) \in Met(L)
  <2>1. Cycle(es, L) /\ L \in Seq(Ends(es))
    BY <1>1 DEF RingsApart, Cycle
  <2>2. NextOf(L, i) \in Met(L)
    BY <2>1, NextIs DEF Met
  <2> QED
    BY <2>1, <2>2 DEF Cycle, Adjacent, Met
<1>3. ASSUME NEW e \in es
      PROVE  \E L \in Rings(es) : \E i \in DOMAIN L : {L[i], NextOf(L, i)} = e
  <2>1. PICK u, w \in Ends(es) : e = {u, w}
    BY DEF Regular
  <2>2. PICK L \in Rings(es) : u \in Met(L)
    BY <1>1 DEF RingsApart
  <2>3. PICK j \in DOMAIN L : u = L[j]
    BY <2>2 DEF Met
  <2>4. Adjacent(es, L[j], w)
    BY <2>1, <2>3 DEF Adjacent
  <2>5. w = NextOf(L, j) \/ \E k \in DOMAIN L : w = L[k] /\ L[j] = NextOf(L, k)
    <3>1. Cycle(es, L)
      BY <1>1 DEF RingsApart
    <3> QED
      BY <2>4, <3>1 DEF Cycle
  <2> QED
    BY <2>1, <2>3, <2>5
<1>4. ASSUME NEW L \in Rings(es), NEW i \in DOMAIN L, NEW M \in Rings(es), NEW k \in DOMAIN M,
             {M[k], NextOf(M, k)} = {L[i], NextOf(L, i)}
      PROVE  M = L /\ k = i
  <2>1. M[k] \in Met(L) /\ M[k] \in Met(M)
    BY <1>2, <1>4
  <2>2. M = L
    BY <1>1, <2>1 DEF RingsApart
  <2>3. Cycle(es, L)
    BY <1>1 DEF RingsApart
  <2> QED
    BY <1>4, <2>2, <2>3, CycleRunsOnce
<1>5. ASSUME NEW e \in es
      PROVE  \E L \in Rings(es) : \E i \in DOMAIN L :
               /\ {L[i], NextOf(L, i)} = e
               /\ \A M \in Rings(es) : \A k \in DOMAIN M : {M[k], NextOf(M, k)} = e => M = L /\ k = i
  <2>1. PICK L \in Rings(es) : \E i \in DOMAIN L : {L[i], NextOf(L, i)} = e
    BY <1>3
  <2>2. PICK i \in DOMAIN L : {L[i], NextOf(L, i)} = e
    BY <2>1
  <2>3. ASSUME NEW M \in Rings(es), NEW k \in DOMAIN M, {M[k], NextOf(M, k)} = e PROVE M = L /\ k = i
    <3>1. {M[k], NextOf(M, k)} = {L[i], NextOf(L, i)}
      BY <2>2, <2>3
    <3> QED
      BY <1>4, <3>1
  <2> QED
    BY <2>2, <2>3
<1>6. \A L \in Rings(es) : \A i \in DOMAIN L : {L[i], NextOf(L, i)} \in es
  BY <1>2
<1> QED
  BY <1>5, <1>6 DEF RunByOne

------------------------------------------------------------------------------
(* The boundary of a tight shell and that of the shell without errors.      *)

Bare(p) == <<p[1], 0>>
Flat(S) == {Bare(p) : p \in S}

(* fs is es without errors: every side of es joins two nodes, and no two    *)
(* nodes have one true vertex.                                              *)
Lifted(es, fs) ==
  /\ IsFiniteSet(Ends(es))
  /\ \A e \in es : \E u, w \in Ends(es) : u # w /\ e = {u, w}
  /\ \A u, w \in Ends(es) : Bare(u) = Bare(w) => u = w
  /\ fs = {Flat(e) : e \in es}

(* Sets of nodes are told apart by their true vertices.                     *)
LEMMA LiftedSets ==
  ASSUME NEW es, NEW fs, Lifted(es, fs)
  PROVE  /\ Ends(fs) = Flat(Ends(es))
         /\ \A e \in es : e \subseteq Ends(es) /\ Flat(e) \in fs
         /\ \A S, T \in SUBSET Ends(es) : Flat(S) \subseteq Flat(T) => S \subseteq T
<1>1. \A e \in es : e \subseteq Ends(es) /\ Flat(e) \in fs
  BY DEF Ends, Lifted
<1>2. Ends(fs) = Flat(Ends(es))
  <2>1. \A f : f \in fs <=> \E e \in es : f = Flat(e)
    BY DEF Lifted
  <2>2. \A x : x \in Ends(fs) <=> \E e \in es : x \in Flat(e)
    BY <2>1 DEF Ends
  <2>3. \A x : x \in Flat(Ends(es)) <=> \E e \in es : x \in Flat(e)
    BY DEF Flat, Ends
  <2> QED
    BY <2>2, <2>3
<1>3. ASSUME NEW S \in SUBSET Ends(es), NEW T \in SUBSET Ends(es), Flat(S) \subseteq Flat(T)
      PROVE  S \subseteq T
  <2> SUFFICES ASSUME NEW u \in S PROVE u \in T
    OBVIOUS
  <2>1. Bare(u) \in Flat(T)
    BY <1>3 DEF Flat
  <2>2. PICK w \in T : Bare(w) = Bare(u)
    BY <2>1 DEF Flat
  <2> QED
    BY <2>2 DEF Lifted
<1> QED
  BY <1>1, <1>2, <1>3

(* Every node has two sides, if every true vertex has.                      *)
LEMMA LiftedRegular ==
  ASSUME NEW es, NEW fs, Lifted(es, fs), \A v \in Ends(fs) : Cardinality(Incident(fs, v)) = 2
  PROVE  Regular(es)
<1>1. ASSUME NEW v \in Ends(es)
      PROVE  \E x, y \in Ends(es) :
               x # y /\ x # v /\ y # v /\ \A u : Adjacent(es, v, u) <=> u \in {x, y}
  <2> DEFINE I == Incident(fs, Bare(v))
  <2>1. Bare(v) \in Ends(fs)
    BY LiftedSets DEF Flat
  <2>2. Cardinality(I) = 2
    BY <2>1
  <2>3. \A f \in I : \E e \in es : f = Flat(e) /\ v \in e
    <3> TAKE f \in I
    <3>1. PICK e \in es : f = Flat(e)
      BY DEF Incident, Lifted
    <3>2. PICK u \in e : Bare(u) = Bare(v)
      BY <3>1 DEF Incident, Flat
    <3>3. u = v
      BY <3>1, <3>2, LiftedSets DEF Lifted
    <3> QED
      BY <3>1, <3>2, <3>3
  <2>4. \A e \in es : v \in e => Flat(e) \in I
    BY LiftedSets DEF Incident, Flat
  <2>5. \A e \in es : v \in e => \E x \in Ends(es) : x # v /\ e = {v, x}
    BY DEF Lifted
  <2>6. IsFiniteSet(I)
    <3>1. IsFiniteSet(es)
      <4>1. es \subseteq SUBSET Ends(es)
        BY LiftedSets
      <4>2. IsFiniteSet(SUBSET Ends(es))
        BY FS_SUBSET DEF Lifted
      <4> QED
        BY <4>1, <4>2, FS_Subset
    <3> DEFINE g == [e \in es |-> Flat(e)]
    <3>2. g \in Surjection(es, fs)
      BY DEF Lifted, Surjection
    <3> HIDE DEF g
    <3>3. IsFiniteSet(fs)
      BY <3>1, <3>2, FS_Surjection
    <3>4. I \subseteq fs
      BY DEF Incident
    <3> HIDE DEF I
    <3> QED
      BY <3>3, <3>4, FS_Subset
  <2> HIDE DEF I
  <2>7. PICK F, G \in I : F # G /\ I = {F, G}
    BY <2>2, <2>6, TwoElements
  <2>8. PICK a \in es : F = Flat(a) /\ v \in a
    BY <2>3
  <2>9. PICK b \in es : G = Flat(b) /\ v \in b
    BY <2>3
  <2>10. PICK x \in Ends(es) : x # v /\ a = {v, x}
    BY <2>5, <2>8
  <2>11. PICK y \in Ends(es) : y # v /\ b = {v, y}
    BY <2>5, <2>9
  <2>12. x # y
    BY <2>7, <2>8, <2>9, <2>10, <2>11
  <2>13. \A e \in es : v \in e => e = a \/ e = b
    <3> SUFFICES ASSUME NEW e \in es, v \in e PROVE e = a \/ e = b
      OBVIOUS
    <3>1. Flat(e) = Flat(a) \/ Flat(e) = Flat(b)
      BY <2>4, <2>7, <2>8, <2>9
    <3>2. e \subseteq Ends(es) /\ a \subseteq Ends(es) /\ b \subseteq Ends(es)
      BY LiftedSets
    <3>3. \A S, T \in SUBSET Ends(es) : Flat(S) \subseteq Flat(T) => S \subseteq T
      BY LiftedSets
    <3>4. CASE Flat(e) = Flat(a)
      <4>1. e \subseteq a /\ a \subseteq e
        BY <3>2, <3>3, <3>4
      <4> QED
        BY <4>1
    <3>5. CASE Flat(e) = Flat(b)
      <4>1. e \subseteq b /\ b \subseteq e
        BY <3>2, <3>3, <3>5
      <4> QED
        BY <4>1
    <3> QED
      BY <3>1, <3>4, <3>5
  <2>14. \A u : Adjacent(es, v, u) <=> u \in {x, y}
    <3> TAKE u
    <3>1. ASSUME {v, u} \in es PROVE u = x \/ u = y
      <4>1. {v, u} = a \/ {v, u} = b
        BY <2>13, <3>1
      <4> QED
        BY <2>10, <2>11, <4>1
    <3>2. u \in {x, y} => {v, u} \in es
      BY <2>10, <2>11
    <3> QED
      BY <3>1, <3>2 DEF Adjacent
  <2> QED
    BY <2>10, <2>11, <2>12, <2>14
<1> QED
  BY <1>1 DEF Regular, Lifted

(* The nodes of a ring are those of a hole.                                 *)
LEMMA RingBoundsHole ==
  ASSUME NEW es, NEW fs, Lifted(es, fs), Regular(es), NEW L, Cycle(es, L)
  PROVE  Flat(Met(L)) \in Holes(fs)
<1> DEFINE V == Ends(es)
           H == Flat(Met(L))
<1>1. Whole(es, Met(L)) /\ Met(L) # {} /\ Met(L) \subseteq V
  BY CycleIsWhole
<1>2. Ends(fs) = Flat(V) /\ \A e \in es : e \subseteq V
  BY LiftedSets
<1>3. H \subseteq Ends(fs) /\ H # {}
  BY <1>1, <1>2 DEF Flat
<1>4. Whole(fs, H)
  <2> SUFFICES ASSUME NEW e \in es, Flat(e) \cap H # {} PROVE Flat(e) \subseteq H
    BY DEF Whole, Lifted
  <2>1. PICK u \in e, w \in Met(L) : Bare(u) = Bare(w)
    BY DEF Flat
  <2>2. u = w
    BY <1>1, <1>2, <2>1 DEF Lifted
  <2>3. e \subseteq Met(L)
    BY <1>1, <2>1, <2>2 DEF Whole
  <2> QED
    BY <2>3 DEF Flat
<1>5. ASSUME NEW T \in SUBSET H, T # {}, Whole(fs, T) PROVE T = H
  <2> DEFINE S == {v \in V : Bare(v) \in T}
  <2>1. Whole(es, S)
    <3> SUFFICES ASSUME NEW e \in es, e \cap S # {} PROVE e \subseteq S
      BY DEF Whole
    <3>1. Flat(e) \in fs /\ Flat(e) \cap T # {}
      BY LiftedSets DEF Flat
    <3>2. Flat(e) \subseteq T
      BY <1>5, <3>1 DEF Whole
    <3> QED
      BY <1>2, <3>2 DEF Flat
  <2>2. S \cap Met(L) # {}
    BY <1>1, <1>5 DEF Flat
  <2>3. \A v \in S : Bare(v) \in T
    OBVIOUS
  <2> HIDE DEF S
  <2>4. Met(L) \subseteq S
    BY <2>1, <2>2, CycleIsLeast
  <2> QED
    BY <2>3, <2>4 DEF Flat
<1> QED
  BY <1>3, <1>4, <1>5 DEF Holes

(* Nodes that are corners of a soup.                                        *)
NodesFrom(S, faces) == \A v \in S : \E c \in Refs(faces) : v = CornerAt(faces, c)

(* Nodes are three if their true vertices are.                              *)
LEMMA ThreeNodes ==
  ASSUME NEW S, IsTriangle(Flat(S)), \A u, w \in S : Bare(u) = Bare(w) => u = w
  PROVE  IsTriangle(S)
<1>1. PICK p \in Flat(S), q \in Flat(S), r \in Flat(S) : Flat(S) = {p, q, r}
  BY DEF IsTriangle
<1>2. PICK u \in S, v \in S, w \in S : Bare(u) = p /\ Bare(v) = q /\ Bare(w) = r
  BY DEF Flat
<1>3. ASSUME NEW x \in S PROVE x \in {u, v, w}
  <2>1. Bare(x) \in {p, q, r}
    BY <1>1 DEF Flat
  <2> QED
    BY <1>2, <2>1
<1>4. S = {u, v, w}
  BY <1>3
<1> QED
  BY <1>4 DEF IsTriangle

(* Nodes whose true vertices carry no errors are those vertices.            *)
LEMMA SharpNodes ==
  ASSUME NEW faces, NEW S, NodesFrom(S, faces), Sharp(faces, Flat(S)), NEW v \in S
  PROVE  v[2] = 0
<1>1. PICK c \in Refs(faces) : v = CornerAt(faces, c)
  BY DEF NodesFrom
<1>2. <<v[1], 0>> \in Flat(S)
  BY DEF Flat, Bare
<1> QED
  BY <1>1, <1>2 DEF Sharp

(* The holes that may be capped are.                                        *)
LEMMA HolesAreCapped ==
  ASSUME NEW faces, NEW es, NEW fs, Lifted(es, fs), es # {}, NodesFrom(Ends(es), faces),
         Cappable(faces, fs)
  PROVE  Regular(es) /\ Caps(es) = {SetToSeq(Rings(es))} /\ (opts.capAll \/ opts.capOne)
<1>1. /\ \A v \in Ends(fs) : Cardinality(Incident(fs, v)) = 2
      /\ \A S \in Holes(fs) : InOnePlane(S) /\ (IsTriangle(S) \/ Sharp(faces, S))
      /\ opts.capAll \/ (opts.capOne /\ Holes(fs) = {Ends(fs)})
  BY DEF Cappable
<1>2. Regular(es)
  BY <1>1, LiftedRegular
<1>3. RingsApart(es)
  BY <1>2, RingsPartition
<1>4. \A L \in Rings(es) : Flat(Met(L)) \in Holes(fs)
  BY <1>2, <1>3, RingBoundsHole DEF RingsApart
<1>5. ASSUME NEW L \in Rings(es) PROVE InOnePlane(Met(L))
  <2>1. InOnePlane(Flat(Met(L)))
    BY <1>1, <1>4
  <2>2. \A p : At(Bare(p)) = At(p)
    BY DEF At, Bare
  <2> SUFFICES ASSUME NEW p \in Met(L), NEW q \in Met(L), NEW r \in Met(L), NEW s \in Met(L)
               PROVE  Det(From(At(p), At(q)), From(At(p), At(r)), From(At(p), At(s))) = 0
    BY DEF InOnePlane
  <2>3. Bare(p) \in Flat(Met(L)) /\ Bare(q) \in Flat(Met(L)) /\ Bare(r) \in Flat(Met(L)) /\ Bare(s) \in Flat(Met(L))
    BY DEF Flat
  <2>4. Det(From(At(Bare(p)), At(Bare(q))), From(At(Bare(p)), At(Bare(r))), From(At(Bare(p)), At(Bare(s)))) = 0
    BY <2>1, <2>3 DEF InOnePlane
  <2> QED
    BY <2>2, <2>4
<1>6. opts.capAll \/ Cardinality(Rings(es)) = 1
  <2> SUFFICES ASSUME Holes(fs) = {Ends(fs)} PROVE Cardinality(Rings(es)) = 1
    BY <1>1
  <2>1. \A L \in Rings(es) : Ends(es) \subseteq Met(L)
    <3> TAKE L \in Rings(es)
    <3>1. Flat(Met(L)) = Flat(Ends(es))
      BY <1>4, LiftedSets
    <3>2. Met(L) \subseteq Ends(es)
      BY <1>2, <1>3, CycleIsWhole DEF RingsApart
    <3> QED
      BY <3>1, <3>2, LiftedSets
  <2>2. PICK u : u \in Ends(es)
    <3>1. PICK e : e \in es
      OBVIOUS
    <3> QED
      BY <3>1 DEF Lifted
  <2>3. PICK L \in Rings(es) : u \in Met(L)
    BY <1>3, <2>2 DEF RingsApart
  <2>4. \A M \in Rings(es) : M = L
    BY <1>3, <2>1, <2>2, <2>3 DEF RingsApart
  <2>5. Rings(es) = {L}
    BY <2>3, <2>4
  <2> QED
    BY <2>5, FS_Singleton
<1>s. ASSUME NEW L \in Rings(es) PROVE SurelyFlat(Met(L))
  <2>1. Met(L) \subseteq Ends(es)
    BY <1>2, <1>3, CycleIsWhole DEF RingsApart
  <2>2. IsTriangle(Flat(Met(L))) => IsTriangle(Met(L))
    BY <2>1, ThreeNodes DEF Lifted
  <2>3. Sharp(faces, Flat(Met(L))) => \A v \in Met(L) : v[2] = 0
    <3>1. NodesFrom(Met(L), faces)
      BY <2>1 DEF NodesFrom
    <3> QED
      BY <3>1, SharpNodes
  <2>4. IsTriangle(Flat(Met(L))) \/ Sharp(faces, Flat(Met(L)))
    BY <1>1, <1>4
  <2> QED
    BY <1>5, <2>2, <2>3, <2>4 DEF SurelyFlat
<1>7. Caps(es) = {SetToSeq(Rings(es))}
  BY <1>5, <1>6, <1>s DEF Caps
<1> QED
  BY <1>1, <1>2, <1>7

(* So the boundaries are, in the shell of a tight and simple soup.          *)
LEMMA TightBoundary ==
  ASSUME NEW faces \in Loops, Tolerance \in Nat \ {0}, Tight(faces), AllSimple(faces)
  PROVE  Lifted(Boundary(NodeLoops(faces)), Boundary(True(faces)))
<1> DEFINE N == NodeLoops(faces)
           B == True(faces)
           es == Boundary(N)
           fs == Boundary(B)
<1>1. Sewn(faces, N) /\ Alike(N, B)
  BY SewnIsTrue
<1> HIDE DEF N, B
<1>2. N \in Loops /\ B \in Loops /\ Refs(N) = Refs(faces) /\ Refs(B) = Refs(faces)
  BY <1>1 DEF Sewn, Alike
<1>3. \A c \in Refs(faces) : CornerAt(B, c) = Bare(CornerAt(N, c))
  BY <1>1, TrueIs DEF Sewn, Label, B, Bare
<1>4. ASSUME NEW c \in Refs(faces)
      PROVE  /\ Side(B, c) = Flat(Side(N, c))
             /\ On(B, Side(B, c)) = On(N, Side(N, c))
             /\ \E d \in Refs(faces) : /\ Side(N, c) = {CornerAt(N, c), CornerAt(N, d)}
                                       /\ CornerAt(N, c) # CornerAt(N, d)
  <2> DEFINE d == After(N, c)
  <2>1. /\ d \in Refs(faces)
        /\ Side(N, c) = {CornerAt(N, c), CornerAt(N, d)}
    BY <1>2, SideEnds
  <2>2. c[1] \in DOMAIN N /\ c[1] \in DOMAIN faces /\ c[2] \in DOMAIN faces[c[1]]
    BY <1>2, RefsAre
  <2>3. d = After(B, c) /\ d = After(faces, c)
    BY <1>1, <2>2 DEF After, Alike, Sewn
  <2> HIDE DEF d
  <2>4. Side(B, c) = {CornerAt(B, c), CornerAt(B, d)}
    BY <1>2, <2>3, SideEnds
  <2>5. Side(B, c) = Flat(Side(N, c))
    BY <1>3, <2>1, <2>4 DEF Flat
  <2>6. On(B, Side(B, c)) = On(N, Side(N, c))
    BY <1>1, <1>2, AlikeSides
  <2>7. CornerAt(N, c) # CornerAt(N, d)
    <3>1. CornerAt(faces, d) = NextOf(faces[c[1]], c[2])
      BY <2>3, SideEnds
    <3>2. Label(faces, c) # Label(faces, d)
      <4>1. faces[c[1]] # <<>>
        BY <2>2
      <4> QED
        BY <2>2, <3>1, <4>1 DEF AllSimple, Simple, Label, CornerAt
    <3>3. Label(N, c) = Label(faces, c) /\ Label(N, d) = Label(faces, d)
      BY <1>1, <2>1 DEF Sewn
    <3> QED
      BY <3>2, <3>3 DEF Label
  <2> QED
    BY <2>1, <2>5, <2>6, <2>7
<1>5. \A e : e \in es <=> \E c \in Refs(faces) : e = Side(N, c) /\ Cardinality(On(N, Side(N, c))) = 1
  BY <1>2 DEF Boundary, Sides, Uses
<1>6. \A f : f \in fs <=> \E c \in Refs(faces) : f = Side(B, c) /\ Cardinality(On(B, Side(B, c))) = 1
  BY <1>2 DEF Boundary, Sides, Uses
<1> HIDE DEF es, fs
<1>7. fs = {Flat(e) : e \in es}
  BY <1>4, <1>5, <1>6
<1>8. \A e \in es : \E u, w \in Ends(es) : u # w /\ e = {u, w}
  <2> TAKE e \in es
  <2>1. PICK c \in Refs(faces) : e = Side(N, c)
    BY <1>5
  <2>2. PICK d \in Refs(faces) : e = {CornerAt(N, c), CornerAt(N, d)} /\ CornerAt(N, c) # CornerAt(N, d)
    BY <1>4, <2>1
  <2>3. CornerAt(N, c) \in Ends(es) /\ CornerAt(N, d) \in Ends(es)
    BY <2>2 DEF Ends
  <2> QED
    BY <2>2, <2>3
<1>9. \A u, w \in Ends(es) : Bare(u) = Bare(w) => u = w
  <2>1. \A u \in Ends(es) : \E c \in Refs(faces) : u = CornerAt(N, c)
    BY <1>4, <1>5 DEF Ends
  <2>2. \A c, d \in Refs(faces) : CornerAt(B, c) = CornerAt(B, d) => CornerAt(N, c) = CornerAt(N, d)
    BY <1>1, <1>2 DEF Alike
  <2> QED
    BY <1>3, <2>1, <2>2
<1>10. IsFiniteSet(Ends(es))
  <2>1. es \subseteq Sides(N)
    BY DEF es, Boundary
  <2>2. IsFiniteSet(es)
    BY <1>2, <2>1, SidesAre, FS_Subset
  <2> QED
    BY <1>2, <2>1, <2>2, SidesAre, FS_UNION DEF Ends
<1> QED
  BY <1>7, <1>8, <1>9, <1>10 DEF Lifted, es, fs, N, B

(* The nodes of its shell are corners of the soup.                          *)
LEMMA TightBoundaryNodes ==
  ASSUME NEW faces \in Loops, Tolerance \in Nat \ {0}, Tight(faces), AllSimple(faces)
  PROVE  NodesFrom(Ends(Boundary(NodeLoops(faces))), faces)
<1> DEFINE N == NodeLoops(faces)
           es == Boundary(N)
<1>1. Sewn(faces, N)
  BY SimpleIsSewn
<1>2. OneNodeEach(faces)
  BY TightNodes
<1>3. \A e \in es : \E c \in Refs(N) : e = Side(N, c)
  BY DEF Boundary, Sides
<1> HIDE DEF N
<1>4. N \in Loops /\ Refs(N) = Refs(faces)
  BY <1>1 DEF Sewn
<1> SUFFICES ASSUME NEW v \in Ends(es)
             PROVE  \E c \in Refs(faces) : v = CornerAt(faces, c)
  BY DEF NodesFrom, N
<1>5. PICK c \in Refs(N) : v \in Side(N, c)
  BY <1>3 DEF Ends
<1>6. PICK d \in Refs(faces) : v = CornerAt(N, d)
  BY <1>4, <1>5, SideEnds
<1>7. v = Unified(faces)[d]
  BY <1>1, <1>6 DEF Sewn
<1> QED
  BY <1>2, <1>7 DEF OneNodeEach

------------------------------------------------------------------------------
(* The caps.                                                                *)

(* One list of loops after another.                                         *)
LEMMA Joined ==
  ASSUME NEW a \in Loops, NEW b \in Loops
  PROVE  /\ a \o b \in Loops
         /\ \A f \in DOMAIN a : f \in DOMAIN (a \o b) /\ (a \o b)[f] = a[f]
         /\ \A k \in DOMAIN b : Len(a) + k \in DOMAIN (a \o b) /\ (a \o b)[Len(a) + k] = b[k]
         /\ \A f \in DOMAIN (a \o b) : f \in DOMAIN a \/ \E k \in DOMAIN b : f = Len(a) + k
         /\ \A k \in DOMAIN b : Len(a) + k \notin DOMAIN a /\ k \in Nat
         /\ Len(a) \in Nat
<1> DEFINE n == Len(a)
           m == Len(b)
           S == Seq(Corner)
<1>1. a \in Seq(S) /\ b \in Seq(S)
  BY DEF Loops
<1> HIDE DEF S
<1>2. n \in Nat /\ m \in Nat /\ DOMAIN a = 1..n /\ DOMAIN b = 1..m
  BY <1>1
<1>3. a \o b \in Seq(S) /\ Len(a \o b) = n + m /\ DOMAIN (a \o b) = 1..(n + m)
      /\ \A i \in 1..(n + m) : (a \o b)[i] = IF i <= n THEN a[i] ELSE b[i - n]
  BY <1>1
<1>4. \A f \in 1..(n + m) : f \in 1..n \/ (f - n \in 1..m /\ f = n + (f - n))
  BY <1>2
<1>5. \A k \in 1..m : n + k \in 1..(n + m) /\ n + k \notin 1..n /\ k \in Nat /\ (n + k) - n = k /\ ~(n + k <= n)
  BY <1>2
<1>6. \A f \in 1..n : f \in 1..(n + m) /\ f <= n
  BY <1>2
<1> HIDE DEF n, m
<1> QED
  BY <1>2, <1>3, <1>4, <1>5, <1>6 DEF n, Loops, S

(* What the caps of a boundary are.                                         *)
CapsOf(faces, es, caps) ==
  /\ faces \in Loops /\ Tight(faces) /\ AllSimple(faces)
  /\ es = Boundary(NodeLoops(faces)) /\ Regular(es)
  /\ caps = SetToSeq(Rings(es))

(* They are rings, and each ring is one of them.                            *)
LEMMA CapsAreRings ==
  ASSUME NEW faces, NEW es, NEW caps, CapsOf(faces, es, caps), Tolerance \in Nat \ {0}
  PROVE  /\ caps \in Loops /\ Lifted(es, Boundary(True(faces)))
         /\ \A k \in DOMAIN caps : caps[k] \in Rings(es) /\ Cycle(es, caps[k])
         /\ \A L \in Rings(es) : \E k \in DOMAIN caps : caps[k] = L
         /\ \A j, k \in DOMAIN caps : caps[j] = caps[k] => j = k
<1>1. Lifted(es, Boundary(True(faces)))
  BY TightBoundary DEF CapsOf
<1>2. RingsApart(es)
  BY RingsPartition DEF CapsOf
<1>3. Ends(es) \subseteq Corner
  <2>1. NodeLoops(faces) \in Loops
    BY NodeLoopsType DEF CapsOf
  <2>2. es \subseteq Sides(NodeLoops(faces))
    BY DEF CapsOf, Boundary
  <2> QED
    BY <2>1, <2>2, SidesAre DEF Ends
<1>4. IsFiniteSet(Rings(es)) /\ Rings(es) \subseteq Seq(Corner)
  <2>1. IsFiniteSet(Ends(es))
    BY <1>1 DEF Lifted
  <2>2. \A L \in Rings(es) : L \in Seq(Corner)
    <3> TAKE L \in Rings(es)
    <3>1. L \in Seq(Ends(es))
      BY <1>2 DEF RingsApart, Cycle
    <3> HIDE DEF Corner
    <3> QED
      BY <1>3, <3>1
  <2>3. IsFiniteSet(Rings(es))
    BY <2>1, RingsFinite
  <2> QED
    BY <2>2, <2>3
<1> DEFINE R == Rings(es)
<1>5. /\ caps \in Seq(R)
      /\ \A x \in R : \E i \in DOMAIN caps : caps[i] = x
      /\ \A i, j \in DOMAIN caps : caps[i] = caps[j] => i = j
  BY <1>4, Listed DEF CapsOf
<1>6. caps \in Loops
  <2> HIDE DEF R
  <2>1. R \subseteq Seq(Corner)
    BY <1>4 DEF R
  <2> QED
    BY <1>5, <2>1 DEF Loops
<1>7. \A k \in DOMAIN caps : caps[k] \in R
  <2> HIDE DEF R
  <2> QED
    BY <1>5
<1> QED
  BY <1>1, <1>2, <1>5, <1>6, <1>7 DEF RingsApart

(* They are made of nodes, which are corners of the soup.                   *)
LEMMA CappedIsTight ==
  ASSUME NEW faces, NEW es, NEW caps, CapsOf(faces, es, caps), Tolerance \in Nat \ {0}
  PROVE  faces \o caps \in Loops /\ Tight(faces \o caps) /\ AllSimple(faces \o caps)
<1> DEFINE N == NodeLoops(faces)
           all == faces \o caps
<1>0. faces \in Loops /\ Tight(faces) /\ AllSimple(faces) /\ es = Boundary(N)
  BY DEF CapsOf
<1>1. /\ caps \in Loops /\ Lifted(es, Boundary(True(faces)))
      /\ \A k \in DOMAIN caps : Cycle(es, caps[k])
  BY CapsAreRings
<1>2. /\ all \in Loops
      /\ \A f \in DOMAIN faces : f \in DOMAIN all /\ all[f] = faces[f]
      /\ \A k \in DOMAIN caps : Len(faces) + k \in DOMAIN all /\ all[Len(faces) + k] = caps[k]
      /\ \A f \in DOMAIN all : f \in DOMAIN faces \/ \E k \in DOMAIN caps : f = Len(faces) + k
  BY <1>0, <1>1, Joined
<1> HIDE DEF all
<1>3. \A u \in Ends(es) : \E d \in Refs(faces) : u = CornerAt(faces, d)
  <2> TAKE u \in Ends(es)
  <2>0. PICK e \in es : u \in e
    BY DEF Ends
  <2>1. Sewn(faces, N)
    BY <1>0, SimpleIsSewn
  <2>2. N \in Loops /\ Refs(N) = Refs(faces) /\ \A c \in Refs(faces) : CornerAt(N, c) = Unified(faces)[c]
    BY <2>1 DEF Sewn
  <2> HIDE DEF N
  <2>3. PICK c \in Refs(N) : e = Side(N, c)
    BY <1>0 DEF Boundary, Sides
  <2>4. PICK x \in Refs(N) : u = CornerAt(N, x)
    <3>1. e = {CornerAt(N, c), CornerAt(N, After(N, c))} /\ After(N, c) \in Refs(N)
      BY <2>2, <2>3, SideEnds
    <3> QED
      BY <2>0, <3>1
  <2>5. OneNodeEach(faces)
    BY <1>0, TightNodes
  <2> QED
    BY <2>2, <2>4, <2>5 DEF OneNodeEach
<1>4. ASSUME NEW k \in DOMAIN caps, NEW i \in DOMAIN caps[k]
      PROVE  caps[k][i] \in Ends(es)
  <2>1. caps[k] \in Seq(Ends(es))
    BY <1>1 DEF Cycle
  <2> QED
    BY <2>1
<1>5. \A c \in Refs(all) : \E d \in Refs(faces) : CornerAt(all, c) = CornerAt(faces, d)
  <2> TAKE c \in Refs(all)
  <2>1. c[1] \in DOMAIN all /\ c[2] \in DOMAIN all[c[1]]
    BY <1>2, RefsAre
  <2>2. CASE c[1] \in DOMAIN faces
    <3>1. <<c[1], c[2]>> \in Refs(faces) /\ CornerAt(all, c) = faces[c[1]][c[2]]
      BY <1>0, <1>2, <2>1, <2>2, RefsAre DEF CornerAt
    <3> QED
      BY <3>1 DEF CornerAt
  <2>3. ASSUME NEW k \in DOMAIN caps, c[1] = Len(faces) + k
        PROVE  \E d \in Refs(faces) : CornerAt(all, c) = CornerAt(faces, d)
    <3>1. all[c[1]] = caps[k]
      BY <1>2, <2>3
    <3>2. CornerAt(all, c) \in Ends(es)
      BY <1>4, <2>1, <3>1 DEF CornerAt
    <3> QED
      BY <1>3, <3>2
  <2> QED
    BY <1>2, <2>1, <2>2, <2>3
<1>6. Tight(all)
  BY <1>0, <1>5, TightCorners
<1>7. ASSUME NEW k \in DOMAIN caps PROVE Simple(caps[k])
  <2> DEFINE L == caps[k]
  <2>1. Cycle(es, L)
    BY <1>1
  <2> HIDE DEF L
  <2>2. ASSUME NEW i \in DOMAIN L PROVE L[i][1] # NextOf(L, i)[1]
    <3> DEFINE e == {L[i], NextOf(L, i)}
    <3>1. e \in es
      BY <2>1 DEF Cycle, Adjacent
    <3>2. L[i] # NextOf(L, i)
      BY <1>1, <3>1 DEF Lifted
    <3>3. L[i] \in Ends(es) /\ NextOf(L, i) \in Ends(es)
      BY <3>1 DEF Ends
    <3>4. Bare(L[i]) # Bare(NextOf(L, i))
      BY <1>1, <3>2, <3>3 DEF Lifted
    <3> QED
      BY <3>4 DEF Bare
  <2> QED
    BY <2>1, <2>2 DEF Cycle, Simple, L
<1>8. AllSimple(all)
  BY <1>0, <1>2, <1>7 DEF AllSimple
<1> QED
  BY <1>2, <1>6, <1>8 DEF all

(* A set of one, and a set of one and another.                              *)
LEMMA OneElement ==
  ASSUME NEW S, IsFiniteSet(S), Cardinality(S) = 1, NEW x \in S
  PROVE  S = {x}
<1>1. PICK y : S = {y}
  BY FS_Singleton
<1> QED
  BY <1>1

(* How often the sides of a soup without errors are used.                   *)
SidesUsed(faces, n) == \A c \in Refs(faces) : Cardinality(On(True(faces), Side(True(faces), c))) = n

(* The shell of a tight soup is closed if that of the soup without errors is*)
LEMMA TightCloses ==
  ASSUME NEW faces \in Loops, Tolerance \in Nat \ {0}, Tight(faces), AllSimple(faces),
         SidesUsed(faces, 2)
  PROVE  /\ \A e \in Sides(NodeLoops(faces)) : Uses(NodeLoops(faces), e) = 2
         /\ ~Open(NodeLoops(faces))
<1> DEFINE N == NodeLoops(faces)
           B == True(faces)
<1>1. Sewn(faces, N) /\ Alike(N, B)
  BY SewnIsTrue
<1> HIDE DEF N
<1>2. Refs(N) = Refs(faces)
  BY <1>1 DEF Sewn
<1>3. \A e \in Sides(N) : Uses(N, e) = 2
  <2> TAKE e \in Sides(N)
  <2>1. PICK c \in Refs(N) : e = Side(N, c)
    BY DEF Sides
  <2>2. On(N, e) = On(B, Side(B, c))
    BY <1>1, <2>1, AlikeSides
  <2>3. Cardinality(On(B, Side(B, c))) = 2
    BY <1>2 DEF SidesUsed
  <2> QED
    BY <2>2, <2>3 DEF Uses
<1>4. Boundary(N) = {}
  BY <1>3 DEF Boundary
<1> QED
  BY <1>3, <1>4 DEF Open, N

(* The soup with the caps of its boundary is closed.                        *)
LEMMA CapsClose ==
  ASSUME NEW faces, NEW es, NEW caps, CapsOf(faces, es, caps), Tolerance \in Nat \ {0},
         \A e \in Sides(True(faces)) : Uses(True(faces), e) <= 2
  PROVE  SidesUsed(faces \o caps, 2)
<1> DEFINE B == True(faces)
           N == NodeLoops(faces)
           all == faces \o caps
           A == True(all)
           n == Len(faces)
           Place(k, i) == <<n + k, i>>
           Edge(k, i) == {caps[k][i], NextOf(caps[k], i)}
<1>0. faces \in Loops /\ Tight(faces) /\ AllSimple(faces) /\ es = Boundary(N) /\ Regular(es)
  BY DEF CapsOf
<1>1. /\ caps \in Loops /\ Lifted(es, Boundary(B))
      /\ \A k \in DOMAIN caps : caps[k] \in Rings(es) /\ Cycle(es, caps[k])
      /\ \A L \in Rings(es) : \E k \in DOMAIN caps : caps[k] = L
      /\ \A j, k \in DOMAIN caps : caps[j] = caps[k] => j = k
  BY CapsAreRings
<1>2. /\ all \in Loops
      /\ \A f \in DOMAIN faces : f \in DOMAIN all /\ all[f] = faces[f]
      /\ \A k \in DOMAIN caps : n + k \in DOMAIN all /\ all[n + k] = caps[k]
      /\ \A f \in DOMAIN all : f \in DOMAIN faces \/ \E k \in DOMAIN caps : f = n + k
      /\ \A k \in DOMAIN caps : n + k \notin DOMAIN faces /\ k \in Nat
      /\ n \in Nat
  BY <1>0, <1>1, Joined
<1>3. RunByOne(es)
  BY <1>0, SidesOfRings
<1> HIDE DEF all, n
\* the places of the soup and those of the caps
<1>4. Refs(faces) \subseteq Refs(all)
  <2> SUFFICES ASSUME NEW c \in Refs(faces) PROVE c \in Refs(all)
    OBVIOUS
  <2>1. c[1] \in DOMAIN faces /\ c[2] \in DOMAIN faces[c[1]] /\ c = <<c[1], c[2]>>
    BY <1>0, RefsAre
  <2> QED
    BY <1>2, <2>1, RefsAre
<1>5. \A k \in DOMAIN caps : \A i \in DOMAIN caps[k] : Place(k, i) \in Refs(all) \ Refs(faces)
  <2> TAKE k \in DOMAIN caps
  <2> TAKE i \in DOMAIN caps[k]
  <2>1. Place(k, i) \in Refs(all)
    BY <1>2, RefsAre
  <2>2. Place(k, i)[1] \notin DOMAIN faces
    BY <1>2
  <2> QED
    BY <1>0, <2>1, <2>2, RefsAre
<1>6. \A c \in Refs(all) : c \in Refs(faces) \/ \E k \in DOMAIN caps : \E i \in DOMAIN caps[k] : c = Place(k, i)
  <2> TAKE c \in Refs(all)
  <2>1. c[1] \in DOMAIN all /\ c[2] \in DOMAIN all[c[1]] /\ c = <<c[1], c[2]>>
    BY <1>2, RefsAre
  <2>2. CASE c[1] \in DOMAIN faces
    BY <1>0, <1>2, <2>1, <2>2, RefsAre
  <2>3. ASSUME NEW k \in DOMAIN caps, c[1] = n + k
        PROVE  \E i \in DOMAIN caps[k] : c = Place(k, i)
    <3>1. c[2] \in DOMAIN caps[k]
      BY <1>2, <2>1, <2>3
    <3> QED
      BY <2>1, <2>3, <3>1
  <2> QED
    BY <1>2, <2>1, <2>2, <2>3
\* their sides, in the soup without errors
<1>7. \A c \in Refs(faces) : Side(A, c) = Side(B, c)
  <2> TAKE c \in Refs(faces)
  <2>1. c[1] \in DOMAIN faces /\ c[1] \in DOMAIN all /\ all[c[1]] = faces[c[1]]
    BY <1>0, <1>2, RefsAre
  <2>2. A[c[1]] = B[c[1]]
    BY <2>1 DEF True
  <2> QED
    BY <2>2 DEF Side, CornerAt
<1>8. ASSUME NEW k \in DOMAIN caps, NEW i \in DOMAIN caps[k]
      PROVE  Side(A, Place(k, i)) = Flat(Edge(k, i)) /\ Edge(k, i) \in es
  <2> DEFINE L == caps[k]
             c == Place(k, i)
             d == After(A, c)
             j == (i % Len(L)) + 1
  <2>1. c \in Refs(all) /\ all[c[1]] = L /\ c[1] = n + k /\ c[1] \in DOMAIN all /\ c[2] = i
    BY <1>2, <1>5
  <2>2. Cycle(es, L) /\ L \in Rings(es)
    BY <1>1
  <2>3. j \in DOMAIN L /\ NextOf(L, i) = L[j]
    <3>1. L \in Seq(Ends(es)) /\ i \in DOMAIN L
      BY <2>2 DEF Cycle
    <3> HIDE DEF L
    <3> QED
      BY <3>1, NextIs
  <2>4. d = <<n + k, j>>
    <3>1. Len(A[c[1]]) = Len(all[c[1]])
      BY <1>2, <2>1, TrueIs
    <3> QED
      BY <2>1, <3>1 DEF After
  <2>5. A \in Loops /\ Refs(A) = Refs(all) /\ \A x \in Refs(all) : CornerAt(A, x) = Bare(CornerAt(all, x))
    BY <1>2, TrueIs DEF Label, Bare
  <2>6. Side(A, c) = {CornerAt(A, c), CornerAt(A, d)} /\ d \in Refs(all)
    BY <2>1, <2>5, SideEnds
  <2>7. CornerAt(all, c) = L[i] /\ CornerAt(all, d) = L[j]
    BY <2>1, <2>4 DEF CornerAt
  <2>8. Side(A, c) = {Bare(L[i]), Bare(NextOf(L, i))}
    BY <2>1, <2>3, <2>5, <2>6, <2>7
  <2>9. Edge(k, i) \in es
    BY <1>3, <2>2 DEF RunByOne
  <2> QED
    BY <2>8, <2>9 DEF Flat
<1>9. \A e, f \in es : Flat(e) = Flat(f) => e = f
  <2> SUFFICES ASSUME NEW e \in es, NEW f \in es, Flat(e) = Flat(f) PROVE e = f
    OBVIOUS
  <2>1. e \subseteq f /\ f \subseteq e
    BY <1>1, LiftedSets
  <2> QED
    BY <2>1
<1>10. Refs(A) = Refs(all) /\ Refs(B) = Refs(faces)
  BY <1>0, <1>2, TrueIs
<1> HIDE DEF A, B, Place, Edge
\* a side of the soup is used twice, or once and then once by the caps
<1>11. ASSUME NEW c \in Refs(faces) PROVE Cardinality(On(A, Side(A, c))) = 2
  <2> DEFINE s == Side(B, c)
             O == On(B, s)
  <2>1. Side(A, c) = s /\ s \in Sides(B) /\ c \in O
    BY <1>7, <1>10 DEF Sides, On
  <2>2. IsFiniteSet(O) /\ Cardinality(O) \in Nat /\ Cardinality(O) <= 2 /\ Cardinality(O) # 0
    <3>1. IsFiniteSet(Refs(B))
      BY <1>0, TrueIs, RefsFinite DEF B
    <3>2. O \subseteq Refs(B)
      BY DEF On
    <3>3. Cardinality(O) <= 2
      BY <2>1 DEF Uses, B
    <3>4. IsFiniteSet(O)
      BY <3>1, <3>2, FS_Subset
    <3> HIDE DEF O
    <3> QED
      BY <2>1, <3>3, <3>4, FS_CardinalityType, FS_EmptySet
  <2>3. \A x \in Refs(faces) : x \in On(A, s) <=> x \in O
    BY <1>4, <1>7, <1>10 DEF On
  <2> HIDE DEF O
  <2>4. CASE Cardinality(O) = 2
    <3>1. s \notin Boundary(B)
      BY <2>4 DEF Boundary, Uses, O
    <3>2. \A x \in Refs(all) : x \in On(A, s) => x \in Refs(faces)
      <4> SUFFICES ASSUME NEW k \in DOMAIN caps, NEW i \in DOMAIN caps[k], Place(k, i) \in On(A, s)
                   PROVE  FALSE
        BY <1>6
      <4>1. s = Flat(Edge(k, i)) /\ Edge(k, i) \in es
        BY <1>8 DEF On
      <4> QED
        BY <1>1, <3>1, <4>1, LiftedSets
    <3>3. On(A, s) \subseteq Refs(all) /\ O \subseteq Refs(faces)
      BY <1>10 DEF On, O
    <3>4. On(A, s) = O
      BY <2>3, <3>2, <3>3
    <3> QED
      BY <2>1, <2>4, <3>4
  <2>5. CASE Cardinality(O) = 1
    <3>1. O = {c}
      BY <2>1, <2>2, <2>5, OneElement
    <3>2. s \in Boundary(B)
      BY <2>1, <2>5 DEF Boundary, Uses, O
    <3>3. PICK e \in es : s = Flat(e)
      BY <1>1, <3>2 DEF Lifted
    <3>4. PICK L \in Rings(es) : \E i \in DOMAIN L :
            /\ {L[i], NextOf(L, i)} = e
            /\ \A M \in Rings(es) : \A j \in DOMAIN M : {M[j], NextOf(M, j)} = e => M = L /\ j = i
      BY <1>3 DEF RunByOne
    <3>5. PICK i \in DOMAIN L :
            /\ {L[i], NextOf(L, i)} = e
            /\ \A M \in Rings(es) : \A j \in DOMAIN M : {M[j], NextOf(M, j)} = e => M = L /\ j = i
      BY <3>4
    <3>6. PICK k \in DOMAIN caps : caps[k] = L
      BY <1>1
    <3> DEFINE p == Place(k, i)
    <3>7. p \in On(A, s)
      <4>1. i \in DOMAIN caps[k] /\ Edge(k, i) = e
        BY <3>5, <3>6 DEF Edge
      <4> QED
        BY <1>5, <1>8, <1>10, <3>3, <4>1 DEF On
    <3>8. ASSUME NEW x \in On(A, s) PROVE x = c \/ x = p
      <4>1. x \in Refs(all) /\ Side(A, x) = s
        BY <1>10 DEF On
      <4>2. CASE x \in Refs(faces)
        BY <2>3, <3>1, <4>2
      <4>3. ASSUME NEW h \in DOMAIN caps, NEW j \in DOMAIN caps[h], x = Place(h, j)
            PROVE  x = p
        <5>1. Flat(Edge(h, j)) = Flat(e) /\ Edge(h, j) \in es
          BY <1>8, <3>3, <4>1, <4>3
        <5>2. {caps[h][j], NextOf(caps[h], j)} = e
          BY <1>9, <5>1 DEF Edge
        <5>3. caps[h] \in Rings(es)
          BY <1>1
        <5>4. caps[h] = L /\ j = i
          BY <3>5, <5>2, <5>3
        <5>5. h = k
          BY <1>1, <3>6, <5>4
        <5> QED
          BY <4>3, <5>4, <5>5
      <4> QED
        BY <1>6, <4>1, <4>2, <4>3
    <3>9. c \in On(A, s) /\ p # c
      <4>1. i \in DOMAIN caps[k]
        BY <3>6
      <4> QED
        BY <1>5, <2>1, <2>3, <4>1
    <3> HIDE DEF p
    <3>10. On(A, s) = {c, p}
      BY <3>7, <3>8, <3>9
    <3> HIDE DEF s
    <3> QED
      BY <2>1, <3>9, <3>10, TwoElements
  <2> QED
    BY <2>2, <2>4, <2>5
\* a side of a cap is a side of the soup
<1>12. ASSUME NEW k \in DOMAIN caps, NEW i \in DOMAIN caps[k]
       PROVE  \E c \in Refs(faces) : Side(A, Place(k, i)) = Side(A, c)
  <2>1. Flat(Edge(k, i)) \in Boundary(B)
    BY <1>1, <1>8, LiftedSets
  <2>2. PICK c \in Refs(B) : Flat(Edge(k, i)) = Side(B, c)
    BY <2>1 DEF Boundary, Sides
  <2> QED
    BY <1>7, <1>8, <1>10, <2>2
<1>13. \A c \in Refs(all) : Cardinality(On(A, Side(A, c))) = 2
  BY <1>6, <1>11, <1>12
<1> QED
  BY <1>13 DEF SidesUsed, A, all

------------------------------------------------------------------------------
(* The volume of a shell turned over.                                       *)

(* The vertices lie on the integer lattice.                                 *)
LEMMA ConeIsInt ==
  ASSUME NEW L \in Seq(Corner)
  PROVE  Total([i \in 1..(Len(L) - 1) |-> Det(At(L[1]), At(L[i]), At(L[i + 1]))]) \in Int
<1> DEFINE n == Len(L)
           Fan(i) == Det(At(L[1]), At(L[i]), At(L[i + 1]))
           fans == [i \in 1..(n - 1) |-> Fan(i)]
<1>1. n \in Nat /\ \A i \in 1..n : L[i] \in Corner
  OBVIOUS
<1>2. \A p \in Corner : At(p) \in [1..3 -> Int]
  BY SoupsAssumption DEF Corner, At
<1>3. \A p, q, r \in [1..3 -> Int] : Det(p, q, r) \in Int
  <2> SUFFICES ASSUME NEW p \in [1..3 -> Int], NEW q \in [1..3 -> Int], NEW r \in [1..3 -> Int]
               PROVE  Det(p, q, r) \in Int
    OBVIOUS
  <2>1. /\ p[1] \in Int /\ p[2] \in Int /\ p[3] \in Int /\ q[1] \in Int /\ q[2] \in Int /\ q[3] \in Int
        /\ r[1] \in Int /\ r[2] \in Int /\ r[3] \in Int
    OBVIOUS
  <2>2. \A a, b \in Int : a * b \in Int /\ a - b \in Int /\ a + b \in Int
    OBVIOUS
  <2> DEFINE a == q[2] * r[3] - q[3] * r[2]
             b == q[1] * r[3] - q[3] * r[1]
             c == q[1] * r[2] - q[2] * r[1]
  <2>3. a \in Int /\ b \in Int /\ c \in Int
    BY <2>1, <2>2
  <2>4. Det(p, q, r) = p[1] * a - p[2] * b + p[3] * c
    BY DEF Det
  <2> HIDE DEF a, b, c
  <2> QED
    BY <2>1, <2>2, <2>3, <2>4
<1>4. \A i \in 1..(n - 1) : Fan(i) \in Int
  <2> TAKE i \in 1..(n - 1)
  <2>1. 1 \in 1..n /\ i \in 1..n /\ i + 1 \in 1..n
    BY <1>1
  <2> QED
    BY <1>1, <1>2, <1>3, <2>1
<1> HIDE DEF Fan, n
<1>5. fans \in Seq(Int)
  <2> DEFINE m == IF n = 0 THEN 0 ELSE n - 1
  <2>1. m \in Nat /\ 1..(n - 1) = 1..m
    BY <1>1
  <2>2. fans \in [1..m -> Int]
    BY <1>4, <2>1
  <2> HIDE DEF m, fans
  <2> QED
    BY <2>1, <2>2, ListOf
<1> HIDE DEF fans
<1>6. Total(fans) \in Int
  BY <1>5, TotalIsInt
<1> QED
  BY <1>6 DEF fans, Fan, n

(* Turned over, a shell has the opposite of the volume that it had.         *)
LEMMA VolumeTurns ==
  ASSUME shell \in Loops, NEW rev \in [DOMAIN shell -> BOOLEAN], NEW fs,
         NEW turned, turned = [f \in DOMAIN shell |-> ~rev[f]]
  PROVE  Volume(fs, rev) \in Int /\ Volume(fs, turned) = -Volume(fs, rev)
<1> DEFINE Cone(f) == Total([i \in 1..(Len(shell[f]) - 1) |->
                               Det(At(shell[f][1]), At(shell[f][i]), At(shell[f][i + 1]))])
           Part(f, r) == IF f \notin fs THEN 0 ELSE IF r[f] THEN -Cone(f) ELSE Cone(f)
           s == [f \in DOMAIN shell |-> Part(f, rev)]
           t == [f \in DOMAIN shell |-> Part(f, turned)]
           n == Len(shell)
<1>1. \A f \in DOMAIN shell : Cone(f) \in Int
  BY ConeIsInt DEF Loops
<1>2. Volume(fs, rev) = Total(s) /\ Volume(fs, turned) = Total(t)
  BY DEF Volume
<1> HIDE DEF Cone
<1>3. n \in Nat /\ DOMAIN shell = 1..n
  BY DEF Loops
<1>4. \A f \in 1..n : /\ Part(f, rev) \in Int /\ Part(f, turned) \in Int
                      /\ Part(f, turned) = -Part(f, rev)
  <2> TAKE f \in 1..n
  <2>1. rev[f] \in BOOLEAN /\ turned[f] = ~rev[f] /\ Cone(f) \in Int
    BY <1>1, <1>3
  <2> DEFINE k == Cone(f)
             a == Part(f, rev)
             b == Part(f, turned)
  <2>2. f \notin fs => a = 0 /\ b = 0
    OBVIOUS
  <2>3. f \in fs /\ rev[f] => a = -k /\ b = k
    BY <2>1
  <2>4. f \in fs /\ ~rev[f] => a = k /\ b = -k
    BY <2>1
  <2>5. k \in Int
    BY <2>1
  <2> HIDE DEF k, a, b
  <2>6. a \in Int /\ b \in Int /\ b = -a
    BY <2>1, <2>2, <2>3, <2>4, <2>5
  <2> QED
    BY <2>6 DEF a, b
<1> HIDE DEF Part, n
<1>5. s \in [1..n -> Int] /\ t \in [1..n -> Int] /\ \A f \in 1..n : t[f] = -s[f]
  BY <1>3, <1>4
<1> HIDE DEF s, t
<1>6. s \in Seq(Int) /\ t \in Seq(Int) /\ Len(s) = n /\ Len(t) = n
  BY <1>3, <1>5, ListOf
<1> QED
  BY <1>2, <1>5, <1>6, TotalIsInt, TotalNegates

------------------------------------------------------------------------------
(* A soup that its options allow to be mended.                              *)

Gaps == Boundary(True(Given))

(* What is known of it.                                                     *)
MendableGiven ==
  /\ soup \in Loops /\ Given \in Loops /\ Tight(Given) /\ AllSimple(Given)
  /\ Cardinality(Faces(True(Given))) >= 4
  /\ \A e \in Sides(True(Given)) : Uses(True(Given), e) <= 2
  /\ Gaps = {} \/ Cappable(Given, Gaps)

(* The cleaning keeps the soup tight.                                       *)
LEMMA WhatMendableMeans ==
  ASSUME soup \in Loops, Mendable
  PROVE  MendableGiven
<1>1. Tight(soup)
  BY DEF Mendable
<1>2. Given \in Loops /\ Tight(Given) /\ AllSimple(Given)
  BY <1>1, RemoveDegenerateType, CleanedTight DEF Given
<1> QED
  BY <1>2 DEF Mendable, MendableGiven, Given, Gaps

(* How many faces there are.                                                *)
LEMMA FacesCount ==
  ASSUME NEW loops \in Loops
  PROVE  IsFiniteSet(Faces(loops)) /\ Cardinality(Faces(loops)) \in Nat
         /\ Cardinality(Faces(loops)) <= Len(loops)
<1> DEFINE n == Len(loops)
           I == 1..n
<1>1. n \in Nat /\ DOMAIN loops = I
  BY DEF Loops
<1> HIDE DEF n
<1>2. IsFiniteSet(I) /\ Cardinality(I) = n
  BY <1>1, FS_Interval
<1>3. Faces(loops) \subseteq I
  BY <1>1 DEF Faces
<1> HIDE DEF I
<1>4. IsFiniteSet(Faces(loops)) /\ Cardinality(Faces(loops)) <= Cardinality(I)
  BY <1>2, <1>3, FS_Subset
<1> QED
  BY <1>2, <1>4, FS_CardinalityType DEF n

(* The soup, the soup without errors and the shell have the same faces.     *)
LEMMA SameFaces ==
  ASSUME NEW faces \in Loops, Tolerance \in Nat, AllSimple(faces)
  PROVE  Faces(True(faces)) = Faces(faces) /\ Faces(NodeLoops(faces)) = Faces(faces)
<1>1. Sewn(faces, NodeLoops(faces))
  BY SimpleIsSewn
<1> QED
  BY <1>1, TrueIs DEF Faces, Sewn

(* What the cap pass appends, if anything, are rings of the boundary.       *)
LEMMA MendingCaps ==
  ASSUME MendableGiven, Tolerance \in Nat \ {0}, NEW es, es = Boundary(NodeLoops(Given))
  PROVE  /\ CapsOf(Given, es, SetToSeq(Rings(es)))
         /\ (IF opts.capAll \/ opts.capOne THEN Caps(es) ELSE {<<>>}) = {SetToSeq(Rings(es))}
<1>0. Given \in Loops /\ Tight(Given) /\ AllSimple(Given)
  BY DEF MendableGiven
<1>1. Lifted(es, Gaps)
  BY <1>0, TightBoundary DEF Gaps
<1>2. CASE es = {}
  <2>1. Ends(es) = {}
    BY <1>2 DEF Ends
  <2>2. Regular(es)
    BY <1>2, <2>1, FS_EmptySet DEF Regular
  <2>3. Rings(es) = {}
    BY <2>1 DEF Rings
  <2> DEFINE R == Rings(es)
  <2>4. IsFiniteSet(R) /\ R = {}
    BY <2>3, FS_EmptySet
  <2>5. SetToSeq(R) = <<>>
    <3>1. SetToSeq(R) \in Seq(R)
      BY <2>4, Listed
    <3> HIDE DEF R
    <3> QED
      BY <2>4, <3>1
  <2>6. Caps(es) = {<<>>}
    BY <2>4, <2>5 DEF Caps
  <2>7. CapsOf(Given, es, SetToSeq(Rings(es)))
    BY <1>0, <2>2 DEF CapsOf
  <2> QED
    BY <2>5, <2>6, <2>7
<1>3. CASE es # {}
  <2>1. Gaps # {}
    BY <1>1, <1>3 DEF Lifted
  <2>2. Cappable(Given, Gaps)
    BY <2>1 DEF MendableGiven
  <2>n. NodesFrom(Ends(es), Given)
    BY <1>0, TightBoundaryNodes
  <2>3. Regular(es) /\ Caps(es) = {SetToSeq(Rings(es))} /\ (opts.capAll \/ opts.capOne)
    BY <1>1, <1>3, <2>2, <2>n, HolesAreCapped
  <2>4. CapsOf(Given, es, SetToSeq(Rings(es)))
    BY <1>0, <2>3 DEF CapsOf
  <2> QED
    BY <2>3, <2>4
<1> QED
  BY <1>2, <1>3

(* Until its caps are in place the soup is what was given; then it is       *)
(* closed.                                                                  *)
Mending ==
  Mendable =>
    /\ phase \in {"sew", "bridge", "cap"} => working = Given
    /\ phase \in {"bridge", "cap"} => shell = NodeLoops(Given)
    /\ phase = "orient" => Watertight
    /\ TightSoupsHeal

(* A tight soup is not moved by bridging, and what capping appends closes   *)
(* it; then verify turns it over if its volume is negative.                 *)
LEMMA MendingStep == HealTypeOK /\ Mending /\ [HealNext]_healVars => Mending'
<1> SUFFICES ASSUME HealTypeOK, Mending, [HealNext]_healVars, Mendable'
             PROVE  (/\ phase \in {"sew", "bridge", "cap"} => working = Given
                     /\ phase \in {"bridge", "cap"} => shell = NodeLoops(Given)
                     /\ phase = "orient" => Watertight
                     /\ TightSoupsHeal)'
  BY DEF Mending
<1>s. soup' = soup /\ opts' = opts
  BY DEF HealNext, healVars, Clean, Sew, BridgesGaps, Cap, MakeConsistent, Verify, HealDone
<1>g. Given' = Given
  BY <1>s DEF Given
<1>m. Mendable
  BY <1>s DEF Mendable, Cappable
<1>0. /\ working \in Loops /\ shell \in Loops /\ soup \in Loops
      /\ opts.budget \in Nat /\ Tolerance \in Nat /\ Tolerance \in Nat \ {0} /\ Feature \in Nat \ {0}
  BY ConstantsAre, SoupsAssumption DEF HealTypeOK
<1>1. MendableGiven
  BY <1>0, <1>m, WhatMendableMeans
<1>2. /\ Given \in Loops /\ Tight(Given) /\ AllSimple(Given)
      /\ Cardinality(Faces(Given)) >= 4
      /\ \A e \in Sides(True(Given)) : Uses(True(Given), e) <= 2
  BY <1>0, <1>1, SameFaces DEF MendableGiven
<1>3. /\ phase \in {"sew", "bridge", "cap"} => working = Given
      /\ phase \in {"bridge", "cap"} => shell = NodeLoops(Given)
      /\ phase = "orient" => Watertight
      /\ TightSoupsHeal
  BY <1>m DEF Mending
<1> HIDE DEF Given
<1>4. CASE Clean
  <2>1. working' = Given
    BY <1>4 DEF Clean, Given
  <2>2. Len(soup) >= 4
    <3>1. DOMAIN Given = DOMAIN soup
      BY DEF Given, RemoveDegenerate
    <3>2. Len(Given) = Len(soup)
      BY <1>0, <1>2, <3>1 DEF Loops
    <3> QED
      BY <1>0, <1>2, <3>2, FacesCount DEF Loops
  <2>3. ~(Len(soup) < 4 \/ Cardinality(Faces(working')) < 4)
    BY <1>0, <1>2, <2>1, <2>2, FacesCount DEF Loops
  <2>4. phase' = "sew"
    BY <1>4, <2>3 DEF Clean, Proceed
  <2> QED
    BY <1>g, <2>1, <2>4 DEF TightSoupsHeal
<1>5. CASE Sew
  <2>1. working = Given /\ working' = working /\ shell' = NodeLoops(Given)
    BY <1>3, <1>5 DEF Sew
  <2>2. Cardinality(Faces(shell')) >= 4
    BY <1>0, <1>2, <2>1, SameFaces
  <2>3. Cardinality(Faces(shell')) \in Nat
    BY <1>0, <1>2, <2>1, NodeLoopsType, FacesCount
  <2>4. phase' = "bridge" \/ phase' = "cap"
    BY <1>5, <2>2, <2>3 DEF Sew, Proceed
  <2> QED
    BY <1>g, <2>1, <2>4 DEF TightSoupsHeal
<1>6. CASE BridgesGaps
  <2>1. working = Given /\ working' = BridgeGaps(working) /\ shell' = NodeLoops(working') /\ phase' = "cap"
    BY <1>3, <1>6 DEF BridgesGaps, Proceed
  <2>2. working' = Given
    BY <1>0, <1>2, <2>1, TightStays
  <2> QED
    BY <1>g, <2>1, <2>2 DEF TightSoupsHeal
<1>7. CASE Cap
  <2> DEFINE es == Boundary(NodeLoops(Given))
             caps == SetToSeq(Rings(es))
             all == Given \o caps
  <2>1. CapsOf(Given, es, caps) /\ (IF opts.capAll \/ opts.capOne THEN Caps(es) ELSE {<<>>}) = {caps}
    BY <1>0, <1>1, MendingCaps
  <2>2. working = Given /\ shell = NodeLoops(Given)
    BY <1>3, <1>7 DEF Cap
  <2>3. working' = all /\ shell' = NodeLoops(working')
    BY <1>7, <2>1, <2>2 DEF Cap
  <2> HIDE DEF es, caps
  <2>4. all \in Loops /\ Tight(all) /\ AllSimple(all)
    BY <1>0, <2>1, CappedIsTight
  <2>5. SidesUsed(all, 2)
    BY <1>0, <1>2, <2>1, CapsClose
  <2>6. caps \in Loops
    BY <1>0, <2>1, CapsAreRings
  <2>7. Faces(Given) \subseteq Faces(all)
    BY <1>2, <2>6, Joined DEF Faces
  <2> HIDE DEF all
  <2>8. /\ \A e \in Sides(NodeLoops(all)) : Uses(NodeLoops(all), e) = 2
        /\ ~Open(NodeLoops(all))
    BY <1>0, <2>4, <2>5, TightCloses
  <2>9. Cardinality(Faces(NodeLoops(all))) >= 4
    <3>1. Faces(NodeLoops(all)) = Faces(all)
      BY <1>0, <2>4, SameFaces
    <3>2. IsFiniteSet(Faces(all)) /\ Cardinality(Faces(all)) \in Nat /\ Cardinality(Faces(Given)) \in Nat
      BY <1>2, <2>4, FacesCount
    <3>3. Cardinality(Faces(Given)) <= Cardinality(Faces(all))
      BY <2>7, <3>2, FS_Subset
    <3> QED
      BY <1>2, <3>1, <3>2, <3>3
  <2>10. Watertight'
    BY <2>3, <2>8, <2>9 DEF Watertight
  <2>11. phase' = "orient"
    BY <1>7, <2>3, <2>8 DEF Cap, Proceed
  <2> QED
    BY <2>10, <2>11 DEF TightSoupsHeal
<1>8. CASE MakeConsistent
  <2>1. shell' = shell /\ phase = "orient" /\ phase' = "orient"
    BY <1>8 DEF MakeConsistent
  <2>2. Watertight'
    BY <1>3, <2>1 DEF Watertight, Faces, Sides, Uses, On, Side, Refs, CornerAt
  <2> QED
    BY <2>1, <2>2 DEF TightSoupsHeal
<1>9. CASE Verify
  <2> DEFINE v == Volume(Faces(shell), reversed)
             w == Volume(Faces(shell), reversed')
             turned == [f \in DOMAIN shell |-> ~reversed[f]]
  <2>1. Watertight /\ phase = "orient" /\ phase' = "done" /\ shell' = shell
    BY <1>3, <1>9 DEF Verify, Answer
  <2>2. reversed \in [DOMAIN shell -> BOOLEAN]
    BY <2>1 DEF HealTypeOK
  <2>3. v \in Int /\ Volume(Faces(shell), turned) = -v
    BY <1>0, <2>2, VolumeTurns
  <2>4. (v < 0 => reversed' = turned) /\ (~(v < 0) => reversed' = reversed)
    BY <1>9, <2>1 DEF Verify
  <2>5. (w > 0 => verdict' = "Healed") /\ (~(w > 0) => verdict' = "SelfVerifyFailed")
    BY <1>9, <2>1 DEF Verify, Answer
  <2>6. (v < 0 => w = -v) /\ (~(v < 0) => w = v)
    <3> HIDE DEF turned
    <3> QED
      BY <2>3, <2>4
  <2> HIDE DEF v, turned
  <2>7. w > 0 \/ w = 0
    <3> HIDE DEF w
    <3> QED
      BY <2>3, <2>6
  <2>8. Volume(Faces(shell), reversed)' = w
    BY <2>1 DEF Volume, Faces
  <2> HIDE DEF w
  <2>9. ~(0 > 0)
    OBVIOUS
  <2> QED
    BY <2>1, <2>5, <2>7, <2>8, <2>9 DEF TightSoupsHeal
<1>10. CASE UNCHANGED healVars
  <2>1. /\ soup' = soup /\ opts' = opts /\ phase' = phase /\ working' = working /\ shell' = shell
        /\ reversed' = reversed /\ verdict' = verdict
    BY <1>10 DEF healVars
  <2>2. Watertight' = Watertight /\ Volume(Faces(shell), reversed)' = Volume(Faces(shell), reversed)
    BY <2>1 DEF Watertight, Faces, Sides, Uses, On, Side, Refs, CornerAt, Volume
  <2> QED
    BY <1>g, <1>m, <1>3, <2>1, <2>2 DEF TightSoupsHeal
<1> QED
  BY <1>4, <1>5, <1>6, <1>7, <1>8, <1>9, <1>10 DEF HealNext, HealDone

(* A soup whose copies of each vertex lie within the tolerance of each      *)
(* other is healed, if it is closed or its holes are planar and opted for;  *)
(* however many faces, vertices, holes and wrong windings it has.           *)
THEOREM TightSoupsAreHealed == HealSpec => []TightSoupsHeal
<1>1. HealInit => Mending
  BY DEF HealInit, Mending, TightSoupsHeal
<1>2. Mending => TightSoupsHeal
  BY DEF Mending, TightSoupsHeal
<1> QED
  BY <1>1, <1>2, TypeInit, TypeStep, MendingStep, PTL DEF HealSpec
=============================================================================
