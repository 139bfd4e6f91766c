-------------------------- MODULE StepAssemblyProofs --------------------------
(***************************************************************************)
(* Proofs about the placement of the solids of a STEP file by form A: that *)
(* a file that is taken has every solid once, where the relationships put  *)
(* it, and that a file whose relationships form a forest is taken, in      *)
(* whichever order the hash table yields its records.                      *)
(***************************************************************************)
EXTENDS StepAssembly, OrderLemmas, FiniteSetTheorems, TLAPS

------------------------------------------------------------------------------
(* Files.                                                                   *)

(* The solid of a representation that has one.                              *)
LEMMA BrepOfIs ==
  ASSUME file \in Files, NEW r, BrepOf(r) # {}
  PROVE  r \in Reps /\ \E b \in Breps : BrepOf(r) = {b} /\ file.items[r] = {b}
<1>1. r \in Reps /\ Cardinality(file.items[r]) = 1 /\ BrepOf(r) = file.items[r]
  BY DEF BrepOf
<1>2. IsFiniteSet(file.items[r])
  BY <1>1, FilesAssumption DEF Reps
<1>3. PICK b : file.items[r] = {b}
  BY <1>1, <1>2, FS_Singleton
<1>4. b \in Breps
  BY <1>1, <1>3 DEF Breps
<1> QED
  BY <1>1, <1>3, <1>4

(* A file's solids, and its relationships with operators, are finitely many.*)
LEMMA FiniteParts ==
  ASSUME file \in Files
  PROVE  /\ IsFiniteSet(Breps)
         /\ IsFiniteSet(Operated) /\ Cardinality(Operated) \in Nat
<1>1. IsFiniteSet(Breps)
  <2> DEFINE f == [r \in Reps |-> file.items[r]]
             T == {f[r] : r \in Reps}
  <2>1. IsFiniteSet(Reps) /\ \A r \in Reps : IsFiniteSet(file.items[r])
    BY FilesAssumption DEF Reps
  <2>2. f \in Surjection(Reps, T)
    BY DEF Surjection
  <2>3. IsFiniteSet(T)
    <3> HIDE DEF f, T
    <3> QED
      BY <2>1, <2>2, FS_Surjection
  <2>4. \A t \in T : IsFiniteSet(t)
    BY <2>1
  <2>5. Breps = UNION T
    BY DEF Breps
  <2> HIDE DEF T
  <2> QED
    BY <2>3, <2>4, <2>5, FS_UNION
<1>2. IsFiniteSet(Operated)
  <2>1. Operated \in SUBSET DOMAIN file.rels
    BY DEF Operated, Carriers
  <2>2. IsFiniteSet(DOMAIN file.rels)
    BY FilesAssumption
  <2> QED
    BY <2>1, <2>2, FS_Subset
<1> QED
  BY <1>1, <1>2, FS_CardinalityType

------------------------------------------------------------------------------
(* Climbs.                                                                  *)

(* The parent edges of some relationships; and what ReadsEdge sees to, that *)
(* a child has one edge.                                                    *)
EdgesOf(S) == {ParentEdge(i) : i \in S}
OneEach == \A e, f \in edges : e.child = f.child => e = f

(* A climb of n edges from r, where it leads, and that it can go no further.*)
IsClimb(n, c, r) ==
  /\ c \in [1..n -> edges]
  /\ \A k \in 1..n : c[k].child = IF k = 1 THEN r ELSE c[k - 1].parent
End(n, c, r) == IF n = 0 THEN r ELSE c[n].parent
Topped(n, c, r) == \A e \in edges : e.child # End(n, c, r)

(* The climbs of the model are these, up to as many edges as there are.     *)
LEMMA ClimbsAre ==
  ASSUME Cardinality(edges) \in Nat, NEW r, NEW c
  PROVE  c \in Climbs(r) <=> \E n \in 0..Cardinality(edges) : IsClimb(n, c, r) /\ Topped(n, c, r)
<1> DEFINE N == Cardinality(edges)
           Shape(d) == /\ \A k \in DOMAIN d : d[k].child = IF k = 1 THEN r ELSE d[k - 1].parent
                       /\ \A e \in edges : e.child # IF d = <<>> THEN r ELSE d[Len(d)].parent
<1>1. c \in Climbs(r) <=> c \in SeqOf(edges, N) /\ Shape(c)
  BY DEF Climbs
<1>2. c \in SeqOf(edges, N) <=> \E n \in 0..N : c \in [1..n -> edges]
  BY DEF SeqOf
<1>3. ASSUME NEW n \in 0..N, c \in [1..n -> edges]
      PROVE  Shape(c) <=> IsClimb(n, c, r) /\ Topped(n, c, r)
  <2>1. DOMAIN c = 1..n /\ Len(c) = n /\ (c = <<>> <=> n = 0)
    BY <1>3
  <2>2. (IF c = <<>> THEN r ELSE c[Len(c)].parent) = End(n, c, r)
    BY <2>1 DEF End
  <2> QED
    BY <1>3, <2>1, <2>2 DEF IsClimb, Topped
<1> HIDE DEF N, Shape
<1> QED
  BY <1>1, <1>2, <1>3 DEF IsClimb, N

(* From a representation there is one climb at most.                        *)
LEMMA OneClimb ==
  ASSUME OneEach, NEW r, NEW n \in Nat, NEW c, IsClimb(n, c, r), Topped(n, c, r),
         NEW m \in Nat, NEW d, IsClimb(m, d, r), Topped(m, d, r)
  PROVE  n = m /\ c = d
<1> DEFINE T == {k \in Nat : k <= n /\ k <= m => \A j \in 1..k : c[j] = d[j]}
<1>1. 0 \in T
  OBVIOUS
<1>2. ASSUME NEW k \in Nat, k \in T PROVE k + 1 \in T
  <2> SUFFICES ASSUME k + 1 <= n, k + 1 <= m PROVE \A j \in 1..(k + 1) : c[j] = d[j]
    OBVIOUS
  <2>1. \A j \in 1..k : c[j] = d[j]
    BY <1>2
  <2>2. k + 1 \in 1..n /\ k + 1 \in 1..m
    OBVIOUS
  <2>3. c[k + 1] \in edges /\ d[k + 1] \in edges
    BY <2>2 DEF IsClimb
  <2>4. /\ c[k + 1].child = IF k + 1 = 1 THEN r ELSE c[(k + 1) - 1].parent
        /\ d[k + 1].child = IF k + 1 = 1 THEN r ELSE d[(k + 1) - 1].parent
    BY <2>2 DEF IsClimb
  <2>5. c[k + 1].child = d[k + 1].child
    <3>1. CASE k = 0
      BY <2>4, <3>1
    <3>2. CASE k # 0
      <4>1. (k + 1) - 1 = k /\ k + 1 # 1 /\ c[k] = d[k]
        BY <2>1, <3>2
      <4> QED
        BY <2>4, <4>1
    <3> QED
      BY <3>1, <3>2
  <2>6. c[k + 1] = d[k + 1]
    BY <2>3, <2>5 DEF OneEach
  <2> QED
    BY <2>1, <2>6
<1>3. Nat \subseteq T
  <2> HIDE DEF T
  <2> QED
    BY <1>1, <1>2, SetInduction
<1>4. \A j \in Nat : 1 <= j /\ j <= n /\ j <= m => c[j] = d[j]
  <2> SUFFICES ASSUME NEW j \in Nat, 1 <= j, j <= n, j <= m PROVE c[j] = d[j]
    OBVIOUS
  <2>1. j \in T
    BY <1>3
  <2> QED
    BY <2>1
<1> HIDE DEF T
<1>5. ~(n < m)
  <2> SUFFICES ASSUME n < m PROVE FALSE
    OBVIOUS
  <2>1. n + 1 \in 1..m
    OBVIOUS
  <2>2. d[n + 1] \in edges /\ d[n + 1].child = IF n + 1 = 1 THEN r ELSE d[(n + 1) - 1].parent
    BY <2>1 DEF IsClimb
  <2>3. d[n + 1].child = End(n, c, r)
    <3>1. CASE n = 0
      BY <2>2, <3>1 DEF End
    <3>2. CASE n # 0
      <4>1. (n + 1) - 1 = n /\ n + 1 # 1 /\ c[n] = d[n]
        BY <1>4, <3>2
      <4> QED
        BY <2>2, <3>2, <4>1 DEF End
    <3> QED
      BY <3>1, <3>2
  <2> QED
    BY <2>2, <2>3 DEF Topped
<1>6. ~(m < n)
  <2> SUFFICES ASSUME m < n PROVE FALSE
    OBVIOUS
  <2>1. m + 1 \in 1..n
    OBVIOUS
  <2>2. c[m + 1] \in edges /\ c[m + 1].child = IF m + 1 = 1 THEN r ELSE c[(m + 1) - 1].parent
    BY <2>1 DEF IsClimb
  <2>3. c[m + 1].child = End(m, d, r)
    <3>1. CASE m = 0
      BY <2>2, <3>1 DEF End
    <3>2. CASE m # 0
      <4>1. (m + 1) - 1 = m /\ m + 1 # 1 /\ c[m] = d[m]
        BY <1>4, <3>2
      <4> QED
        BY <2>2, <3>2, <4>1 DEF End
    <3> QED
      BY <3>1, <3>2
  <2> QED
    BY <2>2, <2>3 DEF Topped
<1>7. n = m
  BY <1>5, <1>6
<1>8. c \in [1..n -> edges] /\ d \in [1..n -> edges] /\ \A j \in 1..n : c[j] = d[j]
  BY <1>4, <1>7 DEF IsClimb
<1> QED
  BY <1>7, <1>8

------------------------------------------------------------------------------
(* Climbs by edges and ways by relationships.                               *)

(* There are no more edges than relationships that give them, and each edge *)
(* has one that does.                                                       *)
Giver(e) == CHOOSE i \in Operated : ParentEdge(i) = e
(* When all are read, every edge has one, so that edges are no more.        *)
LEMMA GiversAre ==
  ASSUME file \in Files, edges = EdgesOf(Operated)
  PROVE  /\ Cardinality(edges) \in Nat /\ Cardinality(edges) <= Cardinality(Operated)
         /\ IsFiniteSet(edges)
         /\ \A e \in edges : Giver(e) \in Operated /\ ParentEdge(Giver(e)) = e
<1> DEFINE f == [i \in Operated |-> ParentEdge(i)]
<1>1. f \in Surjection(Operated, edges)
  BY DEF Surjection, EdgesOf
<1>2. IsFiniteSet(edges) /\ Cardinality(edges) <= Cardinality(Operated)
  <2> HIDE DEF f
  <2> QED
    BY <1>1, FiniteParts, FS_Surjection
<1>3. \A e \in edges : Giver(e) \in Operated /\ ParentEdge(Giver(e)) = e
  BY DEF EdgesOf, Giver
<1> QED
  BY <1>2, <1>3, FS_CardinalityType

(* What a relationship gives its edge.                                      *)
LEMMA EdgeOfRel ==
  ASSUME NEW i
  PROVE  /\ ParentEdge(i).child = file.rels[i].child /\ ParentEdge(i).parent = file.rels[i].parent
         /\ ParentEdge(i).op = file.rels[i].op
BY DEF ParentEdge

(* A way, in the numbers that IsClimb uses.                                 *)
IsWay(n, w, r) ==
  /\ w \in [1..n -> Operated]
  /\ \A k \in 1..n : file.rels[w[k]].child = IF k = 1 THEN r ELSE file.rels[w[k - 1]].parent
  /\ \A i \in Operated : file.rels[i].child # IF n = 0 THEN r ELSE file.rels[w[n]].parent

(* The ways of the model are these, up to as many as there are              *)
(* relationships.                                                           *)
LEMMA WaysAre ==
  ASSUME Cardinality(Operated) \in Nat, NEW r, NEW w
  PROVE  w \in Ways(r, Operated) <=> \E n \in 0..Cardinality(Operated) : IsWay(n, w, r)
<1> DEFINE N == Cardinality(Operated)
           Shape(d) == /\ \A k \in DOMAIN d : file.rels[d[k]].child = IF k = 1 THEN r ELSE file.rels[d[k - 1]].parent
                       /\ \A i \in Operated : file.rels[i].child # IF d = <<>> THEN r ELSE file.rels[d[Len(d)]].parent
<1>1. w \in Ways(r, Operated) <=> w \in SeqOf(Operated, N) /\ Shape(w)
  BY DEF Ways
<1>2. w \in SeqOf(Operated, N) <=> \E n \in 0..N : w \in [1..n -> Operated]
  BY DEF SeqOf
<1>3. ASSUME NEW n \in 0..N, w \in [1..n -> Operated]
      PROVE  Shape(w) <=> IsWay(n, w, r)
  <2>1. DOMAIN w = 1..n /\ Len(w) = n /\ (w = <<>> <=> n = 0)
    BY <1>3
  <2>2. (IF w = <<>> THEN r ELSE file.rels[w[Len(w)]].parent) = (IF n = 0 THEN r ELSE file.rels[w[n]].parent)
    BY <2>1
  <2> QED
    BY <1>3, <2>1, <2>2 DEF IsWay
<1> HIDE DEF N, Shape
<1> QED
  BY <1>1, <1>2, <1>3 DEF IsWay, N

(* The edges along a way are a climb.                                       *)
EdgesAlong(n, w) == [k \in 1..n |-> ParentEdge(w[k])]
(* It climbs from where the way begins, as far as it goes.                  *)
LEMMA WayClimbs ==
  ASSUME edges = EdgesOf(Operated), NEW r, NEW n \in Nat, NEW w, IsWay(n, w, r)
  PROVE  IsClimb(n, EdgesAlong(n, w), r) /\ Topped(n, EdgesAlong(n, w), r)
<1> DEFINE c == EdgesAlong(n, w)
<1>1. c = [k \in 1..n |-> ParentEdge(w[k])] /\ \A k \in 1..n : w[k] \in Operated
  BY DEF EdgesAlong, IsWay
<1> HIDE DEF c
<1>2. c \in [1..n -> edges]
  BY <1>1 DEF EdgesOf
<1>3. \A k \in 1..n : c[k].child = file.rels[w[k]].child /\ c[k].parent = file.rels[w[k]].parent
  BY <1>1, EdgeOfRel
<1>4. \A k \in 1..n : c[k].child = IF k = 1 THEN r ELSE c[k - 1].parent
  <2> SUFFICES ASSUME NEW k \in 1..n PROVE c[k].child = IF k = 1 THEN r ELSE c[k - 1].parent
    OBVIOUS
  <2>1. file.rels[w[k]].child = IF k = 1 THEN r ELSE file.rels[w[k - 1]].parent
    BY DEF IsWay
  <2>2. k # 1 => k - 1 \in 1..n
    OBVIOUS
  <2> QED
    BY <1>3, <2>1, <2>2
<1>5. End(n, c, r) = IF n = 0 THEN r ELSE file.rels[w[n]].parent
  BY <1>3 DEF End
<1>6. Topped(n, c, r)
  <2> SUFFICES ASSUME NEW e \in edges PROVE e.child # End(n, c, r)
    BY DEF Topped
  <2>1. PICK i \in Operated : e = ParentEdge(i)
    BY DEF EdgesOf
  <2>2. e.child = file.rels[i].child
    BY <2>1, EdgeOfRel
  <2>3. file.rels[i].child # IF n = 0 THEN r ELSE file.rels[w[n]].parent
    BY DEF IsWay
  <2> QED
    BY <1>5, <2>2, <2>3
<1> QED
  BY <1>2, <1>4, <1>6 DEF IsClimb, c

(* A climb's edges are along a way.                                         *)
LEMMA ClimbHasWay ==
  ASSUME file \in Files, edges = EdgesOf(Operated), NEW r, NEW n \in Nat, NEW c,
         IsClimb(n, c, r), Topped(n, c, r)
  PROVE  \E w : IsWay(n, w, r) /\ EdgesAlong(n, w) = c
<1> DEFINE w == [k \in 1..n |-> Giver(c[k])]
<1>1. \A k \in 1..n : w[k] \in Operated /\ ParentEdge(w[k]) = c[k]
  BY GiversAre DEF IsClimb
<1>w. w = [k \in 1..n |-> w[k]]
  OBVIOUS
<1> HIDE DEF w
<1>2. w \in [1..n -> Operated]
  BY <1>1, <1>w
<1>3. \A k \in 1..n : c[k].child = file.rels[w[k]].child /\ c[k].parent = file.rels[w[k]].parent
  BY <1>1, EdgeOfRel
<1>4. \A k \in 1..n : file.rels[w[k]].child = IF k = 1 THEN r ELSE file.rels[w[k - 1]].parent
  <2> SUFFICES ASSUME NEW k \in 1..n PROVE file.rels[w[k]].child = IF k = 1 THEN r ELSE file.rels[w[k - 1]].parent
    OBVIOUS
  <2>1. c[k].child = IF k = 1 THEN r ELSE c[k - 1].parent
    BY DEF IsClimb
  <2>2. k # 1 => k - 1 \in 1..n
    OBVIOUS
  <2> QED
    BY <1>3, <2>1, <2>2
<1>5. \A i \in Operated : file.rels[i].child # IF n = 0 THEN r ELSE file.rels[w[n]].parent
  <2> SUFFICES ASSUME NEW i \in Operated
               PROVE  file.rels[i].child # IF n = 0 THEN r ELSE file.rels[w[n]].parent
    OBVIOUS
  <2>1. ParentEdge(i) \in edges
    BY DEF EdgesOf
  <2>2. ParentEdge(i).child # End(n, c, r)
    BY <2>1 DEF Topped
  <2>3. End(n, c, r) = IF n = 0 THEN r ELSE file.rels[w[n]].parent
    BY <1>3 DEF End
  <2> QED
    BY <2>2, <2>3, EdgeOfRel
<1>6. EdgesAlong(n, w) = c
  <2>1. c = [k \in 1..n |-> c[k]]
    BY DEF IsClimb
  <2> QED
    BY <1>1, <2>1 DEF EdgesAlong
<1> QED
  BY <1>2, <1>4, <1>5, <1>6 DEF IsWay

(* The operators along a way are those that its climb composes.             *)
LEMMA AlongIsComposed ==
  ASSUME NEW n \in Nat, NEW w, w \in [1..n -> Operated]
  PROVE  Along(w) = Composed(EdgesAlong(n, w))
<1> DEFINE c == EdgesAlong(n, w)
<1>1. c = [k \in 1..n |-> ParentEdge(w[k])]
  BY DEF EdgesAlong
<1>2. DOMAIN w = 1..n /\ Len(w) = n /\ DOMAIN c = 1..n /\ Len(c) = n
  BY <1>1
<1> HIDE DEF c
<1>3. \A k \in 1..n : c[n + 1 - k].op = file.rels[w[n + 1 - k]].op
  <2> SUFFICES ASSUME NEW k \in 1..n PROVE c[n + 1 - k].op = file.rels[w[n + 1 - k]].op
    OBVIOUS
  <2>1. n + 1 - k \in 1..n
    OBVIOUS
  <2> QED
    BY <1>1, <2>1, EdgeOfRel
<1>4. Along(w) = [k \in 1..n |-> file.rels[w[n + 1 - k]].op] /\ Composed(c) = [k \in 1..n |-> c[n + 1 - k].op]
  BY <1>2 DEF Along, Composed
<1> QED
  BY <1>3, <1>4 DEF c

(* From a representation that has an edge, all ways compose what the reader *)
(* composes, if it does, and there is one.                                  *)
LEMMA WaysCompose ==
  ASSUME file \in Files, edges = EdgesOf(Operated), OneEach,
         NEW i \in Operated, NEW ops \in ComposeChain(file.rels[i].child)
  PROVE  {Along(w) : w \in Ways(file.rels[i].child, Operated) \ {<<>>}} = {ops}
<1> DEFINE r == file.rels[i].child
<1> HIDE DEF r
<1>0. /\ Cardinality(Operated) \in Nat /\ Cardinality(edges) \in Nat
      /\ Cardinality(edges) <= Cardinality(Operated)
  BY FiniteParts, GiversAre
<1>1. PICK c \in Climbs(r) : ops = Composed(c)
  BY DEF ComposeChain, r
<1>2. PICK n \in 0..Cardinality(edges) : IsClimb(n, c, r) /\ Topped(n, c, r)
  BY <1>0, <1>1, ClimbsAre
<1>3. n # 0
  <2>1. ParentEdge(i) \in edges /\ ParentEdge(i).child = r
    BY EdgeOfRel DEF EdgesOf, r
  <2> QED
    BY <1>2, <2>1 DEF Topped, End
<1>4. ASSUME NEW w \in Ways(r, Operated) PROVE Along(w) = ops
  <2>1. PICK m \in 0..Cardinality(Operated) : IsWay(m, w, r)
    BY <1>0, <1>4, WaysAre
  <2>2. m \in Nat /\ n \in Nat
    BY <1>0
  <2>3. IsClimb(m, EdgesAlong(m, w), r) /\ Topped(m, EdgesAlong(m, w), r)
    BY <2>1, <2>2, WayClimbs
  <2>4. EdgesAlong(m, w) = c
    BY <1>2, <2>2, <2>3, OneClimb
  <2>5. w \in [1..m -> Operated]
    BY <2>1 DEF IsWay
  <2> QED
    BY <1>1, <2>2, <2>4, <2>5, AlongIsComposed
<1>5. \E w \in Ways(r, Operated) : w # <<>>
  <2>1. PICK w : IsWay(n, w, r)
    BY <1>0, <1>2, ClimbHasWay
  <2>2. n \in 0..Cardinality(Operated)
    BY <1>0
  <2>3. w \in Ways(r, Operated)
    BY <1>0, <2>1, <2>2, WaysAre
  <2>4. w \in [1..n -> Operated]
    BY <2>1 DEF IsWay
  <2>5. w # <<>>
    BY <1>0, <1>3, <2>4
  <2> QED
    BY <2>3, <2>5
<1> QED
  BY <1>4, <1>5 DEF r

------------------------------------------------------------------------------
(* Cycles.                                                                  *)

(* A climb that comes twice by an edge has gone round a cycle.              *)
LEMMA RepeatIsCycle ==
  ASSUME file \in Files, edges = EdgesOf(Operated), NEW r,
         NEW n \in Nat, n <= Cardinality(edges) + 1, NEW c, IsClimb(n, c, r),
         NEW x \in 1..n, NEW y \in 1..n, x < y, c[x] = c[y]
  PROVE  Cycles # {}
<1> DEFINE m == y - x
           w == [k \in 1..m |-> Giver(c[x + k - 1])]
<1>0. /\ Cardinality(edges) \in Nat /\ Cardinality(edges) <= Cardinality(Operated)
      /\ Cardinality(Operated) \in Nat
  BY FiniteParts, GiversAre
<1>1. m \in 1..Cardinality(Operated) /\ x + m = y
  BY <1>0
<1>2. \A k \in 1..m : x + k - 1 \in 1..n
  BY <1>1
<1>3. \A k \in 1..m : w[k] \in Operated /\ ParentEdge(w[k]) = c[x + k - 1]
  BY <1>2, GiversAre DEF IsClimb
<1>4. \A k \in 1..m : /\ file.rels[w[k]].child = c[x + k - 1].child
                      /\ file.rels[w[k]].parent = c[x + k - 1].parent
  BY <1>3, EdgeOfRel
<1>5. w \in [1..m -> Operated] /\ Len(w) = m /\ DOMAIN w = 1..m /\ w # <<>>
  <2>1. w = [k \in 1..m |-> w[k]]
    OBVIOUS
  <2> HIDE DEF w
  <2>2. w \in [1..m -> Operated]
    BY <1>3, <2>1
  <2>3. m \in Nat /\ m # 0
    BY <1>0, <1>1
  <2> QED
    BY <2>2, <2>3
<1> HIDE DEF w
<1>6. \A k \in 1..m : file.rels[w[k]].child = file.rels[w[IF k = 1 THEN Len(w) ELSE k - 1]].parent
  <2> SUFFICES ASSUME NEW k \in 1..m
               PROVE  file.rels[w[k]].child = file.rels[w[IF k = 1 THEN m ELSE k - 1]].parent
    BY <1>5
  <2>1. CASE k = 1
    <3>1. file.rels[w[1]].child = c[x].child
      <4>1. x + 1 - 1 = x
        OBVIOUS
      <4> QED
        BY <1>4, <2>1, <4>1
    <3>2. c[y].child = c[y - 1].parent
      BY DEF IsClimb
    <3>3. file.rels[w[m]].parent = c[y - 1].parent
      <4>1. m \in 1..m /\ x + m - 1 = y - 1
        BY <1>1
      <4> QED
        BY <1>4, <4>1
    <3> QED
      BY <2>1, <3>1, <3>2, <3>3
  <2>2. CASE k # 1
    <3>1. k - 1 \in 1..m /\ x + (k - 1) - 1 = (x + k - 1) - 1 /\ x + k - 1 # 1
      BY <2>2
    <3>2. c[x + k - 1].child = c[(x + k - 1) - 1].parent
      BY <1>2, <3>1 DEF IsClimb
    <3>3. file.rels[w[k - 1]].parent = c[(x + k - 1) - 1].parent
      BY <1>4, <3>1
    <3> QED
      BY <1>4, <2>2, <3>2, <3>3
  <2> QED
    BY <2>1, <2>2
<1>7. w \in SeqOf(Operated, Cardinality(Operated))
  BY <1>0, <1>1, <1>5 DEF SeqOf
<1> QED
  BY <1>5, <1>6, <1>7 DEF Cycles

(* Without a cycle every representation has its climb.                      *)
LEMMA ClimbExists ==
  ASSUME file \in Files, edges = EdgesOf(Operated), Cycles = {}, NEW r
  PROVE  Climbs(r) # {}
<1> SUFFICES ASSUME Climbs(r) = {} PROVE FALSE
  OBVIOUS
<1> DEFINE N == Cardinality(edges)
           T == {n \in Nat : n <= N + 1 => \E c : IsClimb(n, c, r)}
<1>0. N \in Nat /\ IsFiniteSet(edges)
  BY GiversAre
<1>1. 0 \in T
  <2>1. <<>> \in [1..0 -> edges] /\ 1..0 = {}
    OBVIOUS
  <2>2. IsClimb(0, <<>>, r)
    BY <2>1 DEF IsClimb
  <2> QED
    BY <2>2
<1>2. ASSUME NEW n \in Nat, n \in T PROVE n + 1 \in T
  <2> SUFFICES ASSUME n + 1 <= N + 1 PROVE \E d : IsClimb(n + 1, d, r)
    OBVIOUS
  <2>1. n <= N + 1 /\ n \in 0..N
    BY <1>0
  <2>2. PICK c : IsClimb(n, c, r)
    BY <1>2, <2>1
  <2>3. ~Topped(n, c, r)
    BY <1>0, <2>1, <2>2, ClimbsAre
  <2>4. PICK e \in edges : e.child = End(n, c, r)
    BY <2>3 DEF Topped
  <2> DEFINE d == [k \in 1..(n + 1) |-> IF k = n + 1 THEN e ELSE c[k]]
  <2>5. d \in [1..(n + 1) -> edges]
    BY <2>2, <2>4 DEF IsClimb
  <2>6. \A k \in 1..(n + 1) : d[k].child = IF k = 1 THEN r ELSE d[k - 1].parent
    <3> SUFFICES ASSUME NEW k \in 1..(n + 1) PROVE d[k].child = IF k = 1 THEN r ELSE d[k - 1].parent
      OBVIOUS
    <3>1. k # 1 => k - 1 \in 1..(n + 1) /\ k - 1 # n + 1 /\ d[k - 1] = c[k - 1]
      OBVIOUS
    <3>2. CASE k = n + 1
      <4>1. d[k] = e
        BY <3>2
      <4>2. k = 1 <=> n = 0
        BY <3>2
      <4>3. k # 1 => k - 1 = n
        BY <3>2
      <4> HIDE DEF d
      <4> QED
        BY <2>4, <3>1, <4>1, <4>2, <4>3 DEF End
    <3>3. CASE k # n + 1
      <4>1. d[k] = c[k] /\ k \in 1..n
        BY <3>3
      <4>2. c[k].child = IF k = 1 THEN r ELSE c[k - 1].parent
        BY <2>2, <4>1 DEF IsClimb
      <4> HIDE DEF d
      <4> QED
        BY <3>1, <4>1, <4>2
    <3> QED
      BY <3>2, <3>3
  <2> HIDE DEF d
  <2> QED
    BY <2>5, <2>6 DEF IsClimb
<1>3. \E c : IsClimb(N + 1, c, r)
  <2>1. Nat \subseteq T
    <3> HIDE DEF T
    <3> QED
      BY <1>1, <1>2, SetInduction
  <2>2. N + 1 \in T
    BY <1>0, <2>1
  <2> QED
    BY <1>0, <2>2
<1>4. PICK c : IsClimb(N + 1, c, r)
  BY <1>3
<1>5. PICK x \in 1..(N + 1), y \in 1..(N + 1) : x # y /\ c[x] = c[y]
  <2>1. IsFiniteSet(1..(N + 1)) /\ Cardinality(1..(N + 1)) = N + 1
    BY <1>0, FS_Interval
  <2>2. c \in [1..(N + 1) -> edges]
    BY <1>4 DEF IsClimb
  <2>3. Cardinality(edges) < Cardinality(1..(N + 1))
    BY <1>0, <2>1
  <2> QED
    BY <1>0, <2>1, <2>2, <2>3, FS_PigeonHole
<1>6. N + 1 \in Nat /\ N + 1 <= Cardinality(edges) + 1 /\ (x < y \/ y < x)
  BY <1>0, <1>5
<1> HIDE DEF N
<1> QED
  BY <1>4, <1>5, <1>6, RepeatIsCycle

------------------------------------------------------------------------------
(* What the reader has placed.                                              *)

Ops == {file.rels[i].op : i \in DOMAIN file.rels}
Placements == {Solid(b, ops) : b \in Breps, ops \in Seq(Ops)}
BrepAt(i) == BrepOf(file.rels[i].child)
ChainAt(i) == ComposeChain(file.rels[i].child)

(* The solids s, placed by the relationships of S: each is the one of a     *)
(* child, where the climb from that child takes it; each child that has one *)
(* solid has it there; and neither two relationships nor two places are one *)
(* solid's.                                                                 *)
PlacedFor(s, S) ==
  /\ s \in Seq(Placements)
  /\ \A k \in DOMAIN s : \E i \in S : /\ BrepAt(i) = {s[k].brep}
                                      /\ s[k].at \in ChainAt(i)
  /\ \A k \in DOMAIN s : s[k].mirrored = Mirrored(s[k].at)
  /\ \A i \in S : BrepAt(i) # {} => \E k \in DOMAIN s : BrepAt(i) = {s[k].brep}
  /\ \A i, j \in S : BrepAt(i) # {} /\ BrepAt(i) = BrepAt(j) => i = j
  /\ \A k, l \in DOMAIN s : s[k].brep = s[l].brep => k = l

(* The operators that a climb composes are a file's.                        *)
LEMMA ComposedOps ==
  ASSUME file \in Files, edges = EdgesOf(Operated), NEW r, NEW ops \in ComposeChain(r)
  PROVE  ops \in Seq(Ops)
<1>1. PICK c \in Climbs(r) : ops = Composed(c)
  BY DEF ComposeChain
<1>2. Cardinality(edges) \in Nat
  BY GiversAre
<1>3. PICK n \in 0..Cardinality(edges) : c \in [1..n -> edges]
  BY <1>1, <1>2, ClimbsAre DEF IsClimb
<1>4. n \in Nat /\ DOMAIN c = 1..n /\ Len(c) = n
  BY <1>2, <1>3
<1>5. ops = [k \in 1..n |-> c[n + 1 - k].op]
  BY <1>1, <1>4 DEF Composed
<1>6. \A e \in edges : e.op \in Ops
  <2> SUFFICES ASSUME NEW i \in Operated PROVE ParentEdge(i).op \in Ops
    BY DEF EdgesOf
  <2>1. i \in DOMAIN file.rels
    BY DEF Operated, Carriers
  <2> QED
    BY <2>1, EdgeOfRel DEF Ops
<1>7. \A k \in 1..n : c[n + 1 - k].op \in Ops
  <2>1. \A k \in 1..n : n + 1 - k \in 1..n
    BY <1>4
  <2> QED
    BY <1>3, <1>6, <2>1
<1> QED
  BY <1>4, <1>5, <1>7

(* A solid, taken apart.                                                    *)
LEMMA SolidIs ==
  ASSUME NEW b, NEW ops
  PROVE  Solid(b, ops).brep = b /\ Solid(b, ops).at = ops /\ Solid(b, ops).mirrored = Mirrored(ops)
BY DEF Solid

(* A relationship that places nothing.                                      *)
LEMMA PlacesNone ==
  ASSUME NEW s, NEW S, PlacedFor(s, S), NEW i, BrepAt(i) = {}
  PROVE  PlacedFor(s, S \cup {i})
BY DEF PlacedFor

(* A relationship that places its solid.                                    *)
LEMMA PlacesOne ==
  ASSUME file \in Files, edges = EdgesOf(Operated), NEW s, NEW S, PlacedFor(s, S), NEW i,
         NEW b \in Breps, BrepAt(i) = {b}, ~\E k \in DOMAIN s : s[k].brep = b,
         NEW ops \in ChainAt(i)
  PROVE  PlacedFor(Append(s, Solid(b, ops)), S \cup {i})
<1> DEFINE x == Solid(b, ops)
           t == Append(s, x)
           n == Len(s)
<1>1. x \in Placements
  BY ComposedOps DEF Placements, ChainAt
<1>2. s \in Seq(Placements) /\ n \in Nat
  BY DEF PlacedFor
<1>x. x.brep = b /\ x.at = ops /\ x.mirrored = Mirrored(ops)
  BY SolidIs
<1> HIDE DEF x
<1>3. t \in Seq(Placements) /\ DOMAIN t = 1..(n + 1) /\ t[n + 1] = x /\ \A k \in 1..n : t[k] = s[k]
  BY <1>1, <1>2
<1>4. DOMAIN s = 1..n
  BY <1>2
<1> HIDE DEF t, n
<1>5. \A k \in 1..(n + 1) : k = n + 1 \/ k \in 1..n
  BY <1>2
<1>6. \A k \in DOMAIN t : \E j \in S \cup {i} : /\ BrepAt(j) = {t[k].brep}
                                              /\ t[k].at \in ChainAt(j)
  <2> SUFFICES ASSUME NEW k \in 1..(n + 1)
               PROVE  \E j \in S \cup {i} : /\ BrepAt(j) = {t[k].brep}
                                            /\ t[k].at \in ChainAt(j)
    BY <1>3
  <2>1. CASE k = n + 1
    BY <1>3, <1>x, <2>1
  <2>2. CASE k \in 1..n
    BY <1>3, <1>4, <2>2 DEF PlacedFor
  <2> QED
    BY <1>5, <2>1, <2>2
<1>7. \A k \in DOMAIN t : t[k].mirrored = Mirrored(t[k].at)
  BY <1>3, <1>4, <1>5, <1>x DEF PlacedFor
<1>8. \A j \in S \cup {i} : BrepAt(j) # {} => \E k \in DOMAIN t : BrepAt(j) = {t[k].brep}
  <2> SUFFICES ASSUME NEW j \in S \cup {i}, BrepAt(j) # {}
               PROVE  \E k \in DOMAIN t : BrepAt(j) = {t[k].brep}
    OBVIOUS
  <2>0. n + 1 \in DOMAIN t /\ 1..n \subseteq DOMAIN t
    BY <1>2, <1>3
  <2>1. CASE j = i
    BY <1>3, <1>x, <2>0, <2>1
  <2>2. CASE j \in S
    <3>1. PICK k \in 1..n : BrepAt(j) = {s[k].brep}
      BY <1>4, <2>2 DEF PlacedFor
    <3> QED
      BY <1>3, <2>0, <3>1
  <2> QED
    BY <2>1, <2>2
<1>9. \A j \in S : BrepAt(j) # {b}
  <2> SUFFICES ASSUME NEW j \in S, BrepAt(j) = {b} PROVE FALSE
    OBVIOUS
  <2>1. PICK k \in DOMAIN s : BrepAt(j) = {s[k].brep}
    BY DEF PlacedFor
  <2> QED
    BY <2>1
<1>10. \A j, l \in S \cup {i} : BrepAt(j) # {} /\ BrepAt(j) = BrepAt(l) => j = l
  BY <1>9 DEF PlacedFor
<1>11. \A k, l \in DOMAIN t : t[k].brep = t[l].brep => k = l
  BY <1>3, <1>4, <1>5, <1>x DEF PlacedFor
<1>12. PlacedFor(t, S \cup {i})
  BY <1>3, <1>6, <1>7, <1>8, <1>10, <1>11 DEF PlacedFor
<1> QED
  BY <1>12 DEF t, x

------------------------------------------------------------------------------
(* The invariant of form A.                                                 *)

(* The solids that are not in s; a file whose s passes the gate, taken.     *)
Remaining(s) == {b \in Breps : ~\E k \in DOMAIN s : s[k].brep = b}
Taken ==
  /\ edges = EdgesOf(Operated)
  /\ \E s : /\ PlacedFor(s, Operated) /\ s # <<>> /\ Cardinality(Remaining(s)) <= 1
            /\ placed = s \o SetToSeq({Solid(b, <<>>) : b \in Remaining(s)})

(* The edges are those of the relationships read, one for a child; what is  *)
(* placed is placed for the relationships read since; and what is taken     *)
(* passed the gate.                                                         *)
ReadSoFar ==
  /\ stage \in {"dispose", "edges", "place", "gate", "done"}
  /\ todo \subseteq Carriers /\ OneEach
  /\ stage = "dispose" => edges = {}
  /\ stage \in {"dispose", "edges"} => placed = <<>>
  /\ stage = "edges" => edges = EdgesOf(Operated \ todo)
  /\ stage \in {"place", "gate"} => edges = EdgesOf(Operated) /\ PlacedFor(placed, Operated \ todo)
  /\ stage = "gate" => todo = {}
  /\ stage = "done" /\ status = "ok" => Taken
FormAInv == file \in Files /\ (FormA => ReadSoFar)

(* A file is disposed of, and no solid is placed.                           *)
LEMMA FormABegins == StepInit => FormAInv
BY DEF StepInit, FormAInv, ReadSoFar, OneEach

(* The edges of the records read, with one record more.                     *)
LEMMA ReadsEdgeKeeps ==
  ASSUME file \in Files, ReadSoFar, ReadsEdge
  PROVE  ReadSoFar'
<1>1. PICK i \in todo :
        /\ todo' = todo \ {i}
        /\ IF ParentEdge(i).op = "none" THEN UNCHANGED <<stage, edges, status>>
           ELSE IF Ambiguous(ParentEdge(i)) THEN Decline /\ UNCHANGED edges
           ELSE /\ edges' = IF \E f \in edges : f.child = ParentEdge(i).child
                            THEN edges ELSE edges \cup {ParentEdge(i)}
                /\ UNCHANGED <<stage, status>>
  BY DEF ReadsEdge
<1>2. /\ stage = "edges" /\ file' = file /\ placed' = placed /\ placed = <<>>
      /\ edges = EdgesOf(Operated \ todo) /\ OneEach /\ todo \subseteq Carriers
  BY DEF ReadsEdge, ReadSoFar
<1>3. Operated' = Operated /\ Carriers' = Carriers /\ i \in Carriers
  BY <1>1, <1>2 DEF Operated, Carriers
<1>4. i \in Operated <=> ParentEdge(i).op # "none"
  BY <1>3, EdgeOfRel DEF Operated
<1>5. todo' \subseteq Carriers'
  BY <1>1, <1>2, <1>3
<1>7. CASE ParentEdge(i).op = "none"
  <2>1. UNCHANGED <<stage, edges, status>>
    BY <1>1, <1>7
  <2>2. Operated \ todo' = Operated \ todo
    BY <1>1, <1>4, <1>7
  <2>3. edges' = EdgesOf(Operated \ todo)'
    BY <1>2, <1>3, <2>1, <2>2 DEF EdgesOf, ParentEdge
  <2>4. OneEach'
    BY <1>2, <2>1 DEF OneEach
  <2> QED
    BY <1>2, <1>5, <2>1, <2>3, <2>4 DEF ReadSoFar
<1>8. CASE ParentEdge(i).op # "none" /\ Ambiguous(ParentEdge(i))
  <2>1. edges' = edges /\ stage' = "done" /\ status' = "declined"
    BY <1>1, <1>8 DEF Decline
  <2>2. OneEach'
    BY <1>2, <2>1 DEF OneEach
  <2> QED
    BY <1>5, <2>1, <2>2 DEF ReadSoFar
<1>9. CASE ParentEdge(i).op # "none" /\ ~Ambiguous(ParentEdge(i))
  <2> DEFINE x == ParentEdge(i)
  <2>1. /\ edges' = IF \E f \in edges : f.child = x.child THEN edges ELSE edges \cup {x}
        /\ UNCHANGED <<stage, status>>
    BY <1>1, <1>9
  <2>2. \A f \in edges : f.child = x.child => f = x
    BY <1>9 DEF Ambiguous
  <2>3. EdgesOf(Operated \ todo') = EdgesOf(Operated \ todo) \cup {x}
    <3>1. Operated \ todo' = (Operated \ todo) \cup {i}
      BY <1>1, <1>4, <1>9
    <3> QED
      BY <3>1 DEF EdgesOf
  <2> HIDE DEF x
  <2>4. edges' = edges \cup {x}
    BY <2>1, <2>2
  <2>5. OneEach'
    BY <1>2, <2>1, <2>2, <2>4 DEF OneEach
  <2>6. edges' = EdgesOf(Operated \ todo)'
    BY <1>2, <1>3, <2>3, <2>4 DEF EdgesOf, ParentEdge
  <2> QED
    BY <1>2, <1>5, <2>1, <2>5, <2>6 DEF ReadSoFar
<1> QED
  BY <1>7, <1>8, <1>9

(* Which way a file takes is the file's.                                    *)
LEMMA FormAStays ==
  ASSUME file' = file
  PROVE  /\ FormA' <=> FormA
         /\ Carriers' = Carriers /\ Operated' = Operated /\ Breps' = Breps
<1>1. Reps' = Reps /\ Carriers' = Carriers
  BY DEF Reps, Carriers
<1>2. \A r : BrepOf(r)' = BrepOf(r)
  BY <1>1 DEF BrepOf
<1>3. Disposition' = Disposition
  BY <1>1 DEF Disposition, BrepOf
<1> QED
  BY <1>1, <1>3 DEF FormA, Operated, Breps

(* What is placed depends on the file and on the edges only.                *)
LEMMA NamesStay ==
  ASSUME file' = file, edges' = edges
  PROVE  /\ Placements' = Placements
         /\ \A i : BrepAt(i)' = BrepAt(i)
         /\ \A i : ChainAt(i)' = ChainAt(i)
<1>1. Breps' = Breps
  BY FormAStays
<1>2. Placements' = Placements
  BY <1>1 DEF Placements, Ops
<1>3. \A i : BrepAt(i)' = BrepAt(i)
  BY DEF BrepAt, BrepOf, Reps
<1>4. \A i : ChainAt(i)' = ChainAt(i)
  BY DEF ChainAt, ComposeChain, Climbs
<1> QED
  BY <1>2, <1>3, <1>4

(* So that a step which changes neither keeps what was placed for S.        *)
LEMMA PlacedForStays ==
  ASSUME file' = file, edges' = edges, NEW S
  PROVE  \A s : PlacedFor(s, S) => PlacedFor(s, S)'
<1>1. /\ Placements' = Placements
      /\ \A i : BrepAt(i)' = BrepAt(i)
      /\ \A i : ChainAt(i)' = ChainAt(i)
  BY NamesStay
<1> QED
  BY <1>1 DEF PlacedFor

(* No record is read when a file has been disposed of.                      *)
LEMMA DisposesKeeps ==
  ASSUME file \in Files, FormA, ReadSoFar, Disposes
  PROVE  ReadSoFar'
<1>1. /\ stage = "dispose" /\ stage' = "edges" /\ todo' = Carriers
      /\ file' = file /\ edges' = edges /\ placed' = placed
  BY DEF Disposes, FormA, Goto
<1>2. Carriers' = Carriers /\ Operated' = Operated
  BY <1>1, FormAStays
<1>3. edges' = {} /\ placed' = <<>> /\ OneEach'
  BY <1>1 DEF ReadSoFar, OneEach
<1>4. edges' = EdgesOf(Operated \ todo)'
  <2>1. Operated \ Carriers = {}
    BY DEF Operated
  <2> QED
    BY <1>1, <1>2, <1>3, <2>1 DEF EdgesOf
<1> QED
  BY <1>1, <1>2, <1>3, <1>4 DEF ReadSoFar

(* All edges are known and no solid is placed yet.                          *)
LEMMA EndsEdgesKeeps ==
  ASSUME file \in Files, FormA, ReadSoFar, EndsEdges
  PROVE  ReadSoFar'
<1>1. /\ stage = "edges" /\ stage' = "place" /\ todo = {} /\ todo' = Carriers
      /\ file' = file /\ edges' = edges /\ placed' = placed /\ placed = <<>>
      /\ edges = EdgesOf(Operated \ todo) /\ OneEach
  BY DEF EndsEdges, Goto, ReadSoFar
<1>2. Carriers' = Carriers /\ Operated' = Operated
  BY <1>1, FormAStays
<1>3. OneEach' /\ edges' = EdgesOf(Operated)'
  <2>1. Operated \ todo = Operated
    BY <1>1
  <2> QED
    BY <1>1, <1>2, <2>1 DEF OneEach, EdgesOf, ParentEdge
<1>4. PlacedFor(placed, Operated \ todo)'
  <2>1. Operated' \ todo' = {}
    BY <1>1, <1>2 DEF Operated
  <2> QED
    BY <1>1, <2>1 DEF PlacedFor
<1> QED
  BY <1>1, <1>2, <1>3, <1>4 DEF ReadSoFar

(* One relationship that places its solid, or that places none.             *)
LEMMA PlacesKeeps ==
  ASSUME file \in Files, FormA, ReadSoFar, Places
  PROVE  ReadSoFar'
<1>1. PICK i \in todo :
        LET r == file.rels[i].child
            chain == ComposeChain(r)
        IN /\ todo' = todo \ {i}
           /\ IF file.rels[i].op = "none" \/ BrepOf(r) = {} THEN UNCHANGED <<stage, placed, status>>
              ELSE IF chain = {} \/ \E b \in BrepOf(r) : IsPlaced(b)
                   THEN Decline /\ UNCHANGED placed
              ELSE /\ \E b \in BrepOf(r), ops \in chain : placed' = Append(placed, Solid(b, ops))
                   /\ UNCHANGED <<stage, status>>
  BY DEF Places
<1>2. /\ stage = "place" /\ file' = file /\ edges' = edges /\ todo' = todo \ {i}
      /\ edges = EdgesOf(Operated) /\ PlacedFor(placed, Operated \ todo) /\ OneEach
      /\ todo \subseteq Carriers
  BY <1>1 DEF Places, ReadSoFar
<1>3. Carriers' = Carriers /\ Operated' = Operated /\ i \in Carriers
  BY <1>1, <1>2, FormAStays
<1>4. OneEach' /\ edges' = EdgesOf(Operated)' /\ todo' \subseteq Carriers'
  BY <1>1, <1>2, <1>3 DEF OneEach, EdgesOf, ParentEdge
<1>5. i \in Operated <=> file.rels[i].op # "none"
  BY <1>3 DEF Operated
<1>6. ASSUME stage' = "place", NEW s, s = placed', NEW S, S = Operated \ todo', PlacedFor(s, S)
      PROVE  ReadSoFar'
  <2>1. PlacedFor(s, S)'
    BY <1>2, <1>6, PlacedForStays
  <2>2. S = Operated' \ todo'
    BY <1>3, <1>6
  <2>3. s = placed'
    BY <1>6
  <2>4. PlacedFor(placed, Operated \ todo)'
    BY <2>1, <2>2, <2>3 DEF PlacedFor
  <2> QED
    BY <1>4, <1>6, <2>4 DEF ReadSoFar
<1>7. CASE i \notin Operated
  <2>1. stage' = "place" /\ placed' = placed /\ Operated \ todo' = Operated \ todo
    BY <1>1, <1>2, <1>5, <1>7
  <2> QED
    BY <1>2, <1>6, <2>1
<1>8. CASE i \in Operated /\ BrepAt(i) = {}
  <2>1. stage' = "place" /\ placed' = placed
    BY <1>1, <1>2, <1>8 DEF BrepAt
  <2>2. Operated \ todo' = (Operated \ todo) \cup {i}
    BY <1>1, <1>2, <1>8
  <2>3. PlacedFor(placed, (Operated \ todo) \cup {i})
    BY <1>2, <1>8, PlacesNone
  <2> QED
    BY <1>6, <2>1, <2>2, <2>3
<1>9. CASE stage' = "done" /\ status' = "declined"
  BY <1>4, <1>9 DEF ReadSoFar
<1>10. CASE i \in Operated /\ BrepAt(i) # {} /\ ~(stage' = "done" /\ status' = "declined")
  <2>1. PICK b \in BrepAt(i), ops \in ChainAt(i) : placed' = Append(placed, Solid(b, ops))
    BY <1>1, <1>5, <1>10 DEF BrepAt, ChainAt, Decline
  <2>2. stage' = "place" /\ \A c \in BrepAt(i) : ~IsPlaced(c)
    BY <1>1, <1>2, <1>5, <1>10 DEF BrepAt, Decline
  <2>3. b \in Breps /\ BrepAt(i) = {b}
    BY <1>10, <2>1, BrepOfIs DEF BrepAt
  <2>4. Operated \ todo' = (Operated \ todo) \cup {i}
    BY <1>1, <1>2, <1>10
  <2>5. PlacedFor(Append(placed, Solid(b, ops)), (Operated \ todo) \cup {i})
    BY <1>2, <2>1, <2>2, <2>3, PlacesOne DEF IsPlaced
  <2> QED
    BY <1>6, <2>1, <2>2, <2>4, <2>5
<1> QED
  BY <1>7, <1>8, <1>9, <1>10

(* What has been placed, when nothing is.                                   *)
LEMMA PlacedStays ==
  UNCHANGED <<file, edges, placed, todo>> /\ PlacedFor(placed, Operated \ todo)
    => PlacedFor(placed, Operated \ todo)'
<1>1. ASSUME UNCHANGED <<file, edges, placed, todo>>, PlacedFor(placed, Operated \ todo)
      PROVE  PlacedFor(placed, Operated \ todo)'
  <2>1. Operated' = Operated /\ todo' = todo /\ placed' = placed
    BY <1>1, FormAStays
  <2>2. /\ Placements' = Placements
        /\ \A i : BrepAt(i)' = BrepAt(i)
        /\ \A i : ChainAt(i)' = ChainAt(i)
    BY <1>1, NamesStay
  <2> QED
    BY <1>1, <2>1, <2>2 DEF PlacedFor
<1> QED
  BY <1>1

(* All relationships are read.                                              *)
LEMMA EndsPlacesKeeps ==
  ASSUME file \in Files, FormA, ReadSoFar, EndsPlaces
  PROVE  ReadSoFar'
<1>1. /\ stage = "place" /\ stage' = "gate" /\ todo = {} /\ todo' = todo
      /\ file' = file /\ edges' = edges /\ placed' = placed
      /\ edges = EdgesOf(Operated) /\ PlacedFor(placed, Operated \ todo) /\ OneEach
  BY DEF EndsPlaces, Goto, ReadSoFar
<1>2. Carriers' = Carriers /\ Operated' = Operated
  BY <1>1, FormAStays
<1>3. OneEach' /\ edges' = EdgesOf(Operated)'
  BY <1>1, <1>2 DEF OneEach, EdgesOf, ParentEdge
<1>5. PlacedFor(placed, Operated \ todo)'
  BY <1>1, PlacedStays
<1> QED
  BY <1>1, <1>2, <1>3, <1>5 DEF ReadSoFar

(* A file that is taken stays so.                                           *)
LEMMA TakenStays ==
  ASSUME file' = file, edges' = edges, placed' = placed, Taken
  PROVE  Taken'
<1>1. Operated' = Operated /\ Breps' = Breps /\ edges' = EdgesOf(Operated)'
  BY FormAStays DEF Taken, EdgesOf, ParentEdge
<1>2. PICK s : /\ PlacedFor(s, Operated) /\ s # <<>> /\ Cardinality(Remaining(s)) <= 1
               /\ placed = s \o SetToSeq({Solid(b, <<>>) : b \in Remaining(s)})
  BY DEF Taken
<1>3. PlacedFor(s, Operated)'
  <2>1. ASSUME NEW S, S = Operated, PlacedFor(s, S)
        PROVE  PlacedFor(s, Operated)'
    <3>1. PlacedFor(s, S)'
      BY <2>1, PlacedForStays
    <3>2. S = Operated'
      BY <1>1, <2>1
    <3> QED
      BY <3>1, <3>2 DEF PlacedFor
  <2> QED
    BY <1>2, <2>1
<1>4. Remaining(s)' = Remaining(s)
  BY <1>1 DEF Remaining
<1>5. {Solid(b, <<>>) : b \in Remaining(s)}' = {Solid(b, <<>>) : b \in Remaining(s)'}
  OBVIOUS
<1> QED
  BY <1>1, <1>2, <1>3, <1>4, <1>5 DEF Taken

(* The gate.                                                                *)
LEMMA AssemblesKeeps ==
  ASSUME file \in Files, FormA, ReadSoFar, Assembles
  PROVE  ReadSoFar'
<1>1. /\ stage = "gate" /\ todo = {} /\ todo' = todo /\ stage' = "done"
      /\ file' = file /\ edges' = edges
      /\ edges = EdgesOf(Operated) /\ PlacedFor(placed, Operated \ todo) /\ OneEach
  BY DEF Assembles, Decline, Finish, ReadSoFar
<1>2. Carriers' = Carriers /\ Operated' = Operated /\ Breps' = Breps
  BY <1>1, FormAStays
<1>3. OneEach' /\ edges' = EdgesOf(Operated)' /\ todo' \subseteq Carriers'
  BY <1>1, <1>2 DEF OneEach, EdgesOf, ParentEdge
<1>4. ASSUME status' = "ok" PROVE Taken'
  <2>1. /\ PassesGate
        /\ placed' = placed \o SetToSeq({Solid(b, <<>>) : b \in Unplaced})
    BY <1>4 DEF Assembles, Decline, Finish
  <2>2. PICK s : s = placed
    OBVIOUS
  <2>3. Unplaced = Remaining(s)
    BY <2>2 DEF Unplaced, Remaining, IsPlaced
  <2>4. PICK S : S = Operated
    OBVIOUS
  <2>5. PlacedFor(s, S)
    <3>1. Operated \ todo = Operated
      BY <1>1
    <3> QED
      BY <1>1, <2>2, <2>4, <3>1
  <2>6. PlacedFor(s, S)'
    BY <1>1, <2>5, PlacedForStays
  <2>7. PlacedFor(s, Operated)'
    BY <1>2, <2>4, <2>6 DEF PlacedFor
  <2>8. Remaining(s)' = Remaining(s)
    BY <1>2 DEF Remaining
  <2>9. s # <<>> /\ Cardinality(Remaining(s)') <= 1
    BY <2>1, <2>2, <2>3, <2>8 DEF PassesGate
  <2>10. placed' = s \o SetToSeq({Solid(b, <<>>) : b \in Remaining(s)'})
    BY <2>1, <2>2, <2>3, <2>8
  <2>11. {Solid(b, <<>>) : b \in Remaining(s)}' = {Solid(b, <<>>) : b \in Remaining(s)'}
    OBVIOUS
  <2> QED
    BY <1>3, <2>7, <2>9, <2>10, <2>11 DEF Taken
<1> QED
  BY <1>1, <1>3, <1>4 DEF ReadSoFar

(* FormAInv is inductive.                                                   *)
LEMMA FormAStep ==
  ASSUME FormAInv, [StepNext]_stepVars
  PROVE  FormAInv'
<1>0. file' = file
  BY DEF StepNext, stepVars, Disposes, ImportsFlat, ReadsEdge, EndsEdges, Places, EndsPlaces, Assembles,
         MapsInstance, EndsInstances, StepDone
<1>1. FormA' <=> FormA
  BY <1>0, FormAStays
<1> SUFFICES ASSUME FormA, ReadSoFar, file \in Files PROVE ReadSoFar'
  BY <1>0, <1>1 DEF FormAInv
<1>2. CASE Disposes
  BY <1>2, DisposesKeeps
<1>3. CASE ReadsEdge
  BY <1>3, ReadsEdgeKeeps
<1>4. CASE EndsEdges
  BY <1>4, EndsEdgesKeeps
<1>5. CASE Places
  BY <1>5, PlacesKeeps
<1>6. CASE EndsPlaces
  BY <1>6, EndsPlacesKeeps
<1>7. CASE Assembles
  BY <1>7, AssemblesKeeps
<1>8. CASE ImportsFlat \/ MapsInstance \/ EndsInstances
  BY <1>8 DEF ImportsFlat, MapsInstance, EndsInstances, ReadSoFar
<1>9. CASE UNCHANGED stepVars
  <2>1. /\ stage' = stage /\ todo' = todo /\ edges' = edges /\ placed' = placed /\ status' = status
    BY <1>9 DEF stepVars
  <2>2. Carriers' = Carriers /\ Operated' = Operated
    BY <1>0, FormAStays
  <2>3. OneEach' /\ EdgesOf(Operated)' = EdgesOf(Operated) /\ EdgesOf(Operated \ todo)' = EdgesOf(Operated \ todo)
    BY <1>0, <2>1, <2>2 DEF ReadSoFar, OneEach, EdgesOf, ParentEdge
  <2>4. PlacedFor(placed, Operated \ todo) => PlacedFor(placed, Operated \ todo)'
    BY <1>0, <2>1, PlacedStays
  <2>5. Taken => Taken'
    BY <1>0, <2>1, TakenStays
  <2> QED
    BY <2>1, <2>2, <2>3, <2>4, <2>5 DEF ReadSoFar
<1> QED
  BY <1>2, <1>3, <1>4, <1>5, <1>6, <1>7, <1>8, <1>9 DEF StepNext, StepDone

------------------------------------------------------------------------------
(* Where the solids of a file that is taken are.                            *)

(* A way that is not empty begins with a relationship of its representation.*)
LEMMA WayBegins ==
  ASSUME file \in Files, NEW r, NEW w \in Ways(r, Operated) \ {<<>>}
  PROVE  \E i \in Operated : file.rels[i].child = r
<1>1. Cardinality(Operated) \in Nat
  BY FiniteParts
<1>2. PICK n \in 0..Cardinality(Operated) : IsWay(n, w, r)
  BY <1>1, WaysAre
<1>3. n # 0
  BY <1>1, <1>2 DEF IsWay
<1>4. 1 \in 1..n
  BY <1>1, <1>3
<1> QED
  BY <1>2, <1>4 DEF IsWay

(* A representation that lists a solid has only that one, or several.       *)
LEMMA ListsOne ==
  ASSUME file \in Files, NEW r \in Reps, NEW b \in file.items[r], ~(Cardinality(file.items[r]) > 1)
  PROVE  file.items[r] = {b} /\ BrepOf(r) = {b}
<1>1. IsFiniteSet(file.items[r]) /\ Cardinality(file.items[r]) \in Nat
  BY FilesAssumption, FS_CardinalityType DEF Reps
<1>2. Cardinality(file.items[r]) # 0
  BY <1>1, FS_EmptySet
<1>3. Cardinality(file.items[r]) = 1
  BY <1>1, <1>2
<1>4. PICK c : file.items[r] = {c}
  BY <1>1, <1>3, FS_Singleton
<1> QED
  BY <1>3, <1>4 DEF BrepOf

(* The routes of a solid that was placed take it where it is.               *)
LEMMA RoutesOfPlaced ==
  ASSUME file \in Files, edges = EdgesOf(Operated), OneEach, ListedApart,
         NEW s, PlacedFor(s, Operated), NEW k \in DOMAIN s
  PROVE  {Along(w) : w \in Routes(s[k].brep, Operated)} = {s[k].at}
<1> DEFINE b == s[k].brep
           ops == s[k].at
<1>1. PICK i \in Operated : BrepAt(i) = {b} /\ ops \in ChainAt(i)
  BY DEF PlacedFor
<1> DEFINE q == file.rels[i].child
           W == Ways(q, Operated) \ {<<>>}
<1>2. q \in Reps /\ file.items[q] = {b}
  BY <1>1, BrepOfIs DEF BrepAt
<1>3. ASSUME NEW r \in Reps, b \in file.items[r], NEW w \in Ways(r, Operated) \ {<<>>}
      PROVE  r = q
  <2> SUFFICES ASSUME r # q PROVE FALSE
    OBVIOUS
  <2>1. ~(Cardinality(file.items[r]) > 1)
    BY <1>2, <1>3 DEF ListedApart
  <2>2. BrepOf(r) = {b}
    BY <1>3, <2>1, ListsOne
  <2>3. PICK j \in Operated : file.rels[j].child = r
    BY WayBegins
  <2>4. BrepAt(j) = {b}
    BY <2>2, <2>3 DEF BrepAt
  <2>5. j = i
    BY <1>1, <2>4 DEF PlacedFor
  <2> QED
    BY <2>3, <2>5
<1>4. Routes(b, Operated) = W
  <2> DEFINE Of(r) == Ways(r, Operated) \ {<<>>}
  <2>1. Routes(b, Operated) = UNION {Of(r) : r \in {r \in Reps : b \in file.items[r]}}
    BY DEF Routes
  <2>2. \A r \in Reps : b \in file.items[r] => \A w \in Of(r) : r = q
    BY <1>3
  <2>3. q \in {r \in Reps : b \in file.items[r]} /\ W = Of(q)
    BY <1>2
  <2> HIDE DEF Of, W, q, b
  <2> QED
    BY <2>1, <2>2, <2>3
<1>5. {Along(w) : w \in W} = {ops}
  BY <1>1, WaysCompose DEF ChainAt
<1> HIDE DEF W, q, b, ops
<1> QED
  BY <1>4, <1>5 DEF b, ops

(* The one solid that is left where it is has no route.                     *)
LEMMA NoRouteIsLeft ==
  ASSUME file \in Files, ListedApart, NEW s, PlacedFor(s, Operated), NEW b, Remaining(s) = {b}
  PROVE  Routes(b, Operated) = {}
<1> SUFFICES ASSUME NEW r \in Reps, b \in file.items[r], NEW w \in Ways(r, Operated) \ {<<>>}
             PROVE  FALSE
  BY DEF Routes
<1>1. PICK j \in Operated : file.rels[j].child = r
  BY WayBegins
<1>2. \A k \in DOMAIN s : s[k].brep # b
  BY DEF Remaining
<1>3. CASE ~(Cardinality(file.items[r]) > 1)
  <2>1. BrepAt(j) = {b}
    BY <1>1, <1>3, ListsOne DEF BrepAt
  <2>2. PICK k \in DOMAIN s : BrepAt(j) = {s[k].brep}
    BY <2>1 DEF PlacedFor
  <2> QED
    BY <1>2, <2>1, <2>2
<1>4. CASE Cardinality(file.items[r]) > 1
  <2>1. PICK c \in file.items[r] : c # b
    <3> SUFFICES ASSUME file.items[r] = {b} PROVE FALSE
      OBVIOUS
    <3>1. Cardinality(file.items[r]) = 1
      BY FS_Singleton
    <3> QED
      BY <1>4, <3>1
  <2>2. c \in Breps /\ c \notin Remaining(s)
    BY <2>1 DEF Breps
  <2>3. PICK k \in DOMAIN s : s[k].brep = c
    BY <2>2 DEF Remaining
  <2>4. PICK i \in Operated : BrepAt(i) = {c}
    BY <2>3 DEF PlacedFor
  <2>5. file.rels[i].child \in Reps /\ file.items[file.rels[i].child] = {c}
    BY <2>4, BrepOfIs DEF BrepAt
  <2>6. file.rels[i].child # r
    BY <2>1, <2>5
  <2> QED
    BY <1>4, <2>1, <2>5, <2>6 DEF ListedApart
<1> QED
  BY <1>3, <1>4

(* The solid of no relationship comes last.                                 *)
LEMMA RootIsLast ==
  ASSUME file \in Files, Taken
  PROVE  \E s : /\ PlacedFor(s, Operated) /\ s # <<>>
                /\ \/ Remaining(s) = {} /\ placed = s
                   \/ \E b \in Breps : Remaining(s) = {b} /\ placed = Append(s, Solid(b, <<>>))
<1>1. PICK s : /\ PlacedFor(s, Operated) /\ s # <<>> /\ Cardinality(Remaining(s)) <= 1
               /\ placed = s \o SetToSeq({Solid(b, <<>>) : b \in Remaining(s)})
  BY DEF Taken
<1> DEFINE R == Remaining(s)
           T == {Solid(b, <<>>) : b \in R}
<1>2. s \in Seq(Placements)
  BY <1>1 DEF PlacedFor
<1>3. IsFiniteSet(R) /\ Cardinality(R) \in Nat
  <2>1. IsFiniteSet(Breps) /\ R \in SUBSET Breps
    BY FiniteParts DEF Remaining
  <2> QED
    BY <2>1, FS_Subset, FS_CardinalityType
<1>4. R = {} \/ \E b \in Breps : R = {b}
  <2>1. CASE Cardinality(R) = 0
    BY <1>3, <2>1, FS_EmptySet
  <2>2. CASE Cardinality(R) = 1
    <3>1. PICK b : R = {b}
      BY <1>3, <2>2, FS_Singleton
    <3>2. R \subseteq Breps
      BY DEF Remaining
    <3> QED
      BY <3>1, <3>2
  <2> QED
    BY <1>1, <1>3, <2>1, <2>2
<1>5. CASE R = {}
  <2>1. T = {}
    BY <1>5
  <2>2. SetToSeq(T) = <<>>
    <3>1. Cardinality({}) = 0
      BY FS_EmptySet
    <3>2. <<>> \in [1..0 -> {}] /\ \A f \in [1..0 -> {}] : f = <<>> /\ IsInjective(f)
      BY DEF IsInjective
    <3>3. SetToSeq({}) = CHOOSE f \in [1..0 -> {}] : IsInjective(f)
      BY <3>1 DEF SetToSeq
    <3> HIDE DEF T, R
    <3> QED
      BY <2>1, <3>2, <3>3
  <2>3. placed = s \o <<>>
    BY <1>1, <2>2
  <2>4. s \o <<>> = s
    <3> DEFINE P == Placements
    <3>1. s \in Seq(P)
      BY <1>2
    <3> HIDE DEF P
    <3> QED
      BY <3>1
  <2> QED
    BY <1>1, <1>5, <2>3, <2>4
<1>6. ASSUME NEW b \in Breps, R = {b} PROVE placed = Append(s, Solid(b, <<>>))
  <2> DEFINE x == Solid(b, <<>>)
  <2>1. T = {x}
    BY <1>6
  <2>2. SetToSeq(T) = <<x>>
    <3>1. Cardinality({x}) = 1
      BY FS_Singleton
    <3>2. [j \in 1..1 |-> x] \in [1..1 -> {x}] /\ \A f \in [1..1 -> {x}] : f = <<x>> /\ IsInjective(f)
      BY DEF IsInjective
    <3>3. SetToSeq({x}) = CHOOSE f \in [1..1 -> {x}] : IsInjective(f)
      BY <3>1 DEF SetToSeq
    <3> HIDE DEF T, R, x
    <3> QED
      BY <2>1, <3>2, <3>3
  <2> HIDE DEF x, T, R
  <2>3. placed = s \o <<x>>
    BY <1>1, <2>2 DEF T, R
  <2>4. placed = Append(s, x)
    BY <1>2, <2>3
  <2> QED
    BY <2>4 DEF x
<1> QED
  BY <1>1, <1>4, <1>5, <1>6

(* What PlacedAlongRoutes says of one placed solid.                         *)
RightlyAt(x) ==
  LET routes == {Along(w) : w \in Routes(x.brep, Operated)}
  IN /\ IF routes = {} THEN x.at = <<>> ELSE routes = {x.at}
     /\ x.mirrored <=> Mirrored(x.at)

(* All solids of a file that is taken are there once, and rightly placed.   *)
LEMMA TakenIsPlaced ==
  ASSUME file \in Files, OneEach, ListedApart, Taken
  PROVE  /\ \A b \in Breps : \E i \in DOMAIN placed : \A k \in DOMAIN placed : placed[k].brep = b <=> k = i
         /\ \A i \in DOMAIN placed : RightlyAt(placed[i])
         /\ \A i, k \in DOMAIN placed :
              Routes(placed[i].brep, Operated) = {} /\ Routes(placed[k].brep, Operated) = {} => i = k
<1>1. PICK s : /\ PlacedFor(s, Operated) /\ s # <<>>
               /\ \/ Remaining(s) = {} /\ placed = s
                  \/ \E b \in Breps : Remaining(s) = {b} /\ placed = Append(s, Solid(b, <<>>))
  BY RootIsLast
<1> DEFINE n == Len(s)
           P == Placements
<1>2. edges = EdgesOf(Operated)
  BY DEF Taken
<1>3. s \in Seq(P) /\ n \in Nat /\ DOMAIN s = 1..n
  BY <1>1 DEF PlacedFor
<1>4. \A k, l \in 1..n : s[k].brep = s[l].brep => k = l
  BY <1>1, <1>3 DEF PlacedFor
<1>5. ASSUME NEW k \in 1..n
      PROVE  RightlyAt(s[k]) /\ Routes(s[k].brep, Operated) # {}
  <2>1. {Along(w) : w \in Routes(s[k].brep, Operated)} = {s[k].at}
    BY <1>1, <1>2, <1>3, RoutesOfPlaced
  <2>2. s[k].mirrored = Mirrored(s[k].at)
    BY <1>1, <1>3 DEF PlacedFor
  <2> QED
    BY <2>1, <2>2 DEF RightlyAt
<1>6. \A b \in Breps : b \notin Remaining(s) => \E k \in 1..n : s[k].brep = b
  BY <1>3 DEF Remaining
<1> HIDE DEF n, P
<1>7. CASE Remaining(s) = {} /\ placed = s
  <2>1. DOMAIN placed = 1..n /\ \A b \in Breps : \E i \in 1..n : placed[i].brep = b
    BY <1>3, <1>6, <1>7
  <2>2. \A k, l \in 1..n : placed[k].brep = placed[l].brep => k = l
    BY <1>4, <1>7
  <2>3. \A b \in Breps : \E i \in DOMAIN placed : \A k \in DOMAIN placed : placed[k].brep = b <=> k = i
    BY <2>1, <2>2
  <2>4. \A i \in 1..n : RightlyAt(placed[i]) /\ Routes(placed[i].brep, Operated) # {}
    BY <1>5, <1>7
  <2> QED
    BY <2>1, <2>3, <2>4
<1>8. ASSUME NEW c \in Breps, Remaining(s) = {c}, placed = Append(s, Solid(c, <<>>))
      PROVE  /\ \A b \in Breps : \E i \in DOMAIN placed : \A k \in DOMAIN placed : placed[k].brep = b <=> k = i
             /\ \A i \in DOMAIN placed : RightlyAt(placed[i])
             /\ \A i, k \in DOMAIN placed :
                  Routes(placed[i].brep, Operated) = {} /\ Routes(placed[k].brep, Operated) = {} => i = k
  <2> DEFINE x == Solid(c, <<>>)
  <2>0. x.brep = c /\ x.at = <<>> /\ x.mirrored = Mirrored(<<>>)
    BY SolidIs
  <2>1. x \in P
    <3>1. <<>> \in Seq(Ops)
      OBVIOUS
    <3>2. \A b \in Breps : \A ops \in Seq(Ops) : Solid(b, ops) \in P
      BY DEF Placements, P
    <3> QED
      BY <1>8, <3>1, <3>2
  <2>2. RightlyAt(x)
    BY <1>1, <1>8, <2>0, NoRouteIsLeft DEF RightlyAt
  <2>3. \A k \in 1..n : s[k].brep # c
    BY <1>3, <1>8 DEF Remaining
  <2>4. placed = Append(s, x)
    BY <1>8
  <2> HIDE DEF x
  <2>5. /\ DOMAIN placed = 1..(n + 1) /\ placed[n + 1] = x /\ \A k \in 1..n : placed[k] = s[k]
    BY <1>3, <2>1, <2>4 DEF n
  <2>6. \A k \in 1..(n + 1) : k = n + 1 \/ k \in 1..n
    BY <1>3
  <2>7. n + 1 \in 1..(n + 1) /\ 1..n \subseteq 1..(n + 1) /\ n + 1 \notin 1..n
    BY <1>3
  <2>8. \A b \in Breps : \E i \in DOMAIN placed : \A k \in DOMAIN placed : placed[k].brep = b <=> k = i
    <3> SUFFICES ASSUME NEW b \in Breps
                 PROVE  \E i \in 1..(n + 1) : \A k \in 1..(n + 1) : placed[k].brep = b <=> k = i
      BY <2>5
    <3>1. CASE b = c
      BY <2>0, <2>3, <2>5, <2>6, <2>7, <3>1, SMTT(30)
    <3>2. CASE b # c
      <4>1. PICK i \in 1..n : s[i].brep = b
        BY <1>6, <1>8, <3>2
      <4>2. \A k \in 1..(n + 1) : placed[k].brep = b <=> k = i
        BY <1>4, <2>0, <2>5, <2>6, <2>7, <3>2, <4>1, SMTT(30)
      <4> QED
        BY <2>7, <4>1, <4>2
    <3> QED
      BY <3>1, <3>2
  <2>9. \A i \in DOMAIN placed : RightlyAt(placed[i])
    BY <1>5, <2>2, <2>5, <2>6
  <2>10. \A i \in DOMAIN placed : Routes(placed[i].brep, Operated) = {} => i = n + 1
    BY <1>5, <2>5, <2>6
  <2> QED
    BY <2>8, <2>9, <2>10
<1> QED
  BY <1>1, <1>7, <1>8

(* A file of form A that is taken has each solid once, where the only route *)
(* of its relationships takes it, and one solid at most has no route.       *)
THEOREM PlacedWhereTheRelationshipsLead == StepSpec => []PlacedAlongRoutes
<1>1. FormAInv => PlacedAlongRoutes
  <2> SUFFICES ASSUME FormAInv, Imported, FormA, ListedApart
               PROVE  PlacedAlongRoutes
    BY DEF PlacedAlongRoutes
  <2>1. file \in Files /\ OneEach /\ Taken
    BY DEF FormAInv, ReadSoFar, Imported
  <2>2. /\ \A b \in Breps : \E i \in DOMAIN placed : \A k \in DOMAIN placed : placed[k].brep = b <=> k = i
        /\ \A i \in DOMAIN placed : RightlyAt(placed[i])
        /\ \A i, k \in DOMAIN placed :
             Routes(placed[i].brep, Operated) = {} /\ Routes(placed[k].brep, Operated) = {} => i = k
    BY <2>1, TakenIsPlaced
  <2> QED
    BY <2>2 DEF PlacedAlongRoutes, RightlyAt
<1> QED
  BY FormABegins, FormAStep, <1>1, PTL DEF StepSpec

------------------------------------------------------------------------------
(* Which files are taken.                                                   *)

(* The files that AcceptsForests is about, and what it says of them.        *)
Unreached == {b \in Breps : Reaching(b) = {}}
Welcome ==
  /\ Forest /\ file.unmappable = {}
  /\ \A b \in Breps : Cardinality(Reaching(b)) <= 1
  /\ Cardinality(Unreached) <= 1
  /\ \E b \in Breps : Reaching(b) # {}
AcceptsInv == FormA /\ Welcome /\ stage = "done" => status = "ok"

(* In a forest no edge contradicts another.                                 *)
LEMMA NeverAmbiguous ==
  ASSUME Forest, edges \subseteq EdgesOf(Operated), NEW i \in Operated
  PROVE  ~Ambiguous(ParentEdge(i))
<1> SUFFICES ASSUME NEW f \in edges, f.child = ParentEdge(i).child, f # ParentEdge(i)
             PROVE  FALSE
  BY DEF Ambiguous
<1>1. PICK j \in Operated : f = ParentEdge(j)
  BY DEF EdgesOf
<1>2. file.rels[j].child = file.rels[i].child
  BY <1>1, EdgeOfRel
<1> QED
  BY <1>1, <1>2 DEF Forest

(* In a forest every representation has a chain.                            *)
LEMMA AlwaysComposes ==
  ASSUME file \in Files, Forest, edges = EdgesOf(Operated), NEW r
  PROVE  ComposeChain(r) # {}
<1>1. PICK c : c \in Climbs(r)
  BY ClimbExists DEF Forest
<1>2. Cardinality(edges) \in Nat
  BY GiversAre
<1>3. PICK n \in 0..Cardinality(edges) : c \in [1..n -> edges]
  BY <1>1, <1>2, ClimbsAre DEF IsClimb
<1>4. \A e \in edges : Class[e.op] # "bad"
  BY EdgeOfRel DEF EdgesOf, Forest
<1>5. \A k \in DOMAIN c : Class[c[k].op] # "bad"
  BY <1>3, <1>4
<1>6. Composed(c) \in ComposeChain(r)
  BY <1>1, <1>5 DEF ComposeChain
<1> QED
  BY <1>6

(* Two relationships that reach a solid are one.                            *)
LEMMA ReachedOnce ==
  ASSUME file \in Files, NEW b \in Breps, Cardinality(Reaching(b)) <= 1,
         NEW i \in Operated, BrepAt(i) = {b}, NEW j \in Operated, BrepAt(j) = {b}
  PROVE  i = j
<1>1. IsFiniteSet(Reaching(b)) /\ i \in Reaching(b) /\ j \in Reaching(b)
  <2>1. IsFiniteSet(Operated) /\ Reaching(b) \in SUBSET Operated
    BY FiniteParts DEF Reaching
  <2> QED
    BY <2>1, FS_Subset DEF Reaching, BrepAt
<1>2. Cardinality(Reaching(b)) \in Nat /\ Cardinality(Reaching(b)) # 0
  BY <1>1, FS_CardinalityType, FS_EmptySet
<1>3. Cardinality(Reaching(b)) = 1
  BY <1>2
<1> QED
  BY <1>1, <1>3, FS_Singleton

(* The reader places its solid by a relationship that it reads.             *)
LEMMA NeverStops ==
  ASSUME file \in Files, Welcome, edges = EdgesOf(Operated), PlacedFor(placed, Operated \ todo),
         NEW i \in todo, i \in Operated, NEW b \in BrepAt(i)
  PROVE  ChainAt(i) # {} /\ ~IsPlaced(b)
<1>1. ChainAt(i) # {}
  BY AlwaysComposes DEF Welcome, ChainAt
<1>2. b \in Breps /\ BrepAt(i) = {b}
  BY BrepOfIs DEF BrepAt
<1>3. ASSUME NEW k \in DOMAIN placed, placed[k].brep = b PROVE FALSE
  <2>1. PICK j \in Operated \ todo : BrepAt(j) = {b}
    BY <1>3 DEF PlacedFor
  <2>2. i = j
    BY <1>2, <2>1, ReachedOnce DEF Welcome
  <2> QED
    BY <2>1, <2>2
<1> QED
  BY <1>1, <1>3 DEF IsPlaced

(* What is placed then passes the gate.                                     *)
LEMMA AlwaysPasses ==
  ASSUME file \in Files, Welcome, PlacedFor(placed, Operated)
  PROVE  PassesGate
<1>1. ASSUME NEW b \in Breps, NEW i \in Operated, BrepAt(i) = {b} PROVE IsPlaced(b)
  <2>1. \A j \in Operated : BrepAt(j) # {} => \E k \in DOMAIN placed : BrepAt(j) = {placed[k].brep}
    BY DEF PlacedFor
  <2>2. PICK k \in DOMAIN placed : BrepAt(i) = {placed[k].brep}
    BY <1>1, <2>1
  <2> QED
    BY <1>1, <2>2 DEF IsPlaced
<1>2. \A b \in Breps : IsPlaced(b) => Reaching(b) # {}
  BY DEF PlacedFor, IsPlaced, Reaching, BrepAt
<1>3. \A b \in Breps : Reaching(b) # {} => IsPlaced(b)
  BY <1>1 DEF Reaching, BrepAt
<1>4. Unplaced = Unreached
  BY <1>2, <1>3 DEF Unplaced, Unreached
<1>5. placed # <<>>
  BY <1>3 DEF Welcome, IsPlaced
<1> QED
  BY <1>4, <1>5 DEF PassesGate, Welcome

(* No step declines a file that AcceptsForests is about.                    *)
LEMMA AcceptsStep ==
  ASSUME FormAInv, AcceptsInv, [StepNext]_stepVars
  PROVE  AcceptsInv'
<1>0. file' = file
  BY DEF StepNext, stepVars, Disposes, ImportsFlat, ReadsEdge, EndsEdges, Places, EndsPlaces, Assembles,
         MapsInstance, EndsInstances, StepDone
<1>1. (FormA' <=> FormA) /\ (Welcome' <=> Welcome)
  <2>1. Breps' = Breps /\ Operated' = Operated /\ (FormA' <=> FormA)
    BY <1>0, FormAStays
  <2>2. \A b : Reaching(b)' = Reaching(b)
    BY <1>0, <2>1 DEF Reaching, BrepOf, Reps
  <2>3. Forest' <=> Forest
    BY <1>0, <2>1 DEF Forest, Cycles, ParentEdge
  <2>4. Unreached' = Unreached
    BY <2>1, <2>2 DEF Unreached
  <2> QED
    BY <1>0, <2>1, <2>2, <2>3, <2>4 DEF Welcome
<1> SUFFICES ASSUME FormA, Welcome, ReadSoFar, file \in Files, stage' = "done"
             PROVE  status' = "ok"
  BY <1>1 DEF FormAInv, AcceptsInv
<1>2. CASE stage = "done"
  BY <1>2 DEF AcceptsInv, StepNext, stepVars, Disposes, ImportsFlat, ReadsEdge, EndsEdges, Places, EndsPlaces,
         Assembles, MapsInstance, EndsInstances, StepDone
<1>3. ~Disposes
  BY DEF Disposes, FormA, Goto
<1>4. CASE ReadsEdge
  <2>1. PICK i \in todo :
          IF ParentEdge(i).op = "none" THEN UNCHANGED <<stage, edges, status>>
          ELSE IF Ambiguous(ParentEdge(i)) THEN Decline /\ UNCHANGED edges
          ELSE UNCHANGED <<stage, status>>
    BY <1>4 DEF ReadsEdge
  <2>2. stage = "edges" /\ edges = EdgesOf(Operated \ todo) /\ todo \subseteq Carriers
    BY <1>4 DEF ReadsEdge, ReadSoFar
  <2>3. ParentEdge(i).op # "none" /\ Ambiguous(ParentEdge(i))
    BY <2>1, <2>2
  <2>4. i \in Operated /\ edges \subseteq EdgesOf(Operated)
    BY <2>2, <2>3, EdgeOfRel DEF Operated, EdgesOf
  <2> QED
    BY <2>3, <2>4, NeverAmbiguous DEF Welcome
<1>5. CASE Places
  <2>1. /\ stage = "place" /\ edges = EdgesOf(Operated) /\ PlacedFor(placed, Operated \ todo)
        /\ todo \subseteq Carriers
    BY <1>5 DEF Places, ReadSoFar
  <2>2. PICK i \in todo :
          IF file.rels[i].op = "none" \/ BrepAt(i) = {} THEN UNCHANGED <<stage, placed, status>>
          ELSE IF ChainAt(i) = {} \/ \E b \in BrepAt(i) : IsPlaced(b) THEN Decline /\ UNCHANGED placed
          ELSE UNCHANGED <<stage, status>>
    BY <1>5 DEF Places, BrepAt, ChainAt
  <2>3. /\ file.rels[i].op # "none" /\ BrepAt(i) # {}
        /\ ChainAt(i) = {} \/ \E b \in BrepAt(i) : IsPlaced(b)
    BY <2>1, <2>2
  <2>4. i \in Operated
    BY <2>1, <2>3 DEF Operated
  <2>5. ChainAt(i) # {} /\ \A b \in BrepAt(i) : ~IsPlaced(b)
    BY <2>1, <2>3, <2>4, NeverStops
  <2> QED
    BY <2>3, <2>5
<1>6. CASE Assembles
  <2>1. Operated \ todo = Operated /\ PlacedFor(placed, Operated \ todo)
    BY <1>6 DEF Assembles, ReadSoFar
  <2>2. PlacedFor(placed, Operated)
    BY <2>1
  <2>3. PassesGate
    BY <2>2, AlwaysPasses
  <2>4. file.unmappable = {}
    BY DEF Welcome
  <2> QED
    BY <1>6, <2>3, <2>4 DEF Assembles, Finish
<1>7. CASE EndsEdges \/ EndsPlaces
  BY <1>7 DEF EndsEdges, EndsPlaces, Goto
<1>8. CASE ImportsFlat \/ MapsInstance \/ EndsInstances
  BY <1>8 DEF ImportsFlat, MapsInstance, EndsInstances, ReadSoFar
<1>9. CASE StepDone \/ UNCHANGED stepVars
  BY <1>2, <1>9 DEF StepDone, stepVars
<1> QED
  BY <1>3, <1>4, <1>5, <1>6, <1>7, <1>8, <1>9 DEF StepNext

(* A forest that reaches every solid but one is taken, whatever the order   *)
(* of its records.                                                          *)
THEOREM ForestsAreTaken == StepSpec => []AcceptsForests
<1>1. StepInit => AcceptsInv
  BY DEF StepInit, AcceptsInv
<1>2. AcceptsInv => AcceptsForests
  BY DEF AcceptsInv, AcceptsForests, Welcome, Unreached
<1> QED
  BY FormABegins, FormAStep, AcceptsStep, <1>1, <1>2, PTL DEF StepSpec
==============================================================================
