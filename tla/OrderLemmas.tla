----------------------------- MODULE OrderLemmas -----------------------------
(***************************************************************************)
(* What the proofs about geometry and about assemblies need of numbers:    *)
(* induction over Nat for a property that is given as a set, the type of   *)
(* an iteration, that numbers, or a function to the integers on a set of   *)
(* indices, have a least one, so that a CHOOSE of it chooses it, how       *)
(* totals add up and change with what is added, and what lists end to end  *)
(* are.                                                                    *)
(***************************************************************************)
EXTENDS Integers, Totals, WellFoundedInduction, TLAPS

(* Every nonempty set of naturals has a least element.                      *)
LEMMA LeastNumber ==
  ASSUME NEW S \in SUBSET Nat, S # {}
  PROVE  \E x \in S : \A y \in S : x <= y
<1> DEFINE R == OpToRel(<, Nat)
<1>1. IsWellFoundedOn(R, Nat)
  BY NatLessThanWellFounded
<1>2. \A x, y \in Nat : y < x => <<y, x>> \in R
  BY Zenon DEF OpToRel
<1> HIDE DEF R
<1>3. PICK x \in S : \A y \in S : ~(<<y, x>> \in R)
  BY <1>1, WFMin
<1>4. \A y \in S : x \in Nat /\ y \in Nat /\ ~(y < x)
  BY <1>2, <1>3
<1>5. \A y \in S : x <= y
  BY <1>4
<1> QED
  BY <1>5

(* Every nonempty set of numbers up to n has a greatest.                    *)
LEMMA GreatestNumber ==
  ASSUME NEW n \in Nat, NEW S \in SUBSET (1..n), S # {}
  PROVE  \E x \in S : \A y \in S : y <= x
<1> DEFINE D == {n - x : x \in S}
<1>0. \A x \in S : n - x \in Nat
  OBVIOUS
<1>1. D \in SUBSET Nat /\ D # {}
  BY <1>0
<1>2. \A x \in S : n - x \in D /\ x \in 1..n
  OBVIOUS
<1>3. \A d \in D : \E x \in S : d = n - x
  OBVIOUS
<1> HIDE DEF D
<1>4. PICK d \in D : \A e \in D : d <= e
  BY <1>1, LeastNumber
<1>5. PICK x \in S : d = n - x
  BY <1>3
<1>6. \A y \in S : n - x <= n - y /\ y \in Int /\ x \in Int
  BY <1>2, <1>4, <1>5
<1> QED
  BY <1>6

(* Induction, the property being membership of T.                           *)
LEMMA SetInduction ==
  ASSUME NEW T, 0 \in T, \A n \in Nat : n \in T => n + 1 \in T
  PROVE  Nat \subseteq T
<1> SUFFICES ASSUME Nat \ T # {} PROVE FALSE
  OBVIOUS
<1>1. PICK x \in Nat \ T : \A y \in Nat \ T : x <= y
  BY LeastNumber
<1>2. x # 0 /\ x - 1 \in Nat /\ x - 1 < x
  OBVIOUS
<1>3. x - 1 \in T
  BY <1>1, <1>2
<1> QED
  BY <1>1, <1>2, <1>3

(* What holds at first, and after every step from where it holds, holds     *)
(* throughout an iteration.                                                 *)
LEMMA IterationStays ==
  ASSUME NEW S, NEW n \in Nat, NEW h, h[0] \in S,
         \A i \in 1..n : h[i - 1] \in S => h[i] \in S
  PROVE  \A i \in 0..n : h[i] \in S
<1> DEFINE T == {i \in Nat : i <= n => h[i] \in S}
<1>1. 0 \in T
  OBVIOUS
<1>2. ASSUME NEW i \in Nat, i \in T PROVE i + 1 \in T
  <2> SUFFICES ASSUME i + 1 <= n PROVE h[i + 1] \in S
    OBVIOUS
  <2>1. i + 1 \in 1..n /\ (i + 1) - 1 = i /\ h[i] \in S
    BY <1>2
  <2> QED
    BY <2>1
<1>3. Nat \subseteq T
  <2> HIDE DEF T
  <2> QED
    BY <1>1, <1>2, SetInduction
<1> QED
  BY <1>3

(* Some function takes the steps, one by one, from s0.                      *)
Iterates(S, n, s0, step) ==
  \E g \in [0..n -> S] : g[0] = s0 /\ \A i \in 1..n : g[i] = step[i][g[i - 1]]

(* An iteration exists: the function that a recursive definition names.     *)
LEMMA IterationExists ==
  ASSUME NEW S, NEW n \in Nat, NEW s0 \in S, NEW step \in [1..n -> [S -> S]]
  PROVE  Iterates(S, n, s0, step)
<1> DEFINE Runs(g, m) == g[0] = s0 /\ \A i \in 1..m : g[i] = step[i][g[i - 1]]
           T == {m \in Nat : m <= n => \E g \in [0..m -> S] : Runs(g, m)}
<1>1. 0 \in T
  <2>1. [i \in 0..0 |-> s0] \in [0..0 -> S] /\ Runs([i \in 0..0 |-> s0], 0)
    OBVIOUS
  <2> QED
    BY <2>1
<1>2. ASSUME NEW m \in Nat, m \in T PROVE m + 1 \in T
  <2> SUFFICES ASSUME m + 1 <= n PROVE \E g \in [0..(m + 1) -> S] : Runs(g, m + 1)
    OBVIOUS
  <2>1. PICK g \in [0..m -> S] : Runs(g, m)
    BY <1>2
  <2> DEFINE h == [i \in 0..(m + 1) |-> IF i <= m THEN g[i] ELSE step[m + 1][g[m]]]
  <2>2. step[m + 1][g[m]] \in S
    <3>1. g[m] \in S /\ m + 1 \in 1..n
      OBVIOUS
    <3> QED
      BY <3>1
  <2>3. h \in [0..(m + 1) -> S]
    <3>1. \A i \in 0..(m + 1) : i <= m => i \in 0..m /\ g[i] \in S
      OBVIOUS
    <3> QED
      BY <2>2, <3>1
  <2>4. \A i \in 0..m : h[i] = g[i]
    OBVIOUS
  <2>5. h[m + 1] = step[m + 1][h[m]]
    <3>1. m \in 0..m /\ m + 1 \in 0..(m + 1) /\ ~(m + 1 <= m)
      OBVIOUS
    <3>2. h[m + 1] = step[m + 1][g[m]]
      BY <3>1
    <3>3. h[m] = g[m]
      BY <2>4, <3>1
    <3> QED
      BY <3>2, <3>3
  <2> HIDE DEF h
  <2>6. \A i \in 1..(m + 1) : h[i] = step[i][h[i - 1]]
    <3> TAKE i \in 1..(m + 1)
    <3>1. CASE i = m + 1
      BY <2>5, <3>1
    <3>2. CASE i # m + 1
      <4>1. i \in 0..m /\ i - 1 \in 0..m /\ i \in 1..m
        BY <3>2
      <4> QED
        BY <2>1, <2>4, <4>1
    <3> QED
      BY <3>1, <3>2
  <2>7. h[0] = s0
    BY <2>1, <2>4
  <2> QED
    BY <2>3, <2>6, <2>7
<1>3. Nat \subseteq T
  <2> HIDE DEF T
  <2> QED
    BY <1>1, <1>2, SetInduction
<1>4. n \in T
  BY <1>3
<1> QED
  BY <1>4 DEF Iterates

(* A least value on a nonempty set of indices.                              *)
LEMMA LeastValue ==
  ASSUME NEW n \in Nat, NEW f \in [1..n -> Int], NEW C \in SUBSET (1..n), C # {}
  PROVE  \E i \in C : \A j \in C : f[i] <= f[j]
<1> DEFINE T == {m \in Nat : m <= n /\ C \cap (1..m) # {} =>
                   \E i \in C \cap (1..m) : \A j \in C \cap (1..m) : f[i] <= f[j]}
<1>1. 0 \in T
  OBVIOUS
<1>2. ASSUME NEW m \in Nat, m \in T PROVE m + 1 \in T
  <2> SUFFICES ASSUME m + 1 <= n, C \cap (1..(m + 1)) # {}
               PROVE  \E i \in C \cap (1..(m + 1)) : \A j \in C \cap (1..(m + 1)) : f[i] <= f[j]
    <3>1. m + 1 \in Nat
      OBVIOUS
    <3> QED
      BY <3>1
  <2>1. CASE C \cap (1..m) = {}
    <3>1. m + 1 \in C /\ \A j \in C \cap (1..(m + 1)) : j = m + 1
      BY <2>1
    <3>2. f[m + 1] <= f[m + 1]
      BY <3>1
    <3> QED
      BY <3>1, <3>2
  <2>2. CASE C \cap (1..m) # {}
    <3>1. PICK i \in C \cap (1..m) : \A j \in C \cap (1..m) : f[i] <= f[j]
      BY <1>2, <2>2
    <3>2. CASE m + 1 \in C /\ f[m + 1] < f[i]
      <4>1. \A j \in C \cap (1..(m + 1)) : f[m + 1] <= f[j]
        BY <3>1, <3>2
      <4> QED
        BY <3>2, <4>1
    <3>3. CASE m + 1 \notin C \/ f[i] <= f[m + 1]
      <4>1. i \in C \cap (1..(m + 1)) /\ \A j \in C \cap (1..(m + 1)) : f[i] <= f[j]
        BY <3>1, <3>3
      <4> QED
        BY <4>1
    <3> QED
      BY <3>1, <3>2, <3>3
  <2> QED
    BY <2>1, <2>2
<1>3. n \in T
  <2> HIDE DEF T
  <2>1. Nat \subseteq T
    BY <1>1, <1>2, SetInduction
  <2> QED
    BY <2>1
<1>4. C \cap (1..n) = C
  OBVIOUS
<1> QED
  BY <1>3, <1>4, SMTT(30)

(* A greatest value on all of them.                                         *)
LEMMA GreatestValue ==
  ASSUME NEW n \in Nat, n >= 1, NEW f \in [1..n -> Int]
  PROVE  \E i \in 1..n : \A j \in 1..n : f[j] <= f[i]
<1> DEFINE g == [i \in 1..n |-> -f[i]]
<1>1. \A i \in 1..n : g[i] = -f[i] /\ f[i] \in Int /\ -f[i] \in Int
  OBVIOUS
<1>2. g \in [1..n -> Int]
  BY <1>1
<1>4. (1..n) \in SUBSET (1..n) /\ 1..n # {}
  OBVIOUS
<1> HIDE DEF g
<1>3. PICK i \in 1..n : \A j \in 1..n : g[i] <= g[j]
  BY <1>2, <1>4, LeastValue
<1>5. ASSUME NEW j \in 1..n PROVE f[j] <= f[i]
  <2>1. g[i] <= g[j] /\ g[i] = -f[i] /\ g[j] = -f[j] /\ f[i] \in Int /\ f[j] \in Int
    BY <1>1, <1>3
  <2> QED
    BY <2>1
<1> QED
  BY <1>5

------------------------------------------------------------------------------
(* Totals.                                                                  *)

(* The partial sums that a total is the last of.                            *)
PartialSums(s, up) ==
  /\ up \in [0..Len(s) -> Int] /\ up[0] = 0
  /\ \A k \in 1..Len(s) : up[k] = up[k - 1] + s[k]
HasPartialSums(s) == \E up : PartialSums(s, up) /\ Total(s) = up[Len(s)]

(* A sequence of integers has them.                                         *)
LEMMA TotalIsASum ==
  ASSUME NEW s \in Seq(Int)
  PROVE  HasPartialSums(s)
<1> DEFINE n == Len(s)
           s0 == 0
           step == [i \in 1..n |-> [x \in Int |-> x + s[i]]]
           Body(up) == [k \in 0..n |-> IF k = 0 THEN 0 ELSE up[k - 1] + s[k]]
           out == CHOOSE up : up = Body(up)
<1>1. n \in Nat /\ s0 \in Int /\ \A i \in 1..n : s[i] \in Int
  OBVIOUS
<1>2. step \in [1..n -> [Int -> Int]] /\ \A i \in 1..n : \A x \in Int : step[i][x] = x + s[i]
  BY <1>1
<1>3. Total(s) = out[n]
  BY DEF Total
<1> HIDE DEF n, step, s0
<1>4. Iterates(Int, n, s0, step)
  BY <1>1, <1>2, IterationExists
<1>5. PICK g \in [0..n -> Int] : g[0] = s0 /\ \A i \in 1..n : g[i] = step[i][g[i - 1]]
  BY <1>4 DEF Iterates
<1>6. \A i \in 1..n : i - 1 \in 0..n /\ i \in 0..n /\ i # 0 /\ 0 \in 0..n
  BY <1>1
<1>7. \A i \in 1..n : g[i] = g[i - 1] + s[i]
  BY <1>2, <1>5, <1>6
<1>8. g = Body(g)
  <2>1. \A k \in 0..n : g[k] = IF k = 0 THEN 0 ELSE g[k - 1] + s[k]
    <3>1. \A k \in 0..n : k # 0 => k \in 1..n
      BY <1>1
    <3> QED
      BY <1>5, <1>7, <3>1 DEF s0
  <2>2. g = [k \in 0..n |-> g[k]]
    BY <1>5
  <2> QED
    BY <2>1, <2>2
<1>9. out = Body(out)
  BY <1>8
<1> HIDE DEF out
<1>10. DOMAIN out = 0..n /\ out = [k \in 0..n |-> out[k]]
  BY <1>9
<1>11. 0 \in 0..n
  BY <1>1
<1>12. out[0] = 0 /\ \A k \in 1..n : out[k] = out[k - 1] + s[k]
  <2>1. \A k \in 0..n : out[k] = IF k = 0 THEN 0 ELSE out[k - 1] + s[k]
    BY <1>9
  <2> QED
    BY <1>6, <1>11, <2>1
<1>13. \A k \in 0..n : out[k] \in Int
  <2>1. ASSUME NEW k \in 1..n, out[k - 1] \in Int PROVE out[k] \in Int
    <3>1. s[k] \in Int /\ out[k] = out[k - 1] + s[k]
      BY <1>1, <1>12
    <3> QED
      BY <2>1, <3>1
  <2>2. out[0] \in Int
    BY <1>12
  <2> QED
    BY <1>1, <2>1, <2>2, IterationStays
<1>14. out \in [0..n -> Int]
  BY <1>10, <1>13
<1>15. PartialSums(s, out)
  BY <1>12, <1>14 DEF PartialSums, n
<1> QED
  BY <1>3, <1>15 DEF HasPartialSums, n

(* So a total of integers is one.                                           *)
LEMMA TotalIsInt ==
  ASSUME NEW s \in Seq(Int)
  PROVE  Total(s) \in Int
<1>1. HasPartialSums(s)
  BY TotalIsASum
<1>2. PICK up : PartialSums(s, up) /\ Total(s) = up[Len(s)]
  BY <1>1 DEF HasPartialSums
<1>3. Len(s) \in 0..Len(s)
  OBVIOUS
<1> QED
  BY <1>2, <1>3 DEF PartialSums

(* What the induction over the partial sums needs of integers.              *)
LEMMA Addends ==
  /\ \A a, b, c \in Int : c - (a + b) = 0 => c = a + b
  /\ \A x, y \in Int : x + y = 0 => y = -x
OBVIOUS

(* The total of the sums, place by place, is the sum of the totals.         *)
LEMMA TotalAdds ==
  ASSUME NEW s \in Seq(Int), NEW t \in Seq(Int), NEW u \in Seq(Int),
         Len(t) = Len(s), Len(u) = Len(s), \A k \in 1..Len(s) : u[k] = s[k] + t[k]
  PROVE  Total(u) = Total(s) + Total(t)
<1> DEFINE n == Len(s)
<1>1. HasPartialSums(s) /\ HasPartialSums(t) /\ HasPartialSums(u)
  BY TotalIsASum
<1>2. PICK a : PartialSums(s, a) /\ Total(s) = a[n]
  BY <1>1 DEF HasPartialSums
<1>3. PICK b : PartialSums(t, b) /\ Total(t) = b[n]
  BY <1>1 DEF HasPartialSums
<1>4. PICK c : PartialSums(u, c) /\ Total(u) = c[n]
  BY <1>1 DEF HasPartialSums
<1>5. n \in Nat /\ \A i \in 1..n : s[i] \in Int /\ t[i] \in Int /\ i - 1 \in 0..n
  OBVIOUS
<1> DEFINE h == [k \in 0..n |-> c[k] - (a[k] + b[k])]
           Zero == {0}
<1>6. /\ a \in [0..n -> Int] /\ a[0] = 0 /\ \A k \in 1..n : a[k] = a[k - 1] + s[k]
      /\ b \in [0..n -> Int] /\ b[0] = 0 /\ \A k \in 1..n : b[k] = b[k - 1] + t[k]
      /\ c \in [0..n -> Int] /\ c[0] = 0 /\ \A k \in 1..n : c[k] = c[k - 1] + (s[k] + t[k])
  BY <1>2, <1>3, <1>4 DEF PartialSums
<1> HIDE DEF n
<1>7. h[0] = 0
  BY <1>5, <1>6
<1>8. \A k \in 1..n : h[k - 1] = 0 => h[k] = 0
  <2> TAKE k \in 1..n
  <2>1. k - 1 \in 0..n /\ k \in 0..n
    BY <1>5
  <2>2. h[k] = c[k] - (a[k] + b[k]) /\ h[k - 1] = c[k - 1] - (a[k - 1] + b[k - 1])
    BY <2>1
  <2> HIDE DEF h
  <2>3. a[k - 1] \in Int /\ b[k - 1] \in Int /\ c[k - 1] \in Int /\ s[k] \in Int /\ t[k] \in Int
    BY <1>5, <1>6, <2>1
  <2>4. a[k] = a[k - 1] + s[k] /\ b[k] = b[k - 1] + t[k] /\ c[k] = c[k - 1] + (s[k] + t[k])
    BY <1>6
  <2> SUFFICES ASSUME h[k - 1] = 0 PROVE h[k] = 0
    OBVIOUS
  <2>5. c[k - 1] = a[k - 1] + b[k - 1]
    <3>1. c[k - 1] - (a[k - 1] + b[k - 1]) = 0
      BY <2>2
    <3> QED
      BY <2>3, <3>1, Addends
  <2>6. h[k] = ((a[k - 1] + b[k - 1]) + (s[k] + t[k])) - ((a[k - 1] + s[k]) + (b[k - 1] + t[k]))
    BY <2>2, <2>4, <2>5
  <2>7. ((a[k - 1] + b[k - 1]) + (s[k] + t[k])) - ((a[k - 1] + s[k]) + (b[k - 1] + t[k])) = 0
    <3> DEFINE ak == a[k - 1]
               bk == b[k - 1]
               sk == s[k]
               tk == t[k]
    <3>1. ak \in Int /\ bk \in Int /\ sk \in Int /\ tk \in Int
      BY <2>3
    <3> HIDE DEF ak, bk, sk, tk
    <3>2. ((ak + bk) + (sk + tk)) - ((ak + sk) + (bk + tk)) = 0
      BY <3>1
    <3> QED
      BY <3>2 DEF ak, bk, sk, tk
  <2> QED
    BY <2>6, <2>7
<1>9. h[n] = 0
  <2>1. \A k \in 0..n : h[k] \in Zero
    <3>1. h[0] \in Zero /\ \A k \in 1..n : h[k - 1] \in Zero => h[k] \in Zero
      BY <1>7, <1>8
    <3> HIDE DEF h, Zero
    <3> QED
      BY <1>5, <3>1, IterationStays
  <2>2. n \in 0..n
    BY <1>5
  <2> HIDE DEF h
  <2> QED
    BY <2>1, <2>2
<1>10. n \in 0..n
  BY <1>5
<1>11. a[n] \in Int /\ b[n] \in Int /\ c[n] \in Int /\ h[n] = c[n] - (a[n] + b[n])
  BY <1>6, <1>10
<1> HIDE DEF h
<1>12. c[n] = a[n] + b[n]
  <2>1. c[n] - (a[n] + b[n]) = 0
    BY <1>9, <1>11
  <2> QED
    BY <1>11, <2>1, Addends
<1> QED
  BY <1>2, <1>3, <1>4, <1>12

(* Nothing but zeros add up to zero.                                        *)
LEMMA TotalOfZeros ==
  ASSUME NEW s \in Seq(Int), \A k \in 1..Len(s) : s[k] = 0
  PROVE  Total(s) = 0
<1>1. Total(s) = Total(s) + Total(s)
  BY TotalAdds
<1> QED
  BY <1>1, TotalIsInt

(* A total of the negated is negated.                                       *)
LEMMA TotalNegates ==
  ASSUME NEW s \in Seq(Int), NEW t \in Seq(Int),
         Len(t) = Len(s), \A k \in 1..Len(s) : t[k] = -s[k]
  PROVE  Total(t) = -Total(s)
<1> DEFINE z == [k \in 1..Len(s) |-> 0]
<1>0. \A k \in 1..Len(s) : s[k] \in Int
  OBVIOUS
<1>1. z \in Seq(Int) /\ Len(z) = Len(s) /\ \A k \in 1..Len(s) : z[k] = 0 /\ z[k] = s[k] + t[k]
  BY <1>0
<1> HIDE DEF z
<1>2. Total(z) = 0
  BY <1>1, TotalOfZeros
<1>3. Total(z) = Total(s) + Total(t)
  BY <1>1, TotalAdds
<1>4. Total(s) \in Int /\ Total(t) \in Int
  BY TotalIsInt
<1> QED
  BY <1>2, <1>3, <1>4, Addends

(* A total is the last of any partial sums that there are.                  *)
LEMMA TotalIs ==
  ASSUME NEW s \in Seq(Int), NEW g, PartialSums(s, g)
  PROVE  Total(s) = g[Len(s)]
<1> DEFINE n == Len(s)
<1>1. HasPartialSums(s)
  BY TotalIsASum
<1>2. PICK up : PartialSums(s, up) /\ Total(s) = up[n]
  BY <1>1 DEF HasPartialSums
<1>3. n \in Nat /\ \A i \in 1..n : i - 1 \in 0..n
  OBVIOUS
<1>4. /\ up[0] = 0 /\ g[0] = 0
      /\ \A k \in 1..n : up[k] = up[k - 1] + s[k] /\ g[k] = g[k - 1] + s[k]
  BY <1>2 DEF PartialSums
<1> HIDE DEF n
<1> DEFINE off == [k \in 0..n |-> IF up[k] = g[k] THEN 0 ELSE 1]
           Zero == {0}
<1>0. \A k \in 0..n : off[k] = 0 <=> up[k] = g[k]
  OBVIOUS
<1> HIDE DEF off
<1>5. \A k \in 0..n : up[k] = g[k]
  <2>1. off[0] = 0
    BY <1>0, <1>3, <1>4
  <2>2. ASSUME NEW k \in 1..n, off[k - 1] = 0 PROVE off[k] = 0
    <3>1. k - 1 \in 0..n /\ k \in 0..n
      BY <1>3
    <3>2. up[k - 1] = g[k - 1]
      BY <1>0, <2>2, <3>1
    <3>3. up[k] = g[k]
      BY <1>4, <3>2
    <3> QED
      BY <1>0, <3>1, <3>3
  <2>3. off[0] \in Zero /\ \A k \in 1..n : off[k - 1] \in Zero => off[k] \in Zero
    BY <2>1, <2>2
  <2> HIDE DEF Zero
  <2>4. \A k \in 0..n : off[k] \in Zero
    BY <1>3, <2>3, IterationStays
  <2> QED
    BY <1>0, <2>4 DEF Zero
<1>6. n \in 0..n
  BY <1>3
<1>7. up[n] = g[n]
  BY <1>5, <1>6
<1> QED
  BY <1>2, <1>7 DEF n

(* Where one number alone is not zero the total is that number.             *)
LEMMA TotalOfOne ==
  ASSUME NEW s \in Seq(Int), NEW i \in 1..Len(s), \A k \in 1..Len(s) : k # i => s[k] = 0
  PROVE  Total(s) = s[i]
<1> DEFINE n == Len(s)
           g == [k \in 0..n |-> IF k < i THEN 0 ELSE s[i]]
<1>1. n \in Nat /\ i \in 1..n /\ \A k \in 1..n : s[k] \in Int
  OBVIOUS
<1>2. g \in [0..n -> Int] /\ g[0] = 0 /\ g[n] = s[i]
  BY <1>1
<1>3. ASSUME NEW k \in 1..n PROVE g[k] = g[k - 1] + s[k]
  <2>1. k \in 0..n /\ k - 1 \in 0..n
    BY <1>1
  <2>2. g[k] = (IF k < i THEN 0 ELSE s[i]) /\ g[k - 1] = (IF k - 1 < i THEN 0 ELSE s[i])
    BY <2>1
  <2> HIDE DEF g
  <2>3. s[k] = IF k = i THEN s[i] ELSE 0
    BY DEF n
  <2> DEFINE si == s[i]
  <2>4. si \in Int
    BY <1>1
  <2>5. k < i \/ k = i \/ k > i
    BY <1>1
  <2> QED
    BY <1>1, <2>2, <2>3, <2>5
<1>4. PartialSums(s, g)
  BY <1>2, <1>3 DEF PartialSums
<1> HIDE DEF g
<1>5. Total(s) = g[n]
  BY <1>4, TotalIs
<1> QED
  BY <1>2, <1>5

(* A total changes by what one of its numbers changes.                      *)
LEMMA TotalChanges ==
  ASSUME NEW s \in Seq(Int), NEW t \in Seq(Int), Len(t) = Len(s), NEW i \in 1..Len(s),
         \A k \in 1..Len(s) : k # i => t[k] = s[k]
  PROVE  Total(t) = Total(s) + (t[i] - s[i])
<1> DEFINE n == Len(s)
           d == [k \in 1..n |-> IF k = i THEN t[i] - s[i] ELSE 0]
<1>1. n \in Nat /\ i \in 1..n /\ \A k \in 1..n : s[k] \in Int /\ t[k] \in Int
  OBVIOUS
<1>2. d \in Seq(Int) /\ Len(d) = n /\ \A k \in 1..n : d[k] = IF k = i THEN t[i] - s[i] ELSE 0
  BY <1>1
<1> HIDE DEF d
<1>3. Total(d) = d[i]
  BY <1>1, <1>2, TotalOfOne
<1>4. \A k \in 1..n : t[k] = s[k] + d[k]
  <2> SUFFICES ASSUME NEW k \in 1..n PROVE t[k] = s[k] + d[k]
    OBVIOUS
  <2>1. s[k] \in Int /\ t[k] \in Int /\ d[k] = (IF k = i THEN t[i] - s[i] ELSE 0) /\ (k # i => t[k] = s[k])
    BY <1>1, <1>2 DEF n
  <2>2. CASE k = i
    <3>1. d[k] = t[k] - s[k]
      BY <2>1, <2>2
    <3> DEFINE x == s[k]
               y == t[k]
    <3>2. x \in Int /\ y \in Int
      BY <2>1
    <3> HIDE DEF x, y
    <3>3. y = x + (y - x)
      BY <3>2
    <3> QED
      BY <3>1, <3>3 DEF x, y
  <2>3. CASE k # i
    BY <2>1, <2>3
  <2> QED
    BY <2>2, <2>3
<1>5. Total(t) = Total(s) + Total(d)
  BY <1>2, <1>4, TotalAdds
<1> QED
  BY <1>1, <1>2, <1>3, <1>5

(* One list after another: the totals add.                                  *)
LEMMA TotalJoins ==
  ASSUME NEW s \in Seq(Int), NEW t \in Seq(Int), NEW u \in Seq(Int), Len(u) = Len(s) + Len(t),
         \A k \in 1..Len(s) : u[k] = s[k], \A k \in 1..Len(t) : u[Len(s) + k] = t[k]
  PROVE  Total(u) = Total(s) + Total(t)
<1> DEFINE n == Len(s)
           m == Len(t)
<1>1. HasPartialSums(s) /\ HasPartialSums(t)
  BY TotalIsASum
<1>2. PICK a : PartialSums(s, a) /\ Total(s) = a[n]
  BY <1>1 DEF HasPartialSums
<1>3. PICK b : PartialSums(t, b) /\ Total(t) = b[m]
  BY <1>1 DEF HasPartialSums
<1>4. n \in Nat /\ m \in Nat /\ Len(u) = n + m /\ (\A k \in 1..n : s[k] \in Int) /\ (\A k \in 1..m : t[k] \in Int)
  OBVIOUS
<1>5. /\ a \in [0..n -> Int] /\ a[0] = 0 /\ \A k \in 1..n : a[k] = a[k - 1] + s[k]
      /\ b \in [0..m -> Int] /\ b[0] = 0 /\ \A k \in 1..m : b[k] = b[k - 1] + t[k]
  BY <1>2, <1>3 DEF PartialSums
<1>6. (\A k \in 1..n : u[k] = s[k]) /\ \A k \in 1..m : u[n + k] = t[k]
  OBVIOUS
<1> HIDE DEF n, m
<1> DEFINE an == a[n]
           g == [k \in 0..(n + m) |-> IF k <= n THEN a[k] ELSE an + b[k - n]]
<1>7. an \in Int
  <2>1. n \in 0..n
    BY <1>4
  <2> QED
    BY <1>5, <2>1
<1>8. an = a[n]
  OBVIOUS
<1> HIDE DEF an
<1>9. g \in [0..(n + m) -> Int] /\ g[0] = 0 /\ \A k \in 0..(n + m) : g[k] = IF k <= n THEN a[k] ELSE an + b[k - n]
  <2>1. \A k \in 0..(n + m) : k <= n => k \in 0..n
    BY <1>4
  <2>2. \A k \in 0..(n + m) : ~(k <= n) => k - n \in 0..m
    BY <1>4
  <2>3. 0 \in 0..(n + m) /\ 0 <= n
    BY <1>4
  <2> QED
    BY <1>5, <1>7, <2>1, <2>2, <2>3
<1> HIDE DEF g
<1>10. ASSUME NEW k \in 1..(n + m) PROVE g[k] = g[k - 1] + u[k]
  <2>0. k \in 0..(n + m) /\ k - 1 \in 0..(n + m)
    BY <1>4
  <2>1. CASE k <= n
    <3>1. k \in 1..n /\ k - 1 <= n
      BY <1>4, <2>1
    <3>2. g[k] = a[k] /\ g[k - 1] = a[k - 1] /\ a[k] = a[k - 1] + s[k] /\ u[k] = s[k]
      BY <1>5, <1>6, <1>9, <2>0, <2>1, <3>1
    <3> QED
      BY <3>2
  <2>2. CASE k = n + 1
    <3>1. 1 \in 1..m /\ k - 1 = n /\ k - n = 1 /\ ~(k <= n) /\ k - 1 <= n
      BY <1>4, <2>2
    <3>2. g[k] = an + b[1] /\ g[k - 1] = an
      BY <1>8, <1>9, <2>0, <3>1
    <3>3. b[1] = b[1 - 1] + t[1]
      BY <1>5, <3>1
    <3>4. 1 - 1 = 0 /\ t[1] \in Int
      BY <1>4, <3>1
    <3>5. b[1] = t[1]
      BY <1>5, <3>3, <3>4
    <3>6. u[k] = t[1]
      BY <1>6, <2>2, <3>1
    <3> QED
      BY <3>2, <3>5, <3>6
  <2>3. CASE k > n + 1
    <3> DEFINE j == k - n
    <3>1. j \in 1..m /\ j - 1 \in 0..m /\ (k - 1) - n = j - 1 /\ ~(k <= n) /\ ~(k - 1 <= n) /\ n + j = k
      BY <1>4, <2>3
    <3> HIDE DEF j
    <3>2. g[k] = an + b[j] /\ g[k - 1] = an + b[j - 1]
      <4>1. g[k] = an + b[k - n] /\ g[k - 1] = an + b[(k - 1) - n]
        BY <1>9, <2>0, <3>1
      <4>2. g[k - 1] = an + b[j - 1]
        BY <3>1, <4>1
      <4> QED
        BY <4>1, <4>2 DEF j
    <3>3. b[j] = b[j - 1] + t[j] /\ b[j - 1] \in Int /\ t[j] \in Int
      BY <1>4, <1>5, <3>1
    <3>4. u[k] = t[j]
      <4>1. u[n + j] = t[j]
        BY <1>6, <3>1
      <4> QED
        BY <3>1, <4>1
    <3> DEFINE x == b[j - 1]
               y == t[j]
    <3>5. x \in Int /\ y \in Int
      BY <3>3
    <3>6. g[k] = an + (x + y) /\ g[k - 1] = an + x /\ u[k] = y
      BY <3>2, <3>3, <3>4
    <3> HIDE DEF x, y
    <3>7. an + (x + y) = (an + x) + y
      BY <1>7, <3>5
    <3> QED
      BY <3>6, <3>7
  <2> QED
    BY <1>4, <2>1, <2>2, <2>3
<1>11. PartialSums(u, g)
  BY <1>4, <1>9, <1>10 DEF PartialSums
<1>12. Total(u) = g[n + m]
  BY <1>4, <1>11, TotalIs
<1>13. g[n + m] = an + b[m]
  <2>1. n + m \in 0..(n + m) /\ (n + m) - n = m /\ (n + m <= n <=> m = 0)
    BY <1>4
  <2>2. CASE m = 0
    <3>1. g[n + m] = a[n + m] /\ n + m = n /\ b[m] = 0
      BY <1>4, <1>5, <1>9, <2>1, <2>2
    <3> QED
      BY <1>7, <1>8, <3>1
  <2>3. CASE m # 0
    <3>1. g[n + m] = an + b[(n + m) - n]
      BY <1>9, <2>1, <2>3
    <3> QED
      BY <2>1, <3>1
  <2> QED
    BY <2>2, <2>3
<1> QED
  BY <1>2, <1>3, <1>8, <1>12, <1>13 DEF n, m

(* One number more adds to the total.                                       *)
LEMMA TotalAppends ==
  ASSUME NEW s \in Seq(Int), NEW x \in Int, NEW u \in Seq(Int), Len(u) = Len(s) + 1,
         \A k \in 1..Len(s) : u[k] = s[k], u[Len(s) + 1] = x
  PROVE  Total(u) = Total(s) + x
<1> DEFINE t == [k \in 1..1 |-> x]
<1>1. t \in Seq(Int) /\ Len(t) = 1 /\ t[1] = x /\ \A k \in 1..1 : t[k] = x
  OBVIOUS
<1> HIDE DEF t
<1>2. Total(t) = x
  <2>1. 1 \in 1..Len(t) /\ \A k \in 1..Len(t) : k # 1 => t[k] = 0
    BY <1>1
  <2> QED
    BY <1>1, <2>1, TotalOfOne
<1>3. Len(s) \in Nat /\ Len(u) = Len(s) + Len(t) /\ \A k \in 1..Len(t) : u[Len(s) + k] = t[k]
  BY <1>1
<1>4. Total(u) = Total(s) + Total(t)
  BY <1>1, <1>3, TotalJoins
<1> QED
  BY <1>2, <1>4

(* The total is the same from the last number to the first.                 *)
LEMMA TotalReverses ==
  ASSUME NEW s \in Seq(Int), NEW t \in Seq(Int), Len(t) = Len(s),
         \A k \in 1..Len(s) : t[k] = s[Len(s) + 1 - k]
  PROVE  Total(t) = Total(s)
<1> DEFINE n == Len(s)
<1>1. HasPartialSums(s)
  BY TotalIsASum
<1>2. PICK a : PartialSums(s, a) /\ Total(s) = a[n]
  BY <1>1 DEF HasPartialSums
<1>3. n \in Nat /\ Len(t) = n /\ \A k \in 1..n : s[k] \in Int
  OBVIOUS
<1>4. a \in [0..n -> Int] /\ a[0] = 0 /\ \A k \in 1..n : a[k] = a[k - 1] + s[k]
  BY <1>2 DEF PartialSums
<1>5. \A k \in 1..n : t[k] = s[n + 1 - k]
  OBVIOUS
<1> HIDE DEF n
<1> DEFINE an == a[n]
           g == [k \in 0..n |-> an - a[n - k]]
<1>6. an \in Int /\ an = a[n]
  <2>1. n \in 0..n
    BY <1>3
  <2> QED
    BY <1>4, <2>1
<1> HIDE DEF an
<1>7. \A k \in 0..n : n - k \in 0..n /\ a[n - k] \in Int
  <2>1. \A k \in 0..n : n - k \in 0..n
    BY <1>3
  <2> QED
    BY <1>4, <2>1
<1>8. g \in [0..n -> Int] /\ \A k \in 0..n : g[k] = an - a[n - k]
  BY <1>6, <1>7
<1> HIDE DEF g
<1>9. g[0] = 0 /\ g[n] = an
  <2>1. 0 \in 0..n /\ n \in 0..n /\ n - 0 = n /\ n - n = 0
    BY <1>3
  <2>2. g[0] = an - a[n - 0] /\ g[n] = an - a[n - n]
    BY <1>8, <2>1
  <2>3. a[n - 0] = an /\ a[n - n] = 0
    BY <1>4, <1>6, <2>1
  <2> QED
    BY <1>6, <2>2, <2>3
<1>10. ASSUME NEW k \in 1..n PROVE g[k] = g[k - 1] + t[k]
  <2> DEFINE j == n - k
  <2>1. k \in 0..n /\ k - 1 \in 0..n /\ j \in 0..n /\ n - (k - 1) = j + 1 /\ n + 1 - k = j + 1 /\ j + 1 \in 1..n /\ (j + 1) - 1 = j
    BY <1>3
  <2>2. g[k] = an - a[j]
    BY <1>8, <2>1
  <2> HIDE DEF j
  <2>3. g[k - 1] = an - a[j + 1]
    BY <1>8, <2>1
  <2>4. t[k] = s[j + 1]
    BY <1>5, <2>1
  <2>5. a[j + 1] = a[j] + s[j + 1]
    BY <1>4, <2>1
  <2> DEFINE x == a[j]
             y == s[j + 1]
  <2>6. x \in Int /\ y \in Int
    BY <1>3, <1>4, <2>1
  <2>7. g[k] = an - x /\ g[k - 1] = an - (x + y) /\ t[k] = y
    BY <2>2, <2>3, <2>4, <2>5
  <2> HIDE DEF x, y
  <2>8. an - x = (an - (x + y)) + y
    BY <1>6, <2>6
  <2> QED
    BY <2>7, <2>8
<1>11. PartialSums(t, g)
  BY <1>3, <1>8, <1>9, <1>10 DEF PartialSums
<1>12. Total(t) = g[n]
  BY <1>3, <1>11, TotalIs
<1> QED
  BY <1>2, <1>6, <1>9, <1>12

(* A number below n, and n more than it, leave that number, and -1 the last. *)
LEMMA LeftOver ==
  ASSUME NEW n \in Nat, n >= 1, NEW x \in 0..(n - 1)
  PROVE  x % n = x /\ (n + x) % n = x /\ (0 - 1) % n = n - 1
OBVIOUS

(* And the same from any number on, round to where it began.                *)
LEMMA TotalTurns ==
  ASSUME NEW s \in Seq(Int), NEW t \in Seq(Int), Len(s) >= 1, Len(t) = Len(s), NEW a \in 0..Len(s),
         \A k \in 1..Len(s) : t[k] = s[((a + k - 1) % Len(s)) + 1]
  PROVE  Total(t) = Total(s)
<1> DEFINE n == Len(s)
           x == [k \in 1..a |-> s[k]]
           y == [k \in 1..(n - a) |-> s[a + k]]
<1>1. n \in Nat /\ n >= 1 /\ a \in 0..n /\ a \in Nat /\ n - a \in Nat /\ \A k \in 1..n : s[k] \in Int
  OBVIOUS
<1>2. x \in Seq(Int) /\ Len(x) = a /\ \A k \in 1..a : x[k] = s[k]
  BY <1>1
<1>3. y \in Seq(Int) /\ Len(y) = n - a /\ \A k \in 1..(n - a) : y[k] = s[a + k]
  <2>1. \A k \in 1..(n - a) : a + k \in 1..n
    BY <1>1
  <2> QED
    BY <1>1, <2>1
<1> HIDE DEF x, y
<1>4. Total(s) = Total(x) + Total(y)
  <2>1. Len(s) = Len(x) + Len(y) /\ (\A k \in 1..Len(x) : s[k] = x[k]) /\ \A k \in 1..Len(y) : s[Len(x) + k] = y[k]
    BY <1>1, <1>2, <1>3
  <2> QED
    BY <1>2, <1>3, <2>1, TotalJoins
<1>5. Total(t) = Total(y) + Total(x)
  <2>0. \A k \in 1..n : t[k] = s[((a + k - 1) % n) + 1]
    OBVIOUS
  <2>1. \A k \in 1..(n - a) : t[k] = y[k]
    <3> SUFFICES ASSUME NEW k \in 1..(n - a) PROVE t[k] = y[k]
      OBVIOUS
    <3>1. k \in 1..n /\ a + k - 1 \in 0..(n - 1) /\ (a + k - 1) + 1 = a + k
      BY <1>1
    <3> HIDE DEF n
    <3>2. (a + k - 1) % n = a + k - 1
      BY <1>1, <3>1, LeftOver
    <3> QED
      BY <1>3, <2>0, <3>1, <3>2
  <2>2. \A k \in 1..a : t[(n - a) + k] = x[k]
    <3> SUFFICES ASSUME NEW k \in 1..a PROVE t[(n - a) + k] = x[k]
      OBVIOUS
    <3> DEFINE m == (n - a) + k
    <3>1. m \in 1..n /\ a + m - 1 = n + (k - 1) /\ k - 1 \in 0..(n - 1) /\ (k - 1) + 1 = k
      BY <1>1
    <3> HIDE DEF n, m
    <3>2. (n + (k - 1)) % n = k - 1
      BY <1>1, <3>1, LeftOver
    <3>3. t[m] = s[k]
      BY <2>0, <3>1, <3>2
    <3> QED
      BY <1>2, <3>3 DEF m
  <2>3. Len(t) = Len(y) + Len(x) /\ (\A k \in 1..Len(y) : t[k] = y[k]) /\ \A k \in 1..Len(x) : t[Len(y) + k] = x[k]
    BY <1>1, <1>2, <1>3, <2>1, <2>2
  <2> QED
    BY <1>2, <1>3, <2>3, TotalJoins
<1>6. Total(x) \in Int /\ Total(y) \in Int
  BY <1>2, <1>3, TotalIsInt
<1> QED
  BY <1>4, <1>5, <1>6

(* A total without one of its numbers.                                      *)
LEMMA TotalRemoves ==
  ASSUME NEW s \in Seq(Int), NEW i \in 1..Len(s), NEW d \in Seq(Int), Len(d) = Len(s) - 1,
         \A k \in 1..(Len(s) - 1) : d[k] = s[IF k < i THEN k ELSE k + 1]
  PROVE  Total(s) = Total(d) + s[i]
<1> DEFINE n == Len(s)
           x == [k \in 1..(i - 1) |-> s[k]]
           y == [k \in 1..(n - i) |-> s[i + k]]
           xi == [k \in 1..i |-> s[k]]
<1>1. n \in Nat /\ i \in 1..n /\ i \in Nat /\ i - 1 \in Nat /\ n - i \in Nat /\ \A k \in 1..n : s[k] \in Int
  OBVIOUS
<1>2. x \in Seq(Int) /\ Len(x) = i - 1 /\ \A k \in 1..(i - 1) : x[k] = s[k]
  <2>1. \A k \in 1..(i - 1) : k \in 1..n
    BY <1>1
  <2> QED
    BY <1>1, <2>1
<1>3. y \in Seq(Int) /\ Len(y) = n - i /\ \A k \in 1..(n - i) : y[k] = s[i + k]
  <2>1. \A k \in 1..(n - i) : i + k \in 1..n
    BY <1>1
  <2> QED
    BY <1>1, <2>1
<1>4. xi \in Seq(Int) /\ Len(xi) = i /\ \A k \in 1..i : xi[k] = s[k]
  <2>1. \A k \in 1..i : k \in 1..n
    BY <1>1
  <2> QED
    BY <1>1, <2>1
<1>5. \A k \in 1..(n - 1) : d[k] = s[IF k < i THEN k ELSE k + 1]
  OBVIOUS
<1> HIDE DEF x, y, xi
<1>6. Total(xi) = Total(x) + s[i]
  <2>1. /\ Len(xi) = Len(x) + 1 /\ (\A k \in 1..Len(x) : xi[k] = x[k]) /\ xi[Len(x) + 1] = s[i]
        /\ s[i] \in Int
    <3>1. (i - 1) + 1 = i /\ i \in 1..i /\ \A k \in 1..(i - 1) : k \in 1..i
      BY <1>1
    <3> QED
      BY <1>1, <1>2, <1>4, <3>1
  <2> QED
    BY <1>2, <1>4, <2>1, TotalAppends
<1>7. Total(s) = Total(xi) + Total(y)
  <2>1. Len(s) = Len(xi) + Len(y) /\ (\A k \in 1..Len(xi) : s[k] = xi[k]) /\ \A k \in 1..Len(y) : s[Len(xi) + k] = y[k]
    BY <1>1, <1>3, <1>4
  <2> QED
    BY <1>3, <1>4, <2>1, TotalJoins
<1>8. Total(d) = Total(x) + Total(y)
  <2>1. Len(d) = Len(x) + Len(y)
    BY <1>1, <1>2, <1>3
  <2>2. \A k \in 1..(i - 1) : d[k] = x[k]
    <3>1. \A k \in 1..(i - 1) : k \in 1..(n - 1) /\ k < i
      BY <1>1
    <3> QED
      BY <1>2, <1>5, <3>1
  <2>3. \A k \in 1..(n - i) : d[(i - 1) + k] = y[k]
    <3> SUFFICES ASSUME NEW k \in 1..(n - i) PROVE d[(i - 1) + k] = y[k]
      OBVIOUS
    <3>1. (i - 1) + k \in 1..(n - 1) /\ ~((i - 1) + k < i) /\ ((i - 1) + k) + 1 = i + k
      BY <1>1
    <3>2. d[(i - 1) + k] = s[((i - 1) + k) + 1]
      BY <1>5, <3>1
    <3> QED
      BY <1>3, <3>1, <3>2
  <2>4. (\A k \in 1..Len(x) : d[k] = x[k]) /\ \A k \in 1..Len(y) : d[Len(x) + k] = y[k]
    BY <1>2, <1>3, <2>2, <2>3
  <2> QED
    BY <1>2, <1>3, <2>1, <2>4, TotalJoins
<1>9. Total(x) \in Int /\ Total(y) \in Int
  BY <1>2, <1>3, TotalIsInt
<1> QED
  BY <1>1, <1>6, <1>7, <1>8, <1>9

(* Numbers that are not negative add up to one that is not.                 *)
LEMMA TotalIsNatural ==
  ASSUME NEW s \in Seq(Int), \A k \in 1..Len(s) : s[k] >= 0
  PROVE  Total(s) >= 0
<1> DEFINE n == Len(s)
<1>1. HasPartialSums(s)
  BY TotalIsASum
<1>2. PICK up : PartialSums(s, up) /\ Total(s) = up[n]
  BY <1>1 DEF HasPartialSums
<1>3. n \in Nat /\ \A k \in 1..n : s[k] \in Nat
  OBVIOUS
<1>4. up[0] \in Nat /\ \A k \in 1..n : up[k] = up[k - 1] + s[k]
  BY <1>2 DEF PartialSums
<1> HIDE DEF n
<1>5. \A k \in 1..n : up[k - 1] \in Nat => up[k] \in Nat
  <2> SUFFICES ASSUME NEW k \in 1..n, up[k - 1] \in Nat PROVE up[k] \in Nat
    OBVIOUS
  <2> DEFINE a == up[k - 1]
             b == s[k]
  <2>1. a \in Nat /\ b \in Nat /\ up[k] = a + b
    BY <1>3, <1>4
  <2> HIDE DEF a, b
  <2> QED
    BY <2>1
<1>6. \A k \in 0..n : up[k] \in Nat
  BY <1>3, <1>4, <1>5, IterationStays
<1>7. n \in 0..n
  BY <1>3
<1> QED
  BY <1>2, <1>6, <1>7

(* Sums that differ in two places only.                                     *)
Exchanged(s, t, i, j) ==
  /\ Len(t) = Len(s) /\ i \in 1..Len(s) /\ j \in 1..Len(s) /\ i # j
  /\ \A k \in 1..Len(s) : k # i /\ k # j => t[k] = s[k]
(* They differ by what the two do.                                          *)
LEMMA TotalExchanges ==
  ASSUME NEW s \in Seq(Int), NEW t \in Seq(Int), NEW i, NEW j, Exchanged(s, t, i, j)
  PROVE  Total(t) = Total(s) + ((t[i] + t[j]) - (s[i] + s[j]))
<1>0. /\ Len(t) = Len(s) /\ i \in 1..Len(s) /\ j \in 1..Len(s) /\ i # j
      /\ \A k \in 1..Len(s) : k # i /\ k # j => t[k] = s[k]
  BY DEF Exchanged
<1> DEFINE n == Len(s)
           w == [k \in 1..n |-> IF k = i THEN t[i] ELSE s[k]]
           si == s[i]
           sj == s[j]
           ti == t[i]
           tj == t[j]
<1>1. n \in Nat /\ \A k \in 1..n : s[k] \in Int /\ t[k] \in Int
  BY <1>0
<1>2. w \in Seq(Int) /\ Len(w) = n /\ w[i] = ti /\ w[j] = sj /\ \A k \in 1..n : k # i => w[k] = s[k]
  BY <1>0, <1>1
<1>3. \A k \in 1..n : k # j => t[k] = w[k]
  BY <1>0
<1>4. Total(w) = Total(s) + (w[i] - s[i])
  <2> HIDE DEF w
  <2> QED
    BY <1>0, <1>2, TotalChanges
<1>5. Total(t) = Total(w) + (t[j] - w[j])
  <2>1. Len(t) = Len(w) /\ j \in 1..Len(w) /\ \A k \in 1..Len(w) : k # j => t[k] = w[k]
    BY <1>0, <1>2, <1>3
  <2>2. w \in Seq(Int)
    BY <1>2
  <2> HIDE DEF w
  <2> QED
    BY <2>1, <2>2, TotalChanges
<1>6. Total(s) \in Int
  BY TotalIsInt
<1>7. si \in Int /\ sj \in Int /\ ti \in Int /\ tj \in Int
  BY <1>0
<1>8. Total(t) = (Total(s) + (ti - si)) + (tj - sj)
  BY <1>2, <1>4, <1>5
<1> HIDE DEF si, sj, ti, tj
<1>9. \A x \in Int : (x + (ti - si)) + (tj - sj) = x + ((ti + tj) - (si + sj))
  BY <1>7
<1>10. Total(t) = Total(s) + ((ti + tj) - (si + sj))
  BY <1>6, <1>8, <1>9
<1> QED
  BY <1>10 DEF si, sj, ti, tj

(* The same, where the two make the same sum.                               *)
Swapped(s, t, i, j) == Exchanged(s, t, i, j) /\ t[i] + t[j] = s[i] + s[j]

(* Then the sequences have the same sum.                                    *)
LEMMA TotalSwaps ==
  ASSUME NEW s \in Seq(Int), NEW t \in Seq(Int), NEW i, NEW j, Swapped(s, t, i, j)
  PROVE  Total(t) = Total(s)
<1>1. Exchanged(s, t, i, j) /\ t[i] + t[j] = s[i] + s[j]
  BY DEF Swapped
<1>2. Total(t) = Total(s) + ((t[i] + t[j]) - (s[i] + s[j]))
  BY <1>1, TotalExchanges
<1> DEFINE x == s[i] + s[j]
<1>3. x \in Int
  BY <1>1 DEF Exchanged
<1>4. Total(t) = Total(s) + (x - x)
  BY <1>1, <1>2
<1> HIDE DEF x
<1> QED
  BY <1>3, <1>4, TotalIsInt

(* A sum where one part is split into three, of which two come last.        *)
SplitAt(s, t, i) ==
  /\ i \in 1..Len(s) /\ Len(t) = Len(s) + 2
  /\ t[i] + t[Len(s) + 1] + t[Len(s) + 2] = s[i]
  /\ \A k \in 1..Len(s) : k # i => t[k] = s[k]
(* It is the same sum.                                                      *)
LEMMA TotalSplits ==
  ASSUME NEW s \in Seq(Int), NEW t \in Seq(Int), NEW i, SplitAt(s, t, i)
  PROVE  Total(t) = Total(s)
<1> DEFINE n == Len(s)
           u == [k \in 1..n |-> t[k]]
           w == [k \in 1..(n + 1) |-> t[k]]
           x == t[i]
           y == t[n + 1]
           z == t[n + 2]
           si == s[i]
<1>1. /\ n \in Nat /\ i \in 1..n /\ Len(t) = n + 2 /\ x + y + z = si
      /\ \A k \in 1..n : k # i => t[k] = s[k]
  BY DEF SplitAt
<1>2. x \in Int /\ y \in Int /\ z \in Int /\ si \in Int
  BY <1>1
<1>3. \A k \in 1..(n + 2) : t[k] \in Int
  BY <1>1
<1>4. u \in Seq(Int) /\ Len(u) = n /\ u[i] = x /\ \A k \in 1..n : k # i => u[k] = s[k]
  BY <1>1, <1>3
<1>5. /\ w \in Seq(Int) /\ Len(w) = n + 1 /\ w[n + 1] = y /\ \A k \in 1..n : w[k] = u[k]
      /\ \A k \in 1..(n + 1) : t[k] = w[k]
  BY <1>1, <1>3
<1>s. s \in Seq(Int) /\ Len(s) = n
  OBVIOUS
<1> HIDE DEF u, w, x, y, z, si
<1>6. Total(u) = Total(s) + (x - si)
  <2>1. Total(u) = Total(s) + (u[i] - s[i])
    BY <1>1, <1>4, TotalChanges
  <2> QED
    BY <1>4, <2>1 DEF si
<1> HIDE DEF n
<1>7. Total(w) = Total(u) + y
  <2>1. Len(w) = Len(u) + 1 /\ (\A k \in 1..Len(u) : w[k] = u[k]) /\ w[Len(u) + 1] = y
    BY <1>4, <1>5
  <2> QED
    BY <1>2, <1>4, <1>5, <2>1, TotalAppends
<1>8. Total(t) = Total(w) + z
  <2>1. Len(t) = Len(w) + 1 /\ (\A k \in 1..Len(w) : t[k] = w[k]) /\ t[Len(w) + 1] = z
    <3>1. Len(w) + 1 = n + 2
      BY <1>1, <1>5
    <3> QED
      BY <1>1, <1>5, <3>1 DEF z
  <2> QED
    BY <1>2, <1>5, <2>1, TotalAppends
<1>9. Total(s) \in Int
  BY TotalIsInt
<1>10. \A v \in Int : ((v + (x - si)) + y) + z = v
  BY <1>1, <1>2
<1> QED
  BY <1>6, <1>7, <1>8, <1>9, <1>10

------------------------------------------------------------------------------
(* Lists end to end.                                                        *)

(* Two lists end to end: the first, and then the second.                    *)
LEMMA Spliced ==
  ASSUME NEW D, NEW x \in Seq(D), NEW y \in Seq(D)
  PROVE  /\ x \o y \in Seq(D) /\ Len(x \o y) = Len(x) + Len(y)
         /\ \A k \in 1..Len(x) : (x \o y)[k] = x[k]
         /\ \A k \in 1..Len(y) : (x \o y)[Len(x) + k] = y[k]
<1>1. x \o y \in Seq(D) /\ Len(x \o y) = Len(x) + Len(y)
  OBVIOUS
<1>2. \A k \in 1..Len(x) : (x \o y)[k] = x[k]
  OBVIOUS
<1>3. \A k \in 1..Len(y) : (x \o y)[Len(x) + k] = y[k]
  OBVIOUS
<1> QED
  BY <1>1, <1>2, <1>3

(* Two lists end to end begin as the first begins, and end as the second.   *)
LEMMA EndToEnd ==
  ASSUME NEW D, NEW u \in Seq(D), Len(u) >= 1, NEW v \in Seq(D), Len(v) >= 1
  PROVE  /\ u \o v \in Seq(D) /\ Len(u \o v) = Len(u) + Len(v)
         /\ (u \o v)[1] = u[1] /\ (u \o v)[Len(u) + Len(v)] = v[Len(v)]
<1>1. u \o v \in Seq(D) /\ Len(u \o v) = Len(u) + Len(v)
  OBVIOUS
<1>2. (u \o v)[1] = u[1]
  OBVIOUS
<1>3. (u \o v)[Len(u) + Len(v)] = v[Len(v)]
  OBVIOUS
<1> QED
  BY <1>1, <1>2, <1>3
==============================================================================
