---------------------------- MODULE PowerProofs ----------------------------
(***************************************************************************)
(* Induction over the naturals and over recursive functions, and the laws  *)
(* of Pow. A function that is defined by recursion is a CHOOSE: each lemma *)
(* about one shows first that a function with the recursive equation       *)
(* exists, then what every such function returns.                          *)
(***************************************************************************)
EXTENDS Powers, Integers, TLAPS, WellFoundedInduction

\* A set of naturals that is not empty has a least member.
LEMMA LeastNat == ASSUME NEW T \in SUBSET Nat, T # {} PROVE \E x \in T : \A y \in T : x <= y
<1> DEFINE R == OpToRel(<, Nat)
<1>1. IsWellFoundedOn(R, Nat)
  BY NatLessThanWellFounded, Zenon
<1>2. PICK x \in T : \A y \in T : ~(<<y, x>> \in R)
  <2> HIDE DEF R
  <2> QED BY <1>1, WFMin
<1>3. \A y \in T : ~(y < x)
  BY <1>2 DEF OpToRel
<1> QED BY <1>3

\* Induction over the naturals, with a set for the property.
LEMMA Induction ==
  ASSUME NEW S, 0 \in S, \A n \in Nat : n \in S => n + 1 \in S
  PROVE  Nat \subseteq S
<1> SUFFICES ASSUME Nat \ S # {} PROVE FALSE
  OBVIOUS
<1>1. PICK n \in Nat \ S : \A m \in Nat \ S : n <= m
  BY LeastNat
<1>2. n # 0 /\ n - 1 \in Nat /\ n - 1 \notin Nat \ S
  BY <1>1
<1> QED BY <1>1, <1>2

\* f is the recursion from a that follows step.
Follows(f, n, D, a, step) ==
  f \in [0 .. n -> D] /\ f[0] = a /\ \A k \in 1 .. n : f[k] = step[k][f[k - 1]]

\* There is one for every step function.
LEMMA FollowsExists ==
  ASSUME NEW N \in Nat, NEW D, NEW a \in D, NEW step \in [1 .. N -> [D -> D]]
  PROVE  \E f : Follows(f, N, D, a, step)
<1> DEFINE S == {n \in Nat : n <= N => \E f : Follows(f, n, D, a, step)}
<1>1. 0 \in S
  <2>1. Follows([k \in 0 .. 0 |-> a], 0, D, a, step)
    BY DEF Follows
  <2> QED BY <2>1
<1>2. ASSUME NEW n \in Nat, n \in S PROVE n + 1 \in S
  <2> SUFFICES ASSUME n + 1 <= N PROVE \E f : Follows(f, n + 1, D, a, step)
    OBVIOUS
  <2>1. PICK f : Follows(f, n, D, a, step)
    BY <1>2
  <2>2. f \in [0 .. n -> D] /\ f[0] = a /\ \A k \in 1 .. n : f[k] = step[k][f[k - 1]]
    BY <2>1 DEF Follows
  <2> DEFINE x == step[n + 1][f[n]]
             g == [k \in 0 .. n + 1 |-> IF k <= n THEN f[k] ELSE x]
  <2>3. x \in D
    <3>1. n + 1 \in 1 .. N /\ n \in 0 .. n
      OBVIOUS
    <3>2. step[n + 1] \in [D -> D] /\ f[n] \in D
      BY <2>2, <3>1
    <3> QED BY <3>2
  <2>4. g \in [0 .. n + 1 -> D] /\ g[0] = a
    <3> HIDE DEF x
    <3> QED BY <2>2, <2>3
  <2>5. ASSUME NEW k \in 1 .. n + 1 PROVE g[k] = step[k][g[k - 1]]
    <3>1. CASE k = n + 1
      <4>1. k - 1 = n /\ ~(k <= n) /\ n <= n /\ n \in 0 .. n + 1 /\ k \in 0 .. n + 1
        BY <3>1
      <4> QED BY <3>1, <4>1
    <3>2. CASE k \in 1 .. n
      <4>1. g[k] = f[k] /\ g[k - 1] = f[k - 1]
        <5> HIDE DEF x
        <5> QED BY <3>2
      <4> QED BY <2>2, <3>2, <4>1
    <3> QED BY <3>1, <3>2
  <2> HIDE DEF g
  <2> QED BY <2>4, <2>5 DEF Follows
<1>3. Nat \subseteq S
  <2> HIDE DEF S
  <2> QED BY <1>1, <1>2, Induction
<1> QED BY <1>3

\* f is the recursion from a that multiplies by m and adds c[k] at step k.
Horner(f, n, a, m, c) ==
  f \in [0 .. n -> Int] /\ f[0] = a /\ \A k \in 1 .. n : f[k] = m * f[k - 1] + c[k]

\* There is one for all constants.
LEMMA HornerExists ==
  ASSUME NEW N \in Nat, NEW a \in Int, NEW m \in Int, NEW c \in [1 .. N -> Int]
  PROVE  \E f : Horner(f, N, a, m, c)
<1> DEFINE step == [k \in 1 .. N |-> [v \in Int |-> m * v + c[k]]]
<1>1. step \in [1 .. N -> [Int -> Int]]
  <2>1. \A k \in 1 .. N : \A v \in Int : m * v + c[k] \in Int
    OBVIOUS
  <2> QED BY <2>1
<1>2. \A k \in 1 .. N : \A v \in Int : step[k][v] = m * v + c[k]
  OBVIOUS
<1> HIDE DEF step
<1>3. PICK f : Follows(f, N, Int, a, step)
  BY <1>1, FollowsExists
<1>4. f \in [0 .. N -> Int] /\ f[0] = a /\ \A k \in 1 .. N : f[k] = step[k][f[k - 1]]
  BY <1>3 DEF Follows
<1>5. ASSUME NEW k \in 1 .. N PROVE f[k] = m * f[k - 1] + c[k]
  <2>1. f[k - 1] \in Int
    BY <1>4
  <2> QED BY <1>2, <1>4, <2>1
<1> QED BY <1>4, <1>5 DEF Horner

\* Two such recursions that agree on the constants agree as far as both go.
LEMMA HornerSame ==
  ASSUME NEW M \in Nat, NEW N \in Nat, NEW a \in Int, NEW m \in Int, NEW c, NEW d, NEW f, NEW g,
         Horner(f, M, a, m, c), Horner(g, N, a, m, d), M <= N, \A k \in 1 .. M : c[k] = d[k]
  PROVE  \A k \in 0 .. M : f[k] = g[k]
<1> DEFINE S == {k \in Nat : k <= M => f[k] = g[k]}
<1>1. 0 \in S
  BY DEF Horner
<1>2. ASSUME NEW k \in Nat, k \in S PROVE k + 1 \in S
  <2> SUFFICES ASSUME k + 1 <= M PROVE f[k + 1] = g[k + 1]
    OBVIOUS
  <2>1. k + 1 \in 1 .. M /\ k + 1 \in 1 .. N /\ (k + 1) - 1 = k
    OBVIOUS
  <2>2. f[k + 1] = m * f[k] + c[k + 1] /\ g[k + 1] = m * g[k] + d[k + 1]
    BY <2>1 DEF Horner
  <2> QED BY <1>2, <2>1, <2>2
<1>3. Nat \subseteq S
  <2> HIDE DEF S
  <2> QED BY <1>1, <1>2, Induction
<1> QED BY <1>3

\* Pow is such a recursion.
LEMMA PowIs ==
  ASSUME NEW b \in Nat, NEW n \in Nat
  PROVE  \E f : Horner(f, n, 1, b, [k \in 1 .. n |-> 0]) /\ Pow(b, n) = f[n]
<1> DEFINE Is(f) == f = [k \in 0 .. n |-> IF k = 0 THEN 1 ELSE b * f[k - 1]]
           c == [k \in 1 .. n |-> 0]
           p == CHOOSE f : Is(f)
<1>0. c \in [1 .. n -> Int] /\ \A k \in 1 .. n : c[k] = 0
  OBVIOUS
<1> HIDE DEF c
<1>1. PICK f : Horner(f, n, 1, b, c)
  BY <1>0, HornerExists
<1>2. f \in [0 .. n -> Int] /\ f[0] = 1 /\ \A k \in 1 .. n : f[k] = b * f[k - 1]
  <2>1. f \in [0 .. n -> Int] /\ f[0] = 1 /\ \A k \in 1 .. n : f[k] = b * f[k - 1] + c[k]
    BY <1>1 DEF Horner
  <2>2. ASSUME NEW k \in 1 .. n PROVE f[k] = b * f[k - 1]
    <3>1. f[k - 1] \in Int /\ f[k] = b * f[k - 1] + c[k] /\ c[k] = 0
      BY <1>0, <2>1
    <3> QED BY <3>1
  <2> QED BY <2>1, <2>2
<1>3. Is(f)
  <2>1. \A k \in 0 .. n : f[k] = IF k = 0 THEN 1 ELSE b * f[k - 1]
    BY <1>2
  <2>2. f = [k \in 0 .. n |-> f[k]]
    BY <1>2
  <2> QED BY <2>1, <2>2
<1>4. Is(p)
  <2> HIDE DEF Is
  <2> QED BY <1>3
<1>5. Pow(b, n) = p[n]
  BY DEF Pow
<1> HIDE DEF p
<1>6. p = f
  <2> DEFINE S == {k \in Nat : k <= n => p[k] = f[k]}
  <2>1. 0 \in S
    BY <1>2, <1>4
  <2>2. ASSUME NEW k \in Nat, k \in S PROVE k + 1 \in S
    <3> SUFFICES ASSUME k + 1 <= n PROVE p[k + 1] = f[k + 1]
      OBVIOUS
    <3>1. k + 1 \in 1 .. n /\ k + 1 \in 0 .. n /\ (k + 1) - 1 = k /\ k + 1 # 0
      OBVIOUS
    <3>2. p[k + 1] = b * p[k] /\ f[k + 1] = b * f[k]
      BY <1>2, <1>4, <3>1
    <3> QED BY <2>2, <3>1, <3>2
  <2>3. Nat \subseteq S
    <3> HIDE DEF S
    <3> QED BY <2>1, <2>2, Induction
  <2>4. \A k \in 0 .. n : p[k] = f[k]
    BY <2>3
  <2>5. p = [k \in 0 .. n |-> p[k]] /\ f = [k \in 0 .. n |-> f[k]]
    BY <1>2, <1>4
  <2> QED BY <2>4, <2>5
<1> QED BY <1>1, <1>5, <1>6 DEF c

\* The laws of powers: the next power,
LEMMA PowNext ==
  ASSUME NEW b \in Nat
  PROVE  Pow(b, 0) = 1 /\ \A n \in Nat : Pow(b, n) \in Int /\ Pow(b, n + 1) = b * Pow(b, n)
<1>1. Pow(b, 0) = 1
  BY PowIs DEF Horner
<1>2. ASSUME NEW n \in Nat PROVE Pow(b, n) \in Int /\ Pow(b, n + 1) = b * Pow(b, n)
  <2> DEFINE c == [k \in 1 .. n |-> 0]
             d == [k \in 1 .. n + 1 |-> 0]
  <2>1. PICK f : Horner(f, n, 1, b, c) /\ Pow(b, n) = f[n]
    BY PowIs
  <2>2. PICK g : Horner(g, n + 1, 1, b, d) /\ Pow(b, n + 1) = g[n + 1]
    BY PowIs
  <2>3. \A k \in 1 .. n : c[k] = d[k]
    OBVIOUS
  <2>4. d[n + 1] = 0
    OBVIOUS
  <2> HIDE DEF c, d
  <2>5. \A k \in 0 .. n : f[k] = g[k]
    BY <2>1, <2>2, <2>3, HornerSame
  <2>6. g[n + 1] = b * g[n] + d[n + 1] /\ g[n] \in Int
    <3>1. n + 1 \in 1 .. n + 1 /\ (n + 1) - 1 = n /\ n \in 0 .. n + 1
      OBVIOUS
    <3> QED BY <2>2, <3>1 DEF Horner
  <2>7. f[n] = g[n]
    BY <2>5
  <2> QED BY <2>1, <2>2, <2>4, <2>6, <2>7
<1> QED BY <1>1, <1>2

\* no power of a positive base is zero,
LEMMA PowPositive ==
  ASSUME NEW b \in Nat \ {0}
  PROVE  \A n \in Nat : Pow(b, n) \in Nat \ {0}
<1> DEFINE S == {n \in Nat : Pow(b, n) \in Nat \ {0}}
<1>1. 0 \in S
  BY PowNext
<1>2. ASSUME NEW n \in Nat, n \in S PROVE n + 1 \in S
  <2>1. Pow(b, n + 1) = b * Pow(b, n) /\ Pow(b, n) \in Nat \ {0}
    BY <1>2, PowNext
  <2>2. \A x, y \in Nat \ {0} : x * y \in Nat \ {0}
    OBVIOUS
  <2> QED BY <2>1, <2>2
<1>3. Nat \subseteq S
  <2> HIDE DEF S
  <2> QED BY <1>1, <1>2, Induction
<1> QED BY <1>3

\* exponents add up,
LEMMA PowSum ==
  ASSUME NEW b \in Nat \ {0}, NEW m \in Nat
  PROVE  \A n \in Nat : Pow(b, m + n) = Pow(b, m) * Pow(b, n)
<1> DEFINE S == {n \in Nat : Pow(b, m + n) = Pow(b, m) * Pow(b, n)}
<1>0. Pow(b, m) \in Nat
  BY PowPositive
<1>1. 0 \in S
  BY <1>0, PowNext
<1>2. ASSUME NEW n \in Nat, n \in S PROVE n + 1 \in S
  <2>1. Pow(b, n + 1) = b * Pow(b, n) /\ Pow(b, (m + n) + 1) = b * Pow(b, m + n)
    BY PowNext
  <2>2. Pow(b, n) \in Nat /\ m + (n + 1) = (m + n) + 1
    BY PowPositive
  <2>3. \A x, y, z \in Nat : x * (y * z) = y * (x * z)
    OBVIOUS
  <2>4. b * (Pow(b, m) * Pow(b, n)) = Pow(b, m) * (b * Pow(b, n))
    BY <1>0, <2>2, <2>3
  <2> QED BY <1>2, <2>1, <2>2, <2>4
<1>3. Nat \subseteq S
  <2> HIDE DEF S
  <2> QED BY <1>1, <1>2, Induction
<1> QED BY <1>3

\* and a higher power is not smaller.
LEMMA PowGrows ==
  ASSUME NEW b \in Nat \ {0}, NEW m \in Nat, NEW n \in Nat, m <= n
  PROVE  Pow(b, m) <= Pow(b, n)
<1> DEFINE d == n - m
<1>1. d \in Nat /\ m + d = n
  OBVIOUS
<1> HIDE DEF d
<1>2. Pow(b, n) = Pow(b, m) * Pow(b, d) /\ Pow(b, m) \in Nat /\ Pow(b, d) \in Nat \ {0}
  BY <1>1, PowSum, PowPositive
<1>3. \A x \in Nat, y \in Nat \ {0} : x <= x * y
  OBVIOUS
<1> QED BY <1>2, <1>3
=============================================================================
