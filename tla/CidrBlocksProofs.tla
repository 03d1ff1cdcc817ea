-------------------------- MODULE CidrBlocksProofs --------------------------
(***************************************************************************)
(* The address arithmetic of a CidrSet is right for addresses of any       *)
(* length, those of IPv4 and IPv6 among them: the blocks cut the cluster   *)
(* CIDR into pieces, and a CIDR is found again in the blocks it overlaps.  *)
(*                                                                         *)
(* The functions of Bits are recursive.  That there are functions with     *)
(* such equations is proved first, by induction over the library's         *)
(* well-founded relation on Nat; what they compute then follows.           *)
(***************************************************************************)
EXTENDS CidrBlocks, WellFoundedInduction, TLAPS

-----------------------------------------------------------------------------
\* Induction, and the existence of recursive functions

\* Every set of natural numbers has a least one.
LEMMA LeastNatural ==
  ASSUME NEW S \in SUBSET Nat, S # {}
  PROVE  \E x \in S : \A y \in S : x <= y
<1>. DEFINE Less == OpToRel(<, Nat)
<1>1. \A x, y \in Nat : x < y => <<x, y>> \in Less
  BY Zenon DEF OpToRel
<1>2. IsWellFoundedOn(Less, Nat)
  BY NatLessThanWellFounded
<1>. HIDE DEF Less
<1>3. PICK x \in S : \A y \in S : ~(<<y, x>> \in Less)
  BY <1>2, WFMin
<1>4. \A y \in S : ~(y < x)
  BY Zenon, <1>1, <1>3
<1>. QED
  BY <1>4

\* Induction, with a set for the property, which the provers can instantiate.
LEMMA StrongInduction ==
  ASSUME NEW S, \A n \in Nat : (\A m \in 0 .. n - 1 : m \in S) => n \in S
  PROVE  \A n \in Nat : n \in S
<1>. DEFINE Bad == {n \in Nat : n \notin S}
<1>1. ASSUME NEW n \in Bad, \A m \in Bad : n <= m PROVE FALSE
  <2>1. ASSUME NEW m \in 0 .. n - 1 PROVE m \in S
    <3>1. n \in Nat /\ m \in Nat /\ ~(n <= m)
      OBVIOUS
    <3>. QED
      BY <1>1, <3>1
  <2>. QED
    BY <2>1
<1>2. Bad \in SUBSET Nat
  OBVIOUS
<1>. HIDE DEF Bad
<1>3. Bad = {}
  BY <1>1, <1>2, LeastNatural
<1>. QED
  BY <1>3 DEF Bad

\* Induction from one number to the next.
LEMMA Induction ==
  ASSUME NEW S, 0 \in S, \A n \in Nat : n \in S => n + 1 \in S
  PROVE  \A n \in Nat : n \in S
<1>1. ASSUME NEW n \in Nat, \A m \in 0 .. n - 1 : m \in S
      PROVE  n \in S
  <2>1. CASE n = 0
    BY <2>1
  <2>2. CASE n # 0
    <3>1. n - 1 \in Nat /\ n - 1 \in 0 .. n - 1 /\ n = (n - 1) + 1
      BY <2>2
    <3>. QED
      BY <1>1, <3>1
  <2>. QED
    BY <2>1, <2>2
<1>. QED
  BY <1>1, StrongInduction

\* The argument of the recursive call is smaller.
Descends(h) == h \in [Nat -> Nat] /\ \A n \in Nat \ {0} : h[n] < n

\* f is computed from its value at that argument.
Follows(f, a, h, G) ==
  \A n \in Nat : f[n] = IF n = 0 THEN a ELSE G[n][f[h[n]]]

\* So there is a function that its recursive equation describes: it is put
\* together from the functions that fulfil the equation up to some number,
\* which agree where they overlap.
LEMMA Recursion ==
  ASSUME NEW S, NEW a \in S, NEW h, Descends(h), NEW G \in [Nat -> [S -> S]]
  PROVE  \E f \in [Nat -> S] : Follows(f, a, h, G)
<1>. USE DEF Descends, Follows
<1>. DEFINE Upto(n) == {f \in [0 .. n -> S] :
                          \A k \in 0 .. n : f[k] = IF k = 0 THEN a ELSE G[k][f[h[k]]]}
            F == [n \in Nat |-> (CHOOSE f \in Upto(n) : TRUE)[n]]
<1>1. ASSUME NEW m \in Nat, NEW n \in Nat, NEW f \in Upto(m), NEW g \in Upto(n),
             NEW j \in 0 .. m, j \in 0 .. n
      PROVE  f[j] = g[j]
  <2>. DEFINE Bad == {k \in 0 .. m : k \in 0 .. n /\ f[k] # g[k]}
  <2>1. SUFFICES ASSUME Bad # {} PROVE FALSE
    BY <1>1
  <2>2. Bad \in SUBSET Nat
    OBVIOUS
  <2>. HIDE DEF Bad
  <2>3. PICK k \in Bad : \A i \in Bad : k <= i
    BY <2>1, <2>2, LeastNatural
  <2>. USE DEF Bad
  <2>4. f[0] = a /\ g[0] = a
    OBVIOUS
  <2>5. k \in Nat /\ k # 0 /\ h[k] \in Nat /\ h[k] < k
    <3>1. k \in 0 .. m /\ k \in 0 .. n /\ f[k] # g[k]
      BY <2>3
    <3>2. k \in Nat /\ k # 0
      BY <3>1, <2>4
    <3>. QED
      BY <3>2
  <2>6. h[k] \in 0 .. m /\ h[k] \in 0 .. n /\ h[k] \notin Bad
    <3>1. k \in 0 .. m /\ k \in 0 .. n
      BY <2>3
    <3>2. h[k] \in 0 .. m /\ h[k] \in 0 .. n
      BY ONLY <3>1, <2>5, m \in Nat, n \in Nat
    <3>. HIDE DEF Bad
    <3>3. ~(k <= h[k])
      BY ONLY <2>5
    <3>4. h[k] \notin Bad
      BY ONLY <3>3, <2>3
    <3>. QED
      BY ONLY <3>2, <3>4
  <2>7. f[h[k]] = g[h[k]]
    BY <2>6
  <2>8. f[k] = G[k][f[h[k]]] /\ g[k] = G[k][g[h[k]]]
    BY <2>3, <2>5
  <2>. QED
    BY <2>3, <2>7, <2>8
<1>2. ASSUME NEW n \in Nat PROVE Upto(n) # {}
  <2>. DEFINE Bad == {k \in Nat : Upto(k) = {}}
  <2>1. SUFFICES ASSUME Bad # {} PROVE FALSE
    OBVIOUS
  <2>2. PICK k \in Bad : \A i \in Bad : k <= i
    BY <2>1, LeastNatural
  <2>3. [i \in 0 .. 0 |-> a] \in Upto(0)
    OBVIOUS
  <2>4. k # 0 /\ k \in Nat
    BY <2>2, <2>3
  <2>5. k - 1 \in Nat /\ ~(k <= k - 1)
    BY <2>4
  <2>6. k # 0 /\ k - 1 \in Nat /\ k - 1 \notin Bad
    BY <2>4, <2>5, <2>2
  <2>7. PICK f \in Upto(k - 1) : TRUE
    BY <2>6
  <2>. DEFINE g == [i \in 0 .. k |-> IF i = k THEN G[k][f[h[k]]] ELSE f[i]]
  <2>8. h[k] \in 0 .. k - 1
    BY <2>2, <2>6
  <2>9. g \in [0 .. k -> S]
    BY <2>7, <2>8, <2>2
  <2>10. ASSUME NEW i \in 0 .. k PROVE g[i] = IF i = 0 THEN a ELSE G[i][g[h[i]]]
    <3>1. CASE i = k
      BY <3>1, <2>8, <2>6
    <3>2. CASE i # k
      <4>1. i \in 0 .. k - 1 /\ g[i] = f[i]
        BY <3>2, <2>2
      <4>2. i # 0 => h[i] \in 0 .. k - 1 /\ g[h[i]] = f[h[i]]
        <5>1. ASSUME i # 0 PROVE h[i] \in Nat /\ h[i] < i
          BY <4>1, <5>1
        <5>2. ASSUME i # 0 PROVE h[i] \in 0 .. k - 1
          BY ONLY <4>1, <5>1, <5>2, <2>6, k \in Nat
        <5>. QED
          BY <5>2
      <4>. QED
        BY <4>1, <4>2, <2>7
    <3>. QED
      BY <3>1, <3>2
  <2>11. g \in Upto(k)
    BY <2>9, <2>10
  <2>. QED
    BY <2>11, <2>2
<1>3. \A n \in Nat : \A f \in Upto(n) :
         /\ f[n] \in S
         /\ f[n] = IF n = 0 THEN a ELSE G[n][f[h[n]]]
  OBVIOUS
<1>. HIDE DEF Upto
<1>4. ASSUME NEW n \in Nat
      PROVE  F[n] \in S /\ F[n] = IF n = 0 THEN a ELSE G[n][F[h[n]]]
  <2>1. PICK f \in Upto(n) : f = CHOOSE g \in Upto(n) : TRUE
    BY <1>2
  <2>2. F[n] = f[n] /\ f[n] \in S
    BY <2>1, <1>3
  <2>3. CASE n = 0
    BY <1>3, <2>2, <2>3
  <2>4. CASE n # 0
    <3>1. h[n] \in Nat /\ h[n] \in 0 .. n
      BY <2>4
    <3>2. PICK g \in Upto(h[n]) : g = CHOOSE e \in Upto(h[n]) : TRUE
      BY <1>2, <3>1
    <3>3. F[h[n]] = g[h[n]]
      BY <3>1, <3>2
    <3>4. f[h[n]] = g[h[n]]
      BY <1>1, <3>1, h[n] \in 0 .. h[n]
    <3>. QED
      BY <1>3, <2>2, <2>4, <3>3, <3>4
  <2>. QED
    BY <2>2, <2>3, <2>4
<1>5. F \in [Nat -> S]
  BY <1>4
<1>. QED
  BY <1>4, <1>5

-----------------------------------------------------------------------------
\* Powers of two, quotients and remainders

\* Pow2 is what its definition says.
LEMMA Pow2Recursive ==
  /\ Pow2 \in [Nat -> Nat]
  /\ \A n \in Nat : Pow2[n] = IF n = 0 THEN 1 ELSE 2 * Pow2[n - 1]
<1>. DEFINE h == [n \in Nat |-> IF n = 0 THEN 0 ELSE n - 1]
            G == [n \in Nat |-> [x \in Nat |-> 2 * x]]
            E(f) == [n \in Nat |-> IF n = 0 THEN 1 ELSE 2 * f[n - 1]]
<1>1. Descends(h) /\ G \in [Nat -> [Nat -> Nat]]
  BY DEF Descends
<1>. HIDE DEF h, G
<1>2. PICK f \in [Nat -> Nat] : Follows(f, 1, h, G)
  BY <1>1, Recursion
<1>3. \A n \in Nat : f[n] = IF n = 0 THEN 1 ELSE 2 * f[n - 1]
  <2>1. ASSUME NEW n \in Nat, n # 0
        PROVE  h[n] = n - 1 /\ G[n] = [x \in Nat |-> 2 * x] /\ f[n - 1] \in Nat
    BY <2>1, <1>2 DEF h, G
  <2>2. ASSUME NEW n \in Nat PROVE f[n] = IF n = 0 THEN 1 ELSE 2 * f[n - 1]
    <3>1. f[n] = IF n = 0 THEN 1 ELSE G[n][f[h[n]]]
      BY <1>2 DEF Follows
    <3>. QED
      BY <2>1, <3>1
  <2>. QED
    BY <2>2
<1>4. f = E(f)
  BY <1>2, <1>3
<1>5. Pow2 = CHOOSE g : g = E(g)
  BY DEF Pow2
<1>6. Pow2 = E(Pow2)
  BY <1>4, <1>5
<1>7. \A n \in Nat : Pow2[n] = IF n = 0 THEN 1 ELSE 2 * Pow2[n - 1]
  BY <1>6
<1>. DEFINE Bad == {n \in Nat : Pow2[n] \notin Nat}
<1>8. ASSUME NEW n \in Bad, \A m \in Bad : n <= m PROVE FALSE
  <2>1. n \in Nat /\ n # 0
    BY <1>7, <1>8
  <2>2. n - 1 \in Nat /\ ~(n <= n - 1)
    BY <2>1
  <2>3. Pow2[n - 1] \in Nat
    BY <2>2, <1>8
  <2>. QED
    BY <1>7, <1>8, <2>1, <2>3
<1>9. Bad = {}
  BY <1>8, LeastNatural
<1>10. Pow2 = [n \in Nat |-> Pow2[n]]
  BY <1>6
<1>. QED
  BY <1>7, <1>9, <1>10

\* Powers of two are positive and double at each step.
LEMMA Pow2Facts ==
  /\ Pow2[0] = 1
  /\ \A n \in Nat : Pow2[n] \in Nat \ {0} /\ Pow2[n + 1] = 2 * Pow2[n]
<1>1. \A n \in Nat : Pow2[n + 1] = 2 * Pow2[n]
  BY Pow2Recursive
<1>. DEFINE S == {n \in Nat : Pow2[n] # 0}
<1>2. 0 \in S /\ \A n \in Nat : n \in S => n + 1 \in S
  BY <1>1, Pow2Recursive
<1>. HIDE DEF S
<1>3. \A n \in Nat : n \in S
  BY <1>2, Induction
<1>. QED
  BY <1>1, <1>3, Pow2Recursive DEF S

\* The power of a sum is the product of the powers.
LEMMA Pow2Sum ==
  \A m, n \in Nat : Pow2[m + n] = Pow2[m] * Pow2[n]
<1>. SUFFICES ASSUME NEW m \in Nat
              PROVE  \A n \in Nat : Pow2[m + n] = Pow2[m] * Pow2[n]
  OBVIOUS
<1>. DEFINE S == {n \in Nat : Pow2[m + n] = Pow2[m] * Pow2[n]}
<1>1. 0 \in S
  BY Pow2Facts
<1>2. ASSUME NEW n \in Nat, n \in S PROVE n + 1 \in S
  <2>1. Pow2[m + (n + 1)] = 2 * Pow2[m + n]
    BY Pow2Facts, m + (n + 1) = (m + n) + 1, m + n \in Nat
  <2>2. Pow2[m] \in Nat /\ Pow2[n] \in Nat /\ Pow2[n + 1] = 2 * Pow2[n]
    BY Pow2Facts
  <2>3. 2 * (Pow2[m] * Pow2[n]) = Pow2[m] * (2 * Pow2[n])
    BY <2>2
  <2>. QED
    BY <1>2, <2>1, <2>2, <2>3
<1>. HIDE DEF S
<1>3. \A n \in Nat : n \in S
  BY <1>1, <1>2, Induction
<1>. QED
  BY <1>3 DEF S

\* Powers of two grow with the exponent.
LEMMA Pow2Monotone ==
  ASSUME NEW m \in Nat, NEW n \in Nat, m <= n
  PROVE  Pow2[m] <= Pow2[n]
<1>1. n - m \in Nat /\ n = m + (n - m)
  OBVIOUS
<1>2. Pow2[n] = Pow2[m] * Pow2[n - m]
  BY <1>1, Pow2Sum
<1>3. Pow2[m] \in Nat \ {0} /\ Pow2[n - m] \in Nat \ {0}
  BY <1>1, Pow2Facts
<1>4. \A x, y \in Nat \ {0} : x <= x * y
  OBVIOUS
<1>. QED
  BY <1>2, <1>3, <1>4

\* A number is below its power of two.
LEMMA BelowPow2 == \A n \in Nat : n < Pow2[n]
<1>. DEFINE S == {n \in Nat : n < Pow2[n]}
<1>1. 0 \in S /\ \A n \in Nat : n \in S => n + 1 \in S
  BY Pow2Facts
<1>. HIDE DEF S
<1>2. \A n \in Nat : n \in S
  BY <1>1, Induction
<1>. QED
  BY <1>2 DEF S

\* A number of m bits, shifted by n, has m + n bits, with room for n more.
LEMMA Scaled ==
  ASSUME NEW m \in Nat, NEW n \in Nat, NEW i \in 0 .. Pow2[m] - 1
  PROVE  /\ i * Pow2[n] \in Nat
         /\ i * Pow2[n] + Pow2[n] <= Pow2[m + n]
<1>. DEFINE M == Pow2[m]
            N == Pow2[n]
<1>1. M \in Nat \ {0} /\ N \in Nat \ {0} /\ Pow2[m + n] = M * N
  BY Pow2Facts, Pow2Sum
<1>2. i \in Nat /\ i + 1 <= M
  BY <1>1
<1>. HIDE DEF M, N
<1>3. i * N + N = (i + 1) * N
  BY <1>1, <1>2
<1>4. (i + 1) * N <= M * N
  BY <1>1, <1>2
<1>. QED
  BY <1>1, <1>2, <1>3, <1>4 DEF M, N

\* Quotient and remainder.
LEMMA Division ==
  ASSUME NEW x \in Nat, NEW n \in Nat \ {0}
  PROVE  /\ x \div n \in Nat /\ x % n \in 0 .. n - 1
         /\ x = (x \div n) * n + (x % n)
OBVIOUS

\* A number below the divisor is its own remainder.
LEMMA ModBelow ==
  ASSUME NEW n \in Nat \ {0}, NEW x \in 0 .. n - 1
  PROVE  x % n = x /\ x \div n = 0
OBVIOUS

\* A quotient is bounded by multiples of the divisor.
LEMMA QuotientBounds ==
  ASSUME NEW x \in Nat, NEW n \in Nat \ {0}, NEW i \in Nat
  PROVE  /\ i <= x \div n <=> i * n <= x
         /\ x \div n <= i <=> x < i * n + n
<1>. DEFINE q == x \div n
            r == x % n
<1>1. q \in Nat /\ r \in 0 .. n - 1 /\ x = q * n + r
  BY Division
<1>. HIDE DEF q, r
<1>2. \A j, k \in Nat : j <= k => j * n <= k * n
  OBVIOUS
<1>3. q + 1 \in Nat /\ i + 1 \in Nat /\ (q + 1) * n = q * n + n /\ (i + 1) * n = i * n + n
  BY <1>1
<1>4. q * n \in Nat /\ i * n \in Nat
  BY <1>1
<1>5. i <= q => i * n <= x
  BY <1>1, <1>2, <1>4
<1>6. ASSUME i * n <= x PROVE i <= q
  <2>1. ~(q + 1 <= i)
    BY <1>1, <1>2, <1>3, <1>4, <1>6
  <2>. QED
    BY <2>1, <1>1
<1>7. ASSUME q <= i PROVE x < i * n + n
  BY <1>1, <1>2, <1>3, <1>4, <1>7
<1>8. ASSUME x < i * n + n PROVE q <= i
  <2>1. ~(i + 1 <= q)
    BY <1>1, <1>2, <1>3, <1>4, <1>8
  <2>. QED
    BY <2>1, <1>1
<1>. QED
  BY <1>5, <1>6, <1>7, <1>8 DEF q

-----------------------------------------------------------------------------
\* The bitwise operators

\* The last bits of two numbers are 0 or 1.
LEMMA LastBitsTyped ==
  \A x, y \in Nat : LastBits(x, y) \in {0, 1}
<1>1. ASSUME NEW x \in Nat, NEW y \in Nat PROVE LastBits(x, y) \in {0, 1}
  <2>1. x % 2 \in {0, 1} /\ y % 2 \in {0, 1}
    OBVIOUS
  <2>. QED
    BY <2>1 DEF LastBits
<1>. QED
  BY <1>1

\* BitAnd is what its definition says.
LEMMA BitAndRecursive ==
  /\ BitAnd \in [Nat -> [Nat -> Nat]]
  /\ \A x, y \in Nat :
       BitAnd[x][y] = IF x = 0 THEN 0
                      ELSE 2 * BitAnd[x \div 2][y \div 2] + LastBits(x, y)
<1>. DEFINE Row(x, g) ==
              [y \in Nat |-> IF x = 0 THEN 0 ELSE 2 * g[y \div 2] + LastBits(x, y)]
            h == [x \in Nat |-> x \div 2]
            G == [x \in Nat |-> [g \in [Nat -> Nat] |-> Row(x, g)]]
            E(f) == [x \in Nat |->
                       [y \in Nat |-> IF x = 0 THEN 0
                                      ELSE 2 * f[x \div 2][y \div 2] + LastBits(x, y)]]
            Z == [y \in Nat |-> 0]
<1>1. Descends(h)
  BY DEF Descends
<1>2. ASSUME NEW x \in Nat, NEW g \in [Nat -> Nat] PROVE Row(x, g) \in [Nat -> Nat]
  <2>1. ASSUME NEW y \in Nat
        PROVE  y \div 2 \in Nat /\ LastBits(x, y) \in Nat
    BY LastBitsTyped
  <2>. QED
    BY <2>1
<1>3. G \in [Nat -> [[Nat -> Nat] -> [Nat -> Nat]]] /\ Z \in [Nat -> Nat]
  BY <1>2
<1>. HIDE DEF h, G, Z
<1>4. PICK f \in [Nat -> [Nat -> Nat]] : Follows(f, Z, h, G)
  BY <1>1, <1>3, Recursion
<1>5. ASSUME NEW x \in Nat
      PROVE  f[x] = [y \in Nat |-> IF x = 0 THEN 0
                                   ELSE 2 * f[x \div 2][y \div 2] + LastBits(x, y)]
  <2>1. CASE x = 0
    BY <2>1, <1>4 DEF Follows, Z
  <2>2. CASE x # 0
    <3>1. h[x] = x \div 2 /\ x \div 2 \in Nat
      BY DEF h
    <3>2. f[x \div 2] \in [Nat -> Nat]
      BY <1>4, <3>1
    <3>3. f[x] = G[x][f[x \div 2]]
      BY <2>2, <3>1, <1>4 DEF Follows
    <3>4. G[x][f[x \div 2]] = Row(x, f[x \div 2])
      BY <3>2 DEF G
    <3>. QED
      BY <2>2, <3>3, <3>4
  <2>. QED
    BY <2>1, <2>2
<1>6. f = E(f)
  BY <1>4, <1>5
<1>7. BitAnd = CHOOSE g : g = E(g)
  BY DEF BitAnd
<1>8. BitAnd = E(BitAnd)
  BY <1>6, <1>7
<1>9. \A x, y \in Nat :
        BitAnd[x][y] = IF x = 0 THEN 0
                       ELSE 2 * BitAnd[x \div 2][y \div 2] + LastBits(x, y)
  <2>1. ASSUME NEW x \in Nat
        PROVE  BitAnd[x] = [y \in Nat |-> IF x = 0 THEN 0
                                   ELSE 2 * BitAnd[x \div 2][y \div 2] + LastBits(x, y)]
    BY <1>8
  <2>. QED
    BY <2>1
<1>. DEFINE S == {x \in Nat : \A y \in Nat : BitAnd[x][y] \in Nat}
<1>10. ASSUME NEW x \in Nat, \A m \in 0 .. x - 1 : m \in S PROVE x \in S
  <2>1. ASSUME NEW y \in Nat, x # 0 PROVE BitAnd[x][y] \in Nat
    <3>1. x \div 2 \in 0 .. x - 1 /\ y \div 2 \in Nat
      BY <2>1
    <3>2. BitAnd[x \div 2][y \div 2] \in Nat
      BY <3>1, <1>10
    <3>3. LastBits(x, y) \in Nat
      BY LastBitsTyped
    <3>4. BitAnd[x][y] = 2 * BitAnd[x \div 2][y \div 2] + LastBits(x, y)
      BY <2>1, <1>9
    <3>. QED
      BY <3>2, <3>3, <3>4, \A u, v \in Nat : 2 * u + v \in Nat
  <2>. QED
    BY <2>1, <1>9
<1>11. \A x \in Nat : x \in S
  <2>. HIDE DEF S
  <2>. QED
    BY <1>10, StrongInduction
<1>12. BitAnd = [x \in Nat |-> BitAnd[x]]
  BY <1>8
<1>13. ASSUME NEW x \in Nat PROVE BitAnd[x] \in [Nat -> Nat]
  <2>1. BitAnd[x] = [y \in Nat |-> BitAnd[x][y]]
    BY <1>8
  <2>. QED
    BY <2>1, <1>11
<1>. QED
  BY <1>9, <1>12, <1>13

\* The case x = 0 of the definition is no exception.
LEMMA AndHalves ==
  \A x, y \in Nat :
    BitAnd[x][y] = 2 * BitAnd[x \div 2][y \div 2] + LastBits(x, y)
<1>1. \A y \in Nat : LastBits(0, y) = 0 /\ y \div 2 \in Nat
  BY DEF LastBits
<1>2. \A y \in Nat : BitAnd[0][y] = 0
  BY BitAndRecursive
<1>3. 0 \div 2 = 0
  OBVIOUS
<1>4. ASSUME NEW y \in Nat
      PROVE  BitAnd[0][y] = 2 * BitAnd[0 \div 2][y \div 2] + LastBits(0, y)
  BY <1>1, <1>2, <1>3
<1>. QED
  BY <1>4, BitAndRecursive

\* No bit is in common with 0.
LEMMA AndZero ==
  \A x \in Nat : BitAnd[0][x] = 0 /\ BitAnd[x][0] = 0
<1>. DEFINE S == {x \in Nat : BitAnd[x][0] = 0}
<1>1. ASSUME NEW x \in Nat, \A m \in 0 .. x - 1 : m \in S PROVE x \in S
  <2>1. CASE x = 0
    BY <2>1, BitAndRecursive
  <2>2. CASE x # 0
    <3>1. x \div 2 \in 0 .. x - 1 /\ 0 \div 2 = 0
      BY <2>2
    <3>2. LastBits(x, 0) = 0
      BY DEF LastBits
    <3>3. BitAnd[x][0] = 2 * BitAnd[x \div 2][0] + 0
      BY <3>1, <3>2, AndHalves
    <3>. QED
      BY <3>1, <3>3, <1>1
  <2>. QED
    BY <2>1, <2>2
<1>. HIDE DEF S
<1>2. \A x \in Nat : x \in S
  BY <1>1, StrongInduction
<1>. QED
  BY <1>2, BitAndRecursive DEF S

\* A number has all its bits in common with itself.
LEMMA AndSelf ==
  \A x \in Nat : BitAnd[x][x] = x
<1>. DEFINE S == {x \in Nat : BitAnd[x][x] = x}
<1>1. ASSUME NEW x \in Nat, \A m \in 0 .. x - 1 : m \in S PROVE x \in S
  <2>1. CASE x = 0
    BY <2>1, BitAndRecursive
  <2>2. CASE x # 0
    <3>1. x \div 2 \in 0 .. x - 1 /\ x % 2 \in {0, 1}
      BY <2>2
    <3>2. x = 2 * (x \div 2) + (x % 2)
      OBVIOUS
    <3>3. LastBits(x, x) = x % 2
      BY <3>1 DEF LastBits
    <3>4. BitAnd[x][x] = 2 * BitAnd[x \div 2][x \div 2] + (x % 2)
      BY <3>3, AndHalves
    <3>. QED
      BY <3>1, <3>2, <3>4, <1>1
  <2>. QED
    BY <2>1, <2>2
<1>. HIDE DEF S
<1>2. \A x \in Nat : x \in S
  BY <1>1, StrongInduction
<1>. QED
  BY <1>2 DEF S

\* The bitwise and goes separately through the last n bits and the rest.
LEMMA AndSplit ==
  ASSUME NEW a \in Nat, NEW c \in Nat
  PROVE  \A n \in Nat : \A b, d \in 0 .. Pow2[n] - 1 :
           BitAnd[a * Pow2[n] + b][c * Pow2[n] + d]
             = BitAnd[a][c] * Pow2[n] + BitAnd[b][d]
<1>. DEFINE Split(p, b, d) ==
              BitAnd[a * p + b][c * p + d] = BitAnd[a][c] * p + BitAnd[b][d]
            S == {n \in Nat : \A b, d \in 0 .. Pow2[n] - 1 : Split(Pow2[n], b, d)}
<1>1. BitAnd[a][c] \in Nat
  BY BitAndRecursive
<1>2. 0 \in S
  BY <1>1, Pow2Facts, AndZero
<1>3. ASSUME NEW p \in Nat \ {0}, \A b, d \in 0 .. p - 1 : Split(p, b, d),
             NEW b \in 0 .. 2 * p - 1, NEW d \in 0 .. 2 * p - 1
      PROVE  Split(2 * p, b, d)
  <2>. DEFINE e == b \div 2
              f == d \div 2
              x == a * (2 * p) + b
              y == c * (2 * p) + d
  <2>1. e \in 0 .. p - 1 /\ f \in 0 .. p - 1 /\ b \in Nat /\ d \in Nat
    OBVIOUS
  <2>2. BitAnd[a * p + e][c * p + f] = BitAnd[a][c] * p + BitAnd[e][f]
    BY <1>3, <2>1
  <2>3. x \in Nat /\ x \div 2 = a * p + e /\ x % 2 = b % 2
    BY a * (2 * p) = 2 * (a * p), a * p \in Nat, <2>1
  <2>4. y \in Nat /\ y \div 2 = c * p + f /\ y % 2 = d % 2
    BY c * (2 * p) = 2 * (c * p), c * p \in Nat, <2>1
  <2>. HIDE DEF e, f, x, y
  <2>5. LastBits(x, y) = LastBits(b, d) /\ LastBits(b, d) \in {0, 1}
    BY <2>1, <2>3, <2>4, LastBitsTyped DEF LastBits
  <2>6. BitAnd[x][y] = 2 * BitAnd[a * p + e][c * p + f] + LastBits(b, d)
    BY <2>3, <2>4, <2>5, AndHalves
  <2>7. BitAnd[b][d] = 2 * BitAnd[e][f] + LastBits(b, d)
    BY <2>1, AndHalves DEF e, f
  <2>8. BitAnd[e][f] \in Nat
    BY <2>1, BitAndRecursive
  <2>9. 2 * (BitAnd[a][c] * p + BitAnd[e][f]) = BitAnd[a][c] * (2 * p) + 2 * BitAnd[e][f]
    BY <1>1, <2>8
  <2>10. BitAnd[x][y] = BitAnd[a][c] * (2 * p) + BitAnd[b][d]
    BY <1>1, <2>2, <2>5, <2>6, <2>7, <2>8, <2>9
  <2>. QED
    BY <2>10 DEF x, y
<1>4. ASSUME NEW n \in Nat, n \in S PROVE n + 1 \in S
  <2>1. Pow2[n] \in Nat \ {0} /\ Pow2[n + 1] = 2 * Pow2[n]
    BY Pow2Facts
  <2>2. \A b, d \in 0 .. Pow2[n] - 1 : Split(Pow2[n], b, d)
    BY <1>4
  <2>. HIDE DEF Split
  <2>. QED
    BY <1>3, <2>1, <2>2
<1>. HIDE DEF S
<1>5. \A n \in Nat : n \in S
  BY <1>2, <1>4, Induction
<1>. QED
  BY <1>5 DEF S

\* Bits put where there are only zeros are added: the `|' of the code with an
\* address and a shifted block number, and with an inverted mask.
LEMMA OrBelow ==
  ASSUME NEW n \in Nat, NEW a \in Nat, NEW b \in 0 .. Pow2[n] - 1
  PROVE  BitOr(a * Pow2[n], b) = a * Pow2[n] + b
<1>1. Pow2[n] \in Nat \ {0} /\ 0 \in 0 .. Pow2[n] - 1
  BY Pow2Facts
<1>2. BitAnd[a * Pow2[n] + 0][0 * Pow2[n] + b] = BitAnd[a][0] * Pow2[n] + BitAnd[0][b]
  BY <1>1, AndSplit
<1>3. BitAnd[a][0] = 0 /\ BitAnd[0][b] = 0
  BY AndZero
<1>4. a * Pow2[n] + 0 = a * Pow2[n] /\ 0 * Pow2[n] + b = b /\ a * Pow2[n] \in Nat
  BY <1>1
<1>5. BitAnd[a * Pow2[n]][b] = 0
  BY <1>1, <1>2, <1>3, <1>4
<1>. QED
  BY <1>4, <1>5 DEF BitOr

\* A bitwise or with 0 changes nothing.
LEMMA OrZero ==
  ASSUME NEW x \in Nat
  PROVE  BitOr(0, x) = x /\ BitOr(x, 0) = x
BY AndZero DEF BitOr

\* An exclusive or with the network address leaves the bits behind the mask.
LEMMA XorBelow ==
  ASSUME NEW n \in Nat, NEW a \in Nat, NEW b \in 0 .. Pow2[n] - 1
  PROVE  BitXor(a * Pow2[n], a * Pow2[n] + b) = b
<1>1. Pow2[n] \in Nat \ {0} /\ 0 \in 0 .. Pow2[n] - 1
  BY Pow2Facts
<1>2. BitAnd[a * Pow2[n] + 0][a * Pow2[n] + b] = BitAnd[a][a] * Pow2[n] + BitAnd[0][b]
  BY <1>1, AndSplit
<1>3. BitAnd[a][a] = a /\ BitAnd[0][b] = 0
  BY AndZero, AndSelf
<1>4. a * Pow2[n] + 0 = a * Pow2[n] /\ a * Pow2[n] \in Nat
  BY <1>1
<1>5. BitAnd[a * Pow2[n]][a * Pow2[n] + b] = a * Pow2[n]
  BY <1>2, <1>3, <1>4
<1>. QED
  BY <1>4, <1>5 DEF BitXor

\* A shift to the left that stays within the word drops nothing.
LEMMA ShiftFits ==
  ASSUME NEW m \in Nat, NEW n \in Nat, NEW bits \in Nat, m + n <= bits,
         NEW i \in 0 .. Pow2[m] - 1
  PROVE  /\ ShiftedLeft(i, n, bits) = i * Pow2[n]
         /\ i * Pow2[n] \in 0 .. Pow2[m + n] - 1
<1>1. i * Pow2[n] \in Nat /\ i * Pow2[n] + Pow2[n] <= Pow2[m + n]
  BY Scaled
<1>2. Pow2[n] \in Nat \ {0} /\ Pow2[bits] \in Nat \ {0} /\ Pow2[m + n] \in Nat
  BY Pow2Facts
<1>3. Pow2[m + n] <= Pow2[bits]
  BY Pow2Monotone
<1>4. i * Pow2[n] \in 0 .. Pow2[m + n] - 1 /\ i * Pow2[n] \in 0 .. Pow2[bits] - 1
  BY <1>1, <1>2, <1>3
<1>5. (i * Pow2[n]) % Pow2[bits] = i * Pow2[n]
  BY <1>2, <1>4, ModBelow
<1>. QED
  BY <1>4, <1>5 DEF ShiftedLeft

-----------------------------------------------------------------------------
\* CIDRs and pools

\* Addresses have so many bits, those of IPv6 an even number.
LEMMA WidthFacts ==
  /\ \A fam : Width(fam) \in Nat
  /\ Half \in Nat /\ V6Bits = Half + Half
<1>1. V6Bits = 2 * (V6Bits \div 2) + (V6Bits % 2)
  BY WidthAssumption
<1>. QED
  BY <1>1, WidthAssumption DEF Width, Half

\* A CIDR has a family, a mask and a network address that the mask leaves
\* alone.
LEMMA NetForm ==
  ASSUME NEW net \in AllNets
  PROVE  \E fam \in {"v4", "v6"} : \E mask \in 0 .. Width(fam) :
         \E a \in 0 .. Pow2[mask] - 1 :
           net = Net(fam, a * Pow2[Width(fam) - mask], mask)
BY DEF AllNets

\* The same in terms of its fields.
LEMMA NetParts ==
  ASSUME NEW net \in AllNets
  PROVE  /\ net.fam \in {"v4", "v6"} /\ net.mask \in 0 .. Width(net.fam)
         /\ net = Net(net.fam, net.ip, net.mask)
         /\ net.ip \in Nat /\ Pow2[Width(net.fam) - net.mask] \in Nat \ {0}
         /\ \E a \in Nat : net.ip = a * Pow2[Width(net.fam) - net.mask]
<1>1. PICK fam \in {"v4", "v6"} :
        \E c \in 0 .. Width(fam) : \E a \in 0 .. Pow2[c] - 1 :
          net = Net(fam, a * Pow2[Width(fam) - c], c)
  BY NetForm
<1>2. PICK c \in 0 .. Width(fam) :
        \E a \in 0 .. Pow2[c] - 1 : net = Net(fam, a * Pow2[Width(fam) - c], c)
  BY <1>1
<1>3. PICK a \in 0 .. Pow2[c] - 1 : net = Net(fam, a * Pow2[Width(fam) - c], c)
  BY <1>2
<1>4. net.fam = fam /\ net.mask = c /\ net.ip = a * Pow2[Width(fam) - c]
  BY <1>3 DEF Net
<1>5. c \in Nat /\ Width(fam) - c \in Nat
  BY WidthFacts
<1>6. a \in Nat /\ Pow2[Width(fam) - c] \in Nat \ {0}
  BY <1>5, Pow2Facts
<1>7. a * Pow2[Width(fam) - c] \in Nat
  BY <1>6
<1>. QED
  BY <1>3, <1>4, <1>6, <1>7

\* Masks that fit give as many blocks as there are numbers of the bits in
\* between: 1 << n stays within the int.
LEMMA PoolSize ==
  ASSUME NEW net \in AllNets, NEW nodeMask \in Int, MasksFit(net, nodeMask),
         ~SubNetTooBig(net, nodeMask)
  PROVE  NewPool(net, nodeMask).maxCIDRs = Pow2[nodeMask - net.mask]
<1>1. net.mask \in Int /\ net.fam \in {"v4", "v6"}
  BY NetForm, WidthFacts DEF Net
<1>2. nodeMask - net.mask \in 0 .. IntBits - 2
  BY <1>1, WidthAssumption DEF MasksFit, SubNetTooBig
<1>3. \A n \in 0 .. IntBits - 2 : OneShifted(n) = Pow2[n]
  BY WidthAssumption DEF OneShifted
<1>. QED
  BY <1>2, <1>3 DEF NewPool

-----------------------------------------------------------------------------
\* The address of a block

\* The `|' and `<<' of an IPv4 block number are an addition and a product.
LEMMA BlockOfIPv4 ==
  ASSUME NEW c \in 0 .. V4Bits, NEW a \in 0 .. Pow2[c] - 1,
         NEW m \in c .. V4Bits, NEW s, NEW i \in 0 .. Pow2[m - c] - 1,
         s.cluster = Net("v4", a * Pow2[V4Bits - c], c), s.nodeMask = m
  PROVE  IndexToCIDRBlock(s, i).ip = s.cluster.ip + i * Pow2[V4Bits - m]
<1>1. /\ V4Bits \in Nat /\ c \in Nat /\ m \in Int /\ V4Bits - m \in Nat /\ m - c \in Nat
      /\ V4Bits - c \in Nat /\ (m - c) + (V4Bits - m) = V4Bits - c
  BY WidthAssumption
<1>2. /\ ShiftedLeft(i, V4Bits - m, V4Bits) = i * Pow2[V4Bits - m]
      /\ i * Pow2[V4Bits - m] \in 0 .. Pow2[V4Bits - c] - 1
  BY <1>1, ShiftFits
<1>3. a \in Nat
  BY <1>1, Pow2Facts
<1>4. BitOr(a * Pow2[V4Bits - c], i * Pow2[V4Bits - m])
        = a * Pow2[V4Bits - c] + i * Pow2[V4Bits - m]
  BY <1>1, <1>2, <1>3, OrBelow
<1>. QED
  BY <1>2, <1>4 DEF IndexToCIDRBlock, Net

\* Where the network part of an IPv6 cluster CIDR ends, seen from its two
\* halves.
LEMMA ClusterHalves ==
  ASSUME NEW c \in 0 .. V6Bits, NEW a \in 0 .. Pow2[c] - 1
  PROVE  LET ip == a * Pow2[V6Bits - c]
         IN  /\ c <= Half => /\ ip \div Pow2[Half] = a * Pow2[Half - c]
                             /\ ip % Pow2[Half] = 0
             /\ c >= Half =>
                  LET left  == a \div Pow2[c - Half]
                      right == a % Pow2[c - Half]
                  IN  /\ ip \div Pow2[Half] = left
                      /\ ip % Pow2[Half] = right * Pow2[V6Bits - c]
                      /\ left \in Nat
                      /\ right \in Nat
                      /\ ip = left * Pow2[Half] + right * Pow2[V6Bits - c]
<1>. DEFINE ip == a * Pow2[V6Bits - c]
<1>1. c \in Nat /\ Half \in Nat /\ V6Bits = Half + Half /\ V6Bits - c \in Nat /\ a \in Nat
  BY WidthFacts, WidthAssumption, Pow2Facts
<1>2. Pow2[Half] \in Nat \ {0} /\ 0 \in 0 .. Pow2[Half] - 1
  BY <1>1, Pow2Facts
<1>3. ASSUME c <= Half
      PROVE  ip \div Pow2[Half] = a * Pow2[Half - c] /\ ip % Pow2[Half] = 0
  <2>1. Half - c \in Nat /\ V6Bits - c = (Half - c) + Half
    BY <1>1, <1>3
  <2>2. Pow2[V6Bits - c] = Pow2[Half - c] * Pow2[Half] /\ Pow2[Half - c] \in Nat
    <3>1. Pow2[(Half - c) + Half] = Pow2[Half - c] * Pow2[Half]
      BY ONLY <2>1, <1>1, Pow2Sum
    <3>2. Pow2[Half - c] \in Nat
      BY ONLY <2>1, Pow2Facts
    <3>. QED
      BY ONLY <2>1, <3>1, <3>2
  <2>3. a * Pow2[Half - c] \in Nat
        /\ ip = (a * Pow2[Half - c]) * Pow2[Half] + 0
    BY <2>2, <1>1, <1>2
  <2>. DEFINE x == a * Pow2[Half - c]
              n == Pow2[Half]
  <2>. HIDE DEF x, n, ip
  <2>4. x \in Nat /\ n \in Nat \ {0} /\ ip = x * n + 0 /\ 0 \in 0 .. n - 1
    BY <2>3, <1>2 DEF x, n
  <2>. QED
    BY <2>4 DEF x, n
<1>4. ASSUME c >= Half
      PROVE  LET left  == a \div Pow2[c - Half]
                 right == a % Pow2[c - Half]
             IN  /\ ip \div Pow2[Half] = left
                 /\ ip % Pow2[Half] = right * Pow2[V6Bits - c]
                 /\ left \in Nat
                 /\ right \in Nat
                 /\ ip = left * Pow2[Half] + right * Pow2[V6Bits - c]
  <2>. DEFINE p == Pow2[c - Half]
              q == Pow2[V6Bits - c]
              left  == a \div p
              right == a % p
  <2>1. c - Half \in Nat /\ (c - Half) + (V6Bits - c) = Half
    BY <1>1, <1>4
  <2>2. p \in Nat \ {0} /\ q \in Nat \ {0}
    BY <2>1, <1>1, Pow2Facts
  <2>3. Pow2[Half] = p * q
    BY <2>1, <1>1, Pow2Sum
  <2>4. left \in Nat /\ right \in 0 .. p - 1 /\ a = left * p + right
    BY <1>1, <2>2, Division
  <2>5. right * q \in Nat /\ right * q + q <= Pow2[Half]
    BY <2>1, <2>4, <1>1, Scaled
  <2>6. right * q \in 0 .. Pow2[Half] - 1
    BY <2>2, <2>5, <1>2
  <2>. HIDE DEF p, q, left, right
  <2>7. (left * p + right) * q = left * (p * q) + right * q
    BY <2>2, <2>4
  <2>8. a * q = left * Pow2[Half] + right * q
    BY <2>3, <2>4, <2>7
  <2>9. (a * q) \div Pow2[Half] = left /\ (a * q) % Pow2[Half] = right * q
    <3>. DEFINE x == a * q
                y == right * q
                n == Pow2[Half]
    <3>1. n \in Nat \ {0} /\ y \in 0 .. n - 1 /\ x = left * n + y /\ left \in Nat
      BY <2>8, <2>4, <2>6, <1>2
    <3>. HIDE DEF x, y, n
    <3>2. x \div n = left /\ x % n = y
      BY <3>1
    <3>. QED
      BY <3>2 DEF x, y, n
  <2>. QED
    BY <2>4, <2>8, <2>9 DEF p, q, left, right
<1>. QED
  BY <1>3, <1>4

\* BitLength tells whether a block number reaches beyond n bits.
LEMMA LongerThan ==
  ASSUME NEW n \in 0 .. V6Bits, NEW i \in 0 .. Pow2[V6Bits] - 1
  PROVE  BitLength(i) > n <=> i >= Pow2[n]
<1>. DEFINE S == {k \in Nat : i < Pow2[k]}
            Is(k) == i < Pow2[k] /\ (k # 0 => i >= Pow2[k - 1])
<1>1. V6Bits \in Nat /\ i \in Nat /\ n \in Nat /\ Pow2[V6Bits] \in Nat
  BY WidthAssumption, Pow2Facts
<1>2. V6Bits \in S
  BY <1>1
<1>3. S \in SUBSET Nat /\ S # {}
  BY <1>2
<1>4. PICK k \in S : \A j \in S : k <= j
  <2>. HIDE DEF S
  <2>. QED
    BY <1>3, LeastNatural
<1>5. k \in 0 .. V6Bits
  BY <1>2, <1>4, <1>1
<1>6. k # 0 => i >= Pow2[k - 1]
  <2>1. ASSUME k # 0 PROVE i >= Pow2[k - 1]
    <3>1. k - 1 \in Nat /\ ~(k <= k - 1)
      BY <2>1
    <3>2. k - 1 \notin S
      BY <3>1, <1>4
    <3>. QED
      BY <3>1, <3>2, <1>1, Pow2Facts
  <2>. QED
    BY <2>1
<1>7. \E j \in 0 .. V6Bits : Is(j)
  BY <1>4, <1>5, <1>6
<1>8. BitLength(i) \in 0 .. V6Bits /\ Is(BitLength(i))
  BY <1>7 DEF BitLength
<1>. DEFINE l == BitLength(i)
<1>. HIDE DEF S
<1>9. ASSUME l > n PROVE i >= Pow2[n]
  <2>1. l # 0 /\ l - 1 \in Nat /\ n <= l - 1
    BY <1>8, <1>9, <1>1
  <2>2. Pow2[n] <= Pow2[l - 1] /\ Pow2[n] \in Nat /\ Pow2[l - 1] \in Nat
    BY <2>1, <1>1, Pow2Monotone, Pow2Facts
  <2>. QED
    BY <2>1, <2>2, <1>1, <1>8
<1>10. ASSUME ~(l > n) PROVE ~(i >= Pow2[n])
  <2>1. l \in Nat /\ l <= n
    BY <1>8, <1>10, <1>1
  <2>2. Pow2[l] <= Pow2[n] /\ Pow2[n] \in Nat /\ Pow2[l] \in Nat
    BY <2>1, <1>1, Pow2Monotone, Pow2Facts
  <2>. QED
    BY <2>2, <1>1, <1>8
<1>. QED
  BY <1>9, <1>10

\* A node mask in the left half: the block number is in the left half.
LEMMA BlockOfIPv6Left ==
  ASSUME NEW c \in 0 .. V6Bits, NEW a \in 0 .. Pow2[c] - 1,
         NEW m \in c .. V6Bits, m <= Half,
         NEW s, NEW i \in 0 .. Pow2[m - c] - 1,
         s.cluster = Net("v6", a * Pow2[V6Bits - c], c), s.nodeMask = m
  PROVE  IndexToCIDRBlock(s, i).ip = s.cluster.ip + i * Pow2[V6Bits - m]
<1>. DEFINE left == a * Pow2[Half - c]
            x == i * Pow2[Half - m]
            h == Pow2[Half]
<1>1. /\ c \in Nat /\ m \in Nat /\ Half \in Nat /\ V6Bits = Half + Half
      /\ Half - c \in Nat /\ Half - m \in Nat /\ m - c \in Nat
      /\ (m - c) + (Half - m) = Half - c /\ Half - c <= Half
      /\ V6Bits - c = (Half - c) + Half /\ V6Bits - m = (Half - m) + Half
  BY WidthFacts, WidthAssumption
<1>2. a \in Nat /\ i \in Nat
  BY <1>1, Pow2Facts
<1>3. ShiftedLeft(i, Half - m, Half) = x /\ x \in 0 .. Pow2[Half - c] - 1
  BY <1>1, ShiftFits
<1>4. BitOr(left, x) = left + x
  BY <1>1, <1>2, <1>3, OrBelow
<1>5. s.cluster.ip \div h = left /\ s.cluster.ip % h = 0
  <2>1. c <= Half
    BY <1>1
  <2>. QED
    BY <2>1, ClusterHalves DEF Net
<1>6. LeftHalf(s, i) = left + x
  <2>1. m - Half <= 0 /\ -(m - Half) = Half - m
    BY <1>1
  <2>. QED
    BY <2>1, <1>3, <1>4, <1>5 DEF LeftHalf
<1>7. RightHalf(s, i) = 0
  BY <1>5 DEF RightHalf
<1>8. IndexToCIDRBlock(s, i).ip = (left + x) * h + 0
  BY <1>6, <1>7 DEF IndexToCIDRBlock, Net
<1>9. /\ Pow2[V6Bits - c] = Pow2[Half - c] * h
      /\ Pow2[V6Bits - m] = Pow2[Half - m] * h
  <2>1. Pow2[(Half - c) + Half] = Pow2[Half - c] * Pow2[Half]
    BY ONLY <1>1, Pow2Sum
  <2>2. Pow2[(Half - m) + Half] = Pow2[Half - m] * Pow2[Half]
    BY ONLY <1>1, Pow2Sum
  <2>. QED
    BY <1>1, <2>1, <2>2
<1>10. Pow2[Half - c] \in Nat /\ Pow2[Half - m] \in Nat /\ h \in Nat
  BY <1>1, Pow2Facts
<1>11. \A u, v, k, l, n \in Nat : (u * k + v * l) * n + 0 = u * (k * n) + v * (l * n)
  OBVIOUS
<1>. QED
  BY <1>2, <1>8, <1>9, <1>11, <1>10 DEF Net

\* A cluster mask in the right half: the block number is in the right half.
LEMMA BlockOfIPv6Right ==
  ASSUME NEW c \in 0 .. V6Bits, NEW a \in 0 .. Pow2[c] - 1, c >= Half,
         NEW m \in c .. V6Bits, m > Half,
         NEW s, NEW i \in 0 .. Pow2[m - c] - 1,
         s.cluster = Net("v6", a * Pow2[V6Bits - c], c), s.nodeMask = m
  PROVE  IndexToCIDRBlock(s, i).ip = s.cluster.ip + i * Pow2[V6Bits - m]
<1>. DEFINE left == a \div Pow2[c - Half]
            right == a % Pow2[c - Half]
            x == i * Pow2[V6Bits - m]
            h == Pow2[Half]
<1>1. /\ c \in Nat /\ m \in Nat /\ Half \in Nat /\ V6Bits = Half + Half
      /\ V6Bits - c \in Nat /\ V6Bits - m \in Nat /\ m - c \in Nat
      /\ (m - c) + (V6Bits - m) = V6Bits - c /\ V6Bits - c <= Half
  BY WidthFacts, WidthAssumption
<1>2. /\ s.cluster.ip \div h = left /\ s.cluster.ip % h = right * Pow2[V6Bits - c]
      /\ left \in Nat /\ right \in Nat
      /\ s.cluster.ip = left * h + right * Pow2[V6Bits - c]
  BY ClusterHalves DEF Net
<1>. HIDE DEF left, right
<1>3. ShiftedLeft(i, V6Bits - m, Half) = x /\ x \in 0 .. Pow2[V6Bits - c] - 1
  BY <1>1, ShiftFits
<1>4. BitOr(right * Pow2[V6Bits - c], x) = right * Pow2[V6Bits - c] + x
  BY <1>1, <1>2, <1>3, OrBelow
<1>5. LeftHalf(s, i) = left
  <2>1. ~(m - Half <= 0) /\ ~(c < Half)
    BY <1>1
  <2>2. s.cluster.mask = c
    BY DEF Net
  <2>. QED
    BY <2>1, <2>2, <1>2 DEF LeftHalf
<1>6. RightHalf(s, i) = right * Pow2[V6Bits - c] + x
  <2>1. ~(m <= Half)
    BY <1>1
  <2>. QED
    BY <2>1, <1>2, <1>3, <1>4 DEF RightHalf
<1>7. IndexToCIDRBlock(s, i).ip = left * h + (right * Pow2[V6Bits - c] + x)
  BY <1>5, <1>6 DEF IndexToCIDRBlock, Net
<1>8. left * h \in Nat /\ right * Pow2[V6Bits - c] \in Nat /\ x \in Nat
  BY <1>1, <1>2, <1>3, Pow2Facts
<1>. QED
  BY <1>2, <1>7, <1>8

\* Masks in different halves: the bits of the block number that do not fit the
\* right half are those that go to the left, and there is no carry beyond.
LEMMA BlockOfIPv6Across ==
  ASSUME NEW c \in 0 .. V6Bits, NEW a \in 0 .. Pow2[c] - 1, c < Half,
         NEW m \in c .. V6Bits, m > Half,
         NEW s, NEW i \in 0 .. Pow2[m - c] - 1,
         s.cluster = Net("v6", a * Pow2[V6Bits - c], c), s.nodeMask = m
  PROVE  IndexToCIDRBlock(s, i).ip = s.cluster.ip + i * Pow2[V6Bits - m]
<1>. DEFINE b == m - Half
            p == Pow2[b]
            q == i \div p
            r == i % p
            w == Pow2[V6Bits - m]
            h == Pow2[Half]
            left == a * Pow2[Half - c]
<1>1. /\ c \in Nat /\ m \in Nat /\ Half \in Nat /\ V6Bits \in Nat /\ V6Bits = Half + Half
      /\ Half - c \in Nat /\ V6Bits - m \in Nat /\ m - c \in Nat /\ b \in Nat
      /\ (Half - c) + b = m - c /\ b + (V6Bits - m) = Half
      /\ V6Bits - c = (Half - c) + Half /\ b \in 0 .. V6Bits /\ m - c <= V6Bits
  BY WidthFacts, WidthAssumption
<1>2. a \in Nat /\ i \in Nat
  BY <1>1, Pow2Facts
<1>3. p \in Nat \ {0} /\ w \in Nat \ {0} /\ h \in Nat \ {0}
  BY <1>1, Pow2Facts
<1>4. h = p * w
  BY <1>1, Pow2Sum
<1>5. q \in Nat /\ r \in 0 .. p - 1 /\ i = q * p + r
  BY <1>2, <1>3, Division
<1>6. Pow2[m - c] = Pow2[Half - c] * p /\ Pow2[Half - c] \in Nat
  <2>1. Pow2[(Half - c) + b] = Pow2[Half - c] * Pow2[b]
    BY <1>1, Pow2Sum
  <2>2. Pow2[Half - c] \in Nat
    BY <1>1, Pow2Facts
  <2>. QED
    BY <2>1, <2>2, <1>1
<1>7. s.cluster.ip \div h = left /\ s.cluster.ip % h = 0
  <2>1. c <= Half
    BY <1>1
  <2>. QED
    BY <2>1, ClusterHalves DEF Net
<1>. HIDE DEF b, p, q, r, w, h
<1>8. q \in 0 .. Pow2[Half - c] - 1
  <2>. DEFINE t == Pow2[Half - c]
  <2>1. q * p + r < t * p
    <3>1. i < Pow2[m - c] /\ Pow2[m - c] = t * p
      BY <1>6, <1>1, Pow2Facts
    <3>. QED
      BY <3>1, <1>5
  <2>. HIDE DEF t
  <2>2. t \in Nat
    BY <1>6 DEF t
  <2>3. \A x, y \in Nat : x >= y => x * p >= y * p
    BY <1>3
  <2>4. ~(q >= t)
    BY <2>1, <2>2, <2>3, <1>3, <1>5
  <2>. QED
    BY <2>2, <2>4, <1>5 DEF t
<1>9. BitOr(left, q) = left + q /\ BitOr(left, 0) = left /\ left \in Nat
  <2>1. left \in Nat
    BY <1>1, <1>2, <1>6
  <2>2. BitOr(left, q) = left + q
    BY <1>1, <1>2, <1>8, OrBelow
  <2>. QED
    BY <2>1, <2>2, OrZero
<1>10. LeftHalf(s, i) = left + q
  <2>1. ~(m - Half <= 0) /\ s.cluster.mask = c
    BY <1>1 DEF Net
  <2>2. i \in 0 .. Pow2[V6Bits] - 1
    BY <1>1, <1>2, Pow2Monotone, Pow2Facts
  <2>3. BitLength(i) > b <=> i >= p
    BY <1>1, <2>2, LongerThan DEF p
  <2>4. LeftHalf(s, i) = IF i >= p THEN BitOr(left, q) ELSE left
    BY <2>1, <2>3, <1>7 DEF LeftHalf, ShiftedRight, b, p, q, h
  <2>5. i < p => q = 0
    BY <1>2, <1>3 DEF q
  <2>. QED
    BY <2>4, <2>5, <1>2, <1>3, <1>9
<1>11. ShiftedLeft(i, V6Bits - m, Half) = r * w /\ r * w \in Nat
  <2>1. r \in 0 .. Pow2[b] - 1
    BY <1>5 DEF p
  <2>2. r * w \in Nat /\ r * w + w <= h
    BY <2>1, <1>1, Scaled DEF w, h
  <2>3. i * w = q * h + r * w
    BY <1>3, <1>4, <1>5
  <2>4. (i * w) % h = r * w
    <3>. DEFINE x == i * w
                y == r * w
    <3>1. x = q * h + y /\ y \in 0 .. h - 1 /\ q \in Nat /\ h \in Nat \ {0}
      BY <2>2, <2>3, <1>3, <1>5
    <3>. HIDE DEF x, y
    <3>2. x % h = y
      BY <3>1
    <3>. QED
      BY <3>2 DEF x, y
  <2>. QED
    BY <2>2, <2>4, <1>1 DEF ShiftedLeft, w, h
<1>12. RightHalf(s, i) = r * w
  <2>1. ~(m <= Half)
    BY <1>1
  <2>. QED
    BY <2>1, <1>7, <1>11, OrZero DEF RightHalf, h
<1>13. IndexToCIDRBlock(s, i).ip = (left + q) * h + r * w
  BY <1>10, <1>12 DEF IndexToCIDRBlock, Net, h
<1>14. s.cluster.ip = left * h
  <2>1. Pow2[V6Bits - c] = Pow2[Half - c] * h
    BY <1>1, Pow2Sum DEF h
  <2>2. s.cluster.ip = a * Pow2[V6Bits - c]
    BY DEF Net
  <2>3. a * (Pow2[Half - c] * h) = (a * Pow2[Half - c]) * h
    BY <1>2, <1>3, <1>6
  <2>. QED
    BY <2>1, <2>2, <2>3
<1>15. (left + q) * h + r * w = left * h + i * w
  <2>. HIDE DEF left
  <2>1. (left + q) * h = left * h + q * (p * w)
    BY <1>3, <1>4, <1>5, <1>9
  <2>2. (q * p + r) * w = q * (p * w) + r * w
    BY <1>3, <1>5
  <2>3. left * h \in Nat /\ q * (p * w) \in Nat /\ r * w \in Nat
    BY <1>3, <1>5, <1>9
  <2>. QED
    BY <2>1, <2>2, <2>3, <1>5
<1>. QED
  BY <1>13, <1>14, <1>15 DEF w

(***************************************************************************)
(* The i-th block of a pool starts i block lengths behind the cluster      *)
(* CIDR, for addresses of any length, every cluster CIDR and every node    *)
(* mask that fits: indexToCIDRBlock cuts the cluster CIDR into its blocks. *)
(***************************************************************************)
THEOREM BlockAddress ==
  ASSUME NEW net \in AllNets, NEW nodeMask \in Int, MasksFit(net, nodeMask),
         ~SubNetTooBig(net, nodeMask),
         NEW i \in 0 .. NewPool(net, nodeMask).maxCIDRs - 1
  PROVE  IndexToCIDRBlock(NewPool(net, nodeMask), i) =
           Net(net.fam, net.ip + i * Pow2[Width(net.fam) - nodeMask], nodeMask)
<1>. DEFINE s == NewPool(net, nodeMask)
<1>1. PICK fam \in {"v4", "v6"} :
        \E c \in 0 .. Width(fam) : \E a \in 0 .. Pow2[c] - 1 :
          net = Net(fam, a * Pow2[Width(fam) - c], c)
  BY NetForm
<1>2. PICK c \in 0 .. Width(fam) :
        \E a \in 0 .. Pow2[c] - 1 : net = Net(fam, a * Pow2[Width(fam) - c], c)
  BY <1>1
<1>3. PICK a \in 0 .. Pow2[c] - 1 : net = Net(fam, a * Pow2[Width(fam) - c], c)
  BY <1>2
<1>4. net.fam = fam /\ net.mask = c /\ s.cluster = net /\ s.nodeMask = nodeMask
  BY <1>3 DEF Net, NewPool
<1>5. nodeMask \in c .. Width(fam) /\ i \in 0 .. Pow2[nodeMask - c] - 1
  BY <1>4, PoolSize DEF MasksFit
<1>. HIDE DEF s
<1>6. s.cluster.ip = net.ip /\ net.ip = a * Pow2[Width(fam) - c]
  BY <1>3, <1>4 DEF Net
<1>7. ASSUME fam = "v4"
      PROVE  IndexToCIDRBlock(s, i).ip = s.cluster.ip + i * Pow2[Width(fam) - nodeMask]
  BY <1>3, <1>4, <1>5, <1>7, BlockOfIPv4 DEF Width
<1>8. ASSUME fam = "v6"
      PROVE  IndexToCIDRBlock(s, i).ip = s.cluster.ip + i * Pow2[Width(fam) - nodeMask]
  <2>1. Half \in Nat /\ c \in Nat /\ nodeMask \in Nat
    BY <1>5, WidthFacts
  <2>2. Width(fam) = V6Bits
    BY <1>8 DEF Width
  <2>3. CASE nodeMask <= Half
    BY <1>3, <1>4, <1>5, <2>2, <2>3, <1>8, BlockOfIPv6Left
  <2>4. CASE nodeMask > Half /\ c >= Half
    BY <1>3, <1>4, <1>5, <2>2, <2>4, <1>8, BlockOfIPv6Right
  <2>5. CASE nodeMask > Half /\ c < Half
    BY <1>3, <1>4, <1>5, <2>2, <2>5, <1>8, BlockOfIPv6Across
  <2>. QED
    BY <2>1, <2>3, <2>4, <2>5
<1>9. IndexToCIDRBlock(s, i) = Net(net.fam, IndexToCIDRBlock(s, i).ip, nodeMask)
  BY <1>4 DEF IndexToCIDRBlock, Net
<1>. QED
  BY <1>4, <1>6, <1>7, <1>8, <1>9 DEF s

-----------------------------------------------------------------------------
\* The blocks that a CIDR covers

\* getIndexForIP inside the cluster CIDR: the block of an address is its
\* distance from the network address, divided by the length of a block, and no
\* address is refused.
LEMMA BlockIndexInside ==
  ASSUME NEW fam \in {"v4", "v6"}, NEW c \in 0 .. Width(fam), NEW a \in Nat,
         NEW m \in c .. Width(fam), fam = "v4" => m - c < V4Bits,
         NEW s, s.cluster = Net(fam, a * Pow2[Width(fam) - c], c), s.nodeMask = m,
         s.maxCIDRs = Pow2[m - c],
         NEW x \in 0 .. Pow2[Width(fam) - c] - 1
  PROVE  /\ BlockIndex(s, a * Pow2[Width(fam) - c] + x) = x \div Pow2[Width(fam) - m]
         /\ x \div Pow2[Width(fam) - m] \in 0 .. Pow2[m - c] - 1
<1>. DEFINE W == Width(fam)
            C == Pow2[W - c]
            Q == Pow2[W - m]
            N == Pow2[m - c]
            q == x \div Q
            r == x % Q
            ip == a * C + x
<1>1. /\ W \in Nat /\ c \in Nat /\ m \in Nat /\ W - c \in Nat /\ W - m \in Nat
      /\ m - c \in Nat /\ (m - c) + (W - m) = W - c /\ m \in 0 .. W
  BY WidthFacts
<1>2. C \in Nat \ {0} /\ Q \in Nat \ {0} /\ N \in Nat \ {0}
  BY <1>1, Pow2Facts
<1>3. C = N * Q
  <2>1. Pow2[(m - c) + (W - m)] = Pow2[m - c] * Pow2[W - m]
    BY ONLY <1>1, Pow2Sum
  <2>. QED
    BY ONLY <1>1, <2>1
<1>. HIDE DEF W, C, Q, N
<1>4. x \in Nat /\ x < C
  BY <1>2 DEF C, W
<1>5. q \in Nat /\ r \in 0 .. Q - 1 /\ x = q * Q + r /\ q * Q \in Nat
  <2>1. q \in Nat /\ r \in 0 .. Q - 1 /\ x = q * Q + r
    BY <1>2, <1>4, Division
  <2>. HIDE DEF q, r
  <2>. QED
    BY <2>1, <1>2
<1>6. q < N
  <2>1. x \div Q <= N - 1 <=> x < (N - 1) * Q + Q
    BY <1>2, <1>4, QuotientBounds, N - 1 \in Nat
  <2>2. (N - 1) * Q + Q = N * Q
    BY <1>2
  <2>. QED
    BY <2>1, <2>2, <1>2, <1>3, <1>4, <1>5
<1>. HIDE DEF q, r
<1>7. ip % Q = r
  <2>. DEFINE k == a * N + q
  <2>1. a * (N * Q) + (q * Q + r) = (a * N + q) * Q + r
    BY <1>2, <1>5
  <2>2. k \in Nat
    BY <1>2, <1>5
  <2>3. ip = k * Q + r
    BY <2>1, <1>3, <1>5
  <2>. HIDE DEF k, ip
  <2>. QED
    BY <2>2, <2>3, <1>2, <1>5
<1>8. Masked(fam, ip, m) = a * C + q * Q
  <2>1. a * C \in Nat
    BY <1>2
  <2>2. ip - r = a * C + q * Q
    BY <2>1, <1>5
  <2>. QED
    BY <2>2, <1>7 DEF Masked, Q, W
<1>9. q * Q \in 0 .. C - 1
  BY <1>4, <1>5, <1>2
<1>10. BitXor(a * C, a * C + q * Q) = q * Q
  BY <1>1, <1>9, XorBelow DEF C
<1>11. ShiftedRight(q * Q, W - m) = q
  <2>1. (q * Q) \div Q = q
    BY <1>2, <1>5
  <2>. QED
    BY <2>1 DEF ShiftedRight, Q
<1>12. fam = "v4" => N % Pow2[V4Bits] = N
  <2>1. ASSUME fam = "v4" PROVE N < Pow2[V4Bits]
    <3>1. m - c + 1 \in Nat /\ m - c + 1 <= V4Bits /\ V4Bits \in Nat
      BY <2>1, <1>1, WidthAssumption
    <3>2. Pow2[m - c + 1] <= Pow2[V4Bits] /\ Pow2[V4Bits] \in Nat
      BY <3>1, Pow2Monotone, Pow2Facts
    <3>3. Pow2[m - c + 1] = 2 * N
      BY <1>1, Pow2Facts DEF N
    <3>. QED
      BY <3>2, <3>3, <1>2
  <2>2. Pow2[V4Bits] \in Nat \ {0}
    BY WidthAssumption, Pow2Facts
  <2>. QED
    BY <2>1, <2>2, <1>2, ModBelow
<1>13. IndexForIP(s, a * C + q * Q) = q
  <2>1. s.cluster.ip = a * C /\ s.cluster.fam = fam
    BY DEF Net, C, W
  <2>2. ShiftedRight(BitXor(s.cluster.ip, a * C + q * Q), Width(s.cluster.fam) - s.nodeMask) = q
    BY <2>1, <1>10, <1>11 DEF W
  <2>3. (IF s.cluster.fam = "v4" THEN s.maxCIDRs % Pow2[V4Bits] ELSE s.maxCIDRs) = N
    BY <2>1, <1>12 DEF N
  <2>4. ~(q >= N)
    BY <1>2, <1>5, <1>6
  <2>. QED
    BY <2>2, <2>3, <2>4 DEF IndexForIP
<1>14. BlockIndex(s, ip) = q
  <2>1. s.cluster.fam = fam /\ s.nodeMask \in 0 .. Width(s.cluster.fam)
    BY <1>1 DEF Net, W
  <2>. QED
    BY <2>1, <1>8, <1>13 DEF BlockIndex
<1>. QED
  BY <1>2, <1>5, <1>6, <1>14 DEF ip, C, W, q, Q, N

\* IPNet.Contains is a comparison with the first and the last address.
LEMMA ContainsRange ==
  ASSUME NEW net \in AllNets, NEW ip \in Nat
  PROVE  Contains(net, ip) <=>
           net.ip <= ip /\ ip < net.ip + Pow2[Width(net.fam) - net.mask]
<1>. DEFINE n == Pow2[Width(net.fam) - net.mask]
<1>1. n \in Nat \ {0} /\ net.ip \in Nat
  BY NetParts
<1>2. PICK a \in Nat : net.ip = a * n
  BY NetParts
<1>3. Contains(net, ip) <=> ip - (ip % n) = a * n
  BY <1>2 DEF Contains, Masked
<1>. HIDE DEF n
<1>4. ip % n \in 0 .. n - 1 /\ ip \div n \in Nat /\ ip = (ip \div n) * n + (ip % n)
  BY <1>1, Division
<1>5. ASSUME a * n <= ip, ip < a * n + n PROVE ip - (ip % n) = a * n
  <2>1. ip \div n = a
    BY <1>1, <1>4, <1>5, QuotientBounds
  <2>. QED
    BY <2>1, <1>1, <1>4
<1>6. ASSUME ip - (ip % n) = a * n PROVE a * n <= ip /\ ip < a * n + n
  BY <1>1, <1>2, <1>4, <1>6
<1>. QED
  BY <1>2, <1>3, <1>5, <1>6 DEF n

\* Two CIDRs are nested or have no address in common.
LEMMA NestedOrApart ==
  ASSUME NEW net \in AllNets, NEW other \in AllNets, net.fam = other.fam,
         other.mask <= net.mask
  PROVE  LET n == Pow2[Width(net.fam) - net.mask]
             m == Pow2[Width(net.fam) - other.mask]
         IN  \/ other.ip <= net.ip /\ net.ip + n <= other.ip + m
             \/ net.ip + n <= other.ip
             \/ other.ip + m <= net.ip
<1>. DEFINE W == Width(net.fam)
            n == Pow2[W - net.mask]
            m == Pow2[W - other.mask]
            k == Pow2[net.mask - other.mask]
<1>1. n \in Nat \ {0} /\ m \in Nat \ {0} /\ net.ip \in Nat /\ other.ip \in Nat
  BY NetParts
<1>2. PICK a \in Nat : net.ip = a * n
  BY NetParts
<1>3. PICK b \in Nat : other.ip = b * m
  BY NetParts
<1>4. /\ W - net.mask \in Nat /\ net.mask - other.mask \in Nat
      /\ (net.mask - other.mask) + (W - net.mask) = W - other.mask
  BY NetParts, WidthFacts
<1>5. m = k * n
  BY <1>4, Pow2Sum
<1>6. k \in Nat
  BY <1>4, Pow2Facts
<1>. HIDE DEF W, n, m, k
<1>7. other.ip = (b * k) * n /\ other.ip + m = (b * k + k) * n /\ net.ip + n = (a + 1) * n
  BY <1>1, <1>2, <1>3, <1>5, <1>6
<1>8. b * k \in Nat
  BY <1>6
<1>9. \A x, y \in Nat : x <= y => x * n <= y * n
  BY <1>1
<1>. DEFINE l == b * k
<1>. HIDE DEF l
<1>10. l \in Nat /\ other.ip = l * n /\ other.ip + m = (l + k) * n
  BY <1>7, <1>8 DEF l
<1>11. CASE a + 1 <= l
  BY <1>7, <1>9, <1>10, <1>11 DEF n, m, W
<1>12. CASE l + k <= a
  BY <1>2, <1>6, <1>9, <1>10, <1>12 DEF n, m, W
<1>13. CASE l <= a /\ a + 1 <= l + k
  BY <1>2, <1>6, <1>7, <1>9, <1>10, <1>13 DEF n, m, W
<1>. QED
  BY <1>6, <1>10, <1>11, <1>12, <1>13

(***************************************************************************)
(* The blocks begin .. end of getBeginingAndEndIndices are the blocks that *)
(* have an address in common with the CIDR, and it refuses a CIDR that has *)
(* none.                                                                   *)
(***************************************************************************)
THEOREM RangeOfOverlap ==
  ASSUME NEW cluster \in AllNets, NEW nodeMask \in Int, MasksFit(cluster, nodeMask),
         ~SubNetTooBig(cluster, nodeMask), NEW net \in AllNets
  PROVE  LET touched == Touched(NewPool(cluster, nodeMask), net)
         IN  Indices(NewPool(cluster, nodeMask), net) =
               IF touched = {} THEN Refused ELSE touched
<1>. DEFINE s == NewPool(cluster, nodeMask)
            fam == cluster.fam
            W == Width(fam)
            c == cluster.mask
            A == cluster.ip
            B == net.ip
            C == Pow2[W - c]
            Q == Pow2[W - nodeMask]
            N == Pow2[nodeMask - c]
            D == Pow2[Width(net.fam) - net.mask]
            Meets(i) == A + i * Q < B + D /\ B < A + i * Q + Q
<1>1. /\ s.cluster = cluster /\ s.nodeMask = nodeMask /\ s.maxCIDRs = N
  BY PoolSize DEF NewPool
<1>2. /\ W \in Nat /\ c \in 0 .. W /\ nodeMask \in c .. W /\ W - c \in Nat
      /\ W - nodeMask \in Nat /\ nodeMask - c \in Nat
      /\ (nodeMask - c) + (W - nodeMask) = W - c
      /\ fam \in {"v4", "v6"} /\ (fam = "v4" => nodeMask - c < V4Bits)
  BY NetParts, WidthFacts DEF MasksFit
<1>3. N \in Nat \ {0} /\ Q \in Nat \ {0}
  BY <1>2, Pow2Facts
<1>4. C = N * Q
  BY <1>2, Pow2Sum
<1>5. A \in Nat /\ B \in Nat /\ C \in Nat \ {0} /\ D \in Nat \ {0}
  BY NetParts
<1>6. PICK a \in Nat : A = a * C
  BY NetParts
<1>7. ASSUME NEW i \in 0 .. N - 1
      PROVE  Overlap(IndexToCIDRBlock(s, i), net) <=> net.fam = fam /\ Meets(i)
  <2>1. IndexToCIDRBlock(s, i) = Net(fam, A + i * Q, nodeMask)
    BY <1>1, BlockAddress
  <2>. QED
    BY <2>1 DEF Overlap, Net
<1>8. Touched(s, net) = {i \in 0 .. N - 1 : net.fam = fam /\ Meets(i)}
  BY <1>1, <1>7 DEF Touched
<1>9. InRange(s, net) <=>
        net.fam = fam /\ ((A <= B /\ B < A + C) \/ (B <= A /\ A < B + D))
  BY <1>1, <1>5, ContainsRange DEF InRange
<1>10. ASSUME NEW i \in 0 .. N - 1
       PROVE  i * Q \in Nat /\ i * Q + Q <= C
  <2>. HIDE DEF N, Q, C
  <2>1. i * Q + Q = (i + 1) * Q /\ i * Q \in Nat
    BY <1>3
  <2>2. (i + 1) * Q <= N * Q
    BY <1>3
  <2>. QED
    BY <2>1, <2>2, <1>4
<1>. HIDE DEF s, W, A, B, C, Q, N, D, c, fam
<1>11. ASSUME \/ net.fam # fam
              \/ A + C <= B
              \/ B + D <= A
       PROVE  ~InRange(s, net) /\ Touched(s, net) = {}
  <2>1. ~InRange(s, net)
    BY <1>5, <1>9, <1>11
  <2>2. ASSUME NEW i \in 0 .. N - 1, net.fam = fam, Meets(i) PROVE FALSE
    BY <2>2, <1>5, <1>10, <1>11, <1>3
  <2>. QED
    BY <2>1, <2>2, <1>8
<1>12. ASSUME net.fam = fam, net.mask <= c, B <= A, A + C <= B + D
       PROVE  InRange(s, net) /\ Touched(s, net) = 0 .. N - 1
  <2>1. InRange(s, net)
    BY <1>5, <1>9, <1>12
  <2>2. ASSUME NEW i \in 0 .. N - 1 PROVE Meets(i)
    BY <1>3, <1>5, <1>10, <1>12
  <2>. QED
    BY <2>1, <2>2, <1>8, <1>12
<1>13. ASSUME net.fam = fam, ~(net.mask <= c), A <= B, B + D <= A + C
       PROVE  /\ InRange(s, net)
              /\ NoIndex \notin {BlockIndex(s, net.ip), BlockIndex(s, LastAddress(net))}
              /\ Touched(s, net) # {}
              /\ Touched(s, net) =
                   BlockIndex(s, net.ip) .. BlockIndex(s, LastAddress(net))
  <2>. DEFINE x == B - A
              y == B - A + D - 1
  <2>1. x \in 0 .. C - 1 /\ y \in 0 .. C - 1 /\ x \in Nat /\ y \in Nat /\ x <= y
    BY <1>5, <1>13
  <2>2. LastAddress(net) = B + (D - 1)
    <3>1. PICK b \in Nat : B = b * D
      BY NetParts DEF B, D
    <3>2. Width(net.fam) - net.mask \in Nat /\ D - 1 \in 0 .. D - 1
      BY <1>5, NetParts, WidthFacts
    <3>3. BitOr(b * D, D - 1) = b * D + (D - 1)
      BY <3>2, OrBelow DEF D
    <3>. QED
      BY <3>1, <3>3 DEF LastAddress, B, D
  <2>3. cluster = Net(fam, a * C, c)
    BY <1>6, NetParts DEF A, fam, c
  <2>4. ASSUME NEW z \in 0 .. C - 1
        PROVE  BlockIndex(s, a * C + z) = z \div Q /\ z \div Q \in 0 .. N - 1
    <3>1. /\ fam \in {"v4", "v6"} /\ c \in 0 .. Width(fam) /\ a \in Nat
          /\ nodeMask \in c .. Width(fam) /\ (fam = "v4" => nodeMask - c < V4Bits)
      BY <1>2 DEF W
    <3>2. /\ s.cluster = Net(fam, a * Pow2[Width(fam) - c], c)
          /\ s.nodeMask = nodeMask /\ s.maxCIDRs = Pow2[nodeMask - c]
      BY <1>1, <2>3 DEF W, C, N
    <3>3. z \in 0 .. Pow2[Width(fam) - c] - 1
      BY <2>4 DEF W, C
    <3>4. /\ BlockIndex(s, a * Pow2[Width(fam) - c] + z) = z \div Pow2[Width(fam) - nodeMask]
          /\ z \div Pow2[Width(fam) - nodeMask] \in 0 .. Pow2[nodeMask - c] - 1
      BY <3>1, <3>2, <3>3, BlockIndexInside
    <3>. QED
      BY <3>4 DEF W, C, Q, N
  <2>5. B = a * C + x /\ B + (D - 1) = a * C + y
    BY <1>5, <1>6
  <2>. HIDE DEF x, y
  <2>6. /\ BlockIndex(s, B) = x \div Q /\ x \div Q \in 0 .. N - 1
        /\ BlockIndex(s, LastAddress(net)) = y \div Q /\ y \div Q \in 0 .. N - 1
    BY <2>1, <2>2, <2>4, <2>5
  <2>7. ASSUME NEW i \in 0 .. N - 1
        PROVE  Meets(i) <=> x \div Q <= i /\ i <= y \div Q
    <3>1. i \in Nat /\ i * Q \in Nat
      BY <1>10
    <3>2. Meets(i) <=> i * Q <= y /\ x < i * Q + Q
      BY <3>1, <1>3, <1>5 DEF x, y
    <3>. QED
      BY <3>1, <3>2, <2>1, <1>3, QuotientBounds
  <2>8. Touched(s, net) = x \div Q .. y \div Q
    BY <2>6, <2>7, <1>3, <1>8, <1>13
  <2>9. x \div Q <= y \div Q
    <3>1. x \div Q \in Nat /\ (x \div Q) * Q <= x
      BY <2>1, <2>6, <1>3, QuotientBounds
    <3>2. (x \div Q) * Q <= y /\ (x \div Q) * Q \in Nat
      BY <3>1, <2>1, <1>3
    <3>. QED
      BY <3>1, <3>2, <2>1, <1>3, QuotientBounds
  <2>10. x \div Q \in x \div Q .. y \div Q
    BY <2>6, <2>9
  <2>11. InRange(s, net)
    BY <1>5, <1>9, <1>13
  <2>. QED
    BY <2>6, <2>8, <2>10, <2>11 DEF NoIndex, B
<1>14. CASE net.fam # fam
  BY <1>11, <1>14 DEF Indices, s
<1>15. CASE net.fam = fam /\ net.mask <= c
  <2>1. (B <= A /\ A + C <= B + D) \/ A + C <= B \/ B + D <= A
    BY <1>15, NestedOrApart DEF A, B, C, D, W, c, fam
  <2>2. CASE B <= A /\ A + C <= B + D
    <3>1. InRange(s, net) /\ Touched(s, net) = 0 .. N - 1
      BY <2>2, <1>12, <1>15
    <3>2. Indices(s, net) = 0 .. N - 1
      BY <3>1, <1>1, <1>15 DEF Indices, c
    <3>3. 0 \in 0 .. N - 1
      BY <1>3
    <3>. QED
      BY <3>1, <3>2, <3>3 DEF s
  <2>3. CASE A + C <= B \/ B + D <= A
    BY <2>3, <1>11 DEF Indices, s
  <2>. QED
    BY <2>1, <2>2, <2>3
<1>16. CASE net.fam = fam /\ ~(net.mask <= c)
  <2>1. (A <= B /\ B + D <= A + C) \/ A + C <= B \/ B + D <= A
    <3>1. c <= net.mask
      BY <1>16, <1>2, NetParts
    <3>. QED
      BY <3>1, <1>16, NestedOrApart DEF A, B, C, D, W, c, fam
  <2>2. CASE A <= B /\ B + D <= A + C
    <3>1. Indices(s, net) = BlockIndex(s, net.ip) .. BlockIndex(s, LastAddress(net))
      BY <2>2, <1>1, <1>13, <1>16 DEF Indices, c
    <3>. QED
      BY <3>1, <2>2, <1>13, <1>16 DEF s
  <2>3. CASE A + C <= B \/ B + D <= A
    BY <2>3, <1>11 DEF Indices, s
  <2>. QED
    BY <2>1, <2>2, <2>3
<1>. QED
  BY <1>14, <1>15, <1>16

\* A block is a CIDR.
LEMMA BlockIsNet ==
  ASSUME NEW cluster \in AllNets, NEW nodeMask \in Int, MasksFit(cluster, nodeMask),
         ~SubNetTooBig(cluster, nodeMask),
         NEW i \in 0 .. NewPool(cluster, nodeMask).maxCIDRs - 1
  PROVE  IndexToCIDRBlock(NewPool(cluster, nodeMask), i) \in AllNets
<1>. DEFINE W == Width(cluster.fam)
            c == cluster.mask
            C == Pow2[W - c]
            Q == Pow2[W - nodeMask]
            N == Pow2[nodeMask - c]
            M == Pow2[c]
<1>1. /\ cluster.fam \in {"v4", "v6"} /\ c \in 0 .. W /\ nodeMask \in 0 .. W
      /\ nodeMask - c \in Nat /\ c \in Nat /\ W - nodeMask \in Nat /\ W - c \in Nat
      /\ (nodeMask - c) + (W - nodeMask) = W - c /\ c + (nodeMask - c) = nodeMask
  BY NetParts, WidthFacts DEF MasksFit
<1>2. PICK a \in 0 .. Pow2[c] - 1 : cluster.ip = a * C
  <2>1. PICK fam \in {"v4", "v6"} :
          \E d \in 0 .. Width(fam) : \E a \in 0 .. Pow2[d] - 1 :
            cluster = Net(fam, a * Pow2[Width(fam) - d], d)
    BY NetForm
  <2>2. PICK d \in 0 .. Width(fam) : \E a \in 0 .. Pow2[d] - 1 :
            cluster = Net(fam, a * Pow2[Width(fam) - d], d)
    BY <2>1
  <2>3. PICK a \in 0 .. Pow2[d] - 1 : cluster = Net(fam, a * Pow2[Width(fam) - d], d)
    BY <2>2
  <2>4. cluster.fam = fam /\ cluster.mask = d /\ cluster.ip = a * Pow2[Width(fam) - d]
    BY <2>3 DEF Net
  <2>. QED
    BY <2>4
<1>3. Q \in Nat \ {0} /\ N \in Nat \ {0} /\ M \in Nat \ {0}
  BY <1>1, Pow2Facts
<1>4. C = N * Q
  BY <1>1, Pow2Sum
<1>5. Pow2[nodeMask] = M * N
  BY <1>1, Pow2Sum
<1>6. i \in 0 .. N - 1
  BY PoolSize
<1>7. IndexToCIDRBlock(NewPool(cluster, nodeMask), i)
        = Net(cluster.fam, cluster.ip + i * Q, nodeMask)
  BY BlockAddress
<1>. HIDE DEF C, Q, N, M
<1>8. a \in Nat /\ a + 1 <= M /\ i \in Nat
  BY <1>2, <1>3, <1>6 DEF M
<1>9. a * N \in Nat /\ a * N + N <= M * N
  <2>1. (a + 1) * N <= M * N
    BY <1>3, <1>8
  <2>. QED
    BY <2>1, <1>3, <1>8
<1>10. a * N + i \in 0 .. Pow2[nodeMask] - 1
  BY <1>3, <1>5, <1>6, <1>8, <1>9
<1>11. cluster.ip + i * Q = (a * N + i) * Q
  BY <1>2, <1>3, <1>4, <1>8
<1>12. IndexToCIDRBlock(NewPool(cluster, nodeMask), i)
         = Net(cluster.fam, (a * N + i) * Pow2[Width(cluster.fam) - nodeMask], nodeMask)
  BY <1>7, <1>11 DEF Q
<1>. QED
  BY <1>1, <1>10, <1>12 DEF AllNets

\* Two blocks have no address in common.
LEMMA BlocksApart ==
  ASSUME NEW cluster \in AllNets, NEW nodeMask \in Int, MasksFit(cluster, nodeMask),
         ~SubNetTooBig(cluster, nodeMask),
         NEW i \in 0 .. NewPool(cluster, nodeMask).maxCIDRs - 1,
         NEW j \in 0 .. NewPool(cluster, nodeMask).maxCIDRs - 1
  PROVE  Overlap(IndexToCIDRBlock(NewPool(cluster, nodeMask), i),
                 IndexToCIDRBlock(NewPool(cluster, nodeMask), j)) <=> i = j
<1>. DEFINE A == cluster.ip
            Q == Pow2[Width(cluster.fam) - nodeMask]
<1>1. A \in Nat /\ Width(cluster.fam) - nodeMask \in Nat
  BY NetParts, WidthFacts DEF MasksFit
<1>2. Q \in Nat \ {0}
  BY <1>1, Pow2Facts
<1>3. \A k \in {i, j} : IndexToCIDRBlock(NewPool(cluster, nodeMask), k)
                           = Net(cluster.fam, A + k * Q, nodeMask)
  BY BlockAddress
<1>4. i \in Nat /\ j \in Nat
  <2>1. NewPool(cluster, nodeMask).maxCIDRs \in Nat \ {0}
    BY PoolSize, NetParts, WidthFacts, Pow2Facts DEF MasksFit
  <2>. QED
    BY <2>1
<1>5. Overlap(IndexToCIDRBlock(NewPool(cluster, nodeMask), i),
              IndexToCIDRBlock(NewPool(cluster, nodeMask), j))
        <=> A + i * Q < A + j * Q + Q /\ A + j * Q < A + i * Q + Q
  BY <1>3 DEF Overlap, Net
<1>. HIDE DEF A, Q
<1>6. i * Q \in Nat /\ j * Q \in Nat
  BY <1>2, <1>4
<1>7. \A k, l \in Nat : k < l => k * Q + Q <= l * Q
  <2>1. SUFFICES ASSUME NEW k \in Nat, NEW l \in Nat, k < l PROVE k * Q + Q <= l * Q
    OBVIOUS
  <2>2. (k + 1) * Q <= l * Q
    BY <1>2, <2>1
  <2>. QED
    BY <2>2, <1>2
<1>8. CASE i < j
  BY <1>1, <1>2, <1>4, <1>5, <1>6, <1>7, <1>8
<1>9. CASE j < i
  BY <1>1, <1>2, <1>4, <1>5, <1>6, <1>7, <1>9
<1>10. CASE i = j
  BY <1>1, <1>2, <1>5, <1>6, <1>10
<1>. QED
  BY <1>4, <1>8, <1>9, <1>10

(***************************************************************************)
(* The CIDR of a block covers that block and no other: what a node is      *)
(* assigned is what Occupy marks for it after a restart, and what Release  *)
(* gives back.                                                             *)
(***************************************************************************)
THEOREM OwnBlock ==
  ASSUME NEW cluster \in AllNets, NEW nodeMask \in Int, MasksFit(cluster, nodeMask),
         ~SubNetTooBig(cluster, nodeMask),
         NEW i \in 0 .. NewPool(cluster, nodeMask).maxCIDRs - 1
  PROVE  LET s == NewPool(cluster, nodeMask)
         IN  Indices(s, IndexToCIDRBlock(s, i)) = {i}
<1>. DEFINE s == NewPool(cluster, nodeMask)
<1>1. IndexToCIDRBlock(s, i) \in AllNets
  BY BlockIsNet
<1>2. \A j \in 0 .. s.maxCIDRs - 1 :
        Overlap(IndexToCIDRBlock(s, j), IndexToCIDRBlock(s, i)) <=> j = i
  BY BlocksApart
<1>3. Touched(s, IndexToCIDRBlock(s, i)) = {i}
  BY <1>2 DEF Touched
<1>. QED
  BY <1>1, <1>3, RangeOfOverlap

\* A CIDR no longer than a block lies within one block.
LEMMA TouchedByLength ==
  ASSUME NEW cluster \in AllNets, NEW nodeMask \in Int, MasksFit(cluster, nodeMask),
         ~SubNetTooBig(cluster, nodeMask), NEW net \in AllNets, nodeMask <= net.mask,
         NEW i \in Touched(NewPool(cluster, nodeMask), net)
  PROVE  Touched(NewPool(cluster, nodeMask), net) = {i}
<1>. DEFINE s == NewPool(cluster, nodeMask)
            block(j) == IndexToCIDRBlock(s, j)
            D == Pow2[Width(net.fam) - net.mask]
            Q == Pow2[Width(net.fam) - nodeMask]
<1>1. ASSUME NEW j \in Touched(s, net)
      PROVE  /\ j \in 0 .. s.maxCIDRs - 1 /\ block(j) \in AllNets
             /\ block(j).fam = net.fam /\ block(j).ip \in Nat
             /\ block(j).ip <= net.ip /\ net.ip + D <= block(j).ip + Q
  <2>1. j \in 0 .. s.maxCIDRs - 1 /\ Overlap(block(j), net)
    BY <1>1 DEF Touched
  <2>2. block(j) \in AllNets
    BY <2>1, BlockIsNet
  <2>3. block(j).mask = nodeMask
    BY DEF IndexToCIDRBlock, Net, NewPool
  <2>. HIDE DEF block
  <2>4. /\ block(j).fam = net.fam
        /\ block(j).ip < net.ip + D /\ net.ip < block(j).ip + Q
    BY <2>1, <2>3 DEF Overlap
  <2>5. block(j).ip \in Nat /\ net.ip \in Nat /\ D \in Nat /\ Q \in Nat
    BY <2>2, <2>3, <2>4, NetParts
  <2>6. \/ block(j).ip <= net.ip /\ net.ip + D <= block(j).ip + Q
        \/ net.ip + D <= block(j).ip
        \/ block(j).ip + Q <= net.ip
    BY <2>2, <2>3, <2>4, NestedOrApart
  <2>. QED
    BY <2>1, <2>2, <2>4, <2>5, <2>6
<1>2. ASSUME NEW j \in Touched(s, net) PROVE j = i
  <2>1. block(i).mask = nodeMask /\ block(j).mask = nodeMask
    BY DEF IndexToCIDRBlock, Net, NewPool
  <2>2. i \in Touched(s, net)
    OBVIOUS
  <2>. HIDE DEF block, s
  <2>3. /\ block(i).fam = net.fam /\ block(i).ip \in Nat /\ block(i) \in AllNets
        /\ block(i).ip <= net.ip /\ net.ip + D <= block(i).ip + Q
    BY <1>1, <2>2
  <2>4. /\ block(j).fam = net.fam /\ block(j).ip \in Nat /\ block(j) \in AllNets
        /\ block(j).ip <= net.ip /\ net.ip + D <= block(j).ip + Q
    BY <1>1
  <2>5. D \in Nat \ {0} /\ net.ip \in Nat /\ Q \in Nat
    BY <2>1, <2>3, NetParts
  <2>6. Overlap(block(i), block(j))
    BY <2>1, <2>3, <2>4, <2>5 DEF Overlap
  <2>. QED
    BY <2>6, <2>2, <1>1, BlocksApart DEF block, s
<1>. QED
  BY <1>2

(***************************************************************************)
(* A CIDR that is not refused covers the blocks whose numbers agree in all *)
(* but their last bits: the runs that CidrSet takes as the arguments of    *)
(* Occupy and Release.                                                     *)
(***************************************************************************)
THEOREM RangeIsAligned ==
  ASSUME NEW cluster \in AllNets, NEW nodeMask \in Int, MasksFit(cluster, nodeMask),
         ~SubNetTooBig(cluster, nodeMask), NEW net \in AllNets,
         Indices(NewPool(cluster, nodeMask), net) # Refused
  PROVE  LET s == NewPool(cluster, nodeMask)
         IN  Indices(s, net) \in AlignedRuns(s.maxCIDRs)
<1>. DEFINE s == NewPool(cluster, nodeMask)
            W == Width(cluster.fam)
            c == cluster.mask
            A == cluster.ip
            B == net.ip
            C == Pow2[W - c]
            Q == Pow2[W - nodeMask]
            N == Pow2[nodeMask - c]
<1>1. /\ s.cluster = cluster /\ s.nodeMask = nodeMask /\ s.maxCIDRs = N
  BY PoolSize DEF NewPool
<1>2. /\ W \in Nat /\ c \in 0 .. W /\ nodeMask \in c .. W /\ W - c \in Nat
      /\ W - nodeMask \in Nat /\ nodeMask - c \in Nat
      /\ (nodeMask - c) + (W - nodeMask) = W - c
  BY NetParts, WidthFacts DEF MasksFit
<1>3. N \in Nat \ {0} /\ Q \in Nat \ {0} /\ C = N * Q
  <2>1. N \in Nat \ {0} /\ Q \in Nat \ {0}
    BY ONLY <1>2, Pow2Facts
  <2>2. Pow2[(nodeMask - c) + (W - nodeMask)] = Pow2[nodeMask - c] * Pow2[W - nodeMask]
    BY ONLY <1>2, Pow2Sum
  <2>. QED
    BY ONLY <1>2, <2>1, <2>2
<1>4. Touched(s, net) # {} /\ Indices(s, net) = Touched(s, net)
  BY RangeOfOverlap
<1>5. ASSUME NEW k \in 0 .. nodeMask - c, NEW i \in 0 .. N - 1,
             Indices(s, net) = Alike(i, k, N)
      PROVE  Indices(s, net) \in AlignedRuns(s.maxCIDRs)
  <2>1. nodeMask - c < N
    BY <1>2, BelowPow2
  <2>2. k \in 0 .. N
    BY <1>2, <1>3, <2>1
  <2>. QED
    BY <1>1, <1>5, <2>2 DEF AlignedRuns
<1>6. net.mask \in Nat
  BY NetParts, WidthFacts
<1>7. CASE net.mask <= c
  <2>1. Indices(s, net) = 0 .. N - 1
    BY <1>1, <1>4, <1>7, RangeOfOverlap DEF Indices
  <2>2. \A j \in 0 .. N - 1 : j \div N = 0
    BY <1>3, ModBelow
  <2>3. 0 \in 0 .. N - 1 /\ nodeMask - c \in 0 .. nodeMask - c
    BY <1>2, <1>3
  <2>4. Alike(0, nodeMask - c, N) = 0 .. N - 1
    BY <2>2, <2>3 DEF Alike
  <2>. HIDE DEF N
  <2>. QED
    BY <2>1, <2>3, <2>4, <1>5
<1>8. CASE nodeMask <= net.mask
  <2>1. PICK i \in Touched(s, net) : TRUE
    BY <1>4
  <2>2. Touched(s, net) = {i} /\ i \in 0 .. N - 1
    BY <2>1, <1>1, <1>8, TouchedByLength DEF Touched
  <2>3. \A j \in 0 .. N - 1 : j \div Pow2[0] = j
    BY <1>3, Pow2Facts
  <2>4. Alike(i, 0, N) = {i}
    BY <2>2, <2>3 DEF Alike
  <2>5. 0 \in 0 .. nodeMask - c
    BY <1>2
  <2>. HIDE DEF N
  <2>. QED
    BY <2>2, <2>4, <2>5, <1>4, <1>5
<1>9. CASE c < net.mask /\ net.mask < nodeMask
  <2>. DEFINE k == nodeMask - net.mask
              K == Pow2[k]
              L == Pow2[net.mask - c]
              D == Pow2[W - net.mask]
  <2>1. /\ k \in 0 .. nodeMask - c /\ k \in Nat /\ net.mask - c \in Nat
        /\ k + (W - nodeMask) = W - net.mask /\ (net.mask - c) + k = nodeMask - c
    BY <1>6, <1>2, <1>9
  <2>2. net.fam = cluster.fam
    BY <1>4, <1>1, RangeOfOverlap DEF Touched, Overlap, IndexToCIDRBlock, Net
  <2>3. K \in Nat \ {0} /\ L \in Nat \ {0} /\ D = K * Q /\ N = L * K
    <3>1. K \in Nat \ {0} /\ L \in Nat \ {0}
      BY <2>1, Pow2Facts
    <3>2. D = K * Q
      <4>1. Pow2[k + (W - nodeMask)] = Pow2[k] * Pow2[W - nodeMask]
        BY ONLY <2>1, <1>2, Pow2Sum
      <4>. QED
        BY ONLY <2>1, <4>1
    <3>3. N = L * K
      <4>1. Pow2[(net.mask - c) + k] = Pow2[net.mask - c] * Pow2[k]
        BY ONLY <2>1, Pow2Sum
      <4>. QED
        BY ONLY <2>1, <4>1
    <3>. QED
      BY <3>1, <3>2, <3>3
  <2>4. PICK a \in Nat : A = a * C
    BY NetParts
  <2>5. PICK b \in Nat : B = b * D
    BY <2>2, NetParts
  <2>6. (A <= B /\ B + D <= A + C) \/ B + D <= A \/ A + C <= B
    BY <1>9, <1>2, <2>2, NetParts, NestedOrApart
  <2>7. ASSUME NEW i \in 0 .. N - 1
        PROVE  i \in Touched(s, net) <=> A + i * Q < B + D /\ B < A + i * Q + Q
    <3>1. IndexToCIDRBlock(s, i) = Net(cluster.fam, A + i * Q, nodeMask)
      BY <1>1, BlockAddress
    <3>. QED
      BY <3>1, <1>1, <2>2 DEF Touched, Overlap, Net
  <2>8. Touched(s, net) \subseteq 0 .. N - 1
    BY <1>1 DEF Touched
  <2>. DEFINE aN == a * N
              bK == b * K
  <2>. HIDE DEF s, W, c, A, B, C, Q, N, D, L, K, k
  <2>9. aN \in Nat /\ bK \in Nat /\ A = aN * Q /\ B = bK * Q
    BY <1>3, <2>3, <2>4, <2>5
  <2>10. aN = (a * L) * K
    BY <2>3, <1>3
  <2>. HIDE DEF aN, bK
  <2>11. /\ B + D = (bK + K) * Q /\ A + C = (aN + N) * Q
         /\ \A i \in Nat : A + i * Q = (aN + i) * Q /\ A + i * Q + Q = (aN + i + 1) * Q
    BY <2>9, <2>3, <1>3
  <2>12. \A x, y \in Nat : x < y <=> x * Q < y * Q
    <3>1. SUFFICES ASSUME NEW x \in Nat, NEW y \in Nat PROVE x < y <=> x * Q < y * Q
      OBVIOUS
    <3>2. \A u, v \in Nat : u <= v => u * Q <= v * Q
      BY <1>3
    <3>3. x * Q \in Nat /\ y * Q \in Nat /\ (x + 1) * Q = x * Q + Q
      BY <1>3
    <3>4. x < y => x * Q < y * Q
      BY <3>2, <3>3, <1>3, x < y => x + 1 <= y
    <3>. QED
      BY <3>2, <3>3, <3>4
  <2>13. ASSUME NEW i \in 0 .. N - 1
         PROVE  i \in Touched(s, net) <=> aN + i < bK + K /\ bK < aN + i + 1
    BY <2>7, <2>9, <2>11, <2>12, <2>3, <1>3
  <2>14. aN <= bK /\ bK + K <= aN + N
    <3>1. PICK i \in 0 .. N - 1 : i \in Touched(s, net)
      BY <1>4, <2>8 DEF s
    <3>2. aN + i < bK + K /\ bK < aN + i + 1 /\ i \in Nat
      BY <3>1, <2>13, <1>3
    <3>3. CASE A <= B /\ B + D <= A + C
      <4>1. ~(B < A) /\ ~(A + C < B + D)
        BY <3>3, <2>9, <2>11, <1>3, <2>3
      <4>. QED
        BY <4>1, <2>9, <2>11, <2>12, <2>3, <1>3
    <3>4. CASE B + D <= A
      <4>1. ~(A < B + D)
        BY <3>4, <2>9, <2>11, <1>3, <2>3
      <4>2. ~(aN < bK + K)
        BY <4>1, <2>9, <2>11, <2>12, <2>3
      <4>. QED
        BY <4>2, <3>2, <2>9, <2>3
    <3>5. CASE A + C <= B
      <4>1. ~(B < A + C)
        BY <3>5, <2>9, <2>11, <1>3, <2>3
      <4>2. ~(bK < aN + N)
        BY <4>1, <2>9, <2>11, <2>12, <1>3
      <4>. QED
        BY <4>2, <3>1, <3>2, <2>9, <1>3
    <3>. QED
      BY <2>6, <3>3, <3>4, <3>5
  <2>. DEFINE d == b - a * L
              i0 == d * K
  <2>15. d \in Nat /\ bK - aN = i0
    <3>1. a * L \in Nat /\ i0 = bK - aN
      BY <2>3, <2>10 DEF bK
    <3>2. d \in Int /\ i0 >= 0
      BY <3>1, <2>9, <2>14
    <3>. HIDE DEF d
    <3>3. d >= 0
      BY <3>2, <2>3
    <3>. QED
      BY <3>1, <3>2, <3>3
  <2>. HIDE DEF d
  <2>16. i0 \in 0 .. N - 1 /\ i0 \div K = d
    <3>1. i0 \in Nat /\ i0 \in 0 .. N - 1
      BY <2>14, <2>15, <2>9, <2>3, <1>3
    <3>2. d <= i0 \div K /\ i0 \div K <= d
      BY <3>1, <2>3, <2>15, QuotientBounds
    <3>3. i0 \div K \in Nat
      BY <3>1, <2>3, Division
    <3>. QED
      BY <3>1, <3>2, <3>3, <2>15
  <2>. HIDE DEF i0
  <2>17. ASSUME NEW i \in 0 .. N - 1
         PROVE  i \in Touched(s, net) <=> i \div K = i0 \div K
    <3>1. i \in Nat /\ i \div K \in Nat
      BY <1>3, <2>3, Division
    <3>2. i \in Touched(s, net) <=> i < i0 + K /\ i0 <= i
      BY <2>13, <2>15, <2>9, <2>3, <3>1
    <3>3. i0 = d * K
      BY DEF i0
    <3>4. /\ d <= i \div K <=> d * K <= i
          /\ i \div K <= d <=> i < d * K + K
      BY <3>1, <2>3, <2>15, QuotientBounds
    <3>. QED
      BY <3>1, <3>2, <3>3, <3>4, <2>15, <2>16
  <2>18. Touched(s, net) = Alike(i0, k, N)
    BY <2>8, <2>17 DEF Alike, K
  <2>. QED
    BY <1>4, <1>5, <2>1, <2>16, <2>18 DEF s
<1>. QED
  BY <1>6, <1>2, <1>7, <1>8, <1>9
=============================================================================
