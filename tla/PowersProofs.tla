---------------------------- MODULE PowersProofs ----------------------------
(***************************************************************************)
(* Induction and recursion on the numbers, in a form the provers can use    *)
(* (over sets and functions, not operators), and what follows from them of  *)
(* powers of two and of quotients by them.                                  *)
(***************************************************************************)
EXTENDS Powers, Integers, WellFoundedInduction, TLAPS

(* A set that holds 0 and, with a number, the next, holds them all.         *)
LEMMA SetInduction ==
    ASSUME NEW S, 0 \in S, \A n \in Nat : n \in S => n + 1 \in S
    PROVE  Nat \subseteq S
  <1> SUFFICES ASSUME Nat \ S # {} PROVE FALSE
    OBVIOUS
  <1>1. PICK x \in Nat \ S : \A y \in Nat \ S : ~(<<y, x>> \in OpToRel(<, Nat))
    <2> DEFINE T == Nat \ S
    <2>1. T \subseteq Nat /\ T # {}
      OBVIOUS
    <2>2. \E x \in T : \A y \in T : ~(<<y, x>> \in OpToRel(<, Nat))
      <3> HIDE DEF T
      <3> QED
      BY <2>1, NatLessThanWellFounded, WFMin, Zenon
    <2> QED
      BY <2>2, Zenon
  <1>2. \A y \in Nat \ S : ~(y < x)
    BY <1>1 DEF OpToRel
  <1>3. x \in Nat /\ x \notin S
    OBVIOUS
  <1>4. x # 0
    BY <1>3
  <1>5. x - 1 \in Nat /\ x - 1 < x /\ (x - 1) + 1 = x
    BY <1>3, <1>4
  <1>6. x - 1 \in S
    BY <1>2, <1>5
  <1> QED
    BY <1>3, <1>5, <1>6

\* The first m values that a start and a step define, as functions.
Runs(R, init, step, m) ==
    {g \in [0 .. m -> R] :
        g[0] = init /\ \A i \in 0 .. m - 1 : g[i + 1] = step[i][g[i]]}

(* A start and a step define values as far as one likes.                    *)
LEMMA RunExists ==
    ASSUME NEW R, NEW init \in R, NEW step \in [Nat -> [R -> R]]
    PROVE  \A m \in Nat : Runs(R, init, step, m) # {}
  <1> DEFINE S == {m \in Nat : Runs(R, init, step, m) # {}}
  <1>1. 0 \in S
    <2>1. [i \in 0 .. 0 |-> init] \in Runs(R, init, step, 0)
      BY DEF Runs
    <2> QED
      BY <2>1
  <1>2. ASSUME NEW n \in Nat, n \in S PROVE n + 1 \in S
    <2>1. PICK g \in Runs(R, init, step, n) : TRUE
      BY <1>2
    <2> DEFINE h == [i \in 0 .. n + 1 |-> IF i = n + 1 THEN step[n][g[n]] ELSE g[i]]
    <2>2. /\ g \in [0 .. n -> R] /\ g[0] = init
          /\ \A i \in 0 .. n - 1 : g[i + 1] = step[i][g[i]]
      BY <2>1 DEF Runs
    <2>3. step[n][g[n]] \in R
      BY <2>2
    <2>4. h \in [0 .. n + 1 -> R]
      BY <2>2, <2>3
    <2>5. h[0] = init
      BY <2>2
    <2>6. ASSUME NEW i \in 0 .. (n + 1) - 1 PROVE h[i + 1] = step[i][h[i]]
      <3>1. i \in 0 .. n /\ i \in 0 .. n + 1 /\ i + 1 \in 0 .. n + 1 /\ i # n + 1 /\ i + 1 # 0
        BY <2>6
      <3>2. h[i] = g[i]
        BY <3>1
      <3>3. CASE i = n
        BY <3>1, <3>2, <3>3
      <3>4. CASE i # n
        <4>1. i \in 0 .. n - 1 /\ i + 1 # n + 1
          BY <3>1, <3>4
        <4>2. h[i + 1] = g[i + 1]
          BY <3>1, <4>1
        <4> QED
          BY <2>2, <3>2, <4>1, <4>2
      <3> QED
        BY <3>3, <3>4
    <2>7. h \in Runs(R, init, step, n + 1)
      <3> HIDE DEF h
      <3> QED
        BY <2>4, <2>5, <2>6 DEF Runs
    <2> QED
      BY <2>7
  <1>3. Nat \subseteq S
    <2> HIDE DEF S
    <2> QED
      BY <1>1, <1>2, SetInduction
  <1> QED
    BY <1>3

(* Two of these functions agree as far as both go.                          *)
LEMMA RunUnique ==
    ASSUME NEW R, NEW init \in R, NEW step \in [Nat -> [R -> R]],
           NEW m \in Nat, NEW n \in Nat, NEW g \in Runs(R, init, step, m),
           NEW h \in Runs(R, init, step, n)
    PROVE  \A i \in Nat : i <= m /\ i <= n => g[i] = h[i]
  <1> DEFINE S == {i \in Nat : i <= m /\ i <= n => g[i] = h[i]}
  <1>0. /\ g[0] = init /\ h[0] = init
        /\ \A i \in 0 .. m - 1 : g[i + 1] = step[i][g[i]]
        /\ \A i \in 0 .. n - 1 : h[i + 1] = step[i][h[i]]
    BY DEF Runs
  <1>1. 0 \in S
    BY <1>0
  <1>2. ASSUME NEW i \in Nat, i \in S PROVE i + 1 \in S
    <2>1. SUFFICES ASSUME i + 1 <= m, i + 1 <= n PROVE g[i + 1] = h[i + 1]
      OBVIOUS
    <2>2. i \in 0 .. m - 1 /\ i \in 0 .. n - 1 /\ i <= m /\ i <= n
      BY <2>1
    <2>3. g[i] = h[i]
      BY <1>2, <2>2
    <2> QED
      BY <1>0, <2>2, <2>3
  <1>3. Nat \subseteq S
    <2> HIDE DEF S
    <2> QED
      BY <1>1, <1>2, SetInduction
  <1> QED
    BY <1>3

\* The functions that a start and a step define on the numbers.
Solutions(R, init, step) ==
    {f \in [Nat -> R] : f[0] = init /\ \A n \in Nat : f[n + 1] = step[n][f[n]]}

(* Every start and step define a function on the numbers. *)
LEMMA RecursionTheorem ==
    ASSUME NEW R, NEW init \in R, NEW step \in [Nat -> [R -> R]]
    PROVE  Solutions(R, init, step) # {}
  <1> DEFINE G(m) == CHOOSE g \in Runs(R, init, step, m) : TRUE
             f == [m \in Nat |-> G(m)[m]]
  <1>1. ASSUME NEW m \in Nat PROVE G(m) \in Runs(R, init, step, m)
    BY RunExists
  <1>2. ASSUME NEW m \in Nat
        PROVE  /\ G(m) \in [0 .. m -> R] /\ G(m)[0] = init
               /\ \A i \in 0 .. m - 1 : G(m)[i + 1] = step[i][G(m)[i]]
    <2> HIDE DEF G
    <2> QED
      BY <1>1 DEF Runs
  <1>3. f \in [Nat -> R]
    <2>1. ASSUME NEW m \in Nat PROVE G(m)[m] \in R
      <3> HIDE DEF G
      <3> QED
        BY <1>2
    <2> HIDE DEF G
    <2> QED
      BY <2>1
  <1>4. f[0] = init
    <2> HIDE DEF G
    <2> QED
      BY <1>2
  <1>5. ASSUME NEW n \in Nat PROVE f[n + 1] = step[n][f[n]]
    <2> HIDE DEF G
    <2>1. n + 1 \in Nat /\ n \in 0 .. (n + 1) - 1 /\ n <= n /\ n <= n + 1
      OBVIOUS
    <2>2. G(n)[n] = G(n + 1)[n]
      BY <1>1, <2>1, RunUnique
    <2>3. G(n + 1)[n + 1] = step[n][G(n + 1)[n]]
      BY <1>2, <2>1
    <2> QED
      BY <2>1, <2>2, <2>3
  <1> QED
    <2> HIDE DEF f
    <2> QED
      BY <1>3, <1>4, <1>5 DEF Solutions

(* The recursive definition of Pow2 defines a function, and this one.       *)
LEMMA Pow2Facts ==
   /\ Pow2 \in [Nat -> Nat] /\ Pow2[0] = 1 /\ \A n \in Nat : Pow2[n + 1] = 2 * Pow2[n]
  <1> DEFINE step == [n \in Nat |-> [r \in Nat |-> 2 * r]]
             P(f) == f = [n \in Nat |-> IF n = 0 THEN 1 ELSE 2 * f[n - 1]]
  <1>1. PICK f \in [Nat -> Nat] : f[0] = 1 /\ \A n \in Nat : f[n + 1] = step[n][f[n]]
    <2>1. step \in [Nat -> [Nat -> Nat]] /\ 1 \in Nat
      OBVIOUS
    <2> HIDE DEF step
    <2>2. Solutions(Nat, 1, step) # {}
      BY <2>1, RecursionTheorem
    <2> QED
      BY <2>2 DEF Solutions
  <1>2. \A n \in Nat : f[n + 1] = 2 * f[n]
    BY <1>1
  <1>3. ASSUME NEW n \in Nat PROVE f[n] = IF n = 0 THEN 1 ELSE 2 * f[n - 1]
    <2>1. CASE n = 0
      BY <1>1, <2>1
    <2>2. CASE n # 0
      <3>1. n - 1 \in Nat /\ (n - 1) + 1 = n
        BY <2>2
      <3> QED
        BY <1>2, <2>2, <3>1
    <2> QED
      BY <2>1, <2>2
  <1>4. P(f)
    <2>1. f = [n \in Nat |-> f[n]]
      OBVIOUS
    <2> QED
      BY <1>3, <2>1
  <1>5. Pow2 = CHOOSE g : P(g)
    BY DEF Pow2
  <1>6. P(Pow2)
    <2> HIDE DEF P
    <2> QED
      BY <1>4, <1>5
  <1>7. \A n \in Nat : Pow2[n] = IF n = 0 THEN 1 ELSE 2 * Pow2[n - 1]
    BY <1>6
  <1>8. Pow2[0] = 1 /\ \A n \in Nat : Pow2[n + 1] = 2 * Pow2[n]
    BY <1>7
  <1>9. Pow2 \in [Nat -> Nat]
    <2> DEFINE S == {n \in Nat : Pow2[n] \in Nat}
    <2>1. 0 \in S
      BY <1>8
    <2>2. \A n \in Nat : n \in S => n + 1 \in S
      BY <1>8
    <2>3. Nat \subseteq S
      <3> HIDE DEF S
      <3> QED
        BY <2>1, <2>2, SetInduction
    <2>4. \A n \in Nat : Pow2[n] \in Nat
      BY <2>3
    <2>5. Pow2 = [n \in Nat |-> IF n = 0 THEN 1 ELSE 2 * Pow2[n - 1]]
      BY <1>6
    <2>6. Pow2 = [n \in Nat |-> Pow2[n]]
      BY <2>5
    <2> QED
      BY <2>4, <2>6
  <1> QED
    BY <1>8, <1>9

(* A power of two is positive and larger than its exponent.                 *)
LEMMA Pow2Exceeds == \A n \in Nat : Pow2[n] \in Nat /\ Pow2[n] > n
  <1> DEFINE S == {n \in Nat : Pow2[n] \in Nat /\ Pow2[n] > n}
  <1>1. 0 \in S
    BY Pow2Facts
  <1>2. ASSUME NEW n \in Nat, n \in S PROVE n + 1 \in S
    <2>1. Pow2[n + 1] = 2 * Pow2[n] /\ Pow2[n] \in Nat /\ Pow2[n] > n
      BY <1>2, Pow2Facts
    <2> QED
      BY <2>1
  <1>3. Nat \subseteq S
    <2> HIDE DEF S
    <2> QED
      BY <1>1, <1>2, SetInduction
  <1> QED
    BY <1>3

(* Powers multiply as their exponents add.                                  *)
LEMMA Pow2Sum == \A m, n \in Nat : Pow2[m + n] = Pow2[m] * Pow2[n]
  <1> SUFFICES ASSUME NEW m \in Nat PROVE \A n \in Nat : Pow2[m + n] = Pow2[m] * Pow2[n]
    OBVIOUS
  <1> DEFINE S == {n \in Nat : Pow2[m + n] = Pow2[m] * Pow2[n]}
  <1>1. 0 \in S
    BY Pow2Facts
  <1>2. ASSUME NEW n \in Nat, n \in S PROVE n + 1 \in S
    <2>1. Pow2[n + 1] = 2 * Pow2[n] /\ Pow2[n] \in Nat /\ Pow2[m] \in Nat
      BY <1>2, Pow2Facts
    <2>2. Pow2[m + (n + 1)] = 2 * Pow2[m + n]
      <3>1. m + n \in Nat /\ m + (n + 1) = (m + n) + 1
        OBVIOUS
      <3> QED
        BY <3>1, Pow2Facts
    <2>3. Pow2[m + n] = Pow2[m] * Pow2[n]
      BY <1>2
    <2>4. \A a, b \in Nat : 2 * (a * b) = a * (2 * b)
      OBVIOUS
    <2> QED
      BY <2>1, <2>2, <2>3, <2>4
  <1>3. Nat \subseteq S
    <2> HIDE DEF S
    <2> QED
      BY <1>1, <1>2, SetInduction
  <1> QED
    BY <1>3

(* Quotient and remainder.                                                  *)
LEMMA DivMod ==
    ASSUME NEW a \in Nat, NEW b \in Nat, b > 0
    PROVE  /\ a \div b \in Nat /\ a % b \in Nat /\ a % b < b
           /\ a = ((a \div b) * b) + (a % b)
  OBVIOUS

(* Quotient and remainder are the only ones.                                *)
LEMMA DivUnique ==
    ASSUME NEW q \in Nat, NEW r \in Nat, NEW b \in Nat, b > 0, r < b
    PROVE  (q * b + r) \div b = q /\ (q * b + r) % b = r
  OBVIOUS

(* Dividing twice is dividing by the product.                               *)
LEMMA DivDiv ==
    ASSUME NEW a \in Nat, NEW b \in Nat, NEW c \in Nat, b > 0, c > 0
    PROVE  a \div (b * c) = (a \div b) \div c
  OBVIOUS

(* The numbers with one quotient are a block that begins at a multiple.     *)
LEMMA Block ==
    ASSUME NEW a \in Nat, NEW c \in Nat, NEW b \in Nat, b > 0, c % b = 0
    PROVE  a \div b = c \div b <=> c <= a /\ a < c + b
  <1> DEFINE q == c \div b
  <1>1. q \in Nat /\ c = q * b
    BY DivMod
  <1>2. ASSUME a \div b = q PROVE c <= a /\ a < c + b
    <2>1. a % b \in Nat /\ a % b < b /\ a = ((a \div b) * b) + (a % b)
      BY DivMod
    <2> QED
      BY <1>1, <1>2, <2>1
  <1>3. ASSUME c <= a, a < c + b PROVE a \div b = q
    <2>1. a - c \in Nat /\ a - c < b /\ a = q * b + (a - c)
      BY <1>1, <1>3
    <2> HIDE DEF q
    <2> QED
      BY <1>1, <2>1, DivUnique
  <1> QED
    BY <1>2, <1>3

(* A larger power of two is a multiple of a smaller one.                    *)
LEMMA Pow2Split ==
    ASSUME NEW i \in Nat, NEW j \in Nat, i <= j
    PROVE  /\ Pow2[i] \in Nat /\ Pow2[i] > 0 /\ Pow2[j - i] \in Nat /\ Pow2[j - i] > 0
           /\ Pow2[j] = Pow2[i] * Pow2[j - i]
  <1>1. j - i \in Nat /\ i + (j - i) = j
    OBVIOUS
  <1>2. /\ Pow2[i] \in Nat /\ Pow2[i] > i
        /\ Pow2[j - i] \in Nat /\ Pow2[j - i] > j - i
    BY <1>1, Pow2Exceeds
  <1>3. Pow2[i + (j - i)] = Pow2[i] * Pow2[j - i]
    BY <1>1, Pow2Sum
  <1> QED
    BY <1>1, <1>2, <1>3

(* Different exponents have different powers.                               *)
LEMMA Pow2Injective ==
    ASSUME NEW i \in Nat, NEW j \in Nat, Pow2[i] = Pow2[j]
    PROVE  i = j
  <1>1. ASSUME NEW m \in Nat, NEW n \in Nat, m < n PROVE Pow2[m] < Pow2[n]
    <2> DEFINE b == Pow2[m]
               d == Pow2[n - m]
    <2>1. b \in Nat /\ b > 0 /\ d \in Nat /\ Pow2[n] = b * d
      BY <1>1, Pow2Split
    <2>2. d > 1
      <3>1. n - m \in Nat /\ n - m >= 1
        BY <1>1
      <3>2. d \in Nat /\ d > n - m
        BY <3>1, Pow2Exceeds
      <3> HIDE DEF d
      <3> QED
        BY <3>1, <3>2
    <2> HIDE DEF b, d
    <2>3. b * d >= b * 2
      BY <2>1, <2>2
    <2>4. b < Pow2[n]
      BY <2>1, <2>3
    <2> QED
      BY <2>4 DEF b
  <1>2. Pow2[i] \in Nat /\ Pow2[j] \in Nat
    BY Pow2Exceeds
  <1> QED
    BY <1>1, <1>2

(* Numbers in one block of a size are in one block of any larger size.      *)
LEMMA Nested ==
    ASSUME NEW i \in Nat, NEW j \in Nat, i <= j, NEW a \in Nat, NEW c \in Nat,
           a \div Pow2[i] = c \div Pow2[i]
    PROVE  a \div Pow2[j] = c \div Pow2[j]
  <1> DEFINE b == Pow2[i]
             d == Pow2[j - i]
  <1>1. b \in Nat /\ b > 0 /\ d \in Nat /\ d > 0 /\ Pow2[j] = b * d
    BY Pow2Split
  <1>2. a \div b = c \div b
    OBVIOUS
  <1> HIDE DEF b, d
  <1>3. a \div (b * d) = (a \div b) \div d /\ c \div (b * d) = (c \div b) \div d
    BY <1>1, DivDiv
  <1> QED
    BY <1>1, <1>2, <1>3

(* A block that begins below a power of two ends there at the latest.       *)
LEMMA BlockFits ==
    ASSUME NEW i \in Nat, NEW j \in Nat, i <= j, NEW c \in Nat, c < Pow2[j], c % Pow2[i] = 0
    PROVE  c + Pow2[i] <= Pow2[j]
  <1> DEFINE b == Pow2[i]
             d == Pow2[j - i]
             q == c \div b
  <1>1. b \in Nat /\ b > 0 /\ d \in Nat /\ Pow2[j] = b * d
    BY Pow2Split
  <1>0. c % b = 0 /\ c < Pow2[j]
    OBVIOUS
  <1> HIDE DEF b, d
  <1>2. q \in Nat /\ c = q * b
    BY <1>0, <1>1, DivMod
  <1> HIDE DEF q
  <1>3. q < d
    BY <1>0, <1>1, <1>2
  <1>4. (q + 1) * b <= d * b
    BY <1>1, <1>2, <1>3
  <1>5. c + b <= Pow2[j]
    BY <1>1, <1>2, <1>4
  <1> QED
    BY <1>5 DEF b
=============================================================================
