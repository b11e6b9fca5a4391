--------------------------- MODULE PredictorLemmas ---------------------------
(***************************************************************************)
(* Facts about the operators the predictors are built from, and about what *)
(* the part that the six tools share does to the totals, whatever the      *)
(* predictor.  The theorems of the predictors cite them.                   *)
(***************************************************************************)
EXTENDS PinTool, SaturatingCounter, HistoryIndex, Perceptron, Gehl,
        SequenceTheorems, WellFoundedInduction, TLAPS

(***************************************************************************)
(* Induction, for a set instead of the operator parameter of the library's *)
(* theorem: a set of numbers that holds 0 and every successor holds all.   *)
(***************************************************************************)

LEMMA NatWellFounded == IsWellFoundedOn({ss \in Nat \X Nat : ss[1] < ss[2]}, Nat)
BY Zenon, NatLessThanWellFounded DEF OpToRel

LEMMA SetInduction ==
  ASSUME NEW S, 0 \in S, \A n \in Nat : n \in S => n + 1 \in S
  PROVE  Nat \subseteq S
<1> DEFINE R == {ss \in Nat \X Nat : ss[1] < ss[2]}
           T == Nat \ S
<1>1. SUFFICES ASSUME T # {} PROVE FALSE  OBVIOUS
<1>2. T \subseteq Nat OBVIOUS
<1>3. IsWellFoundedOn(R, Nat) BY NatWellFounded
<1>4. PICK x \in T : \A y \in T : ~ (<<y, x>> \in R)
  <2> HIDE DEF R, T
  <2> QED BY <1>1, <1>2, <1>3, WFMin
<1>5. x \in Nat /\ x # 0 OBVIOUS
<1>6. x - 1 \in Nat /\ x - 1 < x /\ (x - 1) + 1 = x BY <1>5
<1>7. <<x - 1, x>> \in R BY <1>6, <1>5
<1>8. x - 1 \in S BY <1>4, <1>6, <1>7
<1> QED BY <1>6, <1>8

-----------------------------------------------------------------------------
(***************************************************************************)
(* SumBelow: its two recursion equations.                                  *)
(***************************************************************************)

IsSum(s, f, n) == s = [i \in 0 .. n |-> IF i = 0 THEN 0 ELSE s[i - 1] + f[i - 1]]

LEMMA SumExists == ASSUME NEW f, NEW n \in Nat PROVE \E s : IsSum(s, f, n)
<1> DEFINE S == {m \in Nat : \E s : IsSum(s, f, m)}
<1>1. 0 \in S
  <2>1. IsSum([i \in 0 .. 0 |-> 0], f, 0) BY DEF IsSum
  <2> QED BY <2>1
<1>2. ASSUME NEW m \in Nat, m \in S PROVE m + 1 \in S
  <2>1. PICK s : IsSum(s, f, m) BY <1>2
  <2> DEFINE t == [i \in 0 .. m + 1 |-> IF i <= m THEN s[i] ELSE s[m] + f[m]]
  <2>2. ASSUME NEW i \in 0 .. m + 1
        PROVE  t[i] = IF i = 0 THEN 0 ELSE t[i - 1] + f[i - 1]
    <3>1. CASE i = 0 BY <3>1, <2>1 DEF IsSum
    <3>2. CASE i # 0 /\ i <= m
      <4>1. i \in 0 .. m /\ i - 1 \in 0 .. m + 1 /\ i - 1 <= m BY <3>2
      <4>2. s[i] = s[i - 1] + f[i - 1] BY <2>1, <3>2, <4>1 DEF IsSum
      <4>3. t[i] = s[i] /\ t[i - 1] = s[i - 1] BY <4>1, <3>2
      <4> QED BY <4>2, <4>3, <3>2
    <3>3. CASE i = m + 1
      <4>1. i # 0 /\ i - 1 = m /\ ~(i <= m) /\ m \in 0 .. m + 1 BY <3>3
      <4>2. t[i] = s[m] + f[m] /\ t[m] = s[m] BY <4>1
      <4> QED BY <4>1, <4>2
    <3> QED BY <3>1, <3>2, <3>3
  <2>3. t = [i \in 0 .. m + 1 |-> IF i = 0 THEN 0 ELSE t[i - 1] + f[i - 1]]
    BY <2>2
  <2>4. IsSum(t, f, m + 1) BY <2>3 DEF IsSum
  <2> QED BY <2>4
<1>3. Nat \subseteq S
  <2> HIDE DEF S
  <2> QED BY <1>1, <1>2, SetInduction
<1> QED BY <1>3

LEMMA SumsAgree ==
  ASSUME NEW f, NEW m \in Nat, NEW n \in Nat, NEW s, NEW t,
         IsSum(s, f, m), IsSum(t, f, n),
         NEW k \in Nat, k <= m, k <= n
  PROVE  s[k] = t[k]
<1> DEFINE S == {i \in Nat : i <= m /\ i <= n => s[i] = t[i]}
<1>1. 0 \in S BY DEF IsSum
<1>2. ASSUME NEW i \in Nat, i \in S PROVE i + 1 \in S
  <2>1. SUFFICES ASSUME i + 1 <= m, i + 1 <= n PROVE s[i + 1] = t[i + 1] OBVIOUS
  <2>2. i + 1 \in 0 .. m /\ i + 1 \in 0 .. n /\ (i + 1) - 1 = i /\ i + 1 # 0 BY <2>1
  <2>3. s[i + 1] = s[i] + f[i] BY <2>2 DEF IsSum
  <2>4. t[i + 1] = t[i] + f[i] BY <2>2 DEF IsSum
  <2>5. s[i] = t[i] BY <1>2, <2>1
  <2> QED BY <2>3, <2>4, <2>5
<1>3. Nat \subseteq S
  <2> HIDE DEF S
  <2> QED BY <1>1, <1>2, SetInduction
<1> QED BY <1>3

LEMMA SumIs ==
  ASSUME NEW f, NEW n \in Nat
  PROVE  \E s : IsSum(s, f, n) /\ SumBelow(f, n) = s[n]
<1> DEFINE s == CHOOSE s : IsSum(s, f, n)
<1>1. IsSum(s, f, n) BY SumExists
<1>2. SumBelow(f, n) = s[n] BY DEF SumBelow, IsSum
<1> QED BY <1>1, <1>2

LEMMA SumRecursion ==
  ASSUME NEW f
  PROVE  /\ SumBelow(f, 0) = 0
         /\ \A n \in Nat : SumBelow(f, n + 1) = SumBelow(f, n) + f[n]
<1>1. SumBelow(f, 0) = 0
  <2>1. PICK s : IsSum(s, f, 0) /\ SumBelow(f, 0) = s[0] BY SumIs
  <2> QED BY <2>1 DEF IsSum
<1>2. ASSUME NEW n \in Nat PROVE SumBelow(f, n + 1) = SumBelow(f, n) + f[n]
  <2>1. PICK s : IsSum(s, f, n) /\ SumBelow(f, n) = s[n] BY SumIs
  <2>2. PICK t : IsSum(t, f, n + 1) /\ SumBelow(f, n + 1) = t[n + 1] BY SumIs
  <2>3. s[n] = t[n] BY <2>1, <2>2, SumsAgree
  <2>4. n + 1 \in 0 .. n + 1 /\ (n + 1) - 1 = n /\ n + 1 # 0 OBVIOUS
  <2>5. t[n + 1] = t[n] + f[n] BY <2>2, <2>4 DEF IsSum
  <2> QED BY <2>1, <2>2, <2>3, <2>5
<1> QED BY <1>1, <1>2

(***************************************************************************)
(* What sums are used for: their type, that changing one summand changes   *)
(* the sum by the same amount, and that a sum of naturals is a natural.    *)
(***************************************************************************)

LEMMA SumType ==
  ASSUME NEW n \in Nat, NEW f, \A i \in 0 .. n - 1 : f[i] \in Int
  PROVE  SumBelow(f, n) \in Int
<1> DEFINE S == {m \in Nat : m <= n => SumBelow(f, m) \in Int}
<1>1. 0 \in S BY SumRecursion
<1>2. ASSUME NEW m \in Nat, m \in S PROVE m + 1 \in S
  <2>1. SUFFICES ASSUME m + 1 <= n PROVE SumBelow(f, m + 1) \in Int OBVIOUS
  <2>2. SumBelow(f, m) \in Int /\ f[m] \in Int BY <1>2, <2>1
  <2> QED BY <2>2, SumRecursion
<1>3. Nat \subseteq S
  <2> HIDE DEF S
  <2> QED BY <1>1, <1>2, SetInduction
<1> QED BY <1>3

LEMMA SumNatural ==
  ASSUME NEW n \in Nat, NEW f, \A i \in 0 .. n - 1 : f[i] \in Nat
  PROVE  SumBelow(f, n) \in Nat
<1> DEFINE S == {m \in Nat : m <= n => SumBelow(f, m) \in Nat}
<1>1. 0 \in S BY SumRecursion
<1>2. ASSUME NEW m \in Nat, m \in S PROVE m + 1 \in S
  <2>1. SUFFICES ASSUME m + 1 <= n PROVE SumBelow(f, m + 1) \in Nat OBVIOUS
  <2>2. SumBelow(f, m) \in Nat /\ f[m] \in Nat BY <1>2, <2>1
  <2> QED BY <2>2, SumRecursion
<1>3. Nat \subseteq S
  <2> HIDE DEF S
  <2> QED BY <1>1, <1>2, SetInduction
<1> QED BY <1>3

LEMMA SumMonotone ==
  ASSUME NEW n \in Nat, NEW f, NEW g,
         \A i \in 0 .. n - 1 : f[i] \in Int /\ g[i] \in Int /\ f[i] <= g[i]
  PROVE  SumBelow(f, n) <= SumBelow(g, n)
<1> DEFINE S == {m \in Nat : m <= n =>
                   /\ SumBelow(f, m) \in Int /\ SumBelow(g, m) \in Int
                   /\ SumBelow(f, m) <= SumBelow(g, m)}
<1>1. 0 \in S BY SumRecursion
<1>2. ASSUME NEW m \in Nat, m \in S PROVE m + 1 \in S
  <2>1. CASE m + 1 <= n
    <3>1. /\ SumBelow(f, m + 1) = SumBelow(f, m) + f[m]
          /\ SumBelow(g, m + 1) = SumBelow(g, m) + g[m]
      BY SumRecursion
    <3>2. m \in 0 .. n - 1 /\ m <= n BY <2>1
    <3> QED BY <1>2, <3>1, <3>2
  <2>2. CASE ~(m + 1 <= n) BY <2>2
  <2> QED BY <2>1, <2>2
<1>3. Nat \subseteq S
  <2> HIDE DEF S
  <2> QED BY <1>1, <1>2, SetInduction
<1>4. n \in S BY <1>3
<1> QED BY <1>4

LEMMA SumOfEqual ==
  ASSUME NEW n \in Nat, NEW f, NEW c \in Int, \A i \in 0 .. n - 1 : f[i] = c
  PROVE  SumBelow(f, n) = n * c
<1> DEFINE S == {m \in Nat : m <= n => SumBelow(f, m) = m * c}
<1>1. 0 \in S BY SumRecursion
<1>2. ASSUME NEW m \in Nat, m \in S PROVE m + 1 \in S
  <2>1. CASE m + 1 <= n
    <3>1. SumBelow(f, m + 1) = SumBelow(f, m) + f[m] BY SumRecursion
    <3>2. m \in 0 .. n - 1 /\ m <= n BY <2>1
    <3>3. f[m] = c /\ SumBelow(f, m) = m * c BY <1>2, <3>2
    <3>4. (m + 1) * c = m * c + c OBVIOUS
    <3> QED BY <3>1, <3>3, <3>4
  <2>2. CASE ~(m + 1 <= n) BY <2>2
  <2> QED BY <2>1, <2>2
<1>3. Nat \subseteq S
  <2> HIDE DEF S
  <2> QED BY <1>1, <1>2, SetInduction
<1>4. n \in S BY <1>3
<1> QED BY <1>4

LEMMA SumShift ==
  ASSUME NEW n \in Nat, NEW f, NEW g, NEW c \in Int,
         \A i \in 0 .. n - 1 : f[i] \in Int /\ g[i] = f[i] + c
  PROVE  SumBelow(g, n) = SumBelow(f, n) + n * c
<1> DEFINE S == {m \in Nat : m <= n =>
                   /\ SumBelow(f, m) \in Int
                   /\ SumBelow(g, m) = SumBelow(f, m) + m * c}
<1>1. 0 \in S BY SumRecursion
<1>2. ASSUME NEW m \in Nat, m \in S PROVE m + 1 \in S
  <2>1. CASE m + 1 <= n
    <3>1. /\ SumBelow(f, m + 1) = SumBelow(f, m) + f[m]
          /\ SumBelow(g, m + 1) = SumBelow(g, m) + g[m]
      BY SumRecursion
    <3>2. m \in 0 .. n - 1 /\ m <= n BY <2>1
    <3>3. /\ f[m] \in Int /\ g[m] = f[m] + c
          /\ SumBelow(f, m) \in Int /\ SumBelow(g, m) = SumBelow(f, m) + m * c
      BY <1>2, <3>2
    <3>4. (m + 1) * c = m * c + c /\ m * c \in Int OBVIOUS
    <3> QED BY <3>1, <3>3, <3>4
  <2>2. CASE ~(m + 1 <= n) BY <2>2
  <2> QED BY <2>1, <2>2
<1>3. Nat \subseteq S
  <2> HIDE DEF S
  <2> QED BY <1>1, <1>2, SetInduction
<1>4. n \in S BY <1>3
<1> QED BY <1>4

LEMMA SumChange ==
  ASSUME NEW n \in Nat, NEW f, NEW g, NEW k \in 0 .. n - 1,
         \A i \in 0 .. n - 1 : f[i] \in Int /\ g[i] \in Int,
         \A i \in 0 .. n - 1 : i # k => f[i] = g[i]
  PROVE  SumBelow(g, n) = SumBelow(f, n) + (g[k] - f[k])
<1> DEFINE S == {m \in Nat : m <= n =>
                   /\ SumBelow(f, m) \in Int
                   /\ SumBelow(g, m) =
                        IF m <= k THEN SumBelow(f, m)
                                  ELSE SumBelow(f, m) + (g[k] - f[k])}
<1>1. 0 \in S BY SumRecursion
<1>2. ASSUME NEW m \in Nat, m \in S PROVE m + 1 \in S
  <2>1. SUFFICES ASSUME m + 1 <= n PROVE m + 1 \in S OBVIOUS
  <2>2. /\ SumBelow(f, m) \in Int /\ f[m] \in Int /\ g[m] \in Int
        /\ f[k] \in Int /\ g[k] \in Int
        /\ SumBelow(g, m) =
             IF m <= k THEN SumBelow(f, m) ELSE SumBelow(f, m) + (g[k] - f[k])
    BY <1>2, <2>1
  <2>3. /\ SumBelow(f, m + 1) = SumBelow(f, m) + f[m]
        /\ SumBelow(g, m + 1) = SumBelow(g, m) + g[m]
    BY SumRecursion
  <2>4. m # k => f[m] = g[m] BY <2>1
  <2> QED BY <2>2, <2>3, <2>4
<1>3. Nat \subseteq S
  <2> HIDE DEF S
  <2> QED BY <1>1, <1>2, SetInduction
<1> QED BY <1>3

-----------------------------------------------------------------------------
(***************************************************************************)
(* pow2: its recursion equations, and that it is positive.                 *)
(***************************************************************************)

IsPower(p, n) == p = [i \in 0 .. n |-> IF i = 0 THEN 1 ELSE 2 * p[i - 1]]

LEMMA PowerExists == ASSUME NEW n \in Nat PROVE \E p : IsPower(p, n)
<1> DEFINE S == {m \in Nat : \E p : IsPower(p, m)}
<1>1. 0 \in S
  <2>1. IsPower([i \in 0 .. 0 |-> 1], 0) BY DEF IsPower
  <2> QED BY <2>1
<1>2. ASSUME NEW m \in Nat, m \in S PROVE m + 1 \in S
  <2>1. PICK p : IsPower(p, m) BY <1>2
  <2> DEFINE q == [i \in 0 .. m + 1 |-> IF i <= m THEN p[i] ELSE 2 * p[m]]
  <2>2. ASSUME NEW i \in 0 .. m + 1
        PROVE  q[i] = IF i = 0 THEN 1 ELSE 2 * q[i - 1]
    <3>1. CASE i = 0 BY <3>1, <2>1 DEF IsPower
    <3>2. CASE i # 0 /\ i <= m
      <4>1. i \in 0 .. m /\ i - 1 \in 0 .. m + 1 /\ i - 1 <= m BY <3>2
      <4>2. p[i] = 2 * p[i - 1] BY <2>1, <3>2, <4>1 DEF IsPower
      <4>3. q[i] = p[i] /\ q[i - 1] = p[i - 1] BY <4>1, <3>2
      <4> QED BY <4>2, <4>3, <3>2
    <3>3. CASE i = m + 1
      <4>1. i # 0 /\ i - 1 = m /\ ~(i <= m) /\ m \in 0 .. m + 1 BY <3>3
      <4>2. q[i] = 2 * p[m] /\ q[m] = p[m] BY <4>1
      <4> QED BY <4>1, <4>2
    <3> QED BY <3>1, <3>2, <3>3
  <2>3. q = [i \in 0 .. m + 1 |-> IF i = 0 THEN 1 ELSE 2 * q[i - 1]]
    BY <2>2
  <2>4. IsPower(q, m + 1) BY <2>3 DEF IsPower
  <2> QED BY <2>4
<1>3. Nat \subseteq S
  <2> HIDE DEF S
  <2> QED BY <1>1, <1>2, SetInduction
<1> QED BY <1>3

LEMMA PowersAgree ==
  ASSUME NEW n \in Nat, NEW p, NEW q, IsPower(p, n), IsPower(q, n + 1)
  PROVE  p[n] = q[n]
<1> DEFINE S == {i \in Nat : i <= n => p[i] = q[i]}
<1>1. 0 \in S BY DEF IsPower
<1>2. ASSUME NEW i \in Nat, i \in S PROVE i + 1 \in S
  <2>1. SUFFICES ASSUME i + 1 <= n PROVE p[i + 1] = q[i + 1] OBVIOUS
  <2>2. i + 1 \in 0 .. n /\ i + 1 \in 0 .. n + 1 /\ (i + 1) - 1 = i /\ i + 1 # 0
    BY <2>1
  <2>3. p[i + 1] = 2 * p[i] BY <2>2 DEF IsPower
  <2>4. q[i + 1] = 2 * q[i] BY <2>2 DEF IsPower
  <2> QED BY <1>2, <2>1, <2>3, <2>4
<1>3. Nat \subseteq S
  <2> HIDE DEF S
  <2> QED BY <1>1, <1>2, SetInduction
<1> QED BY <1>3

LEMMA PowerIs ==
  ASSUME NEW n \in Nat
  PROVE  \E p : IsPower(p, n) /\ pow2(n) = p[n]
<1> DEFINE p == CHOOSE p : IsPower(p, n)
<1>1. IsPower(p, n) BY PowerExists
<1>2. pow2(n) = p[n] BY DEF pow2, IsPower
<1> QED BY <1>1, <1>2

LEMMA PowerRecursion ==
  /\ pow2(0) = 1
  /\ \A n \in Nat : pow2(n + 1) = 2 * pow2(n)
<1>1. pow2(0) = 1
  <2>1. PICK p : IsPower(p, 0) /\ pow2(0) = p[0] BY PowerIs
  <2> QED BY <2>1 DEF IsPower
<1>2. ASSUME NEW n \in Nat PROVE pow2(n + 1) = 2 * pow2(n)
  <2>1. PICK p : IsPower(p, n) /\ pow2(n) = p[n] BY PowerIs
  <2>2. PICK q : IsPower(q, n + 1) /\ pow2(n + 1) = q[n + 1] BY PowerIs
  <2>3. p[n] = q[n] BY <2>1, <2>2, PowersAgree
  <2>4. n + 1 \in 0 .. n + 1 /\ (n + 1) - 1 = n /\ n + 1 # 0 OBVIOUS
  <2>5. q[n + 1] = 2 * q[n] BY <2>2, <2>4 DEF IsPower
  <2> QED BY <2>1, <2>2, <2>3, <2>5
<1> QED BY <1>1, <1>2

LEMMA PowerPositive == ASSUME NEW n \in Nat PROVE pow2(n) \in Nat \ {0}
<1> DEFINE S == {m \in Nat : pow2(m) \in Nat \ {0}}
<1>1. 0 \in S BY PowerRecursion
<1>2. ASSUME NEW m \in Nat, m \in S PROVE m + 1 \in S BY <1>2, PowerRecursion
<1>3. Nat \subseteq S
  <2> HIDE DEF S
  <2> QED BY <1>1, <1>2, SetInduction
<1> QED BY <1>3

\* One bit more doubles the table.
LEMMA PowerHalf ==
  ASSUME NEW n \in Nat \ {0}
  PROVE  pow2(n - 1) \in Nat \ {0} /\ pow2(n) = 2 * pow2(n - 1)
<1>1. n - 1 \in Nat /\ (n - 1) + 1 = n OBVIOUS
<1> QED BY <1>1, PowerRecursion, PowerPositive

LEMMA PowerMonotone ==
  ASSUME NEW i \in Nat, NEW n \in Nat, i <= n
  PROVE  pow2(i) <= pow2(n)
<1> DEFINE S == {m \in Nat : pow2(i) <= pow2(i + m)}
<1>1. 0 \in S BY PowerPositive
<1>2. ASSUME NEW m \in Nat, m \in S PROVE m + 1 \in S
  <2>1. i + m \in Nat /\ i + (m + 1) = (i + m) + 1 OBVIOUS
  <2>2. pow2(i + (m + 1)) = 2 * pow2(i + m) /\ pow2(i + m) \in Nat /\ pow2(i) \in Nat
    BY <2>1, PowerRecursion, PowerPositive
  <2> QED BY <1>2, <2>2
<1>3. Nat \subseteq S
  <2> HIDE DEF S
  <2> QED BY <1>1, <1>2, SetInduction
<1>4. n - i \in S /\ i + (n - i) = n BY <1>3
<1> QED BY <1>4

-----------------------------------------------------------------------------
(***************************************************************************)
(* PackBits of n cells is an index of a table of 1 << n entries.           *)
(***************************************************************************)

LEMMA PackBitsRange ==
  ASSUME NEW n \in Nat, NEW h
  PROVE  PackBits(h, n) \in 0 .. pow2(n) - 1
<1> DEFINE f == [i \in 0 .. n - 1 |-> IF h[i] THEN pow2(i) ELSE 0]
           S == {m \in Nat : m <= n => SumBelow(f, m) \in 0 .. pow2(m) - 1}
<1>1. 0 \in S BY SumRecursion, PowerRecursion
<1>2. ASSUME NEW m \in Nat, m \in S PROVE m + 1 \in S
  <2>1. SUFFICES ASSUME m + 1 <= n PROVE SumBelow(f, m + 1) \in 0 .. pow2(m + 1) - 1
    OBVIOUS
  <2>2. SumBelow(f, m) \in 0 .. pow2(m) - 1 BY <1>2, <2>1
  <2>3. pow2(m) \in Nat \ {0} BY PowerPositive
  <2>4. f[m] = pow2(m) \/ f[m] = 0 BY <2>1
  <2>5. SumBelow(f, m + 1) = SumBelow(f, m) + f[m] BY SumRecursion
  <2>6. pow2(m + 1) = 2 * pow2(m) BY PowerRecursion
  <2> HIDE DEF f
  <2> QED BY <2>2, <2>3, <2>4, <2>5, <2>6
<1>3. Nat \subseteq S
  <2> HIDE DEF S
  <2> QED BY <1>1, <1>2, SetInduction
<1>4. n \in S BY <1>3
<1>5. SumBelow(f, n) \in 0 .. pow2(n) - 1
  <2> HIDE DEF f
  <2> QED BY <1>4
<1> QED BY <1>5 DEF PackBits

-----------------------------------------------------------------------------
(***************************************************************************)
(* The saturating counter.                                                 *)
(***************************************************************************)

LEMMA SaturatingNumPositive ==
  ASSUME NEW bits \in Nat \ {0}
  PROVE  SaturatingNum(bits) \in Nat \ {0}
<1>1. pow2(bits - 1) \in Nat \ {0} /\ pow2(bits) = 2 * pow2(bits - 1) BY PowerHalf
<1>2. \A k \in Nat : (2 * k) \div 2 = k OBVIOUS
<1> QED BY <1>1, <1>2 DEF SaturatingNum

\* Training keeps a counter in its range and never leaves it at 0, and a
\* counter that changes its mind does so between -1 and 1.
LEMMA TrainCounter ==
  ASSUME NEW max \in Nat \ {0}, NEW c \in -max .. max, c # 0, NEW taken \in BOOLEAN
  PROVE  /\ Train(c, taken, max) \in -max .. max
         /\ Train(c, taken, max) # 0
         /\ Predict(Train(c, taken, max)) # Predict(c)
              => \/ c = -1 /\ Train(c, taken, max) = 1
                 \/ c = 1 /\ Train(c, taken, max) = -1
<1>1. CASE taken BY <1>1 DEF Train, Clamp, Predict
<1>2. CASE ~taken BY <1>2 DEF Train, Clamp, Predict
<1> QED BY <1>1, <1>2

Beyond(c, taken, max) == {l \in (-max .. max) \ {0} : IF taken THEN l > c ELSE l < c}

Closest(c, levels) ==
  CHOOSE l \in levels : \A m \in levels : (m - c) * (m - c) >= (l - c) * (l - c)

\* Training goes to the nearest level beyond, as ContextMemory has it; 0, where
\* no training leaves a counter, is no level.
LEMMA TrainedIsNearest ==
  ASSUME NEW max \in Nat \ {0}, NEW c \in -max .. max, NEW taken \in BOOLEAN
  PROVE  Train(c, taken, max) =
           IF Beyond(c, taken, max) = {} THEN c ELSE Closest(c, Beyond(c, taken, max))
<1> SUFFICES ASSUME NEW beyond,
                    beyond = {l \in (-max .. max) \ {0} : IF taken THEN l > c ELSE l < c}
             PROVE  Train(c, taken, max) = IF beyond = {} THEN c ELSE Closest(c, beyond)
  BY DEF Beyond
<1> DEFINE t == Train(c, taken, max)
<1>1. /\ t \in Int
      /\ beyond = {} => t = c
      /\ beyond # {} => t \in beyond
      /\ \A l \in beyond : IF taken THEN c < t /\ t <= l ELSE l <= t /\ t < c
  <2> USE DEF Train, Clamp
  <2>1. CASE taken
    <3>1. t = IF c = -1 THEN 1 ELSE IF c = max THEN c ELSE c + 1 BY <2>1
    <3> HIDE DEF t
    <3>2. c < max => t \in beyond BY <2>1, <3>1
    <3>3. c = max => beyond = {} BY <2>1
    <3>4. \A l \in beyond : l \in Int /\ l # 0 /\ l > c BY <2>1
    <3> QED BY <2>1, <3>1, <3>2, <3>3, <3>4
  <2>2. CASE ~taken
    <3>1. t = IF c = 1 THEN -1 ELSE IF c = -max THEN c ELSE c - 1 BY <2>2
    <3> HIDE DEF t
    <3>2. c > -max => t \in beyond BY <2>2, <3>1
    <3>3. c = -max => beyond = {} BY <2>2
    <3>4. \A l \in beyond : l \in Int /\ l # 0 /\ l < c BY <2>2
    <3>5. t \in Int /\ (c = -max => t = c) BY <3>1
    <3>6. ASSUME NEW l \in beyond PROVE l <= t /\ t < c
      <4>1. l \in Int /\ l # 0 /\ l < c /\ c > -max BY <3>3, <3>4
      <4> QED BY <3>1, <4>1
    <3>7. c = -max \/ c > -max OBVIOUS
    <3> QED BY <2>2, <3>2, <3>3, <3>5, <3>6, <3>7
  <2> QED BY <2>1, <2>2
<1> HIDE DEF t
<1>2. CASE beyond = {} BY <1>1, <1>2 DEF t
<1>3. CASE beyond # {}
  <2> DEFINE Near(l) == \A m \in beyond : (m - c) * (m - c) >= (l - c) * (l - c)
  <2>1. ASSUME NEW a \in Nat, NEW b \in Nat PROVE a >= b <=> a * a >= b * b
    <3>1. a >= b => a * a >= b * b OBVIOUS
    <3>2. a < b => a * a < b * b OBVIOUS
    <3> QED BY <3>1, <3>2
  <2>2. ASSUME NEW l \in beyond, NEW m \in beyond
        PROVE  (m - c) * (m - c) >= (l - c) * (l - c) <=> IF taken THEN m >= l ELSE m <= l
    <3>1. l \in Int /\ m \in Int /\ c \in Int OBVIOUS
    <3>2. CASE taken
      <4>1. m - c \in Nat /\ l - c \in Nat BY <3>1, <3>2
      <4>2. m - c >= l - c <=> (m - c) * (m - c) >= (l - c) * (l - c) BY <4>1, <2>1
      <4> QED BY <3>1, <3>2, <4>2
    <3>3. CASE ~taken
      <4>1. c - m \in Nat /\ c - l \in Nat BY <3>1, <3>3
      <4>2. c - m >= c - l <=> (c - m) * (c - m) >= (c - l) * (c - l) BY <4>1, <2>1
      <4>3. /\ (c - m) * (c - m) = (m - c) * (m - c)
            /\ (c - l) * (c - l) = (l - c) * (l - c)
        BY <3>1
      <4> QED BY <3>1, <3>3, <4>2, <4>3
    <3> QED BY <3>2, <3>3
  <2>3. t \in beyond /\ Near(t) BY <1>1, <1>3, <2>2
  <2>4. ASSUME NEW l \in beyond, Near(l) PROVE l = t
    <3>1. (t - c) * (t - c) >= (l - c) * (l - c) BY <2>3, <2>4
    <3>2. IF taken THEN t >= l ELSE t <= l BY <2>2, <2>3, <3>1
    <3>3. l \in Int OBVIOUS
    <3> QED BY <1>1, <3>2, <3>3
  <2> HIDE DEF Near
  <2>5. t = CHOOSE l \in beyond : Near(l) BY <2>3, <2>4
  <2>6. t = Closest(c, beyond) BY <2>5 DEF Near, Closest
  <2> QED BY <1>3, <2>6 DEF t
<1> QED BY <1>2, <1>3

-----------------------------------------------------------------------------
(***************************************************************************)
(* A table by contexts and a history as a sequence (HistoryIndex).         *)
(***************************************************************************)

\* Append(Tail(q), x), cell by cell.
LEMMA Rotation ==
  ASSUME NEW n \in Nat \ {0}, NEW S, NEW q \in [1 .. n -> S], NEW x \in S
  PROVE  Append(Tail(q), x) = [i \in 1 .. n |-> IF i < n THEN q[i + 1] ELSE x]
<1>1. q \in Seq(S) /\ Len(q) = n /\ q # << >>
  <2>1. q \in Seq(S) BY SeqDef
  <2>2. Len(q) = n BY <2>1, LenProperties
  <2> QED BY <2>1, <2>2, EmptySeq
<1>2. /\ Tail(q) \in Seq(S) /\ Len(Tail(q)) = n - 1
      /\ \A i \in 1 .. Len(q) - 1 : Tail(q)[i] = q[i + 1]
  BY <1>1, HeadTailProperties
<1> DEFINE t == Tail(q)
<1> HIDE DEF t
<1>3. /\ t \in Seq(S) /\ Len(t) = n - 1
      /\ \A i \in 1 .. n - 1 : t[i] = q[i + 1]
  BY <1>1, <1>2 DEF t
<1>4. /\ Append(t, x) \in Seq(S) /\ Len(Append(t, x)) = n
      /\ \A i \in 1 .. n - 1 : Append(t, x)[i] = t[i]
      /\ Append(t, x)[n] = x
  BY <1>3, AppendProperties
<1>5. Append(t, x) \in [1 .. n -> S] BY <1>4, LenProperties
<1>6. \A i \in 1 .. n : Append(t, x)[i] = IF i < n THEN q[i + 1] ELSE x
  BY <1>3, <1>4
<1>7. Append(t, x) = [i \in 1 .. n |-> IF i < n THEN q[i + 1] ELSE x]
  <2> DEFINE a == Append(t, x)
  <2>1. a \in [1 .. n -> S] /\ \A i \in 1 .. n : a[i] = IF i < n THEN q[i + 1] ELSE x
    BY <1>5, <1>6
  <2> HIDE DEF a
  <2>2. a = [i \in 1 .. n |-> IF i < n THEN q[i + 1] ELSE x] BY <2>1
  <2> QED BY <2>2 DEF a
<1> QED BY <1>7 DEF t

\* Different outcomes have different indices.
LEMMA PackBitsInjective ==
  ASSUME NEW n \in Nat, NEW g, NEW h,
         \A i \in 0 .. n - 1 : g[i] \in BOOLEAN /\ h[i] \in BOOLEAN
  PROVE  PackBits(g, n) = PackBits(h, n) <=> \A i \in 0 .. n - 1 : g[i] = h[i]
<1> DEFINE a == [i \in 0 .. n - 1 |-> IF g[i] THEN pow2(i) ELSE 0]
           b == [i \in 0 .. n - 1 |-> IF h[i] THEN pow2(i) ELSE 0]
           S == {m \in Nat : m <= n =>
                   /\ SumBelow(a, m) \in 0 .. pow2(m) - 1
                   /\ SumBelow(b, m) \in 0 .. pow2(m) - 1
                   /\ SumBelow(a, m) = SumBelow(b, m) <=> \A i \in 0 .. m - 1 : g[i] = h[i]}
<1>1. 0 \in S BY SumRecursion, PowerRecursion
<1>2. ASSUME NEW m \in Nat, m \in S PROVE m + 1 \in S
  <2>1. SUFFICES ASSUME m + 1 <= n PROVE m + 1 \in S OBVIOUS
  <2>2. /\ SumBelow(a, m) \in 0 .. pow2(m) - 1
        /\ SumBelow(b, m) \in 0 .. pow2(m) - 1
        /\ SumBelow(a, m) = SumBelow(b, m) <=> \A i \in 0 .. m - 1 : g[i] = h[i]
    BY <1>2, <2>1
  <2>3. pow2(m) \in Nat \ {0} /\ pow2(m + 1) = 2 * pow2(m)
    BY PowerPositive, PowerRecursion
  <2>4. /\ SumBelow(a, m + 1) = SumBelow(a, m) + a[m]
        /\ SumBelow(b, m + 1) = SumBelow(b, m) + b[m]
    BY SumRecursion
  <2>5. /\ a[m] = IF g[m] THEN pow2(m) ELSE 0
        /\ b[m] = IF h[m] THEN pow2(m) ELSE 0
        /\ g[m] \in BOOLEAN /\ h[m] \in BOOLEAN
    BY <2>1
  <2>6. (\A i \in 0 .. m : g[i] = h[i]) <=> g[m] = h[m] /\ \A i \in 0 .. m - 1 : g[i] = h[i]
    <3>1. \A i \in 0 .. m : i = m \/ i \in 0 .. m - 1 OBVIOUS
    <3>2. m \in 0 .. m /\ \A i \in 0 .. m - 1 : i \in 0 .. m OBVIOUS
    <3> QED BY <3>1, <3>2
  <2> HIDE DEF a, b
  <2>7. /\ SumBelow(a, m + 1) \in 0 .. pow2(m + 1) - 1
        /\ SumBelow(b, m + 1) \in 0 .. pow2(m + 1) - 1
    BY <2>2, <2>3, <2>4, <2>5
  <2>8. SumBelow(a, m + 1) = SumBelow(b, m + 1)
          <=> g[m] = h[m] /\ SumBelow(a, m) = SumBelow(b, m)
    BY <2>2, <2>3, <2>4, <2>5
  <2>9. (m + 1) - 1 = m OBVIOUS
  <2> QED BY <2>2, <2>6, <2>7, <2>8, <2>9
<1>3. Nat \subseteq S
  <2> HIDE DEF S
  <2> QED BY <1>1, <1>2, SetInduction
<1>4. n \in S BY <1>3
<1>5. SumBelow(a, n) = SumBelow(b, n) <=> \A i \in 0 .. n - 1 : g[i] = h[i]
  <2> HIDE DEF a, b
  <2> QED BY <1>4
<1> QED BY <1>5 DEF PackBits

LEMMA AsSequenceShifts ==
  ASSUME NEW n \in Nat \ {0}, NEW h \in [0 .. n - 1 -> BOOLEAN], NEW v \in BOOLEAN
  PROVE  AsSequence(ShiftIn(h, n, v), n) = Append(Tail(AsSequence(h, n)), v)
<1> DEFINE q == AsSequence(h, n)
<1>1. q \in [1 .. n -> BOOLEAN] /\ \A i \in 1 .. n : q[i] = h[i - 1]
  BY DEF AsSequence
<1> HIDE DEF q
<1>2. Append(Tail(q), v) = [i \in 1 .. n |-> IF i < n THEN q[i + 1] ELSE v]
  BY <1>1, Rotation
<1>3. ASSUME NEW i \in 1 .. n
      PROVE  ShiftIn(h, n, v)[i - 1] = IF i < n THEN q[i + 1] ELSE v
  <2>1. i - 1 \in 0 .. n - 1 OBVIOUS
  <2>2. ShiftIn(h, n, v)[i - 1] = IF i - 1 < n - 1 THEN h[(i - 1) + 1] ELSE v
    BY <2>1 DEF ShiftIn
  <2>3. CASE i < n
    <3>1. i + 1 \in 1 .. n /\ (i + 1) - 1 = (i - 1) + 1 /\ i - 1 < n - 1 BY <2>3
    <3> QED BY <1>1, <2>2, <2>3, <3>1
  <2>4. CASE ~(i < n) BY <2>2, <2>4
  <2> QED BY <2>3, <2>4
<1> QED BY <1>2, <1>3 DEF AsSequence, q

\* The context a branch meets: every outcome of the history but the newest.
Context(h, n) == SubSeq(AsSequence(h, n), 1, n - 1)

ContextsOf(n) == [1 .. n - 1 -> BOOLEAN]

LEMMA ContextOf ==
  ASSUME NEW n \in Nat \ {0}, NEW h, \A i \in 0 .. n - 1 : h[i] \in BOOLEAN
  PROVE  SubSeq(AsSequence(h, n), 1, n - 1) = [i \in 1 .. n - 1 |-> h[i - 1]]
<1> DEFINE q == AsSequence(h, n)
           c == SubSeq(q, 1, n - 1)
<1>1. \A i \in 1 .. n - 1 : q[i] = h[i - 1] /\ q[i] \in BOOLEAN
  BY DEF AsSequence
<1> HIDE DEF q
<1>2. /\ c \in Seq(BOOLEAN) /\ Len(c) = n - 1
      /\ \A i \in 1 .. n - 1 : c[i] = q[i]
  <2>1. /\ c \in Seq(BOOLEAN)
        /\ Len(c) = IF 1 <= n - 1 THEN (n - 1) - 1 + 1 ELSE 0
        /\ \A i \in 1 .. (n - 1) - 1 + 1 : c[i] = q[1 + i - 1]
    BY <1>1, SubSeqProperties
  <2> QED BY <2>1
<1> HIDE DEF c
<1>3. c \in [1 .. n - 1 -> BOOLEAN] BY <1>2, LenProperties
<1>4. c = [i \in 1 .. n - 1 |-> h[i - 1]] BY <1>1, <1>2, <1>3
<1> QED BY <1>4 DEF c, q

\* It has the index of the history, and no other context has.
LEMMA ContextIndices ==
  ASSUME NEW n \in Nat \ {0}, NEW h, NEW d,
         \A i \in 0 .. n - 2 : h[i] \in BOOLEAN,
         \A i \in 1 .. n - 1 : d[i] \in BOOLEAN
  PROVE  PackBits([i \in 0 .. n - 2 |-> d[i + 1]], n - 1) = PackBits(h, n - 1)
           <=> \A i \in 1 .. n - 1 : d[i] = h[i - 1]
<1> DEFINE g == [i \in 0 .. n - 2 |-> d[i + 1]]
           m == n - 1
<1>1. /\ m \in Nat /\ m - 1 = n - 2
      /\ \A i \in 0 .. n - 2 : i + 1 \in 1 .. n - 1 /\ g[i] = d[i + 1]
  OBVIOUS
<1> HIDE DEF g, m
<1>2. \A i \in 0 .. m - 1 : g[i] \in BOOLEAN /\ h[i] \in BOOLEAN BY <1>1
<1>3. PackBits(g, m) = PackBits(h, m) <=> \A i \in 0 .. m - 1 : g[i] = h[i]
  BY <1>1, <1>2, PackBitsInjective
<1>4. (\A i \in 0 .. n - 2 : g[i] = h[i]) <=> \A i \in 1 .. n - 1 : d[i] = h[i - 1]
  <2>1. ASSUME \A i \in 0 .. n - 2 : g[i] = h[i], NEW i \in 1 .. n - 1
        PROVE  d[i] = h[i - 1]
    <3>1. i - 1 \in 0 .. n - 2 /\ (i - 1) + 1 = i OBVIOUS
    <3> QED BY <1>1, <2>1, <3>1
  <2>2. ASSUME \A i \in 1 .. n - 1 : d[i] = h[i - 1], NEW i \in 0 .. n - 2
        PROVE  g[i] = h[i]
    <3>1. i + 1 \in 1 .. n - 1 /\ (i + 1) - 1 = i OBVIOUS
    <3> QED BY <1>1, <2>2, <3>1
  <2> QED BY <2>1, <2>2
<1> QED BY <1>1, <1>3, <1>4 DEF g, m

\* Training the entry of that index is training that context alone.
LEMMA ContextTrained ==
  ASSUME NEW n \in Nat \ {0}, NEW h, \A i \in 0 .. n - 1 : h[i] \in BOOLEAN,
         NEW table, NEW later, NEW k, k = PackBits(h, n - 1),
         \A i \in 0 .. pow2(n) - 1 : i # k => later[i] = table[i]
  PROVE  /\ Context(h, n) \in ContextsOf(n)
         /\ ByContext(table, n)[Context(h, n)] = table[k]
         /\ ByContext(later, n)[Context(h, n)] = later[k]
         /\ \A d \in ContextsOf(n) :
              d # Context(h, n) => ByContext(later, n)[d] = ByContext(table, n)[d]
<1> DEFINE index(d) == PackBits([i \in 0 .. n - 2 |-> d[i + 1]], n - 1)
           D == [1 .. n - 1 -> BOOLEAN]
           c == Context(h, n)
<1>1. c = [i \in 1 .. n - 1 |-> h[i - 1]] BY ContextOf DEF Context
<1>2. ASSUME NEW d \in D
      PROVE  index(d) = k <=> \A i \in 1 .. n - 1 : d[i] = h[i - 1]
  <2>1. /\ \A i \in 0 .. n - 2 : h[i] \in BOOLEAN
        /\ \A i \in 1 .. n - 1 : d[i] \in BOOLEAN
    OBVIOUS
  <2> HIDE DEF D
  <2>2. index(d) = PackBits(h, n - 1) <=> \A i \in 1 .. n - 1 : d[i] = h[i - 1]
    BY ONLY <2>1, n \in Nat \ {0}, ContextIndices
  <2> QED BY <2>2
<1>3. \A d : index(d) \in 0 .. pow2(n) - 1
  <2>1. n - 1 \in Nat /\ pow2(n) = 2 * pow2(n - 1) /\ pow2(n - 1) \in Nat BY PowerHalf
  <2>2. \A d : index(d) \in 0 .. pow2(n - 1) - 1 BY <2>1, PackBitsRange
  <2> HIDE DEF index
  <2> QED BY <2>1, <2>2
<1>4. /\ ByContext(table, n) = [d \in D |-> table[index(d)]]
      /\ ByContext(later, n) = [d \in D |-> later[index(d)]]
  BY DEF ByContext
<1> HIDE DEF index, c
<1>5. c \in D
  <2>1. \A i \in 1 .. n - 1 : i - 1 \in 0 .. n - 1 OBVIOUS
  <2> QED BY <1>1, <2>1
<1>6. \A d \in D : index(d) = k <=> d = c
  <2>1. \A d \in D : d = c <=> \A i \in 1 .. n - 1 : d[i] = h[i - 1] BY <1>1, <1>5
  <2> QED BY <1>2, <2>1
<1> HIDE DEF D
<1>7. \A d \in D : d # c => later[index(d)] = table[index(d)] BY <1>3, <1>6
<1>8. ByContext(table, n)[c] = table[k] /\ ByContext(later, n)[c] = later[k]
  BY <1>4, <1>5, <1>6
<1>9. \A d \in D : d # c => ByContext(later, n)[d] = ByContext(table, n)[d]
  BY <1>4, <1>7
<1> QED BY <1>5, <1>8, <1>9 DEF c, D, ContextsOf

-----------------------------------------------------------------------------
(***************************************************************************)
(* A circle of slots, read from the slot ahead on, is a queue              *)
(* (AssociativeTable!InOrder).                                             *)
(***************************************************************************)

PlaceOf(i, ahead, size) ==
  IF ahead + i - 1 < size THEN ahead + i - 1 ELSE ahead + i - 1 - size

QueueOf(keys, learned, ahead, size) ==
  [i \in 1 .. size |-> [key |-> keys[PlaceOf(i, ahead, size)],
                        learned |-> learned[PlaceOf(i, ahead, size)]]]

\* Every slot has one place in the queue.
LEMMA PlacesInOrder ==
  ASSUME NEW size \in Nat \ {0}, NEW ahead \in 0 .. size
  PROVE  /\ \A i \in 1 .. size : PlaceOf(i, ahead, size) \in 0 .. size - 1
         /\ \A i, j \in 1 .. size :
              PlaceOf(i, ahead, size) = PlaceOf(j, ahead, size) => i = j
         /\ \A slot \in 0 .. size - 1 :
              \E i \in 1 .. size : PlaceOf(i, ahead, size) = slot
<1> USE DEF PlaceOf
<1>1. /\ \A i \in 1 .. size : PlaceOf(i, ahead, size) \in 0 .. size - 1
      /\ \A i, j \in 1 .. size :
           PlaceOf(i, ahead, size) = PlaceOf(j, ahead, size) => i = j
  OBVIOUS
<1>2. ASSUME NEW slot \in 0 .. size - 1
      PROVE  \E i \in 1 .. size : PlaceOf(i, ahead, size) = slot
  <2>1. CASE slot >= ahead
    <3>1. /\ slot - ahead + 1 \in 1 .. size
          /\ PlaceOf(slot - ahead + 1, ahead, size) = slot
      BY <2>1
    <3> QED BY <3>1
  <2>2. CASE slot < ahead
    <3> DEFINE i == slot - ahead + 1 + size
    <3>1. i \in 1 .. size /\ PlaceOf(i, ahead, size) = slot BY <2>2
    <3> QED BY <3>1
  <2> QED BY <2>1, <2>2
<1> QED BY <1>1, <1>2

\* Where the slots are after the one at the head has been filled again.
LEMMA PlacesRotate ==
  ASSUME NEW size \in Nat \ {0}, NEW ahead \in 0 .. size,
         NEW slot, slot = IF ahead = size THEN 0 ELSE ahead
  PROVE  /\ slot \in 0 .. size - 1 /\ slot + 1 \in 0 .. size
         /\ PlaceOf(1, ahead, size) = slot
         /\ PlaceOf(size, slot + 1, size) = slot
         /\ \A i \in 1 .. size - 1 :
              /\ PlaceOf(i, slot + 1, size) = PlaceOf(i + 1, ahead, size)
              /\ PlaceOf(i, slot + 1, size) # slot
BY DEF PlaceOf

LEMMA QueueMisses ==
  ASSUME NEW size \in Nat \ {0}, NEW ahead \in 0 .. size, NEW keys, NEW learned,
         NEW key, \A i \in 0 .. size - 1 : keys[i] # key
  PROVE  \A i \in 1 .. size : QueueOf(keys, learned, ahead, size)[i].key # key
BY PlacesInOrder DEF QueueOf

\* What a FifoTable's Train does to the queue, and its Replace.
LearnsInPlace(q, r, size, key, before, after) ==
  \E i \in 1 .. size :
    /\ q[i].key = key /\ q[i].learned = before
    /\ r = [q EXCEPT ![i].learned = after]

MovesToEnd(q, r, before, key, after) ==
  /\ Head(q).learned = before
  /\ r = Append(Tail(q), [key |-> key, learned |-> after])

\* Learning something new in one slot does so at its place in the queue.
LEMMA QueueTrains ==
  ASSUME NEW size \in Nat \ {0}, NEW ahead \in 0 .. size, NEW keys, NEW learned, NEW later,
         NEW k \in 0 .. size - 1,
         \A i \in 0 .. size - 1 : i # k => later[i] = learned[i]
  PROVE  LearnsInPlace(QueueOf(keys, learned, ahead, size), QueueOf(keys, later, ahead, size),
                       size, keys[k], learned[k], later[k])
<1> DEFINE place(i) == PlaceOf(i, ahead, size)
           old(j) == [key |-> keys[place(j)], learned |-> learned[place(j)]]
           new(j) == [key |-> keys[place(j)], learned |-> later[place(j)]]
           queue == QueueOf(keys, learned, ahead, size)
<1>1. PICK i \in 1 .. size : place(i) = k BY PlacesInOrder
<1>2. \A j \in 1 .. size : place(j) \in 0 .. size - 1 /\ (j # i => place(j) # k)
  BY <1>1, PlacesInOrder
<1>3. queue = [j \in 1 .. size |-> old(j)] BY DEF QueueOf
<1>4. QueueOf(keys, later, ahead, size) = [j \in 1 .. size |-> new(j)] BY DEF QueueOf
<1> HIDE DEF place
<1>5. old(i).key = keys[k] /\ old(i).learned = learned[k] BY <1>1
<1>6. [old(i) EXCEPT !.learned = later[k]] = new(i) BY <1>1
<1>7. \A j \in 1 .. size : j # i => old(j) = new(j) BY <1>2
<1> HIDE DEF old, new, queue
<1>8. [queue EXCEPT ![i].learned = later[k]]
        = [j \in 1 .. size |-> IF j = i THEN [old(i) EXCEPT !.learned = later[k]] ELSE old(j)]
  BY <1>3
<1>9. [queue EXCEPT ![i].learned = later[k]] = [j \in 1 .. size |-> new(j)]
  BY <1>6, <1>7, <1>8
<1> QED BY <1>3, <1>4, <1>5, <1>9 DEF queue, LearnsInPlace

\* Filling the slot at the head moves it to the end.
LEMMA QueueReplaces ==
  ASSUME NEW size \in Nat \ {0}, NEW ahead \in 0 .. size,
         NEW slot, slot = IF ahead = size THEN 0 ELSE ahead,
         NEW keys, NEW laterKeys, NEW learned, NEW later,
         \A i \in 0 .. size - 1 :
           i # slot => laterKeys[i] = keys[i] /\ later[i] = learned[i]
  PROVE  MovesToEnd(QueueOf(keys, learned, ahead, size),
                    QueueOf(laterKeys, later, slot + 1, size),
                    learned[slot], laterKeys[slot], later[slot])
<1> DEFINE queue == QueueOf(keys, learned, ahead, size)
           new == [key |-> laterKeys[slot], learned |-> later[slot]]
           S == {queue[i] : i \in 1 .. size} \cup {new}
<1>1. /\ slot \in 0 .. size - 1 /\ PlaceOf(1, ahead, size) = slot
      /\ PlaceOf(size, slot + 1, size) = slot
      /\ \A i \in 1 .. size - 1 :
           /\ PlaceOf(i, slot + 1, size) = PlaceOf(i + 1, ahead, size)
           /\ PlaceOf(i, slot + 1, size) # slot
  BY PlacesRotate
<1>2. \A i \in 1 .. size : PlaceOf(i, ahead, size) \in 0 .. size - 1 BY PlacesInOrder
<1>3. Head(queue).learned = learned[slot] BY <1>1 DEF QueueOf
<1>4. queue \in [1 .. size -> S] /\ new \in S BY DEF QueueOf
<1> HIDE DEF queue, new, S
<1>5. Append(Tail(queue), new)
        = [i \in 1 .. size |-> IF i < size THEN queue[i + 1] ELSE new]
  BY <1>4, Rotation
<1>6. QueueOf(laterKeys, later, slot + 1, size)
        = [i \in 1 .. size |-> [key |-> laterKeys[PlaceOf(i, slot + 1, size)],
                                learned |-> later[PlaceOf(i, slot + 1, size)]]]
  BY DEF QueueOf
<1>7. ASSUME NEW i \in 1 .. size, i < size
      PROVE  [key |-> laterKeys[PlaceOf(i, slot + 1, size)],
              learned |-> later[PlaceOf(i, slot + 1, size)]] = queue[i + 1]
  <2>1. i \in 1 .. size - 1 /\ i + 1 \in 1 .. size BY <1>7
  <2>2. /\ PlaceOf(i, slot + 1, size) = PlaceOf(i + 1, ahead, size)
        /\ PlaceOf(i + 1, ahead, size) # slot
        /\ PlaceOf(i + 1, ahead, size) \in 0 .. size - 1
    BY <1>1, <1>2, <2>1
  <2>3. /\ laterKeys[PlaceOf(i + 1, ahead, size)] = keys[PlaceOf(i + 1, ahead, size)]
        /\ later[PlaceOf(i + 1, ahead, size)] = learned[PlaceOf(i + 1, ahead, size)]
    BY <2>2
  <2> QED BY <2>1, <2>2, <2>3 DEF queue, QueueOf
<1>8. [key |-> laterKeys[PlaceOf(size, slot + 1, size)],
       learned |-> later[PlaceOf(size, slot + 1, size)]] = new
  BY <1>1 DEF new
<1>9. \A i \in 1 .. size : ~(i < size) => i = size OBVIOUS
<1>10. QueueOf(laterKeys, later, slot + 1, size) = Append(Tail(queue), new)
  BY <1>5, <1>6, <1>7, <1>8, <1>9
<1> QED BY <1>3, <1>10 DEF queue, new, MovesToEnd

-----------------------------------------------------------------------------
(***************************************************************************)
(* A perceptron in front of cleared cells.                                 *)
(***************************************************************************)

\* Shifting the history never fills them: what it copies is a cleared cell.
LEMMA ShiftKeepsClear ==
  ASSUME NEW n \in Nat, n > 2, NEW h \in [0 .. n - 1 -> BOOLEAN], NEW taken \in BOOLEAN,
         \A i \in 1 .. n - 1 : h[i] = FALSE
  PROVE  /\ ShiftedOnce(h, n, taken) \in [0 .. n - 1 -> BOOLEAN]
         /\ \A i \in 1 .. n - 1 : ShiftedOnce(h, n, taken)[i] = FALSE
<1> DEFINE written == [h EXCEPT ![0] = taken]
           later == ShiftedOnce(h, n, taken)
<1>1. /\ written \in [0 .. n - 1 -> BOOLEAN]
      /\ \A i \in 1 .. n - 1 : written[i] = FALSE
  OBVIOUS
<1>2. later = [written EXCEPT ![n - 1] = written[n - 2], ![0] = TRUE] BY DEF ShiftedOnce
<1> HIDE DEF written, later
<1>3. n - 2 \in 1 .. n - 1 /\ n - 1 \in 1 .. n - 1 OBVIOUS
<1>4. written[n - 2] = FALSE BY <1>1, <1>3
<1>5. later \in [0 .. n - 1 -> BOOLEAN] BY <1>1, <1>2, <1>4
<1>6. \A i \in 1 .. n - 1 : later[i] = FALSE BY <1>1, <1>2, <1>4
<1> QED BY <1>5, <1>6 DEF later

LEMMA OutputOfCleared ==
  ASSUME NEW n \in Nat \ {0}, NEW w, NEW h,
         \A i \in 0 .. n - 1 : w[i] \in Int,
         \A i \in 1 .. n - 1 : h[i] = FALSE
  PROVE  /\ Output(w, h, n) \in Int
         /\ Output(w, h, n) = w[0] + SumBelow([i \in 0 .. n - 2 |-> -w[i + 1]], n - 1)
<1> DEFINE f == [i \in 0 .. n - 2 |-> w[i + 1] * Sign(h[i + 1])]
           g == [i \in 0 .. n - 2 |-> -w[i + 1]]
<1>1. ASSUME NEW i \in 0 .. n - 2 PROVE w[i + 1] * Sign(h[i + 1]) = -w[i + 1]
  <2>1. i + 1 \in 0 .. n - 1 /\ i + 1 \in 1 .. n - 1 OBVIOUS
  <2>2. w[i + 1] \in Int BY <2>1
  <2>3. Sign(h[i + 1]) = -1 BY <2>1 DEF Sign
  <2> QED BY <2>2, <2>3
<1>2. f = g BY <1>1
<1>3. \A i \in 0 .. (n - 1) - 1 : g[i] \in Int
  <2>1. ASSUME NEW i \in 0 .. (n - 1) - 1 PROVE g[i] \in Int
    <3>1. i \in 0 .. n - 2 /\ i + 1 \in 0 .. n - 1 OBVIOUS
    <3> QED BY <3>1
  <2> QED BY <2>1
<1>4. n - 1 \in Nat /\ w[0] \in Int OBVIOUS
<1>5. Output(w, h, n) = w[0] + SumBelow(f, n - 1) BY DEF Output
<1> HIDE DEF f, g
<1>6. SumBelow(g, n - 1) \in Int BY <1>3, <1>4, SumType
<1> QED BY <1>2, <1>4, <1>5, <1>6 DEF g

\* Training moves every summand the same way.
LEMMA OutputTrained ==
  ASSUME NEW n \in Nat \ {0}, NEW w, NEW h, NEW taken \in BOOLEAN,
         \A i \in 0 .. n - 1 : w[i] \in Int,
         \A i \in 1 .. n - 1 : h[i] = FALSE, h[0] \in BOOLEAN
  PROVE  \E d \in {n, n - 2} :
           Output(Trained(w, h, taken, n), h, n) = Output(w, h, n) + Sign(taken) * d
<1> DEFINE v == Trained(w, h, taken, n)
           s == Sign(taken)
           f == [i \in 0 .. n - 2 |-> -w[i + 1]]
           g == [i \in 0 .. n - 2 |-> -v[i + 1]]
<1>1. s \in Int BY DEF Sign
<1>2. ASSUME NEW i \in 1 .. n - 1 PROVE w[i] \in Int /\ v[i] = w[i] - s
  <2>1. i \in 0 .. n - 1 OBVIOUS
  <2>2. v[i] = w[i] + s * Sign(h[i]) BY <2>1 DEF Trained
  <2>3. Sign(h[i]) = -1 BY DEF Sign
  <2>4. w[i] \in Int BY <2>1
  <2> HIDE DEF s, v
  <2> QED BY <1>1, <2>2, <2>3, <2>4
<1>3. v[0] = w[0] + s * Sign(h[0]) /\ w[0] \in Int BY DEF Trained
<1>4. Sign(h[0]) \in {1, -1} BY DEF Sign
<1> HIDE DEF s, v
<1>5. \A i \in 0 .. n - 1 : v[i] \in Int
  <2>1. \A i \in 0 .. n - 1 : i = 0 \/ i \in 1 .. n - 1 OBVIOUS
  <2>2. v[0] \in Int BY <1>1, <1>3, <1>4
  <2>3. \A i \in 1 .. n - 1 : v[i] \in Int BY <1>1, <1>2
  <2> QED BY <2>1, <2>2, <2>3
<1>6. \A i \in 0 .. (n - 1) - 1 : f[i] \in Int /\ g[i] = f[i] + s
  <2>1. ASSUME NEW i \in 0 .. (n - 1) - 1 PROVE f[i] \in Int /\ g[i] = f[i] + s
    <3>1. i \in 0 .. n - 2 /\ i + 1 \in 1 .. n - 1 OBVIOUS
    <3>2. w[i + 1] \in Int /\ v[i + 1] = w[i + 1] - s BY <1>2, <3>1
    <3> QED BY <1>1, <3>1, <3>2
  <2> QED BY <2>1
<1>7. n - 1 \in Nat OBVIOUS
<1>8. /\ Output(w, h, n) = w[0] + SumBelow(f, n - 1)
      /\ Output(v, h, n) = v[0] + SumBelow(g, n - 1)
      /\ Output(w, h, n) \in Int
  BY <1>5, OutputOfCleared
<1> HIDE DEF f, g
<1>9. SumBelow(g, n - 1) = SumBelow(f, n - 1) + (n - 1) * s
  BY <1>1, <1>6, <1>7, SumShift
<1>10. SumBelow(f, n - 1) \in Int BY <1>6, <1>7, SumType
<1>11. Output(v, h, n) = Output(w, h, n) + (s * Sign(h[0]) + (n - 1) * s)
  BY <1>1, <1>3, <1>4, <1>8, <1>9, <1>10
<1>12. s * 1 + (n - 1) * s = s * n /\ s * (-1) + (n - 1) * s = s * (n - 2)
  BY <1>1
<1>13. \E d \in {n, n - 2} : Output(v, h, n) = Output(w, h, n) + s * d
  BY <1>4, <1>11, <1>12
<1> QED BY <1>13 DEF s, v

\* The answer does not depend on cell 0.
LEMMA OutputKept ==
  ASSUME NEW n \in Nat \ {0}, NEW w, NEW h, NEW later,
         \A i \in 0 .. n - 1 : w[i] \in Int,
         \A i \in 1 .. n - 1 : h[i] = FALSE /\ later[i] = FALSE
  PROVE  Output(w, later, n) = Output(w, h, n)
<1>1. Output(w, h, n) = w[0] + SumBelow([i \in 0 .. n - 2 |-> -w[i + 1]], n - 1)
  BY OutputOfCleared
<1>2. Output(w, later, n) = w[0] + SumBelow([i \in 0 .. n - 2 |-> -w[i + 1]], n - 1)
  BY OutputOfCleared
<1> QED BY <1>1, <1>2

-----------------------------------------------------------------------------
(***************************************************************************)
(* Integer division and powers of two.                                     *)
(***************************************************************************)

LEMMA QuotientIs ==
  ASSUME NEW a \in Int, NEW q \in Nat \ {0}, NEW k \in Int,
         k * q <= a, a < (k + 1) * q
  PROVE  a \div q = k
OBVIOUS

LEMMA QuotientAtMost ==
  ASSUME NEW a \in Nat, NEW q \in Nat \ {0}, NEW k \in Nat, a < (k + 1) * q
  PROVE  a \div q <= k
OBVIOUS

LEMMA PowerSum ==
  ASSUME NEW m \in Nat, NEW n \in Nat
  PROVE  pow2(m + n) = pow2(m) * pow2(n)
<1> DEFINE S == {i \in Nat : pow2(m + i) = pow2(m) * pow2(i)}
<1>1. 0 \in S BY PowerRecursion, PowerPositive
<1>2. ASSUME NEW i \in Nat, i \in S PROVE i + 1 \in S
  <2>1. pow2(m + (i + 1)) = 2 * pow2(m + i)
    <3>1. m + i \in Nat /\ m + (i + 1) = (m + i) + 1 OBVIOUS
    <3> QED BY <3>1, PowerRecursion
  <2>2. pow2(i + 1) = 2 * pow2(i) BY PowerRecursion
  <2>3. pow2(m) \in Nat /\ pow2(i) \in Nat BY PowerPositive
  <2> QED BY <1>2, <2>1, <2>2, <2>3
<1>3. Nat \subseteq S
  <2> HIDE DEF S
  <2> QED BY <1>1, <1>2, SetInduction
<1> QED BY <1>3

-----------------------------------------------------------------------------
(***************************************************************************)
(* The loop over the characters keeps the hash in its word.                *)
(***************************************************************************)

IsHash(a, start, string, n) ==
  a = [i \in 0 .. n |-> IF i = 0 THEN start ELSE Absorb(a[i - 1], string[i])]

LEMMA HashExists ==
  ASSUME NEW start, NEW string, NEW n \in Nat
  PROVE  \E a : IsHash(a, start, string, n)
<1> DEFINE S == {m \in Nat : \E a : IsHash(a, start, string, m)}
<1>1. 0 \in S
  <2>1. IsHash([i \in 0 .. 0 |-> start], start, string, 0) BY DEF IsHash
  <2> QED BY <2>1
<1>2. ASSUME NEW m \in Nat, m \in S PROVE m + 1 \in S
  <2>1. PICK a : IsHash(a, start, string, m) BY <1>2
  <2> DEFINE b == [i \in 0 .. m + 1 |->
                     IF i <= m THEN a[i] ELSE Absorb(a[m], string[m + 1])]
  <2>2. ASSUME NEW i \in 0 .. m + 1
        PROVE  b[i] = IF i = 0 THEN start ELSE Absorb(b[i - 1], string[i])
    <3>1. CASE i = 0 BY <3>1, <2>1 DEF IsHash
    <3>2. CASE i # 0 /\ i <= m
      <4>1. i \in 0 .. m /\ i - 1 \in 0 .. m + 1 /\ i - 1 <= m BY <3>2
      <4>2. a[i] = Absorb(a[i - 1], string[i]) BY <2>1, <3>2, <4>1 DEF IsHash
      <4>3. b[i] = a[i] /\ b[i - 1] = a[i - 1] BY <4>1, <3>2
      <4> QED BY <4>2, <4>3, <3>2
    <3>3. CASE i = m + 1
      <4>1. i # 0 /\ i - 1 = m /\ ~(i <= m) /\ m \in 0 .. m + 1 BY <3>3
      <4>2. b[i] = Absorb(a[m], string[i]) /\ b[m] = a[m] BY <4>1, <3>3
      <4> QED BY <4>1, <4>2
    <3> QED BY <3>1, <3>2, <3>3
  <2>3. b = [i \in 0 .. m + 1 |-> IF i = 0 THEN start ELSE Absorb(b[i - 1], string[i])]
    BY <2>2
  <2>4. IsHash(b, start, string, m + 1) BY <2>3 DEF IsHash
  <2> QED BY <2>4
<1>3. Nat \subseteq S
  <2> HIDE DEF S
  <2> QED BY <1>1, <1>2, SetInduction
<1> QED BY <1>3

LEMMA AbsorbRange ==
  ASSUME NEW h \in Nat, NEW c \in Nat
  PROVE  Absorb(h, c) \in 0 .. pow2(WORD_BITS) - 1
<1>1. pow2(WORD_BITS) \in Nat \ {0} BY HashAssumption, PowerPositive
<1>2. h * 33 + c \in Nat OBVIOUS
<1> QED BY <1>1, <1>2 DEF Absorb

LEMMA HashRange ==
  ASSUME NEW start \in 0 .. pow2(WORD_BITS) - 1, NEW string \in Seq(Nat)
  PROVE  HashOf(start, string) \in 0 .. pow2(WORD_BITS) - 1
<1> DEFINE n == Len(string)
           a == CHOOSE a : IsHash(a, start, string, n)
           S == {m \in Nat : m <= n => a[m] \in 0 .. pow2(WORD_BITS) - 1}
<1>1. n \in Nat OBVIOUS
<1>2. IsHash(a, start, string, n) BY <1>1, HashExists
<1>3. HashOf(start, string) = a[n] BY DEF HashOf, IsHash
<1>4. 0 \in S
  <2> HIDE DEF a, n
  <2>1. a[0] = start BY <1>1, <1>2 DEF IsHash
  <2> QED BY <2>1
<1>5. ASSUME NEW m \in Nat, m \in S PROVE m + 1 \in S
  <2>1. SUFFICES ASSUME m + 1 <= n PROVE a[m + 1] \in 0 .. pow2(WORD_BITS) - 1
    OBVIOUS
  <2>2. m + 1 \in 0 .. n /\ m + 1 # 0 /\ (m + 1) - 1 = m BY <1>1, <2>1
  <2>3. a[m + 1] = Absorb(a[m], string[m + 1]) BY <1>2, <2>2 DEF IsHash
  <2>4. a[m] \in Nat BY <1>1, <1>5, <2>1
  <2>5. string[m + 1] \in Nat BY <2>1
  <2> HIDE DEF a, n
  <2> QED BY <2>3, <2>4, <2>5, AbsorbRange
<1>6. Nat \subseteq S
  <2> HIDE DEF S
  <2> QED BY <1>4, <1>5, SetInduction
<1>7. n \in S BY <1>1, <1>6
<1> HIDE DEF a
<1> QED BY <1>1, <1>3, <1>7

-----------------------------------------------------------------------------
(***************************************************************************)
(* The divisor is 2^(WORD_BITS - TABLE_BITS) - 1 (2^44 - 1 in the code),   *)
(* one too small for the quotient to stay in the table.                    *)
(***************************************************************************)

LEMMA DivisorIs == Divisor = pow2(WORD_BITS - TABLE_BITS) - 1
<1> DEFINE d == pow2(WORD_BITS - TABLE_BITS)
           q == pow2(TABLE_BITS - 1)
<1>1. WORD_BITS - TABLE_BITS \in Nat /\ TABLE_BITS - 1 \in Nat
      /\ (WORD_BITS - TABLE_BITS) + (TABLE_BITS - 1) = WORD_BITS - 1
  BY HashAssumption
<1>2. d \in Nat \ {0} /\ q \in Nat \ {0} BY <1>1, PowerPositive
<1>3. pow2(WORD_BITS - 1) = d * q BY <1>1, PowerSum
<1>4. (d * q - 1) \div q = d - 1
  <2> HIDE DEF d, q
  <2>1. d * q \in Int /\ (d - 1) * q = d * q - q /\ ((d - 1) + 1) * q = d * q BY <1>2
  <2>2. (d - 1) * q <= d * q - 1 /\ d * q - 1 < ((d - 1) + 1) * q BY <1>2, <2>1
  <2> QED BY <1>2, <2>1, <2>2, QuotientIs
<1> QED BY <1>3, <1>4 DEF Divisor

LEMMA IndexRange ==
  ASSUME NEW h \in 0 .. pow2(WORD_BITS) - 1
  PROVE  Quotient(h) \in 0 .. GEHL_TABLE_SIZE
<1> DEFINE b == pow2(WORD_BITS - TABLE_BITS)
           t == pow2(TABLE_BITS)
           k == WORD_BITS - TABLE_BITS - TABLE_BITS
<1>1. /\ TABLE_BITS \in Nat /\ WORD_BITS - TABLE_BITS \in Nat
      /\ k \in Nat \ {0}
      /\ (WORD_BITS - TABLE_BITS) + TABLE_BITS = WORD_BITS
      /\ TABLE_BITS + k = WORD_BITS - TABLE_BITS
  BY HashAssumption
<1>2. b \in Nat \ {0} /\ t \in Nat \ {0} BY <1>1, PowerPositive
<1>3. pow2(WORD_BITS) = b * t BY <1>1, PowerSum
<1>4. b >= 2 * t
  <2>1. b = t * pow2(k) BY <1>1, PowerSum
  <2>2. pow2(k) = 2 * pow2(k - 1) /\ pow2(k - 1) \in Nat \ {0} BY <1>1, PowerHalf
  <2> DEFINE p == pow2(k - 1)
  <2>3. b = t * (2 * p) /\ p \in Nat \ {0} BY <2>1, <2>2
  <2> HIDE DEF p, b, t, k
  <2>4. t * (2 * p) = 2 * (t * p) /\ t * p >= t BY <1>2, <2>3
  <2> QED BY <1>2, <2>3, <2>4
<1>5. h \div (b - 1) \in 0 .. t
  <2> HIDE DEF b, t, k
  <2>1. b - 1 \in Nat \ {0} /\ h \in Nat BY <1>2, <1>4
  <2>2. (t + 1) * (b - 1) = b * t + b - t - 1 BY <1>2
  <2>3. h < (t + 1) * (b - 1) BY <1>2, <1>3, <1>4, <2>2
  <2> QED BY <1>2, <2>1, <2>3, QuotientAtMost
<1> QED BY <1>5, DivisorIs DEF Quotient, GEHL_TABLE_SIZE

LEMMA TableSize == GEHL_TABLE_SIZE \in Nat \ {0}
BY HashAssumption, PowerPositive DEF GEHL_TABLE_SIZE

LEMMA SeedRange == Seed \in 0 .. pow2(WORD_BITS) - 1
<1>1. WORD_BITS \in Nat BY HashAssumption
<1>2. pow2(WORD_BITS) \in Nat \ {0} BY <1>1, PowerPositive
<1> QED BY <1>2 DEF Seed

-----------------------------------------------------------------------------
(***************************************************************************)
(* The indices of a path: one past the table at most, and a matter of no   *)
(* more than the newest addresses.                                         *)
(***************************************************************************)

IsPathHash(a, history, m, depth) ==
  a = [j \in 0 .. depth |-> IF j = 0 THEN Seed ELSE HashOf(a[j - 1], history[m - j])]

LEMMA PathHashExists ==
  ASSUME NEW history, NEW m, NEW n \in Nat
  PROVE  \E a : IsPathHash(a, history, m, n)
<1> DEFINE S == {d \in Nat : \E a : IsPathHash(a, history, m, d)}
<1>1. 0 \in S
  <2>1. IsPathHash([j \in 0 .. 0 |-> Seed], history, m, 0) BY DEF IsPathHash
  <2> QED BY <2>1
<1>2. ASSUME NEW d \in Nat, d \in S PROVE d + 1 \in S
  <2>1. PICK a : IsPathHash(a, history, m, d) BY <1>2
  <2> DEFINE b == [j \in 0 .. d + 1 |->
                     IF j <= d THEN a[j] ELSE HashOf(a[d], history[m - (d + 1)])]
  <2>2. ASSUME NEW j \in 0 .. d + 1
        PROVE  b[j] = IF j = 0 THEN Seed ELSE HashOf(b[j - 1], history[m - j])
    <3>1. CASE j = 0 BY <3>1, <2>1 DEF IsPathHash
    <3>2. CASE j # 0 /\ j <= d
      <4>1. j \in 0 .. d /\ j - 1 \in 0 .. d + 1 /\ j - 1 <= d BY <3>2
      <4>2. a[j] = HashOf(a[j - 1], history[m - j]) BY <2>1, <3>2, <4>1 DEF IsPathHash
      <4>3. b[j] = a[j] /\ b[j - 1] = a[j - 1] BY <4>1, <3>2
      <4> QED BY <4>2, <4>3, <3>2
    <3>3. CASE j = d + 1
      <4>1. j # 0 /\ j - 1 = d /\ ~(j <= d) /\ d \in 0 .. d + 1 BY <3>3
      <4>2. b[j] = HashOf(a[d], history[m - j]) /\ b[d] = a[d] BY <4>1, <3>3
      <4> QED BY <4>1, <4>2
    <3> QED BY <3>1, <3>2, <3>3
  <2>3. b = [j \in 0 .. d + 1 |-> IF j = 0 THEN Seed ELSE HashOf(b[j - 1], history[m - j])]
    BY <2>2
  <2>4. IsPathHash(b, history, m, d + 1) BY <2>3 DEF IsPathHash
  <2> QED BY <2>4
<1>3. Nat \subseteq S
  <2> HIDE DEF S
  <2> QED BY <1>1, <1>2, SetInduction
<1> QED BY <1>3

LEMMA PathIndexRange ==
  ASSUME NEW n, NEW L \in Nat, L = HistoryLength(n),
         NEW history, \A j \in 1 .. L : history[L - j] \in Seq(Nat),
         NEW historyDepth \in Int, historyDepth <= L
  PROVE  indexOf(history, historyDepth, n) \in 0 .. GEHL_TABLE_SIZE
<1> DEFINE d == IF historyDepth > 0 THEN historyDepth ELSE 0
           a == CHOOSE a : IsPathHash(a, history, L, d)
           S == {j \in Nat : j <= d => a[j] \in 0 .. pow2(WORD_BITS) - 1}
<1>1. d \in Nat /\ d <= L OBVIOUS
<1> HIDE DEF d
<1>2. IsPathHash(a, history, L, d) BY <1>1, PathHashExists
<1>3. indexOf(history, historyDepth, n) = Quotient(a[d]) BY DEF indexOf, IsPathHash, d
<1>4. 0 \in S
  <2> HIDE DEF a
  <2>1. a[0] = Seed BY <1>1, <1>2 DEF IsPathHash
  <2> QED BY <2>1, SeedRange
<1>5. ASSUME NEW j \in Nat, j \in S PROVE j + 1 \in S
  <2> SUFFICES ASSUME j + 1 <= d PROVE a[j + 1] \in 0 .. pow2(WORD_BITS) - 1 OBVIOUS
  <2>1. j + 1 \in 0 .. d /\ j + 1 # 0 /\ (j + 1) - 1 = j /\ j + 1 \in 1 .. L BY <1>1
  <2>2. a[j + 1] = HashOf(a[j], history[L - (j + 1)]) BY <1>2, <2>1 DEF IsPathHash
  <2>3. a[j] \in 0 .. pow2(WORD_BITS) - 1 BY <1>1, <1>5
  <2>4. history[L - (j + 1)] \in Seq(Nat) BY <2>1
  <2> HIDE DEF a
  <2> QED BY <2>2, <2>3, <2>4, HashRange
<1>6. Nat \subseteq S
  <2> HIDE DEF S
  <2> QED BY <1>4, <1>5, SetInduction
<1>7. d \in S BY <1>1, <1>6
<1> HIDE DEF a
<1> QED BY <1>1, <1>3, <1>7, IndexRange

\* The index is a matter of the newest addresses only.
LEMMA NewestIndex ==
  ASSUME NEW n, NEW depth \in Nat, NEW g, NEW h,
         \A j \in 1 .. depth : g[HistoryLength(n) - j] = h[HistoryLength(n) - j]
  PROVE  indexOf(g, depth, n) = indexOf(h, depth, n)
<1> DEFINE d == IF depth > 0 THEN depth ELSE 0
           Step(history, a) ==
             [j \in 0 .. d |->
                IF j = 0 THEN Seed ELSE HashOf(a[j - 1], history[HistoryLength(n) - j])]
<1>0. d = depth OBVIOUS
<1> HIDE DEF d
<1>1. \A a : Step(g, a) = Step(h, a)
  <2>1. ASSUME NEW a, NEW j \in 0 .. d
        PROVE  (IF j = 0 THEN Seed ELSE HashOf(a[j - 1], g[HistoryLength(n) - j]))
                 = (IF j = 0 THEN Seed ELSE HashOf(a[j - 1], h[HistoryLength(n) - j]))
    BY <1>0, <2>1
  <2> QED BY <2>1
<1> HIDE DEF Step
<1>2. (CHOOSE a : a = Step(g, a)) = (CHOOSE a : a = Step(h, a)) BY <1>1
<1> QED BY <1>2 DEF indexOf, Step, d

\* No table looks back further than the history goes, and all but the last
\* less far.
LEMMA Depths ==
  ASSUME NEW n \in Nat, n >= 2, NEW i \in 0 .. n - 1
  PROVE  /\ HistoryLength(n) \in Nat /\ HistoryLength(n) >= 2
         /\ pow2(i) \in Nat \ {0} /\ pow2(i) <= HistoryLength(n)
         /\ i < n - 1 => pow2(i) < HistoryLength(n)
         /\ i = n - 1 => pow2(i) = HistoryLength(n)
<1>1. /\ i \in Nat /\ n - 1 \in Nat \ {0} /\ n - 2 \in Nat /\ (n - 1) - 1 = n - 2
      /\ i <= n - 1 /\ (i < n - 1 => i <= n - 2)
  OBVIOUS
<1>2. /\ pow2(i) \in Nat \ {0} /\ pow2(n - 2) \in Nat \ {0}
      /\ pow2(n - 1) = 2 * pow2(n - 2)
  BY <1>1, PowerPositive, PowerHalf
<1>3. i < n - 1 => pow2(i) <= pow2(n - 2) BY <1>1, PowerMonotone
<1>4. i = n - 1 => pow2(i) = pow2(n - 1) OBVIOUS
<1>5. i < n - 1 \/ i = n - 1 BY <1>1
<1> QED BY <1>2, <1>3, <1>4, <1>5 DEF HistoryLength

LEMMA IndicesRange ==
  ASSUME NEW n \in Nat, n >= 2, NEW Paths, Paths \subseteq Seq(0 .. 127),
         NEW history \in Histories(n, Paths),
         NEW depths, \A i \in 0 .. n - 1 : depths[i] \in Int /\ depths[i] <= HistoryLength(n)
  PROVE  Indices(history, depths, n) \in [0 .. n - 1 -> 0 .. GEHL_TABLE_SIZE]
<1> DEFINE L == HistoryLength(n)
<1>1. L \in Nat
  <2>1. 0 \in 0 .. n - 1 OBVIOUS
  <2> QED BY <2>1, Depths
<1>2. \A j \in 1 .. L : history[L - j] \in Seq(Nat)
  <2> SUFFICES ASSUME NEW j \in 1 .. L PROVE history[L - j] \in Seq(Nat) OBVIOUS
  <2>1. L - j \in 0 .. L - 1 BY <1>1
  <2>2. history[L - j] \in Paths \cup {<< >>} BY <2>1 DEF Histories
  <2>3. CASE history[L - j] = << >> BY <2>3
  <2>4. CASE history[L - j] \in Paths
    <3> DEFINE s == history[L - j]
    <3>1. s \in Seq(0 .. 127) BY <2>4
    <3> HIDE DEF s
    <3>2. 0 .. 127 \subseteq Nat OBVIOUS
    <3>3. s \in Seq(Nat) BY <3>1, <3>2, SeqMonotonic
    <3> QED BY <3>3 DEF s
  <2> QED BY <2>2, <2>3, <2>4
<1>3. ASSUME NEW i \in 0 .. n - 1 PROVE indexOf(history, depths[i], n) \in 0 .. GEHL_TABLE_SIZE
  <2> DEFINE d == depths[i]
  <2>1. d \in Int /\ d <= L OBVIOUS
  <2>2. L = HistoryLength(n) OBVIOUS
  <2> HIDE DEF d, L
  <2>3. indexOf(history, d, n) \in 0 .. GEHL_TABLE_SIZE BY <1>1, <1>2, <2>1, <2>2, PathIndexRange
  <2> QED BY <2>3 DEF d
<1> QED BY <1>3 DEF Indices

-----------------------------------------------------------------------------
(***************************************************************************)
(* The counters found and trained.                                         *)
(***************************************************************************)

LEMMA TableSumType ==
  ASSUME NEW n \in Nat, NEW tables \in [0 .. n - 1 -> [0 .. GEHL_TABLE_SIZE - 1 -> Int]],
         NEW at \in [0 .. n - 1 -> 0 .. GEHL_TABLE_SIZE], NEW behind \in Int
  PROVE  TableSum(tables, at, behind, n) \in Int
<1> DEFINE f == [i \in 0 .. n - 1 |-> Entry(tables, at, behind, i, n)]
<1>1. ASSUME NEW i \in 0 .. n - 1 PROVE Entry(tables, at, behind, i, n) \in Int
  <2>1. CASE at[i] < GEHL_TABLE_SIZE
    <3>1. at[i] \in 0 .. GEHL_TABLE_SIZE - 1 BY <2>1, TableSize
    <3> QED BY <2>1, <3>1 DEF Entry
  <2>2. CASE ~(at[i] < GEHL_TABLE_SIZE) /\ i < n - 1
    <3>1. i + 1 \in 0 .. n - 1 /\ 0 \in 0 .. GEHL_TABLE_SIZE - 1 BY <2>2, TableSize
    <3> QED BY <2>2, <3>1 DEF Entry
  <2>3. CASE ~(at[i] < GEHL_TABLE_SIZE) /\ ~(i < n - 1) BY <2>3 DEF Entry
  <2> QED BY <2>1, <2>2, <2>3
<1>2. \A i \in 0 .. n - 1 : f[i] \in Int BY <1>1
<1> HIDE DEF f
<1>3. SumBelow(f, n) \in Int BY <1>2, SumType
<1>4. n \div 2 \in Int OBVIOUS
<1> QED BY <1>3, <1>4 DEF TableSum, f

LEMMA TableSumInside ==
  ASSUME NEW n \in Nat, NEW tables, NEW at, NEW behind,
         \A i \in 0 .. n - 1 : at[i] \in 0 .. GEHL_TABLE_SIZE - 1
  PROVE  TableSum(tables, at, behind, n)
           = n \div 2 + SumBelow([i \in 0 .. n - 1 |-> tables[i][at[i]]], n)
<1>1. \A i \in 0 .. n - 1 : Entry(tables, at, behind, i, n) = tables[i][at[i]]
  BY TableSize DEF Entry
<1> QED BY <1>1 DEF TableSum

\* Training moves a counter one step and keeps it within its range.
LEMMA BumpedCounter ==
  ASSUME NEW max \in Nat, NEW c \in -max .. max, NEW taken \in BOOLEAN
  PROVE  /\ Bumped(c, taken, max) \in -max .. max
         /\ taken => Bumped(c, taken, max) = IF c = max THEN max ELSE c + 1
         /\ ~taken => Bumped(c, taken, max) = IF c = -max THEN -max ELSE c - 1
BY DEF Bumped

LEMMA UpdatedRow ==
  ASSUME NEW max \in Nat, NEW row \in [0 .. GEHL_TABLE_SIZE - 1 -> -max .. max],
         NEW k, NEW taken \in BOOLEAN
  PROVE  [row EXCEPT ![k] = Bumped(@, taken, max)] \in [0 .. GEHL_TABLE_SIZE - 1 -> -max .. max]
<1> DEFINE b == Bumped(row[k], taken, max)
<1>1. CASE k \in 0 .. GEHL_TABLE_SIZE - 1
  <2> DEFINE c == row[k]
  <2>1. c \in -max .. max BY <1>1
  <2> HIDE DEF c
  <2>2. Bumped(c, taken, max) \in -max .. max BY <2>1, BumpedCounter
  <2>3. b \in -max .. max BY <2>2 DEF c
  <2> HIDE DEF b
  <2>4. [row EXCEPT ![k] = b] \in [0 .. GEHL_TABLE_SIZE - 1 -> -max .. max] BY <1>1, <2>3
  <2> QED BY <2>4 DEF b
<1>2. CASE k \notin 0 .. GEHL_TABLE_SIZE - 1
  <2> HIDE DEF b
  <2>1. [row EXCEPT ![k] = b] = row BY <1>2
  <2> QED BY <2>1 DEF b
<1> QED BY <1>1, <1>2

\* Whatever index a path hashes to, training keeps the counters in range.
LEMMA UpdatedType ==
  ASSUME NEW n \in Nat, NEW max \in Nat,
         NEW tables \in [0 .. n - 1 -> [0 .. GEHL_TABLE_SIZE - 1 -> -max .. max]],
         NEW at, NEW taken \in BOOLEAN
  PROVE  Updated(tables, at, taken, n, max)
           \in [0 .. n - 1 -> [0 .. GEHL_TABLE_SIZE - 1 -> -max .. max]]
<1> DEFINE R == [0 .. GEHL_TABLE_SIZE - 1 -> -max .. max]
           struck(i) == IF i > 0 /\ at[i - 1] = GEHL_TABLE_SIZE
                          THEN [tables[i] EXCEPT ![0] = Bumped(@, taken, max)] ELSE tables[i]
           row(i) == IF at[i] < GEHL_TABLE_SIZE
                       THEN [struck(i) EXCEPT ![at[i]] = Bumped(@, taken, max)] ELSE struck(i)
<1>1. Updated(tables, at, taken, n, max) = [i \in 0 .. n - 1 |-> row(i)] BY DEF Updated
<1>2. ASSUME NEW i \in 0 .. n - 1 PROVE row(i) \in R
  <2>1. tables[i] \in R OBVIOUS
  <2>2. [tables[i] EXCEPT ![0] = Bumped(@, taken, max)] \in R BY <2>1, UpdatedRow
  <2>3. struck(i) \in R BY <2>1, <2>2
  <2> HIDE DEF struck
  <2>4. [struck(i) EXCEPT ![at[i]] = Bumped(@, taken, max)] \in R BY <2>3, UpdatedRow
  <2> QED BY <2>3, <2>4
<1> HIDE DEF row
<1> QED BY <1>1, <1>2

CounterTables(n, max) == [0 .. n - 1 -> [0 .. GEHL_TABLE_SIZE - 1 -> -max .. max]]

Inside(at, n) == \A i \in 0 .. n - 1 : at[i] \in 0 .. GEHL_TABLE_SIZE - 1

\* Entry k of table i after training.
Entered(tables, at, taken, max, i, k) ==
  IF k = at[i] THEN Bumped(tables[i][k], taken, max) ELSE tables[i][k]

\* As long as every index is in its table, each table's own counter is moved.
LEMMA UpdatedInside ==
  ASSUME NEW n \in Nat, NEW max \in Nat,
         NEW tables \in CounterTables(n, max),
         NEW at, Inside(at, n),
         NEW taken \in BOOLEAN, NEW i \in 0 .. n - 1, NEW k \in 0 .. GEHL_TABLE_SIZE - 1
  PROVE  Updated(tables, at, taken, n, max)[i][k] = Entered(tables, at, taken, max, i, k)
<1> DEFINE b == Bumped(tables[i][at[i]], taken, max)
<1>1. at[i] < GEHL_TABLE_SIZE BY TableSize DEF Inside
<1>2. ~(i > 0 /\ at[i - 1] = GEHL_TABLE_SIZE)
  <2> SUFFICES ASSUME i > 0 PROVE at[i - 1] # GEHL_TABLE_SIZE OBVIOUS
  <2>1. i - 1 \in 0 .. n - 1 OBVIOUS
  <2> QED BY <2>1, TableSize DEF Inside
<1>3. Updated(tables, at, taken, n, max)[i] = [tables[i] EXCEPT ![at[i]] = b]
  BY <1>1, <1>2 DEF Updated
<1>4. tables[i] \in [0 .. GEHL_TABLE_SIZE - 1 -> -max .. max] BY DEF CounterTables
<1> HIDE DEF b
<1>5. CASE k = at[i]
  <2>1. b = Bumped(tables[i][k], taken, max) BY <1>5 DEF b
  <2> QED BY <1>3, <1>4, <1>5, <2>1 DEF Entered
<1>6. CASE k # at[i] BY <1>3, <1>4, <1>6 DEF Entered
<1> QED BY <1>5, <1>6

\* What counters that agree say about the sum.
LEMMA SumSigns ==
  ASSUME NEW n \in Nat, n >= 2, NEW f, \A i \in 0 .. n - 1 : f[i] \in Int
  PROVE  /\ (\A i \in 0 .. n - 1 : f[i] >= 0) => n \div 2 + SumBelow(f, n) > 0
         /\ (\A i \in 0 .. n - 1 : IF i < n - 1 THEN f[i] < 0 ELSE f[i] <= 0)
              => n \div 2 + SumBelow(f, n) <= 0
<1> DEFINE m == n - 1
           c == -1
           zeros == [i \in 0 .. n - 1 |-> 0]
           ones == [i \in 0 .. m - 1 |-> c]
<1>1. /\ n \div 2 \in Nat \ {0} /\ m >= n \div 2
      /\ m \in Nat /\ m + 1 = n /\ c \in Int
  OBVIOUS
<1>2. /\ \A i \in 0 .. n - 1 : zeros[i] = 0 /\ zeros[i] \in Int
      /\ \A i \in 0 .. m - 1 : ones[i] = c /\ ones[i] \in Int
      /\ \A i \in 0 .. m - 1 : i \in 0 .. n - 1 /\ i < n - 1
      /\ m \in 0 .. n - 1 /\ ~(m < n - 1)
  OBVIOUS
<1> HIDE DEF zeros, ones
<1>3. SumBelow(f, n) \in Int BY SumType
<1>4. ASSUME \A i \in 0 .. n - 1 : f[i] >= 0 PROVE n \div 2 + SumBelow(f, n) > 0
  <2>1. SumBelow(zeros, n) = n * 0 BY <1>2, SumOfEqual
  <2>2. \A i \in 0 .. n - 1 : zeros[i] <= f[i] BY <1>2, <1>4
  <2>3. SumBelow(zeros, n) <= SumBelow(f, n) BY <1>2, <2>2, SumMonotone
  <2> QED BY <1>1, <1>3, <2>1, <2>3
<1>5. ASSUME \A i \in 0 .. n - 1 : IF i < n - 1 THEN f[i] < 0 ELSE f[i] <= 0
      PROVE  n \div 2 + SumBelow(f, n) <= 0
  <2>1. f[m] \in Int /\ f[m] <= 0 BY <1>2, <1>5
  <2>2. \A i \in 0 .. m - 1 : f[i] \in Int /\ ones[i] \in Int /\ f[i] <= ones[i]
    BY <1>2, <1>5
  <2> HIDE DEF m, c
  <2>3. SumBelow(f, m + 1) = SumBelow(f, m) + f[m] BY <1>1, SumRecursion
  <2>4. SumBelow(ones, m) = m * c BY <1>1, <1>2, SumOfEqual
  <2>5. SumBelow(f, m) <= SumBelow(ones, m) /\ SumBelow(f, m) \in Int
    BY <1>1, <2>2, SumMonotone, SumType
  <2>6. m * c = -m BY <1>1 DEF c
  <2> QED BY <1>1, <2>1, <2>3, <2>4, <2>5, <2>6
<1> QED BY <1>4, <1>5

\* What is in the newest r cells is in the newest r + 1 after it came again.
LEMMA NewestShift ==
  ASSUME NEW n \in Nat \ {0}, NEW h, NEW v, NEW r \in Nat,
         \A j \in 1 .. n : j <= r => h[n - j] = v
  PROVE  \A j \in 1 .. n : j <= r + 1 => ShiftIn(h, n, v)[n - j] = v
<1> SUFFICES ASSUME NEW j \in 1 .. n, j <= r + 1 PROVE ShiftIn(h, n, v)[n - j] = v
  OBVIOUS
<1>1. n - j \in 0 .. n - 1 OBVIOUS
<1>2. ShiftIn(h, n, v)[n - j] = IF n - j < n - 1 THEN h[(n - j) + 1] ELSE v
  BY <1>1 DEF ShiftIn
<1>3. CASE j = 1 BY <1>2, <1>3
<1>4. CASE j # 1
  <2>1. j - 1 \in 1 .. n /\ j - 1 <= r /\ n - (j - 1) = (n - j) + 1 BY <1>4
  <2>2. h[n - (j - 1)] = v BY <2>1
  <2> QED BY <1>2, <2>1, <2>2
<1> QED BY <1>3, <1>4

-----------------------------------------------------------------------------
(***************************************************************************)
(* The totals.                                                             *)
(***************************************************************************)

LEMMA ToolInitScores ==
  ToolInit => ToolTypeOK /\ TotalsMakeSense /\ Scoreboard!Init
BY PinToolAssumption
   DEF ToolInit, ToolTypeOK, CInt, TotalsMakeSense, Scoreboard!Init

\* What a branch does to the score.
LEMMA BranchScores ==
  ASSUME ToolTypeOK, NEW ins \in Branches, ExecuteBranch(ins),
         NEW correct \in BOOLEAN, Score(correct)
  PROVE  ToolTypeOK' /\ (TotalsMakeSense => TotalsMakeSense')
<1>1. /\ num_instr' = num_instr + 1 /\ num_instr < MaxInstr
      /\ num_branches' = Increment(num_branches)
      /\ num_correct' = IF correct THEN Increment(num_correct) ELSE num_correct
      /\ UNCHANGED <<instrumented, running>>
  BY DEF ExecuteBranch, docount, Score
<1>2. ASSUME NEW n \in CInt PROVE Increment(n) \in CInt
  BY PinToolAssumption DEF Increment, CInt
<1>3. ToolTypeOK'
  BY <1>1, <1>2, PinToolAssumption DEF ToolTypeOK
<1>4. ASSUME TotalsMakeSense PROVE TotalsMakeSense'
  <2>1. SUFFICES ASSUME num_instr + 1 <= INT_MAX
                 PROVE  /\ 0 <= num_correct' /\ num_correct' <= num_branches'
                        /\ num_branches' <= num_instr + 1
    BY <1>1 DEF TotalsMakeSense
  <2>2. /\ num_instr \in Nat /\ num_branches \in Int /\ num_correct \in Int
        /\ INT_MAX \in Nat
    BY PinToolAssumption DEF ToolTypeOK, CInt
  <2>3. 0 <= num_correct /\ num_correct <= num_branches /\ num_branches <= num_instr
    BY <1>4, <2>1, <2>2 DEF TotalsMakeSense
  <2> QED BY <1>1, <2>1, <2>2, <2>3 DEF Increment
<1> QED BY <1>3, <1>4

\* What every other step does to the score.
LEMMA HostScores ==
  ASSUME ToolTypeOK, HostStep
  PROVE  ToolTypeOK' /\ (TotalsMakeSense => TotalsMakeSense')
<1> USE PinToolAssumption DEF ToolTypeOK, CInt
<1>1. CASE \E ins \in Instructions : Instruction(ins)
  BY <1>1 DEF Instruction, score, TotalsMakeSense
<1>2. CASE \E ins \in Instructions : ExecuteOther(ins)
  BY <1>2 DEF ExecuteOther, docount, TotalsMakeSense
<1>3. CASE Fini
  BY <1>3 DEF Fini, TotalsMakeSense
<1> QED BY <1>1, <1>2, <1>3 DEF HostStep

-----------------------------------------------------------------------------

\* A step without the predictor is one the abstract scoreboard allows.
LEMMA HostIsScoreboard ==
  ASSUME ToolTypeOK, HostStep
  PROVE  [Scoreboard!Next]_(Scoreboard!vars)
<1> USE DEF Scoreboard!Next
<1>1. CASE \E ins \in Instructions : Instruction(ins)
  BY <1>1 DEF Instruction, score, Scoreboard!Forget, Scoreboard!vars
<1>2. CASE \E ins \in Instructions : ExecuteOther(ins)
  BY <1>2 DEF ExecuteOther, docount, Scoreboard!Other
<1>3. CASE Fini BY <1>3 DEF Fini, Scoreboard!Report
<1> QED BY <1>1, <1>2, <1>3 DEF HostStep

\* A branch is one of its branches, as long as the totals cannot overflow.
LEMMA BranchIsScoreboard ==
  ASSUME ToolTypeOK, TotalsMakeSense, MaxInstr <= INT_MAX,
         NEW ins \in Branches, ExecuteBranch(ins),
         NEW correct \in BOOLEAN, Score(correct)
  PROVE  Scoreboard!Branch
<1>1. /\ running /\ running' = running
      /\ num_instr' = num_instr + 1 /\ num_instr < MaxInstr
      /\ num_branches' = Increment(num_branches)
      /\ num_correct' \in {num_correct, Increment(num_correct)}
  BY DEF ExecuteBranch, docount, Score
<1>2. /\ num_instr \in Nat /\ num_branches \in Int /\ num_correct \in Int
      /\ INT_MAX \in Nat /\ MaxInstr \in Nat
  BY PinToolAssumption DEF ToolTypeOK, CInt
<1>3. num_branches < INT_MAX /\ num_correct < INT_MAX
  BY <1>1, <1>2 DEF TotalsMakeSense
<1> QED BY <1>1, <1>2, <1>3 DEF Increment, Scoreboard!Branch

=============================================================================
