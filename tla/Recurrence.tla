----------------------------- MODULE Recurrence ------------------------------
(***************************************************************************)
(* Induction for the proofs, by the smallest counterexample, and what a    *)
(* definition along 1..n needs of it: a function with the values exists.   *)
(***************************************************************************)
EXTENDS Naturals, WellFoundedInduction, TLAPS

(* The order of the natural numbers, as a relation.                        *)
Less == {p \in Nat \X Nat : p[1] < p[2]}

(* Every set of numbers that has a member has a smallest one.              *)
LEMMA NatMinimum ==
    ASSUME NEW T, T \subseteq Nat, T # {}
    PROVE  \E x \in T : \A y \in T : x <= y
  <1>1. IsWellFoundedOn(Less, Nat)
    <2>1. Less = OpToRel(<, Nat)
      BY Zenon DEF Less, OpToRel
    <2> QED
      BY <2>1, NatLessThanWellFounded
  <1>2. \E x \in T : \A y \in T : ~(<<y, x>> \in Less)
    BY <1>1, WFMin
  <1>3. PICK x \in T : \A y \in T : ~(<<y, x>> \in Less)
    BY <1>2
  <1>4. ASSUME NEW y \in T PROVE x <= y
    <2>1. y \in Nat /\ x \in Nat
      OBVIOUS
    <2>2. ~(y < x)
      BY <1>3, <2>1 DEF Less
    <2> QED
      BY <2>1, <2>2
  <1> QED
    BY <1>4

(* Function f carries s0 along 1..n by the step g. *)
Carries(f, n, S, s0, g) ==
    f \in [0..n -> S] /\ f[0] = s0 /\ \A i \in 1..n : f[i] = g[<<i, f[i - 1]>>]

(* A value can be carried along 1..n, by whatever step.                    *)
LEMMA Carried ==
    ASSUME NEW n \in Nat, NEW S, NEW s0 \in S, NEW g \in [(1..n) \X S -> S]
    PROVE  \E f : Carries(f, n, S, s0, g)
  <1> DEFINE Run(k, f) == f[0] = s0 /\ \A i \in 1..k : f[i] = g[<<i, f[i - 1]>>]
             Bad == {k \in 0..n : ~ \E f \in [0..k -> S] : Run(k, f)}
  <1>1. ASSUME Bad # {} PROVE FALSE
    <2>0. Bad \subseteq Nat
      OBVIOUS
    <2>1. PICK k \in Bad : \A y \in Bad : k <= y
      <3> HIDE DEF Bad
      <3> QED
        BY <1>1, <2>0, NatMinimum, Zenon
    <2>2. k # 0
      <3>1. [i \in 0..0 |-> s0] \in [0..0 -> S] /\ Run(0, [i \in 0..0 |-> s0])
        OBVIOUS
      <3>2. 0 \notin Bad
        BY <3>1
      <3> QED
        BY <2>1, <3>2
    <2>3. k \in 1..n /\ k - 1 \in 0..n /\ k - 1 \notin Bad
      BY <2>1, <2>2
    <2>4. PICK f \in [0..(k - 1) -> S] : Run(k - 1, f)
      BY <2>3
    <2> DEFINE next == [i \in 0..k |-> IF i = k THEN g[<<k, f[k - 1]>>] ELSE f[i]]
    <2>5. next \in [0..k -> S]
      <3>1. f[k - 1] \in S
        BY <2>3, <2>4
      <3>2. g[<<k, f[k - 1]>>] \in S
        BY <2>3, <3>1
      <3>3. \A i \in 0..k : i # k => f[i] \in S
        BY <2>3, <2>4
      <3> QED
        BY <3>2, <3>3
    <2>6. Run(k, next)
      <3>1. next[0] = s0
        BY <2>3, <2>4
      <3>2. ASSUME NEW i \in 1..k PROVE next[i] = g[<<i, next[i - 1]>>]
        <4>1. i - 1 \in 0..k /\ i - 1 # k /\ next[i - 1] = f[i - 1]
          BY <2>3, <3>2
        <4>2. CASE i = k
          BY <2>3, <4>1, <4>2
        <4>3. CASE i # k
          <5>1. i \in 1..(k - 1) /\ next[i] = f[i]
            BY <2>3, <4>3
          <5> QED
            BY <2>4, <4>1, <5>1
        <4> QED
          BY <4>2, <4>3
      <3> QED
        BY <3>1, <3>2
    <2>7. k \notin Bad
      BY <2>5, <2>6
    <2> QED
      BY <2>1, <2>7
  <1>2. n \notin Bad
    BY <1>1
  <1>3. PICK f \in [0..n -> S] : Run(n, f)
    BY <1>2
  <1> QED
    BY <1>3 DEF Carries

(* A function that follows the step from s0 carries it.                    *)
LEMMA CarriesIt ==
    ASSUME NEW n \in Nat, NEW S, NEW s0 \in S, NEW g \in [(1..n) \X S -> S], NEW f,
           f = [i \in 0..n |-> f[i]], f[0] = s0,
           \A i \in 1..n : f[i - 1] \in S => f[i] = g[<<i, f[i - 1]>>]
    PROVE  Carries(f, n, S, s0, g)
  <1> DEFINE Bad == {i \in 0..n : f[i] \notin S}
  <1>1. ASSUME Bad # {} PROVE FALSE
    <2>0. Bad \subseteq Nat
      OBVIOUS
    <2>1. PICK i \in Bad : \A y \in Bad : i <= y
      <3> HIDE DEF Bad
      <3> QED
        BY <1>1, <2>0, NatMinimum, Zenon
    <2>2. i \in 1..n /\ i - 1 \in 0..n /\ i - 1 \notin Bad
      BY <2>1
    <2>3. f[i - 1] \in S
      BY <2>2
    <2>4. <<i, f[i - 1]>> \in (1..n) \X S
      BY <2>2, <2>3
    <2>5. f[i] \in S
      BY <2>2, <2>3, <2>4
    <2> QED
      BY <2>1, <2>5
  <1>2. \A i \in 0..n : f[i] \in S
    BY <1>1
  <1>3. f \in [0..n -> S]
    BY <1>2
  <1>4. \A i \in 1..n : i - 1 \in 0..n
    OBVIOUS
  <1> QED
    BY <1>2, <1>3, <1>4 DEF Carries

(* Two functions that follow the same steps up to k agree there.           *)
LEMMA CarriedAlike ==
    ASSUME NEW n \in Nat, NEW m \in Nat, NEW k \in Nat, k <= n, k <= m,
           NEW S, NEW s0, NEW f, NEW g, NEW h, NEW p,
           Carries(f, n, S, s0, g), Carries(h, m, S, s0, p),
           \A i \in 1..k, s \in S : g[<<i, s>>] = p[<<i, s>>]
    PROVE  f[k] = h[k]
  <1> DEFINE Bad == {i \in 0..k : f[i] # h[i]}
  <1>1. ASSUME Bad # {} PROVE FALSE
    <2>0. Bad \subseteq Nat
      OBVIOUS
    <2>1. PICK i \in Bad : \A y \in Bad : i <= y
      <3> HIDE DEF Bad
      <3> QED
        BY <1>1, <2>0, NatMinimum, Zenon
    <2>2. f[0] = h[0]
      BY DEF Carries
    <2>3. i \in 1..k /\ i \in 1..n /\ i \in 1..m /\ i - 1 \in 0..n /\ i - 1 \in 0..k
          /\ i - 1 \notin Bad
      BY <2>1, <2>2
    <2>4. f[i - 1] = h[i - 1] /\ f[i - 1] \in S
      BY <2>3 DEF Carries
    <2>5. f[i] = g[<<i, f[i - 1]>>] /\ h[i] = p[<<i, h[i - 1]>>]
      BY <2>3 DEF Carries
    <2>6. g[<<i, f[i - 1]>>] = p[<<i, f[i - 1]>>]
      BY <2>3, <2>4
    <2>7. f[i] = h[i]
      BY <2>4, <2>5, <2>6
    <2> QED
      BY <2>1, <2>7
  <1> QED
    BY <1>1
==============================================================================
