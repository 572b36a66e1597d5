------------------------------ MODULE Numbers ------------------------------
(***************************************************************************)
(* What the proofs need to know of numbers.  Induction over the naturals   *)
(* and definition by iteration, stated with sets and functions: the        *)
(* library states them with an operator as a parameter; here a property of *)
(* numbers is the set of those that have it, and a step is a function.     *)
(* The sums of the community modules, quotients, and the bitwise operators *)
(* of Bits on words of sixteen bits.                                       *)
(***************************************************************************)
EXTENDS Integers, FiniteSets, FiniteSetTheorems, Bits, TLAPS

\* A set with zero and the successor of each member has every natural: otherwise
\* moving its members up by one would squeeze 0 .. n into 1 .. n.
THEOREM SetInduction ==
  ASSUME NEW S, 0 \in S, \A n \in Nat : n \in S => n + 1 \in S
  PROVE  Nat \subseteq S
<1> SUFFICES ASSUME NEW n \in Nat, n \notin S PROVE FALSE
  OBVIOUS
<1> DEFINE up == [i \in 0 .. n |-> IF i \in S THEN i + 1 ELSE i]
<1>1. up \in [0 .. n -> 1 .. n]
  <2> SUFFICES ASSUME NEW i \in 0 .. n
      PROVE  (IF i \in S THEN i + 1 ELSE i) \in 1 .. n
    OBVIOUS
  <2>1. CASE i \in S
    <3>1. i # n
      BY <2>1
    <3> QED BY <2>1, <3>1, SMT
  <2>2. CASE i \notin S
    <3>1. i # 0
      BY <2>2
    <3> QED BY <2>2, <3>1, SMT
  <2> QED BY <2>1, <2>2
<1>2. /\ IsFiniteSet(0 .. n) /\ Cardinality(0 .. n) = n + 1
      /\ IsFiniteSet(1 .. n) /\ Cardinality(1 .. n) = n
  <2>1. IsFiniteSet(0 .. n) /\ Cardinality(0 .. n) = IF 0 > n THEN 0 ELSE n - 0 + 1
    BY FS_Interval
  <2>2. IsFiniteSet(1 .. n) /\ Cardinality(1 .. n) = IF 1 > n THEN 0 ELSE n - 1 + 1
    BY FS_Interval
  <2> QED BY <2>1, <2>2, SMT
<1>3. \E x, y \in 0 .. n : x # y /\ up[x] = up[y]
  <2> HIDE DEF up
  <2>1. Cardinality(1 .. n) < Cardinality(0 .. n)
    BY <1>2, SMT
  <2> QED BY <1>1, <1>2, <2>1, FS_PigeonHole
<1>4. PICK x \in 0 .. n, y \in 0 .. n : x # y /\ up[x] = up[y]
  BY <1>3
<1>5. ASSUME NEW a \in 0 .. n, NEW b \in 0 .. n, a \in S, b \notin S
      PROVE  up[a] # up[b]
  <2>1. up[a] = a + 1 /\ up[b] = b /\ a + 1 \in S
    BY <1>5
  <2> QED BY <1>5, <2>1
<1>6. CASE x \in S /\ y \in S
  <2>1. x + 1 = y + 1
    BY <1>4, <1>6
  <2> QED BY <1>4, <2>1, SMT
<1>7. CASE x \notin S /\ y \notin S
  BY <1>4, <1>7
<1> QED BY <1>4, <1>5, <1>6, <1>7

\* A statement about every number below a bound, one number at a time.
COROLLARY BoundedInduction ==
  ASSUME NEW N \in Nat, NEW S, 0 \in S,
         \A n \in 0 .. N - 1 : n \in S => n + 1 \in S
  PROVE  0 .. N \subseteq S
<1> DEFINE T == S \cup {n \in Nat : n > N}
<1>1. 0 \in T
  OBVIOUS
<1>2. \A n \in Nat : n \in T => n + 1 \in T
  <2> SUFFICES ASSUME NEW n \in Nat, n \in T PROVE n + 1 \in T
    OBVIOUS
  <2>1. CASE n < N
    <3>1. n \in 0 .. N - 1 /\ n \in S
      BY <2>1, SMT
    <3> QED BY <3>1
  <2>2. CASE ~ (n < N)
    <3>1. n + 1 \in Nat /\ n + 1 > N
      BY <2>2, SMT
    <3> QED BY <3>1
  <2> QED BY <2>1, <2>2
<1>3. Nat \subseteq T
  <2> HIDE DEF T
  <2> QED BY <1>1, <1>2, SetInduction
<1> QED BY <1>3, SMT

\* What a recursive function computes: after n steps from first.
Iterates(g, N, X, first, step) ==
  /\ g \in [0 .. N -> X]
  /\ g[0] = first
  /\ \A n \in 1 .. N : g[n] = step[<<n, g[n - 1]>>]

\* A step can be iterated any number of times.
THEOREM IterationExists ==
  ASSUME NEW N \in Nat, NEW X, NEW first \in X, NEW step \in [(1 .. N) \X X -> X]
  PROVE  \E g : Iterates(g, N, X, first, step)
<1> DEFINE S == {n \in 0 .. N : \E g : Iterates(g, n, X, first, step)}
<1>1. 0 \in S
  <2> DEFINE g == [n \in 0 .. 0 |-> first]
  <2>1. g \in [0 .. 0 -> X] /\ g[0] = first /\ 1 .. 0 = {}
    BY SMT
  <2>2. Iterates(g, 0, X, first, step)
    BY <2>1 DEF Iterates
  <2> QED BY <2>2
<1>2. ASSUME NEW n \in 0 .. N - 1, n \in S
      PROVE  n + 1 \in S
  <2>1. PICK g : Iterates(g, n, X, first, step)
    BY <1>2
  <2> DEFINE more == [i \in 0 .. n + 1 |-> IF i <= n THEN g[i] ELSE step[<<n + 1, g[n]>>]]
  <2>2. /\ g \in [0 .. n -> X] /\ g[0] = first /\ n \in 0 .. n
        /\ \A i \in 1 .. n : g[i] = step[<<i, g[i - 1]>>]
    BY <2>1 DEF Iterates
  <2>3. step[<<n + 1, g[n]>>] \in X
    <3>1. g[n] \in X /\ n + 1 \in 1 .. N
      BY <1>2, <2>2, SMT
    <3> QED BY <3>1
  <2>4. more \in [0 .. n + 1 -> X]
    <3>1. ASSUME NEW i \in 0 .. n + 1, i <= n PROVE g[i] \in X
      BY <2>2, <3>1, SMT
    <3> QED BY <2>3, <3>1
  <2>5. more[0] = first
    BY <2>2, SMT
  <2>6. ASSUME NEW i \in 1 .. n + 1 PROVE more[i] = step[<<i, more[i - 1]>>]
    <3>1. i \in 0 .. n + 1 /\ i - 1 \in 0 .. n + 1 /\ i - 1 <= n
      BY SMT
    <3>2. more[i - 1] = g[i - 1]
      BY <3>1
    <3>3. CASE i <= n
      <4>1. i \in 1 .. n
        BY <3>3, SMT
      <4> QED BY <2>2, <3>1, <3>2, <3>3, <4>1
    <3>4. CASE i = n + 1
      <4>1. i - 1 = n /\ ~ (i <= n)
        BY <3>4, SMT
      <4> QED BY <3>1, <3>2, <3>4, <4>1
    <3> QED BY <3>3, <3>4, SMT
  <2>7. Iterates(more, n + 1, X, first, step)
    <3> HIDE DEF more
    <3> QED BY <2>4, <2>5, <2>6 DEF Iterates
  <2>8. n + 1 \in 0 .. N
    BY SMT
  <2> QED BY <2>7, <2>8
<1>3. 0 .. N \subseteq S
  <2> HIDE DEF S
  <2> QED BY <1>1, <1>2, BoundedInduction
<1>4. N \in S
  BY <1>3
<1> QED BY <1>4

-----------------------------------------------------------------------------
(* Sums over a finite set, as MapThenSumSet computes them *)

Picked(s) == CHOOSE x \in s : TRUE
Summing(v, S, g) ==
  [s \in SUBSET S |-> IF s = {} THEN 0 ELSE v[Picked(s)] + g[s \ {Picked(s)}]]
SumOver(v, S) == (CHOOSE g : g = Summing(v, S, g))[S]

\* The recursion has a solution: iterated from zero, it is right for the sets of at most n
\* elements after n steps.
THEOREM SummingDefines ==
  ASSUME NEW S, IsFiniteSet(S), NEW v \in [S -> Nat]
  PROVE  \E g \in [SUBSET S -> Nat] : g = Summing(v, S, g)
<1> DEFINE N    == Cardinality(S)
           X    == [SUBSET S -> Nat]
           zero == [s \in SUBSET S |-> 0]
           step == [x \in (1 .. N + 1) \X X |-> Summing(v, S, x[2])]
<1>1. N \in Nat /\ N + 1 \in Nat
  BY FS_CardinalityType, SMT
<1>2. ASSUME NEW s \in SUBSET S, s # {}
      PROVE  Picked(s) \in s /\ v[Picked(s)] \in Nat /\ s \ {Picked(s)} \in SUBSET S
  <2>1. Picked(s) \in s
    BY <1>2 DEF Picked
  <2> QED BY <2>1
<1>3. ASSUME NEW g \in X PROVE Summing(v, S, g) \in X
  <2>1. ASSUME NEW s \in SUBSET S, s # {}
        PROVE  v[Picked(s)] + g[s \ {Picked(s)}] \in Nat
    <3>1. v[Picked(s)] \in Nat /\ g[s \ {Picked(s)}] \in Nat
      BY <1>2, <2>1
    <3> QED BY <3>1, SMT
  <2> QED BY <2>1 DEF Summing
<1>4. zero \in X /\ step \in [(1 .. N + 1) \X X -> X]
  <2>1. ASSUME NEW x \in (1 .. N + 1) \X X PROVE Summing(v, S, x[2]) \in X
    BY <1>3
  <2> QED BY <2>1
<1>5. \E G : Iterates(G, N + 1, X, zero, step)
  <2> HIDE DEF N, X, zero, step
  <2> DEFINE M == N + 1
  <2>1. M \in Nat /\ step \in [(1 .. M) \X X -> X]
    BY <1>1, <1>4
  <2> HIDE DEF M
  <2>2. \E G : Iterates(G, M, X, zero, step)
    BY <1>4, <2>1, IterationExists
  <2> QED BY <2>2 DEF M
<1>6. PICK G : Iterates(G, N + 1, X, zero, step)
  BY <1>5
<1>7. /\ \A n \in 0 .. N + 1 : G[n] \in X
      /\ G[0] = zero
      /\ \A n \in 0 .. N : G[n + 1] = Summing(v, S, G[n])
  <2>1. ASSUME NEW n \in 0 .. N PROVE G[n + 1] = Summing(v, S, G[n])
    <3>1. n + 1 \in 1 .. N + 1 /\ (n + 1) - 1 = n /\ n \in 0 .. N + 1
      BY <1>1, SMT
    <3>2. G[n + 1] = step[<<n + 1, G[n]>>] /\ G[n] \in X
      <4> HIDE DEF step, X
      <4> QED BY <1>6, <3>1 DEF Iterates
    <3>3. <<n + 1, G[n]>> \in (1 .. N + 1) \X X
      BY <3>1, <3>2
    <3>4. step[<<n + 1, G[n]>>] = Summing(v, S, G[n])
      BY <3>3
    <3> QED BY <3>2, <3>4
  <2> HIDE DEF step, X, zero, N
  <2> QED BY <1>6, <2>1 DEF Iterates
<1> DEFINE P == {n \in 0 .. N : \A s \in SUBSET S : Cardinality(s) <= n => G[n + 1][s] = G[n][s]}
<1>8. ASSUME NEW s \in SUBSET S
      PROVE  /\ IsFiniteSet(s) /\ Cardinality(s) \in Nat /\ Cardinality(s) <= N
             /\ s # {} => Cardinality(s \ {Picked(s)}) = Cardinality(s) - 1
             /\ Cardinality(s) = 0 => s = {}
  <2>1. IsFiniteSet(s) /\ Cardinality(s) <= N
    BY FS_Subset
  <2>2. Cardinality(s) \in Nat
    BY <2>1, FS_CardinalityType
  <2>3. s # {} => Cardinality(s \ {Picked(s)}) = Cardinality(s) - 1
    BY <1>2, <2>1, FS_RemoveElement
  <2>4. Cardinality(s) = 0 => s = {}
    BY <2>1, FS_EmptySet
  <2> QED BY <2>1, <2>2, <2>3, <2>4
<1> HIDE DEF N
<1>9. 0 \in P
  <2> SUFFICES ASSUME NEW s \in SUBSET S, Cardinality(s) <= 0 PROVE G[0 + 1][s] = G[0][s]
    BY <1>1
  <2>1. s = {}
    <3>1. Cardinality(s) \in Nat
      BY <1>8
    <3>2. Cardinality(s) = 0
      BY <3>1, SMT
    <3> QED BY <1>8, <3>2
  <2>2. G[0 + 1] = Summing(v, S, G[0])
    BY <1>1, <1>7
  <2>3. Summing(v, S, G[0])[s] = 0 /\ G[0][s] = 0
    BY <1>7, <2>1 DEF Summing
  <2> QED BY <2>2, <2>3
<1>10. ASSUME NEW n \in 0 .. N - 1, n \in P
       PROVE  n + 1 \in P
  <2>1. n + 1 \in 0 .. N /\ n \in 0 .. N /\ n + 1 \in Nat
    BY <1>1, SMT
  <2>2. G[(n + 1) + 1] = Summing(v, S, G[n + 1]) /\ G[n + 1] = Summing(v, S, G[n])
    BY <1>7, <2>1
  <2> DEFINE a == G[n]
             b == G[n + 1]
             c == G[(n + 1) + 1]
  <2>3. ASSUME NEW s \in SUBSET S, Cardinality(s) <= n + 1
        PROVE  c[s] = b[s]
    <3>1. CASE s = {}
      BY <2>2, <3>1 DEF Summing
    <3>2. CASE s # {}
      <4> DEFINE t == s \ {Picked(s)}
      <4>1. t \in SUBSET S /\ Cardinality(t) <= n
        <5>1. t \in SUBSET S /\ Cardinality(t) = Cardinality(s) - 1 /\ Cardinality(s) \in Nat
          BY <1>8, <3>2
        <5> QED BY <2>1, <2>3, <5>1, SMT
      <4>2. b[t] = a[t]
        BY <1>10, <4>1
      <4>3. c[s] = v[Picked(s)] + b[t] /\ b[s] = v[Picked(s)] + a[t]
        BY <2>2, <3>2 DEF Summing
      <4> QED BY <4>2, <4>3
    <3> QED BY <3>1, <3>2
  <2> QED BY <2>1, <2>3
<1>11. 0 .. N \subseteq P
  <2> HIDE DEF P
  <2> QED BY <1>1, <1>9, <1>10, BoundedInduction
<1>12. N \in P /\ N \in 0 .. N /\ N \in 0 .. N + 1 /\ N + 1 \in 0 .. N + 1
  <2> HIDE DEF P
  <2>1. N \in 0 .. N /\ N \in 0 .. N + 1 /\ N + 1 \in 0 .. N + 1
    BY <1>1, SMT
  <2> QED BY <1>11, <2>1
<1>13. G[N + 1] = G[N]
  <2>1. \A s \in SUBSET S : G[N + 1][s] = G[N][s]
    BY <1>8, <1>12
  <2> QED BY <1>7, <1>12, <2>1
<1> QED BY <1>7, <1>12, <1>13

\* Every solution is made of naturals.
LEMMA SummingIsNat ==
  ASSUME NEW S, IsFiniteSet(S), NEW v \in [S -> Nat], NEW g, g = Summing(v, S, g)
  PROVE  g \in [SUBSET S -> Nat]
<1> DEFINE N == Cardinality(S)
           P == {n \in 0 .. N : \A s \in SUBSET S : Cardinality(s) <= n => g[s] \in Nat}
<1>1. N \in Nat
  BY FS_CardinalityType
<1>2. ASSUME NEW s \in SUBSET S
      PROVE  /\ Cardinality(s) \in Nat /\ Cardinality(s) <= N
             /\ s = {} => g[s] = 0
             /\ s # {} => /\ Picked(s) \in S /\ s \ {Picked(s)} \in SUBSET S
                         /\ g[s] = v[Picked(s)] + g[s \ {Picked(s)}]
                         /\ Cardinality(s \ {Picked(s)}) = Cardinality(s) - 1
             /\ Cardinality(s) = 0 => s = {}
  <2>1. IsFiniteSet(s) /\ Cardinality(s) <= N
    BY FS_Subset
  <2>2. Cardinality(s) \in Nat
    BY <2>1, FS_CardinalityType
  <2>3. s # {} => Picked(s) \in s
    BY DEF Picked
  <2>4. s # {} => Cardinality(s \ {Picked(s)}) = Cardinality(s) - 1
    BY <2>1, <2>3, FS_RemoveElement
  <2>5. Cardinality(s) = 0 => s = {}
    BY <2>1, FS_EmptySet
  <2>6. g[s] = IF s = {} THEN 0 ELSE v[Picked(s)] + g[s \ {Picked(s)}]
    BY DEF Summing
  <2> QED BY <2>1, <2>2, <2>3, <2>4, <2>5, <2>6
<1> HIDE DEF N
<1>3. 0 \in P
  <2> SUFFICES ASSUME NEW s \in SUBSET S, Cardinality(s) <= 0 PROVE g[s] \in Nat
    BY <1>1
  <2>1. Cardinality(s) \in Nat
    BY <1>2
  <2>2. Cardinality(s) = 0
    BY <2>1, SMT
  <2> QED BY <1>2, <2>2
<1>4. ASSUME NEW n \in 0 .. N - 1, n \in P
      PROVE  n + 1 \in P
  <2>1. n + 1 \in 0 .. N /\ n \in Nat
    BY <1>1, SMT
  <2>2. ASSUME NEW s \in SUBSET S, Cardinality(s) <= n + 1, s # {}
        PROVE  g[s] \in Nat
    <3> DEFINE t == s \ {Picked(s)}
    <3>1. /\ t \in SUBSET S /\ Cardinality(t) = Cardinality(s) - 1
          /\ Cardinality(s) \in Nat /\ Cardinality(t) \in Nat
          /\ g[s] = v[Picked(s)] + g[t] /\ v[Picked(s)] \in Nat
      BY <1>2, <2>2
    <3>2. Cardinality(t) <= n
      BY <2>1, <2>2, <3>1, SMT
    <3>3. g[t] \in Nat
      BY <1>4, <3>1, <3>2
    <3> QED BY <3>1, <3>3, SMT
  <2>3. ASSUME NEW s \in SUBSET S, s = {} PROVE g[s] \in Nat
    <3>1. g[s] = 0
      BY <1>2, <2>3
    <3> QED BY <3>1
  <2> QED BY <2>1, <2>2, <2>3
<1>5. 0 .. N \subseteq P
  <2> HIDE DEF P
  <2> QED BY <1>1, <1>3, <1>4, BoundedInduction
<1>6. N \in P
  <2>1. N \in 0 .. N
    BY <1>1, SMT
  <2> QED BY <1>5, <2>1
<1>7. \A s \in SUBSET S : g[s] \in Nat
  BY <1>2, <1>6
<1>8. g = [s \in SUBSET S |-> g[s]]
  BY DEF Summing
<1> QED BY <1>7, <1>8

\* What the sum is computed from.
COROLLARY SumIs ==
  ASSUME NEW S, IsFiniteSet(S), NEW v \in [S -> Nat]
  PROVE  \E g \in [SUBSET S -> Nat] : g = Summing(v, S, g) /\ SumOver(v, S) = g[S]
<1> DEFINE g == CHOOSE f : f = Summing(v, S, f)
<1>1. g = Summing(v, S, g)
  BY SummingDefines
<1>2. g \in [SUBSET S -> Nat]
  <2> HIDE DEF g
  <2> QED BY <1>1, SummingIsNat
<1>3. SumOver(v, S) = g[S]
  BY DEF SumOver
<1> QED BY <1>1, <1>2, <1>3

\* A sum of naturals, and one of three.
COROLLARY SumOfThree ==
  ASSUME NEW v \in [1 .. 3 -> Nat]
  PROVE  SumOver(v, 1 .. 3) = v[1] + v[2] + v[3]
<1> DEFINE S == 1 .. 3
<1>1. S = {1, 2, 3} /\ IsFiniteSet(S)
  <2>1. S = {1, 2, 3}
    BY SMT
  <2>2. IsFiniteSet(1 .. 3)
    <3>1. 1 \in Int /\ 3 \in Int
      BY SMT
    <3> QED BY <3>1, FS_Interval
  <2> QED BY <2>1, <2>2
<1>2. PICK g \in [SUBSET S -> Nat] : g = Summing(v, S, g) /\ SumOver(v, S) = g[S]
  BY <1>1, SumIs
<1>3. ASSUME NEW s \in SUBSET S
      PROVE  /\ s = {} => g[s] = 0
             /\ s # {} => Picked(s) \in s /\ g[s] = v[Picked(s)] + g[s \ {Picked(s)}]
  BY <1>2 DEF Summing, Picked
<1>4. v[1] \in Nat /\ v[2] \in Nat /\ v[3] \in Nat
  BY SMT
<1>5. ASSUME NEW a \in {1, 2, 3} PROVE g[{a}] = v[a]
  <2>1. {a} \in SUBSET S /\ {a} # {} /\ v[a] \in Nat
    BY <1>1, <1>4
  <2>2. Picked({a}) = a /\ {a} \ {a} = {} /\ g[{}] = 0
    BY <1>3, <2>1
  <2>3. g[{a}] = v[a] + 0
    BY <1>3, <2>1, <2>2
  <2> QED BY <2>1, <2>3, SMT
<1>6. ASSUME NEW a \in {1, 2, 3}, NEW b \in {1, 2, 3}, a # b
      PROVE  g[{a, b}] = v[a] + v[b]
  <2>1. {a, b} \in SUBSET S /\ v[a] \in Nat /\ v[b] \in Nat
    BY <1>1, <1>4
  <2>2. Picked({a, b}) = a \/ Picked({a, b}) = b
    BY <1>3, <2>1
  <2>3. {a, b} \ {a} = {b} /\ {a, b} \ {b} = {a}
    BY <1>6
  <2>4. g[{a, b}] = v[Picked({a, b})] + g[{a, b} \ {Picked({a, b})}]
    <3>1. {a, b} # {}
      OBVIOUS
    <3> QED BY <1>3, <2>1, <3>1
  <2>5. g[{a, b}] = v[a] + v[b] \/ g[{a, b}] = v[b] + v[a]
    <3>1. g[{a}] = v[a] /\ g[{b}] = v[b]
      BY <1>5
    <3>2. CASE Picked({a, b}) = a
      BY <2>3, <2>4, <3>1, <3>2
    <3>3. CASE Picked({a, b}) = b
      BY <2>3, <2>4, <3>1, <3>3
    <3> QED BY <2>2, <3>2, <3>3
  <2> QED BY <2>1, <2>5, SMT
<1>7. Picked({1, 2, 3}) \in {1, 2, 3}
      /\ g[{1, 2, 3}] = v[Picked({1, 2, 3})] + g[{1, 2, 3} \ {Picked({1, 2, 3})}]
  <2>1. {1, 2, 3} \in SUBSET S /\ {1, 2, 3} # {}
    BY <1>1
  <2> QED BY <1>3, <2>1
<1>8. /\ {1, 2, 3} \ {1} = {2, 3} /\ {1, 2, 3} \ {2} = {1, 3} /\ {1, 2, 3} \ {3} = {1, 2}
      /\ g[{2, 3}] = v[2] + v[3] /\ g[{1, 3}] = v[1] + v[3] /\ g[{1, 2}] = v[1] + v[2]
  BY <1>6
<1>9. \/ g[{1, 2, 3}] = v[1] + (v[2] + v[3])
      \/ g[{1, 2, 3}] = v[2] + (v[1] + v[3])
      \/ g[{1, 2, 3}] = v[3] + (v[1] + v[2])
  BY <1>7, <1>8
<1>10. g[{1, 2, 3}] = v[1] + v[2] + v[3]
  BY <1>4, <1>9, SMT
<1> QED BY <1>1, <1>2, <1>10

-----------------------------------------------------------------------------
(* Quotients, which the provers do not find by themselves                    *)

\* A number determines its quotient and remainder.
LEMMA QuotientIs ==
  ASSUME NEW m \in Nat \ {0}, NEW q \in Nat, NEW r \in 0 .. m - 1, NEW n, n = q * m + r
  PROVE  n \div m = q /\ n % m = r
<1> DEFINE p == n \div m
           s == n % m
<1>1. n \in Nat
  BY SMT
<1>2. p \in Nat /\ s \in 0 .. m - 1 /\ n = p * m + s
  BY <1>1, SMT
<1> HIDE DEF p, s
<1>3. ~ (p + 1 <= q)
  <2> SUFFICES ASSUME p + 1 <= q PROVE FALSE
    OBVIOUS
  <2>1. (q - p) * m >= m
    BY <1>2, SMT
  <2>2. (q - p) * m = q * m - p * m
    BY <1>2, SMT
  <2> QED BY <1>2, <2>1, <2>2, SMT
<1>4. ~ (q + 1 <= p)
  <2> SUFFICES ASSUME q + 1 <= p PROVE FALSE
    OBVIOUS
  <2>1. (p - q) * m >= m
    BY <1>2, SMT
  <2>2. (p - q) * m = p * m - q * m
    BY <1>2, SMT
  <2> QED BY <1>2, <2>1, <2>2, SMT
<1>5. p = q
  BY <1>2, <1>3, <1>4, SMT
<1>6. p * m = q * m
  BY <1>5
<1>7. s = r
  BY <1>2, <1>6, SMT
<1> QED BY <1>5, <1>7 DEF p, s

\* ... and has them.
LEMMA DivisionOf ==
  ASSUME NEW n \in Nat, NEW m \in Nat \ {0}
  PROVE  /\ n \div m \in Nat /\ n % m \in 0 .. m - 1
         /\ n = (n \div m) * m + (n % m)
  BY SMT

-----------------------------------------------------------------------------
(* Bits                                                                      *)

Bit(d, i) == CASE i = 0 -> d % 2 [] i = 1 -> (d \div 2) % 2
               [] i = 2 -> (d \div 4) % 2 [] i = 3 -> (d \div 8) % 2
Number(a, b, c, d) == a + 2 * b + 4 * c + 8 * d
Digit == 0 .. 15

\* The bits of a digit, and the digit of four bits.
LEMMA BitsOf ==
  ASSUME NEW d \in Digit
  PROVE  /\ d = Number(Bit(d, 0), Bit(d, 1), Bit(d, 2), Bit(d, 3))
         /\ \A i \in 0 .. 3 : Bit(d, i) \in 0 .. 1
         /\ d % 4 = Bit(d, 0) + 2 * Bit(d, 1)
         /\ d \div 4 = Bit(d, 2) + 2 * Bit(d, 3)
<1>1. d \in {0, 1, 2, 3, 4, 5, 6, 7, 8, 9, 10, 11, 12, 13, 14, 15}
  BY DEF Digit
<1> QED BY <1>1 DEF Bit, Number

\* An entry of a table, from the bits of the two digits.
LEMMA TablesAre ==
  ASSUME NEW x \in Digit, NEW y \in Digit
  PROVE  /\ AndTable[x][y] = Number(Bit(x, 0) * Bit(y, 0), Bit(x, 1) * Bit(y, 1),
                                    Bit(x, 2) * Bit(y, 2), Bit(x, 3) * Bit(y, 3))
         /\ OrTable[x][y] = Number(Bit(x, 0) + Bit(y, 0) - Bit(x, 0) * Bit(y, 0),
                                   Bit(x, 1) + Bit(y, 1) - Bit(x, 1) * Bit(y, 1),
                                   Bit(x, 2) + Bit(y, 2) - Bit(x, 2) * Bit(y, 2),
                                   Bit(x, 3) + Bit(y, 3) - Bit(x, 3) * Bit(y, 3))
         /\ XorTable[x][y] = Number((Bit(x, 0) + Bit(y, 0)) % 2, (Bit(x, 1) + Bit(y, 1)) % 2,
                                    (Bit(x, 2) + Bit(y, 2)) % 2, (Bit(x, 3) + Bit(y, 3)) % 2)
<1>1. AndTable[x][y] = Number(Bit(x, 0) * Bit(y, 0), Bit(x, 1) * Bit(y, 1),
                              Bit(x, 2) * Bit(y, 2), Bit(x, 3) * Bit(y, 3))
  BY SMT DEF AndTable, DigitTable, Bit, Number, Digit
<1>2. OrTable[x][y] = Number(Bit(x, 0) + Bit(y, 0) - Bit(x, 0) * Bit(y, 0),
                             Bit(x, 1) + Bit(y, 1) - Bit(x, 1) * Bit(y, 1),
                             Bit(x, 2) + Bit(y, 2) - Bit(x, 2) * Bit(y, 2),
                             Bit(x, 3) + Bit(y, 3) - Bit(x, 3) * Bit(y, 3))
  BY SMT DEF OrTable, DigitTable, Bit, Number, Digit
<1>3. XorTable[x][y] = Number((Bit(x, 0) + Bit(y, 0)) % 2, (Bit(x, 1) + Bit(y, 1)) % 2,
                              (Bit(x, 2) + Bit(y, 2)) % 2, (Bit(x, 3) + Bit(y, 3)) % 2)
  BY SMT DEF XorTable, DigitTable, Bit, Number, Digit
<1> QED BY <1>1, <1>2, <1>3

\* The masks that occur in one digit.
LEMMA AndDigit ==
  ASSUME NEW d \in Digit
  PROVE  /\ AndTable[d][0] = 0 /\ AndTable[0][d] = 0
         /\ AndTable[d][15] = d /\ AndTable[15][d] = d
         /\ AndTable[d][3] = d % 4
         /\ AndTable[d][12] = 4 * (d \div 4)
<1>1. /\ 0 \in Digit /\ 3 \in Digit /\ 12 \in Digit /\ 15 \in Digit
  BY DEF Digit
<1>2. /\ Bit(0, 0) = 0 /\ Bit(0, 1) = 0 /\ Bit(0, 2) = 0 /\ Bit(0, 3) = 0
      /\ Bit(3, 0) = 1 /\ Bit(3, 1) = 1 /\ Bit(3, 2) = 0 /\ Bit(3, 3) = 0
      /\ Bit(12, 0) = 0 /\ Bit(12, 1) = 0 /\ Bit(12, 2) = 1 /\ Bit(12, 3) = 1
      /\ Bit(15, 0) = 1 /\ Bit(15, 1) = 1 /\ Bit(15, 2) = 1 /\ Bit(15, 3) = 1
  BY DEF Bit
<1>3. AndTable[d][0] = 0 /\ AndTable[0][d] = 0
  BY <1>1, <1>2, TablesAre, BitsOf DEF Number
<1>4. AndTable[d][15] = d /\ AndTable[15][d] = d
  BY <1>1, <1>2, TablesAre, BitsOf DEF Number
<1>5. AndTable[d][3] = d % 4
  BY <1>1, <1>2, TablesAre, BitsOf DEF Number
<1>6. AndTable[d][12] = 4 * (d \div 4)
  BY <1>1, <1>2, TablesAre, BitsOf DEF Number
<1> QED BY <1>3, <1>4, <1>5, <1>6

\* Digits without a common bit add up.
LEMMA OrDigit ==
  ASSUME NEW d \in Digit
  PROVE  /\ OrTable[d][0] = d /\ OrTable[0][d] = d
         /\ \A q, r \in 0 .. 3 : OrTable[4 * q][r] = 4 * q + r
<1>1. 0 \in Digit /\ Bit(0, 0) = 0 /\ Bit(0, 1) = 0 /\ Bit(0, 2) = 0 /\ Bit(0, 3) = 0
  BY DEF Bit, Digit
<1>2. OrTable[d][0] = d /\ OrTable[0][d] = d
  BY <1>1, TablesAre, BitsOf DEF Number
<1>3. ASSUME NEW q \in 0 .. 3, NEW r \in 0 .. 3 PROVE OrTable[4 * q][r] = 4 * q + r
  <2> DEFINE e == 4 * q
  <2>1. e \in {0, 4, 8, 12} /\ r \in Digit /\ e \in Digit
    BY DEF Digit
  <2> HIDE DEF e
  <2>2. Bit(e, 0) = 0 /\ Bit(e, 1) = 0
    BY <2>1 DEF Bit
  <2>3. Bit(r, 2) = 0 /\ Bit(r, 3) = 0
    BY DEF Bit
  <2>4. \A i \in 0 .. 3 : Bit(e, i) \in 0 .. 1 /\ Bit(r, i) \in 0 .. 1
    BY <2>1, BitsOf
  <2>5. OrTable[e][r] = Number(Bit(r, 0), Bit(r, 1), Bit(e, 2), Bit(e, 3))
    <3>1. OrTable[e][r] = Number(0 + Bit(r, 0) - 0 * Bit(r, 0), 0 + Bit(r, 1) - 0 * Bit(r, 1),
                                 Bit(e, 2) + 0 - Bit(e, 2) * 0, Bit(e, 3) + 0 - Bit(e, 3) * 0)
      BY <2>1, <2>2, <2>3, TablesAre
    <3> QED BY <2>4, <3>1
  <2>6. e = Number(0, 0, Bit(e, 2), Bit(e, 3)) /\ r = Number(Bit(r, 0), Bit(r, 1), 0, 0)
    BY <2>1, <2>2, <2>3, BitsOf
  <2>7. OrTable[e][r] = e + r
    BY <2>4, <2>5, <2>6 DEF Number
  <2> QED BY <2>7 DEF e
<1> QED BY <1>2, <1>3

\* Exclusive or says whether two digits differ, and turns 15 and 0 around.
LEMMA XorDigit ==
  ASSUME NEW d \in Digit, NEW e \in Digit
  PROVE  /\ XorTable[d][e] \in Digit
         /\ XorTable[d][e] = 0 <=> d = e
         /\ XorTable[0][15] = 15 /\ XorTable[15][15] = 0
         /\ XorTable[0][0] = 0
<1>1. \A i \in 0 .. 3 : Bit(d, i) \in {0, 1} /\ Bit(e, i) \in {0, 1}
  BY BitsOf
<1>2. \A i \in 0 .. 3 : /\ (Bit(d, i) + Bit(e, i)) % 2 \in {0, 1}
                        /\ (Bit(d, i) + Bit(e, i)) % 2 = 0 <=> Bit(d, i) = Bit(e, i)
  BY <1>1
<1>3. XorTable[d][e] \in Digit
  <2> DEFINE x(i) == (Bit(d, i) + Bit(e, i)) % 2
  <2>1. XorTable[d][e] = Number(x(0), x(1), x(2), x(3))
    BY TablesAre
  <2>2. \A i \in 0 .. 3 : x(i) \in 0 .. 1
    BY <1>2
  <2> HIDE DEF x
  <2> QED BY <2>1, <2>2 DEF Number, Digit
<1>4. XorTable[d][e] = 0 <=> d = e
  <2> DEFINE x(i) == (Bit(d, i) + Bit(e, i)) % 2
  <2>1. XorTable[d][e] = Number(x(0), x(1), x(2), x(3))
    BY TablesAre
  <2>2. \A i \in 0 .. 3 : x(i) \in {0, 1} /\ (x(i) = 0 <=> Bit(d, i) = Bit(e, i))
    BY <1>2
  <2>3. \A i \in 0 .. 3 : x(i) = 0 <=> Bit(d, i) = Bit(e, i)
    BY <2>2
  <2> HIDE DEF x
  <2>4. XorTable[d][e] = 0 <=> x(0) = 0 /\ x(1) = 0 /\ x(2) = 0 /\ x(3) = 0
    BY <2>1, <2>2 DEF Number
  <2>5. d = Number(Bit(d, 0), Bit(d, 1), Bit(d, 2), Bit(d, 3))
        /\ e = Number(Bit(e, 0), Bit(e, 1), Bit(e, 2), Bit(e, 3))
    BY BitsOf
  <2>6. d = e => Bit(d, 0) = Bit(e, 0) /\ Bit(d, 1) = Bit(e, 1)
                 /\ Bit(d, 2) = Bit(e, 2) /\ Bit(d, 3) = Bit(e, 3)
    OBVIOUS
  <2>7. Bit(d, 0) = Bit(e, 0) /\ Bit(d, 1) = Bit(e, 1)
          /\ Bit(d, 2) = Bit(e, 2) /\ Bit(d, 3) = Bit(e, 3) => d = e
    BY <2>5, Zenon
  <2> QED BY <2>3, <2>4, <2>6, <2>7
<1>5. XorTable[0][15] = 15 /\ XorTable[15][15] = 0 /\ XorTable[0][0] = 0
  BY DEF XorTable, DigitTable
<1> QED BY <1>3, <1>4, <1>5

-----------------------------------------------------------------------------
(* Words of sixteen bits                                                     *)

Short(x) == x \in Nat /\ x < 65536
Digits == [0 .. 3 -> Digit]
Value(d) == d[0] + 16 * d[1] + 256 * d[2] + 4096 * d[3]

\* The digits HexDigit takes a word apart into.
LEMMA HexDigits ==
  ASSUME NEW d \in Digits, NEW x, x = Value(d)
  PROVE  /\ Short(x)
         /\ \A i \in 0 .. 3 : HexDigit(x, i) = d[i]
         /\ \A i \in 4 .. 7 : HexDigit(x, i) = 0
<1> DEFINE a == d[0]
           b == d[1]
           c == d[2]
           e == d[3]
<1>1. /\ a \in 0 .. 15 /\ b \in 0 .. 15 /\ c \in 0 .. 15 /\ e \in 0 .. 15
      /\ x = a + 16 * b + 256 * c + 4096 * e
  BY DEF Digit, Digits, Value
<1> HIDE DEF a, b, c, e
<1>2. Short(x)
  BY <1>1 DEF Short
<1>3. HexDigit(x, 0) = a
  <2>1. x \div 1 = x /\ x = 16 * (b + 16 * c + 256 * e) + a
    BY <1>1
  <2> QED BY <1>1, <2>1 DEF HexDigit
<1>4. HexDigit(x, 1) = b
  <2>1. x \div 16 = 16 * (c + 16 * e) + b
    BY <1>1
  <2> QED BY <1>1, <2>1 DEF HexDigit
<1>5. HexDigit(x, 2) = c
  <2>1. x \div 256 = 16 * e + c
    BY <1>1
  <2> QED BY <1>1, <2>1 DEF HexDigit
<1>6. HexDigit(x, 3) = e
  <2>1. x \div 4096 = e
    BY <1>1
  <2> QED BY <1>1, <2>1 DEF HexDigit
<1>7. ASSUME NEW i \in 4 .. 7 PROVE HexDigit(x, i) = 0
  <2>1. ASSUME NEW m \in Nat \ {0}, m >= 65536 PROVE x \div m = 0
    <3>1. x \in 0 .. m - 1 /\ x = 0 * m + x
      BY <1>2, <2>1 DEF Short
    <3> QED BY <3>1, QuotientIs
  <2>2. /\ x \div 65536 = 0 /\ x \div 1048576 = 0
        /\ x \div 16777216 = 0 /\ x \div 268435456 = 0
    BY <2>1
  <2>3. CASE i = 4
    BY <2>2, <2>3 DEF HexDigit
  <2>4. CASE i = 5
    BY <2>2, <2>4 DEF HexDigit
  <2>5. CASE i = 6
    BY <2>2, <2>5 DEF HexDigit
  <2>6. CASE i = 7
    BY <2>2, <2>6 DEF HexDigit
  <2> QED BY <2>3, <2>4, <2>5, <2>6
<1>8. ASSUME NEW i \in 0 .. 3 PROVE HexDigit(x, i) = d[i]
  <2>1. i = 0 \/ i = 1 \/ i = 2 \/ i = 3
    OBVIOUS
  <2> QED BY <1>3, <1>4, <1>5, <1>6, <2>1 DEF a, b, c, e
<1> QED BY <1>2, <1>7, <1>8

\* Four digits by name.
FourDigits(a, b, c, d) ==
  [i \in 0 .. 3 |-> IF i = 0 THEN a ELSE IF i = 1 THEN b ELSE IF i = 2 THEN c ELSE d]

\* A word and its digits determine each other.
LEMMA FourDigitsAre ==
  ASSUME NEW a \in Digit, NEW b \in Digit, NEW c \in Digit, NEW d \in Digit
  PROVE  LET f == FourDigits(a, b, c, d)
         IN /\ f \in Digits /\ Value(f) = a + 16 * b + 256 * c + 4096 * d
            /\ f[0] = a /\ f[1] = b /\ f[2] = c /\ f[3] = d
BY DEF FourDigits, Digits, Value

\* Every short word has digits.
LEMMA HasDigits ==
  ASSUME NEW x, Short(x)
  PROVE  \E d \in Digits : x = Value(d)
<1> DEFINE p == x \div 16
           q == p \div 16
           r == q \div 16
<1>1. x \in Nat /\ p \in Nat /\ p < 4096 /\ x = 16 * p + (x % 16) /\ x % 16 \in Digit
  BY DEF Short, Digit
<1> HIDE DEF p
<1>2. q \in Nat /\ q < 256 /\ p = 16 * q + (p % 16) /\ p % 16 \in Digit
  BY <1>1 DEF Digit
<1> HIDE DEF q
<1>3. r \in Digit /\ q = 16 * r + (q % 16) /\ q % 16 \in Digit
  BY <1>2 DEF Digit
<1> HIDE DEF r
<1>4. x = (x % 16) + 16 * (p % 16) + 256 * (q % 16) + 4096 * r
  BY <1>1, <1>2, <1>3 DEF Digit
<1> DEFINE f == FourDigits(x % 16, p % 16, q % 16, r)
<1>5. f \in Digits /\ x = Value(f)
  BY <1>1, <1>2, <1>3, <1>4, FourDigitsAre
<1> QED BY <1>5

\* An operator on words is its table on each digit.
DigitPairs(t, d, e) == [i \in 0 .. 3 |-> t[d[i]][e[i]]]

\* ByDigits goes digit by digit; the four high digits of a short word are zero.
LEMMA ByHexDigits ==
  ASSUME NEW t, t[0][0] = 0, \A i, j \in Digit : t[i][j] \in Digit,
         NEW d \in Digits, NEW e \in Digits
  PROVE  /\ ByDigits(t, Value(d), Value(e)) = Value(DigitPairs(t, d, e))
         /\ DigitPairs(t, d, e) \in Digits
<1> DEFINE x == Value(d)
           y == Value(e)
           at(i) == t[HexDigit(x, i)][HexDigit(y, i)]
           f == DigitPairs(t, d, e)
<1>1. \A i \in 0 .. 3 : at(i) = f[i] /\ f[i] \in Digit
  <2> SUFFICES ASSUME NEW i \in 0 .. 3 PROVE at(i) = f[i] /\ f[i] \in Digit
    OBVIOUS
  <2>1. d[i] \in Digit /\ e[i] \in Digit /\ HexDigit(x, i) = d[i] /\ HexDigit(y, i) = e[i]
    BY HexDigits DEF Digits
  <2> QED BY <2>1 DEF DigitPairs
<1>2. at(4) = 0 /\ at(5) = 0 /\ at(6) = 0 /\ at(7) = 0
  BY HexDigits
<1>3. ByDigits(t, x, y) = at(0) + 16 * (at(1) + 16 * (at(2) + 16 * (at(3)
        + 16 * (at(4) + 16 * (at(5) + 16 * (at(6) + 16 * at(7)))))))
  BY DEF ByDigits
<1> HIDE DEF at, x, y
<1>4. /\ at(0) = f[0] /\ at(1) = f[1] /\ at(2) = f[2] /\ at(3) = f[3]
      /\ f[0] \in Int /\ f[1] \in Int /\ f[2] \in Int /\ f[3] \in Int
  BY <1>1 DEF Digit
<1>5. f \in Digits
  BY <1>1 DEF DigitPairs, Digits
<1> HIDE DEF f
<1>6. ByDigits(t, x, y) = f[0] + 16 * f[1] + 256 * f[2] + 4096 * f[3]
  BY <1>2, <1>3, <1>4
<1> QED BY <1>5, <1>6 DEF x, y, f, Value

\* The tables give digits.
LEMMA TablesGive ==
  ASSUME NEW i \in Digit, NEW j \in Digit
  PROVE  AndTable[i][j] \in Digit /\ OrTable[i][j] \in Digit /\ XorTable[i][j] \in Digit
<1>1. \A k \in 0 .. 3 : Bit(i, k) \in {0, 1} /\ Bit(j, k) \in {0, 1}
  BY BitsOf
<1> DEFINE and(k) == Bit(i, k) * Bit(j, k)
           or(k)  == Bit(i, k) + Bit(j, k) - Bit(i, k) * Bit(j, k)
<1>2. \A k \in 0 .. 3 : and(k) \in 0 .. 1 /\ or(k) \in 0 .. 1
  BY <1>1
<1>3. /\ AndTable[i][j] = Number(and(0), and(1), and(2), and(3))
      /\ OrTable[i][j] = Number(or(0), or(1), or(2), or(3))
  BY TablesAre
<1> HIDE DEF and, or
<1>4. AndTable[i][j] \in Digit
  BY <1>2, <1>3 DEF Number, Digit
<1>5. OrTable[i][j] \in Digit
  BY <1>2, <1>3 DEF Number, Digit
<1> QED BY <1>4, <1>5, XorDigit

\* ... so does each operator of the module.
LEMMA WordByWord ==
  ASSUME NEW d \in Digits, NEW e \in Digits
  PROVE  /\ (Value(d) & Value(e)) = Value(DigitPairs(AndTable, d, e))
         /\ (Value(d) | Value(e)) = Value(DigitPairs(OrTable, d, e))
         /\ (Value(d) ^^ Value(e)) = Value(DigitPairs(XorTable, d, e))
         /\ DigitPairs(AndTable, d, e) \in Digits
         /\ DigitPairs(OrTable, d, e) \in Digits
         /\ DigitPairs(XorTable, d, e) \in Digits
<1>1. AndTable[0][0] = 0 /\ OrTable[0][0] = 0 /\ XorTable[0][0] = 0
  BY AndDigit, OrDigit, XorDigit DEF Digit
<1>2. ByDigits(AndTable, Value(d), Value(e)) = Value(DigitPairs(AndTable, d, e))
        /\ DigitPairs(AndTable, d, e) \in Digits
  BY <1>1, TablesGive, ByHexDigits
<1>3. ByDigits(OrTable, Value(d), Value(e)) = Value(DigitPairs(OrTable, d, e))
        /\ DigitPairs(OrTable, d, e) \in Digits
  BY <1>1, TablesGive, ByHexDigits
<1>4. ByDigits(XorTable, Value(d), Value(e)) = Value(DigitPairs(XorTable, d, e))
        /\ DigitPairs(XorTable, d, e) \in Digits
  BY <1>1, TablesGive, ByHexDigits
<1>5. (Value(d) & Value(e)) = ByDigits(AndTable, Value(d), Value(e))
  BY DEF &
<1>6. (Value(d) | Value(e)) = ByDigits(OrTable, Value(d), Value(e))
  BY DEF |
<1>7. (Value(d) ^^ Value(e)) = ByDigits(XorTable, Value(d), Value(e))
  BY DEF ^^
<1> QED BY <1>2, <1>3, <1>4, <1>5, <1>6, <1>7

\* The bitwise operators, digit by digit.
LEMMA OnDigits ==
  ASSUME NEW d \in Digits, NEW e \in Digits
  PROVE  /\ (Value(d) & Value(e)) =
              AndTable[d[0]][e[0]] + 16 * AndTable[d[1]][e[1]]
                + 256 * AndTable[d[2]][e[2]] + 4096 * AndTable[d[3]][e[3]]
         /\ (Value(d) | Value(e)) =
              OrTable[d[0]][e[0]] + 16 * OrTable[d[1]][e[1]]
                + 256 * OrTable[d[2]][e[2]] + 4096 * OrTable[d[3]][e[3]]
<1>1. \A t : Value(DigitPairs(t, d, e)) = t[d[0]][e[0]] + 16 * t[d[1]][e[1]]
                                          + 256 * t[d[2]][e[2]] + 4096 * t[d[3]][e[3]]
  BY DEF DigitPairs, Value
<1> QED BY <1>1, WordByWord

\* The masks of the codec keep a low part, a high part, or a part in the middle.
LEMMA Masks ==
  ASSUME NEW x, Short(x)
  PROVE  /\ (x & 255) = x % 256 /\ (255 & x) = x % 256
         /\ (x & 0) = 0 /\ (0 & x) = 0
         /\ (x & 63) = x % 64
         /\ (x & 64512) = 1024 * (x \div 1024)
         /\ (x & 4032) = 64 * ((x \div 64) % 64)
         /\ (x & 1008) = 16 * ((x \div 16) % 64)
<1>1. PICK d \in Digits : x = Value(d)
  BY HasDigits
<1> DEFINE low == FourDigits(15, 15, 0, 0)
           six == FourDigits(15, 3, 0, 0)
           top == FourDigits(0, 0, 12, 15)
           odd == FourDigits(0, 12, 15, 0)
           mid == FourDigits(0, 15, 3, 0)
           nil == FourDigits(0, 0, 0, 0)
<1>2. 0 \in Digit /\ 3 \in Digit /\ 12 \in Digit /\ 15 \in Digit
  BY DEF Digit
<1>3. /\ low \in Digits /\ Value(low) = 255
      /\ low[0] = 15 /\ low[1] = 15 /\ low[2] = 0 /\ low[3] = 0
  BY <1>2, FourDigitsAre
<1>4. /\ six \in Digits /\ Value(six) = 63
      /\ six[0] = 15 /\ six[1] = 3 /\ six[2] = 0 /\ six[3] = 0
  BY <1>2, FourDigitsAre
<1>5. /\ top \in Digits /\ Value(top) = 64512
      /\ top[0] = 0 /\ top[1] = 0 /\ top[2] = 12 /\ top[3] = 15
  BY <1>2, FourDigitsAre
<1>6. /\ odd \in Digits /\ Value(odd) = 4032
      /\ odd[0] = 0 /\ odd[1] = 12 /\ odd[2] = 15 /\ odd[3] = 0
  BY <1>2, FourDigitsAre
<1>7. /\ mid \in Digits /\ Value(mid) = 1008
      /\ mid[0] = 0 /\ mid[1] = 15 /\ mid[2] = 3 /\ mid[3] = 0
  BY <1>2, FourDigitsAre
<1>8. /\ nil \in Digits /\ Value(nil) = 0
      /\ nil[0] = 0 /\ nil[1] = 0 /\ nil[2] = 0 /\ nil[3] = 0
  BY <1>2, FourDigitsAre
<1> HIDE DEF low, six, top, odd, mid, nil
<1> DEFINE a == d[0]
           b == d[1]
           c == d[2]
           e == d[3]
<1>9. a \in Digit /\ b \in Digit /\ c \in Digit /\ e \in Digit
  BY DEF Digits
<1>10. x = a + 16 * b + 256 * c + 4096 * e
  BY <1>1 DEF Value
<1>11. (x & 255) = a + 16 * b /\ (255 & x) = a + 16 * b
  <2>1. AndTable[a][15] = a /\ AndTable[b][15] = b /\ AndTable[c][0] = 0 /\ AndTable[e][0] = 0
    BY <1>9, AndDigit
  <2>2. AndTable[15][a] = a /\ AndTable[15][b] = b /\ AndTable[0][c] = 0 /\ AndTable[0][e] = 0
    BY <1>9, AndDigit
  <2>3. (x & 255) = a + 16 * b + 256 * 0 + 4096 * 0
    BY <1>1, <1>3, <2>1, OnDigits
  <2>4. (255 & x) = a + 16 * b + 256 * 0 + 4096 * 0
    BY <1>1, <1>3, <2>2, OnDigits
  <2> QED BY <1>9, <2>3, <2>4 DEF Digit
<1>12. (x & 0) = 0 /\ (0 & x) = 0
  <2>1. AndTable[a][0] = 0 /\ AndTable[b][0] = 0 /\ AndTable[c][0] = 0 /\ AndTable[e][0] = 0
    BY <1>9, AndDigit
  <2>2. AndTable[0][a] = 0 /\ AndTable[0][b] = 0 /\ AndTable[0][c] = 0 /\ AndTable[0][e] = 0
    BY <1>9, AndDigit
  <2>3. (x & 0) = 0 + 16 * 0 + 256 * 0 + 4096 * 0
    BY <1>1, <1>8, <2>1, OnDigits
  <2>4. (0 & x) = 0 + 16 * 0 + 256 * 0 + 4096 * 0
    BY <1>1, <1>8, <2>2, OnDigits
  <2> QED BY <2>3, <2>4
<1>13. (x & 63) = a + 16 * (b % 4)
  <2>1. AndTable[a][15] = a /\ AndTable[b][3] = b % 4 /\ AndTable[c][0] = 0 /\ AndTable[e][0] = 0
    BY <1>9, AndDigit
  <2>2. (x & 63) = a + 16 * (b % 4) + 256 * 0 + 4096 * 0
    BY <1>1, <1>4, <2>1, OnDigits
  <2> QED BY <1>9, <2>2 DEF Digit
<1>14. (x & 64512) = 1024 * (c \div 4) + 4096 * e
  <2>1. /\ AndTable[a][0] = 0 /\ AndTable[b][0] = 0
        /\ AndTable[c][12] = 4 * (c \div 4) /\ AndTable[e][15] = e
    BY <1>9, AndDigit
  <2>2. (x & 64512) = 0 + 16 * 0 + 256 * (4 * (c \div 4)) + 4096 * e
    BY <1>1, <1>5, <2>1, OnDigits
  <2> QED BY <1>9, <2>2 DEF Digit
<1>15. (x & 4032) = 64 * (b \div 4) + 256 * c
  <2>1. /\ AndTable[a][0] = 0 /\ AndTable[e][0] = 0
        /\ AndTable[b][12] = 4 * (b \div 4) /\ AndTable[c][15] = c
    BY <1>9, AndDigit
  <2>2. (x & 4032) = 0 + 16 * (4 * (b \div 4)) + 256 * c + 4096 * 0
    BY <1>1, <1>6, <2>1, OnDigits
  <2> QED BY <1>9, <2>2 DEF Digit
<1>16. (x & 1008) = 16 * b + 256 * (c % 4)
  <2>1. /\ AndTable[a][0] = 0 /\ AndTable[e][0] = 0
        /\ AndTable[b][15] = b /\ AndTable[c][3] = c % 4
    BY <1>9, AndDigit
  <2>2. (x & 1008) = 0 + 16 * b + 256 * (c % 4) + 4096 * 0
    BY <1>1, <1>7, <2>1, OnDigits
  <2> QED BY <1>9, <2>2 DEF Digit
<1> HIDE DEF a, b, c, e
<1> DEFINE b0 == b % 4
           b1 == b \div 4
           c0 == c % 4
           c1 == c \div 4
<1>17. /\ b0 \in 0 .. 3 /\ b1 \in 0 .. 3 /\ b = 4 * b1 + b0
       /\ c0 \in 0 .. 3 /\ c1 \in 0 .. 3 /\ c = 4 * c1 + c0
  BY <1>9 DEF Digit
<1> HIDE DEF b0, b1, c0, c1
<1>18. a + 16 * b = x % 256
  BY <1>9, <1>10 DEF Digit
<1>19. a + 16 * b0 = x % 64
  BY <1>9, <1>10, <1>17 DEF Digit
<1>20. x \div 1024 = c1 + 4 * e
  BY <1>9, <1>10, <1>17 DEF Digit
<1>21. (x \div 64) % 64 = b1 + 4 * c
  <2>1. x \div 64 = 64 * e + (b1 + 4 * c)
    BY <1>9, <1>10, <1>17 DEF Digit
  <2> QED BY <1>9, <1>17, <2>1 DEF Digit
<1>22. (x \div 16) % 64 = b + 16 * c0
  <2>1. x \div 16 = 64 * (c1 + 4 * e) + (b + 16 * c0)
    BY <1>9, <1>10, <1>17 DEF Digit
  <2> QED BY <1>9, <1>17, <2>1 DEF Digit
<1>23. (x & 64512) = 1024 * (x \div 1024)
  BY <1>9, <1>14, <1>17, <1>20 DEF Digit, c1
<1>24. (x & 4032) = 64 * ((x \div 64) % 64)
  BY <1>9, <1>15, <1>17, <1>21 DEF Digit, b1
<1>25. (x & 1008) = 16 * ((x \div 16) % 64)
  BY <1>9, <1>16, <1>17, <1>22 DEF Digit, c0
<1>26. (x & 63) = x % 64
  BY <1>13, <1>19 DEF b0
<1> QED BY <1>11, <1>12, <1>18, <1>23, <1>24, <1>25, <1>26

\* Exclusive or: whether two words differ, and turning a mask around.
LEMMA Xors ==
  /\ \A x, y : Short(x) /\ Short(y) => Short(x ^^ y) /\ ((x ^^ y) = 0 <=> x = y)
  /\ (0 ^^ 255) = 255 /\ (255 ^^ 255) = 0
<1>0. 0 \in Digit /\ 15 \in Digit
  BY DEF Digit
<1>1. ASSUME NEW d \in Digits PROVE Value(d) = 0 <=> \A i \in 0 .. 3 : d[i] = 0
  <2>1. d[0] \in 0 .. 15 /\ d[1] \in 0 .. 15 /\ d[2] \in 0 .. 15 /\ d[3] \in 0 .. 15
    BY DEF Digits, Digit
  <2>2. (\A i \in 0 .. 3 : d[i] = 0) <=> d[0] = 0 /\ d[1] = 0 /\ d[2] = 0 /\ d[3] = 0
    BY SMT
  <2> DEFINE a == d[0]
             b == d[1]
             c == d[2]
             e == d[3]
  <2>3. Value(d) = a + 16 * b + 256 * c + 4096 * e
    BY DEF Value
  <2> HIDE DEF a, b, c, e
  <2>4. Value(d) = 0 <=> a = 0 /\ b = 0 /\ c = 0 /\ e = 0
    <3>1. a \in 0 .. 15 /\ b \in 0 .. 15 /\ c \in 0 .. 15 /\ e \in 0 .. 15
      BY <2>1 DEF a, b, c, e
    <3> QED BY <2>3, <3>1
  <2> QED BY <2>2, <2>4 DEF a, b, c, e
<1>2. ASSUME NEW x, NEW y, Short(x), Short(y)
      PROVE  Short(x ^^ y) /\ ((x ^^ y) = 0 <=> x = y)
  <2>1. PICK d \in Digits : x = Value(d)
    BY <1>2, HasDigits
  <2>2. PICK e \in Digits : y = Value(e)
    BY <1>2, HasDigits
  <2> DEFINE f == DigitPairs(XorTable, d, e)
  <2>3. (x ^^ y) = Value(f) /\ f \in Digits
    BY <2>1, <2>2, WordByWord
  <2>4. \A i \in 0 .. 3 : f[i] = 0 <=> d[i] = e[i]
    <3> SUFFICES ASSUME NEW i \in 0 .. 3 PROVE f[i] = 0 <=> d[i] = e[i]
      OBVIOUS
    <3>1. d[i] \in Digit /\ e[i] \in Digit
      BY DEF Digits
    <3> QED BY <3>1, XorDigit DEF DigitPairs
  <2>5. Value(f) = 0 <=> \A i \in 0 .. 3 : d[i] = e[i]
    BY <1>1, <2>3, <2>4
  <2>6. (\A i \in 0 .. 3 : d[i] = e[i]) <=> d = e
    BY DEF Digits
  <2>7. d = e <=> x = y
    <3>1. ASSUME x = y PROVE d = e
      <4>1. \A i \in 0 .. 3 : HexDigit(x, i) = d[i] /\ HexDigit(y, i) = e[i]
        BY <2>1, <2>2, HexDigits
      <4> QED BY <2>6, <3>1, <4>1
    <3> QED BY <2>1, <2>2, <3>1
  <2>8. Short(Value(f))
    BY <2>3, HexDigits
  <2> QED BY <2>3, <2>5, <2>6, <2>7, <2>8
<1>3. (0 ^^ 255) = 255 /\ (255 ^^ 255) = 0
  <2> DEFINE nil == FourDigits(0, 0, 0, 0)
             low == FourDigits(15, 15, 0, 0)
  <2>1. nil \in Digits /\ Value(nil) = 0 /\ low \in Digits /\ Value(low) = 255
    BY <1>0, FourDigitsAre
  <2>2. nil[0] = 0 /\ nil[1] = 0 /\ nil[2] = 0 /\ nil[3] = 0
        /\ low[0] = 15 /\ low[1] = 15 /\ low[2] = 0 /\ low[3] = 0
    BY <1>0, FourDigitsAre
  <2> HIDE DEF nil, low
  <2>3. XorTable[0][15] = 15 /\ XorTable[15][15] = 0 /\ XorTable[0][0] = 0
    BY <1>0, XorDigit
  <2>4. Value(DigitPairs(XorTable, nil, low)) = 255 /\ Value(DigitPairs(XorTable, low, low)) = 0
    BY <2>2, <2>3 DEF Value, DigitPairs
  <2>5. (Value(nil) ^^ Value(low)) = 255 /\ (Value(low) ^^ Value(low)) = 0
    BY <2>1, <2>4, WordByWord
  <2> QED BY <2>1, <2>5
<1> QED BY <1>2, <1>3
=============================================================================
