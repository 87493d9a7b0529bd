--------------------------- MODULE AlgorithmProofs --------------------------
(***************************************************************************)
(* What the recursive algorithms compute, for every input: the numbers and *)
(* strings of scripts, the walks over the block index, and the encodings   *)
(* of sizes, strings and transactions.                                     *)
(*                                                                         *)
(* Induction is on the smallest counterexample, a set of numbers that is   *)
(* not empty; a recursive function exists because every argument's value   *)
(* depends on arguments of a smaller measure.                              *)
(***************************************************************************)
EXTENDS ScriptNumber, AlgorithmRuns, SequenceTheorems, WellFoundedInduction, TLAPS

-----------------------------------------------------------------------------
(* Induction and recursion. *)

LEMMA Smallest ==
    ASSUME NEW S, S \subseteq Nat, S # {}
    PROVE  \E m \in S : \A k \in S : m <= k
<1> DEFINE R == OpToRel(<, Nat)
<1>1. IsWellFoundedOn(R, Nat)
  BY NatLessThanWellFounded
<1>2. \A x, y \in Nat : << x, y >> \in R <=> x < y
  BY DEF OpToRel
<1> HIDE DEF R
<1>3. \E m \in S : \A k \in S : ~ (<< k, m >> \in R)
  BY <1>1, WFMin
<1>4. PICK m \in S : \A k \in S : ~ (<< k, m >> \in R)
  BY <1>3
<1>5. ASSUME NEW k \in S
      PROVE  m <= k
  <2>1. k \in Nat /\ m \in Nat /\ ~ (k < m)
    BY <1>2, <1>4
  <2>2. QED
    BY <2>1
<1>6. QED
  BY <1>5

LEMMA Induction ==
    ASSUME NEW S, 0 \in S, \A n \in Nat : n \in S => n + 1 \in S
    PROVE  Nat \subseteq S
<1>1. SUFFICES ASSUME Nat \ S # {}
               PROVE  FALSE
  OBVIOUS
<1>2. PICK m \in Nat \ S : \A k \in Nat \ S : m <= k
  BY <1>1, Smallest
<1>3. QED
  BY <1>2

\* Induction on a measure.
LEMMA MeasureInduction ==
    ASSUME NEW S, NEW mu \in [S -> Nat], NEW T,
           \A x \in S : (\A y \in S : mu[y] < mu[x] => y \in T) => x \in T
    PROVE  S \subseteq T
<1> DEFINE U == {n \in Nat : \A x \in S : mu[x] < n => x \in T}
<1>1. 0 \in U
  OBVIOUS
<1>2. ASSUME NEW n \in Nat, n \in U
      PROVE  n + 1 \in U
  <2>1. ASSUME NEW x \in S, mu[x] < n + 1
        PROVE  x \in T
    <3>1. \A y \in S : mu[y] < mu[x] => y \in T
      BY <1>2, <2>1
    <3>2. QED
      BY <3>1
  <2>2. QED
    BY <2>1
<1> HIDE DEF U
<1>3. Nat \subseteq U
  BY <1>1, <1>2, Induction
<1>4. ASSUME NEW x \in S
      PROVE  x \in T
  <2>1. mu[x] + 1 \in U /\ mu[x] < mu[x] + 1
    BY <1>3
  <2>2. QED
    BY <2>1 DEF U
<1>5. QED
  BY <1>4

\* D gives the value at s from a function, of which it looks only at the
\* arguments below s.
Local(S, X, mu, D) ==
    \A s \in S : \A g, h \in [S -> X] :
        (\A t \in S : mu[t] < mu[s] => g[t] = h[t]) => D[<< s, g >>] = D[<< s, h >>]

\* g is a solution of the recursion for the arguments of measures below n.
Solves(g, n, S, mu, D) == \A s \in S : mu[s] < n => g[s] = D[<< s, g >>]

\* A function that satisfies the recursion.
HasSolution(S, X, D) == \E f \in [S -> X] : \A s \in S : f[s] = D[<< s, f >>]

LEMMA SolutionGrows ==
    ASSUME NEW S, NEW X, NEW mu \in [S -> Nat], NEW D \in [S \X [S -> X] -> X],
           Local(S, X, mu, D), NEW n \in Nat, NEW g \in [S -> X], Solves(g, n, S, mu, D)
    PROVE  \E h \in [S -> X] : Solves(h, n + 1, S, mu, D)
<1> DEFINE h == [s \in S |-> D[<< s, g >>]]
<1>1. h \in [S -> X]
  OBVIOUS
<1>2. \A s \in S : h[s] = D[<< s, g >>]
  OBVIOUS
<1> HIDE DEF h
<1>3. ASSUME NEW s \in S, mu[s] < n + 1
      PROVE  h[s] = D[<< s, h >>]
  <2>1. ASSUME NEW t \in S, mu[t] < mu[s]
        PROVE  g[t] = h[t]
    <3>1. mu[t] \in Nat /\ mu[s] \in Nat
      OBVIOUS
    <3>2. mu[t] < n
      BY <1>3, <2>1, <3>1
    <3>3. QED
      BY <1>2, <3>2 DEF Solves
  <2>2. D[<< s, g >>] = D[<< s, h >>]
    BY <1>1, <2>1 DEF Local
  <2>3. QED
    BY <1>2, <2>2
<1>4. QED
  BY <1>1, <1>3 DEF Solves

LEMMA RecursionExists ==
    ASSUME NEW S, NEW X, X # {}, NEW mu \in [S -> Nat], NEW D \in [S \X [S -> X] -> X],
           Local(S, X, mu, D)
    PROVE  HasSolution(S, X, D)
<1> DEFINE U == {n \in Nat : \E g \in [S -> X] : Solves(g, n, S, mu, D)}
<1>1. 0 \in U
  <2>1. PICK x \in X : TRUE
    OBVIOUS
  <2> DEFINE g == [s \in S |-> x]
  <2>2. g \in [S -> X]
    BY <2>1
  <2>3. \A s \in S : ~ (mu[s] < 0)
    <3>1. \A s \in S : mu[s] \in Nat
      OBVIOUS
    <3>2. QED
      BY <3>1
  <2> HIDE DEF g
  <2>4. Solves(g, 0, S, mu, D)
    BY <2>3 DEF Solves
  <2>5. QED
    BY <2>2, <2>4
<1>2. ASSUME NEW n \in Nat, n \in U
      PROVE  n + 1 \in U
  <2>1. PICK g \in [S -> X] : Solves(g, n, S, mu, D)
    BY <1>2
  <2>2. \E h \in [S -> X] : Solves(h, n + 1, S, mu, D)
    BY <2>1, SolutionGrows
  <2>3. QED
    BY <2>2
<1> HIDE DEF U
<1>3. Nat \subseteq U
  BY <1>1, <1>2, Induction
<1>4. ASSUME NEW m \in Nat, NEW n \in Nat, m <= n,
             NEW g \in [S -> X], Solves(g, m, S, mu, D),
             NEW h \in [S -> X], Solves(h, n, S, mu, D),
             NEW s \in S, mu[s] < m
      PROVE  g[s] = h[s]
  <2> DEFINE T == {t \in S : mu[t] < m => g[t] = h[t]}
  <2>1. ASSUME NEW t \in S, \A u \in S : mu[u] < mu[t] => u \in T
        PROVE  t \in T
    <3>1. SUFFICES ASSUME mu[t] < m
                   PROVE  g[t] = h[t]
      OBVIOUS
    <3>2. ASSUME NEW u \in S, mu[u] < mu[t]
          PROVE  g[u] = h[u]
      <4>1. mu[u] \in Nat /\ mu[t] \in Nat
        OBVIOUS
      <4>2. QED
        BY <2>1, <3>1, <3>2, <4>1
    <3>3. D[<< t, g >>] = D[<< t, h >>]
      BY <3>2 DEF Local
    <3>4. mu[t] \in Nat /\ mu[t] < n
      BY <1>4, <3>1
    <3>5. g[t] = D[<< t, g >>] /\ h[t] = D[<< t, h >>]
      BY <1>4, <3>1, <3>4 DEF Solves
    <3>6. QED
      BY <3>3, <3>5
  <2> HIDE DEF T
  <2>2. S \subseteq T
    BY <2>1, MeasureInduction
  <2>3. QED
    BY <1>4, <2>2 DEF T
<1> DEFINE G(n) == CHOOSE g \in [S -> X] : Solves(g, n, S, mu, D)
<1>5. ASSUME NEW n \in Nat
      PROVE  G(n) \in [S -> X] /\ Solves(G(n), n, S, mu, D)
  BY <1>3 DEF U
<1> HIDE DEF G
<1> DEFINE f == [s \in S |-> G(mu[s] + 1)[s]]
<1>6. \A s \in S : mu[s] \in Nat /\ mu[s] + 1 \in Nat
  OBVIOUS
<1>7. \A s \in S : G(mu[s] + 1)[s] \in X
  BY <1>5, <1>6
<1>8. f \in [S -> X] /\ \A s \in S : f[s] = G(mu[s] + 1)[s]
  BY <1>7
<1> HIDE DEF f
<1>9. ASSUME NEW s \in S
      PROVE  f[s] = D[<< s, f >>]
  <2>1. mu[s] \in Nat /\ mu[s] + 1 \in Nat /\ mu[s] < mu[s] + 1
    OBVIOUS
  <2>2. PICK g \in [S -> X] : Solves(g, mu[s] + 1, S, mu, D) /\ f[s] = g[s]
    BY <1>5, <1>8, <2>1
  <2>3. ASSUME NEW t \in S, mu[t] < mu[s]
        PROVE  g[t] = f[t]
    <3>1. mu[t] \in Nat /\ mu[t] + 1 \in Nat /\ mu[t] < mu[t] + 1 /\ mu[t] + 1 <= mu[s] + 1
      BY <2>1, <2>3
    <3>2. PICK h \in [S -> X] : Solves(h, mu[t] + 1, S, mu, D) /\ f[t] = h[t]
      BY <1>5, <1>8, <3>1
    <3>3. h[t] = g[t]
      BY <1>4, <2>1, <2>2, <3>1, <3>2
    <3>4. QED
      BY <3>2, <3>3
  <2>4. D[<< s, g >>] = D[<< s, f >>]
    BY <1>8, <2>2, <2>3 DEF Local
  <2>5. QED
    BY <2>1, <2>2, <2>4 DEF Solves
<1>10. QED
  BY <1>8, <1>9 DEF HasSolution

\* The same for numbers.
LEMMA NatRecursionExists ==
    ASSUME NEW S, S \subseteq Nat, NEW X, X # {}, NEW D \in [S \X [S -> X] -> X],
           \A k \in S : \A g, h \in [S -> X] :
               (\A t \in S : t < k => g[t] = h[t]) => D[<< k, g >>] = D[<< k, h >>]
    PROVE  HasSolution(S, X, D)
<1> DEFINE mu == [k \in S |-> k]
<1>1. mu \in [S -> Nat] /\ \A k \in S : mu[k] = k
  OBVIOUS
<1> HIDE DEF mu
<1>2. Local(S, X, mu, D)
  BY <1>1 DEF Local
<1>3. QED
  BY <1>1, <1>2, RecursionExists

\* f runs through x0 and what each of n steps makes of the value before it.
RunsThrough(f, n, X, x0, step) ==
    /\ f \in [0 .. n -> X]
    /\ f[0] = x0
    /\ \A k \in 1 .. n : f[k] = step[<< k, f[k - 1] >>]

HasRun(n, X, x0, step) == \E f : RunsThrough(f, n, X, x0, step)

LEMMA RunExists ==
    ASSUME NEW n \in Nat, NEW X, NEW x0 \in X, NEW step \in [(1 .. n) \X X -> X]
    PROVE  HasRun(n, X, x0, step)
<1> DEFINE S == 0 .. n
<1>1. S \subseteq Nat /\ 0 \in S /\ X # {}
  OBVIOUS
<1>2. \A k \in S : k # 0 => k \in 1 .. n /\ k - 1 \in S /\ k - 1 < k
  OBVIOUS
<1>3. \A k \in 1 .. n : k \in S /\ k # 0
  OBVIOUS
<1> HIDE DEF S
<1> DEFINE D == [p \in S \X [S -> X] |->
                    IF p[1] = 0 THEN x0 ELSE step[<< p[1], p[2][p[1] - 1] >>]]
<1>4. \A k \in S, g \in [S -> X] :
         D[<< k, g >>] = IF k = 0 THEN x0 ELSE step[<< k, g[k - 1] >>]
  OBVIOUS
<1>5. \A k \in 1 .. n, x \in X : step[<< k, x >>] \in X
  OBVIOUS
<1>6. D \in [S \X [S -> X] -> X]
  <2>1. ASSUME NEW p \in S \X [S -> X]
        PROVE  (IF p[1] = 0 THEN x0 ELSE step[<< p[1], p[2][p[1] - 1] >>]) \in X
    <3>1. p[1] \in S /\ p[2] \in [S -> X]
      OBVIOUS
    <3>2. p[1] # 0 => p[1] \in 1 .. n /\ p[2][p[1] - 1] \in X
      BY <1>2, <3>1
    <3>3. QED
      BY <1>5, <3>2
  <2>2. QED
    BY <2>1
<1> HIDE DEF D
<1>7. ASSUME NEW k \in S, NEW g \in [S -> X], NEW h \in [S -> X],
             \A t \in S : t < k => g[t] = h[t]
      PROVE  D[<< k, g >>] = D[<< k, h >>]
  <2>1. CASE k = 0
    <3>1. D[<< k, g >>] = x0
      BY <1>4, <2>1
    <3>2. D[<< k, h >>] = x0
      BY <1>4, <2>1
    <3>3. QED
      BY <3>1, <3>2
  <2>2. CASE k # 0
    <3>1. D[<< k, g >>] = step[<< k, g[k - 1] >>]
      BY <1>4, <2>2
    <3>2. D[<< k, h >>] = step[<< k, h[k - 1] >>]
      BY <1>4, <2>2
    <3>3. g[k - 1] = h[k - 1]
      BY <1>2, <1>7, <2>2
    <3>4. QED
      BY <3>1, <3>2, <3>3
  <2>3. QED
    BY <2>1, <2>2
<1>8. HasSolution(S, X, D)
  BY <1>1, <1>6, <1>7, NatRecursionExists
<1>9. PICK f \in [S -> X] : \A k \in S : f[k] = D[<< k, f >>]
  BY <1>8 DEF HasSolution
<1>10. f[0] = x0
  <2>1. D[<< 0, f >>] = x0
    BY <1>1, <1>4, <1>9
  <2>2. QED
    BY <1>1, <1>9, <2>1
<1>11. ASSUME NEW k \in 1 .. n
       PROVE  f[k] = step[<< k, f[k - 1] >>]
  <2>1. D[<< k, f >>] = step[<< k, f[k - 1] >>]
    BY <1>3, <1>4, <1>9
  <2>2. QED
    BY <1>3, <1>9, <2>1
<1>12. RunsThrough(f, n, X, x0, step)
  BY <1>9, <1>10, <1>11 DEF RunsThrough, S
<1>13. QED
  BY <1>12 DEF HasRun

-----------------------------------------------------------------------------
(* The digits of a number. *)

LEMMA Division ==
    ASSUME NEW n \in Nat
    PROVE  /\ n \div 256 \in Nat /\ n % 256 \in Byte
           /\ n = 256 * (n \div 256) + (n % 256)
           /\ n # 0 => n \div 256 < n
<1>1. n \div 256 \in Nat
  OBVIOUS
<1>2. n % 256 \in 0 .. 255
  OBVIOUS
<1>3. n = 256 * (n \div 256) + (n % 256)
  OBVIOUS
<1>4. \A q, r \in Nat : 256 * q + r # 0 => q < 256 * q + r
  OBVIOUS
<1>5. n # 0 => n \div 256 < n
  <2> DEFINE q == n \div 256
             r == n % 256
  <2>1. q \in Nat /\ r \in Nat /\ n = 256 * q + r
    BY <1>1, <1>2, <1>3
  <2> HIDE DEF q, r
  <2>2. n # 0 => q < n
    BY <2>1, <1>4
  <2>3. QED
    BY <2>2 DEF q
<1>6. QED
  BY <1>1, <1>2, <1>3, <1>5 DEF Byte

LEMMA DigitsEquation ==
    /\ Digits(0) = << >>
    /\ \A n \in Nat : /\ Digits(n) \in Seq(Byte)
                      /\ n # 0 => Digits(n) = << n % 256 >> \o Digits(n \div 256)
<1> DEFINE X == Seq(Byte)
           mu == [k \in Nat |-> k]
           D == [p \in Nat \X [Nat -> X] |->
                    IF p[1] = 0 THEN << >> ELSE << p[1] % 256 >> \o p[2][p[1] \div 256]]
<1>1. mu \in [Nat -> Nat] /\ \A k \in Nat : mu[k] = k
  OBVIOUS
<1>2. << >> \in X /\ X # {}
  BY EmptySeq
<1>3. \A k \in Nat, g \in [Nat -> X] :
         D[<< k, g >>] = IF k = 0 THEN << >> ELSE << k % 256 >> \o g[k \div 256]
  OBVIOUS
<1>4. \A k \in Nat, g \in [Nat -> X] : << k % 256 >> \o g[k \div 256] \in X
  <2> TAKE k \in Nat, g \in [Nat -> X]
  <2>1. << k % 256 >> \in Seq(Byte) /\ g[k \div 256] \in Seq(Byte)
    BY Division
  <2>2. QED
    BY <2>1, ConcatProperties
<1>5. D \in [Nat \X [Nat -> X] -> X]
  <2>1. \A p \in Nat \X [Nat -> X] :
            (IF p[1] = 0 THEN << >> ELSE << p[1] % 256 >> \o p[2][p[1] \div 256]) \in X
    BY <1>2, <1>4, ZenonT(60)
  <2> HIDE DEF X
  <2>2. QED
    BY <2>1
<1> HIDE DEF X, mu, D
<1>6. HasSolution(Nat, X, D)
  <2>1. ASSUME NEW k \in Nat, NEW g \in [Nat -> X], NEW h \in [Nat -> X],
               \A t \in Nat : t < k => g[t] = h[t]
        PROVE  D[<< k, g >>] = D[<< k, h >>]
    <3>1. k # 0 => g[k \div 256] = h[k \div 256]
      BY <2>1, Division
    <3>2. CASE k = 0
      <4>1. D[<< k, g >>] = << >>
        BY <1>3, <3>2
      <4>2. D[<< k, h >>] = << >>
        BY <1>3, <3>2
      <4>3. QED
        BY <4>1, <4>2
    <3>3. CASE k # 0
      <4>1. D[<< k, g >>] = << k % 256 >> \o g[k \div 256]
        BY <1>3, <3>3
      <4>2. D[<< k, h >>] = << k % 256 >> \o h[k \div 256]
        BY <1>3, <3>3
      <4>3. QED
        BY <3>1, <3>3, <4>1, <4>2
    <3>4. QED
      BY <3>2, <3>3
  <2>2. QED
    BY <1>2, <1>5, <2>1, NatRecursionExists
<1>7. PICK f \in [Nat -> X] : \A k \in Nat : f[k] = D[<< k, f >>]
  BY <1>6 DEF HasSolution
<1>8. f = [k \in Nat |-> IF k = 0 THEN << >> ELSE << k % 256 >> \o f[k \div 256]]
  <2>1. ASSUME NEW k \in Nat
        PROVE  f[k] = IF k = 0 THEN << >> ELSE << k % 256 >> \o f[k \div 256]
    <3>1. f[k] = D[<< k, f >>]
      BY <1>7
    <3>2. D[<< k, f >>] = IF k = 0 THEN << >> ELSE << k % 256 >> \o f[k \div 256]
      BY <1>3, <1>7
    <3>3. QED
      BY <3>1, <3>2
  <2>2. QED
    BY <1>7, <2>1
<1> DEFINE d == CHOOSE g : g = [k \in Nat |-> IF k = 0 THEN << >>
                                              ELSE << k % 256 >> \o g[k \div 256]]
<1>9. d = [k \in Nat |-> IF k = 0 THEN << >> ELSE << k % 256 >> \o d[k \div 256]]
  BY <1>8, ZenonT(30)
<1>10. \A n \in Nat : Digits(n) = d[n]
  BY DEF Digits
<1> HIDE DEF d
<1>11. \A k \in Nat : d[k] = IF k = 0 THEN << >> ELSE << k % 256 >> \o d[k \div 256]
  BY <1>9
<1> DEFINE T == {k \in Nat : d[k] \in Seq(Byte)}
<1>12. ASSUME NEW k \in Nat, \A t \in Nat : mu[t] < mu[k] => t \in T
       PROVE  k \in T
  <2>1. CASE k = 0
    BY <1>11, <2>1, EmptySeq
  <2>2. CASE k # 0
    <3>1. d[k \div 256] \in Seq(Byte) /\ << k % 256 >> \in Seq(Byte)
      BY <1>1, <1>12, <2>2, Division
    <3>2. << k % 256 >> \o d[k \div 256] \in Seq(Byte)
      BY <3>1, ConcatProperties
    <3>3. QED
      BY <1>11, <2>2, <3>2
  <2>3. QED
    BY <2>1, <2>2
<1> HIDE DEF T
<1>13. Nat \subseteq T
  BY <1>1, <1>12, MeasureInduction
<1>14. \A k \in Nat : d[k] \in Seq(Byte)
  BY <1>13 DEF T
<1>15. d[0] = << >>
  BY <1>11
<1>16. ASSUME NEW n \in Nat, n # 0
       PROVE  Digits(n) = << n % 256 >> \o Digits(n \div 256)
  <2>1. d[n] = << n % 256 >> \o d[n \div 256]
    BY <1>11, <1>16
  <2>2. n \div 256 \in Nat
    BY Division
  <2>3. QED
    BY <1>10, <2>1, <2>2
<1>17. Digits(0) = << >>
  BY <1>10, <1>15
<1>18. \A n \in Nat : Digits(n) \in Seq(Byte)
  BY <1>10, <1>14
<1>19. QED
  BY <1>16, <1>17, <1>18

-----------------------------------------------------------------------------
(* The number of a sequence of digits. *)

\* v[k] is the number of the last k digits.
Sums(v, s) == /\ v \in [0 .. Len(s) -> Nat]
              /\ v[0] = 0
              /\ \A k \in 1 .. Len(s) : v[k] = s[Len(s) + 1 - k] + 256 * v[k - 1]

LEMMA ValueIsSum ==
    ASSUME NEW s \in Seq(Byte)
    PROVE  \E v : Sums(v, s) /\ Value(s) = v[Len(s)]
<1> DEFINE S == 0 .. Len(s)
           D == [p \in S \X [S -> Nat] |->
                    IF p[1] = 0 THEN 0 ELSE s[Len(s) + 1 - p[1]] + 256 * p[2][p[1] - 1]]
<1>1. Len(s) \in Nat /\ S \subseteq Nat /\ Len(s) \in S /\ 0 \in S
  BY LenProperties
<1>2. \A k \in 1 .. Len(s) : s[Len(s) + 1 - k] \in Nat
  <2>1. \A i \in 1 .. Len(s) : s[i] \in Nat
    <3>1. \A i \in 1 .. Len(s) : s[i] \in Byte
      BY ElementOfSeq
    <3>2. Byte \subseteq Nat
      BY DEF Byte
    <3>3. QED
      BY <3>1, <3>2
  <2>2. \A k \in 1 .. Len(s) : Len(s) + 1 - k \in 1 .. Len(s)
    BY <1>1
  <2>3. QED
    BY <2>1, <2>2
<1>3. \A k \in S : k # 0 => k \in 1 .. Len(s) /\ k - 1 \in S
  BY <1>1
<1>4. \A k \in S, g \in [S -> Nat] :
         D[<< k, g >>] = IF k = 0 THEN 0 ELSE s[Len(s) + 1 - k] + 256 * g[k - 1]
  OBVIOUS
<1>5. \A k \in S, g \in [S -> Nat] :
         k # 0 => s[Len(s) + 1 - k] \in Nat /\ g[k - 1] \in Nat
  BY <1>2, <1>3
<1>6. D \in [S \X [S -> Nat] -> Nat]
  <2>1. \A k \in S, g \in [S -> Nat] :
           (IF k = 0 THEN 0 ELSE s[Len(s) + 1 - k] + 256 * g[k - 1]) \in Nat
    BY <1>5
  <2>2. \A p \in S \X [S -> Nat] :
           (IF p[1] = 0 THEN 0 ELSE s[Len(s) + 1 - p[1]] + 256 * p[2][p[1] - 1]) \in Nat
    <3> TAKE p \in S \X [S -> Nat]
    <3>1. p[1] \in S /\ p[2] \in [S -> Nat]
      OBVIOUS
    <3> HIDE DEF S
    <3>2. QED
      BY <2>1, <3>1
  <2> HIDE DEF S
  <2>3. QED
    BY <2>2
<1> HIDE DEF D, S
<1>7. HasSolution(S, Nat, D)
  <2>1. ASSUME NEW k \in S, NEW g \in [S -> Nat], NEW h \in [S -> Nat],
               \A t \in S : t < k => g[t] = h[t]
        PROVE  D[<< k, g >>] = D[<< k, h >>]
    <3>1. CASE k = 0
      <4>1. D[<< k, g >>] = 0
        BY <1>4, <3>1
      <4>2. D[<< k, h >>] = 0
        BY <1>4, <3>1
      <4>3. QED
        BY <4>1, <4>2
    <3>2. CASE k # 0
      <4>1. D[<< k, g >>] = s[Len(s) + 1 - k] + 256 * g[k - 1]
        BY <1>4, <3>2
      <4>2. D[<< k, h >>] = s[Len(s) + 1 - k] + 256 * h[k - 1]
        BY <1>4, <3>2
      <4>3. k - 1 \in S /\ k - 1 < k
        BY <1>1, <1>3, <3>2
      <4>4. g[k - 1] = h[k - 1]
        BY <2>1, <4>3
      <4>5. QED
        BY <4>1, <4>2, <4>4
    <3>3. QED
      BY <3>1, <3>2
  <2> DEFINE X == Nat
  <2>2. X # {} /\ D \in [S \X [S -> X] -> X]
    BY <1>6
  <2>3. \A k \in S : \A g, h \in [S -> X] :
           (\A t \in S : t < k => g[t] = h[t]) => D[<< k, g >>] = D[<< k, h >>]
    BY <2>1
  <2> HIDE DEF X
  <2>4. HasSolution(S, X, D)
    BY <1>1, <2>2, <2>3, NatRecursionExists
  <2>5. QED
    BY <2>4 DEF X
<1>8. PICK f \in [S -> Nat] : \A k \in S : f[k] = D[<< k, f >>]
  BY <1>7 DEF HasSolution
<1>9. f = [k \in S |-> IF k = 0 THEN 0 ELSE s[Len(s) + 1 - k] + 256 * f[k - 1]]
  <2>1. \A k \in S : D[<< k, f >>] = IF k = 0 THEN 0 ELSE s[Len(s) + 1 - k] + 256 * f[k - 1]
    BY <1>4, <1>8
  <2>2. \A k \in S : f[k] = IF k = 0 THEN 0 ELSE s[Len(s) + 1 - k] + 256 * f[k - 1]
    BY <1>8, <2>1
  <2>3. QED
    BY <1>8, <2>2
<1> DEFINE v == CHOOSE g : g = [k \in S |-> IF k = 0 THEN 0
                                            ELSE s[Len(s) + 1 - k] + 256 * g[k - 1]]
<1>10. v = [k \in S |-> IF k = 0 THEN 0 ELSE s[Len(s) + 1 - k] + 256 * v[k - 1]]
  BY <1>9, ZenonT(30)
<1>11. Value(s) = v[Len(s)]
  BY DEF Value, S
<1> HIDE DEF v
<1>12. v[0] = 0 /\ \A k \in 1 .. Len(s) : v[k] = s[Len(s) + 1 - k] + 256 * v[k - 1]
  <2>1. \A k \in S : v[k] = IF k = 0 THEN 0 ELSE s[Len(s) + 1 - k] + 256 * v[k - 1]
    BY <1>10
  <2>2. \A k \in 1 .. Len(s) : k \in S /\ k # 0
    BY <1>1 DEF S
  <2>3. QED
    BY <1>1, <2>1, <2>2
<1> DEFINE T == {k \in Nat : k \in S => v[k] \in Nat}
<1>13. 0 \in T
  BY <1>12
<1>14. ASSUME NEW k \in Nat, k \in T
       PROVE  k + 1 \in T
  <2>1. SUFFICES ASSUME k + 1 \in S
                 PROVE  v[k + 1] \in Nat
    OBVIOUS
  <2>2. k \in S /\ k + 1 \in 1 .. Len(s) /\ (k + 1) - 1 = k
    BY <1>1, <2>1 DEF S
  <2>3. v[k] \in Nat /\ s[Len(s) + 1 - (k + 1)] \in Nat
    BY <1>2, <1>14, <2>2
  <2>4. v[k + 1] = s[Len(s) + 1 - (k + 1)] + 256 * v[k]
    BY <1>12, <2>2
  <2>5. QED
    BY <2>3, <2>4
<1> HIDE DEF T
<1>15. Nat \subseteq T
  BY <1>13, <1>14, Induction
<1>16. \A k \in S : v[k] \in Nat
  BY <1>1, <1>15 DEF T
<1>17. v \in [0 .. Len(s) -> Nat]
  BY <1>10, <1>16 DEF S
<1>18. QED
  BY <1>11, <1>12, <1>17 DEF Sums

LEMMA SumIsValue ==
    ASSUME NEW s \in Seq(Byte), NEW w, Sums(w, s)
    PROVE  Value(s) = w[Len(s)]
<1>1. PICK v : Sums(v, s) /\ Value(s) = v[Len(s)]
  BY ValueIsSum
<1>2. Len(s) \in Nat
  BY LenProperties
<1> DEFINE T == {k \in Nat : k \in 0 .. Len(s) => v[k] = w[k]}
<1>3. 0 \in T
  BY <1>1 DEF Sums
<1>4. ASSUME NEW k \in Nat, k \in T
      PROVE  k + 1 \in T
  <2>1. SUFFICES ASSUME k + 1 \in 0 .. Len(s)
                 PROVE  v[k + 1] = w[k + 1]
    OBVIOUS
  <2>2. k \in 0 .. Len(s) /\ k + 1 \in 1 .. Len(s) /\ (k + 1) - 1 = k
    BY <1>2, <2>1
  <2>3. v[k] = w[k]
    BY <1>4, <2>2
  <2>4. v[k + 1] = s[Len(s) + 1 - (k + 1)] + 256 * v[k]
    BY <1>1, <2>2 DEF Sums
  <2>5. w[k + 1] = s[Len(s) + 1 - (k + 1)] + 256 * w[k]
    BY <2>2 DEF Sums
  <2>6. QED
    BY <2>3, <2>4, <2>5
<1> HIDE DEF T
<1>5. Nat \subseteq T
  BY <1>3, <1>4, Induction
<1>6. v[Len(s)] = w[Len(s)]
  BY <1>2, <1>5 DEF T
<1>7. QED
  BY <1>1, <1>6

LEMMA ValueIsNat ==
    ASSUME NEW s \in Seq(Byte)
    PROVE  Value(s) \in Nat
<1>1. PICK v : Sums(v, s) /\ Value(s) = v[Len(s)]
  BY ValueIsSum
<1>2. Len(s) \in 0 .. Len(s)
  BY LenProperties
<1>3. QED
  BY <1>1, <1>2 DEF Sums

LEMMA ValueOfNothing == Value(<< >>) = 0
<1>1. << >> \in Seq(Byte) /\ Len(<< >>) = 0
  BY EmptySeq
<1>2. PICK v : Sums(v, << >>) /\ Value(<< >>) = v[Len(<< >>)]
  BY <1>1, ValueIsSum
<1>3. QED
  BY <1>1, <1>2 DEF Sums

\* The first digit counts once, the others 256 times.
LEMMA ValueOfHead ==
    ASSUME NEW b \in Byte, NEW s \in Seq(Byte)
    PROVE  /\ << b >> \o s \in Seq(Byte)
           /\ Value(<< b >> \o s) = b + 256 * Value(s)
<1> DEFINE t == << b >> \o s
<1>1. /\ t \in Seq(Byte) /\ Len(t) = Len(s) + 1 /\ Len(s) \in Nat /\ t[1] = b
      /\ \A i \in 1 .. Len(s) : t[i + 1] = s[i]
  <2>1. << b >> \in Seq(Byte) /\ Len(<< b >>) = 1 /\ << b >>[1] = b
    OBVIOUS
  <2>2. QED
    BY <2>1, ConcatProperties, LenProperties
<1> HIDE DEF t
<1>2. PICK v : Sums(v, t) /\ Value(t) = v[Len(t)]
  BY <1>1, ValueIsSum
<1> DEFINE w == [k \in 0 .. Len(s) |-> v[k]]
<1>3. \A k \in 0 .. Len(s) : k \in 0 .. Len(t) /\ w[k] = v[k]
  BY <1>1
<1>4. w \in [0 .. Len(s) -> Nat] /\ w[0] = 0
  BY <1>1, <1>2, <1>3 DEF Sums
<1>5. ASSUME NEW k \in 1 .. Len(s)
      PROVE  w[k] = s[Len(s) + 1 - k] + 256 * w[k - 1]
  <2>1. /\ k \in 1 .. Len(t) /\ k \in 0 .. Len(s) /\ k - 1 \in 0 .. Len(s)
        /\ Len(s) + 1 - k \in 1 .. Len(s) /\ Len(t) + 1 - k = (Len(s) + 1 - k) + 1
    BY <1>1
  <2>2. v[k] = t[Len(t) + 1 - k] + 256 * v[k - 1]
    BY <1>2, <2>1 DEF Sums
  <2>3. t[Len(t) + 1 - k] = s[Len(s) + 1 - k]
    BY <1>1, <2>1
  <2>4. QED
    BY <1>3, <2>1, <2>2, <2>3
<1> HIDE DEF w
<1>6. Sums(w, s)
  BY <1>4, <1>5 DEF Sums
<1>7. Value(s) = w[Len(s)]
  BY <1>6, SumIsValue
<1>8. Len(t) \in 1 .. Len(t) /\ Len(t) + 1 - Len(t) = 1 /\ Len(t) - 1 = Len(s) /\ Len(s) \in 0 .. Len(s)
  BY <1>1
<1>9. v[Len(t)] = t[1] + 256 * v[Len(s)]
  BY <1>2, <1>8 DEF Sums
<1>10. v[Len(s)] = w[Len(s)]
  BY <1>3, <1>8
<1>11. QED
  BY <1>1, <1>2, <1>7, <1>9, <1>10 DEF t

\* A zero at the end changes nothing.
LEMMA ValueOfZeroAtEnd ==
    ASSUME NEW s \in Seq(Byte)
    PROVE  Value(Append(s, 0)) = Value(s)
<1> DEFINE t == Append(s, 0)
<1>1. /\ t \in Seq(Byte) /\ Len(t) = Len(s) + 1 /\ Len(s) \in Nat /\ t[Len(s) + 1] = 0
      /\ \A i \in 1 .. Len(s) : t[i] = s[i]
  <2>1. 0 \in Byte
    BY DEF Byte
  <2>2. QED
    BY <2>1, AppendProperties, LenProperties
<1> HIDE DEF t
<1>2. PICK v : Sums(v, t) /\ Value(t) = v[Len(t)]
  BY <1>1, ValueIsSum
<1> DEFINE w == [k \in 0 .. Len(s) |-> v[k + 1]]
<1>3. \A k \in 0 .. Len(s) : k + 1 \in 0 .. Len(t) /\ w[k] = v[k + 1]
  BY <1>1
<1>4. w[0] = 0
  <2>1. 1 \in 1 .. Len(t) /\ Len(t) + 1 - 1 = Len(s) + 1 /\ 1 - 1 = 0 /\ 0 \in 0 .. Len(s)
    BY <1>1
  <2>2. v[1] = t[Len(t) + 1 - 1] + 256 * v[1 - 1]
    BY <1>2, <2>1 DEF Sums
  <2>3. v[0] = 0
    BY <1>2 DEF Sums
  <2>4. v[1] = 0
    BY <1>1, <2>1, <2>2, <2>3
  <2>5. QED
    BY <1>3, <2>1, <2>4
<1>5. w \in [0 .. Len(s) -> Nat]
  <2>1. \A k \in 0 .. Len(s) : v[k + 1] \in Nat
    BY <1>2, <1>3 DEF Sums
  <2>2. QED
    BY <2>1
<1>6. ASSUME NEW k \in 1 .. Len(s)
      PROVE  w[k] = s[Len(s) + 1 - k] + 256 * w[k - 1]
  <2>1. /\ k + 1 \in 1 .. Len(t) /\ k \in 0 .. Len(s) /\ k - 1 \in 0 .. Len(s)
        /\ Len(s) + 1 - k \in 1 .. Len(s) /\ Len(t) + 1 - (k + 1) = Len(s) + 1 - k
        /\ (k + 1) - 1 = k /\ (k - 1) + 1 = k
    BY <1>1
  <2>2. v[k + 1] = t[Len(t) + 1 - (k + 1)] + 256 * v[(k + 1) - 1]
    BY <1>2, <2>1 DEF Sums
  <2>3. t[Len(t) + 1 - (k + 1)] = s[Len(s) + 1 - k]
    BY <1>1, <2>1
  <2>4. w[k] = v[k + 1] /\ w[k - 1] = v[k]
    BY <1>3, <2>1
  <2>5. QED
    BY <2>1, <2>2, <2>3, <2>4
<1> HIDE DEF w
<1>7. Sums(w, s)
  BY <1>4, <1>5, <1>6 DEF Sums
<1>8. Value(s) = w[Len(s)]
  BY <1>7, SumIsValue
<1>9. w[Len(s)] = v[Len(t)]
  BY <1>1, <1>3
<1>10. QED
  BY <1>2, <1>8, <1>9 DEF t

LEMMA ValueOfDigits ==
    ASSUME NEW n \in Nat
    PROVE  Value(Digits(n)) = n
<1> DEFINE T == {k \in Nat : Value(Digits(k)) = k}
           mu == [k \in Nat |-> k]
<1>1. mu \in [Nat -> Nat] /\ \A k \in Nat : mu[k] = k
  OBVIOUS
<1>2. ASSUME NEW k \in Nat, \A t \in Nat : mu[t] < mu[k] => t \in T
      PROVE  k \in T
  <2>1. CASE k = 0
    <3>1. Value(Digits(0)) = 0
      BY DigitsEquation, ValueOfNothing
    <3>2. QED
      BY <2>1, <3>1
  <2>2. CASE k # 0
    <3>1. k \div 256 \in Nat /\ k % 256 \in Byte /\ k \div 256 < k
      BY <2>2, Division
    <3>2. Value(Digits(k \div 256)) = k \div 256
      BY <1>1, <1>2, <3>1
    <3>3. Digits(k \div 256) \in Seq(Byte)
          /\ Digits(k) = << k % 256 >> \o Digits(k \div 256)
      BY <2>2, <3>1, DigitsEquation
    <3>4. Value(Digits(k)) = (k % 256) + 256 * (k \div 256)
      BY <3>1, <3>2, <3>3, ValueOfHead
    <3>5. k = 256 * (k \div 256) + (k % 256)
      BY Division
    <3>6. (k % 256) + 256 * (k \div 256) = 256 * (k \div 256) + (k % 256)
      <4> DEFINE q == k \div 256
                 r == k % 256
      <4>1. q \in Nat /\ r \in Nat
        BY <3>1 DEF Byte
      <4> HIDE DEF q, r
      <4>2. r + 256 * q = 256 * q + r
        BY <4>1
      <4>3. QED
        BY <4>2 DEF q, r
    <3>7. QED
      BY <3>4, <3>5, <3>6
  <2>3. QED
    BY <2>1, <2>2
<1> HIDE DEF T, mu
<1>3. Nat \subseteq T
  BY <1>1, <1>2, MeasureInduction
<1>4. QED
  BY <1>3 DEF T

LEMMA DigitsOfSome ==
    ASSUME NEW n \in Nat, n # 0
    PROVE  Digits(n) \in Seq(Byte) /\ Digits(n) # << >>
<1>1. Digits(n) \in Seq(Byte) /\ Digits(n \div 256) \in Seq(Byte)
  BY Division, DigitsEquation, ZenonT(60)
<1>2. Digits(n) = << n % 256 >> \o Digits(n \div 256)
  BY DigitsEquation
<1>3. Len(Digits(n)) = 1 + Len(Digits(n \div 256))
  <2>1. << n % 256 >> \in Seq(Byte) /\ Len(<< n % 256 >>) = 1
    BY Division
  <2>2. QED
    BY <1>1, <1>2, <2>1, ConcatProperties
<1>4. Len(Digits(n)) # 0
  BY <1>1, <1>3, LenProperties
<1>5. QED
  BY <1>1, <1>4, EmptySeq

-----------------------------------------------------------------------------
(* The numbers of scripts. *)

LEMMA ByteValues ==
    /\ 0 \in Byte /\ SignBit \in Byte /\ SignBit - SignBit = 0 /\ ~ (0 >= SignBit)
    /\ SignBit >= SignBit
    /\ \A x \in Byte :
          /\ x \in Nat
          /\ x >= SignBit => x - SignBit \in Byte
          /\ ~ (x >= SignBit) => /\ x + SignBit \in Byte /\ x + SignBit >= SignBit
                                 /\ (x + SignBit) - SignBit = x
  BY DEF Byte, SignBit

\* Another last byte.
LEMMA LastChanged ==
    ASSUME NEW s \in Seq(Byte), s # << >>, NEW b \in Byte
    PROVE  LET t == [s EXCEPT ![Len(s)] = b]
           IN  /\ t \in Seq(Byte) /\ t # << >> /\ Len(t) = Len(s) /\ t[Len(t)] = b
               /\ s[Len(s)] \in Byte
               /\ [t EXCEPT ![Len(t)] = s[Len(s)]] = s
<1> DEFINE t == [s EXCEPT ![Len(s)] = b]
<1>1. Len(s) \in Nat /\ Len(s) # 0 /\ Len(s) \in 1 .. Len(s) /\ DOMAIN s = 1 .. Len(s)
  BY LenProperties, EmptySeq
<1>2. s[Len(s)] \in Byte
  BY <1>1, ElementOfSeq
<1>3. t \in Seq(Byte) /\ Len(t) = Len(s) /\ t[Len(s)] = b
  BY <1>1, ExceptSeq
<1>4. t # << >>
  BY <1>1, <1>3, EmptySeq
<1>5. [t EXCEPT ![Len(s)] = s[Len(s)]] = s
  <2> DEFINE u == [t EXCEPT ![Len(s)] = s[Len(s)]]
  <2>1. u \in Seq(Byte) /\ Len(u) = Len(s)
    BY <1>1, <1>2, <1>3, ExceptSeq
  <2>2. \A i \in 1 .. Len(s) : u[i] = s[i]
    BY <1>1, <1>3, ExceptSeq, LenProperties
  <2> HIDE DEF u
  <2>3. u = s
    BY <2>1, <2>2, SeqEqual
  <2>4. QED
    BY <2>3 DEF u
<1>6. QED
  BY <1>2, <1>3, <1>4, <1>5

LEMMA LastIsByte ==
    ASSUME NEW s \in Seq(Byte), s # << >>
    PROVE  s[Len(s)] \in Byte
  BY LastChanged, ByteValues

LEMMA EncodedIsBytes ==
    ASSUME NEW v \in Int
    PROVE  encodeScriptNumber(v) \in Seq(Byte)
<1> DEFINE s == Digits(Magnitude(v))
<1>1. Magnitude(v) \in Nat /\ (v # 0 => Magnitude(v) # 0)
  BY DEF Magnitude
<1>2. CASE v = 0
  <2>1. encodeScriptNumber(v) = << >>
    BY <1>2 DEF encodeScriptNumber
  <2>2. QED
    BY <2>1, EmptySeq
<1>3. CASE v # 0
  <2>1. s \in Seq(Byte) /\ s # << >>
    BY <1>1, <1>3, DigitsOfSome
  <2>2. encodeScriptNumber(v) =
           IF Last(s) >= SignBit
           THEN Append(s, IF v < 0 THEN SignBit ELSE 0)
           ELSE [s EXCEPT ![Len(s)] = IF v < 0 THEN @ + SignBit ELSE @]
    BY <1>3 DEF encodeScriptNumber
  <2> HIDE DEF s
  <2>3. CASE Last(s) >= SignBit
    <3>1. (IF v < 0 THEN SignBit ELSE 0) \in Byte
      BY DEF SignBit, Byte
    <3>2. QED
      BY <2>1, <2>2, <2>3, <3>1, AppendProperties
  <2>4. CASE ~ (Last(s) >= SignBit)
    <3> DEFINE b == IF v < 0 THEN s[Len(s)] + SignBit ELSE s[Len(s)]
    <3>1. s[Len(s)] \in Byte
      BY <2>1, LastIsByte
    <3>2. b \in Byte
      BY <2>4, <3>1, ByteValues DEF Last
    <3>3. encodeScriptNumber(v) = [s EXCEPT ![Len(s)] = b]
      BY <2>2, <2>4
    <3> HIDE DEF b
    <3>4. QED
      BY <2>1, <3>2, <3>3, LastChanged
  <2>5. QED
    BY <2>3, <2>4
<1>4. QED
  BY <1>2, <1>3

LEMMA DecodedIsInt ==
    ASSUME NEW s \in Seq(Byte)
    PROVE  decodeScriptNumber(s) \in Int
<1>1. CASE s # << >> /\ Last(s) >= SignBit
  <2> DEFINE b == s[Len(s)] - SignBit
             t == [s EXCEPT ![Len(s)] = b]
  <2>1. s[Len(s)] \in Byte
    BY <1>1, LastIsByte
  <2>2. b \in Byte
    BY <1>1, <2>1, ByteValues DEF Last
  <2>3. decodeScriptNumber(s) = -Value(t)
    BY <1>1 DEF decodeScriptNumber
  <2> HIDE DEF b
  <2>4. t \in Seq(Byte)
    BY <1>1, <2>2, LastChanged
  <2>5. Value(t) \in Nat
    BY <2>4, ValueIsNat
  <2>6. QED
    BY <2>3, <2>5
<1>2. CASE ~ (s # << >> /\ Last(s) >= SignBit)
  <2>1. decodeScriptNumber(s) = Value(s)
    BY <1>2 DEF decodeScriptNumber
  <2>2. QED
    BY <2>1, ValueIsNat
<1>3. QED
  BY <1>1, <1>2

\* What the writers write of a number, the machine reads as that number, for every
\* integer: the sign takes the top bit of the last byte or a byte of its own, and
\* no two numbers are written alike (encodeScriptNumber, decodeScriptNumber).
THEOREM NumberReadsBack ==
    ASSUME NEW v \in Int
    PROVE  decodeScriptNumber(encodeScriptNumber(v)) = v
<1> DEFINE s == Digits(Magnitude(v))
           e == encodeScriptNumber(v)
<1>1. /\ Magnitude(v) \in Nat /\ (v # 0 => Magnitude(v) # 0)
      /\ (v < 0 => -Magnitude(v) = v) /\ (~ (v < 0) => Magnitude(v) = v)
  BY DEF Magnitude
<1>2. CASE v = 0
  <2>1. encodeScriptNumber(v) = << >>
    BY <1>2 DEF encodeScriptNumber
  <2>2. decodeScriptNumber(<< >>) = Value(<< >>)
    BY DEF decodeScriptNumber
  <2>3. QED
    BY <1>2, <2>1, <2>2, ValueOfNothing
<1>3. CASE v # 0
  <2>1. s \in Seq(Byte) /\ s # << >> /\ Value(s) = Magnitude(v)
    BY <1>1, <1>3, DigitsOfSome, ValueOfDigits
  <2>2. e =
           IF Last(s) >= SignBit
           THEN Append(s, IF v < 0 THEN SignBit ELSE 0)
           ELSE [s EXCEPT ![Len(s)] = IF v < 0 THEN @ + SignBit ELSE @]
    BY <1>3 DEF encodeScriptNumber
  <2>3. decodeScriptNumber(e) = IF e # << >> /\ Last(e) >= SignBit
                                THEN -Value([e EXCEPT ![Len(e)] = @ - SignBit])
                                ELSE Value(e)
    BY DEF decodeScriptNumber
  <2> HIDE DEF s, e
  <2>4. CASE Last(s) >= SignBit
    <3> DEFINE b == IF v < 0 THEN SignBit ELSE 0
    <3>1. b \in Byte /\ 0 \in Byte
      BY DEF SignBit, Byte
    <3>2. e = Append(s, b)
      BY <2>2, <2>4
    <3>3. /\ e \in Seq(Byte) /\ Len(e) = Len(s) + 1 /\ e[Len(s) + 1] = b /\ Len(s) \in Nat
      BY <2>1, <3>1, <3>2, AppendProperties, LenProperties
    <3>4. e # << >> /\ Last(e) = b
      <4>1. Len(e) # 0
        BY <3>3
      <4>2. e # << >>
        BY <3>3, <4>1, EmptySeq
      <4>3. QED
        BY <3>3, <4>2 DEF Last
    <3>5. CASE v < 0
      <4>1. b = SignBit /\ SignBit - SignBit = 0
        BY <3>5 DEF SignBit
      <4>2. decodeScriptNumber(e) = -Value([e EXCEPT ![Len(e)] = e[Len(e)] - SignBit])
        BY <2>3, <3>4, <4>1 DEF SignBit
      <4>3. [e EXCEPT ![Len(e)] = e[Len(e)] - SignBit] = Append(s, 0)
        <5> DEFINE t == [e EXCEPT ![Len(e)] = 0]
        <5>1. e[Len(e)] - SignBit = 0
          BY <3>3, <4>1
        <5>2. Len(e) \in 1 .. Len(e)
          BY <3>3
        <5>3. /\ t \in Seq(Byte) /\ Len(t) = Len(e)
              /\ \A j \in 1 .. Len(e) : t[j] = IF j = Len(e) THEN 0 ELSE e[j]
          BY <3>1, <3>3, <5>2, ExceptSeq
        <5>4. /\ Append(s, 0) \in Seq(Byte) /\ Len(Append(s, 0)) = Len(s) + 1
              /\ Append(s, 0)[Len(s) + 1] = 0
              /\ \A j \in 1 .. Len(s) : Append(s, 0)[j] = s[j] /\ e[j] = s[j]
          BY <2>1, <3>1, <3>2, AppendProperties
        <5> HIDE DEF t
        <5>5. \A j \in 1 .. Len(t) : t[j] = Append(s, 0)[j]
          <6> TAKE j \in 1 .. Len(t)
          <6>1. j = Len(s) + 1 \/ j \in 1 .. Len(s)
            BY <3>3, <5>3
          <6>2. QED
            BY <3>3, <5>3, <5>4, <6>1
        <5>6. t = Append(s, 0)
          BY <3>3, <5>3, <5>4, <5>5, SeqEqual
        <5>7. QED
          BY <5>1, <5>6 DEF t
      <4>4. Value(Append(s, 0)) = Magnitude(v)
        BY <2>1, ValueOfZeroAtEnd
      <4>5. QED
        BY <1>1, <3>5, <4>2, <4>3, <4>4 DEF e
    <3>6. CASE ~ (v < 0)
      <4>1. b = 0 /\ ~ (Last(e) >= SignBit)
        BY <3>4, <3>6 DEF SignBit
      <4>2. decodeScriptNumber(e) = Value(Append(s, 0))
        BY <2>3, <3>2, <4>1
      <4>3. Value(Append(s, 0)) = Magnitude(v)
        BY <2>1, ValueOfZeroAtEnd
      <4>4. QED
        BY <1>1, <3>6, <4>2, <4>3 DEF e
    <3>7. QED
      BY <3>5, <3>6
  <2>5. CASE ~ (Last(s) >= SignBit)
    <3> DEFINE b == IF v < 0 THEN s[Len(s)] + SignBit ELSE s[Len(s)]
    <3>1. s[Len(s)] \in Byte /\ ~ (s[Len(s)] >= SignBit)
      <4>1. s[Len(s)] \in Byte
        BY <2>1, LastIsByte
      <4>2. QED
        BY <2>5, <4>1 DEF Last
    <3>2. b \in Byte
      BY <3>1, ByteValues
    <3>3. e = [s EXCEPT ![Len(s)] = b]
      BY <2>2, <2>5
    <3> HIDE DEF b
    <3>4. /\ e \in Seq(Byte) /\ e # << >> /\ Last(e) = b
          /\ [e EXCEPT ![Len(e)] = s[Len(s)]] = s
      BY <2>1, <3>2, <3>3, LastChanged DEF Last
    <3>5. CASE v < 0
      <4>1. b >= SignBit /\ b - SignBit = s[Len(s)]
        BY <3>1, <3>5, ByteValues DEF b
      <4>2. decodeScriptNumber(e) = -Value([e EXCEPT ![Len(e)] = e[Len(e)] - SignBit])
        BY <2>3, <3>4, <4>1
      <4>3. e[Len(e)] - SignBit = s[Len(s)]
        BY <3>4, <4>1 DEF Last
      <4>4. QED
        BY <1>1, <2>1, <3>4, <3>5, <4>2, <4>3 DEF e
    <3>6. CASE ~ (v < 0)
      <4>1. b = s[Len(s)] /\ ~ (b >= SignBit)
        BY <3>1, <3>6, ByteValues DEF b
      <4>2. decodeScriptNumber(e) = Value(e)
        BY <2>3, <3>4, <4>1
      <4>3. e = s
        <5>1. [s EXCEPT ![Len(s)] = s[Len(s)]] = s
          <6>1. s \in [1 .. Len(s) -> Byte]
            BY <2>1, LenProperties
          <6>2. QED
            BY <6>1
        <5>2. QED
          BY <3>3, <4>1, <5>1
      <4>4. QED
        BY <1>1, <2>1, <3>6, <4>2, <4>3 DEF e
    <3>7. QED
      BY <3>5, <3>6
  <2>6. QED
    BY <2>4, <2>5
<1>4. QED
  BY <1>2, <1>3

-----------------------------------------------------------------------------
(* The header of a string. *)

LEMMA OneByte ==
    ASSUME NEW b \in Byte
    PROVE  << b >> \in Seq(Byte) /\ Value(<< b >>) = b
<1>1. << >> \in Seq(Byte) /\ << b >> \o << >> = << b >>
  BY EmptySeq
<1>2. Value(<< b >> \o << >>) = b + 256 * Value(<< >>) /\ << b >> \o << >> \in Seq(Byte)
  BY <1>1, ValueOfHead
<1>3. \A x \in Nat : x + 256 * 0 = x
  OBVIOUS
<1>4. b + 256 * 0 = b
  BY <1>3, ByteValues
<1>5. QED
  BY <1>1, <1>2, <1>4, ValueOfNothing

\* One digit more, at the front.
LEMMA Prepended ==
    ASSUME NEW b \in Byte, NEW s \in Seq(Byte)
    PROVE  LET t == << b >> \o s
           IN  /\ t \in Seq(Byte) /\ Len(t) = Len(s) + 1 /\ t[1] = b
               /\ \A i \in 1 .. Len(s) : t[i + 1] = s[i]
               /\ Value(t) = b + 256 * Value(s)
<1>1. << b >> \in Seq(Byte) /\ Len(<< b >>) = 1 /\ << b >>[1] = b
  OBVIOUS
<1>2. QED
  BY <1>1, ConcatProperties, LenProperties, ValueOfHead

\* Some digits given one by one.
LEMMA TwoBytes ==
    ASSUME NEW t \in Seq(Byte), Len(t) = 2
    PROVE  Value(t) = t[1] + 256 * t[2] /\ t[1] \in Byte /\ t[2] \in Byte
<1>1. t[1] \in Byte /\ t[2] \in Byte
  BY ElementOfSeq
<1> DEFINE u == << t[1] >> \o << t[2] >>
<1>2. << t[1] >> \in Seq(Byte) /\ << t[2] >> \in Seq(Byte) /\ Len(<< t[1] >>) = 1
      /\ Len(<< t[2] >>) = 1 /\ Value(<< t[2] >>) = t[2]
  BY <1>1, OneByte
<1>3. /\ u \in Seq(Byte) /\ Len(u) = 2
      /\ \A i \in 1 .. 2 : u[i] = IF i <= 1 THEN << t[1] >>[i] ELSE << t[2] >>[i - 1]
  BY <1>2, ConcatProperties
<1>4. Value(u) = t[1] + 256 * t[2]
  <2> DEFINE s == << t[2] >>
  <2>1. s \in Seq(Byte) /\ Value(s) = t[2]
    BY <1>2
  <2> HIDE DEF s
  <2>2. Value(<< t[1] >> \o s) = t[1] + 256 * Value(s)
    BY <1>1, <2>1, ValueOfHead
  <2>3. QED
    BY <2>1, <2>2 DEF s
<1> HIDE DEF u
<1>5. u[1] = t[1] /\ u[2] = t[2]
  BY <1>3
<1>6. \A i \in 1 .. Len(t) : u[i] = t[i]
  BY <1>5
<1>7. u = t
  BY <1>3, <1>6, SeqEqual
<1>8. QED
  BY <1>1, <1>4, <1>7

LEMMA FourBytes ==
    ASSUME NEW t \in Seq(Byte), Len(t) = 4
    PROVE  /\ Value(t) = t[1] + 256 * (t[2] + 256 * (t[3] + 256 * t[4]))
           /\ \A i \in 1 .. 4 : t[i] \in Byte
<1>1. \A i \in 1 .. 4 : t[i] \in Byte
  BY ElementOfSeq
<1> DEFINE w == << t[3] >> \o << t[4] >>
           v == << t[2] >> \o w
           u == << t[1] >> \o v
<1>2. \A b \in Byte : << b >> \in Seq(Byte) /\ Len(<< b >>) = 1 /\ << b >>[1] = b
  BY OneByte
<1>3. /\ w \in Seq(Byte) /\ Len(w) = 2 /\ w[1] = t[3] /\ w[2] = t[4]
      /\ Value(w) = t[3] + 256 * t[4]
  <2>1. /\ w \in Seq(Byte) /\ Len(w) = 2
        /\ \A i \in 1 .. 2 : w[i] = IF i <= 1 THEN << t[3] >>[i] ELSE << t[4] >>[i - 1]
    BY <1>1, <1>2, ConcatProperties
  <2>2. w[1] = t[3] /\ w[2] = t[4]
    BY <2>1
  <2>3. QED
    BY <2>1, <2>2, TwoBytes
<1> HIDE DEF w
<1>4. /\ v \in Seq(Byte) /\ Len(v) = 3 /\ v[1] = t[2] /\ v[2] = t[3] /\ v[3] = t[4]
      /\ Value(v) = t[2] + 256 * (t[3] + 256 * t[4])
  <2>1. /\ v \in Seq(Byte) /\ Len(v) = Len(w) + 1 /\ v[1] = t[2]
        /\ \A i \in 1 .. Len(w) : v[i + 1] = w[i]
        /\ Value(v) = t[2] + 256 * Value(w)
    <3> DEFINE x == t[2]
    <3>1. x \in Byte
      BY <1>1
    <3> HIDE DEF x
    <3>2. /\ << x >> \o w \in Seq(Byte) /\ Len(<< x >> \o w) = Len(w) + 1
          /\ (<< x >> \o w)[1] = x
          /\ \A i \in 1 .. Len(w) : (<< x >> \o w)[i + 1] = w[i]
          /\ Value(<< x >> \o w) = x + 256 * Value(w)
      <4>1. w \in Seq(Byte)
        BY <1>3
      <4> HIDE DEF u, v
      <4>2. QED
        BY <3>1, <4>1, Prepended
    <3>3. QED
      BY <3>2 DEF x
  <2> HIDE DEF v
  <2>2. v[1 + 1] = w[1] /\ v[2 + 1] = w[2]
    BY <1>3, <2>1
  <2>3. QED
    BY <1>3, <2>1, <2>2
<1> HIDE DEF v
<1>5. /\ u \in Seq(Byte) /\ Len(u) = 4 /\ \A i \in 1 .. Len(t) : u[i] = t[i]
      /\ Value(u) = t[1] + 256 * Value(v)
  <2>1. /\ u \in Seq(Byte) /\ Len(u) = Len(v) + 1 /\ u[1] = t[1]
        /\ \A i \in 1 .. Len(v) : u[i + 1] = v[i]
        /\ Value(u) = t[1] + 256 * Value(v)
    <3> DEFINE x == t[1]
    <3>1. x \in Byte
      BY <1>1
    <3> HIDE DEF x
    <3>2. /\ << x >> \o v \in Seq(Byte) /\ Len(<< x >> \o v) = Len(v) + 1
          /\ (<< x >> \o v)[1] = x
          /\ \A i \in 1 .. Len(v) : (<< x >> \o v)[i + 1] = v[i]
          /\ Value(<< x >> \o v) = x + 256 * Value(v)
      <4>1. v \in Seq(Byte)
        BY <1>4
      <4> HIDE DEF u
      <4>2. QED
        BY <3>1, <4>1, Prepended
    <3>3. QED
      BY <3>2 DEF x
  <2> HIDE DEF u
  <2>2. u[1 + 1] = v[1] /\ u[2 + 1] = v[2] /\ u[3 + 1] = v[3]
    BY <1>4, <2>1
  <2>3. \A i \in 1 .. Len(t) : u[i] = t[i]
    BY <1>4, <2>1, <2>2
  <2>4. QED
    BY <1>4, <2>1, <2>3
<1> HIDE DEF u
<1>6. u = t
  BY <1>5, SeqEqual
<1>7. QED
  BY <1>1, <1>4, <1>5, <1>6

LEMMA TwoDigits ==
    ASSUME NEW n \in Nat, n <= 65535
    PROVE  /\ FixedDigits(n, 2) \in Seq(Byte) /\ Len(FixedDigits(n, 2)) = 2
           /\ Value(FixedDigits(n, 2)) = n
<1> DEFINE t == FixedDigits(n, 2)
           q == n \div 256
           r == n % 256
<1>1. q \in Nat /\ r \in Byte /\ n = 256 * q + r
  BY Division
<1>2. q <= 255
  <2>1. \A m \in Nat : m <= 65535 => m \div 256 <= 255
    OBVIOUS
  <2>2. QED
    BY <2>1
<1>3. \A m \in Nat : m <= 255 => m \in Byte /\ m % 256 = m
  BY DEF Byte
<1>4. \A m \in Nat : m % 256 \in Byte
  BY Division
<1>5. /\ t \in Seq(Byte) /\ Len(t) = 2 /\ t[1] = r /\ t[2] = q % 256
  <2>1. 256 ^ (1 - 1) = 1 /\ 256 ^ (2 - 1) = 256 /\ n \div 1 = n
    OBVIOUS
  <2> DEFINE e(i) == (n \div 256 ^ (i - 1)) % 256
  <2>2. e(1) = r /\ e(2) = q % 256
    BY <2>1
  <2>3. t = [i \in 1 .. 2 |-> e(i)]
    BY DEF FixedDigits
  <2>4. e(1) \in Byte /\ e(2) \in Byte
    BY <1>1, <1>4, <2>2
  <2> HIDE DEF e, q, r, t
  <2>5. \A i \in 1 .. 2 : e(i) \in Byte
    BY <2>4
  <2>6. t \in Seq(Byte) /\ Len(t) = 2 /\ t[1] = e(1) /\ t[2] = e(2)
    BY <2>3, <2>5
  <2>7. QED
    BY <2>2, <2>6
<1> HIDE DEF q, r, t
<1>6. q % 256 = q
  BY <1>1, <1>2, <1>3
<1>7. Value(t) = r + 256 * q
  BY <1>5, <1>6, TwoBytes
<1>8. r + 256 * q = n
  <2>1. r \in Nat
    BY <1>1, ByteValues
  <2>2. QED
    BY <1>1, <2>1
<1>9. QED
  BY <1>5, <1>7, <1>8 DEF t

LEMMA FourDigits ==
    ASSUME NEW n \in Nat, n < 256 ^ 4
    PROVE  /\ FixedDigits(n, 4) \in Seq(Byte) /\ Len(FixedDigits(n, 4)) = 4
           /\ Value(FixedDigits(n, 4)) = n
<1> DEFINE t == FixedDigits(n, 4)
           q1 == n \div 256
           q2 == q1 \div 256
           q3 == q2 \div 256
           a == n % 256
           b == q1 % 256
           c == q2 % 256
<1>1. q1 \in Nat /\ q2 \in Nat /\ q3 \in Nat
  BY Division
<1>2. /\ n = 256 * q1 + a /\ q1 = 256 * q2 + b /\ q2 = 256 * q3 + c
      /\ a \in Byte /\ b \in Byte /\ c \in Byte
  BY <1>1, Division
<1>3. n \div 256 ^ 2 = q2 /\ n \div 256 ^ 3 = q3
  <2>1. 256 ^ 2 = 65536 /\ 256 ^ 3 = 16777216
    OBVIOUS
  <2>2. \A m \in Nat : m \div 65536 = (m \div 256) \div 256
    OBVIOUS
  <2>3. \A m \in Nat : m \div 16777216 = ((m \div 256) \div 256) \div 256
    OBVIOUS
  <2>4. QED
    BY <2>1, <2>2, <2>3
<1>4. q3 \in Byte /\ q3 % 256 = q3
  <2>1. 256 ^ 4 = 4294967296
    OBVIOUS
  <2>2. \A m \in Nat : m < 4294967296 => ((m \div 256) \div 256) \div 256 <= 255
    OBVIOUS
  <2>3. \A m \in Nat : m <= 255 => m \in Byte /\ m % 256 = m
    BY DEF Byte
  <2>4. q3 <= 255
    BY <2>1, <2>2
  <2>5. QED
    BY <1>1, <2>3, <2>4
<1>5. /\ t \in Seq(Byte) /\ Len(t) = 4
      /\ t[1] = a /\ t[2] = b /\ t[3] = c /\ t[4] = q3
  <2>1. /\ 256 ^ (1 - 1) = 1 /\ 256 ^ (2 - 1) = 256 /\ n \div 1 = n
        /\ 3 - 1 = 2 /\ 4 - 1 = 3
    OBVIOUS
  <2> DEFINE e(i) == (n \div 256 ^ (i - 1)) % 256
  <2>2. e(1) = a /\ e(2) = b
    BY <2>1
  <2>3. e(3) = c /\ e(4) = q3
    BY <1>3, <1>4, <2>1
  <2>4. t = [i \in 1 .. 4 |-> e(i)]
    BY DEF FixedDigits
  <2> HIDE DEF e, q1, q2, q3, a, b, c, t
  <2>5. \A i \in 1 .. 4 : e(i) \in Byte
    <3>1. e(1) \in Byte /\ e(2) \in Byte /\ e(3) \in Byte /\ e(4) \in Byte
      BY <1>2, <1>4, <2>2, <2>3
    <3>2. QED
      BY <3>1
  <2>6. /\ t \in Seq(Byte) /\ Len(t) = 4
        /\ t[1] = e(1) /\ t[2] = e(2) /\ t[3] = e(3) /\ t[4] = e(4)
    BY <2>4, <2>5
  <2>7. QED
    BY <2>2, <2>3, <2>6
<1> HIDE DEF q1, q2, q3, a, b, c, t
<1>6. Value(t) = a + 256 * (b + 256 * (c + 256 * q3))
  BY <1>5, FourBytes
<1>7. a + 256 * (b + 256 * (c + 256 * q3)) = n
  <2>1. a \in Nat /\ b \in Nat /\ c \in Nat
    BY <1>2, ByteValues
  <2>2. QED
    BY <1>1, <1>2, <2>1
<1>8. QED
  BY <1>5, <1>6, <1>7 DEF t

\* How many bytes of the length follow a push opcode.
LengthBytes(b) == CASE b = OP.PUSHDATA1 -> 1
                    [] b = OP.PUSHDATA2 -> 2
                    [] b = OP.PUSHDATA4 -> 4
                    [] OTHER -> 0

LEMMA PushOpcodeValues ==
    OP.PUSHDATA1 = 76 /\ OP.PUSHDATA2 = 77 /\ OP.PUSHDATA4 = 78
  BY DEF OP

LEMMA LengthBytesValues ==
    /\ \A b \in Nat : b < 76 => LengthBytes(b) = 0
    /\ LengthBytes(76) = 1 /\ LengthBytes(77) = 2 /\ LengthBytes(78) = 4
  BY PushOpcodeValues DEF LengthBytes

\* A header of an opcode and the bytes of a length.
LEMMA OpcodeAndLength ==
    ASSUME NEW b \in Byte, NEW d \in Seq(Byte)
    PROVE  LET h == << b >> \o d
           IN  h \in Seq(Byte) /\ Len(h) = Len(d) + 1 /\ h[1] = b /\ SubSeq(h, 2, Len(h)) = d
<1> DEFINE h == << b >> \o d
<1>1. /\ h \in Seq(Byte) /\ Len(h) = Len(d) + 1 /\ h[1] = b /\ Len(d) \in Nat
      /\ \A i \in 1 .. Len(d) : h[i + 1] = d[i]
  BY Prepended, LenProperties
<1> HIDE DEF h
<1> DEFINE t == SubSeq(h, 2, Len(h))
<1>2. \A i \in 2 .. Len(h) : h[i] \in Byte
  BY <1>1, ElementOfSeq
<1>3. 2 \in Int /\ Len(h) \in Int /\ Len(h) - 2 + 1 = Len(d)
  BY <1>1
<1>4. /\ t \in Seq(Byte) /\ Len(t) = (IF 2 <= Len(h) THEN Len(h) - 2 + 1 ELSE 0)
      /\ \A i \in 1 .. Len(h) - 2 + 1 : t[i] = h[2 + i - 1]
  BY <1>2, <1>3, SubSeqProperties
<1> HIDE DEF t
<1>5. Len(t) = Len(d)
  BY <1>1, <1>3, <1>4
<1>6. \A i \in 1 .. Len(t) : t[i] = d[i]
  <2> TAKE i \in 1 .. Len(t)
  <2>1. i \in 1 .. Len(d) /\ 2 + i - 1 = i + 1
    BY <1>1, <1>5
  <2>2. QED
    BY <1>1, <1>3, <1>4, <2>1
<1>7. t = d
  BY <1>4, <1>5, <1>6, SeqEqual
<1>8. QED
  BY <1>1, <1>7 DEF h, t

\* The header names the length of the string.
LEMMA HeaderNamesLength ==
    ASSUME NEW n \in Nat, n < 256 ^ 4
    PROVE  LET h == PushHeader(n)
           IN  /\ h \in Seq(Byte) /\ h[1] \in 0 .. OP.PUSHDATA4
               /\ Len(h) = LengthBytes(h[1]) + 1 /\ LengthBytes(h[1]) \in Nat
               /\ LengthBytes(h[1]) = 0 => h[1] = n
               /\ LengthBytes(h[1]) # 0 => Value(SubSeq(h, 2, Len(h))) = n
<1> DEFINE h == PushHeader(n)
<1>1. \A m \in Nat : m <= 255 => m \in Byte
  BY DEF Byte
<1>2. 76 \in Byte /\ 77 \in Byte /\ 78 \in Byte
  BY DEF Byte
<1>3. CASE n < 76
  <2>1. h = << n >>
    BY <1>3, PushOpcodeValues DEF PushHeader
  <2>2. n \in Byte /\ LengthBytes(n) = 0
    BY <1>1, <1>3, LengthBytesValues
  <2> HIDE DEF h
  <2>3. h \in Seq(Byte) /\ Len(h) = 1 /\ h[1] = n
    BY <2>1, <2>2
  <2>4. h[1] \in 0 .. OP.PUSHDATA4
    BY <1>3, <2>3, PushOpcodeValues
  <2>5. QED
    BY <2>2, <2>3, <2>4 DEF h
<1>4. ASSUME NEW b \in {76, 77, 78}, NEW d \in Seq(Byte), h = << b >> \o d,
             Len(d) = LengthBytes(b), Value(d) = n
      PROVE  /\ h \in Seq(Byte) /\ h[1] \in 0 .. OP.PUSHDATA4
             /\ Len(h) = LengthBytes(h[1]) + 1 /\ LengthBytes(h[1]) \in Nat
             /\ LengthBytes(h[1]) = 0 => h[1] = n
             /\ LengthBytes(h[1]) # 0 => Value(SubSeq(h, 2, Len(h))) = n
  <2>1. b \in Byte /\ b \in 0 .. 78
    BY <1>2
  <2> HIDE DEF h
  <2>2. h \in Seq(Byte) /\ Len(h) = Len(d) + 1 /\ h[1] = b /\ SubSeq(h, 2, Len(h)) = d
    BY <1>4, <2>1, OpcodeAndLength
  <2>3. LengthBytes(b) \in Nat /\ LengthBytes(b) # 0
    BY LengthBytesValues
  <2>4. QED
    BY <1>4, <2>1, <2>2, <2>3, PushOpcodeValues
<1>5. CASE ~ (n < 76) /\ n <= 255
  <2>1. n \in Byte
    BY <1>1, <1>5
  <2>2. h = << 76, n >>
    BY <1>5, PushOpcodeValues DEF PushHeader
  <2>3. << 76, n >> = << 76 >> \o << n >>
    OBVIOUS
  <2>4. << n >> \in Seq(Byte) /\ Len(<< n >>) = 1 /\ Value(<< n >>) = n
    BY <2>1, OneByte
  <2>5. QED
    BY <1>4, <2>2, <2>3, <2>4, LengthBytesValues
<1>6. CASE ~ (n <= 255) /\ n <= 65535
  <2>1. ~ (n < 76)
    BY <1>6
  <2>2. h = << 77 >> \o FixedDigits(n, 2)
    BY <1>6, <2>1, PushOpcodeValues DEF PushHeader
  <2> DEFINE d == FixedDigits(n, 2)
  <2>3. d \in Seq(Byte) /\ Len(d) = LengthBytes(77) /\ Value(d) = n
    <3>1. d \in Seq(Byte) /\ Len(d) = 2 /\ Value(d) = n
      BY <1>6, TwoDigits
    <3> HIDE DEF d
    <3>2. QED
      BY <3>1, LengthBytesValues
  <2>4. h = << 77 >> \o d
    BY <2>2
  <2> HIDE DEF d, h
  <2>5. 77 \in {76, 77, 78}
    OBVIOUS
  <2>6. QED
    BY <1>4, <2>3, <2>4, <2>5 DEF h
<1>7. CASE ~ (n <= 65535)
  <2>1. ~ (n < 76) /\ ~ (n <= 255)
    BY <1>7
  <2>2. h = << 78 >> \o FixedDigits(n, 4)
    BY <1>7, <2>1, PushOpcodeValues DEF PushHeader
  <2> DEFINE d == FixedDigits(n, 4)
  <2>3. d \in Seq(Byte) /\ Len(d) = LengthBytes(78) /\ Value(d) = n
    <3>1. d \in Seq(Byte) /\ Len(d) = 4 /\ Value(d) = n
      BY <1>7, FourDigits
    <3> HIDE DEF d
    <3>2. QED
      BY <3>1, LengthBytesValues
  <2>4. h = << 78 >> \o d
    BY <2>2
  <2> HIDE DEF d, h
  <2>5. 78 \in {76, 77, 78}
    OBVIOUS
  <2>6. QED
    BY <1>4, <2>3, <2>4, <2>5 DEF h
<1>8. QED
  BY <1>3, <1>5, <1>6, <1>7

-----------------------------------------------------------------------------
(* Skip pointers go down. *)

LEMMA Halves ==
    ASSUME NEW n \in Nat
    PROVE  /\ n \div 2 \in Nat
           /\ n # 0 /\ n % 2 # 1 => n = 2 * (n \div 2) /\ n \div 2 # 0 /\ n \div 2 < n
           /\ n % 2 = 1 => n # 0
<1>1. n \div 2 \in Nat /\ n % 2 \in 0 .. 1 /\ n = 2 * (n \div 2) + (n % 2)
  OBVIOUS
<1> DEFINE q == n \div 2
           r == n % 2
<1>2. q \in Nat /\ r \in 0 .. 1 /\ n = 2 * q + r
  BY <1>1
<1> HIDE DEF q, r
<1>3. /\ n # 0 /\ r # 1 => n = 2 * q /\ q # 0 /\ q < n
      /\ r = 1 => n # 0
  BY <1>2
<1>4. QED
  BY <1>2, <1>3 DEF q, r

LEMMA LowestOneEquation ==
    ASSUME NEW n \in Nat
    PROVE  /\ Walk!invertLowestOne(n) \in Nat
           /\ Walk!invertLowestOne(n) =
                 IF n = 0 THEN 0 ELSE IF n % 2 = 1 THEN n - 1
                 ELSE 2 * Walk!invertLowestOne(n \div 2)
<1> DEFINE S == Nat
           X == Nat
           D == [p \in S \X [S -> X] |->
                    IF p[1] = 0 THEN 0 ELSE IF p[1] % 2 = 1 THEN p[1] - 1
                    ELSE 2 * p[2][p[1] \div 2]]
<1>1. \A k \in S, g \in [S -> X] :
         D[<< k, g >>] = IF k = 0 THEN 0 ELSE IF k % 2 = 1 THEN k - 1 ELSE 2 * g[k \div 2]
  OBVIOUS
<1>2. D \in [S \X [S -> X] -> X]
  <2>1. ASSUME NEW p \in S \X [S -> X]
        PROVE  (IF p[1] = 0 THEN 0 ELSE IF p[1] % 2 = 1 THEN p[1] - 1
                ELSE 2 * p[2][p[1] \div 2]) \in X
    <3>1. p[1] \in Nat /\ p[2] \in [Nat -> Nat]
      OBVIOUS
    <3>2. p[1] \div 2 \in Nat
      BY <3>1, Halves
    <3>3. p[2][p[1] \div 2] \in Nat
      BY <3>1, <3>2
    <3> DEFINE a == p[1]
               b == p[2][p[1] \div 2]
    <3>4. a \in Nat /\ b \in Nat
      BY <3>1, <3>3
    <3> HIDE DEF a, b
    <3>5. (IF a = 0 THEN 0 ELSE IF a % 2 = 1 THEN a - 1 ELSE 2 * b) \in Nat
      BY <3>4
    <3>6. QED
      BY <3>5 DEF a, b
  <2>2. QED
    BY <2>1
<1>3. S \subseteq Nat /\ X # {}
  OBVIOUS
<1> HIDE DEF D
<1>4. ASSUME NEW k \in S, NEW g \in [S -> X], NEW h \in [S -> X],
             \A t \in S : t < k => g[t] = h[t]
      PROVE  D[<< k, g >>] = D[<< k, h >>]
  <2>1. CASE k = 0 \/ k % 2 = 1
    BY <1>1, <2>1
  <2>2. CASE ~ (k = 0 \/ k % 2 = 1)
    <3>1. k \div 2 \in S /\ k \div 2 < k
      BY <2>2, Halves
    <3>2. g[k \div 2] = h[k \div 2]
      BY <1>4, <3>1
    <3>3. D[<< k, g >>] = 2 * g[k \div 2] /\ D[<< k, h >>] = 2 * h[k \div 2]
      BY <1>1, <2>2
    <3>4. QED
      BY <3>2, <3>3
  <2>3. QED
    BY <2>1, <2>2
<1> DEFINE E(k, g) == IF k = 0 THEN 0 ELSE IF k % 2 = 1 THEN k - 1 ELSE 2 * g[k \div 2]
           inv == CHOOSE g : g = [k \in Nat |-> E(k, g)]
<1>5. \E f : f = [k \in Nat |-> E(k, f)] /\ f \in [Nat -> Nat]
  <2> HIDE DEF S, X
  <2>1. HasSolution(S, X, D)
    BY <1>2, <1>3, <1>4, NatRecursionExists
  <2>2. PICK f \in [S -> X] : \A k \in S : f[k] = D[<< k, f >>]
    BY <2>1 DEF HasSolution
  <2>3. \A k \in S : f[k] = E(k, f)
    BY <1>1, <2>2
  <2> HIDE DEF E
  <2>4. f = [k \in S |-> E(k, f)]
    BY <2>2, <2>3
  <2>5. QED
    BY <2>2, <2>4 DEF S, X
<1>6. inv = [k \in Nat |-> E(k, inv)]
  <2> HIDE DEF E
  <2>1. QED
    BY <1>5, ZenonT(30)
<1>7. \A k \in Nat : Walk!invertLowestOne(k) = inv[k]
  BY DEF Walk!invertLowestOne
<1> HIDE DEF inv
<1>8. \A k \in Nat : inv[k] = E(k, inv)
  BY <1>6
<1> DEFINE T == {k \in Nat : inv[k] \in Nat}
           mu == [k \in Nat |-> k]
<1>9. mu \in [Nat -> Nat] /\ \A k \in Nat : mu[k] = k
  OBVIOUS
<1>10. ASSUME NEW k \in Nat, \A t \in Nat : mu[t] < mu[k] => t \in T
       PROVE  k \in T
  <2>1. CASE k = 0 \/ k % 2 = 1
    BY <1>8, <2>1
  <2>2. CASE ~ (k = 0 \/ k % 2 = 1)
    <3>1. k \div 2 \in Nat /\ k \div 2 < k
      BY <2>2, Halves
    <3>2. inv[k \div 2] \in Nat
      BY <1>9, <1>10, <3>1
    <3>3. inv[k] = 2 * inv[k \div 2]
      BY <1>8, <2>2
    <3>4. QED
      BY <3>2, <3>3
  <2>3. QED
    BY <2>1, <2>2
<1> HIDE DEF mu, T
<1>11. Nat \subseteq T
  BY <1>9, <1>10, MeasureInduction
<1>12. inv[n] \in Nat /\ inv[n] = E(n, inv) /\ n \div 2 \in Nat
  BY <1>8, <1>11, Halves DEF T
<1>13. QED
  BY <1>7, <1>12

\* A skip pointer goes down, and stays in the chain.
LEMMA LowestOneIsLower ==
    ASSUME NEW n \in Nat
    PROVE  /\ Walk!invertLowestOne(n) \in Nat
           /\ n # 0 => Walk!invertLowestOne(n) < n
           /\ n = 0 => Walk!invertLowestOne(n) = 0
<1> DEFINE inv(k) == Walk!invertLowestOne(k)
           T == {k \in Nat : k # 0 => inv(k) < k}
           mu == [k \in Nat |-> k]
<1>1. \A k \in Nat : /\ inv(k) \in Nat
                     /\ inv(k) = IF k = 0 THEN 0 ELSE IF k % 2 = 1 THEN k - 1
                                 ELSE 2 * inv(k \div 2)
  BY LowestOneEquation
<1> HIDE DEF inv
<1>2. mu \in [Nat -> Nat] /\ \A k \in Nat : mu[k] = k
  OBVIOUS
<1>3. ASSUME NEW k \in Nat, \A t \in Nat : mu[t] < mu[k] => t \in T
      PROVE  k \in T
  <2>1. CASE k = 0 \/ k % 2 = 1
    BY <1>1, <2>1
  <2>2. CASE ~ (k = 0 \/ k % 2 = 1)
    <3>1. k \div 2 \in Nat /\ k \div 2 < k /\ k \div 2 # 0 /\ k = 2 * (k \div 2)
      BY <2>2, Halves
    <3>2. inv(k \div 2) < k \div 2 /\ inv(k \div 2) \in Nat
      BY <1>1, <1>2, <1>3, <3>1
    <3>3. inv(k) = 2 * inv(k \div 2)
      BY <1>1, <2>2
    <3> DEFINE q == k \div 2
    <3>4. q \in Nat /\ inv(q) < q /\ inv(q) \in Nat /\ k = 2 * q /\ inv(k) = 2 * inv(q)
      BY <3>1, <3>2, <3>3
    <3> HIDE DEF q
    <3>5. inv(k) < k
      BY <3>4
    <3>6. QED
      BY <3>5
  <2>3. QED
    BY <2>1, <2>2
<1> HIDE DEF mu, T
<1>4. Nat \subseteq T
  BY <1>2, <1>3, MeasureInduction
<1>5. QED
  BY <1>1, <1>4 DEF T, inv

LEMMA SkipHeightIsLower ==
    ASSUME NEW h \in Nat, h # 0
    PROVE  Walk!getSkipHeight(h) \in Nat /\ Walk!getSkipHeight(h) < h
<1>1. CASE h < 2
  BY <1>1 DEF Walk!getSkipHeight
<1>2. CASE ~ (h < 2) /\ h % 2 = 1
  <2> DEFINE a == Walk!invertLowestOne(h - 1)
             b == Walk!invertLowestOne(a)
  <2>1. h - 1 \in Nat /\ h - 1 # 0
    BY <1>2
  <2>2. a \in Nat /\ a < h - 1
    BY <2>1, LowestOneIsLower
  <2>3. b \in Nat /\ b <= a
    BY <2>2, LowestOneIsLower
  <2>4. Walk!getSkipHeight(h) = b + 1
    BY <1>2 DEF Walk!getSkipHeight
  <2> HIDE DEF a, b
  <2>5. QED
    BY <2>2, <2>3, <2>4
<1>3. CASE ~ (h < 2) /\ h % 2 # 1
  BY <1>3, LowestOneIsLower DEF Walk!getSkipHeight
<1>4. QED
  BY <1>1, <1>2, <1>3

-----------------------------------------------------------------------------
(* Ancestors. *)

LEMMA Ancestors ==
    ASSUME NEW tree \in BlockTrees, NEW b \in Walk!Blocks(tree), NEW h \in 0 .. b.height
    PROVE  /\ Walk!Ancestor(tree, b, h) \in Walk!Blocks(tree)
           /\ Walk!Ancestor(tree, b, h).height = h
           /\ \A k \in 0 .. h :
                 Walk!Ancestor(tree, Walk!Ancestor(tree, b, h), k) = Walk!Ancestor(tree, b, k)
           /\ h = b.height => Walk!Ancestor(tree, b, h) = b
<1>1. /\ b.branch \in {"best", "fork"} /\ b.height \in Nat /\ h \in Nat /\ h <= b.height
      /\ b = [branch |-> b.branch, height |-> b.height] /\ tree.fork \in Nat
      /\ b.branch = "fork" => b.height > tree.fork
  BY DEF Walk!Blocks, BlockTrees
<1> DEFINE a == Walk!Ancestor(tree, b, h)
           on == IF b.branch = "fork" /\ h > tree.fork THEN "fork" ELSE "best"
<1>2. a = [branch |-> on, height |-> h]
  BY DEF Walk!Ancestor, Walk!Block
<1>3. on \in {"best", "fork"} /\ (on = "fork" <=> b.branch = "fork" /\ h > tree.fork)
  OBVIOUS
<1> HIDE DEF on
<1>4. a \in Walk!Blocks(tree) /\ a.height = h /\ a.branch = on
  BY <1>1, <1>2, <1>3 DEF Walk!Blocks
<1> HIDE DEF a
<1>5. ASSUME NEW k \in 0 .. h
      PROVE  Walk!Ancestor(tree, a, k) = Walk!Ancestor(tree, b, k)
  <2>1. (a.branch = "fork" /\ k > tree.fork) <=> (b.branch = "fork" /\ k > tree.fork)
    BY <1>1, <1>3, <1>4
  <2>2. QED
    BY <2>1 DEF Walk!Ancestor
<1>6. ASSUME h = b.height
      PROVE  a = b
  <2>1. on = b.branch
    BY <1>1, <1>3, <1>6
  <2>2. QED
    BY <1>1, <1>2, <1>6, <2>1
<1>7. QED
  BY <1>4, <1>5, <1>6 DEF a

\* Where the walk goes from a block above the height it looks for.
Onward(tree, b, height) ==
    IF Walk!FollowSkip(tree, b, height) THEN Walk!skip(tree, b) ELSE Walk!previous(tree, b)

LEMMA OnwardIsAncestor ==
    ASSUME NEW tree \in BlockTrees, NEW b \in Walk!Blocks(tree), NEW height \in Nat, b.height > height
    PROVE  \E h \in height .. b.height : h < b.height /\ Onward(tree, b, height) = Walk!Ancestor(tree, b, h)
<1>1. b.height \in Nat /\ b.height # 0 /\ b.height - 1 \in 0 .. b.height
  BY DEF Walk!Blocks
<1> DEFINE to == Walk!getSkipHeight(b.height)
<1>2. to \in Nat /\ to < b.height
  BY <1>1, SkipHeightIsLower
<1>3. Walk!previous(tree, b) = Walk!Ancestor(tree, b, b.height - 1)
  BY DEF Walk!previous
<1>4. Walk!skip(tree, b) = Walk!Ancestor(tree, Walk!previous(tree, b), to)
  BY DEF Walk!skip
<1>5. Walk!FollowSkip(tree, b, height) => to >= height
  BY <1>2 DEF Walk!FollowSkip
<1> HIDE DEF to
<1>6. to \in 0 .. (b.height - 1)
  BY <1>1, <1>2
<1>7. Walk!skip(tree, b) = Walk!Ancestor(tree, b, to)
  <2> DEFINE h == b.height - 1
  <2>1. h \in 0 .. b.height /\ to \in 0 .. h
    BY <1>1, <1>6
  <2>2. Walk!previous(tree, b) = Walk!Ancestor(tree, b, h)
    BY <1>3
  <2> HIDE DEF h
  <2>3. Walk!Ancestor(tree, Walk!Ancestor(tree, b, h), to) = Walk!Ancestor(tree, b, to)
    BY <2>1, Ancestors
  <2>4. QED
    BY <1>4, <2>2, <2>3
<1>8. CASE Walk!FollowSkip(tree, b, height)
  <2>1. Onward(tree, b, height) = Walk!Ancestor(tree, b, to)
    BY <1>7, <1>8 DEF Onward
  <2>2. to \in height .. b.height /\ to < b.height
    BY <1>1, <1>2, <1>5, <1>8
  <2>3. QED
    BY <2>1, <2>2
<1>9. CASE ~ Walk!FollowSkip(tree, b, height)
  <2>1. Onward(tree, b, height) = Walk!Ancestor(tree, b, b.height - 1)
    BY <1>3, <1>9 DEF Onward
  <2>2. b.height - 1 \in height .. b.height /\ b.height - 1 < b.height
    BY <1>1
  <2>3. QED
    BY <2>1, <2>2
<1>10. QED
  BY <1>8, <1>9

\* The walk of getAncestor, from any block.
LEMMA WalkExists ==
    ASSUME NEW tree \in BlockTrees, NEW height \in Nat
    PROVE  \E f : f = [b \in Walk!Blocks(tree) |-> IF b.height <= height THEN b
                                            ELSE f[Onward(tree, b, height)]]
<1> DEFINE S == Walk!Blocks(tree)
           X == Walk!Blocks(tree)
           D == [p \in S \X [S -> X] |-> IF p[1].height <= height THEN p[1]
                                         ELSE p[2][Onward(tree, p[1], height)]]
           mu == [b \in S |-> IF b.height <= height THEN 0 ELSE b.height - height]
<1>1. \A b \in S : b.height \in Int
  BY DEF Walk!Blocks
<1>2. \A b \in S : ~ (b.height <= height) => /\ Onward(tree, b, height) \in S
                                             /\ Onward(tree, b, height).height < b.height
  <2>1. ASSUME NEW b \in S, b.height > height
        PROVE  Onward(tree, b, height) \in S /\ Onward(tree, b, height).height < b.height
    <3>1. PICK h \in height .. b.height : h < b.height /\ Onward(tree, b, height) = Walk!Ancestor(tree, b, h)
      BY <2>1, OnwardIsAncestor
    <3>2. h \in 0 .. b.height
      BY <1>1
    <3>3. QED
      BY <3>1, <3>2, Ancestors
  <2>2. QED
    BY <1>1, <2>1
<1>3. mu \in [S -> Nat] /\ \A b \in S : mu[b] = IF b.height <= height THEN 0 ELSE b.height - height
  BY <1>1
<1>4. X # {}
  <2>1. [branch |-> "best", height |-> 0] \in X
    BY DEF Walk!Blocks
  <2>2. QED
    BY <2>1
<1>5. \A b \in S, g \in [S -> X] :
         D[<< b, g >>] = IF b.height <= height THEN b ELSE g[Onward(tree, b, height)]
  OBVIOUS
<1>6. D \in [S \X [S -> X] -> X]
  <2>1. ASSUME NEW p \in S \X [S -> X]
        PROVE  (IF p[1].height <= height THEN p[1] ELSE p[2][Onward(tree, p[1], height)]) \in X
    <3>1. p[1] \in S /\ p[1] \in X /\ p[2] \in [S -> X]
      OBVIOUS
    <3>2. ~ (p[1].height <= height) => p[2][Onward(tree, p[1], height)] \in X
      BY <1>2, <3>1
    <3>3. QED
      BY <3>1, <3>2
  <2>2. QED
    BY <2>1
<1> HIDE DEF D, mu
<1>7. ASSUME NEW b \in S, NEW g \in [S -> X], NEW h \in [S -> X],
             \A t \in S : mu[t] < mu[b] => g[t] = h[t]
      PROVE  D[<< b, g >>] = D[<< b, h >>]
  <2>1. CASE b.height <= height
    BY <1>5, <2>1
  <2>2. CASE ~ (b.height <= height)
    <3> DEFINE c == Onward(tree, b, height)
    <3>1. c \in S /\ c.height < b.height
      BY <1>2, <2>2
    <3>2. D[<< b, g >>] = g[c] /\ D[<< b, h >>] = h[c]
      BY <1>5, <2>2
    <3> HIDE DEF c
    <3>3. c.height \in Int /\ b.height \in Int
      BY <1>1, <3>1
    <3>4. mu[c] < mu[b]
      BY <1>3, <2>2, <3>1, <3>3
    <3>5. QED
      BY <1>7, <3>1, <3>2, <3>4
  <2>3. QED
    BY <2>1, <2>2
<1>8. Local(S, X, mu, D)
  BY <1>7 DEF Local
<1> HIDE DEF S, X
<1>9. HasSolution(S, X, D)
  BY <1>3, <1>4, <1>6, <1>8, RecursionExists
<1>10. PICK f \in [S -> X] : \A b \in S : f[b] = D[<< b, f >>]
  BY <1>9 DEF HasSolution
<1>11. f = [b \in S |-> IF b.height <= height THEN b ELSE f[Onward(tree, b, height)]]
  BY <1>5, <1>10
<1>12. QED
  BY <1>11 DEF S

\* BlockIndex::getAncestor finds the ancestor of that height, whichever skip
\* pointers it follows, and whether the blocks have them or not.
THEOREM AncestorIsFound ==
    ASSUME NEW tree \in BlockTrees, NEW block \in Walk!Blocks(tree), NEW height \in 0 .. block.height
    PROVE  Walk!getAncestor(tree, block, height) = Walk!Ancestor(tree, block, height)
<1>1. height \in Nat /\ height <= block.height
  BY DEF Walk!Blocks
<1>2. ASSUME NEW b \in Walk!Blocks(tree)
      PROVE  b \in Walk!Blocks(tree) /\ b.height \in Nat
  BY DEF Walk!Blocks
<1> DEFINE E(b, g) == IF b.height <= height THEN b ELSE g[Onward(tree, b, height)]
           walk == CHOOSE g : g = [b \in Walk!Blocks(tree) |-> E(b, g)]
<1>3. walk = [b \in Walk!Blocks(tree) |-> E(b, walk)]
  <2>1. \E f : f = [b \in Walk!Blocks(tree) |-> E(b, f)]
    BY <1>1, WalkExists
  <2> HIDE DEF E
  <2>2. QED
    BY <2>1, ZenonT(30)
<1>4. Walk!getAncestor(tree, block, height) = walk[block]
  <2>1. \A b, g : E(b, g) = IF b.height <= height THEN b
                            ELSE IF Walk!FollowSkip(tree, b, height) THEN g[Walk!skip(tree, b)]
                            ELSE g[Walk!previous(tree, b)]
    BY DEF Onward
  <2> DEFINE F(b, g) == IF b.height <= height THEN b
                        ELSE IF Walk!FollowSkip(tree, b, height) THEN g[Walk!skip(tree, b)]
                        ELSE g[Walk!previous(tree, b)]
             other == CHOOSE g : g = [b \in Walk!Blocks(tree) |-> F(b, g)]
  <2>2. Walk!getAncestor(tree, block, height) = other[block]
    BY DEF Walk!getAncestor
  <2>3. \A b, g : E(b, g) = F(b, g)
    BY <2>1
  <2> HIDE DEF E, F
  <2>4. \A g : (g = [b \in Walk!Blocks(tree) |-> E(b, g)]) <=> (g = [b \in Walk!Blocks(tree) |-> F(b, g)])
    <3> TAKE g
    <3>1. [b \in Walk!Blocks(tree) |-> E(b, g)] = [b \in Walk!Blocks(tree) |-> F(b, g)]
      BY <2>3
    <3>2. QED
      BY <3>1
  <2>5. walk = other
    BY <2>4
  <2>6. QED
    BY <2>2, <2>5
<1> HIDE DEF walk
<1>5. \A b \in Walk!Blocks(tree) : walk[b] = IF b.height <= height THEN b
                                      ELSE walk[Onward(tree, b, height)]
  BY <1>3
<1> DEFINE S == Walk!Blocks(tree)
           T == {b \in S : b.height >= height => walk[b] = Walk!Ancestor(tree, b, height)}
           mu == [b \in S |-> b.height]
<1>6. mu \in [S -> Nat] /\ \A b \in S : mu[b] = b.height
  BY <1>2
<1>7. ASSUME NEW b \in S, \A c \in S : mu[c] < mu[b] => c \in T
      PROVE  b \in T
  <2>1. SUFFICES ASSUME b.height >= height
                 PROVE  walk[b] = Walk!Ancestor(tree, b, height)
    OBVIOUS
  <2>2. height \in 0 .. b.height /\ b \in Walk!Blocks(tree) /\ b.height \in Nat
    BY <1>1, <1>2, <2>1
  <2>3. CASE b.height = height
    <3>1. walk[b] = b
      BY <1>5, <2>2, <2>3
    <3>2. QED
      BY <2>2, <2>3, <3>1, Ancestors
  <2>4. CASE b.height # height
    <3>1. PICK h \in height .. b.height : h < b.height /\ Onward(tree, b, height) = Walk!Ancestor(tree, b, h)
      BY <1>1, <2>1, <2>2, <2>4, OnwardIsAncestor
    <3> DEFINE c == Walk!Ancestor(tree, b, h)
    <3>2. walk[b] = walk[c]
      BY <1>1, <1>5, <2>1, <2>2, <2>4, <3>1
    <3>3. h \in 0 .. b.height /\ height \in 0 .. h /\ h >= height /\ h \in Nat
      BY <1>1, <2>2, <3>1
    <3>4. c \in S /\ c.height = h
      BY <3>3, Ancestors
    <3>5. Walk!Ancestor(tree, c, height) = Walk!Ancestor(tree, b, height)
      BY <3>3, Ancestors
    <3> HIDE DEF c
    <3>6. c \in T
      BY <1>6, <1>7, <3>1, <3>4
    <3>7. walk[c] = Walk!Ancestor(tree, c, height)
      BY <3>3, <3>4, <3>6
    <3>8. QED
      BY <3>2, <3>5, <3>7
  <2>5. QED
    BY <2>3, <2>4
<1> HIDE DEF mu, T
<1>8. S \subseteq T
  <2> HIDE DEF S
  <2>1. QED
    BY <1>6, <1>7, MeasureInduction
<1>9. QED
  BY <1>1, <1>4, <1>8 DEF T

-----------------------------------------------------------------------------
(* The last common ancestor. *)

LEMMA Previous ==
    ASSUME NEW tree \in BlockTrees, NEW b \in Walk!Blocks(tree), b.height # 0
    PROVE  /\ Walk!previous(tree, b) \in Walk!Blocks(tree)
           /\ Walk!previous(tree, b).height = b.height - 1
<1>1. b.height \in Nat /\ b.height - 1 \in 0 .. b.height
  BY DEF Walk!Blocks
<1>2. Walk!previous(tree, b) = Walk!Ancestor(tree, b, b.height - 1)
  BY DEF Walk!previous
<1> DEFINE h == b.height - 1
<1> HIDE DEF h
<1>3. Walk!Ancestor(tree, b, h) \in Walk!Blocks(tree) /\ Walk!Ancestor(tree, b, h).height = h
  BY <1>1, Ancestors DEF h
<1>4. QED
  BY <1>2, <1>3 DEF h

BlockPairs(tree) == [x : Walk!Blocks(tree), y : Walk!Blocks(tree)]

\* The loop of findLastCommonAncestor, from any two blocks.
LEMMA MeetExists ==
    ASSUME NEW tree \in BlockTrees
    PROVE  \E f : f = [p \in BlockPairs(tree) |->
                          IF p.x = p.y \/ p.x.height = 0 \/ p.y.height = 0 THEN p.x
                          ELSE f[[x |-> Walk!previous(tree, p.x), y |-> Walk!previous(tree, p.y)]]]
<1> DEFINE S == BlockPairs(tree)
           X == Walk!Blocks(tree)
           Ends(p) == p.x = p.y \/ p.x.height = 0 \/ p.y.height = 0
           Back(p) == [x |-> Walk!previous(tree, p.x), y |-> Walk!previous(tree, p.y)]
           D == [q \in S \X [S -> X] |-> IF Ends(q[1]) THEN q[1].x ELSE q[2][Back(q[1])]]
           mu == [p \in S |-> p.x.height]
<1>1. \A b \in Walk!Blocks(tree) : b.height \in Nat
  BY DEF Walk!Blocks
<1>2. \A p \in S : p.x \in X /\ p.y \in X
  BY DEF BlockPairs
<1>3. \A p \in S : ~ Ends(p) => Back(p) \in S /\ Back(p).x.height < p.x.height
  <2>1. ASSUME NEW p \in S, ~ Ends(p)
        PROVE  Back(p) \in S /\ Back(p).x.height < p.x.height
    <3> DEFINE x == Walk!previous(tree, p.x)
               y == Walk!previous(tree, p.y)
    <3>1. x \in Walk!Blocks(tree) /\ y \in Walk!Blocks(tree) /\ x.height = p.x.height - 1
      BY <1>2, <2>1, Previous
    <3>2. Back(p) = [x |-> x, y |-> y] /\ p.x.height \in Nat
      BY <1>1, <1>2
    <3> HIDE DEF x, y, Back
    <3>3. QED
      BY <3>1, <3>2 DEF BlockPairs
  <2>2. QED
    BY <2>1
<1>4. mu \in [S -> Nat] /\ \A p \in S : mu[p] = p.x.height
  BY <1>1, <1>2
<1>5. X # {}
  <2>1. [branch |-> "best", height |-> 0] \in X
    BY DEF Walk!Blocks
  <2>2. QED
    BY <2>1
<1> HIDE DEF S, X, Ends, Back
<1>6. \A p \in S, g \in [S -> X] : D[<< p, g >>] = IF Ends(p) THEN p.x ELSE g[Back(p)]
  OBVIOUS
<1>7. D \in [S \X [S -> X] -> X]
  <2>1. ASSUME NEW q \in S \X [S -> X]
        PROVE  (IF Ends(q[1]) THEN q[1].x ELSE q[2][Back(q[1])]) \in X
    <3>1. q[1] \in S /\ q[2] \in [S -> X]
      OBVIOUS
    <3>2. ~ Ends(q[1]) => q[2][Back(q[1])] \in X
      BY <1>3, <3>1
    <3>3. QED
      BY <1>2, <3>1, <3>2
  <2>2. QED
    BY <2>1
<1> HIDE DEF D, mu
<1>8. ASSUME NEW p \in S, NEW g \in [S -> X], NEW h \in [S -> X],
             \A t \in S : mu[t] < mu[p] => g[t] = h[t]
      PROVE  D[<< p, g >>] = D[<< p, h >>]
  <2>1. CASE Ends(p)
    BY <1>6, <2>1
  <2>2. CASE ~ Ends(p)
    <3>1. D[<< p, g >>] = g[Back(p)] /\ D[<< p, h >>] = h[Back(p)]
      BY <1>6, <2>2
    <3>2. Back(p) \in S /\ mu[Back(p)] < mu[p]
      BY <1>3, <1>4, <2>2
    <3>3. QED
      BY <1>8, <3>1, <3>2
  <2>3. QED
    BY <2>1, <2>2
<1>9. Local(S, X, mu, D)
  BY <1>8 DEF Local
<1>10. HasSolution(S, X, D)
  BY <1>4, <1>5, <1>7, <1>9, RecursionExists
<1>11. PICK f \in [S -> X] : \A p \in S : f[p] = D[<< p, f >>]
  BY <1>10 DEF HasSolution
<1>12. f = [p \in S |-> IF Ends(p) THEN p.x ELSE f[Back(p)]]
  BY <1>6, <1>11
<1>13. QED
  BY <1>12 DEF S, Ends, Back

\* findLastCommonAncestor returns the highest of the blocks that two chains
\* share, from blocks of any heights, and with and without skip pointers.
THEOREM LastCommonAncestorIsFound ==
    ASSUME NEW tree \in BlockTrees, NEW x \in Walk!Blocks(tree), NEW y \in Walk!Blocks(tree)
    PROVE  Walk!IsLastCommonAncestor(tree, x, y, Walk!findLastCommonAncestor(tree, x, y))
<1> DEFINE low == IF x.height > y.height THEN y.height ELSE x.height
           Ax(h) == Walk!Ancestor(tree, x, h)
           Ay(h) == Walk!Ancestor(tree, y, h)
           E(p, g) == IF p.x = p.y \/ p.x.height = 0 \/ p.y.height = 0 THEN p.x
                      ELSE g[[x |-> Walk!previous(tree, p.x), y |-> Walk!previous(tree, p.y)]]
           meet == CHOOSE g : g = [p \in BlockPairs(tree) |-> E(p, g)]
<1>1. x.height \in Nat /\ y.height \in Nat
  BY DEF Walk!Blocks
<1>2. low \in Nat /\ low \in 0 .. x.height /\ low \in 0 .. y.height
  BY <1>1
<1>3. meet = [p \in BlockPairs(tree) |-> E(p, meet)]
  <2>1. \E f : f = [p \in BlockPairs(tree) |-> E(p, f)]
    BY MeetExists
  <2> HIDE DEF E
  <2>2. QED
    BY <2>1, ZenonT(30)
<1>4. Walk!findLastCommonAncestor(tree, x, y) = meet[[x |-> Ax(low), y |-> Ay(low)]]
  <2>1. /\ Walk!getAncestor(tree, x, low) = Ax(low)
        /\ Walk!getAncestor(tree, y, low) = Ay(low)
    <3> HIDE DEF low
    <3>1. QED
      BY <1>2, AncestorIsFound
  <2>2. Walk!findLastCommonAncestor(tree, x, y)
            = meet[[x |-> Walk!getAncestor(tree, x, low), y |-> Walk!getAncestor(tree, y, low)]]
    BY DEF Walk!findLastCommonAncestor, BlockPairs
  <2> HIDE DEF meet, low
  <2>3. QED
    BY <2>1, <2>2
<1>5. ASSUME NEW h \in 0 .. low
      PROVE  /\ Ax(h) \in Walk!Blocks(tree) /\ Ay(h) \in Walk!Blocks(tree) /\ Ax(h).height = h /\ Ay(h).height = h
             /\ h # 0 => /\ Walk!previous(tree, Ax(h)) = Ax(h - 1)
                         /\ Walk!previous(tree, Ay(h)) = Ay(h - 1)
  <2>1. h \in 0 .. x.height /\ h \in 0 .. y.height /\ h \in Nat
    BY <1>1, <1>2
  <2>2. Ax(h).height = h /\ Ay(h).height = h /\ Ax(h) \in Walk!Blocks(tree) /\ Ay(h) \in Walk!Blocks(tree)
    BY <2>1, Ancestors DEF Walk!Blocks
  <2>3. ASSUME h # 0
        PROVE  /\ Walk!previous(tree, Ax(h)) = Ax(h - 1)
               /\ Walk!previous(tree, Ay(h)) = Ay(h - 1)
    <3>1. h - 1 \in 0 .. h
      BY <2>1, <2>3
    <3>2. /\ Walk!previous(tree, Ax(h)) = Walk!Ancestor(tree, Ax(h), h - 1)
          /\ Walk!previous(tree, Ay(h)) = Walk!Ancestor(tree, Ay(h), h - 1)
      BY <2>2 DEF Walk!previous
    <3> DEFINE k == h - 1
    <3> HIDE DEF k
    <3>3. k \in 0 .. h
      BY <3>1 DEF k
    <3>4. Walk!Ancestor(tree, Ax(h), k) = Ax(k) /\ Walk!Ancestor(tree, Ay(h), k) = Ay(k)
      BY <2>1, <3>3, Ancestors
    <3>5. QED
      BY <3>2, <3>4 DEF k
  <2>4. QED
    BY <2>2, <2>3
<1>6. Ax(0) = Ay(0)
  <2>1. ~ (0 > tree.fork)
    BY DEF BlockTrees
  <2>2. QED
    BY <2>1 DEF Walk!Ancestor
<1> HIDE DEF meet, low, Ax, Ay
\* What the loop finds from height h.
<1> DEFINE Found(h, k) == /\ meet[[x |-> Ax(h), y |-> Ay(h)]] = Ax(k)
                          /\ Ax(k) = Ay(k)
                          /\ \A j \in k + 1 .. h : Ax(j) # Ay(j)
           T == {h \in Nat : h <= low => \E k \in 0 .. h : Found(h, k)}
<1>7. ASSUME NEW h \in 0 .. low
      PROVE  /\ Ax(h) = Ay(h) => meet[[x |-> Ax(h), y |-> Ay(h)]] = Ax(h)
             /\ h # 0 /\ Ax(h) # Ay(h) =>
                   meet[[x |-> Ax(h), y |-> Ay(h)]] = meet[[x |-> Ax(h - 1), y |-> Ay(h - 1)]]
  <2> DEFINE p == [x |-> Ax(h), y |-> Ay(h)]
  <2>1. p \in BlockPairs(tree) /\ p.x = Ax(h) /\ p.y = Ay(h)
    BY <1>5 DEF BlockPairs
  <2> HIDE DEF p
  <2>2. meet[p] = E(p, meet)
    BY <1>3, <2>1
  <2>3. Ax(h) = Ay(h) => meet[p] = Ax(h)
    BY <2>1, <2>2
  <2>4. h # 0 /\ Ax(h) # Ay(h) => meet[p] = meet[[x |-> Ax(h - 1), y |-> Ay(h - 1)]]
    BY <1>5, <2>1, <2>2
  <2>5. QED
    BY <2>3, <2>4 DEF p
<1> HIDE DEF E
<1>8. 0 \in T
  <2>1. 0 \in 0 .. low
    BY <1>2
  <2>2. \A j \in 0 + 1 .. 0 : FALSE
    OBVIOUS
  <2>3. Found(0, 0)
    BY <1>6, <1>7, <2>1, <2>2
  <2>4. 0 \in 0 .. 0
    OBVIOUS
  <2>5. QED
    BY <2>3, <2>4
<1>9. ASSUME NEW h \in Nat, h \in T
      PROVE  h + 1 \in T
  <2>1. SUFFICES ASSUME h + 1 <= low
                 PROVE  \E k \in 0 .. h + 1 : Found(h + 1, k)
    OBVIOUS
  <2>2. h + 1 \in 0 .. low /\ h + 1 # 0 /\ (h + 1) - 1 = h /\ h <= low
    BY <1>2, <2>1
  <2>3. CASE Ax(h + 1) = Ay(h + 1)
    <3>1. \A j \in (h + 1) + 1 .. h + 1 : FALSE
      OBVIOUS
    <3>2. Found(h + 1, h + 1)
      BY <1>7, <2>2, <2>3, <3>1
    <3>3. QED
      BY <3>2
  <2>4. CASE Ax(h + 1) # Ay(h + 1)
    <3>1. PICK k \in 0 .. h : Found(h, k)
      BY <1>9, <2>2
    <3>2. meet[[x |-> Ax(h + 1), y |-> Ay(h + 1)]] = meet[[x |-> Ax(h), y |-> Ay(h)]]
      BY <1>7, <2>2, <2>4
    <3>3. \A j \in k + 1 .. h + 1 : j = h + 1 \/ j \in k + 1 .. h
      OBVIOUS
    <3>4. Found(h + 1, k) /\ k \in 0 .. h + 1
      BY <2>4, <3>1, <3>2, <3>3
    <3>5. QED
      BY <3>4
  <2>5. QED
    BY <2>3, <2>4
<1> HIDE DEF T
<1>10. Nat \subseteq T
  BY <1>8, <1>9, Induction
<1>11. PICK k \in 0 .. low : Found(low, k)
  BY <1>2, <1>10 DEF T
<1> DEFINE found == Walk!findLastCommonAncestor(tree, x, y)
<1>12. found = Ax(k) /\ k \in 0 .. low
  BY <1>4, <1>11
<1>13. found.height = k
  BY <1>5, <1>12
<1>14. \A h \in Nat : h <= x.height /\ h <= y.height => h \in 0 .. low
  BY <1>1 DEF low
<1>15. Walk!CommonHeights(tree, x, y) = {h \in 0 .. x.height : h <= y.height /\ Ax(h) = Ay(h)}
  BY DEF Walk!CommonHeights, Ax, Ay
<1> HIDE DEF found
<1>16. k \in Walk!CommonHeights(tree, x, y)
  <2>1. k \in 0 .. x.height /\ k <= y.height
    BY <1>1, <1>2, <1>12
  <2>2. QED
    BY <1>11, <1>15, <2>1
<1>17. ASSUME NEW h \in Walk!CommonHeights(tree, x, y)
       PROVE  h <= k
  <2>1. h \in 0 .. low /\ Ax(h) = Ay(h)
    BY <1>1, <1>14, <1>15
  <2>2. ~ (h \in k + 1 .. low)
    BY <1>11, <2>1
  <2>3. QED
    BY <1>2, <2>1, <2>2
<1>18. found = Walk!Ancestor(tree, x, found.height)
  BY <1>12, <1>13 DEF Ax
<1>19. QED
  BY <1>13, <1>16, <1>17, <1>18 DEF Walk!IsLastCommonAncestor, found

-----------------------------------------------------------------------------
(* The block locator. *)

\* The loop of getLocator: its block, its step and how many blocks it has.
LocatorStates(tree) == [block : Walk!Blocks(tree), step : Nat \ {0}, size : Nat]

Lower(s) == IF s.block.height > s.step THEN s.block.height - s.step ELSE 0

AfterBlock(tree, s) ==
    [block |-> Walk!Back(tree, s.block, Lower(s)),
     step |-> IF s.size > 10 THEN 2 * s.step ELSE s.step,
     size |-> s.size + 1]

LEMMA BackIsAncestor ==
    ASSUME NEW tree \in BlockTrees, NEW b \in Walk!Blocks(tree), NEW h \in 0 .. b.height
    PROVE  Walk!Back(tree, b, h) = Walk!Ancestor(tree, b, h)
<1>1. CASE Walk!contains(tree, b)
  <2>1. b.branch = "best"
    BY <1>1 DEF Walk!contains
  <2>2. Walk!Ancestor(tree, b, h) = Walk!Block("best", h)
    BY <2>1 DEF Walk!Ancestor
  <2>3. Walk!Back(tree, b, h) = Walk!Block("best", h)
    BY <1>1 DEF Walk!Back, Walk!getBlock
  <2>4. QED
    BY <2>2, <2>3
<1>2. CASE ~ Walk!contains(tree, b)
  BY <1>2, AncestorIsFound DEF Walk!Back
<1>3. QED
  BY <1>1, <1>2

LEMMA AfterBlockIsLower ==
    ASSUME NEW tree \in BlockTrees, NEW s \in LocatorStates(tree), s.block.height # 0
    PROVE  /\ AfterBlock(tree, s) \in LocatorStates(tree)
           /\ Lower(s) \in 0 .. s.block.height /\ Lower(s) < s.block.height
           /\ AfterBlock(tree, s).block = Walk!Ancestor(tree, s.block, Lower(s))
           /\ AfterBlock(tree, s).block.height = Lower(s)
           /\ AfterBlock(tree, s).step = IF s.size > 10 THEN 2 * s.step ELSE s.step
           /\ AfterBlock(tree, s).size = s.size + 1
<1>1. /\ s.block \in Walk!Blocks(tree) /\ s.block.height \in Nat /\ s.size \in Nat
      /\ s.step \in Nat \ {0}
  BY DEF LocatorStates, Walk!Blocks
<1>2. Lower(s) \in 0 .. s.block.height /\ Lower(s) < s.block.height
  BY <1>1 DEF Lower
<1> DEFINE b == s.block
           h == Lower(s)
           c == Walk!Ancestor(tree, b, h)
           step == IF s.size > 10 THEN 2 * s.step ELSE s.step
<1>3. b \in Walk!Blocks(tree) /\ h \in 0 .. b.height
  BY <1>1, <1>2
<1> HIDE DEF b, h
<1>4. c \in Walk!Blocks(tree) /\ c.height = h /\ Walk!Back(tree, b, h) = c
  BY <1>3, Ancestors, BackIsAncestor
<1>5. AfterBlock(tree, s) = [block |-> c, step |-> step, size |-> s.size + 1]
  BY <1>4 DEF AfterBlock, b, h
<1>6. step \in Nat \ {0} /\ s.size + 1 \in Nat /\ c \in Walk!Blocks(tree)
  BY <1>1, <1>4 DEF Walk!Blocks
<1> HIDE DEF c, step
<1>7. AfterBlock(tree, s) \in LocatorStates(tree)
  BY <1>4, <1>5, <1>6 DEF LocatorStates
<1>8. QED
  BY <1>2, <1>4, <1>5, <1>7 DEF b, h, c, step

LEMMA LocatorExists ==
    ASSUME NEW tree \in BlockTrees
    PROVE  \E f : f = [s \in LocatorStates(tree) |->
                          IF s.block.height = 0 THEN << s.block >>
                          ELSE << s.block >> \o f[AfterBlock(tree, s)]]
<1> DEFINE S == LocatorStates(tree)
           B == Walk!Blocks(tree)
           X == Seq(B)
           D == [p \in S \X [S -> X] |-> IF p[1].block.height = 0 THEN << p[1].block >>
                                         ELSE << p[1].block >> \o p[2][AfterBlock(tree, p[1])]]
           mu == [s \in S |-> s.block.height]
<1>1. \A s \in S : s.block \in B /\ s.block.height \in Nat
  BY DEF LocatorStates, Walk!Blocks
<1>2. \A s \in S : s.block.height # 0 => /\ AfterBlock(tree, s) \in S
                                         /\ AfterBlock(tree, s).block.height < s.block.height
  BY AfterBlockIsLower
<1>3. mu \in [S -> Nat] /\ \A s \in S : mu[s] = s.block.height
  BY <1>1
<1>4. X # {}
  BY EmptySeq
<1>5. \A s \in S, g \in [S -> X] :
         D[<< s, g >>] = IF s.block.height = 0 THEN << s.block >>
                         ELSE << s.block >> \o g[AfterBlock(tree, s)]
  OBVIOUS
<1>6. D \in [S \X [S -> X] -> X]
  <2>1. ASSUME NEW p \in S \X [S -> X]
        PROVE  (IF p[1].block.height = 0 THEN << p[1].block >>
                ELSE << p[1].block >> \o p[2][AfterBlock(tree, p[1])]) \in X
    <3>1. p[1] \in S /\ p[2] \in [S -> X]
      OBVIOUS
    <3>2. << p[1].block >> \in Seq(B)
      BY <1>1, <3>1
    <3>3. CASE p[1].block.height = 0
      BY <3>2, <3>3
    <3>4. CASE p[1].block.height # 0
      <4>1. p[2][AfterBlock(tree, p[1])] \in Seq(B)
        BY <1>2, <3>1, <3>4
      <4>2. << p[1].block >> \o p[2][AfterBlock(tree, p[1])] \in Seq(B)
        BY <3>2, <4>1, ConcatProperties
      <4>3. QED
        BY <3>4, <4>2
    <3>5. QED
      BY <3>3, <3>4
  <2>2. QED
    BY <2>1
<1> HIDE DEF D, mu
<1>7. ASSUME NEW s \in S, NEW g \in [S -> X], NEW h \in [S -> X],
             \A t \in S : mu[t] < mu[s] => g[t] = h[t]
      PROVE  D[<< s, g >>] = D[<< s, h >>]
  <2>1. CASE s.block.height = 0
    BY <1>5, <2>1
  <2>2. CASE s.block.height # 0
    <3> DEFINE t == AfterBlock(tree, s)
    <3>1. t \in S /\ t.block.height < s.block.height
      BY <1>2, <2>2
    <3>2. D[<< s, g >>] = << s.block >> \o g[t] /\ D[<< s, h >>] = << s.block >> \o h[t]
      BY <1>5, <2>2
    <3> HIDE DEF t, S, X
    <3>3. g[t] = h[t]
      BY <1>3, <1>7, <3>1
    <3>4. QED
      BY <3>2, <3>3
  <2>3. QED
    BY <2>1, <2>2
<1>8. Local(S, X, mu, D)
  BY <1>7 DEF Local
<1> HIDE DEF S, X
<1>9. HasSolution(S, X, D)
  BY <1>3, <1>4, <1>6, <1>8, RecursionExists
<1>10. PICK f \in [S -> X] : \A s \in S : f[s] = D[<< s, f >>]
  BY <1>9 DEF HasSolution
<1>11. f = [s \in S |-> IF s.block.height = 0 THEN << s.block >>
                        ELSE << s.block >> \o f[AfterBlock(tree, s)]]
  BY <1>5, <1>10
<1>12. QED
  BY <1>11 DEF S

\* What the loop collects from any of its states.
Collects(tree, f) ==
    /\ f \in [LocatorStates(tree) -> Seq(Walk!Blocks(tree))]
    /\ \A s \in LocatorStates(tree) :
          /\ s.block.height = 0 => f[s] = << s.block >>
          /\ s.block.height # 0 => f[s] = << s.block >> \o f[AfterBlock(tree, s)]

FirstState(block) == [block |-> block, step |-> 1, size |-> 1]

LEMMA LocatorIsCollected ==
    ASSUME NEW tree \in BlockTrees
    PROVE  \E f : Collects(tree, f) /\ \A block : Walk!getLocator(tree, block) = f[FirstState(block)]
<1> DEFINE E(s, g) == IF s.block.height = 0 THEN << s.block >>
                      ELSE << s.block >> \o g[AfterBlock(tree, s)]
           from == CHOOSE g : g = [s \in LocatorStates(tree) |-> E(s, g)]
<1>1. \E f : f = [s \in LocatorStates(tree) |-> E(s, f)]
  BY LocatorExists
<1>2. from = [s \in LocatorStates(tree) |-> E(s, from)]
  <2> HIDE DEF E
  <2>1. QED
    BY <1>1, ZenonT(30)
<1>3. \A block : Walk!getLocator(tree, block) = from[FirstState(block)]
  BY DEF Walk!getLocator, LocatorStates, AfterBlock, Lower, FirstState
<1> HIDE DEF from
<1> DEFINE S == LocatorStates(tree)
           X == Seq(Walk!Blocks(tree))
           T == {s \in S : from[s] \in X}
           mu == [s \in S |-> s.block.height]
<1>4. \A s \in S : from[s] = E(s, from)
  BY <1>2
<1>5. \A s \in S : s.block \in Walk!Blocks(tree) /\ s.block.height \in Nat
  BY DEF LocatorStates, Walk!Blocks
<1>6. mu \in [S -> Nat] /\ \A s \in S : mu[s] = s.block.height
  BY <1>5
<1>7. ASSUME NEW s \in S, \A t \in S : mu[t] < mu[s] => t \in T
      PROVE  s \in T
  <2>1. << s.block >> \in X
    BY <1>5
  <2>2. CASE s.block.height = 0
    BY <1>4, <2>1, <2>2
  <2>3. CASE s.block.height # 0
    <3> DEFINE t == AfterBlock(tree, s)
    <3>1. t \in S /\ t.block.height < s.block.height
      BY <2>3, AfterBlockIsLower
    <3>2. from[s] = << s.block >> \o from[t]
      BY <1>4, <2>3
    <3> HIDE DEF t, S, mu
    <3>3. from[t] \in X
      BY <1>6, <1>7, <3>1
    <3>4. from[s] \in X
      BY <2>1, <3>2, <3>3, ConcatProperties
    <3>5. QED
      BY <3>4
  <2>4. QED
    BY <2>2, <2>3
<1> HIDE DEF T, mu
<1>8. S \subseteq T
  <2> HIDE DEF S
  <2>1. QED
    BY <1>6, <1>7, MeasureInduction
<1>9. from \in [S -> X]
  BY <1>2, <1>8 DEF T
<1>10. Collects(tree, from)
  BY <1>4, <1>9 DEF Collects
<1>11. QED
  BY <1>3, <1>10

LEMMA Collected ==
    ASSUME NEW B, NEW b \in B, NEW rest \in Seq(B)
    PROVE  /\ << b >> \o rest \in Seq(B)
           /\ Len(<< b >> \o rest) = Len(rest) + 1
           /\ (<< b >> \o rest)[1] = b
           /\ \A i \in 1 .. Len(rest) : (<< b >> \o rest)[i + 1] = rest[i]
<1>1. << b >> \in Seq(B) /\ Len(<< b >>) = 1 /\ << b >>[1] = b
  OBVIOUS
<1>2. QED
  BY <1>1, ConcatProperties, LenProperties

\* A chain of ancestors from a block down to the genesis block.
DescendsFrom(tree, block, blocks) ==
    /\ Len(blocks) >= 1
    /\ blocks[1] = block
    /\ blocks[Len(blocks)].height = 0
    /\ \A i \in 1 .. Len(blocks) : /\ blocks[i].height \in 0 .. block.height
                                   /\ blocks[i] = Walk!Ancestor(tree, block, blocks[i].height)
    /\ \A i \in 2 .. Len(blocks) : blocks[i].height < blocks[i - 1].height

LEMMA LocatorDescends ==
    ASSUME NEW tree \in BlockTrees, NEW f, Collects(tree, f), NEW s \in LocatorStates(tree)
    PROVE  DescendsFrom(tree, s.block, f[s])
<1> DEFINE S == LocatorStates(tree)
           B == Walk!Blocks(tree)
           T == {t \in S : DescendsFrom(tree, t.block, f[t])}
           mu == [t \in S |-> t.block.height]
<1>1. \A t \in S : t.block \in B /\ t.block.height \in Nat
  BY DEF LocatorStates, Walk!Blocks
<1>2. mu \in [S -> Nat] /\ \A t \in S : mu[t] = t.block.height
  BY <1>1
<1>3. ASSUME NEW t \in S, \A u \in S : mu[u] < mu[t] => u \in T
      PROVE  t \in T
  <2> DEFINE b == t.block
             L == f[t]
  <2>1. b \in B /\ b.height \in Nat /\ b.height \in 0 .. b.height
    BY <1>1
  <2>2. Walk!Ancestor(tree, b, b.height) = b
    <3> DEFINE h == b.height
    <3>1. h \in 0 .. b.height /\ h = b.height
      BY <2>1
    <3> HIDE DEF h, b
    <3>2. Walk!Ancestor(tree, b, h) = b
      BY <2>1, <3>1, Ancestors
    <3>3. QED
      BY <3>2 DEF h
  <2>3. CASE b.height = 0
    <3>1. L = << b >>
      BY <2>3 DEF Collects
    <3> HIDE DEF L, b
    <3>2. Len(L) = 1 /\ L[1] = b
      BY <3>1
    <3>3. DescendsFrom(tree, b, L)
      BY <2>1, <2>2, <2>3, <3>2 DEF DescendsFrom
    <3>4. QED
      BY <3>3 DEF L, b
  <2>4. CASE b.height # 0
    <3> DEFINE u == AfterBlock(tree, t)
               c == u.block
               h == Lower(t)
               M == f[u]
    <3>1. /\ u \in S /\ h \in 0 .. b.height /\ h < b.height
          /\ c = Walk!Ancestor(tree, b, h) /\ c.height = h
      BY <2>4, AfterBlockIsLower
    <3>2. L = << b >> \o M /\ M \in Seq(B)
      BY <2>4, <3>1 DEF Collects
    <3>3. DescendsFrom(tree, c, M)
      <4>1. mu[u] < mu[t]
        BY <1>2, <3>1
      <4>2. u \in T
        BY <1>3, <3>1, <4>1
      <4>3. QED
        BY <4>2
    <3> HIDE DEF u, c, h, M, L, b, B
    <3>4. /\ Len(L) = Len(M) + 1 /\ L[1] = b /\ Len(M) \in Nat
          /\ \A i \in 1 .. Len(M) : L[i + 1] = M[i]
      BY <2>1, <3>2, Collected, LenProperties
    <3>5. ASSUME NEW i \in 1 .. Len(L), i # 1
          PROVE  i - 1 \in 1 .. Len(M) /\ (i - 1) + 1 = i /\ L[i] = M[i - 1]
      BY <3>4, <3>5
    <3>6. ASSUME NEW i \in 1 .. Len(L)
          PROVE  /\ L[i].height \in 0 .. b.height
                 /\ L[i] = Walk!Ancestor(tree, b, L[i].height)
      <4>1. CASE i = 1
        BY <2>1, <2>2, <3>4, <4>1
      <4>2. CASE i # 1
        <5> DEFINE k == L[i].height
        <5>1. L[i] = M[i - 1] /\ i - 1 \in 1 .. Len(M)
          BY <3>5, <4>2
        <5>2. k \in 0 .. c.height /\ L[i] = Walk!Ancestor(tree, c, k)
          BY <3>3, <5>1 DEF DescendsFrom
        <5> HIDE DEF k
        <5>3. k \in 0 .. h
          BY <3>1, <5>2
        <5>4. Walk!Ancestor(tree, Walk!Ancestor(tree, b, h), k) = Walk!Ancestor(tree, b, k)
          BY <2>1, <3>1, <5>3, Ancestors DEF B
        <5>5. L[i] = Walk!Ancestor(tree, b, k) /\ k \in 0 .. b.height
          BY <2>1, <3>1, <5>2, <5>3, <5>4
        <5>6. QED
          BY <5>5 DEF k
      <4>3. QED
        BY <4>1, <4>2
    <3>7. L[Len(L)].height = 0
      <4>1. Len(L) \in 1 .. Len(L) /\ Len(L) # 1 /\ Len(L) - 1 = Len(M)
        BY <3>3, <3>4 DEF DescendsFrom
      <4>2. L[Len(L)] = M[Len(M)]
        BY <3>5, <4>1
      <4>3. QED
        BY <3>3, <4>2 DEF DescendsFrom
    <3>8. ASSUME NEW i \in 2 .. Len(L)
          PROVE  L[i].height < L[i - 1].height
      <4>1. i \in 1 .. Len(L) /\ i # 1 /\ L[i] = M[i - 1] /\ i - 1 \in 1 .. Len(M)
        BY <3>4, <3>5
      <4>2. CASE i = 2
        <5>1. i - 1 = 1 /\ L[i].height = c.height
          BY <3>3, <4>1, <4>2 DEF DescendsFrom
        <5>2. QED
          BY <3>1, <3>4, <5>1
      <4>3. CASE i # 2
        <5>1. i - 1 \in 2 .. Len(M) /\ i - 1 \in 1 .. Len(L) /\ i - 1 # 1
          BY <3>4, <4>1, <4>3
        <5>2. L[i - 1] = M[(i - 1) - 1]
          BY <3>5, <5>1
        <5>3. M[i - 1].height < M[(i - 1) - 1].height
          BY <3>3, <5>1 DEF DescendsFrom
        <5>4. QED
          BY <4>1, <5>2, <5>3
      <4>4. QED
        BY <4>2, <4>3
    <3>9. DescendsFrom(tree, b, L)
      BY <3>3, <3>4, <3>6, <3>7, <3>8 DEF DescendsFrom
    <3>10. QED
      BY <3>9 DEF L, b
  <2>5. QED
    BY <2>3, <2>4
<1> HIDE DEF T, mu
<1>4. S \subseteq T
  <2> HIDE DEF S
  <2>1. QED
    BY <1>2, <1>3, MeasureInduction
<1>5. QED
  BY <1>4 DEF T

\* A locator from the height `top' that has come to state s: each block is at
\* most as far from the one before it as that one is from the top.
Steady(top, s) ==
    LET depth == top - s.block.height
    IN  /\ s.block.height <= top
        /\ s.block.height # 0 => s.size - 1 <= depth /\ (s.step = 1 \/ s.step <= depth)

\* One of the blocks is between k and 2k below the top, or the genesis block.
Near(top, k, blocks) ==
    \E i \in 1 .. Len(blocks) : /\ blocks[i].height <= top - k
                                /\ blocks[i].height >= top - 2 * k \/ blocks[i].height = 0

LEMMA StaysSteady ==
    ASSUME NEW tree \in BlockTrees, NEW s \in LocatorStates(tree), s.block.height # 0,
           NEW top \in Nat, Steady(top, s)
    PROVE  /\ Steady(top, AfterBlock(tree, s))
           /\ LET h == Lower(s) IN h = 0 \/ top - h <= 2 * (top - s.block.height) + 1
<1> DEFINE t == AfterBlock(tree, s)
           b == s.block.height
           h == Lower(s)
<1>1. b \in Nat /\ s.step \in Nat /\ s.step >= 1 /\ s.size \in Nat
  BY DEF LocatorStates, Walk!Blocks
<1>2. /\ b # 0 /\ b <= top /\ s.size - 1 <= top - b
      /\ s.step = 1 \/ s.step <= top - b
  BY DEF Steady
<1>3. h = IF b > s.step THEN b - s.step ELSE 0
  BY DEF Lower
<1>4. /\ t.block.height = h /\ t.size = s.size + 1
      /\ t.step = IF s.size > 10 THEN 2 * s.step ELSE s.step
  BY AfterBlockIsLower
<1> HIDE DEF t, b, h
<1>5. h <= top
  BY <1>1, <1>2, <1>3
<1>6. ASSUME h # 0
      PROVE  t.size - 1 <= top - h /\ (t.step = 1 \/ t.step <= top - h)
  <2>1. top - h = (top - b) + s.step
    BY <1>1, <1>2, <1>3, <1>6
  <2>2. s.size > 10 => s.step <= top - b
    BY <1>1, <1>2
  <2>3. QED
    BY <1>1, <1>2, <1>4, <2>1, <2>2
<1>7. h = 0 \/ top - h <= 2 * (top - b) + 1
  BY <1>1, <1>2, <1>3
<1>8. Steady(top, t)
  BY <1>4, <1>5, <1>6 DEF Steady
<1>9. QED
  BY <1>7, <1>8 DEF t, b, h

LEMMA LocatorIsDense ==
    ASSUME NEW tree \in BlockTrees, NEW f, Collects(tree, f), NEW top \in Nat,
           NEW s \in LocatorStates(tree), Steady(top, s)
    PROVE  \A k \in top - s.block.height .. top : Near(top, k, f[s])
<1> DEFINE S == LocatorStates(tree)
           Dense(t) == \A k \in top - t.block.height .. top : Near(top, k, f[t])
           T == {t \in S : Steady(top, t) => Dense(t)}
           mu == [t \in S |-> t.block.height]
<1>1. \A t \in S : t.block \in Walk!Blocks(tree) /\ t.block.height \in Nat
  BY DEF LocatorStates, Walk!Blocks
<1>2. mu \in [S -> Nat] /\ \A t \in S : mu[t] = t.block.height
  BY <1>1
<1>3. ASSUME NEW t \in S, \A u \in S : mu[u] < mu[t] => u \in T
      PROVE  t \in T
  <2>1. SUFFICES ASSUME Steady(top, t), NEW k \in top - t.block.height .. top
                 PROVE  Near(top, k, f[t])
    OBVIOUS
  <2> DEFINE b == t.block.height
             L == f[t]
  <2>2. b \in Nat /\ b <= top /\ k \in Int /\ top - b <= k /\ k <= top
    BY <1>1, <2>1 DEF Steady
  <2>3. Len(L) \in Nat /\ Len(L) >= 1 /\ L[1] = t.block
    <3>1. DescendsFrom(tree, t.block, L) /\ L \in Seq(Walk!Blocks(tree))
      BY LocatorDescends DEF Collects
    <3> HIDE DEF L
    <3>2. QED
      BY <3>1, LenProperties DEF DescendsFrom
  <2>4. CASE k = top - b \/ b = 0
    <3>1. L[1].height <= top - k /\ (L[1].height >= top - 2 * k \/ L[1].height = 0)
      <4> HIDE DEF L
      <4>1. L[1].height = b
        BY <2>3
      <4>2. b <= top - k /\ (b >= top - 2 * k \/ b = 0)
        BY <2>2, <2>4
      <4>3. QED
        BY <4>1, <4>2
    <3>2. 1 \in 1 .. Len(L)
      BY <2>3
    <3>3. QED
      BY <3>1, <3>2 DEF Near
  <2>5. CASE k # top - b /\ b # 0
    <3> DEFINE u == AfterBlock(tree, t)
               h == Lower(t)
               M == f[u]
    <3>1. u \in S /\ h \in Nat /\ h < b /\ u.block.height = h
      BY <2>2, <2>5, AfterBlockIsLower
    <3>2. Steady(top, u) /\ (h = 0 \/ top - h <= 2 * (top - b) + 1)
      BY <2>1, <2>5, StaysSteady
    <3>3. L = << t.block >> \o M /\ M \in Seq(Walk!Blocks(tree))
      BY <2>5, <3>1 DEF Collects
    <3>4. DescendsFrom(tree, u.block, M)
      BY <3>1, LocatorDescends
    <3>5. Dense(u)
      <4>1. mu[u] < mu[t]
        BY <1>2, <3>1
      <4>2. u \in T
        BY <1>3, <3>1, <4>1
      <4>3. QED
        BY <3>2, <4>2
    <3>6. k >= top - h => Near(top, k, M)
      <4>1. k >= top - h => k \in top - u.block.height .. top
        BY <2>2, <3>1
      <4>2. QED
        BY <3>5, <4>1
    <3> HIDE DEF u, h, M, L, Dense
    <3>7. /\ Len(L) = Len(M) + 1 /\ Len(M) \in Nat /\ Len(M) >= 1
          /\ \A i \in 1 .. Len(M) : L[i + 1] = M[i]
          /\ M[1].height = h
      <4>1. /\ Len(L) = Len(M) + 1 /\ Len(M) \in Nat
            /\ \A i \in 1 .. Len(M) : L[i + 1] = M[i]
        BY <1>1, <3>3, Collected, LenProperties
      <4>2. QED
        BY <3>1, <3>4, <4>1 DEF DescendsFrom
    <3>8. PICK j \in 1 .. Len(M) : /\ M[j].height <= top - k
                                   /\ M[j].height >= top - 2 * k \/ M[j].height = 0
      <4>1. CASE k >= top - h
        BY <3>6, <4>1 DEF Near
      <4>2. CASE ~ (k >= top - h)
        <5>1. h <= top - k /\ (h >= top - 2 * k \/ h = 0)
          BY <2>2, <2>5, <3>1, <3>2, <4>2
        <5>2. 1 \in 1 .. Len(M)
          BY <3>7
        <5>3. QED
          BY <3>7, <5>1, <5>2
      <4>3. QED
        BY <4>1, <4>2
    <3>9. j + 1 \in 1 .. Len(L) /\ L[j + 1] = M[j]
      BY <3>7
    <3>10. Near(top, k, L)
      BY <3>8, <3>9 DEF Near
    <3>11. QED
      BY <3>10 DEF L
  <2>6. QED
    BY <2>4, <2>5
<1> HIDE DEF T, mu
<1>4. S \subseteq T
  <2> HIDE DEF S
  <2>1. QED
    BY <1>2, <1>3, MeasureInduction
<1>5. QED
  BY <1>4 DEF T

\* A locator holds ancestors of its block, from the block down to the genesis
\* block, on the best chain and off it; a node that shares all of them but the k
\* newest finds one at most 2k blocks below the block, or the genesis block
\* (BlockChainImpl::getLocator).
THEOREM LocatorMeetsAnyChain ==
    ASSUME NEW tree \in BlockTrees, NEW block \in Walk!Blocks(tree)
    PROVE  Walk!IsLocator(tree, block, Walk!getLocator(tree, block))
<1>1. PICK f : Collects(tree, f) /\ Walk!getLocator(tree, block) = f[FirstState(block)]
  BY LocatorIsCollected
<1> DEFINE s == FirstState(block)
           L == f[s]
<1>2. block.height \in Nat
  BY DEF Walk!Blocks
<1>3. /\ s \in LocatorStates(tree) /\ s.block = block /\ Steady(block.height, s)
  BY <1>2 DEF FirstState, LocatorStates, Steady
<1>4. L \in Seq(Walk!Blocks(tree))
  BY <1>1, <1>3 DEF Collects
<1>5. DescendsFrom(tree, block, L)
  BY <1>1, <1>3, LocatorDescends
<1>6. \A k \in block.height - block.height .. block.height : Near(block.height, k, L)
  <2> HIDE DEF s
  <2>1. \A k \in block.height - s.block.height .. block.height : Near(block.height, k, f[s])
    BY <1>1, <1>2, <1>3, LocatorIsDense
  <2>2. QED
    BY <1>3, <2>1
<1> HIDE DEF L
<1>7. DOMAIN L = 1 .. Len(L)
  BY <1>4, LenProperties
<1>8. \A k \in 0 .. block.height : Near(block.height, k, L)
  BY <1>2, <1>6
<1>9. Walk!IsLocator(tree, block, L)
  BY <1>5, <1>7, <1>8 DEF DescendsFrom, Near, Walk!IsLocator
<1>10. QED
  BY <1>1, <1>9 DEF L, s

-----------------------------------------------------------------------------
(* Parts of streams. *)

LEMMA Joined ==
    ASSUME NEW x \in Seq(Byte), NEW y \in Seq(Byte), NEW z \in Seq(Byte)
    PROVE  /\ x \o y \in Seq(Byte) /\ y \o z \in Seq(Byte)
           /\ (x \o y) \o z = x \o (y \o z)
<1>1. x \o y \in Seq(Byte) /\ y \o z \in Seq(Byte)
  BY ConcatProperties
<1>2. (x \o y) \o z = x \o (y \o z)
  BY ConcatAssociative
<1>3. QED
  BY <1>1, <1>2

LEMMA Parts ==
    ASSUME NEW S, NEW a \in Seq(S), NEW b \in Seq(S)
    PROVE  /\ a \o b \in Seq(S) /\ Len(a \o b) = Len(a) + Len(b)
           /\ SubSeq(a \o b, 1, Len(a)) = a
           /\ Var!Drop(a \o b, Len(a)) = b
<1> DEFINE s == a \o b
<1>1. /\ s \in Seq(S) /\ Len(s) = Len(a) + Len(b) /\ Len(a) \in Nat /\ Len(b) \in Nat
      /\ \A i \in 1 .. Len(a) + Len(b) : s[i] = IF i <= Len(a) THEN a[i] ELSE b[i - Len(a)]
  BY ConcatProperties, LenProperties
<1>2. \A i \in 1 .. Len(s) : s[i] \in S
  BY <1>1, ElementOfSeq
<1> HIDE DEF s
<1>3. SubSeq(s, 1, Len(a)) = a
  <2> DEFINE t == SubSeq(s, 1, Len(a))
  <2>1. /\ t \in Seq(S) /\ Len(t) = Len(a)
        /\ \A i \in 1 .. Len(a) : t[i] = s[i]
    <3>1. \A i \in 1 .. Len(a) : s[i] \in S
      BY <1>1, <1>2
    <3>2. /\ t \in Seq(S) /\ Len(t) = IF 1 <= Len(a) THEN Len(a) - 1 + 1 ELSE 0
          /\ \A i \in 1 .. Len(a) - 1 + 1 : t[i] = s[1 + i - 1]
      BY <1>1, <3>1, SubSeqProperties
    <3> HIDE DEF t
    <3>3. QED
      BY <1>1, <3>2
  <2> HIDE DEF t
  <2>2. \A i \in 1 .. Len(t) : t[i] = a[i]
    BY <1>1, <2>1
  <2>3. t = a
    BY <2>1, <2>2, SeqEqual
  <2>4. QED
    BY <2>3 DEF t
<1>4. Var!Drop(s, Len(a)) = b
  <2> DEFINE m == Len(a) + 1
             n == Len(s)
             t == SubSeq(s, m, n)
  <2>1. m \in Int /\ n \in Int /\ \A i \in m .. n : s[i] \in S
    BY <1>1, <1>2
  <2>2. /\ t \in Seq(S) /\ Len(t) = IF m <= n THEN n - m + 1 ELSE 0
        /\ \A i \in 1 .. n - m + 1 : t[i] = s[m + i - 1]
    <3> HIDE DEF m, n
    <3>1. QED
      BY <2>1, SubSeqProperties
  <2>3. Var!Drop(s, Len(a)) = t
    BY DEF Var!Drop
  <2> HIDE DEF t
  <2>4. Len(t) = Len(b) /\ \A i \in 1 .. Len(t) : t[i] = b[i]
    <3>1. Len(t) = Len(b) /\ n - m + 1 = Len(b)
      BY <1>1, <2>2
    <3>2. ASSUME NEW i \in 1 .. Len(b)
          PROVE  t[i] = b[i]
      <4>1. t[i] = s[m + i - 1]
        BY <2>2, <3>1
      <4>2. /\ m + i - 1 = Len(a) + i /\ Len(a) + i \in 1 .. Len(a) + Len(b)
            /\ ~ (Len(a) + i <= Len(a)) /\ Len(a) + i - Len(a) = i
        BY <1>1
      <4> HIDE DEF m, n
      <4>3. s[Len(a) + i] = b[i]
        BY <1>1, <4>2
      <4>4. QED
        BY <4>1, <4>2, <4>3
    <3>3. QED
      BY <3>1, <3>2
  <2> HIDE DEF m, n
  <2>5. t = b
    BY <2>2, <2>4, SeqEqual
  <2>6. QED
    BY <2>3, <2>5
<1>5. QED
  BY <1>1, <1>3, <1>4 DEF s

LEMMA FirstOfStream ==
    ASSUME NEW S, NEW b \in S, NEW s \in Seq(S)
    PROVE  /\ << b >> \o s \in Seq(S) /\ << b >> \o s # << >>
           /\ (<< b >> \o s)[1] = b /\ Tail(<< b >> \o s) = s
           /\ Len(<< b >> \o s) = Len(s) + 1
<1> DEFINE t == << b >> \o s
<1>1. << b >> \in Seq(S) /\ Len(<< b >>) = 1 /\ << b >>[1] = b
  OBVIOUS
<1>2. /\ t \in Seq(S) /\ Len(t) = Len(s) + 1 /\ Len(s) \in Nat /\ t[1] = b
      /\ \A i \in 1 .. Len(s) : t[i + 1] = s[i]
  BY <1>1, ConcatProperties, LenProperties
<1> HIDE DEF t
<1>3. t # << >>
  BY <1>2, EmptySeq
<1>4. /\ Tail(t) \in Seq(S) /\ Len(Tail(t)) = Len(s)
      /\ \A i \in 1 .. Len(Tail(t)) : Tail(t)[i] = s[i]
  <2>1. /\ Tail(t) \in Seq(S) /\ Len(Tail(t)) = Len(t) - 1
        /\ \A i \in 1 .. Len(Tail(t)) : Tail(t)[i] = t[i + 1]
    BY <1>2, <1>3, HeadTailProperties
  <2>2. QED
    BY <1>2, <2>1
<1>5. Tail(t) = s
  BY <1>4, SeqEqual
<1>6. QED
  BY <1>2, <1>3, <1>5 DEF t

-----------------------------------------------------------------------------
(* Numbers in a fixed number of bytes. *)

\* q holds the quotients of a number by the powers of 256.
Quotients(q, n, size) == /\ q \in [0 .. size -> Nat]
                         /\ q[0] = n
                         /\ \A k \in 1 .. size : q[k] = q[k - 1] \div 256

\* The bytes of a number are the remainders of these quotients.
Digital(q, n, size) ==
    Quotients(q, n, size) /\ Var!Fixed(n, size) = [i \in 1 .. size |-> q[i - 1] % 256]

LEMMA FixedIsDigits ==
    ASSUME NEW n \in Nat, NEW size \in Nat
    PROVE  \E q : Digital(q, n, size)
<1> DEFINE S == 0 .. size
           step == [p \in (1 .. size) \X Nat |-> p[2] \div 256]
           E(k, g) == IF k = 0 THEN n ELSE g[k - 1] \div 256
           quotient == CHOOSE g : g = [k \in S |-> E(k, g)]
<1>1. step \in [(1 .. size) \X Nat -> Nat] /\ \A k \in 1 .. size, x \in Nat : step[<< k, x >>] = x \div 256
  BY Division
<1> HIDE DEF step
<1>2. HasRun(size, Nat, n, step)
  <2> DEFINE X == Nat
  <2>1. n \in X /\ step \in [(1 .. size) \X X -> X]
    BY <1>1
  <2> HIDE DEF X
  <2>2. HasRun(size, X, n, step)
    BY <2>1, RunExists
  <2>3. QED
    BY <2>2 DEF X
<1>3. PICK f : RunsThrough(f, size, Nat, n, step)
  BY <1>2 DEF HasRun
<1>4. Quotients(f, n, size)
  <2>1. \A k \in 1 .. size : k - 1 \in 0 .. size
    OBVIOUS
  <2>2. \A k \in 1 .. size : f[k] = step[<< k, f[k - 1] >>] /\ f[k - 1] \in Nat
    BY <1>3, <2>1 DEF RunsThrough
  <2>3. \A k \in 1 .. size : f[k] = f[k - 1] \div 256
    <3> TAKE k \in 1 .. size
    <3> DEFINE x == f[k - 1]
    <3>1. f[k] = step[<< k, x >>] /\ x \in Nat
      BY <2>2
    <3> HIDE DEF x
    <3>2. step[<< k, x >>] = x \div 256
      BY <1>1, <3>1
    <3>3. QED
      BY <3>1, <3>2 DEF x
  <2>4. QED
    BY <1>3, <2>3 DEF RunsThrough, Quotients
<1>5. f = [k \in S |-> E(k, f)]
  <2>1. \A k \in S : k = 0 \/ k \in 1 .. size
    OBVIOUS
  <2>2. \A k \in 1 .. size : k # 0
    OBVIOUS
  <2>3. \A k \in S : f[k] = E(k, f)
    BY <1>4, <2>1, <2>2 DEF Quotients
  <2> HIDE DEF E
  <2>4. QED
    BY <1>4, <2>3 DEF Quotients
<1>6. quotient = [k \in S |-> E(k, quotient)]
  <2> HIDE DEF E
  <2>1. QED
    BY <1>5, ZenonT(30)
<1>7. Var!Fixed(n, size) = [i \in 1 .. size |-> quotient[i - 1] % 256]
  BY DEF Var!Fixed
<1> HIDE DEF quotient
<1>8. quotient[0] = n /\ \A k \in 1 .. size : quotient[k] = quotient[k - 1] \div 256
  <2>1. 0 \in S /\ \A k \in 1 .. size : k \in S /\ k # 0
    OBVIOUS
  <2>2. QED
    BY <1>6, <2>1
<1> DEFINE T == {k \in Nat : k \in S => quotient[k] \in Nat}
<1>9. 0 \in T
  BY <1>8
<1>10. ASSUME NEW k \in Nat, k \in T
       PROVE  k + 1 \in T
  <2>1. SUFFICES ASSUME k + 1 \in S
                 PROVE  quotient[k + 1] \in Nat
    OBVIOUS
  <2>2. k \in S /\ k + 1 \in 1 .. size /\ (k + 1) - 1 = k
    BY <2>1
  <2>3. quotient[k + 1] = quotient[k] \div 256 /\ quotient[k] \in Nat
    BY <1>8, <1>10, <2>2
  <2>4. QED
    BY <2>3, Division
<1> HIDE DEF T
<1>11. Nat \subseteq T
  BY <1>9, <1>10, Induction
<1>12. \A k \in S : quotient[k] \in Nat
  BY <1>11 DEF T
<1>13. Quotients(quotient, n, size)
  BY <1>6, <1>8, <1>12 DEF Quotients
<1>14. QED
  BY <1>7, <1>13 DEF Digital

LEMMA SameValue ==
    ASSUME NEW s
    PROVE  Var!Value(s) = Value(s)
  BY DEF Var!Value, Value

\* A number that the bytes can hold is read back.
LEMMA FixedReadsBack ==
    ASSUME NEW n \in Nat, NEW size \in Nat, NEW q, Digital(q, n, size), q[size] = 0
    PROVE  /\ Var!Fixed(n, size) \in Seq(Byte)
           /\ Len(Var!Fixed(n, size)) = size
           /\ Var!Value(Var!Fixed(n, size)) = n
<1> DEFINE s == Var!Fixed(n, size)
<1>1. /\ \A k \in 0 .. size : q[k] \in Nat
      /\ q[0] = n /\ \A k \in 1 .. size : q[k] = q[k - 1] \div 256
  BY DEF Digital, Quotients
<1>2. \A i \in 1 .. size : i - 1 \in 0 .. size /\ q[i - 1] % 256 \in Byte
  BY <1>1, Division
<1>3. s = [i \in 1 .. size |-> q[i - 1] % 256]
  BY DEF Digital
<1> HIDE DEF s
<1>4. /\ s \in Seq(Byte) /\ Len(s) = size
      /\ \A i \in 1 .. size : s[i] = q[i - 1] % 256
  BY <1>2, <1>3
<1> DEFINE v == [k \in 0 .. size |-> q[size - k]]
<1>5. \A k \in 0 .. size : size - k \in 0 .. size /\ v[k] = q[size - k]
  OBVIOUS
<1>6. v \in [0 .. Len(s) -> Nat] /\ v[0] = 0
  BY <1>1, <1>4, <1>5
<1>7. ASSUME NEW k \in 1 .. Len(s)
      PROVE  v[k] = s[Len(s) + 1 - k] + 256 * v[k - 1]
  <2> DEFINE j == size - k
  <2>1. /\ k \in 0 .. size /\ k - 1 \in 0 .. size /\ j \in 0 .. size /\ j + 1 \in 1 .. size
        /\ size - (k - 1) = j + 1 /\ (j + 1) - 1 = j /\ Len(s) + 1 - k = j + 1
    BY <1>4
  <2>2. v[k] = q[j] /\ v[k - 1] = q[j + 1]
    BY <1>5, <2>1
  <2> HIDE DEF j
  <2>3. q[j + 1] = q[j] \div 256 /\ s[j + 1] = q[j] % 256 /\ q[j] \in Nat
    BY <1>1, <1>4, <2>1
  <2> DEFINE x == q[j]
  <2>4. x = 256 * (x \div 256) + (x % 256) /\ x \div 256 \in Nat /\ x % 256 \in Nat
    BY <2>3, Division, ByteValues
  <2> HIDE DEF x
  <2>5. x = (x % 256) + 256 * (x \div 256)
    BY <2>4
  <2>6. QED
    BY <2>1, <2>2, <2>3, <2>5 DEF x
<1> HIDE DEF v
<1>8. Sums(v, s)
  BY <1>6, <1>7 DEF Sums
<1>9. Value(s) = v[size]
  BY <1>4, <1>8, SumIsValue
<1>10. v[size] = n
  <2>1. size \in 0 .. size /\ size - size = 0
    OBVIOUS
  <2>2. QED
    BY <1>1, <1>5, <2>1
<1>11. QED
  BY <1>4, <1>9, <1>10, SameValue DEF s

LEMMA TwoSteps ==
    ASSUME NEW m \in Nat, NEW a, a = m \div 256, NEW b, b = a \div 256
    PROVE  b = m \div 65536 /\ b \in Nat /\ (m <= 65535 => b = 0)
<1>1. \A k \in Nat : k \div 65536 = (k \div 256) \div 256
  OBVIOUS
<1>2. \A k \in Nat : k \div 65536 \in Nat
  OBVIOUS
<1>3. \A k \in Nat : k <= 65535 => k \div 65536 = 0
  OBVIOUS
<1>4. b = m \div 65536
  BY <1>1
<1>5. QED
  BY <1>2, <1>3, <1>4

EveryOther(q, size) ==
    \A k \in Nat : k + 2 <= size =>
        q[k + 2] = q[k] \div 65536 /\ q[k + 2] \in Nat /\ (q[k] <= 65535 => q[k + 2] = 0)

\* Two quotients by 256 are one by 65536.
LEMMA TwoQuotients ==
    ASSUME NEW n, NEW size \in Nat, NEW q, Quotients(q, n, size)
    PROVE  EveryOther(q, size)
<1> SUFFICES ASSUME NEW k \in Nat, k + 2 <= size
             PROVE  q[k + 2] = q[k] \div 65536 /\ q[k + 2] \in Nat /\ (q[k] <= 65535 => q[k + 2] = 0)
  BY DEF EveryOther
<1>1. k \in 0 .. size /\ k + 1 \in 1 .. size /\ k + 2 \in 1 .. size
      /\ (k + 1) - 1 = k /\ (k + 2) - 1 = k + 1
  OBVIOUS
<1>2. q[k] \in Nat /\ q[k + 1] = q[k] \div 256 /\ q[k + 2] = q[k + 1] \div 256
  BY <1>1 DEF Quotients
<1> DEFINE m == q[k]
           a == q[k + 1]
           b == q[k + 2]
<1>3. m \in Nat /\ a = m \div 256 /\ b = a \div 256
  BY <1>2
<1> HIDE DEF m, a, b
<1>4. b = m \div 65536 /\ b \in Nat /\ (m <= 65535 => b = 0)
  BY <1>3, TwoSteps
<1>5. QED
  BY <1>4 DEF m, a, b

LEMMA TwoHold ==
    ASSUME NEW n \in Nat, n <= 65535, NEW q, Quotients(q, n, 2)
    PROVE  q[2] = 0
<1>1. q[0] = n
  BY DEF Quotients
<1>2. EveryOther(q, 2)
  BY TwoQuotients
<1>3. q[0] <= 65535 => q[2] = 0
  BY <1>2 DEF EveryOther
<1>4. QED
  BY <1>1, <1>3

LEMMA FourHold ==
    ASSUME NEW n \in Nat, n \div 65536 <= 65535, NEW q, Quotients(q, n, 4)
    PROVE  q[4] = 0
<1>1. q[0] = n
  BY DEF Quotients
<1>2. EveryOther(q, 4)
  BY TwoQuotients
<1> DEFINE D(m) == m \div 65536
<1>3. q[2] = D(q[0]) /\ (q[2] <= 65535 => q[4] = 0)
  BY <1>2 DEF EveryOther
<1>4. D(n) <= 65535
  OBVIOUS
<1> HIDE DEF D
<1>5. QED
  BY <1>1, <1>3, <1>4

LEMMA EightHold ==
    ASSUME NEW n \in Nat, ((n \div 65536) \div 65536) \div 65536 <= 65535, NEW q, Quotients(q, n, 8)
    PROVE  q[8] = 0
<1>1. q[0] = n
  BY DEF Quotients
<1>2. EveryOther(q, 8)
  BY TwoQuotients
<1> DEFINE D(m) == m \div 65536
<1>3. /\ q[2] = D(q[0]) /\ q[4] = D(q[2]) /\ q[6] = D(q[4])
      /\ q[6] <= 65535 => q[8] = 0
  BY <1>2 DEF EveryOther
<1>4. D(D(D(n))) <= 65535
  OBVIOUS
<1> HIDE DEF D
<1>5. q[6] <= 65535
  BY <1>1, <1>3, <1>4
<1>6. QED
  BY <1>3, <1>5

\* A number that these many bytes hold.
Fits(n, size) == \/ size = 2 /\ n <= 65535
                 \/ size = 4 /\ n \div 65536 <= 65535
                 \/ size = 8 /\ Bits64(n)

\* What is read from a stream that begins with a number's bytes.
LEMMA FrontIsRead ==
    ASSUME NEW n, NEW size \in Nat, NEW a \in Seq(Byte), Len(a) = size, Var!Value(a) = n,
           NEW rest \in Seq(Byte)
    PROVE  Var!ReadFixed(a \o rest, size) = Var!Good(n, rest)
<1> DEFINE t == a \o rest
           front == SubSeq(t, 1, size)
           back == Var!Drop(t, size)
<1>1. ~ (Len(t) < size)
  BY Parts, LenProperties
<1>2. front = a /\ back = rest
  BY Parts
<1> HIDE DEF t
<1>3. Var!ReadFixed(t, size) = Var!Good(Var!Value(front), back)
  BY <1>1 DEF Var!ReadFixed
<1> HIDE DEF front, back
<1>4. Var!Value(front) = n
  BY <1>2, Zenon
<1>5. Var!ReadFixed(t, size) = Var!Good(n, rest)
  BY <1>2, <1>3, <1>4, Zenon
<1>6. QED
  BY <1>5 DEF t

\* A number read back after its bytes.
LEMMA ReadFixedReadsBack ==
    ASSUME NEW n \in Nat, NEW size \in {2, 4, 8}, Fits(n, size),
           NEW rest \in Seq(Byte)
    PROVE  /\ Var!Fixed(n, size) \in Seq(Byte) /\ Len(Var!Fixed(n, size)) = size
           /\ Var!ReadFixed(Var!Fixed(n, size) \o rest, size) = Var!Good(n, rest)
<1>1. size \in Nat
  OBVIOUS
<1>2. PICK q : Digital(q, n, size)
  BY <1>1, FixedIsDigits
<1>3. q[size] = 0
  <2>1. CASE size = 2 /\ n <= 65535
    BY <1>2, <2>1, TwoHold DEF Digital
  <2>2. CASE size = 4 /\ n \div 65536 <= 65535
    BY <1>2, <2>2, FourHold DEF Digital
  <2>3. CASE size = 8 /\ Bits64(n)
    <3>1. ((n \div 65536) \div 65536) \div 65536 <= 65535
      BY <2>3 DEF Bits64
    <3>2. Quotients(q, n, 8)
      BY <1>2, <2>3 DEF Digital
    <3>3. q[8] = 0
      BY <3>1, <3>2, EightHold
    <3>4. QED
      BY <2>3, <3>3
  <2>4. QED
    BY <2>1, <2>2, <2>3 DEF Fits
<1> DEFINE a == Var!Fixed(n, size)
<1>4. a \in Seq(Byte) /\ Len(a) = size /\ Var!Value(a) = n
  BY <1>1, <1>2, <1>3, FixedReadsBack
<1> HIDE DEF a
<1>5. Var!ReadFixed(a \o rest, size) = Var!Good(n, rest)
  BY <1>1, <1>4, FrontIsRead
<1>6. QED
  BY <1>4, <1>5 DEF a

-----------------------------------------------------------------------------
(* Compact sizes and strings. *)

\* A size below the three tags is its own byte; a tag names the width of what
\* follows it.
LEMMA TaggedSize ==
    ASSUME NEW b \in Byte, NEW s \in Seq(Byte)
    PROVE  /\ b < 253 => Var!readCompactSize(<< b >> \o s) = Var!Good(b, s)
           /\ b = 253 => Var!readCompactSize(<< b >> \o s) = Var!ReadFixed(s, 2)
           /\ b = 254 => Var!readCompactSize(<< b >> \o s) = Var!ReadFixed(s, 4)
           /\ b = 255 => Var!readCompactSize(<< b >> \o s) = Var!ReadFixed(s, 8)
<1> DEFINE t == << b >> \o s
<1>1. t # << >> /\ t[1] = b /\ Tail(t) = s /\ b \in Nat
  BY FirstOfStream, ByteValues
<1> HIDE DEF t
<1>2. Var!readCompactSize(t) = CASE b = 253 -> Var!ReadFixed(s, 2)
                                 [] b = 254 -> Var!ReadFixed(s, 4)
                                 [] b = 255 -> Var!ReadFixed(s, 8)
                                 [] OTHER -> Var!Good(b, s)
  BY <1>1 DEF Var!readCompactSize
<1>3. b < 253 => b # 253 /\ b # 254 /\ b # 255
  BY <1>1
<1>4. QED
  BY <1>2, <1>3 DEF t

\* A compact size is read back whatever follows it, for every number of 64 bits
\* (VarEncoding::writeCompactSize, readCompactSize).
THEOREM SizeReadsBack ==
    ASSUME NEW n, Bits64(n), NEW rest \in Seq(Byte)
    PROVE  /\ Var!writeCompactSize(n) \in Seq(Byte)
           /\ Var!readCompactSize(Var!writeCompactSize(n) \o rest) = Var!Good(n, rest)
<1>1. n \in Nat
  BY DEF Bits64
<1>2. CASE n < 253
  <2>1. n \in Byte
    BY <1>1, <1>2 DEF Byte
  <2>2. Var!writeCompactSize(n) = << n >> /\ << n >> \in Seq(Byte)
    BY <1>2, <2>1 DEF Var!writeCompactSize
  <2>3. QED
    BY <1>2, <2>1, <2>2, TaggedSize
<1>3. ASSUME NEW tag \in Byte, NEW size \in {2, 4, 8}, Fits(n, size),
             \A s \in Seq(Byte) :
                Var!readCompactSize(<< tag >> \o s) = Var!ReadFixed(s, size)
      PROVE  /\ << tag >> \o Var!Fixed(n, size) \in Seq(Byte)
             /\ Var!readCompactSize((<< tag >> \o Var!Fixed(n, size)) \o rest) = Var!Good(n, rest)
  <2> DEFINE a == Var!Fixed(n, size)
             s == a \o rest
  <2>1. a \in Seq(Byte) /\ Var!ReadFixed(s, size) = Var!Good(n, rest)
    BY <1>1, <1>3, ReadFixedReadsBack
  <2> HIDE DEF a
  <2>2. << tag >> \in Seq(Byte)
    OBVIOUS
  <2>3. << tag >> \o a \in Seq(Byte) /\ s \in Seq(Byte)
    BY <2>1, <2>2, ConcatProperties
  <2>4. (<< tag >> \o a) \o rest = << tag >> \o s
    BY <2>1, <2>2, ConcatAssociative
  <2> HIDE DEF s
  <2>5. Var!readCompactSize(<< tag >> \o s) = Var!ReadFixed(s, size)
    BY <1>3, <2>3
  <2>6. QED
    BY <2>1, <2>3, <2>4, <2>5 DEF a
<1>4. 253 \in Byte /\ 254 \in Byte /\ 255 \in Byte
  BY DEF Byte
<1>5. CASE ~ (n < 253) /\ n <= 65535
  <2> DEFINE tag == 253
             size == 2
  <2>1. tag \in Byte /\ size \in {2, 4, 8} /\ Fits(n, size)
    BY <1>4, <1>5 DEF Fits
  <2>2. \A s \in Seq(Byte) : Var!readCompactSize(<< tag >> \o s) = Var!ReadFixed(s, size)
    BY <1>4, TaggedSize
  <2>3. Var!writeCompactSize(n) = << tag >> \o Var!Fixed(n, size)
    BY <1>1, <1>5 DEF Var!writeCompactSize
  <2> HIDE DEF tag, size
  <2>4. QED
    BY <1>3, <2>1, <2>2, <2>3
<1>6. CASE ~ (n <= 65535) /\ n \div 65536 <= 65535
  <2> DEFINE tag == 254
             size == 4
  <2>1. tag \in Byte /\ size \in {2, 4, 8} /\ Fits(n, size)
    BY <1>4, <1>6 DEF Fits
  <2>2. \A s \in Seq(Byte) : Var!readCompactSize(<< tag >> \o s) = Var!ReadFixed(s, size)
    BY <1>4, TaggedSize
  <2>3. Var!writeCompactSize(n) = << tag >> \o Var!Fixed(n, size)
    BY <1>1, <1>6 DEF Var!writeCompactSize
  <2> HIDE DEF tag, size
  <2>4. QED
    BY <1>3, <2>1, <2>2, <2>3
<1>7. CASE ~ (n <= 65535) /\ ~ (n \div 65536 <= 65535)
  <2> DEFINE tag == 255
             size == 8
  <2>1. tag \in Byte /\ size \in {2, 4, 8} /\ Fits(n, size)
    BY <1>4 DEF Fits
  <2>2. \A s \in Seq(Byte) : Var!readCompactSize(<< tag >> \o s) = Var!ReadFixed(s, size)
    BY <1>4, TaggedSize
  <2>3. Var!writeCompactSize(n) = << tag >> \o Var!Fixed(n, size)
    BY <1>1, <1>7 DEF Var!writeCompactSize
  <2> HIDE DEF tag, size
  <2>4. QED
    BY <1>3, <2>1, <2>2, <2>3
<1>8. QED
  BY <1>2, <1>5, <1>6, <1>7

LEMMA Shorter ==
    ASSUME NEW m, Bits64(m), NEW n \in Nat, n <= m
    PROVE  Bits64(n)
<1>1. \A a, b \in Nat : a <= b => a \div 65536 <= b \div 65536
  OBVIOUS
<1>2. \A a \in Nat : a \div 65536 \in Nat
  OBVIOUS
<1>3. m \in Nat /\ ((m \div 65536) \div 65536) \div 65536 <= 65535
  BY DEF Bits64
<1> DEFINE m1 == m \div 65536
           m2 == m1 \div 65536
           m3 == m2 \div 65536
           n1 == n \div 65536
           n2 == n1 \div 65536
           n3 == n2 \div 65536
<1>4. m1 \in Nat /\ n1 \in Nat /\ n1 <= m1
  BY <1>1, <1>2, <1>3
<1> HIDE DEF m1, n1
<1>5. m2 \in Nat /\ n2 \in Nat /\ n2 <= m2
  BY <1>1, <1>2, <1>4
<1> HIDE DEF m2, n2
<1>6. m3 \in Nat /\ n3 \in Nat /\ n3 <= m3
  BY <1>1, <1>2, <1>5
<1> HIDE DEF m3, n3
<1>7. m3 <= 65535
  BY <1>3 DEF m3, m2, m1
<1>8. n3 <= 65535
  BY <1>6, <1>7
<1>9. ((n \div 65536) \div 65536) \div 65536 <= 65535
  BY <1>8 DEF n3, n2, n1
<1>10. QED
  BY <1>9 DEF Bits64

LEMMA StringAfterSize ==
    ASSUME NEW u, NEW n \in Nat, NEW t, Var!readCompactSize(u) = Var!Good(n, t),
           Len(t) \in Nat, n <= Len(t), NEW max \in Nat, n <= max
    PROVE  Var!readString(u, max) = Var!Good(SubSeq(t, 1, n), Var!Drop(t, n))
<1>1. ~ (n > max \/ n > Len(t))
  OBVIOUS
<1> DEFINE r == Var!readCompactSize(u)
<1>2. r.good = TRUE /\ r.value = n /\ r.rest = t
  BY DEF Var!Good
<1>3. Var!readString(u, max) = IF r.good THEN IF r.value > max \/ r.value > Len(r.rest) THEN Var!Bad
        ELSE Var!Good(SubSeq(r.rest, 1, r.value), Var!Drop(r.rest, r.value)) ELSE Var!Bad
  BY DEF Var!readString, Var!Then
<1> HIDE DEF r
<1>4. QED
  BY <1>1, <1>2, <1>3

LEMMA LongStringIsBad ==
    ASSUME NEW u, NEW n, NEW t, Var!readCompactSize(u) = Var!Good(n, t), NEW max, n > max
    PROVE  Var!readString(u, max) = Var!Bad
<1> DEFINE r == Var!readCompactSize(u)
<1>1. r.good = TRUE /\ r.value = n /\ r.rest = t
  BY DEF Var!Good
<1>2. Var!readString(u, max) = IF r.good THEN IF r.value > max \/ r.value > Len(r.rest) THEN Var!Bad
        ELSE Var!Good(SubSeq(r.rest, 1, r.value), Var!Drop(r.rest, r.value)) ELSE Var!Bad
  BY DEF Var!readString, Var!Then
<1> HIDE DEF r
<1>3. QED
  BY <1>1, <1>2

\* A string is read back whatever follows it, exactly when its length is in the
\* reader's limit (VarEncoding::writeString, readString).
THEOREM StringReadsBack ==
    ASSUME NEW max \in Nat, NEW s \in Seq(Byte), Bits64(Len(s)), NEW rest \in Seq(Byte)
    PROVE  /\ Var!writeString(s) \in Seq(Byte)
           /\ Var!readString(Var!writeString(s) \o rest, max) =
                 IF Len(s) <= max THEN Var!Good(s, rest) ELSE Var!Bad
<1> DEFINE n == Len(s)
           w == Var!writeCompactSize(n)
           t == s \o rest
<1>1. n \in Nat
  BY LenProperties
<1>2. Bits64(n)
  OBVIOUS
<1> HIDE DEF n
<1>3. /\ t \in Seq(Byte) /\ Len(t) \in Nat /\ n <= Len(t)
      /\ SubSeq(t, 1, n) = s /\ Var!Drop(t, n) = rest
  <2>1. t \in Seq(Byte) /\ Len(t) = n + Len(rest) /\ Len(rest) \in Nat
    BY Parts, LenProperties DEF n
  <2>2. SubSeq(t, 1, n) = s /\ Var!Drop(t, n) = rest
    BY Parts DEF n
  <2> HIDE DEF t
  <2>3. QED
    BY <1>1, <2>1, <2>2
<1>4. Var!writeString(s) = w \o s /\ s \in Seq(Byte)
  BY DEF Var!writeString, n
<1> HIDE DEF t
<1>5. w \in Seq(Byte) /\ Var!readCompactSize(w \o t) = Var!Good(n, t)
  BY <1>2, <1>3, SizeReadsBack
<1> HIDE DEF w
<1>6. w \o s \in Seq(Byte) /\ (w \o s) \o rest = w \o t
  BY <1>4, <1>5, Joined DEF t
<1> DEFINE u == w \o t
<1>7. Var!readCompactSize(u) = Var!Good(n, t)
  BY <1>5
<1> HIDE DEF u
<1>8. n <= max => Var!readString(u, max) = Var!Good(s, rest)
  <2>1. n <= max => Var!readString(u, max) = Var!Good(SubSeq(t, 1, n), Var!Drop(t, n))
    BY <1>1, <1>3, <1>7, StringAfterSize
  <2>2. QED
    BY <1>3, <2>1
<1>9. ~ (n <= max) => Var!readString(u, max) = Var!Bad
  <2>1. ~ (n <= max) => n > max
    BY <1>1
  <2>2. QED
    BY <1>7, <2>1, LongStringIsBad
<1>10. Var!writeString(s) \o rest = u
  BY <1>4, <1>6 DEF u
<1>11. QED
  BY <1>4, <1>6, <1>8, <1>9, <1>10 DEF n


-----------------------------------------------------------------------------
(* Vectors. *)

LEMMA SizedAreBytes ==
    ASSUME NEW s \in Sized(Octets)
    PROVE  s \in Seq(Byte) /\ Bits64(Len(s))
  BY DEF Sized, Octets, Byte

LEMMA PartsOfItem ==
    ASSUME NEW item \in Items
    PROVE  /\ item.id \in Byte /\ item.script \in Seq(Byte) /\ Bits64(Len(item.script))
           /\ item = [id |-> item.id, script |-> item.script]
<1>1. item.id \in Octets /\ item.script \in Sized(Octets)
  BY DEF Items
<1>2. item = [id |-> item.id, script |-> item.script]
  BY DEF Items
<1>3. QED
  BY <1>1, <1>2, SizedAreBytes DEF Octets, Byte

\* The items that a reader takes.
IsShort(item) == Len(item.script) <= MaxScript

LEMMA ScriptAndRest ==
    ASSUME NEW u, u # << >>, NEW script, NEW more,
           Var!readString(Tail(u), MaxScript) = Var!Good(script, more)
    PROVE  Var!readItem(u) = Var!Good([id |-> u[1], script |-> script], more)
<1> DEFINE r == Var!readString(Tail(u), MaxScript)
<1>1. r.good = TRUE /\ r.value = script /\ r.rest = more
  BY DEF Var!Good
<1>2. Var!readItem(u) = IF r.good THEN Var!Good([id |-> u[1], script |-> r.value], r.rest)
                        ELSE Var!Bad
  BY DEF Var!readItem, Var!Then
<1> HIDE DEF r
<1>3. QED
  BY <1>1, <1>2

LEMMA BadScript ==
    ASSUME NEW u, u # << >>, Var!readString(Tail(u), MaxScript) = Var!Bad
    PROVE  Var!readItem(u) = Var!Bad
<1> DEFINE r == Var!readString(Tail(u), MaxScript)
<1>1. r.good = FALSE
  BY DEF Var!Bad
<1>2. Var!readItem(u) = IF r.good THEN Var!Good([id |-> u[1], script |-> r.value], r.rest)
                        ELSE Var!Bad
  BY DEF Var!readItem, Var!Then
<1> HIDE DEF r
<1>3. QED
  BY <1>1, <1>2

\* An item is read back whatever follows it, exactly when its script is in the
\* limit (operator<< and >> of TransactionInput and of TransactionOutput).
LEMMA ItemReadsBack ==
    ASSUME NEW item \in Items, NEW rest \in Seq(Byte)
    PROVE  /\ Var!writeItem(item) \in Seq(Byte)
           /\ Var!readItem(Var!writeItem(item) \o rest) =
                 IF IsShort(item) THEN Var!Good(item, rest) ELSE Var!Bad
<1> DEFINE b == item.id
           s == item.script
           w == Var!writeString(s)
           t == w \o rest
           u == << b >> \o t
<1>1. b \in Byte /\ s \in Seq(Byte) /\ Bits64(Len(s)) /\ item = [id |-> b, script |-> s]
  BY PartsOfItem
<1>2. Var!writeItem(item) = << b >> \o w /\ (IsShort(item) <=> Len(s) <= MaxScript)
  BY DEF Var!writeItem, IsShort
<1> HIDE DEF b, s
<1>3. /\ w \in Seq(Byte)
      /\ Var!readString(t, MaxScript) = IF Len(s) <= MaxScript THEN Var!Good(s, rest) ELSE Var!Bad
  <2>1. MaxScript \in Nat
    BY LimitsAssumption DEF Bits64
  <2>2. QED
    BY <1>1, <2>1, StringReadsBack
<1> HIDE DEF w
<1>4. << b >> \in Seq(Byte)
  BY <1>1
<1>5. << b >> \o w \in Seq(Byte) /\ (<< b >> \o w) \o rest = u /\ t \in Seq(Byte)
  BY <1>3, <1>4, Joined
<1> HIDE DEF t
<1>6. u # << >> /\ u[1] = b /\ Tail(u) = t
  BY <1>1, <1>5, FirstOfStream
<1> HIDE DEF u
<1>7. IsShort(item) => Var!readItem(u) = Var!Good([id |-> b, script |-> s], rest)
  BY <1>2, <1>3, <1>6, ScriptAndRest
<1>8. ~ IsShort(item) => Var!readItem(u) = Var!Bad
  BY <1>2, <1>3, <1>6, BadScript
<1>9. QED
  BY <1>1, <1>2, <1>5, <1>7, <1>8

\* The parts of a stream made of w and what follows it.
Rests(t, w, rest) == /\ t \in [0 .. Len(w) -> Seq(Byte)]
                     /\ t[Len(w)] = rest
                     /\ \A k \in 1 .. Len(w) : t[k - 1] = w[k] \o t[k]

HasRests(w, rest) == \E t : Rests(t, w, rest)

LEMMA RestsExist ==
    ASSUME NEW w \in Seq(Seq(Byte)), NEW rest \in Seq(Byte)
    PROVE  HasRests(w, rest)
<1> DEFINE n == Len(w)
           X == Seq(Byte)
           step == [p \in (1 .. n) \X X |-> w[n + 1 - p[1]] \o p[2]]
<1>1. n \in Nat /\ \A k \in 1 .. n : w[k] \in X
  BY LenProperties, ElementOfSeq
<1>2. \A x, y \in X : x \o y \in X
  BY ConcatProperties
<1>3. rest \in X
  OBVIOUS
<1> HIDE DEF X, n
<1>4. /\ step \in [(1 .. n) \X X -> X]
      /\ \A k \in 1 .. n, x \in X : step[<< k, x >>] = w[n + 1 - k] \o x
  <2>1. \A k \in 1 .. n : n + 1 - k \in 1 .. n
    BY <1>1
  <2>2. \A k \in 1 .. n, x \in X : w[n + 1 - k] \o x \in X
    BY <1>1, <1>2, <2>1
  <2>3. QED
    BY <2>2
<1> HIDE DEF step
<1>5. HasRun(n, X, rest, step)
  BY <1>1, <1>3, <1>4, RunExists
<1>6. PICK f : RunsThrough(f, n, X, rest, step)
  BY <1>5 DEF HasRun
<1> DEFINE t == [k \in 0 .. n |-> f[n - k]]
<1>7. \A k \in 0 .. n : n - k \in 0 .. n
  BY <1>1
<1>8. f \in [0 .. n -> X] /\ f[0] = rest /\ \A k \in 1 .. n : f[k] = step[<< k, f[k - 1] >>]
  BY <1>6 DEF RunsThrough
<1>9. t \in [0 .. n -> X] /\ \A k \in 0 .. n : t[k] = f[n - k]
  BY <1>7, <1>8
<1> HIDE DEF t
<1>10. t[n] = rest
  <2>1. n \in 0 .. n /\ n - n = 0
    BY <1>1
  <2>2. QED
    BY <1>8, <1>9, <2>1
<1>11. ASSUME NEW k \in 1 .. n
       PROVE  t[k - 1] = w[k] \o t[k]
  <2> DEFINE j == n + 1 - k
  <2>1. /\ j \in 1 .. n /\ j - 1 \in 0 .. n /\ k \in 0 .. n /\ k - 1 \in 0 .. n
        /\ n - (k - 1) = j /\ n - k = j - 1 /\ n + 1 - j = k
    BY <1>1
  <2>2. t[k - 1] = f[j] /\ t[k] = f[j - 1]
    BY <1>9, <2>1
  <2> HIDE DEF j
  <2>3. f[j] = step[<< j, f[j - 1] >>] /\ f[j - 1] \in X
    BY <1>8, <2>1
  <2>4. f[j] = w[k] \o f[j - 1]
    BY <1>4, <2>1, <2>3
  <2>5. QED
    BY <2>2, <2>4
<1>12. Rests(t, w, rest)
  BY <1>9, <1>10, <1>11 DEF Rests, n, X
<1>13. QED
  BY <1>12 DEF HasRests

\* f holds the parts a stream is put together from.
Flattens(f, w) == /\ f \in [0 .. Len(w) -> Seq(Byte)]
                  /\ f[0] = << >>
                  /\ \A k \in 1 .. Len(w) : f[k] = f[k - 1] \o w[k]
                  /\ Var!FlattenSeq(w) = f[Len(w)]

HasFlattening(w) == \E f : Flattens(f, w)

LEMMA FlatteningExists ==
    ASSUME NEW w \in Seq(Seq(Byte))
    PROVE  HasFlattening(w)
<1> DEFINE n == Len(w)
           X == Seq(Byte)
           step == [p \in (1 .. n) \X X |-> p[2] \o w[p[1]]]
           S == 1 .. n
           E(k, g) == IF k = 1 THEN w[k] ELSE g[k - 1] \o w[k]
           flatten == CHOOSE g : g = [k \in S |-> E(k, g)]
<1>1. n \in Nat /\ \A k \in 1 .. n : w[k] \in X
  BY LenProperties, ElementOfSeq
<1>2. \A x, y \in X : x \o y \in X
  BY ConcatProperties
<1>3. << >> \in X /\ \A x \in X : << >> \o x = x
  BY EmptySeq, ConcatEmptySeq
<1>4. Var!FlattenSeq(w) = IF n = 0 THEN w ELSE flatten[n]
  BY DEF Var!FlattenSeq
<1>5. n = 0 => w = << >>
  BY EmptySeq
<1> HIDE DEF X, n
<1>6. /\ step \in [(1 .. n) \X X -> X]
      /\ \A k \in 1 .. n, x \in X : step[<< k, x >>] = x \o w[k]
  <2>1. \A k \in 1 .. n, x \in X : x \o w[k] \in X
    BY <1>1, <1>2
  <2>2. QED
    BY <2>1
<1> HIDE DEF step
<1>7. HasRun(n, X, << >>, step)
  BY <1>1, <1>3, <1>6, RunExists
<1>8. PICK f : RunsThrough(f, n, X, << >>, step)
  BY <1>7 DEF HasRun
<1>9. f \in [0 .. n -> X] /\ f[0] = << >> /\ \A k \in 1 .. n : f[k] = f[k - 1] \o w[k]
  <2>1. f \in [0 .. n -> X] /\ f[0] = << >> /\ \A k \in 1 .. n : f[k] = step[<< k, f[k - 1] >>]
    BY <1>8 DEF RunsThrough
  <2>2. \A k \in 1 .. n : k - 1 \in 0 .. n /\ f[k - 1] \in X
    BY <1>1, <2>1
  <2>3. QED
    BY <1>6, <2>1, <2>2
<1> DEFINE h == [k \in S |-> f[k]]
<1>10. h = [k \in S |-> E(k, h)]
  <2>1. ASSUME NEW k \in S
        PROVE  f[k] = E(k, h)
    <3>1. CASE k = 1
      <4>1. f[1] = << >> \o w[1] /\ w[1] \in X
        <5>1. k - 1 = 0
          BY <3>1
        <5>2. f[k] = f[k - 1] \o w[k] /\ w[k] \in X
          BY <1>1, <1>9, <2>1
        <5>3. QED
          BY <1>9, <3>1, <5>1, <5>2
      <4>2. QED
        BY <1>3, <3>1, <4>1
    <3>2. CASE k # 1
      <4>1. k - 1 \in S /\ k \in 1 .. n
        BY <1>1, <3>2
      <4>2. h[k - 1] = f[k - 1]
        BY <4>1
      <4>3. f[k] = f[k - 1] \o w[k]
        BY <1>9, <4>1
      <4>4. QED
        BY <3>2, <4>2, <4>3
    <3>3. QED
      BY <3>1, <3>2
  <2> HIDE DEF E
  <2>2. QED
    BY <2>1
<1> HIDE DEF h
<1>11. flatten = [k \in S |-> E(k, flatten)]
  <2> HIDE DEF E
  <2>1. QED
    BY <1>10, ZenonT(30)
<1> HIDE DEF flatten
<1> DEFINE T == {k \in Nat : k + 1 \in S => flatten[k + 1] = f[k + 1]}
<1>12. 0 \in T
  <2>1. ASSUME NEW k \in S, k = 1
        PROVE  flatten[k] = f[k]
    <3>1. k - 1 = 0 /\ flatten[k] = w[k] /\ w[k] \in X
      BY <1>1, <1>11, <2>1
    <3>2. f[k] = f[k - 1] \o w[k]
      BY <1>9, <2>1
    <3>3. QED
      BY <1>3, <1>9, <3>1, <3>2
  <2>2. QED
    BY <2>1
<1>13. ASSUME NEW k \in Nat, k \in T
       PROVE  k + 1 \in T
  <2> DEFINE m == k + 1
  <2>1. m \in Nat /\ m # 0 /\ m + 1 # 1 /\ (m + 1) - 1 = m
    OBVIOUS
  <2>2. SUFFICES ASSUME m + 1 \in S
                 PROVE  flatten[m + 1] = f[m + 1]
    BY <2>1
  <2>3. m \in S /\ m + 1 \in 1 .. n
    BY <1>1, <2>2
  <2>4. flatten[m] = f[m]
    BY <1>13, <2>3
  <2> HIDE DEF m
  <2>5. flatten[m + 1] = flatten[m] \o w[m + 1]
    BY <1>11, <2>1, <2>2
  <2>6. f[m + 1] = f[m] \o w[m + 1]
    BY <1>9, <2>1, <2>3
  <2>7. QED
    BY <2>4, <2>5, <2>6
<1> HIDE DEF T
<1>14. Nat \subseteq T
  BY <1>12, <1>13, Induction
<1>15. Var!FlattenSeq(w) = f[n]
  <2>1. CASE n = 0
    BY <1>4, <1>5, <1>9, <2>1
  <2>2. CASE n # 0
    <3>1. n - 1 \in Nat /\ (n - 1) + 1 = n /\ n \in S
      BY <1>1, <2>2
    <3>2. flatten[n] = f[n]
      BY <1>14, <3>1 DEF T
    <3>3. QED
      BY <1>4, <2>2, <3>2
  <2>3. QED
    BY <2>1, <2>2
<1>16. Flattens(f, w)
  BY <1>9, <1>15 DEF Flattens, n, X
<1>17. QED
  BY <1>16 DEF HasFlattening

LEMMA FlattenedAndRest ==
    ASSUME NEW w \in Seq(Seq(Byte)), NEW rest \in Seq(Byte), NEW f, Flattens(f, w),
           NEW t, Rests(t, w, rest)
    PROVE  Var!FlattenSeq(w) \o rest = t[0]
<1> DEFINE n == Len(w)
           whole(k) == f[k] \o t[k]
           T == {k \in Nat : k \in 0 .. n => whole(k) = t[0]}
<1>1. n \in Nat /\ \A k \in 1 .. n : w[k] \in Seq(Byte)
  BY LenProperties, ElementOfSeq
<1>2. /\ t \in [0 .. n -> Seq(Byte)] /\ t[n] = rest
      /\ \A k \in 1 .. n : t[k - 1] = w[k] \o t[k]
  BY DEF Rests
<1>3. /\ f \in [0 .. n -> Seq(Byte)] /\ f[0] = << >> /\ Var!FlattenSeq(w) = f[n]
      /\ \A k \in 1 .. n : f[k] = f[k - 1] \o w[k]
  BY DEF Flattens
<1> HIDE DEF n
<1>4. 0 \in T
  <2>1. 0 \in 0 .. n
    BY <1>1
  <2>2. t[0] \in Seq(Byte)
    BY <1>2, <2>1
  <2>3. f[0] \o t[0] = t[0]
    BY <1>3, <2>2, ConcatEmptySeq
  <2>4. QED
    BY <2>3
<1>5. ASSUME NEW k \in Nat, k \in T
      PROVE  k + 1 \in T
  <2> DEFINE m == k + 1
  <2>1. SUFFICES ASSUME m \in 0 .. n
                 PROVE  whole(m) = t[0]
    <3> HIDE DEF whole
    <3>1. QED
      OBVIOUS
  <2>2. m \in 1 .. n /\ m - 1 = k /\ k \in 0 .. n
    BY <1>1, <2>1
  <2>3. f[k] \o t[k] = t[0]
    BY <1>5, <2>2
  <2> HIDE DEF m
  <2>4. f[m] = f[k] \o w[m] /\ t[k] = w[m] \o t[m]
    <3>1. f[m] = f[m - 1] \o w[m] /\ t[m - 1] = w[m] \o t[m]
      BY <1>2, <1>3, <2>2
    <3>2. QED
      BY <2>2, <3>1
  <2>5. f[k] \in Seq(Byte) /\ w[m] \in Seq(Byte) /\ t[m] \in Seq(Byte)
    BY <1>1, <1>2, <1>3, <2>1, <2>2
  <2>6. (f[k] \o w[m]) \o t[m] = f[k] \o (w[m] \o t[m])
    <3> DEFINE a == f[k]
               b == w[m]
               c == t[m]
    <3>1. a \in Seq(Byte) /\ b \in Seq(Byte) /\ c \in Seq(Byte)
      BY <2>5
    <3> HIDE DEF a, b, c
    <3>2. (a \o b) \o c = a \o (b \o c)
      BY <3>1, ConcatAssociative
    <3>3. QED
      BY <3>2 DEF a, b, c
  <2>7. QED
    BY <2>3, <2>4, <2>6
<1> HIDE DEF T
<1>6. Nat \subseteq T
  BY <1>4, <1>5, Induction
<1>7. n \in 0 .. n /\ n \in T
  BY <1>1, <1>6
<1>8. f[n] \o t[n] = t[0]
  BY <1>7 DEF T
<1>9. QED
  BY <1>2, <1>3, <1>8

\* The items before a position.
First(items, k) == [i \in 1 .. k |-> items[i]]

LEMMA FirstGrows ==
    ASSUME NEW S, NEW items \in Seq(S)
    PROVE  /\ First(items, 0) = << >>
           /\ First(items, Len(items)) = items
           /\ \A k \in 1 .. Len(items) :
                 Append(First(items, k - 1), items[k]) = First(items, k)
<1>1. Len(items) \in Nat /\ \A i \in 1 .. Len(items) : items[i] \in S
  BY LenProperties, ElementOfSeq
<1>2. ASSUME NEW k \in 0 .. Len(items)
      PROVE  /\ First(items, k) \in Seq(S) /\ Len(First(items, k)) = k
             /\ \A i \in 1 .. k : First(items, k)[i] = items[i]
  <2>1. k \in Nat /\ \A i \in 1 .. k : items[i] \in S
    BY <1>1
  <2>2. QED
    BY <2>1 DEF First
<1>3. First(items, 0) = << >>
  <2>1. 0 \in 0 .. Len(items)
    BY <1>1
  <2>2. QED
    BY <1>2, <2>1, EmptySeq
<1>4. First(items, Len(items)) = items
  <2> DEFINE n == Len(items)
             a == First(items, n)
  <2>1. n \in 0 .. Len(items)
    BY <1>1
  <2> HIDE DEF n
  <2>2. a \in Seq(S) /\ Len(a) = n /\ \A i \in 1 .. n : a[i] = items[i]
    BY <1>2, <2>1
  <2> HIDE DEF a
  <2>3. Len(a) = Len(items) /\ \A i \in 1 .. Len(a) : a[i] = items[i]
    BY <2>2 DEF n
  <2>4. a = items
    BY <2>2, <2>3, SeqEqual
  <2>5. QED
    BY <2>4 DEF a, n
<1>5. ASSUME NEW k \in 1 .. Len(items)
      PROVE  Append(First(items, k - 1), items[k]) = First(items, k)
  <2> DEFINE j == k - 1
             a == First(items, j)
             b == First(items, k)
             c == Append(a, items[k])
  <2>1. j \in 0 .. Len(items) /\ k \in 0 .. Len(items) /\ j + 1 = k /\ items[k] \in S
    BY <1>1
  <2> HIDE DEF j
  <2>2. a \in Seq(S) /\ Len(a) = j /\ \A i \in 1 .. j : a[i] = items[i]
    BY <1>2, <2>1
  <2>3. b \in Seq(S) /\ Len(b) = k /\ \A i \in 1 .. k : b[i] = items[i]
    BY <1>2, <2>1
  <2> HIDE DEF a, b
  <2>4. c \in Seq(S) /\ Len(c) = k /\ \A i \in 1 .. k : c[i] = IF i <= j THEN a[i] ELSE items[k]
    BY <2>1, <2>2
  <2> HIDE DEF c
  <2>5. \A i \in 1 .. k : IF i <= j THEN i \in 1 .. j ELSE i = k
    BY <1>1, <2>1
  <2>6. \A i \in 1 .. Len(c) : c[i] = b[i]
    BY <2>2, <2>3, <2>4, <2>5
  <2>7. c = b
    BY <2>3, <2>4, <2>6, SeqEqual
  <2>8. QED
    BY <2>7 DEF c, b, a, j
<1>6. QED
  BY <1>3, <1>4, <1>5

\* What the loop of a reader makes of what it has read.
Another(r) ==
    IF r.good
    THEN IF Var!readItem(r.rest).good
         THEN Var!Good(Append(r.value, Var!readItem(r.rest).value), Var!readItem(r.rest).rest)
         ELSE Var!Bad
    ELSE Var!Bad

LEMMA AnotherItem ==
    ASSUME NEW s, NEW item, NEW more, Var!readItem(s) = Var!Good(item, more), NEW before
    PROVE  Another(Var!Good(before, s)) = Var!Good(Append(before, item), more)
<1> DEFINE r == Var!Good(before, s)
           q == Var!readItem(s)
<1>1. r.good = TRUE /\ r.value = before /\ r.rest = s
  BY DEF Var!Good
<1>2. q.good = TRUE /\ q.value = item /\ q.rest = more
  BY DEF Var!Good
<1> HIDE DEF q
<1>3. Var!readItem(r.rest) = q
  BY <1>1 DEF q
<1> HIDE DEF r
<1>4. Another(r) = IF r.good THEN IF q.good THEN Var!Good(Append(r.value, q.value), q.rest)
                                            ELSE Var!Bad
                             ELSE Var!Bad
  BY <1>3 DEF Another
<1>5. Another(r) = Var!Good(Append(before, item), more)
  BY <1>1, <1>2, <1>4
<1>6. QED
  BY <1>5 DEF r

LEMMA NoItem ==
    ASSUME NEW s, Var!readItem(s) = Var!Bad, NEW before
    PROVE  Another(Var!Good(before, s)) = Var!Bad
<1> DEFINE r == Var!Good(before, s)
           q == Var!readItem(s)
<1>1. r.good = TRUE /\ r.rest = s
  BY DEF Var!Good
<1>2. q.good = FALSE
  BY DEF Var!Bad
<1> HIDE DEF q
<1>3. Var!readItem(r.rest) = q
  BY <1>1 DEF q
<1> HIDE DEF r
<1>4. Another(r) = Var!Bad
  BY <1>1, <1>2, <1>3 DEF Another
<1>5. QED
  BY <1>4 DEF r

\* The first k items are short.
AreShort(items, k) == \A i \in 1 .. k : IsShort(items[i])

LEMMA ShortOneByOne ==
    ASSUME NEW items
    PROVE  /\ AreShort(items, 0)
           /\ \A k \in Nat \ {0} : AreShort(items, k) <=> AreShort(items, k - 1) /\ IsShort(items[k])
<1>1. ASSUME NEW k \in Nat \ {0}
      PROVE  \A i \in 1 .. k : i \in 1 .. k - 1 \/ i = k
  OBVIOUS
<1>2. ASSUME NEW k \in Nat \ {0}
      PROVE  k \in 1 .. k /\ \A i \in 1 .. k - 1 : i \in 1 .. k
  OBVIOUS
<1>3. \A i : ~ (i \in 1 .. 0)
  OBVIOUS
<1>4. QED
  BY <1>1, <1>2, <1>3 DEF AreShort

\* What was written of each item.
WrittenItems(items) == [i \in DOMAIN items |-> Var!writeItem(items[i])]

LEMMA ItemsReadBack ==
    ASSUME NEW items \in Seq(Items), NEW rest \in Seq(Byte)
    PROVE  /\ WrittenItems(items) \in Seq(Seq(Byte)) /\ Len(WrittenItems(items)) = Len(items)
           /\ Var!FlattenSeq(WrittenItems(items)) \in Seq(Byte)
           /\ Var!ReadItems(Var!FlattenSeq(WrittenItems(items)) \o rest, Len(items))
                = IF AreShort(items, Len(items)) THEN Var!Good(items, rest) ELSE Var!Bad
<1> DEFINE n == Len(items)
           w == WrittenItems(items)
           X == Seq(Byte)
<1>1. n \in Nat /\ DOMAIN items = 1 .. n /\ \A k \in 1 .. n : items[k] \in Items
  BY LenProperties, ElementOfSeq
<1>2. \A k \in 1 .. n : Var!writeItem(items[k]) \in X
  BY <1>1, ItemReadsBack
<1>3. w \in Seq(X) /\ Len(w) = n /\ \A k \in 1 .. n : w[k] = Var!writeItem(items[k])
  <2> HIDE DEF X, n
  <2>1. w = [k \in 1 .. n |-> Var!writeItem(items[k])]
    BY <1>1 DEF WrittenItems
  <2> HIDE DEF w
  <2>2. QED
    BY <1>1, <1>2, <2>1
<1> HIDE DEF w
<1>4. PICK f : Flattens(f, w)
  BY <1>3, FlatteningExists DEF HasFlattening
<1>5. PICK t : Rests(t, w, rest)
  BY <1>3, RestsExist DEF HasRests
<1> DEFINE s == Var!FlattenSeq(w) \o rest
<1>6. s = t[0] /\ Var!FlattenSeq(w) \in X
  <2>1. s = t[0]
    BY <1>3, <1>4, <1>5, FlattenedAndRest
  <2>2. n \in 0 .. n /\ f[n] \in X /\ Var!FlattenSeq(w) = f[n]
    BY <1>1, <1>3, <1>4 DEF Flattens
  <2>3. QED
    BY <2>1, <2>2
<1>7. /\ t \in [0 .. n -> X] /\ t[n] = rest
      /\ \A k \in 1 .. n : t[k - 1] = w[k] \o t[k]
  BY <1>3, <1>5 DEF Rests
<1> HIDE DEF s
<1> DEFINE S == 0 .. n
           E(k, g) == IF k = 0 THEN Var!Good(<< >>, s) ELSE Another(g[k - 1])
           read == CHOOSE g : g = [k \in S |-> E(k, g)]
           h == [k \in S |-> IF AreShort(items, k) THEN Var!Good(First(items, k), t[k]) ELSE Var!Bad]
<1>8. Var!ReadItems(s, n) = read[n]
  BY DEF Var!ReadItems, Var!Then, Another
<1> HIDE DEF n, X
<1>9. /\ First(items, 0) = << >> /\ First(items, n) = items
      /\ \A k \in 1 .. n : Append(First(items, k - 1), items[k]) = First(items, k)
  BY FirstGrows DEF n
<1>10. h = [k \in S |-> E(k, h)]
  <2>1. ASSUME NEW k \in S
        PROVE  h[k] = E(k, h)
    <3>1. CASE k = 0
      BY <1>6, <1>9, <3>1, ShortOneByOne
    <3>2. CASE k # 0
      <4> DEFINE j == k - 1
      <4>1. k \in 1 .. n /\ j \in S
        BY <1>1, <3>2
      <4>2. items[k] \in Items /\ t[k] \in X
        BY <1>1, <1>7, <4>1
      <4>3. Var!readItem(Var!writeItem(items[k]) \o t[k]) =
              IF IsShort(items[k]) THEN Var!Good(items[k], t[k]) ELSE Var!Bad
        BY <4>2, ItemReadsBack DEF X
      <4>4. t[j] = Var!writeItem(items[k]) \o t[k]
        BY <1>3, <1>7, <4>1
      <4>5. Append(First(items, j), items[k]) = First(items, k)
        BY <1>9, <4>1
      <4>6. /\ h[j] = IF AreShort(items, j) THEN Var!Good(First(items, j), t[j]) ELSE Var!Bad
            /\ h[k] = IF AreShort(items, k) THEN Var!Good(First(items, k), t[k]) ELSE Var!Bad
        BY <4>1
      <4>7. E(k, h) = Another(h[j])
        BY <3>2
      <4>8. AreShort(items, k) <=> AreShort(items, j) /\ IsShort(items[k])
        BY <1>1, <4>1, ShortOneByOne
      <4> HIDE DEF j, E, h
      <4> DEFINE x == t[j]
                 item == items[k]
                 more == t[k]
                 before == First(items, j)
      <4>9. Var!readItem(x) = IF IsShort(item) THEN Var!Good(item, more) ELSE Var!Bad
        BY <4>3, <4>4
      <4> HIDE DEF x, item, more, before
      <4>10. IsShort(item) => Another(Var!Good(before, x)) = Var!Good(Append(before, item), more)
        BY <4>9, AnotherItem
      <4>11. ~ IsShort(item) => Another(Var!Good(before, x)) = Var!Bad
        BY <4>9, NoItem
      <4>12. Another(Var!Bad) = Var!Bad
        BY DEF Another, Var!Bad
      <4>13. CASE AreShort(items, j) /\ IsShort(item)
        <5>1. Another(h[j]) = Var!Good(Append(before, item), more)
          BY <4>6, <4>10, <4>13 DEF before, x
        <5>2. QED
          BY <4>5, <4>6, <4>7, <4>8, <4>13, <5>1 DEF item, more, before
      <4>14. CASE AreShort(items, j) /\ ~ IsShort(item)
        <5>1. Another(h[j]) = Var!Bad
          BY <4>6, <4>11, <4>14 DEF before, x
        <5>2. QED
          BY <4>6, <4>7, <4>8, <4>14, <5>1 DEF item
      <4>15. CASE ~ AreShort(items, j)
        <5>1. Another(h[j]) = Var!Bad
          BY <4>6, <4>12, <4>15
        <5>2. QED
          BY <4>6, <4>7, <4>8, <4>15, <5>1
      <4>16. QED
        BY <4>13, <4>14, <4>15
    <3>3. QED
      BY <3>1, <3>2
  <2> HIDE DEF E
  <2>2. QED
    BY <2>1
<1>11. \A k \in S : h[k] = IF AreShort(items, k) THEN Var!Good(First(items, k), t[k]) ELSE Var!Bad
  OBVIOUS
<1> HIDE DEF h
<1>12. read = [k \in S |-> E(k, read)]
  <2> HIDE DEF E
  <2>1. QED
    BY <1>10, ZenonT(30)
<1> HIDE DEF read
<1> DEFINE T == {k \in Nat : k \in S => read[k] = h[k]}
<1>13. 0 \in T
  <2>1. 0 \in S /\ read[0] = Var!Good(<< >>, s) /\ h[0] = Var!Good(<< >>, s)
    <3>1. 0 \in S
      BY <1>1
    <3>2. QED
      BY <1>10, <1>12, <3>1
  <2>2. QED
    BY <2>1
<1>14. ASSUME NEW k \in Nat, k \in T
       PROVE  k + 1 \in T
  <2> DEFINE m == k + 1
  <2>1. SUFFICES ASSUME m \in S
                 PROVE  read[m] = h[m]
    OBVIOUS
  <2>2. m # 0 /\ m - 1 = k /\ k \in S
    BY <1>1, <2>1
  <2>3. read[k] = h[k]
    BY <1>14, <2>2
  <2> HIDE DEF m
  <2>4. read[m] = E(m, read) /\ h[m] = E(m, h)
    <3> HIDE DEF E
    <3>1. QED
      BY <1>10, <1>12, <2>1
  <2>5. E(m, read) = Another(read[k]) /\ E(m, h) = Another(h[k])
    BY <2>2
  <2> HIDE DEF E
  <2>6. QED
    BY <2>3, <2>4, <2>5
<1> HIDE DEF T
<1>15. Nat \subseteq T
  BY <1>13, <1>14, Induction
<1>16. read[n] = IF AreShort(items, n) THEN Var!Good(items, rest) ELSE Var!Bad
  <2>1. n \in S /\ n \in T
    BY <1>1, <1>15
  <2>2. read[n] = h[n]
    BY <2>1 DEF T
  <2>3. QED
    BY <1>7, <1>9, <1>11, <2>1, <2>2
<1>17. QED
  BY <1>3, <1>6, <1>8, <1>16 DEF w, s, n, X

LEMMA ItemsAfterCount ==
    ASSUME NEW u, NEW n, NEW t, Var!readCompactSize(u) = Var!Good(n, t), ~ (n > MaxItems)
    PROVE  Var!readVector(u) = Var!ReadItems(t, n)
<1> DEFINE r == Var!readCompactSize(u)
<1>1. r.good = TRUE /\ r.value = n /\ r.rest = t
  BY DEF Var!Good
<1>2. Var!readVector(u) = IF r.good THEN IF r.value > MaxItems THEN Var!Bad
                                         ELSE Var!ReadItems(r.rest, r.value)
                          ELSE Var!Bad
  BY DEF Var!readVector, Var!Then
<1> HIDE DEF r
<1>3. QED
  BY <1>1, <1>2

LEMMA ManyItemsAreBad ==
    ASSUME NEW u, NEW n, NEW t, Var!readCompactSize(u) = Var!Good(n, t), n > MaxItems
    PROVE  Var!readVector(u) = Var!Bad
<1> DEFINE r == Var!readCompactSize(u)
<1>1. r.good = TRUE /\ r.value = n /\ r.rest = t
  BY DEF Var!Good
<1>2. Var!readVector(u) = IF r.good THEN IF r.value > MaxItems THEN Var!Bad
                                         ELSE Var!ReadItems(r.rest, r.value)
                          ELSE Var!Bad
  BY DEF Var!readVector, Var!Then
<1> HIDE DEF r
<1>3. QED
  BY <1>1, <1>2

LEMMA VectorReadsBack ==
    ASSUME NEW items \in Sized(Items), NEW rest \in Seq(Byte)
    PROVE  /\ Var!writeItems(items) \in Seq(Byte)
           /\ Var!readVector(Var!writeItems(items) \o rest) =
                 IF InLimits(items) THEN Var!Good(items, rest) ELSE Var!Bad
<1> DEFINE n == Len(items)
           w == WrittenItems(items)
           flat == Var!FlattenSeq(w)
           size == Var!writeCompactSize(n)
           t == flat \o rest
           u == size \o t
<1>1. items \in Seq(Items) /\ Bits64(n) /\ n \in Nat /\ MaxItems \in Nat
  BY LenProperties, LimitsAssumption DEF Sized, Bits64
<1>2. /\ Len(w) = n /\ flat \in Seq(Byte)
      /\ Var!ReadItems(t, n) = IF AreShort(items, n) THEN Var!Good(items, rest) ELSE Var!Bad
  BY <1>1, ItemsReadBack
<1>3. Var!writeItems(items) = Var!writeCompactSize(Len(w)) \o flat
  BY DEF Var!writeItems, Var!writeVector, WrittenItems
<1>4. InLimits(items) <=> n <= MaxItems /\ AreShort(items, n)
  <2>1. DOMAIN items = 1 .. n
    BY <1>1, LenProperties
  <2>2. QED
    BY <2>1 DEF InLimits, AreShort, IsShort
<1> HIDE DEF n, w
<1>5. Var!writeItems(items) = size \o flat
  BY <1>2, <1>3
<1> HIDE DEF flat
<1>6. t \in Seq(Byte)
  BY <1>2, ConcatProperties
<1>7. size \in Seq(Byte) /\ Var!readCompactSize(u) = Var!Good(n, t)
  <2> HIDE DEF t
  <2>1. QED
    BY <1>1, <1>6, SizeReadsBack
<1> HIDE DEF size
<1>8. size \o flat \in Seq(Byte) /\ (size \o flat) \o rest = u
  BY <1>2, <1>7, Joined DEF t, u
<1> HIDE DEF t, u
<1>9. n <= MaxItems => Var!readVector(u) = Var!ReadItems(t, n)
  <2>1. n <= MaxItems => ~ (n > MaxItems)
    BY <1>1
  <2>2. QED
    BY <1>7, <2>1, ItemsAfterCount
<1>10. ~ (n <= MaxItems) => Var!readVector(u) = Var!Bad
  <2>1. ~ (n <= MaxItems) => n > MaxItems
    BY <1>1
  <2>2. QED
    BY <1>7, <2>1, ManyItemsAreBad
<1>11. QED
  BY <1>2, <1>4, <1>5, <1>8, <1>9, <1>10

\* The vector of no items that a witness flag begins with.
LEMMA NothingIsRead ==
    ASSUME NEW s \in Seq(Byte)
    PROVE  Var!readVector(<< 0 >> \o s) = Var!Good(<< >>, s)
<1> DEFINE b == 0
           u == << b >> \o s
<1>1. b \in Byte /\ b < 253 /\ b \in Nat
  BY DEF Byte
<1>2. MaxItems \in Nat
  BY LimitsAssumption DEF Bits64
<1>3. ~ (b > MaxItems)
  BY <1>2
<1> HIDE DEF b
<1>4. Var!readCompactSize(u) = Var!Good(b, s)
  BY <1>1, TaggedSize
<1> HIDE DEF u
<1>5. Var!readVector(u) = Var!ReadItems(s, b)
  BY <1>3, <1>4, ItemsAfterCount
<1> DEFINE items == << >>
           w == WrittenItems(items)
<1>6. items \in Seq(Items) /\ Len(items) = 0 /\ DOMAIN items = {}
  BY EmptySeq
<1>7. w \in Seq(Seq(Byte)) /\ Len(w) = Len(items)
      /\ Var!ReadItems(Var!FlattenSeq(w) \o s, Len(items)) = Var!Good(items, s)
  <2> HIDE DEF items
  <2>1. AreShort(items, Len(items))
    BY <1>6, ShortOneByOne
  <2>2. QED
    BY <1>6, <2>1, ItemsReadBack
<1> HIDE DEF w
<1>8. w = << >>
  BY <1>6, <1>7, EmptySeq
<1>9. Var!FlattenSeq(w) = << >>
  BY <1>6, <1>7, <1>8 DEF Var!FlattenSeq
<1>10. << >> \o s = s
  BY ConcatEmptySeq
<1>11. Var!ReadItems(s, 0) = Var!Good(<< >>, s)
  BY <1>6, <1>7, <1>9, <1>10
<1>12. QED
  BY <1>5, <1>11 DEF b, u

-----------------------------------------------------------------------------
(* Transactions. *)

LEMMA InputsFirst ==
    ASSUME NEW u, NEW inputs, NEW t, NEW held, Var!readVector(u) = Var!Good(inputs, t)
    PROVE  /\ inputs # << >> => Var!readInputs(u, held) = Var!Good(inputs, t)
           /\ (Var!isWitnessAllowed(held) /\ inputs = << >> /\ t # << >> /\ t[1] # 0)
                => Var!readInputs(u, held) = Var!readVector(Tail(t))
<1> DEFINE r == Var!readVector(u)
<1>1. r.good = TRUE /\ r.value = inputs /\ r.rest = t
  BY DEF Var!Good
<1>2. Var!readInputs(u, held) =
        IF r.good
        THEN IF ~ Var!isWitnessAllowed(held) \/ r.value # << >> THEN Var!Good(r.value, r.rest)
             ELSE IF r.rest = << >> THEN Var!Bad
             ELSE IF r.rest[1] = 0 THEN Var!Good(<< >>, Tail(r.rest))
             ELSE Var!readVector(Tail(r.rest))
        ELSE Var!Bad
  BY DEF Var!readInputs, Var!Then
<1> HIDE DEF r
<1>3. QED
  BY <1>1, <1>2

LEMMA OneThenTwo ==
    ASSUME NEW x, NEW y
    PROVE  << x >> \o << y >> = << x, y >>
<1> DEFINE X == {x, y}
           a == << x >>
           b == << y >>
           ab == << x, y >>
           s == a \o b
<1>1. /\ a \in Seq(X) /\ Len(a) = 1 /\ a[1] = x
      /\ b \in Seq(X) /\ Len(b) = 1 /\ b[1] = y
      /\ ab \in Seq(X) /\ Len(ab) = 2 /\ ab[1] = x /\ ab[2] = y
  OBVIOUS
<1> HIDE DEF X, a, b, ab
<1>2. /\ s \in Seq(X) /\ Len(s) = Len(a) + Len(b)
      /\ \A i \in 1 .. Len(a) + Len(b) : s[i] = IF i <= Len(a) THEN a[i] ELSE b[i - Len(a)]
  BY <1>1, ConcatProperties
<1> HIDE DEF s
<1>3. Len(s) = Len(ab) /\ \A i \in 1 .. Len(s) : s[i] = ab[i]
  <2>1. s[1] = a[1] /\ s[2] = b[1] /\ Len(s) = 2
    BY <1>1, <1>2
  <2>2. \A i \in 1 .. 2 : i = 1 \/ i = 2
    OBVIOUS
  <2>3. QED
    BY <1>1, <2>1, <2>2
<1>4. s = ab
  BY <1>1, <1>2, <1>3, SeqEqual
<1>5. QED
  BY <1>4 DEF s, a, b, ab

LEMMA BadInputs ==
    ASSUME NEW u, NEW held, Var!readVector(u) = Var!Bad
    PROVE  Var!readInputs(u, held) = Var!Bad
<1> DEFINE r == Var!readVector(u)
<1>1. r.good = FALSE
  BY DEF Var!Bad
<1>2. Var!readInputs(u, held) =
        IF r.good
        THEN IF ~ Var!isWitnessAllowed(held) \/ r.value # << >> THEN Var!Good(r.value, r.rest)
             ELSE IF r.rest = << >> THEN Var!Bad
             ELSE IF r.rest[1] = 0 THEN Var!Good(<< >>, Tail(r.rest))
             ELSE Var!readVector(Tail(r.rest))
        ELSE Var!Bad
  BY DEF Var!readInputs, Var!Then
<1> HIDE DEF r
<1>3. QED
  BY <1>1, <1>2

\* What a reader makes of a vector of items.
Taken(items, rest) == IF InLimits(items) THEN Var!Good(items, rest) ELSE Var!Bad

LEMMA InputsReadBack ==
    ASSUME NEW inputs \in Sized(Items), inputs # << >>, NEW rest \in Seq(Byte), NEW held
    PROVE  /\ Var!readInputs(Var!writeItems(inputs) \o rest, held) = Taken(inputs, rest)
           /\ Var!isWitnessAllowed(held) =>
                Var!readInputs(<< 0, 1 >> \o (Var!writeItems(inputs) \o rest), held) = Taken(inputs, rest)
<1> DEFINE s == Var!writeItems(inputs) \o rest
           flag == 1
           t == << flag >> \o s
           u == << 0 >> \o t
<1>1. Var!writeItems(inputs) \in Seq(Byte) /\ Var!readVector(s) = Taken(inputs, rest)
  BY VectorReadsBack DEF Taken
<1>2. s \in Seq(Byte)
  BY <1>1, ConcatProperties
<1> HIDE DEF s
<1>3. Var!readInputs(s, held) = Taken(inputs, rest)
  <2>1. CASE InLimits(inputs)
    BY <1>1, <2>1, InputsFirst DEF Taken
  <2>2. CASE ~ InLimits(inputs)
    BY <1>1, <2>2, BadInputs DEF Taken
  <2>3. QED
    BY <2>1, <2>2
<1>4. << 0, 1 >> \o s = u
  <2> DEFINE a == << 0 >>
             b == << 1 >>
             X == Byte
  <2>1. 0 \in X /\ 1 \in X
    BY DEF Byte
  <2> HIDE DEF X
  <2>2. << 0 >> \in Seq(X) /\ << 1 >> \in Seq(X) /\ << 0, 1 >> \in Seq(X)
    BY <2>1
  <2>3. a \in Seq(X) /\ b \in Seq(X) /\ a \o b = << 0, 1 >>
    BY <2>2, OneThenTwo
  <2> HIDE DEF a, b
  <2>4. (a \o b) \o s = a \o (b \o s)
    <3>1. a \in Seq(Byte) /\ b \in Seq(Byte)
      BY <2>3 DEF X
    <3>2. QED
      BY <1>2, <3>1, ConcatAssociative
  <2>5. QED
    BY <2>3, <2>4 DEF a, b
<1>5. flag \in Byte /\ flag # 0
  BY DEF Byte
<1> HIDE DEF flag
<1>6. t \in Seq(Byte) /\ t # << >> /\ t[1] = flag /\ Tail(t) = s
  BY <1>2, <1>5, FirstOfStream
<1> HIDE DEF t
<1>7. Var!readVector(u) = Var!Good(<< >>, t)
  BY <1>6, NothingIsRead
<1> DEFINE none == << >>
<1>8. Var!readVector(u) = Var!Good(none, t) /\ none = << >> /\ t # << >> /\ t[1] # 0
  BY <1>5, <1>6, <1>7
<1> HIDE DEF none, u
<1>9. Var!isWitnessAllowed(held) => Var!readInputs(u, held) = Var!readVector(Tail(t))
  BY <1>8, InputsFirst
<1>10. QED
  BY <1>1, <1>3, <1>4, <1>6, <1>9 DEF s

LEMMA TransactionOfParts ==
    ASSUME NEW u, u # << >>, NEW held, NEW inputs, NEW a, Var!readInputs(Tail(u), held) = Var!Good(inputs, a),
           NEW outputs, NEW last, Var!readVector(a) = Var!Good(outputs, last), last # << >>
    PROVE  Var!readTransaction(u, held) =
             Var!Good([version |-> u[1], inputs |-> inputs, outputs |-> outputs,
                       witness |-> [i \in DOMAIN inputs |-> << >>], lockTime |-> last[1]],
                      Tail(last))
<1> DEFINE r == Var!readInputs(Tail(u), held)
           q == Var!readVector(a)
           made(i, o, l) ==
               Var!Good([version |-> u[1], inputs |-> i, outputs |-> o,
                         witness |-> [k \in DOMAIN i |-> << >>], lockTime |-> l[1]], Tail(l))
<1>1. r.good = TRUE /\ r.value = inputs /\ r.rest = a
  BY DEF Var!Good
<1>2. q.good = TRUE /\ q.value = outputs /\ q.rest = last
  BY DEF Var!Good
<1> DEFINE p == Var!readVector(r.rest)
<1>3. Var!readTransaction(u, held) =
        IF r.good THEN IF p.good THEN IF p.rest = << >> THEN Var!Bad
                                      ELSE made(r.value, p.value, p.rest)
                       ELSE Var!Bad
        ELSE Var!Bad
  BY DEF Var!readTransaction, Var!Then
<1>4. p = q
  <2> HIDE DEF r
  <2>1. QED
    BY <1>1
<1> HIDE DEF r, q, p, made
<1>5. Var!readTransaction(u, held) = made(inputs, outputs, last)
  BY <1>1, <1>2, <1>3, <1>4
<1>6. QED
  BY <1>5 DEF made

\* Joining two streams, for the places where only its laws matter.
Join(x, y) == x \o y

LEMMA JoinIsAssociative ==
    ASSUME NEW S, NEW x \in Seq(S), NEW y \in Seq(S), NEW z \in Seq(S)
    PROVE  Join(x, y) \in Seq(S) /\ Join(Join(x, y), z) = Join(x, Join(y, z))
  BY ConcatProperties, ConcatAssociative DEF Join

Reassociates(a, b, c, d, e, f, g) ==
    (((((a \o b) \o c) \o d) \o e) \o f) \o g = a \o (b \o (c \o (d \o (e \o (f \o g)))))

LEMMA SevenParts ==
    ASSUME NEW S, NEW a \in Seq(S), NEW b \in Seq(S), NEW c \in Seq(S), NEW d \in Seq(S),
           NEW e \in Seq(S), NEW f \in Seq(S), NEW g \in Seq(S)
    PROVE  Reassociates(a, b, c, d, e, f, g)
<1> DEFINE fg == Join(f, g)
           efg == Join(e, fg)
           defg == Join(d, efg)
           cdefg == Join(c, defg)
           ab == Join(a, b)
           abc == Join(ab, c)
           abcd == Join(abc, d)
           abcde == Join(abcd, e)
           T == Seq(S)
<1>1. ASSUME NEW x \in T, NEW y \in T, NEW z \in T
      PROVE  Join(x, y) \in T /\ Join(Join(x, y), z) = Join(x, Join(y, z))
  BY JoinIsAssociative
<1>2. a \in T /\ b \in T /\ c \in T /\ d \in T /\ e \in T /\ f \in T /\ g \in T
  OBVIOUS
<1> HIDE DEF T
<1>3. ab \in T /\ fg \in T
  BY <1>1, <1>2
<1> HIDE DEF ab, fg
<1>4. abc \in T /\ efg \in T
  BY <1>1, <1>2, <1>3
<1> HIDE DEF abc, efg
<1>5. abcd \in T /\ defg \in T
  BY <1>1, <1>2, <1>4
<1> HIDE DEF abcd, defg
<1>6. abcde \in T /\ cdefg \in T
  BY <1>1, <1>2, <1>5
<1> HIDE DEF abcde, cdefg
<1>7. Join(Join(abcde, f), g) = Join(abcde, fg)
  BY <1>1, <1>2, <1>6 DEF fg
<1>8. Join(abcde, fg) = Join(abcd, efg)
  BY <1>1, <1>2, <1>3, <1>5 DEF abcde, efg
<1>9. Join(abcd, efg) = Join(abc, defg)
  BY <1>1, <1>2, <1>4 DEF abcd, defg
<1>10. Join(abc, defg) = Join(ab, cdefg)
  BY <1>1, <1>2, <1>3, <1>5 DEF abc, cdefg
<1>11. Join(ab, cdefg) = Join(a, Join(b, cdefg))
  BY <1>1, <1>2, <1>6 DEF ab
<1>12. Join(Join(abcde, f), g) = Join(a, Join(b, cdefg))
  BY <1>7, <1>8, <1>9, <1>10, <1>11
<1>13. Join(Join(Join(Join(Join(Join(a, b), c), d), e), f), g)
         = Join(a, Join(b, Join(c, Join(d, Join(e, Join(f, g))))))
  BY <1>12 DEF abcde, abcd, abc, ab, cdefg, defg, efg, fg
<1>14. QED
  BY <1>13 DEF Join, Reassociates

LEMMA FlattenedIsBytes ==
    ASSUME NEW w \in Seq(Seq(Byte))
    PROVE  Var!FlattenSeq(w) \in Seq(Byte)
<1>1. PICK f : Flattens(f, w)
  BY FlatteningExists DEF HasFlattening
<1>2. Len(w) \in 0 .. Len(w)
  BY LenProperties
<1>3. QED
  BY <1>1, <1>2 DEF Flattens

LEMMA VectorIsBytes ==
    ASSUME NEW w \in Seq(Seq(Byte)), Bits64(Len(w))
    PROVE  Var!writeVector(w) \in Seq(Byte)
<1> DEFINE n == Len(w)
           size == Var!writeCompactSize(n)
           flat == Var!FlattenSeq(w)
<1>1. Bits64(n) /\ << >> \in Seq(Byte)
  BY EmptySeq
<1>2. flat \in Seq(Byte)
  BY FlattenedIsBytes
<1>3. Var!writeVector(w) = size \o flat
  BY DEF Var!writeVector
<1> HIDE DEF n, flat
<1>4. size \in Seq(Byte)
  BY <1>1, SizeReadsBack
<1> HIDE DEF size
<1>5. QED
  BY <1>2, <1>3, <1>4, ConcatProperties

\* The stack of an input's witness.
Stacks == Sized(Sized(Octets))

LEMMA WitnessIsBytes ==
    ASSUME NEW stack \in Stacks
    PROVE  Var!writeWitness(stack) \in Seq(Byte)
<1> DEFINE n == Len(stack)
           w == [i \in 1 .. n |-> Var!writeString(stack[i])]
           X == Seq(Byte)
           Y == Sized(Octets)
<1>1. /\ n \in Nat /\ Bits64(n) /\ DOMAIN stack = 1 .. n
      /\ \A i \in 1 .. n : stack[i] \in Y
  <2>1. stack \in Seq(Y) /\ Bits64(Len(stack))
    BY DEF Stacks, Sized
  <2> HIDE DEF Y
  <2>2. QED
    BY <2>1, LenProperties, ElementOfSeq
<1>2. \A s \in Y : Var!writeString(s) \in X
  <2>1. ASSUME NEW s \in Y
        PROVE  Var!writeString(s) \in X
    <3>1. s \in Seq(Byte) /\ Bits64(Len(s)) /\ << >> \in Seq(Byte) /\ 0 \in Nat
      BY SizedAreBytes, EmptySeq
    <3>2. QED
      BY <3>1, StringReadsBack
  <2>2. QED
    BY <2>1
<1>3. Var!writeWitness(stack) = Var!writeVector(w)
  BY <1>1 DEF Var!writeWitness
<1> HIDE DEF X, Y, n
<1>4. w \in Seq(X) /\ Len(w) = n
  BY <1>1, <1>2
<1> HIDE DEF w
<1>5. w \in Seq(Seq(Byte)) /\ Bits64(Len(w))
  BY <1>1, <1>4 DEF X
<1>6. QED
  BY <1>3, <1>5, VectorIsBytes

\* What is written of the witnesses of a transaction.
WrittenWitnesses(tx) ==
    Var!FlattenSeq([i \in DOMAIN tx.witness |-> Var!writeWitness(tx.witness[i])])

LEMMA PartsOfTransaction ==
    ASSUME NEW tx \in Transactions
    PROVE  /\ tx.version \in Byte /\ tx.lockTime \in Byte
           /\ tx.inputs \in Sized(Items) /\ tx.inputs # << >> /\ tx.outputs \in Sized(Items)
           /\ tx.witness \in Seq(Stacks) /\ Len(tx.witness) = Len(tx.inputs)
           /\ tx = [version |-> tx.version, inputs |-> tx.inputs, outputs |-> tx.outputs,
                    witness |-> tx.witness, lockTime |-> tx.lockTime]
<1> DEFINE X == Sized(Items)
           Y == Seq(Sized(Sized(Octets)))
<1>1. /\ tx \in [version : Octets, inputs : X \ {<< >>}, outputs : X, witness : Y, lockTime : Octets]
      /\ Len(tx.witness) = Len(tx.inputs)
  BY DEF Transactions
<1> HIDE DEF X, Y
<1>2. /\ tx.version \in Octets /\ tx.lockTime \in Octets
      /\ tx.inputs \in X /\ tx.inputs # << >> /\ tx.outputs \in X /\ tx.witness \in Y
      /\ tx = [version |-> tx.version, inputs |-> tx.inputs, outputs |-> tx.outputs,
               witness |-> tx.witness, lockTime |-> tx.lockTime]
  BY <1>1
<1>3. QED
  BY <1>1, <1>2 DEF X, Y, Stacks, Octets, Byte

LEMMA WitnessesAreBytes ==
    ASSUME NEW tx \in Transactions
    PROVE  WrittenWitnesses(tx) \in Seq(Byte)
<1> DEFINE witness == tx.witness
           n == Len(witness)
           w == [i \in 1 .. n |-> Var!writeWitness(witness[i])]
           X == Seq(Byte)
<1>1. witness \in Seq(Stacks)
  BY PartsOfTransaction
<1>2. n \in Nat /\ DOMAIN witness = 1 .. n /\ \A i \in 1 .. n : witness[i] \in Stacks
  <2> HIDE DEF witness
  <2>1. QED
    BY <1>1, LenProperties, ElementOfSeq
<1>3. WrittenWitnesses(tx) = Var!FlattenSeq(w)
  BY <1>2 DEF WrittenWitnesses
<1>4. \A stack \in Stacks : Var!writeWitness(stack) \in X
  BY WitnessIsBytes
<1> HIDE DEF X, n, witness
<1>5. w \in Seq(X)
  BY <1>2, <1>4
<1> HIDE DEF w
<1>6. QED
  BY <1>3, <1>5, FlattenedIsBytes DEF X

\* What a reader finds after the inputs and the outputs.
Left(tx, rest) ==
    (IF Var!needWitness(tx) THEN WrittenWitnesses(tx) ELSE << >>)
        \o (<< tx.lockTime >> \o rest)

\* What a reader makes of a transaction.
ReadOf(tx, left) ==
    Var!Good([version |-> tx.version, inputs |-> tx.inputs, outputs |-> tx.outputs,
              witness |-> [i \in DOMAIN tx.inputs |-> << >>], lockTime |-> left[1]],
             Tail(left))

LEMMA BadTransaction ==
    ASSUME NEW u, u # << >>, NEW held,
           \/ Var!readInputs(Tail(u), held) = Var!Bad
           \/ \E inputs, a : /\ Var!readInputs(Tail(u), held) = Var!Good(inputs, a)
                             /\ Var!readVector(a) = Var!Bad
    PROVE  Var!readTransaction(u, held) = Var!Bad
<1> DEFINE r == Var!readInputs(Tail(u), held)
           q(x) == Var!readVector(x)
           made(i, o, l) ==
             Var!Good([version |-> u[1], inputs |-> i, outputs |-> o,
                       witness |-> [k \in DOMAIN i |-> << >>], lockTime |-> l[1]], Tail(l))
<1>1. Var!readTransaction(u, held) =
        IF r.good
        THEN IF q(r.rest).good
             THEN IF q(r.rest).rest = << >> THEN Var!Bad
                  ELSE made(r.value, q(r.rest).value, q(r.rest).rest)
             ELSE Var!Bad
        ELSE Var!Bad
  BY DEF Var!readTransaction, Var!Then
<1> HIDE DEF made
<1>2. CASE r = Var!Bad
  <2>1. r.good = FALSE
    BY <1>2 DEF Var!Bad
  <2> HIDE DEF r, q
  <2>2. QED
    BY <1>1, <2>1
<1>3. CASE r # Var!Bad
  <2>1. PICK inputs, a : r = Var!Good(inputs, a) /\ Var!readVector(a) = Var!Bad
    BY <1>3
  <2>2. r.good = TRUE /\ r.rest = a /\ q(a).good = FALSE
    BY <2>1 DEF Var!Good, Var!Bad
  <2> HIDE DEF r, q
  <2>3. QED
    BY <1>1, <2>2
<1>4. QED
  BY <1>2, <1>3

Allowed(tx) == InLimits(tx.inputs) /\ InLimits(tx.outputs)

LEMMA TransactionIsRead ==
    ASSUME NEW tx \in Transactions, NEW rest \in Seq(Byte), NEW held,
           Var!needWitness(tx) => Var!isWitnessAllowed(held)
    PROVE  /\ Var!writeTransaction(tx) \in Seq(Byte)
           /\ Var!readTransaction(Var!writeTransaction(tx) \o rest, held) =
                 IF Allowed(tx) THEN ReadOf(tx, Left(tx, rest)) ELSE Var!Bad
<1> DEFINE v == << tx.version >>
           flag == IF Var!needWitness(tx) THEN << 0, 1 >> ELSE << >>
           inputs == Var!writeItems(tx.inputs)
           outputs == Var!writeItems(tx.outputs)
           witness == IF Var!needWitness(tx) THEN WrittenWitnesses(tx) ELSE << >>
           lock == << tx.lockTime >>
           left == witness \o (lock \o rest)
           afterInputs == outputs \o left
           afterFlag == inputs \o afterInputs
           afterVersion == flag \o afterFlag
           u == v \o afterVersion
<1>1. tx.version \in Byte /\ v \in Seq(Byte) /\ lock \in Seq(Byte) /\ Len(lock) = 1
  BY PartsOfTransaction
<1>2. flag \in Seq(Byte)
  <2> DEFINE X == Byte
  <2>1. 0 \in X /\ 1 \in X
    BY DEF Byte
  <2> HIDE DEF X
  <2>2. << 0, 1 >> \in Seq(X) /\ << >> \in Seq(X)
    BY <2>1
  <2>3. QED
    BY <2>2 DEF X
<1>3. inputs \in Seq(Byte) /\ outputs \in Seq(Byte)
  BY PartsOfTransaction, VectorReadsBack
<1>4. witness \in Seq(Byte)
  BY WitnessesAreBytes, EmptySeq
<1>5. Var!writeTransaction(tx) = ((((v \o flag) \o inputs) \o outputs) \o witness) \o lock
  BY DEF Var!writeTransaction, WrittenWitnesses
<1>6. left = Left(tx, rest)
  BY DEF Left
<1>7. flag = IF Var!needWitness(tx) THEN << 0, 1 >> ELSE << >>
  OBVIOUS
<1> HIDE DEF flag, inputs, outputs, witness, lock
<1>8. Var!writeTransaction(tx) \in Seq(Byte) /\ Var!writeTransaction(tx) \o rest = u
  <2> HIDE DEF v
  <2>1. Reassociates(v, flag, inputs, outputs, witness, lock, rest)
    BY <1>1, <1>2, <1>3, <1>4, SevenParts
  <2> DEFINE a == v \o flag
             b == a \o inputs
             c == b \o outputs
             d == c \o witness
             e == d \o lock
  <2>2. a \in Seq(Byte)
    BY <1>1, <1>2, ConcatProperties
  <2> HIDE DEF a
  <2>3. b \in Seq(Byte)
    BY <1>3, <2>2, ConcatProperties
  <2> HIDE DEF b
  <2>4. c \in Seq(Byte)
    BY <1>3, <2>3, ConcatProperties
  <2> HIDE DEF c
  <2>5. d \in Seq(Byte)
    BY <1>4, <2>4, ConcatProperties
  <2> HIDE DEF d
  <2>6. e \in Seq(Byte)
    BY <1>1, <2>5, ConcatProperties
  <2>7. Var!writeTransaction(tx) = e
    BY <1>5 DEF a, b, c, d
  <2>8. QED
    BY <1>5, <2>1, <2>6, <2>7 DEF Reassociates
<1>9. left \in Seq(Byte) /\ left # << >>
  <2>1. lock \o rest \in Seq(Byte) /\ Len(lock \o rest) = 1 + Len(rest) /\ Len(rest) \in Nat
    BY <1>1, ConcatProperties, LenProperties
  <2> DEFINE y == lock \o rest
  <2>2. y \in Seq(Byte) /\ Len(y) = 1 + Len(rest) /\ Len(rest) \in Nat
    BY <2>1
  <2> HIDE DEF y
  <2>3. /\ witness \o y \in Seq(Byte) /\ Len(witness \o y) = Len(witness) + Len(y)
        /\ Len(witness) \in Nat
    BY <1>4, <2>2, ConcatProperties, LenProperties
  <2>4. Len(witness \o y) # 0
    BY <2>2, <2>3
  <2>5. witness \o y # << >>
    BY <2>4, EmptySeq
  <2>6. QED
    BY <2>3, <2>5 DEF y
<1> HIDE DEF left
<1>10. afterInputs \in Seq(Byte)
  BY <1>3, <1>9, ConcatProperties
<1>11. Var!readVector(afterInputs) = Taken(tx.outputs, left)
  BY <1>9, PartsOfTransaction, VectorReadsBack DEF outputs, Taken
<1> HIDE DEF afterInputs
<1>12. afterFlag \in Seq(Byte)
  BY <1>3, <1>10, ConcatProperties
<1>13. /\ Var!readInputs(afterFlag, held) = Taken(tx.inputs, afterInputs)
       /\ Var!needWitness(tx) =>
            Var!readInputs(<< 0, 1 >> \o afterFlag, held) = Taken(tx.inputs, afterInputs)
  BY <1>10, PartsOfTransaction, InputsReadBack DEF inputs
<1> HIDE DEF afterFlag
<1>14. Var!readInputs(afterVersion, held) = Taken(tx.inputs, afterInputs)
  <2>1. CASE Var!needWitness(tx)
    BY <1>7, <1>13, <2>1
  <2>2. CASE ~ Var!needWitness(tx)
    <3>1. flag = << >> /\ << >> \o afterFlag = afterFlag
      BY <1>7, <1>12, <2>2, ConcatEmptySeq
    <3>2. QED
      BY <1>13, <3>1
  <2>3. QED
    BY <2>1, <2>2
<1>15. afterVersion \in Seq(Byte)
  BY <1>2, <1>12, ConcatProperties
<1> HIDE DEF afterVersion
<1>16. u # << >> /\ u[1] = tx.version /\ Tail(u) = afterVersion
  BY <1>1, <1>15, FirstOfStream
<1> HIDE DEF u
<1> DEFINE i == tx.inputs
           o == tx.outputs
<1>17. /\ Var!readInputs(Tail(u), held) = IF InLimits(i) THEN Var!Good(i, afterInputs) ELSE Var!Bad
       /\ Var!readVector(afterInputs) = IF InLimits(o) THEN Var!Good(o, left) ELSE Var!Bad
  BY <1>11, <1>14, <1>16 DEF Taken
<1>18. Allowed(tx) <=> InLimits(i) /\ InLimits(o)
  BY DEF Allowed
<1> HIDE DEF i, o
<1>19. CASE InLimits(i) /\ InLimits(o)
  <2>1. Var!readTransaction(u, held) =
          Var!Good([version |-> u[1], inputs |-> i, outputs |-> o,
                    witness |-> [k \in DOMAIN i |-> << >>], lockTime |-> left[1]], Tail(left))
    BY <1>9, <1>16, <1>17, <1>19, TransactionOfParts
  <2>2. Var!readTransaction(u, held) = ReadOf(tx, left)
    BY <1>16, <2>1 DEF ReadOf, i, o
  <2>3. QED
    BY <1>6, <1>8, <1>18, <1>19, <2>2
<1>20. CASE ~ (InLimits(i) /\ InLimits(o))
  <2>1. Var!readTransaction(u, held) = Var!Bad
    BY <1>16, <1>17, <1>20, BadTransaction
  <2>2. QED
    BY <1>8, <1>18, <1>20, <2>1
<1>21. QED
  BY <1>19, <1>20

\* A transaction that is written without its witness, because it has none or its
\* version forbids one, is read back exactly, whatever follows it and whatever the
\* object it is read into held before, if its inputs, outputs and scripts are in
\* the reader's limits, and not read at all if they are not (operator<< and
\* operator>> of Transaction).
THEOREM TransactionReadsBack ==
    ASSUME NEW tx \in Transactions, ~ Var!needWitness(tx), NEW rest \in Seq(Byte), NEW held
    PROVE  /\ Var!readTransaction(Var!writeTransaction(tx) \o rest, held) =
                IF Allowed(tx) THEN Var!Good(WithoutWitness(tx), rest) ELSE Var!Bad
           /\ ~ Var!hasWitness(tx) => WithoutWitness(tx) = tx
<1> DEFINE b == tx.lockTime
           left == << b >> \o rest
           w == tx.witness
           null == [i \in DOMAIN tx.inputs |-> << >>]
<1>1. b \in Byte /\ w \in Seq(Stacks) /\ Len(w) = Len(tx.inputs)
  BY PartsOfTransaction
<1>2. ~ Var!hasWitness(tx) => w = null
  <2> SUFFICES ASSUME ~ Var!hasWitness(tx) PROVE w = null
    OBVIOUS
  <2> DEFINE n == Len(w)
             inputs == tx.inputs
  <2>1. \A i \in DOMAIN w : w[i] = << >>
    BY DEF Var!hasWitness
  <2>2. Len(inputs) = n /\ inputs \in Seq(Items)
    BY <1>1, PartsOfTransaction DEF Sized
  <2> HIDE DEF w, inputs, n
  <2>3. w \in [1 .. n -> Stacks] /\ DOMAIN w = 1 .. n /\ DOMAIN inputs = 1 .. n
    BY <1>1, <2>2, LenProperties DEF n
  <2>4. w = [i \in DOMAIN inputs |-> << >>]
    BY <2>1, <2>3
  <2>5. QED
    BY <2>4 DEF inputs
<1> HIDE DEF b, null
<1>3. left \in Seq(Byte) /\ left[1] = b /\ Tail(left) = rest
  BY <1>1, FirstOfStream
<1>4. Left(tx, rest) = << >> \o left
  BY DEF Left, b
<1> HIDE DEF left
<1>5. << >> \o left = left
  BY <1>3, ConcatEmptySeq
<1> HIDE DEF w
<1>6. /\ tx = [version |-> tx.version, inputs |-> tx.inputs, outputs |-> tx.outputs,
               witness |-> w, lockTime |-> b]
      /\ WithoutWitness(tx) = [tx EXCEPT !.witness = null]
  BY PartsOfTransaction DEF w, b, null, WithoutWitness
<1>7. WithoutWitness(tx) = [version |-> tx.version, inputs |-> tx.inputs,
          outputs |-> tx.outputs, witness |-> null, lockTime |-> b]
  BY <1>6
<1>8. ReadOf(tx, left) = Var!Good(WithoutWitness(tx), rest)
  BY <1>3, <1>7 DEF ReadOf, null
<1>9. ~ Var!hasWitness(tx) => WithoutWitness(tx) = tx
  BY <1>2, <1>6, <1>7
<1>10. QED
  BY <1>4, <1>5, <1>8, <1>9, TransactionIsRead

\* The flag of a witness costs no input or output, but the witness itself is not
\* read: the lock time is read where the witnesses begin, for the reader never
\* sets needWitness (operator>> of Transaction).
THEOREM WitnessIsNotRead ==
    ASSUME NEW tx \in Transactions, Var!needWitness(tx), Allowed(tx), NEW rest \in Seq(Byte),
           NEW held, Var!isWitnessAllowed(held)
    PROVE  LET left == WrittenWitnesses(tx) \o (<< tx.lockTime >> \o rest)
           IN  Var!readTransaction(Var!writeTransaction(tx) \o rest, held) =
                 Var!Good([version |-> tx.version, inputs |-> tx.inputs, outputs |-> tx.outputs,
                           witness |-> [i \in DOMAIN tx.inputs |-> << >>], lockTime |-> left[1]],
                          Tail(left))
<1>1. Var!readTransaction(Var!writeTransaction(tx) \o rest, held) = ReadOf(tx, Left(tx, rest))
  BY TransactionIsRead
<1>2. Left(tx, rest) = WrittenWitnesses(tx) \o (<< tx.lockTime >> \o rest)
  BY DEF Left
<1>3. QED
  BY <1>1, <1>2 DEF ReadOf

-----------------------------------------------------------------------------
(* Numbers in groups of seven bits. *)

\* The values of seven bits.
Seven == 0 .. 127

LEMMA Sevens ==
    ASSUME NEW n \in Nat
    PROVE  /\ n \div 128 \in Nat /\ n % 128 \in Seven
           /\ n = (n \div 128) * 128 + (n % 128)
           /\ n < 128 => n \div 128 = 0 /\ n % 128 = n
           /\ ~ (n < 128) => /\ n \div 128 - 1 \in Nat /\ n \div 128 - 1 < n
                             /\ (n \div 128 - 1) + 1 = n \div 128
<1>1. n \div 128 \in Nat
  OBVIOUS
<1>2. n % 128 \in 0 .. 127
  OBVIOUS
<1>3. n = (n \div 128) * 128 + (n % 128)
  OBVIOUS
<1>4. n < 128 => n \div 128 = 0 /\ n % 128 = n
  OBVIOUS
<1>5. ~ (n < 128) => n \div 128 # 0
  OBVIOUS
<1>6. ~ (n < 128) => n \div 128 - 1 < n
  OBVIOUS
<1> DEFINE q == n \div 128
<1>7. ~ (n < 128) => q - 1 \in Nat /\ (q - 1) + 1 = q
  <2>1. q \in Nat /\ (~ (n < 128) => q # 0)
    BY <1>1, <1>5
  <2> HIDE DEF q
  <2>2. QED
    BY <2>1
<1>8. QED
  BY <1>1, <1>2, <1>3, <1>4, <1>6, <1>7 DEF Seven

LEMMA SevensBack ==
    ASSUME NEW q \in Nat, NEW b \in Seven
    PROVE  /\ q * 128 + b \in Nat
           /\ (q * 128 + b) \div 128 = q /\ (q * 128 + b) % 128 = b
           /\ q * 128 + b < 128 <=> q = 0
<1>1. b \in 0 .. 127 /\ q * 128 + b \in Nat
  BY DEF Seven
<1>2. (q * 128 + b) \div 128 = q
  BY <1>1
<1>3. (q * 128 + b) % 128 = b
  BY <1>1
<1>4. q * 128 + b < 128 <=> q = 0
  BY <1>1
<1>5. QED
  BY <1>1, <1>2, <1>3, <1>4

LEMMA SevenIsByte ==
    ASSUME NEW b \in Seven
    PROVE  /\ b \in Byte /\ b + 128 \in Byte /\ b < 128 /\ ~ (b + 128 < 128)
           /\ (b + 128) % 128 = b /\ b % 128 = b /\ b \in Nat
<1>1. b \in 0 .. 127
  BY DEF Seven
<1>2. b \in Byte /\ b + 128 \in Byte
  BY <1>1 DEF Byte
<1>3. QED
  BY <1>1, <1>2

LEMMA ByteIsSeven ==
    ASSUME NEW x \in Byte
    PROVE  /\ x \in Nat /\ x % 128 \in Seven
           /\ x < 128 => x % 128 = x
           /\ ~ (x < 128) => (x % 128) + 128 = x
<1>1. x \in 0 .. 255
  BY DEF Byte
<1>2. x % 128 \in 0 .. 127
  BY <1>1
<1>3. x < 128 => x % 128 = x
  BY <1>1
<1>4. ~ (x < 128) => (x % 128) + 128 = x
  BY <1>1
<1>5. QED
  BY <1>1, <1>2, <1>3, <1>4 DEF Seven

\* g holds the groups of every number.
IsGroups(g) ==
    \A v \in Nat : /\ g[v] \in Seq(Seven)
                   /\ v < 128 => g[v] = << v >>
                   /\ ~ (v < 128) => g[v] = Append(g[v \div 128 - 1], v % 128)

\* Groups as they are written: all but the last, or all, are marked.
Closed(s) == [i \in DOMAIN s |-> IF i = Len(s) THEN s[i] ELSE s[i] + 128]
Open(s) == [i \in DOMAIN s |-> s[i] + 128]

WritesGroups(g) ==
    IsGroups(g) /\ \A n, width : Var!writeInteger(n, width) = Closed(g[n])

LEMMA GroupsExist == \E g : WritesGroups(g)
<1> DEFINE X == Seq(Seven)
           E(v, g) == IF v < 128 THEN << v >> ELSE Append(g[v \div 128 - 1], v % 128)
           D == [p \in Nat \X [Nat -> X] |-> E(p[1], p[2])]
           groups == CHOOSE g : g = [v \in Nat |-> E(v, g)]
<1>1. X # {}
  BY EmptySeq
<1>2. \A k \in Nat, g \in [Nat -> X] : E(k, g) \in X
  <2> TAKE k \in Nat, g \in [Nat -> X]
  <2>1. CASE k < 128
    <3>1. k \in Seven
      BY <2>1 DEF Seven
    <3>2. QED
      BY <2>1, <3>1
  <2>2. CASE ~ (k < 128)
    <3> DEFINE u == k \div 128 - 1
               b == k % 128
    <3>1. u \in Nat /\ b \in Seven
      BY <2>2, Sevens
    <3> HIDE DEF u, b
    <3>2. Append(g[u], b) \in Seq(Seven)
      BY <3>1, AppendProperties
    <3>3. QED
      BY <2>2, <3>2 DEF u, b
  <2>3. QED
    BY <2>1, <2>2
<1> HIDE DEF X
<1>3. \A k \in Nat, g \in [Nat -> X] : D[<< k, g >>] = E(k, g)
  <2> HIDE DEF E
  <2>1. QED
    OBVIOUS
<1>4. D \in [Nat \X [Nat -> X] -> X]
  <2> HIDE DEF E
  <2>1. \A p \in Nat \X [Nat -> X] : E(p[1], p[2]) \in X
    BY <1>2
  <2>2. QED
    BY <2>1
<1>5. ASSUME NEW k \in Nat, NEW g \in [Nat -> X], NEW h \in [Nat -> X],
             \A t \in Nat : t < k => g[t] = h[t]
      PROVE  D[<< k, g >>] = D[<< k, h >>]
  <2> DEFINE u == k \div 128 - 1
  <2>1. ~ (k < 128) => g[u] = h[u]
    <3>1. ~ (k < 128) => u \in Nat /\ u < k
      BY Sevens
    <3> HIDE DEF u
    <3>2. QED
      BY <1>5, <3>1
  <2>2. E(k, g) = E(k, h)
    BY <2>1
  <2> HIDE DEF D, E
  <2>3. QED
    BY <1>3, <2>2
<1> HIDE DEF D, E
<1>6. HasSolution(Nat, X, D)
  BY <1>1, <1>4, <1>5, NatRecursionExists
<1>7. PICK f \in [Nat -> X] : \A k \in Nat : f[k] = D[<< k, f >>]
  BY <1>6 DEF HasSolution
<1>8. f = [v \in Nat |-> E(v, f)]
  BY <1>3, <1>7
<1>9. groups = [v \in Nat |-> E(v, groups)]
  BY <1>8, ZenonT(30)
<1>10. \A n, width : Var!writeInteger(n, width) = Closed(groups[n])
  BY DEF Var!writeInteger, Closed, E
<1> HIDE DEF groups
<1>11. \A v \in Nat : groups[v] = E(v, groups)
  BY <1>9
<1>12. \A v \in Nat : /\ v < 128 => groups[v] = << v >>
                      /\ ~ (v < 128) => groups[v] = Append(groups[v \div 128 - 1], v % 128)
  BY <1>11 DEF E
<1> DEFINE T == {v \in Nat : groups[v] \in Seq(Seven)}
           mu == [v \in Nat |-> v]
<1>13. mu \in [Nat -> Nat] /\ \A v \in Nat : mu[v] = v
  OBVIOUS
<1> HIDE DEF mu
<1>14. ASSUME NEW v \in Nat, \A t \in Nat : mu[t] < mu[v] => t \in T
       PROVE  v \in T
  <2>1. CASE v < 128
    <3>1. << v >> \in Seq(Seven)
      <4>1. v \in Seven
        BY <2>1 DEF Seven
      <4>2. QED
        BY <4>1
    <3>2. QED
      BY <1>12, <2>1, <3>1
  <2>2. CASE ~ (v < 128)
    <3> DEFINE u == v \div 128 - 1
               b == v % 128
    <3>1. u \in Nat /\ u < v /\ b \in Seven
      BY <2>2, Sevens
    <3>2. groups[v] = Append(groups[u], b)
      BY <1>12, <2>2
    <3> HIDE DEF u, b
    <3>3. groups[u] \in Seq(Seven)
      BY <1>13, <1>14, <3>1
    <3>4. groups[v] \in Seq(Seven)
      BY <3>1, <3>2, <3>3, AppendProperties
    <3>5. QED
      BY <3>4
  <2>3. QED
    BY <2>1, <2>2
<1> HIDE DEF T
<1>15. Nat \subseteq T
  BY <1>13, <1>14, MeasureInduction
<1>16. IsGroups(groups)
  BY <1>12, <1>15 DEF IsGroups, T
<1>17. QED
  BY <1>10, <1>16 DEF WritesGroups

LEMMA LastGroup ==
    ASSUME NEW s \in Seq(Seven), NEW b \in Seven
    PROVE  /\ Open(s) \in Seq(Byte)
           /\ Closed(Append(s, b)) = Open(s) \o << b >>
           /\ Open(Append(s, b)) = Open(s) \o << b + 128 >>
<1> DEFINE n == Len(s)
           a == Append(s, b)
           open == Open(s)
<1>1. n \in Nat /\ DOMAIN s = 1 .. n /\ \A i \in 1 .. n : s[i] \in Seven
  BY LenProperties, ElementOfSeq
<1>2. \A x \in Seven : x \in Byte /\ x + 128 \in Byte
  BY SevenIsByte
<1>3. open = [i \in 1 .. n |-> s[i] + 128]
  BY <1>1 DEF Open
<1>4. /\ a \in Seq(Seven) /\ Len(a) = n + 1 /\ DOMAIN a = 1 .. n + 1
      /\ \A i \in 1 .. n : a[i] = s[i]
      /\ \A i \in 1 .. n + 1 : i = n + 1 => a[i] = b
  <2>1. /\ a \in Seq(Seven) /\ Len(a) = n + 1
        /\ \A i \in 1 .. n : a[i] = s[i]
        /\ a[n + 1] = b
    BY AppendProperties
  <2> HIDE DEF a
  <2>2. DOMAIN a = 1 .. n + 1
    BY <2>1, LenProperties
  <2>3. QED
    BY <2>1, <2>2
<1> HIDE DEF n, a, open
<1>5. open \in Seq(Byte) /\ Len(open) = n /\ \A i \in 1 .. n : open[i] = s[i] + 128
  <2>1. \A i \in 1 .. n : s[i] + 128 \in Byte
    BY <1>1, <1>2
  <2>2. QED
    BY <1>1, <1>3, <2>1
<1>6. ASSUME NEW last \in Byte, NEW whole, whole = [i \in 1 .. n + 1 |-> IF i = n + 1 THEN last ELSE s[i] + 128]
      PROVE  whole = open \o << last >>
  <2> DEFINE y == << last >>
             z == open \o y
  <2>1. y \in Seq(Byte) /\ Len(y) = 1 /\ y[1] = last
    OBVIOUS
  <2> HIDE DEF y
  <2>2. /\ z \in Seq(Byte) /\ Len(z) = n + 1
        /\ \A i \in 1 .. n + 1 : z[i] = IF i <= n THEN open[i] ELSE y[i - n]
    BY <1>5, <2>1, ConcatProperties
  <2> HIDE DEF z
  <2>3. \A i \in 1 .. n + 1 : IF i = n + 1 THEN ~ (i <= n) /\ i - n = 1 ELSE i <= n /\ i \in 1 .. n
    BY <1>1
  <2>4. \A i \in 1 .. n + 1 : z[i] = IF i = n + 1 THEN last ELSE s[i] + 128
    BY <1>5, <2>1, <2>2, <2>3
  <2>5. \A i \in 1 .. n + 1 : (IF i = n + 1 THEN last ELSE s[i] + 128) \in Byte
    BY <1>1, <1>2, <2>3
  <2>6. /\ whole \in Seq(Byte) /\ Len(whole) = n + 1
        /\ \A i \in 1 .. n + 1 : whole[i] = IF i = n + 1 THEN last ELSE s[i] + 128
    BY <1>1, <1>6, <2>5
  <2>7. \A i \in 1 .. Len(whole) : whole[i] = z[i]
    BY <2>4, <2>6
  <2>8. whole = z
    BY <2>2, <2>6, <2>7, SeqEqual
  <2>9. QED
    BY <2>8 DEF z, y
<1>7. b \in Byte /\ b + 128 \in Byte
  BY <1>2
<1>8. Closed(a) = [i \in 1 .. n + 1 |-> IF i = n + 1 THEN b ELSE s[i] + 128]
  <2>1. Closed(a) = [i \in 1 .. n + 1 |-> IF i = n + 1 THEN a[i] ELSE a[i] + 128]
    BY <1>4 DEF Closed
  <2>2. \A i \in 1 .. n + 1 : i # n + 1 => i \in 1 .. n
    BY <1>1
  <2>3. QED
    BY <1>4, <2>1, <2>2
<1>9. Open(a) = [i \in 1 .. n + 1 |-> IF i = n + 1 THEN b + 128 ELSE s[i] + 128]
  <2>1. Open(a) = [i \in 1 .. n + 1 |-> a[i] + 128]
    BY <1>4 DEF Open
  <2>2. \A i \in 1 .. n + 1 : i # n + 1 => i \in 1 .. n
    BY <1>1
  <2>3. QED
    BY <1>4, <2>1, <2>2
<1>10. Closed(a) = open \o << b >>
  BY <1>6, <1>7, <1>8
<1>11. Open(a) = open \o << b + 128 >>
  BY <1>6, <1>7, <1>9
<1>12. QED
  BY <1>5, <1>10, <1>11 DEF a, open

\* What is written of a number before its last group: m[u] is what is written
\* when u continues.
Before(m, v) == IF v < 128 THEN << >> ELSE m[v \div 128 - 1]

WritesIntegers(m) ==
    \A v \in Nat :
        /\ Before(m, v) \in Seq(Byte)
        /\ m[v] = Before(m, v) \o << (v % 128) + 128 >>
        /\ \A width : Var!writeInteger(v, width) = Before(m, v) \o << v % 128 >>

LEMMA IntegersAreWritten == \E m : WritesIntegers(m)
<1>1. PICK g : WritesGroups(g)
  BY GroupsExist
<1> DEFINE m == [v \in Nat |-> Open(g[v])]
<1>2. /\ \A v \in Nat : /\ g[v] \in Seq(Seven)
                        /\ v < 128 => g[v] = << v >>
                        /\ ~ (v < 128) => g[v] = Append(g[v \div 128 - 1], v % 128)
      /\ \A v, width : Var!writeInteger(v, width) = Closed(g[v])
  BY <1>1 DEF WritesGroups, IsGroups
<1>3. \A v \in Nat : m[v] = Open(g[v])
  OBVIOUS
<1> HIDE DEF m
<1>4. ASSUME NEW v \in Nat
      PROVE  \E s \in Seq(Seven) : g[v] = Append(s, v % 128) /\ Open(s) = Before(m, v)
  <2>1. CASE v < 128
    <3> DEFINE none == << >>
               b == v % 128
    <3>1. none \in Seq(Seven) /\ b \in Seven /\ b = v /\ Len(none) = 0 /\ DOMAIN none = {}
      BY <2>1, Sevens, EmptySeq
    <3>2. g[v] = Append(none, b)
      <4>1. Append(none, b) = none \o << b >> /\ << b >> \in Seq(Seven)
        BY <3>1, AppendIsConcat
      <4>2. none \o << b >> = << b >>
        BY <4>1, ConcatEmptySeq
      <4>3. QED
        BY <1>2, <2>1, <3>1, <4>1, <4>2
    <3>3. Open(none) = << >>
      BY <3>1 DEF Open
    <3> HIDE DEF none, b
    <3>4. Before(m, v) = << >>
      BY <2>1 DEF Before
    <3>5. QED
      BY <3>1, <3>2, <3>3, <3>4 DEF b
  <2>2. CASE ~ (v < 128)
    <3> DEFINE u == v \div 128 - 1
    <3>1. u \in Nat
      BY <2>2, Sevens
    <3>2. g[v] = Append(g[u], v % 128) /\ Before(m, v) = m[u]
      BY <1>2, <2>2 DEF Before
    <3> HIDE DEF u
    <3>3. g[u] \in Seq(Seven) /\ m[u] = Open(g[u])
      BY <1>2, <1>3, <3>1
    <3>4. QED
      BY <3>2, <3>3
  <2>3. QED
    BY <2>1, <2>2
<1>5. ASSUME NEW v \in Nat
      PROVE  /\ Before(m, v) \in Seq(Byte)
             /\ m[v] = Before(m, v) \o << (v % 128) + 128 >>
             /\ \A width : Var!writeInteger(v, width) = Before(m, v) \o << v % 128 >>
  <2> DEFINE b == v % 128
  <2>1. PICK s \in Seq(Seven) : g[v] = Append(s, b) /\ Open(s) = Before(m, v)
    BY <1>4
  <2>2. b \in Seven
    BY Sevens
  <2> HIDE DEF b
  <2>3. /\ Open(s) \in Seq(Byte)
        /\ Closed(Append(s, b)) = Open(s) \o << b >>
        /\ Open(Append(s, b)) = Open(s) \o << b + 128 >>
    BY <2>2, LastGroup
  <2>4. m[v] = Open(s) \o << b + 128 >>
    BY <1>3, <2>1, <2>3
  <2>5. \A width : Var!writeInteger(v, width) = Open(s) \o << b >>
    BY <1>2, <2>1, <2>3
  <2>6. QED
    BY <2>1, <2>3, <2>4, <2>5 DEF b
<1>6. WritesIntegers(m)
  BY <1>5 DEF WritesIntegers
<1>7. QED
  BY <1>6

\* The states of the reader's loop.
Places(s) == [at : 1 .. Len(s) + 1, n : Nat]
Place(i, n) == [at |-> i, n |-> n]

\* What the loop makes of one of its states.
ReadFrom(f, s, max, r) ==
    IF r.n > max \div 128 \/ r.at > Len(s) THEN Var!Bad
    ELSE IF s[r.at] < 128 THEN Var!Good(r.n * 128 + (s[r.at] % 128), Var!Drop(s, r.at))
    ELSE IF r.n * 128 + (s[r.at] % 128) = max THEN Var!Bad
    ELSE f[Place(r.at + 1, (r.n * 128 + (s[r.at] % 128)) + 1)]

ReadsGroups(f, s, max) == \A r \in Places(s) : f[r] = ReadFrom(f, s, max, r)

\* The loop on a stream.
HasReader(s, width) ==
    \E f : /\ ReadsGroups(f, s, Var!Largest(width))
           /\ Var!readInteger(s, width) = f[Place(1, 0)]

LEMMA ReaderExists ==
    ASSUME NEW s \in Seq(Byte), NEW width
    PROVE  HasReader(s, width)
<1> DEFINE max == Var!Largest(width)
           S == Places(s)
           E(r, g) == ReadFrom(g, s, max, r)
           Next(r) == r.n * 128 + (s[r.at] % 128)
           Back(r) == Place(r.at + 1, Next(r) + 1)
           Fails(r) == r.n > max \div 128 \/ r.at > Len(s)
           Stops(r) == Fails(r) \/ s[r.at] < 128 \/ Next(r) = max
           Result(r) == IF Fails(r) THEN Var!Bad
                        ELSE IF s[r.at] < 128 THEN Var!Good(Next(r), Var!Drop(s, r.at))
                        ELSE Var!Bad
           X == {Result(r) : r \in S}
           D == [q \in S \X [S -> X] |-> IF Stops(q[1]) THEN Result(q[1]) ELSE q[2][Back(q[1])]]
           mu == [r \in S |-> Len(s) + 1 - r.at]
           from == CHOOSE g : g = [r \in S |-> E(r, g)]
<1>1. Len(s) \in Nat /\ \A i \in 1 .. Len(s) : s[i] \in Byte
  BY LenProperties, ElementOfSeq
<1>2. \A r \in S : r.at \in 1 .. Len(s) + 1 /\ r.n \in Nat
  BY DEF Places
<1>3. ASSUME NEW r \in S, ~ Stops(r)
      PROVE  /\ Back(r) \in S
             /\ Len(s) + 1 - r.at \in Nat /\ Len(s) + 1 - Back(r).at < Len(s) + 1 - r.at
  <2> DEFINE x == s[r.at]
  <2>1. r.at \in 1 .. Len(s) /\ r.n \in Nat
    <3>1. ~ (r.at > Len(s))
      BY <1>3
    <3>2. QED
      BY <1>1, <1>2, <3>1
  <2>2. x \in Byte /\ x % 128 \in Nat
    <3>1. x \in Byte
      BY <1>1, <2>1
    <3> HIDE DEF x
    <3>2. x % 128 \in Nat
      BY <3>1, ByteIsSeven, SevenIsByte
    <3>3. QED
      BY <3>1, <3>2
  <2>3. Next(r) + 1 \in Nat
    BY <2>1, <2>2
  <2>4. r.at + 1 \in 1 .. Len(s) + 1
    BY <1>1, <2>1
  <2> HIDE DEF Next
  <2>5. Back(r).at = r.at + 1 /\ Back(r) \in S
    BY <2>3, <2>4 DEF Place, Places
  <2>6. QED
    BY <1>1, <2>1, <2>5
<1>4. mu \in [S -> Nat] /\ \A r \in S : mu[r] = Len(s) + 1 - r.at
  <2>1. \A r \in S : Len(s) + 1 - r.at \in Nat
    BY <1>1, <1>2
  <2>2. QED
    BY <2>1
<1>5. X # {}
  <2>1. Place(1, 0) \in S
    BY <1>1 DEF Place, Places
  <2>2. QED
    BY <2>1
<1>6. \A r, g : E(r, g) = IF Stops(r) THEN Result(r) ELSE g[Back(r)]
  BY DEF ReadFrom
<1>7. Var!readInteger(s, width) = from[Place(1, 0)]
  BY DEF Var!readInteger, ReadFrom, Places, Place
<1>8. \A r \in S : Result(r) \in X
  OBVIOUS
<1> HIDE DEF S, X, E, Stops, Result, Back, Fails, Next, max
<1>9. \A r \in S, g \in [S -> X] : D[<< r, g >>] = IF Stops(r) THEN Result(r) ELSE g[Back(r)]
  OBVIOUS
<1>10. D \in [S \X [S -> X] -> X]
  <2>1. ASSUME NEW q \in S \X [S -> X]
        PROVE  (IF Stops(q[1]) THEN Result(q[1]) ELSE q[2][Back(q[1])]) \in X
    <3>1. q[1] \in S /\ q[2] \in [S -> X]
      OBVIOUS
    <3>2. ~ Stops(q[1]) => q[2][Back(q[1])] \in X
      BY <1>3, <3>1
    <3>3. QED
      BY <1>8, <3>1, <3>2
  <2>2. QED
    BY <2>1
<1> HIDE DEF D, mu
<1>11. ASSUME NEW r \in S, NEW g \in [S -> X], NEW h \in [S -> X],
              \A t \in S : mu[t] < mu[r] => g[t] = h[t]
       PROVE  D[<< r, g >>] = D[<< r, h >>]
  <2>1. CASE Stops(r)
    BY <1>9, <2>1
  <2>2. CASE ~ Stops(r)
    <3>1. D[<< r, g >>] = g[Back(r)] /\ D[<< r, h >>] = h[Back(r)]
      BY <1>9, <2>2
    <3>2. Back(r) \in S /\ mu[Back(r)] < mu[r]
      BY <1>3, <1>4, <2>2
    <3>3. QED
      BY <1>11, <3>1, <3>2
  <2>3. QED
    BY <2>1, <2>2
<1>12. Local(S, X, mu, D)
  BY <1>11 DEF Local
<1>13. HasSolution(S, X, D)
  BY <1>4, <1>5, <1>10, <1>12, RecursionExists
<1>14. PICK f \in [S -> X] : \A r \in S : f[r] = D[<< r, f >>]
  BY <1>13 DEF HasSolution
<1>15. f = [r \in S |-> E(r, f)]
  <2>1. \A r \in S : f[r] = E(r, f)
    BY <1>6, <1>9, <1>14
  <2>2. QED
    BY <1>14, <2>1
<1>16. from = [r \in S |-> E(r, from)]
  BY <1>15, ZenonT(30)
<1> HIDE DEF from
<1>17. \A r \in S : from[r] = E(r, from)
  BY <1>16
<1>18. ReadsGroups(from, s, max)
  BY <1>17 DEF ReadsGroups, S, E
<1>19. QED
  BY <1>7, <1>18 DEF HasReader, max

\* p holds the powers of two up to a width.
IsPowers(p, width) == p[0] = 1 /\ \A k \in 1 .. width : p[k] = 2 * p[k - 1]

HasPowers(width) == \E p : IsPowers(p, width) /\ Var!Largest(width) = p[width] - 1

LEMMA PowersExist ==
    ASSUME NEW width \in Nat
    PROVE  HasPowers(width)
<1> DEFINE S == 0 .. width
           X == Nat \ {0}
           step == [p \in (1 .. width) \X X |-> 2 * p[2]]
           E(k, g) == IF k = 0 THEN 1 ELSE 2 * g[k - 1]
           power == CHOOSE g : g = [k \in S |-> E(k, g)]
<1>1. /\ step \in [(1 .. width) \X X -> X] /\ 1 \in X
      /\ \A k \in 1 .. width, x \in X : step[<< k, x >>] = 2 * x
  <2>1. \A x \in X : 2 * x \in X
    OBVIOUS
  <2> HIDE DEF X
  <2>2. /\ step \in [(1 .. width) \X X -> X]
        /\ \A k \in 1 .. width, x \in X : step[<< k, x >>] = 2 * x
    BY <2>1
  <2>3. QED
    BY <2>2 DEF X
<1> HIDE DEF step
<1>2. HasRun(width, X, 1, step)
  <2> DEFINE one == 1
  <2>1. one \in X
    BY <1>1
  <2> HIDE DEF X, one
  <2>2. HasRun(width, X, one, step)
    BY <1>1, <2>1, RunExists
  <2>3. QED
    BY <2>2 DEF one
<1>3. PICK f : RunsThrough(f, width, X, 1, step)
  BY <1>2 DEF HasRun
<1>4. f \in [0 .. width -> X] /\ f[0] = 1 /\ \A k \in 1 .. width : f[k] = 2 * f[k - 1]
  <2>1. \A k \in 1 .. width : k - 1 \in 0 .. width
    OBVIOUS
  <2> HIDE DEF X
  <2>2. f \in [0 .. width -> X] /\ f[0] = 1 /\ \A k \in 1 .. width : f[k] = step[<< k, f[k - 1] >>]
    BY <1>3 DEF RunsThrough
  <2>3. QED
    BY <1>1, <2>1, <2>2
<1>5. f = [k \in S |-> E(k, f)]
  <2>1. \A k \in S : k = 0 \/ k \in 1 .. width
    OBVIOUS
  <2>2. \A k \in 1 .. width : k # 0
    OBVIOUS
  <2>3. \A k \in S : f[k] = E(k, f)
    BY <1>4, <2>1, <2>2
  <2> HIDE DEF E
  <2>4. QED
    BY <1>4, <2>3
<1>6. power = [k \in S |-> E(k, power)]
  <2> HIDE DEF E
  <2>1. QED
    BY <1>5, ZenonT(30)
<1>7. Var!Largest(width) = power[width] - 1
  BY DEF Var!Largest
<1> HIDE DEF power
<1>8. \A k \in S : power[k] = E(k, power)
  BY <1>6
<1>9. power[0] = 1 /\ \A k \in 1 .. width : power[k] = 2 * power[k - 1]
  <2>1. 0 \in S /\ \A k \in 1 .. width : k \in S /\ k # 0
    OBVIOUS
  <2>2. QED
    BY <1>8, <2>1
<1>10. IsPowers(power, width)
  BY <1>9 DEF IsPowers
<1>11. QED
  BY <1>7, <1>10 DEF HasPowers

LEMMA PowersAgree ==
    ASSUME NEW x \in Nat, NEW y \in Nat, NEW p, IsPowers(p, x), NEW q, IsPowers(q, y),
           NEW k \in Nat, k <= x, k <= y
    PROVE  p[k] = q[k] /\ p[k] \in Nat \ {0}
<1> DEFINE T == {j \in Nat : j <= x /\ j <= y => p[j] = q[j] /\ p[j] \in Nat \ {0}}
<1>1. 0 \in T
  BY DEF IsPowers
<1>2. ASSUME NEW j \in Nat, j \in T
      PROVE  j + 1 \in T
  <2> DEFINE i == j + 1
  <2>1. SUFFICES ASSUME i <= x, i <= y
                 PROVE  p[i] = q[i] /\ p[i] \in Nat \ {0}
    OBVIOUS
  <2>2. i \in 1 .. x /\ i \in 1 .. y /\ i - 1 = j /\ j <= x /\ j <= y
    BY <2>1
  <2>3. p[j] = q[j] /\ p[j] \in Nat \ {0}
    BY <1>2, <2>2
  <2> HIDE DEF i
  <2>4. p[i] = 2 * p[j] /\ q[i] = 2 * q[j]
    <3>1. p[i] = 2 * p[i - 1] /\ q[i] = 2 * q[i - 1]
      BY <2>2 DEF IsPowers
    <3>2. QED
      BY <2>2, <3>1
  <2> DEFINE a == p[j]
  <2>5. a \in Nat \ {0} /\ p[i] = 2 * a /\ q[i] = 2 * a
    BY <2>3, <2>4
  <2> HIDE DEF a
  <2>6. 2 * a \in Nat \ {0}
    BY <2>5
  <2>7. QED
    BY <2>5, <2>6
<1> HIDE DEF T
<1>3. Nat \subseteq T
  BY <1>1, <1>2, Induction
<1>4. QED
  BY <1>3 DEF T

LEMMA LargestIsNat ==
    ASSUME NEW width \in Nat
    PROVE  Var!Largest(width) \in Nat
<1>1. PICK p : IsPowers(p, width) /\ Var!Largest(width) = p[width] - 1
  BY PowersExist DEF HasPowers
<1>2. width <= width
  OBVIOUS
<1> DEFINE a == p[width]
<1>3. a \in Nat \ {0} /\ Var!Largest(width) = a - 1
  BY <1>1, <1>2, PowersAgree
<1> HIDE DEF a
<1>4. QED
  BY <1>3

LEMMA LargestDoubles ==
    /\ Var!Largest(0) = 0
    /\ \A w \in Nat : Var!Largest(w + 1) = 2 * Var!Largest(w) + 1
<1>1. Var!Largest(0) = 0
  <2> DEFINE w == 0
  <2>1. w \in Nat
    OBVIOUS
  <2> HIDE DEF w
  <2>2. PICK p : IsPowers(p, w) /\ Var!Largest(w) = p[w] - 1
    BY <2>1, PowersExist DEF HasPowers
  <2>3. p[0] = 1
    BY <2>2 DEF IsPowers
  <2>4. QED
    BY <2>2, <2>3 DEF w
<1>2. ASSUME NEW w \in Nat
      PROVE  Var!Largest(w + 1) = 2 * Var!Largest(w) + 1
  <2> DEFINE x == w + 1
  <2>1. x \in Nat /\ x \in 1 .. x /\ x - 1 = w /\ w <= w /\ w <= x
    OBVIOUS
  <2> HIDE DEF x
  <2>2. PICK p : IsPowers(p, w) /\ Var!Largest(w) = p[w] - 1
    BY PowersExist DEF HasPowers
  <2>3. PICK q : IsPowers(q, x) /\ Var!Largest(x) = q[x] - 1
    BY <2>1, PowersExist DEF HasPowers
  <2>4. p[w] = q[w] /\ p[w] \in Nat \ {0}
    BY <2>1, <2>2, <2>3, PowersAgree
  <2>5. q[x] = 2 * q[w]
    <3>1. q[x] = 2 * q[x - 1]
      BY <2>1, <2>3 DEF IsPowers
    <3>2. QED
      BY <2>1, <3>1
  <2> DEFINE a == p[w]
             m == Var!Largest(w)
             n == Var!Largest(x)
  <2>6. a \in Nat \ {0} /\ m = a - 1 /\ n = 2 * a - 1
    BY <2>2, <2>3, <2>4, <2>5
  <2> HIDE DEF a, m, n
  <2>7. n = 2 * m + 1
    BY <2>6
  <2>8. QED
    BY <2>7 DEF n, m, x
<1>3. QED
  BY <1>1, <1>2

\* Seven bits more.
LEMMA LargestBySevens ==
    ASSUME NEW w \in Nat
    PROVE  Var!Largest(w + 7) = 128 * Var!Largest(w) + 127
<1>1. /\ w + 1 \in Nat /\ w + 2 \in Nat /\ w + 3 \in Nat /\ w + 4 \in Nat /\ w + 5 \in Nat
      /\ w + 6 \in Nat /\ (w + 1) + 1 = w + 2 /\ (w + 2) + 1 = w + 3 /\ (w + 3) + 1 = w + 4
      /\ (w + 4) + 1 = w + 5 /\ (w + 5) + 1 = w + 6 /\ (w + 6) + 1 = w + 7
  OBVIOUS
<1> DEFINE L(x) == Var!Largest(x)
<1>2. \A x \in Nat : L(x) \in Nat /\ L(x + 1) = 2 * L(x) + 1
  BY LargestIsNat, LargestDoubles
<1> HIDE DEF L
<1>3. L(w + 2) = 4 * L(w) + 3
  <2>1. L(w + 1) = 2 * L(w) + 1 /\ L(w) \in Nat
    BY <1>2
  <2>2. L((w + 1) + 1) = 2 * L(w + 1) + 1
    BY <1>1, <1>2
  <2>3. QED
    BY <1>1, <2>1, <2>2
<1>4. L(w + 4) = 16 * L(w) + 15
  <2>1. L(w + 3) = 2 * L(w + 2) + 1 /\ L(w + 4) = 2 * L(w + 3) + 1 /\ L(w) \in Nat
    BY <1>1, <1>2
  <2>2. QED
    BY <1>3, <2>1
<1>5. L(w + 7) = 128 * L(w) + 127
  <2>1. /\ L(w + 5) = 2 * L(w + 4) + 1 /\ L(w + 6) = 2 * L(w + 5) + 1
        /\ L(w + 7) = 2 * L(w + 6) + 1 /\ L(w) \in Nat
    BY <1>1, <1>2
  <2>2. QED
    BY <1>4, <2>1
<1>6. QED
  BY <1>5 DEF L

\* Groups fit the width they came from.
LEMMA SevenLess ==
    ASSUME NEW w \in Nat, NEW v \in Nat
    PROVE  v <= Var!Largest(w + 7) <=> v \div 128 <= Var!Largest(w)
<1> DEFINE q == v \div 128
           b == v % 128
           a == Var!Largest(w)
           c == Var!Largest(w + 7)
<1>1. q \in Nat /\ b \in 0 .. 127 /\ v = q * 128 + b
  BY Sevens DEF Seven
<1>2. a \in Nat /\ c = 128 * a + 127
  BY LargestIsNat, LargestBySevens
<1> HIDE DEF q, b, a, c
<1>3. v <= c <=> q <= a
  BY <1>1, <1>2
<1>4. QED
  BY <1>3 DEF q, a, c

\* One turn of the loop.
\* What a reader makes of the group at place i after the groups before it came to n.
GroupRead(f, s, max, i, n) ==
    /\ s[i] < 128 => f[Place(i, n)] = Var!Good(n * 128 + (s[i] % 128), Var!Drop(s, i))
    /\ ~ (s[i] < 128) =>
          f[Place(i, n)] = IF n * 128 + (s[i] % 128) = max THEN Var!Bad
                           ELSE f[Place(i + 1, (n * 128 + (s[i] % 128)) + 1)]

LEMMA ReadsGroup ==
    ASSUME NEW s \in Seq(Byte), NEW max \in Nat, NEW f, ReadsGroups(f, s, max),
           NEW i \in 1 .. Len(s), NEW n \in Nat, n <= max \div 128
    PROVE  GroupRead(f, s, max, i, n)
<1> DEFINE r == Place(i, n)
<1>1. Len(s) \in Nat /\ max \div 128 \in Nat
  BY LenProperties
<1>2. i \in 1 .. Len(s) + 1 /\ ~ (i > Len(s)) /\ ~ (n > max \div 128)
  BY <1>1
<1>3. r \in Places(s) /\ r.at = i /\ r.n = n
  BY <1>2 DEF Places, Place
<1> HIDE DEF r
<1>4. f[r] = ReadFrom(f, s, max, r)
  BY <1>3 DEF ReadsGroups
<1>5. f[r] = IF s[i] < 128 THEN Var!Good(n * 128 + (s[i] % 128), Var!Drop(s, i))
             ELSE IF n * 128 + (s[i] % 128) = max THEN Var!Bad
             ELSE f[Place(i + 1, (n * 128 + (s[i] % 128)) + 1)]
  BY <1>2, <1>3, <1>4 DEF ReadFrom
<1>6. QED
  BY <1>5 DEF r, GroupRead

LEMMA ByteAtEnd ==
    ASSUME NEW a \in Seq(Byte), NEW y \in Seq(Byte), Len(y) = 1
    PROVE  a \o y \in Seq(Byte) /\ Len(a \o y) = Len(a) + 1
<1>1. a \o y \in Seq(Byte) /\ Len(a \o y) = Len(a) + Len(y)
  BY ConcatProperties
<1>2. QED
  BY <1>1

\* A byte in a stream.
IsIn(s, a, b, t) ==
    /\ s \in Seq(Byte) /\ Len(a) + 1 \in 1 .. Len(s) /\ s[Len(a) + 1] = b
    /\ Var!Drop(s, Len(a) + 1) = t
    /\ a \o << b >> \in Seq(Byte) /\ Len(a \o << b >>) = Len(a) + 1
    /\ (a \o << b >>) \o t = s

LEMMA ByteInStream ==
    ASSUME NEW a \in Seq(Byte), NEW b \in Byte, NEW t \in Seq(Byte), NEW s, s = a \o (<< b >> \o t)
    PROVE  IsIn(s, a, b, t)
<1> DEFINE y == << b >>
           z == y \o t
           front == a \o y
<1>1. y \in Seq(Byte) /\ Len(y) = 1
  OBVIOUS
<1>2. z \in Seq(Byte) /\ z[1] = b /\ Len(z) = Len(t) + 1
  BY FirstOfStream
<1> HIDE DEF y
<1>3. front \in Seq(Byte) /\ Len(front) = Len(a) + 1 /\ front \o t = a \o z
  <2>1. a \o y \in Seq(Byte) /\ Len(a \o y) = Len(a) + 1
    BY <1>1, ByteAtEnd
  <2>2. (a \o y) \o t = a \o (y \o t)
    BY <1>1, ConcatAssociative
  <2>3. QED
    BY <2>1, <2>2
<1> HIDE DEF front
<1>4. Var!Drop(front \o t, Len(front)) = t
  BY <1>3, Parts
<1> HIDE DEF z
<1>5. /\ s \in Seq(Byte) /\ Len(s) = Len(a) + Len(z)
      /\ \A i \in 1 .. Len(a) + Len(z) : s[i] = IF i <= Len(a) THEN a[i] ELSE z[i - Len(a)]
  <2>1. s = a \o z
    BY DEF z, y
  <2>2. QED
    BY <1>2, <2>1, ConcatProperties
<1>6. Len(a) \in Nat /\ Len(t) \in Nat
  BY LenProperties
<1> DEFINE i == Len(a) + 1
<1>7. i \in 1 .. Len(s) /\ i \in 1 .. Len(a) + Len(z) /\ ~ (i <= Len(a)) /\ i - Len(a) = 1
  BY <1>2, <1>5, <1>6
<1>8. s[i] = b
  <2> HIDE DEF i
  <2>1. QED
    BY <1>2, <1>5, <1>7
<1>9. s = a \o z
  BY DEF z, y
<1>10. Var!Drop(s, Len(a) + 1) = t /\ front \o t = s
  BY <1>3, <1>4, <1>9
<1>11. QED
  BY <1>3, <1>5, <1>7, <1>8, <1>10 DEF IsIn, front, y

\* The reader comes to the last group of what was written of a number.
Reaches(m, max, v) ==
    \A t \in Seq(Byte) : \A f :
        ReadsGroups(f, Before(m, v) \o t, max) =>
            f[Place(1, 0)] = f[Place(Len(Before(m, v)) + 1, v \div 128)]

LEMMA ReaderReaches ==
    ASSUME NEW m, WritesIntegers(m), NEW max \in Nat, NEW v \in Nat, v <= max
    PROVE  Reaches(m, max, v)
<1> DEFINE T == {x \in Nat : x <= max => Reaches(m, max, x)}
           mu == [x \in Nat |-> x]
<1>1. mu \in [Nat -> Nat] /\ \A x \in Nat : mu[x] = x
  OBVIOUS
<1> HIDE DEF mu
<1>2. ASSUME NEW x \in Nat, \A y \in Nat : mu[y] < mu[x] => y \in T
      PROVE  x \in T
  <2>1. SUFFICES ASSUME x <= max
                 PROVE  Reaches(m, max, x)
    OBVIOUS
  <2>2. CASE x < 128
    <3>1. Before(m, x) = << >> /\ x \div 128 = 0 /\ Len(<< >>) = 0
      BY <2>2, Sevens, EmptySeq DEF Before
    <3>2. Len(Before(m, x)) + 1 = 1
      BY <3>1
    <3>3. QED
      BY <3>1, <3>2 DEF Reaches
  <2>3. CASE ~ (x < 128)
    <3> DEFINE u == x \div 128 - 1
               a == Before(m, u)
               c == u % 128
               b == c + 128
               q == u \div 128
    <3>1. u \in Nat /\ u < x /\ u + 1 = x \div 128
      BY <2>3, Sevens
    <3>2. Before(m, x) = m[u]
      BY <2>3 DEF Before
    <3> HIDE DEF u
    <3>3. a \in Seq(Byte) /\ m[u] = a \o << b >>
      BY <3>1 DEF WritesIntegers
    <3>4. u < max /\ u # max /\ u <= max
      BY <2>1, <3>1
    <3>5. Reaches(m, max, u)
      BY <1>1, <1>2, <3>1, <3>4
    <3>6. /\ c \in Seven /\ u = q * 128 + c /\ q \in Nat /\ q <= max \div 128
      <4>1. \A j, k \in Nat : j <= k => j \div 128 <= k \div 128
        OBVIOUS
      <4>2. QED
        BY <3>1, <3>4, <4>1, Sevens
    <3> HIDE DEF c, q
    <3>7. b \in Byte /\ ~ (b < 128) /\ b % 128 = c
      BY <3>6, SevenIsByte
    <3> HIDE DEF b
    <3>8. ASSUME NEW t \in Seq(Byte), NEW f, ReadsGroups(f, Before(m, x) \o t, max)
          PROVE  f[Place(1, 0)] = f[Place(Len(Before(m, x)) + 1, x \div 128)]
      <4> DEFINE rest == << b >> \o t
                 s == a \o rest
                 i == Len(a) + 1
      <4>1. rest \in Seq(Byte)
        BY <3>7, FirstOfStream
      <4> HIDE DEF a
      <4>2. /\ s \in Seq(Byte) /\ i \in 1 .. Len(s) /\ s[i] = b
            /\ Len(a \o << b >>) = i /\ (a \o << b >>) \o t = s
        <5>1. IsIn(s, a, b, t)
          BY <3>3, <3>7, ByteInStream
        <5>2. QED
          BY <5>1 DEF IsIn
      <4>3. Before(m, x) \o t = s /\ Len(Before(m, x)) = i
        BY <3>2, <3>3, <4>2
      <4> HIDE DEF rest
      <4>4. f[Place(1, 0)] = f[Place(i, q)]
        <5>1. ReadsGroups(f, Before(m, u) \o rest, max)
          BY <3>8, <4>3 DEF a
        <5>2. f[Place(1, 0)] = f[Place(Len(Before(m, u)) + 1, u \div 128)]
          BY <3>5, <4>1, <5>1 DEF Reaches
        <5>3. QED
          BY <5>2 DEF a, q
      <4> HIDE DEF s, i
      <4>5. ReadsGroups(f, s, max)
        BY <3>8, <4>3
      <4>6. f[Place(i, q)] = IF q * 128 + (s[i] % 128) = max THEN Var!Bad
                          ELSE f[Place(i + 1, (q * 128 + (s[i] % 128)) + 1)]
        <5>1. ~ (s[i] < 128) /\ q \in Nat /\ q <= max \div 128
          BY <3>6, <3>7, <4>2
        <5>2. GroupRead(f, s, max, i, q)
          BY <4>2, <4>5, <5>1, ReadsGroup
        <5>3. QED
          BY <5>1, <5>2 DEF GroupRead
      <4>7. s[i] % 128 = c /\ q * 128 + c = u
        BY <3>6, <3>7, <4>2
      <4>8. f[Place(i, q)] = f[Place(i + 1, u + 1)]
        BY <3>4, <4>6, <4>7
      <4>9. QED
        BY <3>1, <4>3, <4>4, <4>8
    <3>9. QED
      BY <3>8 DEF Reaches
  <2>4. QED
    BY <2>2, <2>3
<1> HIDE DEF T
<1>3. Nat \subseteq T
  BY <1>1, <1>2, MeasureInduction
<1>4. QED
  BY <1>3 DEF T

\* A number of a given width is read back whatever follows it
\* (VarEncoding::writeInteger, readInteger).
THEOREM IntegerReadsBack ==
    ASSUME NEW width \in Nat, NEW n \in 0 .. Var!Largest(width), NEW rest \in Seq(Byte)
    PROVE  /\ Var!writeInteger(n, width) \in Seq(Byte)
           /\ Var!readInteger(Var!writeInteger(n, width) \o rest, width) = Var!Good(n, rest)
<1> DEFINE max == Var!Largest(width)
<1>1. max \in Nat
  BY LargestIsNat
<1>2. n \in Nat /\ n <= max
  BY <1>1
<1> HIDE DEF max
<1>3. PICK m : WritesIntegers(m)
  BY IntegersAreWritten
<1> DEFINE a == Before(m, n)
           b == n % 128
           q == n \div 128
           t == << b >> \o rest
           s == a \o t
           i == Len(a) + 1
<1>4. a \in Seq(Byte) /\ Var!writeInteger(n, width) = a \o << b >>
  BY <1>2, <1>3 DEF WritesIntegers
<1>5. b \in Seven /\ n = q * 128 + b /\ q \in Nat /\ q <= max \div 128
  <2>1. \A j, k \in Nat : j <= k => j \div 128 <= k \div 128
    OBVIOUS
  <2>2. QED
    BY <1>1, <1>2, <2>1, Sevens
<1>6. Reaches(m, max, n)
  BY <1>1, <1>2, <1>3, ReaderReaches
<1> HIDE DEF b
<1>7. b \in Byte /\ b < 128 /\ b % 128 = b
  BY <1>5, SevenIsByte
<1>8. t \in Seq(Byte)
  BY <1>7, FirstOfStream
<1> HIDE DEF a
<1>9. /\ s \in Seq(Byte) /\ i \in 1 .. Len(s) /\ s[i] = b /\ Var!Drop(s, i) = rest
      /\ a \o << b >> \in Seq(Byte) /\ (a \o << b >>) \o rest = s
  <2>1. s = a \o (<< b >> \o rest)
    OBVIOUS
  <2> HIDE DEF s, t
  <2>2. IsIn(s, a, b, rest)
    BY <1>4, <1>7, <2>1, ByteInStream
  <2>3. QED
    BY <2>2 DEF IsIn
<1>10. PICK f : ReadsGroups(f, s, max) /\ Var!readInteger(s, width) = f[Place(1, 0)]
  <2> HIDE DEF s
  <2>1. HasReader(s, width)
    BY <1>9, ReaderExists
  <2>2. QED
    BY <2>1 DEF HasReader, max
<1> HIDE DEF t
<1>11. f[Place(1, 0)] = f[Place(i, q)]
  BY <1>6, <1>8, <1>10 DEF Reaches, a
<1> HIDE DEF s, i, q
<1>12. f[Place(i, q)] = Var!Good(q * 128 + (s[i] % 128), Var!Drop(s, i))
  <2>1. s[i] < 128
    BY <1>7, <1>9
  <2>2. GroupRead(f, s, max, i, q)
    BY <1>1, <1>5, <1>9, <1>10, ReadsGroup
  <2>3. QED
    BY <2>1, <2>2 DEF GroupRead
<1>13. f[Place(i, q)] = Var!Good(n, rest)
  BY <1>5, <1>7, <1>9, <1>12
<1>14. QED
  BY <1>4, <1>9, <1>10, <1>11, <1>13

\* The groups a loop has read are those that are written before any last group
\* that may follow.
Agrees(m, s, r) == \A b \in Seven : Before(m, r.n * 128 + b) = SubSeq(s, 1, r.at - 1)

\* What was read is what is written, and the rest.
Rewritten(x, s, max) ==
    \E v \in Nat, t \in Seq(Byte) :
        /\ x = Var!Good(v, t) /\ (max % 128 = 127 => v <= max)
        /\ \A width : Var!writeInteger(v, width) \o t = s

LEMMA LoopReadsWritten ==
    ASSUME NEW m, WritesIntegers(m), NEW s \in Seq(Byte), NEW max \in Nat, NEW f,
           ReadsGroups(f, s, max), NEW r \in Places(s), Agrees(m, s, r), f[r].good = TRUE
    PROVE  Rewritten(f[r], s, max)
<1> DEFINE S == Places(s)
           mu == [p \in S |-> Len(s) + 1 - p.at]
           T == {p \in S : Agrees(m, s, p) /\ f[p].good = TRUE => Rewritten(f[p], s, max)}
<1>1. Len(s) \in Nat /\ \A i \in 1 .. Len(s) : s[i] \in Byte
  BY LenProperties, ElementOfSeq
<1>2. \A p \in S : p.at \in 1 .. Len(s) + 1 /\ p.n \in Nat /\ p = Place(p.at, p.n)
  BY DEF Places, Place
<1>3. mu \in [S -> Nat] /\ \A p \in S : mu[p] = Len(s) + 1 - p.at
  <2>1. \A p \in S : Len(s) + 1 - p.at \in Nat
    BY <1>1, <1>2
  <2>2. QED
    BY <2>1
<1> HIDE DEF mu
<1>4. Var!Bad.good # TRUE
  BY DEF Var!Bad
<1>5. ASSUME NEW p \in S, \A y \in S : mu[y] < mu[p] => y \in T
      PROVE  p \in T
  <2>1. SUFFICES ASSUME Agrees(m, s, p), f[p].good = TRUE
                 PROVE  Rewritten(f[p], s, max)
    OBVIOUS
  <2> DEFINE i == p.at
             n == p.n
             x == s[i]
             c == x % 128
             v == n * 128 + c
  <2>2. i \in 1 .. Len(s) + 1 /\ n \in Nat /\ p = Place(i, n)
    BY <1>2
  <2>3. ~ (n > max \div 128 \/ i > Len(s))
    <3>1. SUFFICES ASSUME n > max \div 128 \/ i > Len(s)
                   PROVE  FALSE
      OBVIOUS
    <3>2. f[p] = Var!Bad
      BY <3>1 DEF ReadsGroups, ReadFrom
    <3>3. QED
      BY <1>4, <2>1, <3>2
  <2> HIDE DEF i, n
  <2>4. i \in 1 .. Len(s) /\ n <= max \div 128
    <3>1. max \div 128 \in Nat
      OBVIOUS
    <3>2. QED
      BY <1>1, <2>2, <2>3, <3>1
  <2>5. x \in Byte
    BY <1>1, <2>4
  <2> HIDE DEF x
  <2>6. c \in Seven /\ (x < 128 => c = x) /\ (~ (x < 128) => c + 128 = x)
    BY <2>5, ByteIsSeven
  <2> HIDE DEF c
  <2>7. v \in Nat /\ v % 128 = c
    BY <2>2, <2>6, SevensBack
  <2>8. max % 128 = 127 => v <= max
    <3> DEFINE a == max \div 128
    <3>1. a \in Nat /\ (max % 128 = 127 => max = a * 128 + 127)
      BY Sevens
    <3>2. n \in Nat /\ n <= a /\ c \in 0 .. 127
      BY <2>2, <2>4, <2>6 DEF Seven
    <3> HIDE DEF a
    <3>3. QED
      BY <3>1, <3>2
  <2> DEFINE front == SubSeq(s, 1, i - 1)
             rest == Var!Drop(s, i)
  <2>9. Before(m, v) = front
    BY <2>1, <2>6 DEF Agrees, i, n
  <2> HIDE DEF v
  <2>10. /\ m[v] = front \o << c + 128 >>
        /\ \A width : Var!writeInteger(v, width) = front \o << c >>
    <3>1. v \in Nat /\ v % 128 = c /\ Before(m, v) = front
      BY <2>7, <2>9
    <3> HIDE DEF front
    <3>2. QED
      BY <3>1 DEF WritesIntegers
  <2>11. SubSeq(s, 1, i) = front \o << x >>
    <3>1. 1 \in 1 .. Len(s) /\ i \in 1 .. Len(s)
      BY <1>1, <2>4
    <3>2. QED
      BY <3>1, SubSeqRecursiveSecond DEF x
  <2>12. SubSeq(s, 1, i) \o rest = s /\ rest \in Seq(Byte)
    <3>1. /\ 1 \in 1 .. Len(s) + 1 /\ i \in 1 - 1 .. Len(s) /\ Len(s) \in i .. Len(s)
      BY <1>1, <2>4
    <3>2. SubSeq(s, 1, i) \o SubSeq(s, i + 1, Len(s)) = SubSeq(s, 1, Len(s))
      BY <3>1, ConcatAdjacentSubSeq
    <3>3. SubSeq(s, 1, Len(s)) = s
      BY SubSeqFull
    <3> DEFINE k == i + 1
               l == Len(s)
    <3>4. k \in Int /\ l \in Int /\ \A j \in k .. l : s[j] \in Byte
      BY <1>1, <2>4
    <3> HIDE DEF k, l
    <3>5. SubSeq(s, k, l) \in Seq(Byte)
      BY <3>4, SubSeqProperties
    <3>6. QED
      BY <3>2, <3>3, <3>5 DEF Var!Drop, k, l
  <2> HIDE DEF front, rest
  <2>13. /\ x < 128 => f[p] = Var!Good(v, rest)
         /\ ~ (x < 128) => f[p] = IF v = max THEN Var!Bad ELSE f[Place(i + 1, v + 1)]
    <3>1. GroupRead(f, s, max, i, n)
      BY <2>2, <2>4, ReadsGroup
    <3>2. QED
      BY <2>2, <3>1 DEF GroupRead, x, c, v, rest
  <2>14. CASE x < 128
    <3>1. \A width : Var!writeInteger(v, width) \o rest = s
      BY <2>6, <2>10, <2>11, <2>12, <2>14
    <3>2. QED
      BY <2>7, <2>12, <2>13, <2>14, <2>8, <3>1 DEF Rewritten
  <2>15. CASE ~ (x < 128)
    <3> DEFINE y == Place(i + 1, v + 1)
    <3>1. f[p] = f[y]
      BY <1>4, <2>1, <2>13, <2>15
    <3>2. y \in S /\ y.at = i + 1 /\ y.n = v + 1
      BY <1>1, <2>4, <2>7 DEF Place, Places
    <3> HIDE DEF y
    <3>3. mu[y] < mu[p]
      <4>1. mu[y] = Len(s) + 1 - (i + 1) /\ mu[p] = Len(s) + 1 - i
        BY <1>3, <3>2 DEF i
      <4>2. QED
        BY <1>1, <2>4, <4>1
    <3>4. Agrees(m, s, y)
      <4>1. ASSUME NEW b \in Seven
            PROVE  Before(m, (v + 1) * 128 + b) = SubSeq(s, 1, i)
        <5> DEFINE w == (v + 1) * 128 + b
        <5>1. v + 1 \in Nat /\ v + 1 # 0 /\ (v + 1) - 1 = v
          BY <2>7
        <5>2. ~ (w < 128) /\ w \div 128 = v + 1
          <6> DEFINE q == v + 1
          <6>1. q \in Nat /\ q # 0
            BY <5>1
          <6> HIDE DEF q
          <6>2. (q * 128 + b) \div 128 = q /\ (q * 128 + b < 128 <=> q = 0)
            BY <6>1, SevensBack
          <6>3. QED
            BY <6>1, <6>2 DEF q
        <5> HIDE DEF w
        <5>3. Before(m, w) = m[v]
          BY <5>1, <5>2 DEF Before
        <5>4. m[v] = SubSeq(s, 1, i)
          BY <2>6, <2>10, <2>11, <2>15
        <5>5. QED
          BY <5>3, <5>4 DEF w
      <4>2. y.at - 1 = i
        BY <2>4, <3>2
      <4>3. QED
        BY <3>2, <4>1, <4>2 DEF Agrees
    <3>5. Rewritten(f[y], s, max)
      <4>1. y \in T
        BY <1>5, <3>2, <3>3
      <4>2. f[y].good = TRUE
        BY <2>1, <3>1
      <4>3. QED
        BY <3>4, <4>1, <4>2
    <3>6. QED
      BY <3>1, <3>5
  <2>16. QED
    BY <2>14, <2>15
<1> HIDE DEF T
<1>6. S \subseteq T
  <2> HIDE DEF S
  <2>1. QED
    BY <1>3, <1>5, MeasureInduction
<1>7. QED
  BY <1>6 DEF T

\* A number has one encoding: whatever a reader takes from a stream are the
\* bytes that are written of the number it reads, it leaves the rest, and no
\* number is past the largest of its type, which has seven bits or more
\* (VarEncoding::readInteger, writeInteger).
THEOREM IntegerHasOneEncoding ==
    ASSUME NEW width \in Nat, NEW s \in Seq(Byte), Var!readInteger(s, width).good = TRUE
    PROVE  \E v \in Nat, rest \in Seq(Byte) :
              /\ Var!readInteger(s, width) = Var!Good(v, rest)
              /\ Var!writeInteger(v, width) \o rest = s
              /\ width >= 7 => v <= Var!Largest(width)
<1> DEFINE max == Var!Largest(width)
           r == Place(1, 0)
<1>1. max \in Nat
  BY LargestIsNat
<1>2. PICK m : WritesIntegers(m)
  BY IntegersAreWritten
<1>3. PICK f : ReadsGroups(f, s, max) /\ Var!readInteger(s, width) = f[r]
  <2>1. HasReader(s, width)
    BY ReaderExists
  <2>2. QED
    BY <2>1 DEF HasReader
<1> HIDE DEF max
<1>4. r \in Places(s) /\ r.at = 1 /\ r.n = 0
  <2>1. 1 \in 1 .. Len(s) + 1
    BY LenProperties
  <2>2. QED
    BY <2>1 DEF Place, Places
<1> HIDE DEF r
<1>5. Agrees(m, s, r)
  <2>1. ASSUME NEW b \in Seven
        PROVE  Before(m, 0 * 128 + b) = << >>
    <3>1. 0 * 128 + b = b /\ b < 128
      BY SevenIsByte
    <3>2. QED
      BY <3>1 DEF Before
  <2>2. SubSeq(s, 1, 1 - 1) = << >>
    BY SubSeqEmpty
  <2>3. QED
    BY <1>4, <2>1, <2>2 DEF Agrees
<1>6. Rewritten(f[r], s, max)
  BY <1>1, <1>2, <1>3, <1>4, <1>5, LoopReadsWritten
<1>7. width >= 7 => max % 128 = 127
  <2>1. SUFFICES ASSUME width >= 7
                 PROVE  max % 128 = 127
    OBVIOUS
  <2> DEFINE w == width - 7
             a == Var!Largest(w)
  <2>2. w \in Nat /\ w + 7 = width
    BY <2>1
  <2> HIDE DEF w
  <2>3. a \in Nat /\ max = 128 * a + 127
    BY <2>2, LargestIsNat, LargestBySevens DEF max
  <2> HIDE DEF a
  <2>4. QED
    BY <2>3
<1>8. QED
  BY <1>3, <1>6, <1>7 DEF Rewritten, max

LEMMA SmallWidths ==
    ASSUME NEW w \in 0 .. 7
    PROVE  Var!Largest(w) <= 127
<1> DEFINE L(x) == Var!Largest(x)
<1>1. L(0) = 0 /\ \A x \in Nat : L(x + 1) = 2 * L(x) + 1
  BY LargestDoubles
<1> HIDE DEF L
<1>2. /\ L(0 + 1) = 2 * L(0) + 1 /\ L(1 + 1) = 2 * L(1) + 1 /\ L(2 + 1) = 2 * L(2) + 1
      /\ L(3 + 1) = 2 * L(3) + 1 /\ L(4 + 1) = 2 * L(4) + 1 /\ L(5 + 1) = 2 * L(5) + 1
      /\ L(6 + 1) = 2 * L(6) + 1
  BY <1>1
<1>3. /\ L(0) = 0 /\ L(1) = 1 /\ L(2) = 3 /\ L(3) = 7 /\ L(4) = 15 /\ L(5) = 31 /\ L(6) = 63
      /\ L(7) = 127
  BY <1>1, <1>2
<1>4. L(w) <= 127
  <2>1. w = 0 \/ w = 1 \/ w = 2 \/ w = 3 \/ w = 4 \/ w = 5 \/ w = 6 \/ w = 7
    OBVIOUS
  <2>2. QED
    BY <1>3, <2>1
<1>5. QED
  BY <1>4 DEF L

\* A number fits the buffer that is filled from its end (the assertion pos >= 0
\* of VarEncoding::writeInteger).
THEOREM IntegerFitsBuffer ==
    ASSUME NEW width \in Nat \ {0}, NEW n \in 0 .. Var!Largest(width)
    PROVE  Len(Var!writeInteger(n, width)) <= Var!BufferSize(width)
<1> DEFINE size(w) == (w + 6) \div 7
           T == {w \in Nat : w # 0 => \A m, v : WritesIntegers(m) /\ v \in Nat /\ v <= Var!Largest(w)
                                          => Len(Before(m, v)) + 1 <= size(w)}
           mu == [w \in Nat |-> w]
<1>1. mu \in [Nat -> Nat] /\ \A w \in Nat : mu[w] = w
  OBVIOUS
<1>2. \A w \in Nat : size(w) \in Nat /\ (w # 0 => 1 <= size(w)) /\ size(w + 7) = size(w) + 1
  OBVIOUS
<1> HIDE DEF mu, size
<1>3. ASSUME NEW w \in Nat, \A x \in Nat : mu[x] < mu[w] => x \in T
      PROVE  w \in T
  <2>1. SUFFICES ASSUME w # 0, NEW m, WritesIntegers(m), NEW v \in Nat, v <= Var!Largest(w)
                 PROVE  Len(Before(m, v)) + 1 <= size(w)
    OBVIOUS
  <2>2. CASE v < 128
    <3>1. Len(Before(m, v)) = 0
      BY <2>2, EmptySeq DEF Before
    <3>2. QED
      BY <1>2, <2>1, <3>1
  <2>3. CASE ~ (v < 128)
    <3> DEFINE x == w - 7
               u == v \div 128 - 1
               a == Before(m, u)
               b == (u % 128) + 128
               y == << b >>
    <3>1. ~ (w <= 7)
      <4>1. SUFFICES ASSUME w <= 7
                     PROVE  FALSE
        OBVIOUS
      <4>2. w \in 0 .. 7
        BY <4>1
      <4>3. Var!Largest(w) <= 127 /\ Var!Largest(w) \in Nat
        BY <4>2, SmallWidths, LargestIsNat
      <4>4. QED
        BY <2>1, <2>3, <4>3
    <3>2. x \in Nat /\ x # 0 /\ x + 7 = w /\ x < w
      BY <3>1
    <3>3. u \in Nat /\ u + 1 = v \div 128 /\ v \div 128 \in Nat /\ Before(m, v) = m[u]
      BY <2>3, Sevens DEF Before
    <3> HIDE DEF x
    <3>4. u <= Var!Largest(x)
      <4>1. v \div 128 <= Var!Largest(x) /\ Var!Largest(x) \in Nat
        BY <2>1, <3>2, SevenLess, LargestIsNat
      <4> HIDE DEF u
      <4>2. QED
        BY <3>3, <4>1
    <3> HIDE DEF u
    <3>5. Len(a) + 1 <= size(x)
      BY <1>1, <1>3, <2>1, <3>2, <3>3, <3>4
    <3>6. a \in Seq(Byte) /\ m[u] = a \o y
      BY <2>1, <3>3 DEF WritesIntegers
    <3>7. b \in Byte
      BY <3>3, Sevens, SevenIsByte
    <3> HIDE DEF a, b
    <3>8. y \in Seq(Byte) /\ Len(y) = 1
      BY <3>7
    <3> HIDE DEF y
    <3>9. Len(a \o y) = Len(a) + 1 /\ Len(a) \in Nat
      BY <3>6, <3>8, ByteAtEnd, LenProperties
    <3>10. size(w) = size(x) + 1 /\ size(x) \in Nat
      BY <1>2, <3>2
    <3>11. QED
      BY <3>3, <3>5, <3>6, <3>9, <3>10
  <2>4. QED
    BY <2>2, <2>3
<1> HIDE DEF T
<1>4. Nat \subseteq T
  BY <1>1, <1>3, MeasureInduction
<1>5. PICK m : WritesIntegers(m)
  BY IntegersAreWritten
<1>6. n \in Nat /\ n <= Var!Largest(width)
  BY LargestIsNat
<1>7. Len(Before(m, n)) + 1 <= size(width)
  BY <1>4, <1>5, <1>6 DEF T
<1> DEFINE a == Before(m, n)
           b == n % 128
           y == << b >>
<1>8. a \in Seq(Byte) /\ Var!writeInteger(n, width) = a \o y
  BY <1>5, <1>6 DEF WritesIntegers
<1>9. b \in Byte
  BY <1>6, Sevens, SevenIsByte
<1> HIDE DEF a, b
<1>10. y \in Seq(Byte) /\ Len(y) = 1
  BY <1>9
<1> HIDE DEF y
<1>11. Len(a \o y) = Len(a) + 1
  BY <1>8, <1>10, ByteAtEnd
<1>12. QED
  BY <1>7, <1>8, <1>11 DEF size, Var!BufferSize, a

-----------------------------------------------------------------------------
(* What is read of a stream stays when more follows. *)

\* q is the same as r, but for the stream going on with e.
Stays(r, q, e) == r.good => /\ r.rest \in Seq(Byte)
                            /\ q = Var!Good(r.value, r.rest \o e)

LEMMA BadStays ==
    ASSUME NEW q, NEW e
    PROVE  Stays(Var!Bad, q, e)
  BY DEF Stays, Var!Bad

LEMMA GoodStays ==
    ASSUME NEW v, NEW rest \in Seq(Byte), NEW e
    PROVE  Stays(Var!Good(v, rest), Var!Good(v, rest \o e), e)
  BY DEF Stays, Var!Good

LEMMA GoodParts ==
    ASSUME NEW v, NEW rest
    PROVE  /\ Var!Good(v, rest).good /\ Var!Good(v, rest).value = v
           /\ Var!Good(v, rest).rest = rest
  BY DEF Var!Good

LEMMA FrontStays ==
    ASSUME NEW s \in Seq(Byte), NEW e \in Seq(Byte), NEW n \in Nat, n <= Len(s)
    PROVE  /\ SubSeq(s, 1, n) \in Seq(Byte) /\ Var!Drop(s, n) \in Seq(Byte)
           /\ SubSeq(s \o e, 1, n) = SubSeq(s, 1, n)
           /\ Var!Drop(s \o e, n) = Var!Drop(s, n) \o e
<1> DEFINE a == SubSeq(s, 1, n)
           b == SubSeq(s, n + 1, Len(s))
<1>1. /\ Len(s) \in Nat /\ 1 \in 1 .. Len(s) + 1 /\ n \in 1 - 1 .. Len(s) /\ Len(s) \in n .. Len(s)
      /\ \A i \in 1 .. n : s[i] \in Byte
      /\ \A i \in n + 1 .. Len(s) : s[i] \in Byte
  <2>1. Len(s) \in Nat
    BY LenProperties
  <2>2. \A i \in 1 .. n : i \in 1 .. Len(s)
    BY <2>1
  <2>3. \A i \in n + 1 .. Len(s) : i \in 1 .. Len(s)
    BY <2>1
  <2>4. QED
    BY <2>1, <2>2, <2>3, ElementOfSeq
<1>2. a \o b = s
  <2>1. a \o b = SubSeq(s, 1, Len(s))
    BY <1>1, ConcatAdjacentSubSeq
  <2>2. QED
    BY <2>1, SubSeqFull
<1>3. a \in Seq(Byte) /\ Len(a) = n
  <2>1. 1 \in Int /\ n \in Int
    OBVIOUS
  <2>2. a \in Seq(Byte) /\ Len(a) = IF 1 <= n THEN n - 1 + 1 ELSE 0
    BY <1>1, <2>1, SubSeqProperties
  <2>3. QED
    BY <2>2
<1>4. b \in Seq(Byte)
  <2>1. n + 1 \in Int /\ Len(s) \in Int
    BY <1>1
  <2>2. QED
    BY <1>1, <2>1, SubSeqProperties
<1>5. b = Var!Drop(s, n)
  BY DEF Var!Drop
<1> HIDE DEF a, b
<1>6. b \o e \in Seq(Byte) /\ s \o e = a \o (b \o e)
  <2>1. (a \o b) \o e = a \o (b \o e) /\ b \o e \in Seq(Byte)
    BY <1>3, <1>4, Joined
  <2>2. QED
    BY <1>2, <2>1
<1> DEFINE t == b \o e
<1>7. SubSeq(a \o t, 1, n) = a /\ Var!Drop(a \o t, n) = t
  <2> HIDE DEF t
  <2>1. t \in Seq(Byte)
    BY <1>6 DEF t
  <2>2. QED
    BY <1>3, <2>1, Parts
<1>8. SubSeq(s \o e, 1, n) = a /\ Var!Drop(s \o e, n) = t
  BY <1>6, <1>7
<1>9. QED
  BY <1>3, <1>4, <1>5, <1>8 DEF a

LEMMA TailStays ==
    ASSUME NEW s \in Seq(Byte), s # << >>, NEW e \in Seq(Byte)
    PROVE  /\ s \o e # << >> /\ (s \o e)[1] = s[1] /\ s[1] \in Byte
           /\ Tail(s) \in Seq(Byte) /\ Tail(s \o e) = Tail(s) \o e
<1>1. Len(s) \in Nat /\ Len(s) # 0 /\ Len(e) \in Nat
  BY LenProperties, EmptySeq
<1>2. 1 \in 1 .. Len(s) /\ Len(s) \in 1 .. Len(s)
  BY <1>1
<1>3. s[1] \in Byte
  BY <1>2, ElementOfSeq
<1>4. Tail(s) \in Seq(Byte)
  BY HeadTailProperties
<1>5. s = << s[1] >> \o Tail(s)
  <2>1. SubSeq(s, 1, Len(s)) = << s[1] >> \o SubSeq(s, 1 + 1, Len(s))
    BY <1>2, SubSeqRecursiveFirst
  <2>2. SubSeq(s, 1, Len(s)) = s
    BY SubSeqFull
  <2>3. Tail(s) = SubSeq(s, 2, Len(s))
    BY TailIsSubSeq
  <2>4. QED
    BY <2>1, <2>2, <2>3
<1> DEFINE x == s[1]
           a == << x >>
           t == Tail(s)
           u == t \o e
<1>6. a \in Seq(Byte) /\ t \in Seq(Byte) /\ s = a \o t /\ x \in Byte
  BY <1>3, <1>4, <1>5
<1> HIDE DEF a, t, x
<1>7. u \in Seq(Byte) /\ s \o e = a \o u
  BY <1>6, Joined DEF u
<1> HIDE DEF u
<1>8. a \o u # << >> /\ (a \o u)[1] = x /\ Tail(a \o u) = u
  BY <1>6, <1>7, FirstOfStream DEF a
<1>9. QED
  BY <1>3, <1>4, <1>7, <1>8 DEF t, u, x

LEMMA FixedStays ==
    ASSUME NEW s \in Seq(Byte), NEW e \in Seq(Byte), NEW size \in Nat
    PROVE  /\ Stays(Var!ReadFixed(s, size), Var!ReadFixed(s \o e, size), e)
           /\ Var!ReadFixed(s, size).good => Var!ReadFixed(s, size).value \in Nat
<1>1. CASE Len(s) < size
  <2>1. Var!ReadFixed(s, size) = Var!Bad
    BY <1>1 DEF Var!ReadFixed
  <2>2. QED
    BY <2>1, BadStays DEF Var!Bad
<1>2. CASE ~ (Len(s) < size)
  <2> DEFINE a == SubSeq(s, 1, size)
             b == Var!Drop(s, size)
             v == Var!Value(a)
  <2>1. size <= Len(s) /\ ~ (Len(s \o e) < size)
    <3>1. Len(s \o e) = Len(s) + Len(e) /\ Len(s) \in Nat /\ Len(e) \in Nat
      BY ConcatProperties, LenProperties
    <3>2. QED
      BY <1>2, <3>1
  <2>2. /\ a \in Seq(Byte) /\ b \in Seq(Byte)
        /\ SubSeq(s \o e, 1, size) = a /\ Var!Drop(s \o e, size) = b \o e
    BY <2>1, FrontStays
  <2>3. Var!ReadFixed(s, size) = Var!Good(v, b)
    BY <1>2 DEF Var!ReadFixed
  <2>4. Var!ReadFixed(s \o e, size) = Var!Good(v, b \o e)
    BY <2>1, <2>2 DEF Var!ReadFixed
  <2>5. v \in Nat
    BY <2>2, ValueIsNat, SameValue
  <2> HIDE DEF a, b, v
  <2>6. Stays(Var!Good(v, b), Var!Good(v, b \o e), e)
    BY <2>2, GoodStays
  <2>7. QED
    BY <2>3, <2>4, <2>5, <2>6 DEF Var!Good
<1>3. QED
  BY <1>1, <1>2

\* What the first byte of a size says of the rest.
Tagged(b, t) == CASE b = 253 -> Var!ReadFixed(t, 2)
                  [] b = 254 -> Var!ReadFixed(t, 4)
                  [] b = 255 -> Var!ReadFixed(t, 8)
                  [] OTHER -> Var!Good(b, t)

LEMMA SizeStays ==
    ASSUME NEW s \in Seq(Byte), NEW e \in Seq(Byte)
    PROVE  /\ Stays(Var!readCompactSize(s), Var!readCompactSize(s \o e), e)
           /\ Var!readCompactSize(s).good => Var!readCompactSize(s).value \in Nat
<1>1. CASE s = << >>
  <2>1. Var!readCompactSize(s) = Var!Bad
    BY <1>1 DEF Var!readCompactSize
  <2>2. QED
    BY <2>1, BadStays DEF Var!Bad
<1>2. CASE s # << >>
  <2> DEFINE b == s[1]
             t == Tail(s)
  <2>1. /\ s \o e # << >> /\ (s \o e)[1] = b /\ b \in Byte
        /\ t \in Seq(Byte) /\ Tail(s \o e) = t \o e
    BY <1>2, TailStays
  <2> DEFINE u == s \o e
             x == t \o e
  <2>2. s # << >> /\ s[1] = b /\ Tail(s) = t /\ u # << >> /\ u[1] = b /\ Tail(u) = x
    BY <1>2, <2>1
  <2> HIDE DEF b, t, u, x
  <2>3. /\ Var!readCompactSize(s) = Tagged(b, t)
        /\ Var!readCompactSize(u) = Tagged(b, x)
    <3>1. \A w : (w # << >> /\ w[1] = b) => Var!readCompactSize(w) = Tagged(b, Tail(w))
      BY DEF Var!readCompactSize, Tagged
    <3>2. Var!readCompactSize(s) = Tagged(b, Tail(s))
      BY <2>2, <3>1
    <3>3. Var!readCompactSize(u) = Tagged(b, Tail(u))
      BY <2>2, <3>1
    <3>4. QED
      BY <2>2, <3>2, <3>3
  <2>4. b \in Nat /\ 2 \in Nat /\ 4 \in Nat /\ 8 \in Nat
    BY <2>1, ByteValues
  <2>5. \A size \in Nat : /\ Stays(Var!ReadFixed(t, size), Var!ReadFixed(t \o e, size), e)
                          /\ Var!ReadFixed(t, size).good => Var!ReadFixed(t, size).value \in Nat
    BY <2>1, FixedStays
  <2>6. /\ Stays(Var!Good(b, t), Var!Good(b, t \o e), e)
        /\ Var!Good(b, t).good => Var!Good(b, t).value \in Nat
    BY <2>1, <2>4, GoodStays DEF Var!Good
  <2>7. /\ Stays(Tagged(b, t), Tagged(b, t \o e), e)
        /\ Tagged(b, t).good => Tagged(b, t).value \in Nat
    BY <2>4, <2>5, <2>6 DEF Tagged
  <2>8. QED
    BY <2>3, <2>7 DEF u, x
<1>3. QED
  BY <1>1, <1>2

LEMMA StringStays ==
    ASSUME NEW s \in Seq(Byte), NEW e \in Seq(Byte), NEW max
    PROVE  /\ Stays(Var!readString(s, max), Var!readString(s \o e, max), e)
           /\ Var!readString(s, max).good => Var!readString(s, max).value \in Seq(Byte)
<1> DEFINE r == Var!readCompactSize(s)
           q == Var!readCompactSize(s \o e)
           n == r.value
           t == r.rest
<1>1. Stays(r, q, e) /\ (r.good => n \in Nat)
  BY SizeStays
<1>2. Var!readString(s, max) = IF r.good THEN IF n > max \/ n > Len(t) THEN Var!Bad
                                              ELSE Var!Good(SubSeq(t, 1, n), Var!Drop(t, n))
                               ELSE Var!Bad
  BY DEF Var!readString, Var!Then
<1>3. Var!readString(s \o e, max) =
        IF q.good THEN IF q.value > max \/ q.value > Len(q.rest) THEN Var!Bad
                       ELSE Var!Good(SubSeq(q.rest, 1, q.value), Var!Drop(q.rest, q.value))
        ELSE Var!Bad
  BY DEF Var!readString, Var!Then
<1> HIDE DEF r, q
<1>4. CASE r.good /\ ~ (n > max \/ n > Len(t))
  <2> DEFINE a == SubSeq(t, 1, n)
             b == Var!Drop(t, n)
  <2>1. t \in Seq(Byte) /\ n \in Nat /\ q = Var!Good(n, t \o e)
    BY <1>1, <1>4 DEF Stays
  <2>2. q.good /\ q.value = n /\ q.rest = t \o e
    BY <2>1 DEF Var!Good
  <2> HIDE DEF n, t
  <2>3. n <= Len(t) /\ ~ (n > max \/ n > Len(t \o e))
    <3>1. Len(t \o e) = Len(t) + Len(e) /\ Len(t) \in Nat /\ Len(e) \in Nat
      BY <2>1, ConcatProperties, LenProperties
    <3>2. QED
      BY <1>4, <2>1, <3>1
  <2>4. /\ a \in Seq(Byte) /\ b \in Seq(Byte)
        /\ SubSeq(t \o e, 1, n) = a /\ Var!Drop(t \o e, n) = b \o e
    BY <2>1, <2>3, FrontStays
  <2> HIDE DEF a, b
  <2>5. Var!readString(s \o e, max) = Var!Good(a, b \o e)
    BY <1>3, <2>2, <2>3, <2>4
  <2>6. Var!readString(s, max) = Var!Good(a, b)
    BY <1>2, <1>4 DEF a, b
  <2>7. QED
    BY <2>4, <2>5, <2>6, GoodStays, GoodParts
<1>5. CASE ~ (r.good /\ ~ (n > max \/ n > Len(t)))
  <2>1. Var!readString(s, max) = Var!Bad
    BY <1>2, <1>5
  <2>2. QED
    BY <2>1, BadStays DEF Var!Bad
<1>6. QED
  BY <1>4, <1>5

\* What a reader takes for an item.
ReadableItems == [id : Byte, script : Seq(Byte)]

LEMMA ItemStays ==
    ASSUME NEW s \in Seq(Byte), NEW e \in Seq(Byte)
    PROVE  /\ Stays(Var!readItem(s), Var!readItem(s \o e), e)
           /\ Var!readItem(s).good => Var!readItem(s).value \in ReadableItems
<1>1. CASE s = << >>
  <2>1. Var!readItem(s) = Var!Bad
    BY <1>1 DEF Var!readItem
  <2>2. QED
    BY <2>1, BadStays DEF Var!Bad
<1>2. CASE s # << >>
  <2> DEFINE b == s[1]
             t == Tail(s)
             u == s \o e
             x == t \o e
             r == Var!readString(t, MaxScript)
             q == Var!readString(x, MaxScript)
             item(y) == [id |-> b, script |-> y.value]
  <2>1. u # << >> /\ u[1] = b /\ Tail(u) = x /\ t \in Seq(Byte) /\ b \in Byte
    BY <1>2, TailStays
  <2>2. Stays(r, q, e) /\ (r.good => r.value \in Seq(Byte))
    BY <2>1, StringStays
  <2>3. Var!readItem(s) = IF r.good THEN Var!Good(item(r), r.rest) ELSE Var!Bad
    BY <1>2 DEF Var!readItem, Var!Then
  <2>4. Var!readItem(u) = IF q.good THEN Var!Good(item(q), q.rest) ELSE Var!Bad
    <3> HIDE DEF u, x, t, b
    <3>1. QED
      BY <2>1 DEF Var!readItem, Var!Then
  <2> HIDE DEF b, t, x, r, q
  <2>5. CASE r.good
    <3>1. r.rest \in Seq(Byte) /\ q = Var!Good(r.value, r.rest \o e)
      BY <2>2, <2>5 DEF Stays
    <3>2. q.good /\ q.value = r.value /\ q.rest = r.rest \o e
      BY <3>1 DEF Var!Good
    <3>3. item(q) = item(r)
      BY <3>2
    <3> DEFINE v == item(r)
               rest == r.rest
    <3>4. Var!readItem(s) = Var!Good(v, rest) /\ Var!readItem(u) = Var!Good(v, rest \o e)
      BY <2>3, <2>4, <2>5, <3>2, <3>3
    <3>5. v \in ReadableItems
      BY <2>1, <2>2, <2>5 DEF ReadableItems
    <3> HIDE DEF v, rest
    <3>6. rest \in Seq(Byte)
      BY <3>1 DEF rest
    <3>7. QED
      BY <3>4, <3>5, <3>6, GoodStays, GoodParts
  <2>6. CASE ~ r.good
    <3>1. Var!readItem(s) = Var!Bad
      BY <2>3, <2>6
    <3>2. QED
      BY <3>1, BadStays DEF Var!Bad
  <2>7. QED
    BY <2>5, <2>6
<1>3. QED
  BY <1>1, <1>2

LEMMA AnotherStays ==
    ASSUME NEW e \in Seq(Byte), NEW r, NEW q, Stays(r, q, e)
    PROVE  Stays(Another(r), Another(q), e)
<1> DEFINE i == Var!readItem(r.rest)
           j == Var!readItem(q.rest)
<1>1. Another(r) = IF r.good THEN IF i.good THEN Var!Good(Append(r.value, i.value), i.rest)
                                            ELSE Var!Bad
                   ELSE Var!Bad
  BY DEF Another
<1>2. Another(q) = IF q.good THEN IF j.good THEN Var!Good(Append(q.value, j.value), j.rest)
                                            ELSE Var!Bad
                   ELSE Var!Bad
  BY DEF Another
<1>3. CASE r.good /\ i.good
  <2>1. r.rest \in Seq(Byte) /\ q = Var!Good(r.value, r.rest \o e)
    BY <1>3 DEF Stays
  <2>2. q.good /\ q.value = r.value /\ q.rest = r.rest \o e
    BY <2>1 DEF Var!Good
  <2>3. Stays(i, j, e)
    BY <2>1, <2>2, ItemStays
  <2> HIDE DEF i, j
  <2>4. i.rest \in Seq(Byte) /\ j = Var!Good(i.value, i.rest \o e)
    BY <1>3, <2>3 DEF Stays
  <2>5. j.good /\ j.value = i.value /\ j.rest = i.rest \o e
    BY <2>4 DEF Var!Good
  <2> DEFINE v == Append(r.value, i.value)
             rest == i.rest
  <2>6. Another(r) = Var!Good(v, rest) /\ Another(q) = Var!Good(v, rest \o e)
    BY <1>1, <1>2, <1>3, <2>2, <2>5
  <2> HIDE DEF v, rest
  <2>7. rest \in Seq(Byte)
    BY <2>4 DEF rest
  <2>8. QED
    BY <2>6, <2>7, GoodStays
<1>4. CASE ~ (r.good /\ i.good)
  <2>1. Another(r) = Var!Bad
    BY <1>1, <1>4
  <2>2. QED
    BY <2>1, BadStays
<1>5. QED
  BY <1>3, <1>4

\* The results of a reader of items.
ItemsRead == {Var!Bad} \cup
             {Var!Good(v, rest) : v \in Seq(ReadableItems), rest \in Seq(Byte)}

LEMMA AnotherIsRead ==
    ASSUME NEW r \in ItemsRead
    PROVE  Another(r) \in ItemsRead
<1> DEFINE i == Var!readItem(r.rest)
           X == Seq(ReadableItems)
           Y == Seq(Byte)
<1>1. Another(r) = IF r.good THEN IF i.good THEN Var!Good(Append(r.value, i.value), i.rest)
                                            ELSE Var!Bad
                   ELSE Var!Bad
  BY DEF Another
<1>2. CASE r.good /\ i.good
  <2>1. r.value \in X /\ r.rest \in Y
    <3>1. r # Var!Bad
      BY <1>2 DEF Var!Bad
    <3>2. PICK v \in X, rest \in Y : r = Var!Good(v, rest)
      BY <3>1 DEF ItemsRead
    <3> HIDE DEF X, Y
    <3>3. QED
      BY <3>2 DEF Var!Good
  <2>2. i.value \in ReadableItems /\ i.rest \in Y
    <3>1. << >> \in Seq(Byte)
      BY EmptySeq
    <3>2. /\ Stays(i, Var!readItem(r.rest \o << >>), << >>)
          /\ i.good => i.value \in ReadableItems
      BY <2>1, <3>1, ItemStays
    <3>3. QED
      BY <1>2, <3>2 DEF Stays
  <2> DEFINE v == Append(r.value, i.value)
             rest == i.rest
  <2>3. Another(r) = Var!Good(v, rest)
    BY <1>1, <1>2
  <2> HIDE DEF i
  <2>4. v \in X
    <3> DEFINE Z == ReadableItems
               s == r.value
               x == i.value
    <3>1. s \in Seq(Z) /\ x \in Z
      BY <2>1, <2>2
    <3> HIDE DEF s, x, Z
    <3>2. Append(s, x) \in Seq(Z)
      BY <3>1
    <3>3. QED
      BY <3>2 DEF s, x, Z
  <2>5. rest \in Y
    BY <2>2
  <2> HIDE DEF v, rest
  <2>6. QED
    BY <2>3, <2>4, <2>5 DEF ItemsRead
<1>3. CASE ~ (r.good /\ i.good)
  BY <1>1, <1>3 DEF ItemsRead
<1>4. QED
  BY <1>2, <1>3

\* The loop of the reader.
ReadsOneByOne(f, s, n) == /\ f[0] = Var!Good(<< >>, s)
                          /\ \A k \in 1 .. n : f[k] = Another(f[k - 1])

HasItemsLoop(s, n) == \E f : ReadsOneByOne(f, s, n) /\ Var!ReadItems(s, n) = f[n]

LEMMA ItemsLoopExists ==
    ASSUME NEW s \in Seq(Byte), NEW n \in Nat
    PROVE  HasItemsLoop(s, n)
<1> DEFINE S == 0 .. n
           X == ItemsRead
           x0 == Var!Good(<< >>, s)
           step == [p \in (1 .. n) \X X |-> Another(p[2])]
           E(k, g) == IF k = 0 THEN x0 ELSE Another(g[k - 1])
           read == CHOOSE g : g = [k \in S |-> E(k, g)]
<1>1. x0 \in X
  <2> DEFINE none == << >>
  <2>1. none \in Seq(ReadableItems)
    BY EmptySeq
  <2> HIDE DEF none
  <2>2. Var!Good(none, s) \in ItemsRead
    BY <2>1 DEF ItemsRead
  <2>3. QED
    BY <2>2 DEF none
<1>2. \A x \in X : Another(x) \in X
  BY AnotherIsRead
<1>3. Var!ReadItems(s, n) = read[n]
  BY DEF Var!ReadItems, Var!Then, Another
<1>4. x0 = Var!Good(<< >>, s)
  OBVIOUS
<1> HIDE DEF x0, X
<1>5. /\ step \in [(1 .. n) \X X -> X]
      /\ \A k \in 1 .. n, x \in X : step[<< k, x >>] = Another(x)
  BY <1>2
<1> HIDE DEF step
<1>6. HasRun(n, X, x0, step)
  BY <1>1, <1>5, RunExists
<1>7. PICK f : RunsThrough(f, n, X, x0, step)
  BY <1>6 DEF HasRun
<1>8. f \in [0 .. n -> X] /\ f[0] = x0 /\ \A k \in 1 .. n : f[k] = Another(f[k - 1])
  <2>1. \A k \in 1 .. n : k - 1 \in 0 .. n
    OBVIOUS
  <2>2. f \in [0 .. n -> X] /\ f[0] = x0 /\ \A k \in 1 .. n : f[k] = step[<< k, f[k - 1] >>]
    BY <1>7 DEF RunsThrough
  <2>3. QED
    BY <1>5, <2>1, <2>2
<1>9. \A k \in S : k = 0 \/ (k \in 1 .. n /\ k # 0)
  OBVIOUS
<1>10. 0 \in S /\ \A k \in 1 .. n : k \in S /\ k # 0
  OBVIOUS
<1>11. f = [k \in S |-> E(k, f)]
  <2>1. \A k \in S : f[k] = E(k, f)
    BY <1>8, <1>9
  <2> HIDE DEF E
  <2>2. QED
    BY <1>8, <2>1
<1>12. read = [k \in S |-> E(k, read)]
  <2> HIDE DEF E
  <2>1. QED
    BY <1>11, ZenonT(30)
<1> HIDE DEF read, S
<1>13. \A k \in S : read[k] = E(k, read)
  <2> HIDE DEF E
  <2>1. QED
    BY <1>12
<1>14. read[0] = x0 /\ \A k \in 1 .. n : read[k] = Another(read[k - 1])
  BY <1>10, <1>13
<1>15. ReadsOneByOne(read, s, n)
  BY <1>4, <1>14 DEF ReadsOneByOne
<1>16. QED
  BY <1>3, <1>15 DEF HasItemsLoop

LEMMA ItemsStay ==
    ASSUME NEW s \in Seq(Byte), NEW e \in Seq(Byte), NEW n \in Nat
    PROVE  Stays(Var!ReadItems(s, n), Var!ReadItems(s \o e, n), e)
<1> DEFINE u == s \o e
<1>1. u \in Seq(Byte)
  BY ConcatProperties
<1>2. Stays(Var!Good(<< >>, s), Var!Good(<< >>, u), e)
  BY GoodStays
<1> HIDE DEF u
<1>3. HasItemsLoop(s, n) /\ HasItemsLoop(u, n)
  BY <1>1, ItemsLoopExists
<1>4. PICK f : ReadsOneByOne(f, s, n) /\ Var!ReadItems(s, n) = f[n]
  BY <1>3 DEF HasItemsLoop
<1>5. PICK g : ReadsOneByOne(g, u, n) /\ Var!ReadItems(u, n) = g[n]
  BY <1>3 DEF HasItemsLoop
<1> DEFINE T == {k \in Nat : k <= n => Stays(f[k], g[k], e)}
<1>6. 0 \in T
  BY <1>2, <1>4, <1>5 DEF ReadsOneByOne
<1>7. ASSUME NEW k \in Nat, k \in T
      PROVE  k + 1 \in T
  <2> DEFINE m == k + 1
  <2>1. SUFFICES ASSUME m <= n
                 PROVE  Stays(f[m], g[m], e)
    OBVIOUS
  <2>2. m \in 1 .. n /\ m - 1 = k /\ k <= n
    BY <2>1
  <2>3. Stays(f[k], g[k], e)
    BY <1>7, <2>2
  <2> HIDE DEF m, T
  <2>4. f[m] = Another(f[k]) /\ g[m] = Another(g[k])
    <3>1. f[m] = Another(f[m - 1]) /\ g[m] = Another(g[m - 1])
      BY <1>4, <1>5, <2>2 DEF ReadsOneByOne
    <3>2. QED
      BY <2>2, <3>1
  <2> DEFINE x == f[k]
             y == g[k]
  <2>5. Stays(x, y, e)
    BY <2>3
  <2> HIDE DEF x, y
  <2>6. Stays(Another(x), Another(y), e)
    BY <2>5, AnotherStays
  <2>7. QED
    BY <2>4, <2>6 DEF x, y
<1> HIDE DEF T
<1>8. Nat \subseteq T
  BY <1>6, <1>7, Induction
<1>9. Stays(f[n], g[n], e)
  <2>1. n \in T
    BY <1>8
  <2>2. QED
    BY <2>1 DEF T
<1>10. QED
  BY <1>4, <1>5, <1>9 DEF u

LEMMA VectorStays ==
    ASSUME NEW s \in Seq(Byte), NEW e \in Seq(Byte)
    PROVE  Stays(Var!readVector(s), Var!readVector(s \o e), e)
<1> DEFINE u == s \o e
           r == Var!readCompactSize(s)
           q == Var!readCompactSize(u)
           n == r.value
           t == r.rest
<1>1. Stays(r, q, e) /\ (r.good => n \in Nat)
  BY SizeStays
<1>2. Var!readVector(s) = IF r.good THEN IF n > MaxItems THEN Var!Bad ELSE Var!ReadItems(t, n)
                          ELSE Var!Bad
  BY DEF Var!readVector, Var!Then
<1>3. Var!readVector(u) = IF q.good THEN IF q.value > MaxItems THEN Var!Bad
                                         ELSE Var!ReadItems(q.rest, q.value)
                          ELSE Var!Bad
  BY DEF Var!readVector, Var!Then
<1> HIDE DEF r, q
<1>4. CASE r.good /\ ~ (n > MaxItems)
  <2>1. t \in Seq(Byte) /\ n \in Nat /\ q = Var!Good(n, t \o e)
    BY <1>1, <1>4 DEF Stays
  <2>2. q.good /\ q.value = n /\ q.rest = t \o e
    BY <2>1, GoodParts
  <2>3. Var!readVector(s) = Var!ReadItems(t, n) /\ Var!readVector(u) = Var!ReadItems(t \o e, n)
    BY <1>2, <1>3, <1>4, <2>2
  <2> HIDE DEF t, n
  <2>4. Stays(Var!ReadItems(t, n), Var!ReadItems(t \o e, n), e)
    BY <2>1, ItemsStay
  <2>5. QED
    BY <2>3, <2>4
<1>5. CASE ~ (r.good /\ ~ (n > MaxItems))
  <2>1. Var!readVector(s) = Var!Bad
    BY <1>2, <1>5
  <2>2. QED
    BY <2>1, BadStays
<1>6. QED
  BY <1>4, <1>5

LEMMA InputsStay ==
    ASSUME NEW s \in Seq(Byte), NEW e \in Seq(Byte), NEW held
    PROVE  Stays(Var!readInputs(s, held), Var!readInputs(s \o e, held), e)
<1> DEFINE u == s \o e
           r == Var!readVector(s)
           q == Var!readVector(u)
           v == r.value
           t == r.rest
           allowed == Var!isWitnessAllowed(held)
           After(x) == IF ~ allowed \/ x.value # << >> THEN Var!Good(x.value, x.rest)
                       ELSE IF x.rest = << >> THEN Var!Bad
                       ELSE IF x.rest[1] = 0 THEN Var!Good(<< >>, Tail(x.rest))
                       ELSE Var!readVector(Tail(x.rest))
<1>1. Stays(r, q, e)
  BY VectorStays
<1>2. /\ Var!readInputs(s, held) = IF r.good THEN After(r) ELSE Var!Bad
      /\ Var!readInputs(u, held) = IF q.good THEN After(q) ELSE Var!Bad
  BY DEF Var!readInputs, Var!Then
<1> HIDE DEF r, q, allowed
<1>3. CASE ~ r.good
  <2>1. Var!readInputs(s, held) = Var!Bad
    BY <1>2, <1>3
  <2>2. QED
    BY <2>1, BadStays
<1>4. CASE r.good
  <2> DEFINE x == t \o e
  <2>1. t \in Seq(Byte) /\ q = Var!Good(v, x)
    BY <1>1, <1>4 DEF Stays
  <2>2. q.good /\ q.value = v /\ q.rest = x
    BY <2>1, GoodParts
  <2>3. Var!readInputs(s, held) = After(r) /\ Var!readInputs(u, held) = After(q)
    BY <1>2, <1>4, <2>2
  <2>4. CASE ~ allowed \/ v # << >>
    <3>1. After(r) = Var!Good(v, t) /\ After(q) = Var!Good(v, x)
      BY <2>2, <2>4
    <3> HIDE DEF v, t, After
    <3>2. QED
      BY <2>1, <2>3, <3>1, GoodStays
  <2>5. CASE allowed /\ v = << >> /\ t = << >>
    <3>1. Var!readInputs(s, held) = Var!Bad
      BY <2>3, <2>5
    <3>2. QED
      BY <3>1, BadStays
  <2>6. CASE allowed /\ v = << >> /\ t # << >>
    <3> DEFINE b == t[1]
               y == Tail(t)
    <3>1. After(r) = IF b = 0 THEN Var!Good(<< >>, y) ELSE Var!readVector(y)
      BY <2>6
    <3>2. After(q) = IF x = << >> THEN Var!Bad
                     ELSE IF x[1] = 0 THEN Var!Good(<< >>, Tail(x)) ELSE Var!readVector(Tail(x))
      BY <2>2, <2>6
    <3> HIDE DEF v, t, After
    <3>3. x # << >> /\ x[1] = b /\ y \in Seq(Byte) /\ Tail(x) = y \o e
      BY <2>1, <2>6, TailStays
    <3> HIDE DEF x, b, y
    <3>4. After(q) = IF b = 0 THEN Var!Good(<< >>, y \o e) ELSE Var!readVector(y \o e)
      BY <3>2, <3>3
    <3>5. /\ Stays(Var!Good(<< >>, y), Var!Good(<< >>, y \o e), e)
          /\ Stays(Var!readVector(y), Var!readVector(y \o e), e)
      BY <3>3, GoodStays, VectorStays
    <3>6. QED
      BY <2>3, <3>1, <3>4, <3>5
  <2>7. QED
    BY <2>4, <2>5, <2>6
<1>5. QED
  BY <1>3, <1>4

LEMMA TransactionStays ==
    ASSUME NEW s \in Seq(Byte), NEW e \in Seq(Byte), NEW held
    PROVE  Stays(Var!readTransaction(s, held), Var!readTransaction(s \o e, held), e)
<1> DEFINE u == s \o e
           Made(b, i, o, l) ==
               Var!Good([version |-> b, inputs |-> i, outputs |-> o,
                         witness |-> [k \in DOMAIN i |-> << >>], lockTime |-> l[1]], Tail(l))
           Outputs(b, i, q) == IF q.good THEN IF q.rest = << >> THEN Var!Bad
                                              ELSE Made(b, i, q.value, q.rest)
                               ELSE Var!Bad
           Read(b, r) == IF r.good THEN Outputs(b, r.value, Var!readVector(r.rest)) ELSE Var!Bad
<1>1. CASE s = << >>
  <2>1. Var!readTransaction(s, held) = Var!Bad
    BY <1>1 DEF Var!readTransaction
  <2>2. QED
    BY <2>1, BadStays
<1>2. CASE s # << >>
  <2> DEFINE b == s[1]
             t == Tail(s)
             x == t \o e
             r == Var!readInputs(t, held)
             q == Var!readInputs(x, held)
  <2>1. u # << >> /\ u[1] = b /\ Tail(u) = x /\ t \in Seq(Byte)
    BY <1>2, TailStays
  <2>2. \A w : w # << >> => Var!readTransaction(w, held) = Read(w[1], Var!readInputs(Tail(w), held))
    BY DEF Var!readTransaction, Var!Then
  <2> HIDE DEF Read
  <2>3. Var!readTransaction(s, held) = Read(b, r)
    BY <1>2, <2>2
  <2>4. Var!readTransaction(u, held) = Read(b, q)
    <3> HIDE DEF u, b, x
    <3>1. Var!readTransaction(u, held) = Read(u[1], Var!readInputs(Tail(u), held))
      BY <2>1, <2>2
    <3>2. QED
      BY <2>1, <3>1
  <2>5. Stays(r, q, e)
    BY <2>1, InputsStay
  <2> HIDE DEF b, t, x, r, q
  <2>6. CASE ~ r.good
    <3>1. Read(b, r) = Var!Bad
      BY <2>6 DEF Read
    <3>2. QED
      BY <2>3, <3>1, BadStays
  <2>7. CASE r.good
    <3> DEFINE i == r.value
               y == r.rest
               p == Var!readVector(y)
               z == Var!readVector(y \o e)
    <3>1. y \in Seq(Byte) /\ q = Var!Good(i, y \o e)
      BY <2>5, <2>7 DEF Stays
    <3>2. q.good /\ q.value = i /\ q.rest = y \o e
      BY <3>1, GoodParts
    <3> HIDE DEF Outputs
    <3>3. Read(b, r) = Outputs(b, i, p) /\ Read(b, q) = Outputs(b, i, z)
      BY <2>7, <3>2 DEF Read
    <3> HIDE DEF i, y
    <3>4. Stays(p, z, e)
      BY <3>1, VectorStays
    <3> HIDE DEF p, z
    <3>5. CASE ~ (p.good /\ p.rest # << >>)
      <4>1. Outputs(b, i, p) = Var!Bad
        BY <3>5 DEF Outputs
      <4>2. QED
        BY <2>3, <3>3, <4>1, BadStays
    <3>6. CASE p.good /\ p.rest # << >>
      <4> DEFINE o == p.value
                 l == p.rest
                 m == l \o e
      <4>1. l \in Seq(Byte) /\ l # << >> /\ z = Var!Good(o, m)
        BY <3>4, <3>6 DEF Stays
      <4>2. z.good /\ z.value = o /\ z.rest = m
        <5> HIDE DEF o, m
        <5>1. QED
          BY <4>1, GoodParts
      <4> HIDE DEF Made
      <4>3. Outputs(b, i, p) = Made(b, i, o, l)
        BY <3>6 DEF Outputs
      <4> HIDE DEF o, l
      <4>4. m # << >> /\ m[1] = l[1] /\ Tail(l) \in Seq(Byte) /\ Tail(m) = Tail(l) \o e
        BY <4>1, TailStays
      <4> HIDE DEF m
      <4>5. Outputs(b, i, z) = Made(b, i, o, m)
        BY <4>2, <4>4 DEF Outputs
      <4> DEFINE tx == [version |-> b, inputs |-> i, outputs |-> o,
                        witness |-> [k \in DOMAIN i |-> << >>], lockTime |-> l[1]]
                 more == Tail(l)
      <4>6. Made(b, i, o, l) = Var!Good(tx, more) /\ Made(b, i, o, m) = Var!Good(tx, more \o e)
        BY <4>4 DEF Made
      <4> HIDE DEF tx
      <4>7. more \in Seq(Byte)
        BY <4>4
      <4> HIDE DEF more
      <4>8. Stays(Var!Good(tx, more), Var!Good(tx, more \o e), e)
        BY <4>7, GoodStays
      <4>9. QED
        BY <2>3, <2>4, <3>3, <4>3, <4>5, <4>6, <4>8
    <3>7. QED
      BY <3>5, <3>6
  <2>8. QED
    BY <2>6, <2>7
<1>3. QED
  BY <1>1, <1>2

-----------------------------------------------------------------------------
(* A part of a stream. *)

\* A stream goes on after each of its parts.
GoesOn(w, k) == \E e \in Seq(Byte) : /\ e # << >> /\ SubSeq(w, 1, k) \in Seq(Byte)
                                     /\ w = SubSeq(w, 1, k) \o e

LEMMA StreamGoesOn ==
    ASSUME NEW w \in Seq(Byte), NEW k \in 0 .. Len(w) - 1
    PROVE  GoesOn(w, k)
<1> DEFINE a == SubSeq(w, 1, k)
           e == SubSeq(w, k + 1, Len(w))
<1>1. Len(w) \in Nat /\ k \in Nat /\ k < Len(w)
  BY LenProperties
<1>2. 1 \in 1 .. Len(w) + 1 /\ k \in 1 - 1 .. Len(w) /\ Len(w) \in k .. Len(w)
  BY <1>1
<1>3. a \o e = w
  <2>1. a \o e = SubSeq(w, 1, Len(w))
    BY <1>2, ConcatAdjacentSubSeq
  <2>2. QED
    BY <2>1, SubSeqFull
<1>4. a \in Seq(Byte) /\ Len(a) = k /\ Var!Drop(w, k) \in Seq(Byte)
  <2>1. Var!Drop(w, k) \in Seq(Byte) /\ a \in Seq(Byte)
    BY <1>1, EmptySeq, FrontStays
  <2>2. \A i \in 1 .. k : w[i] \in Byte
    <3>1. \A i \in 1 .. k : i \in 1 .. Len(w)
      BY <1>1
    <3>2. QED
      BY <3>1, ElementOfSeq
  <2>3. 1 \in Int /\ k \in Int
    BY <1>1
  <2>4. Len(a) = IF 1 <= k THEN k - 1 + 1 ELSE 0
    BY <2>2, <2>3, SubSeqProperties
  <2>5. QED
    BY <1>1, <2>1, <2>4
<1>5. e \in Seq(Byte)
  BY <1>4 DEF Var!Drop
<1> HIDE DEF a, e
<1>6. Len(w) = Len(a) + Len(e)
  BY <1>3, <1>4, <1>5, ConcatProperties
<1>7. e # << >>
  <2>1. Len(e) # 0
    BY <1>1, <1>4, <1>6
  <2>2. QED
    BY <2>1, EmptySeq
<1>8. QED
  BY <1>3, <1>4, <1>5, <1>7 DEF GoesOn, a

\* What is bad, or takes a whole stream, was not read from a part of it.
LEMMA PartIsNotRead ==
    ASSUME NEW e \in Seq(Byte), e # << >>, NEW r, NEW q, Stays(r, q, e),
           q = Var!Bad \/ \E v : q = Var!Good(v, << >>)
    PROVE  ~ r.good
<1>1. SUFFICES ASSUME r.good
               PROVE  FALSE
  OBVIOUS
<1> DEFINE t == r.rest
           u == t \o e
<1>2. t \in Seq(Byte) /\ q = Var!Good(r.value, u)
  BY <1>1 DEF Stays
<1>3. q.good /\ q.rest = u
  BY <1>2, GoodParts
<1>4. u # << >>
  <2> HIDE DEF t
  <2>1. Len(u) = Len(t) + Len(e) /\ Len(t) \in Nat /\ Len(e) \in Nat /\ Len(e) # 0
    BY <1>2, ConcatProperties, LenProperties, EmptySeq
  <2>2. Len(u) # 0
    BY <2>1
  <2>3. QED
    BY <2>2, EmptySeq
<1> HIDE DEF u
<1>5. CASE q = Var!Bad
  BY <1>3, <1>5 DEF Var!Bad
<1>6. CASE \E v : q = Var!Good(v, << >>)
  <2>1. q.rest = << >>
    BY <1>6, GoodParts
  <2>2. QED
    BY <1>3, <1>4, <2>1
<1>7. QED
  BY <1>5, <1>6

\* A size is read from no part of its bytes (readCompactSize).
THEOREM SizeNeedsItsBytes ==
    ASSUME NEW n, Bits64(n), NEW k \in 0 .. Len(Var!writeCompactSize(n)) - 1
    PROVE  ~ Var!readCompactSize(SubSeq(Var!writeCompactSize(n), 1, k)).good
<1> DEFINE w == Var!writeCompactSize(n)
           none == << >>
           a == SubSeq(w, 1, k)
<1>1. none \in Seq(Byte) /\ none = << >>
  BY EmptySeq
<1> HIDE DEF none
<1>2. w \in Seq(Byte) /\ Var!readCompactSize(w \o none) = Var!Good(n, none)
  BY <1>1, SizeReadsBack
<1> HIDE DEF w
<1>3. w \o none = w
  BY <1>1, <1>2, ConcatEmptySeq
<1>4. GoesOn(w, k)
  BY <1>2, StreamGoesOn DEF w
<1>5. PICK e \in Seq(Byte) : e # << >> /\ a \in Seq(Byte) /\ w = a \o e
  BY <1>4 DEF GoesOn
<1> HIDE DEF a
<1>6. Stays(Var!readCompactSize(a), Var!readCompactSize(w), e)
  BY <1>5, SizeStays
<1>7. Var!readCompactSize(w) = Var!Good(n, << >>)
  BY <1>1, <1>2, <1>3
<1>8. ~ Var!readCompactSize(a).good
  BY <1>5, <1>6, <1>7, PartIsNotRead
<1>9. QED
  BY <1>8 DEF a, w

\* A transaction written without its witness is read from no part of its bytes
\* (operator>> of Transaction).
THEOREM TransactionNeedsItsBytes ==
    ASSUME NEW tx \in Transactions, ~ Var!needWitness(tx), NEW held,
           NEW k \in 0 .. Len(Var!writeTransaction(tx)) - 1
    PROVE  ~ Var!readTransaction(SubSeq(Var!writeTransaction(tx), 1, k), held).good
<1> DEFINE w == Var!writeTransaction(tx)
           none == << >>
           a == SubSeq(w, 1, k)
<1>1. none \in Seq(Byte) /\ none = << >>
  BY EmptySeq
<1> HIDE DEF none
<1>2. /\ w \in Seq(Byte)
      /\ Var!readTransaction(w \o none, held) = 
            IF Allowed(tx) THEN Var!Good(WithoutWitness(tx), none) ELSE Var!Bad
  BY <1>1, TransactionIsRead, TransactionReadsBack
<1> HIDE DEF w
<1>3. w \o none = w
  BY <1>1, <1>2, ConcatEmptySeq
<1>4. GoesOn(w, k)
  BY <1>2, StreamGoesOn DEF w
<1>5. PICK e \in Seq(Byte) : e # << >> /\ a \in Seq(Byte) /\ w = a \o e
  BY <1>4 DEF GoesOn
<1> HIDE DEF a
<1>6. Stays(Var!readTransaction(a, held), Var!readTransaction(w, held), e)
  BY <1>5, TransactionStays
<1>7. Var!readTransaction(w, held) = Var!Bad \/ Var!readTransaction(w, held) = Var!Good(WithoutWitness(tx), << >>)
  BY <1>1, <1>2, <1>3
<1>8. ~ Var!readTransaction(a, held).good
  BY <1>5, <1>6, <1>7, PartIsNotRead
<1>9. QED
  BY <1>8 DEF a, w

-----------------------------------------------------------------------------
(* The runs of the algorithms. *)

Returned(kind, result) == input.kind = kind => output = result

\* An input is what the run began with; once it is done, the output is what the
\* algorithm of its kind returned.
RunInv ==
    /\ input \in Inputs
    /\ done =>
        /\ Returned("locator", Walk!getLocator(input.tree, input.block))
        /\ Returned("common", Walk!findLastCommonAncestor(input.tree, input.x, input.y))
        /\ Returned("size", Var!writeCompactSize(input.size))
        /\ Returned("integer", Var!writeInteger(input.n, input.width))
        /\ Returned("stream", Var!readInteger(input.bytes, input.width))
        /\ Returned("transaction", Var!writeTransaction(input.tx))
        /\ Returned("coin", Var!writeCoinHeight(input.coin))

LEMMA RunInvHolds == RunSpec => []RunInv
<1>1. RunInit => RunInv
  BY DEF RunInit, RunInv
<1>2. RunInv /\ [RunNext]_runVars => RunInv'
  <2>1. SUFFICES ASSUME RunInv, [RunNext]_runVars
                 PROVE  RunInv'
    OBVIOUS
  <2>2. CASE RunLocator
    BY <2>1, <2>2 DEF RunLocator, Run, RunInv, Returned
  <2>3. CASE RunCommon
    BY <2>1, <2>3 DEF RunCommon, Run, RunInv, Returned
  <2>4. CASE RunSize
    BY <2>1, <2>4 DEF RunSize, Run, RunInv, Returned
  <2>5. CASE RunInteger
    BY <2>1, <2>5 DEF RunInteger, Run, RunInv, Returned
  <2>6. CASE RunStream
    BY <2>1, <2>6 DEF RunStream, Run, RunInv, Returned
  <2>7. CASE RunTransaction
    BY <2>1, <2>7 DEF RunTransaction, Run, RunInv, Returned
  <2>8. CASE RunCoin
    BY <2>1, <2>8 DEF RunCoin, Run, RunInv, Returned
  <2>9. CASE UNCHANGED runVars
    BY <2>1, <2>9 DEF runVars, RunInv, Returned
  <2>10. CASE RunArithmetic \/ RunShift
    BY <2>1, <2>10 DEF RunArithmetic, RunShift, Run, RunInv, Returned
  <2>11. CASE RunCompact \/ RunValue
    BY <2>1, <2>11 DEF RunCompact, RunValue, Run, RunInv, Returned
  <2>12. CASE RunMerkle \/ RunBranch
    BY <2>1, <2>12 DEF RunMerkle, RunBranch, Run, RunInv, Returned
  <2>13. QED
    BY <2>1, <2>2, <2>3, <2>4, <2>5, <2>6, <2>7, <2>8, <2>9, <2>10, <2>11, <2>12 DEF RunNext
<1>3. QED
  BY <1>1, <1>2, PTL DEF RunSpec

LEMMA LocatorsAreRight ==
    ASSUME RunInv
    PROVE  LocatorMeetsAnyBranch
<1>1. SUFFICES ASSUME Done("locator")
               PROVE  Walk!IsLocator(input.tree, input.block, output)
  BY DEF LocatorMeetsAnyBranch
<1>2. input.kind = "locator" /\ output = Walk!getLocator(input.tree, input.block)
  BY <1>1 DEF Done, RunInv, Returned
<1>3. input.tree \in BlockTrees /\ input.block \in Walk!Blocks(input.tree)
  BY <1>2, InputsAssumption DEF RunInv, IsInput
<1>4. QED
  BY <1>2, <1>3, LocatorMeetsAnyChain

LEMMA CommonAncestorsAreRight ==
    ASSUME RunInv
    PROVE  CommonAncestorIsLast
<1>1. SUFFICES ASSUME Done("common")
               PROVE  Walk!IsLastCommonAncestor(input.tree, input.x, input.y, output)
  BY DEF CommonAncestorIsLast
<1>2. /\ input.kind = "common"
      /\ output = Walk!findLastCommonAncestor(input.tree, input.x, input.y)
  BY <1>1 DEF Done, RunInv, Returned
<1>3. /\ input.tree \in BlockTrees
      /\ input.x \in Walk!Blocks(input.tree) /\ input.y \in Walk!Blocks(input.tree)
  BY <1>2, InputsAssumption DEF RunInv, IsInput
<1>4. QED
  BY <1>2, <1>3, LastCommonAncestorIsFound

\* Every locator that is built meets any chain that shares a block with its own,
\* and every last common ancestor that is looked for is found, on trees of blocks
\* of any heights (getLocator, findLastCommonAncestor, getAncestor).
THEOREM WalksFind == RunSpec => []WalksFindAncestors
<1>1. RunInv => WalksFindAncestors
  BY LocatorsAreRight, CommonAncestorsAreRight DEF WalksFindAncestors
<1>2. QED
  BY <1>1, RunInvHolds, PTL

LEMMA SizesAreRight ==
    ASSUME RunInv
    PROVE  SizesReadBack
<1> DEFINE n == input.size
<1>1. SUFFICES ASSUME Done("size")
               PROVE  /\ Var!readCompactSize(output \o << 1, 2 >>) = Var!Good(n, << 1, 2 >>)
                      /\ \A k \in 0 .. Len(output) - 1 :
                            ~ Var!readCompactSize(SubSeq(output, 1, k)).good
  BY DEF SizesReadBack
<1>2. input.kind = "size" /\ output = Var!writeCompactSize(n)
  BY <1>1 DEF Done, RunInv, Returned
<1>3. Bits64(n)
  BY <1>2, InputsAssumption DEF RunInv, IsInput
<1> HIDE DEF n
<1> DEFINE X == Byte
           rest == << 1, 2 >>
<1>4. 1 \in X /\ 2 \in X
  BY DEF Byte
<1> HIDE DEF X
<1>5. rest \in Seq(X)
  BY <1>4
<1> HIDE DEF rest
<1>6. Var!readCompactSize(Var!writeCompactSize(n) \o rest) = Var!Good(n, rest)
  <2>1. rest \in Seq(Byte)
    BY <1>5 DEF X
  <2>2. QED
    BY <1>3, <2>1, SizeReadsBack
<1>7. \A k \in 0 .. Len(Var!writeCompactSize(n)) - 1 :
         ~ Var!readCompactSize(SubSeq(Var!writeCompactSize(n), 1, k)).good
  BY <1>3, SizeNeedsItsBytes
<1>8. QED
  BY <1>2, <1>6, <1>7 DEF rest

LEMMA IntegersAreRight ==
    ASSUME RunInv, Done("integer")
    PROVE  /\ Len(output) <= Var!BufferSize(input.width)
           /\ Var!readInteger(output \o << 9 >>, input.width) = Var!Good(input.n, << 9 >>)
<1> DEFINE n == input.n
           width == input.width
           rest == << 9 >>
<1>1. input.kind = "integer" /\ output = Var!writeInteger(n, width)
  BY DEF Done, RunInv, Returned
<1>2. width \in Nat \ {0} /\ n \in 0 .. Var!Largest(width)
  BY <1>1, InputsAssumption DEF RunInv, IsInput
<1> HIDE DEF n, width
<1>3. rest \in Seq(Byte)
  <2> DEFINE X == Byte
  <2>1. 9 \in X
    BY DEF Byte
  <2> HIDE DEF X
  <2>2. rest \in Seq(X)
    BY <2>1
  <2>3. QED
    BY <2>2 DEF X
<1> HIDE DEF rest
<1>4. Len(Var!writeInteger(n, width)) <= Var!BufferSize(width)
  BY <1>2, IntegerFitsBuffer
<1>5. width \in Nat
  BY <1>2
<1>6. Var!readInteger(Var!writeInteger(n, width) \o rest, width) = Var!Good(n, rest)
  BY <1>2, <1>3, <1>5, IntegerReadsBack
<1>7. QED
  BY <1>1, <1>4, <1>6 DEF n, width, rest

LEMMA StreamsAreRight ==
    ASSUME RunInv, Done("stream"), output.good
    PROVE  /\ output.value <= Var!Largest(input.width)
           /\ Var!writeInteger(output.value, input.width) \o output.rest = input.bytes
<1> DEFINE s == input.bytes
           width == input.width
<1>1. input.kind = "stream" /\ output = Var!readInteger(s, width)
  BY DEF Done, RunInv, Returned
<1>2. width \in Nat \ (0 .. 6) /\ s \in Seq(Byte)
  BY <1>1, InputsAssumption DEF RunInv, IsInput, Octets, Byte
<1> HIDE DEF s, width
<1>3. width \in Nat /\ width >= 7
  BY <1>2
<1>4. Var!readInteger(s, width).good
  BY <1>1
<1>5. PICK v \in Nat, rest \in Seq(Byte) :
         /\ Var!readInteger(s, width) = Var!Good(v, rest)
         /\ Var!writeInteger(v, width) \o rest = s
         /\ width >= 7 => v <= Var!Largest(width)
  <2>1. HasReader(s, width) /\ Var!readInteger(s, width).good = TRUE
    BY <1>2, <1>3, <1>4, ReaderExists
  <2>2. QED
    BY <1>2, <1>3, <2>1, IntegerHasOneEncoding
<1>6. output.value = v /\ output.rest = rest
  BY <1>1, <1>5, GoodParts
<1>7. QED
  BY <1>3, <1>5, <1>6 DEF s, width

LEMMA TransactionsAreRight ==
    ASSUME RunInv
    PROVE  TransactionsReadBack
<1> DEFINE tx == input.tx
           w == Var!writeTransaction(tx)
           none == << >>
           held == Var!NewVersion
           read == Var!readTransaction(w, held)
           plain == WithoutWitness(tx)
<1>1. SUFFICES ASSUME Done("transaction")
               PROVE  /\ ~ Var!needWitness(tx) =>
                            /\ Var!readTransaction(output, held) =
                                  IF InLimits(tx.inputs) /\ InLimits(tx.outputs)
                                  THEN Var!Good(plain, << >>) ELSE Var!Bad
                            /\ \A k \in 0 .. Len(output) - 1 :
                                  ~ Var!readTransaction(SubSeq(output, 1, k), held).good
                      /\ Var!readTransaction(output, held).good =>
                            /\ Var!readTransaction(output, held).value.inputs = tx.inputs
                            /\ Var!readTransaction(output, held).value.outputs = tx.outputs
  BY DEF TransactionsReadBack
<1>2. input.kind = "transaction" /\ output = w
  BY <1>1 DEF Done, RunInv, Returned
<1>3. tx \in Transactions
  BY <1>2, InputsAssumption DEF RunInv, IsInput
<1>4. none \in Seq(Byte) /\ none = << >>
  BY EmptySeq
<1>5. Var!isWitnessAllowed(held)
  BY DEF Var!isWitnessAllowed, Var!NewVersion
<1> HIDE DEF none, held, tx
<1>6. /\ w \in Seq(Byte)
      /\ Var!readTransaction(w \o none, held) = IF Allowed(tx) THEN ReadOf(tx, Left(tx, none)) ELSE Var!Bad
  BY <1>3, <1>4, <1>5, TransactionIsRead
<1>7. ~ Var!needWitness(tx) =>
         Var!readTransaction(w \o none, held) = IF Allowed(tx) THEN Var!Good(plain, none) ELSE Var!Bad
  BY <1>3, <1>4, TransactionReadsBack
<1>8. ~ Var!needWitness(tx) =>
         \A k \in 0 .. Len(w) - 1 : ~ Var!readTransaction(SubSeq(w, 1, k), held).good
  BY <1>3, TransactionNeedsItsBytes
<1> HIDE DEF w, plain
<1>9. w \o none = w
  BY <1>4, <1>6, ConcatEmptySeq
<1>10. ~ Var!needWitness(tx) => read = IF InLimits(tx.inputs) /\ InLimits(tx.outputs)
                                       THEN Var!Good(plain, << >>) ELSE Var!Bad
  BY <1>4, <1>7, <1>9 DEF Allowed
<1>11. read.good => read.value.inputs = tx.inputs /\ read.value.outputs = tx.outputs
  <2>1. SUFFICES ASSUME read.good
                 PROVE  read.value.inputs = tx.inputs /\ read.value.outputs = tx.outputs
    OBVIOUS
  <2>2. read # Var!Bad
    BY <2>1 DEF Var!Bad
  <2>3. read = ReadOf(tx, Left(tx, none))
    BY <1>6, <1>9, <2>2
  <2> HIDE DEF read
  <2>4. read.value = [version |-> tx.version, inputs |-> tx.inputs, outputs |-> tx.outputs,
                      witness |-> [i \in DOMAIN tx.inputs |-> << >>],
                      lockTime |-> Left(tx, none)[1]]
    BY <2>3, GoodParts DEF ReadOf
  <2>5. QED
    BY <2>4
<1>12. QED
  BY <1>2, <1>8, <1>10, <1>11

LEMMA CoinsAreRight ==
    ASSUME RunInv
    PROVE  CoinsReadBack
<1> DEFINE coin == input.coin
           bit == IF coin.isCoinBase THEN 1 ELSE 0
           n == coin.height * 2 + bit
<1>1. SUFFICES ASSUME Done("coin")
               PROVE  Var!readCoinHeight(output) = coin
  BY DEF CoinsReadBack
<1>2. input.kind = "coin" /\ output = n
  BY <1>1 DEF Done, RunInv, Returned, Var!writeCoinHeight
<1>3. coin \in [height : Nat, isCoinBase : BOOLEAN]
  BY <1>2, InputsAssumption DEF RunInv, IsInput
<1> HIDE DEF coin
<1>4. coin.height \in Nat /\ coin.isCoinBase \in BOOLEAN
      /\ coin = [height |-> coin.height, isCoinBase |-> coin.isCoinBase]
  BY <1>3
<1> DEFINE h == coin.height
<1>5. n \div 2 = h /\ (n % 2 = 1) = coin.isCoinBase
  <2>1. bit \in {0, 1} /\ n = h * 2 + bit /\ h \in Nat
    BY <1>4
  <2> HIDE DEF n, h
  <2>2. bit = 1 <=> coin.isCoinBase
    OBVIOUS
  <2> HIDE DEF bit
  <2>3. n \div 2 = h /\ n % 2 = bit
    BY <2>1
  <2>4. (n % 2 = 1) <=> coin.isCoinBase
    BY <2>2, <2>3
  <2> DEFINE odd == n % 2 = 1
             b == coin.isCoinBase
  <2>5. (odd <=> b) /\ odd \in BOOLEAN /\ b \in BOOLEAN
    BY <1>4, <2>4
  <2> HIDE DEF odd, b
  <2>6. odd = b
    BY <2>5
  <2>7. QED
    BY <2>3, <2>6 DEF odd, b
<1> HIDE DEF n
<1>6. Var!readCoinHeight(n) = [height |-> n \div 2, isCoinBase |-> n % 2 = 1]
  BY DEF Var!readCoinHeight
<1>7. QED
  BY <1>2, <1>4, <1>5, <1>6

\* Whatever the runs write is read back, and only from all of its bytes; numbers
\* have one encoding; for sizes of 64 bits, numbers of any width, transactions of
\* any length in and past the limits, and coins of any height (VarEncoding,
\* operator<< and operator>> of Transaction and of Coin).
THEOREM EncodingsRead == RunSpec => []EncodingsReadBack
<1>1. RunInv => NumbersHaveOneEncoding
  BY IntegersAreRight, StreamsAreRight DEF NumbersHaveOneEncoding
<1>2. RunInv => EncodingsReadBack
  BY <1>1, SizesAreRight, TransactionsAreRight, CoinsAreRight DEF EncodingsReadBack
<1>3. QED
  BY <1>2, RunInvHolds, PTL
=============================================================================
