------------------------------ MODULE Induction ------------------------------
(***************************************************************************)
(* Induction over the natural numbers and the functions that recursion     *)
(* defines, as facts about sets.  The induction theorems of the library    *)
(* quantify over operators, which the provers cannot instantiate; its      *)
(* facts about well-founded relations do not, and all here rests on one:   *)
(* strict inclusion is well-founded on the finite subsets of a set.        *)
(***************************************************************************)
EXTENDS Integers, FiniteSetTheorems, WellFoundedInduction, TLAPS

\* Every set of natural numbers that is not empty has a least element.
LEMMA Smallest ==
  ASSUME NEW T, T \subseteq Nat, T # {}
  PROVE  \E x \in T : \A y \in T : x <= y
PROOF
  <1> DEFINE Below(n) == 0 .. n - 1
             U == {Below(n) : n \in T}
             F == FiniteSubsetsOf(Nat)
  <1>1. \A n \in T : IsFiniteSet(Below(n)) /\ Below(n) \subseteq Nat
    BY FS_Interval
  <1>2. U \subseteq F /\ U # {}
    BY <1>1 DEF FiniteSubsetsOf
  <1>3. \E u \in U : \A v \in U : ~(<<v, u>> \in StrictSubsetOrdering(Nat))
    <2> HIDE DEF U, F
    <2>1. IsWellFoundedOn(StrictSubsetOrdering(Nat), F)
      BY FS_StrictSubsetOrderingWellFounded DEF F
    <2>2. QED
      BY <1>2, <2>1, WFMin
  <1>4. PICK x \in T : \A y \in T : ~(<<Below(y), Below(x)>> \in StrictSubsetOrdering(Nat))
    BY <1>3
  <1>5. ASSUME NEW y \in T, y < x PROVE FALSE
    <2>1. Below(y) \subseteq Below(x) /\ y \in Below(x) /\ y \notin Below(y)
      BY <1>5
    <2>2. <<Below(y), Below(x)>> \in StrictSubsetOrdering(Nat)
      BY <2>1, <1>1 DEF StrictSubsetOrdering
    <2>3. QED
      BY <1>4, <2>2
  <1>6. QED
    BY <1>5

\* Every set of natural numbers that is not empty and bounded has a greatest
\* element.
LEMMA Greatest ==
  ASSUME NEW T, T \subseteq Nat, T # {}, NEW b \in Nat, \A y \in T : y <= b
  PROVE  \E x \in T : \A y \in T : y <= x
PROOF
  <1> DEFINE D == {b - y : y \in T}
  <1>1. D \subseteq Nat /\ D # {}
    <2>1. \A y \in T : b - y \in Nat
      OBVIOUS
    <2> QED
      BY <2>1
  <1>2. PICK d \in D : \A e \in D : d <= e
    <2> HIDE DEF D
    <2> QED BY <1>1, Smallest
  <1>3. PICK x \in T : d = b - x
    OBVIOUS
  <1>4. \A y \in T : b - x <= b - y
    BY <1>2, <1>3
  <1>5. \A y \in T : y <= x
    BY <1>4
  <1> QED
    BY <1>5

\* A set with 0 that has the successor of each of its numbers has all of them.
LEMMA SetInduction ==
  ASSUME NEW S, 0 \in S, \A n \in Nat : n \in S => n + 1 \in S
  PROVE  Nat \subseteq S
PROOF
  <1> DEFINE T == Nat \ S
  <1> SUFFICES ASSUME T # {} PROVE FALSE
    OBVIOUS
  <1>1. PICK x \in T : \A y \in T : x <= y
    BY Smallest
  <1>2. x \in Nat /\ x # 0
    OBVIOUS
  <1>3. x - 1 \in Nat /\ ~(x <= x - 1)
    BY <1>2
  <1>5. x - 1 \in S
    BY <1>1, <1>3
  <1>6. QED
    BY <1>2, <1>3, <1>5

-----------------------------------------------------------------------------
\* f[n] is v0 after n of the steps 1, 2, .. N.
Iterates(f, N, V, v0, step) ==
  /\ f \in [0 .. N -> V]
  /\ f[0] = v0
  /\ \A n \in 1 .. N : f[n] = step[n][f[n - 1]]

\* There is such a function.
LEMMA Recursion ==
  ASSUME NEW N \in Nat, NEW V, NEW v0 \in V, NEW step \in [1 .. N -> [V -> V]]
  PROVE  \E f : Iterates(f, N, V, v0, step)
PROOF
  <1> DEFINE Good(m) == \E f \in [0 .. m -> V] :
                           /\ f[0] = v0
                           /\ \A n \in 1 .. m : f[n] = step[n][f[n - 1]]
             S == {m \in Nat : m <= N => Good(m)}
  <1>1. 0 \in S
    <2> DEFINE f == [n \in 0 .. 0 |-> v0]
    <2>1. f \in [0 .. 0 -> V] /\ f[0] = v0
      OBVIOUS
    <2>2. \A n \in 1 .. 0 : f[n] = step[n][f[n - 1]]
      OBVIOUS
    <2> HIDE DEF f
    <2>3. Good(0)
      BY <2>1, <2>2
    <2>4. QED
      BY <2>3
  <1>2. ASSUME NEW m \in Nat, m \in S PROVE m + 1 \in S
    <2> SUFFICES ASSUME m + 1 <= N PROVE Good(m + 1)
      OBVIOUS
    <2>1. PICK f \in [0 .. m -> V] : /\ f[0] = v0
                                     /\ \A n \in 1 .. m : f[n] = step[n][f[n - 1]]
      BY <1>2
    <2> DEFINE v == step[m + 1][f[m]]
               g == [n \in 0 .. m + 1 |-> IF n = m + 1 THEN v ELSE f[n]]
    <2>2. v \in V
      <3>1. m \in 0 .. m /\ m + 1 \in 1 .. N
        OBVIOUS
      <3>2. QED
        BY <3>1
    <2>3. g \in [0 .. m + 1 -> V] /\ g[0] = v0
      <3> HIDE DEF v
      <3>1. \A n \in 0 .. m + 1 : n # m + 1 => n \in 0 .. m
        OBVIOUS
      <3>2. 0 \in 0 .. m + 1 /\ 0 # m + 1
        OBVIOUS
      <3>3. QED
        BY <2>1, <2>2, <3>1, <3>2
    <2>4. ASSUME NEW n \in 1 .. m + 1 PROVE g[n] = step[n][g[n - 1]]
      <3>1. n - 1 \in 0 .. m + 1 /\ n \in 0 .. m + 1 /\ n - 1 # m + 1
        OBVIOUS
      <3>2. g[n - 1] = f[n - 1]
        <4> HIDE DEF v
        <4> QED BY <3>1
      <3>3. CASE n = m + 1
        <4>1. g[n] = v
          <5> HIDE DEF v
          <5> QED BY <3>1, <3>3
        <4>2. n - 1 = m
          BY <3>3
        <4> HIDE DEF g
        <4>3. QED
          BY <3>2, <3>3, <4>1, <4>2
      <3>4. CASE n # m + 1
        <4>1. g[n] = f[n]
          <5> HIDE DEF v
          <5> QED BY <3>1, <3>4
        <4>2. n \in 1 .. m
          BY <3>4
        <4> HIDE DEF g
        <4>3. QED
          BY <2>1, <3>2, <4>1, <4>2
      <3>5. QED
        BY <3>3, <3>4
    <2> HIDE DEF g
    <2>5. QED
      BY <2>3, <2>4
  <1> HIDE DEF Good
  <1>3. Nat \subseteq S
    <2> HIDE DEF S
    <2> QED BY <1>1, <1>2, SetInduction
  <1>4. Good(N)
    BY <1>3
  <1>5. QED
    BY <1>4 DEF Good, Iterates

\* A function that satisfies the equations of the recursion is one.
LEMMA IteratesWhen ==
  ASSUME NEW N \in Nat, NEW V, NEW v0 \in V, NEW step \in [1 .. N -> [V -> V]], NEW F,
         F = [n \in 0 .. N |-> F[n]],
         F[0] = v0,
         \A n \in 1 .. N : F[n - 1] \in V => F[n] = step[n][F[n - 1]]
  PROVE  Iterates(F, N, V, v0, step)
PROOF
  <1> DEFINE S == {n \in Nat : n <= N => F[n] \in V}
  <1>1. 0 \in S
    OBVIOUS
  <1>2. ASSUME NEW n \in Nat, n \in S PROVE n + 1 \in S
    <2> SUFFICES ASSUME n + 1 <= N PROVE F[n + 1] \in V
      OBVIOUS
    <2>1. n + 1 \in 1 .. N /\ (n + 1) - 1 = n /\ F[n] \in V
      BY <1>2
    <2>2. F[n + 1] = step[n + 1][F[n]]
      BY <2>1
    <2> QED BY <2>1, <2>2
  <1> HIDE DEF S
  <1>3. Nat \subseteq S
    BY <1>1, <1>2, SetInduction
  <1>4. \A n \in 0 .. N : F[n] \in V
    BY <1>3 DEF S
  <1>5. \A n \in 1 .. N : n - 1 \in 0 .. N
    OBVIOUS
  <1> QED
    BY <1>4, <1>5 DEF Iterates

-----------------------------------------------------------------------------
\* g satisfies the equations of a recursion that goes upwards, to N at most:
\* body[b] may use what the function is above b.
Solves(g, N, V, body) ==
  g \in [0 .. N -> V] /\ \A b \in 0 .. N : g[b] = body[b][g]

Upwards(N, V, body) ==
  /\ body \in [0 .. N -> [[0 .. N -> V] -> V]]
  /\ \A b \in 0 .. N : \A g, h \in [0 .. N -> V] :
       (\A c \in b + 1 .. N : g[c] = h[c]) => body[b][g] = body[b][h]

\* There is such a function.
LEMMA UpwardRecursion ==
  ASSUME NEW N \in Nat, NEW V, NEW v0 \in V, NEW body, Upwards(N, V, body)
  PROVE  \E g : Solves(g, N, V, body)
PROOF
  <1> DEFINE F == [0 .. N -> V]
             Good(g, m) == \A b \in 0 .. N : b > N - m => g[b] = body[b][g]
             S == {m \in Nat : m <= N + 1 => \E g \in F : Good(g, m)}
  <1>1. 0 \in S
    <2> DEFINE g == [b \in 0 .. N |-> v0]
    <2>1. g \in F
      OBVIOUS
    <2>2. Good(g, 0)
      OBVIOUS
    <2> QED
      BY <2>1, <2>2
  <1>2. ASSUME NEW m \in Nat, m \in S PROVE m + 1 \in S
    <2> SUFFICES ASSUME m + 1 <= N + 1 PROVE \E g \in F : Good(g, m + 1)
      OBVIOUS
    <2>1. PICK g \in F : Good(g, m)
      BY <1>2
    <2> DEFINE d == N - m
               v == body[d][g]
               h == [b \in 0 .. N |-> IF b = d THEN v ELSE g[b]]
    <2>2. d \in 0 .. N /\ N - (m + 1) = d - 1 /\ d \in Int
      OBVIOUS
    <2>3. v \in V
      <3> HIDE DEF d
      <3> QED BY <2>1, <2>2 DEF Upwards
    <2> HIDE DEF v
    <2>4. h \in F /\ h[d] = v /\ \A b \in 0 .. N : b # d => h[b] = g[b]
      BY <2>1, <2>2, <2>3
    <2> HIDE DEF h
    <2>5. \A b \in 0 .. N : b >= d => body[b][h] = body[b][g]
      <3> SUFFICES ASSUME NEW b \in 0 .. N, b >= d PROVE body[b][h] = body[b][g]
        OBVIOUS
      <3>1. \A c \in b + 1 .. N : c \in 0 .. N /\ c # d
        BY <2>2
      <3>2. \A c \in b + 1 .. N : h[c] = g[c]
        BY <2>4, <3>1
      <3> QED
        BY <2>1, <2>4, <3>2 DEF Upwards
    <2>6. ASSUME NEW b \in 0 .. N, b > N - (m + 1) PROVE h[b] = body[b][h]
      <3>1. b >= d
        BY <2>2, <2>6
      <3>2. CASE b = d
        BY <2>4, <2>5, <3>1, <3>2 DEF v
      <3>3. CASE b # d
        <4>1. b > N - m
          BY <2>2, <3>1, <3>3
        <4>2. g[b] = body[b][g]
          BY <2>1, <4>1
        <4> QED
          BY <2>4, <2>5, <3>1, <3>3, <4>2
      <3> QED
        BY <3>2, <3>3
    <2> QED
      BY <2>4, <2>6
  <1> HIDE DEF Good
  <1>3. N + 1 \in S
    <2> HIDE DEF S
    <2> QED BY <1>1, <1>2, SetInduction
  <1>4. PICK g \in F : Good(g, N + 1)
    BY <1>3
  <1>5. \A b \in 0 .. N : g[b] = body[b][g]
    BY <1>4 DEF Good
  <1> QED
    BY <1>4, <1>5 DEF Solves

\* There is one.
LEMMA UpwardUnique ==
  ASSUME NEW N \in Nat, NEW V, NEW body, Upwards(N, V, body),
         NEW g, NEW h, Solves(g, N, V, body), Solves(h, N, V, body)
  PROVE  \A b \in 0 .. N : g[b] = h[b]
PROOF
  <1> DEFINE S == {m \in Nat : \A b \in 0 .. N : b > N - m => g[b] = h[b]}
  <1>1. 0 \in S
    OBVIOUS
  <1>2. ASSUME NEW m \in Nat, m \in S PROVE m + 1 \in S
    <2> SUFFICES ASSUME NEW b \in 0 .. N, b > N - (m + 1) PROVE g[b] = h[b]
      OBVIOUS
    <2>1. \A c \in b + 1 .. N : c \in 0 .. N /\ c > N - m
      OBVIOUS
    <2>2. \A c \in b + 1 .. N : g[c] = h[c]
      BY <1>2, <2>1
    <2>3. g \in [0 .. N -> V] /\ h \in [0 .. N -> V]
      BY DEF Solves
    <2>4. body[b][g] = body[b][h]
      BY <2>2, <2>3 DEF Upwards
    <2> QED
      BY <2>4 DEF Solves
  <1>3. N + 1 \in S
    <2> HIDE DEF S
    <2> QED BY <1>1, <1>2, SetInduction
  <1> QED
    BY <1>3
=============================================================================
