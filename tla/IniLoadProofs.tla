---------------------------- MODULE IniLoadProofs ----------------------------
(***************************************************************************)
(* What ini_load makes of a file, for every file: the types of its items,  *)
(* and that a tidy file is read as it is written.                          *)
(***************************************************************************)
EXTENDS IniFile, Induction

-----------------------------------------------------------------------------
(* Positions.                                                               *)

\* Until finds the first stop, or the position after the text.
LEMMA UntilFinds ==
  ASSUME NEW t \in Seq(Characters), NEW p \in 1 .. Len(t) + 1, NEW stops
  PROVE  /\ Until(t, p, stops) \in p .. Len(t) + 1
         /\ Until(t, p, stops) <= Len(t) => t[Until(t, p, stops)] \in stops
         /\ \A k \in p .. Until(t, p, stops) - 1 : t[k] \notin stops
PROOF
  <1> DEFINE T == {n \in p .. Len(t) + 1 : n <= Len(t) => t[n] \in stops}
             Found(n) == /\ n <= Len(t) => t[n] \in stops
                         /\ \A k \in p .. n - 1 : t[k] \notin stops
  <1>1. T \subseteq Nat /\ T # {}
    <2>1. Len(t) + 1 \in T
      OBVIOUS
    <2> QED
      BY <2>1
  <1>2. PICK n \in T : \A m \in T : n <= m
    <2> HIDE DEF T
    <2> QED BY <1>1, Smallest
  <1>3. Found(n)
    <2>1. ASSUME NEW k \in p .. n - 1 PROVE t[k] \notin stops
      BY <1>2
    <2> QED
      BY <2>1
  <1>4. \E m \in p .. Len(t) + 1 : Found(m)
    <2> HIDE DEF Found
    <2> QED BY <1>3
  <1>5. Until(t, p, stops) \in p .. Len(t) + 1 /\ Found(Until(t, p, stops))
    <2>1. Until(t, p, stops) = CHOOSE m \in p .. Len(t) + 1 : Found(m)
      BY DEF Until
    <2> HIDE DEF Found
    <2> QED BY <1>4, <2>1
  <1> QED
    BY <1>5

\* It finds n when n is a stop, or the position after the text, and there is no
\* stop before it.
LEMMA UntilIs ==
  ASSUME NEW t \in Seq(Characters), NEW p \in 1 .. Len(t) + 1, NEW stops,
         NEW n \in p .. Len(t) + 1,
         n <= Len(t) => t[n] \in stops,
         \A k \in p .. n - 1 : t[k] \notin stops
  PROVE  Until(t, p, stops) = n
PROOF
  <1> DEFINE u == Until(t, p, stops)
  <1>1. /\ u \in p .. Len(t) + 1
        /\ u <= Len(t) => t[u] \in stops
        /\ \A k \in p .. u - 1 : t[k] \notin stops
    BY UntilFinds
  <1> HIDE DEF u
  <1>2. ~(u < n)
    BY <1>1
  <1>3. ~(n < u)
    BY <1>1
  <1>4. u = n
    BY <1>1, <1>2, <1>3
  <1> QED
    BY <1>4 DEF u

\* The greatest element of a set of positions.
LEMMA MaxFinds ==
  ASSUME NEW S, S \subseteq Nat, S # {}, NEW b \in Nat, \A y \in S : y <= b
  PROVE  Max(S) \in S /\ \A y \in S : y <= Max(S)
PROOF
  <1>1. PICK x \in S : \A y \in S : y <= x
    BY Greatest
  <1>2. \E z \in S : \A y \in S : z >= y
    BY <1>1
  <1>3. Max(S) \in S /\ \A y \in S : Max(S) >= y
    BY <1>2 DEF Max
  <1> QED
    BY <1>3

LEMMA MaxIs ==
  ASSUME NEW S, S \subseteq Nat, NEW x \in S, \A y \in S : y <= x
  PROVE  Max(S) = x
PROOF
  <1>1. \E z \in S : \A y \in S : z >= y
    OBVIOUS
  <1>2. Max(S) \in S /\ \A y \in S : Max(S) >= y
    BY <1>1 DEF Max
  <1>3. Max(S) \in Nat /\ x \in Nat
    BY <1>2
  <1> QED
    BY <1>2, <1>3

LEMMA MinIs ==
  ASSUME NEW S, S \subseteq Nat, NEW x \in S, \A y \in S : x <= y
  PROVE  Min(S) = x
PROOF
  <1>1. \E z \in S : \A y \in S : z <= y
    OBVIOUS
  <1>2. Min(S) \in S /\ \A y \in S : Min(S) <= y
    BY <1>1 DEF Min
  <1>3. Min(S) \in Nat /\ x \in Nat
    BY <1>2
  <1> QED
    BY <1>2, <1>3

-----------------------------------------------------------------------------
(* Texts and their parts.                                                   *)

LEMMA SubText ==
  ASSUME NEW s \in Seq(Characters), NEW i \in 1 .. Len(s) + 1, NEW j \in Nat,
         i <= j + 1, j <= Len(s)
  PROVE  /\ SubSeq(s, i, j) \in Seq(Characters)
         /\ Len(SubSeq(s, i, j)) = j - i + 1
         /\ \A k \in 1 .. j - i + 1 : SubSeq(s, i, j)[k] = s[i + k - 1]
PROOF
  OBVIOUS

\* Trim takes the text from its first to its last character that is no blank.
LEMMA TrimIs ==
  ASSUME NEW s \in Seq(Characters), NEW i \in 1 .. Len(s), NEW j \in i .. Len(s),
         s[i] \notin Blank, s[j] \notin Blank,
         \A k \in 1 .. i - 1 : s[k] \in Blank,
         \A k \in j + 1 .. Len(s) : s[k] \in Blank
  PROVE  Trim(s) = SubSeq(s, i, j)
PROOF
  <1> DEFINE solid == {n \in DOMAIN s : s[n] \notin Blank}
  <1>1. solid \subseteq Nat /\ i \in solid /\ j \in solid
    OBVIOUS
  <1>2. \A n \in solid : i <= n /\ n <= j
    OBVIOUS
  <1>3. Trim(s) = IF solid = {} THEN <<>> ELSE SubSeq(s, Min(solid), Max(solid))
    BY DEF Trim
  <1> HIDE DEF solid
  <1>4. Min(solid) = i /\ Max(solid) = j
    BY <1>1, <1>2, MinIs, MaxIs
  <1> QED
    BY <1>1, <1>3, <1>4

LEMMA TrimBlank ==
  ASSUME NEW s \in Seq(Characters), \A k \in 1 .. Len(s) : s[k] \in Blank
  PROVE  Trim(s) = <<>>
PROOF
  BY DEF Trim

\* A text that is not all blank has such a first and last character.
LEMMA SolidEnds ==
  ASSUME NEW s \in Seq(Characters), NEW m \in 1 .. Len(s), s[m] \notin Blank
  PROVE  \E i \in 1 .. Len(s) : \E j \in i .. Len(s) :
           /\ s[i] \notin Blank /\ s[j] \notin Blank
           /\ \A k \in 1 .. i - 1 : s[k] \in Blank
           /\ \A k \in j + 1 .. Len(s) : s[k] \in Blank
PROOF
  <1> DEFINE T == {n \in 1 .. Len(s) : s[n] \notin Blank}
  <1>1. T \subseteq Nat /\ T # {} /\ Len(s) \in Nat /\ \A n \in T : n <= Len(s)
    OBVIOUS
  <1>2. PICK i \in T : \A n \in T : i <= n
    <2> HIDE DEF T
    <2> QED BY <1>1, Smallest
  <1>3. PICK j \in T : \A n \in T : n <= j
    <2> HIDE DEF T
    <2> QED BY <1>1, Greatest
  <1>4. \A k \in 1 .. i - 1 : s[k] \in Blank
    BY <1>2
  <1>5. \A k \in j + 1 .. Len(s) : s[k] \in Blank
    BY <1>3
  <1> QED
    BY <1>2, <1>3, <1>4, <1>5

LEMMA TrimType ==
  ASSUME NEW s \in Seq(Characters)
  PROVE  Trim(s) \in Seq(Characters)
PROOF
  <1>1. CASE \A k \in 1 .. Len(s) : s[k] \in Blank
    <2>1. Trim(s) = <<>>
      BY <1>1, TrimBlank
    <2> QED
      BY <2>1
  <1>2. CASE \E k \in 1 .. Len(s) : s[k] \notin Blank
    <2>1. PICK i \in 1 .. Len(s) : \E j \in i .. Len(s) :
                 /\ s[i] \notin Blank /\ s[j] \notin Blank
                 /\ \A k \in 1 .. i - 1 : s[k] \in Blank
                 /\ \A k \in j + 1 .. Len(s) : s[k] \in Blank
      BY <1>2, SolidEnds
    <2>2. PICK j \in i .. Len(s) : Trim(s) = SubSeq(s, i, j)
      BY <2>1, TrimIs
    <2>3. j \in Nat /\ i \in 1 .. Len(s) + 1 /\ i <= j + 1 /\ j <= Len(s)
      BY <2>1
    <2> QED
      BY <2>2, <2>3, SubText
  <1> QED
    BY <1>1, <1>2

-----------------------------------------------------------------------------
(* Items.                                                                   *)

ItemsFrom(t, p) ==
  [kind : {"nothing", "section", "property"}, name : Seq(Characters),
   value : Seq(Characters), next : p + 1 .. Len(t) + 1]

LEMMA SemicolonDiffers ==
  Semicolon \notin Blank /\ Semicolon # LF /\ Semicolon # "["
PROOF
  BY DEF Semicolon, Blank, LF, CR, Space

LEMMA NameType ==
  ASSUME NEW t \in Seq(Characters), NEW p \in 1 .. Len(t), NEW q \in p .. Len(t) + 1
  PROVE  Name(t, p, q) \in Seq(Characters)
PROOF
  <1>1. CASE p = q
    BY <1>1, SubText DEF Name
  <1>2. CASE p < q
    <2>1. q - 1 \in Nat /\ p <= (q - 1) + 1 /\ q - 1 <= Len(t) /\ p \in 1 .. Len(t) + 1
      BY <1>2
    <2>2. Name(t, p, q) = SubSeq(t, p, q - 1)
      BY <1>2 DEF Name
    <2> QED
      BY <2>1, <2>2, SubText
  <1> QED
    BY <1>1, <1>2

LEMMA HeaderType ==
  ASSUME NEW t \in Seq(Characters), NEW p \in 1 .. Len(t)
  PROVE  Header(t, p) \in ItemsFrom(t, p)
PROOF
  <1> DEFINE close == Until(t, p + 1, {"]", LF})
  <1>1. p + 1 \in 1 .. Len(t) + 1
    OBVIOUS
  <1>2. close \in p + 1 .. Len(t) + 1
    BY <1>1, UntilFinds
  <1>3. Header(t, p) = IF Holds(t, close, "]")
                       THEN Item("section", Name(t, p + 1, close), <<>>, close + 1)
                       ELSE Skip(close)
    BY DEF Header
  <1> HIDE DEF close
  <1>4. CASE Holds(t, close, "]")
    <2>1. close <= Len(t)
      BY <1>4 DEF Holds
    <2>2. Name(t, p + 1, close) \in Seq(Characters)
      BY <1>2, <2>1, NameType
    <2> QED
      BY <1>2, <1>3, <1>4, <2>1, <2>2 DEF Item, ItemsFrom
  <1>5. CASE ~Holds(t, close, "]")
    BY <1>2, <1>3, <1>5 DEF Item, Skip, ItemsFrom
  <1> QED
    BY <1>4, <1>5

LEMMA PropertyType ==
  ASSUME NEW t \in Seq(Characters), NEW p \in 1 .. Len(t), t[p] \notin Blank
  PROVE  Property(t, p) \in ItemsFrom(t, p)
PROOF
  <1> DEFINE stop == Until(t, p, {"=", LF})
  <1>1. /\ stop \in p .. Len(t) + 1
        /\ stop <= Len(t) => t[stop] \in {"=", LF}
    BY UntilFinds
  <1>2. Property(t, p) = IF Holds(t, stop, "=") THEN Assignment(t, p, stop)
                         ELSE Bare(t, p, stop)
    BY DEF Property
  <1> HIDE DEF stop
  <1>3. CASE Holds(t, stop, "=")
    <2> DEFINE end == Until(t, stop, {LF})
               nameEnd == Until(t, p, {"=", Space})
               value == SubSeq(t, stop + 1, end - 1)
    <2>1. stop \in 1 .. Len(t) /\ t[stop] = "="
      BY <1>1, <1>3 DEF Holds
    <2>2. end \in stop .. Len(t) + 1 /\ (end <= Len(t) => t[end] = LF)
      BY <2>1, UntilFinds
    <2>3. end \in stop + 1 .. Len(t) + 1
      BY <2>1, <2>2 DEF LF
    <2>4. Name(t, p, nameEnd) \in Seq(Characters)
      <3>1. nameEnd \in p .. Len(t) + 1
        BY UntilFinds
      <3> QED
        BY <3>1, NameType
    <2>5. Trim(value) \in Seq(Characters)
      <3>1. /\ stop + 1 \in 1 .. Len(t) + 1 /\ end - 1 \in Nat
            /\ stop + 1 <= (end - 1) + 1 /\ end - 1 <= Len(t)
        BY <2>1, <2>3
      <3>2. value \in Seq(Characters)
        BY <3>1, SubText
      <3> QED
        BY <3>2, TrimType
    <2>6. Assignment(t, p, stop) = Item("property", Name(t, p, nameEnd), Trim(value), end)
      BY DEF Assignment
    <2> HIDE DEF end, nameEnd, value
    <2> QED
      BY <1>1, <1>2, <1>3, <2>3, <2>4, <2>5, <2>6 DEF Item, ItemsFrom
  <1>4. CASE ~Holds(t, stop, "=")
    <2> DEFINE end == Until(t, p, Control)
               word == SubSeq(t, p, end - 1)
    <2>1. stop \in p + 1 .. Len(t) + 1
      BY <1>1, <1>4 DEF Holds, Blank, LF
    <2>2. word \in Seq(Characters)
      <3>1. end \in p .. Len(t) + 1
        BY UntilFinds
      <3>2. /\ p \in 1 .. Len(t) + 1 /\ end - 1 \in Nat
            /\ p <= (end - 1) + 1 /\ end - 1 <= Len(t)
        BY <3>1
      <3> QED
        BY <3>2, SubText
    <2>3. Bare(t, p, stop) = Item("property", word, word, stop)
      BY DEF Bare
    <2> HIDE DEF end, word
    <2> QED
      BY <1>2, <1>4, <2>1, <2>2, <2>3 DEF Item, ItemsFrom
  <1> QED
    BY <1>3, <1>4

\* Every item is well typed and ends after its first character, so that every
\* round of the loop makes progress.
LEMMA ItemType ==
  ASSUME NEW t \in Seq(Characters), NEW p \in 1 .. Len(t), t[p] \notin Blank
  PROVE  ItemAt(t, p) \in ItemsFrom(t, p)
PROOF
  <1>1. CASE t[p] = Semicolon
    <2> DEFINE end == Until(t, p, {LF})
    <2>1. end \in p .. Len(t) + 1 /\ (end <= Len(t) => t[end] = LF)
      BY UntilFinds
    <2>2. ItemAt(t, p) = Skip(end)
      BY <1>1, SemicolonDiffers DEF ItemAt
    <2>3. ASSUME end = p PROVE FALSE
      <3>1. t[p] = LF
        BY <2>1, <2>3
      <3> QED
        BY <1>1, <3>1, SemicolonDiffers
    <2> HIDE DEF end
    <2>4. end \in p + 1 .. Len(t) + 1
      BY <2>1, <2>3
    <2> QED
      BY <2>2, <2>4 DEF Skip, Item, ItemsFrom
  <1>2. CASE t[p] = "["
    BY <1>2, HeaderType DEF ItemAt
  <1>3. CASE t[p] \notin {Semicolon, "["}
    BY <1>3, PropertyType DEF ItemAt
  <1> QED
    BY <1>1, <1>2, <1>3

-----------------------------------------------------------------------------
(* The loop.                                                                *)

LoopStates(t) ==
  {so \in [at : 1 .. Len(t) + 1, starts : SUBSET (1 .. Len(t))] :
     /\ so.at <= Len(t) => t[so.at] \notin Blank
     /\ \A p \in so.starts : t[p] \notin Blank}

FirstState(t) == [at |-> SolidFrom(t, 1), starts |-> {}]

LEMMA SolidFinds ==
  ASSUME NEW t \in Seq(Characters), NEW p \in 1 .. Len(t) + 1
  PROVE  /\ SolidFrom(t, p) \in p .. Len(t) + 1
         /\ SolidFrom(t, p) <= Len(t) => t[SolidFrom(t, p)] \notin Blank
         /\ \A k \in p .. SolidFrom(t, p) - 1 : t[k] \in Blank
PROOF
  <1> DEFINE n == Until(t, p, Characters \ Blank)
  <1>1. /\ n \in p .. Len(t) + 1
        /\ n <= Len(t) => t[n] \in Characters \ Blank
        /\ \A k \in p .. n - 1 : t[k] \notin Characters \ Blank
    BY UntilFinds
  <1>2. SolidFrom(t, p) = n
    BY DEF SolidFrom
  <1> HIDE DEF n
  <1>3. \A k \in p .. n - 1 : t[k] \in Blank
    BY <1>1
  <1> QED
    BY <1>1, <1>2, <1>3

LEMMA FirstStateType ==
  ASSUME NEW t \in Seq(Characters)
  PROVE  FirstState(t) \in LoopStates(t)
PROOF
  <1>1. 1 \in 1 .. Len(t) + 1
    OBVIOUS
  <1> QED
    BY <1>1, SolidFinds DEF FirstState, LoopStates

LEMMA RoundType ==
  ASSUME NEW t \in Seq(Characters), NEW so \in LoopStates(t)
  PROVE  Round(t, so) \in LoopStates(t)
PROOF
  <1>1. CASE so.at > Len(t)
    BY <1>1 DEF Round
  <1>2. CASE ~(so.at > Len(t))
    <2>1. so.at \in 1 .. Len(t) /\ t[so.at] \notin Blank
      BY <1>2 DEF LoopStates
    <2> DEFINE next == ItemAt(t, so.at).next
    <2>2. next \in 1 .. Len(t) + 1
      BY <2>1, ItemType DEF ItemsFrom
    <2>3. Round(t, so) = [at |-> SolidFrom(t, next), starts |-> so.starts \cup {so.at}]
      BY <1>2 DEF Round
    <2> HIDE DEF next
    <2> QED
      BY <2>1, <2>2, <2>3, SolidFinds DEF LoopStates
  <1> QED
    BY <1>1, <1>2

\* The loop is the iteration of its rounds.
LEMMA LoopIterates ==
  ASSUME NEW t \in Seq(Characters)
  PROVE  /\ Loop(t) \in [0 .. Len(t) -> LoopStates(t)]
         /\ Loop(t)[0] = FirstState(t)
         /\ \A n \in 1 .. Len(t) : Loop(t)[n] = Round(t, Loop(t)[n - 1])
PROOF
  <1> DEFINE N == Len(t)
             V == LoopStates(t)
             v0 == FirstState(t)
             step == [n \in 1 .. N |-> [v \in V |-> Round(t, v)]]
             P(g) == g = [n \in 0 .. N |-> IF n = 0 THEN v0 ELSE Round(t, g[n - 1])]
             F == Loop(t)
  <1>1. F = CHOOSE g : P(g)
    BY DEF Loop, FirstState
  <1>2. step \in [1 .. N -> [V -> V]] /\ v0 \in V /\ N \in Nat
    BY RoundType, FirstStateType
  <1>3. \A n \in 1 .. N, v \in V : step[n][v] = Round(t, v)
    OBVIOUS
  <1>4. \A n \in 1 .. N : n - 1 \in 0 .. N /\ n \in 0 .. N /\ n # 0
    BY <1>2
  <1> HIDE DEF step, V, N, v0, F
  <1>5. PICK f : Iterates(f, N, V, v0, step)
    BY <1>2, Recursion
  <1>6. \A n \in 1 .. N : f[n] = Round(t, f[n - 1])
    BY <1>3, <1>4, <1>5 DEF Iterates
  <1>7. P(f)
    BY <1>2, <1>5, <1>6 DEF Iterates
  <1>8. P(F)
    <2> HIDE DEF P
    <2> QED BY <1>1, <1>7
  <1>9. F = [n \in 0 .. N |-> F[n]] /\ F[0] = v0
    BY <1>2, <1>8
  <1>10. \A n \in 1 .. N : F[n] = Round(t, F[n - 1])
    BY <1>4, <1>8
  <1>11. Iterates(F, N, V, v0, step)
    <2> HIDE DEF P
    <2> QED BY <1>2, <1>3, <1>9, <1>10, IteratesWhen
  <1> QED
    BY <1>9, <1>10, <1>11 DEF F, N, V, v0, Iterates

\* After as many rounds as there are characters the loop is over.
LEMMA LoopEnds ==
  ASSUME NEW t \in Seq(Characters)
  PROVE  Loop(t)[Len(t)].at = Len(t) + 1
PROOF
  <1> DEFINE N == Len(t)
             F == Loop(t)
             S == {n \in Nat : n <= N => F[n].at > n}
  <1>1. N \in Nat /\ \A n \in 0 .. N : F[n] \in LoopStates(t)
    BY LoopIterates
  <1>2. 0 \in S
    <2>1. F[0].at \in 1 .. N + 1
      BY <1>1 DEF LoopStates
    <2> QED
      BY <2>1
  <1>3. ASSUME NEW n \in Nat, n \in S PROVE n + 1 \in S
    <2> SUFFICES ASSUME n + 1 <= N PROVE F[n + 1].at > n + 1
      OBVIOUS
    <2> DEFINE so == F[n]
    <2>1. so \in LoopStates(t) /\ so.at > n /\ n \in 0 .. N /\ n + 1 \in 1 .. N
      BY <1>1, <1>3
    <2>2. F[n + 1] = Round(t, so)
      <3>1. (n + 1) - 1 = n
        OBVIOUS
      <3> QED
        BY <2>1, <3>1, LoopIterates
    <2> HIDE DEF so, F
    <2>3. CASE so.at > N
      <3>1. F[n + 1].at = so.at
        BY <2>2, <2>3 DEF Round
      <3>2. so.at \in Nat
        BY <2>1 DEF LoopStates
      <3> QED
        BY <2>3, <3>1, <3>2
    <2>4. CASE ~(so.at > N)
      <3>1. so.at \in 1 .. N /\ t[so.at] \notin Blank
        BY <2>1, <2>4 DEF LoopStates
      <3> DEFINE next == ItemAt(t, so.at).next
      <3>2. next \in so.at + 1 .. N + 1
        BY <3>1, ItemType DEF ItemsFrom
      <3>3. F[n + 1].at = SolidFrom(t, next)
        BY <2>2, <2>4 DEF Round
      <3> HIDE DEF next
      <3>4. next \in 1 .. N + 1
        BY <3>1, <3>2
      <3>5. SolidFrom(t, next) \in next .. N + 1
        BY <3>4, SolidFinds
      <3> QED
        BY <2>1, <3>1, <3>2, <3>3, <3>5
    <2> QED
      BY <2>3, <2>4
  <1>4. N \in S
    <2> HIDE DEF S
    <2> QED BY <1>1, <1>2, <1>3, SetInduction
  <1>5. F[N].at \in 1 .. N + 1
    BY <1>1 DEF LoopStates
  <1> HIDE DEF F
  <1>6. F[N].at = N + 1
    BY <1>1, <1>4, <1>5
  <1> QED
    BY <1>6 DEF F

-----------------------------------------------------------------------------
(* What is loaded.                                                          *)

TypedMap(c) ==
  \A s \in DOMAIN c :
    /\ s \in Seq(Characters)
    /\ \A k \in DOMAIN c[s] : k \in Seq(Characters) /\ c[s][k] \in Seq(Characters)

FiniteMap(c) ==
  IsFiniteSet(DOMAIN c) /\ \A s \in DOMAIN c : IsFiniteSet(DOMAIN c[s])

LEMMA ItemsType ==
  ASSUME NEW t \in Seq(Characters)
  PROVE  /\ DOMAIN Items(t) \subseteq 1 .. Len(t)
         /\ \A p \in DOMAIN Items(t) :
              /\ t[p] \notin Blank
              /\ Items(t)[p] = ItemAt(t, p)
              /\ Items(t)[p] \in ItemsFrom(t, p)
PROOF
  <1> DEFINE last == Loop(t)[Len(t)]
  <1>1. Items(t) = [p \in last.starts |-> ItemAt(t, p)]
    BY DEF Items
  <1>2. last \in LoopStates(t)
    <2>1. Len(t) \in 0 .. Len(t)
      OBVIOUS
    <2> QED
      BY <2>1, LoopIterates
  <1> HIDE DEF last
  <1>3. last.starts \subseteq 1 .. Len(t) /\ \A p \in last.starts : t[p] \notin Blank
    BY <1>2 DEF LoopStates
  <1> QED
    BY <1>1, <1>3, ItemType

\* The image of a finite set of positions is finite.
LEMMA ImageFinite ==
  ASSUME NEW S, IsFiniteSet(S), NEW f, S \subseteq DOMAIN f
  PROVE  IsFiniteSet({f[x] : x \in S})
PROOF
  <1> DEFINE T == {f[x] : x \in S}
             g == [x \in S |-> f[x]]
  <1>1. g \in Surjection(S, T)
    BY DEF Surjection
  <1> HIDE DEF T, g
  <1>2. IsFiniteSet(T)
    BY <1>1, FS_Surjection
  <1> QED
    BY <1>2 DEF T

LEMMA ImageOfPositions ==
  ASSUME NEW S, NEW n \in Nat, S \subseteq 0 .. n, NEW f, S \subseteq DOMAIN f
  PROVE  IsFiniteSet({f[x] : x \in S})
PROOF
  <1>1. IsFiniteSet(0 .. n)
    BY FS_Interval
  <1>2. IsFiniteSet(S)
    BY <1>1, FS_Subset
  <1> QED
    BY <1>2, ImageFinite

\* The properties of a section of a file are a finite map of texts.
LEMMA SectionMapType ==
  ASSUME NEW t \in Seq(Characters), NEW s
  PROVE  LET map == SectionMap(Items(t), s)
         IN /\ IsFiniteSet(DOMAIN map)
            /\ \A k \in DOMAIN map : k \in Seq(Characters) /\ map[k] \in Seq(Characters)
PROOF
  <1> DEFINE items == Items(t)
             own == PropertiesOf(items, s)
             named(k) == {n \in own : items[n].name = k}
             keys == {items[n].name : n \in own}
             map == SectionMap(items, s)
  <1>1. own \subseteq DOMAIN items
    BY DEF PropertiesOf
  <1>2. DOMAIN items \subseteq 1 .. Len(t) /\ \A n \in DOMAIN items : items[n] \in ItemsFrom(t, n)
    BY ItemsType
  <1>3. map = [k \in keys |-> items[Max(named(k))].value]
    BY DEF SectionMap
  <1> HIDE DEF items, own, map
  <1>4. \A n \in own : /\ n \in 1 .. Len(t)
                       /\ items[n].name \in Seq(Characters)
                       /\ items[n].value \in Seq(Characters)
    BY <1>1, <1>2 DEF ItemsFrom
  <1>5. ASSUME NEW k \in keys
        PROVE  k \in Seq(Characters) /\ items[Max(named(k))].value \in Seq(Characters)
    <2>1. named(k) \subseteq Nat /\ named(k) # {} /\ \A n \in named(k) : n <= Len(t)
      BY <1>4, <1>5
    <2>2. Len(t) \in Nat
      OBVIOUS
    <2> HIDE DEF named
    <2>3. Max(named(k)) \in named(k)
      BY <2>1, <2>2, MaxFinds
    <2> QED
      BY <1>4, <1>5, <2>3 DEF named
  <1>6. IsFiniteSet(keys)
    <2> DEFINE f == [n \in own |-> items[n].name]
    <2>1. keys = {f[n] : n \in own}
      OBVIOUS
    <2>2. own \subseteq 0 .. Len(t) /\ own \subseteq DOMAIN f /\ Len(t) \in Nat
      BY <1>4
    <2> HIDE DEF f, keys
    <2> QED
      BY <2>1, <2>2, ImageOfPositions
  <1> HIDE DEF keys, named
  <1>7. DOMAIN map = keys /\ \A k \in keys : map[k] = items[Max(named(k))].value
    BY <1>3
  <1> QED
    BY <1>5, <1>6, <1>7 DEF map, items

LEMMA LoadedType ==
  ASSUME NEW t \in Seq(Characters)
  PROVE  /\ TypedMap(Loaded(t)) /\ FiniteMap(Loaded(t))
         /\ <<>> \in DOMAIN Loaded(t)
PROOF
  <1> DEFINE items == Items(t)
             sections == SectionsOf(items)
             names == {SectionName(items, s) : s \in sections}
             lastOf(name) == Max({s \in sections : SectionName(items, s) = name})
             c == Loaded(t)
  <1>1. c = [name \in names |-> SectionMap(items, lastOf(name))]
    BY DEF Loaded
  <1>2. 0 \in sections /\ sections \subseteq 0 .. Len(t)
    BY ItemsType DEF SectionsOf
  <1>3. \A s \in sections : SectionName(items, s) \in Seq(Characters)
    BY ItemsType DEF SectionsOf, SectionName, ItemsFrom
  <1>4. SectionName(items, 0) = <<>>
    BY DEF SectionName
  <1>5. \A name : /\ IsFiniteSet(DOMAIN SectionMap(items, lastOf(name)))
                  /\ \A k \in DOMAIN SectionMap(items, lastOf(name)) :
                       /\ k \in Seq(Characters)
                       /\ SectionMap(items, lastOf(name))[k] \in Seq(Characters)
    <2> HIDE DEF lastOf
    <2> QED BY SectionMapType
  <1> HIDE DEF items, sections, lastOf, c
  <1>6. IsFiniteSet(names)
    <2> DEFINE f == [s \in sections |-> SectionName(items, s)]
    <2>1. names = {f[s] : s \in sections}
      OBVIOUS
    <2>2. sections \subseteq DOMAIN f /\ Len(t) \in Nat
      OBVIOUS
    <2> HIDE DEF f, names
    <2> QED
      BY <1>2, <2>1, <2>2, ImageOfPositions
  <1>7. <<>> \in names /\ \A name \in names : name \in Seq(Characters)
    BY <1>2, <1>3, <1>4
  <1> HIDE DEF names
  <1>8. DOMAIN c = names /\ \A name \in names : c[name] = SectionMap(items, lastOf(name))
    BY <1>1
  <1>9. TypedMap(c) /\ FiniteMap(c) /\ <<>> \in DOMAIN c
    BY <1>5, <1>6, <1>7, <1>8 DEF TypedMap, FiniteMap
  <1> QED
    BY <1>9 DEF c

-----------------------------------------------------------------------------
(* Lines.                                                                   *)

LEMMA SameText ==
  ASSUME NEW a \in Seq(Characters), NEW b \in Seq(Characters), Len(a) = Len(b),
         \A i \in 1 .. Len(a) : a[i] = b[i]
  PROVE  a = b
PROOF
  OBVIOUS

LineEnd(t, n) == Until(t, n, {LF})

\* The line that starts at n has its last character that is no blank at r.
LastSolid(t, n, r) ==
  /\ r \in n .. LineEnd(t, n) - 1
  /\ t[r] \notin Blank
  /\ \A k \in r + 1 .. LineEnd(t, n) - 1 : t[k] \in Blank

LEMMA LineEndFinds ==
  ASSUME NEW t \in Seq(Characters), NEW n \in 1 .. Len(t), t[n] \notin Blank
  PROVE  /\ LineEnd(t, n) \in n + 1 .. Len(t) + 1
         /\ LineEnd(t, n) <= Len(t) => t[LineEnd(t, n)] = LF
         /\ \A k \in n .. LineEnd(t, n) - 1 : t[k] # LF
PROOF
  <1>1. /\ LineEnd(t, n) \in n .. Len(t) + 1
        /\ LineEnd(t, n) <= Len(t) => t[LineEnd(t, n)] \in {LF}
        /\ \A k \in n .. LineEnd(t, n) - 1 : t[k] \notin {LF}
    BY UntilFinds DEF LineEnd
  <1>2. ASSUME LineEnd(t, n) = n PROVE FALSE
    <2>1. t[n] = LF
      BY <1>1, <1>2
    <2> QED
      BY <2>1 DEF Blank
  <1>3. LineEnd(t, n) \in n + 1 .. Len(t) + 1
    BY <1>1, <1>2
  <1> QED
    BY <1>1, <1>3

\* A part of a text that is blank at its end loses no more than that in Trim.
LEMMA TrimPart ==
  ASSUME NEW t \in Seq(Characters), NEW n \in 1 .. Len(t), NEW e \in n + 1 .. Len(t) + 1,
         NEW r \in n .. e - 1,
         t[n] \notin Blank, t[r] \notin Blank, \A k \in r + 1 .. e - 1 : t[k] \in Blank
  PROVE  Trim(SubSeq(t, n, e - 1)) = SubSeq(t, n, r)
PROOF
  <1> DEFINE s == SubSeq(t, n, e - 1)
             j == r - n + 1
  <1>1. /\ s \in Seq(Characters) /\ Len(s) = e - n
        /\ \A k \in 1 .. e - n : s[k] = t[n + k - 1]
    <2>1. /\ n \in 1 .. Len(t) + 1 /\ e - 1 \in Nat /\ n <= (e - 1) + 1 /\ e - 1 <= Len(t)
          /\ (e - 1) - n + 1 = e - n
      OBVIOUS
    <2> QED
      BY <2>1, SubText
  <1>2. 1 \in 1 .. Len(s) /\ j \in 1 .. Len(s)
    <2> HIDE DEF s
    <2> QED BY <1>1
  <1> HIDE DEF s
  <1>3. s[1] \notin Blank /\ s[j] \notin Blank
    <2>1. s[1] = t[n]
      BY <1>1, <1>2
    <2>2. s[j] = t[r]
      BY <1>1, <1>2
    <2> QED
      BY <2>1, <2>2
  <1>4. ASSUME NEW k \in j + 1 .. Len(s) PROVE s[k] \in Blank
    <2>1. k \in 1 .. e - n /\ n + k - 1 \in r + 1 .. e - 1
      BY <1>1
    <2>2. s[k] = t[n + k - 1]
      BY <1>1, <2>1
    <2> QED
      BY <2>1, <2>2
  <1>5. Trim(s) = SubSeq(s, 1, j)
    <2>1. \A k \in 1 .. 1 - 1 : s[k] \in Blank
      OBVIOUS
    <2> HIDE DEF j
    <2> QED
      BY <1>1, <1>2, <1>3, <1>4, <2>1, TrimIs
  <1>6. SubSeq(s, 1, j) = SubSeq(t, n, r)
    <2>1. /\ SubSeq(s, 1, j) \in Seq(Characters) /\ Len(SubSeq(s, 1, j)) = j
          /\ \A k \in 1 .. j : SubSeq(s, 1, j)[k] = s[k]
      <3>1. /\ 1 \in 1 .. Len(s) + 1 /\ j \in Nat /\ 1 <= j + 1 /\ j <= Len(s)
            /\ j - 1 + 1 = j /\ \A k \in 1 .. j : 1 + k - 1 = k
        BY <1>1, <1>2
      <3> HIDE DEF j
      <3> QED
        BY <1>1, <3>1, SubText
    <2>2. /\ SubSeq(t, n, r) \in Seq(Characters) /\ Len(SubSeq(t, n, r)) = j
          /\ \A k \in 1 .. j : SubSeq(t, n, r)[k] = t[n + k - 1]
      <3>1. n \in 1 .. Len(t) + 1 /\ r \in Nat /\ n <= r + 1 /\ r <= Len(t)
        OBVIOUS
      <3> QED
        BY <3>1, SubText
    <2>3. \A k \in 1 .. j : k \in 1 .. e - n
      BY <1>1, <1>2
    <2>4. \A k \in 1 .. j : SubSeq(s, 1, j)[k] = SubSeq(t, n, r)[k]
      BY <1>1, <2>1, <2>2, <2>3
    <2> HIDE DEF j
    <2> QED
      BY <2>1, <2>2, <2>4, SameText
  <1> QED
    BY <1>5, <1>6 DEF s

\* A line is its text from n to its last solid character.
LEMMA LineIs ==
  ASSUME NEW t \in Seq(Characters), NEW n \in 1 .. Len(t), t[n] \notin Blank
  PROVE  \E r \in 1 .. Len(t) :
           /\ LastSolid(t, n, r)
           /\ Line(t, n) = SubSeq(t, n, r)
           /\ Line(t, n) \in Seq(Characters)
           /\ Len(Line(t, n)) = r - n + 1
           /\ \A i \in 1 .. r - n + 1 : Line(t, n)[i] = t[n + i - 1]
PROOF
  <1> DEFINE e == LineEnd(t, n)
             T == {k \in n .. e - 1 : t[k] \notin Blank}
  <1>1. e \in n + 1 .. Len(t) + 1
    BY LineEndFinds
  <1> HIDE DEF e
  <1>2. T \subseteq Nat /\ n \in T /\ e \in Nat /\ \A k \in T : k <= e
    BY <1>1
  <1>3. PICK r \in T : \A k \in T : k <= r
    <2> HIDE DEF T
    <2>1. T # {}
      BY <1>2
    <2> QED BY <1>2, <2>1, Greatest
  <1>4. r \in n .. e - 1 /\ t[r] \notin Blank /\ \A k \in r + 1 .. e - 1 : t[k] \in Blank
    BY <1>3, <1>1
  <1>5. LastSolid(t, n, r)
    BY <1>4 DEF LastSolid, e
  <1>6. Line(t, n) = SubSeq(t, n, r)
    <2>1. Line(t, n) = Trim(SubSeq(t, n, e - 1))
      BY DEF Line, e, LineEnd
    <2> QED
      BY <1>1, <1>4, <2>1, TrimPart
  <1>7. n \in 1 .. Len(t) + 1 /\ r \in Nat /\ n <= r + 1 /\ r <= Len(t) /\ r \in 1 .. Len(t)
    BY <1>1, <1>4
  <1>8. /\ SubSeq(t, n, r) \in Seq(Characters)
        /\ Len(SubSeq(t, n, r)) = r - n + 1
        /\ \A i \in 1 .. r - n + 1 : SubSeq(t, n, r)[i] = t[n + i - 1]
    BY <1>7, SubText
  <1> QED
    BY <1>5, <1>6, <1>7, <1>8

LEMMA SubSub ==
  ASSUME NEW t \in Seq(Characters), NEW p \in 1 .. Len(t) + 1, NEW q \in Nat,
         p <= q + 1, q <= Len(t),
         NEW i \in 1 .. q - p + 2, NEW j \in Nat, i <= j + 1, j <= q - p + 1
  PROVE  SubSeq(SubSeq(t, p, q), i, j) = SubSeq(t, p + i - 1, p + j - 1)
PROOF
  <1> DEFINE s == SubSeq(t, p, q)
             a == SubSeq(s, i, j)
             b == SubSeq(t, p + i - 1, p + j - 1)
             len == j - i + 1
  <1>1. /\ s \in Seq(Characters) /\ Len(s) = q - p + 1
        /\ \A k \in 1 .. q - p + 1 : s[k] = t[p + k - 1]
    BY SubText
  <1> HIDE DEF s
  <1>2. /\ a \in Seq(Characters) /\ Len(a) = len
        /\ \A k \in 1 .. len : a[k] = s[i + k - 1]
    <2>1. i \in 1 .. Len(s) + 1 /\ j <= Len(s)
      BY <1>1
    <2> QED
      BY <1>1, <2>1, SubText
  <1>3. /\ b \in Seq(Characters) /\ Len(b) = len
        /\ \A k \in 1 .. len : b[k] = t[(p + i - 1) + k - 1]
    <2>1. /\ p + i - 1 \in 1 .. Len(t) + 1 /\ p + j - 1 \in Nat
          /\ p + i - 1 <= (p + j - 1) + 1 /\ p + j - 1 <= Len(t)
          /\ (p + j - 1) - (p + i - 1) + 1 = len
      OBVIOUS
    <2> HIDE DEF len
    <2> QED
      BY <2>1, SubText
  <1>4. ASSUME NEW k \in 1 .. len PROVE a[k] = b[k]
    <2>1. i + k - 1 \in 1 .. q - p + 1 /\ p + (i + k - 1) - 1 = (p + i - 1) + k - 1
      OBVIOUS
    <2>2. s[i + k - 1] = t[(p + i - 1) + k - 1]
      BY <1>1, <2>1
    <2> HIDE DEF len, a, b
    <2> QED
      BY <1>2, <1>3, <2>2
  <1> HIDE DEF a, b, len
  <1>5. a = b
    BY <1>2, <1>3, <1>4, SameText
  <1> QED
    BY <1>5 DEF a, b, s

\* What is blank at the end of a part makes no difference to Trim.
LEMMA TrimTail ==
  ASSUME NEW t \in Seq(Characters), NEW p \in 1 .. Len(t) + 1, NEW e \in p .. Len(t) + 1,
         NEW r \in p - 1 .. e - 1, \A k \in r + 1 .. e - 1 : t[k] \in Blank
  PROVE  Trim(SubSeq(t, p, e - 1)) = Trim(SubSeq(t, p, r))
PROOF
  <1> DEFINE s == SubSeq(t, p, e - 1)
             u == SubSeq(t, p, r)
  <1>1. /\ e - 1 \in Nat /\ p <= (e - 1) + 1 /\ e - 1 <= Len(t)
        /\ r \in Nat /\ p <= r + 1 /\ r <= Len(t)
        /\ (e - 1) - p + 1 = e - p
    OBVIOUS
  <1>2. /\ s \in Seq(Characters) /\ Len(s) = e - p
        /\ \A k \in 1 .. e - p : s[k] = t[p + k - 1]
    BY <1>1, SubText
  <1>3. /\ u \in Seq(Characters) /\ Len(u) = r - p + 1
        /\ \A k \in 1 .. r - p + 1 : u[k] = t[p + k - 1]
    BY <1>1, SubText
  <1> HIDE DEF s, u
  <1>4. ASSUME NEW k \in r - p + 2 .. e - p PROVE s[k] \in Blank
    <2>1. k \in 1 .. e - p /\ p + k - 1 \in r + 1 .. e - 1
      OBVIOUS
    <2> QED
      BY <1>2, <2>1
  <1>5. \A k \in 1 .. r - p + 1 : k \in 1 .. e - p /\ s[k] = u[k]
    BY <1>2, <1>3
  <1>6. CASE \A k \in 1 .. Len(u) : u[k] \in Blank
    <2>1. \A k \in 1 .. Len(s) : s[k] \in Blank
      BY <1>2, <1>3, <1>4, <1>5, <1>6
    <2> QED
      BY <1>2, <1>3, <1>6, <2>1, TrimBlank DEF s, u
  <1>7. CASE \E k \in 1 .. Len(u) : u[k] \notin Blank
    <2>1. PICK i \in 1 .. Len(u) : \E j \in i .. Len(u) :
                 /\ u[i] \notin Blank /\ u[j] \notin Blank
                 /\ \A k \in 1 .. i - 1 : u[k] \in Blank
                 /\ \A k \in j + 1 .. Len(u) : u[k] \in Blank
      BY <1>3, <1>7, SolidEnds
    <2>2. PICK j \in i .. Len(u) :
                 /\ u[i] \notin Blank /\ u[j] \notin Blank
                 /\ \A k \in 1 .. i - 1 : u[k] \in Blank
                 /\ \A k \in j + 1 .. Len(u) : u[k] \in Blank
      BY <2>1
    <2>3. Trim(u) = SubSeq(u, i, j)
      BY <1>3, <2>2, TrimIs
    <2>4. Trim(s) = SubSeq(s, i, j)
      <3>1. i \in 1 .. Len(s) /\ j \in i .. Len(s)
        BY <1>2, <1>3
      <3>2. s[i] \notin Blank /\ s[j] \notin Blank
        BY <1>3, <1>5, <2>2
      <3>3. \A k \in 1 .. i - 1 : s[k] \in Blank
        BY <1>3, <1>5, <2>2
      <3>4. \A k \in j + 1 .. Len(s) : s[k] \in Blank
        <4> SUFFICES ASSUME NEW k \in j + 1 .. Len(s) PROVE s[k] \in Blank
          OBVIOUS
        <4>1. CASE k \in 1 .. r - p + 1
          <5>1. k \in j + 1 .. Len(u) /\ s[k] = u[k]
            BY <1>3, <1>5, <4>1
          <5> QED
            BY <2>2, <5>1
        <4>2. CASE k \in r - p + 2 .. e - p
          BY <1>4, <4>2
        <4> QED
          BY <1>2, <4>1, <4>2
      <3> QED
        BY <1>2, <3>1, <3>2, <3>3, <3>4, TrimIs
    <2>5. SubSeq(s, i, j) = SubSeq(t, p + i - 1, p + j - 1)
      <3>1. /\ i \in 1 .. (e - 1) - p + 2 /\ j \in Nat /\ i <= j + 1 /\ j <= (e - 1) - p + 1
        BY <1>3
      <3> QED
        BY <1>1, <3>1, SubSub DEF s
    <2>6. SubSeq(u, i, j) = SubSeq(t, p + i - 1, p + j - 1)
      <3>1. i \in 1 .. r - p + 2 /\ j \in Nat /\ i <= j + 1 /\ j <= r - p + 1
        BY <1>3
      <3> QED
        BY <1>1, <3>1, SubSub DEF u
    <2> QED
      BY <2>3, <2>4, <2>5, <2>6 DEF s, u
  <1> QED
    BY <1>6, <1>7

-----------------------------------------------------------------------------
(* The item that starts a line.                                             *)

\* The item that starts at n ends in its line, with only blanks after it there.
StaysInLine(t, n) ==
  /\ ItemAt(t, n).next \in n + 1 .. LineEnd(t, n)
  /\ \A k \in ItemAt(t, n).next .. LineEnd(t, n) - 1 : t[k] \in Blank

LEMMA CommentItem ==
  ASSUME NEW t \in Seq(Characters), NEW n \in 1 .. Len(t), t[n] = Semicolon
  PROVE  ItemAt(t, n).kind = "nothing" /\ StaysInLine(t, n)
PROOF
  <1> DEFINE e == LineEnd(t, n)
  <1>1. ItemAt(t, n) = Item("nothing", <<>>, <<>>, e)
    BY SemicolonDiffers DEF ItemAt, LineEnd, Skip
  <1>2. t[n] \notin Blank
    BY SemicolonDiffers
  <1>3. e \in n + 1 .. Len(t) + 1
    BY <1>2, LineEndFinds
  <1> HIDE DEF e
  <1>4. ItemAt(t, n).kind = "nothing" /\ ItemAt(t, n).next = e
    BY <1>1 DEF Item
  <1>5. e \in n + 1 .. e /\ \A k \in e .. e - 1 : t[k] \in Blank
    BY <1>3
  <1> QED
    BY <1>4, <1>5 DEF StaysInLine, e

LEMMA HeaderItem ==
  ASSUME NEW t \in Seq(Characters), NEW n \in 1 .. Len(t), t[n] \notin Blank,
         IsHeader(Line(t, n))
  PROVE  /\ ItemAt(t, n).kind = "section"
         /\ ItemAt(t, n).name = HeaderName(Line(t, n))
         /\ StaysInLine(t, n)
PROOF
  <1> DEFINE line == Line(t, n)
             e == LineEnd(t, n)
  <1>1. PICK r \in 1 .. Len(t) :
           /\ LastSolid(t, n, r)
           /\ line = SubSeq(t, n, r)
           /\ Len(line) = r - n + 1
           /\ \A i \in 1 .. r - n + 1 : line[i] = t[n + i - 1]
    BY LineIs
  <1>2. e \in n + 1 .. Len(t) + 1 /\ \A k \in n .. e - 1 : t[k] # LF
    BY LineEndFinds
  <1>3. r \in n .. e - 1 /\ \A k \in r + 1 .. e - 1 : t[k] \in Blank
    BY <1>1 DEF LastSolid
  <1> HIDE DEF line, e
  <1>4. /\ Len(line) > 2 /\ line[1] = "[" /\ line[Len(line)] = "]"
        /\ \A i \in 2 .. Len(line) - 1 : line[i] # "]"
    BY DEF IsHeader, line
  <1>5. r \in n + 2 .. e - 1
    BY <1>1, <1>3, <1>4
  <1>6. t[n] = "[" /\ t[r] = "]"
    <2>1. 1 \in 1 .. r - n + 1 /\ n + 1 - 1 = n
      BY <1>5
    <2>2. r - n + 1 \in 1 .. r - n + 1 /\ n + (r - n + 1) - 1 = r
      BY <1>5
    <2> QED
      BY <1>1, <1>4, <2>1, <2>2
  <1>7. ASSUME NEW k \in n + 1 .. r - 1 PROVE t[k] \notin {"]", LF}
    <2>1. k - n + 1 \in 2 .. Len(line) - 1 /\ k - n + 1 \in 1 .. r - n + 1
      BY <1>1
    <2>2. line[k - n + 1] = t[k]
      <3>1. n + (k - n + 1) - 1 = k
        OBVIOUS
      <3> QED
        BY <1>1, <2>1, <3>1
    <2>3. k \in n .. e - 1
      BY <1>2, <1>3
    <2> QED
      BY <1>2, <1>4, <2>1, <2>2, <2>3
  <1>8. Until(t, n + 1, {"]", LF}) = r
    <2>1. n + 1 \in 1 .. Len(t) + 1 /\ r \in n + 1 .. Len(t) + 1
      BY <1>5
    <2> QED
      BY <1>6, <1>7, <2>1, UntilIs
  <1>9. ItemAt(t, n) = Item("section", Name(t, n + 1, r), <<>>, r + 1)
    <2>1. Holds(t, r, "]")
      BY <1>6 DEF Holds
    <2> QED
      BY <1>6, <1>8, <2>1 DEF ItemAt, Header
  <1>10. Name(t, n + 1, r) = HeaderName(line)
    <2>1. Name(t, n + 1, r) = SubSeq(t, n + 1, r - 1)
      BY <1>5 DEF Name
    <2>2. HeaderName(line) = SubSeq(line, 2, r - n)
      BY <1>1 DEF HeaderName
    <2>3. SubSeq(SubSeq(t, n, r), 2, r - n) = SubSeq(t, n + 2 - 1, n + (r - n) - 1)
      <3>1. /\ n \in 1 .. Len(t) + 1 /\ r \in Nat /\ n <= r + 1 /\ r <= Len(t)
            /\ 2 \in 1 .. r - n + 2 /\ r - n \in Nat /\ 2 <= (r - n) + 1 /\ r - n <= r - n + 1
        BY <1>5
      <3> QED
        BY <3>1, SubSub
    <2>4. n + 2 - 1 = n + 1 /\ n + (r - n) - 1 = r - 1
      OBVIOUS
    <2> QED
      BY <1>1, <2>1, <2>2, <2>3, <2>4
  <1>11. StaysInLine(t, n)
    <2>1. ItemAt(t, n).next = r + 1
      BY <1>9 DEF Item
    <2>2. r + 1 \in n + 1 .. e
      BY <1>2, <1>5
    <2> QED
      BY <1>3, <2>1, <2>2 DEF StaysInLine, e
  <1> QED
    BY <1>9, <1>10, <1>11 DEF Item, line

\* The left side of an entry is its name, and spaces after it.
LEMMA EntryLeft ==
  ASSUME NEW line \in Seq(Characters), Len(line) > 0, line[1] \notin Blank,
         \A i \in 1 .. Len(line) : line[i] # LF,
         IsEntry(line)
  PROVE  \E j \in 2 .. Len(line) : \E m \in 1 .. j - 1 :
           /\ line[j] = "="
           /\ Until(line, 1, {"="}) = j
           /\ LeftOf(line) = SubSeq(line, 1, m)
           /\ line[1] \notin {"[", Semicolon}
           /\ \A i \in 1 .. m : line[i] \notin Blank \cup {"="}
           /\ \A i \in m + 1 .. j - 1 : line[i] = Space
PROOF
  <1> DEFINE j == Until(line, 1, {"="})
             before == BeforeEq(line)
             left == LeftOf(line)
  <1>1. j \in 1 .. Len(line) /\ line[j] = "=" /\ \A i \in 1 .. j - 1 : line[i] # "="
    <2>1. /\ j \in 1 .. Len(line) + 1
          /\ j <= Len(line) => line[j] \in {"="}
          /\ \A i \in 1 .. j - 1 : line[i] \notin {"="}
      <3>1. 1 \in 1 .. Len(line) + 1
        OBVIOUS
      <3> QED
        BY <3>1, UntilFinds
    <2>2. PICK i \in 1 .. Len(line) : line[i] = "="
      BY DEF IsEntry, Contains
    <2> HIDE DEF j
    <2>3. j # Len(line) + 1
      BY <2>1, <2>2
    <2> QED
      BY <2>1, <2>3
  <1>2. before = SubSeq(line, 1, j - 1) /\ left = Trim(before)
    BY DEF BeforeEq, LeftOf
  <1>3. ~Contains(before, CR) /\ WellNamed(left)
    BY DEF IsEntry
  <1> HIDE DEF j, before, left
  <1>4. /\ before \in Seq(Characters) /\ Len(before) = j - 1
        /\ \A i \in 1 .. j - 1 : before[i] = line[i]
    <2>1. /\ 1 \in 1 .. Len(line) + 1 /\ j - 1 \in Nat /\ 1 <= (j - 1) + 1
          /\ j - 1 <= Len(line) /\ (j - 1) - 1 + 1 = j - 1
          /\ \A i \in 1 .. j - 1 : 1 + i - 1 = i
      BY <1>1
    <2> QED
      BY <1>2, <2>1, SubText
  <1>5. j # 1
    <2>1. ASSUME j = 1 PROVE FALSE
      <3>1. \A i \in 1 .. Len(before) : before[i] \in Blank
        BY <1>4, <2>1
      <3>2. left = <<>>
        BY <1>2, <1>4, <3>1, TrimBlank
      <3> QED
        BY <1>3, <3>2 DEF WellNamed
    <2> QED
      BY <2>1
  <1> DEFINE T == {i \in 1 .. j - 1 : line[i] \notin Blank}
  <1>6. T \subseteq Nat /\ 1 \in T /\ j \in Nat /\ \A i \in T : i <= j
    BY <1>1, <1>5
  <1>7. PICK m \in T : \A i \in T : i <= m
    <2> HIDE DEF T
    <2>1. T # {}
      BY <1>6
    <2> QED BY <1>6, <2>1, Greatest
  <1>8. m \in 1 .. j - 1 /\ line[m] \notin Blank /\ \A i \in m + 1 .. j - 1 : line[i] \in Blank
    BY <1>1, <1>7
  <1>9. left = SubSeq(line, 1, m)
    <2>1. 1 \in 1 .. Len(line) /\ j \in 1 + 1 .. Len(line) + 1
      BY <1>1, <1>5
    <2> QED
      BY <1>2, <1>8, <2>1, TrimPart
  <1>10. Len(left) = m /\ \A i \in 1 .. m : left[i] = line[i]
    <2>1. /\ 1 \in 1 .. Len(line) + 1 /\ m \in Nat /\ 1 <= m + 1
          /\ m <= Len(line) /\ m - 1 + 1 = m
          /\ \A i \in 1 .. m : 1 + i - 1 = i
      BY <1>1, <1>8
    <2> QED
      BY <1>9, <2>1, SubText
  <1>11. left \in Seq(Characters)
    BY <1>2, <1>4, TrimType
  <1>12. \A i \in 1 .. m : line[i] \notin Blank \cup {"="}
    <2>1. \A i \in DOMAIN left : left[i] \notin Blank \cup {"="}
      BY <1>3 DEF WellNamed
    <2>2. \A i \in 1 .. m : i \in DOMAIN left
      BY <1>10, <1>11
    <2> QED
      BY <1>10, <2>1, <2>2
  <1>13. line[1] \notin {"[", Semicolon}
    <2>1. left[1] \notin {"[", Semicolon}
      BY <1>3 DEF WellNamed
    <2>2. 1 \in 1 .. m
      BY <1>8
    <2> QED
      BY <1>10, <2>1, <2>2
  <1>14. ASSUME NEW i \in m + 1 .. j - 1 PROVE line[i] = Space
    <2>1. i \in 1 .. j - 1 /\ i \in 1 .. Len(line)
      BY <1>1, <1>8
    <2>2. line[i] # CR
      BY <1>3, <1>4, <2>1 DEF Contains
    <2>3. line[i] # LF /\ line[i] \in Blank
      BY <1>8, <2>1
    <2> QED
      BY <2>2, <2>3 DEF Blank
  <1>15. j \in 2 .. Len(line)
    BY <1>1, <1>5
  <1> QED
    BY <1>1, <1>8, <1>9, <1>12, <1>13, <1>14, <1>15 DEF j, left

LEMMA EntryItem ==
  ASSUME NEW t \in Seq(Characters), NEW n \in 1 .. Len(t), t[n] \notin Blank,
         IsEntry(Line(t, n))
  PROVE  /\ ItemAt(t, n).kind = "property"
         /\ ItemAt(t, n).name = LeftOf(Line(t, n))
         /\ ItemAt(t, n).value = RightOf(Line(t, n))
         /\ StaysInLine(t, n)
PROOF
  <1> DEFINE line == Line(t, n)
             e == LineEnd(t, n)
  <1>1. PICK r \in 1 .. Len(t) :
           /\ LastSolid(t, n, r)
           /\ line = SubSeq(t, n, r)
           /\ line \in Seq(Characters)
           /\ Len(line) = r - n + 1
           /\ \A i \in 1 .. r - n + 1 : line[i] = t[n + i - 1]
    BY LineIs
  <1>2. /\ e \in n + 1 .. Len(t) + 1 /\ \A k \in n .. e - 1 : t[k] # LF
        /\ e <= Len(t) => t[e] = LF
    BY LineEndFinds
  <1>3. r \in n .. e - 1 /\ \A k \in r + 1 .. e - 1 : t[k] \in Blank
    BY <1>1 DEF LastSolid
  <1>4. IsEntry(line)
    OBVIOUS
  <1> HIDE DEF line, e
  <1>5. ASSUME NEW k \in n .. r PROVE line[k - n + 1] = t[k]
    <2>1. k - n + 1 \in 1 .. r - n + 1 /\ n + (k - n + 1) - 1 = k
      OBVIOUS
    <2> QED
      BY <1>1, <2>1
  <1>6. line[1] = t[n] /\ Len(line) > 0
    <2>1. n \in n .. r /\ n - n + 1 = 1 /\ r - n + 1 > 0
      BY <1>3
    <2> QED
      BY <1>1, <1>5, <2>1
  <1>7. \A i \in 1 .. Len(line) : line[i] # LF
    <2> SUFFICES ASSUME NEW i \in 1 .. Len(line) PROVE line[i] # LF
      OBVIOUS
    <2>1. n + i - 1 \in n .. e - 1 /\ i \in 1 .. r - n + 1
      BY <1>1, <1>2, <1>3
    <2> QED
      BY <1>1, <1>2, <2>1
  <1>8. PICK j \in 2 .. Len(line) : \E m \in 1 .. j - 1 :
           /\ line[j] = "="
           /\ Until(line, 1, {"="}) = j
           /\ LeftOf(line) = SubSeq(line, 1, m)
           /\ line[1] \notin {"[", Semicolon}
           /\ \A i \in 1 .. m : line[i] \notin Blank \cup {"="}
           /\ \A i \in m + 1 .. j - 1 : line[i] = Space
    BY <1>1, <1>4, <1>6, <1>7, EntryLeft
  <1>9. PICK m \in 1 .. j - 1 :
           /\ line[j] = "="
           /\ Until(line, 1, {"="}) = j
           /\ LeftOf(line) = SubSeq(line, 1, m)
           /\ line[1] \notin {"[", Semicolon}
           /\ \A i \in 1 .. m : line[i] \notin Blank \cup {"="}
           /\ \A i \in m + 1 .. j - 1 : line[i] = Space
    BY <1>8
  <1> DEFINE eq == n + j - 1
  <1>0. j \in 2 .. r - n + 1 /\ m \in 1 .. j - 1 /\ r \in n .. Len(t)
    BY <1>1, <1>3
  <1>10. /\ eq \in n + 1 .. r /\ eq \in 1 .. Len(t) /\ eq \in n .. Len(t) + 1
         /\ n + m \in n + 1 .. eq
    BY <1>0
  <1>11. t[eq] = "="
    <2>1. eq - n + 1 = j /\ eq \in n .. r
      BY <1>10
    <2> QED
      BY <1>5, <1>9, <2>1
  <1>12. ASSUME NEW k \in n .. eq - 1
         PROVE  t[k] \notin {"=", LF} /\ (k < n + m => t[k] # Space) /\ (k >= n + m => t[k] = Space)
    <2>1. k \in n .. r /\ k - n + 1 \in 1 .. j - 1 /\ k \in n .. e - 1
      BY <1>2, <1>3, <1>0
    <2>2. line[k - n + 1] = t[k]
      BY <1>5, <2>1
    <2>3. CASE k < n + m
      <3>1. k - n + 1 \in 1 .. m
        BY <1>0, <2>1, <2>3
      <3>2. t[k] \notin Blank \cup {"="}
        BY <1>9, <2>2, <3>1
      <3>3. t[k] \notin {"=", LF} /\ t[k] # Space
        BY <3>2 DEF Blank
      <3>4. ~(k >= n + m)
        BY <1>0, <2>3
      <3> QED
        BY <3>3, <3>4
    <2>4. CASE k >= n + m
      <3>1. k - n + 1 \in m + 1 .. j - 1
        BY <1>0, <2>1, <2>4
      <3>2. t[k] = Space
        BY <1>9, <2>2, <3>1
      <3>3. t[k] # "=" /\ t[k] # LF
        BY <3>2 DEF Space, LF
      <3>4. ~(k < n + m)
        BY <1>0, <2>4
      <3> QED
        BY <3>2, <3>3, <3>4
    <2> QED
      BY <1>0, <2>3, <2>4
  <1>13. Until(t, n, {"=", LF}) = eq
    <2>1. n \in 1 .. Len(t) + 1
      OBVIOUS
    <2> HIDE DEF eq
    <2> QED
      BY <1>10, <1>11, <1>12, <2>1, UntilIs
  <1>14. Until(t, n, {"=", Space}) = n + m
    <2>1. n \in 1 .. Len(t) + 1 /\ n + m \in n .. Len(t) + 1
      BY <1>10
    <2>2. t[n + m] \in {"=", Space}
      BY <1>10, <1>11, <1>12
    <2>3. \A k \in n .. (n + m) - 1 : t[k] \notin {"=", Space}
      BY <1>10, <1>12
    <2> QED
      BY <2>1, <2>2, <2>3, UntilIs
  <1>15. Until(t, eq, {LF}) = e
    <2>1. eq \in 1 .. Len(t) + 1 /\ e \in eq .. Len(t) + 1
      BY <1>2, <1>3, <1>10
    <2>2. \A k \in eq .. e - 1 : t[k] \notin {LF}
      BY <1>2, <1>10
    <2>3. e <= Len(t) => t[e] \in {LF}
      BY <1>2
    <2> HIDE DEF eq
    <2> QED
      BY <2>1, <2>2, <2>3, UntilIs
  <1>16. ItemAt(t, n) = Item("property", Name(t, n, n + m), Trim(SubSeq(t, eq + 1, e - 1)), e)
    <2>1. Holds(t, eq, "=")
      BY <1>10, <1>11 DEF Holds
    <2>2. ItemAt(t, n) = Assignment(t, n, eq)
      BY <1>6, <1>9, <1>13, <2>1 DEF ItemAt, Property
    <2> QED
      BY <1>14, <1>15, <2>2 DEF Assignment
  <1>17. Name(t, n, n + m) = LeftOf(line)
    <2>1. Name(t, n, n + m) = SubSeq(t, n, n + m - 1)
      BY <1>10 DEF Name
    <2>2. SubSeq(SubSeq(t, n, r), 1, m) = SubSeq(t, n + 1 - 1, n + m - 1)
      <3>1. /\ n \in 1 .. Len(t) + 1 /\ r \in Nat /\ n <= r + 1 /\ r <= Len(t)
            /\ 1 \in 1 .. r - n + 2 /\ m \in Nat /\ 1 <= m + 1 /\ m <= r - n + 1
        BY <1>3, <1>10
      <3> QED
        BY <3>1, SubSub
    <2>3. n + 1 - 1 = n
      OBVIOUS
    <2> QED
      BY <1>1, <1>9, <2>1, <2>2, <2>3
  <1>18. Trim(SubSeq(t, eq + 1, e - 1)) = RightOf(line)
    <2>1. RightOf(line) = Trim(SubSeq(line, j + 1, r - n + 1))
      BY <1>1, <1>9 DEF RightOf
    <2>2. SubSeq(SubSeq(t, n, r), j + 1, r - n + 1)
            = SubSeq(t, n + (j + 1) - 1, n + (r - n + 1) - 1)
      <3>1. /\ n \in 1 .. Len(t) + 1 /\ r \in Nat /\ n <= r + 1 /\ r <= Len(t)
            /\ j + 1 \in 1 .. r - n + 2 /\ r - n + 1 \in Nat
            /\ j + 1 <= (r - n + 1) + 1 /\ r - n + 1 <= r - n + 1
        BY <1>0
      <3> QED
        BY <3>1, SubSub
    <2>3. n + (j + 1) - 1 = eq + 1 /\ n + (r - n + 1) - 1 = r
      BY <1>0
    <2>4. Trim(SubSeq(t, eq + 1, e - 1)) = Trim(SubSeq(t, eq + 1, r))
      <3>1. /\ eq + 1 \in 1 .. Len(t) + 1 /\ e \in eq + 1 .. Len(t) + 1
            /\ r \in (eq + 1) - 1 .. e - 1
        BY <1>2, <1>3, <1>10
      <3> HIDE DEF eq
      <3> QED
        BY <1>3, <3>1, TrimTail
    <2> QED
      BY <1>1, <2>1, <2>2, <2>3, <2>4
  <1>19. StaysInLine(t, n)
    <2>1. ItemAt(t, n).next = e
      BY <1>16 DEF Item
    <2>2. e \in n + 1 .. e /\ \A k \in e .. e - 1 : t[k] \in Blank
      BY <1>2
    <2> QED
      BY <2>1, <2>2 DEF StaysInLine, e
  <1> QED
    BY <1>16, <1>17, <1>18, <1>19 DEF Item, line

-----------------------------------------------------------------------------
(* A tidy file, line by line.                                               *)

LEMMA FirstsAre ==
  ASSUME NEW t \in Seq(Characters), NEW n
  PROVE  n \in Firsts(t) <=>
           /\ n \in 1 .. Len(t)
           /\ t[n] \notin Blank
           /\ \A k \in 1 .. n - 1 : t[k] \notin Blank => \E j \in k .. n - 1 : t[j] = LF
PROOF
  BY DEF Firsts

\* What starts a line of a tidy file is one item, of the line's kind.
LEMMA TidyItem ==
  ASSUME NEW t \in Seq(Characters), Tidy(t), NEW n \in Firsts(t)
  PROVE  LET item == ItemAt(t, n)
             line == Line(t, n)
         IN /\ StaysInLine(t, n)
            /\ item.kind = "section" <=> IsHeader(line)
            /\ item.kind = "property" <=> IsEntry(line)
            /\ IsHeader(line) => item.name = HeaderName(line)
            /\ IsEntry(line) => item.name = LeftOf(line) /\ item.value = RightOf(line)
PROOF
  <1>1. n \in 1 .. Len(t) /\ t[n] \notin Blank
    BY FirstsAre
  <1>2. Line(t, n)[1] = t[n]
    <2>1. PICK r \in 1 .. Len(t) :
             /\ LastSolid(t, n, r)
             /\ \A i \in 1 .. r - n + 1 : Line(t, n)[i] = t[n + i - 1]
      BY <1>1, LineIs
    <2>2. r >= n
      BY <1>1, <2>1, LineEndFinds DEF LastSolid
    <2>3. 1 \in 1 .. r - n + 1 /\ n + 1 - 1 = n
      BY <1>1, <2>2
    <2> QED
      BY <2>1, <2>3
  <1>3. t[n] = Semicolon \/ IsHeader(Line(t, n)) \/ IsEntry(Line(t, n))
    BY <1>2 DEF Tidy
  <1>4. CASE IsHeader(Line(t, n))
    <2>1. ItemAt(t, n).kind = "section"
      BY <1>1, <1>4, HeaderItem
    <2>2. ~IsEntry(Line(t, n))
      <3>1. IsEntry(Line(t, n)) => ItemAt(t, n).kind = "property"
        BY <1>1, EntryItem
      <3> QED
        BY <2>1, <3>1
    <2> QED
      BY <1>1, <1>4, <2>1, <2>2, HeaderItem
  <1>5. CASE IsEntry(Line(t, n)) /\ ~IsHeader(Line(t, n))
    BY <1>1, <1>5, EntryItem
  <1>6. CASE t[n] = Semicolon /\ ~IsEntry(Line(t, n)) /\ ~IsHeader(Line(t, n))
    BY <1>1, <1>6, CommentItem
  <1> QED
    BY <1>3, <1>4, <1>5, <1>6

\* Going on from where an item of a line ended leads to the next line that is
\* not empty.
LEMMA NextFirst ==
  ASSUME NEW t \in Seq(Characters), NEW n \in Firsts(t), StaysInLine(t, n)
  PROVE  LET q == SolidFrom(t, ItemAt(t, n).next)
         IN /\ q \in n + 1 .. Len(t) + 1
            /\ q <= Len(t) => q \in Firsts(t)
            /\ \A k \in n + 1 .. q - 1 : k \notin Firsts(t)
PROOF
  <1> DEFINE next == ItemAt(t, n).next
             e == LineEnd(t, n)
             q == SolidFrom(t, next)
  <1>1. n \in 1 .. Len(t) /\ t[n] \notin Blank
    BY FirstsAre
  <1>2. /\ e \in n + 1 .. Len(t) + 1 /\ (e <= Len(t) => t[e] = LF)
        /\ \A k \in n .. e - 1 : t[k] # LF
    BY <1>1, LineEndFinds
  <1>3. next \in n + 1 .. e /\ \A k \in next .. e - 1 : t[k] \in Blank
    BY DEF StaysInLine
  <1> HIDE DEF next, e
  <1>4. /\ q \in next .. Len(t) + 1 /\ (q <= Len(t) => t[q] \notin Blank)
        /\ \A k \in next .. q - 1 : t[k] \in Blank
    <2>1. next \in 1 .. Len(t) + 1
      BY <1>1, <1>2, <1>3
    <2> QED
      BY <2>1, SolidFinds
  <1> HIDE DEF q
  <1>5. q \in n + 1 .. Len(t) + 1
    BY <1>1, <1>2, <1>3, <1>4
  <1>6. ASSUME q <= Len(t) PROVE q \in Firsts(t)
    <2>1. t[e] # LF \/ t[e] \in Blank
      BY DEF Blank
    <2>2. e < q
      <3>1. ASSUME q < e PROVE FALSE
        <4>1. q \in next .. e - 1
          BY <1>2, <1>3, <1>4, <3>1
        <4> QED
          BY <1>3, <1>4, <1>6, <4>1
      <3>2. ASSUME q = e PROVE FALSE
        BY <1>2, <1>4, <1>6, <2>1, <3>2
      <3> QED
        BY <1>2, <1>5, <3>1, <3>2
    <2>3. ASSUME NEW k \in 1 .. q - 1, t[k] \notin Blank
          PROVE  \E j \in k .. q - 1 : t[j] = LF
      <3>1. ~(k \in next .. q - 1)
        BY <1>4, <2>3
      <3>2. e \in k .. q - 1
        BY <1>2, <1>3, <1>5, <2>2, <3>1
      <3>3. t[e] = LF
        BY <1>2, <1>5, <1>6, <2>2
      <3> QED
        BY <3>2, <3>3
    <2>4. q \in 1 .. Len(t) /\ t[q] \notin Blank
      BY <1>1, <1>4, <1>5, <1>6
    <2> QED
      BY <2>3, <2>4, FirstsAre
  <1>7. ASSUME NEW k \in n + 1 .. q - 1 PROVE k \notin Firsts(t)
    <2>1. CASE k < next
      <3>1. n \in 1 .. k - 1 /\ \A j \in n .. k - 1 : j \in n .. e - 1
        BY <1>1, <1>2, <1>3, <2>1
      <3> QED
        BY <1>1, <1>2, <3>1, FirstsAre
    <2>2. CASE k >= next
      <3>1. k \in next .. q - 1
        BY <1>3, <1>5, <2>2
      <3> QED
        BY <1>4, <3>1, FirstsAre
    <2> QED
      BY <1>2, <1>3, <2>1, <2>2
  <1> QED
    BY <1>5, <1>6, <1>7 DEF q, next

\* So the items of a tidy file start where its lines do.
LEMMA TidyStarts ==
  ASSUME NEW t \in Seq(Characters), Tidy(t)
  PROVE  Loop(t)[Len(t)].starts = Firsts(t)
PROOF
  <1> DEFINE N == Len(t)
             F == Loop(t)
             Reached(so) == /\ so.at <= N => so.at \in Firsts(t)
                            /\ so.starts = {p \in Firsts(t) : p < so.at}
             S == {n \in Nat : n <= N => Reached(F[n])}
  <1>1. N \in Nat /\ \A n \in 0 .. N : F[n] \in LoopStates(t)
    BY LoopIterates
  <1>2. \A p \in Firsts(t) : p \in 1 .. N
    BY FirstsAre
  <1>3. 0 \in S
    <2>1. F[0].at = SolidFrom(t, 1) /\ F[0].starts = {}
      <3>1. F[0] = FirstState(t)
        BY LoopIterates
      <3> QED
        BY <3>1 DEF FirstState
    <2> DEFINE q == SolidFrom(t, 1)
    <2>2. /\ q \in 1 .. N + 1 /\ (q <= N => t[q] \notin Blank)
          /\ \A k \in 1 .. q - 1 : t[k] \in Blank
      <3>1. 1 \in 1 .. N + 1
        BY <1>1
      <3> QED
        BY <3>1, SolidFinds
    <2> HIDE DEF q
    <2>3. q <= N => q \in Firsts(t)
      BY <1>1, <2>2, FirstsAre
    <2>4. \A p \in Firsts(t) : ~(p < q)
      <3> SUFFICES ASSUME NEW p \in Firsts(t), p < q PROVE FALSE
        OBVIOUS
      <3>1. p \in 1 .. q - 1
        BY <1>2, <2>2
      <3> QED
        BY <2>2, <3>1, FirstsAre
    <2>5. Reached(F[0])
      BY <2>1, <2>3, <2>4 DEF q
    <2> QED
      BY <2>5
  <1>4. ASSUME NEW n \in Nat, n \in S PROVE n + 1 \in S
    <2> SUFFICES ASSUME n + 1 <= N PROVE Reached(F[n + 1])
      OBVIOUS
    <2> DEFINE so == F[n]
    <2>1. so \in LoopStates(t) /\ Reached(so) /\ n \in 0 .. N /\ n + 1 \in 1 .. N
      BY <1>1, <1>4
    <2>2. F[n + 1] = Round(t, so)
      <3>1. (n + 1) - 1 = n
        OBVIOUS
      <3> QED
        BY <2>1, <3>1, LoopIterates
    <2> HIDE DEF so, F
    <2>3. CASE so.at > N
      <3>1. F[n + 1] = so
        BY <2>2, <2>3 DEF Round
      <3> QED
        BY <2>1, <3>1
    <2>4. CASE ~(so.at > N)
      <3> DEFINE p == so.at
                 q == SolidFrom(t, ItemAt(t, p).next)
      <3>1. p \in Firsts(t) /\ p \in 1 .. N /\ so.starts = {k \in Firsts(t) : k < p}
        BY <1>1, <1>2, <2>1, <2>4 DEF LoopStates
      <3>2. F[n + 1].at = q /\ F[n + 1].starts = so.starts \cup {p}
        BY <2>2, <2>4 DEF Round
      <3>3. /\ q \in p + 1 .. N + 1 /\ (q <= N => q \in Firsts(t))
            /\ \A k \in p + 1 .. q - 1 : k \notin Firsts(t)
        BY <3>1, TidyItem, NextFirst
      <3> HIDE DEF p, q
      <3>4. so.starts \cup {p} = {k \in Firsts(t) : k < q}
        <4>1. ASSUME NEW k \in Firsts(t), k < q PROVE k \in so.starts \cup {p}
          <5>1. ~(k \in p + 1 .. q - 1) /\ k \in 1 .. N
            BY <1>2, <3>3, <4>1
          <5>2. k <= p
            BY <3>1, <3>3, <4>1, <5>1
          <5> QED
            BY <3>1, <5>1, <5>2
        <4>2. \A k \in so.starts \cup {p} : k \in Firsts(t) /\ k < q
          BY <1>2, <3>1, <3>3
        <4> QED
          BY <4>1, <4>2
      <3> QED
        BY <3>2, <3>3, <3>4
    <2> QED
      BY <2>3, <2>4
  <1>5. N \in S
    <2> HIDE DEF S
    <2> QED BY <1>1, <1>3, <1>4, SetInduction
  <1>6. F[N].starts = {p \in Firsts(t) : p < F[N].at}
    BY <1>1, <1>5
  <1>7. F[N].at = N + 1
    BY LoopEnds
  <1> HIDE DEF F
  <1>8. \A p \in Firsts(t) : p < N + 1
    BY <1>2
  <1>9. F[N].starts = Firsts(t)
    BY <1>6, <1>7, <1>8
  <1> QED
    BY <1>9 DEF F

LEMMA TidyItems ==
  ASSUME NEW t \in Seq(Characters), Tidy(t)
  PROVE  /\ DOMAIN Items(t) = Firsts(t)
         /\ \A n \in Firsts(t) : Items(t)[n] = ItemAt(t, n)
PROOF
  <1> DEFINE last == Loop(t)[Len(t)]
  <1>1. Items(t) = [p \in last.starts |-> ItemAt(t, p)]
    BY DEF Items
  <1>2. last.starts = Firsts(t)
    BY TidyStarts
  <1> HIDE DEF last
  <1> QED
    BY <1>1, <1>2

\* The sections are the headers, and each has the entries below it.
LEMMA TidySections ==
  ASSUME NEW t \in Seq(Characters), Tidy(t)
  PROVE  /\ SectionsOf(Items(t)) = {0} \cup HeadersIn(t)
         /\ \A s \in {0} \cup HeadersIn(t) :
              /\ SectionName(Items(t), s) = NameAt(t, s)
              /\ PropertiesOf(Items(t), s) = EntriesBelow(t, s)
PROOF
  <1> DEFINE items == Items(t)
             sections == SectionsOf(items)
  <1>1. /\ DOMAIN items = Firsts(t)
        /\ \A n \in Firsts(t) : /\ n \in 1 .. Len(t)
                                /\ items[n].kind = "section" <=> IsHeader(Line(t, n))
                                /\ items[n].kind = "property" <=> IsEntry(Line(t, n))
                                /\ IsHeader(Line(t, n)) => items[n].name = HeaderName(Line(t, n))
    BY TidyItem, TidyItems, FirstsAre
  <1> HIDE DEF items
  <1>2. sections = {0} \cup HeadersIn(t)
    BY <1>1 DEF SectionsOf, HeadersIn
  <1>3. ASSUME NEW s \in {0} \cup HeadersIn(t) PROVE SectionName(items, s) = NameAt(t, s)
    <2>1. s # 0 => s \in Firsts(t) /\ IsHeader(Line(t, s))
      BY DEF HeadersIn
    <2> QED
      BY <1>1, <2>1 DEF SectionName, NameAt
  <1> HIDE DEF sections
  <1>4. ASSUME NEW s \in {0} \cup HeadersIn(t)
        PROVE  PropertiesOf(items, s) = EntriesBelow(t, s)
    <2>1. PropertiesOf(items, s)
            = {n \in Firsts(t) : IsEntry(Line(t, n)) /\ s = Max({q \in sections : q < n})}
      BY <1>1 DEF PropertiesOf, sections
    <2>2. \A g \in HeadersIn(t) : g \in Firsts(t) /\ g \in 1 .. Len(t)
      BY <1>1 DEF HeadersIn
    <2>3. ASSUME NEW n \in Firsts(t)
          PROVE  s = Max({q \in sections : q < n})
                   <=> n > s /\ \A g \in HeadersIn(t) : ~(s < g /\ g < n)
      <3> DEFINE above == {q \in sections : q < n}
      <3>1. n \in 1 .. Len(t) /\ s \in 0 .. Len(t)
        BY <1>1, <2>2
      <3>2. above \subseteq Nat /\ 0 \in above /\ \A q \in above : q <= n
        BY <1>2, <2>2, <3>1
      <3>3. CASE s = Max(above)
        <4>1. s \in above /\ \A q \in above : q <= s
          <5> HIDE DEF above
          <5>1. above # {} /\ n \in Nat
            BY <3>1, <3>2
          <5> QED
            BY <3>2, <3>3, <5>1, MaxFinds
        <4>2. \A g \in HeadersIn(t) : ~(s < g /\ g < n)
          <5> SUFFICES ASSUME NEW g \in HeadersIn(t), s < g, g < n PROVE FALSE
            OBVIOUS
          <5>1. g \in above /\ g \in Nat
            BY <1>2, <2>2
          <5> QED
            BY <3>1, <4>1, <5>1
        <4> QED
          BY <3>1, <3>3, <4>1, <4>2
      <3>4. CASE n > s /\ \A g \in HeadersIn(t) : ~(s < g /\ g < n)
        <4>1. s \in above
          BY <1>2, <3>1, <3>4
        <4>2. ASSUME NEW q \in above PROVE q <= s
          BY <1>2, <2>2, <3>1, <3>4
        <4> HIDE DEF above
        <4>3. Max(above) = s
          BY <3>2, <4>1, <4>2, MaxIs
        <4> QED
          BY <3>4, <4>3 DEF above
      <3> QED
        BY <3>3, <3>4
    <2> QED
      BY <2>1, <2>3 DEF EntriesBelow
  <1> QED
    BY <1>2, <1>3, <1>4 DEF items, sections

\* A tidy file is read as it is written.
LEMMA TidyReads ==
  ASSUME NEW t \in Seq(Characters), Tidy(t)
  PROVE  Loaded(t) = Meaning(t)
PROOF
  <1> DEFINE items == Items(t)
             all == {0} \cup HeadersIn(t)
             names == {NameAt(t, h) : h \in all}
             of(name) == {h \in all : NameAt(t, h) = name}
             own(s) == EntriesBelow(t, s)
             keys(s) == {LeftOf(Line(t, n)) : n \in own(s)}
             named(s, k) == {n \in own(s) : LeftOf(Line(t, n)) = k}
             map(s) == [k \in keys(s) |-> RightOf(Line(t, Max(named(s, k))))]
  <1>1. Meaning(t) = [name \in names |-> map(Max(of(name)))]
    BY DEF Meaning
  <1>2. Loaded(t) = [name \in {SectionName(items, s) : s \in SectionsOf(items)} |->
                      SectionMap(items, Max({s \in SectionsOf(items) : SectionName(items, s) = name}))]
    BY DEF Loaded
  <1>3. SectionsOf(items) = all /\ \A s \in all : /\ SectionName(items, s) = NameAt(t, s)
                                                  /\ PropertiesOf(items, s) = own(s)
    BY TidySections
  <1>4. all \subseteq Nat /\ (\A h \in all : h <= Len(t)) /\ \A n \in Firsts(t) : n \in 1 .. Len(t)
    BY FirstsAre DEF HeadersIn
  <1>5. ASSUME NEW s PROVE /\ own(s) \subseteq Nat /\ \A n \in own(s) : n <= Len(t)
                           /\ \A n \in own(s) : /\ items[n].name = LeftOf(Line(t, n))
                                                /\ items[n].value = RightOf(Line(t, n))
    <2>1. \A n \in own(s) : n \in Firsts(t) /\ IsEntry(Line(t, n))
      BY DEF EntriesBelow
    <2>2. \A n \in own(s) : items[n] = ItemAt(t, n)
      BY <2>1, TidyItems
    <2> HIDE DEF own, items
    <2>3. \A n \in own(s) : /\ items[n].name = LeftOf(Line(t, n))
                            /\ items[n].value = RightOf(Line(t, n))
      BY <2>1, <2>2, TidyItem
    <2> QED
      BY <1>4, <2>1, <2>3
  <1> HIDE DEF all, items, own
  <1>6. ASSUME NEW s \in all PROVE SectionMap(items, s) = map(s)
    <2> DEFINE named2(k) == {n \in own(s) : items[n].name = k}
    <2>1. SectionMap(items, s) = [k \in {items[n].name : n \in own(s)} |-> items[Max(named2(k))].value]
      BY <1>3, <1>6 DEF SectionMap
    <2>2. {items[n].name : n \in own(s)} = keys(s)
      BY <1>5
    <2>3. \A k : named2(k) = named(s, k)
      BY <1>5
    <2>4. ASSUME NEW k \in keys(s) PROVE Max(named(s, k)) \in own(s)
      <3>1. named(s, k) \subseteq Nat /\ named(s, k) # {} /\ \A n \in named(s, k) : n <= Len(t)
        BY <1>5
      <3>2. Len(t) \in Nat
        OBVIOUS
      <3> HIDE DEF named
      <3>3. Max(named(s, k)) \in named(s, k)
        BY <3>1, <3>2, MaxFinds
      <3> QED
        BY <3>3 DEF named
    <2> HIDE DEF keys, named, named2
    <2>5. \A k \in keys(s) : items[Max(named2(k))].value = RightOf(Line(t, Max(named(s, k))))
      BY <1>5, <2>3, <2>4
    <2> QED
      BY <2>1, <2>2, <2>5
  <1>7. {SectionName(items, s) : s \in SectionsOf(items)} = names
    BY <1>3
  <1>8. \A name : {s \in SectionsOf(items) : SectionName(items, s) = name} = of(name)
    BY <1>3
  <1>9. ASSUME NEW name \in names PROVE Max(of(name)) \in all
    <2>1. of(name) \subseteq Nat /\ of(name) # {} /\ \A h \in of(name) : h <= Len(t)
      BY <1>4
    <2>2. Len(t) \in Nat
      OBVIOUS
    <2> HIDE DEF of
    <2>3. Max(of(name)) \in of(name)
      BY <2>1, <2>2, MaxFinds
    <2> QED
      BY <2>3 DEF of
  <1> HIDE DEF names, of, map
  <1>10. \A name \in names : SectionMap(items, Max(of(name))) = map(Max(of(name)))
    BY <1>6, <1>9
  <1> QED
    BY <1>1, <1>2, <1>7, <1>8, <1>10

-----------------------------------------------------------------------------
(* What a tidy file holds can be written again.                             *)

\* What Trim leaves is part of the text, and trimmed.
LEMMA TrimTwice ==
  ASSUME NEW s \in Seq(Characters)
  PROVE  /\ Trim(Trim(s)) = Trim(s)
         /\ \A i \in 1 .. Len(Trim(s)) : \E k \in 1 .. Len(s) : Trim(s)[i] = s[k]
PROOF
  <1>1. CASE \A k \in 1 .. Len(s) : s[k] \in Blank
    <2>1. Trim(s) = <<>>
      BY <1>1, TrimBlank
    <2>2. Trim(<<>>) = <<>>
      <3>1. <<>> \in Seq(Characters) /\ \A k \in 1 .. Len(<<>>) : <<>>[k] \in Blank
        OBVIOUS
      <3> QED
        BY <3>1, TrimBlank
    <2> QED
      BY <2>1, <2>2
  <1>2. CASE \E k \in 1 .. Len(s) : s[k] \notin Blank
    <2>1. PICK i \in 1 .. Len(s) : \E j \in i .. Len(s) :
                 /\ s[i] \notin Blank /\ s[j] \notin Blank
                 /\ \A k \in 1 .. i - 1 : s[k] \in Blank
                 /\ \A k \in j + 1 .. Len(s) : s[k] \in Blank
      BY <1>2, SolidEnds
    <2>2. PICK j \in i .. Len(s) :
                 /\ s[i] \notin Blank /\ s[j] \notin Blank
                 /\ \A k \in 1 .. i - 1 : s[k] \in Blank
                 /\ \A k \in j + 1 .. Len(s) : s[k] \in Blank
      BY <2>1
    <2> DEFINE u == SubSeq(s, i, j)
               m == j - i + 1
    <2>3. Trim(s) = u
      BY <2>2, TrimIs
    <2>4. /\ u \in Seq(Characters) /\ Len(u) = m
          /\ \A k \in 1 .. m : u[k] = s[i + k - 1]
      <3>1. i \in 1 .. Len(s) + 1 /\ j \in Nat /\ i <= j + 1 /\ j <= Len(s)
        OBVIOUS
      <3> QED
        BY <3>1, SubText
    <2> HIDE DEF u
    <2>5. u[1] \notin Blank /\ u[m] \notin Blank
      <3>1. 1 \in 1 .. m /\ m \in 1 .. m /\ i + 1 - 1 = i /\ i + m - 1 = j
        OBVIOUS
      <3> HIDE DEF m
      <3> QED
        BY <2>2, <2>4, <3>1
    <2>6. Trim(u) = SubSeq(u, 1, m)
      <3>1. /\ 1 \in 1 .. Len(u) /\ m \in 1 .. Len(u)
            /\ \A k \in 1 .. 1 - 1 : u[k] \in Blank
            /\ \A k \in m + 1 .. Len(u) : u[k] \in Blank
        BY <2>4
      <3> HIDE DEF m
      <3> QED
        BY <2>4, <2>5, <3>1, TrimIs
    <2>7. SubSeq(u, 1, m) = u
      <3>1. /\ 1 \in 1 .. Len(u) + 1 /\ m \in Nat /\ 1 <= m + 1 /\ m <= Len(u)
            /\ m - 1 + 1 = m /\ \A k \in 1 .. m : 1 + k - 1 = k
        BY <2>4
      <3> HIDE DEF m
      <3>2. /\ SubSeq(u, 1, m) \in Seq(Characters) /\ Len(SubSeq(u, 1, m)) = m
            /\ \A k \in 1 .. m : SubSeq(u, 1, m)[k] = u[k]
        BY <2>4, <3>1, SubText
      <3> QED
        BY <2>4, <3>2, SameText
    <2>8. ASSUME NEW k \in 1 .. m PROVE u[k] = s[i + k - 1] /\ i + k - 1 \in 1 .. Len(s)
      BY <2>4
    <2> QED
      BY <2>3, <2>4, <2>6, <2>7, <2>8
  <1> QED
    BY <1>1, <1>2

LEMMA LineHasNoLF ==
  ASSUME NEW t \in Seq(Characters), NEW n \in 1 .. Len(t), t[n] \notin Blank
  PROVE  /\ Line(t, n) \in Seq(Characters)
         /\ \A i \in 1 .. Len(Line(t, n)) : Line(t, n)[i] # LF
PROOF
  <1>1. PICK r \in 1 .. Len(t) :
           /\ LastSolid(t, n, r)
           /\ Line(t, n) \in Seq(Characters)
           /\ Len(Line(t, n)) = r - n + 1
           /\ \A i \in 1 .. r - n + 1 : Line(t, n)[i] = t[n + i - 1]
    BY LineIs
  <1> DEFINE e == LineEnd(t, n)
  <1>2. e \in n + 1 .. Len(t) + 1 /\ \A k \in n .. e - 1 : t[k] # LF
    BY LineEndFinds
  <1>3. r \in n .. e - 1
    BY <1>1 DEF LastSolid
  <1> HIDE DEF e
  <1>4. ASSUME NEW i \in 1 .. r - n + 1 PROVE Line(t, n)[i] # LF
    <2>1. n + i - 1 \in n .. e - 1
      BY <1>2, <1>3
    <2> QED
      BY <1>1, <1>2, <2>1
  <1> QED
    BY <1>1, <1>4

LEMMA HeaderNameWritable ==
  ASSUME NEW line \in Seq(Characters), \A i \in 1 .. Len(line) : line[i] # LF,
         IsHeader(line)
  PROVE  \A n \in DOMAIN HeaderName(line) : HeaderName(line)[n] \notin {"]", LF}
PROOF
  <1> DEFINE name == HeaderName(line)
             m == Len(line) - 2
  <1>1. Len(line) > 2 /\ \A n \in 2 .. Len(line) - 1 : line[n] # "]"
    BY DEF IsHeader
  <1>2. /\ name \in Seq(Characters) /\ Len(name) = m
        /\ \A k \in 1 .. m : name[k] = line[2 + k - 1]
    <2>1. /\ 2 \in 1 .. Len(line) + 1 /\ Len(line) - 1 \in Nat /\ 2 <= (Len(line) - 1) + 1
          /\ Len(line) - 1 <= Len(line) /\ (Len(line) - 1) - 2 + 1 = m
      BY <1>1
    <2>2. name = SubSeq(line, 2, Len(line) - 1)
      BY DEF HeaderName
    <2> HIDE DEF m, name
    <2> QED
      BY <2>1, <2>2, SubText
  <1> HIDE DEF name
  <1>3. ASSUME NEW n \in DOMAIN name PROVE name[n] \notin {"]", LF}
    <2>1. n \in 1 .. m
      BY <1>2
    <2>2. 2 + n - 1 \in 2 .. Len(line) - 1 /\ 2 + n - 1 \in 1 .. Len(line)
      BY <1>1, <2>1
    <2> QED
      BY <1>1, <1>2, <2>1, <2>2
  <1> QED
    BY <1>3 DEF name

LEMMA RightOfWritable ==
  ASSUME NEW line \in Seq(Characters), \A i \in 1 .. Len(line) : line[i] # LF,
         IsEntry(line)
  PROVE  RightOf(line) = Trim(RightOf(line)) /\ ~Contains(RightOf(line), LF)
PROOF
  <1> DEFINE j == Until(line, 1, {"="})
             right == SubSeq(line, j + 1, Len(line))
  <1>1. j \in 1 .. Len(line)
    <2>1. j \in 1 .. Len(line) + 1 /\ \A i \in 1 .. j - 1 : line[i] \notin {"="}
      <3>1. 1 \in 1 .. Len(line) + 1
        OBVIOUS
      <3> QED
        BY <3>1, UntilFinds
    <2>2. PICK i \in 1 .. Len(line) : line[i] = "="
      BY DEF IsEntry, Contains
    <2> HIDE DEF j
    <2> QED
      BY <2>1, <2>2
  <1>2. RightOf(line) = Trim(right)
    BY DEF RightOf
  <1> HIDE DEF j
  <1>3. /\ right \in Seq(Characters) /\ Len(right) = Len(line) - (j + 1) + 1
        /\ \A k \in 1 .. Len(line) - (j + 1) + 1 : right[k] = line[(j + 1) + k - 1]
    <2>1. /\ j + 1 \in 1 .. Len(line) + 1 /\ Len(line) \in Nat /\ j + 1 <= Len(line) + 1
          /\ Len(line) <= Len(line)
      BY <1>1
    <2> QED
      BY <2>1, SubText
  <1> HIDE DEF right
  <1>4. \A k \in 1 .. Len(right) : right[k] # LF
    <2> SUFFICES ASSUME NEW k \in 1 .. Len(right) PROVE right[k] # LF
      OBVIOUS
    <2>1. (j + 1) + k - 1 \in 1 .. Len(line) /\ k \in 1 .. Len(line) - (j + 1) + 1
      BY <1>1, <1>3
    <2> QED
      BY <1>3, <2>1
  <1>5. Trim(Trim(right)) = Trim(right)
    BY <1>3, TrimTwice
  <1>6. \A i \in 1 .. Len(Trim(right)) : Trim(right)[i] # LF
    BY <1>3, <1>4, TrimTwice
  <1> QED
    BY <1>2, <1>5, <1>6 DEF Contains

LEMMA MeaningWritable ==
  ASSUME NEW t \in Seq(Characters)
  PROVE  Writable(Meaning(t))
PROOF
  <1> DEFINE all == {0} \cup HeadersIn(t)
             names == {NameAt(t, h) : h \in all}
             of(name) == {h \in all : NameAt(t, h) = name}
             own(s) == EntriesBelow(t, s)
             keys(s) == {LeftOf(Line(t, n)) : n \in own(s)}
             named(s, k) == {n \in own(s) : LeftOf(Line(t, n)) = k}
             map(s) == [k \in keys(s) |-> RightOf(Line(t, Max(named(s, k))))]
             c == Meaning(t)
  <1>1. c = [name \in names |-> map(Max(of(name)))]
    BY DEF Meaning
  <1>2. \A n \in Firsts(t) : n \in 1 .. Len(t) /\ t[n] \notin Blank
    BY FirstsAre
  <1>3. ASSUME NEW s \in names PROVE \A n \in DOMAIN s : s[n] \notin {"]", LF}
    <2>1. PICK h \in all : s = NameAt(t, h)
      OBVIOUS
    <2>2. CASE h = 0
      <3>1. s = <<>>
        BY <2>1, <2>2 DEF NameAt
      <3> QED
        BY <3>1
    <2>3. CASE h # 0
      <3>1. h \in Firsts(t) /\ IsHeader(Line(t, h)) /\ s = HeaderName(Line(t, h))
        BY <2>1, <2>3 DEF HeadersIn, NameAt
      <3> QED
        BY <1>2, <3>1, LineHasNoLF, HeaderNameWritable
    <2> QED
      BY <2>2, <2>3
  <1>4. ASSUME NEW s, NEW k \in keys(s)
        PROVE  WellNamed(k) /\ map(s)[k] = Trim(map(s)[k]) /\ ~Contains(map(s)[k], LF)
    <2>1. \A n \in own(s) : n \in Firsts(t) /\ IsEntry(Line(t, n)) /\ n \in 1 .. Len(t)
      BY <1>2 DEF EntriesBelow
    <2> DEFINE m == Max(named(s, k))
    <2>2. m \in own(s)
      <3>1. named(s, k) \subseteq Nat /\ named(s, k) # {} /\ \A n \in named(s, k) : n <= Len(t)
        BY <1>4, <2>1
      <3>2. Len(t) \in Nat
        OBVIOUS
      <3> HIDE DEF named
      <3>3. m \in named(s, k)
        BY <3>1, <3>2, MaxFinds
      <3> QED
        BY <3>3 DEF named
    <2>3. map(s)[k] = RightOf(Line(t, m))
      OBVIOUS
    <2> HIDE DEF m, map
    <2>4. map(s)[k] = Trim(map(s)[k]) /\ ~Contains(map(s)[k], LF)
      BY <1>2, <2>1, <2>2, <2>3, LineHasNoLF, RightOfWritable
    <2>5. WellNamed(k)
      BY <2>1 DEF IsEntry
    <2> QED
      BY <2>4, <2>5
  <1>5. \A s : DOMAIN map(s) = keys(s)
    OBVIOUS
  <1> HIDE DEF names, of, keys, map, c
  <1>6. DOMAIN c = names /\ \A name \in names : c[name] = map(Max(of(name)))
    BY <1>1
  <1>7. Writable(c)
    BY <1>3, <1>4, <1>5, <1>6 DEF Writable
  <1> QED
    BY <1>7 DEF c

\* What a tidy file without entries above its first header holds is storable.
LEMMA TidyStorable ==
  ASSUME NEW t \in Seq(Characters), Tidy(t), ~Headless(t)
  PROVE  Storable(Loaded(t))
PROOF
  BY TidyReads, MeaningWritable DEF Storable, Headless
=============================================================================
