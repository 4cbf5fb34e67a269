---------------------------- MODULE IniFileProofs ----------------------------
(***************************************************************************)
(* What ini_save writes for the options of a running game, for all of      *)
(* them, and what the next load makes of it; and so the theorems about     *)
(* launches, changes and saves.  What a load makes of a text is the        *)
(* subject of IniLoadProofs.                                               *)
(***************************************************************************)
EXTENDS IniLoadProofs

-----------------------------------------------------------------------------
(* Texts that are put together.                                             *)

LEMMA UsesCharacters ==
  LF \in Characters /\ "=" \in Characters /\ "[" \in Characters /\ "]" \in Characters
PROOF
  BY IniConstants DEF Blank

LEMMA Joined ==
  ASSUME NEW a \in Seq(Characters), NEW b \in Seq(Characters)
  PROVE  /\ a \o b \in Seq(Characters)
         /\ Len(a \o b) = Len(a) + Len(b)
         /\ \A i \in 1 .. Len(a) : (a \o b)[i] = a[i]
         /\ \A i \in 1 .. Len(b) : (a \o b)[Len(a) + i] = b[i]
PROOF
  OBVIOUS

LEMMA One ==
  ASSUME NEW x \in Characters
  PROVE  <<x>> \in Seq(Characters) /\ Len(<<x>>) = 1 /\ <<x>>[1] = x
PROOF
  OBVIOUS

LEMMA Associative ==
  ASSUME NEW a \in Seq(Characters), NEW b \in Seq(Characters), NEW c \in Seq(Characters)
  PROVE  (a \o b) \o c = a \o (b \o c)
PROOF
  <1> DEFINE l == (a \o b) \o c
             r == a \o (b \o c)
  <1>1. /\ l \in Seq(Characters) /\ r \in Seq(Characters)
        /\ Len(l) = Len(a) + Len(b) + Len(c) /\ Len(r) = Len(l)
    BY Joined
  <1>2. ASSUME NEW i \in 1 .. Len(l) PROVE l[i] = r[i]
    OBVIOUS
  <1> HIDE DEF l, r
  <1>3. l = r
    BY <1>1, <1>2, SameText
  <1> QED
    BY <1>3 DEF l, r

LEMMA JoinNone ==
  ASSUME NEW a \in Seq(Characters)
  PROVE  a \o <<>> = a /\ <<>> \o a = a
PROOF
  OBVIOUS

LEMMA EntryType ==
  ASSUME NEW name \in Seq(Characters), NEW value \in Seq(Characters)
  PROVE  Entry(name, value) \in Seq(Characters)
PROOF
  BY UsesCharacters, One, Joined DEF Entry

LEMMA HeaderLineType ==
  ASSUME NEW name \in Seq(Characters)
  PROVE  HeaderLine(name) \in Seq(Characters)
PROOF
  <1>1. <<"]", LF>> \in Seq(Characters) /\ <<>> \in Seq(Characters)
    BY UsesCharacters
  <1> QED
    BY <1>1, UsesCharacters, One, Joined DEF HeaderLine

LEMMA WithSectionType ==
  ASSUME NEW before \in Seq(Characters), NEW name \in Seq(Characters),
         NEW entries \in Seq(Characters)
  PROVE  WithSection(before, name, entries) \in Seq(Characters)
PROOF
  <1> DEFINE all == before \o HeaderLine(name) \o entries
  <1>1. all \in Seq(Characters) /\ all \o <<LF>> \in Seq(Characters)
    BY HeaderLineType, UsesCharacters, One, Joined
  <1>2. <<>> \in Seq(Characters)
    OBVIOUS
  <1>3. WithSection(before, name, entries) = IF all = <<>> THEN <<>> ELSE all \o <<LF>>
    BY DEF WithSection
  <1> HIDE DEF all
  <1> QED
    BY <1>1, <1>2, <1>3

-----------------------------------------------------------------------------
(* The recursions of ini_save.                                              *)

LEMMA OrderIs ==
  ASSUME NEW S, IsFiniteSet(S), NEW order \in SetToSeqs(S)
  PROVE  /\ order \in [1 .. Len(order) -> S]
         /\ Len(order) \in Nat
         /\ \A i, j \in 1 .. Len(order) : i # j => order[i] # order[j]
         /\ \A x \in S : \E i \in 1 .. Len(order) : order[i] = x
PROOF
  <1> DEFINE n == Cardinality(S)
  <1>1. n \in Nat
    BY FS_CardinalityType
  <1>2. order \in [1 .. n -> S] /\ \A i, j \in 1 .. n : i # j => order[i] # order[j]
    BY DEF SetToSeqs
  <1> HIDE DEF n
  <1>3. Len(order) = n
    BY <1>1, <1>2
  <1>4. order \in Injection(1 .. n, S)
    BY <1>2 DEF Injection, IsInjective
  <1>5. Cardinality(1 .. n) = n
    BY <1>1, FS_Interval
  <1>6. order \in Surjection(1 .. n, S)
    BY <1>4, <1>5, FS_Injection DEF n
  <1>7. \A x \in S : \E i \in 1 .. n : order[i] = x
    BY <1>6 DEF Surjection
  <1> QED
    BY <1>1, <1>2, <1>3, <1>7

\* The equations of EntriesUpTo.
EntriesFollow(section, order) ==
  /\ EntriesUpTo(section, order) \in [0 .. Len(order) -> Seq(Characters)]
  /\ EntriesUpTo(section, order)[0] = <<>>
  /\ \A n \in 1 .. Len(order) :
       EntriesUpTo(section, order)[n]
         = EntriesUpTo(section, order)[n - 1] \o Entry(order[n], section[order[n]])

LEMMA EntriesIterate ==
  ASSUME NEW section, NEW order, Len(order) \in Nat,
         \A n \in 1 .. Len(order) :
           order[n] \in Seq(Characters) /\ section[order[n]] \in Seq(Characters)
  PROVE  EntriesFollow(section, order)
PROOF
  <1> DEFINE N == Len(order)
             V == Seq(Characters)
             none == <<>>
             E(n) == Entry(order[n], section[order[n]])
             step == [n \in 1 .. N |-> [v \in V |-> v \o E(n)]]
             P(g) == g = [n \in 0 .. N |-> IF n = 0 THEN none ELSE g[n - 1] \o E(n)]
             F == EntriesUpTo(section, order)
  <1>1. F = CHOOSE g : P(g)
    BY DEF EntriesUpTo
  <1>2. \A n \in 1 .. N : E(n) \in V
    BY EntryType
  <1>3. step \in [1 .. N -> [V -> V]] /\ none \in V /\ N \in Nat
    BY <1>2
  <1>4. \A n \in 1 .. N, v \in V : step[n][v] = v \o E(n)
    OBVIOUS
  <1>5. \A n \in 1 .. N : n - 1 \in 0 .. N /\ n \in 0 .. N /\ n # 0
    BY <1>3
  <1> HIDE DEF step, E, V, N, none, F
  <1>6. PICK f : Iterates(f, N, V, none, step)
    BY <1>3, Recursion
  <1>7. \A n \in 1 .. N : f[n] = f[n - 1] \o E(n)
    BY <1>4, <1>5, <1>6 DEF Iterates
  <1>8. P(f)
    <2>1. f = [n \in 0 .. N |-> f[n]] /\ f[0] = none
      BY <1>6 DEF Iterates
    <2>2. \A n \in 0 .. N : n # 0 => n \in 1 .. N
      BY <1>3
    <2>3. \A n \in 0 .. N : f[n] = IF n = 0 THEN none ELSE f[n - 1] \o E(n)
      BY <1>7, <2>1, <2>2
    <2> QED
      BY <2>1, <2>3
  <1>9. P(F)
    <2> HIDE DEF P
    <2> QED BY <1>1, <1>8
  <1>10. F = [n \in 0 .. N |-> F[n]] /\ F[0] = none
    BY <1>3, <1>9
  <1>11. \A n \in 1 .. N : F[n] = F[n - 1] \o E(n)
    BY <1>5, <1>9
  <1>12. Iterates(F, N, V, none, step)
    <2> HIDE DEF P
    <2> QED BY <1>3, <1>4, <1>10, <1>11, IteratesWhen
  <1> QED
    BY <1>10, <1>11, <1>12 DEF F, N, E, none, V, Iterates, EntriesFollow

LEMMA EntriesSteps ==
  ASSUME NEW section, IsFiniteSet(DOMAIN section),
         \A k \in DOMAIN section : k \in Seq(Characters) /\ section[k] \in Seq(Characters),
         NEW order \in SetToSeqs(DOMAIN section)
  PROVE  /\ order \in [1 .. Len(order) -> DOMAIN section]
         /\ Len(order) \in Nat
         /\ \A k \in DOMAIN section : \E i \in 1 .. Len(order) : order[i] = k
         /\ EntriesFollow(section, order)
PROOF
  <1>1. /\ order \in [1 .. Len(order) -> DOMAIN section] /\ Len(order) \in Nat
        /\ \A k \in DOMAIN section : \E i \in 1 .. Len(order) : order[i] = k
    BY OrderIs
  <1>2. \A n \in 1 .. Len(order) : order[n] \in Seq(Characters) /\ section[order[n]] \in Seq(Characters)
    BY <1>1
  <1>3. Len(order) \in Nat
    BY <1>1
  <1>4. EntriesFollow(section, order)
    BY <1>2, <1>3, EntriesIterate
  <1> QED
    BY <1>1, <1>4

LEMMA EntriesType ==
  ASSUME NEW section, IsFiniteSet(DOMAIN section),
         \A k \in DOMAIN section : k \in Seq(Characters) /\ section[k] \in Seq(Characters)
  PROVE  Entries(section) \subseteq Seq(Characters)
PROOF
  <1> SUFFICES ASSUME NEW order \in SetToSeqs(DOMAIN section)
               PROVE  EntriesUpTo(section, order)[Len(order)] \in Seq(Characters)
    BY DEF Entries
  <1>1. /\ Len(order) \in Nat
        /\ EntriesUpTo(section, order) \in [0 .. Len(order) -> Seq(Characters)]
    BY EntriesSteps DEF EntriesFollow
  <1> QED
    BY <1>1

\* What WithSection makes of the texts of T, with the entries in any order.
WithEntries(c, name, T) ==
  {WithSection(before, name, entries) : before \in T, entries \in Entries(c[name])}

LEMMA SectionsIterate ==
  ASSUME NEW c, NEW order, Len(order) \in Nat,
         \A n \in 1 .. Len(order) :
           order[n] \in Seq(Characters) /\ Entries(c[order[n]]) \subseteq Seq(Characters)
  PROVE  /\ SectionsUpTo(c, order) \in [0 .. Len(order) -> SUBSET Seq(Characters)]
         /\ SectionsUpTo(c, order)[0] = {<<>>}
         /\ \A n \in 1 .. Len(order) :
              SectionsUpTo(c, order)[n]
                = WithEntries(c, order[n], SectionsUpTo(c, order)[n - 1])
PROOF
  <1> DEFINE N == Len(order)
             V == SUBSET Seq(Characters)
             none == {<<>>}
             E(n, T) == WithEntries(c, order[n], T)
             step == [n \in 1 .. N |-> [v \in V |-> E(n, v)]]
             P(g) == g = [n \in 0 .. N |-> IF n = 0 THEN none ELSE E(n, g[n - 1])]
             F == SectionsUpTo(c, order)
  <1>1. F = CHOOSE g : P(g)
    BY DEF SectionsUpTo, WithEntries
  <1>2. \A n \in 1 .. N, v \in V : E(n, v) \in V
    BY WithSectionType DEF WithEntries
  <1>3. step \in [1 .. N -> [V -> V]] /\ none \in V /\ N \in Nat
    <2>1. N \in Nat
      OBVIOUS
    <2>2. <<>> \in Seq(Characters)
      OBVIOUS
    <2>3. none \in V
      BY <2>2
    <2> HIDE DEF E, V, N, none
    <2> QED
      BY <1>2, <2>1, <2>3
  <1>4. \A n \in 1 .. N, v \in V : step[n][v] = E(n, v)
    OBVIOUS
  <1>5. \A n \in 1 .. N : n - 1 \in 0 .. N /\ n \in 0 .. N /\ n # 0
    BY <1>3
  <1> HIDE DEF step, E, V, N, none, F
  <1>6. PICK f : Iterates(f, N, V, none, step)
    BY <1>3, Recursion
  <1>7. \A n \in 1 .. N : f[n] = E(n, f[n - 1])
    BY <1>4, <1>5, <1>6 DEF Iterates
  <1>8. P(f)
    <2>1. f = [n \in 0 .. N |-> f[n]] /\ f[0] = none
      BY <1>6 DEF Iterates
    <2>2. \A n \in 0 .. N : n # 0 => n \in 1 .. N
      BY <1>3
    <2>3. \A n \in 0 .. N : f[n] = IF n = 0 THEN none ELSE E(n, f[n - 1])
      BY <1>7, <2>1, <2>2
    <2> QED
      BY <2>1, <2>3
  <1>9. P(F)
    <2> HIDE DEF P
    <2> QED BY <1>1, <1>8
  <1>10. F = [n \in 0 .. N |-> F[n]] /\ F[0] = none
    BY <1>3, <1>9
  <1>11. \A n \in 1 .. N : F[n] = E(n, F[n - 1])
    BY <1>5, <1>9
  <1>12. Iterates(F, N, V, none, step)
    <2> HIDE DEF P
    <2> QED BY <1>3, <1>4, <1>10, <1>11, IteratesWhen
  <1>13. F \in [0 .. N -> V]
    BY <1>12 DEF Iterates
  <1>14. SectionsUpTo(c, order) \in [0 .. Len(order) -> SUBSET Seq(Characters)]
    BY <1>13 DEF F, N, V
  <1>15. SectionsUpTo(c, order)[0] = {<<>>}
    BY <1>10 DEF F, none
  <1>16. \A n \in 1 .. Len(order) :
           SectionsUpTo(c, order)[n] = WithEntries(c, order[n], SectionsUpTo(c, order)[n - 1])
    BY <1>11 DEF F, N, E
  <1> QED
    BY <1>14, <1>15, <1>16

\* Every section of a finite map of texts is one.
LEMMA SavedSteps ==
  ASSUME NEW c, TypedMap(c), FiniteMap(c), NEW order \in SetToSeqs(DOMAIN c)
  PROVE  /\ order \in [1 .. Len(order) -> DOMAIN c]
         /\ Len(order) \in Nat
         /\ \A i, j \in 1 .. Len(order) : i # j => order[i] # order[j]
         /\ \A s \in DOMAIN c : \E i \in 1 .. Len(order) : order[i] = s
         /\ SectionsUpTo(c, order) \in [0 .. Len(order) -> SUBSET Seq(Characters)]
         /\ SectionsUpTo(c, order)[0] = {<<>>}
         /\ \A n \in 1 .. Len(order) :
              SectionsUpTo(c, order)[n]
                = WithEntries(c, order[n], SectionsUpTo(c, order)[n - 1])
PROOF
  <1>1. IsFiniteSet(DOMAIN c)
    BY DEF FiniteMap
  <1>2. /\ order \in [1 .. Len(order) -> DOMAIN c]
        /\ Len(order) \in Nat
        /\ \A i, j \in 1 .. Len(order) : i # j => order[i] # order[j]
        /\ \A s \in DOMAIN c : \E i \in 1 .. Len(order) : order[i] = s
    BY <1>1, OrderIs
  <1>3. \A s \in DOMAIN c : Entries(c[s]) \subseteq Seq(Characters)
    BY EntriesType DEF TypedMap, FiniteMap
  <1>4. \A n \in 1 .. Len(order) :
          order[n] \in Seq(Characters) /\ Entries(c[order[n]]) \subseteq Seq(Characters)
    <2>1. \A n \in 1 .. Len(order) : order[n] \in DOMAIN c
      BY <1>2
    <2> QED
      BY <2>1, <1>3 DEF TypedMap
  <1>5. /\ SectionsUpTo(c, order) \in [0 .. Len(order) -> SUBSET Seq(Characters)]
        /\ SectionsUpTo(c, order)[0] = {<<>>}
        /\ \A n \in 1 .. Len(order) :
             SectionsUpTo(c, order)[n]
               = WithEntries(c, order[n], SectionsUpTo(c, order)[n - 1])
    <2>1. Len(order) \in Nat
      BY <1>2
    <2> QED
      BY <2>1, <1>4, SectionsIterate, Zenon
  <1> QED
    BY <1>2, <1>5

LEMMA SavedType ==
  ASSUME NEW c, TypedMap(c), FiniteMap(c)
  PROVE  SavedTexts(c) \subseteq Seq(Characters)
PROOF
  <1> SUFFICES ASSUME NEW order \in SetToSeqs(DOMAIN c)
               PROVE  SectionsUpTo(c, order)[Len(order)] \subseteq Seq(Characters)
    BY DEF SavedTexts
  <1>1. /\ Len(order) \in Nat
        /\ SectionsUpTo(c, order) \in [0 .. Len(order) -> SUBSET Seq(Characters)]
    BY SavedSteps
  <1> QED
    BY <1>1

-----------------------------------------------------------------------------
(* Lines that are added to a text whose lines are all ended.                *)

Ended(t) == t \in Seq(Characters) /\ (Len(t) > 0 => t[Len(t)] = LF)

\* A line that no blank begins or ends.
Solid(line) ==
  /\ line \in Seq(Characters) /\ Len(line) > 0
  /\ line[1] \notin Blank /\ line[Len(line)] \notin Blank
  /\ \A i \in 1 .. Len(line) : line[i] # LF

Begins(t, more) ==
  /\ more \in Seq(Characters) /\ Len(t) <= Len(more)
  /\ \A i \in 1 .. Len(t) : more[i] = t[i]

\* What comes after it does not change the lines of such a text.
LEMMA SameLines ==
  ASSUME NEW t, Ended(t), NEW more, Begins(t, more)
  PROVE  /\ \A n \in 1 .. Len(t) : n \in Firsts(more) <=> n \in Firsts(t)
         /\ \A n \in Firsts(t) : Line(more, n) = Line(t, n)
PROOF
  <1>1. /\ t \in Seq(Characters) /\ more \in Seq(Characters) /\ Len(t) <= Len(more)
        /\ Len(t) \in Nat /\ Len(more) \in Nat
        /\ \A i \in 1 .. Len(t) : more[i] = t[i]
    BY DEF Ended, Begins
  <1>2. ASSUME NEW n \in 1 .. Len(t) PROVE n \in Firsts(more) <=> n \in Firsts(t)
    <2>1. n \in 1 .. Len(more)
      BY <1>1
    <2>2. \A k \in 1 .. n : more[k] = t[k]
      BY <1>1
    <2>3. (\A k \in 1 .. n - 1 : t[k] \notin Blank => \E j \in k .. n - 1 : t[j] = LF)
            <=> (\A k \in 1 .. n - 1 : more[k] \notin Blank => \E j \in k .. n - 1 : more[j] = LF)
      BY <2>2
    <2> QED
      BY <1>1, <2>1, <2>2, <2>3, FirstsAre
  <1>3. ASSUME NEW n \in Firsts(t) PROVE Line(more, n) = Line(t, n)
    <2> DEFINE e == LineEnd(t, n)
    <2>1. n \in 1 .. Len(t) /\ t[n] \notin Blank
      BY <1>1, FirstsAre
    <2>2. /\ e \in n + 1 .. Len(t) + 1 /\ (e <= Len(t) => t[e] = LF)
          /\ \A k \in n .. e - 1 : t[k] # LF
      BY <1>1, <2>1, LineEndFinds
    <2> HIDE DEF e
    <2>3. e <= Len(t)
      <3>1. t[Len(t)] = LF
        BY <1>1, <2>1 DEF Ended
      <3> QED
        BY <1>1, <2>1, <2>2, <3>1
    <2>4. LineEnd(more, n) = e
      <3>1. n \in 1 .. Len(more) + 1 /\ e \in n .. Len(more) + 1
        BY <1>1, <2>1, <2>2
      <3>2. more[e] \in {LF} /\ \A k \in n .. e - 1 : more[k] \notin {LF}
        BY <1>1, <2>1, <2>2, <2>3
      <3> QED
        BY <1>1, <3>1, <3>2, UntilIs DEF LineEnd
    <2>5. SubSeq(more, n, e - 1) = SubSeq(t, n, e - 1)
      <3>1. /\ n \in 1 .. Len(t) + 1 /\ n \in 1 .. Len(more) + 1 /\ e - 1 \in Nat
            /\ n <= (e - 1) + 1 /\ e - 1 <= Len(t) /\ e - 1 <= Len(more)
        BY <1>1, <2>1, <2>2
      <3>2. /\ SubSeq(t, n, e - 1) \in Seq(Characters)
            /\ Len(SubSeq(t, n, e - 1)) = (e - 1) - n + 1
            /\ \A k \in 1 .. (e - 1) - n + 1 : SubSeq(t, n, e - 1)[k] = t[n + k - 1]
        BY <1>1, <3>1, SubText
      <3>3. /\ SubSeq(more, n, e - 1) \in Seq(Characters)
            /\ Len(SubSeq(more, n, e - 1)) = (e - 1) - n + 1
            /\ \A k \in 1 .. (e - 1) - n + 1 : SubSeq(more, n, e - 1)[k] = more[n + k - 1]
        BY <1>1, <3>1, SubText
      <3>4. \A k \in 1 .. (e - 1) - n + 1 : n + k - 1 \in 1 .. Len(t)
        BY <1>1, <3>1
      <3>5. \A k \in 1 .. (e - 1) - n + 1 : SubSeq(more, n, e - 1)[k] = SubSeq(t, n, e - 1)[k]
        BY <1>1, <3>2, <3>3, <3>4
      <3> QED
        BY <3>2, <3>3, <3>5, SameText
    <2>6. Line(t, n) = Trim(SubSeq(t, n, e - 1))
      BY DEF Line, LineEnd, e
    <2>7. Line(more, n) = Trim(SubSeq(more, n, e - 1))
      BY <2>4 DEF Line, LineEnd
    <2> QED
      BY <2>5, <2>6, <2>7
  <1> QED
    BY <1>2, <1>3

LEMMA AddLine ==
  ASSUME NEW t, Ended(t), NEW line, Solid(line)
  PROVE  LET more == t \o line \o <<LF>>
             a == Len(t) + 1
         IN /\ Ended(more)
            /\ Firsts(more) = Firsts(t) \cup {a}
            /\ \A n \in Firsts(t) : n \in Nat /\ n < a /\ Line(more, n) = Line(t, n)
            /\ Line(more, a) = line
PROOF
  <1> DEFINE more == t \o line \o <<LF>>
             a == Len(t) + 1
             m == Len(line)
  <1>1. /\ t \in Seq(Characters) /\ line \in Seq(Characters) /\ m > 0
        /\ line[1] \notin Blank /\ line[m] \notin Blank
        /\ \A i \in 1 .. m : line[i] # LF
        /\ (Len(t) > 0 => t[Len(t)] = LF)
        /\ Len(t) \in Nat /\ m \in Nat
    BY DEF Ended, Solid
  <1>2. /\ more \in Seq(Characters) /\ Len(more) = a + m
        /\ \A i \in 1 .. Len(t) : more[i] = t[i]
        /\ \A i \in 1 .. m : more[Len(t) + i] = line[i]
        /\ more[a + m] = LF
    <2>1. LF \in Characters
      BY UsesCharacters
    <2>2. <<LF>> \in Seq(Characters) /\ Len(<<LF>>) = 1 /\ <<LF>>[1] = LF
      BY <2>1, One
    <2> DEFINE x == t \o line
    <2>3. /\ x \in Seq(Characters) /\ Len(x) = Len(t) + m
          /\ \A i \in 1 .. Len(t) : x[i] = t[i]
          /\ \A i \in 1 .. m : x[Len(t) + i] = line[i]
      BY <1>1, Joined
    <2>4. more = x \o <<LF>>
      OBVIOUS
    <2> HIDE DEF x, more
    <2>5. /\ more \in Seq(Characters) /\ Len(more) = Len(x) + 1
          /\ \A i \in 1 .. Len(x) : more[i] = x[i]
          /\ more[Len(x) + 1] = LF
      <3>1. 1 \in 1 .. Len(<<LF>>)
        BY <2>2
      <3> QED
        BY <2>2, <2>3, <2>4, <3>1, Joined
    <2>6. \A i \in 1 .. m : Len(t) + i \in 1 .. Len(x)
      BY <1>1, <2>3
    <2>7. \A i \in 1 .. Len(t) : i \in 1 .. Len(x)
      BY <1>1, <2>3
    <2>8. Len(x) + 1 = a + m
      BY <1>1, <2>3
    <2> QED
      BY <2>3, <2>5, <2>6, <2>7, <2>8
  <1> HIDE DEF more, m
  <1>3. Begins(t, more)
    BY <1>1, <1>2 DEF Begins
  <1>4. Ended(more)
    BY <1>2 DEF Ended
  <1>5. /\ \A n \in 1 .. Len(t) : n \in Firsts(more) <=> n \in Firsts(t)
        /\ \A n \in Firsts(t) : Line(more, n) = Line(t, n)
    BY <1>3, SameLines
  <1>6. a \in Firsts(more)
    <2>1. a \in 1 .. Len(more) /\ more[a] \notin Blank
      <3>1. 1 \in 1 .. m /\ Len(t) + 1 = a /\ a \in 1 .. a + m
        BY <1>1
      <3> QED
        BY <1>1, <1>2, <3>1
    <2>2. ASSUME NEW k \in 1 .. a - 1 PROVE \E j \in k .. a - 1 : more[j] = LF
      <3>1. Len(t) \in k .. a - 1 /\ Len(t) > 0 /\ Len(t) \in 1 .. Len(t)
        BY <1>1
      <3>2. more[Len(t)] = LF
        BY <1>1, <1>2, <3>1
      <3> QED
        BY <3>1, <3>2
    <2> QED
      BY <1>2, <2>1, <2>2, FirstsAre
  <1>7. ASSUME NEW n \in Firsts(more), n \notin 1 .. Len(t), n # a PROVE FALSE
    <2>1. n \in 1 .. Len(more) /\ more[n] \notin Blank
      BY <1>2, FirstsAre
    <2>2. n \in a + 1 .. a + m - 1
      <3>1. n # a + m
        BY <1>2, <2>1 DEF Blank
      <3>2. n \in Nat /\ 1 <= n /\ n <= a + m
        BY <1>1, <1>2, <2>1
      <3>3. ~(n <= Len(t))
        BY <1>1, <1>7, <3>2
      <3> QED
        BY <1>1, <1>7, <3>1, <3>2, <3>3
    <2>3. a \in 1 .. n - 1 /\ more[a] \notin Blank
      BY <1>1, <1>2, <1>6, <2>2, FirstsAre
    <2>4. PICK j \in a .. n - 1 : more[j] = LF
      BY <1>2, <2>3, FirstsAre
    <2>5. j - Len(t) \in 1 .. m /\ Len(t) + (j - Len(t)) = j
      BY <1>1, <2>2
    <2>6. more[j] = line[j - Len(t)]
      BY <1>2, <2>5
    <2> QED
      BY <1>1, <2>4, <2>5, <2>6
  <1>8. \A n \in Firsts(t) : n \in 1 .. Len(t)
    BY <1>1, FirstsAre
  <1>9. Firsts(more) = Firsts(t) \cup {a}
    BY <1>5, <1>6, <1>7, <1>8
  <1>10. Line(more, a) = line
    <2>1. LineEnd(more, a) = a + m
      <3>1. a \in 1 .. Len(more) + 1 /\ a + m \in a .. Len(more) + 1
        BY <1>1, <1>2
      <3>2. ASSUME NEW k \in a .. (a + m) - 1 PROVE more[k] \notin {LF}
        <4>1. k - Len(t) \in 1 .. m /\ Len(t) + (k - Len(t)) = k
          BY <1>1
        <4> QED
          BY <1>1, <1>2, <4>1
      <3> QED
        BY <1>2, <3>1, <3>2, UntilIs DEF LineEnd
    <2> DEFINE part == SubSeq(more, a, (a + m) - 1)
    <2>2. part = line
      <3>1. /\ a \in 1 .. Len(more) + 1 /\ (a + m) - 1 \in Nat /\ a <= ((a + m) - 1) + 1
            /\ (a + m) - 1 <= Len(more) /\ ((a + m) - 1) - a + 1 = m
        BY <1>1, <1>2
      <3>2. /\ part \in Seq(Characters) /\ Len(part) = m
            /\ \A k \in 1 .. m : part[k] = more[a + k - 1]
        BY <1>2, <3>1, SubText
      <3>3. \A k \in 1 .. m : a + k - 1 = Len(t) + k
        BY <1>1
      <3>4. \A k \in 1 .. m : part[k] = line[k]
        BY <1>2, <3>2, <3>3
      <3> HIDE DEF part
      <3> QED
        BY <1>1, <3>2, <3>4, SameText DEF m
    <2>3. Line(more, a) = Trim(part)
      BY <2>1 DEF Line, LineEnd
    <2>4. Trim(line) = SubSeq(line, 1, m)
      <3>1. 1 \in 1 .. Len(line) /\ m \in 1 .. Len(line)
        BY <1>1 DEF m
      <3>2. \A k \in 1 .. 1 - 1 : line[k] \in Blank
        OBVIOUS
      <3>3. \A k \in m + 1 .. Len(line) : line[k] \in Blank
        BY <1>1 DEF m
      <3> QED
        BY <1>1, <3>1, <3>2, <3>3, TrimIs
    <2>5. SubSeq(line, 1, m) = line
      BY <1>1 DEF m
    <2> QED
      BY <2>2, <2>3, <2>4, <2>5
  <1> QED
    BY <1>1, <1>4, <1>5, <1>8, <1>9, <1>10 DEF more

LEMMA AddEmptyLine ==
  ASSUME NEW t, Ended(t)
  PROVE  LET more == t \o <<LF>>
         IN /\ Ended(more)
            /\ Firsts(more) = Firsts(t)
            /\ \A n \in Firsts(t) : Line(more, n) = Line(t, n)
PROOF
  <1> DEFINE more == t \o <<LF>>
  <1>1. t \in Seq(Characters) /\ Len(t) \in Nat
    BY DEF Ended
  <1>2. /\ more \in Seq(Characters) /\ Len(more) = Len(t) + 1
        /\ \A i \in 1 .. Len(t) : more[i] = t[i]
        /\ more[Len(t) + 1] = LF
    <2>1. <<LF>> \in Seq(Characters) /\ Len(<<LF>>) = 1 /\ <<LF>>[1] = LF
      BY UsesCharacters, One
    <2>2. 1 \in 1 .. Len(<<LF>>)
      BY <2>1
    <2> QED
      BY <1>1, <2>1, <2>2, Joined
  <1> HIDE DEF more
  <1>3. Begins(t, more)
    BY <1>1, <1>2 DEF Begins
  <1>4. /\ \A n \in 1 .. Len(t) : n \in Firsts(more) <=> n \in Firsts(t)
        /\ \A n \in Firsts(t) : Line(more, n) = Line(t, n)
    BY <1>3, SameLines
  <1>5. \A n \in Firsts(more) : n \in 1 .. Len(t)
    <2>1. \A n \in Firsts(more) : n \in 1 .. Len(t) + 1 /\ more[n] \notin Blank
      BY <1>2, FirstsAre
    <2>2. more[Len(t) + 1] \in Blank
      BY <1>2 DEF Blank
    <2> QED
      BY <1>1, <2>1, <2>2
  <1>6. \A n \in Firsts(t) : n \in 1 .. Len(t)
    BY <1>1, FirstsAre
  <1>7. Ended(more)
    BY <1>2 DEF Ended
  <1> QED
    BY <1>4, <1>5, <1>6, <1>7 DEF more

-----------------------------------------------------------------------------
(* The lines that ini_save writes.                                          *)

LEMMA TrimmedEnds ==
  ASSUME NEW s \in Seq(Characters), Trim(s) = s, Len(s) > 0
  PROVE  s[1] \notin Blank /\ s[Len(s)] \notin Blank
PROOF
  <1>1. CASE \A k \in 1 .. Len(s) : s[k] \in Blank
    <2>1. s = <<>>
      BY <1>1, TrimBlank
    <2> QED
      BY <2>1
  <1>2. CASE \E k \in 1 .. Len(s) : s[k] \notin Blank
    <2>1. PICK i \in 1 .. Len(s) : \E j \in i .. Len(s) :
             /\ s[i] \notin Blank /\ s[j] \notin Blank
             /\ \A k \in 1 .. i - 1 : s[k] \in Blank
             /\ \A k \in j + 1 .. Len(s) : s[k] \in Blank
      BY <1>2, SolidEnds
    <2>2. PICK j \in i .. Len(s) :
             /\ s[i] \notin Blank /\ s[j] \notin Blank
             /\ \A k \in 1 .. i - 1 : s[k] \in Blank
             /\ \A k \in j + 1 .. Len(s) : s[k] \in Blank
      BY <2>1
    <2>3. s = SubSeq(s, i, j)
      BY <2>2, TrimIs
    <2>4. Len(SubSeq(s, i, j)) = j - i + 1
      <3>1. i \in 1 .. Len(s) + 1 /\ j \in Nat /\ i <= j + 1 /\ j <= Len(s)
        OBVIOUS
      <3> QED
        BY <3>1, SubText
    <2>5. i = 1 /\ j = Len(s)
      BY <2>3, <2>4
    <2> QED
      BY <2>2, <2>5
  <1> QED
    BY <1>1, <1>2

LEMMA TrimSolid ==
  ASSUME NEW s \in Seq(Characters), Len(s) > 0, \A i \in 1 .. Len(s) : s[i] \notin Blank
  PROVE  Trim(s) = s
PROOF
  <1>1. 1 \in 1 .. Len(s) /\ Len(s) \in 1 .. Len(s)
    OBVIOUS
  <1>2. /\ \A k \in 1 .. 1 - 1 : s[k] \in Blank
        /\ \A k \in Len(s) + 1 .. Len(s) : s[k] \in Blank
    OBVIOUS
  <1>3. Trim(s) = SubSeq(s, 1, Len(s))
    BY <1>1, <1>2, TrimIs
  <1> QED
    BY <1>3

HeaderText(name) == <<"[">> \o name \o <<"]">>
EntryText(name, value) == name \o <<"=">> \o value

LEMMA HeaderIs ==
  ASSUME NEW name \in Seq(Characters), name # <<>>,
         \A n \in DOMAIN name : name[n] \notin {"]", LF}
  PROVE  LET line == HeaderText(name)
         IN /\ HeaderLine(name) = line \o <<LF>>
            /\ Solid(line) /\ IsHeader(line) /\ ~IsEntry(line)
            /\ HeaderName(line) = name
PROOF
  <1> DEFINE line == HeaderText(name)
             m == Len(name)
  <1>1. m \in Nat /\ m > 0 /\ \A i \in 1 .. m : name[i] \notin {"]", LF}
    OBVIOUS
  <1>2. /\ line \in Seq(Characters) /\ Len(line) = m + 2 /\ line[1] = "["
        /\ line[m + 2] = "]"
        /\ \A i \in 1 .. m : line[i + 1] = name[i]
    BY UsesCharacters DEF HeaderText
  <1>3. HeaderLine(name) = line \o <<LF>>
    <2> DEFINE start == <<"[">> \o name
               close == <<"]">>
               end == <<LF>>
               both == <<"]", LF>>
    <2>1. start \in Seq(Characters) /\ close \in Seq(Characters) /\ end \in Seq(Characters)
      BY UsesCharacters
    <2>2. HeaderLine(name) = start \o both /\ line = start \o close
      BY DEF HeaderLine, HeaderText
    <2>3. both = close \o end
      OBVIOUS
    <2> HIDE DEF start, line, close, end, both
    <2>4. HeaderLine(name) = line \o end
      BY <2>1, <2>2, <2>3, Associative
    <2> QED
      BY <2>4 DEF end
  <1> HIDE DEF line, m
  <1>4. \A i \in 2 .. m + 1 : line[i] \notin {"]", LF}
    <2>1. \A i \in 2 .. m + 1 : i - 1 \in 1 .. m /\ (i - 1) + 1 = i
      BY <1>1
    <2> QED
      BY <1>1, <1>2, <2>1
  <1>5. \A i \in 1 .. Len(line) : line[i] # LF
    <2>1. \A i \in 1 .. Len(line) : i = 1 \/ i = m + 2 \/ i \in 2 .. m + 1
      BY <1>1, <1>2
    <2> QED
      BY <1>2, <1>4, <2>1 DEF LF
  <1>6. Solid(line)
    BY <1>1, <1>2, <1>5 DEF Solid, Blank, LF, CR, Space
  <1>7. IsHeader(line)
    <2>1. \A i \in 2 .. Len(line) - 1 : i \in 2 .. m + 1
      BY <1>1, <1>2
    <2> QED
      BY <1>1, <1>2, <1>4, <2>1 DEF IsHeader
  <1>8. HeaderName(line) = name
    <2> DEFINE part == SubSeq(line, 2, m + 1)
    <2>1. /\ 2 \in 1 .. Len(line) + 1 /\ m + 1 \in Nat /\ 2 <= (m + 1) + 1
          /\ m + 1 <= Len(line) /\ (m + 1) - 2 + 1 = m
      BY <1>1, <1>2
    <2>2. /\ part \in Seq(Characters) /\ Len(part) = m
          /\ \A k \in 1 .. m : part[k] = line[2 + k - 1]
      BY <1>2, <2>1, SubText
    <2>3. \A k \in 1 .. m : 2 + k - 1 = k + 1
      BY <1>1
    <2>4. HeaderName(line) = part
      <3>1. Len(line) - 1 = m + 1
        BY <1>1, <1>2
      <3> QED
        BY <3>1 DEF HeaderName
    <2> HIDE DEF part
    <2>5. \A k \in 1 .. m : part[k] = name[k]
      BY <1>2, <2>2, <2>3
    <2> QED
      BY <2>2, <2>4, <2>5, SameText DEF m
  <1>9. ~IsEntry(line)
    <2> SUFFICES ASSUME IsEntry(line) PROVE FALSE
      OBVIOUS
    <2>1. line \in Seq(Characters) /\ Len(line) > 0 /\ line[1] \notin Blank
      BY <1>6 DEF Solid
    <2>2. line[1] \notin {"[", Semicolon}
      BY <1>5, <2>1, EntryLeft
    <2> QED
      BY <1>2, <2>2
  <1> QED
    BY <1>3, <1>6, <1>7, <1>8, <1>9 DEF line

LEMMA EntryIs ==
  ASSUME NEW name \in Seq(Characters), NEW value \in Seq(Characters),
         WellNamed(name), value = Trim(value), ~Contains(value, LF)
  PROVE  LET line == EntryText(name, value)
         IN /\ Entry(name, value) = line \o <<LF>>
            /\ Solid(line) /\ IsEntry(line) /\ ~IsHeader(line)
            /\ LeftOf(line) = name /\ RightOf(line) = value
PROOF
  <1> DEFINE line == EntryText(name, value)
             m == Len(name)
             v == Len(value)
  <1>1. /\ m \in Nat /\ v \in Nat /\ m > 0
        /\ name[1] \notin {"[", Semicolon}
        /\ \A i \in 1 .. m : name[i] \notin Blank \cup {"="}
    BY DEF WellNamed
  <1>2. \A i \in 1 .. v : value[i] # LF
    BY DEF Contains
  <1>3. Entry(name, value) = line \o <<LF>>
    BY DEF Entry, EntryText
  <1>4. /\ line \in Seq(Characters) /\ Len(line) = m + 1 + v
        /\ \A i \in 1 .. m : line[i] = name[i]
        /\ line[m + 1] = "="
        /\ \A i \in 1 .. v : line[m + 1 + i] = value[i]
    BY UsesCharacters DEF EntryText
  <1> HIDE DEF line
  <1>5. "=" \notin Blank /\ LF \in Blank /\ CR \in Blank
    BY DEF Blank, LF, CR, Space
  <1>6. \A i \in 1 .. Len(line) :
          \/ i \in 1 .. m
          \/ i = m + 1
          \/ i - (m + 1) \in 1 .. v /\ (m + 1) + (i - (m + 1)) = i
    BY <1>1, <1>4
  <1>7. \A i \in 1 .. Len(line) : line[i] # LF
    <2>1. ASSUME NEW i \in 1 .. m PROVE line[i] # LF
      BY <1>1, <1>4, <1>5
    <2>2. line[m + 1] # LF
      BY <1>4, <1>5
    <2>3. ASSUME NEW i \in 1 .. v PROVE line[m + 1 + i] # LF
      BY <1>2, <1>4
    <2> HIDE DEF m, v
    <2> QED
      BY <1>6, <2>1, <2>2, <2>3
  <1>8. 1 \in 1 .. m /\ line[1] = name[1] /\ line[1] \notin Blank
    BY <1>1, <1>4
  <1>9. line[Len(line)] \notin Blank
    <2>1. CASE v = 0
      BY <1>1, <1>4, <1>5, <2>1
    <2>2. CASE v > 0
      <3>1. value[v] \notin Blank
        BY <2>2, TrimmedEnds
      <3>2. v \in 1 .. v
        BY <1>1, <2>2
      <3> QED
        BY <1>4, <3>1, <3>2
    <2> QED
      BY <1>1, <2>1, <2>2
  <1>10. Solid(line)
    BY <1>1, <1>4, <1>7, <1>8, <1>9 DEF Solid
  <1>11. Until(line, 1, {"="}) = m + 1
    <2>1. 1 \in 1 .. Len(line) + 1 /\ m + 1 \in 1 .. Len(line) + 1
      BY <1>1, <1>4
    <2>2. \A k \in 1 .. (m + 1) - 1 : line[k] \notin {"="}
      BY <1>1, <1>4
    <2> QED
      BY <1>4, <2>1, <2>2, UntilIs
  <1>12. BeforeEq(line) = name
    <2> DEFINE part == SubSeq(line, 1, m)
    <2>1. /\ 1 \in 1 .. Len(line) + 1 /\ m \in Nat /\ 1 <= m + 1
          /\ m <= Len(line) /\ m - 1 + 1 = m
      BY <1>1, <1>4
    <2>2. /\ part \in Seq(Characters) /\ Len(part) = m
          /\ \A k \in 1 .. m : part[k] = line[1 + k - 1]
      BY <1>4, <2>1, SubText
    <2>3. \A k \in 1 .. m : 1 + k - 1 = k
      OBVIOUS
    <2>4. BeforeEq(line) = part
      <3>1. (m + 1) - 1 = m
        BY <1>1
      <3> QED
        BY <1>11, <3>1 DEF BeforeEq
    <2> HIDE DEF part
    <2>5. \A k \in 1 .. m : part[k] = name[k]
      BY <1>4, <2>2, <2>3
    <2> QED
      BY <2>2, <2>4, <2>5, SameText
  <1>13. LeftOf(line) = name
    BY <1>1, <1>12, TrimSolid DEF LeftOf
  <1>14. RightOf(line) = value
    <2> DEFINE from == m + 2
               part == SubSeq(line, from, Len(line))
    <2>1. /\ from \in 1 .. Len(line) + 1 /\ Len(line) \in Nat /\ from <= Len(line) + 1
          /\ Len(line) <= Len(line) /\ Len(line) - from + 1 = v
      BY <1>1, <1>4
    <2>2. (m + 1) + 1 = from /\ \A k \in 1 .. v : from + k - 1 = m + 1 + k
      BY <1>1
    <2> HIDE DEF from
    <2>3. /\ part \in Seq(Characters) /\ Len(part) = v
          /\ \A k \in 1 .. v : part[k] = line[from + k - 1]
      BY <1>4, <2>1, SubText
    <2>4. RightOf(line) = Trim(part)
      BY <1>11, <2>2 DEF RightOf
    <2> HIDE DEF part
    <2>5. \A k \in 1 .. v : part[k] = value[k]
      BY <1>4, <2>2, <2>3
    <2>6. part = value
      BY <2>3, <2>5, SameText
    <2> QED
      BY <2>4, <2>6
  <1>15. IsEntry(line)
    <2>1. m + 1 \in 1 .. Len(line)
      BY <1>1, <1>4
    <2>2. Contains(line, "=")
      BY <1>4, <2>1 DEF Contains
    <2>3. ~Contains(name, CR)
      BY <1>1, <1>5 DEF Contains
    <2> QED
      BY <1>12, <1>13, <2>2, <2>3 DEF IsEntry
  <1>16. ~IsHeader(line)
    BY <1>1, <1>8 DEF IsHeader
  <1> QED
    BY <1>3, <1>10, <1>13, <1>14, <1>15, <1>16 DEF line

-----------------------------------------------------------------------------
(* What a line adds to the sections of a text.                              *)

IsLast(t, h) == h \in {0} \cup HeadersIn(t) /\ \A g \in HeadersIn(t) : g <= h

LEMMA LastExists ==
  ASSUME NEW t \in Seq(Characters)
  PROVE  \E h : IsLast(t, h)
PROOF
  <1> DEFINE T == {0} \cup HeadersIn(t)
  <1>1. HeadersIn(t) \subseteq 1 .. Len(t)
    BY FirstsAre DEF HeadersIn
  <1>2. T \subseteq Nat /\ T # {} /\ Len(t) \in Nat /\ \A y \in T : y <= Len(t)
    BY <1>1
  <1>3. PICK h \in T : \A y \in T : y <= h
    <2> HIDE DEF T
    <2> QED BY <1>2, Greatest
  <1> QED
    BY <1>3 DEF IsLast

LEMMA AddedLine ==
  ASSUME NEW t, Ended(t), NEW line, Solid(line), ~(IsHeader(line) /\ IsEntry(line))
  PROVE  LET more == t \o line \o <<LF>>
             a == Len(t) + 1
         IN /\ HeadersIn(more) = HeadersIn(t) \cup (IF IsHeader(line) THEN {a} ELSE {})
            /\ \A h \in HeadersIn(t) : h \in Nat /\ 0 < h /\ h < a
            /\ \A h \in {0} \cup HeadersIn(t) :
                 /\ NameAt(more, h) = NameAt(t, h)
                 /\ EntriesBelow(more, h)
                      = EntriesBelow(t, h) \cup (IF IsEntry(line) /\ IsLast(t, h) THEN {a} ELSE {})
            /\ IsHeader(line) => NameAt(more, a) = HeaderName(line) /\ EntriesBelow(more, a) = {}
PROOF
  <1> DEFINE more == t \o line \o <<LF>>
             a == Len(t) + 1
             old == HeadersIn(t)
             added == IF IsHeader(line) THEN {a} ELSE {}
  <1>1. /\ Firsts(more) = Firsts(t) \cup {a}
        /\ \A n \in Firsts(t) : n \in Nat /\ n < a /\ Line(more, n) = Line(t, n)
        /\ Line(more, a) = line
    BY AddLine
  <1>2. a \in Nat /\ a > 0 /\ \A n \in Firsts(t) : 0 < n
    BY FirstsAre DEF Ended
  <1> HIDE DEF more, a
  <1>3. old \subseteq Firsts(t)
    BY DEF HeadersIn
  <1>4. HeadersIn(more) = old \cup added
    BY <1>1 DEF HeadersIn
  <1>5. \A h \in old : h \in Nat /\ 0 < h /\ h < a
    BY <1>1, <1>2, <1>3
  <1>6. \A h \in {0} \cup old : NameAt(more, h) = NameAt(t, h)
    BY <1>1, <1>3 DEF NameAt
  <1>7. ASSUME NEW h \in {0} \cup old
        PROVE  EntriesBelow(more, h)
                 = EntriesBelow(t, h) \cup (IF IsEntry(line) /\ IsLast(t, h) THEN {a} ELSE {})
    <2>1. h \in Nat /\ h < a
      BY <1>2, <1>5
    <2>2. ASSUME NEW n \in Firsts(t)
          PROVE  n \in EntriesBelow(more, h) <=> n \in EntriesBelow(t, h)
      <3>1. \A g \in HeadersIn(more) : g < n => g \in old
        BY <1>1, <1>2, <1>4
      <3>2. \A g \in old : g \in HeadersIn(more)
        BY <1>4
      <3> QED
        BY <1>1, <3>1, <3>2 DEF EntriesBelow
    <2>3. a \in EntriesBelow(more, h) <=> IsEntry(line) /\ IsLast(t, h)
      <3>1. a \in EntriesBelow(more, h)
              <=> IsEntry(line) /\ \A g \in HeadersIn(more) : ~(h < g /\ g < a)
        BY <1>1, <1>2, <2>1 DEF EntriesBelow
      <3>2. (\A g \in HeadersIn(more) : ~(h < g /\ g < a)) <=> \A g \in old : g <= h
        BY <1>2, <1>4, <1>5, <2>1
      <3> QED
        BY <3>1, <3>2 DEF IsLast
    <2>4. EntriesBelow(more, h) \subseteq Firsts(t) \cup {a} /\ EntriesBelow(t, h) \subseteq Firsts(t)
      BY <1>1 DEF EntriesBelow
    <2>5. a \notin Firsts(t)
      BY <1>1, <1>2
    <2> QED
      BY <2>2, <2>3, <2>4, <2>5
  <1>8. ASSUME IsHeader(line)
        PROVE  NameAt(more, a) = HeaderName(line) /\ EntriesBelow(more, a) = {}
    <2>1. NameAt(more, a) = HeaderName(line)
      BY <1>1, <1>2 DEF NameAt
    <2>2. \A n \in Firsts(more) : ~(n > a)
      BY <1>1, <1>2
    <2> QED
      BY <2>1, <2>2 DEF EntriesBelow
  <1> QED
    BY <1>4, <1>5, <1>6, <1>7, <1>8 DEF more, a

-----------------------------------------------------------------------------
(* The text while ini_save writes it.                                       *)

\* Each of the sections is begun once.
BegunOnce(t, headers) ==
  /\ \A h \in HeadersIn(t) : NameAt(t, h) \in headers
  /\ \A g, h \in HeadersIn(t) : NameAt(t, g) = NameAt(t, h) => g = h
  /\ \A s \in headers : \E h \in HeadersIn(t) : NameAt(t, h) = s

\* The entry at n is the option of its name in section s.
IsFrom(t, c, n, s) ==
  /\ s \in DOMAIN c /\ LeftOf(Line(t, n)) \in DOMAIN c[s]
  /\ RightOf(Line(t, n)) = c[s][LeftOf(Line(t, n))]

\* No entry is in a section that it is not from, if it is not a stray one.
InPlace(t, c) ==
  \A h \in {0} \cup HeadersIn(t) : \A n \in EntriesBelow(t, h) :
    IsFrom(t, c, n, NameAt(t, h)) \/ IsFrom(t, c, n, <<>>)

HasBelow(t, h, k) == \E n \in EntriesBelow(t, h) : LeftOf(Line(t, n)) = k

\* The options in entries, pairs of a section and a name, are there.
Found(t, entries) ==
  \A p \in entries : \E h \in {0} \cup HeadersIn(t) :
    (p[1] # <<>> => NameAt(t, h) = p[1]) /\ HasBelow(t, h, p[2])

LastIs(t, last) == \A h : IsLast(t, h) => NameAt(t, h) = last

Written(t, c, headers, entries, last) ==
  /\ Ended(t) /\ Tidy(t)
  /\ BegunOnce(t, headers)
  /\ InPlace(t, c)
  /\ Found(t, entries)
  /\ LastIs(t, last)

LEMMA NothingWritten ==
  ASSUME NEW c
  PROVE  Written(<<>>, c, {}, {}, <<>>)
PROOF
  <1> DEFINE t == <<>>
  <1>1. t \in Seq(Characters) /\ Len(t) = 0
    OBVIOUS
  <1> HIDE DEF t
  <1>2. Firsts(t) = {}
    <2> SUFFICES ASSUME NEW n \in Firsts(t) PROVE FALSE
      OBVIOUS
    <2>1. n \in 1 .. Len(t)
      BY <1>1, FirstsAre
    <2> QED
      BY <1>1, <2>1
  <1>3. HeadersIn(t) = {} /\ \A h : EntriesBelow(t, h) = {}
    BY <1>2 DEF HeadersIn, EntriesBelow
  <1>4. Ended(t) /\ Tidy(t)
    BY <1>1, <1>2 DEF Ended, Tidy
  <1>5. LastIs(t, <<>>)
    BY <1>3 DEF IsLast, NameAt, LastIs
  <1>6. BegunOnce(t, {}) /\ InPlace(t, c) /\ Found(t, {})
    BY <1>3 DEF BegunOnce, InPlace, Found
  <1>7. Written(t, c, {}, {}, <<>>)
    BY <1>4, <1>5, <1>6 DEF Written
  <1> QED
    BY <1>7 DEF t

LEMMA EmptyLineWritten ==
  ASSUME NEW t, NEW c, NEW headers, NEW entries, NEW last,
         Written(t, c, headers, entries, last)
  PROVE  Written(t \o <<LF>>, c, headers, entries, last)
PROOF
  <1> DEFINE more == t \o <<LF>>
  <1>1. Ended(t)
    BY DEF Written
  <1>2. /\ Ended(more)
        /\ Firsts(more) = Firsts(t)
        /\ \A n \in Firsts(t) : Line(more, n) = Line(t, n)
    BY <1>1, AddEmptyLine
  <1> HIDE DEF more
  <1>3. HeadersIn(more) = HeadersIn(t) /\ HeadersIn(t) \subseteq Firsts(t)
    BY <1>2 DEF HeadersIn
  <1>4. \A h \in {0} \cup HeadersIn(t) :
          NameAt(more, h) = NameAt(t, h) /\ EntriesBelow(more, h) = EntriesBelow(t, h)
    BY <1>2, <1>3 DEF NameAt, EntriesBelow
  <1>5. Tidy(more)
    BY <1>2 DEF Tidy, Written
  <1>6. \A h : EntriesBelow(t, h) \subseteq Firsts(t)
    BY DEF EntriesBelow
  <1>7. \A h \in {0} \cup HeadersIn(t) : \A n \in EntriesBelow(t, h) : Line(more, n) = Line(t, n)
    BY <1>2, <1>6
  <1>8. BegunOnce(more, headers)
    BY <1>3, <1>4 DEF BegunOnce, Written
  <1>9. InPlace(more, c)
    BY <1>3, <1>4, <1>7 DEF InPlace, IsFrom, Written
  <1>10. Found(more, entries)
    BY <1>3, <1>4, <1>7 DEF Found, HasBelow, Written
  <1>11. LastIs(more, last)
    BY <1>3, <1>4 DEF LastIs, IsLast, Written
  <1>12. Written(more, c, headers, entries, last)
    BY <1>2, <1>5, <1>8, <1>9, <1>10, <1>11 DEF Written
  <1> QED
    BY <1>12 DEF more

LEMMA HeaderWritten ==
  ASSUME NEW t, NEW c, NEW headers, NEW entries, NEW last,
         Written(t, c, headers, entries, last),
         NEW name \in Seq(Characters), name # <<>>,
         \A n \in DOMAIN name : name[n] \notin {"]", LF},
         name \notin headers
  PROVE  Written(t \o HeaderLine(name), c, headers \cup {name}, entries, name)
PROOF
  <1> DEFINE line == HeaderText(name)
             more == t \o line \o <<LF>>
             a == Len(t) + 1
             old == HeadersIn(t)
  <1>1. /\ HeaderLine(name) = line \o <<LF>>
        /\ Solid(line) /\ IsHeader(line) /\ ~IsEntry(line) /\ HeaderName(line) = name
    BY HeaderIs
  <1> HIDE DEF line
  <1>2. Ended(t) /\ a \in Nat /\ a > 0
    BY DEF Written, Ended
  <1>3. /\ Ended(more)
        /\ Firsts(more) = Firsts(t) \cup {a}
        /\ \A n \in Firsts(t) : Line(more, n) = Line(t, n)
        /\ Line(more, a) = line
    BY <1>1, <1>2, AddLine
  <1>4. /\ HeadersIn(more) = old \cup {a}
        /\ \A h \in old : h \in Nat /\ 0 < h /\ h < a
        /\ \A h \in {0} \cup old :
             NameAt(more, h) = NameAt(t, h) /\ EntriesBelow(more, h) = EntriesBelow(t, h)
        /\ NameAt(more, a) = name /\ EntriesBelow(more, a) = {}
    <2>1. /\ HeadersIn(more) = old \cup (IF IsHeader(line) THEN {a} ELSE {})
          /\ \A h \in old : h \in Nat /\ 0 < h /\ h < a
          /\ \A h \in {0} \cup old :
               /\ NameAt(more, h) = NameAt(t, h)
               /\ EntriesBelow(more, h)
                    = EntriesBelow(t, h) \cup (IF IsEntry(line) /\ IsLast(t, h) THEN {a} ELSE {})
          /\ IsHeader(line) => NameAt(more, a) = HeaderName(line) /\ EntriesBelow(more, a) = {}
      BY <1>1, <1>2, AddedLine
    <2> HIDE DEF more, a
    <2> QED
      BY <1>1, <2>1
  <1>5. more = t \o HeaderLine(name)
    <2>1. t \in Seq(Characters) /\ line \in Seq(Characters) /\ <<LF>> \in Seq(Characters)
      BY <1>1, <1>2, UsesCharacters DEF Ended, Solid
    <2> QED
      BY <1>1, <2>1, Associative
  <1> HIDE DEF more, a
  <1>6. Tidy(more)
    BY <1>1, <1>3 DEF Tidy, Written
  <1>7. \A h : EntriesBelow(t, h) \subseteq Firsts(t)
    BY DEF EntriesBelow
  <1>8. \A h \in {0} \cup old : \A n \in EntriesBelow(t, h) : Line(more, n) = Line(t, n)
    BY <1>3, <1>7
  <1>9. BegunOnce(more, headers \cup {name})
    <2>1. BegunOnce(t, headers)
      BY DEF Written
    <2>2. \A h \in HeadersIn(more) : h \in old \/ h = a
      BY <1>4
    <2>3. \A h \in old : NameAt(more, h) \in headers /\ NameAt(more, h) # name
      BY <1>4, <2>1 DEF BegunOnce
    <2>4. \A g, h \in HeadersIn(more) : NameAt(more, g) = NameAt(more, h) => g = h
      BY <1>4, <2>1, <2>2, <2>3 DEF BegunOnce
    <2>5. \A s \in headers : \E h \in HeadersIn(more) : NameAt(more, h) = s
      BY <1>4, <2>1 DEF BegunOnce
    <2> QED
      BY <1>4, <2>2, <2>3, <2>4, <2>5 DEF BegunOnce
  <1>10. InPlace(more, c)
    <2>1. InPlace(t, c)
      BY DEF Written
    <2> QED
      BY <1>4, <1>8, <2>1 DEF InPlace, IsFrom
  <1>11. Found(more, entries)
    <2>1. Found(t, entries)
      BY DEF Written
    <2> QED
      BY <1>4, <1>8, <2>1 DEF Found, HasBelow
  <1>12. LastIs(more, name)
    <2> SUFFICES ASSUME NEW h, IsLast(more, h) PROVE h = a
      BY <1>4 DEF LastIs
    <2>1. a <= h /\ (h = 0 \/ h \in old \/ h = a)
      BY <1>4 DEF IsLast
    <2> QED
      BY <1>2, <1>4, <2>1
  <1>13. Written(more, c, headers \cup {name}, entries, name)
    BY <1>3, <1>6, <1>9, <1>10, <1>11, <1>12 DEF Written
  <1> QED
    BY <1>5, <1>13

LEMMA EntryWritten ==
  ASSUME NEW t, NEW c, NEW headers, NEW entries, NEW last,
         Written(t, c, headers, entries, last),
         NEW s \in DOMAIN c, s = <<>> \/ s = last,
         NEW k \in DOMAIN c[s],
         k \in Seq(Characters), c[s][k] \in Seq(Characters),
         WellNamed(k), c[s][k] = Trim(c[s][k]), ~Contains(c[s][k], LF)
  PROVE  Written(t \o Entry(k, c[s][k]), c, headers, entries \cup {<<s, k>>}, last)
PROOF
  <1> DEFINE line == EntryText(k, c[s][k])
             more == t \o line \o <<LF>>
             a == Len(t) + 1
             old == HeadersIn(t)
  <1>1. /\ Entry(k, c[s][k]) = line \o <<LF>>
        /\ Solid(line) /\ IsEntry(line) /\ ~IsHeader(line)
        /\ LeftOf(line) = k /\ RightOf(line) = c[s][k]
    BY EntryIs
  <1> HIDE DEF line
  <1>2. Ended(t) /\ a \in Nat /\ a > 0
    BY DEF Written, Ended
  <1>3. /\ Ended(more)
        /\ Firsts(more) = Firsts(t) \cup {a}
        /\ \A n \in Firsts(t) : Line(more, n) = Line(t, n)
        /\ Line(more, a) = line
    BY <1>1, <1>2, AddLine
  <1>4. /\ HeadersIn(more) = old
        /\ \A h \in {0} \cup old :
             /\ NameAt(more, h) = NameAt(t, h)
             /\ EntriesBelow(more, h) = EntriesBelow(t, h) \cup (IF IsLast(t, h) THEN {a} ELSE {})
    <2>1. /\ HeadersIn(more) = old \cup (IF IsHeader(line) THEN {a} ELSE {})
          /\ \A h \in {0} \cup old :
               /\ NameAt(more, h) = NameAt(t, h)
               /\ EntriesBelow(more, h)
                    = EntriesBelow(t, h) \cup (IF IsEntry(line) /\ IsLast(t, h) THEN {a} ELSE {})
      BY <1>1, <1>2, AddedLine
    <2> HIDE DEF more, a
    <2> QED
      BY <1>1, <2>1
  <1>5. more = t \o Entry(k, c[s][k])
    <2>1. t \in Seq(Characters) /\ line \in Seq(Characters) /\ <<LF>> \in Seq(Characters)
      BY <1>1, <1>2, UsesCharacters DEF Ended, Solid
    <2> QED
      BY <1>1, <2>1, Associative
  <1> HIDE DEF more, a
  <1>6. Tidy(more)
    BY <1>1, <1>3 DEF Tidy, Written
  <1>7. \A h : EntriesBelow(t, h) \subseteq Firsts(t)
    BY DEF EntriesBelow
  <1>8. \A h \in {0} \cup old : \A n \in EntriesBelow(t, h) : Line(more, n) = Line(t, n)
    BY <1>3, <1>7
  <1>9. BegunOnce(more, headers)
    BY <1>4 DEF BegunOnce, Written
  <1>10. \A h : IsLast(t, h) => NameAt(t, h) = last
    BY DEF Written, LastIs
  <1>11. IsFrom(more, c, a, s)
    BY <1>1, <1>3 DEF IsFrom
  <1>12. InPlace(more, c)
    <2> SUFFICES ASSUME NEW h \in {0} \cup old, NEW n \in EntriesBelow(more, h)
                 PROVE  IsFrom(more, c, n, NameAt(t, h)) \/ IsFrom(more, c, n, <<>>)
      BY <1>4 DEF InPlace
    <2>1. CASE n \in EntriesBelow(t, h)
      <3>1. IsFrom(t, c, n, NameAt(t, h)) \/ IsFrom(t, c, n, <<>>)
        BY <2>1 DEF Written, InPlace
      <3>2. Line(more, n) = Line(t, n)
        BY <1>8, <2>1
      <3> QED
        BY <3>1, <3>2 DEF IsFrom
    <2>2. CASE IsLast(t, h) /\ n = a
      BY <1>10, <1>11, <2>2
    <2> QED
      BY <1>4, <2>1, <2>2
  <1>13. Found(more, entries \cup {<<s, k>>})
    <2>1. Found(more, entries)
      <3>1. Found(t, entries)
        BY DEF Written
      <3>2. \A x : \A h \in {0} \cup old : HasBelow(t, h, x) => HasBelow(more, h, x)
        BY <1>4, <1>8 DEF HasBelow
      <3> QED
        BY <1>4, <3>1, <3>2 DEF Found
    <2>2. PICK h : IsLast(t, h)
      BY <1>2, LastExists DEF Ended
    <2>3. h \in {0} \cup HeadersIn(more) /\ NameAt(more, h) = last /\ HasBelow(more, h, k)
      <3>1. h \in {0} \cup old /\ a \in EntriesBelow(more, h)
        BY <1>4, <2>2 DEF IsLast
      <3> QED
        BY <1>1, <1>3, <1>4, <1>10, <2>2, <3>1 DEF HasBelow
    <2>4. s # <<>> => NameAt(more, h) = s
      BY <2>3
    <2>5. <<s, k>>[1] = s /\ <<s, k>>[2] = k
      OBVIOUS
    <2> QED
      BY <2>1, <2>3, <2>4, <2>5 DEF Found
  <1>14. LastIs(more, last)
    <2>1. \A h : IsLast(more, h) => IsLast(t, h) /\ h \in {0} \cup old
      BY <1>4 DEF IsLast
    <2> QED
      BY <1>4, <1>10, <2>1 DEF LastIs
  <1>15. Written(more, c, headers, entries \cup {<<s, k>>}, last)
    BY <1>3, <1>6, <1>9, <1>12, <1>13, <1>14 DEF Written
  <1> QED
    BY <1>5, <1>15

\* The entries of a section, in any order.
LEMMA EntriesWritten ==
  ASSUME NEW t, NEW c, NEW headers, NEW entries, NEW last,
         Written(t, c, headers, entries, last),
         TypedMap(c), FiniteMap(c), Writable(c),
         NEW s \in DOMAIN c, s = <<>> \/ s = last,
         NEW more \in Entries(c[s])
  PROVE  /\ more \in Seq(Characters)
         /\ Written(t \o more, c, headers, entries \cup {<<s, k>> : k \in DOMAIN c[s]}, last)
PROOF
  <1> DEFINE section == c[s]
  <1>1. PICK order \in SetToSeqs(DOMAIN section) : more = EntriesUpTo(section, order)[Len(order)]
    BY DEF Entries
  <1>2. /\ IsFiniteSet(DOMAIN section)
        /\ \A k \in DOMAIN section : k \in Seq(Characters) /\ section[k] \in Seq(Characters)
    BY DEF TypedMap, FiniteMap
  <1>3. \A k \in DOMAIN section :
          WellNamed(k) /\ section[k] = Trim(section[k]) /\ ~Contains(section[k], LF)
    BY DEF Writable
  <1> DEFINE N == Len(order)
             upTo == EntriesUpTo(section, order)
             pairs(m) == {<<s, order[i]>> : i \in 1 .. m}
             Good(m) == Written(t \o upTo[m], c, headers, entries \cup pairs(m), last)
             S == {m \in Nat : m <= N => Good(m)}
  <1>4. /\ order \in [1 .. N -> DOMAIN section] /\ N \in Nat
        /\ \A k \in DOMAIN section : \E i \in 1 .. N : order[i] = k
        /\ upTo \in [0 .. N -> Seq(Characters)]
        /\ upTo[0] = <<>>
        /\ \A n \in 1 .. N : upTo[n] = upTo[n - 1] \o Entry(order[n], section[order[n]])
    <2> HIDE DEF section
    <2>1. EntriesFollow(section, order)
      BY <1>1, <1>2, EntriesSteps
    <2> QED
      BY <1>1, <1>2, <2>1, EntriesSteps DEF EntriesFollow
  <1>7. t \in Seq(Characters)
    BY DEF Written, Ended
  <1> HIDE DEF N, upTo
  <1>8. 0 \in S
    <2>1. pairs(0) = {}
      OBVIOUS
    <2>2. t \o upTo[0] = t /\ entries \cup pairs(0) = entries
      BY <1>4, <1>7, <2>1, JoinNone
    <2> HIDE DEF pairs
    <2> QED
      BY <2>2
  <1>9. ASSUME NEW m \in Nat, m \in S PROVE m + 1 \in S
    <2> SUFFICES ASSUME m + 1 <= N PROVE Good(m + 1)
      OBVIOUS
    <2> DEFINE k == order[m + 1]
               x == t \o upTo[m]
    <2>1. m + 1 \in 1 .. N /\ m \in 0 .. N /\ (m + 1) - 1 = m /\ m <= N
      BY <1>4
    <2>2. Good(m)
      <3> HIDE DEF Good
      <3> QED
        BY <1>9, <2>1
    <2>3. k \in DOMAIN section
      BY <1>4, <2>1
    <2> HIDE DEF k
    <2>4. /\ k \in Seq(Characters) /\ section[k] \in Seq(Characters)
          /\ WellNamed(k) /\ section[k] = Trim(section[k]) /\ ~Contains(section[k], LF)
      BY <1>2, <1>3, <2>3
    <2>5. Written(x, c, headers, entries \cup pairs(m), last)
      BY <2>2
    <2> HIDE DEF x, pairs
    <2>6. Written(x \o Entry(k, section[k]), c, headers, (entries \cup pairs(m)) \cup {<<s, k>>}, last)
      BY <2>3, <2>4, <2>5, EntryWritten
    <2>7. x \o Entry(k, section[k]) = t \o upTo[m + 1]
      <3>1. upTo[m] \in Seq(Characters) /\ Entry(k, section[k]) \in Seq(Characters)
        BY <1>4, <2>1, <2>4, EntryType
      <3>2. upTo[m + 1] = upTo[m] \o Entry(k, section[k])
        BY <1>4, <2>1 DEF k
      <3> DEFINE u == upTo[m]
                 w == Entry(k, section[k])
      <3>3. u \in Seq(Characters) /\ w \in Seq(Characters)
        BY <3>1
      <3>4. upTo[m + 1] = u \o w /\ x = t \o u
        BY <3>2 DEF x
      <3> HIDE DEF u, w
      <3>5. x \o w = t \o (u \o w)
        BY <1>7, <3>3, <3>4, Associative
      <3> QED
        BY <3>4, <3>5 DEF w
    <2>8. (entries \cup pairs(m)) \cup {<<s, k>>} = entries \cup pairs(m + 1)
      <3>1. \A i \in 1 .. m + 1 : i = m + 1 \/ i \in 1 .. m
        OBVIOUS
      <3>2. \A i \in 1 .. m : i \in 1 .. m + 1
        OBVIOUS
      <3>3. m + 1 \in 1 .. m + 1
        OBVIOUS
      <3>4. pairs(m + 1) = pairs(m) \cup {<<s, k>>}
        BY <3>1, <3>2, <3>3 DEF pairs, k
      <3> QED
        BY <3>4
    <2> QED
      BY <2>6, <2>7, <2>8
  <1>10. Nat \subseteq S
    <2> HIDE DEF S
    <2> QED
      BY <1>8, <1>9, SetInduction
  <1>11. Good(N)
    <2> HIDE DEF Good
    <2> QED
      BY <1>4, <1>10
  <1>12. pairs(N) = {<<s, k>> : k \in DOMAIN section}
    BY <1>4
  <1>13. more = upTo[N] /\ upTo[N] \in Seq(Characters)
    <2>1. N \in 0 .. N
      BY <1>4
    <2> QED
      BY <1>1, <1>4, <2>1 DEF N, upTo
  <1> QED
    <2> HIDE DEF pairs
    <2> QED
      BY <1>11, <1>12, <1>13

\* A section, with its header if it has one and with the empty line after it.
LEMMA SectionWritten ==
  ASSUME NEW t, NEW c, NEW headers, NEW entries, NEW last,
         Written(t, c, headers, entries, last),
         TypedMap(c), FiniteMap(c), Writable(c),
         NEW s \in DOMAIN c, s \notin headers,
         NEW more \in Entries(c[s])
  PROVE  \E latest :
           Written(WithSection(t, s, more), c, headers \cup ({s} \ {<<>>}),
                   entries \cup {<<s, k>> : k \in DOMAIN c[s]}, latest)
PROOF
  <1> DEFINE pairs == {<<s, k>> : k \in DOMAIN c[s]}
             with == headers \cup ({s} \ {<<>>})
             x == t \o HeaderLine(s)
             all == x \o more
  <1>1. t \in Seq(Characters) /\ s \in Seq(Characters)
    BY DEF Written, Ended, TypedMap
  <1>2. \E latest : Written(x, c, with, entries, latest) /\ (s = <<>> \/ s = latest)
    <2>1. CASE s = <<>>
      <3>1. x = t /\ with = headers
        BY <1>1, <2>1, JoinNone DEF HeaderLine
      <3> QED
        BY <2>1, <3>1
    <2>2. CASE s # <<>>
      <3>1. \A n \in DOMAIN s : s[n] \notin {"]", LF}
        BY DEF Writable
      <3>2. Written(x, c, headers \cup {s}, entries, s)
        BY <1>1, <2>2, <3>1, HeaderWritten
      <3>3. headers \cup {s} = with
        BY <2>2
      <3> QED
        BY <3>2, <3>3
    <2> QED
      BY <2>1, <2>2
  <1>3. PICK latest : Written(x, c, with, entries, latest) /\ (s = <<>> \/ s = latest)
    BY <1>2
  <1> HIDE DEF x, with
  <1>4. Written(all, c, with, entries \cup pairs, latest)
    BY <1>3, EntriesWritten
  <1>5. WithSection(t, s, more) = IF all = <<>> THEN <<>> ELSE all \o <<LF>>
    BY DEF WithSection, x
  <1> HIDE DEF all, pairs
  <1>6. Written(WithSection(t, s, more), c, with, entries \cup pairs, latest)
    <2>1. CASE all = <<>>
      BY <1>4, <1>5, <2>1
    <2>2. CASE all # <<>>
      BY <1>4, <1>5, <2>2, EmptyLineWritten
    <2> QED
      BY <2>1, <2>2
  <1> QED
    BY <1>6 DEF with, pairs

\* All sections.
LEMMA AllWritten ==
  ASSUME NEW c, TypedMap(c), FiniteMap(c), Writable(c), NEW t \in SavedTexts(c)
  PROVE  \E last :
           Written(t, c, DOMAIN c \ {<<>>}, UNION {{<<s, k>> : k \in DOMAIN c[s]} : s \in DOMAIN c}, last)
PROOF
  <1>1. PICK order \in SetToSeqs(DOMAIN c) : t \in SectionsUpTo(c, order)[Len(order)]
    BY DEF SavedTexts
  <1> DEFINE N == Len(order)
             upTo == SectionsUpTo(c, order)
             pairs(s) == {<<s, k>> : k \in DOMAIN c[s]}
             begun(m) == {order[i] : i \in 1 .. m} \ {<<>>}
             entries(m) == UNION {pairs(order[i]) : i \in 1 .. m}
             Good(m) == \A x \in upTo[m] : \E last : Written(x, c, begun(m), entries(m), last)
             S == {m \in Nat : m <= N => Good(m)}
  <1>2. /\ order \in [1 .. N -> DOMAIN c] /\ N \in Nat
        /\ \A i, j \in 1 .. N : i # j => order[i] # order[j]
        /\ \A s \in DOMAIN c : \E i \in 1 .. N : order[i] = s
        /\ upTo \in [0 .. N -> SUBSET Seq(Characters)]
        /\ upTo[0] = {<<>>}
        /\ \A n \in 1 .. N : upTo[n] = WithEntries(c, order[n], upTo[n - 1])
    BY SavedSteps
  <1> HIDE DEF N, upTo, pairs
  <1>3. 0 \in S
    <2>1. begun(0) = {} /\ entries(0) = {}
      OBVIOUS
    <2> HIDE DEF begun, entries
    <2>2. Good(0)
      <3> SUFFICES ASSUME NEW x \in upTo[0]
                   PROVE  \E last : Written(x, c, begun(0), entries(0), last)
        OBVIOUS
      <3>1. x = <<>>
        BY <1>2
      <3>2. Written(x, c, begun(0), entries(0), <<>>)
        BY <2>1, <3>1, NothingWritten
      <3> QED
        BY <3>2
    <2> HIDE DEF Good
    <2> QED
      BY <2>2
  <1>4. ASSUME NEW m \in Nat, m \in S PROVE m + 1 \in S
    <2> SUFFICES ASSUME m + 1 <= N PROVE Good(m + 1)
      <3> HIDE DEF Good
      <3> QED OBVIOUS
    <2> SUFFICES ASSUME NEW x \in upTo[m + 1]
                 PROVE  \E last : Written(x, c, begun(m + 1), entries(m + 1), last)
      <3> HIDE DEF begun, entries
      <3> QED OBVIOUS
    <2> DEFINE s == order[m + 1]
    <2>1. N \in Nat /\ m + 1 \in 1 .. N /\ m \in 0 .. N /\ (m + 1) - 1 = m /\ m <= N
      BY <1>2
    <2>2. s \in DOMAIN c /\ upTo[m + 1] = WithEntries(c, s, upTo[m])
      BY <1>2, <2>1
    <2>3. begun(m + 1) = begun(m) \cup ({s} \ {<<>>}) /\ entries(m + 1) = entries(m) \cup pairs(s)
      <3>1. \A i \in 1 .. m + 1 : i = m + 1 \/ i \in 1 .. m
        OBVIOUS
      <3>2. \A i \in 1 .. m : i \in 1 .. m + 1
        OBVIOUS
      <3>3. m + 1 \in 1 .. m + 1
        OBVIOUS
      <3>4. begun(m + 1) = begun(m) \cup ({s} \ {<<>>})
        BY <3>1, <3>2, <3>3
      <3>5. entries(m + 1) = entries(m) \cup pairs(s)
        BY <3>1, <3>2, <3>3
      <3> QED
        BY <3>4, <3>5
    <2>4. s \notin begun(m)
      <3>1. \A i \in 1 .. m : i \in 1 .. N /\ i # m + 1
        BY <2>1
      <3>2. \A i \in 1 .. m : order[i] # s
        BY <1>2, <2>1, <3>1
      <3> QED
        BY <3>2
    <2>5. Good(m)
      <3> HIDE DEF Good
      <3> QED
        BY <1>4, <2>1
    <2> HIDE DEF s, begun, entries
    <2>6. PICK before \in upTo[m], more \in Entries(c[s]) : x = WithSection(before, s, more)
      BY <2>2 DEF WithEntries
    <2>7. PICK last : Written(before, c, begun(m), entries(m), last)
      BY <2>5
    <2>8. \E latest : Written(x, c, begun(m) \cup ({s} \ {<<>>}),
                              entries(m) \cup {<<s, k>> : k \in DOMAIN c[s]}, latest)
      BY <2>2, <2>4, <2>6, <2>7, SectionWritten
    <2> QED
      BY <2>3, <2>8 DEF pairs
  <1>5. Nat \subseteq S
    <2> HIDE DEF S
    <2> QED
      BY <1>3, <1>4, SetInduction
  <1>6. Good(N)
    <2> HIDE DEF Good
    <2> QED
      BY <1>2, <1>5
  <1>7. begun(N) = DOMAIN c \ {<<>>}
    BY <1>2
  <1>8. entries(N) = UNION {pairs(s) : s \in DOMAIN c}
    BY <1>2
  <1>9. t \in upTo[N]
    BY <1>1 DEF upTo, N
  <1> HIDE DEF begun, entries
  <1> QED
    BY <1>6, <1>7, <1>8, <1>9 DEF pairs

-----------------------------------------------------------------------------
(* What the next load finds.                                                *)

IsFunction(f) == f = [x \in DOMAIN f |-> f[x]]
AreFunctions(c) == IsFunction(c) /\ \A s \in DOMAIN c : IsFunction(c[s])

LEMMA SectionMapIsFunction ==
  ASSUME NEW items, NEW s
  PROVE  IsFunction(SectionMap(items, s))
PROOF
  <1> DEFINE own == PropertiesOf(items, s)
             keys == {items[n].name : n \in own}
             value(k) == items[Max({n \in own : items[n].name = k})].value
  <1>1. SectionMap(items, s) = [k \in keys |-> value(k)]
    BY DEF SectionMap
  <1> HIDE DEF keys, value
  <1> QED
    BY <1>1 DEF IsFunction

LEMMA LoadedIsFunction ==
  ASSUME NEW t
  PROVE  AreFunctions(Loaded(t))
PROOF
  <1> DEFINE items == Items(t)
             names == {SectionName(items, s) : s \in SectionsOf(items)}
             last(name) == Max({s \in SectionsOf(items) : SectionName(items, s) = name})
             c == Loaded(t)
  <1>1. c = [name \in names |-> SectionMap(items, last(name))]
    BY DEF Loaded
  <1> HIDE DEF c, names, last, items
  <1>2. DOMAIN c = names /\ \A s \in names : c[s] = SectionMap(items, last(s))
    BY <1>1
  <1>3. IsFunction(c)
    BY <1>1 DEF IsFunction
  <1>4. \A s \in DOMAIN c : IsFunction(c[s])
    BY <1>2, SectionMapIsFunction
  <1> QED
    BY <1>3, <1>4 DEF AreFunctions, c

\* Every section of old is in new with its options, and only options of the
\* section with no name are in others.
StraysOnly(old, new) ==
  /\ DOMAIN new = DOMAIN old
  /\ \A s \in DOMAIN old : s # <<>> => DOMAIN old[s] \subseteq DOMAIN new[s]
  /\ \A s \in DOMAIN new : \A k \in DOMAIN new[s] :
       \E from \in {s, <<>>} : k \in DOMAIN old[from] /\ new[s][k] = old[from][k]
  /\ \A k \in DOMAIN old[<<>>] : \E s \in DOMAIN new : k \in DOMAIN new[s]

LEMMA SavedMeans ==
  ASSUME NEW c, TypedMap(c), FiniteMap(c), Writable(c), NEW t \in SavedTexts(c)
  PROVE  Tidy(t) /\ StraysOnly(WithGlobal(c), Loaded(t))
PROOF
  <1> DEFINE all == {0} \cup HeadersIn(t)
             names == {NameAt(t, h) : h \in all}
             of(name) == {h \in all : NameAt(t, h) = name}
             own(h) == EntriesBelow(t, h)
             keys(h) == {LeftOf(Line(t, n)) : n \in own(h)}
             named(h, k) == {n \in own(h) : LeftOf(Line(t, n)) = k}
             map(h) == [k \in keys(h) |-> RightOf(Line(t, Max(named(h, k))))]
             pairs == UNION {{<<s, k>> : k \in DOMAIN c[s]} : s \in DOMAIN c}
             old == WithGlobal(c)
             new == Loaded(t)
  <1>1. t \in Seq(Characters) /\ Len(t) \in Nat
    BY SavedType
  <1>2. PICK last : Written(t, c, DOMAIN c \ {<<>>}, pairs, last)
    BY AllWritten
  <1> HIDE DEF pairs
  <1>3. /\ Tidy(t) /\ BegunOnce(t, DOMAIN c \ {<<>>}) /\ InPlace(t, c) /\ Found(t, pairs)
    BY <1>2 DEF Written
  <1>4. all \subseteq 0 .. Len(t) /\ 0 \notin HeadersIn(t)
    BY <1>1, FirstsAre DEF HeadersIn
  <1>5. /\ NameAt(t, 0) = <<>>
        /\ \A h \in HeadersIn(t) : NameAt(t, h) \in DOMAIN c /\ NameAt(t, h) # <<>>
    BY <1>3 DEF BegunOnce, NameAt
  <1>6. \A g, h \in all : NameAt(t, g) = NameAt(t, h) => g = h
    BY <1>3, <1>5 DEF BegunOnce
  <1>7. names = DOMAIN c \cup {<<>>}
    <2>1. \A s \in DOMAIN c \ {<<>>} : \E h \in HeadersIn(t) : NameAt(t, h) = s
      BY <1>3 DEF BegunOnce
    <2> QED
      BY <1>5, <2>1
  <1>8. new = [name \in names |-> map(Max(of(name)))]
    <2>1. Meaning(t) = [name \in names |-> map(Max(of(name)))]
      BY DEF Meaning
    <2>2. new = Meaning(t)
      BY <1>1, <1>3, TidyReads
    <2> HIDE DEF names, map, of, new
    <2> QED
      BY <2>1, <2>2
  <1>9. \A h \in all : Max(of(NameAt(t, h))) = h
    <2> SUFFICES ASSUME NEW h \in all PROVE Max(of(NameAt(t, h))) = h
      OBVIOUS
    <2> DEFINE S == of(NameAt(t, h))
    <2>1. S = {h}
      BY <1>6
    <2> HIDE DEF S
    <2>2. S \subseteq Nat /\ h \in S /\ \A y \in S : y <= h
      BY <1>1, <1>4, <2>1
    <2>3. Max(S) = h
      BY <2>2, MaxIs
    <2> QED
      BY <2>3 DEF S
  <1>10. \A h \in all : NameAt(t, h) \in names /\ new[NameAt(t, h)] = map(h)
    <2> HIDE DEF new, map, of, all
    <2>1. \A h \in all : NameAt(t, h) \in names
      OBVIOUS
    <2> HIDE DEF names
    <2> QED
      BY <1>8, <1>9, <2>1
  <1>11. ASSUME NEW h \in all, NEW k \in keys(h)
         PROVE  \E n \in own(h) : LeftOf(Line(t, n)) = k /\ map(h)[k] = RightOf(Line(t, n))
    <2> DEFINE S == named(h, k)
    <2>1. S \subseteq 1 .. Len(t)
      <3>1. S \subseteq Firsts(t)
        BY DEF EntriesBelow
      <3> HIDE DEF S
      <3> QED
        BY <1>1, <3>1, FirstsAre
    <2>2. S # {}
      OBVIOUS
    <2>3. map(h)[k] = RightOf(Line(t, Max(S)))
      OBVIOUS
    <2>4. Max(S) \in S
      <3> HIDE DEF S
      <3>1. S \subseteq Nat /\ \A y \in S : y <= Len(t)
        BY <1>1, <2>1
      <3> QED
        BY <1>1, <2>2, <3>1, MaxFinds
    <2>5. Max(S) \in own(h) /\ LeftOf(Line(t, Max(S))) = k
      BY <2>4
    <2> HIDE DEF S, map, own
    <2> QED
      BY <2>3, <2>5
  <1>12. \A h \in all : DOMAIN map(h) = keys(h)
    OBVIOUS
  <1>13. \A k : \A h \in all : HasBelow(t, h, k) => k \in keys(h)
    BY DEF HasBelow
  <1>14. /\ DOMAIN old = DOMAIN c \cup {<<>>}
         /\ \A s \in DOMAIN c : old[s] = c[s]
         /\ <<>> \notin DOMAIN c => DOMAIN old[<<>>] = {}
    BY DEF WithGlobal, EmptyMap
  <1>15. \A s \in DOMAIN c : \A k \in DOMAIN c[s] :
           \E h \in all : (s # <<>> => NameAt(t, h) = s) /\ k \in keys(h)
    <2> SUFFICES ASSUME NEW s \in DOMAIN c, NEW k \in DOMAIN c[s]
                 PROVE  \E h \in all : (s # <<>> => NameAt(t, h) = s) /\ HasBelow(t, h, k)
      BY <1>13
    <2>1. <<s, k>> \in pairs
      BY DEF pairs
    <2>2. <<s, k>>[1] = s /\ <<s, k>>[2] = k
      OBVIOUS
    <2> QED
      BY <1>3, <2>1, <2>2 DEF Found
  <1> HIDE DEF new, map, keys, own, of, old
  <1>16. DOMAIN new = DOMAIN old
    BY <1>7, <1>8, <1>14
  <1>17. ASSUME NEW s \in DOMAIN old, s # <<>>, NEW k \in DOMAIN old[s]
         PROVE  k \in DOMAIN new[s]
    <2>1. s \in DOMAIN c /\ k \in DOMAIN c[s]
      BY <1>14, <1>17
    <2>2. PICK h \in all : NameAt(t, h) = s /\ k \in keys(h)
      BY <1>15, <1>17, <2>1
    <2> QED
      BY <1>10, <1>12, <2>2
  <1>18. ASSUME NEW s \in DOMAIN new, NEW k \in DOMAIN new[s]
         PROVE  \E from \in {s, <<>>} : k \in DOMAIN old[from] /\ new[s][k] = old[from][k]
    <2>1. PICK h \in all : NameAt(t, h) = s
      BY <1>7, <1>14, <1>16
    <2>2. new[s] = map(h) /\ k \in keys(h)
      BY <1>10, <1>12, <2>1
    <2>3. PICK n \in own(h) : LeftOf(Line(t, n)) = k /\ map(h)[k] = RightOf(Line(t, n))
      BY <1>11, <2>2
    <2>4. IsFrom(t, c, n, s) \/ IsFrom(t, c, n, <<>>)
      BY <1>3, <2>1, <2>3 DEF InPlace, own
    <2>5. PICK from \in {s, <<>>} : IsFrom(t, c, n, from)
      BY <2>4
    <2> QED
      BY <1>14, <2>2, <2>3, <2>5 DEF IsFrom
  <1>19. ASSUME NEW k \in DOMAIN old[<<>>]
         PROVE  \E s \in DOMAIN new : k \in DOMAIN new[s]
    <2>1. <<>> \in DOMAIN c /\ k \in DOMAIN c[<<>>]
      BY <1>14
    <2>2. PICK h \in all : k \in keys(h)
      BY <1>15, <2>1
    <2>3. k \in DOMAIN new[NameAt(t, h)] /\ NameAt(t, h) \in names
      BY <1>10, <1>12, <2>2
    <2> QED
      BY <1>7, <1>14, <1>16, <2>3
  <1>20. StraysOnly(old, new)
    BY <1>16, <1>17, <1>18, <1>19 DEF StraysOnly
  <1> QED
    BY <1>3, <1>20 DEF old, new

LEMMA SavedIsLoaded ==
  ASSUME NEW c, TypedMap(c), FiniteMap(c), AreFunctions(c), Storable(c), NEW t \in SavedTexts(c)
  PROVE  Tidy(t) /\ Loaded(t) = WithGlobal(c)
PROOF
  <1> DEFINE old == WithGlobal(c)
             new == Loaded(t)
  <1>1. Writable(c) /\ (<<>> \in DOMAIN c => c[<<>>] = EmptyMap)
    BY DEF Storable
  <1>2. Tidy(t) /\ StraysOnly(old, new)
    BY <1>1, SavedMeans
  <1>3. AreFunctions(new)
    BY LoadedIsFunction
  <1>4. /\ IsFunction(old) /\ <<>> \in DOMAIN old
        /\ DOMAIN old[<<>>] = {}
        /\ \A s \in DOMAIN old : IsFunction(old[s])
    <2>1. /\ DOMAIN old = DOMAIN c \cup {<<>>}
          /\ \A s \in DOMAIN old : old[s] = IF s \in DOMAIN c THEN c[s] ELSE EmptyMap
      BY DEF WithGlobal
    <2>2. IsFunction(old)
      BY DEF WithGlobal, IsFunction
    <2> HIDE DEF old
    <2>3. old[<<>>] = EmptyMap
      BY <1>1, <2>1
    <2>4. DOMAIN EmptyMap = {} /\ IsFunction(EmptyMap)
      BY DEF EmptyMap, IsFunction
    <2>5. \A s \in DOMAIN old : IsFunction(old[s])
      BY <2>1, <2>4 DEF AreFunctions
    <2> QED
      BY <2>1, <2>2, <2>3, <2>4, <2>5
  <1> HIDE DEF old, new
  <1>5. DOMAIN new = DOMAIN old
    BY <1>2 DEF StraysOnly
  <1>6. \A s \in DOMAIN old : \A k \in DOMAIN new[s] :
          k \in DOMAIN old[s] /\ new[s][k] = old[s][k]
    BY <1>2, <1>4, <1>5 DEF StraysOnly
  <1>7. \A s \in DOMAIN old : DOMAIN new[s] = DOMAIN old[s]
    BY <1>2, <1>4, <1>6 DEF StraysOnly
  <1>8. \A s \in DOMAIN old : new[s] = old[s]
    <2> SUFFICES ASSUME NEW s \in DOMAIN old PROVE new[s] = old[s]
      OBVIOUS
    <2>1. IsFunction(old[s]) /\ IsFunction(new[s])
      BY <1>3, <1>4, <1>5 DEF AreFunctions
    <2> QED
      BY <1>6, <1>7, <2>1 DEF IsFunction
  <1>9. new = old
    BY <1>3, <1>4, <1>5, <1>8 DEF IsFunction, AreFunctions
  <1> QED
    BY <1>2, <1>9 DEF old, new

-----------------------------------------------------------------------------
(* The invariant: the options are finite maps of texts, and the file is as  *)
(* the last save has left it, when there was one.                           *)

IsOptions(c) == TypedMap(c) /\ FiniteMap(c) /\ AreFunctions(c)

IniInv ==
  /\ text \in Seq(Characters)
  /\ config # NotLoaded => IsOptions(config)
  /\ saved # NotLoaded => IsOptions(saved) /\ text \in SavedTexts(saved)

LEMMA SetOptionType ==
  ASSUME IniInv, NEW o \in NewOptions, SetOption(o)
  PROVE  IsOptions(config')
PROOF
  <1> DEFINE section == IF o.section \in DOMAIN config THEN config[o.section] ELSE EmptyMap
             changed == [k \in DOMAIN section \cup {o.name} |->
                           IF k = o.name THEN o.value ELSE section[k]]
  <1>1. o.section \in Seq(Characters) /\ o.name \in Seq(Characters) /\ o.value \in Seq(Characters)
    BY IniConstants
  <1>2. TypedMap(config) /\ FiniteMap(config) /\ AreFunctions(config)
    BY DEF IniInv, IsOptions, SetOption, Running
  <1>3. config' = [s \in DOMAIN config \cup {o.section} |->
                     IF s = o.section THEN changed ELSE config[s]]
    BY DEF SetOption
  <1>4. /\ IsFiniteSet(DOMAIN section) /\ IsFunction(section)
        /\ \A k \in DOMAIN section : k \in Seq(Characters) /\ section[k] \in Seq(Characters)
    <2>1. CASE o.section \in DOMAIN config
      BY <1>2, <2>1 DEF TypedMap, FiniteMap, AreFunctions
    <2>2. CASE o.section \notin DOMAIN config
      <3>1. DOMAIN section = {} /\ IsFunction(section)
        BY <2>2 DEF EmptyMap, IsFunction
      <3> QED
        BY <3>1, FS_EmptySet
    <2> QED
      BY <2>1, <2>2
  <1> HIDE DEF section
  <1>5. /\ IsFiniteSet(DOMAIN changed) /\ IsFunction(changed)
        /\ \A k \in DOMAIN changed : k \in Seq(Characters) /\ changed[k] \in Seq(Characters)
    <2>1. DOMAIN changed = DOMAIN section \cup {o.name}
      OBVIOUS
    <2>2. IsFiniteSet(DOMAIN changed)
      BY <2>1, <1>4, FS_AddElement
    <2>3. IsFunction(changed)
      BY DEF IsFunction
    <2> QED
      BY <2>2, <2>3, <1>1, <1>4
  <1> HIDE DEF changed
  <1>6. DOMAIN config' = DOMAIN config \cup {o.section}
    BY <1>3
  <1>7. IsFiniteSet(DOMAIN config')
    BY <1>2, <1>6, FS_AddElement DEF FiniteMap
  <1>8. \A s \in DOMAIN config' :
          config'[s] = IF s = o.section THEN changed ELSE config[s]
    BY <1>3
  <1>9. TypedMap(config') /\ FiniteMap(config')
    BY <1>1, <1>2, <1>5, <1>6, <1>7, <1>8 DEF TypedMap, FiniteMap
  <1>10. IsFunction(config')
    BY <1>3 DEF IsFunction
  <1>11. AreFunctions(config')
    BY <1>2, <1>5, <1>6, <1>8, <1>10 DEF AreFunctions
  <1> QED
    BY <1>9, <1>11 DEF IsOptions

LEMMA ClearSectionType ==
  ASSUME IniInv, NEW s, ClearSection(s)
  PROVE  IsOptions(config')
PROOF
  <1>1. TypedMap(config) /\ FiniteMap(config) /\ AreFunctions(config)
    BY DEF IniInv, IsOptions, ClearSection, Running
  <1>2. config' = [n \in DOMAIN config \ {s} |-> config[n]]
    BY DEF ClearSection
  <1>3. DOMAIN config' = DOMAIN config \ {s} /\ \A n \in DOMAIN config' : config'[n] = config[n]
    BY <1>2
  <1>4. IsFiniteSet(DOMAIN config')
    <2>1. DOMAIN config' \subseteq DOMAIN config /\ IsFiniteSet(DOMAIN config)
      BY <1>1, <1>3 DEF FiniteMap
    <2> QED
      BY <2>1, FS_Subset
  <1>5. TypedMap(config') /\ FiniteMap(config')
    BY <1>1, <1>3, <1>4 DEF TypedMap, FiniteMap
  <1>6. IsFunction(config')
    BY <1>2 DEF IsFunction
  <1>7. AreFunctions(config')
    BY <1>1, <1>3, <1>6 DEF AreFunctions
  <1> QED
    BY <1>5, <1>7 DEF IsOptions

LEMMA IniInvInit ==
  IniInit => IniInv
PROOF
  BY IniConstants DEF IniInit, IniInv

LEMMA IniInvNext ==
  IniInv /\ [IniNext]_iniVars => IniInv'
PROOF
  <1> SUFFICES ASSUME IniInv, [IniNext]_iniVars PROVE IniInv'
    OBVIOUS
  <1> USE DEF IniInv
  <1>1. CASE Load
    BY <1>1, LoadedType, LoadedIsFunction DEF Load, IsOptions
  <1>2. CASE Save
    <2>1. IsOptions(config) /\ SavedTexts(config) \subseteq Seq(Characters)
      BY <1>2, SavedType DEF Save, Running, IsOptions
    <2> QED
      BY <1>2, <2>1 DEF Save
  <1>3. CASE Exit
    BY <1>3 DEF Exit
  <1>4. ASSUME NEW o \in NewOptions, SetOption(o) PROVE IniInv'
    <2>1. IsOptions(config')
      BY <1>4, SetOptionType
    <2> QED
      BY <1>4, <2>1 DEF SetOption
  <1>5. ASSUME NEW o \in NewOptions, ClearSection(o.section) PROVE IniInv'
    <2>1. IsOptions(config')
      BY <1>5, ClearSectionType
    <2> QED
      BY <1>5, <2>1 DEF ClearSection
  <1>6. CASE UNCHANGED iniVars
    BY <1>6 DEF iniVars
  <1> QED
    BY <1>1, <1>2, <1>3, <1>4, <1>5, <1>6 DEF IniNext

\* The invariant holds of every launch, change and save of ini.h's caller
\* (ApplicationStore::Load and Save).
THEOREM IniInvariant ==
  IniSpec => []IniInv
PROOF
  BY IniInvInit, IniInvNext, PTL DEF IniSpec

\* The file and the options are well-formed at all times, and every load makes
\* the global section (ini_create, ini.h:482-497), for every text in the file.
THEOREM OptionsTyped ==
  IniSpec => []IniTypeOK
PROOF
  <1>1. IniInv => IniTypeOK
    <2> SUFFICES ASSUME IniInv PROVE IniTypeOK
      OBVIOUS
    <2>1. <<>> \in DOMAIN Loaded(text)
      BY LoadedType DEF IniInv
    <2>2. \A c \in {config, saved} \ {NotLoaded} : TypedMap(c)
      BY DEF IniInv, IsOptions
    <2> QED
      BY <2>1, <2>2 DEF IniInv, IniTypeOK, TypedMap
  <1> QED
    BY <1>1, IniInvariant, PTL

\* The loop of ini_load reads every tidy file line by line.
THEOREM ReadsLineByLine ==
  IniSpec => []ReadsAsWritten
PROOF
  <1>1. IniInv => ReadsAsWritten
    BY TidyReads DEF IniInv, ReadsAsWritten
  <1> QED
    BY <1>1, IniInvariant, PTL

\* What ini_load reads from a tidy file without stray options is what ini_save
\* has a place for.
THEOREM TidyFilesKeep ==
  IniSpec => []TidyIsStorable
PROOF
  <1>1. IniInv => TidyIsStorable
    BY TidyStorable DEF IniInv, TidyIsStorable
  <1> QED
    BY <1>1, IniInvariant, PTL

\* Storable options come back the same from what ini_save writes, in whatever
\* order, at the next load.
THEOREM SavesRoundTrip ==
  IniSpec => []SavedLoadsBack
PROOF
  <1>1. IniInv => SavedLoadsBack
    BY SavedIsLoaded DEF IniInv, IsOptions, SavedLoadsBack
  <1> QED
    BY <1>1, IniInvariant, PTL

\* And with options above the first header, only those may be found elsewhere.
THEOREM StraysAloneMove ==
  IniSpec => []OnlyStraysMove
PROOF
  <1>1. IniInv => OnlyStraysMove
    <2> SUFFICES ASSUME IniInv, saved # NotLoaded, Writable(saved)
                 PROVE  StraysOnly(WithGlobal(saved), Loaded(text))
      BY DEF OnlyStraysMove, StraysOnly
    <2> QED
      BY SavedMeans DEF IniInv, IsOptions
  <1> QED
    BY <1>1, IniInvariant, PTL
=============================================================================
