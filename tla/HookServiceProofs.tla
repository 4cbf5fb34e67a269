-------------------------- MODULE HookServiceProofs --------------------------
(***************************************************************************)
(* Where HookSites says that hooks work, they do: for every routine, set   *)
(* of requests and layout of the memory, in both builds.                   *)
(***************************************************************************)
EXTENDS HookSites, Induction

-----------------------------------------------------------------------------
(* Sequences that are put together.                                         *)

LEMMA Joined ==
  ASSUME NEW S, NEW a \in Seq(S), NEW b \in Seq(S)
  PROVE  /\ a \o b \in Seq(S)
         /\ Len(a \o b) = Len(a) + Len(b)
         /\ \A i \in 1 .. Len(a) : (a \o b)[i] = a[i]
         /\ \A i \in 1 .. Len(b) : (a \o b)[Len(a) + i] = b[i]
PROOF
  OBVIOUS

LEMMA SameSequence ==
  ASSUME NEW S, NEW a \in Seq(S), NEW b \in Seq(S), Len(a) = Len(b),
         \A i \in 1 .. Len(a) : a[i] = b[i]
  PROVE  a = b
PROOF
  OBVIOUS

LEMMA JoinNone ==
  ASSUME NEW S, NEW a \in Seq(S)
  PROVE  a \o <<>> = a /\ <<>> \o a = a
PROOF
  OBVIOUS

LEMMA Associative ==
  ASSUME NEW S, NEW a \in Seq(S), NEW b \in Seq(S), NEW c \in Seq(S)
  PROVE  (a \o b) \o c = a \o (b \o c)
PROOF
  <1> DEFINE l == (a \o b) \o c
             r == a \o (b \o c)
  <1>1. /\ l \in Seq(S) /\ r \in Seq(S)
        /\ Len(l) = Len(a) + Len(b) + Len(c) /\ Len(r) = Len(l)
    BY Joined
  <1>2. ASSUME NEW i \in 1 .. Len(l) PROVE l[i] = r[i]
    OBVIOUS
  <1> HIDE DEF l, r
  <1>3. l = r
    BY <1>1, <1>2, SameSequence
  <1> QED
    BY <1>3 DEF l, r

-----------------------------------------------------------------------------
(* Bytes and where they stand.                                              *)

\* The operands of instructions: for plain ones, what they do, by the names
\* that the routine and the hooks give it.
Acts == Int \cup {Routine[n].arg : n \in DOMAIN Routine}
            \cup {r.body[n].name : r \in UNION RequestSets, n \in Nat}
Kinds == {"plain", "nop", "ret", "jmp", "call", "pointer", "data"}
Instrs == [kind : Kinds, arg : Acts, len : Nat \ {0}]
Cells == [of : Instrs, at : Nat]
Memories == [0 .. Top - 1 -> Cells]

\* What holds of all sequences, for bytes, for instructions and for names.
LEMMA OfBytes ==
  /\ \A a \in Seq(Cells), b \in Seq(Cells) :
       /\ a \o b \in Seq(Cells)
       /\ Len(a \o b) = Len(a) + Len(b)
       /\ \A i \in 1 .. Len(a) : (a \o b)[i] = a[i]
       /\ \A i \in 1 .. Len(b) : (a \o b)[Len(a) + i] = b[i]
  /\ \A a \in Seq(Cells), b \in Seq(Cells), c \in Seq(Cells) :
       (a \o b) \o c = a \o (b \o c)
  /\ \A a \in Seq(Cells) : Len(a) \in Nat /\ a \o <<>> = a /\ <<>> \o a = a
PROOF
  BY Joined, Associative, JoinNone

LEMMA OfInstrs ==
  /\ \A a \in Seq(Instrs), b \in Seq(Instrs) :
       /\ a \o b \in Seq(Instrs)
       /\ Len(a \o b) = Len(a) + Len(b)
       /\ \A i \in 1 .. Len(a) : (a \o b)[i] = a[i]
       /\ \A i \in 1 .. Len(b) : (a \o b)[Len(a) + i] = b[i]
  /\ \A a \in Seq(Instrs) : Len(a) \in Nat
PROOF
  BY Joined

LEMMA OfNames ==
  /\ \A a \in Seq(Acts), b \in Seq(Acts) :
       /\ a \o b \in Seq(Acts)
       /\ Len(a \o b) = Len(a) + Len(b)
       /\ \A i \in 1 .. Len(a) : (a \o b)[i] = a[i]
       /\ \A i \in 1 .. Len(b) : (a \o b)[Len(a) + i] = b[i]
  /\ \A a \in Seq(Acts), b \in Seq(Acts), c \in Seq(Acts) :
       (a \o b) \o c = a \o (b \o c)
  /\ \A a \in Seq(Acts) : Len(a) \in Nat /\ a \o <<>> = a /\ <<>> \o a = a
PROOF
  BY Joined, Associative, JoinNone

LEMMA InstrTypes ==
  /\ Nop \in Instrs /\ Ret \in Instrs /\ Data \in Instrs
  /\ \A kind \in {"jmp", "call"} :
       Indirect(kind) \in Instrs /\ \A delta \in Int : Relative(kind, delta) \in Instrs
  /\ \A a \in Int : Pointer(a) \in Instrs
PROOF
  <1> USE DEF Instrs, Kinds, Instr
  <1>1. Nop \in Instrs /\ Ret \in Instrs /\ Data \in Instrs
    BY DEF Nop, Ret, Data, Acts
  <1>2. ASSUME NEW kind \in {"jmp", "call"}
        PROVE  Indirect(kind) \in Instrs /\ \A delta \in Int : Relative(kind, delta) \in Instrs
    BY DEF Indirect, Relative, Acts
  <1>3. ASSUME NEW a \in Int PROVE Pointer(a) \in Instrs
    BY DEF Pointer, Acts
  <1> QED
    BY <1>1, <1>2, <1>3

LEMMA BytesIs ==
  ASSUME NEW i \in Instrs
  PROVE  /\ Bytes(i) \in Seq(Cells)
         /\ Len(Bytes(i)) = i.len
         /\ i.len \in Nat /\ i.len > 0
         /\ \A n \in 1 .. i.len : Bytes(i)[n] = [of |-> i, at |-> n]
PROOF
  <1>1. i.len \in Nat /\ i.len > 0
    BY DEF Instrs
  <1>2. \A n \in 1 .. i.len : [of |-> i, at |-> n] \in Cells
    BY <1>1 DEF Cells
  <1>3. Bytes(i) \in [1 .. i.len -> Cells]
    BY <1>2 DEF Bytes
  <1>4. Bytes(i) \in Seq(Cells) /\ Len(Bytes(i)) = i.len
    BY <1>1, <1>3
  <1> QED
    BY <1>1, <1>4 DEF Bytes

LEMMA NopsIs ==
  ASSUME NEW len \in Nat
  PROVE  /\ Nops(len) \in Seq(Cells)
         /\ Len(Nops(len)) = len
         /\ \A n \in 1 .. len : Nops(len)[n] = [of |-> Nop, at |-> 1]
PROOF
  <1>1. Nop.len = 1
    BY DEF Nop, Instr
  <1>2. Bytes(Nop)[1] = [of |-> Nop, at |-> 1] /\ [of |-> Nop, at |-> 1] \in Cells
    BY <1>1, InstrTypes DEF Bytes, Cells
  <1>3. Nops(len) \in [1 .. len -> Cells]
    BY <1>2 DEF Nops
  <1>4. Nops(len) \in Seq(Cells) /\ Len(Nops(len)) = len
    BY <1>3
  <1> QED
    BY <1>2, <1>4 DEF Nops

\* The bytes s stand at a.
Holds(m, a, s) ==
  \A n \in 1 .. Len(s) : a + n - 1 \in DOMAIN m /\ m[a + n - 1] = s[n]

LEMMA StandsHolds ==
  ASSUME NEW m, NEW a, NEW i \in Instrs
  PROVE  Stands(m, a, i) <=> Holds(m, a, Bytes(i))
PROOF
  BY BytesIs DEF Stands, Holds

LEMMA HoldsJoined ==
  ASSUME NEW m, NEW a \in Nat, NEW s \in Seq(Cells), NEW t \in Seq(Cells)
  PROVE  Holds(m, a, s \o t) <=> Holds(m, a, s) /\ Holds(m, a + Len(s), t)
PROOF
  <1> DEFINE x == Len(s)
             y == Len(t)
             st == s \o t
  <1>1. /\ x \in Nat /\ y \in Nat /\ Len(st) = x + y
        /\ \A n \in 1 .. x : st[n] = s[n]
        /\ \A n \in 1 .. y : st[x + n] = t[n]
    BY Joined
  <1> HIDE DEF x, y, st
  <1>2. ASSUME Holds(m, a, st) PROVE Holds(m, a, s) /\ Holds(m, a + x, t)
    <2>1. Holds(m, a, s)
      BY <1>1, <1>2 DEF Holds, x
    <2>2. ASSUME NEW n \in 1 .. y
          PROVE  (a + x) + n - 1 \in DOMAIN m /\ m[(a + x) + n - 1] = t[n]
      <3>1. x + n \in 1 .. Len(st) /\ a + (x + n) - 1 = (a + x) + n - 1
        BY <1>1
      <3> QED
        BY <1>1, <1>2, <3>1 DEF Holds
    <2> QED
      BY <2>1, <2>2 DEF Holds, y
  <1>3. ASSUME Holds(m, a, s), Holds(m, a + x, t) PROVE Holds(m, a, st)
    <2> SUFFICES ASSUME NEW n \in 1 .. x + y
                 PROVE  a + n - 1 \in DOMAIN m /\ m[a + n - 1] = st[n]
      BY <1>1 DEF Holds
    <2>1. CASE n <= x
      <3>1. n \in 1 .. x
        BY <2>1, <1>1
      <3> QED
        BY <1>1, <1>3, <3>1 DEF Holds, x
    <2>2. CASE n > x
      <3>1. n - x \in 1 .. y /\ x + (n - x) = n /\ (a + x) + (n - x) - 1 = a + n - 1
        BY <2>2, <1>1
      <3> QED
        BY <1>1, <1>3, <3>1 DEF Holds, y
    <2> QED
      BY <1>1, <2>1, <2>2
  <1> QED
    BY <1>2, <1>3 DEF x, st

LEMMA ReadIs ==
  ASSUME NEW m, NEW a \in Nat, NEW s \in Seq(Cells), Holds(m, a, s)
  PROVE  Read(m, a, Len(s)) = s
PROOF
  <1>1. \A n \in 1 .. Len(s) : m[a + n - 1] = s[n]
    BY DEF Holds
  <1>2. Read(m, a, Len(s)) = [n \in 1 .. Len(s) |-> s[n]]
    BY <1>1 DEF Read
  <1> QED
    BY <1>2

LEMMA WriteIs ==
  ASSUME NEW m \in Memories, NEW a \in Nat, NEW s \in Seq(Cells), a + Len(s) <= Top
  PROVE  /\ Write(m, a, s) \in Memories
         /\ Holds(Write(m, a, s), a, s)
         /\ \A b \in Nat, t \in Seq(Cells) :
              /\ Holds(m, b, t)
              /\ b + Len(t) <= a \/ a + Len(s) <= b
              => Holds(Write(m, a, s), b, t)
PROOF
  <1> DEFINE w == Write(m, a, s)
  <1>1. Len(s) \in Nat /\ DOMAIN s = 1 .. Len(s) /\ \A n \in 1 .. Len(s) : s[n] \in Cells
    OBVIOUS
  <1>2. Top \in Nat /\ DOMAIN m = 0 .. Top - 1 /\ \A b \in 0 .. Top - 1 : m[b] \in Cells
    BY HookConstants DEF Memories
  <1>3. w = [b \in 0 .. Top - 1 |-> IF b - a + 1 \in 1 .. Len(s) THEN s[b - a + 1] ELSE m[b]]
    BY <1>1, <1>2 DEF Write
  <1> HIDE DEF w
  <1>4. w \in Memories
    BY <1>1, <1>2, <1>3 DEF Memories
  <1>5. Holds(w, a, s)
    <2> SUFFICES ASSUME NEW n \in 1 .. Len(s)
                 PROVE  a + n - 1 \in 0 .. Top - 1 /\ w[a + n - 1] = s[n]
      BY <1>3 DEF Holds
    <2>1. a + n - 1 \in 0 .. Top - 1 /\ (a + n - 1) - a + 1 = n
      BY <1>1, <1>2
    <2> QED
      BY <1>3, <2>1
  <1>6. ASSUME NEW b \in Nat, NEW t \in Seq(Cells), Holds(m, b, t),
               b + Len(t) <= a \/ a + Len(s) <= b
        PROVE  Holds(w, b, t)
    <2> SUFFICES ASSUME NEW n \in 1 .. Len(t)
                 PROVE  b + n - 1 \in 0 .. Top - 1 /\ w[b + n - 1] = t[n]
      BY <1>3 DEF Holds
    <2>1. b + n - 1 \in 0 .. Top - 1 /\ m[b + n - 1] = t[n]
      BY <1>2, <1>6 DEF Holds
    <2>2. Len(t) \in Nat
      OBVIOUS
    <2>3. (b + n - 1) - a + 1 \notin 1 .. Len(s)
      BY <1>1, <1>6, <2>2
    <2> QED
      BY <1>3, <2>1, <2>3
  <1> QED
    BY <1>4, <1>5, <1>6 DEF w

-----------------------------------------------------------------------------
(* The code of a list of instructions.                                      *)

\* The equations of CodeUpTo.
CodeFollows(L) ==
  /\ CodeUpTo(L) \in [0 .. Len(L) -> Seq(Cells)]
  /\ CodeUpTo(L)[0] = <<>>
  /\ \A n \in 1 .. Len(L) : CodeUpTo(L)[n] = CodeUpTo(L)[n - 1] \o Bytes(L[n])

LEMMA CodeIterates ==
  ASSUME NEW L \in Seq(Instrs)
  PROVE  CodeFollows(L)
PROOF
  <1> DEFINE N == Len(L)
             V == Seq(Cells)
             none == <<>>
             E(n) == Bytes(L[n])
             step == [n \in 1 .. N |-> [v \in V |-> v \o E(n)]]
             P(g) == g = [n \in 0 .. N |-> IF n = 0 THEN none ELSE g[n - 1] \o E(n)]
             F == CodeUpTo(L)
  <1>1. F = CHOOSE g : P(g)
    BY DEF CodeUpTo
  <1>2. \A n \in 1 .. N : E(n) \in V
    BY BytesIs
  <1>3. step \in [1 .. N -> [V -> V]] /\ none \in V /\ N \in Nat
    BY <1>2
  <1>4. \A n \in 1 .. N, v \in V : step[n][v] = v \o E(n)
    OBVIOUS
  <1>5. \A n \in 1 .. N : n - 1 \in 0 .. N /\ n \in 0 .. N /\ n # 0
    BY <1>3
  <1> HIDE DEF step, E, V, N, none, F
  <1>6. PICK f : Iterates(f, N, V, none, step)
    BY <1>3, Recursion
  <1>7. \A n \in 1 .. N : f[n] = f[n - 1] \o E(n)
    BY <1>4, <1>5, <1>6 DEF Iterates
  <1>8. P(f)
    <2>1. f = [n \in 0 .. N |-> f[n]] /\ f[0] = none
      BY <1>6 DEF Iterates
    <2>2. \A n \in 0 .. N : n # 0 => n \in 1 .. N
      BY <1>3
    <2>3. \A n \in 0 .. N : f[n] = IF n = 0 THEN none ELSE f[n - 1] \o E(n)
      BY <1>7, <2>1, <2>2
    <2> QED
      BY <2>1, <2>3
  <1>9. P(F)
    <2> HIDE DEF P
    <2> QED BY <1>1, <1>8
  <1>10. F = [n \in 0 .. N |-> F[n]] /\ F[0] = none
    BY <1>3, <1>9
  <1>11. \A n \in 1 .. N : F[n] = F[n - 1] \o E(n)
    BY <1>5, <1>9
  <1>12. Iterates(F, N, V, none, step)
    <2> HIDE DEF P
    <2> QED BY <1>3, <1>4, <1>10, <1>11, IteratesWhen
  <1> QED
    BY <1>10, <1>11, <1>12 DEF F, N, E, none, V, Iterates, CodeFollows

LEMMA CodeType ==
  ASSUME NEW L \in Seq(Instrs)
  PROVE  /\ Code(L) \in Seq(Cells)
         /\ Len(Code(L)) \in Nat
         /\ \A n \in 0 .. Len(L) : CodeUpTo(L)[n] \in Seq(Cells) /\ Len(CodeUpTo(L)[n]) \in Nat
PROOF
  <1>1. Len(L) \in 0 .. Len(L)
    OBVIOUS
  <1>2. \A n \in 0 .. Len(L) : CodeUpTo(L)[n] \in Seq(Cells)
    BY CodeIterates DEF CodeFollows
  <1>3. \A s \in Seq(Cells) : Len(s) \in Nat
    OBVIOUS
  <1> QED
    BY <1>1, <1>2, <1>3 DEF Code

\* One instruction more.
LEMMA CodeStep ==
  ASSUME NEW L \in Seq(Instrs), NEW n \in 1 .. Len(L)
  PROVE  /\ CodeUpTo(L)[n] = CodeUpTo(L)[n - 1] \o Bytes(L[n])
         /\ CodeUpTo(L)[n - 1] \in Seq(Cells)
         /\ L[n] \in Instrs
         /\ Bytes(L[n]) \in Seq(Cells)
         /\ Len(CodeUpTo(L)[n]) = Len(CodeUpTo(L)[n - 1]) + L[n].len
PROOF
  <1>1. CodeUpTo(L)[n] = CodeUpTo(L)[n - 1] \o Bytes(L[n])
    BY CodeIterates DEF CodeFollows
  <1>2. L[n] \in Instrs /\ n - 1 \in 0 .. Len(L)
    OBVIOUS
  <1>3. CodeUpTo(L)[n - 1] \in Seq(Cells)
    BY <1>2, CodeType
  <1>4. Bytes(L[n]) \in Seq(Cells) /\ Len(Bytes(L[n])) = L[n].len
    BY <1>2, BytesIs
  <1>5. Len(CodeUpTo(L)[n - 1] \o Bytes(L[n])) = Len(CodeUpTo(L)[n - 1]) + L[n].len
    <2> DEFINE u == CodeUpTo(L)[n - 1]
               b == Bytes(L[n])
    <2>1. u \in Seq(Cells) /\ b \in Seq(Cells)
      BY <1>3, <1>4
    <2>2. Len(b) = L[n].len
      BY <1>4
    <2> HIDE DEF u, b
    <2>3. Len(u \o b) = Len(u) + Len(b)
      BY <2>1
    <2> QED
      BY <2>2, <2>3 DEF u, b
  <1> QED
    BY <1>1, <1>2, <1>3, <1>4, <1>5

LEMMA CodeGrows ==
  ASSUME NEW L \in Seq(Instrs), NEW k \in Nat, NEW n \in Nat, k < n, n <= Len(L)
  PROVE  Len(CodeUpTo(L)[k]) + L[k + 1].len <= Len(CodeUpTo(L)[n])
PROOF
  <1> DEFINE at(x) == Len(CodeUpTo(L)[x])
             N == Len(L)
             S == {x \in Nat : k + 1 + x <= N => at(k) + L[k + 1].len <= at(k + 1 + x)}
  <1>1. \A x \in 1 .. N : /\ at(x) = at(x - 1) + L[x].len
                          /\ L[x].len \in Nat
    BY CodeStep, BytesIs
  <1>2. N \in Nat /\ \A x \in 0 .. N : at(x) \in Nat
    BY CodeType
  <1> HIDE DEF at, N
  <1>3. 0 \in S
    <2> SUFFICES ASSUME k + 1 <= N PROVE at(k) + L[k + 1].len <= at(k + 1)
      OBVIOUS
    <2>1. k + 1 \in 1 .. N /\ (k + 1) - 1 = k /\ k \in 0 .. N
      BY <1>2
    <2> QED
      BY <1>1, <1>2, <2>1
  <1>4. ASSUME NEW x \in Nat, x \in S PROVE x + 1 \in S
    <2> SUFFICES ASSUME k + 1 + (x + 1) <= N
                 PROVE  at(k) + L[k + 1].len <= at(k + 1 + (x + 1))
      OBVIOUS
    <2>1. /\ k + 1 + (x + 1) \in 1 .. N /\ (k + 1 + (x + 1)) - 1 = k + 1 + x
          /\ k + 1 + x \in 0 .. N /\ k \in 0 .. N /\ k + 1 \in 1 .. N
      BY <1>2
    <2>2. at(k) + L[k + 1].len <= at(k + 1 + x)
      BY <1>2, <1>4, <2>1
    <2>3. at(k + 1 + (x + 1)) = at(k + 1 + x) + L[k + 1 + (x + 1)].len
      BY <1>1, <2>1
    <2>4. /\ at(k) \in Nat /\ at(k + 1 + x) \in Nat
          /\ L[k + 1].len \in Nat /\ L[k + 1 + (x + 1)].len \in Nat
      BY <1>1, <1>2, <2>1
    <2>5. \A a, b, c, d \in Nat : a + b <= c => a + b <= c + d
      OBVIOUS
    <2> QED
      BY ONLY <2>2, <2>3, <2>4, <2>5
  <1> HIDE DEF S
  <1>5. n - k - 1 \in Nat /\ k + 1 + (n - k - 1) = n /\ n <= N
    BY DEF N
  <1>6. n - k - 1 \in S
    BY <1>3, <1>4, <1>5, SetInduction
  <1> QED
    BY <1>5, <1>6 DEF S, at

\* The code of one list after another.
LEMMA CodeJoined ==
  ASSUME NEW L \in Seq(Instrs), NEW M \in Seq(Instrs)
  PROVE  Code(L \o M) = Code(L) \o Code(M)
PROOF
  <1> DEFINE x == Len(L)
             y == Len(M)
             LM == L \o M
             S == {n \in Nat : n <= x => CodeUpTo(LM)[n] = CodeUpTo(L)[n]}
             T == {n \in Nat : n <= y => CodeUpTo(LM)[x + n] = Code(L) \o CodeUpTo(M)[n]}
  <1>1. /\ LM \in Seq(Instrs) /\ Len(LM) = x + y /\ x \in Nat /\ y \in Nat
        /\ \A n \in 1 .. x : LM[n] = L[n]
        /\ \A n \in 1 .. y : LM[x + n] = M[n]
    BY Joined
  <1>2. CodeUpTo(LM)[0] = <<>> /\ CodeUpTo(L)[0] = <<>> /\ CodeUpTo(M)[0] = <<>>
    BY <1>1, CodeIterates DEF CodeFollows
  <1> HIDE DEF LM
  <1>3. 0 \in S
    BY <1>2
  <1>4. ASSUME NEW n \in Nat, n \in S PROVE n + 1 \in S
    <2> SUFFICES ASSUME n + 1 <= x PROVE CodeUpTo(LM)[n + 1] = CodeUpTo(L)[n + 1]
      OBVIOUS
    <2>1. n + 1 \in 1 .. x /\ n + 1 \in 1 .. Len(LM) /\ (n + 1) - 1 = n /\ n <= x
      BY <1>1
    <2>2. CodeUpTo(LM)[n + 1] = CodeUpTo(LM)[n] \o Bytes(LM[n + 1])
      BY <1>1, <2>1, CodeStep
    <2>3. CodeUpTo(L)[n + 1] = CodeUpTo(L)[n] \o Bytes(L[n + 1])
      BY <2>1, CodeStep
    <2> QED
      BY <1>1, <1>4, <2>1, <2>2, <2>3
  <1>5. CodeUpTo(LM)[x] = Code(L)
    <2> HIDE DEF S
    <2>1. x \in S
      BY <1>1, <1>3, <1>4, SetInduction
    <2> QED
      BY <1>1, <2>1 DEF S, Code
  <1>6. 0 \in T
    BY <1>1, <1>2, <1>5, CodeType, OfBytes
  <1>7. ASSUME NEW n \in Nat, n \in T PROVE n + 1 \in T
    <2> SUFFICES ASSUME n + 1 <= y
                 PROVE  CodeUpTo(LM)[x + (n + 1)] = Code(L) \o CodeUpTo(M)[n + 1]
      OBVIOUS
    <2>1. /\ x + (n + 1) \in 1 .. Len(LM) /\ (x + (n + 1)) - 1 = x + n
          /\ n + 1 \in 1 .. y /\ (n + 1) - 1 = n
      BY <1>1
    <2>2. CodeUpTo(LM)[x + (n + 1)] = CodeUpTo(LM)[x + n] \o Bytes(LM[x + (n + 1)])
      BY <1>1, <2>1, CodeStep
    <2>3. CodeUpTo(M)[n + 1] = CodeUpTo(M)[n] \o Bytes(M[n + 1])
      BY <2>1, CodeStep
    <2>4. CodeUpTo(LM)[x + n] = Code(L) \o CodeUpTo(M)[n]
      BY <1>7, <2>1
    <2>5. Code(L) \in Seq(Cells) /\ CodeUpTo(M)[n] \in Seq(Cells) /\ Bytes(M[n + 1]) \in Seq(Cells)
      BY <2>1, CodeStep, CodeType
    <2>6. (Code(L) \o CodeUpTo(M)[n]) \o Bytes(M[n + 1]) = Code(L) \o (CodeUpTo(M)[n] \o Bytes(M[n + 1]))
      BY <2>5, OfBytes
    <2> QED
      BY <1>1, <2>1, <2>2, <2>3, <2>4, <2>6
  <1> HIDE DEF T
  <1>8. y \in T
    BY <1>1, <1>6, <1>7, SetInduction
  <1>9. CodeUpTo(LM)[x + y] = Code(L) \o CodeUpTo(M)[y]
    BY <1>1, <1>8 DEF T
  <1>10. Code(LM) = CodeUpTo(LM)[x + y] /\ Code(M) = CodeUpTo(M)[y]
    BY <1>1 DEF Code
  <1> QED
    BY <1>9, <1>10 DEF LM

\* A list that is part of another one.
LEMMA CodeWithin ==
  ASSUME NEW L \in Seq(Instrs), NEW W \in Seq(Instrs), NEW f \in Nat, f + Len(W) <= Len(L),
         \A k \in 1 .. Len(W) : W[k] = L[f + k]
  PROVE  \A k \in 0 .. Len(W) :
           Len(CodeUpTo(L)[f + k]) = Len(CodeUpTo(L)[f]) + Len(CodeUpTo(W)[k])
PROOF
  <1> DEFINE x == Len(W)
             outer(k) == Len(CodeUpTo(L)[k])
             inner(k) == Len(CodeUpTo(W)[k])
             S == {k \in Nat : k <= x => outer(f + k) = outer(f) + inner(k)}
  <1>1. x \in Nat /\ Len(L) \in Nat
    OBVIOUS
  <1>2. \A k \in 1 .. Len(L) : outer(k) = outer(k - 1) + L[k].len
    BY CodeStep
  <1>3. \A k \in 1 .. x : inner(k) = inner(k - 1) + W[k].len /\ W[k].len \in Nat
    BY CodeStep, BytesIs
  <1>4. /\ \A k \in 0 .. Len(L) : outer(k) \in Nat
        /\ \A k \in 0 .. x : inner(k) \in Nat
    BY CodeType
  <1>5. inner(0) = 0
    <2>1. CodeUpTo(W)[0] = <<>>
      BY CodeIterates DEF CodeFollows
    <2> QED
      BY <2>1
  <1>6. x = Len(W)
    OBVIOUS
  <1> HIDE DEF outer, inner, x
  <1>7. 0 \in S
    <2>1. f \in 0 .. Len(L)
      BY <1>1, <1>6
    <2>2. outer(f) \in Nat
      BY <1>4, <2>1
    <2> QED
      BY <1>5, <2>2
  <1>8. ASSUME NEW k \in Nat, k \in S PROVE k + 1 \in S
    <2> SUFFICES ASSUME k + 1 <= x PROVE outer(f + (k + 1)) = outer(f) + inner(k + 1)
      OBVIOUS
    <2>1. /\ f + (k + 1) \in 1 .. Len(L) /\ (f + (k + 1)) - 1 = f + k
          /\ k + 1 \in 1 .. x /\ (k + 1) - 1 = k /\ k \in 0 .. x /\ f \in 0 .. Len(L)
      BY <1>1, <1>6
    <2>2. outer(f + (k + 1)) = outer(f + k) + L[f + (k + 1)].len
      BY <1>2, <2>1
    <2>3. inner(k + 1) = inner(k) + W[k + 1].len /\ W[k + 1].len \in Nat
      BY <1>3, <2>1
    <2>4. outer(f) \in Nat /\ inner(k) \in Nat
      BY <1>4, <2>1
    <2>5. W[k + 1] = L[f + (k + 1)]
      BY <1>6, <2>1
    <2>6. outer(f + k) = outer(f) + inner(k)
      BY <1>8, <2>1
    <2> QED
      BY <2>2, <2>3, <2>4, <2>5, <2>6
  <1> HIDE DEF S
  <1>9. Nat \subseteq S
    BY <1>7, <1>8, SetInduction
  <1>10. \A k \in 0 .. x : outer(f + k) = outer(f) + inner(k)
    BY <1>1, <1>9 DEF S
  <1> QED
    BY <1>10 DEF outer, inner, x

\* Code stands where each of its instructions stands.
LEMMA CodeHolds ==
  ASSUME NEW m, NEW a \in Nat, NEW L \in Seq(Instrs)
  PROVE  Holds(m, a, Code(L))
           <=> \A k \in 1 .. Len(L) : Stands(m, a + Len(CodeUpTo(L)[k - 1]), L[k])
PROOF
  <1> DEFINE N == Len(L)
             Each(n) == \A k \in 1 .. n : Stands(m, a + Len(CodeUpTo(L)[k - 1]), L[k])
             S == {n \in Nat : n <= N => (Holds(m, a, CodeUpTo(L)[n]) <=> Each(n))}
  <1>1. N \in Nat /\ CodeUpTo(L)[0] = <<>>
    <2>1. CodeUpTo(L)[0] = <<>>
      BY CodeIterates DEF CodeFollows
    <2> QED
      BY <2>1
  <1>2. 0 \in S
    <2>1. Holds(m, a, <<>>)
      BY DEF Holds
    <2> QED
      BY <1>1, <2>1
  <1>3. ASSUME NEW n \in Nat, n \in S PROVE n + 1 \in S
    <2> SUFFICES ASSUME n + 1 <= N
                 PROVE  Holds(m, a, CodeUpTo(L)[n + 1]) <=> Each(n + 1)
      OBVIOUS
    <2>1. n + 1 \in 1 .. N /\ (n + 1) - 1 = n
      BY <1>1
    <2>2. /\ CodeUpTo(L)[n + 1] = CodeUpTo(L)[n] \o Bytes(L[n + 1])
          /\ CodeUpTo(L)[n] \in Seq(Cells) /\ Bytes(L[n + 1]) \in Seq(Cells)
          /\ L[n + 1] \in Instrs
      BY <2>1, CodeStep
    <2>3. Holds(m, a, CodeUpTo(L)[n + 1])
            <=> /\ Holds(m, a, CodeUpTo(L)[n])
                /\ Holds(m, a + Len(CodeUpTo(L)[n]), Bytes(L[n + 1]))
      <3> DEFINE u == CodeUpTo(L)[n]
                 b == Bytes(L[n + 1])
      <3>1. u \in Seq(Cells) /\ b \in Seq(Cells) /\ CodeUpTo(L)[n + 1] = u \o b
        BY <2>2
      <3> HIDE DEF u, b
      <3>2. Holds(m, a, u \o b) <=> Holds(m, a, u) /\ Holds(m, a + Len(u), b)
        BY <3>1, HoldsJoined
      <3> QED
        BY <3>1, <3>2 DEF u, b
    <2>4. Holds(m, a + Len(CodeUpTo(L)[n]), Bytes(L[n + 1]))
            <=> Stands(m, a + Len(CodeUpTo(L)[n]), L[n + 1])
      BY <2>2, StandsHolds
    <2>5. Holds(m, a, CodeUpTo(L)[n]) <=> Each(n)
      BY <1>3, <2>1
    <2>6. Each(n + 1) <=> Each(n) /\ Stands(m, a + Len(CodeUpTo(L)[n]), L[n + 1])
      <3>1. \A k : k \in 1 .. n + 1 <=> k \in 1 .. n \/ k = n + 1
        OBVIOUS
      <3> QED
        BY <2>1, <3>1
    <2> HIDE DEF Each
    <2> QED
      BY <2>3, <2>4, <2>5, <2>6
  <1> HIDE DEF S
  <1>4. N \in S
    BY <1>1, <1>2, <1>3, SetInduction
  <1> QED
    BY <1>1, <1>4 DEF S, Code

-----------------------------------------------------------------------------
(* The routine, and the windows on it.                                      *)

LEMMA ProgramIs ==
  /\ Len(Routine) \in Nat
  /\ DOMAIN Routine = 1 .. Len(Routine)
  /\ \A n \in DOMAIN Routine :
       /\ Routine[n] \in Instrs /\ Program[n] = Routine[n]
       /\ Routine[n].kind \in {"plain", "jmp"}
       /\ Routine[n].kind = "jmp" =>
            /\ ~Wide
            /\ Routine[n] = Relative("jmp", Routine[n].arg)
            /\ Routine[n].arg \in Nat
            /\ Routine[n].len = 5
            /\ \E m \in DOMAIN Program :
                 Start(n) + Routine[n].len + Routine[n].arg = Start(m)
  /\ Program \in Seq(Instrs)
  /\ Len(Program) = Len(Routine) + 1
  /\ DOMAIN Program = 1 .. Len(Program)
  /\ Program[Len(Program)] = Ret
PROOF
  <1> DEFINE R == {Routine[n] : n \in DOMAIN Routine}
             N == Len(Routine)
  <1>1. Routine \in Seq(R)
    BY HookConstants
  <1>2. N \in Nat /\ DOMAIN Routine = 1 .. N
    BY <1>1
  <1>3. ASSUME NEW n \in DOMAIN Routine
        PROVE  /\ Routine[n] \in Instrs
               /\ Routine[n].kind \in {"plain", "jmp"}
               /\ Routine[n].kind = "jmp" =>
                    /\ ~Wide
                    /\ Routine[n] = Relative("jmp", Routine[n].arg)
                    /\ Routine[n].arg \in Nat
                    /\ Routine[n].len = 5
                    /\ \E m \in DOMAIN Program :
                         Start(n) + Routine[n].len + Routine[n].arg = Start(m)
    <2> DEFINE i == Routine[n]
    <2>1. \/ i = Instr("plain", i.arg, i.len) /\ i.len \in 1 .. MaxInstr
          \/ /\ i = Relative("jmp", i.arg) /\ i.arg \in Nat /\ ~Wide
             /\ \E m \in DOMAIN Program : Start(n) + i.len + i.arg = Start(m)
      BY HookConstants
    <2>2. i.arg \in Acts
      BY DEF Acts
    <2> HIDE DEF i
    <2>3. CASE i = Instr("plain", i.arg, i.len) /\ i.len \in 1 .. MaxInstr
      <3>1. i.kind = "plain" /\ i.len \in Nat \ {0}
        BY <2>3 DEF Instr, MaxInstr
      <3>2. [kind |-> "plain", arg |-> i.arg, len |-> i.len] \in Instrs
        BY <2>2, <3>1 DEF Instrs, Kinds
      <3> QED
        BY <2>3, <3>1, <3>2 DEF i, Instr
    <2>4. CASE /\ i = Relative("jmp", i.arg) /\ i.arg \in Nat /\ ~Wide
               /\ \E m \in DOMAIN Program : Start(n) + i.len + i.arg = Start(m)
      <3>1. i.kind = "jmp" /\ i.len = 5
        BY <2>4 DEF Relative, Instr
      <3>2. i \in Instrs
        BY <2>4, InstrTypes
      <3> QED
        BY <2>4, <3>1, <3>2 DEF i
    <2> QED
      BY <2>1, <2>3, <2>4
  <1>4. Routine \in Seq(Instrs)
    BY <1>2, <1>3, <1>1
  <1>5. <<Ret>> \in Seq(Instrs) /\ Len(<<Ret>>) = 1 /\ <<Ret>>[1] = Ret
    BY InstrTypes
  <1> DEFINE one == <<Ret>>
  <1> HIDE DEF one
  <1>6. one \in Seq(Instrs) /\ Len(one) = 1 /\ one[1] = Ret
    BY <1>5 DEF one
  <1>7. Program = Routine \o one
    BY DEF Program, one
  <1>8. /\ Program \in Seq(Instrs) /\ Len(Program) = N + 1
        /\ \A n \in 1 .. N : Program[n] = Routine[n]
    BY <1>4, <1>6, <1>7, OfInstrs
  <1>9. Program[N + 1] = Ret
    <2>1. 1 \in 1 .. Len(one)
      BY <1>6
    <2>2. (Routine \o one)[Len(Routine) + 1] = one[1]
      BY <1>4, <1>6, <2>1, OfInstrs
    <2> QED
      BY <1>6, <1>7, <2>2
  <1>10. DOMAIN Program = 1 .. Len(Program)
    BY <1>8
  <1> QED
    BY <1>2, <1>3, <1>8, <1>9, <1>10

\* Instructions follow one another, and each is somewhere else.
LEMMA Starts ==
  /\ \A n \in 1 .. Len(Program) + 1 : Start(n) \in Nat /\ Start(n) >= Base
  /\ \A n \in 1 .. Len(Program) :
       /\ Program[n].len \in Nat /\ Program[n].len > 0
       /\ Start(n + 1) = Start(n) + Program[n].len
  /\ \A m, n \in 1 .. Len(Program) + 1 :
       m < n => Start(m) + Program[m].len <= Start(n) /\ Start(m) < Start(n)
  /\ Start(Len(Program) + 1) = Base + Len(Code(Program))
  /\ Start(Len(Program) + 1) <= Top
PROOF
  <1> DEFINE P == Len(Program)
             at(n) == Len(CodeUpTo(Program)[n])
  <1>1. Program \in Seq(Instrs) /\ P \in Nat /\ Base \in Nat /\ Top \in Nat
    BY ProgramIs, HookConstants
  <1>2. \A n \in 0 .. P : at(n) \in Nat
    BY <1>1, CodeType
  <1>3. \A n \in 1 .. P : at(n) = at(n - 1) + Program[n].len /\ Program[n].len \in Nat /\ Program[n].len > 0
    BY <1>1, CodeStep, BytesIs
  <1>4. \A n : Start(n) = Base + at(n - 1)
    BY DEF Start
  <1>5. at(P) = Len(Code(Program))
    BY DEF Code
  <1>6. \A k, n \in Nat : k < n /\ n <= P => at(k) + Program[k + 1].len <= at(n)
    BY <1>1, CodeGrows
  <1> HIDE DEF at, P
  <1>7. ASSUME NEW n \in 1 .. P + 1 PROVE Start(n) \in Nat /\ Start(n) >= Base
    <2>1. n - 1 \in 0 .. P
      BY <1>1
    <2> QED
      BY <1>1, <1>2, <1>4, <2>1
  <1>8. ASSUME NEW n \in 1 .. P
        PROVE  /\ Program[n].len \in Nat /\ Program[n].len > 0
               /\ Start(n + 1) = Start(n) + Program[n].len
    <2>1. n - 1 \in 0 .. P /\ n \in 0 .. P /\ (n + 1) - 1 = n
      BY <1>1
    <2>2. Start(n + 1) = Base + at(n) /\ Start(n) = Base + at(n - 1)
      BY <1>4, <2>1
    <2>3. at(n) = at(n - 1) + Program[n].len /\ Program[n].len \in Nat /\ at(n - 1) \in Nat
      BY <1>2, <1>3, <2>1
    <2> QED
      BY <1>1, <1>3, <2>2, <2>3
  <1>9. ASSUME NEW m \in 1 .. P + 1, NEW n \in 1 .. P + 1, m < n
        PROVE  Start(m) + Program[m].len <= Start(n) /\ Start(m) < Start(n)
    <2>1. m - 1 \in Nat /\ n - 1 \in Nat /\ m - 1 < n - 1 /\ n - 1 <= P /\ (m - 1) + 1 = m /\ m \in 1 .. P
      BY <1>1, <1>9
    <2>2. at(m - 1) + Program[m].len <= at(n - 1)
      BY <1>6, <2>1
    <2>3. Start(m) = Base + at(m - 1) /\ Start(n) = Base + at(n - 1)
      BY <1>4
    <2>4. at(m - 1) \in Nat /\ at(n - 1) \in Nat /\ Program[m].len \in Nat /\ Program[m].len > 0
      BY <1>1, <1>2, <1>3, <2>1
    <2> QED
      BY <1>1, <2>2, <2>3, <2>4
  <1>10. Start(P + 1) = Base + Len(Code(Program))
    BY <1>1, <1>4, <1>5
  <1>11. Base + Len(Code(Program)) <= Top
    BY HookConstants
  <1> QED
    BY <1>7, <1>8, <1>9, <1>10, <1>11 DEF P

LEMMA IndexIs ==
  ASSUME NEW n \in DOMAIN Routine
  PROVE  IndexOf(Start(n)) = n
PROOF
  <1>1. \A m \in DOMAIN Routine : Start(m) = Start(n) => m = n
    <2> SUFFICES ASSUME NEW m \in DOMAIN Routine, m # n PROVE Start(m) # Start(n)
      OBVIOUS
    <2>1. m \in 1 .. Len(Program) + 1 /\ n \in 1 .. Len(Program) + 1
      BY ProgramIs
    <2>2. Start(m) \in Nat /\ Start(n) \in Nat
      BY <2>1, Starts
    <2>3. CASE m < n
      BY <2>1, <2>2, <2>3, Starts
    <2>4. CASE n < m
      BY <2>1, <2>2, <2>4, Starts
    <2> QED
      BY <2>1, <2>3, <2>4
  <1> QED
    BY <1>1 DEF IndexOf

\* Where the window of r ends, and the routine goes on.
End(r) == Start(First(r) + Count(r))

\* What a request that writes has of a window.
WindowIs(r) ==
  /\ First(r) \in 1 .. Len(Routine)
  /\ Start(First(r)) = r.site
  /\ r.site \in Nat /\ r.site >= Base
  /\ Count(r) \in Nat /\ Count(r) > 0
  /\ First(r) + Count(r) \in 1 .. Len(Program)
  /\ Takes(r, First(r), Count(r))
  /\ Window(r) \subseteq 1 .. Len(Routine)
  /\ End(r) \in Nat /\ End(r) > r.site

LEMMA WindowFacts ==
  ASSUME WindowsApart, NEW rs \in RequestSets, NEW r \in Writes(rs)
  PROVE  WindowIs(r)
PROOF
  <1> DEFINE P == Len(Program)
  <1>1. HasWindow(r)
    BY DEF WindowsApart
  <1>2. PICK n \in DOMAIN Routine :
          Start(n) = r.site /\ \E c \in 1 .. P - n : Takes(r, n, c)
    BY <1>1 DEF HasWindow
  <1>3. First(r) = n
    BY <1>2, IndexIs DEF First
  <1>4. P \in Nat /\ n \in 1 .. Len(Routine) /\ P = Len(Routine) + 1 /\ Len(Routine) \in Nat
    BY ProgramIs
  <1>5. Count(r) \in 1 .. P - n /\ Takes(r, n, Count(r))
    BY <1>2, <1>3 DEF Count
  <1>6. /\ Count(r) \in Nat /\ Count(r) > 0 /\ n + Count(r) \in 1 .. P /\ n < n + Count(r)
        /\ n + Count(r) \in 1 .. P + 1 /\ n \in 1 .. P + 1
    BY <1>4, <1>5
  <1>7. /\ Start(n) \in Nat /\ Start(n) >= Base
        /\ Start(n + Count(r)) \in Nat /\ Start(n) < Start(n + Count(r))
    BY <1>6, Starts
  <1>8. Window(r) \subseteq 1 .. Len(Routine)
    BY <1>3, <1>4, <1>6 DEF Window
  <1> QED
    BY <1>2, <1>3, <1>4, <1>5, <1>6, <1>7, <1>8 DEF WindowIs, End

-----------------------------------------------------------------------------
(* The disassembler over instructions that stand in memory.                 *)

LEMMA StartsSpread ==
  ASSUME NEW n \in 1 .. Len(Program), NEW c \in Nat, n + c <= Len(Program) + 1
  PROVE  Start(n) + c <= Start(n + c)
PROOF
  <1> DEFINE P == Len(Program)
             S == {k \in Nat : n + k <= P + 1 => Start(n) + k <= Start(n + k)}
  <1>1. P \in Nat
    BY ProgramIs
  <1>2. \A k \in 1 .. P + 1 : Start(k) \in Nat
    BY Starts
  <1>3. \A k \in 1 .. P : Start(k) < Start(k + 1)
    <2> SUFFICES ASSUME NEW k \in 1 .. P PROVE Start(k) < Start(k + 1)
      OBVIOUS
    <2>1. k \in 1 .. P + 1 /\ k + 1 \in 1 .. P + 1 /\ k < k + 1
      BY <1>1
    <2> QED
      BY <2>1, Starts
  <1> HIDE DEF P
  <1>4. n \in 1 .. P /\ n + c <= P + 1
    BY DEF P
  <1>5. 0 \in S
    BY <1>1, <1>2, <1>4
  <1>6. ASSUME NEW k \in Nat, k \in S PROVE k + 1 \in S
    <2> SUFFICES ASSUME n + (k + 1) <= P + 1
                 PROVE  Start(n) + (k + 1) <= Start(n + (k + 1))
      OBVIOUS
    <2>1. /\ n + k \in 1 .. P /\ n + k \in 1 .. P + 1 /\ n + (k + 1) \in 1 .. P + 1
          /\ (n + k) + 1 = n + (k + 1) /\ n \in 1 .. P + 1
      BY <1>1, <1>4
    <2>2. Start(n + k) < Start(n + (k + 1))
      BY <1>3, <2>1
    <2>3. Start(n) + k <= Start(n + k)
      BY <1>6, <2>1
    <2>4. Start(n) \in Nat /\ Start(n + k) \in Nat /\ Start(n + (k + 1)) \in Nat
      BY <1>2, <2>1
    <2> QED
      BY <2>2, <2>3, <2>4
  <1> HIDE DEF S
  <1>7. c \in S
    BY <1>5, <1>6, SetInduction
  <1> QED
    BY <1>4, <1>7 DEF S

\* An instruction that stands somewhere is the one that is decoded there.
LEMMA StandsDecodes ==
  ASSUME NEW m, NEW a \in Nat, NEW i \in Instrs, Stands(m, a, i)
  PROVE  /\ a \in DOMAIN m /\ m[a].of = i
         /\ i.kind \notin {"pointer", "data"} => Decodes(m, a)
PROOF
  <1>1. 1 \in 1 .. i.len
    BY BytesIs
  <1>2. a + 1 - 1 = a
    OBVIOUS
  <1>3. a + 1 - 1 \in DOMAIN m /\ m[a + 1 - 1] = [of |-> i, at |-> 1]
    BY <1>1 DEF Stands
  <1>4. a \in DOMAIN m /\ m[a] = [of |-> i, at |-> 1]
    BY <1>2, <1>3
  <1>5. m[a].of = i
    BY <1>4
  <1> QED
    BY <1>4, <1>5 DEF Decodes

LEMMA DisassembledIs ==
  ASSUME NEW m \in Memories, NEW n \in 1 .. Len(Routine), NEW len \in Nat,
         NEW count \in Nat, NEW c \in 0 .. count, n + c <= Len(Program),
         \A k \in 0 .. c - 1 : /\ Stands(m, Start(n + k), Program[n + k])
                               /\ Start(n + k) - Start(n) < len,
         Start(n + c) - Start(n) >= len \/ c = count
  PROVE  Disassembled(m, Start(n), len, count) = [len |-> Start(n + c) - Start(n), count |-> c]
PROOF
  <1> DEFINE a == Start(n)
             V == [len : Nat, count : Nat]
             none == [len |-> 0, count |-> 0]
             Decoded(so, j) ==
               IF so.len >= len \/ ~Decodes(m, a + so.len) THEN so
               ELSE [len |-> so.len + m[a + so.len].of.len, count |-> j]
             step == [j \in 1 .. count |-> [so \in V |-> Decoded(so, j)]]
             P(g) == g = [j \in 0 .. count |->
                            LET so == IF j = 0 THEN [len |-> 0, count |-> 0] ELSE g[j - 1]
                            IN IF j = 0 \/ so.len >= len \/ ~Decodes(m, a + so.len) THEN so
                               ELSE [len |-> so.len + m[a + so.len].of.len, count |-> j]]
             go == CHOOSE g : P(g)
  <1>1. Disassembled(m, a, len, count) = go[count]
    BY DEF Disassembled
  <1>2. n \in 1 .. Len(Program) /\ Len(Program) \in Nat
    BY ProgramIs
  <1>3. \A k \in 0 .. c : n + k \in 1 .. Len(Program) + 1 /\ n + k \in 1 .. Len(Program)
    BY <1>2
  <1>4. \A k \in 0 .. c : Start(n + k) \in Nat /\ Start(n + k) >= a
    <2> SUFFICES ASSUME NEW k \in 0 .. c PROVE Start(n + k) \in Nat /\ Start(n + k) >= a
      OBVIOUS
    <2>1. n + k \in 1 .. Len(Program) + 1 /\ k \in Nat /\ n + k <= Len(Program) + 1
      BY <1>2
    <2>2. Start(n) + k <= Start(n + k)
      BY <1>2, <2>1, StartsSpread
    <2>3. Start(n + k) \in Nat /\ Start(n) \in Nat
      BY <1>2, <2>1, Starts
    <2> QED
      BY <2>1, <2>2, <2>3
  <1>5. a \in Nat
    BY <1>2, Starts
  <1>6. ASSUME NEW so \in V, NEW j \in 1 .. count PROVE Decoded(so, j) \in V
    <2>1. CASE so.len >= len \/ ~Decodes(m, a + so.len)
      BY <2>1
    <2>2. CASE ~(so.len >= len \/ ~Decodes(m, a + so.len))
      <3>1. a + so.len \in 0 .. Top - 1
        BY <2>2 DEF Decodes, Memories
      <3>2. m[a + so.len] \in Cells
        BY <3>1 DEF Memories
      <3>3. m[a + so.len].of.len \in Nat
        BY <3>2 DEF Cells, Instrs
      <3> QED
        BY <2>2, <3>3
    <2> QED
      BY <2>1, <2>2
  <1>7. step \in [1 .. count -> [V -> V]] /\ none \in V
    <2> HIDE DEF Decoded, V
    <2>1. step \in [1 .. count -> [V -> V]]
      BY <1>6
    <2> QED
      BY <2>1 DEF V
  <1>8. \A j \in 1 .. count, so \in V : step[j][so] = Decoded(so, j)
    OBVIOUS
  <1>9. \A j \in 1 .. count : j - 1 \in 0 .. count /\ j \in 0 .. count /\ j # 0
    OBVIOUS
  <1> HIDE DEF step, V, go
  <1>10. PICK f : Iterates(f, count, V, none, step)
    <2> HIDE DEF none
    <2> QED BY <1>7, Recursion
  <1>11. \A j \in 1 .. count : f[j - 1] \in V /\ f[j] = Decoded(f[j - 1], j)
    <2> HIDE DEF none, Decoded
    <2>1. \A j \in 1 .. count : f[j - 1] \in V
      BY <1>9, <1>10 DEF Iterates
    <2> QED
      BY <1>8, <1>10, <2>1 DEF Iterates
  <1>12. P(f)
    <2>1. f = [j \in 0 .. count |-> f[j]] /\ f[0] = [len |-> 0, count |-> 0]
      BY <1>10 DEF Iterates
    <2>2. \A j \in 0 .. count : j # 0 => j \in 1 .. count
      OBVIOUS
    <2>3. ASSUME NEW j \in 0 .. count
          PROVE  f[j] = LET so == IF j = 0 THEN [len |-> 0, count |-> 0] ELSE f[j - 1]
                        IN IF j = 0 \/ so.len >= len \/ ~Decodes(m, a + so.len) THEN so
                           ELSE [len |-> so.len + m[a + so.len].of.len, count |-> j]
      <3>1. CASE j = 0
        BY <2>1, <3>1
      <3>2. CASE j # 0
        BY <1>11, <2>2, <3>2
      <3> QED
        BY <3>1, <3>2
    <2> QED
      BY <2>1, <2>3
  <1>13. P(go)
    <2> HIDE DEF P
    <2> QED BY <1>12 DEF go
  <1>14. go[0] = none /\ \A j \in 1 .. count : go[j] = Decoded(go[j - 1], j)
    <2>1. go[0] = none
      BY <1>13
    <2>2. ASSUME NEW j \in 1 .. count PROVE go[j] = Decoded(go[j - 1], j)
      <3>1. j \in 0 .. count /\ j # 0
        BY <1>9
      <3>2. go[j] = LET so == IF j = 0 THEN [len |-> 0, count |-> 0] ELSE go[j - 1]
                    IN IF j = 0 \/ so.len >= len \/ ~Decodes(m, a + so.len) THEN so
                       ELSE [len |-> so.len + m[a + so.len].of.len, count |-> j]
        BY <1>13, <3>1
      <3> QED
        BY <3>1, <3>2
    <2> QED
      BY <2>1, <2>2
  <1> DEFINE S == {j \in Nat : j <= c => go[j] = [len |-> Start(n + j) - a, count |-> j]}
             T == {j \in Nat : c + j <= count => go[c + j] = [len |-> Start(n + c) - a, count |-> c]}
  <1> HIDE DEF P
  <1>15. 0 \in S
    BY <1>5, <1>14
  <1>16. ASSUME NEW j \in Nat, j \in S PROVE j + 1 \in S
    <2> SUFFICES ASSUME j + 1 <= c
                 PROVE  go[j + 1] = [len |-> Start(n + (j + 1)) - a, count |-> j + 1]
      OBVIOUS
    <2>1. /\ j + 1 \in 1 .. count /\ (j + 1) - 1 = j /\ j \in 0 .. c - 1 /\ j \in 0 .. c
          /\ n + (j + 1) = (n + j) + 1 /\ n + j \in 1 .. Len(Routine)
      BY <1>2, ProgramIs
    <2>2. go[j] = [len |-> Start(n + j) - a, count |-> j]
      BY <1>16, <2>1
    <2>3. go[j + 1] = Decoded(go[j], j + 1)
      BY <1>14, <2>1
    <2> DEFINE i == Program[n + j]
    <2>4. Start(n + j) \in Nat /\ a + (Start(n + j) - a) = Start(n + j)
      <3>1. Start(n + j) \in Nat
        BY <1>4, <2>1
      <3>2. \A x, y \in Nat : x + (y - x) = y
        OBVIOUS
      <3> QED
        BY <1>5, <3>1, <3>2
    <2>5. i \in Instrs /\ i.kind \notin {"pointer", "data"}
      BY <2>1, ProgramIs
    <2>6. Stands(m, Start(n + j), i)
      BY <2>1
    <2>7. m[Start(n + j)].of = i /\ Decodes(m, Start(n + j))
      BY <2>4, <2>5, <2>6, StandsDecodes
    <2>8. ~(Start(n + j) - a >= len)
      <3>1. Start(n + j) - a < len
        BY <2>1
      <3>2. \A x \in Int : x < len => ~(x >= len)
        OBVIOUS
      <3> QED
        BY <1>5, <2>4, <3>1, <3>2
    <2>9. Start((n + j) + 1) = Start(n + j) + i.len /\ i.len \in Nat
      BY <1>3, <2>1, Starts
    <2>10. Decoded(go[j], j + 1) = [len |-> (Start(n + j) - a) + i.len, count |-> j + 1]
      <3> HIDE DEF i
      <3> QED BY <2>2, <2>4, <2>7, <2>8
    <2>11. (Start(n + j) - a) + i.len = Start(n + (j + 1)) - a
      <3>1. Start(n + (j + 1)) = Start(n + j) + i.len
        BY <2>1, <2>9
      <3>2. \A x, y, z \in Nat : (y - x) + z = (y + z) - x
        OBVIOUS
      <3> HIDE DEF i
      <3> QED
        BY <1>5, <2>4, <2>9, <3>1, <3>2
    <2> QED
      BY <2>3, <2>10, <2>11
  <1>17. go[c] = [len |-> Start(n + c) - a, count |-> c]
    <2> HIDE DEF S
    <2>1. c \in S
      BY <1>15, <1>16, SetInduction
    <2> QED
      BY <2>1 DEF S
  <1>18. 0 \in T
    BY <1>17
  <1>19. ASSUME NEW j \in Nat, j \in T PROVE j + 1 \in T
    <2> SUFFICES ASSUME c + (j + 1) <= count
                 PROVE  go[c + (j + 1)] = [len |-> Start(n + c) - a, count |-> c]
      OBVIOUS
    <2>1. c + (j + 1) \in 1 .. count /\ (c + (j + 1)) - 1 = c + j /\ c + j <= count /\ c # count
      OBVIOUS
    <2>2. go[c + j] = [len |-> Start(n + c) - a, count |-> c]
      BY <1>19, <2>1
    <2>3. Start(n + c) - a >= len
      BY <2>1
    <2> DEFINE x == Start(n + c) - a
    <2>4. go[c + (j + 1)] = Decoded(go[c + j], c + (j + 1))
      BY <1>14, <2>1
    <2> HIDE DEF x
    <2>5. Decoded([len |-> x, count |-> c], c + (j + 1)) = [len |-> x, count |-> c]
      BY <2>3 DEF x
    <2> QED
      BY <2>2, <2>4, <2>5 DEF x
  <1> HIDE DEF T
  <1>20. count - c \in Nat /\ c + (count - c) = count
    OBVIOUS
  <1>21. count - c \in T
    BY <1>18, <1>19, <1>20, SetInduction
  <1>22. go[count] = [len |-> Start(n + c) - a, count |-> c]
    BY <1>20, <1>21 DEF T
  <1> QED
    BY <1>1, <1>22

\* The instructions of a window stand where the routine has them.
WindowStands(m, r) == \A n \in Window(r) : Stands(m, Start(n), Program[n])

\* The distance the disassembler finds is that to the end of the window.
LEMMA WindowDisassembled ==
  ASSUME NEW m \in Memories, NEW r, WindowIs(r), WindowStands(m, r),
         NEW len \in Nat, NEW count \in Nat, Count(r) <= count,
         \A k \in 0 .. Count(r) - 1 : Start(First(r) + k) - Start(First(r)) < len,
         End(r) - r.site >= len \/ Count(r) = count
  PROVE  Disassembled(m, r.site, len, count) = [len |-> End(r) - r.site, count |-> Count(r)]
PROOF
  <1> DEFINE n == First(r)
             c == Count(r)
  <1>1. /\ n \in 1 .. Len(Routine) /\ Start(n) = r.site /\ c \in Nat
        /\ n + c <= Len(Program) /\ End(r) = Start(n + c)
    BY DEF WindowIs, End
  <1>2. c \in 0 .. count
    BY <1>1
  <1>3. ASSUME NEW k \in 0 .. c - 1
        PROVE  /\ Stands(m, Start(n + k), Program[n + k])
               /\ Start(n + k) - Start(n) < len
    <2>1. n + k \in Window(r)
      BY <1>1 DEF Window
    <2> QED
      BY <2>1 DEF WindowStands
  <1>4. Start(n + c) - Start(n) >= len \/ c = count
    BY <1>1
  <1> HIDE DEF n, c
  <1>5. Disassembled(m, Start(n), len, count) = [len |-> Start(n + c) - Start(n), count |-> c]
    BY <1>1, <1>2, <1>3, <1>4, DisassembledIs
  <1> QED
    BY <1>1, <1>5 DEF n, c

LEMMA MinHookLength == MIN_HOOK_LENGTH \in Nat /\ MIN_HOOK_LENGTH >= 5
PROOF
  BY HookConstants DEF MIN_HOOK_LENGTH

LEMMA WithinWindow ==
  ASSUME NEW r, WindowIs(r), NEW k \in 0 .. Count(r) - 1
  PROVE  /\ Start(First(r) + k) \in Nat
         /\ Start(First(r) + k) >= r.site
         /\ Start(First(r) + k) <= Start(First(r) + Count(r) - 1)
         /\ Start(First(r) + k) < End(r)
PROOF
  <1> DEFINE n == First(r)
             c == Count(r)
             P == Len(Program)
  <1>1. /\ n \in 1 .. Len(Routine) /\ Start(n) = r.site /\ c \in Nat /\ c > 0
        /\ n + c \in 1 .. P /\ End(r) = Start(n + c)
    BY DEF WindowIs, End
  <1>2. P \in Nat /\ P = Len(Routine) + 1
    BY ProgramIs
  <1>3. k \in 0 .. c - 1
    OBVIOUS
  <1> HIDE DEF n, c, P
  <1>4. /\ n \in 1 .. P + 1 /\ n + k \in 1 .. P + 1 /\ n + c - 1 \in 1 .. P + 1 /\ n + c \in 1 .. P + 1
        /\ n + k < n + c
        /\ n + k = n \/ n < n + k
        /\ n + k = n + c - 1 \/ n + k < n + c - 1
    BY <1>1, <1>2, <1>3
  <1>5. \A i \in 1 .. P + 1 : Start(i) \in Nat
    BY Starts DEF P
  <1>6. \A i, j \in 1 .. P + 1 : i < j => Start(i) < Start(j)
    BY Starts DEF P
  <1>7. Start(n + k) \in Nat /\ Start(n) \in Nat /\ Start(n + c - 1) \in Nat /\ Start(n + c) \in Nat
    BY <1>4, <1>5
  <1>8. Start(n + k) < Start(n + c)
    BY <1>4, <1>6
  <1>9. n + k = n \/ Start(n) < Start(n + k)
    BY <1>4, <1>6
  <1>10. n + k = n + c - 1 \/ Start(n + k) < Start(n + c - 1)
    BY <1>4, <1>6
  <1>11. Start(n + k) >= Start(n)
    BY <1>7, <1>9
  <1>12. Start(n + k) <= Start(n + c - 1)
    BY <1>7, <1>10
  <1> QED
    BY <1>1, <1>7, <1>8, <1>11, <1>12 DEF n, c

\* hookLen is the length of the window, which has room for the transfer.
LEMMA HookLensIs ==
  ASSUME NEW m \in Memories, NEW r, WindowIs(r), r.kind # "nop", WindowStands(m, r)
  PROVE  /\ HookLens(m, r.site) = {End(r) - r.site}
         /\ End(r) - r.site >= MIN_HOOK_LENGTH
PROOF
  <1> DEFINE n == First(r)
             c == Count(r)
             M == MIN_HOOK_LENGTH
  <1>1. /\ n \in 1 .. Len(Routine) /\ Start(n) = r.site /\ c \in Nat /\ c > 0
        /\ n + c \in 1 .. Len(Program) /\ End(r) = Start(n + c) /\ r.site \in Nat /\ End(r) \in Nat
    BY DEF WindowIs, End
  <1>2. Start(n + c - 1) < r.site + M /\ Start(n + c) >= r.site + M
    BY DEF WindowIs, Takes
  <1>3. M \in Nat
    BY MinHookLength
  <1>4. End(r) - r.site >= M
    BY <1>1, <1>2, <1>3
  <1>5. c <= M
    <2>1. c - 1 \in Nat /\ n \in 1 .. Len(Program) /\ n + (c - 1) <= Len(Program) + 1 /\ n + (c - 1) = n + c - 1
      BY <1>1, ProgramIs
    <2>2. Start(n) + (c - 1) <= Start(n + c - 1)
      <3> HIDE DEF n, c
      <3> QED BY <2>1, StartsSpread
    <2>3. n + c - 1 \in 1 .. Len(Program) + 1
      BY <1>1, ProgramIs
    <2>4. Start(n + c - 1) \in Nat
      BY <2>3, Starts
    <2> HIDE DEF n, c, M
    <2> QED
      BY <1>1, <1>2, <1>3, <2>2, <2>4
  <1>6. ASSUME NEW k \in 0 .. c - 1 PROVE Start(n + k) - Start(n) < M
    <2>1. Start(n + k) \in Nat /\ Start(n + k) <= Start(n + c - 1)
      BY WithinWindow
    <2>2. n + c - 1 \in 1 .. Len(Program) + 1
      BY <1>1, ProgramIs
    <2>3. Start(n + c - 1) \in Nat
      BY <2>2, Starts
    <2> HIDE DEF n, c, M
    <2> QED
      BY <1>1, <1>2, <1>3, <2>1, <2>3
  <1>7. Disassembled(m, r.site, M, M) = [len |-> End(r) - r.site, count |-> c]
    <2> HIDE DEF M
    <2> QED BY <1>3, <1>4, <1>5, <1>6, WindowDisassembled
  <1>8. Disassembled(m, r.site, M, M).len = End(r) - r.site
    BY <1>7
  <1> QED
    BY <1>4, <1>8 DEF HookLens

\* nopLen, too, and the instructions go on after it.
LEMMA NopLensIs ==
  ASSUME NEW m \in Memories, NEW r, WindowIs(r), r.kind = "nop", WindowStands(m, r)
  PROVE  /\ NopLens(m, r.site, r.count) = {End(r) - r.site}
         /\ After(r.site, r.count) = End(r)
PROOF
  <1> DEFINE n == First(r)
             c == Count(r)
  <1>1. /\ n \in 1 .. Len(Routine) /\ Start(n) = r.site /\ c \in Nat /\ c > 0
        /\ n + c \in 1 .. Len(Program) /\ End(r) = Start(n + c) /\ c = r.count
    BY DEF WindowIs, End, Takes
  <1>2. Top \in Nat
    BY HookConstants
  <1>3. Len(Program) \in Nat /\ n + c \in 1 .. Len(Program) + 1 /\ Len(Program) + 1 \in 1 .. Len(Program) + 1
        /\ n + c < Len(Program) + 1
    BY <1>1, ProgramIs
  <1>4. Start(n + c) < Start(Len(Program) + 1) /\ Start(Len(Program) + 1) <= Top
    BY <1>3, Starts
  <1>5. Start(n + c) \in Nat /\ Start(Len(Program) + 1) \in Nat /\ r.site \in Nat
    BY <1>3, Starts DEF WindowIs
  <1>6. Start(n + c) < Top
    BY <1>2, <1>4, <1>5
  <1>7. ASSUME NEW k \in 0 .. c - 1 PROVE Start(n + k) - Start(n) < Top
    <2>1. Start(n + k) \in Nat /\ Start(n + k) < End(r)
      BY WithinWindow
    <2> HIDE DEF n, c
    <2> QED
      BY <1>1, <1>2, <1>5, <1>6, <2>1
  <1>8. Disassembled(m, r.site, Top, r.count) = [len |-> End(r) - r.site, count |-> c]
    BY <1>1, <1>2, <1>7, WindowDisassembled
  <1>9. NopLens(m, r.site, r.count) = {End(r) - r.site}
    <2>1. /\ Disassembled(m, r.site, Top, r.count).count = r.count
          /\ Disassembled(m, r.site, Top, r.count).len = End(r) - r.site
      BY <1>1, <1>8
    <2> QED
      BY <2>1 DEF NopLens
  <1>10. After(r.site, r.count) = End(r)
    BY <1>1 DEF After, End, First
  <1> QED
    BY <1>9, <1>10

\* The instructions of a hook's window, as one code.
LEMMA OriginalIs ==
  ASSUME NEW r, WindowIs(r)
  PROVE  /\ Original(r) \in Seq(Instrs)
         /\ Len(Original(r)) = Count(r)
         /\ \A k \in 1 .. Count(r) :
              /\ First(r) + k - 1 \in Window(r)
              /\ Original(r)[k] = Program[First(r) + k - 1]
         /\ \A k \in 0 .. Count(r) :
              Start(First(r) + k) = r.site + Len(CodeUpTo(Original(r))[k])
         /\ Len(Code(Original(r))) = End(r) - r.site
         /\ \A m : WindowStands(m, r) => Holds(m, r.site, Code(Original(r)))
PROOF
  <1> DEFINE n == First(r)
             c == Count(r)
             W == Original(r)
  <1>1. /\ n \in 1 .. Len(Routine) /\ Start(n) = r.site /\ c \in Nat /\ c > 0
        /\ n + c \in 1 .. Len(Program) /\ End(r) = Start(n + c) /\ r.site \in Nat /\ End(r) \in Nat
    BY DEF WindowIs, End
  <1>2. W = [k \in 1 .. c |-> Routine[n + k - 1]]
    BY DEF Original
  <1>3. ASSUME NEW k \in 1 .. c
        PROVE  /\ n + k - 1 \in DOMAIN Routine /\ n + k - 1 \in Window(r)
               /\ Routine[n + k - 1] \in Instrs /\ Program[n + k - 1] = Routine[n + k - 1]
    <2>1. n + k - 1 \in DOMAIN Routine
      BY <1>1, ProgramIs
    <2>2. n + k - 1 \in Window(r)
      BY <1>1 DEF Window
    <2> QED
      BY <2>1, <2>2, ProgramIs
  <1>4. W \in [1 .. c -> Instrs]
    BY <1>2, <1>3
  <1>5. W \in Seq(Instrs) /\ Len(W) = c
    BY <1>1, <1>4
  <1>6. \A k \in 1 .. c : W[k] = Program[n + k - 1]
    BY <1>2, <1>3
  <1> HIDE DEF W, n, c
  <1>7. ASSUME NEW k \in 0 .. c PROVE Start(n + k) = r.site + Len(CodeUpTo(W)[k])
    <2> DEFINE f == n - 1
    <2>1. f \in Nat /\ f + Len(W) <= Len(Program) /\ Program \in Seq(Instrs)
      BY <1>1, <1>5, ProgramIs
    <2>2. \A j \in 1 .. Len(W) : W[j] = Program[f + j]
      <3> SUFFICES ASSUME NEW j \in 1 .. Len(W) PROVE W[j] = Program[f + j]
        OBVIOUS
      <3>1. f + j = n + j - 1
        BY <1>1, <1>5
      <3> QED
        BY <1>5, <1>6, <3>1
    <2>3. f = n - 1 /\ (n + k) - 1 = f + k
      BY <1>1
    <2> HIDE DEF f
    <2>4. Len(CodeUpTo(Program)[f + k]) = Len(CodeUpTo(Program)[f]) + Len(CodeUpTo(W)[k])
      BY <1>5, <2>1, <2>2, CodeWithin
    <2>5. Start(n + k) = Base + Len(CodeUpTo(Program)[f + k])
      BY <2>3 DEF Start
    <2>6. Start(n) = Base + Len(CodeUpTo(Program)[f])
      BY <2>3 DEF Start
    <2>7. Len(CodeUpTo(Program)[f]) \in Nat
      <3>1. f \in 0 .. Len(Program)
        BY <1>5, <1>1, <2>1
      <3> QED
        BY <2>1, <3>1, CodeType
    <2>8. Len(CodeUpTo(W)[k]) \in Nat /\ Base \in Nat
      BY <1>5, CodeType, HookConstants
    <2>9. \A x, y, z \in Nat : x + (y + z) = (x + y) + z
      OBVIOUS
    <2>10. r.site = Base + Len(CodeUpTo(Program)[f])
      BY <1>1, <2>6
    <2>11. Base + (Len(CodeUpTo(Program)[f]) + Len(CodeUpTo(W)[k]))
             = (Base + Len(CodeUpTo(Program)[f])) + Len(CodeUpTo(W)[k])
      BY <2>7, <2>8, <2>9
    <2> QED
      BY <2>4, <2>5, <2>10, <2>11
  <1>8. Len(Code(W)) = End(r) - r.site
    <2>1. Code(W) = CodeUpTo(W)[c] /\ c \in 0 .. c
      BY <1>1, <1>5 DEF Code
    <2>2. Start(n + c) = r.site + Len(CodeUpTo(W)[c])
      BY <1>7, <2>1
    <2>3. Len(Code(W)) \in Nat
      BY <1>5, CodeType
    <2> QED
      BY <1>1, <2>1, <2>2, <2>3
  <1>9. ASSUME NEW m, WindowStands(m, r) PROVE Holds(m, r.site, Code(W))
    <2>1. ASSUME NEW k \in 1 .. Len(W) PROVE Stands(m, r.site + Len(CodeUpTo(W)[k - 1]), W[k])
      <3>1. k \in 1 .. c /\ k - 1 \in 0 .. c /\ n + (k - 1) = n + k - 1
        BY <1>1, <1>5
      <3>2. Start(n + k - 1) = r.site + Len(CodeUpTo(W)[k - 1])
        BY <1>7, <3>1
      <3>3. Stands(m, Start(n + k - 1), Program[n + k - 1])
        BY <1>3, <1>9, <3>1 DEF WindowStands
      <3> QED
        BY <1>6, <3>1, <3>2, <3>3
    <2> QED
      BY <1>1, <1>5, <2>1, CodeHolds
  <1> QED
    BY <1>3, <1>5, <1>6, <1>7, <1>8, <1>9 DEF W, n, c

-----------------------------------------------------------------------------
(* What the plan asks for.                                                  *)

Marks == [run : Seq(Acts), to : 0 .. Top]

\* A plan leads forward.
PlanIs(p) ==
  \A a \in DOMAIN p : /\ a \in 0 .. Top - 1
                      /\ p[a].run \in Seq(Acts)
                      /\ p[a].to \in a + 1 .. Top

\* Follow's recursion, which stops at b when Done.
FollowBody(p, Done) ==
  [b \in 0 .. Top |-> [g \in [0 .. Top -> Marks] |->
     IF Done[b] THEN [run |-> <<>>, to |-> b]
     ELSE [run |-> p[b].run \o g[p[b].to].run, to |-> g[p[b].to].to]]]

Stops(p, a, len) == [b \in 0 .. Top |-> b >= a + len \/ b \notin DOMAIN p]

LEMMA FollowUpwards ==
  ASSUME NEW p, PlanIs(p), NEW Done \in [0 .. Top -> BOOLEAN],
         \A b \in 0 .. Top : ~Done[b] => b \in DOMAIN p
  PROVE  Upwards(Top, Marks, FollowBody(p, Done))
PROOF
  <1> DEFINE F == [0 .. Top -> Marks]
             body == FollowBody(p, Done)
             E(b, g) == IF Done[b] THEN [run |-> <<>>, to |-> b]
                        ELSE [run |-> p[b].run \o g[p[b].to].run, to |-> g[p[b].to].to]
  <1>1. Top \in Nat
    BY HookConstants
  <1>2. ASSUME NEW b \in 0 .. Top, ~Done[b]
        PROVE  p[b].run \in Seq(Acts) /\ p[b].to \in b + 1 .. Top /\ p[b].to \in 0 .. Top
    BY <1>1, <1>2 DEF PlanIs
  <1>3. ASSUME NEW b \in 0 .. Top, NEW g \in F PROVE E(b, g) \in Marks
    <2>1. CASE Done[b]
      <3>1. <<>> \in Seq(Acts)
        OBVIOUS
      <3> QED
        BY <2>1, <3>1 DEF Marks
    <2>2. CASE ~Done[b]
      <3>1. g[p[b].to] \in Marks
        BY <1>2, <2>2
      <3> DEFINE x == p[b].run
                 y == g[p[b].to].run
      <3>2. x \in Seq(Acts) /\ y \in Seq(Acts) /\ g[p[b].to].to \in 0 .. Top
        BY <1>2, <2>2, <3>1 DEF Marks
      <3>3. x \o y \in Seq(Acts)
        <4> HIDE DEF x, y
        <4> QED BY <3>2
      <3> QED
        BY <2>2, <3>2, <3>3 DEF Marks
    <2> QED
      BY <2>1, <2>2
  <1>4. body = [b \in 0 .. Top |-> [g \in F |-> E(b, g)]]
    BY DEF FollowBody
  <1>5. ASSUME NEW b \in 0 .. Top, NEW g \in F, NEW h \in F,
               \A c \in b + 1 .. Top : g[c] = h[c]
        PROVE  E(b, g) = E(b, h)
    <2>1. CASE Done[b]
      BY <2>1
    <2>2. CASE ~Done[b]
      BY <1>2, <1>5, <2>2
    <2> QED
      BY <2>1, <2>2
  <1> HIDE DEF E, F, body
  <1>6. \A b \in 0 .. Top, g \in F : body[b][g] = E(b, g)
    BY <1>4
  <1>7. body \in [0 .. Top -> [F -> Marks]]
    BY <1>3, <1>4
  <1>8. ASSUME NEW b \in 0 .. Top, NEW g \in F, NEW h \in F,
               \A c \in b + 1 .. Top : g[c] = h[c]
        PROVE  body[b][g] = body[b][h]
    BY <1>5, <1>6, <1>8
  <1> QED
    BY <1>7, <1>8 DEF Upwards, F, body

\* The function inside Follow.
LEMMA FollowSolves ==
  ASSUME NEW p, PlanIs(p), NEW a \in Nat, NEW len \in Nat
  PROVE  \E go : /\ Solves(go, Top, Marks, FollowBody(p, Stops(p, a, len)))
                 /\ Follow(p, a, len) = go[a]
PROOF
  <1> DEFINE D == Stops(p, a, len)
             body == FollowBody(p, D)
             P(g) == g = [b \in 0 .. Top |->
                            IF b >= a + len \/ b \notin DOMAIN p THEN [run |-> <<>>, to |-> b]
                            ELSE LET rest == g[p[b].to]
                                 IN [run |-> p[b].run \o rest.run, to |-> rest.to]]
             go == CHOOSE g : P(g)
             E(b, g) == IF D[b] THEN [run |-> <<>>, to |-> b]
                        ELSE [run |-> p[b].run \o g[p[b].to].run, to |-> g[p[b].to].to]
  <1>1. Top \in Nat
    BY HookConstants
  <1>2. Follow(p, a, len) = go[a]
    BY DEF Follow
  <1>3. D \in [0 .. Top -> BOOLEAN] /\ \A b \in 0 .. Top : D[b] <=> b >= a + len \/ b \notin DOMAIN p
    BY DEF Stops
  <1> HIDE DEF D
  <1>4. Upwards(Top, Marks, body)
    BY <1>3, FollowUpwards
  <1>5. [run |-> <<>>, to |-> 0] \in Marks
    BY <1>1 DEF Marks
  <1>6. PICK f : Solves(f, Top, Marks, body)
    <2> HIDE DEF body
    <2> QED BY <1>1, <1>4, <1>5, UpwardRecursion
  <1>7. ASSUME NEW g \in [0 .. Top -> Marks], NEW b \in 0 .. Top PROVE body[b][g] = E(b, g)
    BY DEF FollowBody
  <1>8. ASSUME NEW g, NEW b \in 0 .. Top
        PROVE  E(b, g) = IF b >= a + len \/ b \notin DOMAIN p THEN [run |-> <<>>, to |-> b]
                         ELSE LET rest == g[p[b].to]
                              IN [run |-> p[b].run \o rest.run, to |-> rest.to]
    BY <1>3
  <1>9. P(f)
    <2>1. f \in [0 .. Top -> Marks]
      BY <1>6 DEF Solves
    <2>2. \A b \in 0 .. Top : f[b] = E(b, f)
      <3> HIDE DEF E, body
      <3> QED BY <1>6, <1>7, <2>1 DEF Solves
    <2> QED
      BY <1>8, <2>1, <2>2
  <1>10. P(go)
    <2> HIDE DEF P
    <2> QED BY <1>9
  <1> HIDE DEF go
  <1>11. go = [b \in 0 .. Top |-> go[b]] /\ \A b \in 0 .. Top : go[b] = E(b, go)
    BY <1>8, <1>10
  <1> DEFINE S == {m \in Nat : \A b \in 0 .. Top : b > Top - m => go[b] \in Marks}
  <1>12. 0 \in S
    BY <1>1
  <1>13. ASSUME NEW m \in Nat, m \in S PROVE m + 1 \in S
    <2> SUFFICES ASSUME NEW b \in 0 .. Top, b > Top - (m + 1) PROVE go[b] \in Marks
      OBVIOUS
    <2>1. go[b] = E(b, go)
      BY <1>11
    <2>2. CASE D[b]
      <3>1. <<>> \in Seq(Acts)
        OBVIOUS
      <3> QED
        BY <2>1, <2>2, <3>1 DEF Marks
    <2>3. CASE ~D[b]
      <3>1. p[b].run \in Seq(Acts) /\ p[b].to \in b + 1 .. Top
        BY <1>3, <2>3 DEF PlanIs
      <3>2. p[b].to \in 0 .. Top /\ p[b].to > Top - m
        BY <1>1, <3>1
      <3>3. go[p[b].to] \in Marks
        BY <1>13, <3>2
      <3> DEFINE x == p[b].run
                 y == go[p[b].to].run
      <3>4. x \in Seq(Acts) /\ y \in Seq(Acts) /\ go[p[b].to].to \in 0 .. Top
        BY <3>1, <3>3 DEF Marks
      <3>5. x \o y \in Seq(Acts)
        <4> HIDE DEF x, y
        <4> QED BY <3>4
      <3>6. [run |-> x \o y, to |-> go[p[b].to].to] \in Marks
        <4> HIDE DEF x, y
        <4> QED BY <3>4, <3>5 DEF Marks
      <3>7. E(b, go) = [run |-> x \o y, to |-> go[p[b].to].to]
        BY <2>3
      <3> QED
        BY <2>1, <3>6, <3>7
    <2> QED
      BY <2>2, <2>3
  <1>14. \A b \in 0 .. Top : go[b] \in Marks
    <2>1. Top + 1 \in S
      <3> HIDE DEF S
      <3> QED BY <1>1, <1>12, <1>13, SetInduction
    <2> QED
      BY <1>1, <2>1
  <1>15. go \in [0 .. Top -> Marks]
    BY <1>11, <1>14
  <1>16. Solves(go, Top, Marks, body)
    <2> HIDE DEF E, body
    <2> QED BY <1>7, <1>11, <1>15 DEF Solves
  <1> QED
    BY <1>2, <1>16 DEF D

\* What is asked of a thread that comes to a.
AskedFrom(p, a) == Follow(p, a, Top).run

LEMMA AskedIs ==
  ASSUME NEW p, PlanIs(p), NEW a \in 0 .. Top
  PROVE  /\ AskedFrom(p, a) \in Seq(Acts)
         /\ a \notin DOMAIN p => AskedFrom(p, a) = <<>>
         /\ a \in DOMAIN p => /\ p[a].to \in 0 .. Top
                              /\ p[a].run \in Seq(Acts)
                              /\ AskedFrom(p, a) = p[a].run \o AskedFrom(p, p[a].to)
PROOF
  <1> DEFINE D == [b \in 0 .. Top |-> b \notin DOMAIN p]
             body == FollowBody(p, D)
  <1>1. Top \in Nat
    BY HookConstants
  <1>2. ASSUME NEW c \in 0 .. Top PROVE Stops(p, c, Top) = D
    <2>1. \A b \in 0 .. Top : (b >= c + Top \/ b \notin DOMAIN p) <=> b \notin DOMAIN p
      BY <1>1 DEF PlanIs
    <2> QED
      BY <2>1 DEF Stops
  <1>3. ASSUME NEW c \in 0 .. Top
        PROVE  \E go : Solves(go, Top, Marks, body) /\ Follow(p, c, Top) = go[c]
    <2>1. c \in Nat
      OBVIOUS
    <2>2. PICK go : /\ Solves(go, Top, Marks, FollowBody(p, Stops(p, c, Top)))
                    /\ Follow(p, c, Top) = go[c]
      BY <1>1, <2>1, FollowSolves
    <2>3. FollowBody(p, Stops(p, c, Top)) = body
      BY <1>2
    <2> QED
      BY <2>2, <2>3
  <1>4. \A b \in 0 .. Top : D[b] <=> b \notin DOMAIN p
    OBVIOUS
  <1>5. D \in [0 .. Top -> BOOLEAN]
    OBVIOUS
  <1> HIDE DEF D
  <1>6. Upwards(Top, Marks, body)
    BY <1>4, <1>5, FollowUpwards
  <1>7. PICK go : Solves(go, Top, Marks, body) /\ Follow(p, a, Top) = go[a]
    BY <1>3
  <1>8. go[a] \in Marks
    BY <1>7 DEF Solves
  <1>9. go[a] = body[a][go]
    BY <1>7 DEF Solves
  <1>10. body[a][go] = IF D[a] THEN [run |-> <<>>, to |-> a]
                       ELSE [run |-> p[a].run \o go[p[a].to].run, to |-> go[p[a].to].to]
    BY <1>7 DEF Solves, FollowBody
  <1>11. AskedFrom(p, a) \in Seq(Acts)
    BY <1>7, <1>8 DEF AskedFrom, Marks
  <1>12. CASE a \notin DOMAIN p
    <2>1. go[a] = [run |-> <<>>, to |-> a]
      BY <1>4, <1>9, <1>10, <1>12
    <2>2. go[a].run = <<>>
      BY <2>1
    <2>3. AskedFrom(p, a) = <<>>
      BY <1>7, <2>2 DEF AskedFrom
    <2> QED
      BY <1>11, <1>12, <2>3
  <1>13. CASE a \in DOMAIN p
    <2> DEFINE c == p[a].to
    <2>1. c \in 0 .. Top /\ p[a].run \in Seq(Acts)
      BY <1>1, <1>13 DEF PlanIs
    <2>2. go[a].run = p[a].run \o go[c].run
      <3>1. go[a] = [run |-> p[a].run \o go[c].run, to |-> go[c].to]
        <4> HIDE DEF body
        <4> QED BY <1>4, <1>9, <1>10, <1>13
      <3> DEFINE x == p[a].run \o go[c].run
                 y == go[c].to
      <3>2. go[a] = [run |-> x, to |-> y]
        BY <3>1
      <3> HIDE DEF x, y
      <3>3. go[a].run = x
        BY <3>2
      <3> QED
        BY <3>3 DEF x
    <2> HIDE DEF c
    <2>3. PICK h : Solves(h, Top, Marks, body) /\ Follow(p, c, Top) = h[c]
      BY <1>3, <2>1
    <2>4. h[c] = go[c]
      <3> HIDE DEF body
      <3> QED BY <1>1, <1>6, <1>7, <2>1, <2>3, UpwardUnique
    <2>5. AskedFrom(p, a) = p[a].run \o AskedFrom(p, c)
      BY <1>7, <2>2, <2>3, <2>4 DEF AskedFrom
    <2> QED
      BY <1>11, <1>13, <2>1, <2>5 DEF c
  <1> QED
    BY <1>12, <1>13

\* What the instructions of L do, and those after the first k.
NamesOf(L) == [k \in 1 .. Len(L) |-> L[k].arg]
NamesFrom(L, k) == [j \in 1 .. Len(L) - k |-> L[k + j].arg]

LEMMA NamesType ==
  ASSUME NEW L \in Seq(Instrs)
  PROVE  /\ NamesOf(L) \in Seq(Acts) /\ Len(NamesOf(L)) = Len(L)
         /\ NamesFrom(L, 0) = NamesOf(L)
         /\ NamesFrom(L, Len(L)) = <<>>
         /\ \A k \in 0 .. Len(L) : /\ NamesFrom(L, k) \in Seq(Acts)
                                   /\ Len(NamesFrom(L, k)) = Len(L) - k
         /\ \A k \in 0 .. Len(L) - 1 :
              NamesFrom(L, k) = <<L[k + 1].arg>> \o NamesFrom(L, k + 1)
PROOF
  <1> DEFINE N == Len(L)
  <1>1. N \in Nat
    OBVIOUS
  <1>2. \A k \in 1 .. N : L[k].arg \in Acts
    <2>1. \A k \in 1 .. N : L[k] \in Instrs
      OBVIOUS
    <2> QED
      BY <2>1 DEF Instrs
  <1> HIDE DEF N
  <1>3. ASSUME NEW k \in 0 .. N
        PROVE  /\ NamesFrom(L, k) \in Seq(Acts) /\ Len(NamesFrom(L, k)) = N - k
               /\ \A j \in 1 .. N - k : NamesFrom(L, k)[j] = L[k + j].arg
    <2>1. \A j \in 1 .. N - k : k + j \in 1 .. N
      BY <1>1
    <2>2. NamesFrom(L, k) = [j \in 1 .. N - k |-> L[k + j].arg]
      BY DEF NamesFrom, N
    <2>3. NamesFrom(L, k) \in [1 .. N - k -> Acts]
      BY <1>2, <2>1, <2>2
    <2>4. N - k \in Nat
      BY <1>1
    <2> DEFINE x == N - k
               t == NamesFrom(L, k)
    <2>5. t \in [1 .. x -> Acts] /\ x \in Nat
      BY <2>3, <2>4
    <2> HIDE DEF x, t
    <2>6. t \in Seq(Acts) /\ Len(t) = x
      BY <2>5
    <2> QED
      BY <2>2, <2>6 DEF x, t
  <1>4. NamesFrom(L, 0) = NamesOf(L)
    <2>1. \A j \in 1 .. N : 0 + j = j
      OBVIOUS
    <2>2. N - 0 = N
      BY <1>1
    <2> QED
      BY <2>1, <2>2 DEF NamesFrom, NamesOf, N
  <1>5. 0 \in 0 .. N /\ N \in 0 .. N /\ N - 0 = N /\ N - N = 0
    BY <1>1
  <1>6. NamesOf(L) \in Seq(Acts) /\ Len(NamesOf(L)) = N
    BY <1>3, <1>4, <1>5
  <1>7. NamesFrom(L, N) = <<>>
    BY <1>3, <1>5
  <1>8. ASSUME NEW k \in 0 .. N - 1
        PROVE  NamesFrom(L, k) = <<L[k + 1].arg>> \o NamesFrom(L, k + 1)
    <2> DEFINE x == L[k + 1].arg
               one == <<x>>
               rest == NamesFrom(L, k + 1)
               all == NamesFrom(L, k)
    <2>1. k \in 0 .. N /\ k + 1 \in 0 .. N /\ k + 1 \in 1 .. N
      BY <1>1
    <2>2. /\ rest \in Seq(Acts) /\ Len(rest) = N - (k + 1)
          /\ \A j \in 1 .. N - (k + 1) : rest[j] = L[(k + 1) + j].arg
      BY <1>3, <2>1
    <2>3. /\ all \in Seq(Acts) /\ Len(all) = N - k
          /\ \A j \in 1 .. N - k : all[j] = L[k + j].arg
      BY <1>3, <2>1
    <2>4. x \in Acts
      BY <1>2, <2>1
    <2> HIDE DEF x, rest, all
    <2>5. one \in Seq(Acts) /\ Len(one) = 1 /\ one[1] = x
      BY <2>4
    <2> HIDE DEF one
    <2>6. /\ one \o rest \in Seq(Acts) /\ Len(one \o rest) = Len(all)
          /\ (one \o rest)[1] = x
          /\ \A j \in 1 .. Len(rest) : (one \o rest)[1 + j] = rest[j]
      <3>1. Len(rest) + 1 = Len(all)
        BY <1>1, <2>2, <2>3
      <3>2. rest \in Seq(Acts)
        BY <2>2
      <3>3. /\ one \o rest \in Seq(Acts) /\ Len(one \o rest) = Len(one) + Len(rest)
            /\ \A j \in 1 .. Len(one) : (one \o rest)[j] = one[j]
            /\ \A j \in 1 .. Len(rest) : (one \o rest)[Len(one) + j] = rest[j]
        BY <2>5, <3>2, OfNames
      <3>4. Len(rest) \in Nat
        BY <3>2
      <3> QED
        BY <2>5, <3>1, <3>3, <3>4
    <2>7. ASSUME NEW j \in 1 .. Len(all) PROVE all[j] = (one \o rest)[j]
      <3>1. CASE j = 1
        BY <2>3, <2>6, <3>1 DEF x
      <3>2. CASE j # 1
        <4>1. j - 1 \in 1 .. Len(rest) /\ 1 + (j - 1) = j /\ (k + 1) + (j - 1) = k + j
              /\ j - 1 \in 1 .. N - (k + 1) /\ j \in 1 .. N - k
          BY <1>1, <2>2, <2>3, <3>2
        <4>2. (one \o rest)[j] = rest[j - 1]
          BY <2>6, <4>1
        <4> QED
          BY <2>2, <2>3, <4>1, <4>2
      <3> QED
        BY <3>1, <3>2
    <2>8. all = one \o rest
      BY <2>3, <2>6, <2>7, SameSequence
    <2> QED
      BY <2>8 DEF all, one, rest, x
  <1> QED
    BY <1>3, <1>4, <1>6, <1>7, <1>8 DEF N

\* What is asked for is the window, as long as no request has been made for it.
LEMMA WindowFollowed ==
  ASSUME NEW p, PlanIs(p), NEW r, WindowIs(r), r.kind # "nop",
         \A n \in Window(r) :
           /\ Start(n) \in DOMAIN p
           /\ p[Start(n)] = [run |-> <<Routine[n].arg>>, to |-> Start(n + 1)]
  PROVE  Follow(p, r.site, MIN_HOOK_LENGTH) = [run |-> NamesOf(Original(r)), to |-> End(r)]
PROOF
  <1> DEFINE n == First(r)
             c == Count(r)
             W == Original(r)
             M == MIN_HOOK_LENGTH
             D == Stops(p, r.site, M)
             body == FollowBody(p, D)
  <1>1. /\ n \in 1 .. Len(Routine) /\ Start(n) = r.site /\ c \in Nat /\ c > 0
        /\ n + c \in 1 .. Len(Program) /\ End(r) = Start(n + c)
        /\ r.site \in Nat /\ End(r) \in Nat
    BY DEF WindowIs, End
  <1>2. Start(n + c - 1) < r.site + M /\ Start(n + c) >= r.site + M
    BY DEF WindowIs, Takes
  <1>3. M \in Nat /\ Top \in Nat
    BY MinHookLength, HookConstants
  <1>4. PICK go : Solves(go, Top, Marks, body) /\ Follow(p, r.site, M) = go[r.site]
    <2> HIDE DEF n, c, W, M
    <2>1. r.site \in Nat /\ M \in Nat
      BY <1>1, <1>3
    <2>2. \E go : /\ Solves(go, Top, Marks, FollowBody(p, Stops(p, r.site, M)))
                  /\ Follow(p, r.site, M) = go[r.site]
      BY ONLY <2>1, FollowSolves, PlanIs(p)
    <2> QED
      BY <2>2
  <1>5. ASSUME NEW b \in 0 .. Top
        PROVE  go[b] = IF b >= r.site + M \/ b \notin DOMAIN p THEN [run |-> <<>>, to |-> b]
                       ELSE [run |-> p[b].run \o go[p[b].to].run, to |-> go[p[b].to].to]
    <2>1. go[b] = body[b][go]
      BY <1>4 DEF Solves
    <2>2. body[b][go] = IF D[b] THEN [run |-> <<>>, to |-> b]
                        ELSE [run |-> p[b].run \o go[p[b].to].run, to |-> go[p[b].to].to]
      BY <1>4 DEF Solves, FollowBody
    <2>3. D[b] <=> b >= r.site + M \/ b \notin DOMAIN p
      BY DEF Stops
    <2> HIDE DEF D, body
    <2> QED
      BY <2>1, <2>2, <2>3
  <1>6. W \in Seq(Instrs) /\ Len(W) = c /\ \A k \in 1 .. c : n + k - 1 \in Window(r) /\ W[k] = Program[n + k - 1]
    BY OriginalIs
  <1>7. \A k \in 0 .. c - 1 : Start(n + k) \in Nat /\ Start(n + k) <= Start(n + c - 1)
    BY WithinWindow
  <1>8. Start(n + c) \in 0 .. Top /\ Start(n + c - 1) \in Nat
    <2>1. n + c \in 1 .. Len(Program) + 1 /\ n + c < Len(Program) + 1 /\ Len(Program) + 1 \in 1 .. Len(Program) + 1
      BY <1>1, ProgramIs
    <2>2. Start(n + c) \in Nat /\ Start(n + c) < Start(Len(Program) + 1) /\ Start(Len(Program) + 1) <= Top
          /\ Start(Len(Program) + 1) \in Nat
      BY <2>1, Starts
    <2>3. c - 1 \in 0 .. c - 1 /\ n + (c - 1) = n + c - 1
      BY <1>1
    <2>4. Start(n + c - 1) \in Nat
      BY <1>7, <2>3
    <2> QED
      BY <1>3, <2>2, <2>4
  <1> DEFINE S == {j \in Nat : j <= c =>
                     go[Start(n + (c - j))] = [run |-> NamesFrom(W, c - j), to |-> End(r)]}
  <1> HIDE DEF n, c, W, M, D, body
  <1>9. 0 \in S
    <2>1. c - 0 = c
      BY <1>1
    <2>2. go[Start(n + c)] = [run |-> <<>>, to |-> Start(n + c)]
      BY <1>2, <1>5, <1>8
    <2>3. NamesFrom(W, c) = <<>>
      BY <1>6, NamesType
    <2> QED
      BY <1>1, <2>1, <2>2, <2>3
  <1>10. ASSUME NEW j \in Nat, j \in S PROVE j + 1 \in S
    <2> SUFFICES ASSUME j + 1 <= c
                 PROVE  go[Start(n + (c - (j + 1)))] = [run |-> NamesFrom(W, c - (j + 1)), to |-> End(r)]
      OBVIOUS
    <2> DEFINE k == c - (j + 1)
    <2>1. k \in 0 .. c - 1 /\ c - j = k + 1 /\ k + 1 \in 1 .. c /\ n + (k + 1) - 1 = n + k /\ (n + k) + 1 = n + (k + 1)
      BY <1>1
    <2> HIDE DEF k
    <2>2. n + k \in Window(r) /\ W[k + 1] = Program[n + k]
      BY <1>6, <2>1
    <2>3. n + k \in DOMAIN Routine
      BY <2>2, ProgramIs DEF WindowIs
    <2>4. W[k + 1] = Routine[n + k]
      BY <2>2, <2>3, ProgramIs
    <2>5. p[Start(n + k)] = [run |-> <<Routine[n + k].arg>>, to |-> Start((n + k) + 1)]
      BY <2>2
    <2>6. Start(n + k) \in 0 .. Top /\ ~(Start(n + k) >= r.site + M) /\ Start(n + k) \in DOMAIN p
      <3>1. Start(n + k) \in DOMAIN p
        BY <2>2
      <3>2. Start(n + k) \in 0 .. Top
        BY <1>3, <3>1 DEF PlanIs
      <3>3. Start(n + k) <= Start(n + c - 1)
        BY <1>7, <2>1
      <3>4. \A x, y, z \in Nat : x <= y /\ y < z => ~(x >= z)
        OBVIOUS
      <3>5. r.site + M \in Nat /\ Start(n + k) \in Nat
        BY <1>1, <1>3, <3>2
      <3> QED
        BY <1>2, <1>8, <3>1, <3>2, <3>3, <3>4, <3>5
    <2>7. go[Start(n + (k + 1))] = [run |-> NamesFrom(W, k + 1), to |-> End(r)]
      <3>1. j <= c
        BY <1>1
      <3>2. go[Start(n + (c - j))] = [run |-> NamesFrom(W, c - j), to |-> End(r)]
        BY <1>10, <3>1
      <3> QED
        BY <2>1, <3>2
    <2>8. go[Start(n + k)] = [run |-> <<W[k + 1].arg>> \o NamesFrom(W, k + 1), to |-> End(r)]
      <3> DEFINE x == Start(n + k)
                 y == Start(n + (k + 1))
                 arg == W[k + 1].arg
                 rest == NamesFrom(W, k + 1)
      <3>1. p[x].run = <<arg>> /\ p[x].to = y
        BY <2>1, <2>4, <2>5
      <3>2. go[y].run = rest /\ go[y].to = End(r)
        BY <2>7
      <3>3. go[x] = [run |-> p[x].run \o go[p[x].to].run, to |-> go[p[x].to].to]
        BY <1>5, <2>6
      <3> HIDE DEF x, y, arg, rest
      <3>4. go[x] = [run |-> <<arg>> \o rest, to |-> End(r)]
        BY <3>1, <3>2, <3>3
      <3> QED
        BY <3>4 DEF x, arg, rest
    <2>9. NamesFrom(W, k) = <<W[k + 1].arg>> \o NamesFrom(W, k + 1)
      BY <1>6, <2>1, NamesType
    <2> QED
      BY <2>8, <2>9 DEF k
  <1> HIDE DEF S
  <1>11. c \in S
    BY <1>1, <1>9, <1>10, SetInduction
  <1>12. go[Start(n + (c - c))] = [run |-> NamesFrom(W, c - c), to |-> End(r)]
    BY <1>1, <1>11 DEF S
  <1>13. c - c = 0 /\ n + 0 = n
    BY <1>1
  <1>14. NamesFrom(W, 0) = NamesOf(W)
    BY <1>6, NamesType
  <1> QED
    BY <1>1, <1>4, <1>12, <1>13, <1>14 DEF M, W

-----------------------------------------------------------------------------
(* The block of a hook.                                                     *)

\* The first instruction of a transfer.
Transferring(kind, from, to) ==
  IF Wide THEN Indirect(kind) ELSE Relative(kind, to - (from + 5))

LEMMA TransferIs ==
  ASSUME NEW kind \in {"jmp", "call"}, NEW from \in Nat, NEW to \in Nat
  PROVE  /\ Transfer(kind, from, to) \in Seq(Cells)
         /\ Len(Transfer(kind, from, to)) = MIN_HOOK_LENGTH
         /\ Transferring(kind, from, to) \in Instrs
         /\ Transferring(kind, from, to).kind = kind
         /\ Transferring(kind, from, to).len <= MIN_HOOK_LENGTH
         /\ ~Wide => Transferring(kind, from, to).len = MIN_HOOK_LENGTH
         /\ \A m : Holds(m, from, Transfer(kind, from, to)) =>
              /\ Stands(m, from, Transferring(kind, from, to))
              /\ Wide => Stands(m, from + 6, Pointer(to))
PROOF
  <1> DEFINE i == Transferring(kind, from, to)
             d == to - (from + 5)
  <1>1. CASE ~Wide
    <2>1. i = Relative(kind, d) /\ Transfer(kind, from, to) = Bytes(i) /\ MIN_HOOK_LENGTH = 5
      BY <1>1 DEF Transferring, Transfer, MIN_HOOK_LENGTH
    <2>2. d \in Int
      OBVIOUS
    <2> HIDE DEF d, i
    <2>3. i \in Instrs
      BY <2>1, <2>2, InstrTypes
    <2>4. i.kind = kind /\ i.len = 5
      BY <2>1 DEF Relative, Instr
    <2>5. Bytes(i) \in Seq(Cells) /\ Len(Bytes(i)) = 5
      BY <2>3, <2>4, BytesIs
    <2>6. \A m : Holds(m, from, Bytes(i)) => Stands(m, from, i)
      BY <2>3, StandsHolds
    <2>7. 5 <= 5
      OBVIOUS
    <2> QED
      BY <1>1, <2>1, <2>3, <2>4, <2>5, <2>6, <2>7 DEF i
  <1>2. CASE Wide
    <2> DEFINE q == Pointer(to)
    <2>1. /\ i = Indirect(kind) /\ Transfer(kind, from, to) = Bytes(i) \o Bytes(q)
          /\ MIN_HOOK_LENGTH = 14
      BY <1>2 DEF Transferring, Transfer, MIN_HOOK_LENGTH
    <2>2. q.len = 8
      BY DEF Pointer, Instr
    <2>3. q \in Instrs
      BY InstrTypes
    <2> HIDE DEF i, q
    <2>4. i \in Instrs
      BY <2>1, InstrTypes
    <2>5. i.kind = kind /\ i.len = 6
      BY <2>1 DEF Indirect, Instr
    <2>6. /\ Bytes(i) \in Seq(Cells) /\ Len(Bytes(i)) = 6
          /\ Bytes(q) \in Seq(Cells) /\ Len(Bytes(q)) = 8
      BY <2>2, <2>3, <2>4, <2>5, BytesIs
    <2>7. Bytes(i) \o Bytes(q) \in Seq(Cells) /\ Len(Bytes(i) \o Bytes(q)) = Len(Bytes(i)) + Len(Bytes(q))
      BY <2>6, OfBytes
    <2>8. ASSUME NEW m, Holds(m, from, Bytes(i) \o Bytes(q))
          PROVE  Stands(m, from, i) /\ Stands(m, from + 6, q)
      <3> DEFINE s == Bytes(i)
                 t == Bytes(q)
      <3>1. s \in Seq(Cells) /\ t \in Seq(Cells) /\ Holds(m, from, s \o t) /\ Len(s) = 6
        BY <2>6, <2>8
      <3> HIDE DEF s, t
      <3>2. Holds(m, from, s) /\ Holds(m, from + Len(s), t)
        BY <3>1, HoldsJoined
      <3>3. Holds(m, from, Bytes(i)) /\ Holds(m, from + 6, Bytes(q))
        BY <3>1, <3>2 DEF s, t
      <3> QED
        BY <2>3, <2>4, <3>3, StandsHolds
    <2>9. Len(Bytes(i) \o Bytes(q)) = 14
      BY <2>6, <2>7
    <2> QED
      BY <1>2, <2>1, <2>4, <2>5, <2>7, <2>8, <2>9 DEF i, q
  <1> QED
    BY <1>1, <1>2

\* What a transfer leads to.
LEMMA TransferLeads ==
  ASSUME NEW kind \in {"jmp", "call"}, pc \in Nat, NEW to \in Nat,
         Holds(mem, pc, Transfer(kind, pc, to))
  PROVE  \A b \in Targets(Transferring(kind, pc, to)) : b = to
PROOF
  <1> DEFINE i == Transferring(kind, pc, to)
  <1>1. CASE ~Wide
    <2>1. i = [kind |-> kind, arg |-> to - (pc + 5), len |-> 5]
      BY <1>1 DEF Transferring, Relative, Instr
    <2>2. i.arg = to - (pc + 5) /\ i.len = 5
      BY <2>1
    <2>3. Targets(i) = {pc + i.len + i.arg}
      BY <1>1 DEF Targets
    <2>4. pc + 5 + (to - (pc + 5)) = to
      OBVIOUS
    <2> HIDE DEF i
    <2> QED
      BY <2>2, <2>3, <2>4 DEF i
  <1>2. CASE Wide
    <2>1. i.len = 6
      BY <1>2 DEF Transferring, Indirect, Instr
    <2>2. Stands(mem, pc + 6, Pointer(to))
      BY <1>2, TransferIs
    <2>3. ASSUME NEW b \in Targets(i) PROVE b = to
      <3>1. Stands(mem, pc + 6, Pointer(b))
        BY <1>2, <2>1, <2>3 DEF Targets
      <3>2. Pointer(b).len = 8 /\ Pointer(b).arg = b /\ Pointer(to).len = 8 /\ Pointer(to).arg = to
        BY DEF Pointer, Instr
      <3>3. 1 \in 1 .. 8
        OBVIOUS
      <3>4. mem[pc + 6 + 1 - 1] = [of |-> Pointer(b), at |-> 1]
        BY <3>1, <3>2, <3>3 DEF Stands
      <3>5. mem[pc + 6 + 1 - 1] = [of |-> Pointer(to), at |-> 1]
        BY <2>2, <3>2, <3>3 DEF Stands
      <3>6. mem[pc + 6 + 1 - 1].of = Pointer(b) /\ mem[pc + 6 + 1 - 1].of = Pointer(to)
        BY <3>4, <3>5
      <3> QED
        BY <3>2, <3>6
    <2> QED
      BY <2>3
  <1> QED
    BY <1>1, <1>2

\* The way back from r's block, whose statements end at end.
WayBack(r, end) ==
  IF r.parameter = "jump" THEN Transfer("jmp", end, End(r)) ELSE Bytes(Ret)

\* A hook as the API takes it.
IsHook(r) ==
  /\ r.kind = "hook"
  /\ r.behavior \in Behaviors
  /\ r.errors \in BOOLEAN
  /\ r.parameter \in {"jump", "call"}
  /\ Statements(r) \in Seq(Instrs)
  /\ \A k \in 1 .. Len(Statements(r)) : Statements(r)[k].kind = "plain"
  /\ NamesOf(Statements(r)) = Names(r.body)
  /\ Compiled(r) = Code(Statements(r))

LEMMA HookIs ==
  ASSUME NEW rs \in RequestSets, NEW r \in Hooks(rs)
  PROVE  IsHook(r)
PROOF
  <1> DEFINE B == {r.body[n] : n \in DOMAIN r.body}
             N == Len(r.body)
             T == Statements(r)
  <1>1. r \in rs /\ r.kind = "hook" /\ r.behavior \in Behaviors
    BY DEF Hooks
  <1>2. /\ r.body \in Seq(B) /\ r.errors \in BOOLEAN /\ r.parameter \in {"jump", "call"}
        /\ \A n \in DOMAIN r.body : r.body[n].len \in 1 .. MaxInstr
    BY <1>1, HookConstants
  <1>3. N \in Nat /\ DOMAIN r.body = 1 .. N
    BY <1>2
  <1>4. ASSUME NEW n \in 1 .. N PROVE Plain(r.body[n]) \in Instrs
    <2>1. r.body[n].name \in Acts
      <3>1. r \in UNION RequestSets /\ n \in Nat
        BY <1>1, <1>3
      <3> QED
        BY <3>1 DEF Acts
    <2>2. r.body[n].len \in Nat \ {0}
      <3>1. n \in DOMAIN r.body
        BY <1>3
      <3>2. r.body[n].len \in 1 .. MaxInstr
        BY <1>2, <3>1
      <3> QED
        BY <3>2 DEF MaxInstr
    <2>3. \A name \in Acts, len \in Nat \ {0} : Instr("plain", name, len) \in Instrs
      BY DEF Instr, Instrs, Kinds
    <2>4. Plain(r.body[n]) = Instr("plain", r.body[n].name, r.body[n].len)
      BY DEF Plain
    <2> QED
      BY <2>1, <2>2, <2>3, <2>4
  <1>5. T = [n \in 1 .. N |-> Plain(r.body[n])]
    BY <1>3 DEF Statements
  <1>6. T \in [1 .. N -> Instrs]
    BY <1>4, <1>5
  <1> HIDE DEF T, N
  <1>7. T \in Seq(Instrs) /\ Len(T) = N
    BY <1>3, <1>6
  <1>8. \A k \in 1 .. N : T[k] = Plain(r.body[k]) /\ T[k].kind = "plain" /\ T[k].arg = r.body[k].name
    BY <1>5 DEF Plain, Instr
  <1>9. NamesOf(T) = Names(r.body)
    BY <1>3, <1>7, <1>8 DEF NamesOf, Names
  <1>10. Compiled(r) = Code(T)
    BY DEF Compiled, T, Statements
  <1> QED
    BY <1>1, <1>2, <1>7, <1>8, <1>9, <1>10 DEF IsHook, T

LEMMA NamesJoined ==
  ASSUME NEW L \in Seq(Instrs), NEW M \in Seq(Instrs)
  PROVE  NamesOf(L \o M) = NamesOf(L) \o NamesOf(M)
PROOF
  <1> DEFINE x == Len(L)
             y == Len(M)
             LM == L \o M
             l == NamesOf(L)
             m == NamesOf(M)
             lm == NamesOf(LM)
  <1>1. /\ LM \in Seq(Instrs) /\ Len(LM) = x + y /\ x \in Nat /\ y \in Nat
        /\ \A n \in 1 .. x : LM[n] = L[n]
        /\ \A n \in 1 .. y : LM[x + n] = M[n]
    BY OfInstrs
  <1>2. l \in Seq(Acts) /\ Len(l) = x /\ m \in Seq(Acts) /\ Len(m) = y
    BY NamesType
  <1> HIDE DEF LM
  <1>3. lm \in Seq(Acts) /\ Len(lm) = x + y
    BY <1>1, NamesType
  <1>4. /\ \A n \in 1 .. x : l[n] = L[n].arg
        /\ \A n \in 1 .. y : m[n] = M[n].arg
    BY DEF NamesOf
  <1>5. \A n \in 1 .. x + y : lm[n] = LM[n].arg
    BY <1>1 DEF NamesOf
  <1> HIDE DEF x, y, l, m, lm
  <1>6. /\ l \o m \in Seq(Acts) /\ Len(l \o m) = x + y
        /\ \A n \in 1 .. x : (l \o m)[n] = l[n]
        /\ \A n \in 1 .. y : (l \o m)[x + n] = m[n]
    BY <1>2, OfNames
  <1>7. ASSUME NEW n \in 1 .. x + y PROVE lm[n] = (l \o m)[n]
    <2>1. CASE n <= x
      <3>1. n \in 1 .. x
        BY <1>1, <2>1
      <3> QED
        BY <1>1, <1>4, <1>5, <1>6, <3>1
    <2>2. CASE n > x
      <3>1. n - x \in 1 .. y /\ x + (n - x) = n
        BY <1>1, <2>2
      <3>2. lm[n] = LM[x + (n - x)].arg
        BY <1>5, <3>1
      <3>3. (l \o m)[n] = m[n - x]
        BY <1>6, <3>1
      <3> QED
        BY <1>1, <1>4, <3>1, <3>2, <3>3
    <2>3. n <= x \/ n > x
      BY <1>1
    <2> QED
      BY <2>1, <2>2, <2>3
  <1>8. lm = l \o m
    BY <1>3, <1>6, <1>7, SameSequence
  <1> QED
    BY <1>8 DEF lm, l, m, LM

\* The window of a hook may be moved.
Movable(r) == WindowIs(r) /\ \A n \in Window(r) : Routine[n].kind = "plain"

\* What the block of a hook consists of.
BlockIs(r) ==
  /\ Spliced(r) \in Seq(Instrs)
  /\ \A k \in 1 .. Len(Spliced(r)) : Spliced(r)[k].kind = "plain"
  /\ Code(Spliced(r)) = Splice(r.behavior, Compiled(r), Code(Original(r)))
  /\ NamesOf(Spliced(r)) = Splice(r.behavior, Names(r.body), NamesOf(Original(r)))
  /\ Len(Compiled(r)) \in Nat /\ Len(Compiled(r)) <= Len(Code(Spliced(r)))

LEMMA SplicedIs ==
  ASSUME NEW r, IsHook(r), Movable(r)
  PROVE  BlockIs(r)
PROOF
  <1> DEFINE T == Statements(r)
             W == Original(r)
             Fine(S) == S \in Seq(Instrs) /\ \A k \in 1 .. Len(S) : S[k].kind = "plain"
  <1>1. Fine(T)
    BY DEF IsHook
  <1>2. Fine(W)
    <2>1. W \in Seq(Instrs) /\ Len(W) = Count(r)
      BY OriginalIs DEF Movable
    <2>2. ASSUME NEW k \in 1 .. Count(r) PROVE W[k].kind = "plain"
      <3>1. First(r) + k - 1 \in Window(r) /\ W[k] = Routine[First(r) + k - 1]
        BY OriginalIs DEF Movable, Original
      <3> QED
        BY <3>1 DEF Movable
    <2> QED
      BY <2>1, <2>2
  <1>3. /\ NamesOf(T) = Names(r.body) /\ Code(T) = Compiled(r)
        /\ r.behavior \in Behaviors /\ Spliced(r) = Splice(r.behavior, T, W)
    BY DEF IsHook, Spliced
  <1> HIDE DEF T, W
  <1>4. /\ Code(T) \in Seq(Cells) /\ Code(W) \in Seq(Cells)
        /\ Len(Code(T)) \in Nat /\ Len(Code(W)) \in Nat
    BY <1>1, <1>2, CodeType
  <1>5. ASSUME NEW U, NEW V, Fine(U), Fine(V)
        PROVE  /\ Fine(U \o V)
               /\ Code(U \o V) = Code(U) \o Code(V)
               /\ NamesOf(U \o V) = NamesOf(U) \o NamesOf(V)
    <2> DEFINE x == Len(U)
               y == Len(V)
               UV == U \o V
    <2>1. /\ UV \in Seq(Instrs) /\ Len(UV) = x + y /\ x \in Nat /\ y \in Nat
          /\ \A n \in 1 .. x : UV[n] = U[n]
          /\ \A n \in 1 .. y : UV[x + n] = V[n]
      BY <1>5, OfInstrs
    <2>2. /\ \A n \in 1 .. x : U[n].kind = "plain"
          /\ \A n \in 1 .. y : V[n].kind = "plain"
      BY <1>5
    <2> HIDE DEF x, y, UV
    <2>3. ASSUME NEW n \in 1 .. x + y PROVE UV[n].kind = "plain"
      <3>1. CASE n <= x
        <4>1. n \in 1 .. x
          BY <2>1, <3>1
        <4> QED
          BY <2>1, <2>2, <4>1
      <3>2. CASE n > x
        <4>1. n - x \in 1 .. y /\ x + (n - x) = n
          BY <2>1, <3>2
        <4>2. UV[n] = V[n - x]
          BY <2>1, <4>1
        <4> QED
          BY <2>2, <4>1, <4>2
      <3> QED
        BY <2>1, <3>1, <3>2
    <2>4. Fine(UV)
      BY <2>1, <2>3
    <2> QED
      BY <1>5, <2>4, CodeJoined, NamesJoined DEF UV
  <1> DEFINE S == Spliced(r)
  <1>6. /\ Fine(S)
        /\ Code(S) = Splice(r.behavior, Code(T), Code(W))
        /\ NamesOf(S) = Splice(r.behavior, NamesOf(T), NamesOf(W))
        /\ Len(Code(T)) <= Len(Code(S))
    <2> HIDE DEF Fine
    <2>1. CASE r.behavior = "before"
      <3>1. S = T \o W
        BY <1>3, <2>1 DEF Splice
      <3>2. Len(Code(T) \o Code(W)) = Len(Code(T)) + Len(Code(W))
        BY <1>4, OfBytes
      <3>3. Len(Code(T)) <= Len(Code(T)) + Len(Code(W))
        BY <1>4
      <3> QED
        BY <1>1, <1>2, <1>5, <2>1, <3>1, <3>2, <3>3 DEF Splice
    <2>2. CASE r.behavior = "after"
      <3>1. S = W \o T
        BY <1>3, <2>2 DEF Splice
      <3>2. Len(Code(W) \o Code(T)) = Len(Code(W)) + Len(Code(T))
        BY <1>4, OfBytes
      <3>3. Len(Code(T)) <= Len(Code(W)) + Len(Code(T))
        BY <1>4
      <3> QED
        BY <1>1, <1>2, <1>5, <2>2, <3>1, <3>2, <3>3 DEF Splice
    <2>3. CASE r.behavior = "replace"
      <3>1. S = T
        BY <1>3, <2>3 DEF Splice
      <3>2. Len(Code(T)) <= Len(Code(T))
        BY <1>4
      <3> QED
        BY <1>1, <2>3, <3>1, <3>2 DEF Splice
    <2> QED
      BY <1>3, <2>1, <2>2, <2>3 DEF Behaviors
  <1> QED
    BY <1>3, <1>4, <1>6 DEF BlockIs, W

LEMMA WayBackIs ==
  ASSUME NEW r, IsHook(r), WindowIs(r), NEW end \in Nat
  PROVE  /\ WayBack(r, end) \in Seq(Cells)
         /\ Len(WayBack(r, end)) = IF r.parameter = "jump" THEN MIN_HOOK_LENGTH ELSE 1
PROOF
  <1>1. End(r) \in Nat /\ "jmp" \in {"jmp", "call"}
    BY DEF WindowIs
  <1>2. Bytes(Ret) \in Seq(Cells) /\ Len(Bytes(Ret)) = 1
    <2>1. Ret.len = 1
      BY DEF Ret, Instr
    <2> QED
      BY <2>1, InstrTypes, BytesIs
  <1> QED
    BY <1>1, <1>2, TransferIs DEF WayBack

\* The bytes of the block.
Block(r, ptr) == Code(Spliced(r)) \o WayBack(r, ptr + Len(Code(Spliced(r))))

LEMMA BlockBytes ==
  ASSUME NEW r, IsHook(r), Movable(r), NEW ptr \in Nat
  PROVE  /\ Trampoline(r, ptr, Code(Original(r)), End(r)) = Block(r, ptr)
         /\ Block(r, ptr) \in Seq(Cells)
         /\ Len(Block(r, ptr)) = WrittenLen(r)
         /\ WrittenLen(r) \in Nat
         /\ Len(Code(Spliced(r))) \in Nat
         /\ Len(Code(Spliced(r))) < WrittenLen(r)
         /\ Len(Compiled(r)) \in Nat /\ Len(Compiled(r)) <= WrittenLen(r)
         /\ \A m : Holds(m, ptr, Block(r, ptr))
                     <=> /\ Holds(m, ptr, Code(Spliced(r)))
                         /\ Holds(m, ptr + Len(Code(Spliced(r))),
                                  WayBack(r, ptr + Len(Code(Spliced(r)))))
PROOF
  <1> DEFINE code == Code(Spliced(r))
             end == ptr + Len(code)
             back == WayBack(r, end)
             more == IF r.parameter = "jump" THEN MIN_HOOK_LENGTH ELSE 1
  <1>1. BlockIs(r)
    BY SplicedIs
  <1>2. code \in Seq(Cells) /\ Len(code) \in Nat
    BY <1>1, CodeType DEF BlockIs
  <1> HIDE DEF code
  <1>3. end \in Nat
    BY <1>2
  <1> HIDE DEF end
  <1>4. back \in Seq(Cells) /\ Len(back) = more /\ more \in Nat /\ more > 0
    BY <1>3, WayBackIs, MinHookLength DEF Movable
  <1> HIDE DEF back, more
  <1>5. Block(r, ptr) = code \o back
    BY DEF Block, code, back, end
  <1>6. code \o back \in Seq(Cells) /\ Len(code \o back) = Len(code) + more
    BY <1>2, <1>4, OfBytes
  <1>7. WrittenLen(r) = Len(code) + more
    BY DEF WrittenLen, code, more
  <1>8. Len(Compiled(r)) \in Nat /\ Len(Compiled(r)) <= Len(code)
    BY <1>1 DEF BlockIs, code
  <1>9. Trampoline(r, ptr, Code(Original(r)), End(r)) = code \o back
    <2>1. code = Splice(r.behavior, Compiled(r), Code(Original(r)))
      BY <1>1 DEF BlockIs, code
    <2> QED
      BY <2>1 DEF Trampoline, WayBack, back, end
  <1>10. \A m : Holds(m, ptr, code \o back) <=> Holds(m, ptr, code) /\ Holds(m, end, back)
    BY <1>2, <1>4, HoldsJoined DEF end
  <1>11. /\ Len(code) < Len(code) + more /\ Len(code) + more \in Nat
         /\ Len(Compiled(r)) <= Len(code) + more
    BY <1>2, <1>4, <1>8
  <1> QED
    BY <1>2, <1>5, <1>6, <1>7, <1>8, <1>9, <1>10, <1>11 DEF code, back, end

-----------------------------------------------------------------------------
(* The memory with the requests D written, the blocks of the hooks among    *)
(* them at the addresses at.                                                *)

\* How a hook's block is entered.
Mode(r) == IF r.parameter = "jump" THEN "jmp" ELSE "call"

\* What a request that has been made leaves behind.
Done(m, r, at) ==
  IF r.kind = "nop" THEN Holds(m, r.site, Nops(End(r) - r.site))
  ELSE /\ Holds(m, r.site, Transfer(Mode(r), r.site, at[r]))
       /\ Holds(m, r.site + MIN_HOOK_LENGTH, Nops((End(r) - r.site) - MIN_HOOK_LENGTH))
       /\ Holds(m, at[r], Block(r, at[r]))

Laid(m, D, at) ==
  /\ m \in Memories
  /\ \A n \in DOMAIN Program :
       (\A r \in D : n \notin Window(r)) => Stands(m, Start(n), Program[n])
  /\ \A r \in D : Done(m, r, at)

\* Where the blocks are.
HooksOf(D) == {r \in D : r.kind = "hook"}
Placed(rs, D, at, slots) ==
  /\ D \subseteq Writes(rs)
  /\ slots \subseteq Slots
  /\ at \in [HooksOf(D) -> slots]
  /\ \A q, r \in HooksOf(D) : q # r => at[q] # at[r]

LEMMA WritesAre ==
  ASSUME WindowsApart, NEW rs \in RequestSets, NEW r \in Writes(rs)
  PROVE  /\ WindowIs(r)
         /\ r.kind \in {"hook", "nop"}
         /\ r.kind = "hook" => /\ r \in Hooks(rs)
                               /\ IsHook(r)
                               /\ Movable(r)
                               /\ End(r) - r.site >= MIN_HOOK_LENGTH
         /\ r.kind = "nop" => r \in Clears(rs)
         /\ End(r) <= Top /\ End(r) <= Base + Len(Code(Program))
PROOF
  <1>1. WindowIs(r)
    BY WindowFacts
  <1>2. /\ r.kind \in {"hook", "nop"}
        /\ r.kind = "hook" => r \in Hooks(rs)
        /\ r.kind = "nop" => r \in Clears(rs)
    BY DEF Writes, Hooks, Clears
  <1>3. ASSUME r \in Hooks(rs)
        PROVE  IsHook(r) /\ Movable(r) /\ End(r) - r.site >= MIN_HOOK_LENGTH
    <2>1. IsHook(r)
      BY <1>3, HookIs
    <2>2. Movable(r)
      BY <1>1, <1>3 DEF WindowsApart, Movable
    <2>3. r.kind # "nop"
      BY <1>3 DEF Hooks
    <2>4. Start(First(r) + Count(r)) >= r.site + MIN_HOOK_LENGTH
      BY <1>1, <2>3 DEF WindowIs, Takes
    <2>5. \A x, y, z \in Nat : x >= y + z => x - y >= z
      OBVIOUS
    <2>6. End(r) - r.site >= MIN_HOOK_LENGTH
      BY <1>1, <2>4, <2>5, MinHookLength DEF WindowIs, End
    <2> QED
      BY <2>1, <2>2, <2>6
  <1>4. End(r) <= Top /\ End(r) <= Base + Len(Code(Program))
    <2> DEFINE n == First(r) + Count(r)
               P == Len(Program)
    <2>1. n \in 1 .. P /\ End(r) = Start(n)
      BY <1>1 DEF WindowIs, End
    <2>2. P \in Nat
      BY ProgramIs
    <2> HIDE DEF n
    <2>3. n \in 1 .. P + 1 /\ P + 1 \in 1 .. P + 1 /\ n < P + 1
      BY <2>1, <2>2
    <2>4. Start(n) < Start(P + 1) /\ Start(n) \in Nat /\ Start(P + 1) \in Nat
      BY <2>3, Starts
    <2>5. Start(P + 1) <= Top /\ Start(P + 1) = Base + Len(Code(Program)) /\ Top \in Nat
      BY Starts, HookConstants
    <2> HIDE DEF P
    <2>6. \A x, y, z \in Nat : x < y /\ y <= z => x <= z /\ x <= y
      OBVIOUS
    <2> QED
      BY <2>1, <2>4, <2>5, <2>6
  <1> QED
    BY <1>1, <1>2, <1>3, <1>4

\* An instruction outside a window is before or after it, and no block is
\* where the routine is.
LEMMA Elsewhere ==
  ASSUME NEW r, WindowIs(r), NEW n \in DOMAIN Program, n \notin Window(r)
  PROVE  Start(n) + Program[n].len <= r.site \/ End(r) <= Start(n)
PROOF
  <1> DEFINE f == First(r)
             c == Count(r)
             P == Len(Program)
  <1>1. /\ f \in 1 .. Len(Routine) /\ Start(f) = r.site /\ c \in Nat
        /\ f + c \in 1 .. P /\ End(r) = Start(f + c)
    BY DEF WindowIs, End
  <1>2. P \in Nat /\ P = Len(Routine) + 1 /\ n \in 1 .. P /\ Len(Routine) \in Nat
    BY ProgramIs
  <1>3. n \notin f .. f + c - 1
    BY DEF Window
  <1> HIDE DEF f, c, P
  <1>4. /\ n \in 1 .. P + 1 /\ f \in 1 .. P + 1 /\ f + c \in 1 .. P + 1
        /\ n < f \/ n = f + c \/ f + c < n
    BY <1>1, <1>2, <1>3
  <1>5. /\ n < f => Start(n) + Program[n].len <= Start(f)
        /\ f + c < n => Start(f + c) < Start(n)
        /\ Start(n) \in Nat /\ Start(f + c) \in Nat
    BY <1>4, Starts DEF P
  <1>6. \A x \in Nat : x <= x
    OBVIOUS
  <1>7. \A x, y \in Nat : x < y => x <= y
    OBVIOUS
  <1> QED
    BY <1>1, <1>4, <1>5, <1>6, <1>7

LEMMA InRoutine ==
  ASSUME NEW n \in DOMAIN Program
  PROVE  /\ Start(n) \in Nat /\ Base <= Start(n)
         /\ Program[n] \in Instrs
         /\ Start(n) + Program[n].len <= Base + Len(Code(Program))
PROOF
  <1> DEFINE P == Len(Program)
  <1>1. P \in Nat /\ n \in 1 .. P /\ Program \in Seq(Instrs)
    BY ProgramIs
  <1>2. Program[n] \in Instrs
    BY <1>1
  <1>3. n \in 1 .. P + 1 /\ P + 1 \in 1 .. P + 1 /\ n < P + 1
    BY <1>1
  <1>4. /\ Start(n) \in Nat /\ Start(n) >= Base
        /\ Start(n) + Program[n].len <= Start(P + 1)
        /\ Start(P + 1) = Base + Len(Code(Program))
    BY <1>3, Starts
  <1>5. Base <= Start(n)
    BY <1>4, HookConstants
  <1> QED
    BY <1>2, <1>4, <1>5

LEMMA WindowsOrdered ==
  ASSUME NEW q, WindowIs(q), NEW r, WindowIs(r), Window(q) \cap Window(r) = {}
  PROVE  End(q) <= r.site \/ End(r) <= q.site
PROOF
  <1> DEFINE f == First(q)
             c == Count(q)
             g == First(r)
             d == Count(r)
             P == Len(Program)
  <1>1. /\ f \in 1 .. Len(Routine) /\ Start(f) = q.site /\ c \in Nat /\ c > 0
        /\ f + c \in 1 .. P /\ End(q) = Start(f + c)
    BY DEF WindowIs, End
  <1>2. /\ g \in 1 .. Len(Routine) /\ Start(g) = r.site /\ d \in Nat /\ d > 0
        /\ g + d \in 1 .. P /\ End(r) = Start(g + d)
    BY DEF WindowIs, End
  <1>3. P \in Nat /\ P = Len(Routine) + 1 /\ Len(Routine) \in Nat
    BY ProgramIs
  <1>4. (f .. f + c - 1) \cap (g .. g + d - 1) = {}
    BY DEF Window
  <1> HIDE DEF f, c, g, d, P
  <1>5. f + c <= g \/ g + d <= f
    <2> SUFFICES ASSUME ~(f + c <= g), ~(g + d <= f) PROVE FALSE
      OBVIOUS
    <2>1. CASE f <= g
      <3>1. g \in f .. f + c - 1 /\ g \in g .. g + d - 1
        BY <1>1, <1>2, <2>1
      <3> QED
        BY <1>4, <3>1
    <2>2. CASE g < f
      <3>1. f \in f .. f + c - 1 /\ f \in g .. g + d - 1
        BY <1>1, <1>2, <2>2
      <3> QED
        BY <1>4, <3>1
    <2> QED
      BY <1>1, <1>2, <2>1, <2>2
  <1>6. \A i, j \in 1 .. P + 1 : i <= j => Start(i) <= Start(j)
    <2> SUFFICES ASSUME NEW i \in 1 .. P + 1, NEW j \in 1 .. P + 1, i <= j PROVE Start(i) <= Start(j)
      OBVIOUS
    <2>1. Start(i) \in Nat /\ Start(j) \in Nat /\ (i < j => Start(i) < Start(j))
      BY Starts DEF P
    <2>2. i = j \/ i < j
      BY <1>3
    <2> QED
      BY <2>1, <2>2
  <1>7. /\ f \in 1 .. P + 1 /\ f + c \in 1 .. P + 1 /\ g \in 1 .. P + 1 /\ g + d \in 1 .. P + 1
    BY <1>1, <1>2, <1>3
  <1> QED
    BY <1>1, <1>2, <1>5, <1>6, <1>7

\* After a write to the window of r, and to free memory from lo on, what has
\* been laid elsewhere is still there.
Keeps(m, w, r, lo, hi) ==
  \A b \in Nat, t \in Seq(Cells) :
    /\ Holds(m, b, t)
    /\ b + Len(t) <= r.site \/ End(r) <= b
    /\ b + Len(t) <= lo \/ hi <= b
    => Holds(w, b, t)

Free(lo, hi, D, at) ==
  /\ lo \in Nat /\ hi \in Nat
  /\ hi <= Base \/ Base + Len(Code(Program)) <= lo
  /\ \A q \in HooksOf(D) : at[q] + WrittenLen(q) <= lo \/ hi <= at[q]

\* The block of a hook is not in the routine.
BlockOutside(ptr, r) == ptr + WrittenLen(r) <= Base \/ Base + Len(Code(Program)) <= ptr

LEMMA LaidOthers ==
  ASSUME WindowsApart, NEW rs \in RequestSets, NEW r \in Writes(rs),
         NEW D, NEW at, NEW slots, Placed(rs, D, at, slots), r \notin D,
         NEW m, Laid(m, D, at), NEW w, NEW lo, NEW hi,
         Free(lo, hi, D, at), Keeps(m, w, r, lo, hi),
         \A q \in HooksOf(D) : at[q] \in Nat /\ BlockOutside(at[q], q)
  PROVE  /\ \A n \in DOMAIN Program :
              (\A q \in D \cup {r} : n \notin Window(q)) => Stands(w, Start(n), Program[n])
         /\ \A q \in D : Done(w, q, at)
PROOF
  <1> DEFINE lim == Base + Len(Code(Program))
  <1>1. /\ WindowIs(r) /\ End(r) <= lim /\ r.site \in Nat /\ End(r) \in Nat /\ Base <= r.site
        /\ lim \in Nat /\ Base \in Nat /\ r.site <= End(r)
    <2>1. WindowIs(r) /\ End(r) <= lim
      BY WritesAre
    <2>2. Len(Code(Program)) \in Nat /\ Base \in Nat
      BY ProgramIs, CodeType, HookConstants
    <2>3. r.site \in Nat /\ End(r) \in Nat /\ r.site >= Base /\ End(r) > r.site
      BY <2>1 DEF WindowIs
    <2>4. Base <= r.site /\ r.site <= End(r)
      BY <2>2, <2>3
    <2> QED
      BY <2>1, <2>2, <2>3, <2>4
  <1>2. lo \in Nat /\ hi \in Nat /\ (hi <= Base \/ lim <= lo)
    BY DEF Free
  <1>3. ASSUME NEW b \in Nat, NEW len \in Nat, Base <= b, b + len <= lim
        PROVE  b + len <= lo \/ hi <= b
    <2> HIDE DEF lim
    <2> QED BY <1>1, <1>2, <1>3
  <1>4. ASSUME NEW n \in DOMAIN Program, \A q \in D \cup {r} : n \notin Window(q)
        PROVE  Stands(w, Start(n), Program[n])
    <2> DEFINE t == Bytes(Program[n])
               b == Start(n)
    <2>1. /\ b \in Nat /\ Base <= b /\ Program[n] \in Instrs
          /\ b + Program[n].len <= lim
      BY InRoutine
    <2>2. t \in Seq(Cells) /\ Len(t) = Program[n].len /\ Program[n].len \in Nat
      BY <2>1, BytesIs
    <2>3. Holds(m, b, t)
      BY <1>4, <2>1, StandsHolds DEF Laid
    <2>4. b + Program[n].len <= r.site \/ End(r) <= b
      BY <1>1, <1>4, Elsewhere
    <2>5. b + Program[n].len <= lo \/ hi <= b
      <3> HIDE DEF b, lim
      <3> QED BY <1>3, <2>1, <2>2
    <2>6. Holds(w, b, t)
      <3> HIDE DEF b, t
      <3> QED BY <2>1, <2>2, <2>3, <2>4, <2>5 DEF Keeps
    <2> QED
      BY <2>1, <2>6, StandsHolds
  <1>5. ASSUME NEW q \in D PROVE Done(w, q, at)
    <2>1. q \in Writes(rs) /\ q # r
      BY DEF Placed
    <2>2. /\ WindowIs(q) /\ End(q) <= lim /\ q.site \in Nat /\ End(q) \in Nat /\ Base <= q.site
          /\ q.site <= End(q) /\ q.kind \in {"hook", "nop"}
          /\ q.kind = "hook" => IsHook(q) /\ Movable(q) /\ End(q) - q.site >= MIN_HOOK_LENGTH
      <3>1. /\ WindowIs(q) /\ End(q) <= lim /\ q.kind \in {"hook", "nop"}
            /\ q.kind = "hook" => IsHook(q) /\ Movable(q) /\ End(q) - q.site >= MIN_HOOK_LENGTH
        BY <2>1, WritesAre
      <3>2. q.site \in Nat /\ End(q) \in Nat /\ q.site >= Base /\ End(q) > q.site
        BY <3>1 DEF WindowIs
      <3>3. Base <= q.site /\ q.site <= End(q)
        BY <1>1, <3>2
      <3> QED
        BY <3>1, <3>2, <3>3
    <2>3. End(q) <= r.site \/ End(r) <= q.site
      <3>1. Window(q) \cap Window(r) = {}
        BY <2>1 DEF WindowsApart
      <3> QED
        BY <1>1, <2>2, <3>1, WindowsOrdered
    \* Bytes in the window of q.
    <2>4. ASSUME NEW b \in Nat, NEW t \in Seq(Cells), Holds(m, b, t),
                 q.site <= b, b + Len(t) <= End(q)
          PROVE  Holds(w, b, t)
      <3> DEFINE len == Len(t)
      <3>1. len \in Nat
        OBVIOUS
      <3>2. b + len <= r.site \/ End(r) <= b
        <4> HIDE DEF len
        <4>1. b + len <= End(q)
          BY <2>4 DEF len
        <4> QED BY <1>1, <2>2, <2>3, <2>4, <3>1, <4>1
      <3>3. b + len <= lo \/ hi <= b
        <4>1. b + len <= End(q)
          BY <2>4
        <4> HIDE DEF len, lim
        <4>2. Base <= b /\ b + len <= lim
          BY <1>1, <2>2, <2>4, <3>1, <4>1
        <4> QED BY <1>3, <3>1, <4>2
      <3> QED
        BY <2>4, <3>2, <3>3 DEF Keeps
    <2>5. CASE q.kind = "nop"
      <3> DEFINE len == End(q) - q.site
                 t == Nops(len)
      <3>1. len \in Nat /\ q.site + len = End(q)
        BY <2>2
      <3>2. Holds(m, q.site, t)
        BY <2>5 DEF Laid, Done
      <3>3. t \in Seq(Cells) /\ Len(t) = len
        <4> HIDE DEF len
        <4> QED BY <3>1, NopsIs
      <3>4. Holds(w, q.site, t)
        <4> HIDE DEF len, t
        <4> QED BY <2>2, <2>4, <3>1, <3>2, <3>3
      <3> QED
        BY <2>5, <3>4 DEF Done
    <2>6. CASE q.kind = "hook"
      <3> DEFINE M == MIN_HOOK_LENGTH
                 len == (End(q) - q.site) - M
                 t == Nops(len)
                 u == Transfer(Mode(q), q.site, at[q])
                 v == Block(q, at[q])
      <3>1. /\ len \in Nat /\ (q.site + M) + len = End(q) /\ M \in Nat /\ q.site + M \in Nat
            /\ q.site <= q.site + M /\ q.site + M <= End(q) /\ q.site <= q.site
        BY <2>2, <2>6, MinHookLength
      <3>2. Holds(m, q.site, u) /\ Holds(m, q.site + M, t) /\ Holds(m, at[q], v)
        BY <2>6 DEF Laid, Done
      <3>3. t \in Seq(Cells) /\ Len(t) = len
        <4> HIDE DEF len
        <4> QED BY <3>1, NopsIs
      <3>4. q \in HooksOf(D)
        BY <2>6 DEF HooksOf
      <3>5. at[q] \in Nat /\ BlockOutside(at[q], q)
        BY <3>4
      <3>6. u \in Seq(Cells) /\ Len(u) = M
        BY <2>2, <3>5, TransferIs DEF Mode
      <3>7. v \in Seq(Cells) /\ Len(v) = WrittenLen(q) /\ WrittenLen(q) \in Nat
        BY <2>2, <2>6, <3>5, BlockBytes
      <3>8. Holds(w, q.site + M, t)
        <4> HIDE DEF len, t, M
        <4> QED BY <2>4, <3>1, <3>2, <3>3
      <3>9. Holds(w, q.site, u)
        <4> HIDE DEF u, M
        <4> QED BY <2>2, <2>4, <3>1, <3>2, <3>6
      <3>10. Holds(w, at[q], v)
        <4>1. at[q] + WrittenLen(q) <= lo \/ hi <= at[q]
          BY <3>4 DEF Free
        <4> DEFINE a == at[q]
                   bl == WrittenLen(q)
        <4>2. a + bl <= Base \/ lim <= a
          BY <3>5 DEF BlockOutside
        <4>3. a \in Nat /\ bl \in Nat
          BY <3>5, <3>7
        <4> HIDE DEF a, bl, lim
        <4>4. a + bl <= r.site \/ End(r) <= a
          BY <1>1, <4>2, <4>3
        <4> HIDE DEF v
        <4> QED BY <3>2, <3>5, <3>7, <4>1, <4>4 DEF Keeps, a, bl
      <3> QED
        BY <2>6, <3>8, <3>9, <3>10 DEF Done
    <2> QED
      BY <2>2, <2>5, <2>6
  <1> QED
    BY <1>4, <1>5

LEMMA LaidInit ==
  ASSUME NEW at
  PROVE  Laid(Write([a \in 0 .. Top - 1 |-> Bytes(Data)[1]], Base, Code(Program)), {}, at)
PROOF
  <1> DEFINE m == [a \in 0 .. Top - 1 |-> Bytes(Data)[1]]
             s == Code(Program)
             w == Write(m, Base, s)
  <1>1. Bytes(Data)[1] \in Cells
    <2>1. Data \in Instrs /\ Data.len = 1
      BY InstrTypes DEF Data, Instr
    <2>2. Bytes(Data)[1] = [of |-> Data, at |-> 1]
      BY <2>1, BytesIs
    <2> QED
      BY <2>1, <2>2 DEF Cells
  <1>2. m \in Memories
    BY <1>1 DEF Memories
  <1>3. s \in Seq(Cells) /\ Base \in Nat /\ Base + Len(s) <= Top
    BY ProgramIs, CodeType, HookConstants
  <1> HIDE DEF m
  <1>4. w \in Memories /\ Holds(w, Base, s)
    <2> HIDE DEF s
    <2> QED BY <1>2, <1>3, WriteIs
  <1> HIDE DEF w
  <1>5. \A k \in 1 .. Len(Program) : Stands(w, Base + Len(CodeUpTo(Program)[k - 1]), Program[k])
    BY <1>3, <1>4, ProgramIs, CodeHolds
  <1>6. \A n \in DOMAIN Program : Stands(w, Start(n), Program[n])
    BY <1>5, ProgramIs DEF Start
  <1> QED
    BY <1>4, <1>6 DEF Laid, w, m, s

LEMMA PatchedIs ==
  ASSUME NEW m \in Memories, NEW r, IsHook(r), WindowIs(r), End(r) <= Top,
         End(r) - r.site >= MIN_HOOK_LENGTH, NEW ptr \in Nat
  PROVE  /\ Patched(m, r, ptr, End(r) - r.site) \in Memories
         /\ Holds(Patched(m, r, ptr, End(r) - r.site), r.site, Transfer(Mode(r), r.site, ptr))
         /\ Holds(Patched(m, r, ptr, End(r) - r.site), r.site + MIN_HOOK_LENGTH,
                  Nops((End(r) - r.site) - MIN_HOOK_LENGTH))
         /\ \A b \in Nat, t \in Seq(Cells) :
              /\ Holds(m, b, t)
              /\ b + Len(t) <= r.site \/ End(r) <= b
              => Holds(Patched(m, r, ptr, End(r) - r.site), b, t)
PROOF
  <1> DEFINE M == MIN_HOOK_LENGTH
             a == r.site
             h == End(r) - r.site
             n == Nops(h)
             rest == Nops(h - M)
             u == Transfer(Mode(r), r.site, ptr)
             v == Write(m, a, n)
             w == Write(v, a, u)
  <1>1. Patched(m, r, ptr, h) = w
    BY DEF Patched, Mode
  <1>2. /\ a \in Nat /\ h \in Nat /\ M \in Nat /\ a + h = End(r) /\ a + h <= Top /\ M <= h
        /\ h - M \in Nat /\ a + M \in Nat /\ a + M <= Top /\ Top \in Nat
    <2> DEFINE e == End(r)
    <2>1. a \in Nat /\ e \in Nat /\ e > a
      BY DEF WindowIs
    <2>2. M \in Nat /\ Top \in Nat /\ h = e - a /\ e - a >= M /\ e <= Top
      BY MinHookLength, HookConstants
    <2> HIDE DEF e, a, M, h
    <2>3. h \in Nat /\ a + h = e /\ a + h <= Top /\ M <= h /\ h - M \in Nat
      BY <2>1, <2>2
    <2>4. a + M \in Nat /\ a + M <= Top
      BY <2>1, <2>2
    <2> QED
      BY <2>1, <2>2, <2>3, <2>4 DEF e
  <1>3. u \in Seq(Cells) /\ Len(u) = M
    BY <1>2, TransferIs DEF Mode
  <1> HIDE DEF a, h, M, u
  <1>4. /\ n \in Seq(Cells) /\ Len(n) = h
        /\ \A k \in 1 .. h : n[k] = [of |-> Nop, at |-> 1]
    BY <1>2, NopsIs
  <1>5. /\ rest \in Seq(Cells) /\ Len(rest) = h - M
        /\ \A k \in 1 .. h - M : rest[k] = [of |-> Nop, at |-> 1]
    BY <1>2, NopsIs
  <1> HIDE DEF n, rest
  <1>6. /\ v \in Memories
        /\ Holds(v, a, n)
        /\ \A b \in Nat, t \in Seq(Cells) :
             Holds(m, b, t) /\ (b + Len(t) <= a \/ a + Len(n) <= b) => Holds(v, b, t)
    BY <1>2, <1>4, WriteIs
  <1> HIDE DEF v
  <1>7. /\ w \in Memories
        /\ Holds(w, a, u)
        /\ \A b \in Nat, t \in Seq(Cells) :
             Holds(v, b, t) /\ (b + Len(t) <= a \/ a + Len(u) <= b) => Holds(w, b, t)
    BY <1>2, <1>3, <1>6, WriteIs
  <1> HIDE DEF w
  <1>8. Holds(v, a + M, rest)
    <2> SUFFICES ASSUME NEW k \in 1 .. h - M
                 PROVE  (a + M) + k - 1 \in DOMAIN v /\ v[(a + M) + k - 1] = rest[k]
      BY <1>5 DEF Holds
    <2>1. M + k \in 1 .. h /\ (a + M) + k - 1 = a + (M + k) - 1
      BY <1>2
    <2>2. a + (M + k) - 1 \in DOMAIN v /\ v[a + (M + k) - 1] = n[M + k]
      BY <1>4, <1>6, <2>1 DEF Holds
    <2> QED
      BY <1>4, <1>5, <2>1, <2>2
  <1>9. Holds(w, a + M, rest)
    <2>1. a + M <= a + M
      BY <1>2
    <2> QED
      BY <1>2, <1>3, <1>5, <1>7, <1>8, <2>1
  <1>10. ASSUME NEW b \in Nat, NEW t \in Seq(Cells), Holds(m, b, t),
                b + Len(t) <= a \/ a + h <= b
         PROVE  Holds(w, b, t)
    <2>1. Holds(v, b, t)
      BY <1>4, <1>6, <1>10
    <2>2. b + Len(t) <= a \/ a + M <= b
      <3>1. Len(t) \in Nat
        OBVIOUS
      <3> QED
        BY <1>2, <1>10, <3>1
    <2> QED
      BY <1>3, <1>7, <2>1, <2>2
  <1>11. ASSUME NEW b \in Nat, NEW t \in Seq(Cells), Holds(m, b, t),
                b + Len(t) <= r.site \/ End(r) <= b
         PROVE  Holds(w, b, t)
    <2>1. b + Len(t) <= a \/ a + h <= b
      BY <1>2, <1>11 DEF a
    <2> QED
      BY <1>10, <1>11, <2>1
  <1>12. Patched(m, r, ptr, End(r) - r.site) = w
    BY <1>1 DEF h
  <1> QED
    BY <1>7, <1>9, <1>11, <1>12 DEF a, M, h, u, rest

\* The addresses after r has been given a block.
With(at, D, r, ptr) == [q \in HooksOf(D \cup {r}) |-> IF q = r THEN ptr ELSE at[q]]

LEMMA PlacedHook ==
  ASSUME NEW rs, NEW D, NEW at, NEW slots, Placed(rs, D, at, slots),
         NEW r \in Hooks(rs), r \notin D, NEW ptr \in Slots \ slots
  PROVE  /\ Placed(rs, D \cup {r}, With(at, D, r, ptr), slots \cup {ptr})
         /\ With(at, D, r, ptr)[r] = ptr
         /\ \A q \in HooksOf(D) : q # r /\ With(at, D, r, ptr)[q] = at[q]
         /\ r \in HooksOf(D \cup {r}) /\ HooksOf(D \cup {r}) = HooksOf(D) \cup {r}
PROOF
  <1> DEFINE new == With(at, D, r, ptr)
             H == HooksOf(D)
             all == HooksOf(D \cup {r})
  <1>1. r \in Writes(rs) /\ r.kind = "hook"
    BY DEF Writes, Hooks
  <1>2. all = H \cup {r} /\ r \notin H
    BY <1>1 DEF HooksOf
  <1>3. /\ D \subseteq Writes(rs) /\ slots \subseteq Slots /\ at \in [H -> slots]
        /\ \A q, s \in H : q # s => at[q] # at[s]
    BY DEF Placed
  <1>4. new = [q \in all |-> IF q = r THEN ptr ELSE at[q]]
    BY DEF With
  <1> HIDE DEF new, H, all
  <1>5. new[r] = ptr /\ \A q \in H : q # r /\ new[q] = at[q] /\ at[q] \in slots
    BY <1>2, <1>3, <1>4
  <1>6. new \in [all -> slots \cup {ptr}]
    BY <1>2, <1>3, <1>4
  <1>7. \A q, s \in all : q # s => new[q] # new[s]
    BY <1>2, <1>3, <1>5
  <1>8. Placed(rs, D \cup {r}, new, slots \cup {ptr})
    BY <1>1, <1>3, <1>6, <1>7 DEF Placed, all
  <1> QED
    BY <1>2, <1>5, <1>8 DEF new, H, all

LEMMA Undisturbed ==
  ASSUME WindowsApart, NEW rs \in RequestSets, NEW D \in SUBSET Writes(rs), NEW at,
         NEW m, Laid(m, D, at), NEW r \in Writes(rs), r \notin D
  PROVE  WindowStands(m, r)
PROOF
  <1>1. WindowIs(r)
    BY WritesAre
  <1>2. ASSUME NEW n \in Window(r) PROVE Stands(m, Start(n), Program[n])
    <2>1. n \in DOMAIN Program
      BY <1>1, ProgramIs DEF WindowIs
    <2>2. ASSUME NEW q \in D PROVE n \notin Window(q)
      <3>1. q \in Writes(rs) \ {r}
        OBVIOUS
      <3>2. Window(r) \cap Window(q) = {}
        BY <3>1 DEF WindowsApart
      <3> QED
        BY <3>2
    <2> QED
      BY <2>1, <2>2 DEF Laid
  <1> QED
    BY <1>2 DEF WindowStands

LEMMA BlocksOutside ==
  ASSUME BlocksApart, NEW rs \in RequestSets, NEW r \in Hooks(rs), NEW ptr \in Slots
  PROVE  ptr \in Nat /\ BlockOutside(ptr, r) /\ ptr + WrittenLen(r) <= Top
PROOF
  <1>1. ptr \in Nat /\ Base \in Nat /\ Len(Code(Program)) \in Nat
    BY HookConstants, ProgramIs, CodeType
  <1>2. /\ ptr + WrittenLen(r) <= Top
        /\ ptr + WrittenLen(r) <= Base \/ ptr >= Base + Len(Code(Program))
    BY DEF BlocksApart
  <1>3. \A x, y \in Nat : x >= y => y <= x
    OBVIOUS
  <1>4. Base + Len(Code(Program)) \in Nat
    BY <1>1
  <1> QED
    BY <1>1, <1>2, <1>3, <1>4 DEF BlockOutside

LEMMA LaidHook ==
  ASSUME BlocksApart, WindowsApart, NEW rs \in RequestSets,
         NEW D, NEW at, NEW slots, Placed(rs, D, at, slots),
         NEW m, Laid(m, D, at),
         NEW r \in Hooks(rs), r \notin D, NEW ptr \in Slots \ slots
  PROVE  Laid(Patched(Write(m, ptr, Block(r, ptr)), r, ptr, End(r) - r.site),
              D \cup {r}, With(at, D, r, ptr))
PROOF
  <1> DEFINE s == Block(r, ptr)
             v == Write(m, ptr, s)
             w == Patched(v, r, ptr, End(r) - r.site)
             new == With(at, D, r, ptr)
             hi == ptr + WrittenLen(r)
  <1>1. /\ r \in Writes(rs) /\ r.kind = "hook" /\ IsHook(r) /\ Movable(r) /\ WindowIs(r)
        /\ End(r) - r.site >= MIN_HOOK_LENGTH /\ End(r) <= Top
        /\ End(r) <= Base + Len(Code(Program))
    <2>1. r \in Writes(rs) /\ r.kind = "hook"
      BY DEF Writes, Hooks
    <2> QED
      BY <2>1, WritesAre
  <1>2. ptr \in Nat /\ BlockOutside(ptr, r) /\ ptr + WrittenLen(r) <= Top
    BY BlocksOutside
  <1>3. s \in Seq(Cells) /\ Len(s) = WrittenLen(r) /\ WrittenLen(r) \in Nat
    BY <1>1, <1>2, BlockBytes
  <1>4. m \in Memories
    BY DEF Laid
  <1> HIDE DEF s
  <1>5. /\ v \in Memories /\ Holds(v, ptr, s)
        /\ \A b \in Nat, t \in Seq(Cells) :
             Holds(m, b, t) /\ (b + Len(t) <= ptr \/ hi <= b) => Holds(v, b, t)
    BY <1>2, <1>3, <1>4, WriteIs
  <1> HIDE DEF v
  <1>6. /\ w \in Memories
        /\ Holds(w, r.site, Transfer(Mode(r), r.site, ptr))
        /\ Holds(w, r.site + MIN_HOOK_LENGTH, Nops((End(r) - r.site) - MIN_HOOK_LENGTH))
        /\ \A b \in Nat, t \in Seq(Cells) :
             Holds(v, b, t) /\ (b + Len(t) <= r.site \/ End(r) <= b) => Holds(w, b, t)
    BY <1>1, <1>2, <1>5, PatchedIs
  <1> HIDE DEF w
  <1>7. Keeps(m, w, r, ptr, hi)
    BY <1>5, <1>6 DEF Keeps
  <1>8. Holds(w, ptr, s)
    <2>1. hi <= r.site \/ End(r) <= ptr
      <3> DEFINE lim == Base + Len(Code(Program))
                 e == End(r)
      <3>1. hi <= Base \/ lim <= ptr
        BY <1>2 DEF BlockOutside
      <3>2. r.site \in Nat /\ r.site >= Base /\ e \in Nat /\ e <= lim
        BY <1>1 DEF WindowIs
      <3>3. Base \in Nat /\ lim \in Nat /\ hi \in Nat
        BY <1>2, <1>3, HookConstants, ProgramIs, CodeType
      <3> HIDE DEF hi, lim, e
      <3>4. hi <= r.site \/ e <= ptr
        BY <1>2, <3>1, <3>2, <3>3
      <3> QED
        BY <3>4 DEF e
    <2> QED
      BY <1>2, <1>3, <1>5, <1>6, <2>1
  <1>9. /\ Placed(rs, D \cup {r}, new, slots \cup {ptr})
        /\ new[r] = ptr
        /\ \A q \in HooksOf(D) : new[q] = at[q]
    <2>1. Placed(rs, D, at, slots) /\ r \in Hooks(rs) /\ r \notin D /\ ptr \in Slots \ slots
      OBVIOUS
    <2>2. /\ Placed(rs, D \cup {r}, With(at, D, r, ptr), slots \cup {ptr})
          /\ With(at, D, r, ptr)[r] = ptr
          /\ \A q \in HooksOf(D) : q # r /\ With(at, D, r, ptr)[q] = at[q]
          /\ r \in HooksOf(D \cup {r}) /\ HooksOf(D \cup {r}) = HooksOf(D) \cup {r}
      BY ONLY <2>1, PlacedHook
    <2> QED
      BY ONLY <2>2
  <1> HIDE DEF new
  <1>10. ASSUME NEW q \in HooksOf(D)
         PROVE  /\ q \in Hooks(rs) /\ at[q] \in Slots /\ at[q] # ptr
                /\ at[q] \in Nat /\ BlockOutside(at[q], q)
                /\ at[q] + WrittenLen(q) <= ptr \/ hi <= at[q]
    <2>1. q \in Writes(rs) /\ q.kind = "hook"
      BY DEF Placed, HooksOf
    <2>2. q \in Hooks(rs)
      BY <2>1, WritesAre
    <2>3. at[q] \in slots /\ at[q] \in Slots /\ at[q] # ptr
      BY DEF Placed
    <2>4. at[q] \in Nat /\ BlockOutside(at[q], q)
      BY <2>2, <2>3, BlocksOutside
    <2>5. ptr + WrittenLen(r) <= at[q] \/ at[q] + WrittenLen(q) <= ptr
      <3>1. at[q] \in Slots \ {ptr}
        BY <2>3
      <3> QED
        BY <2>2, <3>1 DEF BlocksApart
    <2> QED
      BY <2>2, <2>3, <2>4, <2>5
  <1>11. Free(ptr, hi, D, at)
    <2>1. hi \in Nat
      BY <1>2, <1>3
    <2> QED
      BY <1>2, <1>10, <2>1 DEF Free, BlockOutside
  <1>12. /\ \A n \in DOMAIN Program :
              (\A q \in D \cup {r} : n \notin Window(q)) => Stands(w, Start(n), Program[n])
         /\ \A q \in D : Done(w, q, at)
    <2> HIDE DEF hi
    <2> QED BY <1>1, <1>7, <1>10, <1>11, LaidOthers
  <1>13. ASSUME NEW q \in D \cup {r} PROVE Done(w, q, new)
    <2>1. CASE q = r
      BY <1>1, <1>6, <1>8, <1>9, <2>1 DEF Done, s
    <2>2. CASE q \in D
      <3>1. Done(w, q, at)
        BY <1>12, <2>2
      <3>2. CASE q.kind = "nop"
        BY <3>1, <3>2 DEF Done
      <3>3. CASE q.kind # "nop"
        <4>1. q \in HooksOf(D)
          <5>1. q \in Writes(rs)
            BY <2>2 DEF Placed
          <5> QED
            BY <2>2, <3>3, <5>1 DEF HooksOf, Writes, Hooks, Clears
        <4>2. new[q] = at[q]
          BY <1>9, <4>1
        <4> QED
          BY <3>1, <3>3, <4>2 DEF Done
      <3> QED
        BY <3>2, <3>3
    <2> QED
      BY <2>1, <2>2
  <1> QED
    BY <1>6, <1>12, <1>13 DEF Laid, w, v, s, new

LEMMA LaidNop ==
  ASSUME BlocksApart, WindowsApart, NEW rs \in RequestSets,
         NEW D, NEW at, NEW slots, Placed(rs, D, at, slots),
         NEW m, Laid(m, D, at),
         NEW r \in Clears(rs), r \notin D
  PROVE  /\ Laid(Write(m, r.site, Nops(End(r) - r.site)), D \cup {r}, at)
         /\ Placed(rs, D \cup {r}, at, slots)
         /\ HooksOf(D \cup {r}) = HooksOf(D)
PROOF
  <1> DEFINE h == End(r) - r.site
             s == Nops(h)
             w == Write(m, r.site, s)
  <1>1. r \in Writes(rs) /\ r.kind = "nop" /\ WindowIs(r) /\ End(r) <= Top
    <2>1. r \in Writes(rs) /\ r.kind = "nop"
      BY DEF Writes, Clears
    <2> QED
      BY <2>1, WritesAre
  <1>2. h \in Nat /\ r.site \in Nat /\ r.site + h = End(r) /\ r.site + h <= Top
    <2> DEFINE e == End(r)
    <2>1. e \in Nat /\ r.site \in Nat /\ e > r.site /\ e <= Top
      BY <1>1 DEF WindowIs
    <2>2. h = e - r.site
      OBVIOUS
    <2> HIDE DEF e, h
    <2>3. h \in Nat /\ r.site \in Nat /\ r.site + h = e /\ r.site + h <= Top
      BY <2>1, <2>2
    <2> QED
      BY <2>3 DEF e
  <1> HIDE DEF h
  <1>3. s \in Seq(Cells) /\ Len(s) = h
    BY <1>2, NopsIs
  <1> HIDE DEF s
  <1>4. m \in Memories
    BY DEF Laid
  <1>5. /\ w \in Memories /\ Holds(w, r.site, s)
        /\ \A b \in Nat, t \in Seq(Cells) :
             Holds(m, b, t) /\ (b + Len(t) <= r.site \/ End(r) <= b) => Holds(w, b, t)
    BY <1>2, <1>3, <1>4, WriteIs
  <1> HIDE DEF w
  <1>6. Keeps(m, w, r, 0, 0)
    BY <1>5 DEF Keeps
  <1>7. ASSUME NEW q \in HooksOf(D)
        PROVE  at[q] \in Nat /\ BlockOutside(at[q], q)
    <2>1. q \in Writes(rs) /\ q.kind = "hook"
      BY DEF Placed, HooksOf
    <2>2. q \in Hooks(rs)
      BY <2>1, WritesAre
    <2>3. at[q] \in Slots
      BY DEF Placed
    <2> QED
      BY <2>2, <2>3, BlocksOutside
  <1>8. Free(0, 0, D, at)
    <2>1. Base \in Nat /\ \A x \in Nat : 0 <= x
      BY HookConstants
    <2> QED
      BY <1>7, <2>1 DEF Free
  <1>9. /\ \A n \in DOMAIN Program :
             (\A q \in D \cup {r} : n \notin Window(q)) => Stands(w, Start(n), Program[n])
        /\ \A q \in D : Done(w, q, at)
    BY <1>1, <1>6, <1>7, <1>8, LaidOthers
  <1>10. Done(w, r, at)
    BY <1>1, <1>5 DEF Done, s, h
  <1>11. Laid(w, D \cup {r}, at)
    BY <1>5, <1>9, <1>10 DEF Laid
  <1>12. HooksOf(D \cup {r}) = HooksOf(D)
    BY <1>1 DEF HooksOf
  <1>13. Placed(rs, D \cup {r}, at, slots)
    BY <1>1, <1>12 DEF Placed
  <1> QED
    BY <1>11, <1>12, <1>13 DEF w, s, h

-----------------------------------------------------------------------------
(* The plan with the requests D made.                                       *)

\* What the routine asks for as it is loaded, and what a request asks for.
Loaded(n) ==
  IF Routine[n].kind = "jmp"
  THEN [run |-> <<>>, to |-> Start(n) + Routine[n].len + Routine[n].arg]
  ELSE [run |-> <<Routine[n].arg>>, to |-> Start(n) + Routine[n].len]
Asked(r) == IF r.kind = "nop" THEN <<>> ELSE NamesOf(Spliced(r))

Planned(p, D) ==
  /\ DOMAIN p = {Start(n) : n \in DOMAIN Routine}
  /\ \A n \in DOMAIN Routine : (\A r \in D : n # First(r)) => p[Start(n)] = Loaded(n)
  /\ \A r \in D : p[r.site] = [run |-> Asked(r), to |-> End(r)]

LEMMA LoadedIs ==
  ASSUME NEW n \in DOMAIN Routine
  PROVE  /\ Start(n) \in 0 .. Top - 1
         /\ Loaded(n).run \in Seq(Acts)
         /\ Loaded(n).to \in Start(n) + 1 .. Top
         /\ Routine[n].kind = "plain" =>
              Loaded(n) = [run |-> <<Routine[n].arg>>, to |-> Start(n + 1)]
PROOF
  <1> DEFINE P == Len(Program)
             i == Routine[n]
  <1>1. /\ n \in 1 .. P /\ P \in Nat /\ i \in Instrs /\ Program[n] = i
        /\ i.kind \in {"plain", "jmp"}
    BY ProgramIs
  <1>2. Start(n + 1) = Start(n) + i.len /\ i.len \in Nat /\ i.len > 0
    BY <1>1, Starts
  <1>3. ASSUME NEW m \in 1 .. P PROVE Start(m) \in Nat /\ Start(m) < Top
    <2>1. m \in 1 .. P + 1 /\ P + 1 \in 1 .. P + 1 /\ m < P + 1
      BY <1>1
    <2>2. Start(m) \in Nat /\ Start(P + 1) \in Nat /\ Start(m) < Start(P + 1) /\ Start(P + 1) <= Top
      BY <2>1, Starts
    <2>3. \A x, y, z \in Nat : x < y /\ y <= z => x < z
      OBVIOUS
    <2> QED
      BY <2>2, <2>3, HookConstants
  <1>4. Top \in Nat
    BY HookConstants
  <1>5. Start(n) \in 0 .. Top - 1 /\ Start(n) \in Nat
    BY <1>1, <1>3, <1>4
  <1>6. CASE i.kind = "jmp"
    <2>1. i.arg \in Nat /\ \E m \in DOMAIN Program : Start(n) + i.len + i.arg = Start(m)
      BY <1>6, ProgramIs
    <2>2. PICK m \in 1 .. P : Start(n) + i.len + i.arg = Start(m)
      BY <2>1, ProgramIs
    <2>3. Loaded(n) = [run |-> <<>>, to |-> Start(n) + i.len + i.arg]
      BY <1>6 DEF Loaded
    <2>4. Loaded(n).run = <<>> /\ Loaded(n).to = Start(m)
      BY <2>2, <2>3
    <2>5. Start(m) < Top /\ Start(m) \in Nat
      BY <1>3
    <2> HIDE DEF i
    <2>6. Start(m) \in Start(n) + 1 .. Top
      BY <1>2, <1>4, <1>5, <2>1, <2>2, <2>5
    <2>7. <<>> \in Seq(Acts)
      OBVIOUS
    <2> QED
      BY <1>5, <1>6, <2>4, <2>6, <2>7 DEF i
  <1>7. CASE i.kind = "plain"
    <2>1. Loaded(n) = [run |-> <<i.arg>>, to |-> Start(n) + i.len]
      BY <1>7 DEF Loaded
    <2>2. Loaded(n) = [run |-> <<i.arg>>, to |-> Start(n + 1)]
      BY <1>2, <2>1
    <2>3. i.arg \in Acts
      BY <1>1 DEF Instrs
    <2>4. <<i.arg>> \in Seq(Acts)
      BY <2>3
    <2>5. Start(n + 1) <= Top
      <3>1. n + 1 \in 1 .. P \/ n + 1 = P + 1
        BY <1>1
      <3>2. CASE n + 1 \in 1 .. P
        BY <1>3, <1>4, <3>2
      <3>3. CASE n + 1 = P + 1
        BY <3>3, Starts
      <3> QED
        BY <3>1, <3>2, <3>3
    <2>6. Start(n + 1) \in Start(n) + 1 .. Top
      BY <1>2, <1>4, <1>5, <2>5
    <2>7. Loaded(n).run = <<i.arg>> /\ Loaded(n).to = Start(n + 1)
      BY <2>2
    <2> QED
      BY <1>5, <2>2, <2>4, <2>6, <2>7
  <1> QED
    BY <1>1, <1>6, <1>7

LEMMA PlannedInit ==
  Planned([a \in {Start(n) : n \in DOMAIN Routine} |->
             LET i == Routine[IndexOf(a)]
             IN IF i.kind = "jmp" THEN [run |-> <<>>, to |-> a + i.len + i.arg]
                ELSE [run |-> <<i.arg>>, to |-> a + i.len]], {})
PROOF
  <1> DEFINE p == [a \in {Start(n) : n \in DOMAIN Routine} |->
                     LET i == Routine[IndexOf(a)]
                     IN IF i.kind = "jmp" THEN [run |-> <<>>, to |-> a + i.len + i.arg]
                        ELSE [run |-> <<i.arg>>, to |-> a + i.len]]
  <1>1. ASSUME NEW n \in DOMAIN Routine PROVE p[Start(n)] = Loaded(n)
    <2>1. IndexOf(Start(n)) = n
      BY IndexIs
    <2>2. p[Start(n)] = LET i == Routine[IndexOf(Start(n))]
                        IN IF i.kind = "jmp" THEN [run |-> <<>>, to |-> Start(n) + i.len + i.arg]
                           ELSE [run |-> <<i.arg>>, to |-> Start(n) + i.len]
      OBVIOUS
    <2> HIDE DEF p
    <2> QED
      BY <2>1, <2>2 DEF Loaded
  <1>2. DOMAIN p = {Start(n) : n \in DOMAIN Routine}
    OBVIOUS
  <1> HIDE DEF p
  <1>3. Planned(p, {})
    BY <1>1, <1>2 DEF Planned
  <1> QED
    BY <1>3 DEF p

LEMMA AskedType ==
  ASSUME WindowsApart, NEW rs \in RequestSets, NEW r \in Writes(rs)
  PROVE  Asked(r) \in Seq(Acts)
PROOF
  <1>1. CASE r.kind = "nop"
    <2>1. <<>> \in Seq(Acts)
      OBVIOUS
    <2> QED
      BY <1>1, <2>1 DEF Asked
  <1>2. CASE r.kind = "hook"
    <2>1. BlockIs(r)
      BY <1>2, WritesAre, SplicedIs
    <2>2. NamesOf(Spliced(r)) \in Seq(Acts)
      BY <2>1, NamesType DEF BlockIs
    <2> QED
      BY <1>2, <2>2 DEF Asked
  <1> QED
    BY <1>1, <1>2, WritesAre

LEMMA PlannedIs ==
  ASSUME WindowsApart, NEW rs \in RequestSets, NEW D \in SUBSET Writes(rs),
         NEW p, Planned(p, D)
  PROVE  PlanIs(p)
PROOF
  <1> SUFFICES ASSUME NEW a \in DOMAIN p
               PROVE  /\ a \in 0 .. Top - 1
                      /\ p[a].run \in Seq(Acts)
                      /\ p[a].to \in a + 1 .. Top
    BY DEF PlanIs
  <1>1. PICK n \in DOMAIN Routine : a = Start(n)
    BY DEF Planned
  <1>2. CASE \A r \in D : n # First(r)
    <2>1. p[a] = Loaded(n)
      BY <1>1, <1>2 DEF Planned
    <2> QED
      BY <1>1, <2>1, LoadedIs
  <1>3. CASE \E r \in D : n = First(r)
    <2>1. PICK r \in D : n = First(r)
      BY <1>3
    <2>2. r \in Writes(rs)
      OBVIOUS
    <2>3. WindowIs(r) /\ End(r) <= Top
      BY <2>2, WritesAre
    <2>4. a = r.site /\ r.site \in Nat /\ End(r) \in Nat /\ End(r) > r.site
      BY <1>1, <2>1, <2>3 DEF WindowIs
    <2>5. p[a] = [run |-> Asked(r), to |-> End(r)]
      BY <2>1, <2>4 DEF Planned
    <2>6. p[a].run = Asked(r) /\ p[a].to = End(r)
      BY <2>5
    <2>7. Asked(r) \in Seq(Acts)
      BY <2>2, AskedType
    <2>8. a \in 0 .. Top - 1
      BY <1>1, LoadedIs
    <2>9. End(r) \in a + 1 .. Top
      <3> DEFINE e == End(r)
      <3>1. a \in Nat /\ e \in Nat /\ e > a /\ e <= Top /\ Top \in Nat
        BY <2>3, <2>4, HookConstants
      <3> HIDE DEF e
      <3>2. e \in a + 1 .. Top
        BY <3>1
      <3> QED
        BY <3>2 DEF e
    <2> QED
      BY <2>6, <2>7, <2>8, <2>9
  <1> QED
    BY <1>2, <1>3

\* A request made changes the plan at its window only.
LEMMA PlannedMore ==
  ASSUME WindowsApart, NEW rs \in RequestSets, NEW D \in SUBSET Writes(rs),
         NEW p, Planned(p, D), NEW r \in Writes(rs), r \notin D
  PROVE  Planned([p EXCEPT ![r.site] = [run |-> Asked(r), to |-> End(r)]], D \cup {r})
PROOF
  <1> DEFINE e == [run |-> Asked(r), to |-> End(r)]
             w == [p EXCEPT ![r.site] = e]
  <1>1. WindowIs(r) /\ First(r) \in DOMAIN Routine /\ Start(First(r)) = r.site
    BY WritesAre, ProgramIs DEF WindowIs
  <1>2. r.site \in DOMAIN p /\ DOMAIN p = {Start(n) : n \in DOMAIN Routine}
    BY <1>1 DEF Planned
  <1> HIDE DEF e
  <1>3. DOMAIN w = DOMAIN p /\ w[r.site] = e /\ \A a \in DOMAIN p : a # r.site => w[a] = p[a]
    BY <1>2
  <1> HIDE DEF w
  <1>4. ASSUME NEW n \in DOMAIN Routine, n # First(r) PROVE w[Start(n)] = p[Start(n)]
    <2>1. Start(n) # r.site
      <3>1. IndexOf(Start(n)) = n
        BY IndexIs
      <3> QED
        BY <1>4, <3>1 DEF First
    <2> QED
      BY <1>2, <1>3, <2>1
  <1>5. ASSUME NEW n \in DOMAIN Routine, \A q \in D \cup {r} : n # First(q)
        PROVE  w[Start(n)] = Loaded(n)
    BY <1>4, <1>5 DEF Planned
  <1>6. ASSUME NEW q \in D \cup {r} PROVE w[q.site] = [run |-> Asked(q), to |-> End(q)]
    <2>1. CASE q = r
      BY <1>3, <2>1 DEF e
    <2>2. CASE q \in D
      <3>1. q \in Writes(rs) \ {r}
        BY <2>2
      <3>2. WindowIs(q) /\ First(q) \in DOMAIN Routine /\ Start(First(q)) = q.site
        BY <3>1, WritesAre, ProgramIs DEF WindowIs
      <3>3. First(q) # First(r)
        <4>1. Window(q) \cap Window(r) = {}
          BY <3>1 DEF WindowsApart
        <4>2. \A f, c \in Nat : c > 0 => f \in f .. f + c - 1
          OBVIOUS
        <4>3. \A s : WindowIs(s) => First(s) \in Nat /\ Count(s) \in Nat /\ Count(s) > 0
          BY DEF WindowIs
        <4>4. First(q) \in Window(q) /\ First(r) \in Window(r)
          BY <1>1, <3>2, <4>2, <4>3 DEF Window
        <4> QED
          BY <4>1, <4>4
      <3>4. w[q.site] = p[q.site]
        BY <1>4, <3>2, <3>3
      <3> QED
        BY <2>2, <3>4 DEF Planned
    <2> QED
      BY <2>1, <2>2
  <1> QED
    BY <1>2, <1>3, <1>5, <1>6 DEF Planned, w, e

\* What Follow finds for a hook.
LEMMA PlannedWindow ==
  ASSUME WindowsApart, NEW rs \in RequestSets, NEW D \in SUBSET Writes(rs),
         NEW p, Planned(p, D), NEW r \in Hooks(rs), r \notin D
  PROVE  /\ Follow(p, r.site, MIN_HOOK_LENGTH) = [run |-> NamesOf(Original(r)), to |-> End(r)]
         /\ Asked(r) = Splice(r.behavior, Names(r.body), NamesOf(Original(r)))
PROOF
  <1>1. r \in Writes(rs) /\ r.kind = "hook" /\ r.kind # "nop"
    BY DEF Hooks, Writes
  <1>2. WindowIs(r) /\ IsHook(r) /\ Movable(r)
    BY <1>1, WritesAre
  <1>3. PlanIs(p)
    BY PlannedIs
  <1>4. ASSUME NEW n \in Window(r)
        PROVE  /\ Start(n) \in DOMAIN p
               /\ p[Start(n)] = [run |-> <<Routine[n].arg>>, to |-> Start(n + 1)]
    <2>1. n \in DOMAIN Routine /\ Routine[n].kind = "plain"
      BY <1>2, ProgramIs DEF WindowIs, Movable
    <2>2. ASSUME NEW q \in D PROVE n # First(q)
      <3>1. q \in Writes(rs) \ {r}
        OBVIOUS
      <3>2. Window(r) \cap Window(q) = {}
        BY <1>1, <3>1 DEF WindowsApart
      <3>3. First(q) \in Window(q)
        <4>1. WindowIs(q)
          BY <3>1, WritesAre
        <4> QED
          BY <4>1 DEF WindowIs, Window
      <3> QED
        BY <3>2, <3>3
    <2>3. p[Start(n)] = Loaded(n)
      BY <2>1, <2>2 DEF Planned
    <2>4. Start(n) \in DOMAIN p
      BY <2>1 DEF Planned
    <2> QED
      BY <2>1, <2>3, <2>4, LoadedIs
  <1>5. Follow(p, r.site, MIN_HOOK_LENGTH) = [run |-> NamesOf(Original(r)), to |-> End(r)]
    BY <1>1, <1>2, <1>3, <1>4, WindowFollowed
  <1>6. BlockIs(r)
    BY <1>2, SplicedIs
  <1> QED
    BY <1>1, <1>5, <1>6 DEF BlockIs, Asked

-----------------------------------------------------------------------------
(* Where the thread is, and what it still has to run.                       *)

\* The thread may come to instruction n: it is not inside a window.
Enterable(D, n) == \A r \in D : n \in Window(r) => n = First(r)

\* It is at a, st are its return addresses, and rest is still to be run: before
\* an instruction of the routine, in a block behind its first k instructions,
\* or in what a window was filled up with.
AtInstr(p, D, a, st, rest) ==
  \E n \in DOMAIN Program :
    /\ Enterable(D, n)
    /\ a = Start(n)
    /\ st = <<Outside>>
    /\ rest = AskedFrom(p, a)

InBlock(p, D, at, a, st, rest) ==
  \E r \in HooksOf(D) : \E k \in 0 .. Len(Spliced(r)) :
    /\ a = at[r] + Len(CodeUpTo(Spliced(r))[k])
    /\ st = IF r.parameter = "jump" THEN <<Outside>>
            ELSE <<r.site + MIN_HOOK_LENGTH, Outside>>
    /\ rest = NamesFrom(Spliced(r), k) \o AskedFrom(p, End(r))

InNops(p, D, a, st, rest) ==
  \E r \in D :
    /\ a \in r.site .. End(r) - 1
    /\ r.kind = "hook" => a >= r.site + MIN_HOOK_LENGTH
    /\ st = <<Outside>>
    /\ rest = AskedFrom(p, End(r))

Position(p, D, at, a, st, rest) ==
  AtInstr(p, D, a, st, rest) \/ InBlock(p, D, at, a, st, rest) \/ InNops(p, D, a, st, rest)

LEMMA NextEnterable ==
  ASSUME WindowsApart, NEW rs \in RequestSets, NEW D \in SUBSET Writes(rs),
         NEW n \in DOMAIN Routine, \A r \in D : n \notin Window(r)
  PROVE  n + 1 \in DOMAIN Program /\ Enterable(D, n + 1)
PROOF
  <1>1. n + 1 \in DOMAIN Program
    BY ProgramIs
  <1>2. ASSUME NEW r \in D, n + 1 \in Window(r) PROVE n + 1 = First(r)
    <2>1. WindowIs(r)
      BY WritesAre
    <2> DEFINE f == First(r)
               c == Count(r)
    <2>2. f \in Nat /\ c \in Nat /\ n \in Nat
      BY <2>1, ProgramIs DEF WindowIs
    <2>3. n + 1 \in f .. f + c - 1 /\ n \notin f .. f + c - 1
      BY <1>2 DEF Window
    <2> HIDE DEF f, c
    <2>4. n + 1 = f
      BY <2>2, <2>3
    <2> QED
      BY <2>4 DEF f
  <1> QED
    BY <1>1, <1>2 DEF Enterable

LEMMA EndEnterable ==
  ASSUME WindowsApart, NEW rs \in RequestSets, NEW D \in SUBSET Writes(rs), NEW r \in D
  PROVE  /\ First(r) + Count(r) \in DOMAIN Program
         /\ Enterable(D, First(r) + Count(r))
PROOF
  <1> DEFINE f == First(r)
             c == Count(r)
  <1>1. WindowIs(r)
    BY WritesAre
  <1>2. f \in Nat /\ c \in Nat /\ c > 0 /\ f + c \in DOMAIN Program
    BY <1>1, ProgramIs DEF WindowIs
  <1>3. ASSUME NEW q \in D, f + c \in Window(q) PROVE f + c = First(q)
    <2> DEFINE g == First(q)
               d == Count(q)
    <2>1. f + c \in g .. g + d - 1
      BY <1>3 DEF Window
    <2>2. WindowIs(q)
      BY WritesAre
    <2>3. g \in Nat /\ d \in Nat
      BY <2>2 DEF WindowIs
    <2>4. CASE q = r
      <3>1. f + c \in f .. f + c - 1
        BY <2>1, <2>4
      <3> HIDE DEF f, c
      <3>2. FALSE
        BY <1>2, <3>1
      <3> QED
        BY <3>2
    <2>5. CASE q # r
      <3>1. (f .. f + c - 1) \cap (g .. g + d - 1) = {}
        <4>1. r \in Writes(rs) /\ q \in Writes(rs) \ {r}
          BY <2>5
        <4> QED
          BY <4>1 DEF WindowsApart, Window
      <3> HIDE DEF f, c, g, d
      <3>2. f + c - 1 \in f .. f + c - 1 /\ (f + c - 1 \in g .. g + d - 1 \/ f + c = g)
        BY <1>2, <2>1, <2>3
      <3>3. f + c = g
        BY <3>1, <3>2
      <3> QED
        BY <3>3 DEF f, c, g
    <2> QED
      BY <2>4, <2>5
  <1> QED
    BY <1>2, <1>3 DEF Enterable

LEMMA TargetEnterable ==
  ASSUME WindowsApart, NEW rs \in RequestSets, NEW D \in SUBSET Writes(rs),
         NEW m \in DOMAIN Program,
         \/ Start(m) \in Entries
         \/ \E n \in DOMAIN Routine :
              Routine[n].kind = "jmp" /\ Start(n) + Routine[n].len + Routine[n].arg = Start(m)
  PROVE  Enterable(D, m)
PROOF
  <1> SUFFICES ASSUME NEW r \in D, m \in Window(r), m # First(r) PROVE FALSE
    BY DEF Enterable
  <1>1. r \in Writes(rs) /\ m \in Window(r) \ {First(r)}
    OBVIOUS
  <1> QED
    BY <1>1 DEF WindowsApart

\* Where a hook or a cleared window ends the routine goes on.
LEMMA Afterwards ==
  ASSUME WindowsApart, NEW rs \in RequestSets, NEW D \in SUBSET Writes(rs),
         NEW r \in D, NEW p, NEW at, NEW a \in r.site .. End(r),
         r.kind = "hook" => a >= r.site + MIN_HOOK_LENGTH
  PROVE  Position(p, D, at, a, <<Outside>>, AskedFrom(p, End(r)))
PROOF
  <1>1. WindowIs(r)
    BY WritesAre
  <1>2. CASE a = End(r)
    <2>1. AtInstr(p, D, a, <<Outside>>, AskedFrom(p, End(r)))
      BY <1>2, EndEnterable DEF AtInstr, End
    <2> QED
      BY <2>1 DEF Position
  <1>3. CASE a # End(r)
    <2> DEFINE e == End(r)
    <2>1. e \in Nat /\ r.site \in Nat /\ a \in r.site .. e /\ a # e
      BY <1>1, <1>3 DEF WindowIs
    <2> HIDE DEF e
    <2>2. a \in r.site .. e - 1
      BY <2>1
    <2>3. InNops(p, D, a, <<Outside>>, AskedFrom(p, End(r)))
      BY <2>2 DEF InNops, e
    <2> QED
      BY <2>3 DEF Position
  <1> QED
    BY <1>2, <1>3

LEMMA PagesWithin ==
  ASSUME NEW a \in Nat, NEW len \in Nat, NEW b \in Nat, NEW lim \in Nat,
         b <= a, a + len <= b + lim
  PROVE  Pages(a, len) \subseteq Pages(b, lim)
PROOF
  <1>1. \A x \in a .. a + len - 1 : x \in b .. b + lim - 1
    OBVIOUS
  <1> QED
    BY <1>1 DEF Pages

\* The memory, the plan and the requests, in some state.
Charted(rs, D, at) ==
  /\ todo \subseteq rs /\ D \cap todo = {}
  /\ asmFailed \in BOOLEAN
  /\ Placed(rs, D, at, used)
  /\ Laid(mem, D, at)
  /\ Planned(plan, D)
  /\ executable \subseteq 0 .. (Top - 1) \div PageSize
  /\ Pages(Base, Len(Code(Program))) \subseteq executable
  /\ \A r \in HooksOf(D) :
       IF r.errors THEN asmFailed ELSE Pages(at[r], WrittenLen(r)) \subseteq executable

\* Instruction i is what the thread comes to, and can execute.
Faces(i) ==
  /\ i \in Instrs /\ pc \in Nat
  /\ Stands(mem, pc, i)
  /\ i.kind \notin {"pointer", "data"}
  /\ asmFailed \/ Pages(pc, i.len) \subseteq executable

\* And i leads to where the thread should be.
Leads(i, D, at, st, rest) ==
  \/ /\ i.kind = "nop"
     /\ Position(plan, D, at, pc + i.len, st, rest)
  \/ /\ i.kind = "plain"
     /\ \E more \in Seq(Acts) :
          rest = <<i.arg>> \o more /\ Position(plan, D, at, pc + i.len, st, more)
  \/ /\ i.kind = "jmp"
     /\ \A b \in Targets(i) : Position(plan, D, at, b, st, rest)
  \/ /\ i.kind = "call"
     /\ \A b \in Targets(i) : Position(plan, D, at, b, <<pc + i.len>> \o st, rest)
  \/ /\ i = Ret
     /\ \/ st = <<Outside>> /\ rest = <<>>
        \/ \E a \in Nat : st = <<a, Outside>> /\ Position(plan, D, at, a, <<Outside>>, rest)

\* The return addresses of a thread in the routine.
Stacked(D, st) ==
  \/ st = <<>>
  \/ st = <<Outside>>
  \/ \E r \in HooksOf(D) : st = <<r.site + MIN_HOOK_LENGTH, Outside>>

\* The thread.
Threaded(D, at) ==
  /\ ran \in Seq(Acts) /\ want \in Seq(Acts)
  /\ Stacked(D, stack)
  /\ \/ pc = Outside /\ stack = <<>> /\ ran = want
     \/ pc = Crashed /\ asmFailed
     \/ pc \in Nat /\ \E rest \in Seq(Acts) :
          Position(plan, D, at, pc, stack, rest) /\ want = ran \o rest

HookInv ==
  \E rs \in RequestSets : \E D \in SUBSET rs : \E at \in [HooksOf(D) -> used] :
    Charted(rs, D, at) /\ Threaded(D, at)

-----------------------------------------------------------------------------
(* One step of the thread.                                                  *)

LEMMA AtInstrFaces ==
  ASSUME HooksWork, NEW rs \in RequestSets, NEW D, NEW at, Charted(rs, D, at),
         NEW n \in DOMAIN Program, \A r \in D : n \notin Window(r), pc = Start(n)
  PROVE  Faces(Program[n])
PROOF
  <1>1. /\ pc \in Nat /\ Base <= pc /\ Program[n] \in Instrs
        /\ pc + Program[n].len <= Base + Len(Code(Program))
    BY InRoutine
  <1>2. Stands(mem, pc, Program[n])
    BY DEF Charted, Laid
  <1>3. Program[n].kind \notin {"pointer", "data"}
    <2>1. n \in DOMAIN Routine \/ n = Len(Program)
      BY ProgramIs
    <2>2. CASE n \in DOMAIN Routine
      BY <2>2, ProgramIs
    <2>3. CASE n = Len(Program)
      BY <2>3, ProgramIs DEF Ret, Instr
    <2> QED
      BY <2>1, <2>2, <2>3
  <1>4. Program[n].len \in Nat /\ Base \in Nat /\ Len(Code(Program)) \in Nat
    BY <1>1, BytesIs, HookConstants, ProgramIs, CodeType
  <1>5. Pages(pc, Program[n].len) \subseteq Pages(Base, Len(Code(Program)))
    BY <1>1, <1>4, PagesWithin
  <1> QED
    BY <1>1, <1>2, <1>3, <1>5 DEF Charted, Faces

\* At an instruction that no request has been made for.
LEMMA AtOriginal ==
  ASSUME HooksWork, NEW rs \in RequestSets, NEW D, NEW at, Charted(rs, D, at),
         NEW n \in DOMAIN Routine, \A r \in D : n \notin Window(r), pc = Start(n)
  PROVE  Faces(Routine[n]) /\ Leads(Routine[n], D, at, <<Outside>>, AskedFrom(plan, pc))
PROOF
  <1> DEFINE i == Routine[n]
             p == plan
  <1>1. WindowsApart /\ D \in SUBSET Writes(rs) /\ Planned(p, D)
    BY DEF HooksWork, Charted, Placed
  <1>2. PlanIs(p)
    BY <1>1, PlannedIs
  <1>3. n \in DOMAIN Program /\ Program[n] = i /\ i.kind \in {"plain", "jmp"} /\ i \in Instrs
    BY ProgramIs
  <1>4. Faces(i)
    BY <1>3, AtInstrFaces
  <1>5. \A r \in D : n # First(r)
    <2>1. ASSUME NEW r \in D PROVE First(r) \in Window(r)
      <3>1. WindowIs(r)
        BY <1>1, WritesAre
      <3> QED
        BY <3>1 DEF WindowIs, Window
    <2> QED
      BY <2>1
  <1>6. p[pc] = Loaded(n) /\ pc \in DOMAIN p
    BY <1>1, <1>5 DEF Planned
  <1>7. pc \in 0 .. Top
    BY <1>2, <1>6, HookConstants DEF PlanIs
  <1>8. AskedFrom(p, pc) = p[pc].run \o AskedFrom(p, p[pc].to) /\ p[pc].to \in 0 .. Top
    BY <1>2, <1>6, <1>7, AskedIs
  <1>9. AskedFrom(p, p[pc].to) \in Seq(Acts)
    BY <1>2, <1>8, AskedIs
  <1>10. CASE i.kind = "plain"
    <2>1. p[pc] = [run |-> <<i.arg>>, to |-> Start(n + 1)]
      BY <1>6, <1>10, LoadedIs
    <2>2. p[pc].run = <<i.arg>> /\ p[pc].to = Start(n + 1)
      BY <2>1
    <2>3. n + 1 \in DOMAIN Program /\ Enterable(D, n + 1)
      BY <1>1, NextEnterable
    <2>4. pc + i.len = Start(n + 1)
      BY <1>3, Starts, ProgramIs
    <2>5. AtInstr(p, D, pc + i.len, <<Outside>>, AskedFrom(p, Start(n + 1)))
      BY <2>3, <2>4 DEF AtInstr
    <2>6. AskedFrom(p, Start(n + 1)) \in Seq(Acts)
      BY <1>9, <2>2
    <2>7. AskedFrom(p, pc) = <<i.arg>> \o AskedFrom(p, Start(n + 1))
      BY <1>8, <2>2
    <2> HIDE DEF i
    <2>8. Leads(i, D, at, <<Outside>>, AskedFrom(p, pc))
      BY <1>10, <2>5, <2>6, <2>7 DEF Leads, Position
    <2> QED
      BY <1>4, <2>8 DEF i
  <1>11. CASE i.kind = "jmp"
    <2>1. /\ ~Wide /\ i.arg \in Nat
          /\ \E m \in DOMAIN Program : Start(n) + i.len + i.arg = Start(m)
      BY <1>11, ProgramIs
    <2>2. PICK m \in DOMAIN Program : Start(n) + i.len + i.arg = Start(m)
      BY <2>1
    <2>3. p[pc] = [run |-> <<>>, to |-> Start(n) + i.len + i.arg]
      BY <1>6, <1>11 DEF Loaded
    <2>4. p[pc].run = <<>> /\ p[pc].to = Start(m)
      BY <2>2, <2>3
    <2>5. Enterable(D, m)
      <3>1. \E k \in DOMAIN Routine :
              Routine[k].kind = "jmp" /\ Start(k) + Routine[k].len + Routine[k].arg = Start(m)
        BY <1>11, <2>2
      <3> QED
        BY <1>1, <3>1, TargetEnterable
    <2>6. AskedFrom(p, pc) = AskedFrom(p, Start(m))
      <3> DEFINE x == AskedFrom(p, Start(m))
      <3>1. x \in Seq(Acts)
        BY <1>9, <2>4
      <3>2. AskedFrom(p, pc) = <<>> \o x
        BY <1>8, <2>4
      <3> HIDE DEF x
      <3>3. <<>> \o x = x
        BY <3>1, OfNames
      <3> QED
        BY <3>2, <3>3 DEF x
    <2>7. Targets(i) = {Start(m)}
      BY <2>1, <2>2 DEF Targets
    <2>8. AtInstr(p, D, Start(m), <<Outside>>, AskedFrom(p, pc))
      BY <2>5, <2>6 DEF AtInstr
    <2> HIDE DEF i
    <2>9. Leads(i, D, at, <<Outside>>, AskedFrom(p, pc))
      BY <1>11, <2>7, <2>8 DEF Leads, Position
    <2> QED
      BY <1>4, <2>9 DEF i
  <1> QED
    BY <1>3, <1>10, <1>11

\* At the end of the routine.
LEMMA AtReturn ==
  ASSUME HooksWork, NEW rs \in RequestSets, NEW D, NEW at, Charted(rs, D, at),
         pc = Start(Len(Program))
  PROVE  Faces(Ret) /\ Leads(Ret, D, at, <<Outside>>, AskedFrom(plan, pc))
PROOF
  <1> DEFINE n == Len(Program)
  <1>1. WindowsApart /\ D \in SUBSET Writes(rs) /\ Planned(plan, D)
    BY DEF HooksWork, Charted, Placed
  <1>2. n \in DOMAIN Program /\ Program[n] = Ret /\ n \notin 1 .. Len(Routine) /\ n \in Nat
    BY ProgramIs
  <1>3. ASSUME NEW r \in D PROVE n \notin Window(r)
    <2>1. WindowIs(r)
      BY <1>1, WritesAre
    <2> QED
      BY <1>2, <2>1 DEF WindowIs
  <1>4. Faces(Ret)
    BY <1>2, <1>3, AtInstrFaces
  <1>5. Start(n) \notin DOMAIN plan
    <2> SUFFICES ASSUME NEW m \in DOMAIN Routine, Start(m) = Start(n) PROVE FALSE
      BY <1>1 DEF Planned
    <2>1. m \in 1 .. n + 1 /\ n \in 1 .. n + 1 /\ m < n
      BY ProgramIs
    <2>2. Start(m) < Start(n) /\ Start(n) \in Nat
      BY <2>1, Starts
    <2> QED
      BY <2>2
  <1>6. Start(n) \in 0 .. Top
    <2>1. n \in 1 .. n + 1 /\ n + 1 \in 1 .. n + 1 /\ n < n + 1
      BY <1>2, ProgramIs
    <2>2. Start(n) \in Nat /\ Start(n + 1) \in Nat /\ Start(n) < Start(n + 1) /\ Start(n + 1) <= Top
      BY <2>1, Starts
    <2>3. Top \in Nat
      BY HookConstants
    <2> HIDE DEF n
    <2> QED
      BY <2>2, <2>3
  <1>7. AskedFrom(plan, pc) = <<>>
    <2>1. PlanIs(plan)
      BY <1>1, PlannedIs
    <2> QED
      BY <1>5, <1>6, <2>1, AskedIs
  <1> QED
    BY <1>4, <1>7 DEF Leads

\* What a state has of a hook that has been written.
HookedAt(rs, D, at, r) ==
  /\ r \in D /\ r \in Hooks(rs) /\ r.kind = "hook"
  /\ IsHook(r) /\ Movable(r) /\ WindowIs(r) /\ BlockIs(r)
  /\ at[r] \in Nat
  /\ End(r) <= Base + Len(Code(Program))
  /\ End(r) - r.site >= MIN_HOOK_LENGTH
  /\ Done(mem, r, at)
  /\ plan[r.site] = [run |-> NamesOf(Spliced(r)), to |-> End(r)]
  /\ asmFailed \/ Pages(at[r], WrittenLen(r)) \subseteq executable

LEMMA ChartedHook ==
  ASSUME HooksWork, NEW rs \in RequestSets, NEW D, NEW at, Charted(rs, D, at),
         NEW r \in HooksOf(D)
  PROVE  HookedAt(rs, D, at, r)
PROOF
  <1>1. WindowsApart /\ D \in SUBSET Writes(rs)
    BY DEF HooksWork, Charted, Placed
  <1>2. r \in D /\ r.kind = "hook" /\ r \in Writes(rs)
    BY <1>1 DEF HooksOf
  <1>3. /\ r \in Hooks(rs) /\ IsHook(r) /\ Movable(r) /\ WindowIs(r)
        /\ End(r) <= Base + Len(Code(Program))
        /\ End(r) - r.site >= MIN_HOOK_LENGTH
    BY <1>1, <1>2, WritesAre
  <1>4. BlockIs(r)
    BY <1>3, SplicedIs
  <1>5. at[r] \in Nat
    BY HookConstants DEF Charted, Placed
  <1>6. Done(mem, r, at)
    BY <1>2 DEF Charted, Laid
  <1>7. plan[r.site] = [run |-> NamesOf(Spliced(r)), to |-> End(r)]
    BY <1>2 DEF Charted, Planned, Asked
  <1>8. asmFailed \/ Pages(at[r], WrittenLen(r)) \subseteq executable
    BY DEF Charted
  <1> QED
    BY <1>2, <1>3, <1>4, <1>5, <1>6, <1>7, <1>8 DEF HookedAt

LEMMA Pushed ==
  ASSUME NEW x \in Int, NEW y \in Int
  PROVE  <<x>> \o <<y>> = <<x, y>>
PROOF
  <1> DEFINE a == <<x>>
             b == <<y>>
             l == a \o b
             r == <<x, y>>
  <1>1. a \in Seq(Int) /\ Len(a) = 1 /\ a[1] = x /\ b \in Seq(Int) /\ Len(b) = 1 /\ b[1] = y
    OBVIOUS
  <1>2. r \in Seq(Int) /\ Len(r) = 2 /\ r[1] = x /\ r[2] = y
    OBVIOUS
  <1> HIDE DEF a, b, r
  <1>3. l \in Seq(Int) /\ Len(l) = 2 /\ l[1] = x /\ l[2] = y
    <2>1. /\ l \in Seq(Int) /\ Len(l) = Len(a) + Len(b)
          /\ \A i \in 1 .. Len(a) : l[i] = a[i]
          /\ \A i \in 1 .. Len(b) : l[Len(a) + i] = b[i]
      BY <1>1, Joined
    <2>2. 1 \in 1 .. Len(a) /\ 1 \in 1 .. Len(b) /\ Len(a) + 1 = 2 /\ Len(a) + Len(b) = 2
      BY <1>1
    <2>3. l[1] = a[1] /\ l[Len(a) + 1] = b[1]
      BY <2>1, <2>2
    <2> HIDE DEF l
    <2> QED
      BY <1>1, <2>1, <2>2, <2>3
  <1> HIDE DEF l
  <1>4. \A i \in 1 .. 2 : i = 1 \/ i = 2
    OBVIOUS
  <1>5. l = r
    BY <1>2, <1>3, <1>4, SameSequence
  <1> QED
    BY <1>5 DEF l, a, b, r

\* At the transfer to a block.
LEMMA AtTransfer ==
  ASSUME HooksWork, NEW rs \in RequestSets, NEW D, NEW at, Charted(rs, D, at),
         NEW r \in HooksOf(D), pc = r.site
  PROVE  \E i \in Instrs :
           Faces(i) /\ Leads(i, D, at, <<Outside>>, AskedFrom(plan, pc))
PROOF
  <1> DEFINE i == Transferring(Mode(r), pc, at[r])
             M == MIN_HOOK_LENGTH
             S == Spliced(r)
             tail == AskedFrom(plan, End(r))
             rest == AskedFrom(plan, pc)
             lim == Len(Code(Program))
  <1>1. HookedAt(rs, D, at, r)
    BY ChartedHook
  <1>2. /\ WindowsApart /\ D \in SUBSET Writes(rs) /\ Planned(plan, D)
        /\ Pages(Base, lim) \subseteq executable
    BY DEF HooksWork, Charted, Placed
  <1>3. PlanIs(plan)
    BY <1>2, PlannedIs
  <1>4. /\ pc \in Nat /\ pc >= Base /\ at[r] \in Nat /\ Mode(r) \in {"jmp", "call"}
        /\ End(r) \in Nat /\ M \in Nat
    BY <1>1, MinHookLength DEF HookedAt, WindowIs, Mode
  <1>5. Holds(mem, pc, Transfer(Mode(r), pc, at[r]))
    BY <1>1 DEF HookedAt, Done
  <1>6. /\ i \in Instrs /\ i.kind = Mode(r) /\ i.len <= M /\ (~Wide => i.len = M)
        /\ Stands(mem, pc, i)
    BY <1>4, <1>5, TransferIs
  <1>7. \A b \in Targets(i) : b = at[r]
    BY <1>4, <1>5, TransferLeads
  <1> HIDE DEF i, M
  <1>8. i.len \in Nat
    BY <1>6, BytesIs
  <1>9. Faces(i)
    <2>1. pc + i.len <= Base + lim
      <3> DEFINE e == End(r)
      <3>1. e - pc >= M /\ e <= Base + lim
        BY <1>1 DEF HookedAt, M
      <3>2. Base \in Nat /\ lim \in Nat /\ e \in Nat
        BY <1>4, HookConstants, ProgramIs, CodeType
      <3> HIDE DEF e, lim
      <3> QED
        BY <1>4, <1>6, <1>8, <3>1, <3>2
    <2>2. Base \in Nat /\ lim \in Nat
      BY HookConstants, ProgramIs, CodeType
    <2> HIDE DEF lim
    <2>3. Base <= pc
      BY <1>4, <2>2
    <2>4. Pages(pc, i.len) \subseteq Pages(Base, lim)
      BY <1>4, <1>8, <2>1, <2>2, <2>3, PagesWithin
    <2>5. i.kind \notin {"pointer", "data"}
      BY <1>4, <1>6
    <2> QED
      BY <1>2, <1>4, <1>6, <2>4, <2>5 DEF Faces
  <1>10. rest = NamesFrom(S, 0) \o tail
    <2>1. pc \in DOMAIN plan
      <3>1. First(r) \in DOMAIN Routine /\ Start(First(r)) = pc
        BY <1>1, ProgramIs DEF HookedAt, WindowIs
      <3> QED
        BY <1>2, <3>1 DEF Planned
    <2>2. pc \in 0 .. Top
      BY <1>3, <2>1, HookConstants DEF PlanIs
    <2>3. rest = plan[pc].run \o AskedFrom(plan, plan[pc].to)
      BY <1>3, <2>1, <2>2, AskedIs
    <2>4. plan[pc] = [run |-> NamesOf(S), to |-> End(r)]
      BY <1>1 DEF HookedAt
    <2>5. plan[pc].run = NamesOf(S) /\ plan[pc].to = End(r)
      BY <2>4
    <2>6. NamesFrom(S, 0) = NamesOf(S)
      BY <1>1, NamesType DEF HookedAt, BlockIs
    <2> QED
      BY <2>3, <2>5, <2>6
  <1>11. Position(plan, D, at, at[r],
                  IF r.parameter = "jump" THEN <<Outside>> ELSE <<r.site + M, Outside>>, rest)
    <2>1. S \in Seq(Instrs)
      BY <1>1 DEF HookedAt, BlockIs
    <2>2. 0 \in 0 .. Len(S)
      BY <2>1
    <2>3. CodeUpTo(S)[0] = <<>>
      BY <2>1, CodeIterates DEF CodeFollows
    <2>4. at[r] + Len(CodeUpTo(S)[0]) = at[r]
      BY <1>4, <2>3
    <2> HIDE DEF S, tail, rest
    <2>5. InBlock(plan, D, at, at[r],
                  IF r.parameter = "jump" THEN <<Outside>> ELSE <<r.site + M, Outside>>, rest)
      BY <1>10, <2>2, <2>4 DEF InBlock, S, tail, M
    <2> QED
      BY <2>5 DEF Position
  <1>12. CASE r.parameter = "jump"
    <2>1. i.kind = "jmp"
      BY <1>6, <1>12 DEF Mode
    <2>2. \A b \in Targets(i) : Position(plan, D, at, b, <<Outside>>, rest)
      BY <1>7, <1>11, <1>12
    <2>3. Leads(i, D, at, <<Outside>>, rest)
      BY <2>1, <2>2 DEF Leads
    <2> QED
      BY <1>6, <1>9, <2>3
  <1>13. CASE r.parameter # "jump"
    <2>1. i.kind = "call"
      BY <1>6, <1>13 DEF Mode
    <2>2. ~Wide
      BY <1>1, <1>13 DEF HooksWork, NoWideCalls, HookedAt
    <2>3. <<pc + i.len>> \o <<Outside>> = <<r.site + M, Outside>>
      <3>1. pc + i.len = r.site + M
        BY <1>6, <2>2
      <3>2. pc + i.len \in Int
        BY <1>4, <1>8
      <3> QED
        BY <3>1, <3>2, Pushed DEF Outside
    <2>4. \A b \in Targets(i) : Position(plan, D, at, b, <<pc + i.len>> \o <<Outside>>, rest)
      BY <1>7, <1>11, <1>13, <2>3
    <2>5. Leads(i, D, at, <<Outside>>, rest)
      BY <2>1, <2>4 DEF Leads
    <2> QED
      BY <1>6, <1>9, <2>5
  <1> QED
    BY <1>12, <1>13

\* In a block.
LEMMA InBlockLeads ==
  ASSUME HooksWork, NEW rs \in RequestSets, NEW D, NEW at, Charted(rs, D, at),
         NEW st, NEW rest, InBlock(plan, D, at, pc, st, rest)
  PROVE  \E i \in Instrs : Faces(i) /\ Leads(i, D, at, st, rest)
PROOF
  <1>0. PICK r \in HooksOf(D) : \E k \in 0 .. Len(Spliced(r)) :
          /\ pc = at[r] + Len(CodeUpTo(Spliced(r))[k])
          /\ st = IF r.parameter = "jump" THEN <<Outside>>
                  ELSE <<r.site + MIN_HOOK_LENGTH, Outside>>
          /\ rest = NamesFrom(Spliced(r), k) \o AskedFrom(plan, End(r))
    BY DEF InBlock
  <1>1. PICK k \in 0 .. Len(Spliced(r)) :
          /\ pc = at[r] + Len(CodeUpTo(Spliced(r))[k])
          /\ st = IF r.parameter = "jump" THEN <<Outside>>
                  ELSE <<r.site + MIN_HOOK_LENGTH, Outside>>
          /\ rest = NamesFrom(Spliced(r), k) \o AskedFrom(plan, End(r))
    BY <1>0
  <1> DEFINE M == MIN_HOOK_LENGTH
             S == Spliced(r)
             N == Len(S)
             tail == AskedFrom(plan, End(r))
             a == at[r]
             len == Len(Code(S))
             bl == WrittenLen(r)
  <1>2. HookedAt(rs, D, at, r)
    BY ChartedHook
  <1>3. WindowsApart /\ D \in SUBSET Writes(rs) /\ Planned(plan, D) /\ r \in D
    BY DEF HooksWork, Charted, Placed, HooksOf
  <1>4. PlanIs(plan)
    BY <1>3, PlannedIs
  <1>5. /\ S \in Seq(Instrs) /\ N \in Nat
        /\ \A j \in 1 .. N : S[j] \in Instrs /\ S[j].kind = "plain"
    BY <1>2 DEF HookedAt, BlockIs
  <1>6. a \in Nat /\ End(r) \in Nat /\ M \in Nat /\ r.site \in Nat /\ End(r) - r.site >= M
    BY <1>2, MinHookLength DEF HookedAt, WindowIs
  <1>7. len \in Nat /\ bl \in Nat /\ len < bl
    BY <1>2, <1>6, BlockBytes DEF HookedAt
  <1>8. Holds(mem, a, Code(S)) /\ Holds(mem, a + len, WayBack(r, a + len))
    <2>1. Holds(mem, a, Block(r, a))
      BY <1>2 DEF HookedAt, Done
    <2> QED
      BY <1>2, <1>6, <2>1, BlockBytes DEF HookedAt
  <1>9. tail \in Seq(Acts)
    <2>1. End(r) \in 0 .. Top
      <3>1. End(r) <= Top
        BY <1>3, WritesAre
      <3> QED
        BY <1>6, <3>1, HookConstants
    <2> QED
      BY <1>4, <2>1, AskedIs
  <1>10. pc = a + Len(CodeUpTo(S)[k]) /\ k \in 0 .. N /\ rest = NamesFrom(S, k) \o tail
    BY <1>1
  <1>11. Len(CodeUpTo(S)[k]) \in Nat
    BY <1>5, <1>10, CodeType
  <1> HIDE DEF S, N, tail, a, len, bl, M
  <1>12. pc \in Nat
    BY <1>6, <1>10, <1>11
  <1>13. ASSUME NEW i \in Instrs, pc + i.len <= a + bl
         PROVE  asmFailed \/ Pages(pc, i.len) \subseteq executable
    <2>1. i.len \in Nat
      BY BytesIs
    <2>2. a <= pc
      BY <1>6, <1>10, <1>11
    <2>3. Pages(pc, i.len) \subseteq Pages(a, bl)
      BY <1>6, <1>7, <1>12, <1>13, <2>1, <2>2, PagesWithin
    <2> QED
      BY <1>2, <2>3 DEF HookedAt, a, bl
  <1>14. CASE k < N
    <2> DEFINE i == S[k + 1]
    <2>1. k + 1 \in 1 .. N /\ (k + 1) - 1 = k /\ k \in 0 .. N - 1 /\ k \in Nat /\ k + 1 \in 0 .. N
      BY <1>5, <1>10, <1>14
    <2>2. i \in Instrs /\ i.kind = "plain"
      BY <1>5, <2>1
    <2>3. Stands(mem, pc, i)
      BY <1>5, <1>6, <1>8, <1>10, <2>1, CodeHolds DEF N
    <2>4. Len(CodeUpTo(S)[k + 1]) = Len(CodeUpTo(S)[k]) + i.len
      BY <1>5, <2>1, CodeStep DEF N
    <2>5. Len(CodeUpTo(S)[k]) + i.len <= len
      <3>1. N \in Nat /\ k < N /\ N <= Len(S)
        BY <1>5, <1>14 DEF N
      <3> QED
        BY <1>5, <2>1, <3>1, CodeGrows DEF len, Code, N
    <2>6. i.len \in Nat
      BY <2>2, BytesIs
    <2> HIDE DEF i
    <2>7. pc + i.len <= a + bl
      BY <1>6, <1>7, <1>10, <1>11, <2>5, <2>6
    <2>8. Faces(i)
      BY <1>12, <1>13, <2>2, <2>3, <2>7 DEF Faces
    <2>9. NamesFrom(S, k) = <<i.arg>> \o NamesFrom(S, k + 1) /\ NamesFrom(S, k + 1) \in Seq(Acts)
      BY <1>5, <2>1, NamesType DEF N, i
    <2> DEFINE one == <<i.arg>>
               names == NamesFrom(S, k + 1)
               more == names \o tail
    <2>10. i.arg \in Acts
      BY <2>2 DEF Instrs
    <2>11. one \in Seq(Acts) /\ names \in Seq(Acts)
      BY <2>9, <2>10
    <2>12. NamesFrom(S, k) = one \o names
      BY <2>9
    <2> HIDE DEF one, names
    <2>13. rest = one \o more /\ more \in Seq(Acts)
      BY <1>9, <1>10, <2>11, <2>12, OfNames
    <2>14. Position(plan, D, at, pc + i.len, st, more)
      <3>1. pc + i.len = a + Len(CodeUpTo(S)[k + 1])
        BY <1>6, <1>10, <1>11, <2>4, <2>6
      <3>2. InBlock(plan, D, at, pc + i.len, st, more)
        BY <1>1, <2>1, <3>1 DEF InBlock, S, N, a, tail, names
      <3> QED
        BY <3>2 DEF Position
    <2>15. Leads(i, D, at, st, rest)
      BY <2>2, <2>13, <2>14 DEF Leads, one
    <2> QED
      BY <2>2, <2>8, <2>15
  <1>15. CASE k = N
    <2>1. pc = a + len
      BY <1>10, <1>15 DEF len, Code, N
    <2>2. rest = tail
      <3>1. NamesFrom(S, k) = <<>>
        BY <1>5, <1>15, NamesType DEF N
      <3> QED
        BY <1>9, <1>10, <3>1, OfNames
    <2>3. Holds(mem, pc, WayBack(r, pc))
      BY <1>8, <2>1
    <2>4. CASE r.parameter = "jump"
      <3> DEFINE i == Transferring("jmp", pc, End(r))
      <3>1. Holds(mem, pc, Transfer("jmp", pc, End(r))) /\ bl = len + M
        BY <2>3, <2>4 DEF WayBack, bl, len, WrittenLen, M, S
      <3>2. i \in Instrs /\ i.kind = "jmp" /\ i.len <= M /\ Stands(mem, pc, i)
        BY <1>6, <1>12, <3>1, TransferIs DEF M
      <3>3. \A b \in Targets(i) : b = End(r)
        BY <1>6, <1>12, <3>1, TransferLeads
      <3> HIDE DEF i
      <3>4. i.len \in Nat
        BY <3>2, BytesIs
      <3>5. pc + i.len <= a + bl
        BY <1>6, <1>7, <2>1, <3>1, <3>2, <3>4
      <3>6. Faces(i)
        BY <1>12, <1>13, <3>2, <3>5 DEF Faces
      <3>7. Position(plan, D, at, End(r), st, rest)
        <4>1. End(r) \in r.site .. End(r) /\ End(r) >= r.site + M
          <5> DEFINE e == End(r)
          <5>1. e \in Nat /\ e - r.site >= M
            BY <1>6
          <5> HIDE DEF e
          <5>2. e \in r.site .. e /\ e >= r.site + M
            BY <1>6, <5>1
          <5> QED
            BY <5>2 DEF e
        <4>2. Position(plan, D, at, End(r), <<Outside>>, tail)
          BY <1>3, <4>1, Afterwards DEF tail, M
        <4> QED
          BY <1>1, <2>2, <2>4, <4>2
      <3>8. Leads(i, D, at, st, rest)
        BY <3>2, <3>3, <3>7 DEF Leads
      <3> QED
        BY <3>2, <3>6, <3>8
    <2>5. CASE r.parameter # "jump"
      <3>1. Holds(mem, pc, Bytes(Ret)) /\ bl = len + 1
        BY <2>3, <2>5 DEF WayBack, bl, len, WrittenLen, S
      <3>2. Ret \in Instrs /\ Stands(mem, pc, Ret) /\ Ret.len = 1 /\ Ret.kind = "ret"
        BY <3>1, InstrTypes, StandsHolds DEF Ret, Instr
      <3>3. pc + Ret.len <= a + bl
        BY <1>6, <1>7, <2>1, <3>1, <3>2
      <3>4. Faces(Ret)
        BY <1>12, <1>13, <3>2, <3>3 DEF Faces
      <3>5. st = <<r.site + M, Outside>> /\ r.site + M \in Nat
        BY <1>1, <1>6, <2>5 DEF M
      <3>6. Position(plan, D, at, r.site + M, <<Outside>>, rest)
        <4>1. r.site + M \in r.site .. End(r) /\ r.site + M >= r.site + M
          <5> DEFINE e == End(r)
          <5>1. e \in Nat /\ e - r.site >= M
            BY <1>6
          <5> HIDE DEF e
          <5>2. r.site + M \in r.site .. e /\ r.site + M >= r.site + M
            BY <1>6, <5>1
          <5> QED
            BY <5>2 DEF e
        <4>2. Position(plan, D, at, r.site + M, <<Outside>>, tail)
          BY <1>3, <4>1, Afterwards DEF tail, M
        <4> QED
          BY <2>2, <4>2
      <3>7. Leads(Ret, D, at, st, rest)
        BY <3>5, <3>6 DEF Leads
      <3> QED
        BY <3>2, <3>4, <3>7
    <2> QED
      BY <2>4, <2>5
  <1>16. k < N \/ k = N
    BY <1>5, <1>10
  <1> QED
    BY <1>14, <1>15, <1>16

\* In what a window was filled up with.
LEMMA NopsStand ==
  ASSUME NEW m, NEW b \in Nat, NEW len \in Nat, Holds(m, b, Nops(len)),
         NEW a \in Nat, b <= a, a < b + len
  PROVE  Stands(m, a, Nop)
PROOF
  <1> DEFINE t == Nops(len)
  <1>1. Len(t) = len /\ \A n \in 1 .. len : t[n] = [of |-> Nop, at |-> 1]
    BY NopsIs
  <1> HIDE DEF t
  <1>2. (a - b) + 1 \in 1 .. len /\ b + ((a - b) + 1) - 1 = a
    OBVIOUS
  <1>3. a \in DOMAIN m /\ m[a] = t[(a - b) + 1]
    <2>1. \A n \in 1 .. Len(t) : b + n - 1 \in DOMAIN m /\ m[b + n - 1] = t[n]
      BY DEF Holds, t
    <2> QED
      BY <1>1, <1>2, <2>1
  <1>4. m[a] = [of |-> Nop, at |-> 1]
    BY <1>1, <1>2, <1>3
  <1>5. Nop.len = 1 /\ \A n \in 1 .. 1 : n = 1 /\ a + n - 1 = a
    BY DEF Nop, Instr
  <1> QED
    BY <1>3, <1>4, <1>5 DEF Stands

LEMMA InNopsLeads ==
  ASSUME HooksWork, NEW rs \in RequestSets, NEW D, NEW at, Charted(rs, D, at),
         NEW st, NEW rest, InNops(plan, D, pc, st, rest)
  PROVE  \E i \in Instrs : Faces(i) /\ Leads(i, D, at, st, rest)
PROOF
  <1>1. PICK r \in D :
          /\ pc \in r.site .. End(r) - 1
          /\ r.kind = "hook" => pc >= r.site + MIN_HOOK_LENGTH
          /\ st = <<Outside>>
          /\ rest = AskedFrom(plan, End(r))
    BY DEF InNops
  <1> DEFINE M == MIN_HOOK_LENGTH
             e == End(r)
             s == r.site
             lim == Len(Code(Program))
  <1>2. /\ WindowsApart /\ D \in SUBSET Writes(rs) /\ Pages(Base, lim) \subseteq executable
        /\ Done(mem, r, at)
    BY DEF HooksWork, Charted, Placed, Laid
  <1>3. /\ WindowIs(r) /\ r.kind \in {"hook", "nop"} /\ e <= Base + lim
        /\ r.kind = "hook" => e - s >= M
    BY <1>2, WritesAre
  <1>4. /\ e \in Nat /\ s \in Nat /\ s >= Base /\ M \in Nat /\ Base \in Nat /\ lim \in Nat
    BY <1>3, MinHookLength, HookConstants, ProgramIs, CodeType DEF WindowIs
  <1>5. pc \in s .. e - 1
    BY <1>1
  <1>6. r.kind = "hook" => pc >= s + M /\ Holds(mem, s + M, Nops((e - s) - M))
    BY <1>1, <1>2 DEF Done
  <1>7. r.kind = "nop" => Holds(mem, s, Nops(e - s))
    BY <1>2 DEF Done
  <1> HIDE DEF M, e, s, lim
  <1>8. pc \in Nat /\ s <= pc /\ pc + 1 <= e /\ pc + 1 <= Base + lim /\ Base <= pc
    BY <1>3, <1>4, <1>5
  <1>9. Stands(mem, pc, Nop)
    <2>1. CASE r.kind = "nop"
      <3>1. e - s \in Nat /\ pc < s + (e - s)
        BY <1>4, <1>5
      <3> QED
        BY <1>4, <1>7, <1>8, <2>1, <3>1, NopsStand
    <2>2. CASE r.kind = "hook"
      <3>1. /\ (e - s) - M \in Nat /\ pc < (s + M) + ((e - s) - M)
            /\ s + M \in Nat /\ s + M <= pc
        BY <1>3, <1>4, <1>5, <1>6, <2>2
      <3> QED
        BY <1>6, <1>8, <2>2, <3>1, NopsStand
    <2> QED
      BY <1>3, <2>1, <2>2
  <1>10. Nop \in Instrs /\ Nop.kind = "nop" /\ Nop.len = 1
    BY InstrTypes DEF Nop, Instr
  <1>11. Faces(Nop)
    <2>1. 1 \in Nat
      OBVIOUS
    <2>2. Pages(pc, 1) \subseteq Pages(Base, lim)
      BY <1>4, <1>8, <2>1, PagesWithin
    <2> QED
      BY <1>2, <1>8, <1>9, <1>10, <2>2 DEF Faces, lim
  <1>12. Position(plan, D, at, pc + 1, <<Outside>>, AskedFrom(plan, e))
    <2>1. pc + 1 \in s .. e /\ (r.kind = "hook" => pc + 1 >= s + M)
      BY <1>4, <1>6, <1>8
    <2> QED
      BY <1>2, <2>1, Afterwards DEF s, e, M
  <1>13. Leads(Nop, D, at, st, rest)
    BY <1>1, <1>10, <1>12 DEF Leads, e
  <1> QED
    BY <1>10, <1>11, <1>13

\* Wherever the thread is there is an instruction, and it leads on.
LEMMA PositionLeads ==
  ASSUME HooksWork, NEW rs \in RequestSets, NEW D, NEW at, Charted(rs, D, at),
         NEW st, NEW rest, Position(plan, D, at, pc, st, rest)
  PROVE  \E i \in Instrs : Faces(i) /\ Leads(i, D, at, st, rest)
PROOF
  <1>1. CASE InBlock(plan, D, at, pc, st, rest)
    BY <1>1, InBlockLeads
  <1>2. CASE InNops(plan, D, pc, st, rest)
    BY <1>2, InNopsLeads
  <1>3. CASE AtInstr(plan, D, pc, st, rest)
    <2>1. PICK n \in DOMAIN Program :
            Enterable(D, n) /\ pc = Start(n) /\ st = <<Outside>> /\ rest = AskedFrom(plan, pc)
      BY <1>3 DEF AtInstr
    <2>2. WindowsApart /\ D \in SUBSET Writes(rs) /\ Planned(plan, D)
      BY DEF HooksWork, Charted, Placed
    <2>3. CASE \E r \in D : n \in Window(r)
      <3>1. PICK r \in D : n \in Window(r)
        BY <2>3
      <3>2. n = First(r)
        BY <2>1, <3>1 DEF Enterable
      <3>3. WindowIs(r) /\ r.kind \in {"hook", "nop"}
        BY <2>2, WritesAre
      <3>4. pc = r.site
        BY <2>1, <3>2, <3>3 DEF WindowIs
      <3>5. CASE r.kind = "hook"
        <4>1. r \in HooksOf(D)
          BY <3>5 DEF HooksOf
        <4> QED
          BY <2>1, <3>4, <4>1, AtTransfer
      <3>6. CASE r.kind = "nop"
        <4>1. pc \in r.site .. End(r) - 1
          <5> DEFINE e == End(r)
          <5>1. e \in Nat /\ r.site \in Nat /\ e > r.site
            BY <3>3 DEF WindowIs
          <5> HIDE DEF e
          <5>2. r.site \in r.site .. e - 1
            BY <5>1
          <5> QED
            BY <3>4, <5>2 DEF e
        <4>2. rest = AskedFrom(plan, End(r))
          <5>1. PlanIs(plan)
            BY <2>2, PlannedIs
          <5>2. plan[pc] = [run |-> <<>>, to |-> End(r)]
            BY <2>2, <3>4, <3>6 DEF Planned, Asked
          <5>3. plan[pc].run = <<>> /\ plan[pc].to = End(r)
            BY <5>2
          <5>4. pc \in DOMAIN plan
            BY <2>1, <2>2, <3>2, <3>3, ProgramIs DEF Planned, WindowIs
          <5>5. pc \in 0 .. Top
            BY <5>1, <5>4, HookConstants DEF PlanIs
          <5> DEFINE x == AskedFrom(plan, End(r))
          <5>6. rest = <<>> \o x /\ End(r) \in 0 .. Top
            BY <2>1, <5>1, <5>3, <5>4, <5>5, AskedIs
          <5>7. x \in Seq(Acts)
            BY <5>1, <5>6, AskedIs
          <5> HIDE DEF x
          <5>8. rest = x
            BY <5>6, <5>7, OfNames
          <5> QED
            BY <5>8 DEF x
        <4>3. InNops(plan, D, pc, st, rest)
          BY <2>1, <3>6, <4>1, <4>2 DEF InNops
        <4> QED
          BY <4>3, InNopsLeads
      <3> QED
        BY <3>3, <3>5, <3>6
    <2>4. CASE \A r \in D : n \notin Window(r)
      <3>1. n \in DOMAIN Routine \/ n = Len(Program)
        BY ProgramIs
      <3>2. CASE n \in DOMAIN Routine
        <4>1. Faces(Routine[n]) /\ Leads(Routine[n], D, at, <<Outside>>, AskedFrom(plan, pc))
          BY <2>1, <2>4, <3>2, AtOriginal
        <4>2. Routine[n] \in Instrs
          BY <3>2, ProgramIs
        <4> QED
          BY <2>1, <4>1, <4>2
      <3>3. CASE n = Len(Program)
        <4>1. Faces(Ret) /\ Leads(Ret, D, at, <<Outside>>, AskedFrom(plan, pc))
          BY <2>1, <3>3, AtReturn
        <4> QED
          BY <2>1, <4>1, InstrTypes
      <3> QED
        BY <3>1, <3>2, <3>3
    <2> QED
      BY <2>3, <2>4
  <1> QED
    BY <1>1, <1>2, <1>3 DEF Position

\* What has been run is the beginning of what should be.
LEMMA RunsOn ==
  ASSUME NEW s \in Seq(Acts), NEW t \in Seq(Acts)
  PROVE  IsPrefix(s, s \o t)
PROOF
  <1> DEFINE u == s \o t
             x == Len(s)
             a == SubSeq(s, 1, x)
             b == SubSeq(u, 1, x)
  <1>1. /\ u \in Seq(Acts) /\ Len(u) = x + Len(t) /\ x \in Nat /\ Len(t) \in Nat
        /\ \A i \in 1 .. x : u[i] = s[i]
    BY OfNames
  <1> HIDE DEF u
  <1>2. a \in Seq(Acts) /\ Len(a) = x /\ \A i \in 1 .. x : a[i] = s[i]
    OBVIOUS
  <1>3. b \in Seq(Acts) /\ Len(b) = x /\ \A i \in 1 .. x : b[i] = u[i]
    <2>1. x <= Len(u)
      BY <1>1
    <2> QED
      BY <1>1, <2>1
  <1> HIDE DEF x, a, b
  <1>4. a = b
    BY <1>1, <1>2, <1>3, SameSequence
  <1>5. Len(s) <= Len(u)
    BY <1>1 DEF x
  <1> QED
    BY <1>4, <1>5 DEF IsPrefix, a, b, x, u

LEMMA RunsOne ==
  ASSUME NEW s \in Seq(Acts), NEW arg \in Acts, NEW t \in Seq(Acts)
  PROVE  /\ Append(s, arg) \in Seq(Acts)
         /\ s \o (<<arg>> \o t) = Append(s, arg) \o t
         /\ IsPrefix(s, s \o (<<arg>> \o t))
PROOF
  <1> DEFINE one == <<arg>>
             l == s \o one
             r == Append(s, arg)
             N == Len(s)
  <1>1. one \in Seq(Acts) /\ Len(one) = 1 /\ one[1] = arg /\ N \in Nat
    OBVIOUS
  <1>2. r \in Seq(Acts) /\ Len(r) = N + 1 /\ r[N + 1] = arg /\ \A i \in 1 .. N : r[i] = s[i]
    OBVIOUS
  <1> HIDE DEF one, r
  <1>3. /\ l \in Seq(Acts) /\ Len(l) = Len(s) + Len(one)
        /\ \A i \in 1 .. Len(s) : l[i] = s[i]
        /\ \A i \in 1 .. Len(one) : l[Len(s) + i] = one[i]
    BY <1>1, OfNames
  <1> HIDE DEF l
  <1>4. l = r
    <2>1. Len(l) = N + 1 /\ \A i \in 1 .. N : l[i] = s[i]
      BY <1>1, <1>3
    <2>2. l[N + 1] = arg
      <3>1. 1 \in 1 .. Len(one)
        BY <1>1
      <3> QED
        BY <1>1, <1>3, <3>1
    <2>3. \A i \in 1 .. N + 1 : i \in 1 .. N \/ i = N + 1
      BY <1>1
    <2>4. ASSUME NEW i \in 1 .. Len(l) PROVE l[i] = r[i]
      BY <1>2, <2>1, <2>2, <2>3
    <2> HIDE DEF N
    <2> QED
      BY <1>2, <1>3, <2>1, <2>4, SameSequence
  <1>5. s \o (one \o t) = l \o t
    BY <1>1, OfNames DEF l
  <1>6. one \o t \in Seq(Acts)
    BY <1>1, OfNames
  <1>7. IsPrefix(s, s \o (one \o t))
    BY <1>6, RunsOn
  <1> QED
    BY <1>2, <1>4, <1>5, <1>7 DEF one, r

LEMMA PositionType ==
  ASSUME HooksWork, NEW rs \in RequestSets, NEW D, NEW at, Charted(rs, D, at),
         NEW a, NEW st, NEW rest, Position(plan, D, at, a, st, rest)
  PROVE  a \in Nat /\ Stacked(D, st) /\ rest \in Seq(Acts)
PROOF
  <1>1. WindowsApart /\ D \in SUBSET Writes(rs) /\ Planned(plan, D)
    BY DEF HooksWork, Charted, Placed
  <1>2. PlanIs(plan)
    BY <1>1, PlannedIs
  <1>3. ASSUME NEW r \in D
        PROVE  /\ r.site \in Nat /\ AskedFrom(plan, End(r)) \in Seq(Acts)
    <2>1. WindowIs(r) /\ End(r) <= Top
      BY <1>1, WritesAre
    <2>2. r.site \in Nat /\ End(r) \in Nat
      BY <2>1 DEF WindowIs
    <2>3. End(r) \in 0 .. Top
      BY <2>1, <2>2, HookConstants
    <2> QED
      BY <1>2, <2>2, <2>3, AskedIs
  <1>4. CASE AtInstr(plan, D, a, st, rest)
    <2>1. PICK n \in DOMAIN Program : a = Start(n) /\ st = <<Outside>> /\ rest = AskedFrom(plan, a)
      BY <1>4 DEF AtInstr
    <2>2. a \in 0 .. Top
      <3> DEFINE P == Len(Program)
      <3>1. n \in 1 .. P + 1 /\ P + 1 \in 1 .. P + 1 /\ n < P + 1
        BY ProgramIs
      <3>2. Start(n) \in Nat /\ Start(P + 1) \in Nat /\ Start(n) < Start(P + 1) /\ Start(P + 1) <= Top
        BY <3>1, Starts
      <3>3. Top \in Nat
        BY HookConstants
      <3> HIDE DEF P
      <3> QED
        BY <2>1, <3>2, <3>3
    <2>3. AskedFrom(plan, a) \in Seq(Acts)
      BY <1>2, <2>2, AskedIs
    <2>4. Stacked(D, st)
      BY <2>1 DEF Stacked
    <2> QED
      BY <2>1, <2>2, <2>3, <2>4
  <1>5. CASE InNops(plan, D, a, st, rest)
    <2>1. PICK r \in D : a \in r.site .. End(r) - 1 /\ st = <<Outside>> /\ rest = AskedFrom(plan, End(r))
      BY <1>5 DEF InNops
    <2>2. a \in Nat
      BY <1>3, <2>1
    <2> QED
      BY <1>3, <2>1, <2>2 DEF Stacked
  <1>6. CASE InBlock(plan, D, at, a, st, rest)
    <2>1. PICK r \in HooksOf(D) : \E k \in 0 .. Len(Spliced(r)) :
            /\ a = at[r] + Len(CodeUpTo(Spliced(r))[k])
            /\ st = IF r.parameter = "jump" THEN <<Outside>>
                    ELSE <<r.site + MIN_HOOK_LENGTH, Outside>>
            /\ rest = NamesFrom(Spliced(r), k) \o AskedFrom(plan, End(r))
      BY <1>6 DEF InBlock
    <2>2. PICK k \in 0 .. Len(Spliced(r)) :
            /\ a = at[r] + Len(CodeUpTo(Spliced(r))[k])
            /\ st = IF r.parameter = "jump" THEN <<Outside>>
                    ELSE <<r.site + MIN_HOOK_LENGTH, Outside>>
            /\ rest = NamesFrom(Spliced(r), k) \o AskedFrom(plan, End(r))
      BY <2>1
    <2>3. HookedAt(rs, D, at, r)
      BY ChartedHook
    <2>4. Spliced(r) \in Seq(Instrs) /\ at[r] \in Nat /\ r \in D
      BY <2>3 DEF HookedAt, BlockIs
    <2>5. Len(CodeUpTo(Spliced(r))[k]) \in Nat /\ NamesFrom(Spliced(r), k) \in Seq(Acts)
      BY <2>4, CodeType, NamesType
    <2>6. a \in Nat
      BY <2>2, <2>4, <2>5
    <2>7. rest \in Seq(Acts)
      <3> DEFINE x == NamesFrom(Spliced(r), k)
                 y == AskedFrom(plan, End(r))
      <3>1. x \in Seq(Acts) /\ y \in Seq(Acts) /\ rest = x \o y
        BY <1>3, <2>2, <2>4, <2>5
      <3> HIDE DEF x, y
      <3> QED
        BY <3>1, OfNames
    <2>8. Stacked(D, st)
      BY <2>2 DEF Stacked
    <2> QED
      BY <2>6, <2>7, <2>8
  <1> QED
    BY <1>4, <1>5, <1>6 DEF Position

LEMMA ThreadSteps ==
  ASSUME HooksWork, NEW rs \in RequestSets, NEW D, NEW at, Charted(rs, D, at),
         Threaded(D, at), Step
  PROVE  Charted(rs, D, at)' /\ Threaded(D, at)'
PROOF
  <1>1. pc >= 0
    BY DEF Step, Execute, Branch, Return, Crash, Fetches
  <1>2. pc # Outside /\ pc # Crashed
    BY <1>1 DEF Outside, Crashed
  <1>3. /\ ran \in Seq(Acts) /\ want \in Seq(Acts) /\ Stacked(D, stack) /\ pc \in Nat
        /\ \E rest \in Seq(Acts) : Position(plan, D, at, pc, stack, rest) /\ want = ran \o rest
    BY <1>2 DEF Threaded
  <1>4. PICK rest \in Seq(Acts) : Position(plan, D, at, pc, stack, rest) /\ want = ran \o rest
    BY <1>3
  <1>5. PICK i \in Instrs : Faces(i) /\ Leads(i, D, at, stack, rest)
    BY <1>4, PositionLeads
  <1>6. pc \in DOMAIN mem /\ mem[pc].of = i /\ Decodes(mem, pc)
    BY <1>5, StandsDecodes DEF Faces
  <1>7. \A j \in {mem[a].of : a \in DOMAIN mem \cap {pc}} : j = i
    BY <1>6
  <1>8. i \in {mem[a].of : a \in DOMAIN mem \cap {pc}}
    BY <1>6
  <1>9. UNCHANGED codeVars /\ UNCHANGED want
    BY DEF Step, Execute, Branch, Return, Crash, GoesTo
  <1>10. Charted(rs, D, at)'
    BY <1>9 DEF codeVars, Charted
  <1>11. plan' = plan /\ want' = want /\ asmFailed' = asmFailed
    BY <1>9 DEF codeVars
  \* It suffices to be somewhere.
  <1>12. ASSUME NEW more \in Seq(Acts), ran' \in Seq(Acts), want = ran' \o more,
                Position(plan, D, at, pc', stack', more)
         PROVE  Threaded(D, at)'
    <2>1. pc' \in Nat /\ Stacked(D, stack')
      BY <1>12, PositionType
    <2> QED
      BY <1>3, <1>11, <1>12, <2>1 DEF Threaded, Stacked
  <1>13. CASE Execute
    <2>1. /\ i.kind \in {"plain", "nop"}
          /\ ran' = IF i.kind = "plain" /\ IsPrefix(ran, want) THEN Append(ran, i.arg) ELSE ran
          /\ pc' = pc + i.len /\ stack' = stack
      BY <1>7, <1>13 DEF Execute, GoesTo
    <2>2. Ret.kind = "ret"
      BY DEF Ret, Instr
    <2>3. CASE i.kind = "nop"
      <3>1. Position(plan, D, at, pc + i.len, stack, rest)
        BY <1>5, <2>2, <2>3 DEF Leads
      <3>2. ran' = ran
        BY <2>1, <2>3
      <3> QED
        BY <1>3, <1>4, <1>10, <1>12, <2>1, <3>1, <3>2
    <2>4. CASE i.kind = "plain"
      <3>1. PICK more \in Seq(Acts) :
              rest = <<i.arg>> \o more /\ Position(plan, D, at, pc + i.len, stack, more)
        BY <1>5, <2>2, <2>4 DEF Leads
      <3>2. i.arg \in Acts
        BY DEF Instrs
      <3>3. /\ Append(ran, i.arg) \in Seq(Acts)
            /\ want = Append(ran, i.arg) \o more
            /\ IsPrefix(ran, want)
        BY <1>3, <1>4, <3>1, <3>2, RunsOne
      <3>4. ran' = Append(ran, i.arg)
        BY <2>1, <2>4, <3>3
      <3> QED
        BY <1>10, <1>12, <2>1, <3>1, <3>3, <3>4
    <2> QED
      BY <2>1, <2>3, <2>4, <1>10
  <1>14. CASE Branch
    <2>1. /\ i.kind \in {"jmp", "call"}
          /\ pc' \in Targets(i)
          /\ stack' = IF i.kind = "call" THEN <<pc + i.len>> \o stack ELSE stack
          /\ ran' = ran
      BY <1>7, <1>14 DEF Branch, GoesTo
    <2>2. Ret.kind = "ret"
      BY DEF Ret, Instr
    <2>3. Position(plan, D, at, pc', stack', rest)
      BY <1>5, <2>1, <2>2 DEF Leads
    <2> QED
      BY <1>3, <1>4, <1>10, <1>12, <2>1, <2>3
  <1>15. CASE Return
    <2>1. i = Ret /\ pc' = Head(stack) /\ stack' = Tail(stack) /\ ran' = ran
      BY <1>6, <1>15 DEF Return, Fetches, GoesTo
    <2>2. Ret.kind = "ret"
      BY DEF Ret, Instr
    <2>3. \/ stack = <<Outside>> /\ rest = <<>>
          \/ \E a \in Nat : stack = <<a, Outside>> /\ Position(plan, D, at, a, <<Outside>>, rest)
      BY <1>5, <2>1, <2>2 DEF Leads
    <2>4. CASE stack = <<Outside>> /\ rest = <<>>
      <3>1. pc' = Outside /\ stack' = <<>>
        BY <2>1, <2>4
      <3>2. want = ran
        BY <1>3, <1>4, <2>4, OfNames
      <3> QED
        BY <1>3, <1>10, <1>11, <2>1, <3>1, <3>2 DEF Threaded, Stacked
    <2>5. CASE \E a \in Nat : stack = <<a, Outside>> /\ Position(plan, D, at, a, <<Outside>>, rest)
      <3>1. PICK a \in Nat : stack = <<a, Outside>> /\ Position(plan, D, at, a, <<Outside>>, rest)
        BY <2>5
      <3>2. pc' = a /\ stack' = <<Outside>>
        BY <2>1, <3>1
      <3> QED
        BY <1>3, <1>4, <1>10, <1>12, <2>1, <3>1, <3>2
    <2> QED
      BY <2>3, <2>4, <2>5
  <1>16. CASE Crash
    <2>1. ~ Fetches(i) /\ pc' = Crashed /\ stack' = stack /\ ran' = ran
      BY <1>8, <1>16 DEF Crash
    <2>2. asmFailed
      BY <1>1, <1>5, <1>6, <2>1 DEF Fetches, Faces
    <2> QED
      BY <1>3, <1>10, <1>11, <2>1, <2>2 DEF Threaded, Stacked
  <1> QED
    BY <1>10, <1>13, <1>14, <1>15, <1>16 DEF Step

-----------------------------------------------------------------------------
(* The requests.                                                            *)

LEMMA PagesInMemory ==
  ASSUME NEW a \in Nat, NEW len \in Nat, a + len <= Top
  PROVE  Pages(a, len) \subseteq 0 .. (Top - 1) \div PageSize
PROOF
  <1>1. Top \in Nat /\ PageSize \in Nat \ {0}
    BY HookConstants
  <1>2. ASSUME NEW b \in a .. a + len - 1 PROVE b \div PageSize \in 0 .. (Top - 1) \div PageSize
    <2>1. b \in Nat /\ Top - 1 \in Nat /\ b <= Top - 1
      BY <1>1
    <2>2. \A P \in Nat \ {0} : \A x, y \in Nat : x <= y =>
            x \div P \in Nat /\ y \div P \in Nat /\ x \div P <= y \div P
      OBVIOUS
    <2>3. /\ b \div PageSize \in Nat /\ (Top - 1) \div PageSize \in Nat
          /\ b \div PageSize <= (Top - 1) \div PageSize
      BY <1>1, <2>1, <2>2
    <2> QED
      BY <2>3
  <1> QED
    BY <1>2 DEF Pages

LEMMA ThreadedOutside ==
  ASSUME NEW D, NEW at, Threaded(D, at), pc = Outside, UNCHANGED threadVars,
         NEW E, NEW new
  PROVE  Threaded(E, new)'
PROOF
  <1>1. pc # Crashed /\ ~(pc \in Nat)
    BY DEF Outside, Crashed
  <1>2. ran \in Seq(Acts) /\ want \in Seq(Acts) /\ stack = <<>> /\ ran = want
    BY <1>1 DEF Threaded
  <1>3. pc' = pc /\ stack' = stack /\ ran' = ran /\ want' = want
    BY DEF threadVars
  <1> QED
    BY <1>2, <1>3 DEF Threaded, Stacked

LEMMA RefusedSteps ==
  ASSUME NEW rs \in RequestSets, NEW D, NEW at, Charted(rs, D, at), Threaded(D, at),
         NEW r \in todo, Refused(r) \/ UnknownBehavior(r)
  PROVE  Charted(rs, D, at)' /\ Threaded(D, at)'
PROOF
  <1>1. /\ pc = Outside /\ todo' = todo \ {r} /\ UNCHANGED threadVars
        /\ UNCHANGED <<mem, executable, used, plan>>
    BY DEF Refused, UnknownBehavior, Makes
  <1>2. asmFailed' \in BOOLEAN /\ (asmFailed => asmFailed')
    <2>1. CASE Refused(r)
      BY <2>1 DEF Refused, Charted
    <2>2. CASE UnknownBehavior(r)
      <3>1. r.errors \in BOOLEAN
        <4>1. r \in rs /\ r.kind = "hook"
          BY <2>2 DEF Charted, UnknownBehavior, Makes
        <4> QED
          BY <4>1, HookConstants
      <3>2. asmFailed \in BOOLEAN /\ asmFailed' = (asmFailed \/ r.errors)
        BY <2>2 DEF Charted, UnknownBehavior, OnError
      <3> QED
        BY <3>1, <3>2
    <2> QED
      BY <2>1, <2>2
  <1>3. Charted(rs, D, at)'
    BY <1>1, <1>2 DEF Charted
  <1> QED
    BY <1>1, <1>3, ThreadedOutside

LEMMA HookSteps ==
  ASSUME HooksWork, NEW rs \in RequestSets, NEW D, NEW at, Charted(rs, D, at), Threaded(D, at),
         NEW r \in todo, WriteASMHook(r)
  PROVE  \E new : Charted(rs, D \cup {r}, new)' /\ Threaded(D \cup {r}, new)'
PROOF
  <1>1. /\ pc = Outside /\ todo' = todo \ {r} /\ UNCHANGED threadVars
        /\ r.kind = "hook" /\ IsMemoryWritable(r.site) /\ r.behavior \in Behaviors
        /\ asmFailed' = (asmFailed \/ r.errors)
    BY DEF WriteASMHook, Makes, OnError
  <1>2. r \in rs /\ r \notin D /\ todo \subseteq rs /\ D \cap todo = {} /\ asmFailed \in BOOLEAN
    BY DEF Charted
  <1>3. r \in Hooks(rs)
    BY <1>1, <1>2 DEF Hooks
  <1>4. /\ BlocksApart /\ WindowsApart /\ BlocksFit /\ D \in SUBSET Writes(rs)
        /\ Placed(rs, D, at, used) /\ Laid(mem, D, at) /\ Planned(plan, D) /\ mem \in Memories
        /\ r \in Writes(rs)
    BY <1>3 DEF HooksWork, Charted, Placed, Laid, Writes
  <1>5. WindowIs(r) /\ IsHook(r) /\ Movable(r) /\ r.kind # "nop"
    BY <1>1, <1>4, WritesAre
  <1>6. WindowStands(mem, r)
    BY <1>2, <1>4, Undisturbed
  <1> DEFINE h == End(r) - r.site
             O == Original(r)
  <1>7. HookLens(mem, r.site) = {h}
    BY <1>4, <1>5, <1>6, HookLensIs
  <1>8. r.site \in Nat /\ r.site + h = End(r)
    <2> DEFINE e == End(r)
    <2>1. e \in Nat /\ r.site \in Nat
      BY <1>5 DEF WindowIs
    <2> HIDE DEF e
    <2>2. r.site + (e - r.site) = e
      BY <2>1
    <2> QED
      BY <2>1, <2>2 DEF e
  <1>9. Read(mem, r.site, h) = Code(O)
    <2>1. O \in Seq(Instrs) /\ Len(Code(O)) = h /\ Holds(mem, r.site, Code(O))
      BY <1>5, <1>6, OriginalIs
    <2> DEFINE s == Code(O)
    <2>2. s \in Seq(Cells) /\ Len(s) = h /\ Holds(mem, r.site, s)
      BY <2>1, CodeType
    <2> HIDE DEF s, h
    <2>3. Read(mem, r.site, Len(s)) = s
      BY <1>8, <2>2, ReadIs
    <2> QED
      BY <2>2, <2>3 DEF s
  <1>10. PICK ptr \in Slots \ used :
           /\ used' = used \cup {ptr}
           /\ mem' = Patched(Write(mem, ptr, Trampoline(r, ptr, Read(mem, r.site, h), r.site + h)),
                             r, ptr, h)
           /\ executable' = executable \cup Protected(ptr, Len(Compiled(r)))
    <2>1. \E hookLen \in HookLens(mem, r.site), ptr \in Slots \ used :
            /\ used' = used \cup {ptr}
            /\ mem' = Patched(Write(mem, ptr, Trampoline(r, ptr, Read(mem, r.site, hookLen),
                                                         r.site + hookLen)),
                              r, ptr, hookLen)
            /\ executable' = executable \cup Protected(ptr, Len(Compiled(r)))
      BY DEF WriteASMHook
    <2> HIDE DEF h
    <2> QED
      BY <1>7, <2>1
  <1> DEFINE new == With(at, D, r, ptr)
             E == D \cup {r}
  <1>11. ptr \in Nat /\ ptr + WrittenLen(r) <= Top
    BY <1>3, <1>4, BlocksOutside
  <1>12. mem' = Patched(Write(mem, ptr, Block(r, ptr)), r, ptr, h)
    <2>1. Trampoline(r, ptr, Code(O), End(r)) = Block(r, ptr)
      BY <1>5, <1>11, BlockBytes
    <2> QED
      BY <1>8, <1>9, <1>10, <2>1
  <1>13. Laid(mem', E, new)
    <2>1. Laid(Patched(Write(mem, ptr, Block(r, ptr)), r, ptr, End(r) - r.site),
               D \cup {r}, With(at, D, r, ptr))
      BY <1>2, <1>3, <1>4, LaidHook
    <2> QED
      BY <1>12, <2>1
  <1>14. /\ Placed(rs, D \cup {r}, With(at, D, r, ptr), used \cup {ptr})
         /\ With(at, D, r, ptr)[r] = ptr
         /\ \A q \in HooksOf(D) : q # r /\ With(at, D, r, ptr)[q] = at[q]
         /\ r \in HooksOf(D \cup {r}) /\ HooksOf(D \cup {r}) = HooksOf(D) \cup {r}
    BY <1>2, <1>3, <1>4, PlacedHook
  <1>15. Placed(rs, E, new, used')
    BY <1>10, <1>14
  <1>16. Planned(plan', E)
    <2>1. /\ Follow(plan, r.site, MIN_HOOK_LENGTH) = [run |-> NamesOf(O), to |-> End(r)]
          /\ Asked(r) = Splice(r.behavior, Names(r.body), NamesOf(O))
      BY <1>2, <1>3, <1>4, PlannedWindow
    <2>2. plan' = [plan EXCEPT ![r.site] =
                     [run |-> Splice(r.behavior, Names(r.body),
                                     Follow(plan, r.site, MIN_HOOK_LENGTH).run),
                      to |-> Follow(plan, r.site, MIN_HOOK_LENGTH).to]]
      BY DEF WriteASMHook
    <2>3. /\ Follow(plan, r.site, MIN_HOOK_LENGTH).run = NamesOf(O)
          /\ Follow(plan, r.site, MIN_HOOK_LENGTH).to = End(r)
      BY <2>1
    <2>4. plan' = [plan EXCEPT ![r.site] = [run |-> Asked(r), to |-> End(r)]]
      BY <2>1, <2>2, <2>3
    <2>5. Planned([plan EXCEPT ![r.site] = [run |-> Asked(r), to |-> End(r)]], D \cup {r})
      BY <1>2, <1>4, PlannedMore
    <2> QED
      BY <2>4, <2>5
  <1>17. Protected(ptr, Len(Compiled(r))) = Pages(ptr, Len(Compiled(r)))
    BY DEF Protected
  <1>18. executable' \subseteq 0 .. (Top - 1) \div PageSize
    <2>1. Len(Compiled(r)) \in Nat /\ Len(Compiled(r)) <= WrittenLen(r) /\ WrittenLen(r) \in Nat
      BY <1>5, <1>11, BlockBytes
    <2>2. ptr + Len(Compiled(r)) <= Top
      <3> DEFINE x == Len(Compiled(r))
                 y == WrittenLen(r)
      <3>1. x \in Nat /\ y \in Nat /\ x <= y /\ ptr + y <= Top /\ ptr \in Nat /\ Top \in Nat
        BY <1>11, <2>1, HookConstants
      <3> HIDE DEF x, y
      <3>2. ptr + x <= Top
        BY <3>1
      <3> QED
        BY <3>2 DEF x
    <2>3. Pages(ptr, Len(Compiled(r))) \subseteq 0 .. (Top - 1) \div PageSize
      BY <1>11, <2>1, <2>2, PagesInMemory
    <2>4. executable \subseteq 0 .. (Top - 1) \div PageSize
      BY DEF Charted
    <2> QED
      BY <1>10, <1>17, <2>3, <2>4
  <1>19. Pages(Base, Len(Code(Program))) \subseteq executable'
    BY <1>10 DEF Charted
  <1>20. r.errors \in BOOLEAN
    BY <1>5 DEF IsHook
  <1>21. ASSUME NEW q \in HooksOf(E)
         PROVE  IF q.errors THEN asmFailed' ELSE Pages(new[q], WrittenLen(q)) \subseteq executable'
    <2>1. CASE q = r
      <3>1. CASE r.errors
        BY <1>1, <2>1, <3>1
      <3>2. CASE ~r.errors
        <4>1. Pages(ptr, WrittenLen(r)) \subseteq Protected(ptr, Len(Compiled(r)))
          BY <1>3, <1>4, <3>2 DEF BlocksFit
        <4> QED
          BY <1>10, <1>14, <2>1, <3>2, <4>1
      <3> QED
        BY <3>1, <3>2
    <2>2. CASE q # r
      <3>1. q \in HooksOf(D) /\ new[q] = at[q]
        BY <1>14, <2>2
      <3>2. IF q.errors THEN asmFailed ELSE Pages(at[q], WrittenLen(q)) \subseteq executable
        BY <3>1 DEF Charted
      <3> QED
        BY <1>1, <1>10, <3>1, <3>2
    <2> QED
      BY <2>1, <2>2
  <1>22. todo' \subseteq rs /\ E \cap todo' = {} /\ asmFailed' \in BOOLEAN
    BY <1>1, <1>2, <1>20
  <1> HIDE DEF new, E
  <1>23. Charted(rs, E, new)'
    BY <1>13, <1>15, <1>16, <1>18, <1>19, <1>21, <1>22 DEF Charted
  <1>24. Threaded(E, new)'
    BY <1>1, ThreadedOutside
  <1> QED
    BY <1>23, <1>24 DEF E

LEMMA NopSteps ==
  ASSUME HooksWork, NEW rs \in RequestSets, NEW D, NEW at, Charted(rs, D, at), Threaded(D, at),
         NEW r \in todo, NopInstructions(r)
  PROVE  Charted(rs, D \cup {r}, at)' /\ Threaded(D \cup {r}, at)'
PROOF
  <1>1. /\ pc = Outside /\ todo' = todo \ {r} /\ UNCHANGED threadVars
        /\ r.kind = "nop" /\ IsMemoryWritable(r.site) /\ r.count > 0
        /\ UNCHANGED <<executable, used, asmFailed>>
    BY DEF NopInstructions, Makes
  <1>2. r \in rs /\ r \notin D /\ todo \subseteq rs /\ D \cap todo = {}
    BY DEF Charted
  <1>3. r \in Clears(rs)
    BY <1>1, <1>2 DEF Clears
  <1>4. /\ BlocksApart /\ WindowsApart /\ D \in SUBSET Writes(rs)
        /\ Placed(rs, D, at, used) /\ Laid(mem, D, at) /\ Planned(plan, D) /\ mem \in Memories
        /\ r \in Writes(rs)
    BY <1>3 DEF HooksWork, Charted, Placed, Laid, Writes
  <1>5. WindowIs(r)
    BY <1>4, WritesAre
  <1>6. WindowStands(mem, r)
    BY <1>2, <1>4, Undisturbed
  <1>7. NopLens(mem, r.site, r.count) = {End(r) - r.site} /\ After(r.site, r.count) = End(r)
    BY <1>1, <1>4, <1>5, <1>6, NopLensIs
  <1>8. mem' = Write(mem, r.site, Nops(End(r) - r.site))
    BY <1>7 DEF NopInstructions
  <1>9. /\ Laid(mem', D \cup {r}, at)
        /\ Placed(rs, D \cup {r}, at, used)
        /\ HooksOf(D \cup {r}) = HooksOf(D)
    BY <1>2, <1>3, <1>4, <1>8, LaidNop
  <1>10. Planned(plan', D \cup {r})
    <2>1. plan' = [plan EXCEPT ![r.site] = [run |-> <<>>, to |-> End(r)]]
      BY <1>7 DEF NopInstructions
    <2>2. Asked(r) = <<>>
      BY <1>1 DEF Asked
    <2>3. Planned([plan EXCEPT ![r.site] = [run |-> Asked(r), to |-> End(r)]], D \cup {r})
      BY <1>2, <1>4, PlannedMore
    <2> QED
      BY <2>1, <2>2, <2>3
  <1>11. todo' \subseteq rs /\ (D \cup {r}) \cap todo' = {}
    BY <1>1, <1>2
  <1>12. Charted(rs, D \cup {r}, at)'
    BY <1>1, <1>9, <1>10, <1>11 DEF Charted
  <1> QED
    BY <1>1, <1>12, ThreadedOutside

-----------------------------------------------------------------------------
(* The invariant is inductive.                                              *)

LEMMA HookInvIs ==
  ASSUME NEW rs \in RequestSets, NEW D, NEW at, Charted(rs, D, at), Threaded(D, at)
  PROVE  HookInv
PROOF
  <1>1. D \in SUBSET rs /\ at \in [HooksOf(D) -> used]
    BY DEF Charted, Placed, Writes, Hooks, Clears
  <1> QED
    BY <1>1 DEF HookInv

LEMMA HookInit == Init => HookInv
PROOF
  <1> SUFFICES ASSUME Init PROVE HookInv
    OBVIOUS
  <1> DEFINE at == [r \in {} |-> 0]
             L == Len(Code(Program))
  <1>1. PICK rs \in RequestSets : todo = rs
    BY DEF Init
  <1>2. HooksOf({}) = {}
    BY DEF HooksOf
  <1>3. Placed(rs, {}, at, used)
    <2>1. used = {}
      BY DEF Init
    <2>2. at \in [{} -> {}]
      OBVIOUS
    <2> HIDE DEF at
    <2> QED
      BY <1>2, <2>1, <2>2 DEF Placed
  <1> HIDE DEF at
  <1>4. Laid(mem, {}, at)
    BY LaidInit DEF Init
  <1>5. Planned(plan, {})
    BY PlannedInit DEF Init
  <1>6. Base \in Nat /\ L \in Nat /\ Base + L <= Top
    BY ProgramIs, CodeType, HookConstants
  <1>7. executable = Pages(Base, L) /\ asmFailed = FALSE
    BY DEF Init
  <1> HIDE DEF L
  <1>8. executable \subseteq 0 .. (Top - 1) \div PageSize
    BY <1>6, <1>7, PagesInMemory
  <1>9. Charted(rs, {}, at)
    BY <1>1, <1>2, <1>3, <1>4, <1>5, <1>7, <1>8 DEF Charted, L
  <1>10. Threaded({}, at)
    <2>1. pc = Outside /\ stack = <<>> /\ ran = <<>> /\ want = <<>>
      BY DEF Init
    <2>2. <<>> \in Seq(Acts)
      OBVIOUS
    <2> QED
      BY <2>1, <2>2 DEF Threaded, Stacked
  <1> QED
    BY <1>9, <1>10, HookInvIs

LEMMA EnterSteps ==
  ASSUME HooksWork, NEW rs \in RequestSets, NEW D, NEW at, Charted(rs, D, at), Threaded(D, at),
         NEW a \in Entries, Enter(a)
  PROVE  Charted(rs, D, at)' /\ Threaded(D, at)'
PROOF
  <1>1. /\ pc' = a /\ stack' = <<Outside>> /\ ran' = <<>> /\ want' = AskedFrom(plan, a)
        /\ UNCHANGED codeVars
    BY DEF Enter, AskedFrom
  <1>2. Charted(rs, D, at)'
    BY <1>1 DEF codeVars, Charted
  <1>3. plan' = plan
    BY <1>1 DEF codeVars
  <1>4. WindowsApart /\ D \in SUBSET Writes(rs)
    BY DEF HooksWork, Charted, Placed
  <1>5. PICK n \in DOMAIN Program : a = Start(n)
    BY HookConstants
  <1>6. Enterable(D, n)
    BY <1>4, <1>5, TargetEnterable
  <1>7. AtInstr(plan, D, a, <<Outside>>, AskedFrom(plan, a))
    BY <1>5, <1>6 DEF AtInstr
  <1>8. Position(plan, D, at, a, <<Outside>>, AskedFrom(plan, a))
    BY <1>7 DEF Position
  <1>9. a \in Nat /\ AskedFrom(plan, a) \in Seq(Acts)
    BY <1>8, PositionType
  <1>10. <<>> \in Seq(Acts) /\ want' = <<>> \o AskedFrom(plan, a)
    BY <1>1, <1>9, OfNames
  <1>11. /\ pc' \in Nat
         /\ \E rest \in Seq(Acts) :
              Position(plan', D, at, pc', stack', rest) /\ want' = ran' \o rest
    BY <1>1, <1>3, <1>8, <1>9, <1>10
  <1> QED
    BY <1>1, <1>2, <1>9, <1>10, <1>11 DEF Threaded, Stacked

LEMMA HookNext == HooksWork /\ HookInv /\ [Next]_vars => HookInv'
PROOF
  <1> SUFFICES ASSUME HooksWork, HookInv, [Next]_vars PROVE HookInv'
    OBVIOUS
  <1>1. PICK rs \in RequestSets : \E D, at : Charted(rs, D, at) /\ Threaded(D, at)
    BY DEF HookInv
  <1>2. PICK D : \E at : Charted(rs, D, at) /\ Threaded(D, at)
    BY <1>1
  <1>3. PICK at : Charted(rs, D, at) /\ Threaded(D, at)
    BY <1>2
  <1>4. ASSUME NEW E, NEW new, Charted(rs, E, new)', Threaded(E, new)'
        PROVE  HookInv'
    <2>1. E \in SUBSET rs /\ new \in [HooksOf(E) -> used']
      BY <1>4 DEF Charted, Placed, Writes, Hooks, Clears
    <2> QED
      BY <1>4, <2>1 DEF HookInv
  <1>5. CASE \E r \in todo : Refused(r) \/ UnknownBehavior(r)
    <2>1. Charted(rs, D, at)' /\ Threaded(D, at)'
      BY <1>3, <1>5, RefusedSteps
    <2> QED
      BY <1>4, <2>1
  <1>6. ASSUME NEW r \in todo, WriteASMHook(r) PROVE HookInv'
    <2>1. \E new : Charted(rs, D \cup {r}, new)' /\ Threaded(D \cup {r}, new)'
      BY <1>3, <1>6, HookSteps
    <2> QED
      BY <1>4, <2>1
  <1>7. ASSUME NEW r \in todo, NopInstructions(r) PROVE HookInv'
    <2>1. Charted(rs, D \cup {r}, at)' /\ Threaded(D \cup {r}, at)'
      BY <1>3, <1>7, NopSteps
    <2> QED
      BY <1>4, <2>1
  <1>8. ASSUME NEW a \in Entries, Enter(a) PROVE HookInv'
    <2>1. Charted(rs, D, at)' /\ Threaded(D, at)'
      BY <1>3, <1>8, EnterSteps
    <2> QED
      BY <1>4, <2>1
  <1>9. CASE Step
    <2>1. Charted(rs, D, at)' /\ Threaded(D, at)'
      BY <1>3, <1>9, ThreadSteps
    <2> QED
      BY <1>4, <2>1
  <1>10. CASE UNCHANGED vars
    BY <1>10 DEF vars, codeVars, threadVars, HookInv, Charted, Threaded
  <1> QED
    BY <1>5, <1>6, <1>7, <1>8, <1>9, <1>10 DEF Next

-----------------------------------------------------------------------------
(* What follows from it.                                                    *)

LEMMA HookInvTypes == HooksWork /\ HookInv => HookTypeOK
PROOF
  <1> SUFFICES ASSUME HooksWork, HookInv PROVE HookTypeOK
    OBVIOUS
  <1>1. PICK rs \in RequestSets : \E D, at : Charted(rs, D, at) /\ Threaded(D, at)
    BY DEF HookInv
  <1>2. PICK D : \E at : Charted(rs, D, at) /\ Threaded(D, at)
    BY <1>1
  <1>3. PICK at : Charted(rs, D, at) /\ Threaded(D, at)
    BY <1>2
  <1>4. DOMAIN mem = 0 .. Top - 1
    BY <1>3 DEF Charted, Laid, Memories
  <1>5. /\ executable \subseteq 0 .. (Top - 1) \div PageSize
        /\ used \subseteq Slots /\ todo \subseteq rs /\ asmFailed \in BOOLEAN
        /\ DOMAIN plan = {Start(n) : n \in DOMAIN Routine}
        /\ WindowsApart /\ D \in SUBSET Writes(rs)
    BY <1>3 DEF Charted, Placed, Planned, HooksWork
  <1>6. pc \in DOMAIN mem \cup {Outside, Crashed}
    <2> SUFFICES ASSUME NEW rest, Position(plan, D, at, pc, stack, rest)
                 PROVE  pc \in DOMAIN mem
      BY <1>3 DEF Threaded
    <2>1. PICK i \in Instrs : Faces(i)
      BY <1>3, PositionLeads
    <2> QED
      BY <2>1, StandsDecodes DEF Faces
  <1>7. ASSUME NEW r \in HooksOf(D) PROVE r.site + MIN_HOOK_LENGTH \in 0 .. Top - 1
    <2>1. r \in Writes(rs) /\ r.kind = "hook"
      BY <1>5 DEF HooksOf
    <2>2. WindowIs(r) /\ End(r) - r.site >= MIN_HOOK_LENGTH
      BY <1>5, <2>1, WritesAre
    <2> DEFINE n == First(r) + Count(r)
               P == Len(Program)
               e == End(r)
    <2>3. n \in 1 .. P /\ e = Start(n) /\ e \in Nat /\ r.site \in Nat
      BY <2>2 DEF WindowIs, End
    <2>4. P \in Nat
      BY ProgramIs
    <2> HIDE DEF n
    <2>5. n \in 1 .. P + 1 /\ P + 1 \in 1 .. P + 1 /\ n < P + 1
      BY <2>3, <2>4
    <2>6. Start(n) < Start(P + 1) /\ Start(P + 1) \in Nat /\ Start(P + 1) <= Top /\ Top \in Nat
      BY <2>5, Starts, HookConstants
    <2>7. e < Top
      <3>1. \A x, y, z \in Nat : x < y /\ y <= z => x < z
        OBVIOUS
      <3> HIDE DEF e, P
      <3> QED
        BY <2>3, <2>6, <3>1
    <2>8. e - r.site >= MIN_HOOK_LENGTH /\ MIN_HOOK_LENGTH \in Nat
      BY <2>2, MinHookLength
    <2> HIDE DEF e
    <2> QED
      BY <2>3, <2>6, <2>7, <2>8
  <1>8. \A n \in DOMAIN stack : stack[n] \in DOMAIN mem \cup {Outside}
    <2>1. Stacked(D, stack)
      BY <1>3 DEF Threaded
    <2>2. CASE stack = <<>> \/ stack = <<Outside>>
      BY <2>2
    <2>3. CASE \E r \in HooksOf(D) : stack = <<r.site + MIN_HOOK_LENGTH, Outside>>
      <3>1. PICK r \in HooksOf(D) : stack = <<r.site + MIN_HOOK_LENGTH, Outside>>
        BY <2>3
      <3> DEFINE a == r.site + MIN_HOOK_LENGTH
      <3>2. a \in DOMAIN mem
        BY <1>4, <1>7
      <3> HIDE DEF a
      <3>3. stack = <<a, Outside>>
        BY <3>1 DEF a
      <3> QED
        BY <3>2, <3>3
    <2> QED
      BY <2>1, <2>2, <2>3 DEF Stacked
  <1> QED
    BY <1>4, <1>5, <1>6, <1>8 DEF HookTypeOK

LEMMA HookInvRuns == HookInv => RunsAsSpliced /\ LeavesWhole
PROOF
  <1> SUFFICES ASSUME HookInv PROVE RunsAsSpliced /\ LeavesWhole
    OBVIOUS
  <1>1. PICK rs \in RequestSets : \E D, at : Charted(rs, D, at) /\ Threaded(D, at)
    BY DEF HookInv
  <1>2. PICK D : \E at : Charted(rs, D, at) /\ Threaded(D, at)
    BY <1>1
  <1>3. PICK at : Charted(rs, D, at) /\ Threaded(D, at)
    BY <1>2
  <1>4. ran \in Seq(Acts) /\ want \in Seq(Acts)
    BY <1>3 DEF Threaded
  <1>5. CASE pc = Crashed /\ asmFailed
    BY <1>5 DEF RunsAsSpliced, LeavesWhole
  <1>6. CASE pc = Outside /\ stack = <<>> /\ ran = want
    <2>1. <<>> \in Seq(Acts) /\ ran \o <<>> = ran
      BY <1>4, OfNames
    <2>2. IsPrefix(ran, ran \o <<>>)
      BY <1>4, <2>1, RunsOn
    <2>3. pc # Crashed
      BY <1>6 DEF Outside, Crashed
    <2> QED
      BY <1>6, <2>1, <2>2, <2>3 DEF RunsAsSpliced, LeavesWhole
  <1>7. CASE pc \in Nat /\ \E rest \in Seq(Acts) :
               Position(plan, D, at, pc, stack, rest) /\ want = ran \o rest
    <2>1. pc # Outside /\ pc # Crashed
      BY <1>7 DEF Outside, Crashed
    <2>2. IsPrefix(ran, want)
      BY <1>4, <1>7, RunsOn
    <2> QED
      BY <2>1, <2>2 DEF RunsAsSpliced, LeavesWhole
  <1> QED
    BY <1>3, <1>5, <1>6, <1>7 DEF Threaded

\* Where hooks work the invariant holds in every state.
THEOREM HookInvariant ==
  ASSUME HooksWork
  PROVE  Spec => []HookInv
PROOF
  <1>1. Init => HookInv
    BY HookInit
  <1>2. HookInv /\ [Next]_vars => HookInv'
    BY HookNext
  <1> QED
    BY <1>1, <1>2, PTL DEF Spec

\* The memory keeps its bounds, and so do the thread's address and its return
\* addresses, through every WriteASMHook, NopInstructions and step of the game.
THEOREM HooksTyped ==
  ASSUME HooksWork
  PROVE  Spec => []HookTypeOK
PROOF
  <1>1. HookInv => HookTypeOK
    BY HookInvTypes
  <1> QED
    BY <1>1, HookInvariant, PTL

\* A thread that enters the hooked routine runs what the hooks ask for, in
\* order, and nothing else, and does not crash: the blocks, jumps and copies
\* that WriteASMHook and NopInstructions write come to what was asked of them.
THEOREM HooksRunAsSpliced ==
  ASSUME HooksWork
  PROVE  Spec => []RunsAsSpliced
PROOF
  <1>1. HookInv => RunsAsSpliced
    BY HookInvRuns
  <1> QED
    BY <1>1, HookInvariant, PTL

\* When it leaves it has run all of that, and the stack is as it was: each way
\* back that WriteASMHook compiles leads behind the window, by a jump or by a
\* return from the call it wrote.
THEOREM HooksLeaveWhole ==
  ASSUME HooksWork
  PROVE  Spec => []LeavesWhole
PROOF
  <1>1. HookInv => LeavesWhole
    BY HookInvRuns
  <1> QED
    BY <1>1, HookInvariant, PTL
=============================================================================
