----------------------------- MODULE ListProofs -----------------------------
(***************************************************************************)
(* What is made of a list from its first element to its last: a function   *)
(* along the numbers, each value made of the one before, exists and stays in *)
(* the set its steps stay in; and what is picked of a list is a list of the *)
(* same elements, in which none is repeated that was not.                  *)
(***************************************************************************)
EXTENDS Lists, Functions, SequenceTheorems, NaturalsInduction, WellFoundedInduction, TLAPS

\* Every set of numbers that is not empty has a least one.
LEMMA LeastOf == ASSUME NEW S \in SUBSET Nat, S # {} PROVE \E n \in S : \A m \in S : n <= m
<1> DEFINE R == OpToRel(<, Nat)
<1>1. IsWellFoundedOn(R, Nat)
  BY NatLessThanWellFounded
<1>2. \A n, m \in Nat : n < m => <<n, m>> \in R
  BY DEF OpToRel
<1> HIDE DEF R
<1>3. PICK n \in S : \A m \in S : ~(<<m, n>> \in R)
  BY <1>1, WFMin
<1>4. \A m \in S : ~(m < n)
  BY <1>2, <1>3
<1> QED
  BY <1>4

\* A function along the numbers from 0 to N, each value made of the one before.
HasFold(N, S, base, op) == \E f \in [0..N -> S] : f[0] = base /\ \A n \in 1..N : f[n] = op[<<f[n - 1], n>>]

\* It exists, and has its values in the set its steps stay in.
LEMMA FoldExists ==
  ASSUME NEW N \in Nat, NEW S, NEW base \in S, NEW op \in [S \X (1..N) -> S]
  PROVE  HasFold(N, S, base, op)
<1> DEFINE Along(f, m) == f[0] = base /\ \A n \in 1..m : f[n] = op[<<f[n - 1], n>>]
           Good(m) == \E f \in [0..m -> S] : Along(f, m)
           Wrong == {m \in 0..N : ~Good(m)}
<1>1. Good(0)
  <2> DEFINE f == [n \in 0..0 |-> base]
  <2>1. f \in [0..0 -> S] /\ Along(f, 0)
    OBVIOUS
  <2> QED BY <2>1
<1>2. ASSUME NEW m \in 0..N, m + 1 \in 0..N, Good(m) PROVE Good(m + 1)
  <2>1. PICK f \in [0..m -> S] : Along(f, m)
    BY <1>2
  <2> DEFINE g == [n \in 0..(m + 1) |-> IF n = m + 1 THEN op[<<f[m], m + 1>>] ELSE f[n]]
  <2>2. g \in [0..(m + 1) -> S]
    <3>1. f[m] \in S /\ m + 1 \in 1..N
      BY <1>2
    <3>2. op[<<f[m], m + 1>>] \in S
      BY <3>1
    <3> QED BY <3>2
  <2>3. \A n \in 0..m : g[n] = f[n]
    OBVIOUS
  <2>4. g[m + 1] = op[<<g[m], m + 1>>]
    OBVIOUS
  <2> HIDE DEF g
  <2>5. ASSUME NEW n \in 1..(m + 1) PROVE g[n] = op[<<g[n - 1], n>>]
    <3>1. CASE n = m + 1
      BY <2>4, <3>1
    <3>2. CASE n # m + 1
      <4>1. n \in 1..m /\ n \in 0..m /\ n - 1 \in 0..m
        BY <3>2
      <4> QED BY <2>1, <2>3, <4>1
    <3> QED BY <3>1, <3>2
  <2>6. Along(g, m + 1)
    BY <2>1, <2>3, <2>5
  <2> QED BY <2>2, <2>6
<1> HIDE DEF Good
<1>3. Wrong = {}
  <2> SUFFICES ASSUME Wrong # {} PROVE FALSE
    OBVIOUS
  <2>1. PICK n \in Wrong : \A m \in Wrong : n <= m
    <3>1. Wrong \in SUBSET Nat
      OBVIOUS
    <3> HIDE DEF Wrong
    <3> QED BY <3>1, LeastOf
  <2>2. n \in 0..N /\ n # 0 /\ ~Good(n)
    BY <1>1, <2>1
  <2>3. n - 1 \in 0..N /\ n - 1 + 1 = n /\ ~(n <= n - 1)
    BY <2>2
  <2>4. Good(n - 1)
    BY <2>1, <2>3
  <2> QED BY <1>2, <2>2, <2>3, <2>4
<1>4. Good(N)
  BY <1>3
<1> QED BY <1>4 DEF Good, HasFold

\* A step that stays in a set keeps all values of a function along the numbers in it.
LEMMA FoldStays ==
  ASSUME NEW N \in Nat, NEW S, NEW f, f[0] \in S, \A n \in 1..N : f[n - 1] \in S => f[n] \in S
  PROVE  \A n \in 0..N : f[n] \in S
<1> DEFINE Wrong == {m \in 0..N : f[m] \notin S}
<1> SUFFICES ASSUME Wrong # {} PROVE FALSE
  OBVIOUS
<1>1. PICK n \in Wrong : \A m \in Wrong : n <= m
  <2>1. Wrong \in SUBSET Nat
    OBVIOUS
  <2> HIDE DEF Wrong
  <2> QED BY <2>1, LeastOf
<1>2. n \in 1..N /\ n - 1 \in 0..N /\ ~(n <= n - 1)
  BY <1>1
<1>3. f[n - 1] \in S
  BY <1>1, <1>2
<1> QED BY <1>1, <1>2, <1>3

\* Induction, over a set of numbers.
LEMMA UpTo ==
  ASSUME NEW N \in Nat, NEW P, 0 \in P, \A n \in 1..N : n - 1 \in P => n \in P
  PROVE  0..N \subseteq P
<1> DEFINE Wrong == (0..N) \ P
<1> SUFFICES ASSUME Wrong # {} PROVE FALSE
  OBVIOUS
<1>1. PICK n \in Wrong : \A m \in Wrong : n <= m
  <2>1. Wrong \in SUBSET Nat
    OBVIOUS
  <2> HIDE DEF Wrong
  <2> QED BY <2>1, LeastOf
<1>2. n \in 1..N /\ n - 1 \in 0..N /\ ~(n <= n - 1)
  BY <1>1
<1> QED BY <1>1, <1>2

\* A list is picked step by step.
PickedBy(s, at, g) ==
  /\ Picked(s, at) = g[Len(s)] /\ g[0] = <<>>
  /\ \A n \in 1..Len(s) : g[n] = IF n \in at THEN Append(g[n - 1], s[n]) ELSE g[n - 1]
LEMMA PickedAlong == ASSUME NEW S, NEW s \in Seq(S), NEW at PROVE \E g : PickedBy(s, at, g)
<1> DEFINE N == Len(s)
           Q == Seq(S)
           Step(t, n) == IF n \in at THEN Append(t, s[n]) ELSE t
           op == [x \in Q \X (1..N) |-> Step(x[1], x[2])]
           g == CHOOSE g : g = [n \in 0..N |-> IF n = 0 THEN <<>> ELSE IF n \in at THEN Append(g[n - 1], s[n]) ELSE g[n - 1]]
<1>1. N \in Nat /\ \A n \in 1..N : s[n] \in S
  BY ElementOfSeq
<1>2. (\A t \in Q, n \in 1..N : Step(t, n) \in Q) /\ <<>> \in Q
  BY <1>1
<1>3. Picked(s, at) = g[N]
  BY DEF Picked
<1> HIDE DEF N, Q
<1>4. op \in [Q \X (1..N) -> Q]
  BY <1>2
<1>5. PICK f \in [0..N -> Q] : f[0] = <<>> /\ \A n \in 1..N : f[n] = op[<<f[n - 1], n>>]
  <2> HIDE DEF op
  <2>1. HasFold(N, Q, <<>>, op)
    BY <1>1, <1>2, <1>4, FoldExists, Zenon
  <2> QED BY <2>1 DEF HasFold
<1>6. f = [n \in 0..N |-> IF n = 0 THEN <<>> ELSE IF n \in at THEN Append(f[n - 1], s[n]) ELSE f[n - 1]]
  <2>1. \A n \in 1..N : op[<<f[n - 1], n>>] = Step(f[n - 1], n)
    BY <1>1
  <2> HIDE DEF op
  <2>2. \A n \in 1..N : f[n] = IF n \in at THEN Append(f[n - 1], s[n]) ELSE f[n - 1]
    BY <1>5, <2>1
  <2>3. \A n \in 0..N : n = 0 \/ n \in 1..N
    BY <1>1
  <2>4. \A n \in 0..N : f[n] = IF n = 0 THEN <<>> ELSE IF n \in at THEN Append(f[n - 1], s[n]) ELSE f[n - 1]
    BY <1>5, <2>2, <2>3
  <2> QED BY <1>5, <2>4
<1>7. g = [n \in 0..N |-> IF n = 0 THEN <<>> ELSE IF n \in at THEN Append(g[n - 1], s[n]) ELSE g[n - 1]]
  BY <1>6
<1> HIDE DEF g
<1>8. g[0] = <<>>
  BY <1>1, <1>7
<1>9. \A n \in 1..N : g[n] = IF n \in at THEN Append(g[n - 1], s[n]) ELSE g[n - 1]
  <2> SUFFICES ASSUME NEW n \in 1..N PROVE g[n] = IF n \in at THEN Append(g[n - 1], s[n]) ELSE g[n - 1]
    OBVIOUS
  <2>1. n \in 0..N /\ n # 0
    BY <1>1
  <2> QED BY <1>7, <2>1
<1> QED BY <1>3, <1>8, <1>9 DEF N, PickedBy

\* What is picked of a list is a list of the same elements.
LEMMA PickedTyped == ASSUME NEW S, NEW s \in Seq(S), NEW at PROVE Picked(s, at) \in Seq(S)
<1> DEFINE N == Len(s)
           Q == Seq(S)
<1>1. N \in Nat /\ \A n \in 1..N : s[n] \in S
  BY ElementOfSeq
<1>2. PICK g : PickedBy(s, at, g)
  BY PickedAlong
<1> HIDE DEF N
<1>3. g[0] \in Q /\ Picked(s, at) = g[N]
  BY <1>2 DEF PickedBy, N
<1>4. \A n \in 1..N : g[n - 1] \in Q => g[n] \in Q
  <2>1. \A n \in 1..N : g[n] = IF n \in at THEN Append(g[n - 1], s[n]) ELSE g[n - 1]
    BY <1>2 DEF PickedBy, N
  <2>2. \A t \in Q, x \in S : Append(t, x) \in Q
    OBVIOUS
  <2> HIDE DEF Q
  <2> QED BY <1>1, <2>1, <2>2
<1> HIDE DEF Q
<1>5. \A n \in 0..N : g[n] \in Q
  BY <1>1, <1>3, <1>4, FoldStays
<1>6. g[N] \in Q
  BY <1>1, <1>5
<1> QED BY <1>3, <1>6 DEF Q

\* What is picked of a list without repeats has none, and is shorter if something is left out.
LEMMA PickedOnce ==
  ASSUME NEW S, NEW s \in Seq(S), IsInjective(s), NEW at
  PROVE  /\ IsInjective(Picked(s, at)) /\ Len(Picked(s, at)) <= Len(s)
         /\ \A i \in 1..Len(Picked(s, at)) : \E j \in at \cap (1..Len(s)) : Picked(s, at)[i] = s[j]
         /\ (\E j \in 1..Len(s) : j \notin at) => Len(Picked(s, at)) < Len(s)
<1> DEFINE N == Len(s)
           Good(t, n) == /\ t \in Seq(S) /\ IsInjective(t) /\ Len(t) <= n
                         /\ \A i \in 1..Len(t) : \E j \in at \cap (1..n) : t[i] = s[j]
                         /\ (\E j \in 1..n : j \notin at) => Len(t) < n
<1>1. N \in Nat /\ \A n \in 1..N : s[n] \in S
  BY ElementOfSeq
<1>2. \A i, j \in 1..N : s[i] = s[j] => i = j
  BY DEF IsInjective
<1>3. PICK g : PickedBy(s, at, g)
  BY PickedAlong
<1>a. /\ Picked(s, at) = g[N] /\ g[0] = <<>>
      /\ \A n \in 1..N : g[n] = IF n \in at THEN Append(g[n - 1], s[n]) ELSE g[n - 1]
  BY <1>3 DEF PickedBy
<1> DEFINE P == {n \in 0..N : Good(g[n], n)}
<1> HIDE DEF N
<1>4. 0 \in P
  <2>1. g[0] = <<>> /\ 0 \in 0..N
    BY <1>1, <1>a
  <2>2. Good(<<>>, 0)
    BY DEF IsInjective
  <2> HIDE DEF Good
  <2> QED BY <2>1, <2>2
<1>5. ASSUME NEW n \in 1..N, n - 1 \in P PROVE n \in P
  <2> DEFINE t == g[n - 1]
  <2>1. g[n] = IF n \in at THEN Append(t, s[n]) ELSE t
    BY <1>a
  <2>2. Good(t, n - 1)
    BY <1>5
  <2> HIDE DEF t
  <2>3. Len(t) \in Nat /\ n \in Nat /\ n - 1 \in Nat /\ DOMAIN t = 1..Len(t)
    BY <1>1, <2>2
  <2>4. CASE n \notin at
    <3>1. \A i \in 1..Len(t) : \E j \in at \cap (1..n) : t[i] = s[j]
      <4> SUFFICES ASSUME NEW i \in 1..Len(t) PROVE \E j \in at \cap (1..n) : t[i] = s[j]
        OBVIOUS
      <4>1. PICK j \in at \cap (1..(n - 1)) : t[i] = s[j]
        BY <2>2
      <4>2. j \in at \cap (1..n)
        BY <2>3
      <4> QED BY <4>1, <4>2
    <3>2. Len(t) < n
      BY <2>2, <2>3
    <3>3. Good(t, n)
      BY <2>2, <2>3, <3>1, <3>2
    <3> HIDE DEF Good
    <3> QED BY <1>1, <2>1, <2>4, <3>3
  <2>5. CASE n \in at
    <3> DEFINE u == Append(t, s[n])
    <3>1. /\ u \in Seq(S) /\ Len(u) = Len(t) + 1 /\ DOMAIN u = 1..(Len(t) + 1)
          /\ \A i \in 1..Len(t) : u[i] = t[i]
          /\ u[Len(t) + 1] = s[n]
      BY <1>1, <2>2, <2>3
    <3> HIDE DEF u
    <3>2. \A i \in 1..Len(t) : \E j \in at \cap (1..(n - 1)) : u[i] = s[j]
      BY <2>2, <3>1
    <3>3. \A i \in 1..Len(t) : u[i] # s[n]
      <4> SUFFICES ASSUME NEW i \in 1..Len(t), u[i] = s[n] PROVE FALSE
        OBVIOUS
      <4>1. PICK j \in at \cap (1..(n - 1)) : u[i] = s[j]
        BY <3>2
      <4>2. j \in 1..N /\ j # n
        BY <1>1, <2>3
      <4> QED BY <1>2, <4>1, <4>2
    <3>4. \A i, j \in 1..Len(t) : t[i] = t[j] => i = j
      BY <2>2, <2>3 DEF IsInjective
    <3>5. \A i, j \in DOMAIN u : u[i] = u[j] => i = j
      <4> SUFFICES ASSUME NEW i \in DOMAIN u, NEW j \in DOMAIN u, u[i] = u[j] PROVE i = j
        OBVIOUS
      <4>1. (i \in 1..Len(t) \/ i = Len(t) + 1) /\ (j \in 1..Len(t) \/ j = Len(t) + 1)
        BY <2>3, <3>1
      <4>2. CASE i \in 1..Len(t) /\ j \in 1..Len(t)
        BY <3>1, <3>4, <4>2
      <4>3. CASE i \in 1..Len(t) /\ j = Len(t) + 1
        BY <3>1, <3>3, <4>3
      <4>4. CASE i = Len(t) + 1 /\ j \in 1..Len(t)
        BY <3>1, <3>3, <4>4
      <4> QED BY <4>1, <4>2, <4>3, <4>4
    <3>6. \A i \in 1..Len(u) : \E j \in at \cap (1..n) : u[i] = s[j]
      <4> SUFFICES ASSUME NEW i \in 1..Len(u) PROVE \E j \in at \cap (1..n) : u[i] = s[j]
        OBVIOUS
      <4>1. CASE i \in 1..Len(t)
        <5>1. PICK j \in at \cap (1..(n - 1)) : u[i] = s[j]
          BY <3>2, <4>1
        <5>2. j \in at \cap (1..n)
          BY <2>3
        <5> QED BY <5>1, <5>2
      <4>2. CASE i \notin 1..Len(t)
        <5>1. i = Len(t) + 1 /\ n \in at \cap (1..n)
          BY <2>3, <2>5, <3>1, <4>2
        <5> QED BY <3>1, <5>1
      <4> QED BY <4>1, <4>2
    <3>7. Len(u) <= n /\ ((\E j \in 1..n : j \notin at) => Len(u) < n)
      <4>1. ASSUME NEW j \in 1..n, j \notin at PROVE j \in 1..(n - 1)
        BY <2>3, <2>5, <4>1
      <4> QED BY <2>2, <2>3, <3>1, <4>1
    <3>8. Good(u, n)
      BY <3>1, <3>5, <3>6, <3>7 DEF IsInjective
    <3>9. g[n] = u
      BY <2>1, <2>5 DEF u
    <3> HIDE DEF Good
    <3> QED BY <1>1, <3>8, <3>9
  <2> QED BY <2>4, <2>5
<1>6. N \in P
  <2>1. 0..N \subseteq P
    <3> HIDE DEF P
    <3> QED BY <1>1, <1>4, <1>5, UpTo
  <2>2. N \in 0..N
    BY <1>1
  <2> HIDE DEF P
  <2> QED BY <2>1, <2>2
<1> QED BY <1>a, <1>6 DEF N
==============================================================================
