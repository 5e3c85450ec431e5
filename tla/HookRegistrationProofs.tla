------------------------ MODULE HookRegistrationProofs ------------------------
(***************************************************************************)
(* HookRegistration never breaks the settings, what it overwrites is in the *)
(* backup, and it leaves the hooks of others as they were and the           *)
(* guardrail's own once or gone: for any settings, hooks of other tools,    *)
(* edits and runs.                                                          *)
(*                                                                          *)
(* Every loop over entries and hooks is one loop, Each: what is made of     *)
(* each element, joined up.  A loop over the results of a loop is a loop    *)
(* over the first list (EachEach), so what the stripped entries call is,    *)
(* hook by hook, what the entries called but for the guardrail.             *)
(***************************************************************************)
EXTENDS HookRegistration, FiniteSetTheorems, SequenceTheorems, TLAPS

----------------------------------------------------------------------------
(* Loops over lists *)

\* A set of indices that has 0 and, with k, k + 1 has them all: the least
\* index outside it would have a predecessor inside.
LEMMA Induction ==
  ASSUME NEW n \in Nat, NEW S, 0 \in S, \A k \in 0..(n - 1) : k \in S => k + 1 \in S
  PROVE  \A k \in 0..n : k \in S
<1> DEFINE T == 0..n \ S
<1>1. SUFFICES ASSUME T # {} PROVE FALSE
  OBVIOUS
<1>0. T \subseteq Nat
  OBVIOUS
<1>2. PICK x \in T : \A y \in T : ~(<<y, x>> \in OpToRel(<, Nat))
  <2> HIDE DEF T
  <2> QED BY <1>0, <1>1, NatLessThanWellFounded, WFMin
<1>3. \A y \in T : ~(y < x)
  BY <1>0, <1>2 DEF OpToRel
<1>4. x # 0 /\ x - 1 \in 0..(n - 1) /\ x - 1 \notin T
  BY <1>3
<1> QED BY <1>4

\* FlattenSeq, prefix by prefix: it is some solution of an equation, and
\* there is one.
Flattens(g, ss) ==
  /\ g[0] = <<>>
  /\ \A k \in 1..Len(ss) : g[k] = g[k - 1] \o ss[k]
Solves(f, ss, m) ==
  \A i \in 1..Len(ss) : i <= m => f[i] = IF i = 1 THEN ss[i] ELSE f[i - 1] \o ss[i]

\* There is such a solution, because it can be continued by one more prefix.
LEMMA FlattenExists ==
  ASSUME NEW A, NEW ss \in Seq(Seq(A))
  PROVE  \E f \in [1..Len(ss) -> Seq(A)] : Solves(f, ss, Len(ss))
<1>1. PICK n \in Nat : n = Len(ss) /\ \A i \in 1..n : ss[i] \in Seq(A)
  OBVIOUS
<1> DEFINE S == {m \in 0..n : \E f \in [1..n -> Seq(A)] : Solves(f, ss, m)}
<1>2. 0 \in S
  <2>1. ss \in [1..n -> Seq(A)] /\ Solves(ss, ss, 0)
    BY <1>1 DEF Solves
  <2> QED BY <2>1
<1>3. ASSUME NEW m \in 0..(n - 1), m \in S PROVE m + 1 \in S
  <2>1. PICK f \in [1..n -> Seq(A)] : Solves(f, ss, m)
    BY <1>3
  <2> DEFINE next == IF m = 0 THEN ss[1] ELSE f[m] \o ss[m + 1]
             h == [f EXCEPT ![m + 1] = next]
  <2>2. m + 1 \in 1..n /\ (m # 0 => m \in 1..n)
    OBVIOUS
  <2>3. next \in Seq(A)
    <3>1. ss[m + 1] \in Seq(A) /\ (m # 0 => f[m] \in Seq(A))
      BY <1>1, <2>2
    <3> QED BY <3>1
  <2> HIDE DEF next
  <2>4. h \in [1..n -> Seq(A)] /\ h[m + 1] = next /\ \A i \in 1..n : i # m + 1 => h[i] = f[i]
    BY <2>2, <2>3
  <2> HIDE DEF h
  <2>5. h[m + 1] = IF m + 1 = 1 THEN ss[m + 1] ELSE h[m] \o ss[m + 1]
    <3>1. m # 0 => h[m] = f[m]
      BY <2>2, <2>4
    <3> QED BY <2>4, <3>1 DEF next
  <2>6. ASSUME NEW i \in 1..n, i <= m
        PROVE  h[i] = IF i = 1 THEN ss[i] ELSE h[i - 1] \o ss[i]
    <3>1. i # m + 1 /\ i - 1 # m + 1 /\ (i # 1 => i - 1 \in 1..n)
      BY <2>6
    <3>2. h[i] = f[i] /\ (i # 1 => h[i - 1] = f[i - 1])
      BY <2>4, <3>1
    <3> QED BY <1>1, <2>1, <2>6, <3>2 DEF Solves
  <2>7. Solves(h, ss, m + 1)
    <3> SUFFICES ASSUME NEW i \in 1..n, i <= m + 1
                 PROVE  h[i] = IF i = 1 THEN ss[i] ELSE h[i - 1] \o ss[i]
      BY <1>1 DEF Solves
    <3>1. CASE i = m + 1
      <4>1. i - 1 = m
        BY <3>1
      <4> QED BY <2>5, <3>1, <4>1
    <3>2. CASE i <= m
      BY <2>6, <3>2
    <3> QED BY <3>1, <3>2
  <2> QED BY <2>2, <2>4, <2>7
<1>4. n \in S
  <2>1. \A k \in 0..n : k \in S
    <3> HIDE DEF S
    <3> QED BY <1>2, <1>3, Induction
  <2>2. n \in 0..n
    OBVIOUS
  <2> QED BY <2>1, <2>2, Zenon
<1> QED BY <1>1, <1>4

\* FlattenSeq is its last prefix.
LEMMA Flattening ==
  ASSUME NEW A, NEW ss \in Seq(Seq(A))
  PROVE  \E g \in [0..Len(ss) -> Seq(A)] : Flattens(g, ss) /\ FlattenSeq(ss) = g[Len(ss)]
<1>1. PICK n \in Nat : n = Len(ss) /\ \A i \in 1..n : ss[i] \in Seq(A)
  OBVIOUS
<1> DEFINE Eq(f) == f = [i \in 1..n |-> IF i = 1 THEN ss[i] ELSE f[i - 1] \o ss[i]]
           flatten == CHOOSE f : Eq(f)
<1>2. PICK f \in [1..n -> Seq(A)] : Solves(f, ss, n)
  BY <1>1, FlattenExists
<1>3. Eq(f)
  <2>1. \A i \in 1..n : f[i] = IF i = 1 THEN ss[i] ELSE f[i - 1] \o ss[i]
    <3> SUFFICES ASSUME NEW i \in 1..n
                 PROVE  f[i] = IF i = 1 THEN ss[i] ELSE f[i - 1] \o ss[i]
      OBVIOUS
    <3>1. i \in 1..Len(ss) /\ i <= n
      BY <1>1
    <3> QED BY <1>2, <3>1, Zenon DEF Solves
  <2>2. f = [i \in 1..n |-> f[i]]
    OBVIOUS
  <2> QED BY <2>1, <2>2
<1>4. flatten = [i \in 1..n |-> IF i = 1 THEN ss[i] ELSE flatten[i - 1] \o ss[i]]
  BY <1>3
<1>5. FlattenSeq(ss) = IF n = 0 THEN ss ELSE flatten[n]
  BY <1>1 DEF FlattenSeq
<1> HIDE DEF flatten
<1> DEFINE g == [k \in 0..n |-> IF k = 0 THEN <<>> ELSE flatten[k]]
           S == {k \in 0..n : g[k] \in Seq(A)}
<1>6. \A i \in 1..n : flatten[i] = IF i = 1 THEN ss[i] ELSE flatten[i - 1] \o ss[i]
  BY <1>4, Zenon
<1>7. g[0] = <<>> /\ \A k \in 1..n : g[k] = flatten[k]
  OBVIOUS
<1>8. g = [k \in 0..n |-> g[k]]
  OBVIOUS
<1>9. g[n] = FlattenSeq(ss)
  <2>1. n = 0 => ss = <<>>
    BY <1>1, EmptySeq
  <2>2. n # 0 => n \in 1..n
    OBVIOUS
  <2> HIDE DEF g
  <2> QED BY <1>5, <1>7, <2>1, <2>2
<1> HIDE DEF g
<1>10. ASSUME NEW k \in 1..n PROVE g[k] = g[k - 1] \o ss[k]
  <2>1. CASE k = 1
    <3>1. <<>> \o ss[k] = ss[k] /\ k - 1 = 0
      BY <1>1, <2>1
    <3>2. g[k] = ss[k]
      BY <1>6, <1>7, <2>1
    <3> QED BY <1>7, <3>1, <3>2
  <2>2. CASE k # 1
    <3>1. k - 1 \in 1..n
      BY <2>2
    <3> QED BY <1>6, <1>7, <2>2, <3>1
  <2> QED BY <2>1, <2>2
<1>11. ASSUME NEW k \in 0..(n - 1), k \in S PROVE k + 1 \in S
  <2>1. k + 1 \in 1..n /\ k + 1 \in 0..n /\ (k + 1) - 1 = k
    OBVIOUS
  <2>2. g[k] \o ss[k + 1] \in Seq(A)
    BY <1>1, <1>11, <2>1
  <2> QED BY <1>10, <2>1, <2>2
<1>12. \A k \in 0..n : k \in S
  <2>1. 0 \in S
    <3>1. <<>> \in Seq(A) /\ 0 \in 0..n
      OBVIOUS
    <3> QED BY <1>7, <3>1
  <2> HIDE DEF S
  <2> QED BY <1>11, <2>1, Induction
<1>13. g \in [0..n -> Seq(A)]
  BY <1>8, <1>12
<1> QED BY <1>1, <1>7, <1>9, <1>10, <1>13 DEF Flattens

----------------------------------------------------------------------------
(* For each element of a list, what a piece of work makes of it. *)

Each(p, s) == FlattenSeq([i \in DOMAIN s |-> p[s[i]]])
Walks(g, p, s) ==
  /\ g[0] = <<>>
  /\ \A k \in 1..Len(s) : g[k] = g[k - 1] \o p[s[k]]

WalksTo(p, s, B, t) == \E g \in [0..Len(s) -> Seq(B)] : Walks(g, p, s) /\ t = g[Len(s)]

\* The loop goes through the list, one element a turn ...
LEMMA EachWalks ==
  ASSUME NEW A, NEW B, NEW p \in [A -> Seq(B)], NEW s \in Seq(A)
  PROVE  WalksTo(p, s, B, Each(p, s))
<1>1. PICK n \in Nat : n = Len(s) /\ DOMAIN s = 1..n /\ \A i \in 1..n : s[i] \in A
  OBVIOUS
<1> DEFINE ss == [i \in 1..n |-> p[s[i]]]
<1>2. ss \in Seq(Seq(B)) /\ Len(ss) = n
  <2>1. \A i \in 1..n : p[s[i]] \in Seq(B)
    BY <1>1
  <2> QED BY <2>1
<1>3. Each(p, s) = FlattenSeq(ss) /\ \A i \in 1..n : ss[i] = p[s[i]]
  BY <1>1 DEF Each
<1> HIDE DEF ss
<1>4. PICK g \in [0..n -> Seq(B)] : Flattens(g, ss) /\ FlattenSeq(ss) = g[n]
  BY <1>2, Flattening
<1>5. Walks(g, p, s)
  BY <1>1, <1>2, <1>3, <1>4 DEF Flattens, Walks
<1> QED BY <1>1, <1>3, <1>4, <1>5 DEF WalksTo

\* ... and is the only one that does.
LEMMA EachIs ==
  ASSUME NEW A, NEW B, NEW p \in [A -> Seq(B)], NEW s \in Seq(A), NEW g, Walks(g, p, s)
  PROVE  Each(p, s) = g[Len(s)]
<1>1. PICK n \in Nat : n = Len(s)
  OBVIOUS
<1>2. PICK h \in [0..n -> Seq(B)] : Walks(h, p, s) /\ Each(p, s) = h[n]
  <2>1. WalksTo(p, s, B, Each(p, s))
    BY EachWalks
  <2> QED BY <1>1, <2>1, Zenon DEF WalksTo
<1> DEFINE S == {k \in 0..n : g[k] = h[k]}
<1>3. 0 \in S
  BY <1>2 DEF Walks
<1>4. ASSUME NEW k \in 0..(n - 1), k \in S PROVE k + 1 \in S
  <2>1. k + 1 \in 1..n /\ k + 1 \in 0..n /\ (k + 1) - 1 = k
    OBVIOUS
  <2>2. g[k + 1] = g[k] \o p[s[k + 1]] /\ h[k + 1] = h[k] \o p[s[k + 1]]
    BY <1>1, <1>2, <2>1 DEF Walks
  <2> QED BY <1>4, <2>1, <2>2
<1>5. n \in S
  <2>1. \A k \in 0..n : k \in S
    <3> HIDE DEF S
    <3> QED BY <1>3, <1>4, Induction
  <2>2. n \in 0..n
    OBVIOUS
  <2> QED BY <2>1, <2>2, Zenon
<1> QED BY <1>1, <1>2, <1>5

\* What it returns is a list of what the work makes.
LEMMA EachType ==
  ASSUME NEW A, NEW B, NEW p \in [A -> Seq(B)], NEW s \in Seq(A)
  PROVE  Each(p, s) \in Seq(B)
<1>1. PICK n \in Nat : n = Len(s)
  OBVIOUS
<1>2. WalksTo(p, s, B, Each(p, s))
  BY EachWalks
<1> QED BY <1>1, <1>2 DEF WalksTo

\* Nothing comes of nothing.
LEMMA EachEmpty ==
  ASSUME NEW A, NEW B, NEW p \in [A -> Seq(B)]
  PROVE  Each(p, <<>>) = <<>>
<1> DEFINE g == [k \in {0} |-> <<>>]
<1>1. <<>> \in Seq(A) /\ Len(<<>>) = 0 /\ g[0] = <<>>
  OBVIOUS
<1>2. Walks(g, p, <<>>)
  BY <1>1 DEF Walks
<1> HIDE DEF g
<1> QED BY <1>1, <1>2, EachIs

\* Of one element comes what the work makes of it.
LEMMA EachSingle ==
  ASSUME NEW A, NEW B, NEW p \in [A -> Seq(B)], NEW x \in A
  PROVE  Each(p, <<x>>) = p[x]
<1> DEFINE g == [k \in 0..1 |-> IF k = 0 THEN <<>> ELSE p[x]]
<1>1. <<x>> \in Seq(A) /\ Len(<<x>>) = 1 /\ g[0] = <<>> /\ g[1] = p[x] /\ <<x>>[1] = x
  OBVIOUS
<1>2. <<>> \o p[x] = p[x]
  OBVIOUS
<1> HIDE DEF g
<1>3. Walks(g, p, <<x>>)
  <2> SUFFICES ASSUME NEW k \in 1..1 PROVE g[k] = g[k - 1] \o p[<<x>>[k]]
    BY <1>1 DEF Walks
  <2>1. k = 1 /\ k - 1 = 0
    OBVIOUS
  <2> QED BY <1>1, <1>2, <2>1
<1> QED BY <1>1, <1>3, EachIs

Regroups(x, y, z) == (x \o y) \o z = x \o (y \o z)
\* Joining up lists is associative.
LEMMA ConcatRegroups ==
  ASSUME NEW S, NEW x \in Seq(S), NEW y \in Seq(S), NEW z \in Seq(S)
  PROVE  Regroups(x, y, z)
BY ConcatAssociative DEF Regroups

Distributes(p, a, b) == Each(p, a \o b) = Each(p, a) \o Each(p, b)
\* Two lists joined up are worked on one after the other.
LEMMA EachConcat ==
  ASSUME NEW A, NEW B, NEW p \in [A -> Seq(B)], NEW a \in Seq(A), NEW b \in Seq(A)
  PROVE  Distributes(p, a, b)
<1>1. PICK m \in Nat, n \in Nat : m = Len(a) /\ n = Len(b)
  OBVIOUS
<1>2. PICK f \in [0..m -> Seq(B)] : Walks(f, p, a) /\ Each(p, a) = f[m]
  <2>1. WalksTo(p, a, B, Each(p, a))
    BY EachWalks
  <2> QED BY <1>1, <2>1, Zenon DEF WalksTo
<1>3. PICK h \in [0..n -> Seq(B)] : Walks(h, p, b) /\ Each(p, b) = h[n]
  <2>1. WalksTo(p, b, B, Each(p, b))
    BY EachWalks
  <2> QED BY <1>1, <2>1, Zenon DEF WalksTo
<1> DEFINE c == a \o b
           g == [k \in 0..(m + n) |-> IF k <= m THEN f[k] ELSE f[m] \o h[k - m]]
<1>4. /\ c \in Seq(A) /\ Len(c) = m + n
      /\ \A k \in 1..m : c[k] = a[k]
      /\ \A k \in 1..n : c[m + k] = b[k]
  BY <1>1
<1>5. (\A k \in 0..m : g[k] = f[k]) /\ \A k \in 1..n : g[m + k] = f[m] \o h[k]
  OBVIOUS
<1>6. g[m + n] = f[m] \o h[n] /\ h[0] = <<>> /\ f[m] \in Seq(B)
  <2>1. h[0] = <<>> /\ f[m] \in Seq(B)
    BY <1>3 DEF Walks
  <2>2. CASE n = 0
    <3>1. f[m] \o <<>> = f[m] /\ m + n = m /\ m \in 0..m
      BY <2>1, <2>2
    <3> HIDE DEF g
    <3> QED BY <1>5, <2>1, <2>2, <3>1
  <2>3. CASE n # 0
    <3>1. n \in 1..n
      BY <2>3
    <3> HIDE DEF g
    <3> QED BY <1>5, <2>1, <3>1
  <2> QED BY <2>2, <2>3
<1> HIDE DEF g
<1>7. ASSUME NEW k \in 1..m PROVE g[k] = g[k - 1] \o p[c[k]]
  <2>1. k \in 0..m /\ k - 1 \in 0..m
    OBVIOUS
  <2> QED BY <1>1, <1>2, <1>4, <1>5, <2>1 DEF Walks
<1>8. ASSUME NEW k \in 1..n PROVE g[m + k] = g[m + k - 1] \o p[c[m + k]]
  <2>1. b[k] \in A /\ p[b[k]] \in Seq(B) /\ k - 1 \in 0..n
    BY <1>1
  <2>2. h[k] = h[k - 1] \o p[b[k]] /\ h[k - 1] \in Seq(B)
    BY <1>1, <1>3, <2>1 DEF Walks
  <2>3. f[m] \o (h[k - 1] \o p[b[k]]) = (f[m] \o h[k - 1]) \o p[b[k]]
    <3>1. f[m] \in Seq(B) /\ h[k - 1] \in Seq(B) /\ p[b[k]] \in Seq(B)
      BY <1>6, <2>1, <2>2
    <3>2. Regroups(f[m], h[k - 1], p[b[k]])
      BY <3>1, ConcatRegroups
    <3> QED BY <3>2, Zenon DEF Regroups
  <2>4. g[m + k - 1] = f[m] \o h[k - 1]
    <3>1. CASE k = 1
      <4>1. m + k - 1 = m /\ k - 1 = 0 /\ m \in 0..m
        BY <3>1
      <4>2. f[m] \o <<>> = f[m]
        BY <1>6
      <4> QED BY <1>5, <1>6, <4>1, <4>2
    <3>2. CASE k # 1
      <4>1. k - 1 \in 1..n /\ m + (k - 1) = m + k - 1
        BY <3>2
      <4> QED BY <1>5, <4>1
    <3> QED BY <3>1, <3>2
  <2>5. g[m + k] = f[m] \o h[k] /\ c[m + k] = b[k]
    BY <1>4, <1>5
  <2> QED BY <2>2, <2>3, <2>4, <2>5, Zenon
<1> HIDE DEF c
<1>9. Walks(g, p, c)
  <2>1. g[0] = <<>>
    BY <1>2, <1>5 DEF Walks
  <2>2. ASSUME NEW k \in 1..(m + n) PROVE g[k] = g[k - 1] \o p[c[k]]
    <3>1. CASE k <= m
      <4>1. k \in 1..m
        BY <3>1
      <4> QED BY <1>7, <4>1
    <3>2. CASE k > m
      <4>1. k - m \in 1..n /\ m + (k - m) = k /\ m + (k - m) - 1 = k - 1
        BY <3>2
      <4> QED BY <1>8, <4>1
    <3>3. k <= m \/ k > m
      OBVIOUS
    <3> QED BY <3>1, <3>2, <3>3, Zenon
  <2> QED BY <1>4, <2>1, <2>2 DEF Walks
<1>10. Each(p, c) = g[m + n]
  <2>0. c \in Seq(A)
    BY <1>4
  <2>1. Each(p, c) = g[Len(c)]
    BY <2>0, <1>9, EachIs
  <2> QED BY <1>4, <2>1, Zenon
<1> QED BY <1>2, <1>3, <1>6, <1>10 DEF c, Distributes

Composes(p, q, r, A, B, C) ==
  /\ p \in [A -> Seq(B)] /\ q \in [B -> Seq(C)] /\ r \in [A -> Seq(C)]
  /\ \A x \in A : r[x] = Each(q, p[x])
\* A loop over the results of a loop is a single loop.
LEMMA EachEach ==
  ASSUME NEW A, NEW B, NEW C, NEW p, NEW q, NEW r, Composes(p, q, r, A, B, C),
         NEW s \in Seq(A)
  PROVE  Each(q, Each(p, s)) = Each(r, s)
<1>0. /\ p \in [A -> Seq(B)] /\ q \in [B -> Seq(C)] /\ r \in [A -> Seq(C)]
      /\ \A x \in A : r[x] = Each(q, p[x])
  BY DEF Composes
<1>1. PICK n \in Nat : n = Len(s) /\ \A i \in 1..n : s[i] \in A
  OBVIOUS
<1>2. PICK g \in [0..n -> Seq(B)] : Walks(g, p, s) /\ Each(p, s) = g[n]
  <2>1. WalksTo(p, s, B, Each(p, s))
    BY <1>0, EachWalks
  <2> QED BY <1>1, <2>1, Zenon DEF WalksTo
<1> DEFINE h == [k \in 0..n |-> Each(q, g[k])]
<1>3. h[0] = <<>> /\ h[n] = Each(q, Each(p, s))
  <2>1. Each(q, <<>>) = <<>>
    BY <1>0, EachEmpty
  <2> QED BY <1>2, <2>1 DEF Walks
<1>4. ASSUME NEW k \in 1..n PROVE h[k] = h[k - 1] \o r[s[k]]
  <2>1. k - 1 \in 0..n /\ k \in 0..n /\ p[s[k]] \in Seq(B) /\ r[s[k]] = Each(q, p[s[k]])
    BY <1>0, <1>1
  <2>2. g[k] = g[k - 1] \o p[s[k]] /\ g[k - 1] \in Seq(B)
    BY <1>1, <1>2, <2>1 DEF Walks
  <2>3. Distributes(q, g[k - 1], p[s[k]])
    BY <1>0, <2>1, <2>2, EachConcat
  <2>4. h[k] = Each(q, g[k]) /\ h[k - 1] = Each(q, g[k - 1])
    BY <2>1
  <2> HIDE DEF h
  <2> QED BY <2>1, <2>2, <2>3, <2>4, Zenon DEF Distributes
<1> HIDE DEF h
<1>5. Walks(h, r, s)
  BY <1>1, <1>3, <1>4 DEF Walks
<1> QED BY <1>0, <1>1, <1>3, <1>5, EachIs

Singly(p, f, A, B) ==
  /\ f \in [A -> B] /\ p \in [A -> Seq(B)]
  /\ \A x \in A : p[x] = <<f[x]>>
\* Work that makes one thing of each element maps the list.
LEMMA EachMapped ==
  ASSUME NEW A, NEW B, NEW f, NEW p, Singly(p, f, A, B), NEW s \in Seq(A)
  PROVE  Each(p, s) = [i \in DOMAIN s |-> f[s[i]]]
<1>0. f \in [A -> B] /\ p \in [A -> Seq(B)] /\ \A x \in A : p[x] = <<f[x]>>
  BY DEF Singly
<1>1. PICK n \in Nat : n = Len(s) /\ DOMAIN s = 1..n /\ \A i \in 1..n : s[i] \in A
  OBVIOUS
<1> DEFINE g == [k \in 0..n |-> [i \in 1..k |-> f[s[i]]]]
<1>2. g[n] = [i \in 1..n |-> f[s[i]]]
  OBVIOUS
<1>3. g[0] = <<>>
  OBVIOUS
<1>4. ASSUME NEW k \in 1..n PROVE g[k] = g[k - 1] \o p[s[k]]
  <2> DEFINE a == [i \in 1..(k - 1) |-> f[s[i]]]
             b == [i \in 1..k |-> f[s[i]]]
  <2>1. s[k] \in A /\ f[s[k]] \in B /\ p[s[k]] = <<f[s[k]]>>
    BY <1>0, <1>1
  <2>2. a \in Seq(B) /\ Len(a) = k - 1 /\ b \in Seq(B) /\ Len(b) = k
    <3>1. \A i \in 1..k : f[s[i]] \in B
      BY <1>0, <1>1
    <3> QED BY <3>1
  <2>3. a \o <<f[s[k]]>> = b
    <3>1. /\ a \o <<f[s[k]]>> \in Seq(B) /\ Len(a \o <<f[s[k]]>>) = k
      BY <2>1, <2>2
    <3>2. ASSUME NEW i \in 1..k PROVE (a \o <<f[s[k]]>>)[i] = b[i]
      <4>1. CASE i = k
        BY <2>1, <2>2, <4>1
      <4>2. CASE i # k
        <5>1. i \in 1..(k - 1)
          BY <4>2
        <5> QED BY <2>1, <2>2, <5>1
      <4> QED BY <4>1, <4>2
    <3> HIDE DEF a, b
    <3> QED BY <2>2, <3>1, <3>2, SeqEqual
  <2>4. g[k] = b /\ g[k - 1] = a
    OBVIOUS
  <2> QED BY <2>1, <2>3, <2>4
<1> HIDE DEF g
<1>5. Walks(g, p, s)
  BY <1>1, <1>3, <1>4 DEF Walks
<1> QED BY <1>0, <1>1, <1>2, <1>5, EachIs

\* The filter is the loop that keeps an element, or nothing of it.
Keeps(A, T) == [x \in A |-> IF x \in T THEN <<x>> ELSE <<>>]
\* What is kept is what that loop makes.
LEMMA OnlyIsEach ==
  ASSUME NEW A, NEW s \in Seq(A), NEW T
  PROVE  Only(s, T) = Each(Keeps(A, T), s) /\ Keeps(A, T) \in [A -> Seq(A)]
<1>1. Keeps(A, T) \in [A -> Seq(A)]
  <2>1. \A x \in A : (IF x \in T THEN <<x>> ELSE <<>>) \in Seq(A)
    OBVIOUS
  <2> QED BY <2>1 DEF Keeps
<1>2. \A i \in DOMAIN s : s[i] \in A
  OBVIOUS
<1>3. [i \in DOMAIN s |-> IF s[i] \in T THEN <<s[i]>> ELSE <<>>]
      = [i \in DOMAIN s |-> Keeps(A, T)[s[i]]]
  BY <1>2 DEF Keeps
<1> QED BY <1>1, <1>3 DEF Only, Each

----------------------------------------------------------------------------
(* Settings *)

\* The three values that are no settings are none, and are different.
LEMMA NoSettings ==
  /\ ~IsSettings(Absent) /\ ~IsSettings(NotJson) /\ ~IsSettings(Torn)
  /\ Torn # Absent /\ Torn # NotJson /\ Absent # NotJson
<1>1. /\ DOMAIN Absent = {"absent"} /\ DOMAIN NotJson = {"typo"} /\ DOMAIN Torn = {"torn"}
  BY DEF Absent, NotJson, Torn
<1>2. "absent" # "typo" /\ "absent" # "torn" /\ "typo" # "torn"
      /\ "hooks" \notin {"absent", "typo", "torn"}
  OBVIOUS
<1>3. {"absent"} # {"typo"} /\ {"absent"} # {"torn"} /\ {"typo"} # {"torn"}
      /\ {"absent"} # {"hooks", "rest"} /\ {"typo"} # {"hooks", "rest"}
      /\ {"torn"} # {"hooks", "rest"}
  BY <1>2
<1> QED BY <1>1, <1>3 DEF IsSettings

----------------------------------------------------------------------------
(* Filtering *)

\* What is kept depends on the elements of the list alone.
LEMMA OnlySame ==
  ASSUME NEW A, NEW s \in Seq(A), NEW T, NEW U, \A x \in A : x \in ToSet(s) => (x \in T <=> x \in U)
  PROVE  Only(s, T) = Only(s, U)
<1>1. \A i \in DOMAIN s : s[i] \in A /\ s[i] \in ToSet(s)
  BY DEF ToSet
<1>2. [i \in DOMAIN s |-> IF s[i] \in T THEN <<s[i]>> ELSE <<>>]
      = [i \in DOMAIN s |-> IF s[i] \in U THEN <<s[i]>> ELSE <<>>]
  BY <1>1
<1> QED BY <1>2 DEF Only

\* What is kept is a list of the same elements.
LEMMA OnlyType ==
  ASSUME NEW A, NEW s \in Seq(A), NEW T
  PROVE  Only(s, T) \in Seq(A)
<1>1. Only(s, T) = Each(Keeps(A, T), s) /\ Keeps(A, T) \in [A -> Seq(A)]
  BY OnlyIsEach
<1>2. Each(Keeps(A, T), s) \in Seq(A)
  BY <1>1, EachType
<1> QED BY <1>1, <1>2

OnlyDistributes(a, b, T) == Only(a \o b, T) = Only(a, T) \o Only(b, T)
\* Two lists joined up are filtered one after the other.
LEMMA OnlyConcat ==
  ASSUME NEW A, NEW a \in Seq(A), NEW b \in Seq(A), NEW T
  PROVE  OnlyDistributes(a, b, T)
<1>1. a \o b \in Seq(A)
  OBVIOUS
<1>2. /\ Keeps(A, T) \in [A -> Seq(A)]
      /\ Only(a, T) = Each(Keeps(A, T), a) /\ Only(b, T) = Each(Keeps(A, T), b)
      /\ Only(a \o b, T) = Each(Keeps(A, T), a \o b)
  BY <1>1, OnlyIsEach
<1>3. Distributes(Keeps(A, T), a, b)
  BY <1>2, EachConcat
<1> QED BY <1>2, <1>3, Zenon DEF Distributes, OnlyDistributes

\* A single element is kept or dropped.
LEMMA OnlySingle ==
  ASSUME NEW A, NEW x \in A, NEW T
  PROVE  Only(<<x>>, T) = IF x \in T THEN <<x>> ELSE <<>>
<1>1. <<x>> \in Seq(A)
  OBVIOUS
<1>2. Only(<<x>>, T) = Each(Keeps(A, T), <<x>>) /\ Keeps(A, T) \in [A -> Seq(A)]
  BY <1>1, OnlyIsEach
<1>3. Each(Keeps(A, T), <<x>>) = Keeps(A, T)[x]
  BY <1>2, EachSingle
<1> QED BY <1>2, <1>3 DEF Keeps

\* Filtering twice is filtering once, or leaves nothing.
LEMMA OnlyOnly ==
  ASSUME NEW A, NEW s \in Seq(A), NEW T
  PROVE  /\ Only(Only(s, T), T) = Only(s, T)
         /\ \A U : T \cap U = {} => Only(Only(s, T), U) = <<>>
<1>1. /\ Keeps(A, T) \in [A -> Seq(A)] /\ Only(s, T) = Each(Keeps(A, T), s)
      /\ Only(s, T) \in Seq(A)
  BY OnlyIsEach, OnlyType
<1>2. ASSUME NEW V PROVE Keeps(A, V) \in [A -> Seq(A)] /\ Only(Only(s, T), V) = Each(Keeps(A, V), Each(Keeps(A, T), s))
  BY <1>1, OnlyIsEach
<1>3. ASSUME NEW V, NEW x \in A
      PROVE  Each(Keeps(A, V), Keeps(A, T)[x])
             = IF x \in T /\ x \in V THEN <<x>> ELSE <<>>
  <2>1. Keeps(A, V) \in [A -> Seq(A)]
    BY <1>2
  <2>2. CASE x \in T
    <3>1. Keeps(A, T)[x] = <<x>> /\ Keeps(A, V)[x] = IF x \in V THEN <<x>> ELSE <<>>
      BY <2>2 DEF Keeps
    <3>2. Each(Keeps(A, V), <<x>>) = Keeps(A, V)[x]
      BY <2>1, EachSingle
    <3> QED BY <2>2, <3>1, <3>2
  <2>3. CASE x \notin T
    <3>1. Keeps(A, T)[x] = <<>>
      BY <2>3 DEF Keeps
    <3>2. Each(Keeps(A, V), <<>>) = <<>>
      BY <2>1, EachEmpty
    <3> QED BY <2>3, <3>1, <3>2
  <2> QED BY <2>2, <2>3
<1>4. Only(Only(s, T), T) = Only(s, T)
  <2>1. \A x \in A : Keeps(A, T)[x] = Each(Keeps(A, T), Keeps(A, T)[x])
    BY <1>3 DEF Keeps
  <2>2. Each(Keeps(A, T), Each(Keeps(A, T), s)) = Each(Keeps(A, T), s)
    <3>1. Composes(Keeps(A, T), Keeps(A, T), Keeps(A, T), A, A, A)
      BY <1>1, <2>1 DEF Composes
    <3> QED BY <3>1, EachEach
  <2> QED BY <1>1, <1>2, <2>2
<1>5. ASSUME NEW U, T \cap U = {} PROVE Only(Only(s, T), U) = <<>>
  <2> DEFINE none == [x \in A |-> <<>>]
             g == [k \in 0..Len(s) |-> <<>>]
  <2>1. none \in [A -> Seq(A)] /\ \A x \in A : none[x] = Each(Keeps(A, U), Keeps(A, T)[x])
    <3>1. <<>> \in Seq(A)
      OBVIOUS
    <3>2. \A x \in A : Each(Keeps(A, U), Keeps(A, T)[x]) = <<>>
      BY <1>3, <1>5
    <3> QED BY <3>1, <3>2
  <2>2. Each(Keeps(A, U), Each(Keeps(A, T), s)) = Each(none, s)
    <3> HIDE DEF none
    <3>1. Composes(Keeps(A, T), Keeps(A, U), none, A, A, A)
      BY <1>1, <1>2, <2>1 DEF Composes
    <3> QED BY <3>1, EachEach
  <2>3. Walks(g, none, s) /\ g[Len(s)] = <<>>
    <3>1. PICK n \in Nat : n = Len(s) /\ \A k \in 1..n : s[k] \in A
      OBVIOUS
    <3>2. <<>> \o <<>> = <<>>
      OBVIOUS
    <3>3. \A k \in 1..n : k - 1 \in 0..n /\ k \in 0..n /\ none[s[k]] = <<>>
      BY <3>1
    <3>4. \A k \in 0..n : g[k] = <<>>
      BY <3>1
    <3>5. 0 \in 0..n /\ n \in 0..n
      OBVIOUS
    <3> HIDE DEF g, none
    <3> QED BY <3>1, <3>2, <3>3, <3>4, <3>5 DEF Walks
  <2>4. Each(none, s) = g[Len(s)]
    <3> HIDE DEF none, g
    <3> QED BY <2>1, <2>3, EachIs
  <2> QED BY <1>2, <2>2, <2>3, <2>4
<1> QED BY <1>4, <1>5

----------------------------------------------------------------------------
(* What entries call, and what is left of it of the guardrail's hooks. *)
AllCalls == Matchers \X Hooks
TheirCalls == {c \in AllCalls : IsTheirs(c)}
OurCalls == {c \in AllCalls : IsOurs(c)}

CallsFor(m) == [h \in Hooks |-> <<<<m, h>>>>]
TheirCallsFor(m) == [h \in Hooks |-> IF h # Ours THEN <<<<m, h>>>> ELSE <<>>]
EntryCalls == [e \in EntryRecords |-> Each(CallsFor(e.matcher), e.hooks)]
TheirEntryCalls == [e \in EntryRecords |-> Each(TheirCallsFor(e.matcher), e.hooks)]

\* All of them make lists of calls.
LEMMA CallsTypes ==
  /\ \A m \in Matchers : CallsFor(m) \in [Hooks -> Seq(AllCalls)]
                         /\ TheirCallsFor(m) \in [Hooks -> Seq(AllCalls)]
  /\ EntryCalls \in [EntryRecords -> Seq(AllCalls)]
  /\ TheirEntryCalls \in [EntryRecords -> Seq(AllCalls)]
<1>1. ASSUME NEW m \in Matchers
      PROVE  CallsFor(m) \in [Hooks -> Seq(AllCalls)] /\ TheirCallsFor(m) \in [Hooks -> Seq(AllCalls)]
  <2>1. \A h \in Hooks : <<<<m, h>>>> \in Seq(AllCalls) /\ <<>> \in Seq(AllCalls)
    BY DEF AllCalls
  <2> QED BY <2>1 DEF CallsFor, TheirCallsFor
<1>2. ASSUME NEW e \in EntryRecords
      PROVE  /\ Each(CallsFor(e.matcher), e.hooks) \in Seq(AllCalls)
             /\ Each(TheirCallsFor(e.matcher), e.hooks) \in Seq(AllCalls)
  <2>1. e.matcher \in Matchers /\ e.hooks \in Seq(Hooks)
    BY DEF EntryRecords
  <2> QED BY <1>1, <2>1, EachType
<1> QED BY <1>1, <1>2 DEF EntryCalls, TheirEntryCalls

\* The guardrail's calls are filtered from what entries call, hook by hook.
LEMMA CallsFiltered ==
  ASSUME NEW x \in Seq(EntryRecords)
  PROVE  Only(Each(EntryCalls, x), TheirCalls) = Each(TheirEntryCalls, x)
<1> DEFINE K == Keeps(AllCalls, TheirCalls)
<1>1. /\ EntryCalls \in [EntryRecords -> Seq(AllCalls)]
      /\ TheirEntryCalls \in [EntryRecords -> Seq(AllCalls)]
      /\ Each(EntryCalls, x) \in Seq(AllCalls)
  BY CallsTypes, EachType
<1>2. K \in [AllCalls -> Seq(AllCalls)] /\ Only(Each(EntryCalls, x), TheirCalls) = Each(K, Each(EntryCalls, x))
  BY <1>1, OnlyIsEach
<1>3. ASSUME NEW e \in EntryRecords
      PROVE  TheirEntryCalls[e] = Each(K, EntryCalls[e])
  <2> DEFINE m == e.matcher
             hs == e.hooks
  <2>1. m \in Matchers /\ hs \in Seq(Hooks)
    BY DEF EntryRecords
  <2>2. CallsFor(m) \in [Hooks -> Seq(AllCalls)] /\ TheirCallsFor(m) \in [Hooks -> Seq(AllCalls)]
    BY <2>1, CallsTypes
  <2>3. ASSUME NEW h \in Hooks PROVE TheirCallsFor(m)[h] = Each(K, CallsFor(m)[h])
    <3> DEFINE c == <<m, h>>
    <3>1. c \in AllCalls /\ c[2] = h
      BY <2>1 DEF AllCalls
    <3>2. CallsFor(m)[h] = <<c>> /\ TheirCallsFor(m)[h] = IF h # Ours THEN <<c>> ELSE <<>>
      BY DEF CallsFor, TheirCallsFor
    <3>3. Each(K, <<c>>) = K[c]
      <4> HIDE DEF K, c
      <4> QED BY <1>2, <3>1, EachSingle
    <3>4. K[c] = IF h # Ours THEN <<c>> ELSE <<>>
      BY <3>1 DEF Keeps, TheirCalls, IsTheirs
    <3> HIDE DEF c, K
    <3> QED BY <3>2, <3>3, <3>4
  <2>4. Each(K, Each(CallsFor(m), hs)) = Each(TheirCallsFor(m), hs)
    <3> HIDE DEF K, m, hs
    <3>1. Composes(CallsFor(m), K, TheirCallsFor(m), Hooks, AllCalls, AllCalls)
      BY <1>2, <2>2, <2>3 DEF Composes
    <3> QED BY <2>1, <3>1, EachEach
  <2> QED BY <2>4 DEF EntryCalls, TheirEntryCalls
<1>4. Each(K, Each(EntryCalls, x)) = Each(TheirEntryCalls, x)
  <2> HIDE DEF K
  <2>1. Composes(EntryCalls, K, TheirEntryCalls, EntryRecords, AllCalls, AllCalls)
    BY <1>1, <1>2, <1>3 DEF Composes
  <2> QED BY <2>1, EachEach
<1> QED BY <1>2, <1>4

\* strip_ours, entry by entry.
StripEntry ==
  [e \in EntryRecords |-> [matcher |-> e.matcher, hooks |-> Only(e.hooks, Hooks \ {Ours})]]
CallingEntries == {e \in EntryRecords : e.hooks # <<>>}

LEMMA StripsEach ==
  ASSUME NEW x \in Seq(EntryRecords)
  PROVE  /\ StripEntry \in [EntryRecords -> EntryRecords]
         /\ [i \in DOMAIN x |-> StripEntry[x[i]]] \in Seq(EntryRecords)
         /\ strip_ours(x) = Only([i \in DOMAIN x |-> StripEntry[x[i]]], CallingEntries)
<1>1. PICK n \in Nat : n = Len(x) /\ DOMAIN x = 1..n /\ \A i \in 1..n : x[i] \in EntryRecords
  OBVIOUS
<1>2. StripEntry \in [EntryRecords -> EntryRecords]
  <2>1. ASSUME NEW e \in EntryRecords
        PROVE  [matcher |-> e.matcher, hooks |-> Only(e.hooks, Hooks \ {Ours})] \in EntryRecords
    <3>1. e.matcher \in Matchers /\ e.hooks \in Seq(Hooks)
      BY DEF EntryRecords
    <3>2. Only(e.hooks, Hooks \ {Ours}) \in Seq(Hooks)
      BY <3>1, OnlyType
    <3> QED BY <3>1, <3>2 DEF EntryRecords
  <2> QED BY <2>1 DEF StripEntry
<1>3. ASSUME NEW e \in EntryRecords
      PROVE  [e EXCEPT !.hooks = Where(@, Theirs)] = StripEntry[e]
  <2>1. e = [matcher |-> e.matcher, hooks |-> e.hooks] /\ e.hooks \in Seq(Hooks)
    BY DEF EntryRecords
  <2>2. Where(e.hooks, Theirs) = Only(e.hooks, {h \in ToSet(e.hooks) : h # Ours})
    BY DEF Where, Theirs
  <2>3. Only(e.hooks, {h \in ToSet(e.hooks) : h # Ours}) = Only(e.hooks, Hooks \ {Ours})
    BY <2>1, OnlySame
  <2>4. [e EXCEPT !.hooks = Where(@, Theirs)] = [matcher |-> e.matcher, hooks |-> Where(e.hooks, Theirs)]
    BY <2>1
  <2> QED BY <2>2, <2>3, <2>4 DEF StripEntry
<1> DEFINE y == [i \in 1..n |-> StripEntry[x[i]]]
<1>4. y \in Seq(EntryRecords)
  <2>1. \A i \in 1..n : StripEntry[x[i]] \in EntryRecords
    BY <1>1, <1>2
  <2> QED BY <2>1
<1>5. [i \in DOMAIN x |-> [x[i] EXCEPT !.hooks = Where(@, Theirs)]] = y
  BY <1>1, <1>3
<1>6. strip_ours(x) = Only(y, {e \in ToSet(y) : e.hooks # <<>>})
  BY <1>5 DEF strip_ours, Where
<1>7. Only(y, {e \in ToSet(y) : e.hooks # <<>>}) = Only(y, CallingEntries)
  <2> HIDE DEF y
  <2> QED BY <1>4, OnlySame DEF CallingEntries
<1> QED BY <1>1, <1>2, <1>4, <1>6, <1>7

\* What the stripped entries call is what the entries called, but for the
\* guardrail.
LEMMA StripCalls ==
  ASSUME NEW x \in Seq(EntryRecords)
  PROVE  /\ strip_ours(x) \in Seq(EntryRecords)
         /\ Each(EntryCalls, strip_ours(x)) = Only(Each(EntryCalls, x), TheirCalls)
<1> DEFINE y == [i \in DOMAIN x |-> StripEntry[x[i]]]
           one == [e \in EntryRecords |-> <<StripEntry[e]>>]
           K == Keeps(EntryRecords, CallingEntries)
           r == [e \in EntryRecords |-> K[StripEntry[e]]]
<1>1. /\ StripEntry \in [EntryRecords -> EntryRecords] /\ y \in Seq(EntryRecords)
      /\ strip_ours(x) = Only(y, CallingEntries)
  BY StripsEach
<1>2. one \in [EntryRecords -> Seq(EntryRecords)] /\ Each(one, x) = y
  <2>1. one \in [EntryRecords -> Seq(EntryRecords)]
    <3>1. \A e \in EntryRecords : <<StripEntry[e]>> \in Seq(EntryRecords)
      BY <1>1
    <3> QED BY <3>1
  <2>2. \A e \in EntryRecords : one[e] = <<StripEntry[e]>>
    OBVIOUS
  <2> HIDE DEF one
  <2>3. Singly(one, StripEntry, EntryRecords, EntryRecords)
    BY <1>1, <2>1, <2>2 DEF Singly
  <2>4. Each(one, x) = [i \in DOMAIN x |-> StripEntry[x[i]]]
    BY <2>3, EachMapped
  <2> QED BY <2>1, <2>4
<1>3. /\ K \in [EntryRecords -> Seq(EntryRecords)] /\ Only(y, CallingEntries) = Each(K, y)
      /\ Only(y, CallingEntries) \in Seq(EntryRecords)
  <2> HIDE DEF y
  <2> QED BY <1>1, OnlyIsEach, OnlyType
<1>4. r \in [EntryRecords -> Seq(EntryRecords)] /\ Each(K, Each(one, x)) = Each(r, x)
  <2>1. r \in [EntryRecords -> Seq(EntryRecords)]
    <3> HIDE DEF K
    <3> QED BY <1>1, <1>3
  <2>2. ASSUME NEW e \in EntryRecords PROVE r[e] = Each(K, one[e])
    <3>1. Each(K, <<StripEntry[e]>>) = K[StripEntry[e]]
      <4>1. StripEntry[e] \in EntryRecords
        BY <1>1
      <4>2. K \in [EntryRecords -> Seq(EntryRecords)]
        BY <1>3
      <4> HIDE DEF K
      <4> QED BY <4>1, <4>2, EachSingle
    <3> HIDE DEF K
    <3> QED BY <3>1
  <2> HIDE DEF K, one, r
  <2>3. Composes(one, K, r, EntryRecords, EntryRecords, EntryRecords)
    BY <1>2, <1>3, <2>1, <2>2 DEF Composes
  <2> QED BY <2>1, <2>3, EachEach
<1>5. ASSUME NEW e \in EntryRecords PROVE TheirEntryCalls[e] = Each(EntryCalls, r[e])
  <2> DEFINE m == e.matcher
             hs == e.hooks
             F == Keeps(Hooks, Hooks \ {Ours})
             z == StripEntry[e]
  <2>1. m \in Matchers /\ hs \in Seq(Hooks)
    BY DEF EntryRecords
  <2>2. CallsFor(m) \in [Hooks -> Seq(AllCalls)] /\ TheirCallsFor(m) \in [Hooks -> Seq(AllCalls)]
    BY <2>1, CallsTypes
  <2>3. F \in [Hooks -> Seq(Hooks)] /\ Only(hs, Hooks \ {Ours}) = Each(F, hs)
    <3> HIDE DEF hs
    <3> QED BY <2>1, OnlyIsEach
  <2>4. z \in EntryRecords /\ z.matcher = m /\ z.hooks = Each(F, hs)
    BY <1>1, <2>3 DEF StripEntry
  <2>5. ASSUME NEW h \in Hooks PROVE TheirCallsFor(m)[h] = Each(CallsFor(m), F[h])
    <3>1. CallsFor(m)[h] = <<<<m, h>>>> /\ TheirCallsFor(m)[h] = IF h # Ours THEN <<<<m, h>>>> ELSE <<>>
      BY DEF CallsFor, TheirCallsFor
    <3>2. F[h] = IF h # Ours THEN <<h>> ELSE <<>>
      BY DEF Keeps
    <3>3. Each(CallsFor(m), <<h>>) = CallsFor(m)[h] /\ Each(CallsFor(m), <<>>) = <<>>
      <4> HIDE DEF m
      <4> QED BY <2>2, EachSingle, EachEmpty
    <3> HIDE DEF m, F
    <3> QED BY <3>1, <3>2, <3>3
  <2>6. Each(CallsFor(m), Each(F, hs)) = Each(TheirCallsFor(m), hs)
    <3> HIDE DEF m, hs, F
    <3>1. Composes(F, CallsFor(m), TheirCallsFor(m), Hooks, Hooks, AllCalls)
      BY <2>2, <2>3, <2>5 DEF Composes
    <3> QED BY <2>1, <3>1, EachEach
  <2>7. EntryCalls[z] = TheirEntryCalls[e]
    <3>1. EntryCalls[z] = Each(CallsFor(z.matcher), z.hooks)
      <4> HIDE DEF z
      <4> QED BY <2>4 DEF EntryCalls
    <3>2. TheirEntryCalls[e] = Each(TheirCallsFor(m), hs)
      BY DEF TheirEntryCalls
    <3> HIDE DEF z, m, hs, F
    <3> QED BY <2>4, <2>6, <3>1, <3>2
  <2>8. r[e] = IF z.hooks # <<>> THEN <<z>> ELSE <<>>
    <3>1. r[e] = K[z]
      OBVIOUS
    <3>2. K[z] = IF z.hooks # <<>> THEN <<z>> ELSE <<>>
      <4> HIDE DEF z
      <4> QED BY <2>4 DEF Keeps, CallingEntries
    <3> HIDE DEF r, K, z
    <3> QED BY <3>1, <3>2
  <2>9. Each(EntryCalls, <<z>>) = EntryCalls[z] /\ Each(EntryCalls, <<>>) = <<>>
    <3> HIDE DEF z
    <3> QED BY <2>4, CallsTypes, EachSingle, EachEmpty
  <2>10. z.hooks = <<>> => EntryCalls[z] = <<>>
    <3>1. Each(CallsFor(m), <<>>) = <<>>
      BY <2>2, EachEmpty
    <3>2. EntryCalls[z] = Each(CallsFor(z.matcher), z.hooks)
      <4> HIDE DEF z
      <4> QED BY <2>4 DEF EntryCalls
    <3> HIDE DEF z, m
    <3> QED BY <2>4, <3>1, <3>2
  <2> HIDE DEF r, z
  <2> QED BY <2>7, <2>8, <2>9, <2>10
<1>6. Each(EntryCalls, Each(r, x)) = Each(TheirEntryCalls, x)
  <2> HIDE DEF r
  <2>1. Composes(r, EntryCalls, TheirEntryCalls, EntryRecords, EntryRecords, AllCalls)
    BY <1>4, <1>5, CallsTypes DEF Composes
  <2> QED BY <2>1, EachEach
<1>7. Only(Each(EntryCalls, x), TheirCalls) = Each(TheirEntryCalls, x)
  BY CallsFiltered
<1> HIDE DEF y, one, K, r
<1> QED BY <1>1, <1>2, <1>3, <1>4, <1>6, <1>7

----------------------------------------------------------------------------
(* The script merges *)

\* An event has a list of entries, empty when it is not in the settings.
LEMMA EntriesType ==
  ASSUME NEW s, IsSettings(s), NEW e
  PROVE  Entries(s.hooks, e) \in Seq(EntryRecords)
BY DEF IsSettings, Entries

\* Calls is a loop over entries of loops over their hooks.
LEMMA CallsAre ==
  ASSUME NEW s, IsSettings(s), NEW e
  PROVE  /\ Calls(s, e) = Each(EntryCalls, Entries(s.hooks, e))
         /\ Calls(s, e) \in Seq(AllCalls)
<1> DEFINE x == Entries(s.hooks, e)
           Called(entry) == [k \in DOMAIN entry.hooks |-> <<entry.matcher, entry.hooks[k]>>]
<1>1. x \in Seq(EntryRecords) /\ s # Absent
  BY EntriesType, NoSettings
<1>2. ASSUME NEW i \in DOMAIN x PROVE s.hooks[e][i] = x[i] /\ x[i] \in EntryRecords
  <2>1. x # <<>>
    OBVIOUS
  <2>2. x = s.hooks[e]
    BY <2>1 DEF Entries
  <2> HIDE DEF x
  <2> QED BY <1>1, <2>2
<1>3. ASSUME NEW entry \in EntryRecords PROVE Called(entry) = EntryCalls[entry]
  <2> DEFINE m == entry.matcher
             hs == entry.hooks
             f == [h \in Hooks |-> <<m, h>>]
  <2>1. m \in Matchers /\ hs \in Seq(Hooks)
    BY DEF EntryRecords
  <2>2. f \in [Hooks -> AllCalls]
    BY <2>1 DEF AllCalls
  <2>3. Singly(CallsFor(m), f, Hooks, AllCalls)
    <3>1. CallsFor(m) \in [Hooks -> Seq(AllCalls)]
      BY <2>1, CallsTypes
    <3>2. \A h \in Hooks : CallsFor(m)[h] = <<f[h]>>
      BY DEF CallsFor
    <3> HIDE DEF m, f
    <3> QED BY <2>2, <3>1, <3>2 DEF Singly
  <2>4. Each(CallsFor(m), hs) = [k \in DOMAIN hs |-> f[hs[k]]]
    <3> HIDE DEF m, hs, f
    <3> QED BY <2>1, <2>3, EachMapped
  <2>5. \A k \in DOMAIN hs : hs[k] \in Hooks
    BY <2>1
  <2>6. [k \in DOMAIN hs |-> f[hs[k]]] = [k \in DOMAIN hs |-> <<m, hs[k]>>]
    BY <2>5
  <2> QED BY <2>4, <2>6 DEF EntryCalls
<1>4. Calls(s, e) = FlattenSeq([i \in DOMAIN x |-> Called(s.hooks[e][i])])
  BY <1>1 DEF Calls
<1>5. [i \in DOMAIN x |-> Called(s.hooks[e][i])] = [i \in DOMAIN x |-> EntryCalls[x[i]]]
  <2> HIDE DEF x, Called
  <2> QED BY <1>2, <1>3
<1>6. Calls(s, e) = Each(EntryCalls, x)
  BY <1>4, <1>5 DEF Each
<1>7. Each(EntryCalls, x) \in Seq(AllCalls)
  <2> HIDE DEF x
  <2> QED BY <1>1, CallsTypes, EachType
<1> QED BY <1>6, <1>7

\* Whether a call is the guardrail's does not depend on the list it is in.
LEMMA WhereCalls ==
  ASSUME NEW c \in Seq(AllCalls)
  PROVE  Where(c, IsTheirs) = Only(c, TheirCalls) /\ Where(c, IsOurs) = Only(c, OurCalls)
<1>1. Where(c, IsTheirs) = Only(c, {x \in ToSet(c) : IsTheirs(x)})
  BY DEF Where, IsTheirs
<1>2. Where(c, IsOurs) = Only(c, {x \in ToSet(c) : IsOurs(x)})
  BY DEF Where, IsOurs
<1>3. Only(c, {x \in ToSet(c) : IsTheirs(x)}) = Only(c, TheirCalls)
  BY OnlySame DEF TheirCalls
<1>4. Only(c, {x \in ToSet(c) : IsOurs(x)}) = Only(c, OurCalls)
  BY OnlySame DEF OurCalls
<1> QED BY <1>1, <1>2, <1>3, <1>4

\* What is read of a file, and of none.
Whole(s) == IF s = Absent THEN Empty ELSE s
\* The settings the script starts from when there is no file.
LEMMA EmptyIsSettings == IsSettings(Empty)
BY DEF Empty, IsSettings

\* Of an empty list nothing is kept.
LEMMA OnlyNothing == \A T : Only(<<>>, T) = <<>>
<1>1. <<>> \in Seq({})
  OBVIOUS
<1> TAKE T
<1>2. Only(<<>>, T) = Each(Keeps({}, T), <<>>) /\ Keeps({}, T) \in [{} -> Seq({})]
  BY <1>1, OnlyIsEach
<1> QED BY <1>2, EachEmpty

\* An event without entries has none after stripping.
LEMMA StripNothing == strip_ours(<<>>) = <<>>
<1>1. <<>> \in Seq(EntryRecords)
  OBVIOUS
<1>2. [i \in DOMAIN <<>> |-> StripEntry[<<>>[i]]] = <<>>
  OBVIOUS
<1>3. strip_ours(<<>>) = Only([i \in DOMAIN <<>> |-> StripEntry[<<>>[i]]], CallingEntries)
  BY <1>1, StripsEach
<1> QED BY <1>2, <1>3, OnlyNothing

\* An event that is left out has nothing left to call.
LEMMA StrippedEntries ==
  ASSUME NEW h, NEW e
  PROVE  Entries(Stripped(h), e) = strip_ours(Entries(h, e))
<1>1. CASE e \in DOMAIN h
  <2>1. Entries(h, e) = h[e]
    BY <1>1 DEF Entries
  <2>2. CASE strip_ours(h[e]) = <<>>
    <3>1. e \notin DOMAIN Stripped(h)
      BY <2>2 DEF Stripped
    <3> QED BY <2>1, <2>2, <3>1 DEF Entries
  <2>3. CASE strip_ours(h[e]) # <<>>
    <3>1. e \in DOMAIN Stripped(h) /\ Stripped(h)[e] = strip_ours(h[e])
      BY <1>1, <2>3 DEF Stripped
    <3> QED BY <2>1, <3>1 DEF Entries
  <2> QED BY <2>2, <2>3
<1>2. CASE e \notin DOMAIN h
  <2>1. e \notin DOMAIN Stripped(h)
    BY <1>2 DEF Stripped
  <2> QED BY <1>2, <2>1, StripNothing DEF Entries
<1> QED BY <1>1, <1>2

Appended(m, e) == IF m = "register" /\ e \in OurEvents THEN <<OurEntry>> ELSE <<>>
\* The entries of an event are the stripped ones and, on registering, ours.
LEMMA MergedEntries ==
  ASSUME NEW s, IsSettings(s), NEW m \in {"register", "remove"}, NEW e
  PROVE  /\ Entries(Merge(s, m).hooks, e) = strip_ours(Entries(s.hooks, e)) \o Appended(m, e)
         /\ strip_ours(Entries(s.hooks, e)) \in Seq(EntryRecords)
         /\ Appended(m, e) \in Seq(EntryRecords)
<1>1. Entries(s.hooks, e) \in Seq(EntryRecords)
  BY EntriesType
<1>2. strip_ours(Entries(s.hooks, e)) \in Seq(EntryRecords)
  BY <1>1, StripCalls
<1>3. OurEntry \in EntryRecords
  BY EntriesAssumption DEF OurEntry, EntryRecords
<1>4. Appended(m, e) \in Seq(EntryRecords)
  BY <1>3 DEF Appended
<1>5. Entries(Stripped(s.hooks), e) = strip_ours(Entries(s.hooks, e))
  BY StrippedEntries
<1>6. CASE m = "remove"
  <2>1. Merge(s, m).hooks = Stripped(s.hooks)
    BY <1>6 DEF Merge, IsSettings
  <2>2. Appended(m, e) = <<>>
    BY <1>6 DEF Appended
  <2>3. strip_ours(Entries(s.hooks, e)) \o <<>> = strip_ours(Entries(s.hooks, e))
    BY <1>2
  <2> QED BY <1>2, <1>4, <1>5, <2>1, <2>2, <2>3, Zenon
<1>7. CASE m = "register"
  <2>1. Merge(s, m).hooks = WithOurs(Stripped(s.hooks))
    BY <1>7 DEF Merge, IsSettings
  <2>2. Entries(WithOurs(Stripped(s.hooks)), e) = Entries(Stripped(s.hooks), e) \o Appended(m, e)
    <3> DEFINE g == Stripped(s.hooks)
    <3>1. CASE e \in DOMAIN g \cup OurEvents
      <4> HIDE DEF g
      <4>1. e \in DOMAIN WithOurs(g) /\ WithOurs(g)[e] = Entries(g, e) \o IF e \in OurEvents THEN <<OurEntry>> ELSE <<>>
        BY <3>1 DEF WithOurs
      <4>2. Entries(WithOurs(g), e) = WithOurs(g)[e]
        BY <4>1 DEF Entries
      <4> QED BY <1>7, <4>1, <4>2 DEF Appended, g
    <3>2. CASE e \notin DOMAIN g \cup OurEvents
      <4> HIDE DEF g
      <4>1. e \notin DOMAIN WithOurs(g)
        BY <3>2 DEF WithOurs
      <4>2. Entries(WithOurs(g), e) = <<>> /\ Entries(g, e) = <<>>
        BY <3>2, <4>1 DEF Entries
      <4>3. Appended(m, e) = <<>> /\ <<>> \o <<>> = <<>>
        BY <3>2 DEF Appended
      <4> QED BY <4>2, <4>3 DEF g
    <3> QED BY <3>1, <3>2
  <2> QED BY <1>2, <1>4, <1>5, <2>1, <2>2, Zenon
<1> QED BY <1>6, <1>7

\* What the script writes is settings, and only the hooks have changed.
LEMMA MergeSettings ==
  ASSUME NEW s, IsSettings(s), NEW m \in {"register", "remove"}
  PROVE  IsSettings(Merge(s, m)) /\ Merge(s, m).rest = s.rest
<1>1. DOMAIN Merge(s, m) = {"hooks", "rest"} /\ Merge(s, m).rest = s.rest
  BY DEF IsSettings, Merge
<1>2. ASSUME NEW e \in DOMAIN Merge(s, m).hooks
      PROVE  Merge(s, m).hooks[e] \in Seq(EntryRecords)
  <2>1. Merge(s, m).hooks[e] = Entries(Merge(s, m).hooks, e)
    BY DEF Entries
  <2>2. /\ Entries(Merge(s, m).hooks, e) = strip_ours(Entries(s.hooks, e)) \o Appended(m, e)
        /\ strip_ours(Entries(s.hooks, e)) \in Seq(EntryRecords)
        /\ Appended(m, e) \in Seq(EntryRecords)
    BY MergedEntries
  <2>3. strip_ours(Entries(s.hooks, e)) \o Appended(m, e) \in Seq(EntryRecords)
    BY <2>2
  <2> QED BY <2>1, <2>2, <2>3
<1> QED BY <1>1, <1>2 DEF IsSettings

\* The script leaves the others' calls as they are, and its own once or gone.
LEMMA MergedCalls ==
  ASSUME NEW s, IsSettings(s), NEW m \in {"register", "remove"}, NEW e
  PROVE  /\ Only(Calls(Merge(s, m), e), TheirCalls) = Only(Calls(s, e), TheirCalls)
         /\ Only(Calls(Merge(s, m), e), OurCalls)
            = IF m = "register" /\ e \in OurEvents THEN <<<<OurMatcher, Ours>>>> ELSE <<>>
<1> DEFINE x == strip_ours(Entries(s.hooks, e))
           y == Appended(m, e)
           a == Each(EntryCalls, x)
           b == IF m = "register" /\ e \in OurEvents THEN <<<<OurMatcher, Ours>>>> ELSE <<>>
           c == Calls(s, e)
<1>1. /\ Entries(Merge(s, m).hooks, e) = x \o y
      /\ x \in Seq(EntryRecords) /\ y \in Seq(EntryRecords)
  BY MergedEntries
<1>2. c = Each(EntryCalls, Entries(s.hooks, e)) /\ c \in Seq(AllCalls)
  BY CallsAre
<1>3. a = Only(c, TheirCalls)
  <2>1. Entries(s.hooks, e) \in Seq(EntryRecords)
    BY EntriesType
  <2>2. a = Only(Each(EntryCalls, Entries(s.hooks, e)), TheirCalls)
    BY <2>1, StripCalls
  <2> QED BY <1>2, <2>2
<1>4. Each(EntryCalls, y) = b
  <2>1. OurEntry \in EntryRecords /\ Ours \in Hooks /\ OurMatcher \in Matchers
    BY EntriesAssumption DEF OurEntry, EntryRecords
  <2>2. Each(EntryCalls, <<OurEntry>>) = EntryCalls[OurEntry] /\ Each(EntryCalls, <<>>) = <<>>
    BY <2>1, CallsTypes, EachSingle, EachEmpty
  <2>3. EntryCalls[OurEntry] = Each(CallsFor(OurMatcher), <<Ours>>)
    BY <2>1 DEF EntryCalls, OurEntry
  <2>4. Each(CallsFor(OurMatcher), <<Ours>>) = CallsFor(OurMatcher)[Ours]
    BY <2>1, CallsTypes, EachSingle
  <2>5. CallsFor(OurMatcher)[Ours] = <<<<OurMatcher, Ours>>>>
    BY <2>1 DEF CallsFor
  <2> QED BY <2>2, <2>3, <2>4, <2>5 DEF Appended
<1>5. Calls(Merge(s, m), e) = a \o b
  <2>1. Calls(Merge(s, m), e) = Each(EntryCalls, Entries(Merge(s, m).hooks, e))
    BY MergeSettings, CallsAre
  <2>2. Distributes(EntryCalls, x, y)
    <3> HIDE DEF x, y
    <3> QED BY <1>1, CallsTypes, EachConcat
  <2> QED BY <1>1, <1>4, <2>1, <2>2, Zenon DEF Distributes
<1>6. a \in Seq(AllCalls) /\ b \in Seq(AllCalls)
  <2>1. a \in Seq(AllCalls)
    BY <1>1, CallsTypes, EachType
  <2>2. <<OurMatcher, Ours>> \in AllCalls
    BY EntriesAssumption DEF AllCalls
  <2>3. b \in Seq(AllCalls)
    BY <2>2
  <2> QED BY <2>1, <2>3
<1>7. Only(a, TheirCalls) = a /\ Only(a, OurCalls) = <<>>
  <2>1. TheirCalls \cap OurCalls = {}
    BY DEF TheirCalls, OurCalls, IsTheirs, IsOurs
  <2> HIDE DEF a, c
  <2> QED BY <1>2, <1>3, <2>1, OnlyOnly
<1>8. Only(b, TheirCalls) = <<>> /\ Only(b, OurCalls) = b
  <2> DEFINE o == <<OurMatcher, Ours>>
  <2>1. o \in AllCalls /\ o[2] = Ours
    BY EntriesAssumption DEF AllCalls
  <2>2. o \notin TheirCalls /\ o \in OurCalls
    BY <2>1 DEF TheirCalls, OurCalls, IsTheirs, IsOurs
  <2> HIDE DEF o
  <2>3. Only(<<o>>, TheirCalls) = <<>> /\ Only(<<o>>, OurCalls) = <<o>>
    BY <2>1, <2>2, OnlySingle
  <2>4. b \in {<<o>>, <<>>}
    BY DEF o
  <2> HIDE DEF b
  <2> QED BY <2>3, <2>4, OnlyNothing
<1>9. OnlyDistributes(a, b, TheirCalls) /\ OnlyDistributes(a, b, OurCalls)
  <2> HIDE DEF a, b
  <2> QED BY <1>6, OnlyConcat
<1>10. Only(a \o b, TheirCalls) = a /\ Only(a \o b, OurCalls) = b
  <2>1. a \o <<>> = a /\ <<>> \o b = b
    <3> HIDE DEF a, b
    <3> QED BY <1>6
  <2> HIDE DEF a, b
  <2> QED BY <1>7, <1>8, <1>9, <2>1, Zenon DEF OnlyDistributes
<1> QED BY <1>3, <1>5, <1>10, Zenon

\* The same for the guardrail's calls, as the property counts them ...
LEMMA OursOnce ==
  ASSUME NEW s, IsSettings(s), NEW m \in {"register", "remove"}, NEW e
  PROVE  Where(Calls(Merge(s, m), e), IsOurs)
         = IF m = "register" /\ e \in OurEvents THEN <<<<OurMatcher, Ours>>>> ELSE <<>>
<1>1. Calls(Merge(s, m), e) \in Seq(AllCalls)
  BY MergeSettings, CallsAre
<1>2. Where(Calls(Merge(s, m), e), IsOurs) = Only(Calls(Merge(s, m), e), OurCalls)
  BY <1>1, WhereCalls
<1>3. Only(Calls(Merge(s, m), e), OurCalls)
      = IF m = "register" /\ e \in OurEvents THEN <<<<OurMatcher, Ours>>>> ELSE <<>>
  BY MergedCalls
<1> QED BY <1>2, <1>3, Zenon

\* ... and for everybody else's.
LEMMA TheirsKept ==
  ASSUME NEW s, IsSettings(s), NEW m \in {"register", "remove"}, NEW e
  PROVE  Where(Calls(Merge(s, m), e), IsTheirs) = Where(Calls(s, e), IsTheirs)
<1>1. Calls(Merge(s, m), e) \in Seq(AllCalls) /\ Calls(s, e) \in Seq(AllCalls)
  BY MergeSettings, CallsAre
<1>2. /\ Where(Calls(Merge(s, m), e), IsTheirs) = Only(Calls(Merge(s, m), e), TheirCalls)
      /\ Where(Calls(s, e), IsTheirs) = Only(Calls(s, e), TheirCalls)
  BY <1>1, WhereCalls
<1>3. Only(Calls(Merge(s, m), e), TheirCalls) = Only(Calls(s, e), TheirCalls)
  BY MergedCalls
<1> QED BY <1>2, <1>3, Zenon

----------------------------------------------------------------------------
(* The invariant *)

(* Type correctness: the settings are absent, in error or whole, only the
   copies may be half written, and a run under way has settings to write. *)
TypeOK ==
  /\ settings \in {Absent, NotJson} \/ IsSettings(settings)
  /\ bak \in {Absent, NotJson, Torn} \/ IsSettings(bak)
  /\ tmp \in {Absent, Torn} \/ IsSettings(tmp)
  /\ pc \in {"idle", "backup", "copy", "write", "fill", "replace"}
  /\ mode \in {"none", "register", "remove"}
  /\ IF mode = "none" THEN merged = Absent /\ pc = "idle" ELSE IsSettings(merged)
  /\ copying \in {Absent, NotJson} \/ IsSettings(copying)
  /\ edited \in {"no", "after_read", "after_copy"}
  /\ runs \in 0..MaxRuns /\ edits \in 0..MaxEdits

\* From the backup on, what is in the settings is in the backup too, unless
\* somebody has edited them since; the copy under way is one of them.
BackupOK ==
  /\ pc = "copy" => copying = settings \/ edited = "after_copy"
  /\ pc \in {"write", "fill", "replace"} =>
       settings \in {Absent, bak} \/ edited = "after_copy"

\* What the script is about to write: the guardrail's hooks as its mode says,
\* and the rest as in the settings, unless somebody has edited them since.
MergedOK ==
  pc # "idle" =>
    /\ \A e \in DOMAIN merged.hooks \cup OurEvents :
         Where(Calls(merged, e), IsOurs) =
           IF mode = "register" /\ e \in OurEvents THEN <<<<OurMatcher, Ours>>>> ELSE <<>>
    /\ edited = "no" => settings # NotJson /\ merged = Merge(Whole(settings), mode)

Inv ==
  /\ TypeOK
  /\ BackupOK
  /\ MergedOK
  /\ pc = "replace" => tmp = merged


\* Settings that somebody edits are settings or have a typo.
LEMMA EditSettings ==
  ASSUME NEW s, IsSettings(s), NEW t \in Edits(s)
  PROVE  t = NotJson \/ IsSettings(t)
<1>1. CASE t = NotJson
  BY <1>1
<1>2. ASSUME NEW r \in Rests, t = [s EXCEPT !.rest = r]
      PROVE  IsSettings(t)
  BY <1>2 DEF IsSettings
<1>3. ASSUME NEW e \in OurEvents,
             t = [s EXCEPT !.hooks = [x \in DOMAIN @ \cup {e} |->
                                        IF x = e THEN Append(Entries(@, e), Added) ELSE @[x]]]
      PROVE  IsSettings(t)
  <2>1. Append(Entries(s.hooks, e), Added) \in Seq(EntryRecords)
    BY EntriesType, EntriesAssumption
  <2>2. t.hooks = [x \in DOMAIN s.hooks \cup {e} |->
                     IF x = e THEN Append(Entries(s.hooks, e), Added) ELSE s.hooks[x]]
    BY <1>3 DEF IsSettings
  <2>3. \A x \in DOMAIN t.hooks : t.hooks[x] \in Seq(EntryRecords)
    BY <2>1, <2>2 DEF IsSettings
  <2>4. DOMAIN t = {"hooks", "rest"}
    BY <1>3 DEF IsSettings
  <2> QED BY <2>3, <2>4 DEF IsSettings
<1> QED BY <1>1, <1>2, <1>3 DEF Edits

\* The invariant holds before the script has run ...
LEMMA InvStart == Init => Inv
<1> SUFFICES ASSUME Init PROVE Inv
  OBVIOUS
<1>1. settings \in {Absent, NotJson} \/ IsSettings(settings)
  BY FilesAssumption DEF Init
<1>2. TypeOK
  BY <1>1, BoundsAssumption DEF Init, TypeOK
<1> QED BY <1>2 DEF Init, Inv, BackupOK, MergedOK

\* ... and every step, of the script or of an editor, keeps it.
LEMMA InvStep ==
  ASSUME Inv, [Next]_vars
  PROVE  Inv'
<1> USE NoSettings DEF Goes
<1>1. CASE Read
  <2>1. settings = Absent \/ IsSettings(settings)
    BY <1>1 DEF Inv, TypeOK, Read
  <2>2. IsSettings(merged')
    BY <1>1, <2>1, MergeSettings, EmptyIsSettings DEF Read
  <2>3. TypeOK'
    BY <1>1, <2>2, BoundsAssumption DEF Inv, TypeOK, Read, files
  <2>4. MergedOK'
    <3>1. merged' = Merge(Whole(settings), mode') /\ IsSettings(Whole(settings))
      BY <1>1, <2>1, EmptyIsSettings DEF Read, Whole
    <3>2. mode' \in {"register", "remove"} /\ settings' = settings /\ settings # NotJson
      BY <1>1 DEF Read, files
    <3>3. ASSUME NEW e
          PROVE  Where(Calls(merged', e), IsOurs) =
                   IF mode' = "register" /\ e \in OurEvents THEN <<<<OurMatcher, Ours>>>> ELSE <<>>
      BY <3>1, <3>2, OursOnce
    <3> QED BY <3>1, <3>2, <3>3 DEF MergedOK
  <2> QED BY <1>1, <2>3, <2>4 DEF Inv, BackupOK, Read, files
<1>2. CASE OpenBackup
  <2>1. TypeOK'
    BY <1>2 DEF Inv, TypeOK, OpenBackup
  <2>2. BackupOK'
    BY <1>2 DEF OpenBackup, BackupOK
  <2>3. MergedOK'
    BY <1>2 DEF Inv, OpenBackup, MergedOK, run
  <2> QED BY <1>2, <2>1, <2>2, <2>3 DEF Inv, OpenBackup
<1>3. CASE CloseBackup
  <2>1. TypeOK'
    BY <1>3 DEF Inv, TypeOK, CloseBackup, run
  <2>2. BackupOK'
    BY <1>3 DEF Inv, CloseBackup, BackupOK, run
  <2>3. MergedOK'
    BY <1>3 DEF Inv, CloseBackup, MergedOK, run
  <2> QED BY <1>3, <2>1, <2>2, <2>3 DEF Inv, CloseBackup
<1>4. CASE OpenTmp
  <2>1. TypeOK'
    BY <1>4 DEF Inv, TypeOK, OpenTmp, run
  <2>2. BackupOK'
    BY <1>4 DEF Inv, OpenTmp, BackupOK, run
  <2>3. MergedOK'
    BY <1>4 DEF Inv, OpenTmp, MergedOK, run
  <2> QED BY <1>4, <2>1, <2>2, <2>3 DEF Inv, OpenTmp
<1>5. CASE CloseTmp
  <2>1. TypeOK'
    BY <1>5 DEF Inv, TypeOK, CloseTmp, run
  <2>2. BackupOK'
    BY <1>5 DEF Inv, CloseTmp, BackupOK, run
  <2>3. MergedOK'
    BY <1>5 DEF Inv, CloseTmp, MergedOK, run
  <2> QED BY <1>5, <2>1, <2>2, <2>3 DEF Inv, CloseTmp, run
<1>6. CASE Replace
  <2>1. tmp = merged /\ IsSettings(merged)
    BY <1>6 DEF Inv, TypeOK, Replace
  <2>2. TypeOK'
    BY <1>6, <2>1 DEF Inv, TypeOK, Replace, run
  <2> QED BY <1>6, <2>2 DEF Inv, BackupOK, MergedOK, Replace
<1>7. CASE Abort
  <2>1. TypeOK'
    BY <1>7 DEF Inv, TypeOK, Abort, files, run
  <2> QED BY <1>7, <2>1 DEF Inv, BackupOK, MergedOK, Abort
<1>8. CASE Edit
  <2>1. settings' \in {NotJson} \/ IsSettings(settings')
    <3>1. IsSettings(IF settings \in {Absent, NotJson} THEN Empty ELSE settings)
      BY EmptyIsSettings DEF Inv, TypeOK
    <3> QED BY <1>8, <3>1, EditSettings DEF Edit
  <2>2. /\ edited' \in {"no", "after_read", "after_copy"}
        /\ pc \in {"copy", "write", "fill", "replace"} => edited' = "after_copy"
    BY <1>8 DEF Edit
  <2>3. TypeOK'
    BY <1>8, <2>1, <2>2, BoundsAssumption DEF Inv, TypeOK, Edit, run
  <2>4. BackupOK'
    BY <1>8, <2>2 DEF Inv, TypeOK, BackupOK, Edit, run
  <2>5. MergedOK'
    <3>1. pc' = pc /\ merged' = merged /\ mode' = mode /\ (pc # "idle" => edited' # "no")
      BY <1>8 DEF Edit, run
    <3> QED BY <3>1 DEF Inv, MergedOK
  <2> QED BY <1>8, <2>3, <2>4, <2>5 DEF Inv, Edit, run
<1>9. CASE UNCHANGED vars
  BY <1>9 DEF Inv, TypeOK, BackupOK, MergedOK, vars, files, run
<1> QED BY <1>1, <1>2, <1>3, <1>4, <1>5, <1>6, <1>7, <1>8, <1>9 DEF Next, Script

\* So it always holds.
LEMMA Invariance == Spec => []Inv
BY InvStart, InvStep, PTL DEF Spec

(***************************************************************************)
(* Type correctness of HookRegistration.                                    *)
(***************************************************************************)
THEOREM TypeCorrect == Spec => []TypeOK
<1>1. Inv => TypeOK
  BY DEF Inv
<1> QED BY <1>1, Invariance, PTL

(***************************************************************************)
(* No run of the script, killed at any step, leaves settings half written.  *)
(***************************************************************************)
THEOREM SettingsStayWhole == Spec => []SettingsWhole
<1>1. Inv => SettingsWhole
  BY NoSettings DEF Inv, TypeOK, SettingsWhole
<1> QED BY <1>1, Invariance, PTL

(***************************************************************************)
(* What a run overwrites, the user's concurrent edit included, is in the    *)
(* backup, unless the edit came after it.                                   *)
(***************************************************************************)
THEOREM NothingIsLost == Spec => OverwrittenIsBackedUp
<1>1. Inv /\ [Next]_vars =>
        [Replace => settings \in {Absent, bak} \/ edited = "after_copy"]_vars
  BY DEF Inv, BackupOK, Replace, Goes
<1> QED BY <1>1, Invariance, PTL DEF Spec, OverwrittenIsBackedUp

(***************************************************************************)
(* "Hooks belonging to other tools survive untouched": for any entries of   *)
(* theirs, a run that nobody edits the settings during leaves their hooks,  *)
(* in their order and with their matchers, and the rest as it was.          *)
(***************************************************************************)
THEOREM OthersAreUntouched == Spec => OthersSurvive
<1> DEFINE A ==
      Replace /\ edited = "no" =>
        /\ \A e \in DOMAIN settings'.hooks \cup OurEvents :
             Where(Calls(settings', e), IsTheirs) = Where(Calls(settings, e), IsTheirs)
        /\ settings # Absent =>
             /\ settings'.rest = settings.rest
             /\ \A e \in DOMAIN settings.hooks \ DOMAIN settings'.hooks :
                  Where(Calls(settings, e), IsTheirs) = <<>>
<1>1. Inv /\ [Next]_vars => [A]_vars
  <2> SUFFICES ASSUME Inv, Replace, edited = "no" PROVE A
    OBVIOUS
  <2> DEFINE s == Whole(settings)
  <2>1. /\ pc = "replace" /\ settings' = merged /\ merged = Merge(s, mode)
        /\ settings # NotJson /\ mode \in {"register", "remove"}
    BY DEF Inv, TypeOK, MergedOK, Replace, Goes
  <2>2. IsSettings(s)
    BY <2>1, EmptyIsSettings DEF Inv, TypeOK, Whole
  <2>3. ASSUME NEW e PROVE Calls(s, e) = Calls(settings, e)
    <3>1. CASE settings = Absent
      <4>1. Calls(Absent, e) = <<>>
        BY DEF Calls
      <4>2. Calls(Empty, e) = Each(EntryCalls, Entries(Empty.hooks, e))
        BY EmptyIsSettings, CallsAre
      <4>3. Entries(Empty.hooks, e) = <<>>
        BY DEF Empty, Entries
      <4>4. Each(EntryCalls, <<>>) = <<>>
        BY CallsTypes, EachEmpty
      <4> QED BY <3>1, <4>1, <4>2, <4>3, <4>4 DEF Whole
    <3>2. CASE settings # Absent
      BY <3>2 DEF Whole
    <3> QED BY <3>1, <3>2
  <2>4. ASSUME NEW e
        PROVE  Where(Calls(settings', e), IsTheirs) = Where(Calls(settings, e), IsTheirs)
    <3>1. Where(Calls(Merge(s, mode), e), IsTheirs) = Where(Calls(s, e), IsTheirs)
      <4> HIDE DEF s
      <4> QED BY <2>1, <2>2, TheirsKept
    <3> HIDE DEF s
    <3> QED BY <2>1, <2>3, <3>1
  <2>5. ASSUME settings # Absent PROVE settings'.rest = settings.rest
    <3>1. s = settings
      BY <2>5 DEF Whole
    <3> HIDE DEF s
    <3> QED BY <2>1, <2>2, <3>1, MergeSettings
  <2>6. ASSUME NEW e, e \notin DOMAIN settings'.hooks
        PROVE  Where(Calls(settings, e), IsTheirs) = <<>>
    <3>1. IsSettings(settings')
      <4> HIDE DEF s
      <4> QED BY <2>1, <2>2, MergeSettings
    <3>2. Calls(settings', e) = Each(EntryCalls, Entries(settings'.hooks, e))
      BY <3>1, CallsAre
    <3>3. Entries(settings'.hooks, e) = <<>>
      BY <2>6 DEF Entries
    <3>4. Each(EntryCalls, <<>>) = <<>>
      BY CallsTypes, EachEmpty
    <3>5. Calls(settings', e) = <<>>
      BY <3>2, <3>3, <3>4
    <3>6. Where(<<>>, IsTheirs) = <<>>
      BY OnlyNothing DEF Where
    <3> QED BY <2>4, <3>5, <3>6
  <2> QED BY <2>4, <2>5, <2>6
<1>2. OthersSurvive <=> [][A]_vars
  BY DEF OthersSurvive
<1> HIDE DEF A
<1> QED BY <1>1, <1>2, Invariance, PTL DEF Spec

(***************************************************************************)
(* However often the script has run before, whatever was left of it and     *)
(* wherever its hooks stand among others, a registration leaves each of     *)
(* them once and a removal leaves none.                                     *)
(***************************************************************************)
THEOREM OnceOrGone == Spec => RegisteredOnceOrGone
<1> DEFINE A ==
      Replace => \A e \in DOMAIN settings'.hooks \cup OurEvents :
        Where(Calls(settings', e), IsOurs) =
          IF mode = "register" /\ e \in OurEvents THEN <<<<OurMatcher, Ours>>>> ELSE <<>>
<1>1. Inv /\ [Next]_vars => [A]_vars
  <2> SUFFICES ASSUME Inv, Replace PROVE A
    OBVIOUS
  <2>1. pc = "replace" /\ settings' = merged
    BY DEF Inv, Replace, Goes
  <2> QED BY <2>1 DEF Inv, MergedOK
<1>2. RegisteredOnceOrGone <=> [][A]_vars
  BY DEF RegisteredOnceOrGone
<1> HIDE DEF A
<1> QED BY <1>1, <1>2, Invariance, PTL DEF Spec
=============================================================================
