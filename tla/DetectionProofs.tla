--------------------------- MODULE DetectionProofs ---------------------------
(***************************************************************************)
(* What the functions behind a verdict return, for every payload, number,   *)
(* ruleset, report and text that the constants allow.  Each is a loop, so   *)
(* the argument is an induction over its turns: a set of indices that has 0 *)
(* and, with k, k + 1 has them all, because the least index outside it      *)
(* would have a predecessor inside.                                         *)
(*                                                                          *)
(* The folds and FlattenSeq of the community modules are recursive          *)
(* functions, that is, some solution of an equation.  That there is one is  *)
(* shown first; then a fold is a walk g[0], g[1], ... g[Len(s)] of which    *)
(* every step applies the operator once.                                    *)
(***************************************************************************)
EXTENDS Detection, FiniteSetTheorems, SequenceTheorems, TLAPS

----------------------------------------------------------------------------
(* Induction, recursion and loops *)

\* Induction over the turns of a loop.
LEMMA Induction ==
  ASSUME NEW n \in Nat, NEW S, 0 \in S, \A k \in 0..(n - 1) : k \in S => k + 1 \in S
  PROVE  \A k \in 0..n : k \in S
<1> DEFINE T == 0..n \ S
<1>1. SUFFICES ASSUME T # {} PROVE FALSE
  OBVIOUS
<1>0. T \subseteq Nat
  OBVIOUS
<1>2. PICK x \in T : \A y \in T : ~(<<y, x>> \in OpToRel(<, Nat))
  <2> HIDE DEF T
  <2> QED BY <1>0, <1>1, NatLessThanWellFounded, WFMin
<1>3. \A y \in T : ~(y < x)
  BY <1>0, <1>2 DEF OpToRel
<1>4. x # 0 /\ x - 1 \in 0..(n - 1) /\ x - 1 \notin T
  BY <1>3
<1> QED BY <1>4

\* A function defined by recursion: at stop it is base, elsewhere its value
\* follows from that at pred, whose height is smaller.
Recursive(I, stop, pred, height, m, A, base, step) ==
  /\ stop \in SUBSET I /\ pred \in [I -> I]
  /\ m \in Nat /\ height \in [I -> 0..m]
  /\ \A i \in I \ stop : height[pred[i]] < height[i]
  /\ base \in A /\ step \in [I \X A -> A]
Solves(g, I, stop, pred, base, step) ==
  \A i \in I : g[i] = IF i \in stop THEN base ELSE step[<<i, g[pred[i]]>>]

\* A function that is defined so exists.
LEMMA Recursion ==
  ASSUME NEW I, NEW stop, NEW pred, NEW height, NEW m, NEW A, NEW base, NEW step,
         Recursive(I, stop, pred, height, m, A, base, step)
  PROVE  \E g \in [I -> A] : Solves(g, I, stop, pred, base, step)
<1> DEFINE Below(g, k) ==
      \A i \in I : height[i] < k => g[i] = IF i \in stop THEN base ELSE step[<<i, g[pred[i]]>>]
           S == {k \in Nat : \E g \in [I -> A] : Below(g, k)}
<1> USE DEF Recursive
<1>1. 0 \in S
  <2>1. Below([i \in I |-> base], 0)
    OBVIOUS
  <2> QED BY <2>1
<1>2. ASSUME NEW k \in 0..m, k \in S PROVE k + 1 \in S
  <2>1. PICK g \in [I -> A] : Below(g, k)
    BY <1>2
  <2> DEFINE h == [i \in I |-> IF i \in stop THEN base ELSE step[<<i, g[pred[i]]>>]]
  <2>2. h \in [I -> A]
    OBVIOUS
  <2>3. \A i \in I : height[i] < k => h[i] = g[i]
    BY <2>1
  <2>4. \A i \in I : height[i] < k + 1 /\ i \notin stop => h[pred[i]] = g[pred[i]]
    BY <2>3
  <2>5. Below(h, k + 1)
    BY <2>4
  <2>6. k + 1 \in Nat
    OBVIOUS
  <2> HIDE DEF Below, h
  <2> QED BY <2>2, <2>5, <2>6
<1>3. m + 1 \in S
  <2> HIDE DEF S
  <2>1. PICK n \in Nat : n = m + 1
    OBVIOUS
  <2>2. \A k \in 0..(n - 1) : k \in S => k + 1 \in S
    BY <1>2, <2>1
  <2>3. \A k \in 0..n : k \in S
    BY <1>1, <2>2, Induction
  <2> QED BY <2>1, <2>3
<1>4. PICK g \in [I -> A] : Below(g, m + 1)
  BY <1>3
<1> QED BY <1>4 DEF Solves

\* The greatest element.
\* Of the first k indices the last is k.
LEMMA MaxInterval ==
  ASSUME NEW k \in Nat \ {0}
  PROVE  Max(1..k) = k /\ (1..k) \ {Max(1..k)} = 1..(k - 1)
BY DEF Max

\* A set of indices that is not empty has a greatest one.
LEMMA MaxFinite ==
  ASSUME NEW n \in Nat, NEW s \in SUBSET (1..n), s # {}
  PROVE  Max(s) \in s /\ \A x \in s : x <= Max(s)
<1> DEFINE T == {k \in 0..n : \A x \in s : x <= n - k}
<1>1. n \notin T
  <2>1. PICK x \in s : TRUE
    OBVIOUS
  <2> QED BY <2>1
<1>2. PICK k \in 0..(n - 1) : k \in T /\ k + 1 \notin T
  <2>1. 0 \in T
    OBVIOUS
  <2> HIDE DEF T
  <2> QED BY <1>1, <2>1, Induction
<1>3. n - k \in s
  BY <1>2
<1>4. \E x \in s : \A y \in s : y <= x
  BY <1>2, <1>3
<1> QED BY <1>4 DEF Max

\* How FoldLeft goes through the indices of a sequence.
FoldsOver(g, n, base, step) ==
  \A s \in SUBSET (1..n) :
    g[s] = IF s = {} THEN base ELSE step[<<Max(s), g[s \ {Max(s)}]>>]
\* FoldLeft takes the greatest index off a set of indices, and so it exists.
LEMMA SubsetRecursion ==
  ASSUME NEW n \in Nat, NEW A, NEW base \in A, NEW step \in [(1..n) \X A -> A]
  PROVE  \E g \in [SUBSET (1..n) -> A] : FoldsOver(g, n, base, step)
<1> DEFINE I == SUBSET (1..n)
           stop == {{}}
           top == [s \in I |-> IF s = {} THEN 0 ELSE Max(s)]
           pred == [s \in I |-> s \ {Max(s)}]
           Step == [x \in I \X A |-> IF x[1] = {} THEN base ELSE step[<<Max(x[1]), x[2]>>]]
<1>0. stop \in SUBSET I /\ pred \in [I -> I] /\ n \in Nat
  OBVIOUS
<1>1. top \in [I -> 0..n]
  <2>1. ASSUME NEW s \in I, s # {} PROVE Max(s) \in 0..n
    <3>1. Max(s) \in s
      BY <2>1, MaxFinite
    <3>2. Max(s) \in 1..n
      BY <3>1, Zenon
    <3> QED BY <3>2
  <2> QED BY <2>1
<1>2. \A s \in I \ stop : top[pred[s]] < top[s]
  <2> SUFFICES ASSUME NEW s \in I, s # {} PROVE top[pred[s]] < top[s]
    OBVIOUS
  <2>1. top[s] = Max(s) /\ Max(s) \in s /\ Max(s) \in 1..n /\ \A x \in s : x <= Max(s)
    BY MaxFinite
  <2>2. CASE pred[s] = {}
    BY <2>1, <2>2
  <2>3. CASE pred[s] # {}
    <3>1. Max(pred[s]) \in pred[s]
      BY <2>3, <1>0, MaxFinite
    <3> QED BY <2>1, <3>1, <2>3, <1>0
  <2> QED BY <2>2, <2>3
<1>4. Step \in [I \X A -> A]
  <2> SUFFICES ASSUME NEW s \in I, NEW a \in A, s # {} PROVE step[<<Max(s), a>>] \in A
    OBVIOUS
  <2> QED BY MaxFinite
<1>5. PICK g \in [I -> A] : Solves(g, I, stop, pred, base, Step)
  <2> HIDE DEF I, stop, top, pred, Step
  <2>1. Recursive(I, stop, pred, top, n, A, base, Step)
    BY <1>0, <1>1, <1>2, <1>4 DEF Recursive
  <2> QED BY <2>1, Recursion
<1>6. \A s \in I : g[s] = IF s = {} THEN base ELSE step[<<Max(s), g[s \ {Max(s)}]>>]
  <2> SUFFICES ASSUME NEW s \in I, s # {} PROVE g[s] = step[<<Max(s), g[s \ {Max(s)}]>>]
    BY <1>5 DEF Solves
  <2>1. g[pred[s]] \in A
    BY <1>0
  <2> QED BY <1>5, <2>1 DEF Solves
<1> QED BY <1>6 DEF FoldsOver

(* FlattenSeq, prefix by prefix. *)
Flattens(g, ss) ==
  /\ g[0] = <<>>
  /\ \A k \in 1..Len(ss) : g[k] = g[k - 1] \o ss[k]
\* There is such a walk, and FlattenSeq is where it ends.
LEMMA Flattening ==
  ASSUME NEW A, NEW ss \in Seq(Seq(A))
  PROVE  \E g \in [0..Len(ss) -> Seq(A)] : Flattens(g, ss) /\ FlattenSeq(ss) = g[Len(ss)]
<1> DEFINE n == Len(ss)
           I == 1..n
           Eq(f) == f = [i \in I |-> IF i = 1 THEN ss[i] ELSE f[i - 1] \o ss[i]]
           flatten == CHOOSE f : Eq(f)
           stop == {1} \cap I
           pred == [i \in I |-> IF i = 1 THEN 1 ELSE i - 1]
           height == [i \in I |-> i]
           step == [x \in I \X Seq(A) |-> x[2] \o ss[x[1]]]
<1>1. n \in Nat /\ DOMAIN ss = 1..n /\ \A i \in 1..n : ss[i] \in Seq(A)
  OBVIOUS
<1>2. ASSUME n = 0
      PROVE  \E g \in [0..n -> Seq(A)] : Flattens(g, ss) /\ FlattenSeq(ss) = g[n]
  <2>1. ss = <<>> /\ FlattenSeq(ss) = ss
    BY <1>2 DEF FlattenSeq
  <2>2. PICK g : g = [k \in 0..n |-> <<>>]
    OBVIOUS
  <2>3. g \in [0..n -> Seq(A)] /\ g[n] = <<>>
    BY <1>2, <2>2
  <2>4. Flattens(g, ss)
    BY <1>2, <2>2 DEF Flattens
  <2> QED BY <2>1, <2>3, <2>4
<1>3. ASSUME n # 0
      PROVE  \E g \in [0..n -> Seq(A)] : Flattens(g, ss) /\ FlattenSeq(ss) = g[n]
  <2>1. step \in [I \X Seq(A) -> Seq(A)]
    <3> SUFFICES ASSUME NEW i \in 1..n, NEW a \in Seq(A) PROVE a \o ss[i] \in Seq(A)
      OBVIOUS
    <3> QED BY <1>1
  <2>2. stop \in SUBSET I /\ pred \in [I -> I] /\ height \in [I -> 0..n]
    BY <1>1
  <2>3. (\A i \in I \ stop : height[pred[i]] < height[i]) /\ ss[1] \in Seq(A)
    BY <1>1, <1>3
  <2>4. PICK f \in [I -> Seq(A)] : Solves(f, I, stop, pred, ss[1], step)
    <3> HIDE DEF n, I, stop, pred, height, step
    <3>1. Recursive(I, stop, pred, height, n, Seq(A), ss[1], step)
      BY <1>1, <2>1, <2>2, <2>3 DEF Recursive
    <3> QED BY <3>1, Recursion
  <2>5. Eq(f)
    <3> SUFFICES ASSUME NEW i \in I, i # 1 PROVE f[i] = f[i - 1] \o ss[i]
      BY <2>4 DEF Solves
    <3>1. i - 1 \in I
      BY <1>1
    <3>2. f[i - 1] \in Seq(A)
      BY <3>1
    <3> QED BY <2>4, <3>1, <3>2 DEF Solves
  <2>6. flatten = [i \in I |-> IF i = 1 THEN ss[i] ELSE flatten[i - 1] \o ss[i]]
    BY <2>5
  <2>7. FlattenSeq(ss) = flatten[n]
    BY <1>3 DEF FlattenSeq
  <2> HIDE DEF flatten
  <2>8. /\ flatten[1] = ss[1]
        /\ \A k \in 1..(n - 1) : flatten[k + 1] = flatten[k] \o ss[k + 1]
    <3>1. \A i \in 1..n : flatten[i] = IF i = 1 THEN ss[i] ELSE flatten[i - 1] \o ss[i]
      BY <2>6, Zenon
    <3>2. 1 \in 1..n
      BY <1>1, <1>3
    <3>3. ASSUME NEW k \in 1..(n - 1)
          PROVE  k + 1 \in 1..n /\ k + 1 # 1 /\ (k + 1) - 1 = k
      BY <1>1
    <3> HIDE DEF n
    <3> QED BY <3>1, <3>2, <3>3
  <2> DEFINE g == [k \in 0..n |-> IF k = 0 THEN <<>> ELSE flatten[k]]
  <2>9. DOMAIN g = 0..n /\ g[0] = <<>> /\ \A k \in 1..n : g[k] = flatten[k]
    BY <1>1
  <2>10. g = [k \in 0..n |-> g[k]]
    OBVIOUS
  <2> HIDE DEF g
  <2>11. ASSUME NEW k \in 0..(n - 1) PROVE g[k + 1] = g[k] \o ss[k + 1]
    <3>1. CASE k = 0
      <4>1. <<>> \o ss[1] = ss[1]
        BY <1>1, <1>3
      <4> QED BY <1>1, <1>3, <2>8, <2>9, <3>1, <4>1
    <3>2. CASE k # 0
      <4>1. k \in 1..(n - 1) /\ k \in 1..n /\ k + 1 \in 1..n
        BY <1>1, <3>2
      <4> QED BY <2>8, <2>9, <4>1
    <3> QED BY <3>1, <3>2
  <2> DEFINE S == {k \in 0..n : g[k] \in Seq(A)}
  <2>12. ASSUME NEW k \in 0..(n - 1), k \in S PROVE k + 1 \in S
    <3>1. k + 1 \in 0..n /\ ss[k + 1] \in Seq(A)
      BY <1>1
    <3>2. g[k] \o ss[k + 1] \in Seq(A)
      BY <2>12, <3>1
    <3> QED BY <2>11, <3>1, <3>2
  <2>13. \A k \in 0..n : k \in S
    <3>1. 0 \in S
      <4>1. 0 \in 0..n /\ <<>> \in Seq(A)
        BY <1>1
      <4> QED BY <2>9, <4>1
    <3> HIDE DEF S, n
    <3> QED BY <1>1, <2>12, <3>1, Induction
  <2>14. g \in [0..n -> Seq(A)]
    BY <2>10, <2>13
  <2>15. \A k \in 1..n : g[k] = g[k - 1] \o ss[k]
    <3> SUFFICES ASSUME NEW k \in 1..n PROVE g[k] = g[k - 1] \o ss[k]
      OBVIOUS
    <3>1. k - 1 \in 0..(n - 1) /\ (k - 1) + 1 = k
      BY <1>1
    <3> QED BY <2>11, <3>1
  <2>16. g[n] = flatten[n]
    <3>1. n \in 1..n
      BY <1>1, <1>3
    <3> QED BY <2>9, <3>1
  <2> QED BY <2>7, <2>9, <2>14, <2>15, <2>16 DEF Flattens
<1> HIDE DEF n
<1>4. \E g \in [0..n -> Seq(A)] : Flattens(g, ss) /\ FlattenSeq(ss) = g[n]
  BY <1>2, <1>3
<1> QED BY <1>4 DEF n

\* Taking the greatest index off a prefix leaves the prefix before.
LEMMA MaxPrefix ==
  ASSUME NEW n \in Nat, NEW k \in 1..n
  PROVE  /\ 1..k \in SUBSET (1..n) /\ 1..k # {}
         /\ Max(1..k) = k /\ (1..k) \ {Max(1..k)} = 1..(k - 1)
<1>1. k \in Nat \ {0}
  OBVIOUS
<1> QED BY <1>1, MaxInterval

----------------------------------------------------------------------------
(* parse *)

Checked(base, s) == FoldLeft(Check, base, s)
\* parse goes through the entries one by one.
LEMMA FoldCheck ==
  ASSUME NEW E, NEW A, NEW base \in A, NEW s \in Seq(E),
         \A a \in A, e \in E : Check(a, e) \in A
  PROVE  \E g : /\ g[0] = base /\ g[Len(s)] = Checked(base, s)
                /\ \A k \in 1..Len(s) : g[k] = Check(g[k - 1], s[k])
<1>1. PICK n \in Nat : n = Len(s) /\ DOMAIN s = 1..n /\ \A i \in 1..n : s[i] \in E
  OBVIOUS
<1> DEFINE step == [x \in (1..n) \X A |-> Check(x[2], s[x[1]])]
<1>2. PICK f \in [SUBSET (1..n) -> A] : FoldsOver(f, n, base, step)
  <2>1. step \in [(1..n) \X A -> A]
    BY <1>1
  <2> HIDE DEF step
  <2> QED BY <2>1, SubsetRecursion
<1>3. f = [x \in SUBSET (1..n) |-> IF x = {} THEN base ELSE Check(f[x \ {Max(x)}], s[Max(x)])]
  <2> SUFFICES ASSUME NEW x \in SUBSET (1..n), x # {} PROVE f[x] = Check(f[x \ {Max(x)}], s[Max(x)])
    BY <1>2 DEF FoldsOver
  <2>1. Max(x) \in 1..n /\ f[x \ {Max(x)}] \in A
    BY <1>1, MaxFinite
  <2> QED BY <1>2, <2>1 DEF FoldsOver
<1>4. PICK iter :
        /\ iter = [x \in SUBSET (1..n) |->
                     IF x = {} THEN base ELSE Check(iter[x \ {Max(x)}], s[Max(x)])]
        /\ Checked(base, s) = iter[1..n]
  BY <1>1, <1>3 DEF Checked, FoldLeft, MapThenFoldSet
<1>5. \A k \in 1..n : iter[1..k] = Check(iter[1..(k - 1)], s[k])
  BY <1>4, MaxPrefix
<1> DEFINE g == [k \in 0..n |-> iter[1..k]]
<1>6. g[n] = iter[1..n] /\ \A k \in 1..n : g[k] = Check(g[k - 1], s[k])
  BY <1>5
<1>7. 1..0 = {} /\ {} \in SUBSET (1..n)
  OBVIOUS
<1>8. g[0] = base
  <2>1. g[0] = iter[1..0]
    OBVIOUS
  <2> QED BY <1>4, <1>7, <2>1
<1> HIDE DEF g
<1> QED BY <1>1, <1>4, <1>6, <1>8

Record(seen, compiled) == [seen |-> seen, compiled |-> compiled]

\* An error is not mistaken for what has been compiled.
LEMMA ErrorIsNoRecord == \A s, c : Record(s, c) # PatternError
<1> SUFFICES ASSUME NEW s, NEW c, Record(s, c) = PatternError PROVE FALSE
  OBVIOUS
<1>1. DOMAIN Record(s, c) = {"seen", "compiled"} /\ DOMAIN PatternError = {"error"}
  BY DEF Record, PatternError
<1>2. "seen" # "error"
  OBVIOUS
<1> QED BY <1>1, <1>2

AllSane(rules, k) ==
  /\ \A i \in 1..k : Sane(rules[i])
  /\ \A i, j \in 1..k : rules[i].name = rules[j].name => i = j
Compiled(rules, k) ==
  Record({rules[i].name : i \in 1..k}, [i \in 1..k |-> Rule(rules[i])])

\* One more entry is compiled if it is sane and its name is new.
LEMMA CheckStep ==
  ASSUME NEW k \in Nat, NEW rules
  PROVE  /\ AllSane(rules, k + 1) => AllSane(rules, k)
         /\ Check(IF AllSane(rules, k) THEN Compiled(rules, k) ELSE PatternError, rules[k + 1]) =
              IF AllSane(rules, k + 1) THEN Compiled(rules, k + 1) ELSE PatternError
<1>1. 1..(k + 1) = (1..k) \cup {k + 1} /\ k + 1 \notin 1..k
  OBVIOUS
<1>2. AllSane(rules, k + 1) <=>
        /\ AllSane(rules, k) /\ Sane(rules[k + 1])
        /\ rules[k + 1].name \notin {rules[i].name : i \in 1..k}
  BY <1>1 DEF AllSane
<1>3. CASE ~AllSane(rules, k)
  BY <1>2, <1>3 DEF Check
<1>4. CASE AllSane(rules, k)
  <2>1. Compiled(rules, k) # PatternError
    BY ErrorIsNoRecord DEF Compiled
  <2>2. /\ Compiled(rules, k).seen = {rules[i].name : i \in 1..k}
        /\ Compiled(rules, k).compiled = [i \in 1..k |-> Rule(rules[i])]
    BY DEF Compiled, Record
  <2>3. Check(Compiled(rules, k), rules[k + 1]) =
          IF AllSane(rules, k + 1)
            THEN Record({rules[i].name : i \in 1..k} \cup {rules[k + 1].name},
                        Append([i \in 1..k |-> Rule(rules[i])], Rule(rules[k + 1])))
            ELSE PatternError
    BY <1>2, <1>4, <2>1, <2>2 DEF Check, Record
  <2>4. {rules[i].name : i \in 1..k} \cup {rules[k + 1].name} = {rules[i].name : i \in 1..(k + 1)}
    BY <1>1
  <2>5. Append([i \in 1..k |-> Rule(rules[i])], Rule(rules[k + 1])) =
          [i \in 1..(k + 1) |-> Rule(rules[i])]
    OBVIOUS
  <2> QED BY <1>4, <2>3, <2>4, <2>5 DEF Compiled
<1> QED BY <1>2, <1>3, <1>4

\* All entries are compiled if they are sane and their names differ, and
\* none else.
LEMMA CheckAll ==
  ASSUME NEW E, NEW rules \in Seq(E)
  PROVE  Checked(Record({}, <<>>), rules) =
           IF AllSane(rules, Len(rules)) THEN Compiled(rules, Len(rules)) ELSE PatternError
<1>0. PICK N, R : N = {e.name : e \in E} /\ R = {Rule(e) : e \in E}
  OBVIOUS
<1> DEFINE A == {PatternError} \cup [seen : SUBSET N, compiled : Seq(R)]
           Upto(k) == IF AllSane(rules, k) THEN Compiled(rules, k) ELSE PatternError
<1>1. Record({}, <<>>) \in A
  BY DEF Record
<1>2. ASSUME NEW a \in A, NEW e \in E PROVE Check(a, e) \in A
  <2>1. CASE a = PatternError
    BY <2>1 DEF Check
  <2>2. CASE a # PatternError
    <3>1. a.seen \in SUBSET N /\ a.compiled \in Seq(R)
      BY <2>2
    <3>2. e.name \in N /\ Rule(e) \in R
      BY <1>0
    <3>3. a.seen \cup {e.name} \in SUBSET N /\ Append(a.compiled, Rule(e)) \in Seq(R)
      BY <3>1, <3>2
    <3> QED BY <2>2, <3>3 DEF Check
  <2> QED BY <2>1, <2>2
<1>3. PICK g : /\ g[0] = Record({}, <<>>)
               /\ g[Len(rules)] = Checked(Record({}, <<>>), rules)
               /\ \A k \in 1..Len(rules) : g[k] = Check(g[k - 1], rules[k])
  <2> HIDE DEF A
  <2> QED BY <1>1, <1>2, FoldCheck
<1>4. PICK n \in Nat : n = Len(rules)
  OBVIOUS
<1> DEFINE S == {k \in 0..n : g[k] = Upto(k)}
<1>5. 0 \in S
  <2>1. AllSane(rules, 0) /\ Compiled(rules, 0) = Record({}, <<>>)
    <3>1. 1..0 = {} /\ [i \in 1..0 |-> Rule(rules[i])] = <<>>
      OBVIOUS
    <3> QED BY <3>1 DEF AllSane, Compiled
  <2> QED BY <1>3, <1>4, <2>1
<1>6. ASSUME NEW k \in 0..(n - 1), k \in S PROVE k + 1 \in S
  <2>1. k + 1 \in 1..n /\ (k + 1) - 1 = k
    BY <1>4
  <2>2. g[k + 1] = Check(Upto(k), rules[k + 1])
    BY <1>3, <1>4, <1>6, <2>1
  <2>3. g[k + 1] = Upto(k + 1)
    BY <2>2, CheckStep
  <2> QED BY <2>1, <2>3
<1>7. n \in S
  <2>1. \A k \in 0..n : k \in S
    <3> HIDE DEF S
    <3> QED BY <1>4, <1>5, <1>6, Induction
  <2> QED BY <1>4, <2>1
<1> QED BY <1>3, <1>4, <1>7

\* What parse gives for a payload is what the reference says of it.
LEMMA ParseReference ==
  ASSUME NEW E, NEW doc, NEW rules \in Seq(E),
         doc \in {NotJson, NotObject} \/ \E v \in {"blank", "given"}, l \in BOOLEAN : doc = Object(v, l, rules)
  PROVE  parse(doc) = IF Sound(doc) THEN Compiled(doc.rules, Len(doc.rules)) ELSE PatternError
<1>1. CASE doc \in {NotJson, NotObject}
  BY <1>1 DEF NotJson, NotObject, parse, Sound
<1>2. ASSUME NEW v \in {"blank", "given"}, NEW l \in BOOLEAN, doc = Object(v, l, rules)
      PROVE  parse(doc) = IF Sound(doc) THEN Compiled(doc.rules, Len(doc.rules)) ELSE PatternError
  <2>1. /\ doc.kind = "object" /\ doc.version = v /\ doc.list = l /\ doc.rules = rules
    BY <1>2 DEF Object
  <2>2. DOMAIN rules = 1..Len(rules)
    OBVIOUS
  <2>3. Sound(doc) <=> v = "given" /\ l /\ rules # <<>> /\ AllSane(rules, Len(rules))
    BY <2>1, <2>2 DEF Sound, AllSane
  <2>4. parse(doc) = IF v = "blank" \/ ~l \/ rules = <<>> THEN PatternError
                     ELSE Checked(Record({}, <<>>), rules)
    BY <2>1 DEF parse, Record, Checked
  <2> QED BY <2>1, <2>3, <2>4, CheckAll
<1> QED BY <1>1, <1>2

----------------------------------------------------------------------------
(* luhn_valid *)

Total(s) == FoldLeft(+, 0, s)

\* A sum goes through its numbers one by one.
LEMMA FoldTotal ==
  ASSUME NEW s \in Seq(Nat)
  PROVE  \E g : /\ g[0] = 0 /\ g[Len(s)] = Total(s)
                /\ \A k \in 1..Len(s) : g[k] = g[k - 1] + s[k]
<1>1. PICK n \in Nat : n = Len(s) /\ DOMAIN s = 1..n /\ \A i \in 1..n : s[i] \in Nat
  OBVIOUS
<1> DEFINE step == [x \in (1..n) \X Nat |-> x[2] + s[x[1]]]
<1>2. PICK f \in [SUBSET (1..n) -> Nat] : FoldsOver(f, n, 0, step)
  <2>1. step \in [(1..n) \X Nat -> Nat]
    BY <1>1
  <2> HIDE DEF step
  <2> QED BY <2>1, SubsetRecursion
<1>3. f = [x \in SUBSET (1..n) |-> IF x = {} THEN 0 ELSE f[x \ {Max(x)}] + s[Max(x)]]
  <2> SUFFICES ASSUME NEW x \in SUBSET (1..n), x # {} PROVE f[x] = f[x \ {Max(x)}] + s[Max(x)]
    BY <1>2 DEF FoldsOver
  <2>1. Max(x) \in 1..n /\ f[x \ {Max(x)}] \in Nat
    BY <1>1, MaxFinite
  <2> QED BY <1>2, <2>1 DEF FoldsOver
<1>4. PICK iter :
        /\ iter = [x \in SUBSET (1..n) |->
                     IF x = {} THEN 0 ELSE iter[x \ {Max(x)}] + s[Max(x)]]
        /\ Total(s) = iter[1..n]
  BY <1>1, <1>3 DEF Total, FoldLeft, MapThenFoldSet
<1>5. \A k \in 1..n : iter[1..k] = iter[1..(k - 1)] + s[k]
  BY <1>4, MaxPrefix
<1> DEFINE g == [k \in 0..n |-> iter[1..k]]
<1>6. g[n] = iter[1..n] /\ \A k \in 1..n : g[k] = g[k - 1] + s[k]
  BY <1>5
<1>7. 1..0 = {} /\ {} \in SUBSET (1..n)
  OBVIOUS
<1>8. g[0] = 0
  <2>1. g[0] = iter[1..0]
    OBVIOUS
  <2> QED BY <1>4, <1>7, <2>1
<1> HIDE DEF g
<1> QED BY <1>1, <1>4, <1>6, <1>8

\* A sum is the same from the right.
LEMMA TotalOfReverse ==
  ASSUME NEW n \in Nat, NEW s \in Seq(Nat), NEW t \in Seq(Nat), Len(s) = n, Len(t) = n,
         \A k \in 1..n : t[k] = s[n + 1 - k]
  PROVE  Total(s) = Total(t)
<1>1. \A k \in 1..n : s[k] \in Nat /\ t[k] \in Nat
  OBVIOUS
<1>2. PICK g : g[0] = 0 /\ g[n] = Total(s) /\ \A k \in 1..n : g[k] = g[k - 1] + s[k]
  <2>1. PICK g : /\ g[0] = 0 /\ g[Len(s)] = Total(s)
                 /\ \A k \in 1..Len(s) : g[k] = g[k - 1] + s[k]
    BY FoldTotal
  <2> QED BY <2>1
<1>3. PICK h : h[0] = 0 /\ h[n] = Total(t) /\ \A k \in 1..n : h[k] = h[k - 1] + t[k]
  <2>1. PICK h : /\ h[0] = 0 /\ h[Len(t)] = Total(t)
                 /\ \A k \in 1..Len(t) : h[k] = h[k - 1] + t[k]
    BY FoldTotal
  <2> QED BY <2>1
<1> DEFINE G == {k \in 0..n : g[k] \in Nat}
<1>4. \A k \in 0..n : k \in G
  <2>1. 0 \in G
    BY <1>2
  <2>2. ASSUME NEW k \in 0..(n - 1), k \in G PROVE k + 1 \in G
    <3>1. k + 1 \in 1..n /\ (k + 1) - 1 = k
      OBVIOUS
    <3> QED BY <1>1, <1>2, <2>2, <3>1
  <2> HIDE DEF G
  <2> QED BY <2>1, <2>2, Induction
<1> DEFINE S == {k \in 0..n : h[k] \in Nat /\ g[n - k] + h[k] = g[n]}
<1>5. \A k \in 0..n : k \in S
  <2>1. 0 \in S
    BY <1>2, <1>3, <1>4
  <2>2. ASSUME NEW k \in 0..(n - 1), k \in S PROVE k + 1 \in S
    <3>1. /\ k + 1 \in 1..n /\ (k + 1) - 1 = k
          /\ n - k \in 1..n /\ (n - k) - 1 = n - (k + 1) /\ n + 1 - (k + 1) = n - k
          /\ n - (k + 1) \in 0..n
      OBVIOUS
    <3>2. h[k + 1] = h[k] + s[n - k] /\ g[n - k] = g[n - (k + 1)] + s[n - k]
      BY <1>2, <1>3, <3>1
    <3>3. g[n - (k + 1)] \in Nat /\ s[n - k] \in Nat /\ h[k] \in Nat
      BY <1>1, <1>4, <2>2, <3>1
    <3> QED BY <2>2, <3>1, <3>2, <3>3
  <2> HIDE DEF S
  <2> QED BY <2>1, <2>2, Induction
<1>6. h[n] \in Nat /\ g[0] + h[n] = g[n]
  BY <1>5
<1> QED BY <1>2, <1>3, <1>6

Weighed(nums) ==
  [k \in 1..Len(nums) |->
     LET d == nums[Len(nums) + 1 - k] IN IF k % 2 = 0 THEN DoubledDigit[d + 1] ELSE d]

\* The table of doubled digits subtracts 9 where 2d has two.
LEMMA TwiceADigit ==
  \A d \in 0..9 : Twice(d) = DoubledDigit[d + 1] /\ Twice(d) \in Nat
BY DEF Twice, DoubledDigit

\* luhn_valid is the checksum over the digits counted from the right.
LEMMA LuhnReference ==
  ASSUME NEW nums \in Seq(0..9)
  PROVE  luhn_valid(nums) <=> Len(nums) \in 13..19 /\ Total(Weighed(nums)) % 10 = 0
<1>1. PICK n \in Nat : n = Len(nums) /\ DOMAIN nums = 1..n /\ \A i \in 1..n : nums[i] \in 0..9
  OBVIOUS
<1> DEFINE s == [i \in 1..n |-> Doubled(nums, i)]
           t == Weighed(nums)
<1>2. \A i \in 1..n : Doubled(nums, i) \in Nat
  <2> SUFFICES ASSUME NEW i \in 1..n PROVE Doubled(nums, i) \in Nat
    OBVIOUS
  <2>1. nums[i] \in Nat /\ Twice(nums[i]) \in Nat
    <3>1. nums[i] \in 0..9
      BY <1>1
    <3>2. Twice(nums[i]) \in Nat
      BY <3>1, TwiceADigit, Zenon
    <3> QED BY <3>1, <3>2
  <2> QED BY <2>1 DEF Doubled
<1>3. s \in Seq(Nat) /\ Len(s) = n
  BY <1>2
<1>4. \A k \in 1..n : t[k] = s[n + 1 - k]
  <2> SUFFICES ASSUME NEW k \in 1..n PROVE t[k] = s[n + 1 - k]
    OBVIOUS
  <2>1. n + 1 - k \in 1..n /\ nums[n + 1 - k] \in 0..9
    BY <1>1
  <2>2. (n + 1 - k - 1) % 2 = n % 2 <=> k % 2 = 0
    OBVIOUS
  <2>3. s[n + 1 - k] =
          IF k % 2 = 0 THEN Twice(nums[n + 1 - k]) ELSE nums[n + 1 - k]
    BY <1>1, <2>1, <2>2 DEF Doubled
  <2>4. t[k] =
          IF k % 2 = 0 THEN DoubledDigit[nums[n + 1 - k] + 1] ELSE nums[n + 1 - k]
    BY <1>1 DEF Weighed
  <2> QED BY <2>1, <2>3, <2>4, TwiceADigit
<1>5. t \in Seq(Nat) /\ Len(t) = n
  <2>1. \A k \in 1..n : t[k] \in Nat
    <3> SUFFICES ASSUME NEW k \in 1..n PROVE t[k] \in Nat
      OBVIOUS
    <3>1. n + 1 - k \in 1..n
      OBVIOUS
    <3> QED BY <1>2, <1>4, <3>1
  <2>2. t = [k \in 1..n |-> t[k]]
    BY <1>1 DEF Weighed
  <2> QED BY <2>1, <2>2
<1>6. Total(s) = Total(t)
  <2> HIDE DEF s, t
  <2> QED BY <1>3, <1>4, <1>5, TotalOfReverse
<1>7. luhn_valid(nums) <=> Len(nums) \in 13..19 /\ Total(s) % 10 = 0
  BY <1>1 DEF luhn_valid, Total
<1> QED BY <1>6, <1>7

----------------------------------------------------------------------------
(* Filters *)

\* A filter goes through the elements one by one.
LEMMA FoldOnly ==
  ASSUME NEW A, NEW s \in Seq(A), NEW T
  PROVE  \E g : /\ g[0] = <<>> /\ g[Len(s)] = Only(s, T)
                /\ \A k \in 1..Len(s) :
                     g[k] = IF s[k] \in T THEN Append(g[k - 1], s[k]) ELSE g[k - 1]
<1>1. PICK n \in Nat : n = Len(s) /\ DOMAIN s = 1..n /\ \A i \in 1..n : s[i] \in A
  OBVIOUS
<1> DEFINE ss == [i \in 1..n |-> IF s[i] \in T THEN <<s[i]>> ELSE <<>>]
<1>2. ss \in Seq(Seq(A)) /\ Len(ss) = n
  <2>1. \A i \in 1..n : (IF s[i] \in T THEN <<s[i]>> ELSE <<>>) \in Seq(A)
    BY <1>1
  <2> QED BY <2>1
<1>3. Only(s, T) = FlattenSeq(ss)
  BY <1>1 DEF Only
<1>4. PICK g \in [0..n -> Seq(A)] :
        g[0] = <<>> /\ g[n] = FlattenSeq(ss) /\ \A k \in 1..n : g[k] = g[k - 1] \o ss[k]
  <2> HIDE DEF ss
  <2> QED BY <1>2, Flattening DEF Flattens
<1>5. ASSUME NEW k \in 1..n
      PROVE  g[k] = IF s[k] \in T THEN Append(g[k - 1], s[k]) ELSE g[k - 1]
  <2>1. k - 1 \in 0..n
    OBVIOUS
  <2>2. g[k - 1] \in Seq(A)
    BY <2>1
  <2>3. g[k - 1] \o <<s[k]>> = Append(g[k - 1], s[k]) /\ g[k - 1] \o <<>> = g[k - 1]
    BY <2>2, <1>1
  <2> QED BY <1>4, <2>3
<1> QED BY <1>1, <1>3, <1>4, <1>5

\* It keeps those that satisfy it.
LEMMA OnlyElements ==
  ASSUME NEW A, NEW s \in Seq(A), NEW T
  PROVE  Only(s, T) \in Seq(A) /\ ToSet(Only(s, T)) = ToSet(s) \cap T
<1>1. PICK n \in Nat : n = Len(s) /\ DOMAIN s = 1..n /\ \A i \in 1..n : s[i] \in A
  OBVIOUS
<1>2. PICK g : /\ g[0] = <<>> /\ g[n] = Only(s, T)
               /\ \A k \in 1..n :
                    g[k] = IF s[k] \in T THEN Append(g[k - 1], s[k]) ELSE g[k - 1]
  <2>1. PICK g : /\ g[0] = <<>> /\ g[Len(s)] = Only(s, T)
                 /\ \A k \in 1..Len(s) :
                      g[k] = IF s[k] \in T THEN Append(g[k - 1], s[k]) ELSE g[k - 1]
    BY FoldOnly, SMT
  <2>2. n = Len(s)
    BY <1>1
  <2> QED BY <2>1, <2>2, Zenon
<1> DEFINE S == {k \in 0..n : g[k] \in Seq(A) /\ ToSet(g[k]) = {s[i] : i \in 1..k} \cap T}
<1>3. 0 \in S
  <2>1. <<>> \in Seq(A) /\ ToSet(<<>>) = {} /\ 1..0 = {} /\ 0 \in 0..n
    BY DEF ToSet
  <2>2. {s[i] : i \in 1..0} \cap T = {}
    BY <2>1
  <2> QED BY <1>2, <2>1, <2>2
<1>4. ASSUME NEW a \in Seq(A), NEW x \in A
      PROVE  Append(a, x) \in Seq(A) /\ ToSet(Append(a, x)) = ToSet(a) \cup {x}
  <2>1. /\ DOMAIN a = 1..Len(a) /\ DOMAIN Append(a, x) = 1..(Len(a) + 1)
        /\ \A i \in 1..Len(a) : Append(a, x)[i] = a[i]
        /\ Append(a, x)[Len(a) + 1] = x
    OBVIOUS
  <2>2. 1..(Len(a) + 1) = 1..Len(a) \cup {Len(a) + 1}
    OBVIOUS
  <2> QED BY <2>1, <2>2 DEF ToSet
<1>5. ASSUME NEW k \in 0..(n - 1), k \in S PROVE k + 1 \in S
  <2>1. k + 1 \in 1..n /\ (k + 1) - 1 = k /\ s[k + 1] \in A /\ k + 1 \in 0..n
    BY <1>1
  <2>2. g[k + 1] = IF s[k + 1] \in T THEN Append(g[k], s[k + 1]) ELSE g[k]
    BY <1>2, <2>1
  <2>3. {s[i] : i \in 1..(k + 1)} = {s[i] : i \in 1..k} \cup {s[k + 1]}
    <3>1. 1..(k + 1) = 1..k \cup {k + 1}
      OBVIOUS
    <3> QED BY <3>1
  <2>4. g[k] \in Seq(A) /\ ToSet(g[k]) = {s[i] : i \in 1..k} \cap T
    BY <1>5
  <2>5. CASE s[k + 1] \in T
    <3>1. g[k + 1] \in Seq(A) /\ ToSet(g[k + 1]) = ToSet(g[k]) \cup {s[k + 1]}
      BY <1>4, <2>1, <2>2, <2>4, <2>5
    <3> QED BY <2>1, <2>3, <2>4, <2>5, <3>1
  <2>6. CASE s[k + 1] \notin T
    BY <2>1, <2>2, <2>3, <2>4, <2>6
  <2> QED BY <2>5, <2>6
<1>6. n \in S
  <2>1. \A k \in 0..n : k \in S
    <3> HIDE DEF S
    <3> QED BY <1>3, <1>5, Induction
  <2>2. n \in 0..n
    OBVIOUS
  <2> QED BY <2>1, <2>2, Zenon
<1>7. {s[i] : i \in 1..n} = ToSet(s)
  BY <1>1 DEF ToSet
<1> QED BY <1>2, <1>6, <1>7

\* The elements of two lists joined up.
LEMMA ConcatElements ==
  ASSUME NEW A, NEW a \in Seq(A), NEW b \in Seq(A)
  PROVE  ToSet(a \o b) = ToSet(a) \cup ToSet(b)
<1>1. /\ DOMAIN a = 1..Len(a) /\ DOMAIN b = 1..Len(b) /\ DOMAIN (a \o b) = 1..(Len(a) + Len(b))
      /\ \A i \in 1..Len(a) : (a \o b)[i] = a[i]
      /\ \A i \in (Len(a) + 1)..(Len(a) + Len(b)) : (a \o b)[i] = b[i - Len(a)]
  OBVIOUS
<1>2. ASSUME NEW x \in ToSet(a \o b) PROVE x \in ToSet(a) \cup ToSet(b)
  <2>1. PICK i \in 1..(Len(a) + Len(b)) : x = (a \o b)[i]
    BY <1>1 DEF ToSet
  <2>2. CASE i \in 1..Len(a)
    BY <1>1, <2>1, <2>2 DEF ToSet
  <2>3. CASE i \in (Len(a) + 1)..(Len(a) + Len(b))
    <3>1. i - Len(a) \in 1..Len(b)
      BY <2>3
    <3> QED BY <1>1, <2>1, <2>3, <3>1 DEF ToSet
  <2> QED BY <2>2, <2>3
<1>3. ASSUME NEW x \in ToSet(a) PROVE x \in ToSet(a \o b)
  <2>1. PICK i \in 1..Len(a) : x = a[i]
    BY <1>1 DEF ToSet
  <2>2. i \in 1..(Len(a) + Len(b))
    OBVIOUS
  <2> QED BY <1>1, <2>1, <2>2 DEF ToSet
<1>4. ASSUME NEW x \in ToSet(b) PROVE x \in ToSet(a \o b)
  <2>1. PICK i \in 1..Len(b) : x = b[i]
    BY <1>1 DEF ToSet
  <2>2. /\ i + Len(a) \in 1..(Len(a) + Len(b)) /\ i + Len(a) \in (Len(a) + 1)..(Len(a) + Len(b))
        /\ (i + Len(a)) - Len(a) = i
    OBVIOUS
  <2> QED BY <1>1, <2>1, <2>2 DEF ToSet
<1> QED BY <1>2, <1>3, <1>4

\* The elements of many lists joined up.
LEMMA FlattenElements ==
  ASSUME NEW A, NEW ss \in Seq(Seq(A))
  PROVE  FlattenSeq(ss) \in Seq(A) /\ ToSet(FlattenSeq(ss)) = UNION {ToSet(ss[i]) : i \in 1..Len(ss)}
<1>1. PICK n \in Nat : n = Len(ss) /\ \A i \in 1..n : ss[i] \in Seq(A)
  OBVIOUS
<1>2. PICK g \in [0..n -> Seq(A)] :
        g[0] = <<>> /\ g[n] = FlattenSeq(ss) /\ \A k \in 1..n : g[k] = g[k - 1] \o ss[k]
  BY <1>1, Flattening DEF Flattens
<1> DEFINE S == {k \in 0..n : ToSet(g[k]) = UNION {ToSet(ss[i]) : i \in 1..k}}
<1>4. 0 \in S
  <2>1. ToSet(<<>>) = {} /\ 1..0 = {}
    BY DEF ToSet
  <2> QED BY <1>2, <2>1
<1>5. ASSUME NEW k \in 0..(n - 1), k \in S PROVE k + 1 \in S
  <2>0. k + 1 \in 1..n /\ (k + 1) - 1 = k /\ k + 1 \in 0..n /\ k \in 0..n
    OBVIOUS
  <2>1. ss[k + 1] \in Seq(A) /\ g[k] \in Seq(A)
    BY <1>1, <2>0
  <2>2. ToSet(g[k + 1]) = ToSet(g[k]) \cup ToSet(ss[k + 1])
    <3>1. g[k + 1] = g[k] \o ss[k + 1]
      BY <1>2, <2>0
    <3> QED BY ConcatElements, <2>1, <3>1
  <2>3. 1..(k + 1) = 1..k \cup {k + 1}
    OBVIOUS
  <2>4. UNION {ToSet(ss[i]) : i \in 1..(k + 1)} = (UNION {ToSet(ss[i]) : i \in 1..k}) \cup ToSet(ss[k + 1])
    BY <2>3
  <2> QED BY <1>5, <2>0, <2>2, <2>4
<1>6. n \in S
  <2>1. \A k \in 0..n : k \in S
    <3> HIDE DEF S
    <3> QED BY <1>4, <1>5, Induction
  <2>2. n \in 0..n
    OBVIOUS
  <2> QED BY <2>1, <2>2, Zenon
<1> QED BY <1>1, <1>2, <1>6

----------------------------------------------------------------------------
(* dedupe and scan *)

Deduped(base, s) == FoldLeft(Keep, base, s)
\* dedupe goes through the findings one by one.
LEMMA FoldKeep ==
  ASSUME NEW E, NEW A, NEW base \in A, NEW s \in Seq(E),
         \A a \in A, e \in E : Keep(a, e) \in A
  PROVE  \E g : /\ g[0] = base /\ g[Len(s)] = Deduped(base, s)
                /\ \A k \in 1..Len(s) : g[k] = Keep(g[k - 1], s[k])
<1>1. PICK n \in Nat : n = Len(s) /\ DOMAIN s = 1..n /\ \A i \in 1..n : s[i] \in E
  OBVIOUS
<1> DEFINE step == [x \in (1..n) \X A |-> Keep(x[2], s[x[1]])]
<1>2. PICK f \in [SUBSET (1..n) -> A] : FoldsOver(f, n, base, step)
  <2>1. step \in [(1..n) \X A -> A]
    BY <1>1
  <2> HIDE DEF step
  <2> QED BY <2>1, SubsetRecursion
<1>3. f = [x \in SUBSET (1..n) |-> IF x = {} THEN base ELSE Keep(f[x \ {Max(x)}], s[Max(x)])]
  <2> SUFFICES ASSUME NEW x \in SUBSET (1..n), x # {} PROVE f[x] = Keep(f[x \ {Max(x)}], s[Max(x)])
    BY <1>2 DEF FoldsOver
  <2>1. Max(x) \in 1..n /\ f[x \ {Max(x)}] \in A
    BY <1>1, MaxFinite
  <2> QED BY <1>2, <2>1 DEF FoldsOver
<1>4. PICK iter :
        /\ iter = [x \in SUBSET (1..n) |->
                     IF x = {} THEN base ELSE Keep(iter[x \ {Max(x)}], s[Max(x)])]
        /\ Deduped(base, s) = iter[1..n]
  BY <1>1, <1>3 DEF Deduped, FoldLeft, MapThenFoldSet
<1>5. \A k \in 1..n : iter[1..k] = Keep(iter[1..(k - 1)], s[k])
  BY <1>4, MaxPrefix
<1> DEFINE g == [k \in 0..n |-> iter[1..k]]
<1>6. g[n] = iter[1..n] /\ \A k \in 1..n : g[k] = Keep(g[k - 1], s[k])
  BY <1>5
<1>7. 1..0 = {} /\ {} \in SUBSET (1..n)
  OBVIOUS
<1>8. g[0] = base
  <2>1. g[0] = iter[1..0]
    OBVIOUS
  <2> QED BY <1>4, <1>7, <2>1
<1> HIDE DEF g
<1> QED BY <1>1, <1>4, <1>6, <1>8

HasHigh(F) == \E f \in F : f.severity = "high"

\* A finding takes the place of its duplicates if it is the first of high
\* severity.
LEMMA KeepsTheStrongest ==
  ASSUME NEW best, NEW f
  PROVE  /\ Keep(best, f) \subseteq best \cup {f} /\ Keep(best, f) # {}
         /\ HasHigh(Keep(best, f)) <=> HasHigh(best) \/ f.severity = "high"
<1> DEFINE prior == {p \in best : p.rule = f.rule /\ p.sample = f.sample}
<1>1. CASE prior = {} \/ (f.severity = "high" /\ \A p \in prior : p.severity # "high")
  <2>1. Keep(best, f) = (best \ prior) \cup {f}
    BY <1>1 DEF Keep
  <2>2. \A p \in best : p.severity = "high" => p \notin prior
    BY <1>1
  <2> QED BY <2>1, <2>2 DEF HasHigh
<1>2. CASE ~(prior = {} \/ (f.severity = "high" /\ \A p \in prior : p.severity # "high"))
  <2>1. Keep(best, f) = best /\ prior # {}
    BY <1>2 DEF Keep
  <2> QED BY <1>2, <2>1 DEF HasHigh
<1> QED BY <1>1, <1>2

\* dedupe drops duplicates only, and keeps one of high severity where there
\* is one.
LEMMA DedupeReference ==
  ASSUME NEW E, NEW s \in Seq(E)
  PROVE  /\ _dedupe(s) \subseteq ToSet(s)
         /\ _dedupe(s) = {} => ToSet(s) = {}
         /\ HasHigh(_dedupe(s)) <=> HasHigh(ToSet(s))
<1>1. PICK n \in Nat : n = Len(s) /\ DOMAIN s = 1..n /\ \A i \in 1..n : s[i] \in E
  OBVIOUS
<1>2. PICK g : /\ g[0] = {} /\ g[n] = Deduped({}, s)
               /\ \A k \in 1..n : g[k] = Keep(g[k - 1], s[k])
  <2>0. PICK A : A = SUBSET E
    OBVIOUS
  <2>1. {} \in A
    BY <2>0
  <2>2. \A a \in A, e \in E : Keep(a, e) \in A
    BY <2>0, KeepsTheStrongest
  <2>3. PICK g : /\ g[0] = {} /\ g[Len(s)] = Deduped({}, s)
                 /\ \A k \in 1..Len(s) : g[k] = Keep(g[k - 1], s[k])
    BY <2>1, <2>2, FoldKeep
  <2>4. n = Len(s)
    BY <1>1
  <2> QED BY <2>3, <2>4
<1> DEFINE P(k) == {s[i] : i \in 1..k}
           S == {k \in 0..n : /\ g[k] \subseteq P(k) /\ (g[k] = {} => P(k) = {})
                              /\ (HasHigh(g[k]) <=> HasHigh(P(k)))}
<1>3. 0 \in S
  <2>1. P(0) = {} /\ 0 \in 0..n
    OBVIOUS
  <2> HIDE DEF P
  <2> QED BY <1>2, <2>1
<1>4. ASSUME NEW k \in 0..(n - 1), k \in S PROVE k + 1 \in S
  <2>1. k + 1 \in 1..n /\ (k + 1) - 1 = k /\ k + 1 \in 0..n
    OBVIOUS
  <2>2. g[k + 1] = Keep(g[k], s[k + 1])
    BY <1>2, <2>1
  <2>3. P(k + 1) = P(k) \cup {s[k + 1]}
    <3>1. 1..(k + 1) = 1..k \cup {k + 1}
      OBVIOUS
    <3> QED BY <3>1
  <2>4. /\ g[k] \subseteq P(k) /\ (g[k] = {} => P(k) = {})
        /\ (HasHigh(g[k]) <=> HasHigh(P(k)))
    BY <1>4
  <2> HIDE DEF P
  <2>5. HasHigh(P(k + 1)) <=> HasHigh(P(k)) \/ s[k + 1].severity = "high"
    BY <2>3 DEF HasHigh
  <2>6. /\ g[k + 1] \subseteq P(k + 1) /\ g[k + 1] # {}
        /\ (HasHigh(g[k + 1]) <=> HasHigh(P(k + 1)))
    BY <2>2, <2>3, <2>4, <2>5, KeepsTheStrongest
  <2> QED BY <2>1, <2>6
<1>5. n \in S
  <2>1. \A k \in 0..n : k \in S
    <3> HIDE DEF S
    <3> QED BY <1>3, <1>4, Induction
  <2>2. n \in 0..n
    OBVIOUS
  <2> QED BY <2>1, <2>2, Zenon
<1>6. P(n) = ToSet(s)
  BY <1>1 DEF ToSet
<1>7. g[n] = _dedupe(s)
  BY <1>2 DEF Deduped, _dedupe
<1> HIDE DEF P
<1> QED BY <1>5, <1>6, <1>7

RuleRecords == [name : Names, severity : {"high", "low"}, validator : {"none", "luhn"}]
ReportRecords == [entity : DOMAIN PRESIDIO_ENTITIES, score : Scores, value : Values]
FindingRecords ==
  [rule : Names \cup DOMAIN PRESIDIO_ENTITIES, severity : {"high", "low"},
   sample : {Sample[v] : v \in Values}]

\* A list of findings for a list of what they are of.
LEMMA WhereMapped ==
  ASSUME NEW s, NEW B, NEW r, s = [k \in DOMAIN r |-> s[k]], NEW A, r \in Seq(A),
         \A k \in DOMAIN r : s[k] \in B
  PROVE  s \in Seq(B)
<1>1. PICK n \in Nat : DOMAIN r = 1..n
  OBVIOUS
<1> QED BY <1>1

Confirmed(rule, hits) == {v \in ToSet(hits) : validate(rule, v)}
RegexFindingsOf(rule, hits) ==
  {Finding(rule.name, effective_severity(rule), v) : v \in Confirmed(rule, hits)}

\* The findings of one rule are its confirmed hits.
LEMMA OneRule ==
  ASSUME NEW rule \in RuleRecords, NEW hits \in Seq(Values), NEW kept,
         kept = Only(hits, Confirmed(rule, hits)), NEW s,
         s = [k \in DOMAIN kept |-> Finding(rule.name, effective_severity(rule), kept[k])]
  PROVE  /\ s \in Seq(FindingRecords)
         /\ ToSet(s) = RegexFindingsOf(rule, hits)
<1>1. kept \in Seq(Values) /\ ToSet(kept) = Confirmed(rule, hits)
  <2>1. Confirmed(rule, hits) \subseteq ToSet(hits)
    BY DEF Confirmed
  <2>2. Only(hits, Confirmed(rule, hits)) \in Seq(Values)
    BY OnlyElements
  <2>3. ToSet(Only(hits, Confirmed(rule, hits))) = ToSet(hits) \cap Confirmed(rule, hits)
    BY OnlyElements
  <2> QED BY <2>1, <2>2, <2>3
<1>2. PICK n \in Nat : DOMAIN kept = 1..n /\ \A k \in 1..n : kept[k] \in Values
  BY <1>1
<1>3. ASSUME NEW v \in Values
      PROVE  Finding(rule.name, effective_severity(rule), v) \in FindingRecords
  BY DEF RuleRecords, FindingRecords, Finding, effective_severity
<1>4. s \in Seq(FindingRecords)
  BY <1>2, <1>3
<1>5. ToSet(s) = {Finding(rule.name, effective_severity(rule), v) : v \in ToSet(kept)}
  BY <1>2 DEF ToSet
<1> QED BY <1>1, <1>4, <1>5 DEF RegexFindingsOf

\* The findings of the ruleset are those of its rules.
LEMMA RegexFindings ==
  ASSUME NEW rules \in Seq(RuleRecords), NEW hits \in [DOMAIN rules -> Seq(Values)]
  PROVE  /\ _scan_regex(rules, hits) \in Seq(FindingRecords)
         /\ ToSet(_scan_regex(rules, hits)) =
              UNION {RegexFindingsOf(rules[i], hits[i]) : i \in DOMAIN rules}
<1>1. PICK n \in Nat : n = Len(rules) /\ DOMAIN rules = 1..n /\ \A i \in 1..n : rules[i] \in RuleRecords
  OBVIOUS
<1> DEFINE kept(i) == Only(hits[i], Confirmed(rules[i], hits[i]))
           ss == [i \in 1..n |-> [k \in DOMAIN kept(i) |->
                    Finding(rules[i].name, effective_severity(rules[i]), kept(i)[k])]]
<1>2. _scan_regex(rules, hits) = FlattenSeq(ss)
  BY <1>1 DEF _scan_regex, Where, Confirmed
<1>3. \A i \in 1..n :
        ss[i] \in Seq(FindingRecords) /\ ToSet(ss[i]) = RegexFindingsOf(rules[i], hits[i])
  <2> SUFFICES ASSUME NEW i \in 1..n
               PROVE  ss[i] \in Seq(FindingRecords) /\ ToSet(ss[i]) = RegexFindingsOf(rules[i], hits[i])
    OBVIOUS
  <2>1. rules[i] \in RuleRecords /\ hits[i] \in Seq(Values)
    BY <1>1
  <2>2. ss[i] = [k \in DOMAIN kept(i) |->
                    Finding(rules[i].name, effective_severity(rules[i]), kept(i)[k])]
    OBVIOUS
  <2>3. PICK t : t = ss[i]
    OBVIOUS
  <2>4. PICK q : q = kept(i)
    OBVIOUS
  <2>5. t = [k \in DOMAIN q |-> Finding(rules[i].name, effective_severity(rules[i]), q[k])]
    BY <2>2, <2>3, <2>4
  <2>6. t \in Seq(FindingRecords) /\ ToSet(t) = RegexFindingsOf(rules[i], hits[i])
    BY <2>1, <2>4, <2>5, OneRule
  <2> HIDE DEF ss, kept
  <2> QED BY <2>3, <2>6
<1>4. ss \in Seq(Seq(FindingRecords)) /\ Len(ss) = n
  <2>1. DOMAIN ss = 1..n /\ ss = [i \in DOMAIN ss |-> ss[i]]
    OBVIOUS
  <2>2. PICK X : X = Seq(FindingRecords)
    OBVIOUS
  <2> HIDE DEF ss
  <2>3. \A i \in 1..n : ss[i] \in X
    BY <1>3, <2>2
  <2>4. ss \in Seq(X) /\ Len(ss) = n
    BY <2>1, <2>3
  <2> QED BY <2>2, <2>4
<1> HIDE DEF ss
<1>5. /\ FlattenSeq(ss) \in Seq(FindingRecords)
      /\ ToSet(FlattenSeq(ss)) = UNION {ToSet(ss[i]) : i \in 1..Len(ss)}
  BY <1>4, FlattenElements
<1>6. UNION {ToSet(ss[i]) : i \in 1..n} = UNION {RegexFindingsOf(rules[i], hits[i]) : i \in 1..n}
  BY <1>3
<1> QED BY <1>1, <1>2, <1>4, <1>5, <1>6

PresidioFindingsOf(reported) ==
  {Finding(r.entity, PRESIDIO_ENTITIES[r.entity], r.value) : r \in {x \in ToSet(reported) : Survives(x)}}

\* The findings of the NLP pass are the reports that survive its thresholds.
LEMMA PresidioFindings ==
  ASSUME NEW reported \in Seq(ReportRecords)
  PROVE  /\ _scan_presidio(reported) \in Seq(FindingRecords)
         /\ ToSet(_scan_presidio(reported)) = PresidioFindingsOf(reported)
<1>1. PICK T : T = {x \in ToSet(reported) : Survives(x)}
  OBVIOUS
<1>2. PICK kept : kept = Only(reported, T)
  OBVIOUS
<1>3. kept \in Seq(ReportRecords) /\ ToSet(kept) = T
  <2>1. Only(reported, T) \in Seq(ReportRecords) /\ ToSet(Only(reported, T)) = ToSet(reported) \cap T
    BY OnlyElements
  <2> QED BY <1>1, <1>2, <2>1
<1>4. PICK s : s = [k \in DOMAIN kept |->
                      Finding(kept[k].entity, PRESIDIO_ENTITIES[kept[k].entity], kept[k].value)]
  OBVIOUS
<1>5. _scan_presidio(reported) = s
  BY <1>1, <1>2, <1>4 DEF _scan_presidio, Where
<1>6. PICK n \in Nat : DOMAIN kept = 1..n /\ \A k \in 1..n : kept[k] \in ReportRecords
  BY <1>3
<1>7. ASSUME NEW r \in ReportRecords
      PROVE  Finding(r.entity, PRESIDIO_ENTITIES[r.entity], r.value) \in FindingRecords
  <2>1. PRESIDIO_ENTITIES[r.entity] \in {"high", "low"}
    BY DEF ReportRecords, PRESIDIO_ENTITIES
  <2>2. r.entity \in Names \cup DOMAIN PRESIDIO_ENTITIES /\ Sample[r.value] \in {Sample[v] : v \in Values}
    BY DEF ReportRecords
  <2> QED BY <2>1, <2>2 DEF FindingRecords, Finding
<1>8. s \in Seq(FindingRecords)
  BY <1>4, <1>6, <1>7
<1>9. ToSet(s) = {Finding(r.entity, PRESIDIO_ENTITIES[r.entity], r.value) : r \in ToSet(kept)}
  BY <1>4, <1>6 DEF ToSet
<1> QED BY <1>1, <1>3, <1>5, <1>8, <1>9 DEF PresidioFindingsOf

\* The verdict for a set of findings.
Strongest(actions) == CHOOSE a \in actions : \A b \in actions : rank[a] >= rank[b]
\* It blocks for one of high severity, and warns for any other.
LEMMA StrongestAction ==
  ASSUME NEW D, \A f \in D : f.severity \in {"high", "low"}, NEW actions,
         actions = {SEVERITY_ACTION[f.severity] : f \in D} \cup {"allow"}
  PROVE  Strongest(actions) =
           IF HasHigh(D) THEN "block" ELSE IF D # {} THEN "warn" ELSE "allow"
<1>1. /\ rank["allow"] = 0 /\ rank["warn"] = 1 /\ rank["block"] = 2
      /\ SEVERITY_ACTION["high"] = "block" /\ SEVERITY_ACTION["low"] = "warn"
  BY DEF rank, SEVERITY_ACTION
<1>2. actions \subseteq {"allow", "warn", "block"} /\ "allow" \in actions
  BY <1>1
<1>3. "block" \in actions <=> HasHigh(D)
  BY <1>1 DEF HasHigh
<1>4. ~HasHigh(D) => ("warn" \in actions <=> D # {})
  BY <1>1 DEF HasHigh
<1>5. PICK best : best = IF HasHigh(D) THEN "block" ELSE IF D # {} THEN "warn" ELSE "allow"
  OBVIOUS
<1>6. best \in actions /\ \A b \in actions : rank[best] >= rank[b]
  BY <1>1, <1>2, <1>3, <1>4, <1>5
<1>7. \A a \in actions : (\A b \in actions : rank[a] >= rank[b]) => a = best
  BY <1>1, <1>2, <1>6
<1> QED BY <1>5, <1>6, <1>7 DEF Strongest

\* scan's verdict is what the hits and reports say, whatever duplicates
\* there are.
LEMMA ScanReference ==
  ASSUME call.rules \in Seq(RuleRecords), call.hits \in [DOMAIN call.rules -> Seq(Values)],
         call.reported \in Seq(ReportRecords)
  PROVE  scan(call.rules, call.hits, call.reported).action =
           IF Detects("high") THEN "block" ELSE IF Detects("low") THEN "warn" ELSE "allow"
<1>1. PICK rules \in Seq(RuleRecords) : rules = call.rules
  OBVIOUS
<1>2. PICK hits \in [DOMAIN rules -> Seq(Values)] : hits = call.hits
  BY <1>1
<1>3. PICK reported \in Seq(ReportRecords) : reported = call.reported
  OBVIOUS
<1>4. PICK n \in Nat : DOMAIN rules = 1..n /\ \A i \in 1..n : rules[i] \in RuleRecords
  OBVIOUS
<1>5. PICK fs : fs = _scan_regex(rules, hits) \o _scan_presidio(reported)
  OBVIOUS
<1> DEFINE U == UNION {RegexFindingsOf(rules[i], hits[i]) : i \in 1..n}
<1>6. fs \in Seq(FindingRecords) /\ ToSet(fs) = U \cup PresidioFindingsOf(reported)
  <2>1. /\ _scan_regex(rules, hits) \in Seq(FindingRecords)
        /\ ToSet(_scan_regex(rules, hits)) = U
    BY <1>4, RegexFindings
  <2>2. /\ _scan_presidio(reported) \in Seq(FindingRecords)
        /\ ToSet(_scan_presidio(reported)) = PresidioFindingsOf(reported)
    BY PresidioFindings
  <2>3. PICK a \in Seq(FindingRecords) : a = _scan_regex(rules, hits)
    BY <2>1
  <2>4. PICK b \in Seq(FindingRecords) : b = _scan_presidio(reported)
    BY <2>2
  <2>5. a \o b \in Seq(FindingRecords) /\ ToSet(a \o b) = ToSet(a) \cup ToSet(b)
    BY ConcatElements
  <2> HIDE DEF U
  <2> QED BY <1>5, <2>1, <2>2, <2>3, <2>4, <2>5
<1>7. PICK D : D = _dedupe(fs)
  OBVIOUS
<1>8. D \subseteq ToSet(fs) /\ (D = {} => ToSet(fs) = {}) /\ (HasHigh(D) <=> HasHigh(ToSet(fs)))
  BY <1>6, <1>7, DedupeReference
<1>9. \A f \in ToSet(fs) : f.severity \in {"high", "low"}
  <2>1. \A f \in ToSet(fs) : f \in FindingRecords
    BY <1>6 DEF ToSet
  <2> QED BY <2>1 DEF FindingRecords
<1>10. scan(rules, hits, reported).action =
         IF HasHigh(D) THEN "block" ELSE IF D # {} THEN "warn" ELSE "allow"
  <2>1. PICK actions : actions = {SEVERITY_ACTION[f.severity] : f \in D} \cup {"allow"}
    OBVIOUS
  <2>2. scan(rules, hits, reported).action =
          Strongest(actions)
    BY <1>5, <1>7, <2>1 DEF scan, Strongest
  <2>3. \A f \in D : f.severity \in {"high", "low"}
    BY <1>8, <1>9
  <2>4. Strongest(actions) =
          IF HasHigh(D) THEN "block" ELSE IF D # {} THEN "warn" ELSE "allow"
    BY <2>1, <2>3, StrongestAction
  <2> QED BY <2>2, <2>4
<1> DEFINE Sees(f) == f \in ToSet(fs)
           ByRule(severity) ==
             \E i \in 1..n :
               \/ rules[i].validator = "none" /\ hits[i] # <<>> /\ rules[i].severity = severity
               \/ rules[i].validator = "luhn" /\ severity = "high"
                  /\ \E k \in DOMAIN hits[i] : hits[i][k] \in Cards
           ByReport(severity) ==
             \E k \in DOMAIN reported :
               Survives(reported[k]) /\ PRESIDIO_ENTITIES[reported[k].entity] = severity
<1>11. \A severity : Detects(severity) <=> ByRule(severity) \/ ByReport(severity)
  BY <1>1, <1>2, <1>3, <1>4 DEF Detects
<1>12. ASSUME NEW i \in 1..n, NEW severity \in {"high", "low"}
       PROVE  (\E f \in RegexFindingsOf(rules[i], hits[i]) : f.severity = severity) <=>
                \/ rules[i].validator = "none" /\ hits[i] # <<>> /\ rules[i].severity = severity
                \/ rules[i].validator = "luhn" /\ severity = "high"
                   /\ \E k \in DOMAIN hits[i] : hits[i][k] \in Cards
  <2>1. (\E f \in RegexFindingsOf(rules[i], hits[i]) : f.severity = severity) <=>
          Confirmed(rules[i], hits[i]) # {} /\ effective_severity(rules[i]) = severity
    <3>1. \A v : Finding(rules[i].name, effective_severity(rules[i]), v).severity
                  = effective_severity(rules[i])
      BY DEF Finding
    <3> QED BY <3>1 DEF RegexFindingsOf
  <2>2. hits[i] # <<>> <=> ToSet(hits[i]) # {}
    <3>1. hits[i] \in Seq(Values)
      BY <1>4
    <3>2. PICK h \in Seq(Values) : h = hits[i]
      BY <3>1
    <3>3. PICK m \in Nat : DOMAIN h = 1..m /\ Len(h) = m
      OBVIOUS
    <3>4. h # <<>> <=> m # 0
      BY <3>3
    <3>5. ToSet(h) # {} <=> m # 0
      <4>1. m # 0 => 1 \in DOMAIN h
        BY <3>3
      <4>2. \A k \in DOMAIN h : h[k] \in ToSet(h)
        BY DEF ToSet
      <4>3. m = 0 => DOMAIN h = {}
        BY <3>3
      <4>4. DOMAIN h = {} => ToSet(h) = {}
        BY DEF ToSet
      <4> QED BY <4>1, <4>2, <4>3, <4>4
    <3> QED BY <3>2, <3>4, <3>5
  <2>3. rules[i].validator \in {"none", "luhn"}
    BY <1>4 DEF RuleRecords
  <2>4. CASE rules[i].validator = "none"
    BY <2>1, <2>2, <2>4 DEF Confirmed, validate, effective_severity
  <2>5. CASE rules[i].validator = "luhn"
    <3>1. Confirmed(rules[i], hits[i]) # {} <=> \E k \in DOMAIN hits[i] : hits[i][k] \in Cards
      BY <2>5 DEF Confirmed, validate, ToSet
    <3>2. effective_severity(rules[i]) = "high"
      BY <2>5 DEF effective_severity
    <3> QED BY <2>1, <2>5, <3>1, <3>2
  <2> QED BY <2>3, <2>4, <2>5
<1>13. ASSUME NEW severity
       PROVE  (\E f \in PresidioFindingsOf(reported) : f.severity = severity) <=> ByReport(severity)
  <2>1. \A r : Finding(r.entity, PRESIDIO_ENTITIES[r.entity], r.value).severity
                = PRESIDIO_ENTITIES[r.entity]
    BY DEF Finding
  <2>2. (\E f \in PresidioFindingsOf(reported) : f.severity = severity) <=>
          \E r \in ToSet(reported) : Survives(r) /\ PRESIDIO_ENTITIES[r.entity] = severity
    BY <2>1 DEF PresidioFindingsOf
  <2> QED BY <2>2 DEF ToSet
<1>14. ASSUME NEW severity \in {"high", "low"}
       PROVE  (\E f \in ToSet(fs) : f.severity = severity) <=> Detects(severity)
  <2>1. (\E f \in ToSet(fs) : f.severity = severity) <=>
          \/ \E i \in 1..n : \E f \in RegexFindingsOf(rules[i], hits[i]) : f.severity = severity
          \/ \E f \in PresidioFindingsOf(reported) : f.severity = severity
    <3>2. \A f : f \in U <=> \E i \in 1..n : f \in RegexFindingsOf(rules[i], hits[i])
      OBVIOUS
    <3> HIDE DEF U
    <3>3. \A f : f \in ToSet(fs) <=> f \in U \/ f \in PresidioFindingsOf(reported)
      BY <1>6
    <3> QED BY <3>2, <3>3
  <2>2. (\E i \in 1..n : \E f \in RegexFindingsOf(rules[i], hits[i]) : f.severity = severity)
          <=> ByRule(severity)
    BY <1>12
  <2> HIDE DEF ByRule, ByReport
  <2> QED BY <1>11, <1>13, <2>1, <2>2
<1>15. HasHigh(D) <=> Detects("high")
  BY <1>8, <1>14 DEF HasHigh
<1>16. ~HasHigh(D) => (D # {} <=> Detects("low"))
  <2>1. ToSet(fs) # {} <=> Detects("high") \/ Detects("low")
    BY <1>9, <1>14
  <2> QED BY <1>8, <1>15, <2>1
<1> QED BY <1>1, <1>2, <1>3, <1>10, <1>15, <1>16

----------------------------------------------------------------------------
(* The findings that redact_text keeps *)

FindingSpans ==
  {f \in [start : 0..Length, end : 0..Length, rule : DOMAIN HighRules] : f.start < f.end}

\* There are finitely many findings in a text.
LEMMA FiniteSpans ==
  ASSUME DetectionAssumption
  PROVE  IsFiniteSet(FindingSpans)
<1>1. PICK m \in Nat : DOMAIN HighRules = 1..m
  BY DEF DetectionAssumption
<1>2. Length \in Nat
  BY DEF DetectionAssumption
<1> DEFINE P == (0..Length) \X ((0..Length) \X (1..m))
           T == [start : 0..Length, end : 0..Length, rule : 1..m]
           h == [p \in P |-> [start |-> p[1], end |-> p[2][1], rule |-> p[2][2]]]
<1>3. IsFiniteSet(P)
  <2>1. IsFiniteSet(0..Length) /\ IsFiniteSet(1..m)
    BY <1>2, FS_Interval
  <2>2. IsFiniteSet((0..Length) \X (1..m))
    BY <2>1, FS_Product
  <2> QED BY <2>1, <2>2, FS_Product
<1>4. h \in Surjection(P, T)
  <2>1. h \in [P -> T]
    OBVIOUS
  <2>2. ASSUME NEW t \in T PROVE \E p \in P : h[p] = t
    <3>1. <<t.start, <<t.end, t.rule>>>> \in P
      OBVIOUS
    <3>2. h[<<t.start, <<t.end, t.rule>>>>] = t
      BY <3>1
    <3> QED BY <3>1, <3>2
  <2> QED BY <2>1, <2>2 DEF Surjection
<1>5. IsFiniteSet(T)
  <2> HIDE DEF P, T, h
  <2> QED BY <1>3, <1>4, FS_Surjection
<1>6. FindingSpans \in SUBSET T
  BY <1>1 DEF FindingSpans
<1> QED BY <1>5, <1>6, FS_Subset

\* The sort key orders findings.
LEMMA BeforeOrders ==
  ASSUME DetectionAssumption, NEW f \in FindingSpans, NEW g \in FindingSpans, NEW h \in FindingSpans
  PROVE  /\ ~Before(f, f)
         /\ Before(f, g) /\ Before(g, h) => Before(f, h)
         /\ f # g => Before(f, g) \/ Before(g, f)
<1>1. PICK m \in Nat : DOMAIN HighRules = 1..m
  BY DEF DetectionAssumption
<1>2. Length \in Nat
  BY DEF DetectionAssumption
<1>3. \A x \in FindingSpans : /\ x.start \in Int /\ x.end \in Int /\ x.rule \in Int
                              /\ x = [start |-> x.start, end |-> x.end, rule |-> x.rule]
  BY <1>1, <1>2 DEF FindingSpans
<1> QED BY <1>3 DEF Before

Earlier(F, f) == {g \in F : Before(g, f)}

\* The findings before another one are fewer than those before a later one.
LEMMA EarlierGrows ==
  ASSUME DetectionAssumption, NEW F \in SUBSET FindingSpans, NEW f \in F, NEW n \in Nat,
         n = Cardinality(F)
  PROVE  /\ Cardinality(Earlier(F, f)) \in 0..(n - 1)
         /\ \A g \in F : Before(f, g) => Cardinality(Earlier(F, f)) < Cardinality(Earlier(F, g))
<1>1. IsFiniteSet(F)
  BY FiniteSpans, FS_Subset
<1>2. ASSUME NEW S \in SUBSET F PROVE IsFiniteSet(S) /\ Cardinality(S) \in Nat
  BY <1>1, FS_Subset, FS_CardinalityType
<1>3. ASSUME NEW S \in SUBSET F, NEW T \in SUBSET S, S # T
      PROVE  Cardinality(T) < Cardinality(S)
  <2>1. IsFiniteSet(S) /\ Cardinality(S) \in Nat /\ Cardinality(T) \in Nat
    BY <1>2
  <2>2. Cardinality(T) <= Cardinality(S) /\ (Cardinality(S) = Cardinality(T) => S = T)
    BY <2>1, FS_Subset
  <2> QED BY <1>3, <2>1, <2>2
<1>4. Earlier(F, f) \in SUBSET F /\ f \notin Earlier(F, f)
  BY BeforeOrders DEF Earlier
<1>5. Cardinality(Earlier(F, f)) < n /\ Cardinality(Earlier(F, f)) \in Nat
  BY <1>2, <1>3, <1>4
<1>6. ASSUME NEW g \in F, Before(f, g)
      PROVE  Cardinality(Earlier(F, f)) < Cardinality(Earlier(F, g))
  <2>1. Earlier(F, f) \in SUBSET Earlier(F, g)
    BY <1>6, BeforeOrders DEF Earlier
  <2>2. f \in Earlier(F, g)
    BY <1>6 DEF Earlier
  <2>3. Earlier(F, g) \in SUBSET F
    BY DEF Earlier
  <2> QED BY <1>3, <1>4, <2>1, <2>2, <2>3
<1> QED BY <1>5, <1>6

\* sorted(): every finding once, each before those that follow it.
Sorts(o, F, n) ==
  /\ o = [i \in 1..n |-> o[i]] /\ \A i \in 1..n : o[i] \in F
  /\ \A f \in F : \E i \in 1..n : o[i] = f
  /\ \A i, j \in 1..n : i < j => Before(o[i], o[j])

\* They exist, and Ordered returns one.
LEMMA OrderedSorts ==
  ASSUME DetectionAssumption, NEW F \in SUBSET FindingSpans
  PROVE  Cardinality(F) \in Nat /\ Sorts(Ordered(F), F, Cardinality(F))
<1>1. IsFiniteSet(F) /\ Cardinality(F) \in Nat
  BY FiniteSpans, FS_Subset, FS_CardinalityType
<1>2. PICK n \in Nat : n = Cardinality(F)
  BY <1>1
<1> DEFINE place == [f \in F |-> Cardinality(Earlier(F, f))]
<1>3. \A f \in F : place[f] \in 0..(n - 1) /\ \A g \in F : Before(f, g) => place[f] < place[g]
  BY <1>2, EarlierGrows
<1>4. place \in [F -> 0..(n - 1)] /\ DOMAIN place = F
  BY <1>3
<1>5. \A f, g \in F : place[f] = place[g] => f = g
  <2> HIDE DEF place
  <2>1. \A f \in F : place[f] \in Int
    BY <1>3
  <2> QED BY <1>3, <2>1, BeforeOrders
<1>6. \A i \in 0..(n - 1) : \E f \in F : place[f] = i
  <2>1. IsFiniteSet(0..(n - 1)) /\ Cardinality(0..(n - 1)) = n
    <3>1. 0 \in Int /\ n - 1 \in Int
      OBVIOUS
    <3> QED BY <3>1, FS_Interval
  <2>2. place \in Injection(F, 0..(n - 1))
    BY <1>4, <1>5 DEF Injection, IsInjective
  <2> HIDE DEF place
  <2>3. place \in Surjection(F, 0..(n - 1))
    BY <1>2, <2>1, <2>2, FS_Injection
  <2> QED BY <2>3 DEF Surjection
<1>7. PICK o : o = Ordered(F)
  OBVIOUS
<1>8. o = [i \in 1..n |-> CHOOSE f \in F : Cardinality(Earlier(F, f)) = i - 1]
  BY <1>2, <1>7 DEF Ordered, Earlier
<1>0. \A f \in F : place[f] = Cardinality(Earlier(F, f))
  OBVIOUS
<1> HIDE DEF place
<1>9. ASSUME NEW i \in 1..n PROVE o[i] \in F /\ place[o[i]] = i - 1
  <2>1. i - 1 \in 0..(n - 1)
    OBVIOUS
  <2>2. \E f \in F : Cardinality(Earlier(F, f)) = i - 1
    BY <1>0, <1>6, <2>1
  <2>3. o[i] = CHOOSE f \in F : Cardinality(Earlier(F, f)) = i - 1
    BY <1>8
  <2> QED BY <1>0, <2>2, <2>3
<1>10. \A f \in F : \E i \in 1..n : o[i] = f
  <2> SUFFICES ASSUME NEW f \in F PROVE \E i \in 1..n : o[i] = f
    OBVIOUS
  <2>1. PICK i \in 1..n : place[f] = i - 1
    <3>1. place[f] \in 0..(n - 1)
      BY <1>3
    <3>2. place[f] + 1 \in 1..n /\ (place[f] + 1) - 1 = place[f]
      BY <3>1
    <3> QED BY <3>2
  <2> QED BY <1>5, <1>9, <2>1
<1>11. \A i, j \in 1..n : i < j => Before(o[i], o[j])
  <2> SUFFICES ASSUME NEW i \in 1..n, NEW j \in 1..n, i < j PROVE Before(o[i], o[j])
    OBVIOUS
  <2>1. /\ o[i] \in F /\ place[o[i]] = i - 1
        /\ o[j] \in F /\ place[o[j]] = j - 1
    BY <1>9
  <2>2. o[i] # o[j] /\ ~(place[o[j]] < place[o[i]])
    BY <2>1
  <2> QED BY <1>3, <2>1, <2>2, BeforeOrders
<1>12. o = [i \in 1..n |-> o[i]]
  BY <1>8
<1> QED BY <1>1, <1>2, <1>7, <1>9, <1>10, <1>11, <1>12 DEF Sorts

Chosen(base, s) == FoldLeft(Choose, base, s)
\* The loop over sorted findings, one by one.
LEMMA FoldChoose ==
  ASSUME NEW E, NEW A, NEW base \in A, NEW s \in Seq(E),
         \A a \in A, e \in E : Choose(a, e) \in A
  PROVE  \E g : /\ g[0] = base /\ g[Len(s)] = Chosen(base, s)
                /\ \A k \in 1..Len(s) : g[k] = Choose(g[k - 1], s[k])
<1>1. PICK n \in Nat : n = Len(s) /\ DOMAIN s = 1..n /\ \A i \in 1..n : s[i] \in E
  OBVIOUS
<1> DEFINE step == [x \in (1..n) \X A |-> Choose(x[2], s[x[1]])]
<1>2. PICK f \in [SUBSET (1..n) -> A] : FoldsOver(f, n, base, step)
  <2>1. step \in [(1..n) \X A -> A]
    BY <1>1
  <2> HIDE DEF step
  <2> QED BY <2>1, SubsetRecursion
<1>3. f = [x \in SUBSET (1..n) |-> IF x = {} THEN base ELSE Choose(f[x \ {Max(x)}], s[Max(x)])]
  <2> SUFFICES ASSUME NEW x \in SUBSET (1..n), x # {} PROVE f[x] = Choose(f[x \ {Max(x)}], s[Max(x)])
    BY <1>2 DEF FoldsOver
  <2>1. Max(x) \in 1..n /\ f[x \ {Max(x)}] \in A
    BY <1>1, MaxFinite
  <2> QED BY <1>2, <2>1 DEF FoldsOver
<1>4. PICK iter :
        /\ iter = [x \in SUBSET (1..n) |->
                     IF x = {} THEN base ELSE Choose(iter[x \ {Max(x)}], s[Max(x)])]
        /\ Chosen(base, s) = iter[1..n]
  BY <1>1, <1>3 DEF Chosen, FoldLeft, MapThenFoldSet
<1>5. \A k \in 1..n : iter[1..k] = Choose(iter[1..(k - 1)], s[k])
  BY <1>4, MaxPrefix
<1> DEFINE g == [k \in 0..n |-> iter[1..k]]
<1>6. g[n] = iter[1..n] /\ \A k \in 1..n : g[k] = Choose(g[k - 1], s[k])
  BY <1>5
<1>7. 1..0 = {} /\ {} \in SUBSET (1..n)
  OBVIOUS
<1>8. g[0] = base
  <2>1. g[0] = iter[1..0]
    OBVIOUS
  <2> QED BY <1>4, <1>7, <2>1
<1> HIDE DEF g
<1> QED BY <1>1, <1>4, <1>6, <1>8

\* The findings that are kept: apart from each other, in order, and one of them
\* over the start of each.
Apart(K) == \A i, j \in 1..Len(K) : i < j => K[i].end <= K[j].start
CoversStart(K, f) == \E g \in ToSet(K) : g.start <= f.start /\ f.start < g.end
Ends(K, last_end) == last_end = IF K = <<>> THEN -1 ELSE K[Len(K)].end

\* A span is not empty and lies in the text.
LEMMA SpanType ==
  ASSUME DetectionAssumption
  PROVE  \A f \in FindingSpans : f.start \in 0..Length /\ f.end \in 0..Length /\ f.start < f.end
BY DEF FindingSpans

\* A finding is kept if it begins where the last one kept ends, or later.
LEMMA ChooseStep ==
  ASSUME DetectionAssumption, NEW K \in Seq(FindingSpans), NEW last_end \in Int, NEW f \in FindingSpans,
         Apart(K), Ends(K, last_end), \A g \in ToSet(K) : Before(g, f),
         NEW acc, acc = [kept |-> K, last_end |-> last_end]
  PROVE  /\ Choose(acc, f).kept \in {K, Append(K, f)}
         /\ Apart(Choose(acc, f).kept) /\ Ends(Choose(acc, f).kept, Choose(acc, f).last_end)
         /\ CoversStart(Choose(acc, f).kept, f)
         /\ ToSet(K) \subseteq ToSet(Choose(acc, f).kept)
<1>1. PICK n \in Nat : n = Len(K) /\ DOMAIN K = 1..n /\ \A i \in 1..n : K[i] \in FindingSpans
  OBVIOUS
<1>2. \A x \in FindingSpans : x.start \in Int /\ x.end \in Int /\ x.start < x.end
  <2>1. Length \in Nat
    BY DEF DetectionAssumption
  <2> QED BY <2>1, SpanType
<1>3. CASE f.start >= last_end
  <2>1. PICK L : L = Append(K, f)
    OBVIOUS
  <2>2. Choose(acc, f) = [kept |-> L, last_end |-> f.end]
    BY <1>3, <2>1 DEF Choose
  <2>3. /\ Len(L) = n + 1 /\ DOMAIN L = 1..(n + 1) /\ L[n + 1] = f
        /\ \A i \in 1..n : L[i] = K[i]
    BY <1>1, <2>1
  <2>4. L # <<>> /\ Ends(L, f.end)
    BY <2>1, <2>3 DEF Ends
  <2>5. f \in ToSet(L) /\ ToSet(K) \subseteq ToSet(L)
    <3>1. n + 1 \in DOMAIN L /\ \A i \in 1..n : i \in DOMAIN L
      BY <2>3
    <3> QED BY <1>1, <2>3, <3>1 DEF ToSet
  <2>6. CoversStart(L, f)
    BY <1>2, <2>5 DEF CoversStart
  <2>7. ASSUME NEW i \in 1..(n + 1), NEW j \in 1..(n + 1), i < j PROVE L[i].end <= L[j].start
    <3>1. i \in 1..n /\ L[i] = K[i]
      BY <2>3, <2>7
    <3>2. CASE j \in 1..n
      BY <1>1, <2>3, <2>7, <3>1, <3>2 DEF Apart
    <3>3. CASE j = n + 1
      <4>1. n \in 1..n /\ K # <<>>
        BY <1>1, <3>1
      <4>2. last_end = K[n].end
        BY <1>1, <4>1 DEF Ends
      <4>3. K[i] \in FindingSpans /\ K[n] \in FindingSpans
        BY <1>1, <3>1, <4>1
      <4>4. i = n \/ K[i].end <= K[n].start
        BY <1>1, <3>1, <4>1 DEF Apart
      <4>5. K[i].end <= last_end
        BY <1>2, <4>2, <4>3, <4>4
      <4> QED BY <1>2, <1>3, <2>3, <3>1, <3>3, <4>3, <4>5
    <3> QED BY <2>7, <3>2, <3>3
  <2>8. Apart(L)
    BY <2>3, <2>7 DEF Apart
  <2>9. Choose(acc, f).kept = L /\ Choose(acc, f).last_end = f.end
    BY <2>2
  <2> QED BY <2>1, <2>4, <2>5, <2>6, <2>8, <2>9
<1>4. CASE f.start < last_end
  <2>1. Choose(acc, f) = acc
    BY <1>2, <1>4 DEF Choose
  <2>2. K # <<>>
    <3>1. f.start \in 0..Length
      BY SpanType
    <3> QED BY <1>4, <3>1 DEF Ends
  <2>3. n \in 1..n
    BY <1>1, <2>2
  <2>4. K[n] \in ToSet(K) /\ last_end = K[n].end /\ K[n] \in FindingSpans
    BY <1>1, <2>2, <2>3 DEF ToSet, Ends
  <2>5. K[n].start <= f.start
    BY <1>2, <2>4 DEF Before
  <2>6. CoversStart(K, f)
    BY <1>4, <2>4, <2>5 DEF CoversStart
  <2> QED BY <2>1, <2>6
<1> QED BY <1>2, <1>3, <1>4

\* The findings that redact_text keeps, for any findings.
LEMMA KeptReference ==
  ASSUME DetectionAssumption, NEW F \in SUBSET FindingSpans
  PROVE  /\ Kept(F) \in Seq(F)
         /\ Apart(Kept(F))
         /\ \A f \in F : CoversStart(Kept(F), f)
<1>0. PICK n \in Nat : Sorts(Ordered(F), F, n)
  BY OrderedSorts
<1>1. PICK o : o = Ordered(F) /\ Sorts(o, F, n)
  BY <1>0
<1>2. o \in Seq(F) /\ Len(o) = n
  BY <1>1 DEF Sorts
<1> DEFINE First == [kept |-> <<>>, last_end |-> -1]
           A == [kept : Seq(F), last_end : Int]
<1>3. PICK g : g[0] = First /\ g[n] = Chosen(First, o) /\ \A k \in 1..n : g[k] = Choose(g[k - 1], o[k])
  <2>1. First \in A
    OBVIOUS
  <2>2. \A a \in A, f \in F : Choose(a, f) \in A
    <3> SUFFICES ASSUME NEW a \in A, NEW f \in F PROVE Choose(a, f) \in A
      OBVIOUS
    <3>1. Append(a.kept, f) \in Seq(F)
      OBVIOUS
    <3>2. f.end \in Int
      <4>1. Length \in Nat
        BY DEF DetectionAssumption
      <4> QED BY <4>1, SpanType
    <3> QED BY <3>1, <3>2 DEF Choose
  <2> HIDE DEF First, A
  <2>3. PICK g : /\ g[0] = First /\ g[Len(o)] = Chosen(First, o)
                 /\ \A k \in 1..Len(o) : g[k] = Choose(g[k - 1], o[k])
    BY <1>2, <2>1, <2>2, FoldChoose
  <2> QED BY <1>2, <2>3
<1> DEFINE S == {k \in 0..n :
             /\ g[k] = [kept |-> g[k].kept, last_end |-> g[k].last_end]
             /\ g[k].kept \in Seq(F) /\ g[k].last_end \in Int
             /\ Apart(g[k].kept) /\ Ends(g[k].kept, g[k].last_end)
             /\ ToSet(g[k].kept) \subseteq {o[i] : i \in 1..k}
             /\ \A i \in 1..k : CoversStart(g[k].kept, o[i])}
<1>4. 0 \in S
  <2>1. g[0] = First /\ First.kept = <<>> /\ First.last_end = -1
    BY <1>3
  <2>2. <<>> \in Seq(F) /\ Apart(<<>>) /\ Ends(<<>>, -1) /\ ToSet(<<>>) = {} /\ 1..0 = {} /\ 0 \in 0..n
    BY DEF Apart, Ends, ToSet
  <2>3. g[0].kept = <<>> /\ g[0].last_end = -1 /\ g[0] = [kept |-> g[0].kept, last_end |-> g[0].last_end]
    BY <2>1
  <2>4. \A i \in 1..0 : CoversStart(g[0].kept, o[i])
    BY <2>2
  <2> HIDE DEF First
  <2>5. g[0].kept \in Seq(F) /\ g[0].last_end \in Int
    BY <2>2, <2>3
  <2>6. Apart(g[0].kept) /\ Ends(g[0].kept, g[0].last_end)
    BY <2>2, <2>3
  <2>7. ToSet(g[0].kept) \subseteq {o[i] : i \in 1..0}
    BY <2>2, <2>3
  <2> QED BY <2>2, <2>3, <2>4, <2>5, <2>6, <2>7
<1>5. ASSUME NEW k \in 0..(n - 1), k \in S PROVE k + 1 \in S
  <2>0. k + 1 \in 1..n /\ (k + 1) - 1 = k /\ k + 1 \in 0..n
    OBVIOUS
  <2>1. PICK K, e : g[k] = [kept |-> K, last_end |-> e] /\ K = g[k].kept /\ e = g[k].last_end
    BY <1>5
  <2>2. /\ K \in Seq(F) /\ e \in Int /\ Apart(K) /\ Ends(K, e)
        /\ ToSet(K) \subseteq {o[i] : i \in 1..k}
        /\ \A i \in 1..k : CoversStart(K, o[i])
    BY <1>5, <2>1
  <2>3. PICK f \in F : f = o[k + 1]
    BY <1>1, <2>0 DEF Sorts
  <2>4. PICK new : new = Choose(g[k], f) /\ new = g[k + 1]
    BY <1>3, <2>0, <2>3
  <2>5. \A h \in ToSet(K) : Before(h, f)
    <3>1. \A i \in 1..k : i \in 1..n /\ i < k + 1
      BY <2>0
    <3>2. \A i \in 1..k : Before(o[i], f)
      BY <1>1, <2>0, <2>3, <3>1 DEF Sorts
    <3> QED BY <2>2, <3>2
  <2>6. /\ new.kept \in {K, Append(K, f)}
        /\ Apart(new.kept) /\ Ends(new.kept, new.last_end)
        /\ CoversStart(new.kept, f)
        /\ ToSet(K) \subseteq ToSet(new.kept)
    <3>1. K \in Seq(FindingSpans) /\ f \in FindingSpans
      BY <2>2
    <3> QED BY <2>1, <2>2, <2>4, <2>5, <3>1, ChooseStep
  <2>7. new \in A
    <3>1. Append(K, f) \in Seq(F)
      BY <2>2
    <3>2. f.end \in Int
      <4>1. Length \in Nat
        BY DEF DetectionAssumption
      <4> QED BY <4>1, SpanType
    <3> QED BY <2>1, <2>2, <2>4, <3>1, <3>2 DEF Choose
  <2>8. ToSet(new.kept) \subseteq {o[i] : i \in 1..(k + 1)}
    <3>1. 1..(k + 1) = 1..k \cup {k + 1}
      OBVIOUS
    <3>2. ToSet(Append(K, f)) = ToSet(K) \cup {f}
      <4>1. /\ DOMAIN K = 1..Len(K) /\ DOMAIN Append(K, f) = 1..(Len(K) + 1)
            /\ \A i \in 1..Len(K) : Append(K, f)[i] = K[i]
            /\ Append(K, f)[Len(K) + 1] = f
        BY <2>2
      <4>2. 1..(Len(K) + 1) = 1..Len(K) \cup {Len(K) + 1}
        BY <2>2
      <4> QED BY <4>1, <4>2 DEF ToSet
    <3>3. {o[i] : i \in 1..(k + 1)} = {o[i] : i \in 1..k} \cup {f}
      BY <2>3, <3>1
    <3> QED BY <2>2, <2>6, <3>2, <3>3
  <2>9. \A i \in 1..(k + 1) : CoversStart(new.kept, o[i])
    <3>1. 1..(k + 1) = 1..k \cup {k + 1}
      OBVIOUS
    <3>2. \A h : CoversStart(K, h) => CoversStart(new.kept, h)
      BY <2>6 DEF CoversStart
    <3> QED BY <2>2, <2>3, <2>6, <3>1, <3>2
  <2> QED BY <2>0, <2>4, <2>6, <2>7, <2>8, <2>9
<1>6. n \in S
  <2>1. \A k \in 0..n : k \in S
    <3> HIDE DEF S
    <3> QED BY <1>4, <1>5, Induction
  <2>2. n \in 0..n
    OBVIOUS
  <2> QED BY <2>1, <2>2, Zenon
<1>7. Kept(F) = g[n].kept
  BY <1>1, <1>3 DEF Kept, Chosen
<1> QED BY <1>1, <1>6, <1>7 DEF Sorts

----------------------------------------------------------------------------
(* What redact_text makes of the text *)

Substituted(base, s) == FoldLeft(Substitute, base, s)
RewritesInTurn(g, base, s) ==
  /\ g[0] = base /\ g[Len(s)] = Substituted(base, s)
  /\ \A k \in 1..Len(s) : g[k] = Substitute(g[k - 1], s[k])
Rewrites(A, E) == \A a \in A, e \in E : Substitute(a, e) \in A
\* The loop over kept findings from the right, one by one.
LEMMA FoldSubstitute ==
  ASSUME NEW E, NEW A, NEW base \in A, NEW s \in Seq(E),
         Rewrites(A, E)
  PROVE  \E g : RewritesInTurn(g, base, s)
<1>1. PICK n \in Nat : n = Len(s) /\ DOMAIN s = 1..n /\ \A i \in 1..n : s[i] \in E
  OBVIOUS
<1> DEFINE step == [x \in (1..n) \X A |-> Substitute(x[2], s[x[1]])]
<1>2. PICK f \in [SUBSET (1..n) -> A] : FoldsOver(f, n, base, step)
  <2>1. step \in [(1..n) \X A -> A]
    BY <1>1 DEF Rewrites
  <2> HIDE DEF step
  <2> QED BY <2>1, SubsetRecursion
<1>3. f = [x \in SUBSET (1..n) |-> IF x = {} THEN base ELSE Substitute(f[x \ {Max(x)}], s[Max(x)])]
  <2> SUFFICES ASSUME NEW x \in SUBSET (1..n), x # {} PROVE f[x] = Substitute(f[x \ {Max(x)}], s[Max(x)])
    BY <1>2 DEF FoldsOver
  <2>1. Max(x) \in 1..n /\ f[x \ {Max(x)}] \in A
    BY <1>1, MaxFinite
  <2> QED BY <1>2, <2>1 DEF FoldsOver
<1>4. PICK iter :
        /\ iter = [x \in SUBSET (1..n) |->
                     IF x = {} THEN base ELSE Substitute(iter[x \ {Max(x)}], s[Max(x)])]
        /\ Substituted(base, s) = iter[1..n]
  BY <1>1, <1>3 DEF Substituted, FoldLeft, MapThenFoldSet
<1>5. \A k \in 1..n : iter[1..k] = Substitute(iter[1..(k - 1)], s[k])
  BY <1>4, MaxPrefix
<1> DEFINE g == [k \in 0..n |-> iter[1..k]]
<1>6. g[n] = iter[1..n] /\ \A k \in 1..n : g[k] = Substitute(g[k - 1], s[k])
  BY <1>5
<1>7. 1..0 = {} /\ {} \in SUBSET (1..n)
  OBVIOUS
<1>8. g[0] = base
  <2>1. g[0] = iter[1..0]
    OBVIOUS
  <2> QED BY <1>4, <1>7, <2>1
<1> HIDE DEF g
<1> QED BY <1>1, <1>4, <1>6, <1>8 DEF RewritesInTurn

ReplacesOne(text, b, T, f, s, e) ==
  Substitute(SubSeq(text, 1, b) \o T, f) =
    (SubSeq(text, 1, s) \o <<Marker(f)>>) \o (SubSeq(text, e + 1, b) \o T)
\* One replacement rewrites its span and leaves the text before and after.
LEMMA SubstituteStep ==
  ASSUME NEW C, NEW text \in Seq(C), NEW L \in Nat, L = Len(text), NEW b \in 0..L, NEW T \in Seq(C),
         NEW s \in 0..L, NEW e \in 0..L, s < e, e <= b,
         NEW f, f.start = s, f.end = e, Marker(f) \in C
  PROVE  ReplacesOne(text, b, T, f, s, e)
<1>1. s \in Nat /\ e \in Nat /\ s = f.start /\ e = f.end /\ s < e /\ e <= b
  OBVIOUS
<1>2. PICK t \in Nat : t = Len(T)
  OBVIOUS
<1>3. PICK u : u = SubSeq(text, 1, b)
  OBVIOUS
<1>4. u \in Seq(C) /\ Len(u) = b /\ \A i \in 1..b : u[i] = text[i]
  BY <1>3
<1>5. PICK v : v = u \o T
  OBVIOUS
<1>6. /\ v \in Seq(C) /\ Len(v) = b + t
      /\ \A i \in 1..b : v[i] = text[i]
      /\ \A i \in (b + 1)..(b + t) : v[i] = T[i - b]
  <2>1. /\ v \in Seq(C) /\ Len(v) = b + t
        /\ \A i \in 1..(b + t) : v[i] = IF i <= b THEN u[i] ELSE T[i - b]
    BY <1>2, <1>4, <1>5, ConcatProperties
  <2> QED BY <1>2, <1>4, <2>1
<1>7. Min({s, Len(v)}) = s
  BY <1>1, <1>2, <1>6 DEF Min
<1>8. SubSeq(v, 1, s) = SubSeq(text, 1, s)
  BY <1>1, <1>2, <1>6
<1>9. SubSeq(v, e + 1, b + t) = SubSeq(text, e + 1, b) \o T
  <2>1. PICK x : x = SubSeq(text, e + 1, b)
    OBVIOUS
  <2>2. x \in Seq(C) /\ Len(x) = b - e /\ \A i \in 1..(b - e) : x[i] = text[e + i]
    BY <1>1, <2>1
  <2>3. PICK y : y = SubSeq(v, e + 1, b + t)
    OBVIOUS
  <2>4. y \in Seq(C) /\ Len(y) = b + t - e /\ \A i \in 1..(b + t - e) : y[i] = v[e + i]
    <3>1. PICK m \in Nat : m = b + t /\ e <= m /\ Len(v) = m
      BY <1>1, <1>2, <1>6
    <3>2. y = SubSeq(v, e + 1, m)
      BY <2>3, <3>1
    <3>3. y \in Seq(C) /\ Len(y) = m - e /\ \A i \in 1..(m - e) : y[i] = v[e + i]
      BY <1>6, <3>1, <3>2
    <3> QED BY <3>1, <3>3
  <2>5. PICK z : z = x \o T
    OBVIOUS
  <2>6. /\ z \in Seq(C) /\ Len(z) = b + t - e
        /\ \A i \in 1..(b - e) : z[i] = x[i]
        /\ \A i \in (b - e + 1)..(b + t - e) : z[i] = T[i - (b - e)]
    <3>1. PICK c \in Nat : c = b - e
      BY <1>1
    <3>2. /\ z \in Seq(C) /\ Len(z) = c + t
          /\ \A i \in 1..(c + t) : z[i] = IF i <= c THEN x[i] ELSE T[i - c]
      <4>1. Len(x) = c /\ Len(T) = t
        BY <1>2, <2>2, <3>1
      <4>2. /\ z \in Seq(C) /\ Len(z) = Len(x) + Len(T)
            /\ \A i \in 1..(Len(x) + Len(T)) : z[i] = IF i <= Len(x) THEN x[i] ELSE T[i - Len(x)]
        BY <2>2, <2>5, ConcatProperties
      <4> QED BY <4>1, <4>2
    <3>3. c + t = b + t - e /\ c <= c + t
      BY <1>1, <1>2, <3>1
    <3>4. /\ \A i \in 1..c : z[i] = x[i]
          /\ \A i \in (c + 1)..(c + t) : z[i] = T[i - c]
      BY <3>2
    <3> QED BY <3>1, <3>2, <3>3, <3>4
  <2>7. ASSUME NEW i \in 1..(b + t - e) PROVE y[i] = z[i]
    <3>1. y[i] = v[e + i]
      BY <2>4
    <3>2. CASE i \in 1..(b - e)
      <4>1. e + i \in 1..b
        BY <1>1, <3>2
      <4> QED BY <1>6, <2>2, <2>6, <3>1, <3>2, <4>1
    <3>3. CASE i \in (b - e + 1)..(b + t - e)
      <4>1. e + i \in (b + 1)..(b + t) /\ (e + i) - b = i - (b - e)
        <5>1. b \in Int /\ e \in Int /\ t \in Int /\ i \in Int
          BY <1>1, <1>2
        <5>2. b - e + 1 <= i /\ i <= b + t - e
          BY <3>3, <5>1
        <5> QED BY <5>1, <5>2
      <4> QED BY <1>6, <2>6, <3>1, <3>3, <4>1
    <3> QED BY <1>1, <3>2, <3>3
  <2>8. y = z
    BY <2>4, <2>6, <2>7, SeqEqual
  <2> QED BY <2>1, <2>3, <2>5, <2>8
<1>10. Substitute(v, f) = (SubSeq(text, 1, s) \o <<Marker(f)>>) \o (SubSeq(text, e + 1, b) \o T)
  BY <1>1, <1>6, <1>7, <1>8, <1>9 DEF Substitute
<1> QED BY <1>1, <1>3, <1>5, <1>10 DEF ReplacesOne

\* The pieces of a text from left to right, where pieces[p] replaces position p.
JoinsUp(X, pieces, C, L) ==
  X \in [0..L -> Seq(C)] /\ \A p \in 1..L : X[p] = X[p - 1] \o pieces[p]
Grows(X, a, b, s) == X[b] = X[a] \o s
Spared(pieces, text, a, b) == \A p \in (a + 1)..b : pieces[p] = <<text[p]>>
Dropped(pieces, a, b) == \A p \in (a + 2)..b : pieces[p] = <<>>

\* Where nothing is replaced, the pieces are the text.
LEMMA Untouched ==
  ASSUME NEW C, NEW text \in Seq(C), NEW L \in Nat, L = Len(text),
         NEW X, NEW pieces, JoinsUp(X, pieces, C, L),
         NEW a \in 0..L, NEW b \in a..L, Spared(pieces, text, a, b)
  PROVE  Grows(X, a, b, SubSeq(text, a + 1, b))
<1> USE DEF JoinsUp, Spared, Dropped
<1> DEFINE S == {k \in 0..(b - a) : X[a + k] = X[a] \o SubSeq(text, a + 1, a + k)}
<1>1. 0 \in S
  <2>1. SubSeq(text, a + 1, a) = <<>>
    OBVIOUS
  <2>2. X[a] \in Seq(C) /\ a + 0 = a /\ 0 \in 0..(b - a)
    OBVIOUS
  <2>3. X[a] \o <<>> = X[a]
    BY <2>2
  <2> QED BY <2>1, <2>2, <2>3
<1>2. ASSUME NEW k \in 0..(b - a - 1), k \in S PROVE k + 1 \in S
  <2>1. PICK p \in 1..L : p = a + k + 1
    OBVIOUS
  <2>2. /\ p \in (a + 1)..b /\ p - 1 = a + k /\ a + (k + 1) = p
        /\ k + 1 \in 0..(b - a) /\ a + 1 \in 1..L
    BY <2>1
  <2>3. X[p] = X[p - 1] \o <<text[p]>>
    BY <2>2
  <2>4. X[p - 1] = X[a] \o SubSeq(text, a + 1, p - 1)
    BY <1>2, <2>2
  <2>5. SubSeq(text, a + 1, p) = SubSeq(text, a + 1, p - 1) \o <<text[p]>>
    <3>1. a + 1 \in 1..Len(text) /\ p \in (a + 1)..Len(text)
      BY <2>2
    <3> QED BY <3>1, SubSeqRecursiveSecond
  <2>6. /\ X[a] \in Seq(C) /\ SubSeq(text, a + 1, p - 1) \in Seq(C) /\ <<text[p]>> \in Seq(C)
    <3>1. text[p] \in C
      BY <2>1
    <3> QED BY <2>2, <3>1
  <2>7. (X[a] \o SubSeq(text, a + 1, p - 1)) \o <<text[p]>> =
          X[a] \o (SubSeq(text, a + 1, p - 1) \o <<text[p]>>)
    BY <2>6, ConcatAssociative
  <2> QED BY <2>2, <2>3, <2>4, <2>5, <2>7
<1>3. b - a \in S
  <2>0. PICK m \in Nat : m = b - a
    OBVIOUS
  <2>1. \A k \in 0..m : k \in S
    <3>1. \A k \in 0..(m - 1) : k \in S => k + 1 \in S
      BY <1>2, <2>0
    <3> HIDE DEF S
    <3> QED BY <1>1, <3>1, Induction
  <2> HIDE DEF S
  <2> QED BY <2>0, <2>1
<1>4. a + (b - a) = b
  OBVIOUS
<1> QED BY <1>3, <1>4 DEF Grows

\* Where a span is replaced, they are its marker.
LEMMA Replaced ==
  ASSUME NEW C, NEW L \in Nat,
         NEW X, NEW pieces, JoinsUp(X, pieces, C, L),
         NEW a \in 0..L, NEW b \in (a + 1)..L, Dropped(pieces, a, b)
  PROVE  Grows(X, a, b, pieces[a + 1])
<1> USE DEF JoinsUp, Spared, Dropped
<1> DEFINE S == {k \in 0..(b - a - 1) : X[a + 1 + k] = X[a] \o pieces[a + 1]}
<1>1. 0 \in S
  <2>1. a + 1 \in 1..L /\ (a + 1) - 1 = a /\ a + 1 + 0 = a + 1 /\ 0 \in 0..(b - a - 1)
    OBVIOUS
  <2> QED BY <2>1
<1>2. ASSUME NEW k \in 0..(b - a - 2), k \in S PROVE k + 1 \in S
  <2>1. PICK p \in 1..L : p = a + k + 2
    OBVIOUS
  <2>2. /\ p \in (a + 2)..b /\ p - 1 = a + 1 + k /\ a + 1 + (k + 1) = p
        /\ k + 1 \in 0..(b - a - 1) /\ p - 1 \in 0..L
    BY <2>1
  <2>3. X[p] = X[p - 1] \o <<>> /\ X[p - 1] \in Seq(C)
    BY <2>2
  <2>4. X[p] = X[p - 1]
    BY <2>3
  <2> QED BY <1>2, <2>2, <2>4
<1>3. b - a - 1 \in S
  <2>0. PICK m \in Nat : m = b - a - 1 /\ m - 1 = b - a - 2
    OBVIOUS
  <2>1. \A k \in 0..m : k \in S
    <3>1. \A k \in 0..(m - 1) : k \in S => k + 1 \in S
      <4> HIDE DEF S
      <4> QED BY <1>2, <2>0
    <3> HIDE DEF S
    <3> QED BY <1>1, <3>1, Induction
  <2> HIDE DEF S
  <2> QED BY <2>0, <2>1
<1>4. a + 1 + (b - a - 1) = b
  OBVIOUS
<1> QED BY <1>3, <1>4 DEF Grows

Cells == {Char(p) : p \in 1..Length} \cup {Marker(f) : f \in FindingSpans}
Pieces(K) == [p \in 1..Length |-> Rewritten(ToSet(K), p)]
NextStart(K, i) == IF i = Len(K) THEN Length ELSE K[i + 1].start
EndOf(K, i) == IF i = 0 THEN 0 ELSE K[i].end

Regroups(a, b, c, d) ==
  /\ (a \o b) \o (c \o d) = a \o (b \o (c \o d))
  /\ ((a \o b) \o c) \o d = a \o (b \o (c \o d))
\* Joining up is associative.
LEMMA FourParts ==
  ASSUME NEW C, NEW a \in Seq(C), NEW b \in Seq(C), NEW c \in Seq(C), NEW d \in Seq(C)
  PROVE  Regroups(a, b, c, d) /\ b \o (c \o d) \in Seq(C)
<1>1. c \o d \in Seq(C) /\ a \o b \in Seq(C)
  OBVIOUS
<1>2. (a \o b) \o (c \o d) = a \o (b \o (c \o d))
  BY <1>1, ConcatAssociative
<1>3. ((a \o b) \o c) \o d = (a \o b) \o (c \o d)
  BY <1>1, ConcatAssociative
<1>4. b \o (c \o d) \in Seq(C)
  BY <1>1
<1> QED BY <1>2, <1>3, <1>4 DEF Regroups

Replaces(pieces, K, m) ==
  \A i \in 1..m :
    /\ pieces[K[i].start + 1] = <<Marker(K[i])>>
    /\ \A p \in (K[i].start + 2)..K[i].end : pieces[p] = <<>>
Spares(pieces, K, m, L) ==
  \A i \in 0..m :
    /\ EndOf(K, i) \in 0..L /\ NextStart(K, i) \in EndOf(K, i)..L
    /\ \A p \in (EndOf(K, i) + 1)..NextStart(K, i) : pieces[p] = <<Char(p)>>

\* The pieces are the markers of kept spans and, elsewhere, the text.
LEMMA PieceOfEach ==
  ASSUME DetectionAssumption, NEW K \in Seq(FindingSpans), Apart(K)
  PROVE  /\ Pieces(K) \in Seq(Seq(Cells)) /\ Len(Pieces(K)) = Length
         /\ Replaces(Pieces(K), K, Len(K)) /\ Spares(Pieces(K), K, Len(K), Length)
<1>1. Length \in Nat
  BY DEF DetectionAssumption
<1>2. PICK m \in Nat : m = Len(K) /\ DOMAIN K = 1..m /\ \A i \in 1..m : K[i] \in FindingSpans
  OBVIOUS
<1>3. \A i \in 1..m : K[i].start \in 0..Length /\ K[i].end \in 0..Length /\ K[i].start < K[i].end
  BY <1>2, SpanType
<1>4. \A i, j \in 1..m : i < j => K[i].end <= K[j].start
  BY <1>2 DEF Apart
<1>5. \A f : f \in ToSet(K) <=> \E i \in 1..m : f = K[i]
  BY <1>2 DEF ToSet
<1>6. ASSUME NEW i \in 1..m, NEW j \in 1..m, NEW p \in Int, Covers(K[i], p), Covers(K[j], p)
      PROVE  i = j
  <2>1. K[i].start < p /\ p <= K[i].end /\ K[j].start < p /\ p <= K[j].end
    BY <1>6 DEF Covers
  <2>2. /\ K[i].start \in Int /\ K[i].end \in Int
        /\ K[j].start \in Int /\ K[j].end \in Int
    BY <1>1, <1>3
  <2>3. ~(i < j) /\ ~(j < i)
    BY <1>4, <2>1, <2>2
  <2> QED BY <2>3
<1>7. ASSUME NEW p \in 1..Length, \A i \in 1..m : ~Covers(K[i], p)
      PROVE  Pieces(K)[p] = <<Char(p)>>
  BY <1>5, <1>7 DEF Pieces, Rewritten
<1>8. ASSUME NEW i \in 1..m, NEW p \in 1..Length, Covers(K[i], p)
      PROVE  Pieces(K)[p] = IF p = K[i].start + 1 THEN <<Marker(K[i])>> ELSE <<>>
  <2>1. K[i] \in ToSet(K) /\ \A f \in ToSet(K) : Covers(f, p) => f = K[i]
    BY <1>5, <1>6, <1>8
  <2>2. PICK c : c = CHOOSE f \in ToSet(K) : Covers(f, p)
    OBVIOUS
  <2>3. c = K[i]
    BY <1>8, <2>1, <2>2
  <2>4. Pieces(K)[p] = IF p = c.start + 1 THEN <<Marker(c)>> ELSE <<>>
    BY <1>8, <2>1, <2>2 DEF Pieces, Rewritten
  <2> QED BY <2>3, <2>4
<1>9. ASSUME NEW p \in 1..Length PROVE Pieces(K)[p] \in Seq(Cells)
  <2>1. CASE \A i \in 1..m : ~Covers(K[i], p)
    <3>1. Char(p) \in Cells
      BY DEF Cells
    <3>2. Pieces(K)[p] = <<Char(p)>>
      BY <1>7, <2>1
    <3>3. <<Char(p)>> \in Seq(Cells)
      BY <3>1
    <3> QED BY <3>2, <3>3
  <2>2. CASE \E i \in 1..m : Covers(K[i], p)
    <3>1. PICK i \in 1..m : Covers(K[i], p)
      BY <2>2
    <3>2. Marker(K[i]) \in Cells
      BY <1>2 DEF Cells
    <3>3. <<Marker(K[i])>> \in Seq(Cells) /\ <<>> \in Seq(Cells)
      BY <3>2
    <3> QED BY <1>8, <3>1, <3>3
  <2> QED BY <2>1, <2>2
<1>10. Pieces(K) \in Seq(Seq(Cells)) /\ Len(Pieces(K)) = Length
  <2>1. PICK Q, P : Q = Seq(Cells) /\ P = Pieces(K)
    OBVIOUS
  <2>2. P = [p \in 1..Length |-> P[p]]
    BY <2>1 DEF Pieces
  <2>3. \A p \in 1..Length : P[p] \in Q
    BY <1>9, <2>1
  <2>4. PICK n \in Nat : n = Length
    BY <1>1
  <2>5. P \in Seq(Q)
    <3>1. P = [p \in 1..n |-> Rewritten(ToSet(K), p)]
      BY <2>1, <2>4 DEF Pieces
    <3>2. \A p \in 1..n : Rewritten(ToSet(K), p) \in Q
      BY <2>3, <2>4, <3>1
    <3> QED BY <3>1, <3>2
  <2>6. DOMAIN P = 1..n
    BY <2>2, <2>4
  <2>7. Len(P) = n
    BY <2>5, <2>6
  <2> QED BY <2>1, <2>4, <2>5, <2>7
<1>11. ASSUME NEW i \in 1..m
       PROVE  /\ Pieces(K)[K[i].start + 1] = <<Marker(K[i])>>
              /\ \A p \in (K[i].start + 2)..K[i].end : Pieces(K)[p] = <<>>
  <2>1. PICK s \in 0..Length, e \in 0..Length : s = K[i].start /\ e = K[i].end /\ s < e
    BY <1>3
  <2>2. s + 1 \in 1..Length /\ Covers(K[i], s + 1)
    BY <1>1, <2>1 DEF Covers
  <2>3. \A p \in (s + 2)..e : p \in 1..Length /\ Covers(K[i], p) /\ p # s + 1
    BY <1>1, <2>1 DEF Covers
  <2> QED BY <1>8, <2>1, <2>2, <2>3
<1>12. ASSUME NEW i \in 0..m
       PROVE  /\ EndOf(K, i) \in 0..Length /\ NextStart(K, i) \in EndOf(K, i)..Length
              /\ \A p \in (EndOf(K, i) + 1)..NextStart(K, i) : Pieces(K)[p] = <<Char(p)>>
  <2>1. EndOf(K, i) \in 0..Length
    BY <1>1, <1>3 DEF EndOf
  <2>2. NextStart(K, i) \in 0..Length
    <3>1. i # m => i + 1 \in 1..m
      BY <1>2
    <3> QED BY <1>1, <1>2, <1>3, <3>1 DEF NextStart
  <2>3. EndOf(K, i) <= NextStart(K, i)
    <3>1. CASE i = 0
      BY <1>1, <2>2, <3>1 DEF EndOf
    <3>2. CASE i = m
      BY <1>1, <1>2, <2>1, <3>2 DEF NextStart
    <3>3. CASE i # 0 /\ i # m
      <4>1. i \in 1..m /\ i + 1 \in 1..m /\ i < i + 1
        BY <1>2, <3>3
      <4> QED BY <1>2, <1>4, <3>3, <4>1 DEF EndOf, NextStart
    <3> QED BY <3>1, <3>2, <3>3
  <2>4. PICK e \in 0..Length, b \in 0..Length : b \in e..Length /\ e = EndOf(K, i) /\ b = NextStart(K, i)
    BY <1>1, <2>1, <2>2, <2>3
  <2>5. ASSUME NEW p \in (e + 1)..b, NEW j \in 1..m PROVE ~Covers(K[j], p)
    <3>0. K[j].start \in Int /\ K[j].end \in Int /\ p \in Int /\ e \in Int /\ b \in Int
      BY <1>1, <1>3
    <3>1. CASE j <= i
      <4>1. K[j].end <= e
        <5>1. i \in 1..m /\ e = K[i].end
          BY <1>2, <2>4, <3>1 DEF EndOf
        <5>2. CASE j = i
          BY <3>0, <5>1, <5>2
        <5>3. CASE j < i
          <6>1. K[j].end <= K[i].start /\ K[i].start < K[i].end /\ K[i].start \in Int
            BY <1>1, <1>3, <1>4, <5>1, <5>3
          <6> QED BY <3>0, <5>1, <6>1
        <5> QED BY <3>1, <5>2, <5>3
      <4> QED BY <3>0, <4>1 DEF Covers
    <3>2. CASE i < j
      <4>1. b <= K[j].start
        <5>1. i + 1 \in 1..m /\ b = K[i + 1].start
          BY <1>2, <2>4, <3>2 DEF NextStart
        <5>2. CASE j = i + 1
          BY <3>0, <5>1, <5>2
        <5>3. CASE i + 1 < j
          <6>1. K[i + 1].end <= K[j].start /\ K[i + 1].start < K[i + 1].end /\ K[i + 1].end \in Int
            BY <1>1, <1>3, <1>4, <5>1, <5>3
          <6> QED BY <3>0, <5>1, <6>1
        <5> QED BY <3>2, <5>2, <5>3
      <4> QED BY <3>0, <4>1 DEF Covers
    <3> QED BY <3>1, <3>2
  <2>6. \A p \in (e + 1)..b : p \in 1..Length
    BY <1>1, <2>4
  <2>7. \A p \in (e + 1)..b : Pieces(K)[p] = <<Char(p)>>
    BY <1>7, <2>5, <2>6
  <2> QED BY <2>4, <2>7
<1> QED BY <1>2, <1>10, <1>11, <1>12 DEF Replaces, Spares

\* redact_text is the pieces joined up, for any findings: no replacement
\* moves or eats another.
LEMMA RedactReference ==
  ASSUME DetectionAssumption, NEW F \in SUBSET FindingSpans
  PROVE  redact_text(Text, F) = FlattenSeq(Pieces(Kept(F)))
<1>1. PICK L \in Nat : L = Length
  BY DEF DetectionAssumption
<1>2. PICK K \in Seq(FindingSpans) : K = Kept(F) /\ Apart(K)
  <2>1. Kept(F) \in Seq(F) /\ Apart(Kept(F))
    BY KeptReference
  <2> QED BY <2>1
<1>3. PICK m \in Nat : m = Len(K) /\ DOMAIN K = 1..m /\ \A i \in 1..m : K[i] \in FindingSpans
  OBVIOUS
<1>4. PICK pieces : pieces = Pieces(K)
  OBVIOUS
<1>5. /\ pieces \in Seq(Seq(Cells)) /\ Len(pieces) = L
      /\ Replaces(pieces, K, m) /\ Spares(pieces, K, m, L)
  <2>1. /\ Pieces(K) \in Seq(Seq(Cells)) /\ Len(Pieces(K)) = Length
        /\ Replaces(Pieces(K), K, Len(K)) /\ Spares(Pieces(K), K, Len(K), Length)
    BY <1>2, PieceOfEach
  <2> QED BY <1>1, <1>3, <1>4, <2>1
<1>6. PICK text \in Seq(Cells) : text = Text /\ Len(text) = L /\ \A p \in 1..L : text[p] = Char(p)
  <2>1. \A p \in 1..L : Char(p) \in Cells
    BY <1>1 DEF Cells
  <2>2. PICK text : text = Text
    OBVIOUS
  <2>3. text = [p \in 1..L |-> Char(p)]
    BY <1>1, <2>2 DEF Text
  <2>4. text \in Seq(Cells) /\ Len(text) = L /\ \A p \in 1..L : text[p] = Char(p)
    BY <2>1, <2>3
  <2> QED BY <2>2, <2>4
<1>7. PICK X \in [0..L -> Seq(Cells)] :
        X[0] = <<>> /\ X[L] = FlattenSeq(pieces) /\ \A p \in 1..L : X[p] = X[p - 1] \o pieces[p]
  <2>1. PICK X \in [0..Len(pieces) -> Seq(Cells)] :
          Flattens(X, pieces) /\ FlattenSeq(pieces) = X[Len(pieces)]
    BY <1>5, Flattening
  <2> QED BY <1>5, <2>1 DEF Flattens
<1>0. JoinsUp(X, pieces, Cells, L)
  BY <1>7 DEF JoinsUp
<1>8. PICK R : R = Reverse(K)
  OBVIOUS
<1>9. R \in Seq(FindingSpans) /\ Len(R) = m /\ \A j \in 1..m : R[j] = K[m + 1 - j]
  <2>1. R = [j \in 1..m |-> K[m - j + 1]]
    BY <1>3, <1>8 DEF Reverse
  <2>2. \A j \in 1..m : m - j + 1 \in 1..m /\ m - j + 1 = m + 1 - j
    OBVIOUS
  <2> QED BY <1>3, <2>1, <2>2
<1>10. PICK h : h[0] = text /\ h[m] = Substituted(text, R) /\ \A j \in 1..m : h[j] = Substitute(h[j - 1], R[j])
  <2>1. PICK Q : Q = Seq(Cells)
    OBVIOUS
  <2>2. text \in Q
    BY <2>1
  <2>3. Rewrites(Q, FindingSpans)
    <3> SUFFICES ASSUME NEW a \in Seq(Cells), NEW f \in FindingSpans PROVE Substitute(a, f) \in Seq(Cells)
      BY <2>1 DEF Rewrites
    <3>1. PICK s \in 0..L, e \in 0..L : s = f.start /\ e = f.end
      BY <1>1, SpanType
    <3>2. PICK n \in Nat : n = Len(a)
      OBVIOUS
    <3>3. PICK q \in Nat : q = Min({s, n}) /\ q <= n
      <4>1. s \in Int /\ n \in Int
        BY <3>2
      <4>2. Min({s, n}) = IF s <= n THEN s ELSE n
        BY <4>1 DEF Min
      <4> QED BY <3>2, <4>2
    <3>4. SubSeq(a, 1, q) \in Seq(Cells) /\ SubSeq(a, e + 1, n) \in Seq(Cells)
      <4>1. e \in Nat /\ \A p \in 1..n : a[p] \in Cells
        BY <3>2
      <4>2. \A p \in 1..q : a[p] \in Cells
        BY <3>2, <3>3, <4>1
      <4>3. \A p \in (e + 1)..n : a[p] \in Cells
        BY <4>1
      <4>4. SubSeq(a, 1, q) \in Seq(Cells)
        <5>1. 1 \in Int /\ q \in Int
          BY <3>3
        <5> QED BY <4>2, <5>1, SubSeqProperties
      <4>5. SubSeq(a, e + 1, n) \in Seq(Cells)
        <5>1. e + 1 \in Int /\ n \in Int
          BY <4>1
        <5> QED BY <4>3, <5>1, SubSeqProperties
      <4> QED BY <4>4, <4>5
    <3>5. <<Marker(f)>> \in Seq(Cells)
      BY DEF Cells
    <3>6. Substitute(a, f) = SubSeq(a, 1, q) \o <<Marker(f)>> \o SubSeq(a, e + 1, n)
      BY <3>1, <3>2, <3>3 DEF Substitute
    <3> QED BY <3>4, <3>5, <3>6
  <2>4. PICK h : RewritesInTurn(h, text, R)
    BY <1>9, <2>2, <2>3, FoldSubstitute
  <2> QED BY <1>9, <2>4 DEF RewritesInTurn
<1>11. redact_text(Text, F) = h[m]
  BY <1>2, <1>6, <1>8, <1>10 DEF redact_text, RightToLeft, Substituted
\* After j replacements what is left of the j-th span from the right is untouched,
\* and what follows is what the pieces there amount to.
<1> DEFINE B(j) == NextStart(K, m - j)
           S == {j \in 0..m : \E T \in Seq(Cells) :
                   h[j] = SubSeq(text, 1, B(j)) \o T /\ X[B(j)] \o T = X[L]}
<1>12. 0 \in S
  <2>1. B(0) = L /\ 0 \in 0..m
    BY <1>1, <1>3 DEF NextStart
  <2>2. SubSeq(text, 1, L) = text
    BY <1>6, SubSeqFull
  <2>3. text \o <<>> = text /\ X[L] \o <<>> = X[L] /\ <<>> \in Seq(Cells)
    <3>1. X[L] \in Seq(Cells)
      OBVIOUS
    <3> QED BY <3>1
  <2>4. h[0] = SubSeq(text, 1, B(0)) \o <<>> /\ X[B(0)] \o <<>> = X[L]
    BY <1>10, <2>1, <2>2, <2>3
  <2> QED BY <2>1, <2>3, <2>4
<1>13. ASSUME NEW j \in 0..(m - 1), j \in S PROVE j + 1 \in S
  <2>1. PICK T \in Seq(Cells) : h[j] = SubSeq(text, 1, B(j)) \o T /\ X[B(j)] \o T = X[L]
    BY <1>13
  <2>2. PICK i \in 1..m : i = m - j /\ i = m + 1 - (j + 1) /\ i - 1 = m - (j + 1)
    OBVIOUS
  <2>3. j + 1 \in 1..m /\ (j + 1) - 1 = j /\ j + 1 \in 0..m
    OBVIOUS
  <2>4. PICK f \in FindingSpans : f = K[i]
    BY <1>3
  <2>5. h[j + 1] = Substitute(h[j], f)
    BY <1>9, <1>10, <2>2, <2>3, <2>4
  <2>6. PICK s \in 0..L, e \in 0..L : s = f.start /\ e = f.end /\ s < e
    BY <1>1, SpanType
  <2>7. EndOf(K, i) = e
    BY <2>2, <2>4, <2>6 DEF EndOf
  <2>8. PICK b \in 0..L : b = B(j) /\ e <= b /\ \A p \in (e + 1)..b : pieces[p] = <<Char(p)>>
    <3>1. i \in 0..m
      OBVIOUS
    <3>2. /\ e \in 0..L /\ NextStart(K, i) \in e..L
          /\ \A p \in (e + 1)..NextStart(K, i) : pieces[p] = <<Char(p)>>
      BY <1>5, <2>7, <3>1 DEF Spares
    <3>3. B(j) = NextStart(K, i)
      BY <2>2
    <3> HIDE DEF B
    <3>4. B(j) \in 0..L /\ e <= B(j) /\ \A p \in (e + 1)..B(j) : pieces[p] = <<Char(p)>>
      <4>1. \A n \in e..L : n \in 0..L /\ e <= n
        BY <2>6
      <4> QED BY <3>2, <3>3, <4>1
    <3> QED BY <3>4
  <2>9. B(j + 1) = s
    <3>1. NextStart(K, i - 1) = K[(i - 1) + 1].start
      BY <1>3 DEF NextStart
    <3> QED BY <2>2, <2>4, <2>6, <3>1
  <2>10. h[j + 1] = (SubSeq(text, 1, s) \o <<Marker(f)>>) \o (SubSeq(text, e + 1, b) \o T)
    <3>1. Marker(f) \in Cells
      BY DEF Cells
    <3>2. Len(text) = L /\ f.start = s /\ f.end = e /\ s < e /\ e <= b
      BY <1>6, <2>6, <2>8
    <3>3. ReplacesOne(text, b, T, f, s, e)
      BY <3>1, <3>2, SubstituteStep
    <3> QED BY <2>1, <2>5, <2>8, <3>3 DEF ReplacesOne
  <2>11. X[b] = X[e] \o SubSeq(text, e + 1, b)
    <3>1. b \in e..L /\ Spared(pieces, text, e, b)
      <4>1. \A p \in (e + 1)..b : p \in 1..L
        BY <2>6, <2>8
      <4>2. \A p \in (e + 1)..b : pieces[p] = <<text[p]>>
        BY <1>6, <2>8, <4>1
      <4>3. b \in e..L
        BY <2>6, <2>8
      <4> QED BY <4>2, <4>3 DEF Spared
    <3>2. L = Len(text)
      BY <1>6
    <3>3. Grows(X, e, b, SubSeq(text, e + 1, b))
      BY <1>0, <3>1, <3>2, Untouched
    <3> QED BY <3>3 DEF Grows
  <2>12. X[e] = X[s] \o <<Marker(f)>>
    <3>0. pieces[s + 1] = <<Marker(f)>> /\ \A p \in (s + 2)..e : pieces[p] = <<>>
      BY <1>5, <2>4, <2>6 DEF Replaces
    <3>1. e \in (s + 1)..L /\ Dropped(pieces, s, e)
      BY <2>6, <3>0 DEF Dropped
    <3>2. Grows(X, s, e, pieces[s + 1])
      BY <1>0, <3>1, Replaced
    <3> QED BY <3>0, <3>2 DEF Grows
  <2>13. /\ X[s] \in Seq(Cells) /\ <<Marker(f)>> \in Seq(Cells)
         /\ SubSeq(text, 1, s) \in Seq(Cells) /\ SubSeq(text, e + 1, b) \in Seq(Cells)
    <3>1. Marker(f) \in Cells
      BY DEF Cells
    <3>2. SubSeq(text, 1, s) \in Seq(Cells)
      BY <1>6, <2>6
    <3>3. SubSeq(text, e + 1, b) \in Seq(Cells)
      BY <1>6, <2>6, <2>8
    <3> QED BY <2>6, <3>1, <3>2, <3>3
  <2>14. PICK v \in Seq(Cells) : v = SubSeq(text, e + 1, b)
    BY <2>13
  <2>15. PICK c \in Seq(Cells) : c = <<Marker(f)>>
    BY <2>13
  <2>16. PICK U : U = c \o (v \o T)
    OBVIOUS
  <2>17. U \in Seq(Cells) /\ h[j + 1] = SubSeq(text, 1, s) \o U
    <3>1. PICK a \in Seq(Cells) : a = SubSeq(text, 1, s)
      BY <2>13
    <3>2. Regroups(a, c, v, T) /\ c \o (v \o T) \in Seq(Cells)
      BY FourParts
    <3> QED BY <2>10, <2>14, <2>15, <2>16, <3>1, <3>2 DEF Regroups
  <2>18. X[s] \o U = X[L]
    <3>1. X[L] = ((X[s] \o c) \o v) \o T
      BY <2>1, <2>8, <2>11, <2>12, <2>14, <2>15
    <3>2. PICK a \in Seq(Cells) : a = X[s]
      BY <2>13
    <3>3. Regroups(a, c, v, T)
      BY FourParts
    <3> QED BY <2>16, <3>1, <3>2, <3>3 DEF Regroups
  <2> QED BY <2>3, <2>9, <2>17, <2>18
<1>14. m \in S
  <2>1. \A j \in 0..m : j \in S
    <3> HIDE DEF S
    <3> QED BY <1>12, <1>13, Induction
  <2>2. m \in 0..m
    OBVIOUS
  <2> QED BY <2>1, <2>2, Zenon
<1>15. PICK T \in Seq(Cells) : h[m] = SubSeq(text, 1, B(m)) \o T /\ X[B(m)] \o T = X[L]
  BY <1>14
<1>16. X[B(m)] = SubSeq(text, 1, B(m))
  <2>1. m - m = 0 /\ 0 \in 0..m /\ EndOf(K, 0) = 0
    BY DEF EndOf
  <2>2. PICK b \in 0..L : b = B(m) /\ \A p \in 1..b : pieces[p] = <<Char(p)>>
    <3>1. /\ NextStart(K, 0) \in 0..L
          /\ \A p \in (0 + 1)..NextStart(K, 0) : pieces[p] = <<Char(p)>>
      BY <1>5, <2>1 DEF Spares
    <3>2. B(m) = NextStart(K, 0) /\ 0 + 1 = 1
      BY <2>1
    <3> HIDE DEF B
    <3>3. B(m) \in 0..L /\ \A p \in 1..B(m) : pieces[p] = <<Char(p)>>
      BY <3>1, <3>2
    <3> QED BY <3>3
  <2>3. X[b] = X[0] \o SubSeq(text, 1, b)
    <3>0. \A p \in 1..b : text[p] = Char(p)
      BY <1>6
    <3>1. Spared(pieces, text, 0, b)
      BY <2>2, <3>0 DEF Spared
    <3>2. 0 \in 0..L /\ b \in 0..L /\ 0 + 1 = 1
      OBVIOUS
    <3>3. X[b] = X[0] \o SubSeq(text, 0 + 1, b)
      <4>1. L = Len(text) /\ b \in 0..L
        BY <1>6
      <4>2. Grows(X, 0, b, SubSeq(text, 0 + 1, b))
        BY <1>0, <3>1, <3>2, <4>1, Untouched
      <4> QED BY <4>2 DEF Grows
    <3> QED BY <3>2, <3>3
  <2>4. SubSeq(text, 1, b) \in Seq(Cells)
    BY <1>6
  <2> QED BY <1>7, <2>2, <2>3, <2>4
<1>17. h[m] = X[L]
  BY <1>15, <1>16
<1> QED BY <1>2, <1>4, <1>7, <1>11, <1>17

\* A character of a finding is left only behind a kept span that it sticks
\* out of.
LEMMA TailsReference ==
  ASSUME DetectionAssumption, NEW F \in SUBSET FindingSpans, NEW f \in F,
         NEW p \in (f.start + 1)..f.end,
         Char(p) \in ToSet(FlattenSeq(Pieces(Kept(F))))
  PROVE  \E g \in ToSet(Kept(F)) : g.start <= f.start /\ f.start < g.end /\ g.end < p
<1>1. PICK L \in Nat : L = Length
  BY DEF DetectionAssumption
<1>2. PICK K \in Seq(FindingSpans) : K = Kept(F) /\ Apart(K) /\ CoversStart(K, f)
  <2>1. Kept(F) \in Seq(F) /\ Apart(Kept(F)) /\ CoversStart(Kept(F), f)
    BY KeptReference
  <2> QED BY <2>1
<1>3. PICK pieces : pieces = Pieces(K)
  OBVIOUS
<1>4. pieces \in Seq(Seq(Cells)) /\ Len(pieces) = L
  <2>1. Pieces(K) \in Seq(Seq(Cells)) /\ Len(Pieces(K)) = Length
    BY <1>2, PieceOfEach
  <2> QED BY <1>1, <1>3, <2>1
<1>5. PICK q \in 1..L : Char(p) \in ToSet(pieces[q])
  <2>1. ToSet(FlattenSeq(pieces)) = UNION {ToSet(pieces[i]) : i \in 1..Len(pieces)}
    BY <1>4, FlattenElements
  <2> QED BY <1>2, <1>3, <1>4, <2>1
<1>6. pieces[q] = Rewritten(ToSet(K), q)
  BY <1>1, <1>3 DEF Pieces
<1>7. \A c : ToSet(<<c>>) = {c}
  BY DEF ToSet
<1>8. \A c : Char(p) # Marker(c)
  <2> SUFFICES ASSUME NEW c, Char(p) = Marker(c) PROVE FALSE
    OBVIOUS
  <2>1. DOMAIN Char(p) = {"char"} /\ DOMAIN Marker(c) = {"redacted"}
    BY DEF Char, Marker
  <2>2. "char" # "redacted"
    OBVIOUS
  <2> QED BY <2>1, <2>2
<1>9. \A c \in ToSet(K) : ~Covers(c, q)
  <2> SUFFICES ASSUME ~\A c \in ToSet(K) : ~Covers(c, q) PROVE FALSE
    OBVIOUS
  <2>1. PICK c : pieces[q] = IF q = c.start + 1 THEN <<Marker(c)>> ELSE <<>>
    BY <1>6 DEF Rewritten
  <2>2. ToSet(<<>>) = {}
    BY DEF ToSet
  <2> QED BY <1>5, <1>7, <1>8, <2>1, <2>2
<1>10. Char(p) = Char(q)
  <2>1. pieces[q] = <<Char(q)>>
    BY <1>6, <1>9 DEF Rewritten
  <2> QED BY <1>5, <1>7, <2>1
<1>11. p = q
  <2>1. Char(p).char = p /\ Char(q).char = q
    BY DEF Char
  <2> QED BY <1>10, <2>1
<1>12. PICK g \in ToSet(K) : g.start <= f.start /\ f.start < g.end
  BY <1>2 DEF CoversStart
<1>13. ~Covers(g, p)
  BY <1>9, <1>11
<1>14. g.start \in Int /\ g.end \in Int /\ f.start \in Int /\ f.end \in Int
  <2>1. g \in FindingSpans /\ f \in FindingSpans
    <3>1. DOMAIN K = 1..Len(K) /\ \A i \in 1..Len(K) : K[i] \in FindingSpans
      OBVIOUS
    <3> QED BY <3>1 DEF ToSet
  <2> QED BY <1>1, <2>1, SpanType
<1>15. g.end < p
  BY <1>12, <1>13, <1>14 DEF Covers
<1> QED BY <1>2, <1>12, <1>15

----------------------------------------------------------------------------
(* The calls *)

\* The short lists that inputs are made of are lists.
LEMMA ShortSeqs ==
  ASSUME NEW S, NEW n \in Nat, NEW r \in SeqsUpTo(S, n)
  PROVE  r \in Seq(S)
BY DEF SeqsUpTo

\* A payload is no object, or has a list of entries.
LEMMA DocumentType ==
  ASSUME DetectionAssumption, NEW doc \in Documents
  PROVE  \E rules \in Seq(Entries) :
           doc \in {NotJson, NotObject} \/ \E v \in {"blank", "given"}, l \in BOOLEAN : doc = Object(v, l, rules)
<1> DEFINE NoRules == Object("given", FALSE, <<>>)
           Given == {Object(v, TRUE, r) : v \in {"blank", "given"}, r \in SeqsUpTo(Entries, MaxRules)}
<1>1. doc \in {NotJson, NotObject, NoRules} \cup Given
  <2>1. Documents = {NotJson, NotObject, NoRules} \cup Given
    BY DEF Documents, Object
  <2> HIDE DEF NoRules, Given
  <2> QED BY <2>1
<1>2. ASSUME doc \in Given
      PROVE  \E rules \in Seq(Entries) :
               \E v \in {"blank", "given"}, l \in BOOLEAN : doc = Object(v, l, rules)
  <2>1. PICK v \in {"blank", "given"}, r \in SeqsUpTo(Entries, MaxRules) : doc = Object(v, TRUE, r)
    BY <1>2 DEF Object
  <2>2. MaxRules \in Nat
    BY DEF DetectionAssumption
  <2>3. r \in Seq(Entries)
    BY <2>2, ShortSeqs
  <2> QED BY <2>1, <2>3 DEF Object
<1>3. <<>> \in Seq(Entries)
  OBVIOUS
<1>4. CASE doc = NoRules
  BY <1>3, <1>4 DEF Object
<1> HIDE DEF NoRules, Given
<1> QED BY <1>1, <1>2, <1>3, <1>4

\* A number is a list of digits.
LEMMA NumberType ==
  ASSUME DetectionAssumption, NEW nums \in Numbers
  PROVE  nums \in Seq(0..9)
<1> DEFINE Long(n) == {[[k \in 1..n |-> 0] EXCEPT ![i] = d, ![j] = e] :
                        i \in 1..n, j \in 1..n, d \in Digits, e \in Digits}
<1>0. Numbers = UNION {Long(n) : n \in Lengths}
  BY DEF Numbers
<1>1. PICK n \in Lengths : nums \in Long(n)
  <2> HIDE DEF Long
  <2> QED BY <1>0
<1>2. PICK i \in 1..n, j \in 1..n, d \in Digits, e \in Digits :
        nums = [[k \in 1..n |-> 0] EXCEPT ![i] = d, ![j] = e]
  BY <1>1
<1>3. n \in Nat /\ d \in 0..9 /\ e \in 0..9
  BY DEF DetectionAssumption
<1>4. nums \in [1..n -> 0..9]
  <2>0. [k \in 1..n |-> 0] \in [1..n -> 0..9]
    OBVIOUS
  <2>1. PICK zeros \in [1..n -> 0..9] : zeros = [k \in 1..n |-> 0]
    BY <2>0
  <2>2. nums = [[zeros EXCEPT ![i] = d] EXCEPT ![j] = e]
    BY <1>2, <2>1
  <2>3. [zeros EXCEPT ![i] = d] \in [1..n -> 0..9]
    BY <1>3
  <2> QED BY <1>3, <2>2, <2>3
<1> QED BY <1>3, <1>4

\* What a rule hits is a list of values.
LEMMA HitsType ==
  ASSUME DetectionAssumption
  PROVE  Hits \subseteq Seq(Values)
<1> SUFFICES ASSUME NEW V \in SUBSET Values PROVE SetToSeq(V) \in Seq(Values)
  BY DEF Hits
<1>1. IsFiniteSet(V)
  BY FS_Subset DEF DetectionAssumption
<1>2. PICK n \in Nat : n = Cardinality(V) /\ ExistsBijection(1..n, V)
  BY <1>1, FS_CardinalityType
<1>3. PICK s \in [1..n -> V] : IsInjective(s)
  BY <1>2 DEF ExistsBijection, Bijection, Injection
<1>4. SetToSeq(V) \in [1..n -> V]
  BY <1>2, <1>3 DEF SetToSeq
<1> QED BY <1>4

\* Matches are findings of the rules of high severity in the text.
LEMMA MatchType ==
  ASSUME NEW matches \in MatchSets
  PROVE  Findings(matches) \in SUBSET FindingSpans
<1>1. PICK m \in [DOMAIN HighRules -> MatchesOfOne] : matches = UNION {Found(m[r], r) : r \in DOMAIN HighRules}
  BY DEF MatchSets
<1>2. ASSUME NEW f \in matches PROVE f \in FindingSpans
  <2>1. PICK r \in DOMAIN HighRules : f \in Found(m[r], r)
    BY <1>1
  <2>2. PICK s \in m[r] : f = [start |-> s.start, end |-> s.end, rule |-> r]
    BY <2>1 DEF Found
  <2>3. s \in Spans
    BY <1>1 DEF MatchesOfOne
  <2> QED BY <2>2, <2>3 DEF Spans, FindingSpans
<1> QED BY <1>2 DEF Findings

\* The call never changes, and its result, once there, is what the function
\* it names makes of its arguments.
Called ==
  \/ call \in [f : {"parse"}, doc : Documents]
  \/ call \in [f : {"luhn_valid"}, digits : Numbers]
  \/ \E rules \in Rulesets : call \in
       [f : {"scan"}, rules : {rules}, hits : [DOMAIN rules -> Hits], reported : Reports]
  \/ call \in [f : {"redact_text"}, matches : MatchSets]
Answered ==
  result # <<>> =>
    \/ call.f = "parse" /\ result = <<parse(call.doc)>>
    \/ call.f = "luhn_valid" /\ result = <<luhn_valid(call.digits)>>
    \/ call.f = "scan" /\ result = <<scan(call.rules, call.hits, call.reported)>>
    \/ call.f = "redact_text" /\ result = <<redact_text(Text, Findings(call.matches))>>
IInv == Called /\ Answered

(***************************************************************************)
(* A call never changes, and its result, once there, is what the function   *)
(* it names returns for its arguments.                                      *)
(***************************************************************************)
THEOREM CallInvariant == Spec => []IInv
<1>1. Init => IInv
  BY DEF Init, IInv, Called, Answered
<1>2. IInv /\ [Next]_vars => IInv'
  <2> SUFFICES ASSUME IInv, [Next]_vars PROVE IInv'
    OBVIOUS
  <2>1. CASE Parse
    BY <2>1 DEF IInv, Called, Answered, Parse, Returns
  <2>2. CASE Validate
    BY <2>2 DEF IInv, Called, Answered, Validate, Returns
  <2>3. CASE Scan
    BY <2>3 DEF IInv, Called, Answered, Scan, Returns
  <2>4. CASE Redact
    BY <2>4 DEF IInv, Called, Answered, Redact, Returns
  <2>5. CASE UNCHANGED vars
    BY <2>5 DEF IInv, Called, Answered, vars
  <2> QED BY <2>1, <2>2, <2>3, <2>4, <2>5 DEF Next
<1> QED BY <1>1, <1>2, PTL DEF Spec

(***************************************************************************)
(* A payload is compiled as a whole, in its order, or refused as a whole:   *)
(* one entry that is no sane rule, or one name that is there twice, refuses *)
(* all of it.                                                               *)
(***************************************************************************)
THEOREM ParseIsAllOrNothing == Spec => []AllOrNothing
<1>1. IInv => AllOrNothing
  <2> SUFFICES ASSUME IInv, Returned("parse") PROVE AllOrNothing
    BY DEF AllOrNothing
  <2>1. result = <<parse(call.doc)>> /\ call.doc \in Documents
    BY DEF IInv, Called, Answered, Returned
  <2>2. PICK doc \in Documents : doc = call.doc
    BY <2>1
  <2>3. PICK rules \in Seq(Entries) :
          doc \in {NotJson, NotObject} \/ \E v \in {"blank", "given"}, l \in BOOLEAN : doc = Object(v, l, rules)
    BY DetectionAssumption, DocumentType
  <2>4. parse(doc) = IF Sound(doc) THEN Compiled(doc.rules, Len(doc.rules)) ELSE PatternError
    BY <2>3, ParseReference
  <2>5. result[1] = parse(doc)
    BY <2>1, <2>2
  <2>6. CASE Sound(doc)
    <3>1. doc.rules = rules
      BY <2>3, <2>6 DEF Sound, NotJson, NotObject, Object
    <3>2. DOMAIN rules = 1..Len(rules)
      OBVIOUS
    <3>3. Compiled(rules, Len(rules)) # PatternError
      BY ErrorIsNoRecord DEF Compiled
    <3>4. Compiled(rules, Len(rules)).compiled = [i \in DOMAIN rules |-> Rule(rules[i])]
      BY <3>2 DEF Compiled, Record
    <3> QED BY <2>2, <2>4, <2>5, <2>6, <3>1, <3>3, <3>4 DEF AllOrNothing
  <2>7. CASE ~Sound(doc)
    BY <2>2, <2>4, <2>5, <2>7 DEF AllOrNothing
  <2> QED BY <2>6, <2>7
<1> QED BY <1>1, CallInvariant, PTL

(***************************************************************************)
(* A number of any 13 to 19 digits passes if every second digit from the    *)
(* right, doubled, and the others add up to a multiple of 10.               *)
(***************************************************************************)
THEOREM LuhnCounts == Spec => []LuhnCountsFromTheRight
<1>1. IInv => LuhnCountsFromTheRight
  <2> SUFFICES ASSUME IInv, Returned("luhn_valid") PROVE LuhnCountsFromTheRight
    BY DEF LuhnCountsFromTheRight
  <2>1. result = <<luhn_valid(call.digits)>> /\ call.digits \in Numbers
    BY DEF IInv, Called, Answered, Returned
  <2>2. luhn_valid(call.digits) <=>
          Len(call.digits) \in 13..19 /\ Total(Weighed(call.digits)) % 10 = 0
    BY <2>1, DetectionAssumption, NumberType, LuhnReference
  <2> QED BY <2>1, <2>2 DEF LuhnCountsFromTheRight, Total, Weighed
<1> QED BY <1>1, CallInvariant, PTL

(***************************************************************************)
(* The verdict blocks, warns or allows by the strongest rule that a hit     *)
(* confirms or report that survives, for any ruleset, hits and reports,     *)
(* however the duplicates among the findings are resolved.                  *)
(***************************************************************************)
THEOREM VerdictIsStrongest == Spec => []StrongestWins
<1>1. IInv => StrongestWins
  <2> SUFFICES ASSUME IInv, Returned("scan") PROVE StrongestWins
    BY DEF StrongestWins
  <2>1. result = <<scan(call.rules, call.hits, call.reported)>>
    BY DEF IInv, Called, Answered, Returned
  <2>2. /\ call.rules \in Rulesets /\ call.hits \in [DOMAIN call.rules -> Hits]
        /\ call.reported \in Reports
    BY DEF IInv, Called, Answered, Returned
  <2>3. call.rules \in Seq(RuleRecords) /\ call.reported \in Seq(ReportRecords)
    <3>1. MaxRules \in Nat
      BY DetectionAssumption DEF DetectionAssumption
    <3>2. call.rules \in SeqsUpTo(RuleRecords, MaxRules) /\ call.reported \in SeqsUpTo(ReportRecords, 1)
      BY <2>2 DEF Rulesets, Reports, RuleRecords, ReportRecords
    <3> QED BY <3>1, <3>2, ShortSeqs
  <2>4. call.hits \in [DOMAIN call.rules -> Seq(Values)]
    BY <2>2, DetectionAssumption, HitsType
  <2>5. scan(call.rules, call.hits, call.reported).action =
          IF Detects("high") THEN "block" ELSE IF Detects("low") THEN "warn" ELSE "allow"
    BY <2>3, <2>4, ScanReference
  <2> QED BY <2>1, <2>5 DEF StrongestWins
<1> QED BY <1>1, CallInvariant, PTL

\* What redact_text has returned, in terms of pieces.
LEMMA RedactedText ==
  ASSUME IInv, Returned("redact_text"), NEW F, F = Findings(call.matches)
  PROVE  /\ F \in SUBSET FindingSpans
         /\ result[1] = FlattenSeq(Pieces(Kept(F)))
<1>1. result = <<redact_text(Text, F)>> /\ call.matches \in MatchSets
  BY DEF IInv, Called, Answered, Returned
<1>2. F \in SUBSET FindingSpans
  BY <1>1, MatchType
<1>3. redact_text(Text, F) = FlattenSeq(Pieces(Kept(F)))
  BY <1>2, DetectionAssumption, RedactReference
<1> QED BY <1>1, <1>2, <1>3

(***************************************************************************)
(* Replacing the kept findings one by one, from the right, gives the text   *)
(* with all of them replaced at once, for any overlapping findings.         *)
(***************************************************************************)
THEOREM RewritingIsAsAWhole == Spec => []RewrittenAsAWhole
<1>1. IInv => RewrittenAsAWhole
  <2> SUFFICES ASSUME IInv, Returned("redact_text") PROVE RewrittenAsAWhole
    BY DEF RewrittenAsAWhole
  <2>1. PICK F : F = Findings(call.matches)
    OBVIOUS
  <2>2. result[1] = FlattenSeq(Pieces(Kept(F)))
    BY <2>1, RedactedText
  <2> QED BY <2>1, <2>2 DEF RewrittenAsAWhole, Pieces
<1> QED BY <1>1, CallInvariant, PTL

(***************************************************************************)
(* Of what a rule matched nothing is left in the redacted text, but for the *)
(* tail that sticks out of an earlier finding it overlaps.                  *)
(***************************************************************************)
THEOREM TailsSurvive == Spec => []OnlyTailsSurvive
<1>1. IInv => OnlyTailsSurvive
  <2>1. SUFFICES ASSUME IInv, Returned("redact_text"),
                        NEW f \in Findings(call.matches), NEW p \in (f.start + 1)..f.end,
                        Char(p) \in ToSet(result[1])
                 PROVE  \E g \in ToSet(Kept(Findings(call.matches))) :
                          g.start <= f.start /\ f.start < g.end /\ g.end < p
    BY DEF OnlyTailsSurvive
  <2>2. PICK F : F = Findings(call.matches)
    OBVIOUS
  <2>3. F \in SUBSET FindingSpans /\ result[1] = FlattenSeq(Pieces(Kept(F)))
    BY <2>1, <2>2, RedactedText
  <2>4. Char(p) \in ToSet(FlattenSeq(Pieces(Kept(F))))
    BY <2>1, <2>3
  <2>5. \E g \in ToSet(Kept(F)) : g.start <= f.start /\ f.start < g.end /\ g.end < p
    BY <2>2, <2>3, <2>4, DetectionAssumption, TailsReference
  <2> QED BY <2>2, <2>5
<1> QED BY <1>1, CallInvariant, PTL

===============================================================================
