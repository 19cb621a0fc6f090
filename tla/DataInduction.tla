--------------------------- MODULE DataInduction ---------------------------
(***************************************************************************)
(* Induction over the natural numbers, stated for a set in the place of a  *)
(* predicate: what the proofs about sequences and about functions defined  *)
(* by recursion rest on.                                                   *)
(***************************************************************************)
EXTENDS Integers, Sequences, WellFoundedInduction, TLAPS

\* A set of natural numbers that is not empty has a least element.
LEMMA Least ==
  ASSUME NEW T, T \subseteq Nat, T # {}
  PROVE  \E n \in T : \A m \in T : n <= m
<1>1. PICK x \in T : \A y \in T : ~(<<y, x>> \in OpToRel(<, Nat))
  BY WFMin, NatLessThanWellFounded
<1>2. \A y \in T : ~(y < x)
  BY <1>1 DEF OpToRel
<1> QED
  BY <1>2

\* A set that holds 0, and with every number its successor, holds them all.
LEMMA SetInduction ==
  ASSUME NEW S, 0 \in S, \A n \in Nat : n \in S => n + 1 \in S
  PROVE  Nat \subseteq S
<1> DEFINE T == {n \in Nat : n \notin S}
<1> SUFFICES ASSUME T # {} PROVE FALSE
  OBVIOUS
<1>1. PICK n \in T : \A m \in T : n <= m
  BY Least
<1>2. n # 0 /\ n - 1 \in Nat
  OBVIOUS
<1>3. n - 1 \in S
  BY <1>1, <1>2
<1> QED
  BY <1>2, <1>3

\* FlattenSeq is the last value of a function defined by recursion on its place: there
\* is such a function.
Flattens(seqs, f, n) ==
  f = [i \in 1 .. n |-> IF i = 1 THEN seqs[i] ELSE f[i - 1] \o seqs[i]]

LEMMA FlattensSome ==
  ASSUME NEW seqs, NEW n \in Nat
  PROVE  \E f : Flattens(seqs, f, n)
<1> DEFINE S == {k \in Nat : \E f : Flattens(seqs, f, k)}
<1>1. 0 \in S
  <2>1. Flattens(seqs, [i \in 1 .. 0 |-> 0], 0)
    BY DEF Flattens
  <2> QED  BY <2>1
<1>2. ASSUME NEW k \in Nat, k \in S
      PROVE  k + 1 \in S
  <2>1. PICK f : Flattens(seqs, f, k)
    BY <1>2
  <2> DEFINE g == [i \in 1 .. k + 1 |->
                     IF i = 1 THEN seqs[i] ELSE IF i <= k THEN f[i] ELSE f[k] \o seqs[i]]
  <2>2. \A i \in 1 .. k + 1 :
          g[i] = IF i = 1 THEN seqs[i] ELSE IF i <= k THEN f[i] ELSE f[k] \o seqs[i]
    OBVIOUS
  <2>3. g = [i \in 1 .. k + 1 |-> g[i]]
    OBVIOUS
  <2> HIDE DEF g
  <2>4. \A i \in 1 .. k :
          f[i] = IF i = 1 THEN seqs[i] ELSE f[i - 1] \o seqs[i]
    BY <2>1 DEF Flattens
  <2>5. \A i \in 1 .. k + 1 :
          g[i] = IF i = 1 THEN seqs[i] ELSE g[i - 1] \o seqs[i]
    <3>1. \A i \in 1 .. k : g[i] = f[i]
      <4>1. ASSUME NEW i \in 1 .. k
            PROVE  i \in 1 .. k + 1 /\ i <= k
        OBVIOUS
      <4> QED  BY <2>2, <2>4, <4>1
    <3>2. ASSUME NEW i \in 1 .. k + 1, i # 1
          PROVE  g[i] = g[i - 1] \o seqs[i]
      <4>1. i - 1 \in 1 .. k
        BY <3>2
      <4>2. g[i - 1] = f[i - 1]
        BY <3>1, <4>1
      <4>3. CASE i <= k
        <5>1. i \in 1 .. k
          BY <4>3
        <5>2. g[i] = f[i] /\ f[i] = f[i - 1] \o seqs[i]
          BY <2>4, <3>1, <3>2, <5>1
        <5> QED  BY <4>2, <5>2
      <4>4. CASE ~(i <= k)
        <5>1. g[i] = f[k] \o seqs[i]
          BY <2>2, <3>2, <4>4
        <5>2. i - 1 = k
          BY <3>2, <4>4
        <5> QED  BY <4>2, <5>1, <5>2
      <4> QED  BY <4>3, <4>4
    <3>3. g[1] = seqs[1]
      <4>1. 1 \in 1 .. k + 1
        OBVIOUS
      <4> QED  BY <2>2, <4>1
    <3> QED  BY <3>2, <3>3
  <2>6. Flattens(seqs, g, k + 1)
    BY <2>5, <2>3 DEF Flattens
  <2> QED  BY <2>6
<1> HIDE DEF S
<1>3. Nat \subseteq S
  BY <1>1, <1>2, SetInduction
<1> QED  BY <1>3 DEF S

\* A loop over the places 1 .. n is a function defined by recursion on the number of
\* rounds: there is such a function, if each round stays in the set of the states.
Iterates(step, start, f, n) ==
  f = [i \in 0 .. n |-> IF i = 0 THEN start ELSE step[<<f[i - 1], i>>]]

LEMMA IteratesSome ==
  ASSUME NEW X, NEW start \in X, NEW n \in Nat, NEW step \in [X \X (1 .. n) -> X]
  PROVE  \E f \in [0 .. n -> X] : Iterates(step, start, f, n)
<1> DEFINE S == {k \in Nat : k <= n => \E f \in [0 .. k -> X] : Iterates(step, start, f, k)}
<1>1. 0 \in S
  <2> DEFINE f == [i \in 0 .. 0 |-> start]
  <2>1. f \in [0 .. 0 -> X] /\ Iterates(step, start, f, 0)
    BY DEF Iterates
  <2> QED  BY <2>1
<1>2. ASSUME NEW k \in Nat, k \in S
      PROVE  k + 1 \in S
  <2> SUFFICES ASSUME k + 1 <= n
               PROVE  \E f \in [0 .. k + 1 -> X] : Iterates(step, start, f, k + 1)
    OBVIOUS
  <2>1. PICK f \in [0 .. k -> X] : Iterates(step, start, f, k)
    BY <1>2
  <2>2. f[k] \in X /\ <<f[k], k + 1>> \in X \X (1 .. n)
    OBVIOUS
  <2>3. step[<<f[k], k + 1>>] \in X
    BY <2>2
  <2> DEFINE g == [i \in 0 .. k + 1 |-> IF i <= k THEN f[i] ELSE step[<<f[k], k + 1>>]]
  <2>4. \A i \in 0 .. k : g[i] = f[i] /\ f[i] \in X
    OBVIOUS
  <2>5. g[k + 1] = step[<<f[k], k + 1>>] /\ g = [i \in 0 .. k + 1 |-> g[i]]
    OBVIOUS
  <2>6. g \in [0 .. k + 1 -> X]
    BY <2>3
  <2> HIDE DEF g
  <2>7. \A i \in 0 .. k : f[i] = IF i = 0 THEN start ELSE step[<<f[i - 1], i>>]
    BY <2>1 DEF Iterates
  <2>8. ASSUME NEW i \in 0 .. k + 1
        PROVE  g[i] = IF i = 0 THEN start ELSE step[<<g[i - 1], i>>]
    <3>1. CASE i <= k
      <4>1. i \in 0 .. k /\ (i # 0 => i - 1 \in 0 .. k)
        BY <3>1
      <4>2. g[i] = f[i] /\ (i # 0 => g[i - 1] = f[i - 1])
        BY <2>4, <4>1
      <4> QED  BY <2>7, <4>1, <4>2
    <3>2. CASE i = k + 1
      <4>1. i # 0 /\ i - 1 = k /\ k \in 0 .. k
        BY <3>2
      <4>2. g[k] = f[k]
        BY <2>4, <4>1
      <4> QED  BY <2>5, <3>2, <4>1, <4>2
    <3> QED  BY <3>1, <3>2
  <2>9. Iterates(step, start, g, k + 1)
    BY <2>5, <2>8 DEF Iterates
  <2> QED  BY <2>6, <2>9
<1> HIDE DEF S
<1>3. Nat \subseteq S
  BY <1>1, <1>2, SetInduction
<1> QED  BY <1>3 DEF S

\* The same for a loop whose rounds are all alike.
Loops(step, start, f, n) ==
  f = [i \in 0 .. n |-> IF i = 0 THEN start ELSE step[f[i - 1]]]

LEMMA LoopSome ==
  ASSUME NEW X, NEW start \in X, NEW n \in Nat, NEW step \in [X -> X]
  PROVE  \E f \in [0 .. n -> X] : Loops(step, start, f, n)
<1> DEFINE round == [p \in X \X (1 .. n) |-> step[p[1]]]
<1>1. round \in [X \X (1 .. n) -> X]
  OBVIOUS
<1>2. \A x \in X, i \in 1 .. n : round[<<x, i>>] = step[x]
  OBVIOUS
<1> HIDE DEF round
<1>3. PICK f \in [0 .. n -> X] : Iterates(round, start, f, n)
  BY <1>1, IteratesSome
<1>4. f = [i \in 0 .. n |-> IF i = 0 THEN start ELSE round[<<f[i - 1], i>>]]
  BY <1>3 DEF Iterates
<1>5. ASSUME NEW i \in 0 .. n, i # 0
      PROVE  round[<<f[i - 1], i>>] = step[f[i - 1]]
  <2>1. i \in 1 .. n /\ f[i - 1] \in X
    BY <1>5
  <2> QED  BY <1>2, <2>1
<1>6. \A i \in 0 .. n : f[i] = IF i = 0 THEN start ELSE step[f[i - 1]]
  BY <1>4, <1>5
<1>7. f = [i \in 0 .. n |-> f[i]]
  OBVIOUS
<1> QED
  BY <1>6, <1>7 DEF Loops

\* A function that looks ahead of the place it is at, and is known beyond n: there is
\* such a function.
Ahead(step, next, last, f, n) ==
  \A i \in DOMAIN f : f[i] = IF i <= n THEN step[<<i, f[next[i]]>>] ELSE last

\* There is such a function.
LEMMA AheadSome ==
  ASSUME NEW X, NEW last \in X, NEW n \in Nat, NEW m \in Nat, n <= m,
         NEW next \in [1 .. n -> 1 .. m], \A i \in 1 .. n : next[i] > i,
         NEW step \in [(1 .. n) \X X -> X]
  PROVE  \E f \in [1 .. m -> X] : Ahead(step, next, last, f, n)
<1> DEFINE Known(f, k) ==
             \A i \in 1 .. m : i > k => f[i] = IF i <= n THEN step[<<i, f[next[i]]>>] ELSE last
           S == {k \in Nat : k <= n => \E f \in [1 .. m -> X] : Known(f, n - k)}
<1>1. 0 \in S
  <2>1. [i \in 1 .. m |-> last] \in [1 .. m -> X]
    OBVIOUS
  <2>2. Known([i \in 1 .. m |-> last], n - 0)
    OBVIOUS
  <2> QED  BY <2>1, <2>2
<1>2. ASSUME NEW k \in Nat, k \in S
      PROVE  k + 1 \in S
  <2> SUFFICES ASSUME k + 1 <= n
               PROVE  \E f \in [1 .. m -> X] : Known(f, n - (k + 1))
    OBVIOUS
  <2> DEFINE p == n - k
  <2>1. p \in 1 .. n /\ p \in 1 .. m /\ n - (k + 1) = p - 1
    OBVIOUS
  <2>2. PICK f \in [1 .. m -> X] : Known(f, p)
    BY <1>2
  <2> HIDE DEF p
  <2> DEFINE g == [f EXCEPT ![p] = step[<<p, f[next[p]]>>]]
  <2>3. g \in [1 .. m -> X]
    <3>1. f[next[p]] \in X
      BY <2>1
    <3>2. step[<<p, f[next[p]]>>] \in X
      BY <2>1, <3>1
    <3> QED  BY <3>2
  <2>4. g[p] = step[<<p, f[next[p]]>>] /\ \A i \in 1 .. m : i # p => g[i] = f[i]
    BY <2>1
  <2> HIDE DEF g
  <2>5. ASSUME NEW i \in 1 .. m, i > p - 1
        PROVE  g[i] = IF i <= n THEN step[<<i, g[next[i]]>>] ELSE last
    <3>1. i <= n => next[i] \in 1 .. m /\ next[i] # p /\ g[next[i]] = f[next[i]]
      BY <2>1, <2>4, <2>5
    <3>2. CASE i = p
      BY <2>1, <2>4, <3>1, <3>2
    <3>3. CASE i # p
      <4>1. i > p
        BY <2>1, <2>5, <3>3
      <4>2. f[i] = IF i <= n THEN step[<<i, f[next[i]]>>] ELSE last
        BY <2>2, <4>1
      <4> QED  BY <2>4, <3>1, <3>3, <4>2
    <3> QED  BY <3>2, <3>3
  <2>6. Known(g, p - 1)
    BY <2>5
  <2> HIDE DEF Known
  <2> QED  BY <2>1, <2>3, <2>6
<1> HIDE DEF S
<1>3. Nat \subseteq S
  BY <1>1, <1>2, SetInduction
<1>4. PICK f \in [1 .. m -> X] : Known(f, n - n)
  BY <1>3 DEF S
<1>5. Ahead(step, next, last, f, n)
  BY <1>4 DEF Ahead
<1> QED  BY <1>5

\* Induction from the end.
LEMMA BackInduction ==
  ASSUME NEW n \in Nat, NEW S, \A i \in 1 .. n : (\A j \in i + 1 .. n : j \in S) => i \in S
  PROVE  1 .. n \subseteq S
<1> DEFINE T == {n - i : i \in (1 .. n) \ S}
<1>1. CASE T = {}
  BY <1>1
<1>2. CASE T # {}
  <2>1. T \subseteq Nat
    OBVIOUS
  <2>2. PICK t \in T : \A u \in T : t <= u
    BY <1>2, <2>1, Least
  <2>3. PICK i \in (1 .. n) \ S : t = n - i
    BY <2>2
  <2>4. ASSUME NEW j \in i + 1 .. n
        PROVE  j \in S
    <3>1. j \in 1 .. n
      BY <2>3
    <3>2. SUFFICES ASSUME j \notin S
                   PROVE  FALSE
      OBVIOUS
    <3>3. n - j \in T
      BY <3>1, <3>2
    <3>4. n - i <= n - j
      BY <2>2, <2>3, <3>3
    <3> QED  BY <2>3, <3>4
  <2> QED  BY <2>3, <2>4
<1> QED  BY <1>1, <1>2
=============================================================================
