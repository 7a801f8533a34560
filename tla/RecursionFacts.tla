--------------------------- MODULE RecursionFacts ---------------------------
(***************************************************************************)
(* Induction and recursion without operator parameters: facts about sets   *)
(* and functions that the proofs about recursive functions and about runs  *)
(* of a deterministic step function cite.                                  *)
(***************************************************************************)
EXTENDS FiniteSetsExt, Integers, WellFoundedInduction, TLAPS

-----------------------------------------------------------------------------
(* Natural numbers. *)

\* Every nonempty set of natural numbers has a least element.
LEMMA LeastNatural ==
  ASSUME NEW T, T \subseteq Nat, T # {}
  PROVE  \E x \in T : \A y \in T : x <= y
<1> DEFINE R == {ss \in Nat \X Nat : ss[1] < ss[2]}
<1>1. IsWellFoundedOn(R, Nat)
  BY NatLessThanWellFounded DEF OpToRel
<1>2. PICK x \in T : \A y \in T : <<y, x>> \notin R
  <2> HIDE DEF R
  <2> QED BY <1>1, WFMin
<1>3. \A y \in T : ~ (y < x)
  BY <1>2
<1> QED BY <1>3

\* Induction: a set with 0 that is closed under successors has all numbers.
LEMMA NaturalsInSet ==
  ASSUME NEW S, 0 \in S, \A n \in S \cap Nat : n + 1 \in S
  PROVE  Nat \subseteq S
<1> SUFFICES ASSUME Nat \ S # {} PROVE FALSE
  OBVIOUS
<1>1. PICK x \in Nat \ S : \A y \in Nat \ S : x <= y
  BY LeastNatural
<1>2. x - 1 \in Nat /\ ~ (x <= x - 1)
  OBVIOUS
<1>3. x - 1 \in S
  BY <1>1, <1>2
<1>4. (x - 1) + 1 = x
  OBVIOUS
<1> QED BY <1>2, <1>3, <1>4

-----------------------------------------------------------------------------
(* Recursive functions: what f[n \in 0 .. N] == IF n = 0 THEN start ELSE   *)
(* step[n][f[n - 1]] computes exists, and is a function into A.            *)

Steps(N, A) == [1 .. N -> [A -> A]]

Iterates(f, N, A, start, step) ==
  /\ f \in [0 .. N -> A]
  /\ f[0] = start
  /\ \A n \in 1 .. N : f[n] = step[n][f[n - 1]]

LEMMA IterationExists ==
  ASSUME NEW N \in Nat, NEW A, NEW start \in A, NEW step \in Steps(N, A)
  PROVE  \E f : Iterates(f, N, A, start, step)
<1> DEFINE Good(k, f) == Iterates(f, k, A, start, step)
           S == {k \in Nat : k <= N => \E f : Good(k, f)}
<1>1. step \in [1 .. N -> [A -> A]]
  BY DEF Steps
<1>2. 0 \in S
  <2>1. Good(0, [i \in 0 .. 0 |-> start])
    BY DEF Iterates
  <2> QED BY <2>1
<1>3. ASSUME NEW k \in S PROVE k + 1 \in S
  <2> SUFFICES ASSUME k + 1 <= N PROVE \E f : Good(k + 1, f)
    OBVIOUS
  <2>1. PICK f : Good(k, f)
    OBVIOUS
  <2>2. f \in [0 .. k -> A] /\ f[0] = start /\ \A n \in 1 .. k : f[n] = step[n][f[n - 1]]
    BY <2>1 DEF Iterates
  <2> DEFINE g == [n \in 0 .. k + 1 |-> IF n = k + 1 THEN step[k + 1][f[k]] ELSE f[n]]
  <2>3. step[k + 1][f[k]] \in A
    <3>1. f[k] \in A /\ k + 1 \in 1 .. N
      BY <2>2
    <3> QED BY <1>1, <3>1
  <2>4. g \in [0 .. k + 1 -> A] /\ g[0] = start
    BY <2>2, <2>3
  <2>5. ASSUME NEW n \in 1 .. k + 1
        PROVE  g[n] = step[n][g[n - 1]]
    <3>1. n - 1 \in 0 .. k /\ g[n - 1] = f[n - 1]
      OBVIOUS
    <3>2. CASE n = k + 1
      <4>1. g[n] = step[k + 1][f[k]] /\ n - 1 = k
        BY <3>2
      <4> QED BY <3>1, <3>2, <4>1
    <3>3. CASE n \in 1 .. k
      <4>1. g[n] = f[n]
        BY <3>3
      <4> HIDE DEF g
      <4> QED BY <2>2, <3>1, <3>3, <4>1
    <3> QED BY <3>2, <3>3
  <2> QED BY <2>4, <2>5 DEF Iterates
<1>4. N \in S
  <2> HIDE DEF S
  <2> QED BY <1>2, <1>3, NaturalsInSet
<1> QED BY <1>4

\* The values of an iteration, as the prover sees a recursive function.
LEMMA IterationValues ==
  ASSUME NEW N \in Nat, NEW A, NEW start, NEW step, NEW f, Iterates(f, N, A, start, step)
  PROVE  /\ f = [n \in 0 .. N |-> IF n = 0 THEN start ELSE step[n][f[n - 1]]]
         /\ \A n \in 0 .. N : f[n] \in A
         /\ \A n \in 1 .. N : n - 1 \in 0 .. N /\ f[n - 1] \in A
<1>1. f \in [0 .. N -> A] /\ f[0] = start /\ \A n \in 1 .. N : f[n] = step[n][f[n - 1]]
  BY DEF Iterates
<1>2. \A n \in 1 .. N : n - 1 \in 0 .. N
  OBVIOUS
<1> QED BY <1>1, <1>2

\* What holds at 0 and is kept by each step holds of every value.
LEMMA IterationInvariant ==
  ASSUME NEW N \in Nat, NEW A, NEW f, f[0] \in A,
         \A n \in 1 .. N : f[n - 1] \in A => f[n] \in A
  PROVE  \A n \in 0 .. N : f[n] \in A
<1> DEFINE S == {k \in Nat : k <= N => f[k] \in A}
<1>1. 0 \in S
  OBVIOUS
<1>2. ASSUME NEW k \in S PROVE k + 1 \in S
  <2> SUFFICES ASSUME k + 1 <= N PROVE f[k + 1] \in A
    OBVIOUS
  <2>1. k + 1 \in 1 .. N /\ (k + 1) - 1 = k /\ f[k] \in A
    OBVIOUS
  <2> QED BY <2>1
<1>3. Nat \subseteq S
  <2> HIDE DEF S
  <2> QED BY <1>1, <1>2, NaturalsInSet
<1> QED BY <1>3

-----------------------------------------------------------------------------
(* FoldLeft recurses over sets of positions and takes the largest first.   *)
(* G[i] is what the operator does to an accumulator at position i.         *)

LEMMA LargestPosition ==
  ASSUME NEW k \in Nat \ {0}
  PROVE  Max(1 .. k) = k /\ (1 .. k) \ {k} = 1 .. k - 1 /\ 1 .. k # {}
<1>1. k \in 1 .. k /\ \A y \in 1 .. k : k >= y
  OBVIOUS
<1>2. \A x \in 1 .. k : (\A y \in 1 .. k : x >= y) => x = k
  OBVIOUS
<1>3. Max(1 .. k) = k
  BY <1>1, <1>2 DEF Max
<1> QED BY <1>1, <1>3

LEMMA LargestInside ==
  ASSUME NEW n \in Nat, NEW T, T \subseteq 1 .. n, T # {}
  PROVE  \E x \in T : \A y \in T : x >= y
<1> DEFINE M == {n - x : x \in T}
<1>1. M \subseteq Nat /\ M # {}
  <2>1. \A x \in T : n - x \in Nat
    OBVIOUS
  <2>2. PICK x \in T : TRUE
    OBVIOUS
  <2> QED BY <2>1, <2>2
<1>2. PICK m \in M : \A y \in M : m <= y
  <2> HIDE DEF M
  <2> QED BY <1>1, LeastNatural
<1>3. PICK x \in T : m = n - x
  OBVIOUS
<1>4. \A y \in T : n - x <= n - y
  BY <1>2, <1>3
<1>5. \A y \in T : x >= y
  BY <1>4
<1> QED BY <1>5

FoldsBy(f, n, base, G) ==
  f = [s \in SUBSET (1 .. n) |->
         IF s = {} THEN base ELSE G[Max(s)][f[s \ {Max(s)}]]]

LEMMA FoldExists ==
  ASSUME NEW N \in Nat, NEW A, NEW base \in A, NEW G \in Steps(N, A)
  PROVE  \E f \in [SUBSET (1 .. N) -> A] : FoldsBy(f, N, base, G)
<1> DEFINE Good(n, f) == f \in [SUBSET (1 .. n) -> A] /\ FoldsBy(f, n, base, G)
           S == {n \in Nat : n <= N => \E f : Good(n, f)}
<1>1. G \in [1 .. N -> [A -> A]]
  BY DEF Steps
<1>2. 0 \in S
  <2> DEFINE f == [s \in SUBSET (1 .. 0) |-> base]
  <2>1. \A s \in SUBSET (1 .. 0) : s = {}
    OBVIOUS
  <2>2. Good(0, f)
    BY <2>1 DEF FoldsBy
  <2> QED BY <2>2
<1>3. ASSUME NEW n \in S PROVE n + 1 \in S
  <2> HIDE DEF Good
  <2> SUFFICES ASSUME n + 1 <= N PROVE \E f : Good(n + 1, f)
    OBVIOUS
  <2>1. PICK f : Good(n, f)
    OBVIOUS
  <2> USE DEF Good
  <2> DEFINE m == n + 1
             g == [s \in SUBSET (1 .. m) |->
                     IF m \in s THEN G[m][f[s \ {m}]] ELSE f[s]]
  <2>2. ASSUME NEW s \in SUBSET (1 .. m)
        PROVE  /\ m \in s => s \ {m} \in SUBSET (1 .. n) /\ s # {} /\ Max(s) = m
               /\ m \notin s => s \in SUBSET (1 .. n)
    <3>1. \A x \in 1 .. m : x = m \/ x \in 1 .. n
      OBVIOUS
    <3>2. ASSUME m \in s PROVE Max(s) = m
      <4>1. \A y \in s : m >= y
        OBVIOUS
      <4>2. \A x \in s : x >= m => x = m
        OBVIOUS
      <4> HIDE DEF m
      <4> QED BY <3>2, <4>1, <4>2 DEF Max
    <3> QED BY <3>1, <3>2
  <2>3. g \in [SUBSET (1 .. m) -> A]
    <3>1. m \in 1 .. N
      OBVIOUS
    <3>2. G[m] \in [A -> A]
      BY <1>1, <3>1
    <3> HIDE DEF m
    <3> QED BY <2>1, <2>2, <3>2
  <2>4. ASSUME NEW s \in SUBSET (1 .. m)
        PROVE  g[s] = IF s = {} THEN base ELSE G[Max(s)][g[s \ {Max(s)}]]
    <3>1. CASE m \in s
      <4>1. m \notin s \ {m} /\ s \ {m} \in SUBSET (1 .. m)
        OBVIOUS
      <4>2. g[s \ {m}] = f[s \ {m}]
        BY <4>1
      <4>3. g[s] = G[m][f[s \ {m}]]
        BY <3>1
      <4> HIDE DEF g, m
      <4> QED BY <2>2, <3>1, <4>2, <4>3
    <3>2. CASE m \notin s
      <4>1. s \in SUBSET (1 .. n) /\ g[s] = f[s]
        BY <2>2, <3>2
      <4>2. f[s] = IF s = {} THEN base ELSE G[Max(s)][f[s \ {Max(s)}]]
        BY <2>1, <4>1 DEF FoldsBy
      <4>3. g[s \ {Max(s)}] = f[s \ {Max(s)}]
        <5>1. m \notin s \ {Max(s)} /\ s \ {Max(s)} \in SUBSET (1 .. m)
          BY <3>2
        <5> QED BY <5>1
      <4> HIDE DEF g, m
      <4> QED BY <4>1, <4>2, <4>3
    <3> QED BY <3>1, <3>2
  <2>5. FoldsBy(g, m, base, G)
    <3> HIDE DEF g, m
    <3>1. g = [s \in SUBSET (1 .. m) |-> g[s]]
      BY <2>3
    <3> QED BY <2>4, <3>1 DEF FoldsBy
  <2> HIDE DEF g, m
  <2> QED BY <2>3, <2>5 DEF m
<1>4. N \in S
  <2> HIDE DEF S
  <2> QED BY <1>2, <1>3, NaturalsInSet
<1>5. \E f : Good(N, f)
  <2> HIDE DEF Good
  <2> QED BY <1>4
<1> QED BY <1>5

-----------------------------------------------------------------------------
(* Runs of a step function F: what is reachable from a start, and that a   *)
(* run has at most one end.                                                *)

ClosedUnder(F, C) == \A x \in C : F[x] \in C

Reachable(F, start) ==
  {m \in DOMAIN F : \A C \in SUBSET DOMAIN F : start \in C /\ ClosedUnder(F, C) => m \in C}

\* What holds at the start and after every step holds of all that is reachable.
LEMMA ReachableInvariant ==
  ASSUME NEW F, NEW start, NEW C, C \subseteq DOMAIN F, start \in C,
         \A x \in C : F[x] \in C
  PROVE  Reachable(F, start) \subseteq C
BY DEF Reachable, ClosedUnder

LEMMA ReachableStart ==
  ASSUME NEW F, NEW start \in DOMAIN F
  PROVE  start \in Reachable(F, start)
BY DEF Reachable

LEMMA ReachableStep ==
  ASSUME NEW F, \A x \in DOMAIN F : F[x] \in DOMAIN F, NEW start, NEW m \in Reachable(F, start)
  PROVE  F[m] \in Reachable(F, start)
BY DEF Reachable, ClosedUnder

\* A step function is deterministic: where a run ends is determined by where
\* it starts.
LEMMA UniqueEnd ==
  ASSUME NEW F, \A x \in DOMAIN F : F[x] \in DOMAIN F, NEW start \in DOMAIN F,
         NEW t \in Reachable(F, start), F[t] = t, NEW u \in Reachable(F, start), F[u] = u
  PROVE  t = u
<1> DEFINE R(m) == Reachable(F, m)
           C == {m \in R(start) : t \in R(m)}
<1>1. ASSUME NEW m \in DOMAIN F
      PROVE  R(m) \subseteq {m} \cup R(F[m])
  <2>1. \A x \in {m} \cup R(F[m]) : F[x] \in {m} \cup R(F[m])
    BY ReachableStart, ReachableStep
  <2>2. {m} \cup R(F[m]) \subseteq DOMAIN F
    BY DEF Reachable
  <2> HIDE DEF R
  <2>3. Reachable(F, m) \subseteq {m} \cup R(F[m])
    BY <2>1, <2>2, ReachableInvariant
  <2> QED BY <2>3 DEF R
<1>2. C \subseteq DOMAIN F /\ R(start) \subseteq DOMAIN F
  BY DEF Reachable
<1>3. start \in C
  BY ReachableStart
<1>4. ASSUME NEW m \in C
      PROVE  F[m] \in C
  <2>1. F[m] \in R(start)
    BY ReachableStep
  <2>2. t \in R(F[m])
    <3>1. CASE m = t
      BY <3>1
    <3>2. CASE m # t
      BY <1>1, <1>2, <3>2
    <3> QED BY <3>1, <3>2
  <2> QED BY <2>1, <2>2
<1>5. u \in C
  <2> HIDE DEF C
  <2>1. R(start) \subseteq C
    BY <1>2, <1>3, <1>4, ReachableInvariant
  <2> QED BY <2>1
<1>6. R(u) \subseteq {u}
  <2>1. {u} \subseteq DOMAIN F /\ \A x \in {u} : F[x] \in {u}
    BY <1>2
  <2> QED BY <2>1, ReachableInvariant
<1> QED BY <1>5, <1>6

\* What is reached last is reached from everything that is reached.
LEMMA ReachableEnd ==
  ASSUME NEW F, \A x \in DOMAIN F : F[x] \in DOMAIN F, NEW start \in DOMAIN F,
         NEW t \in Reachable(F, start), F[t] = t, NEW m \in Reachable(F, start)
  PROVE  t \in Reachable(F, m)
<1> DEFINE R(x) == Reachable(F, x)
           C == {x \in DOMAIN F : t \in R(x)}
<1>1. ASSUME NEW x \in DOMAIN F
      PROVE  R(x) \subseteq {x} \cup R(F[x])
  <2>1. \A y \in {x} \cup R(F[x]) : F[y] \in {x} \cup R(F[x])
    BY ReachableStart, ReachableStep
  <2>2. {x} \cup R(F[x]) \subseteq DOMAIN F
    BY DEF Reachable
  <2> HIDE DEF R
  <2>3. Reachable(F, x) \subseteq {x} \cup R(F[x])
    BY <2>1, <2>2, ReachableInvariant
  <2> QED BY <2>3 DEF R
<1>2. ASSUME NEW x \in C
      PROVE  F[x] \in C
  <2>1. CASE x = t
    BY <2>1
  <2>2. CASE x # t
    BY <1>1, <2>2
  <2> QED BY <2>1, <2>2
<1>3. start \in C
  OBVIOUS
<1>4. R(start) \subseteq C
  <2>1. C \subseteq DOMAIN F
    OBVIOUS
  <2> HIDE DEF C
  <2> QED BY <1>2, <1>3, <2>1, ReachableInvariant
<1> QED BY <1>4

=============================================================================
