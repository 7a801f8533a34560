---------------------- MODULE AssignmentStatementsProofs ----------------------
(***************************************************************************)
(* Theorems about assignment statements, for every width, every nesting of *)
(* operators and every depth of arrays.                                    *)
(*                                                                         *)
(* The generated code computes what its operators mean, and what the terms *)
(* of the converter mean.  The argument is one of whole numbers: a vector  *)
(* Holds a number of some width when its bits are the number modulo the    *)
(* power of the width, each operator of the runtime and of the term        *)
(* library holds the number the operator means, and what holds one number  *)
(* at one width is one vector.                                             *)
(*                                                                         *)
(* target_regions knows the bits a statement writes, of a literal target   *)
(* exactly, and what is written reads back: a path leads to the bits from  *)
(* its offset on, and the paths to different elements to disjoint ones.    *)
(***************************************************************************)
EXTENDS AssignmentStatements, RecursionFacts, FiniteSetTheorems, TLAPS

-----------------------------------------------------------------------------
(* Powers of two.                                                          *)

\* What the recursion of the exponential says, from the size of a powerset.
LEMMA PowerStep ==
  ASSUME NEW n \in Nat
  PROVE  2 ^ (n + 1) = 2 ^ n + 2 ^ n
<1> DEFINE S == 1 .. n
           T == 1 .. n + 1
           Low == SUBSET S
           High == {B \cup {n + 1} : B \in Low}
<1>1. IsFiniteSet(S) /\ Cardinality(S) = n /\ IsFiniteSet(T) /\ Cardinality(T) = n + 1
  <2>1. 1 \in Int /\ n \in Int /\ n + 1 \in Int
    OBVIOUS
  <2>2. \A a, b \in Int : IsFiniteSet(a .. b) /\ Cardinality(a .. b) = IF a > b THEN 0 ELSE b - a + 1
    BY FS_Interval
  <2> QED BY <2>1, <2>2
<1>2. IsFiniteSet(Low) /\ Cardinality(Low) = 2 ^ n /\ IsFiniteSet(SUBSET T) /\ Cardinality(SUBSET T) = 2 ^ (n + 1)
  <2> HIDE DEF S, T
  <2> QED BY <1>1, FS_SUBSET
<1>3. n + 1 \notin S /\ T = S \cup {n + 1}
  OBVIOUS
<1>4. SUBSET T = Low \cup High
  <2>1. ASSUME NEW B \in SUBSET T PROVE B \in Low \cup High
    <3>1. CASE n + 1 \in B
      <4>1. B \ {n + 1} \in Low /\ B = (B \ {n + 1}) \cup {n + 1}
        BY <1>3, <3>1
      <4> QED BY <4>1
    <3>2. CASE n + 1 \notin B
      BY <1>3, <3>2
    <3> QED BY <3>1, <3>2
  <2>2. Low \subseteq SUBSET T /\ High \subseteq SUBSET T
    BY <1>3
  <2> QED BY <2>1, <2>2
<1>5. Low \cap High = {}
  BY <1>3
<1>6. ExistsBijection(Low, High)
  <2> DEFINE f == [B \in Low |-> B \cup {n + 1}]
  <2>1. f \in [Low -> High]
    OBVIOUS
  <2>2. \A B, C \in Low : f[B] = f[C] => B = C
    <3> SUFFICES ASSUME NEW B \in Low, NEW C \in Low, f[B] = f[C] PROVE B = C
      OBVIOUS
    <3>1. B \cup {n + 1} = C \cup {n + 1}
      OBVIOUS
    <3>2. n + 1 \notin B /\ n + 1 \notin C
      BY <1>3
    <3> QED BY <3>1, <3>2
  <2>3. \A D \in High : \E B \in Low : f[B] = D
    OBVIOUS
  <2> HIDE DEF f
  <2>4. f \in Bijection(Low, High)
    BY <2>1, <2>2, <2>3 DEF Bijection, Injection, Surjection, IsInjective
  <2> QED BY <2>4 DEF ExistsBijection
<1> HIDE DEF Low, High, S, T
<1>7. IsFiniteSet(High) /\ Cardinality(High) = Cardinality(Low)
  BY <1>2, <1>6, FS_Bijection
<1>8. Cardinality(Low \cup High) = Cardinality(Low) + Cardinality(High) - Cardinality({})
  BY <1>2, <1>5, <1>7, FS_Union
<1>9. Cardinality({}) = 0
  BY FS_EmptySet
<1>10. Cardinality(Low) \in Nat
  BY <1>2, FS_CardinalityType
<1>11. Cardinality(SUBSET T) = Cardinality(Low) + Cardinality(Low)
  <2>1. Cardinality(SUBSET T) = Cardinality(Low) + Cardinality(Low) - 0
    BY ONLY <1>4, <1>7, <1>8, <1>9, Zenon
  <2>2. \A k \in Nat : k + k - 0 = k + k
    OBVIOUS
  <2> QED BY ONLY <1>10, <2>1, <2>2, Zenon
<1> QED BY ONLY <1>2, <1>11, Zenon

\* A power of two is positive.
LEMMA PowerPositive ==
  ASSUME NEW n \in Nat
  PROVE  2 ^ n \in Nat \ {0}
<1> DEFINE S == {k \in Nat : 2 ^ k \in Nat \ {0}}
<1>1. 0 \in S
  OBVIOUS
<1>2. \A k \in S \cap Nat : k + 1 \in S
  BY PowerStep
<1>3. Nat \subseteq S
  <2> HIDE DEF S
  <2> QED BY <1>1, <1>2, NaturalsInSet
<1> QED BY <1>3

\* The power of a sum is a product.
LEMMA PowerSum ==
  ASSUME NEW m \in Nat, NEW n \in Nat
  PROVE  2 ^ (m + n) = 2 ^ m * 2 ^ n
<1> DEFINE S == {k \in Nat : 2 ^ (m + k) = 2 ^ m * 2 ^ k}
<1>1. 0 \in S
  <2>1. 2 ^ m \in Nat
    BY PowerPositive
  <2> QED BY <2>1
<1>2. ASSUME NEW k \in S PROVE k + 1 \in S
  <2>1. 2 ^ m \in Nat /\ 2 ^ k \in Nat
    BY PowerPositive
  <2>2. 2 ^ (m + (k + 1)) = 2 ^ (m + k) + 2 ^ (m + k)
    <3>1. m + (k + 1) = (m + k) + 1 /\ m + k \in Nat
      OBVIOUS
    <3> QED BY <3>1, PowerStep
  <2>3. 2 ^ (k + 1) = 2 ^ k + 2 ^ k
    BY PowerStep
  <2>4. 2 ^ (m + k) = 2 ^ m * 2 ^ k
    OBVIOUS
  <2>5. \A a, b \in Nat : a * (b + b) = a * b + a * b
    OBVIOUS
  <2> QED BY <2>1, <2>2, <2>3, <2>4, <2>5
<1>3. Nat \subseteq S
  <2> HIDE DEF S
  <2> QED BY <1>1, <1>2, NaturalsInSet
<1> QED BY <1>3

-----------------------------------------------------------------------------
(* The number whose ones are at the places of a set, place by place.       *)

Weight(s, i) == IF i \in s THEN 2 ^ i ELSE 0

IsValue(g, w, s) ==
  /\ g \in [0 .. w -> Nat]
  /\ g[0] = 0
  /\ \A k \in 1 .. w : g[k] = g[k - 1] + Weight(s, k - 1)

Value(w, s) == (CHOOSE g : IsValue(g, w, s))[w]

\* A place is worth a natural number.
LEMMA WeightType ==
  ASSUME NEW s, NEW i \in Nat
  PROVE  Weight(s, i) \in Nat
BY PowerPositive DEF Weight

\* The number of a set of places is well defined.
LEMMA ValueExists ==
  ASSUME NEW w \in Nat, NEW s
  PROVE  \E g : IsValue(g, w, s) /\ Value(w, s) = g[w]
<1> DEFINE step == [k \in 1 .. w |-> [x \in Nat |-> x + Weight(s, k - 1)]]
<1>1. \A k \in 1 .. w : Weight(s, k - 1) \in Nat
  BY WeightType
<1>2. step \in Steps(w, Nat)
  BY <1>1 DEF Steps
<1>3. PICK g : Iterates(g, w, Nat, 0, step)
  <2> HIDE DEF step
  <2> QED BY <1>2, IterationExists
<1>4. ASSUME NEW k \in 1 .. w PROVE g[k] = g[k - 1] + Weight(s, k - 1)
  <2>1. g[k - 1] \in Nat /\ g[k] = step[k][g[k - 1]]
    <3> HIDE DEF step
    <3> QED BY <1>3 DEF Iterates
  <2> QED BY <2>1
<1>5. g \in [0 .. w -> Nat] /\ g[0] = 0
  BY <1>3 DEF Iterates
<1>6. IsValue(g, w, s)
  BY <1>4, <1>5 DEF IsValue
<1> QED BY <1>6 DEF Value

\* A number is determined place by place.
LEMMA ValueUnique ==
  ASSUME NEW w \in Nat, NEW s, NEW g, IsValue(g, w, s), NEW h, h[0] = 0,
         \A k \in 1 .. w : h[k] = h[k - 1] + Weight(s, k - 1)
  PROVE  \A k \in 0 .. w : h[k] = g[k]
<1> DEFINE S == {k \in Nat : k <= w => h[k] = g[k]}
<1>1. 0 \in S
  BY DEF IsValue
<1>2. ASSUME NEW k \in S PROVE k + 1 \in S
  <2> SUFFICES ASSUME k + 1 <= w PROVE h[k + 1] = g[k + 1]
    OBVIOUS
  <2>1. k + 1 \in 1 .. w /\ (k + 1) - 1 = k
    OBVIOUS
  <2> QED BY <2>1 DEF IsValue
<1>3. Nat \subseteq S
  <2> HIDE DEF S
  <2> QED BY <1>1, <1>2, NaturalsInSet
<1> QED BY <1>3

\* Taking one place out takes its power away.
LEMMA ValueRemove ==
  ASSUME NEW w \in Nat, NEW s, NEW x \in 0 .. w - 1, x \in s
  PROVE  Value(w, s) = 2 ^ x + Value(w, s \ {x})
<1>1. PICK g : IsValue(g, w, s) /\ Value(w, s) = g[w]
  BY ValueExists
<1>2. PICK h : IsValue(h, w, s \ {x}) /\ Value(w, s \ {x}) = h[w]
  BY ValueExists
<1> DEFINE More(k) == IF k > x THEN 2 ^ x ELSE 0
           f == [k \in 0 .. w |-> h[k] + More(k)]
<1>3. f[0] = 0
  BY <1>2 DEF IsValue
<1>4. 2 ^ x \in Nat
  BY PowerPositive
<1>5. ASSUME NEW k \in 1 .. w PROVE f[k] = f[k - 1] + Weight(s, k - 1)
  <2>1. h[k] = h[k - 1] + Weight(s \ {x}, k - 1) /\ h[k - 1] \in Nat /\ Weight(s \ {x}, k - 1) \in Nat
    <3>1. k - 1 \in 0 .. w /\ k - 1 \in Nat
      OBVIOUS
    <3>2. Weight(s \ {x}, k - 1) \in Nat
      BY <3>1, WeightType
    <3>3. h \in [0 .. w -> Nat] /\ h[k] = h[k - 1] + Weight(s \ {x}, k - 1)
      BY <1>2 DEF IsValue
    <3> QED BY ONLY <3>1, <3>2, <3>3
  <2>2. f[k] = h[k] + More(k) /\ f[k - 1] = h[k - 1] + More(k - 1)
    OBVIOUS
  <2>3. CASE k - 1 = x
    <3>1. Weight(s \ {x}, k - 1) = 0 /\ Weight(s, k - 1) = 2 ^ x /\ More(k) = 2 ^ x /\ More(k - 1) = 0
      BY <2>3 DEF Weight
    <3> HIDE DEF f, More
    <3> QED BY <1>4, <2>1, <2>2, <3>1
  <2>4. CASE k - 1 # x
    <3>1. Weight(s \ {x}, k - 1) = Weight(s, k - 1)
      BY <2>4 DEF Weight
    <3>2. More(k) = More(k - 1)
      BY <2>4
    <3>3. More(k) \in Nat
      BY <1>4
    <3> HIDE DEF f, More
    <3> QED BY <2>1, <2>2, <3>1, <3>2, <3>3
  <2> QED BY <2>3, <2>4
<1>6. f[w] = g[w]
  <2> HIDE DEF f
  <2> QED BY <1>1, <1>3, <1>5, ValueUnique
<1>7. h[w] \in Nat /\ f[w] = h[w] + 2 ^ x
  BY <1>2 DEF IsValue
<1> QED BY <1>1, <1>2, <1>4, <1>6, <1>7

\* No ones make zero.
LEMMA ValueEmpty ==
  ASSUME NEW w \in Nat
  PROVE  Value(w, {}) = 0
<1>1. PICK g : IsValue(g, w, {}) /\ Value(w, {}) = g[w]
  BY ValueExists
<1> DEFINE f == [k \in 0 .. w |-> 0]
<1>2. \A k \in 0 .. w : f[k] = g[k]
  <2>1. f[0] = 0 /\ \A k \in 1 .. w : f[k] = f[k - 1] + Weight({}, k - 1)
    BY DEF Weight
  <2> HIDE DEF f
  <2> QED BY <1>1, <2>1, ValueUnique
<1> QED BY <1>1, <1>2

\* The number of a set of places is natural.
LEMMA ValueType ==
  ASSUME NEW w \in Nat, NEW s
  PROVE  Value(w, s) \in Nat
BY ValueExists DEF IsValue

\* The sum of the powers, in whatever order they are added.
LEMMA SumIsValue ==
  ASSUME NEW w \in Nat, NEW s \in SUBSET (0 .. w - 1)
  PROVE  MapThenSumSet(LAMBDA i : 2 ^ i, s) = Value(w, s)
<1> DEFINE Adds(f) == f = [t \in SUBSET s |->
                             IF t = {} THEN 0
                             ELSE 2 ^ (CHOOSE x \in t : TRUE) + f[t \ {CHOOSE x \in t : TRUE}]]
           h == CHOOSE f : Adds(f)
<1>1. MapThenSumSet(LAMBDA i : 2 ^ i, s) = h[s]
  BY DEF MapThenSumSet, MapThenFoldSet
<1>2. ASSUME NEW t \in SUBSET s, t # {}
      PROVE  /\ (CHOOSE x \in t : TRUE) \in t
             /\ (CHOOSE x \in t : TRUE) \in 0 .. w - 1
             /\ t \ {CHOOSE x \in t : TRUE} \in SUBSET s
             /\ Value(w, t) = 2 ^ (CHOOSE x \in t : TRUE) + Value(w, t \ {CHOOSE x \in t : TRUE})
  <2>1. (CHOOSE x \in t : TRUE) \in t
    BY <1>2
  <2> DEFINE y == CHOOSE x \in t : TRUE
  <2>2. y \in t /\ y \in 0 .. w - 1
    BY <2>1
  <2> HIDE DEF y
  <2>3. Value(w, t) = 2 ^ y + Value(w, t \ {y})
    BY <2>2, ValueRemove
  <2> QED BY <2>2, <2>3 DEF y
<1>3. Adds([t \in SUBSET s |-> Value(w, t)])
  <2> DEFINE v == [t \in SUBSET s |-> Value(w, t)]
  <2>1. ASSUME NEW t \in SUBSET s
        PROVE  v[t] = IF t = {} THEN 0
                      ELSE 2 ^ (CHOOSE x \in t : TRUE) + v[t \ {CHOOSE x \in t : TRUE}]
    BY <1>2, ValueEmpty
  <2> HIDE DEF v
  <2>2. v = [t \in SUBSET s |-> v[t]]
    BY DEF v
  <2> QED BY <2>1, <2>2 DEF v
<1>4. Adds(h)
  <2> HIDE DEF Adds
  <2> QED BY <1>3
<1> HIDE DEF h
<1>5. \A t \in SUBSET s :
        h[t] = IF t = {} THEN 0
               ELSE 2 ^ (CHOOSE x \in t : TRUE) + h[t \ {CHOOSE x \in t : TRUE}]
  BY <1>4
<1> DEFINE Bad == {t \in SUBSET s : h[t] # Value(w, t)}
           Values_ == {Value(w, t) : t \in Bad}
<1>6. Bad = {}
  <2> SUFFICES ASSUME Bad # {} PROVE FALSE
    OBVIOUS
  <2>1. Values_ \subseteq Nat /\ Values_ # {}
    BY ValueType
  <2>2. PICK least \in Values_ : \A y \in Values_ : least <= y
    <3> HIDE DEF Values_
    <3> QED BY <2>1, LeastNatural
  <2>3. PICK t \in Bad : least = Value(w, t)
    OBVIOUS
  <2>4. t # {}
    BY <1>5, ValueEmpty
  <2> DEFINE y == CHOOSE x \in t : TRUE
  <2>5. /\ y \in Nat /\ t \ {y} \in SUBSET s
        /\ Value(w, t) = 2 ^ y + Value(w, t \ {y}) /\ h[t] = 2 ^ y + h[t \ {y}]
    <3>1. t \in SUBSET s
      OBVIOUS
    <3> HIDE DEF Bad
    <3>2. y \in t /\ y \in 0 .. w - 1 /\ t \ {y} \in SUBSET s
          /\ Value(w, t) = 2 ^ y + Value(w, t \ {y})
      BY <1>2, <2>4, <3>1
    <3>3. h[t] = 2 ^ y + h[t \ {y}]
      BY <1>5, <2>4, <3>1
    <3> QED BY <3>2, <3>3
  <2> HIDE DEF y
  <2>6. t \ {y} \in Bad
    BY <2>3, <2>5
  <2>7. Value(w, t) <= Value(w, t \ {y})
    BY <2>2, <2>3, <2>6
  <2>8. 2 ^ y \in Nat \ {0} /\ Value(w, t \ {y}) \in Nat
    BY <2>5, PowerPositive, ValueType
  <2> QED BY <2>5, <2>7, <2>8
<1> QED BY <1>1, <1>6

\* The places below k make a number below 2^k.
LEMMA ValueBelow ==
  ASSUME NEW w \in Nat, NEW s, NEW g, IsValue(g, w, s)
  PROVE  \A k \in 0 .. w : g[k] \in 0 .. 2 ^ k - 1
<1> DEFINE S == {k \in Nat : k <= w => g[k] \in 0 .. 2 ^ k - 1}
<1>1. 0 \in S
  BY DEF IsValue
<1>2. ASSUME NEW k \in S PROVE k + 1 \in S
  <2> SUFFICES ASSUME k + 1 <= w PROVE g[k + 1] \in 0 .. 2 ^ (k + 1) - 1
    OBVIOUS
  <2>1. k + 1 \in 1 .. w /\ (k + 1) - 1 = k
    OBVIOUS
  <2>2. g[k + 1] = g[k] + Weight(s, k) /\ g[k] \in 0 .. 2 ^ k - 1
    BY <2>1 DEF IsValue
  <2>3. 2 ^ (k + 1) = 2 ^ k + 2 ^ k /\ 2 ^ k \in Nat
    BY PowerStep, PowerPositive
  <2>4. Weight(s, k) = 0 \/ Weight(s, k) = 2 ^ k
    BY DEF Weight
  <2> QED BY <2>2, <2>3, <2>4
<1>3. Nat \subseteq S
  <2> HIDE DEF S
  <2> QED BY <1>1, <1>2, NaturalsInSet
<1> QED BY <1>3

\* Two numbers that differ by a multiple of 2^k.
Beyond(a, b, k) == \E q \in Nat : a = b + 2 ^ k * q

\* A place above k adds a multiple of 2^k.
LEMMA ValueAbove ==
  ASSUME NEW w \in Nat, NEW s, NEW g, IsValue(g, w, s), NEW k \in 0 .. w
  PROVE  \A i \in k .. w : Beyond(g[i], g[k], k)
<1> DEFINE S == {d \in Nat : k + d <= w => \E q \in Nat : g[k + d] = g[k] + 2 ^ k * q}
<1>1. 2 ^ k \in Nat /\ g[k] \in Nat
  BY PowerPositive DEF IsValue
<1>2. 0 \in S
  <2>1. g[k + 0] = g[k] + 2 ^ k * 0
    BY <1>1
  <2> QED BY <2>1
<1>3. ASSUME NEW d \in S PROVE d + 1 \in S
  <2> SUFFICES ASSUME k + (d + 1) <= w
               PROVE  \E q \in Nat : g[k + (d + 1)] = g[k] + 2 ^ k * q
    OBVIOUS
  <2>1. PICK q \in Nat : g[k + d] = g[k] + 2 ^ k * q
    OBVIOUS
  <2>2. g[k + (d + 1)] = g[k + d] + Weight(s, k + d)
    <3>1. k + (d + 1) \in 1 .. w /\ (k + (d + 1)) - 1 = k + d
      OBVIOUS
    <3> QED BY <3>1 DEF IsValue
  <2>3. CASE k + d \in s
    <3>1. Weight(s, k + d) = 2 ^ k * 2 ^ d
      BY <2>3, PowerSum DEF Weight
    <3>2. 2 ^ d \in Nat
      BY PowerPositive
    <3>3. g[k + (d + 1)] = g[k] + 2 ^ k * (q + 2 ^ d)
      BY <1>1, <2>1, <2>2, <3>1, <3>2
    <3>4. q + 2 ^ d \in Nat
      BY <3>2
    <3> HIDE DEF S
    <3> QED BY <3>3, <3>4
  <2>4. CASE k + d \notin s
    <3>1. Weight(s, k + d) = 0
      BY <2>4 DEF Weight
    <3>2. g[k + (d + 1)] = g[k] + 2 ^ k * q
      BY <1>1, <2>1, <2>2, <3>1
    <3> QED BY <3>2
  <2> QED BY <2>3, <2>4
<1>4. Nat \subseteq S
  <2> HIDE DEF S
  <2> QED BY <1>2, <1>3, NaturalsInSet
<1>5. ASSUME NEW i \in k .. w PROVE Beyond(g[i], g[k], k)
  <2>1. i - k \in Nat /\ k + (i - k) = i /\ i <= w
    OBVIOUS
  <2>2. i - k \in S
    BY <1>4, <2>1
  <2> QED BY <2>1, <2>2 DEF Beyond
<1> QED BY <1>5

\* Division with remainder, put together and taken apart.
LEMMA Division ==
  ASSUME NEW p \in Nat \ {0}, NEW r \in 0 .. p - 1, NEW q \in Int
  PROVE  (r + p * q) \div p = q /\ (r + p * q) % p = r
OBVIOUS

\* The digits of a number made of a set of places say which they are.
LEMMA ValueDigits ==
  ASSUME NEW w \in Nat, NEW s
  PROVE  /\ Value(w, s) \in 0 .. 2 ^ w - 1
         /\ \A i \in 0 .. w - 1 : Digit(Value(w, s), i) = 1 <=> i \in s
<1>1. PICK g : IsValue(g, w, s) /\ Value(w, s) = g[w]
  BY ValueExists
<1>2. Value(w, s) \in 0 .. 2 ^ w - 1
  BY <1>1, ValueBelow
<1>3. ASSUME NEW i \in 0 .. w - 1
      PROVE  Digit(Value(w, s), i) = 1 <=> i \in s
  <2> DEFINE b == IF i \in s THEN 1 ELSE 0
  <2>1. i \in 0 .. w /\ i + 1 \in 0 .. w /\ i + 1 \in 1 .. w /\ (i + 1) - 1 = i /\ w \in i + 1 .. w
    OBVIOUS
  <2>2. PICK q \in Nat : g[w] = g[i + 1] + 2 ^ (i + 1) * q
    <3>1. Beyond(g[w], g[i + 1], i + 1)
      BY <1>1, <2>1, ValueAbove
    <3> QED BY <3>1 DEF Beyond
  <2>3. g[i + 1] = g[i] + 2 ^ i * b
    <3>1. Weight(s, i) = 2 ^ i * b
      BY PowerPositive DEF Weight
    <3> QED BY <1>1, <2>1, <3>1 DEF IsValue
  <2>4. 2 ^ (i + 1) = 2 ^ i + 2 ^ i /\ 2 ^ i \in Nat \ {0}
    BY PowerStep, PowerPositive
  <2>5. g[i] \in 0 .. 2 ^ i - 1
    BY <1>1, <2>1, ValueBelow
  <2> HIDE DEF b
  <2>6. b \in {0, 1} /\ (b = 1 <=> i \in s)
    BY DEF b
  <2>7. g[w] = g[i] + 2 ^ i * (b + 2 * q)
    <3>1. \A p \in Nat, x \in Nat : x + p * b + (p + p) * q = x + p * (b + 2 * q)
      BY <2>6
    <3>2. g[w] = g[i] + 2 ^ i * b + (2 ^ i + 2 ^ i) * q
      BY <2>2, <2>3, <2>4
    <3> QED BY <2>4, <2>5, <3>1, <3>2
  <2>8. g[w] \div 2 ^ i = b + 2 * q
    <3>1. b + 2 * q \in Int
      BY <2>6
    <3> QED BY <2>4, <2>5, <2>7, <3>1, Division
  <2>9. (b + 2 * q) % 2 = b
    BY <2>6
  <2> QED BY <1>1, <2>6, <2>8, <2>9 DEF Digit
<1> QED BY <1>2, <1>3

\* Every number is made of some places.
LEMMA ValueOnto ==
  ASSUME NEW w \in Nat
  PROVE  \A n \in 0 .. 2 ^ w - 1 : \E s \in SUBSET (0 .. w - 1) : n = Value(w, s)
<1> DEFINE S == {k \in Nat : \A n \in 0 .. 2 ^ k - 1 : \E s \in SUBSET (0 .. k - 1) : n = Value(k, s)}
<1>1. 0 \in S
  <2>1. \A n \in 0 .. 2 ^ 0 - 1 : n = 0
    OBVIOUS
  <2>2. Value(0, {}) = 0
    BY ValueEmpty
  <2> QED BY <2>1, <2>2
<1>2. ASSUME NEW k \in S PROVE k + 1 \in S
  <2> SUFFICES ASSUME NEW n \in 0 .. 2 ^ (k + 1) - 1
               PROVE  \E s \in SUBSET (0 .. (k + 1) - 1) : n = Value(k + 1, s)
    OBVIOUS
  <2>1. 2 ^ (k + 1) = 2 ^ k + 2 ^ k /\ 2 ^ k \in Nat \ {0}
    BY PowerStep, PowerPositive
  <2>2. ASSUME NEW s \in SUBSET (0 .. k - 1)
        PROVE  /\ Value(k + 1, s) = Value(k, s)
               /\ Value(k + 1, s \cup {k}) = Value(k, s) + 2 ^ k
    <3>1. k \notin s /\ k \in 0 .. (k + 1) - 1
      OBVIOUS
    <3>2. PICK g : IsValue(g, k + 1, s) /\ Value(k + 1, s) = g[k + 1]
      BY ValueExists
    <3>3. PICK h : IsValue(h, k, s) /\ Value(k, s) = h[k]
      BY ValueExists
    <3>4. g[0] = 0 /\ \A j \in 1 .. k : g[j] = g[j - 1] + Weight(s, j - 1)
      BY <3>2 DEF IsValue
    <3>5. g[k] = h[k]
      BY <3>3, <3>4, ValueUnique
    <3>6. g[k + 1] = g[k] + Weight(s, k) /\ g[k] \in Nat
      <4>1. k + 1 \in 1 .. k + 1 /\ (k + 1) - 1 = k /\ k \in 0 .. k + 1
        OBVIOUS
      <4> QED BY <3>2, <4>1 DEF IsValue
    <3>7. Value(k + 1, s) = Value(k, s)
      <4>1. Weight(s, k) = 0
        BY <3>1 DEF Weight
      <4> QED BY <3>2, <3>3, <3>5, <3>6, <4>1
    <3>8. (s \cup {k}) \ {k} = s
      BY <3>1
    <3>9. Value(k + 1, s \cup {k}) = 2 ^ k + Value(k + 1, (s \cup {k}) \ {k})
      BY <3>1, ValueRemove
    <3>10. Value(k, s) \in Nat
      BY ValueType
    <3> QED BY <2>1, <3>7, <3>8, <3>9, <3>10
  <2>3. CASE n < 2 ^ k
    <3>1. n \in 0 .. 2 ^ k - 1
      BY <2>1, <2>3
    <3>2. PICK s \in SUBSET (0 .. k - 1) : n = Value(k, s)
      BY <3>1
    <3>3. s \in SUBSET (0 .. (k + 1) - 1)
      OBVIOUS
    <3> QED BY <2>2, <3>2, <3>3
  <2>4. CASE ~ (n < 2 ^ k)
    <3>1. n - 2 ^ k \in 0 .. 2 ^ k - 1
      BY <2>1, <2>4
    <3>2. PICK s \in SUBSET (0 .. k - 1) : n - 2 ^ k = Value(k, s)
      BY <3>1
    <3>3. s \cup {k} \in SUBSET (0 .. (k + 1) - 1)
      OBVIOUS
    <3>4. n = Value(k, s) + 2 ^ k
      BY <2>1, <3>2, ValueType
    <3> QED BY <2>2, <3>3, <3>4
  <2> QED BY <2>3, <2>4
<1>3. Nat \subseteq S
  <2> HIDE DEF S
  <2> QED BY <1>1, <1>2, NaturalsInSet
<1> QED BY <1>3

-----------------------------------------------------------------------------
(* Vectors.                                                                *)

VectorRecords == [width : Nat, bits : Nat]

\* Bits::from_fn makes a vector of just the bits it is asked for.
LEMMA FromFnBits ==
  ASSUME NEW w \in Nat, NEW s
  PROVE  /\ FromFn(w, s) \in VectorRecords
         /\ IsVector(FromFn(w, s))
         /\ FromFn(w, s).width = w
         /\ FromFn(w, s).bits = Value(w, s \cap 0 .. w - 1)
         /\ \A i \in Nat : BitSet(FromFn(w, s), i) <=> i \in s /\ i < w
         /\ Ones(FromFn(w, s)) = s \cap 0 .. w - 1
<1> DEFINE t == s \cap 0 .. w - 1
<1>1. FromFn(w, s) = [width |-> w, bits |-> Value(w, t)]
  BY SumIsValue DEF FromFn, Vector
<1>2. /\ Value(w, t) \in 0 .. 2 ^ w - 1
      /\ \A i \in 0 .. w - 1 : Digit(Value(w, t), i) = 1 <=> i \in t
  BY ValueDigits
<1>3. 2 ^ w \in Nat \ {0}
  BY PowerPositive
<1> DEFINE v == FromFn(w, s)
<1>4. v \in VectorRecords /\ v.width = w /\ v.bits = Value(w, t)
  BY <1>1, ValueType DEF VectorRecords
<1> HIDE DEF t, v
<1>5. IsVector(v)
  BY <1>2, <1>4 DEF IsVector
<1>6. \A i \in Nat : BitSet(v, i) <=> i \in s /\ i < w
  BY <1>2, <1>4 DEF BitSet, t
<1>7. Ones(v) = s \cap 0 .. w - 1
  BY <1>4, <1>6 DEF Ones
<1> QED BY <1>4, <1>5, <1>6, <1>7 DEF v, t

\* A vector is determined by its width and its bits.
LEMMA VectorIsItsBits ==
  ASSUME NEW v \in VectorRecords, IsVector(v)
  PROVE  v = FromFn(v.width, Ones(v))
<1>1. PICK s \in SUBSET (0 .. v.width - 1) : v.bits = Value(v.width, s)
  BY ValueOnto DEF IsVector
<1>2. Ones(v) = s
  <2>1. \A i \in 0 .. v.width - 1 : Digit(v.bits, i) = 1 <=> i \in s
    BY <1>1, ValueDigits DEF VectorRecords
  <2>2. \A i \in 0 .. v.width - 1 : i < v.width
    BY DEF VectorRecords
  <2>3. \A i \in 0 .. v.width - 1 : BitSet(v, i) <=> i \in s
    BY <2>1, <2>2 DEF BitSet
  <2> QED BY <2>3 DEF Ones
<1>3. s \cap 0 .. v.width - 1 = s
  OBVIOUS
<1>4. FromFn(v.width, s) \in VectorRecords /\ FromFn(v.width, s).width = v.width
      /\ FromFn(v.width, s).bits = v.bits
  BY <1>1, <1>3, FromFnBits DEF VectorRecords
<1> QED BY <1>2, <1>4 DEF VectorRecords

\* Two vectors of one width with the same ones are one.
LEMMA SameBits ==
  ASSUME NEW u \in VectorRecords, IsVector(u), NEW v \in VectorRecords, IsVector(v),
         u.width = v.width, Ones(u) = Ones(v)
  PROVE  u = v
<1>1. u = FromFn(u.width, Ones(u)) /\ v = FromFn(v.width, Ones(v))
  BY VectorIsItsBits
<1> QED BY <1>1, Zenon

-----------------------------------------------------------------------------
(* Division with remainder.                                                *)

\* Every integer is a remainder and a multiple of the divisor.
LEMMA QuotientExists ==
  ASSUME NEW d \in Nat \ {0}, NEW a \in Int
  PROVE  \E q \in Int, r \in 0 .. d - 1 : a = r + d * q
<1> DEFINE P(x) == \E q \in Int, r \in 0 .. d - 1 : x = r + d * q
           S == {n \in Nat : P(n) /\ P(- n)}
<1>1. ASSUME NEW x \in Int, P(x) PROVE P(x + 1) /\ P(x - 1)
  <2>1. PICK q \in Int, r \in 0 .. d - 1 : x = r + d * q
    BY <1>1
  <2>2. d * (q + 1) = d * q + d /\ d * (q - 1) = d * q - d
    OBVIOUS
  <2>3. P(x + 1)
    <3>1. CASE r + 1 \in 0 .. d - 1
      <4>1. x + 1 = (r + 1) + d * q
        BY <2>1
      <4> QED BY <3>1, <4>1
    <3>2. CASE r = d - 1
      <4>1. x + 1 = 0 + d * (q + 1) /\ 0 \in 0 .. d - 1 /\ q + 1 \in Int
        BY <2>1, <2>2, <3>2
      <4> QED BY <4>1
    <3> QED BY <3>1, <3>2
  <2>4. P(x - 1)
    <3>1. CASE r - 1 \in 0 .. d - 1
      <4>1. x - 1 = (r - 1) + d * q
        BY <2>1
      <4> QED BY <3>1, <4>1
    <3>2. CASE r = 0
      <4>1. x - 1 = (d - 1) + d * (q - 1) /\ d - 1 \in 0 .. d - 1 /\ q - 1 \in Int
        BY <2>1, <2>2, <3>2
      <4> QED BY <4>1
    <3> QED BY <3>1, <3>2
  <2> QED BY <2>3, <2>4
<1>2. P(0)
  <2>1. 0 = 0 + d * 0 /\ 0 \in 0 .. d - 1 /\ 0 \in Int
    OBVIOUS
  <2> QED BY <2>1
<1> HIDE DEF P
<1>3. 0 \in S
  BY <1>2
<1>4. ASSUME NEW n \in S PROVE n + 1 \in S
  <2>1. P(n) /\ P(- n) /\ n \in Int /\ - n \in Int
    OBVIOUS
  <2>2. P(n + 1) /\ P((- n) - 1)
    BY <1>1, <2>1
  <2>3. (- n) - 1 = - (n + 1)
    OBVIOUS
  <2> QED BY <2>2, <2>3
<1>5. Nat \subseteq S
  <2> HIDE DEF S
  <2> QED BY <1>3, <1>4, NaturalsInSet
<1>6. P(a)
  <2>1. CASE a \in Nat
    BY <1>5, <2>1
  <2>2. CASE a \notin Nat
    <3>1. - a \in Nat /\ - (- a) = a
      BY <2>2
    <3> QED BY <1>5, <3>1
  <2> QED BY <2>1, <2>2
<1> QED BY <1>6 DEF P

\* \div and % are that quotient and that remainder.
LEMMA DivMod ==
  ASSUME NEW a \in Int, NEW d \in Nat \ {0}
  PROVE  /\ a \div d \in Int /\ a % d \in 0 .. d - 1
         /\ a = (a % d) + d * (a \div d)
<1>1. PICK q \in Int, r \in 0 .. d - 1 : a = r + d * q
  BY QuotientExists
<1>2. a \div d = q /\ a % d = r
  BY <1>1, Division
<1> QED BY <1>1, <1>2

\* A quotient and a remainder are the only ones.
LEMMA DivisionOf ==
  ASSUME NEW p \in Nat \ {0}, NEW r \in 0 .. p - 1, NEW q \in Int, NEW a, a = r + p * q
  PROVE  a \div p = q /\ a % p = r
BY Division

\* A number below the divisor is its own remainder.
LEMMA ModSmall ==
  ASSUME NEW d \in Nat \ {0}, NEW a \in 0 .. d - 1
  PROVE  a % d = a
<1>1. a = a + d * 0
  OBVIOUS
<1> QED BY <1>1, DivisionOf

\* Equal up to a multiple of m.
Congruent(a, b, m) == \E k \in Int : a = b + m * k

\* Two numbers are congruent when their remainders are equal.
LEMMA CongruentMod ==
  ASSUME NEW m \in Nat \ {0}, NEW a \in Int, NEW b \in Int
  PROVE  Congruent(a, b, m) <=> a % m = b % m
<1>1. ASSUME Congruent(a, b, m) PROVE a % m = b % m
  <2>1. PICK k \in Int : a = b + m * k
    BY <1>1 DEF Congruent
  <2>2. b = (b % m) + m * (b \div m) /\ b % m \in 0 .. m - 1 /\ b \div m \in Int
    BY DivMod
  <2> DEFINE r == b % m
             q == b \div m
  <2>3. m * (q + k) = m * q + m * k /\ q + k \in Int
    BY <2>2
  <2> HIDE DEF r, q
  <2>4. a = r + m * (q + k) /\ r \in 0 .. m - 1 /\ q + k \in Int
    BY <2>1, <2>2, <2>3 DEF r, q
  <2>5. a % m = r
    BY <2>4, DivisionOf
  <2> QED BY <2>5 DEF r
<1>2. ASSUME a % m = b % m PROVE Congruent(a, b, m)
  <2>1. /\ a = (a % m) + m * (a \div m) /\ a \div m \in Int /\ a % m \in Int
        /\ b = (b % m) + m * (b \div m) /\ b \div m \in Int
    BY DivMod
  <2>2. PICK r \in Int, x \in Int, y \in Int :
          r = a % m /\ x = a \div m /\ y = b \div m /\ a = r + m * x /\ b = r + m * y
    BY <1>2, <2>1
  <2>3. m * (x - y) = m * x - m * y
    OBVIOUS
  <2>4. a = b + m * (x - y) /\ x - y \in Int
    BY <2>2, <2>3
  <2> QED BY <2>4 DEF Congruent
<1> QED BY <1>1, <1>2

\* A number is congruent to itself and to its remainder.
LEMMA CongruentSelf ==
  ASSUME NEW m \in Nat \ {0}, NEW a \in Int
  PROVE  Congruent(a % m, a, m) /\ Congruent(a, a, m) /\ a % m \in Int /\ a % m \in 0 .. m - 1
<1>1. a % m \in 0 .. m - 1 /\ a % m \in Int
  BY DivMod
<1>2. (a % m) % m = a % m
  BY <1>1, ModSmall
<1> QED BY <1>1, <1>2, CongruentMod

\* Sums, differences and products keep congruence: what wraps around may wrap
\* at any step.
LEMMA CongruentSum ==
  ASSUME NEW m \in Nat \ {0}, NEW a \in Int, NEW b \in Int, NEW c \in Int, NEW d \in Int,
         Congruent(a, b, m), Congruent(c, d, m)
  PROVE  Congruent(a + c, b + d, m) /\ Congruent(a - c, b - d, m) /\ Congruent(a * c, b * d, m)
<1>1. PICK j \in Int : a = b + m * j
  BY DEF Congruent
<1>2. PICK k \in Int : c = d + m * k
  BY DEF Congruent
<1>3. a + c = (b + d) + m * (j + k)
  <2>1. m * (j + k) = m * j + m * k
    OBVIOUS
  <2> QED BY <1>1, <1>2, <2>1
<1>4. a - c = (b - d) + m * (j - k)
  <2>1. m * (j - k) = m * j - m * k
    OBVIOUS
  <2> QED BY <1>1, <1>2, <2>1
<1>5. a * c = b * d + m * (b * k + j * d + m * (j * k))
  <2>1. a * c = (b + m * j) * (d + m * k)
    BY <1>1, <1>2
  <2>2. (b + m * j) * (d + m * k) = b * d + m * (b * k + j * d + m * (j * k))
    OBVIOUS
  <2> QED BY <2>1, <2>2
<1>6. j + k \in Int /\ j - k \in Int /\ b * k + j * d + m * (j * k) \in Int
  OBVIOUS
<1> QED BY <1>3, <1>4, <1>5, <1>6 DEF Congruent

\* A remainder by a multiple, then by the number itself.
LEMMA ModMod ==
  ASSUME NEW a \in Int, NEW d \in Nat \ {0}, NEW e \in Nat \ {0}
  PROVE  (a % (d * e)) % d = a % d
<1> DEFINE m == d * e
           x == a % m
<1>1. m \in Nat \ {0}
  OBVIOUS
<1>2. Congruent(x, a, m) /\ x \in Int
  BY <1>1, CongruentSelf
<1>3. PICK k \in Int : x = a + m * k
  BY <1>2 DEF Congruent
<1>4. x = a + d * (e * k) /\ e * k \in Int
  BY <1>3
<1>5. Congruent(x, a, d)
  BY <1>4 DEF Congruent
<1> HIDE DEF x, m
<1>6. x % d = a % d
  BY <1>2, <1>5, CongruentMod
<1> QED BY <1>6 DEF x, m

\* Dividing twice is dividing by the product.
LEMMA DivDiv ==
  ASSUME NEW a \in Int, NEW d \in Nat \ {0}, NEW e \in Nat \ {0}
  PROVE  (a \div d) \div e = a \div (d * e)
<1> DEFINE q == a \div d
           r == a % d
<1>1. a = r + d * q /\ q \in Int /\ r \in 0 .. d - 1
  BY DivMod
<1> HIDE DEF q, r
<1> DEFINE u == q \div e
           t == q % e
<1>2. q = t + e * u /\ u \in Int /\ t \in 0 .. e - 1
  BY <1>1, DivMod
<1> HIDE DEF u, t
<1>3. a = (r + d * t) + (d * e) * u
  <2>1. \A k, s, v \in Int : d * (s + e * v) = d * s + (d * e) * v
    OBVIOUS
  <2>2. d * q = d * t + (d * e) * u
    BY <1>2, <2>1
  <2> QED BY <1>1, <1>2, <2>2
<1>4. r + d * t \in 0 .. d * e - 1
  <2>1. t <= e - 1 /\ t \in Nat /\ r \in Nat /\ r <= d - 1
    BY <1>1, <1>2
  <2>2. d * t <= d * (e - 1) /\ d * (e - 1) = d * e - d /\ d * t \in Nat
    BY <2>1
  <2> QED BY <2>1, <2>2
<1>5. d * e \in Nat \ {0}
  OBVIOUS
<1>6. a \div (d * e) = u
  BY <1>2, <1>3, <1>4, <1>5, DivisionOf
<1> QED BY <1>6 DEF u, q

-----------------------------------------------------------------------------
(* Digits of whole numbers.                                                *)

\* The parts of a number below a place and from it on.
Split(a, k, low, q) == low \in 0 .. 2 ^ k - 1 /\ q \in Int /\ a = low + 2 ^ k * q

\* A number is split at a place into its low digits and the rest.
LEMMA SplitExists ==
  ASSUME NEW a \in Int, NEW k \in Nat
  PROVE  Split(a, k, a % 2 ^ k, a \div 2 ^ k)
<1>1. 2 ^ k \in Nat \ {0}
  BY PowerPositive
<1> QED BY <1>1, DivMod DEF Split

\* The digit at a place, from the parts of the number below, at and above it.
LEMMA DigitAt ==
  ASSUME NEW i \in Nat, NEW low, NEW q, NEW a, Split(a, i, low, q)
  PROVE  Digit(a, i) = q % 2 /\ q % 2 \in {0, 1}
<1>1. 2 ^ i \in Nat \ {0}
  BY PowerPositive
<1>2. a \div 2 ^ i = q /\ q \in Int
  BY <1>1, DivisionOf DEF Split
<1> QED BY <1>2 DEF Digit

\* A digit is zero or one, of negative numbers too.
LEMMA DigitType ==
  ASSUME NEW a \in Int, NEW i \in Nat
  PROVE  Digit(a, i) \in {0, 1}
<1>1. 2 ^ i \in Nat \ {0}
  BY PowerPositive
<1>2. a \div 2 ^ i \in Int
  BY <1>1, DivMod
<1> QED BY <1>2 DEF Digit

\* A multiple of a higher power changes no digit below it.
LEMMA DigitBelow ==
  ASSUME NEW k \in Nat, NEW i \in 0 .. k - 1, NEW r \in Int, NEW a, Congruent(a, r, 2 ^ k)
  PROVE  Digit(a, i) = Digit(r, i)
<1>0. PICK q \in Int : a = r + 2 ^ k * q
  BY DEF Congruent
<1>1. 2 ^ i \in Nat \ {0}
  BY PowerPositive
<1> DEFINE low == r % 2 ^ i
           u == r \div 2 ^ i
<1>2. r = low + 2 ^ i * u /\ low \in 0 .. 2 ^ i - 1 /\ u \in Int
  BY <1>1, DivMod
<1>3. PICK e \in Nat : 2 ^ k = 2 ^ i * (2 * e)
  <2>1. k = i + ((k - i - 1) + 1) /\ k - i - 1 \in Nat /\ (k - i - 1) + 1 \in Nat
    OBVIOUS
  <2>2. 2 ^ k = 2 ^ i * 2 ^ ((k - i - 1) + 1)
    BY <2>1, PowerSum
  <2>3. 2 ^ ((k - i - 1) + 1) = 2 ^ (k - i - 1) + 2 ^ (k - i - 1) /\ 2 ^ (k - i - 1) \in Nat
    BY <2>1, PowerStep, PowerPositive
  <2>4. 2 ^ ((k - i - 1) + 1) = 2 * 2 ^ (k - i - 1)
    BY <2>3
  <2> QED BY <2>2, <2>3, <2>4
<1> HIDE DEF low, u
<1>4. a = low + 2 ^ i * (u + 2 * (e * q))
  <2>1. \A p \in Nat : (p * (2 * e)) * q = p * (2 * (e * q))
    OBVIOUS
  <2>2. \A p \in Nat : p * u + p * (2 * (e * q)) = p * (u + 2 * (e * q))
    BY <1>2
  <2>3. PICK p \in Nat : p = 2 ^ i
    BY <1>1
  <2>4. 2 ^ k * q = p * (2 * (e * q))
    BY <1>3, <2>1, <2>3
  <2>5. p * u + p * (2 * (e * q)) = p * (u + 2 * (e * q))
    BY <2>2
  <2>6. PICK x \in Int, y \in Int : x = p * u /\ y = p * (2 * (e * q))
    BY <1>2
  <2>7. a = (low + x) + y
    BY <1>0, <1>2, <2>3, <2>4, <2>6
  <2>8. x + y = p * (u + 2 * (e * q))
    BY <2>5, <2>6
  <2>9. a = low + (x + y)
    BY <1>2, <2>7
  <2> QED BY <2>3, <2>8, <2>9
<1>5. Digit(a, i) = (u + 2 * (e * q)) % 2
  <2>1. u + 2 * (e * q) \in Int
    BY <1>2
  <2>2. Split(a, i, low, u + 2 * (e * q))
    BY <1>2, <1>4, <2>1 DEF Split
  <2> QED BY <2>2, DigitAt
<1>6. Digit(r, i) = u % 2
  <2>1. Split(r, i, low, u)
    BY <1>2 DEF Split
  <2> QED BY <2>1, DigitAt
<1>7. (u + 2 * (e * q)) % 2 = u % 2
  <2>1. \A x \in Int, y \in Int : (x + 2 * y) % 2 = x % 2
    OBVIOUS
  <2> QED BY <1>2, <2>1
<1> QED BY <1>5, <1>6, <1>7

\* A number is its digits, up to a multiple of a power.
LEMMA NumberByDigits ==
  ASSUME NEW m \in Int, NEW w \in Nat, NEW s \in SUBSET (0 .. w - 1),
         \A i \in 0 .. w - 1 : i \in s <=> Digit(m, i) = 1
  PROVE  Value(w, s) = m % 2 ^ w
<1>1. 2 ^ w \in Nat \ {0}
  BY PowerPositive
<1>2. m = (m % 2 ^ w) + 2 ^ w * (m \div 2 ^ w) /\ m \div 2 ^ w \in Int /\ m % 2 ^ w \in 0 .. 2 ^ w - 1
  BY <1>1, DivMod
<1> DEFINE r == m % 2 ^ w
           q == m \div 2 ^ w
<1>3. r \in 0 .. 2 ^ w - 1 /\ q \in Int /\ m = r + 2 ^ w * q
  BY <1>2
<1> HIDE DEF r, q
<1>4. PICK t \in SUBSET (0 .. w - 1) : r = Value(w, t)
  BY <1>3, ValueOnto
<1>5. ASSUME NEW i \in 0 .. w - 1 PROVE i \in t <=> i \in s
  <2>1. Digit(r, i) = 1 <=> i \in t
    BY <1>4, ValueDigits
  <2>2. Digit(m, i) = Digit(r, i)
    <3>1. Congruent(m, r, 2 ^ w) /\ r \in Int
      BY <1>1, <1>3 DEF Congruent
    <3> QED BY <3>1, DigitBelow
  <2> QED BY <2>1, <2>2
<1>6. s = t
  BY <1>5
<1> QED BY <1>4, <1>6 DEF r

\* from_fn over the digits of a number makes the number, cut to the width.
LEMMA FromFnIsNumber ==
  ASSUME NEW m \in Int, NEW w \in Nat, NEW s,
         \A i \in 0 .. w - 1 : i \in s <=> Digit(m, i) = 1
  PROVE  FromFn(w, s).bits = m % 2 ^ w
<1> DEFINE t == s \cap 0 .. w - 1
<1>1. t \in SUBSET (0 .. w - 1) /\ \A i \in 0 .. w - 1 : i \in t <=> Digit(m, i) = 1
  OBVIOUS
<1>2. FromFn(w, s).bits = Value(w, t)
  BY FromFnBits
<1> HIDE DEF t
<1> QED BY <1>1, <1>2, NumberByDigits

\* Below its power a number has no digit from there on.
LEMMA DigitsEnd ==
  ASSUME NEW w \in Nat, NEW n \in 0 .. 2 ^ w - 1, NEW i \in Nat, w <= i
  PROVE  Digit(n, i) = 0
<1>1. PICK d \in Nat : i = w + d
  <2>1. i - w \in Nat /\ i = w + (i - w)
    OBVIOUS
  <2> QED BY <2>1
<1>2. 2 ^ i = 2 ^ w * 2 ^ d /\ 2 ^ d \in Nat \ {0} /\ 2 ^ w \in Nat \ {0}
  BY <1>1, PowerSum, PowerPositive
<1>3. 2 ^ w <= 2 ^ i /\ 2 ^ i \in Nat
  <2>1. \A p \in Nat \ {0}, e \in Nat \ {0} : p <= p * e /\ p * e \in Nat
    OBVIOUS
  <2> QED BY <1>2, <2>1
<1>4. Split(n, i, n, 0)
  BY <1>2, <1>3 DEF Split
<1>5. Digit(n, i) = 0 % 2
  BY <1>4, DigitAt
<1> QED BY <1>5

\* The bits of a vector are the digits of the number it holds.
LEMMA DigitsOfVector ==
  ASSUME NEW v \in VectorRecords, IsVector(v), NEW i \in Nat
  PROVE  /\ BitSet(v, i) <=> Digit(v.bits, i) = 1
         /\ i \in Ones(v) <=> Digit(v.bits, i) = 1
<1>1. v.width \in Nat /\ v.bits \in 0 .. 2 ^ v.width - 1
  BY DEF VectorRecords, IsVector
<1>2. CASE i < v.width
  <2>1. i \in 0 .. v.width - 1
    BY <1>1, <1>2
  <2> QED BY <1>2, <2>1 DEF BitSet, Ones
<1>3. CASE ~ (i < v.width)
  <2>1. Digit(v.bits, i) = 0
    BY <1>1, <1>3, DigitsEnd
  <2>2. i \notin 0 .. v.width - 1
    BY <1>1, <1>3
  <2> QED BY <1>3, <2>1, <2>2 DEF BitSet, Ones
<1> QED BY <1>2, <1>3

\* The digits of two numbers one after the other.
LEMMA DigitSplit ==
  ASSUME NEW k \in Nat, NEW low, NEW q, NEW a, Split(a, k, low, q), NEW i \in Nat
  PROVE  /\ i < k => Digit(a, i) = Digit(low, i)
         /\ k <= i => Digit(a, i) = Digit(q, i - k)
<1>1. 2 ^ k \in Nat \ {0}
  BY PowerPositive
<1>2. i < k => Digit(a, i) = Digit(low, i)
  <2> SUFFICES ASSUME i < k PROVE Digit(a, i) = Digit(low, i)
    OBVIOUS
  <2>1. i \in 0 .. k - 1 /\ low \in Int /\ Congruent(a, low, 2 ^ k)
    BY DEF Split, Congruent
  <2> QED BY <2>1, DigitBelow
<1>3. ASSUME k <= i PROVE Digit(a, i) = Digit(q, i - k)
  <2>1. PICK d \in Nat : i = k + d /\ i - k = d
    <3>1. i - k \in Nat /\ i = k + (i - k)
      BY <1>3
    <3> QED BY <3>1
  <2>2. 2 ^ i = 2 ^ k * 2 ^ d /\ 2 ^ d \in Nat \ {0}
    BY <2>1, PowerSum, PowerPositive
  <2>3. a \in Int /\ a \div 2 ^ k = q
    BY <1>1, DivisionOf DEF Split
  <2>4. a \div (2 ^ k * 2 ^ d) = (a \div 2 ^ k) \div 2 ^ d
    BY <1>1, <2>2, <2>3, DivDiv
  <2>5. a \div 2 ^ i = q \div 2 ^ d
    BY <2>2, <2>3, <2>4
  <2> QED BY <2>1, <2>5 DEF Digit
<1> QED BY <1>2, <1>3

\* The digits of a quotient by a power are those further up.
LEMMA DigitOfQuotient ==
  ASSUME NEW a \in Int, NEW k \in Nat, NEW i \in Nat
  PROVE  Digit(a \div 2 ^ k, i) = Digit(a, k + i)
<1>1. 2 ^ k \in Nat \ {0} /\ 2 ^ i \in Nat \ {0} /\ 2 ^ (k + i) = 2 ^ k * 2 ^ i
  BY PowerPositive, PowerSum
<1>2. (a \div 2 ^ k) \div 2 ^ i = a \div (2 ^ k * 2 ^ i)
  BY <1>1, DivDiv
<1> QED BY <1>1, <1>2 DEF Digit

\* Not: the complement of every digit is that of minus one more.
LEMMA DigitOfComplement ==
  ASSUME NEW a \in Int, NEW i \in Nat
  PROVE  Digit(- a - 1, i) = 1 <=> Digit(a, i) # 1
<1>1. 2 ^ i \in Nat \ {0}
  BY PowerPositive
<1> DEFINE low == a % 2 ^ i
           q == a \div 2 ^ i
<1>2. a = low + 2 ^ i * q /\ low \in 0 .. 2 ^ i - 1 /\ q \in Int
  BY <1>1, DivMod
<1> HIDE DEF low, q
<1>3. - a - 1 = (2 ^ i - 1 - low) + 2 ^ i * (- q - 1)
  <2>1. \A p \in Int : p * (- q - 1) = - (p * q) - p
    BY <1>2
  <2>2. 2 ^ i * (- q - 1) = - (2 ^ i * q) - 2 ^ i
    BY <1>1, <2>1
  <2> QED BY <1>1, <1>2, <2>2
<1>4. 2 ^ i - 1 - low \in 0 .. 2 ^ i - 1 /\ - q - 1 \in Int
  BY <1>1, <1>2
<1>5. Digit(- a - 1, i) = (- q - 1) % 2
  <2>1. Split(- a - 1, i, 2 ^ i - 1 - low, - q - 1)
    BY <1>3, <1>4 DEF Split
  <2> QED BY <2>1, DigitAt
<1>6. Digit(a, i) = q % 2
  <2>1. Split(a, i, low, q)
    BY <1>2 DEF Split
  <2> QED BY <2>1, DigitAt
<1>7. (- q - 1) % 2 = 1 <=> q % 2 # 1
  BY <1>2
<1> QED BY <1>5, <1>6, <1>7

-----------------------------------------------------------------------------
(* Storage.                                                                *)

\* The storage of a vector has room for its bits.
LEMMA StorageFits ==
  ASSUME NEW w \in Nat
  PROVE  \E d \in Nat : StorageType(w) = w + d
<1> DEFINE fitting == {c \in PrimitiveWidths : w <= c}
<1>1. CASE fitting = {}
  <2>1. StorageType(w) = w + 0
    BY <1>1 DEF StorageType
  <2> QED BY <2>1
<1>2. CASE fitting # {}
  <2>1. fitting \subseteq Nat
    BY WidthsAssumption
  <2> HIDE DEF fitting
  <2>2. PICK c \in fitting : \A y \in fitting : c <= y
    BY <1>2, <2>1, LeastNatural
  <2>3. Min(fitting) \in fitting
    BY <2>2 DEF Min
  <2>4. StorageType(w) = Min(fitting)
    BY <1>2 DEF StorageType, fitting
  <2>5. StorageType(w) \in Nat /\ w <= StorageType(w)
    BY <2>1, <2>3, <2>4 DEF fitting
  <2>6. StorageType(w) - w \in Nat /\ StorageType(w) = w + (StorageType(w) - w)
    BY <2>5
  <2> QED BY <2>6
<1> QED BY <1>1, <1>2

\* Storage that wraps around before the mask is put on loses nothing.
LEMMA StorageCuts ==
  ASSUME NEW w \in Nat, NEW n \in Int
  PROVE  (n % 2 ^ StorageType(w)) % 2 ^ w = n % 2 ^ w
<1>1. PICK d \in Nat : StorageType(w) = w + d
  BY StorageFits
<1>2. 2 ^ StorageType(w) = 2 ^ w * 2 ^ d /\ 2 ^ w \in Nat \ {0} /\ 2 ^ d \in Nat \ {0}
  BY <1>1, PowerSum, PowerPositive
<1>3. (n % (2 ^ w * 2 ^ d)) % 2 ^ w = n % 2 ^ w
  BY <1>2, ModMod
<1> QED BY <1>2, <1>3

\* A vector of a width, and the number it holds up to a multiple of the power.
Holds(v, w, n) ==
  v \in VectorRecords /\ IsVector(v) /\ v.width = w /\ v.bits = n % 2 ^ w

\* The remainder by the power of its width is a vector.
LEMMA RemainderIsVector ==
  ASSUME NEW w \in Nat, NEW n \in Int
  PROVE  Holds(Vector(w, n % 2 ^ w), w, n)
<1>1. 2 ^ w \in Nat \ {0}
  BY PowerPositive
<1>2. n % 2 ^ w \in 0 .. 2 ^ w - 1
  BY <1>1, DivMod
<1> QED BY <1>1, <1>2 DEF Holds, Vector, VectorRecords, IsVector

\* from_raw and the literals of the term library hold their number.
LEMMA FromIntegerHolds ==
  ASSUME NEW w \in Nat, NEW n \in Int
  PROVE  Holds(FromInteger(w, n), w, n) /\ Holds(Term(w, n), w, n)
BY StorageCuts, RemainderIsVector DEF FromInteger, Term

\* Storage::arithmetic holds its result, however the storage wraps around.
LEMMA StoredHolds ==
  ASSUME NEW v \in VectorRecords, NEW n \in Int
  PROVE  Holds(Stored(v, n), v.width, n)
BY StorageCuts, RemainderIsVector DEF Stored, VectorRecords

\* A truth value is one bit.
LEMMA FromBoolHolds ==
  ASSUME NEW b \in BOOLEAN
  PROVE  Holds(FromBool(b), 1, Number(b))
BY FromIntegerHolds DEF FromBool, Number

\* A vector made from the digits of a number holds it.
LEMMA FromFnHolds ==
  ASSUME NEW m \in Int, NEW w \in Nat, NEW s,
         \A i \in 0 .. w - 1 : i \in s <=> Digit(m, i) = 1
  PROVE  Holds(FromFn(w, s), w, m)
BY FromFnBits, FromFnIsNumber DEF Holds

\* What holds a number in its range holds just that number.
LEMMA HoldsSelf ==
  ASSUME NEW v \in VectorRecords, IsVector(v)
  PROVE  Holds(v, v.width, v.bits) /\ v.bits \in Nat /\ v.width \in Nat /\ v.bits < 2 ^ v.width
         /\ 2 ^ v.width \in Nat \ {0}
<1>1. v.width \in Nat /\ 2 ^ v.width \in Nat \ {0} /\ v.bits \in 0 .. 2 ^ v.width - 1
  BY PowerPositive DEF VectorRecords, IsVector
<1>2. v.bits % 2 ^ v.width = v.bits
  BY <1>1, ModSmall
<1> QED BY <1>1, <1>2 DEF Holds

\* Two vectors that hold the same number are one.
LEMMA HoldsUnique ==
  ASSUME NEW u, NEW v, NEW w \in Nat, NEW n, Holds(u, w, n), Holds(v, w, n)
  PROVE  u = v
BY DEF Holds, VectorRecords

\* A vector that holds a number holds every congruent one.
LEMMA HoldsCongruent ==
  ASSUME NEW v, NEW w \in Nat, NEW m \in Int, NEW n \in Int, Holds(v, w, m), Congruent(m, n, 2 ^ w)
  PROVE  Holds(v, w, n)
BY PowerPositive, CongruentMod DEF Holds

\* The bits of a vector are congruent to the number it holds.
LEMMA HoldsCongruence ==
  ASSUME NEW v, NEW w \in Nat, NEW m \in Int, Holds(v, w, m)
  PROVE  v.bits \in Int /\ Congruent(v.bits, m, 2 ^ w)
BY PowerPositive, CongruentSelf DEF Holds

-----------------------------------------------------------------------------
(* Signed and unsigned readings.                                           *)

IsValued(v) == v \in VectorRecords /\ IsVector(v) /\ v.width > 0

\* The sign bit is the highest digit.
LEMMA SignBitIsDigit ==
  ASSUME NEW v, IsValued(v)
  PROVE  SignBit(v) <=> Digit(v.bits, v.width - 1) = 1
<1>1. v \in VectorRecords /\ IsVector(v) /\ v.width - 1 \in Nat /\ v.width # 0
  BY DEF IsValued, VectorRecords
<1>2. BitSet(v, v.width - 1) <=> Digit(v.bits, v.width - 1) = 1
  BY <1>1, DigitsOfVector
<1> QED BY <1>1, <1>2 DEF SignBit

\* A vector splits into its sign bit and the rest.
LEMMA SignSplits ==
  ASSUME NEW v, IsValued(v)
  PROVE  \E half \in Nat \ {0}, rest \in Nat :
           /\ half = 2 ^ (v.width - 1) /\ 2 ^ v.width = half + half /\ rest < half
           /\ v.bits = rest + (IF SignBit(v) THEN half ELSE 0)
           /\ Signed(v) = rest - (IF SignBit(v) THEN half ELSE 0)
<1> DEFINE k == v.width - 1
           b == v.bits
<1>1. k \in Nat /\ k + 1 = v.width /\ b \in 0 .. 2 ^ v.width - 1
  BY DEF IsValued, VectorRecords, IsVector
<1>2. 2 ^ v.width = 2 ^ k + 2 ^ k /\ 2 ^ k \in Nat \ {0}
  <2> HIDE DEF k
  <2>1. 2 ^ (k + 1) = 2 ^ k + 2 ^ k /\ 2 ^ k \in Nat \ {0}
    BY <1>1, PowerStep, PowerPositive
  <2> QED BY <1>1, <2>1
<1>3. SignBit(v) <=> Digit(b, k) = 1
  BY SignBitIsDigit
<1> HIDE DEF k, b
<1>4. CASE b < 2 ^ k
  <2>1. Split(b, k, b, 0)
    BY <1>1, <1>2, <1>4 DEF Split
  <2>2. Digit(b, k) = 0
    <3>1. Digit(b, k) = 0 % 2
      BY <1>1, <2>1, DigitAt
    <3> QED BY <3>1
  <2>3. Signed(v) = b
    BY <1>1, <2>2 DEF Signed, b, k
  <2> QED BY <1>1, <1>2, <1>3, <1>4, <2>2, <2>3 DEF b, k
<1>5. CASE ~ (b < 2 ^ k)
  <2>1. Split(b, k, b - 2 ^ k, 1)
    BY <1>1, <1>2, <1>5 DEF Split
  <2>2. Digit(b, k) = 1
    <3>1. Digit(b, k) = 1 % 2
      BY <1>1, <2>1, DigitAt
    <3> QED BY <3>1
  <2>3. Signed(v) = b - (2 ^ k + 2 ^ k)
    BY <1>2, <2>2 DEF Signed, b, k
  <2>4. b - 2 ^ k \in Nat /\ b - 2 ^ k < 2 ^ k /\ b = (b - 2 ^ k) + 2 ^ k
        /\ Signed(v) = (b - 2 ^ k) - 2 ^ k
    BY <1>1, <1>2, <1>5, <2>3
  <2>5. SignBit(v)
    BY <1>3, <2>2
  <2> QED BY <1>2, <2>4, <2>5 DEF b, k
<1> QED BY <1>4, <1>5

\* The signed reading is congruent to the bits, and negative when the sign
\* bit is set.
LEMMA SignedType ==
  ASSUME NEW v, IsValued(v)
  PROVE  /\ Signed(v) \in Int
         /\ Congruent(Signed(v), v.bits, 2 ^ v.width)
         /\ SignBit(v) <=> Signed(v) < 0
<1>1. PICK half \in Nat \ {0}, rest \in Nat :
           /\ half = 2 ^ (v.width - 1) /\ 2 ^ v.width = half + half /\ rest < half
           /\ v.bits = rest + (IF SignBit(v) THEN half ELSE 0)
           /\ Signed(v) = rest - (IF SignBit(v) THEN half ELSE 0)
  BY SignSplits
<1>2. Signed(v) \in Int /\ (SignBit(v) <=> Signed(v) < 0)
  BY <1>1
<1>3. Signed(v) = v.bits + 2 ^ v.width * (IF SignBit(v) THEN -1 ELSE 0)
  BY <1>1
<1>4. (IF SignBit(v) THEN -1 ELSE 0) \in Int
  OBVIOUS
<1> QED BY <1>2, <1>3, <1>4 DEF Congruent

\* The digits of a signed number go on with its sign.
LEMMA DigitsOfSigned ==
  ASSUME NEW v, IsValued(v), NEW i \in Nat
  PROVE  Digit(Signed(v), i) = 1 <=> IF i < v.width THEN i \in Ones(v) ELSE SignBit(v)
<1>1. v \in VectorRecords /\ IsVector(v) /\ v.width \in Nat /\ v.bits \in Int
  BY DEF IsValued, VectorRecords
<1>2. CASE i < v.width
  <2>1. Digit(Signed(v), i) = Digit(v.bits, i)
    <3>1. i \in 0 .. v.width - 1
      BY <1>1, <1>2
    <3> QED BY <1>1, <3>1, SignedType, DigitBelow
  <2>2. i \in Ones(v) <=> Digit(v.bits, i) = 1
    BY <1>1, DigitsOfVector
  <2> QED BY <1>2, <2>1, <2>2
<1>3. CASE ~ (i < v.width)
  <2>1. PICK half \in Nat \ {0}, rest \in Nat :
           /\ half = 2 ^ (v.width - 1) /\ 2 ^ v.width = half + half /\ rest < half
           /\ v.bits = rest + (IF SignBit(v) THEN half ELSE 0)
           /\ Signed(v) = rest - (IF SignBit(v) THEN half ELSE 0)
    BY SignSplits
  <2>2. 2 ^ v.width <= 2 ^ i /\ 2 ^ i \in Nat
    <3>1. PICK d \in Nat : i = v.width + d
      <4>1. i - v.width \in Nat /\ i = v.width + (i - v.width)
        BY <1>1, <1>3
      <4> QED BY <4>1
    <3>2. 2 ^ i = 2 ^ v.width * 2 ^ d /\ 2 ^ d \in Nat \ {0} /\ 2 ^ v.width \in Nat \ {0}
      BY <1>1, <3>1, PowerSum, PowerPositive
    <3>3. \A p \in Nat \ {0}, e \in Nat \ {0} : p <= p * e /\ p * e \in Nat
      OBVIOUS
    <3> QED BY <3>2, <3>3
  <2>3. CASE SignBit(v)
    <3>1. Split(Signed(v), i, Signed(v) + 2 ^ i, -1)
      BY <2>1, <2>2, <2>3 DEF Split
    <3>2. Digit(Signed(v), i) = (-1) % 2
      BY <3>1, DigitAt
    <3>3. (-1) % 2 = 1
      <4>1. 2 \in Nat \ {0} /\ 1 \in 0 .. 2 - 1 /\ -1 \in Int /\ -1 = 1 + 2 * (-1)
        OBVIOUS
      <4> QED BY <4>1, DivisionOf
    <3> QED BY <1>3, <2>3, <3>2, <3>3
  <2>4. CASE ~ SignBit(v)
    <3>1. Split(Signed(v), i, Signed(v), 0)
      BY <2>1, <2>2, <2>4 DEF Split
    <3>2. Digit(Signed(v), i) = 0 % 2
      BY <3>1, DigitAt
    <3> QED BY <1>3, <2>4, <3>2
  <2> QED BY <2>3, <2>4
<1> QED BY <1>2, <1>3

\* resize keeps the number, read as signed or unsigned, up to the new width.
LEMMA ResizeHolds ==
  ASSUME NEW v, IsValued(v), NEW w \in Nat, NEW signed \in BOOLEAN
  PROVE  /\ Meaning(v, signed) \in Int
         /\ Holds(Resize(v, w, signed), w, Meaning(v, signed))
<1>1. v \in VectorRecords /\ IsVector(v) /\ v.width \in Nat /\ v.bits \in Int
  BY DEF IsValued, VectorRecords
<1>2. Meaning(v, signed) \in Int
  BY <1>1, SignedType DEF Meaning
<1> DEFINE s == Ones(v) \cup (IF signed /\ SignBit(v) THEN v.width .. w - 1 ELSE {})
<1>3. ASSUME NEW i \in 0 .. w - 1 PROVE i \in s <=> Digit(Meaning(v, signed), i) = 1
  <2>1. i \in Nat /\ (i \in Ones(v) => i < v.width)
    BY <1>1 DEF Ones
  <2>2. i \in Ones(v) <=> Digit(v.bits, i) = 1
    BY <1>1, <2>1, DigitsOfVector
  <2>3. Digit(Signed(v), i) = 1 <=> IF i < v.width THEN i \in Ones(v) ELSE SignBit(v)
    BY <2>1, DigitsOfSigned
  <2>4. CASE signed
    <3>1. i < v.width \/ i \in v.width .. w - 1
      BY <1>1
    <3>2. i \in v.width .. w - 1 => ~ (i < v.width)
      BY <1>1
    <3> QED BY <2>1, <2>3, <2>4, <3>1, <3>2 DEF Meaning
  <2>5. CASE ~ signed
    BY <2>2, <2>5 DEF Meaning
  <2> QED BY <2>4, <2>5
<1>4. Resize(v, w, signed) = FromFn(w, s)
  BY DEF Resize
<1> HIDE DEF s
<1> QED BY <1>2, <1>3, <1>4, FromFnHolds

\* Where the generator leaves out a resize, nothing is to be resized.
LEMMA WidenedHolds ==
  ASSUME NEW v, IsValued(v), NEW w \in Nat, NEW signed \in BOOLEAN
  PROVE  /\ Meaning(v, signed) \in Int
         /\ Holds(Widened(v, w, signed), w, Meaning(v, signed))
<1>1. v \in VectorRecords /\ IsVector(v) /\ v.width \in Nat /\ v.bits \in Int
  BY DEF IsValued, VectorRecords
<1>2. Meaning(v, signed) \in Int /\ Congruent(v.bits, Meaning(v, signed), 2 ^ v.width)
  <2>1. 2 ^ v.width \in Nat \ {0}
    BY <1>1, PowerPositive
  <2>2. Congruent(v.bits, Signed(v), 2 ^ v.width) /\ Congruent(v.bits, v.bits, 2 ^ v.width)
    BY <1>1, <2>1, SignedType, CongruentMod
  <2> QED BY <1>1, <2>2, SignedType DEF Meaning
<1>3. CASE v.width = w
  <2>1. Holds(v, w, v.bits)
    BY <1>1, <1>3, HoldsSelf
  <2>2. Holds(v, w, Meaning(v, signed))
    BY <1>1, <1>2, <1>3, <2>1, HoldsCongruent
  <2> QED BY <1>2, <1>3, <2>2 DEF Widened
<1>4. CASE v.width # w
  BY <1>4, ResizeHolds DEF Widened
<1> QED BY <1>3, <1>4

-----------------------------------------------------------------------------
(* The operators of one operand.                                           *)

\* The complement of a number is one less than its negation.
LEMMA NotHolds ==
  ASSUME NEW v, IsValued(v)
  PROVE  Holds(BitNot(v), v.width, - v.bits - 1) /\ - v.bits - 1 \in Int
<1>1. v \in VectorRecords /\ IsVector(v) /\ v.width \in Nat /\ v.bits \in Int /\ - v.bits - 1 \in Int
  BY DEF IsValued, VectorRecords
<1> DEFINE s == (0 .. v.width - 1) \ Ones(v)
<1>2. ASSUME NEW i \in 0 .. v.width - 1
      PROVE  i \in s <=> Digit(- v.bits - 1, i) = 1
  <2>1. i \in Ones(v) <=> Digit(v.bits, i) = 1
    BY <1>1, DigitsOfVector
  <2>2. Digit(- v.bits - 1, i) = 1 <=> Digit(v.bits, i) # 1
    BY <1>1, DigitOfComplement
  <2> QED BY <2>1, <2>2
<1>3. BitNot(v) = FromFn(v.width, s)
  BY DEF BitNot
<1> HIDE DEF s
<1> QED BY <1>1, <1>2, <1>3, FromFnHolds

\* Negation by subtracting from zero.
LEMMA NegateHolds ==
  ASSUME NEW v, v \in VectorRecords
  PROVE  Holds(NegateBits(v), v.width, - v.bits) /\ - v.bits \in Int
<1>1. v.width \in Nat /\ v.bits \in Nat /\ - v.bits \in Int
  BY DEF VectorRecords
<1>2. Zero(v.width) \in VectorRecords /\ Zero(v.width).width = v.width /\ Zero(v.width).bits = 0
  BY <1>1 DEF Zero, Vector, VectorRecords
<1>3. 0 - v.bits = - v.bits
  BY <1>1
<1> QED BY <1>1, <1>2, <1>3, StoredHolds DEF NegateBits, SubBits

\* All ones is minus one.
LEMMA AllOnes ==
  ASSUME NEW w \in Nat
  PROVE  /\ Holds(FromFn(w, 0 .. w - 1), w, -1)
         /\ (-1) % 2 ^ w = 2 ^ w - 1
<1>1. ASSUME NEW i \in 0 .. w - 1 PROVE Digit(-1, i) = 1
  <2>1. 0 \in Int /\ i \in Nat /\ - 0 - 1 = -1
    OBVIOUS
  <2>2. Split(0, i, 0, 0)
    BY <2>1, PowerPositive DEF Split
  <2>3. Digit(0, i) = 0 % 2
    BY <2>1, <2>2, DigitAt
  <2>4. Digit(- 0 - 1, i) = 1
    BY <2>1, <2>3, DigitOfComplement
  <2> QED BY <2>1, <2>4
<1>2. Holds(FromFn(w, 0 .. w - 1), w, -1)
  <2>1. -1 \in Int
    OBVIOUS
  <2> QED BY <1>1, <2>1, FromFnHolds
<1>3. (-1) % 2 ^ w = 2 ^ w - 1
  <2>1. PICK p \in Nat \ {0} : p = 2 ^ w
    BY PowerPositive
  <2>2. PICK b \in Int, r \in 0 .. p - 1 : b = -1 /\ r = p - 1
    OBVIOUS
  <2>3. b = r + p * b
    BY <2>2
  <2>4. b % p = r
    BY <2>2, <2>3, DivisionOf
  <2> QED BY <2>1, <2>2, <2>4
<1> QED BY <1>2, <1>3

\* A vector is truthy when its number is not zero.
LEMMA PositiveIsNotZero ==
  ASSUME NEW v, v \in VectorRecords, IsVector(v)
  PROVE  Positive(v) <=> v.bits # 0
<1>1. v.width \in Nat /\ v.bits \in Nat
  BY DEF VectorRecords
<1>2. ASSUME Ones(v) = {} PROVE v.bits = 0
  <2>1. v = FromFn(v.width, {})
    BY <1>2, VectorIsItsBits
  <2>2. {} \cap 0 .. v.width - 1 = {}
    OBVIOUS
  <2>3. v.bits = Value(v.width, {})
    BY <1>1, <2>1, <2>2, FromFnBits
  <2> QED BY <1>1, <2>3, ValueEmpty
<1>3. ASSUME v.bits = 0, NEW i \in Ones(v) PROVE FALSE
  <2>1. i \in Nat
    BY <1>1 DEF Ones
  <2>2. Digit(0, i) = 1
    BY <1>3, <2>1, DigitsOfVector
  <2>3. Split(0, i, 0, 0)
    BY <2>1, PowerPositive DEF Split
  <2>4. Digit(0, i) = 0 % 2
    BY <2>1, <2>3, DigitAt
  <2> QED BY <2>2, <2>4
<1> QED BY <1>2, <1>3 DEF Positive

\* reduce_and: all bits are one in the largest number alone.
LEMMA ReduceAndHolds ==
  ASSUME NEW v, IsValued(v)
  PROVE  Holds(ReduceAnd(v), 1, Number(v.bits = 2 ^ v.width - 1))
<1>1. v \in VectorRecords /\ IsVector(v) /\ v.width \in Nat
  BY DEF IsValued, VectorRecords
<1> DEFINE full == FromFn(v.width, 0 .. v.width - 1)
<1>2. /\ full \in VectorRecords /\ IsVector(full) /\ full.width = v.width
      /\ full.bits = 2 ^ v.width - 1 /\ Ones(full) = 0 .. v.width - 1
  <2>1. Holds(full, v.width, -1) /\ (-1) % 2 ^ v.width = 2 ^ v.width - 1
    BY <1>1, AllOnes
  <2>2. Ones(full) = (0 .. v.width - 1) \cap 0 .. v.width - 1
    BY <1>1, FromFnBits
  <2> QED BY <2>1, <2>2 DEF Holds
<1> HIDE DEF full
<1>3. ASSUME Ones(v) = 0 .. v.width - 1 PROVE v.bits = 2 ^ v.width - 1
  BY <1>1, <1>2, <1>3, SameBits
<1>4. ASSUME v.bits = 2 ^ v.width - 1 PROVE Ones(v) = 0 .. v.width - 1
  <2>1. v = full
    BY <1>1, <1>2, <1>4 DEF VectorRecords
  <2> QED BY <1>2, <2>1
<1>5. (Ones(v) = 0 .. v.width - 1) = (v.bits = 2 ^ v.width - 1)
  BY <1>3, <1>4
<1> QED BY <1>5, FromBoolHolds DEF ReduceAnd

\* reduce_or: some bit is one in every number but zero.
LEMMA ReduceOrHolds ==
  ASSUME NEW v, IsValued(v)
  PROVE  Holds(ReduceOr(v), 1, Number(v.bits # 0))
<1>1. Positive(v) \in BOOLEAN /\ (Positive(v) = (v.bits # 0))
  BY PositiveIsNotZero DEF IsValued, Positive
<1> QED BY <1>1, FromBoolHolds DEF ReduceOr

\* logical_not is true of zero alone.
LEMMA LogicalNotHolds ==
  ASSUME NEW v, IsValued(v)
  PROVE  Holds(FromBool(~ Positive(v)), 1, Number(v.bits = 0))
<1>1. (~ Positive(v)) \in BOOLEAN /\ ((~ Positive(v)) = (v.bits = 0))
  BY PositiveIsNotZero DEF IsValued, Positive
<1> QED BY <1>1, FromBoolHolds

-----------------------------------------------------------------------------
(* Sums of terms.                                                          *)

\* What a sum over a set recurses to.
Sums(h, s, f) ==
  h = [t \in SUBSET s |-> IF t = {} THEN 0
                          ELSE f[CHOOSE x \in t : TRUE] + h[t \ {CHOOSE x \in t : TRUE}]]

\* A measure that gains the term of an element with each element is the sum.
LEMMA SumIsMeasure ==
  ASSUME NEW s, NEW f, NEW m, m[{}] = 0, \A t \in SUBSET s : m[t] \in Nat,
         \A t \in SUBSET s : \A x \in t : m[t] = f[x] + m[t \ {x}]
  PROVE  Sums([t \in SUBSET s |-> m[t]], s, f)
<1> DEFINE h == [t \in SUBSET s |-> m[t]]
<1>1. ASSUME NEW t \in SUBSET s
      PROVE  h[t] = IF t = {} THEN 0
                    ELSE f[CHOOSE x \in t : TRUE] + h[t \ {CHOOSE x \in t : TRUE}]
  <2>1. CASE t = {}
    BY <2>1
  <2>2. CASE t # {}
    <3> DEFINE y == CHOOSE x \in t : TRUE
    <3>1. y \in t
      BY <2>2
    <3> HIDE DEF y
    <3>2. t \ {y} \in SUBSET s
      OBVIOUS
    <3> QED BY <2>2, <3>1, <3>2 DEF y
  <2> QED BY <2>1, <2>2
<1> HIDE DEF h
<1>2. h = [t \in SUBSET s |-> h[t]]
  BY DEF h
<1> QED BY <1>1, <1>2 DEF Sums, h

\* The recursion has one solution.
LEMMA SumUnique ==
  ASSUME NEW s, IsFiniteSet(s), NEW f, NEW h, NEW k, Sums(h, s, f), Sums(k, s, f)
  PROVE  h[s] = k[s]
<1>1. \A t \in SUBSET s :
        /\ h[t] = IF t = {} THEN 0
                  ELSE f[CHOOSE x \in t : TRUE] + h[t \ {CHOOSE x \in t : TRUE}]
        /\ k[t] = IF t = {} THEN 0
                  ELSE f[CHOOSE x \in t : TRUE] + k[t \ {CHOOSE x \in t : TRUE}]
  BY DEF Sums
<1> DEFINE Bad == {t \in SUBSET s : h[t] # k[t]}
           Sizes == {Cardinality(t) : t \in Bad}
<1>2. \A t \in SUBSET s : IsFiniteSet(t) /\ Cardinality(t) \in Nat
  BY FS_Subset, FS_CardinalityType
<1>3. Bad = {}
  <2> SUFFICES ASSUME Bad # {} PROVE FALSE
    OBVIOUS
  <2>1. Sizes \subseteq Nat /\ Sizes # {}
    BY <1>2
  <2>2. PICK least \in Sizes : \A y \in Sizes : least <= y
    <3> HIDE DEF Sizes
    <3> QED BY <2>1, LeastNatural
  <2>3. PICK t \in Bad : least = Cardinality(t)
    OBVIOUS
  <2> DEFINE y == CHOOSE x \in t : TRUE
  <2>4. t # {} /\ t \in SUBSET s
    BY <1>1, <2>3
  <2>5. y \in t
    BY <2>4
  <2>6. h[t] = f[y] + h[t \ {y}] /\ k[t] = f[y] + k[t \ {y}]
    BY <1>1, <2>4
  <2> HIDE DEF y
  <2>7. t \ {y} \in Bad
    BY <2>3, <2>4, <2>6
  <2>8. Cardinality(t \ {y}) = Cardinality(t) - 1
    BY <1>2, <2>4, <2>5, FS_RemoveElement
  <2>9. Cardinality(t) <= Cardinality(t \ {y})
    BY <2>2, <2>3, <2>7
  <2> QED BY <1>2, <2>4, <2>8, <2>9
<1> QED BY <1>3

\* A sum, from a measure that gains the term of an element with each element.
LEMMA SumByMeasure ==
  ASSUME NEW s, IsFiniteSet(s), NEW f, NEW m, m[{}] = 0, \A t \in SUBSET s : m[t] \in Nat,
         \A t \in SUBSET s : \A x \in t : m[t] = f[x] + m[t \ {x}]
  PROVE  (CHOOSE h : Sums(h, s, f))[s] = m[s]
<1> DEFINE k == [t \in SUBSET s |-> m[t]]
<1>1. Sums(k, s, f)
  BY SumIsMeasure
<1>2. k[s] = m[s]
  OBVIOUS
<1> HIDE DEF k
<1>3. Sums(CHOOSE h : Sums(h, s, f), s, f)
  BY <1>1
<1> DEFINE g == CHOOSE h : Sums(h, s, f)
<1>4. Sums(g, s, f)
  BY <1>3
<1> HIDE DEF g
<1>5. g[s] = k[s]
  BY <1>1, <1>4, SumUnique
<1> QED BY <1>2, <1>5 DEF g

\* Whatever satisfies the recursion of a sum yields the measure.
LEMMA SumIs ==
  ASSUME NEW s, IsFiniteSet(s), NEW f, NEW m, m[{}] = 0, \A t \in SUBSET s : m[t] \in Nat,
         \A t \in SUBSET s : \A x \in t : m[t] = f[x] + m[t \ {x}],
         NEW h, Sums(h, s, f)
  PROVE  h[s] = m[s]
<1> DEFINE k == [t \in SUBSET s |-> m[t]]
<1>1. Sums(k, s, f)
  BY SumIsMeasure
<1>2. k[s] = m[s]
  OBVIOUS
<1> HIDE DEF k
<1> QED BY <1>1, <1>2, SumUnique

\* The sum of the ones is their number.
LEMMA DigitSum ==
  ASSUME NEW v, v \in VectorRecords, IsVector(v)
  PROVE  MapThenSumSet(LAMBDA i : Digit(v.bits, i), 0 .. v.width - 1) = Cardinality(Ones(v))
<1> DEFINE s == 0 .. v.width - 1
           Adds(h) == h = [t \in SUBSET s |->
                             IF t = {} THEN 0
                             ELSE Digit(v.bits, CHOOSE x \in t : TRUE) + h[t \ {CHOOSE x \in t : TRUE}]]
           f == [i \in s |-> Digit(v.bits, i)]
           m == [t \in SUBSET s |-> Cardinality(t \cap Ones(v))]
<1>1. MapThenSumSet(LAMBDA i : Digit(v.bits, i), s) = (CHOOSE h : Adds(h))[s]
  BY DEF MapThenSumSet, MapThenFoldSet
<1>2. \A t \in SUBSET s : t # {} => Digit(v.bits, CHOOSE x \in t : TRUE) = f[CHOOSE x \in t : TRUE]
  <2> SUFFICES ASSUME NEW t \in SUBSET s, t # {}
               PROVE  (CHOOSE x \in t : TRUE) \in s
    OBVIOUS
  <2>1. (CHOOSE x \in t : TRUE) \in t
    OBVIOUS
  <2> QED BY <2>1
<1>3. \A h : Adds(h) <=> Sums(h, s, f)
  <2> HIDE DEF s, f
  <2> QED BY <1>2 DEF Sums
<1>4. v.width \in Nat /\ IsFiniteSet(s)
  <2>1. v.width \in Nat /\ 0 \in Int /\ v.width - 1 \in Int
    BY DEF VectorRecords
  <2> QED BY <2>1, FS_Interval
<1>5. \A t \in SUBSET s : IsFiniteSet(t \cap Ones(v)) /\ Cardinality(t \cap Ones(v)) \in Nat
  <2> SUFFICES ASSUME NEW t \in SUBSET s
               PROVE  IsFiniteSet(t \cap Ones(v)) /\ Cardinality(t \cap Ones(v)) \in Nat
    OBVIOUS
  <2>1. t \cap Ones(v) \in SUBSET s
    OBVIOUS
  <2> HIDE DEF s
  <2> QED BY <1>4, <2>1, FS_Subset, FS_CardinalityType
<1>6. m[{}] = 0
  <2>1. {} \cap Ones(v) = {} /\ {} \in SUBSET s
    OBVIOUS
  <2> QED BY <2>1, FS_EmptySet
<1>7. ASSUME NEW t \in SUBSET s, NEW x \in t PROVE m[t] = f[x] + m[t \ {x}]
  <2>1. /\ m[t] = Cardinality(t \cap Ones(v)) /\ m[t \ {x}] = Cardinality((t \ {x}) \cap Ones(v))
        /\ f[x] = Digit(v.bits, x) /\ x \in Nat
    BY <1>4
  <2>2. x \in Ones(v) <=> Digit(v.bits, x) = 1
    BY <2>1, DigitsOfVector
  <2>3. Digit(v.bits, x) \in {0, 1}
    <3>1. v.bits \in Int
      BY DEF VectorRecords
    <3> QED BY <2>1, <3>1, DigitType
  <2>4. (t \ {x}) \cap Ones(v) = (t \cap Ones(v)) \ {x}
    OBVIOUS
  <2>5. Cardinality((t \cap Ones(v)) \ {x})
          = IF x \in t \cap Ones(v) THEN Cardinality(t \cap Ones(v)) - 1 ELSE Cardinality(t \cap Ones(v))
    BY <1>5, FS_RemoveElement
  <2>6. Cardinality(t \cap Ones(v)) \in Nat
    BY <1>5
  <2> HIDE DEF m, f
  <2>7. m[t \ {x}] = IF x \in Ones(v) THEN m[t] - 1 ELSE m[t]
    BY <2>1, <2>4, <2>5
  <2>8. f[x] = IF x \in Ones(v) THEN 1 ELSE 0
    BY <2>1, <2>2, <2>3
  <2>9. m[t] \in Nat
    BY <2>1, <2>6
  <2> QED BY <2>7, <2>8, <2>9
<1>8. \A t \in SUBSET s : m[t] \in Nat
  BY <1>5
<1>9. m[s] = Cardinality(Ones(v))
  <2>1. s \cap Ones(v) = Ones(v)
    BY DEF Ones
  <2> QED BY <2>1
<1>10. Sums([t \in SUBSET s |-> m[t]], s, f)
  <2> HIDE DEF s, f, m
  <2> QED BY <1>6, <1>7, <1>8, SumIsMeasure
<1> DEFINE g == CHOOSE h : Adds(h)
<1>11. Sums(g, s, f)
  <2> HIDE DEF s, f, m
  <2> QED BY <1>3, <1>10
<1> HIDE DEF s, f, m, g
<1>12. g[s] = m[s]
  BY <1>4, <1>6, <1>7, <1>8, <1>11, SumIs
<1> QED BY <1>1, <1>9, <1>12 DEF s, g

\* reduce_xor: the parity of the digits.
LEMMA ReduceXorHolds ==
  ASSUME NEW v, IsValued(v)
  PROVE  /\ MapThenSumSet(LAMBDA i : Digit(v.bits, i), 0 .. v.width - 1) % 2 \in Int
         /\ Holds(ReduceXor(v), 1, MapThenSumSet(LAMBDA i : Digit(v.bits, i), 0 .. v.width - 1) % 2)
<1>1. v \in VectorRecords /\ IsVector(v) /\ v.width \in Nat /\ 0 \in Int /\ v.width - 1 \in Int
  BY DEF IsValued, VectorRecords
<1> DEFINE c == Cardinality(Ones(v))
<1>2. c \in Nat
  <2>1. IsFiniteSet(0 .. v.width - 1) /\ Ones(v) \in SUBSET (0 .. v.width - 1)
    BY <1>1, FS_Interval DEF Ones
  <2> QED BY <2>1, FS_Subset, FS_CardinalityType
<1> DEFINE d == MapThenSumSet(LAMBDA i : Digit(v.bits, i), 0 .. v.width - 1)
<1>3. d = c
  BY <1>1, DigitSum
<1>4. (c % 2 = 1) \in BOOLEAN /\ ReduceXor(v) = FromBool(c % 2 = 1)
  BY DEF ReduceXor
<1> HIDE DEF c, d
<1>5. Number(c % 2 = 1) = d % 2 /\ d % 2 \in Int
  BY <1>2, <1>3 DEF Number
<1>6. Holds(ReduceXor(v), 1, Number(c % 2 = 1))
  BY <1>4, FromBoolHolds
<1> QED BY <1>5, <1>6 DEF d

\* The sum of the powers of some of the places.
LEMMA PlaceSum ==
  ASSUME NEW w \in Nat, NEW both \in SUBSET (0 .. w - 1), NEW f,
         \A i \in 0 .. w - 1 : f[i] = Weight(both, i)
  PROVE  /\ \E h : Sums(h, 0 .. w - 1, f)
         /\ \A h : Sums(h, 0 .. w - 1, f) => h[0 .. w - 1] = Value(w, both)
<1> DEFINE s == 0 .. w - 1
           m == [t \in SUBSET s |-> Value(w, t \cap both)]
<1>1. IsFiniteSet(s)
  <2>1. 0 \in Int /\ w - 1 \in Int
    OBVIOUS
  <2> QED BY <2>1, FS_Interval
<1>2. \A t \in SUBSET s : m[t] \in Nat
  BY ValueType
<1>3. m[{}] = 0
  <2>1. {} \cap both = {} /\ {} \in SUBSET s
    OBVIOUS
  <2> QED BY <2>1, ValueEmpty
<1>4. ASSUME NEW t \in SUBSET s, NEW x \in t PROVE m[t] = f[x] + m[t \ {x}]
  <2>1. m[t] = Value(w, t \cap both) /\ m[t \ {x}] = Value(w, (t \ {x}) \cap both) /\ x \in 0 .. w - 1
    OBVIOUS
  <2>2. f[x] = Weight(both, x)
    BY <2>1
  <2>3. CASE x \in both
    <3>1. (t \ {x}) \cap both = (t \cap both) \ {x}
      OBVIOUS
    <3>2. x \in t \cap both
      BY <2>3
    <3>3. Value(w, t \cap both) = 2 ^ x + Value(w, (t \cap both) \ {x})
      BY <2>1, <3>2, ValueRemove
    <3> QED BY <2>1, <2>2, <2>3, <3>1, <3>3 DEF Weight
  <2>4. CASE x \notin both
    <3>1. (t \ {x}) \cap both = t \cap both
      BY <2>4
    <3>2. Value(w, t \cap both) \in Nat
      BY ValueType
    <3> QED BY <2>1, <2>2, <2>4, <3>1, <3>2 DEF Weight
  <2> QED BY <2>3, <2>4
<1>5. m[s] = Value(w, both)
  <2>1. s \cap both = both
    OBVIOUS
  <2> QED BY <2>1
<1> HIDE DEF s, m
<1>6. Sums([t \in SUBSET s |-> m[t]], s, f)
  BY <1>2, <1>3, <1>4, SumIsMeasure
<1>7. ASSUME NEW h, Sums(h, s, f) PROVE h[s] = Value(w, both)
  BY <1>1, <1>2, <1>3, <1>4, <1>5, <1>7, SumIs
<1> QED BY <1>6, <1>7 DEF s

\* The number a bitwise operator makes is that of the places where it holds.
LEMMA AndPerBit ==
  ASSUME NEW l, NEW r, NEW w \in Nat, NEW both \in SUBSET (0 .. w - 1),
         \A i \in 0 .. w - 1 : 2 ^ i * (Digit(l.bits, i) * Digit(r.bits, i)) = Weight(both, i)
  PROVE  PerBit(l, r, LAMBDA a, b : a * b, w) = Value(w, both)
<1> DEFINE s == 0 .. w - 1
           Term_(i) == 2 ^ i * (Digit(l.bits, i) * Digit(r.bits, i))
           Adds(h) == h = [t \in SUBSET s |->
                             IF t = {} THEN 0
                             ELSE Term_(CHOOSE x \in t : TRUE) + h[t \ {CHOOSE x \in t : TRUE}]]
           f == [i \in s |-> Term_(i)]
<1>1. PerBit(l, r, LAMBDA a, b : a * b, w) = (CHOOSE h : Adds(h))[s]
  BY DEF PerBit, MapThenSumSet, MapThenFoldSet
<1>2. \A t \in SUBSET s : t # {} => (CHOOSE x \in t : TRUE) \in s
  <2> SUFFICES ASSUME NEW t \in SUBSET s, t # {}
               PROVE  (CHOOSE x \in t : TRUE) \in s
    OBVIOUS
  <2>1. (CHOOSE x \in t : TRUE) \in t
    OBVIOUS
  <2> QED BY <2>1
<1>3. \A i \in s : f[i] = Term_(i) /\ f[i] = Weight(both, i)
  OBVIOUS
<1> HIDE DEF s, f, Term_
<1>4. \A t \in SUBSET s : t # {} => Term_(CHOOSE x \in t : TRUE) = f[CHOOSE x \in t : TRUE]
  BY <1>2, <1>3
<1>5. \A h : Adds(h) <=> Sums(h, s, f)
  BY <1>4 DEF Sums
<1>6. (\E h : Sums(h, s, f)) /\ \A h : Sums(h, s, f) => h[s] = Value(w, both)
  BY <1>3, PlaceSum DEF s
<1> DEFINE g == CHOOSE h : Adds(h)
<1>7. Adds(g)
  BY <1>5, <1>6
<1>8. Sums(g, s, f)
  BY <1>5, <1>7
<1> HIDE DEF g, Adds
<1>9. g[s] = Value(w, both)
  BY <1>6, <1>8
<1> QED BY <1>1, <1>9 DEF g

\* The same for or.
LEMMA OrPerBit ==
  ASSUME NEW l, NEW r, NEW w \in Nat, NEW both \in SUBSET (0 .. w - 1),
         \A i \in 0 .. w - 1 : 2 ^ i * (Digit(l.bits, i) + Digit(r.bits, i) - Digit(l.bits, i) * Digit(r.bits, i)) = Weight(both, i)
  PROVE  PerBit(l, r, LAMBDA a, b : a + b - a * b, w) = Value(w, both)
<1> DEFINE s == 0 .. w - 1
           Term_(i) == 2 ^ i * (Digit(l.bits, i) + Digit(r.bits, i) - Digit(l.bits, i) * Digit(r.bits, i))
           Adds(h) == h = [t \in SUBSET s |->
                             IF t = {} THEN 0
                             ELSE Term_(CHOOSE x \in t : TRUE) + h[t \ {CHOOSE x \in t : TRUE}]]
           f == [i \in s |-> Term_(i)]
<1>1. PerBit(l, r, LAMBDA a, b : a + b - a * b, w) = (CHOOSE h : Adds(h))[s]
  BY DEF PerBit, MapThenSumSet, MapThenFoldSet
<1>2. \A t \in SUBSET s : t # {} => (CHOOSE x \in t : TRUE) \in s
  <2> SUFFICES ASSUME NEW t \in SUBSET s, t # {}
               PROVE  (CHOOSE x \in t : TRUE) \in s
    OBVIOUS
  <2>1. (CHOOSE x \in t : TRUE) \in t
    OBVIOUS
  <2> QED BY <2>1
<1>3. \A i \in s : f[i] = Term_(i) /\ f[i] = Weight(both, i)
  OBVIOUS
<1> HIDE DEF s, f, Term_
<1>4. \A t \in SUBSET s : t # {} => Term_(CHOOSE x \in t : TRUE) = f[CHOOSE x \in t : TRUE]
  BY <1>2, <1>3
<1>5. \A h : Adds(h) <=> Sums(h, s, f)
  BY <1>4 DEF Sums
<1>6. (\E h : Sums(h, s, f)) /\ \A h : Sums(h, s, f) => h[s] = Value(w, both)
  BY <1>3, PlaceSum DEF s
<1> DEFINE g == CHOOSE h : Adds(h)
<1>7. Adds(g)
  BY <1>5, <1>6
<1>8. Sums(g, s, f)
  BY <1>5, <1>7
<1> HIDE DEF g, Adds
<1>9. g[s] = Value(w, both)
  BY <1>6, <1>8
<1> QED BY <1>1, <1>9 DEF g

\* And for exclusive or.
LEMMA XorPerBit ==
  ASSUME NEW l, NEW r, NEW w \in Nat, NEW both \in SUBSET (0 .. w - 1),
         \A i \in 0 .. w - 1 : 2 ^ i * ((Digit(l.bits, i) + Digit(r.bits, i)) % 2) = Weight(both, i)
  PROVE  PerBit(l, r, LAMBDA a, b : (a + b) % 2, w) = Value(w, both)
<1> DEFINE s == 0 .. w - 1
           Term_(i) == 2 ^ i * ((Digit(l.bits, i) + Digit(r.bits, i)) % 2)
           Adds(h) == h = [t \in SUBSET s |->
                             IF t = {} THEN 0
                             ELSE Term_(CHOOSE x \in t : TRUE) + h[t \ {CHOOSE x \in t : TRUE}]]
           f == [i \in s |-> Term_(i)]
<1>1. PerBit(l, r, LAMBDA a, b : (a + b) % 2, w) = (CHOOSE h : Adds(h))[s]
  BY DEF PerBit, MapThenSumSet, MapThenFoldSet
<1>2. \A t \in SUBSET s : t # {} => (CHOOSE x \in t : TRUE) \in s
  <2> SUFFICES ASSUME NEW t \in SUBSET s, t # {}
               PROVE  (CHOOSE x \in t : TRUE) \in s
    OBVIOUS
  <2>1. (CHOOSE x \in t : TRUE) \in t
    OBVIOUS
  <2> QED BY <2>1
<1>3. \A i \in s : f[i] = Term_(i) /\ f[i] = Weight(both, i)
  OBVIOUS
<1> HIDE DEF s, f, Term_
<1>4. \A t \in SUBSET s : t # {} => Term_(CHOOSE x \in t : TRUE) = f[CHOOSE x \in t : TRUE]
  BY <1>2, <1>3
<1>5. \A h : Adds(h) <=> Sums(h, s, f)
  BY <1>4 DEF Sums
<1>6. (\E h : Sums(h, s, f)) /\ \A h : Sums(h, s, f) => h[s] = Value(w, both)
  BY <1>3, PlaceSum DEF s
<1> DEFINE g == CHOOSE h : Adds(h)
<1>7. Adds(g)
  BY <1>5, <1>6
<1>8. Sums(g, s, f)
  BY <1>5, <1>7
<1> HIDE DEF g, Adds
<1>9. g[s] = Value(w, both)
  BY <1>6, <1>8
<1> QED BY <1>1, <1>9 DEF g

\* bitwise_and, digit by digit.
LEMMA BitwiseAndHolds ==
  ASSUME NEW l, IsValued(l), NEW r, IsValued(r), NEW w \in Nat
  PROVE  /\ PerBit(l, r, LAMBDA a, b : a * b, w) \in Int
         /\ Holds(BitwiseAnd(l, r, w), w, PerBit(l, r, LAMBDA a, b : a * b, w))
<1> DEFINE s == Ones(l) \cap Ones(r)
           both == s \cap 0 .. w - 1
<1>1. ASSUME NEW i \in 0 .. w - 1
      PROVE  2 ^ i * (Digit(l.bits, i) * Digit(r.bits, i)) = Weight(both, i)
  <2>1. i \in Nat /\ l.bits \in Int /\ r.bits \in Int
    BY DEF IsValued, VectorRecords
  <2>2. (i \in Ones(l) <=> Digit(l.bits, i) = 1) /\ (i \in Ones(r) <=> Digit(r.bits, i) = 1)
    BY <2>1, DigitsOfVector DEF IsValued
  <2>3. Digit(l.bits, i) \in {0, 1} /\ Digit(r.bits, i) \in {0, 1}
    BY <2>1, DigitType
  <2>4. (Digit(l.bits, i) * Digit(r.bits, i)) = IF i \in both THEN 1 ELSE 0
    BY <2>2, <2>3
  <2>5. 2 ^ i \in Nat
    BY <2>1, PowerPositive
  <2> HIDE DEF both
  <2> QED BY <2>4, <2>5 DEF Weight
<1> HIDE DEF s
<1>2. PerBit(l, r, LAMBDA a, b : a * b, w) = Value(w, both)
  <2>1. both \in SUBSET (0 .. w - 1)
    OBVIOUS
  <2> HIDE DEF both
  <2> QED BY <1>1, <2>1, AndPerBit
<1>3. BitwiseAnd(l, r, w) = FromFn(w, s)
  BY DEF BitwiseAnd, s
<1>4. Value(w, both) \in 0 .. 2 ^ w - 1
  BY ValueDigits
<1>5. Value(w, both) % 2 ^ w = Value(w, both)
  <2> HIDE DEF both
  <2> QED BY <1>4, PowerPositive, ModSmall
<1>6. Holds(BitwiseAnd(l, r, w), w, Value(w, both))
  BY <1>3, <1>5, FromFnBits DEF Holds
<1>7. Value(w, both) \in Int
  BY <1>4
<1> HIDE DEF both
<1> QED BY <1>2, <1>6, <1>7

\* bitwise_or, digit by digit.
LEMMA BitwiseOrHolds ==
  ASSUME NEW l, IsValued(l), NEW r, IsValued(r), NEW w \in Nat
  PROVE  /\ PerBit(l, r, LAMBDA a, b : a + b - a * b, w) \in Int
         /\ Holds(BitwiseOr(l, r, w), w, PerBit(l, r, LAMBDA a, b : a + b - a * b, w))
<1> DEFINE s == Ones(l) \cup Ones(r)
           both == s \cap 0 .. w - 1
<1>1. ASSUME NEW i \in 0 .. w - 1
      PROVE  2 ^ i * (Digit(l.bits, i) + Digit(r.bits, i) - Digit(l.bits, i) * Digit(r.bits, i)) = Weight(both, i)
  <2>1. i \in Nat /\ l.bits \in Int /\ r.bits \in Int
    BY DEF IsValued, VectorRecords
  <2>2. (i \in Ones(l) <=> Digit(l.bits, i) = 1) /\ (i \in Ones(r) <=> Digit(r.bits, i) = 1)
    BY <2>1, DigitsOfVector DEF IsValued
  <2>3. Digit(l.bits, i) \in {0, 1} /\ Digit(r.bits, i) \in {0, 1}
    BY <2>1, DigitType
  <2>4. (Digit(l.bits, i) + Digit(r.bits, i) - Digit(l.bits, i) * Digit(r.bits, i)) = IF i \in both THEN 1 ELSE 0
    BY <2>2, <2>3
  <2>5. 2 ^ i \in Nat
    BY <2>1, PowerPositive
  <2> HIDE DEF both
  <2> QED BY <2>4, <2>5 DEF Weight
<1> HIDE DEF s
<1>2. PerBit(l, r, LAMBDA a, b : a + b - a * b, w) = Value(w, both)
  <2>1. both \in SUBSET (0 .. w - 1)
    OBVIOUS
  <2> HIDE DEF both
  <2> QED BY <1>1, <2>1, OrPerBit
<1>3. BitwiseOr(l, r, w) = FromFn(w, s)
  BY DEF BitwiseOr, s
<1>4. Value(w, both) \in 0 .. 2 ^ w - 1
  BY ValueDigits
<1>5. Value(w, both) % 2 ^ w = Value(w, both)
  <2> HIDE DEF both
  <2> QED BY <1>4, PowerPositive, ModSmall
<1>6. Holds(BitwiseOr(l, r, w), w, Value(w, both))
  BY <1>3, <1>5, FromFnBits DEF Holds
<1>7. Value(w, both) \in Int
  BY <1>4
<1> HIDE DEF both
<1> QED BY <1>2, <1>6, <1>7

\* bitwise_xor, digit by digit.
LEMMA BitwiseXorHolds ==
  ASSUME NEW l, IsValued(l), NEW r, IsValued(r), NEW w \in Nat
  PROVE  /\ PerBit(l, r, LAMBDA a, b : (a + b) % 2, w) \in Int
         /\ Holds(BitwiseXor(l, r, w), w, PerBit(l, r, LAMBDA a, b : (a + b) % 2, w))
<1> DEFINE s == (Ones(l) \cup Ones(r)) \ (Ones(l) \cap Ones(r))
           both == s \cap 0 .. w - 1
<1>1. ASSUME NEW i \in 0 .. w - 1
      PROVE  2 ^ i * ((Digit(l.bits, i) + Digit(r.bits, i)) % 2) = Weight(both, i)
  <2>1. i \in Nat /\ l.bits \in Int /\ r.bits \in Int
    BY DEF IsValued, VectorRecords
  <2>2. (i \in Ones(l) <=> Digit(l.bits, i) = 1) /\ (i \in Ones(r) <=> Digit(r.bits, i) = 1)
    BY <2>1, DigitsOfVector DEF IsValued
  <2>3. Digit(l.bits, i) \in {0, 1} /\ Digit(r.bits, i) \in {0, 1}
    BY <2>1, DigitType
  <2>4. ((Digit(l.bits, i) + Digit(r.bits, i)) % 2) = IF i \in both THEN 1 ELSE 0
    BY <2>2, <2>3
  <2>5. 2 ^ i \in Nat
    BY <2>1, PowerPositive
  <2> HIDE DEF both
  <2> QED BY <2>4, <2>5 DEF Weight
<1> HIDE DEF s
<1>2. PerBit(l, r, LAMBDA a, b : (a + b) % 2, w) = Value(w, both)
  <2>1. both \in SUBSET (0 .. w - 1)
    OBVIOUS
  <2> HIDE DEF both
  <2> QED BY <1>1, <2>1, XorPerBit
<1>3. BitwiseXor(l, r, w) = FromFn(w, s)
  BY DEF BitwiseXor, s
<1>4. Value(w, both) \in 0 .. 2 ^ w - 1
  BY ValueDigits
<1>5. Value(w, both) % 2 ^ w = Value(w, both)
  <2> HIDE DEF both
  <2> QED BY <1>4, PowerPositive, ModSmall
<1>6. Holds(BitwiseXor(l, r, w), w, Value(w, both))
  BY <1>3, <1>5, FromFnBits DEF Holds
<1>7. Value(w, both) \in Int
  BY <1>4
<1> HIDE DEF both
<1> QED BY <1>2, <1>6, <1>7

-----------------------------------------------------------------------------
(* Arithmetic.                                                             *)

\* What holds a number at a positive width is a value of the program.
LEMMA HoldsIsValued ==
  ASSUME NEW v, NEW w \in Nat \ {0}, NEW n, Holds(v, w, n)
  PROVE  IsValued(v) /\ v.width = w
BY DEF Holds, IsValued

\* add, sub and mul of operands extended to the width of the result.
LEMMA AddHolds ==
  ASSUME NEW l, IsValued(l), NEW r, IsValued(r), NEW w \in Nat, NEW s \in BOOLEAN
  PROVE  /\ Meaning(l, s) \in Int /\ Meaning(r, s) \in Int
         /\ Holds(AddBits(Widened(l, w, s), Widened(r, w, s)), w, Meaning(l, s) + Meaning(r, s))
         /\ Holds(SubBits(Widened(l, w, s), Widened(r, w, s)), w, Meaning(l, s) - Meaning(r, s))
         /\ Holds(MulBits(Widened(l, w, s), Widened(r, w, s)), w, Meaning(l, s) * Meaning(r, s))
<1> DEFINE L == Widened(l, w, s)
           R == Widened(r, w, s)
           m == Meaning(l, s)
           n == Meaning(r, s)
<1>1. Holds(L, w, m) /\ Holds(R, w, n) /\ m \in Int /\ n \in Int
  BY WidenedHolds
<1> HIDE DEF L, R, m, n
<1>2. L.bits \in Int /\ R.bits \in Int /\ Congruent(L.bits, m, 2 ^ w) /\ Congruent(R.bits, n, 2 ^ w)
  BY <1>1, HoldsCongruence
<1>3. 2 ^ w \in Nat \ {0}
  BY PowerPositive
<1>4. /\ Congruent(L.bits + R.bits, m + n, 2 ^ w)
      /\ Congruent(L.bits - R.bits, m - n, 2 ^ w)
      /\ Congruent(L.bits * R.bits, m * n, 2 ^ w)
  BY <1>1, <1>2, <1>3, CongruentSum
<1>5. L \in VectorRecords /\ L.width = w
  BY <1>1 DEF Holds
<1>6. ASSUME NEW a \in Int, NEW b \in Int, Congruent(a, b, 2 ^ w)
      PROVE  Holds(Stored(L, a), w, b)
  <2>1. Holds(Stored(L, a), w, a)
    BY <1>5, StoredHolds
  <2> QED BY <1>6, <2>1, HoldsCongruent
<1>7. /\ L.bits + R.bits \in Int /\ L.bits - R.bits \in Int /\ L.bits * R.bits \in Int
      /\ m + n \in Int /\ m - n \in Int /\ m * n \in Int
  BY <1>1, <1>2
<1>8. Holds(Stored(L, L.bits + R.bits), w, m + n)
  BY <1>4, <1>6, <1>7
<1>9. Holds(Stored(L, L.bits - R.bits), w, m - n)
  BY <1>4, <1>6, <1>7
<1>10. Holds(Stored(L, L.bits * R.bits), w, m * n)
  BY <1>4, <1>6, <1>7
<1> QED BY <1>1, <1>8, <1>9, <1>10 DEF AddBits, SubBits, MulBits, L, R, m, n

\* Division of a vector by another; by zero it is all ones.
LEMMA DivideHolds ==
  ASSUME NEW l, l \in VectorRecords, NEW r, r \in VectorRecords
  PROVE  /\ r.bits = 0 => Holds(DivUnsigned(l, r), l.width, -1)
         /\ r.bits # 0 => /\ l.bits \div r.bits \in Nat
                          /\ Holds(DivUnsigned(l, r), l.width, l.bits \div r.bits)
<1>1. l.width \in Nat /\ l.bits \in Nat /\ r.bits \in Nat
  BY DEF VectorRecords
<1>2. ASSUME r.bits = 0 PROVE Holds(DivUnsigned(l, r), l.width, -1)
  <2>1. PICK d \in Nat : StorageType(l.width) = l.width + d
    BY <1>1, StorageFits
  <2>2. PICK p \in Nat \ {0}, e \in Nat \ {0} :
          p = 2 ^ l.width /\ e = 2 ^ d /\ 2 ^ StorageType(l.width) = p * e
    <3>1. 2 ^ (l.width + d) = 2 ^ l.width * 2 ^ d
      BY <1>1, PowerSum
    <3>2. 2 ^ l.width \in Nat \ {0} /\ 2 ^ d \in Nat \ {0}
      BY <1>1, PowerPositive
    <3> QED BY <2>1, <3>1, <3>2
  <2>3. p * e - 1 = -1 + p * e /\ e \in Int /\ p * e - 1 \in Int /\ -1 \in Int
    OBVIOUS
  <2>4. Congruent(p * e - 1, -1, p)
    BY <2>3 DEF Congruent
  <2>5. Holds(Stored(l, p * e - 1), l.width, p * e - 1)
    BY <2>3, StoredHolds
  <2>6. Holds(Stored(l, p * e - 1), l.width, -1)
    BY <1>1, <2>2, <2>3, <2>4, <2>5, HoldsCongruent
  <2> QED BY <1>2, <2>2, <2>6 DEF DivUnsigned
<1>3. ASSUME r.bits # 0
      PROVE  l.bits \div r.bits \in Nat /\ Holds(DivUnsigned(l, r), l.width, l.bits \div r.bits)
  <2>1. l.bits \div r.bits \in Nat
    BY <1>1, <1>3
  <2>2. l.bits \div r.bits \in Int
    BY <2>1
  <2>3. Holds(Stored(l, l.bits \div r.bits), l.width, l.bits \div r.bits)
    BY <2>2, StoredHolds
  <2> QED BY <1>3, <2>1, <2>3 DEF DivUnsigned
<1> QED BY <1>2, <1>3

Absolute(n) == IF n < 0 THEN - n ELSE n

\* The magnitude always fits: that of the smallest number is the power itself.
LEMMA MagnitudeHolds ==
  ASSUME NEW v, IsValued(v)
  PROVE  /\ Magnitude(v) \in VectorRecords /\ IsVector(Magnitude(v))
         /\ Magnitude(v).width = v.width /\ Magnitude(v).bits = Absolute(Signed(v))
<1>1. v \in VectorRecords /\ IsVector(v) /\ v.width \in Nat
  BY DEF IsValued, VectorRecords
<1>2. PICK half \in Nat \ {0}, rest \in Nat :
           /\ half = 2 ^ (v.width - 1) /\ 2 ^ v.width = half + half /\ rest < half
           /\ v.bits = rest + (IF SignBit(v) THEN half ELSE 0)
           /\ Signed(v) = rest - (IF SignBit(v) THEN half ELSE 0)
  BY SignSplits
<1>3. CASE SignBit(v)
  <2>1. Holds(NegateBits(v), v.width, - v.bits)
    BY <1>1, NegateHolds
  <2>2. - v.bits = (half - rest) + (half + half) * (-1) /\ half - rest \in 0 .. (half + half) - 1
        /\ Absolute(Signed(v)) = half - rest
    BY <1>2, <1>3 DEF Absolute
  <2>3. PICK b \in Int, c \in 0 .. (half + half) - 1, q \in Int, p \in Nat \ {0} :
          b = - v.bits /\ c = half - rest /\ q = -1 /\ p = half + half
    BY <1>2, <2>2
  <2>4. b = c + p * q /\ c \in 0 .. p - 1
    BY <2>2, <2>3
  <2>5. b % p = c
    BY <2>4, DivisionOf
  <2>6. NegateBits(v).bits = half - rest
    BY <1>2, <2>1, <2>3, <2>5 DEF Holds
  <2> QED BY <1>3, <2>1, <2>2, <2>6 DEF Holds, Magnitude
<1>4. CASE ~ SignBit(v)
  <2>1. Absolute(Signed(v)) = v.bits
    BY <1>2, <1>4 DEF Absolute
  <2> QED BY <1>1, <1>4, <2>1 DEF Magnitude
<1> QED BY <1>3, <1>4

\* div_signed rounds toward zero; by zero it is -1, or 1 for a negative
\* dividend.
LEMMA DivideSignedHolds ==
  ASSUME NEW l, IsValued(l), NEW r, IsValued(r)
  PROVE  /\ Quotient(Signed(l), Signed(r)) \in Int
         /\ Holds(DivSigned(l, r), l.width, Quotient(Signed(l), Signed(r)))
<1> DEFINE a == Signed(l)
           b == Signed(r)
           L == Magnitude(l)
           R == Magnitude(r)
           D == DivUnsigned(L, R)
<1>1. /\ a \in Int /\ b \in Int /\ (SignBit(l) <=> a < 0) /\ (SignBit(r) <=> b < 0)
      /\ l.width \in Nat \ {0}
  BY SignedType DEF IsValued, VectorRecords
<1>2. /\ L \in VectorRecords /\ L.width = l.width /\ L.bits = Absolute(a)
      /\ R \in VectorRecords /\ R.bits = Absolute(b)
  BY MagnitudeHolds
<1>3. DivSigned(l, r) = IF SignBit(l) # SignBit(r) THEN NegateBits(D) ELSE D
  BY <1>1 DEF DivSigned
<1>4. /\ R.bits = 0 => Holds(D, L.width, -1)
      /\ R.bits # 0 => /\ L.bits \div R.bits \in Nat
                       /\ Holds(D, L.width, L.bits \div R.bits)
  <2> HIDE DEF L, R
  <2> QED BY <1>2, DivideHolds
<1>5. SignBit(l) \in BOOLEAN /\ SignBit(r) \in BOOLEAN
  BY DEF SignBit, BitSet
<1> DEFINE q == IF b = 0 THEN -1 ELSE Absolute(a) \div Absolute(b)
<1>6. q \in Int /\ Holds(D, l.width, q)
  <2> HIDE DEF a, b, L, R, D
  <2>1. Absolute(b) = 0 <=> b = 0
    BY <1>1 DEF Absolute
  <2>2. CASE b = 0
    BY <1>2, <1>4, <2>1, <2>2
  <2>3. CASE b # 0
    BY <1>2, <1>4, <2>1, <2>3
  <2> QED BY <2>2, <2>3
<1>7. Quotient(a, b) = IF (a < 0) # (b < 0) THEN - q ELSE q
  <2> HIDE DEF a, b
  <2>1. CASE b = 0
    BY <1>1, <2>1 DEF Quotient
  <2>2. CASE b # 0
    BY <1>1, <2>2 DEF Quotient, Magnitudes, Absolute
  <2> QED BY <2>1, <2>2
<1> HIDE DEF a, b, L, R, D, q
<1>8. Holds(NegateBits(D), l.width, - q) /\ - q \in Int
  <2>1. D \in VectorRecords /\ D.width = l.width /\ D.bits \in Int /\ Congruent(D.bits, q, 2 ^ l.width)
    BY <1>1, <1>6, HoldsCongruence DEF Holds
  <2>2. Holds(NegateBits(D), l.width, - D.bits) /\ - D.bits \in Int
    BY <2>1, NegateHolds
  <2>3. PICK k \in Int : D.bits = q + 2 ^ l.width * k
    BY <2>1 DEF Congruent
  <2>4. PICK p \in Nat \ {0} : p = 2 ^ l.width
    BY <1>1, PowerPositive
  <2>5. - D.bits = (- q) + p * (- k) /\ - k \in Int /\ - q \in Int
    <3>1. p * (- k) = - (p * k)
      OBVIOUS
    <3> QED BY <1>6, <2>3, <2>4, <3>1
  <2>6. Congruent(- D.bits, - q, p)
    BY <2>5 DEF Congruent
  <2> QED BY <1>1, <2>2, <2>4, <2>5, <2>6, HoldsCongruent
<1>9. CASE (a < 0) # (b < 0)
  <2>1. SignBit(l) # SignBit(r)
    BY <1>1, <1>5, <1>9
  <2> QED BY <1>3, <1>7, <1>8, <1>9, <2>1 DEF a, b
<1>10. CASE ~ ((a < 0) # (b < 0))
  <2>1. ~ (SignBit(l) # SignBit(r))
    BY <1>1, <1>5, <1>10
  <2> QED BY <1>3, <1>6, <1>7, <1>10, <2>1 DEF a, b
<1> QED BY <1>9, <1>10

\* A power is at least those below it.
LEMMA PowerMonotone ==
  ASSUME NEW m \in Nat, NEW n \in Nat, m <= n
  PROVE  2 ^ m <= 2 ^ n
<1>1. PICK d \in Nat : n = m + d
  <2>1. n - m \in Nat /\ n = m + (n - m)
    OBVIOUS
  <2> QED BY <2>1
<1>2. 2 ^ n = 2 ^ m * 2 ^ d /\ 2 ^ d \in Nat \ {0} /\ 2 ^ m \in Nat \ {0}
  BY <1>1, PowerSum, PowerPositive
<1>3. \A p \in Nat \ {0}, e \in Nat \ {0} : p <= p * e
  OBVIOUS
<1> QED BY <1>2, <1>3

\* Extending a signed number to a larger width keeps it.
LEMMA SignedWidened ==
  ASSUME NEW l, IsValued(l), NEW w \in Nat, l.width <= w,
         NEW v, Holds(v, w, Signed(l))
  PROVE  IsValued(v) /\ v.width = w /\ Signed(v) = Signed(l)
<1>1. l.width \in Nat /\ l.width > 0 /\ w > 0
  BY DEF IsValued, VectorRecords
<1>2. IsValued(v) /\ v.width = w
  BY <1>1, HoldsIsValued
<1>3. PICK half \in Nat \ {0}, rest \in Nat :
           /\ half = 2 ^ (l.width - 1) /\ 2 ^ l.width = half + half /\ rest < half
           /\ l.bits = rest + (IF SignBit(l) THEN half ELSE 0)
           /\ Signed(l) = rest - (IF SignBit(l) THEN half ELSE 0)
  BY SignSplits
<1>4. PICK big \in Nat \ {0}, low \in Nat :
           /\ big = 2 ^ (v.width - 1) /\ 2 ^ v.width = big + big /\ low < big
           /\ v.bits = low + (IF SignBit(v) THEN big ELSE 0)
           /\ Signed(v) = low - (IF SignBit(v) THEN big ELSE 0)
  BY <1>2, SignSplits
<1>5. half <= big
  <2>1. l.width - 1 \in Nat /\ w - 1 \in Nat /\ l.width - 1 <= w - 1
    BY <1>1
  <2> QED BY <1>2, <1>3, <1>4, <2>1, PowerMonotone
<1>6. PICK k \in Int : Signed(l) = Signed(v) + (big + big) * k
  <2>1. Signed(l) \in Int /\ Signed(v) \in Int /\ 2 ^ w \in Nat \ {0} /\ v.bits \in Int
    BY <1>2, <1>3, <1>4, PowerPositive
  <2>2. Congruent(Signed(v), v.bits, 2 ^ w)
    BY <1>2, SignedType
  <2>3. Signed(v) % 2 ^ w = v.bits % 2 ^ w
    BY <2>1, <2>2, CongruentMod
  <2>4. v.bits % 2 ^ w = v.bits
    BY <1>2, HoldsSelf DEF Holds, IsValued
  <2>5. Signed(l) % 2 ^ w = v.bits
    BY DEF Holds
  <2>6. Congruent(Signed(l), Signed(v), 2 ^ w)
    BY <2>1, <2>3, <2>4, <2>5, CongruentMod
  <2> QED BY <1>2, <1>4, <2>6 DEF Congruent
<1>7. Signed(l) - Signed(v) < big + big /\ Signed(v) - Signed(l) < big + big
  BY <1>3, <1>4, <1>5
<1>8. k = 0
  <2>1. PICK d \in Int, p \in Nat \ {0} : d = Signed(l) - Signed(v) /\ p = big + big
    BY <1>3, <1>4
  <2>2. d = p * k /\ d < p /\ - d < p
    BY <1>3, <1>4, <1>6, <1>7, <2>1
  <2>3. k >= 1 => p * k >= p
    OBVIOUS
  <2>4. k <= -1 => p * k <= - p
    OBVIOUS
  <2> QED BY <2>2, <2>3, <2>4
<1> QED BY <1>2, <1>3, <1>4, <1>6, <1>8

-----------------------------------------------------------------------------
(* Comparison from the highest bit.                                        *)

\* Numbers with the same digits from a place on are the same from there on.
LEMMA SameAbove ==
  ASSUME NEW w \in Nat, NEW k \in 0 .. w, NEW a \in 0 .. 2 ^ w - 1, NEW b \in 0 .. 2 ^ w - 1,
         \A i \in k .. w - 1 : Digit(a, i) = Digit(b, i)
  PROVE  a \div 2 ^ k = b \div 2 ^ k
<1> DEFINE e == w - k
           x == a \div 2 ^ k
           y == b \div 2 ^ k
<1>1. e \in Nat /\ w = k + e /\ a \in Int /\ b \in Int /\ k \in Nat
  OBVIOUS
<1>2. 2 ^ k \in Nat \ {0} /\ 2 ^ e \in Nat \ {0} /\ 2 ^ w = 2 ^ k * 2 ^ e
  <2> HIDE DEF e
  <2>1. 2 ^ (k + e) = 2 ^ k * 2 ^ e
    BY <1>1, PowerSum
  <2> QED BY <1>1, <2>1, PowerPositive
<1>3. ASSUME NEW n \in 0 .. 2 ^ w - 1 PROVE n \div 2 ^ k \in 0 .. 2 ^ e - 1
  <2>1. PICK p \in Nat \ {0}, q \in Nat \ {0} : p = 2 ^ k /\ q = 2 ^ e /\ 2 ^ w = p * q
    BY <1>2
  <2>2. PICK c \in Int, r \in 0 .. p - 1 : c = n \div p /\ n = r + p * c
    <3>1. n \in Int
      OBVIOUS
    <3> QED BY <2>1, <3>1, DivMod
  <2>3. n < p * q /\ n >= 0
    BY <2>1, <1>2
  <2>4. c < q
    <3>1. c >= q => p * c >= p * q
      OBVIOUS
    <3> QED BY <2>2, <2>3, <3>1
  <2>5. c >= 0
    <3>1. c <= -1 => p * c <= - p
      OBVIOUS
    <3> QED BY <2>2, <2>3, <3>1
  <2> QED BY <2>1, <2>2, <2>4, <2>5
<1>4. x \in 0 .. 2 ^ e - 1 /\ y \in 0 .. 2 ^ e - 1
  BY <1>3
<1>5. ASSUME NEW i \in 0 .. e - 1 PROVE Digit(x, i) = Digit(y, i)
  <2>1. i \in Nat /\ k + i \in k .. w - 1
    BY <1>1
  <2>2. Digit(x, i) = Digit(a, k + i) /\ Digit(y, i) = Digit(b, k + i)
    BY <1>1, <2>1, DigitOfQuotient
  <2> QED BY <2>1, <2>2
<1> HIDE DEF e, x, y
<1>6. x % 2 ^ e = x /\ y % 2 ^ e = y
  BY <1>2, <1>4, ModSmall
<1> DEFINE s == {i \in 0 .. e - 1 : Digit(x, i) = 1}
<1>7. s \in SUBSET (0 .. e - 1) /\ x \in Int /\ y \in Int
      /\ \A i \in 0 .. e - 1 : (i \in s <=> Digit(x, i) = 1) /\ (i \in s <=> Digit(y, i) = 1)
  BY <1>4, <1>5
<1> HIDE DEF s
<1>8. Value(e, s) = x % 2 ^ e
  BY <1>1, <1>7, NumberByDigits
<1>9. Value(e, s) = y % 2 ^ e
  BY <1>1, <1>7, NumberByDigits
<1> QED BY <1>6, <1>8, <1>9 DEF x, y

\* The highest place of a set.
LEMMA HighestPlace ==
  ASSUME NEW w \in Nat, NEW T, T \subseteq 0 .. w - 1, T # {}
  PROVE  Max(T) \in T /\ \A y \in T : y <= Max(T)
<1> DEFINE M == {w - x : x \in T}
<1>1. M \subseteq Nat /\ M # {}
  <2>1. \A x \in T : w - x \in Nat
    OBVIOUS
  <2>2. PICK x \in T : TRUE
    OBVIOUS
  <2> QED BY <2>1, <2>2
<1>2. PICK m \in M : \A y \in M : m <= y
  <2> HIDE DEF M
  <2> QED BY <1>1, LeastNatural
<1>3. PICK x \in T : m = w - x
  OBVIOUS
<1>4. \A y \in T : x >= y
  <2>1. \A y \in T : w - x <= w - y
    BY <1>2, <1>3
  <2> QED BY <2>1
<1>5. Max(T) \in T /\ \A y \in T : Max(T) >= y
  BY <1>4 DEF Max
<1>6. \A y \in T : y \in Int
  OBVIOUS
<1> QED BY <1>5, <1>6

\* The highest bit that differs decides, as it does for the numbers.
LEMMA ComparedIsOrder ==
  ASSUME NEW l, l \in VectorRecords, IsVector(l), NEW r, r \in VectorRecords, IsVector(r),
         NEW w \in Nat, l.width <= w, r.width <= w
  PROVE  ComparedFromTop(l, r, w) = Order(l.bits, r.bits)
<1> DEFINE a == l.bits
           b == r.bits
           differ == {i \in 0 .. w - 1 : BitSet(l, i) # BitSet(r, i)}
<1>1. a \in 0 .. 2 ^ w - 1 /\ b \in 0 .. 2 ^ w - 1 /\ 2 ^ w \in Nat
  <2>1. l.width \in Nat /\ r.width \in Nat /\ a \in 0 .. 2 ^ l.width - 1 /\ b \in 0 .. 2 ^ r.width - 1
    BY DEF IsVector
  <2>2. 2 ^ l.width <= 2 ^ w /\ 2 ^ r.width <= 2 ^ w
    BY <2>1, PowerMonotone
  <2>3. 2 ^ l.width \in Nat /\ 2 ^ r.width \in Nat /\ 2 ^ w \in Nat
    BY <2>1, PowerPositive
  <2> QED BY <2>1, <2>2, <2>3
<1>2. \A i \in Nat : /\ Digit(a, i) \in {0, 1} /\ Digit(b, i) \in {0, 1}
                     /\ BitSet(l, i) <=> Digit(a, i) = 1
                     /\ BitSet(r, i) <=> Digit(b, i) = 1
                     /\ BitSet(l, i) \in BOOLEAN /\ BitSet(r, i) \in BOOLEAN
  <2> SUFFICES ASSUME NEW i \in Nat
               PROVE /\ Digit(a, i) \in {0, 1} /\ Digit(b, i) \in {0, 1}
                     /\ BitSet(l, i) <=> Digit(a, i) = 1
                     /\ BitSet(r, i) <=> Digit(b, i) = 1
                     /\ BitSet(l, i) \in BOOLEAN /\ BitSet(r, i) \in BOOLEAN
    OBVIOUS
  <2>1. BitSet(l, i) \in BOOLEAN /\ BitSet(r, i) \in BOOLEAN
    BY DEF BitSet
  <2>2. a \in Int /\ b \in Int
    BY DEF VectorRecords
  <2> QED BY <2>1, <2>2, DigitType, DigitsOfVector
<1>3. \A i \in 0 .. w - 1 : i \in differ <=> Digit(a, i) # Digit(b, i)
  BY <1>2
<1>4. differ \subseteq 0 .. w - 1
  OBVIOUS
<1>5. ComparedFromTop(l, r, w)
        = IF differ = {} THEN 0 ELSE IF BitSet(l, Max(differ)) THEN 1 ELSE -1
  BY DEF ComparedFromTop
<1> HIDE DEF differ, a, b
<1>6. CASE differ = {}
  <2>1. \A i \in 0 .. w - 1 : Digit(a, i) = Digit(b, i)
    BY <1>3, <1>6
  <2>2. a \div 2 ^ 0 = b \div 2 ^ 0
    <3>1. 0 \in 0 .. w
      OBVIOUS
    <3> QED BY <1>1, <2>1, <3>1, SameAbove
  <2>3. a \div 2 ^ 0 = a /\ b \div 2 ^ 0 = b
    <3>1. a \in Int /\ b \in Int /\ 2 ^ 0 = 1
      BY <1>1
    <3> QED BY <3>1
  <2> QED BY <1>1, <1>5, <1>6, <2>2, <2>3 DEF Order, a, b
<1>7. CASE differ # {}
  <2>1. PICK top : top = Max(differ) /\ top \in differ /\ \A y \in differ : y <= top
    BY <1>4, <1>7, HighestPlace
  <2>2. top \in 0 .. w - 1 /\ top \in Nat /\ top + 1 \in 0 .. w /\ top + 1 \in Nat
    BY <1>4, <2>1
  <2>3. a \div 2 ^ (top + 1) = b \div 2 ^ (top + 1)
    <3>1. \A i \in top + 1 .. w - 1 : Digit(a, i) = Digit(b, i)
      BY <1>3, <2>1, <2>2
    <3> QED BY <1>1, <2>2, <3>1, SameAbove
  <2> DEFINE p == 2 ^ top
             q == a \div 2 ^ (top + 1)
  <2>4. p \in Nat \ {0} /\ 2 ^ (top + 1) = p + p
    BY <2>2, PowerStep, PowerPositive
  \* Each number is what is below the place, the digit there, and what is above.
  <2>5. ASSUME NEW n \in Int
        PROVE  \E low \in 0 .. p - 1 : n = low + p * Digit(n, top) + (p + p) * (n \div 2 ^ (top + 1))
    <3>1. n = (n % p) + p * (n \div p) /\ n % p \in 0 .. p - 1 /\ n \div p \in Int
      BY <2>4, DivMod
    <3>2. (n \div p) % 2 = Digit(n, top)
      BY DEF Digit
    <3>3. (n \div p) \div 2 = n \div 2 ^ (top + 1)
      <4>1. (n \div p) \div 2 = n \div (p * 2)
        BY <2>4, DivDiv
      <4>2. p * 2 = p + p
        BY <2>4
      <4> QED BY <2>4, <4>1, <4>2
    <3>4. n \div p = Digit(n, top) + 2 * (n \div 2 ^ (top + 1)) /\ n \div 2 ^ (top + 1) \in Int
          /\ Digit(n, top) \in Int
      <4>1. 2 \in Nat \ {0}
        OBVIOUS
      <4>2. n \div p = ((n \div p) % 2) + 2 * ((n \div p) \div 2) /\ (n \div p) \div 2 \in Int
            /\ (n \div p) % 2 \in 0 .. 2 - 1
        BY <3>1, <4>1, DivMod
      <4> QED BY <3>2, <3>3, <4>2
    <3>5. PICK low \in 0 .. p - 1, c \in Int, d \in Int, u \in Int :
            low = n % p /\ c = n \div p /\ d = Digit(n, top) /\ u = n \div 2 ^ (top + 1)
      BY <3>1, <3>4
    <3>6. n = low + p * c /\ c = d + 2 * u
      BY <3>1, <3>4, <3>5
    <3>7. \A g \in Nat : g * (d + 2 * u) = g * d + (g + g) * u
      OBVIOUS
    <3>8. n = low + p * d + (p + p) * u
      BY <2>4, <3>6, <3>7
    <3> QED BY <3>5, <3>8
  <2>6. a \in Int /\ b \in Int
    BY <1>1
  <2> HIDE DEF p, q
  <2>7. PICK low \in 0 .. p - 1 : a = low + p * Digit(a, top) + (p + p) * q
    BY <2>5, <2>6 DEF q
  <2>8. PICK less \in 0 .. p - 1 : b = less + p * Digit(b, top) + (p + p) * q
    BY <2>3, <2>5, <2>6 DEF q
  <2>9. q \in Int
    <3>1. 2 ^ (top + 1) \in Nat \ {0}
      BY <2>4
    <3> QED BY <2>6, <3>1, DivMod DEF q
  <2>10. PICK g \in Int : g = (p + p) * q
    BY <2>4, <2>9
  <2>11. Digit(a, top) # Digit(b, top) /\ Digit(a, top) \in {0, 1} /\ Digit(b, top) \in {0, 1}
    BY <1>2, <1>3, <2>1, <2>2
  <2>12. CASE Digit(a, top) = 1
    <3>1. Digit(b, top) = 0
      BY <2>11, <2>12
    <3>2. a = low + p + g /\ b = less + g
      BY <2>4, <2>7, <2>8, <2>10, <2>12, <3>1
    <3>3. a > b
      BY <2>4, <2>10, <3>2
    <3>4. BitSet(l, top)
      BY <1>2, <2>2, <2>12
    <3> QED BY <1>1, <1>5, <1>7, <2>1, <3>3, <3>4 DEF Order, a, b
  <2>13. CASE Digit(a, top) = 0
    <3>1. Digit(b, top) = 1
      BY <2>11, <2>13
    <3>2. a = low + g /\ b = less + p + g
      BY <2>4, <2>7, <2>8, <2>10, <2>13, <3>1
    <3>3. a < b
      BY <2>4, <2>10, <3>2
    <3>4. ~ BitSet(l, top)
      BY <1>2, <2>2, <2>13
    <3> QED BY <1>1, <1>5, <1>7, <2>1, <3>3, <3>4 DEF Order, a, b
  <2> QED BY <2>11, <2>12, <2>13
<1> QED BY <1>6, <1>7

\* The wider of two widths.
LEMMA WiderWidth ==
  ASSUME NEW l, IsValued(l), NEW r, IsValued(r)
  PROVE  Wider(l, r) \in Nat /\ l.width <= Wider(l, r) /\ r.width <= Wider(l, r)
<1>1. l.width \in Nat /\ r.width \in Nat
  BY DEF IsValued, VectorRecords
<1>2. \E x \in {l.width, r.width} : \A y \in {l.width, r.width} : x >= y
  BY <1>1
<1>3. Wider(l, r) \in {l.width, r.width} /\ \A y \in {l.width, r.width} : Wider(l, r) >= y
  BY <1>2 DEF Wider, Max
<1> QED BY <1>1, <1>3

\* A number extends to a larger width unchanged.
LEMMA UnsignedWidened ==
  ASSUME NEW l, IsValued(l), NEW w \in Nat, l.width <= w
  PROVE  /\ l.bits % 2 ^ w = l.bits
         /\ \A v : Holds(v, w, l.bits) => v.bits = l.bits
<1>1. l.width \in Nat /\ l.bits \in 0 .. 2 ^ l.width - 1 /\ 2 ^ l.width \in Nat /\ 2 ^ w \in Nat \ {0}
      /\ 2 ^ l.width <= 2 ^ w
  BY PowerPositive, PowerMonotone DEF IsValued, VectorRecords, IsVector
<1>2. l.bits \in 0 .. 2 ^ w - 1
  BY <1>1
<1>3. l.bits % 2 ^ w = l.bits
  BY <1>1, <1>2, ModSmall
<1> QED BY <1>3 DEF Holds

\* == of operands resized to the wider of the two.
LEMMA EqualIsOrder ==
  ASSUME NEW l, IsValued(l), NEW r, IsValued(r)
  PROVE  (Widened(l, Wider(l, r), FALSE) = Widened(r, Wider(l, r), FALSE))
           <=> Order(l.bits, r.bits) = 0
<1> DEFINE w == Wider(l, r)
           L == Widened(l, w, FALSE)
           R == Widened(r, w, FALSE)
<1>1. w \in Nat /\ l.width <= w /\ r.width <= w
  BY WiderWidth
<1>2. l.bits \in Int /\ r.bits \in Int
  BY DEF IsValued, VectorRecords
<1> HIDE DEF w
<1>3. Holds(L, w, l.bits) /\ Holds(R, w, r.bits)
  <2>1. Meaning(l, FALSE) = l.bits /\ Meaning(r, FALSE) = r.bits
    BY DEF Meaning
  <2>2. Holds(L, w, Meaning(l, FALSE)) /\ Holds(R, w, Meaning(r, FALSE))
    BY <1>1, WidenedHolds
  <2> QED BY <2>1, <2>2
<1> HIDE DEF L, R
<1>4. L.bits = l.bits /\ R.bits = r.bits
  BY <1>1, <1>3, UnsignedWidened
<1>5. L = R <=> l.bits = r.bits
  <2>1. L \in VectorRecords /\ R \in VectorRecords /\ L.width = w /\ R.width = w
    BY <1>3 DEF Holds
  <2> QED BY <1>4, <2>1 DEF VectorRecords
<1>6. Order(l.bits, r.bits) = 0 <=> l.bits = r.bits
  BY <1>2 DEF Order
<1> QED BY <1>5, <1>6 DEF L, R, w

\* cmp_unsigned orders vectors as their numbers are.
LEMMA CmpUnsignedIsOrder ==
  ASSUME NEW l, IsValued(l), NEW r, IsValued(r)
  PROVE  CmpUnsigned(l, r) = Order(l.bits, r.bits)
BY WiderWidth, ComparedIsOrder DEF CmpUnsigned, IsValued

\* cmp_signed orders vectors as their signed readings are.
LEMMA CmpSignedIsOrder ==
  ASSUME NEW l, IsValued(l), NEW r, IsValued(r)
  PROVE  CmpSigned(l, r) = Order(Signed(l), Signed(r))
<1> DEFINE w == Wider(l, r)
           L == Resize(l, w, TRUE)
           R == Resize(r, w, TRUE)
<1>1. w \in Nat /\ l.width <= w /\ r.width <= w
  BY WiderWidth
<1>2. /\ Signed(l) \in Int /\ Signed(r) \in Int
      /\ (SignBit(l) <=> Signed(l) < 0) /\ (SignBit(r) <=> Signed(r) < 0)
  BY SignedType
<1> HIDE DEF w
<1>3. Holds(L, w, Signed(l)) /\ Holds(R, w, Signed(r))
  <2>1. Meaning(l, TRUE) = Signed(l) /\ Meaning(r, TRUE) = Signed(r)
    BY DEF Meaning
  <2>2. Holds(L, w, Meaning(l, TRUE)) /\ Holds(R, w, Meaning(r, TRUE))
    BY <1>1, ResizeHolds
  <2> QED BY <2>1, <2>2
<1>4. SignBit(l) \in BOOLEAN /\ SignBit(r) \in BOOLEAN
  BY DEF SignBit, BitSet
<1>5. CASE SignBit(l) /\ ~ SignBit(r)
  <2>1. CmpSigned(l, r) = -1
    BY <1>5 DEF CmpSigned
  <2> QED BY <1>2, <1>5, <2>1 DEF Order
<1>6. CASE ~ SignBit(l) /\ SignBit(r)
  <2>1. CmpSigned(l, r) = 1
    BY <1>6 DEF CmpSigned
  <2> QED BY <1>2, <1>6, <2>1 DEF Order
<1>7. CASE SignBit(l) = SignBit(r)
  <2>1. CmpSigned(l, r) = ComparedFromTop(L, R, w)
    <3>1. ~ (SignBit(l) /\ ~ SignBit(r)) /\ ~ (~ SignBit(l) /\ SignBit(r))
      BY <1>7
    <3> QED BY <3>1 DEF CmpSigned, w
  <2> HIDE DEF L, R
  <2>2. ComparedFromTop(L, R, w) = Order(L.bits, R.bits)
    <3>1. /\ L \in VectorRecords /\ IsVector(L) /\ L.width = w
          /\ R \in VectorRecords /\ IsVector(R) /\ R.width = w
      BY <1>3 DEF Holds
    <3>2. w <= w
      BY <1>1
    <3> QED BY <1>1, <3>1, <3>2, ComparedIsOrder
  <2>3. /\ IsValued(L) /\ L.width = w /\ Signed(L) = Signed(l)
        /\ IsValued(R) /\ R.width = w /\ Signed(R) = Signed(r)
    BY <1>1, <1>3, SignedWidened
  <2>4. PICK half \in Nat \ {0}, rest \in Nat :
           /\ half = 2 ^ (L.width - 1) /\ rest < half
           /\ L.bits = rest + (IF SignBit(L) THEN half ELSE 0)
           /\ Signed(L) = rest - (IF SignBit(L) THEN half ELSE 0)
    BY <2>3, SignSplits
  <2>5. PICK big \in Nat \ {0}, low \in Nat :
           /\ big = 2 ^ (R.width - 1) /\ low < big
           /\ R.bits = low + (IF SignBit(R) THEN big ELSE 0)
           /\ Signed(R) = low - (IF SignBit(R) THEN big ELSE 0)
    BY <2>3, SignSplits
  <2>6. half = big /\ (SignBit(L) <=> SignBit(l)) /\ (SignBit(R) <=> SignBit(r))
    <3>1. (SignBit(L) <=> Signed(L) < 0) /\ (SignBit(R) <=> Signed(R) < 0)
      BY <2>3, SignedType
    <3> QED BY <1>2, <2>3, <2>4, <2>5, <3>1
  <2>7. Order(L.bits, R.bits) = Order(Signed(L), Signed(R))
    <3>1. CASE SignBit(l)
      <4>1. /\ L.bits = rest + half /\ Signed(L) = rest - half
            /\ R.bits = low + half /\ Signed(R) = low - half
        BY <1>4, <1>7, <2>4, <2>5, <2>6, <3>1
      <4> QED BY <4>1 DEF Order
    <3>2. CASE ~ SignBit(l)
      <4>1. L.bits = rest /\ Signed(L) = rest /\ R.bits = low /\ Signed(R) = low
        BY <1>4, <1>7, <2>4, <2>5, <2>6, <3>2
      <4> QED BY <4>1 DEF Order
    <3> QED BY <3>1, <3>2
  <2> QED BY <2>1, <2>2, <2>3, <2>7
<1> QED BY <1>4, <1>5, <1>6, <1>7

-----------------------------------------------------------------------------
(* Selections, shifts, concatenation.                                      *)

\* select divides by a power of two.
LEMMA SelectHolds ==
  ASSUME NEW v, IsValued(v), NEW start \in Nat, NEW w \in Nat
  PROVE  v.bits \div 2 ^ start \in Int /\ Holds(Select(v, start, w), w, v.bits \div 2 ^ start)
<1>1. v \in VectorRecords /\ IsVector(v) /\ v.width \in Nat /\ v.bits \in Int
      /\ 2 ^ start \in Nat \ {0}
  BY PowerPositive DEF IsValued, VectorRecords
<1>2. v.bits \div 2 ^ start \in Int
  BY <1>1, DivMod
<1> DEFINE s == {i \in 0 .. w - 1 : BitSet(v, start + i)}
<1>3. ASSUME NEW i \in 0 .. w - 1
      PROVE  i \in s <=> Digit(v.bits \div 2 ^ start, i) = 1
  <2>1. i \in Nat /\ start + i \in Nat
    OBVIOUS
  <2>2. BitSet(v, start + i) <=> Digit(v.bits, start + i) = 1
    BY <1>1, <2>1, DigitsOfVector
  <2>3. Digit(v.bits \div 2 ^ start, i) = Digit(v.bits, start + i)
    BY <1>1, <2>1, DigitOfQuotient
  <2> QED BY <2>2, <2>3
<1>4. Select(v, start, w) = FromFn(w, s)
  BY DEF Select
<1> HIDE DEF s
<1> QED BY <1>2, <1>3, <1>4, FromFnHolds

\* concat puts the left operand above the right one.
LEMMA ConcatHolds ==
  ASSUME NEW l, IsValued(l), NEW r, IsValued(r), NEW w \in Nat
  PROVE  /\ l.bits * 2 ^ r.width + r.bits \in Int
         /\ Holds(Concat(l, r, w), w, l.bits * 2 ^ r.width + r.bits)
<1>1. /\ l \in VectorRecords /\ IsVector(l) /\ l.bits \in Int
      /\ r \in VectorRecords /\ IsVector(r) /\ r.width \in Nat /\ r.bits \in 0 .. 2 ^ r.width - 1
      /\ 2 ^ r.width \in Nat \ {0}
  BY PowerPositive DEF IsValued, VectorRecords, IsVector
<1> DEFINE m == l.bits * 2 ^ r.width + r.bits
           s == {i \in 0 .. w - 1 : IF i < r.width THEN BitSet(r, i) ELSE BitSet(l, i - r.width)}
<1>2. m \in Int /\ Split(m, r.width, r.bits, l.bits)
  <2>1. PICK p \in Nat \ {0} : p = 2 ^ r.width
    BY <1>1
  <2>2. l.bits * p + r.bits = r.bits + p * l.bits /\ l.bits * p + r.bits \in Int
    BY <1>1
  <2> QED BY <1>1, <2>1, <2>2 DEF Split
<1> HIDE DEF m
<1>3. ASSUME NEW i \in 0 .. w - 1 PROVE i \in s <=> Digit(m, i) = 1
  <2>1. i \in Nat
    OBVIOUS
  <2>2. (i < r.width => Digit(m, i) = Digit(r.bits, i))
        /\ (r.width <= i => Digit(m, i) = Digit(l.bits, i - r.width))
    BY <1>1, <1>2, <2>1, DigitSplit
  <2>3. CASE i < r.width
    <3>1. BitSet(r, i) <=> Digit(r.bits, i) = 1
      BY <1>1, <2>1, DigitsOfVector
    <3> QED BY <2>2, <2>3, <3>1
  <2>4. CASE ~ (i < r.width)
    <3>1. i - r.width \in Nat /\ r.width <= i
      BY <1>1, <2>4
    <3>2. BitSet(l, i - r.width) <=> Digit(l.bits, i - r.width) = 1
      BY <1>1, <3>1, DigitsOfVector
    <3> QED BY <2>2, <2>4, <3>1, <3>2
  <2> QED BY <2>3, <2>4
<1>4. Concat(l, r, w) = FromFn(w, s)
  BY DEF Concat
<1> HIDE DEF s
<1>5. Holds(Concat(l, r, w), w, m)
  BY <1>2, <1>3, <1>4, FromFnHolds
<1> QED BY <1>2, <1>5 DEF m

\* Resizing a vector to its own width changes nothing.
LEMMA ResizeSame ==
  ASSUME NEW v, IsValued(v)
  PROVE  Resize(v, v.width, FALSE) = v
<1>1. v.width \in Nat /\ Meaning(v, FALSE) = v.bits
  BY DEF IsValued, VectorRecords, Meaning
<1>2. Holds(Resize(v, v.width, FALSE), v.width, v.bits)
  BY <1>1, ResizeHolds
<1>3. Holds(v, v.width, v.bits)
  BY HoldsSelf DEF IsValued
<1> QED BY <1>1, <1>2, <1>3, HoldsUnique

\* shift to the left multiplies, by distances past the end too.
LEMMA ShiftLeftHolds ==
  ASSUME NEW v, IsValued(v), NEW amount, amount.bits \in Nat
  PROVE  /\ v.bits * 2 ^ amount.bits \in Int
         /\ Holds(Shift(v, amount, v.width, FALSE, FALSE), v.width, v.bits * 2 ^ amount.bits)
<1> DEFINE d == amount.bits
           w == v.width
           m == v.bits * 2 ^ d
           s == {i \in 0 .. w - 1 : i >= d /\ BitSet(v, i - d)}
<1>1. /\ v \in VectorRecords /\ IsVector(v) /\ w \in Nat /\ v.bits \in Int /\ d \in Nat
      /\ 2 ^ d \in Nat \ {0}
  BY PowerPositive DEF IsValued, VectorRecords
<1>2. m \in Int /\ Split(m, d, 0, v.bits)
  <2>1. PICK p \in Nat \ {0} : p = 2 ^ d
    BY <1>1
  <2>2. v.bits * p = 0 + p * v.bits /\ v.bits * p \in Int
    BY <1>1
  <2> QED BY <1>1, <2>1, <2>2 DEF Split
<1> HIDE DEF m
<1>3. ASSUME NEW i \in 0 .. w - 1
      PROVE  Digit(m, i) = 1 <=> i >= d /\ BitSet(v, i - d)
  <2>1. i \in Nat
    OBVIOUS
  <2>2. (i < d => Digit(m, i) = Digit(0, i)) /\ (d <= i => Digit(m, i) = Digit(v.bits, i - d))
    <3> HIDE DEF d
    <3> QED BY <1>1, <1>2, <2>1, DigitSplit
  <2>3. Digit(0, i) = 0
    <3>1. Split(0, i, 0, 0)
      BY <2>1, PowerPositive DEF Split
    <3>2. Digit(0, i) = 0 % 2
      BY <2>1, <3>1, DigitAt
    <3> QED BY <3>2
  <2>4. CASE i < d
    BY <1>1, <2>1, <2>2, <2>3, <2>4
  <2>5. CASE ~ (i < d)
    <3>1. i - d \in Nat /\ d <= i /\ i >= d
      BY <1>1, <2>5
    <3>2. BitSet(v, i - d) <=> Digit(v.bits, i - d) = 1
      BY <1>1, <3>1, DigitsOfVector
    <3> QED BY <2>2, <3>1, <3>2
  <2> QED BY <2>4, <2>5
<1>4. Shift(v, amount, v.width, FALSE, FALSE) = FromFn(w, IF d >= w THEN {} ELSE s)
  BY ResizeSame DEF Shift, Shifted
<1>5. ASSUME NEW i \in 0 .. w - 1
      PROVE  i \in (IF d >= w THEN {} ELSE s) <=> Digit(m, i) = 1
  <2>1. CASE d >= w
    <3>1. ~ (i >= d)
      BY <1>1, <2>1
    <3> QED BY <1>3, <2>1, <3>1
  <2>2. CASE ~ (d >= w)
    BY <1>3, <2>2
  <2> QED BY <2>1, <2>2
<1> HIDE DEF s, d, w
<1>6. Holds(Shift(v, amount, v.width, FALSE, FALSE), w, m)
  <2> DEFINE t == IF d >= w THEN {} ELSE s
  <2>1. \A i \in 0 .. w - 1 : i \in t <=> Digit(m, i) = 1
    BY <1>5
  <2> HIDE DEF t
  <2>2. Holds(FromFn(w, t), w, m)
    BY <1>1, <1>2, <2>1, FromFnHolds
  <2> QED BY <1>4, <2>2 DEF t
<1> QED BY <1>2, <1>6 DEF m, d, w

\* shift to the right divides and rounds down, by distances past the end too.
LEMMA ShiftRightHolds ==
  ASSUME NEW v, IsValued(v), NEW amount, amount.bits \in Nat, NEW arithmetic \in BOOLEAN
  PROVE  /\ Meaning(v, arithmetic) \div 2 ^ amount.bits \in Int
         /\ Holds(Shift(v, amount, v.width, TRUE, arithmetic), v.width,
                  Meaning(v, arithmetic) \div 2 ^ amount.bits)
<1> DEFINE d == amount.bits
           w == v.width
           M == Meaning(v, arithmetic)
           m == M \div 2 ^ d
           fill == arithmetic /\ SignBit(v)
           s == {i \in 0 .. w - 1 : IF i + d < w THEN BitSet(v, i + d) ELSE fill}
           all == IF fill THEN 0 .. w - 1 ELSE {}
<1>1. /\ v \in VectorRecords /\ IsVector(v) /\ w \in Nat /\ v.bits \in Int /\ d \in Nat
      /\ 2 ^ d \in Nat \ {0} /\ w # 0
  BY PowerPositive DEF IsValued, VectorRecords
<1>2. M \in Int /\ m \in Int
  <2>1. M \in Int
    BY <1>1, SignedType DEF Meaning
  <2> HIDE DEF M
  <2> QED BY <1>1, <2>1, DivMod
<1>3. ASSUME NEW j \in Nat
      PROVE  Digit(M, j) = 1 <=> IF j < w THEN BitSet(v, j) ELSE fill
  <2>1. (BitSet(v, j) <=> Digit(v.bits, j) = 1) /\ (j \in Ones(v) <=> Digit(v.bits, j) = 1)
    BY <1>1, DigitsOfVector
  <2>2. Digit(Signed(v), j) = 1 <=> IF j < w THEN j \in Ones(v) ELSE SignBit(v)
    BY DigitsOfSigned
  <2>3. CASE arithmetic
    BY <2>1, <2>2, <2>3 DEF Meaning
  <2>4. CASE ~ arithmetic
    <3>1. M = v.bits
      BY <2>4 DEF Meaning
    <3>2. BitSet(v, j) => j < w
      BY DEF BitSet
    <3> QED BY <2>1, <2>4, <3>1, <3>2
  <2> QED BY <2>3, <2>4
<1>4. ASSUME NEW i \in 0 .. w - 1
      PROVE  Digit(m, i) = 1 <=> IF i + d < w THEN BitSet(v, i + d) ELSE fill
  <2>1. i \in Nat /\ i + d \in Nat /\ d + i = i + d
    BY <1>1
  <2>2. Digit(m, i) = Digit(M, d + i)
    <3> HIDE DEF M, d
    <3> QED BY <1>1, <1>2, <2>1, DigitOfQuotient
  <2> HIDE DEF m, M, d, w, fill
  <2> QED BY <1>3, <2>1, <2>2
<1>5. Shift(v, amount, v.width, TRUE, arithmetic) = FromFn(w, IF d >= w THEN all ELSE s)
  <2>1. SignBit(v) = BitSet(v, w - 1)
    BY <1>1 DEF SignBit
  <2>2. (arithmetic /\ BitSet(v, IF w = 0 THEN 0 ELSE w - 1)) = fill
    BY <1>1, <2>1
  <2> HIDE DEF fill
  <2>3. Shift(v, amount, w, TRUE, arithmetic) = Shifted(v, d, w, TRUE, fill)
    BY <2>2, ResizeSame DEF Shift
  <2> QED BY <2>3 DEF Shifted
<1> DEFINE t == IF d >= w THEN all ELSE s
<1>6. ASSUME NEW i \in 0 .. w - 1 PROVE i \in t <=> Digit(m, i) = 1
  <2>1. CASE d >= w
    <3>1. ~ (i + d < w)
      BY <1>1, <2>1
    <3> HIDE DEF m, fill
    <3> QED BY <1>4, <2>1, <3>1
  <2>2. CASE ~ (d >= w)
    <3> HIDE DEF m, fill
    <3> QED BY <1>4, <2>2
  <2> QED BY <2>1, <2>2
<1>7. Shift(v, amount, v.width, TRUE, arithmetic) = FromFn(w, t)
  BY <1>5
<1> HIDE DEF t, w, m
<1>8. Holds(Shift(v, amount, v.width, TRUE, arithmetic), w, m)
  BY <1>1, <1>2, <1>6, <1>7, FromFnHolds
<1> QED BY <1>2, <1>8 DEF m, w

-----------------------------------------------------------------------------
(* Replication.                                                            *)

\* The number of k copies of width bits of b, one after the other, is b * g.
Copies(b, width, k, g) ==
  /\ g \in Nat
  /\ 2 ^ (width * k) - 1 = (2 ^ width - 1) * g
  /\ b * g \in 0 .. 2 ^ (width * k) - 1
  /\ \A i \in Nat : Digit(b * g, i) = 1 <=> i < width * k /\ Digit(b, i % width) = 1

\* Zero has no ones.
LEMMA ZeroDigit ==
  ASSUME NEW i \in Nat
  PROVE  Digit(0, i) = 0
<1>1. Split(0, i, 0, 0)
  BY PowerPositive DEF Split
<1>2. Digit(0, i) = 0 % 2
  BY <1>1, DigitAt
<1> QED BY <1>2

\* One more copy is put above the others.
LEMMA CopiesStep ==
  ASSUME NEW width \in Nat \ {0}, NEW b \in 0 .. 2 ^ width - 1, NEW k \in Nat, NEW g, Copies(b, width, k, g)
  PROVE  Copies(b, width, k + 1, g + 2 ^ (width * k))
<1> DEFINE N == width * k
<1>1. /\ N \in Nat /\ width * (k + 1) = N + width /\ g \in Nat
      /\ b * g \in 0 .. 2 ^ N - 1 /\ b \in Nat
  BY DEF Copies
<1> HIDE DEF N
<1>2. PICK P \in Nat \ {0}, Q \in Nat \ {0} :
        P = 2 ^ width /\ Q = 2 ^ N /\ 2 ^ (N + width) = Q * P
  <2>1. 2 ^ (N + width) = 2 ^ N * 2 ^ width
    BY <1>1, PowerSum
  <2> QED BY <1>1, <2>1, PowerPositive
<1>3. b * (g + Q) = b * g + Q * b /\ g + Q \in Nat /\ b * (g + Q) \in Nat
  BY <1>1
<1>4. 2 ^ (N + width) - 1 = (2 ^ width - 1) * (g + Q)
  <2>1. Q - 1 = (P - 1) * g
    BY <1>2 DEF Copies, N
  <2>2. (P - 1) * (g + Q) = (P - 1) * g + (P - 1) * Q /\ (P - 1) * Q = Q * P - Q
    BY <1>1
  <2> QED BY <1>2, <2>1, <2>2
<1>5. b * (g + Q) \in 0 .. 2 ^ (N + width) - 1
  <2>1. b <= P - 1 /\ b * g <= Q - 1
    BY <1>1, <1>2
  <2>2. Q * b <= Q * (P - 1) /\ Q * (P - 1) = Q * P - Q
    BY <1>1, <2>1
  <2> QED BY <1>1, <1>2, <1>3, <2>1, <2>2
<1>6. Split(b * (g + Q), N, b * g, b)
  BY <1>1, <1>2, <1>3 DEF Split
<1>7. ASSUME NEW i \in Nat
      PROVE  Digit(b * (g + Q), i) = 1 <=> i < N + width /\ Digit(b, i % width) = 1
  <2>1. (i < N => Digit(b * (g + Q), i) = Digit(b * g, i))
        /\ (N <= i => Digit(b * (g + Q), i) = Digit(b, i - N))
    BY <1>1, <1>6, DigitSplit
  <2>2. CASE i < N
    <3>1. Digit(b * g, i) = 1 <=> i < N /\ Digit(b, i % width) = 1
      BY DEF Copies, N
    <3>2. i < N + width
      BY <1>1, <2>2
    <3> QED BY <2>1, <2>2, <3>1, <3>2
  <2>3. CASE N <= i /\ i < N + width
    <3>1. i - N \in 0 .. width - 1 /\ i = (i - N) + width * k /\ k \in Int
      BY <1>1, <2>3 DEF N
    <3>2. PICK e \in 0 .. width - 1 : e = i - N /\ i = e + width * k
      BY <3>1
    <3>3. i % width = e
      BY <3>1, <3>2, DivisionOf
    <3> QED BY <2>1, <2>3, <3>2, <3>3
  <2>4. CASE ~ (i < N + width)
    <3>1. i - N \in Nat /\ width <= i - N /\ N <= i
      BY <1>1, <2>4
    <3>2. Digit(b, i - N) = 0
      BY <3>1, DigitsEnd
    <3> QED BY <2>1, <2>4, <3>1, <3>2
  <2> QED BY <1>1, <2>2, <2>3, <2>4
<1>8. Copies(b, width, k + 1, g + Q)
  BY <1>1, <1>3, <1>4, <1>5, <1>7 DEF Copies
<1> QED BY <1>2, <1>8 DEF N

\* Any number of copies is a product.
LEMMA CopiesExist ==
  ASSUME NEW width \in Nat \ {0}, NEW b \in 0 .. 2 ^ width - 1, NEW k \in Nat
  PROVE  \E g : Copies(b, width, k, g)
<1> DEFINE S == {n \in Nat : \E g : Copies(b, width, n, g)}
<1>1. 0 \in S
  <2>1. width * 0 = 0 /\ 2 ^ 0 = 1 /\ b * 0 = 0 /\ b \in Nat
    BY PowerPositive
  <2>2. (2 ^ width - 1) * 0 = 0
    BY PowerPositive
  <2>3. \A i \in Nat : Digit(b * 0, i) = 1 <=> i < width * 0 /\ Digit(b, i % width) = 1
    <3> SUFFICES ASSUME NEW i \in Nat PROVE Digit(b * 0, i) # 1 /\ ~ (i < width * 0)
      OBVIOUS
    <3>1. Digit(0, i) = 0
      BY ZeroDigit
    <3> QED BY <2>1, <3>1
  <2>4. 2 ^ (width * 0) - 1 = (2 ^ width - 1) * 0 /\ b * 0 \in 0 .. 2 ^ (width * 0) - 1
    <3>1. 2 ^ (width * 0) = 1
      BY ONLY <2>1, Zenon
    <3> QED BY <2>1, <2>2, <3>1
  <2>5. Copies(b, width, 0, 0)
    BY <2>3, <2>4 DEF Copies
  <2> QED BY <2>5
<1>2. ASSUME NEW n \in S PROVE n + 1 \in S
  <2>1. PICK g : Copies(b, width, n, g)
    OBVIOUS
  <2>2. Copies(b, width, n + 1, g + 2 ^ (width * n))
    BY <2>1, CopiesStep
  <2> QED BY <2>2
<1>3. Nat \subseteq S
  <2> HIDE DEF S
  <2> QED BY <1>1, <1>2, NaturalsInSet
<1> QED BY <1>3

\* The factor is the geometric sum, whatever is copied.
LEMMA CopiesFactor ==
  ASSUME NEW width \in Nat \ {0}, NEW b, NEW k \in Nat, NEW g, Copies(b, width, k, g)
  PROVE  (2 ^ (width * k) - 1) \div (2 ^ width - 1) = g
<1>1. 2 ^ width - 1 \in Nat \ {0}
  <2>1. width - 1 \in Nat /\ width = (width - 1) + 1
    OBVIOUS
  <2>2. 2 ^ ((width - 1) + 1) = 2 ^ (width - 1) + 2 ^ (width - 1) /\ 2 ^ (width - 1) \in Nat \ {0}
    BY <2>1, PowerStep, PowerPositive
  <2> QED BY <2>1, <2>2
<1>2. PICK p \in Nat \ {0}, a \in Int : p = 2 ^ width - 1 /\ a = 2 ^ (width * k) - 1 /\ a = 0 + p * g
  BY <1>1 DEF Copies
<1>3. a \div p = g
  <2>1. PICK q \in Int, r \in 0 .. p - 1 : q = g /\ r = 0
    BY DEF Copies
  <2>2. a = r + p * q
    BY <1>2, <2>1
  <2>3. a \div p = q
    BY <2>1, <2>2, DivisionOf
  <2> QED BY <2>1, <2>3
<1> QED BY <1>2, <1>3

\* replicate multiplies by the geometric sum.
LEMMA ReplicateHolds ==
  ASSUME NEW v, IsValued(v), NEW count \in Nat, NEW w \in Nat, v.width * count = w
  PROVE  /\ v.bits * ((2 ^ w - 1) \div (2 ^ v.width - 1)) \in Int
         /\ Holds(Replicate(v, count, w), w, v.bits * ((2 ^ w - 1) \div (2 ^ v.width - 1)))
<1>1. /\ v \in VectorRecords /\ IsVector(v) /\ v.width \in Nat \ {0} /\ v.bits \in 0 .. 2 ^ v.width - 1
  BY DEF IsValued, VectorRecords, IsVector
<1>2. PICK g : Copies(v.bits, v.width, count, g)
  BY <1>1, CopiesExist
<1>3. (2 ^ w - 1) \div (2 ^ v.width - 1) = g
  BY <1>1, <1>2, CopiesFactor
<1> DEFINE s == {i \in 0 .. w - 1 : i < v.width * count /\ v.width # 0 /\ BitSet(v, i % v.width)}
           m == v.bits * g
<1>4. ASSUME NEW i \in 0 .. w - 1 PROVE i \in s <=> Digit(m, i) = 1
  <2>1. i \in Nat /\ i < w
    OBVIOUS
  <2>2. Digit(m, i) = 1 <=> i < v.width * count /\ Digit(v.bits, i % v.width) = 1
    BY <1>2, <2>1 DEF Copies
  <2>3. i % v.width \in Nat
    <3>1. i % v.width \in 0 .. v.width - 1
      BY <1>1, <2>1
    <3> QED BY <3>1
  <2>4. BitSet(v, i % v.width) <=> Digit(v.bits, i % v.width) = 1
    BY <1>1, <2>3, DigitsOfVector
  <2> QED BY <1>1, <2>1, <2>2, <2>4
<1>5. m \in Int
  BY <1>1, <1>2 DEF Copies
<1>6. Replicate(v, count, w) = FromFn(w, s)
  BY DEF Replicate
<1> HIDE DEF s, m
<1>7. Holds(Replicate(v, count, w), w, m)
  BY <1>4, <1>5, <1>6, FromFnHolds
<1> QED BY <1>3, <1>5, <1>7 DEF m

-----------------------------------------------------------------------------
(* Each operator of the generated code computes what it means.             *)

\* An operator applied to operands the parser accepts it with.
Applied(n, l, r) ==
  /\ n.op \in Operators /\ n.width \in Nat \ {0} /\ n.signed \in BOOLEAN /\ n.extra \in Nat
  /\ n.op \notin Adding => ~ n.signed
  /\ n.op = "ArraySelect" => n.extra \in {0, 1}
  /\ IsValued(l) /\ IsValued(r) /\ IsValued(n.other)
  /\ WidthsAgree(n, l, r) /\ Accepted(n, l)

Computes(n, l, r) ==
  RtlNumber(n, l, r) \in Int /\ Holds(EmitExpression(n, l, r), n.width, RtlNumber(n, l, r))

\* The operators of one operand.
LEMMA UnaryCompute ==
  ASSUME NEW n, NEW l, NEW r, Applied(n, l, r), Unary(n)
  PROVE  Computes(n, l, r)
<1>1. n.op \in Same \cup Extending \cup Reducing \cup {"Replicate", "SelectConstant"}
  BY DEF Unary
<1>2. EmitExpression(n, l, r) = EmitUnary(n, l)
  BY <1>1 DEF EmitExpression, Panics, Unary, Same, Extending, Reducing, Shifting
<1>3. IsValued(l) /\ l.width \in Nat /\ l.bits \in Nat /\ n.width \in Nat /\ l \in VectorRecords
  BY DEF Applied, IsValued, VectorRecords
<1>4. CASE n.op = "BitwiseNot"
  <2>1. EmitUnary(n, l) = BitNot(l)
    BY <1>4 DEF EmitUnary
  <2>2. RtlNumber(n, l, r) = - l.bits - 1
    BY <1>4 DEF RtlNumber, Comparing, SignedComparing
  <2>3. n.width = l.width
    BY <1>4 DEF Applied, WidthsAgree, Same, Extending, Reducing, Bitwise, Adding, Scaling, SignedComparing, Comparing, Logical, Shifting
  <2> QED BY <1>2, <1>3, <2>1, <2>2, <2>3, NotHolds DEF Computes
<1>5. CASE n.op = "Negate"
  <2>1. EmitUnary(n, l) = NegateBits(l)
    BY <1>5 DEF EmitUnary
  <2>2. RtlNumber(n, l, r) = - l.bits
    BY <1>5 DEF RtlNumber, Comparing, SignedComparing
  <2>3. n.width = l.width
    BY <1>5 DEF Applied, WidthsAgree, Same, Extending, Reducing, Bitwise, Adding, Scaling, SignedComparing, Comparing, Logical, Shifting
  <2> QED BY <1>2, <1>3, <2>1, <2>2, <2>3, NegateHolds DEF Computes
<1>6. CASE n.op \in Reducing
  <2>1. n.width = 1
    BY <1>6 DEF Applied, WidthsAgree, Same, Extending, Reducing, Bitwise, Adding, Scaling, SignedComparing, Comparing, Logical, Shifting
  <2>2. CASE n.op = "ReduceAnd"
    <3>1. EmitUnary(n, l) = ReduceAnd(l)
      BY <2>2 DEF EmitUnary
    <3>2. RtlNumber(n, l, r) = Number(l.bits = 2 ^ l.width - 1)
      BY <2>2 DEF RtlNumber, Comparing, SignedComparing
    <3>3. Number(l.bits = 2 ^ l.width - 1) \in Int
      BY DEF Number
    <3> QED BY <1>2, <1>3, <2>1, <3>1, <3>2, <3>3, ReduceAndHolds DEF Computes
  <2>3. CASE n.op = "ReduceOr"
    <3>1. EmitUnary(n, l) = ReduceOr(l)
      BY <2>3 DEF EmitUnary
    <3>2. RtlNumber(n, l, r) = Number(l.bits # 0)
      BY <2>3 DEF RtlNumber, Comparing, SignedComparing
    <3>3. Number(l.bits # 0) \in Int
      BY DEF Number
    <3> QED BY <1>2, <1>3, <2>1, <3>1, <3>2, <3>3, ReduceOrHolds DEF Computes
  <2>4. CASE n.op = "ReduceXor"
    <3>1. EmitUnary(n, l) = ReduceXor(l)
      BY <2>4 DEF EmitUnary
    <3>2. RtlNumber(n, l, r) = MapThenSumSet(LAMBDA i : Digit(l.bits, i), 0 .. l.width - 1) % 2
      BY <2>4 DEF RtlNumber, Comparing, SignedComparing
    <3> QED BY <1>2, <1>3, <2>1, <3>1, <3>2, ReduceXorHolds DEF Computes
  <2>5. CASE n.op = "LogicalNot"
    <3>1. EmitUnary(n, l) = FromBool(~ Positive(l))
      BY <2>5 DEF EmitUnary
    <3>2. RtlNumber(n, l, r) = Number(l.bits = 0)
      BY <2>5 DEF RtlNumber, Comparing, SignedComparing
    <3>3. Number(l.bits = 0) \in Int
      BY DEF Number
    <3> QED BY <1>2, <1>3, <2>1, <3>1, <3>2, <3>3, LogicalNotHolds DEF Computes
  <2> QED BY <1>6, <2>2, <2>3, <2>4, <2>5 DEF Reducing
<1>7. CASE n.op = "ZeroExtend"
  <2>1. EmitUnary(n, l) = Widened(l, n.width, FALSE)
    BY <1>7 DEF EmitUnary
  <2>2. RtlNumber(n, l, r) = Meaning(l, FALSE)
    BY <1>7 DEF RtlNumber, Meaning, Comparing, SignedComparing
  <2> QED BY <1>2, <1>3, <2>1, <2>2, WidenedHolds DEF Computes
<1>8. CASE n.op = "SignExtend"
  <2>1. EmitUnary(n, l) = Widened(l, n.width, TRUE)
    BY <1>8 DEF EmitUnary
  <2>2. RtlNumber(n, l, r) = Meaning(l, TRUE)
    BY <1>8 DEF RtlNumber, Meaning, Comparing, SignedComparing
  <2> QED BY <1>2, <1>3, <2>1, <2>2, WidenedHolds DEF Computes
<1>9. CASE n.op = "Replicate"
  <2>1. EmitUnary(n, l) = Replicate(l, n.extra, n.width)
    BY <1>9 DEF EmitUnary
  <2>2. RtlNumber(n, l, r) = l.bits * ((2 ^ n.width - 1) \div (2 ^ l.width - 1))
    BY <1>9 DEF RtlNumber, Comparing, SignedComparing
  <2>3. l.width * n.extra = n.width /\ n.extra \in Nat
    BY <1>9 DEF Applied, Accepted
  <2> QED BY <1>2, <1>3, <2>1, <2>2, <2>3, ReplicateHolds DEF Computes
<1>10. CASE n.op = "SelectConstant"
  <2>1. EmitUnary(n, l) = Select(l, n.extra, n.width)
    BY <1>10 DEF EmitUnary
  <2>2. RtlNumber(n, l, r) = l.bits \div 2 ^ n.extra
    BY <1>10 DEF RtlNumber, Comparing, SignedComparing
  <2>3. n.extra \in Nat
    BY DEF Applied
  <2> QED BY <1>2, <1>3, <2>1, <2>2, <2>3, SelectHolds DEF Computes
<1> QED BY <1>1, <1>4, <1>5, <1>6, <1>7, <1>8, <1>9, <1>10 DEF Same, Extending

\* The bitwise operators.
LEMMA BitwiseCompute ==
  ASSUME NEW n, NEW l, NEW r, Applied(n, l, r), n.op \in Bitwise
  PROVE  /\ RtlNumber(n, l, r) \in Int /\ Holds(EmitBinary(n, l, r), n.width, RtlNumber(n, l, r))
<1>1. IsValued(l) /\ IsValued(r) /\ n.width \in Nat
  BY DEF Applied
<1>2. CASE n.op = "BitwiseAnd"
  <2>1. EmitBinary(n, l, r) = BitwiseAnd(l, r, n.width)
    BY <1>2 DEF EmitBinary, Comparing, SignedComparing
  <2>2. RtlNumber(n, l, r) = PerBit(l, r, LAMBDA a, b : a * b, n.width)
    BY <1>2 DEF RtlNumber, Comparing, SignedComparing
  <2> QED BY <1>1, <2>1, <2>2, BitwiseAndHolds
<1>3. CASE n.op = "BitwiseOr"
  <2>1. EmitBinary(n, l, r) = BitwiseOr(l, r, n.width)
    BY <1>3 DEF EmitBinary, Comparing, SignedComparing
  <2>2. RtlNumber(n, l, r) = PerBit(l, r, LAMBDA a, b : a + b - a * b, n.width)
    BY <1>3 DEF RtlNumber, Comparing, SignedComparing
  <2> QED BY <1>1, <2>1, <2>2, BitwiseOrHolds
<1>4. CASE n.op = "BitwiseXor"
  <2>1. EmitBinary(n, l, r) = BitwiseXor(l, r, n.width)
    BY <1>4 DEF EmitBinary, Comparing, SignedComparing
  <2>2. RtlNumber(n, l, r) = PerBit(l, r, LAMBDA a, b : (a + b) % 2, n.width)
    BY <1>4 DEF RtlNumber, Comparing, SignedComparing
  <2> QED BY <1>1, <2>1, <2>2, BitwiseXorHolds
<1> QED BY <1>2, <1>3, <1>4 DEF Bitwise

\* The signedness that each operator extends its operands with.
LEMMA SignsOfOperators ==
  ASSUME NEW n, NEW l, NEW r, Applied(n, l, r)
  PROVE  /\ n.op \in Adding => (SignExtends(n) <=> n.signed)
         /\ n.op \in {"MultiplySigned", "DivideSigned"} \cup SignedComparing => (SignExtends(n) <=> TRUE)
         /\ n.op \notin Adding \cup {"MultiplySigned", "DivideSigned"} \cup SignedComparing
              => (SignExtends(n) <=> FALSE)
         /\ SignExtends(n) \in BOOLEAN /\ n.signed \in BOOLEAN
BY DEF Applied, SignExtends, Adding, SignedComparing

\* Sums, products and quotients.
LEMMA ArithmeticCompute ==
  ASSUME NEW n, NEW l, NEW r, Applied(n, l, r), n.op \in Adding \cup Scaling
  PROVE  /\ RtlNumber(n, l, r) \in Int /\ Holds(EmitBinary(n, l, r), n.width, RtlNumber(n, l, r))
<1>1. IsValued(l) /\ IsValued(r) /\ n.width \in Nat \ {0} /\ l.width <= n.width /\ r.width <= n.width
  <2>1. n.width >= l.width /\ n.width >= r.width
    BY DEF Applied, WidthsAgree, Same, Extending, Reducing, Bitwise, Adding, Scaling, SignedComparing, Comparing, Logical, Shifting
  <2> QED BY <2>1 DEF Applied, IsValued, VectorRecords
<1> DEFINE s == SignExtends(n)
           L(e) == Widened(l, n.width, e)
           R(e) == Widened(r, n.width, e)
<1>2. s \in BOOLEAN /\ (n.op \in Adding => s = n.signed)
  BY SignsOfOperators
<1>3. ASSUME NEW e \in BOOLEAN
      PROVE  /\ Meaning(l, e) \in Int /\ Meaning(r, e) \in Int
             /\ Holds(AddBits(L(e), R(e)), n.width, Meaning(l, e) + Meaning(r, e))
             /\ Holds(SubBits(L(e), R(e)), n.width, Meaning(l, e) - Meaning(r, e))
             /\ Holds(MulBits(L(e), R(e)), n.width, Meaning(l, e) * Meaning(r, e))
  BY <1>1, AddHolds
<1>4. CASE n.op = "Add"
  <2>1. EmitBinary(n, l, r) = AddBits(L(s), R(s))
    BY <1>2, <1>4 DEF EmitBinary, Comparing, SignedComparing, Adding
  <2>2. RtlNumber(n, l, r) = Meaning(l, s) + Meaning(r, s)
    BY <1>4 DEF RtlNumber, Comparing, SignedComparing
  <2> HIDE DEF s, L, R
  <2>3. Meaning(l, s) \in Int /\ Meaning(r, s) \in Int
        /\ Holds(AddBits(L(s), R(s)), n.width, Meaning(l, s) + Meaning(r, s))
    BY ONLY <1>2, <1>3, Zenon
  <2>4. Meaning(l, s) + Meaning(r, s) \in Int
    BY <2>3
  <2> QED BY ONLY <2>1, <2>2, <2>3, <2>4, Zenon
<1>5. CASE n.op = "Subtract"
  <2>1. EmitBinary(n, l, r) = SubBits(L(s), R(s))
    BY <1>2, <1>5 DEF EmitBinary, Comparing, SignedComparing, Adding
  <2>2. RtlNumber(n, l, r) = Meaning(l, s) - Meaning(r, s)
    BY <1>5 DEF RtlNumber, Comparing, SignedComparing
  <2> HIDE DEF s, L, R
  <2>3. Meaning(l, s) \in Int /\ Meaning(r, s) \in Int
        /\ Holds(SubBits(L(s), R(s)), n.width, Meaning(l, s) - Meaning(r, s))
    BY ONLY <1>2, <1>3, Zenon
  <2>4. Meaning(l, s) - Meaning(r, s) \in Int
    BY <2>3
  <2> QED BY ONLY <2>1, <2>2, <2>3, <2>4, Zenon
<1>6. CASE n.op = "MultiplyUnsigned"
  <2>1. EmitBinary(n, l, r) = MulBits(L(FALSE), R(FALSE))
    BY <1>6 DEF EmitBinary, Comparing, SignedComparing
  <2>2. RtlNumber(n, l, r) = Meaning(l, FALSE) * Meaning(r, FALSE)
    <3>1. s = FALSE
      BY <1>2, <1>6, SignsOfOperators DEF Adding, SignedComparing
    <3>2. RtlNumber(n, l, r) = Meaning(l, s) * Meaning(r, s)
      BY <1>6 DEF RtlNumber, Comparing, SignedComparing
    <3> QED BY <3>1, <3>2
  <2> HIDE DEF L, R
  <2>3. Meaning(l, FALSE) \in Int /\ Meaning(r, FALSE) \in Int
        /\ Holds(MulBits(L(FALSE), R(FALSE)), n.width, Meaning(l, FALSE) * Meaning(r, FALSE))
    BY <1>3
  <2>4. Meaning(l, FALSE) * Meaning(r, FALSE) \in Int
    <3>1. PICK a \in Int, b \in Int : a = Meaning(l, FALSE) /\ b = Meaning(r, FALSE)
      BY ONLY <2>3, Zenon
    <3>2. a * b \in Int
      OBVIOUS
    <3> QED BY ONLY <3>1, <3>2, Zenon
  <2> QED BY ONLY <2>1, <2>2, <2>3, <2>4, Zenon
<1>7. CASE n.op = "MultiplySigned"
  <2>1. EmitBinary(n, l, r) = MulBits(L(TRUE), R(TRUE))
    BY <1>7 DEF EmitBinary, Comparing, SignedComparing
  <2>2. RtlNumber(n, l, r) = Meaning(l, TRUE) * Meaning(r, TRUE)
    <3>1. s = TRUE
      BY <1>2, <1>7, SignsOfOperators
    <3>2. RtlNumber(n, l, r) = Meaning(l, s) * Meaning(r, s)
      BY <1>7 DEF RtlNumber, Comparing, SignedComparing
    <3> QED BY <3>1, <3>2
  <2> HIDE DEF L, R
  <2>3. Meaning(l, TRUE) \in Int /\ Meaning(r, TRUE) \in Int
        /\ Holds(MulBits(L(TRUE), R(TRUE)), n.width, Meaning(l, TRUE) * Meaning(r, TRUE))
    BY <1>3
  <2>4. Meaning(l, TRUE) * Meaning(r, TRUE) \in Int
    <3>1. PICK a \in Int, b \in Int : a = Meaning(l, TRUE) /\ b = Meaning(r, TRUE)
      BY ONLY <2>3, Zenon
    <3>2. a * b \in Int
      OBVIOUS
    <3> QED BY ONLY <3>1, <3>2, Zenon
  <2> QED BY ONLY <2>1, <2>2, <2>3, <2>4, Zenon
<1>8. CASE n.op = "DivideUnsigned"
  <2>1. EmitBinary(n, l, r) = DivUnsigned(L(FALSE), R(FALSE))
    BY <1>8 DEF EmitBinary, Comparing, SignedComparing
  <2>2. RtlNumber(n, l, r) = Quotient(l.bits, r.bits)
    <3>1. s = FALSE
      BY <1>2, <1>8, SignsOfOperators DEF Adding, SignedComparing
    <3>2. RtlNumber(n, l, r) = Quotient(Meaning(l, s), Meaning(r, s))
      BY <1>8 DEF RtlNumber, Comparing, SignedComparing
    <3> QED BY <3>1, <3>2 DEF Meaning
  <2>3. /\ L(FALSE) \in VectorRecords /\ L(FALSE).width = n.width /\ L(FALSE).bits = l.bits
        /\ R(FALSE) \in VectorRecords /\ R(FALSE).bits = r.bits
    <3>1. Holds(L(FALSE), n.width, l.bits) /\ Holds(R(FALSE), n.width, r.bits)
      BY <1>1, WidenedHolds DEF Meaning
    <3> HIDE DEF L, R
    <3> QED BY <1>1, <3>1, UnsignedWidened DEF Holds
  <2> HIDE DEF L, R
  <2>4. l.bits \in Nat /\ r.bits \in Nat
    BY <1>1 DEF IsValued, VectorRecords
  <2>5. CASE r.bits = 0
    <3>1. Quotient(l.bits, r.bits) = -1
      BY <2>4, <2>5 DEF Quotient
    <3>2. Holds(DivUnsigned(L(FALSE), R(FALSE)), n.width, -1)
      BY <2>3, <2>5, DivideHolds
    <3>3. -1 \in Int
      OBVIOUS
    <3> QED BY ONLY <2>1, <2>2, <3>1, <3>2, <3>3, Zenon
  <2>6. CASE r.bits # 0
    <3>1. Quotient(l.bits, r.bits) = l.bits \div r.bits
      BY <2>4, <2>6 DEF Quotient, Magnitudes
    <3>2. l.bits \div r.bits \in Nat /\ Holds(DivUnsigned(L(FALSE), R(FALSE)), n.width, l.bits \div r.bits)
      BY <2>3, <2>6, DivideHolds
    <3>3. l.bits \div r.bits \in Int
      BY <3>2
    <3> QED BY ONLY <2>1, <2>2, <3>1, <3>2, <3>3, Zenon
  <2> QED BY <2>5, <2>6
<1>9. CASE n.op = "DivideSigned"
  <2>1. EmitBinary(n, l, r) = DivSigned(L(TRUE), R(TRUE))
    BY <1>9 DEF EmitBinary, Comparing, SignedComparing
  <2>2. RtlNumber(n, l, r) = Quotient(Signed(l), Signed(r))
    <3>1. s = TRUE
      BY <1>2, <1>9, SignsOfOperators
    <3>2. RtlNumber(n, l, r) = Quotient(Meaning(l, s), Meaning(r, s))
      BY <1>9 DEF RtlNumber, Comparing, SignedComparing
    <3> QED BY <3>1, <3>2 DEF Meaning
  <2>3. /\ IsValued(L(TRUE)) /\ L(TRUE).width = n.width /\ Signed(L(TRUE)) = Signed(l)
        /\ IsValued(R(TRUE)) /\ Signed(R(TRUE)) = Signed(r)
    <3>1. Holds(L(TRUE), n.width, Signed(l)) /\ Holds(R(TRUE), n.width, Signed(r))
      BY <1>1, WidenedHolds DEF Meaning
    <3> HIDE DEF L, R
    <3> QED BY <1>1, <3>1, SignedWidened
  <2> HIDE DEF L, R
  <2> QED BY <2>1, <2>2, <2>3, DivideSignedHolds
<1> QED BY <1>4, <1>5, <1>6, <1>7, <1>8, <1>9 DEF Adding, Scaling

\* The comparisons.
LEMMA ComparisonCompute ==
  ASSUME NEW n, NEW l, NEW r, Applied(n, l, r), n.op \in Comparing
  PROVE  /\ RtlNumber(n, l, r) \in Int /\ Holds(EmitBinary(n, l, r), n.width, RtlNumber(n, l, r))
<1>1. IsValued(l) /\ IsValued(r) /\ n.width = 1
  BY DEF Applied, WidthsAgree, Same, Extending, Reducing, Bitwise, Adding, Scaling, SignedComparing, Comparing, Logical, Shifting
<1> DEFINE s == SignExtends(n)
           order == Order(Meaning(l, s), Meaning(r, s))
           holds == Comparison(n.op, order)
<1>2. RtlNumber(n, l, r) = Number(holds)
  BY DEF RtlNumber, Comparing, SignedComparing
<1>3. holds \in BOOLEAN
  BY DEF Comparison, Comparing, SignedComparing
<1>4. EmitBinary(n, l, r) = FromBool(holds)
  <2>1. CASE n.op \in {"Equal", "NotEqual"}
    <3>1. s = FALSE
      BY <2>1, SignsOfOperators DEF Adding, SignedComparing
    <3>2. order = Order(l.bits, r.bits)
      BY <3>1 DEF Meaning
    <3> DEFINE same == Widened(l, Wider(l, r), FALSE) = Widened(r, Wider(l, r), FALSE)
    <3>3. EmitBinary(n, l, r) = FromBool((n.op = "Equal") = same)
      BY <2>1 DEF EmitBinary, Comparing, SignedComparing
    <3>4. same <=> Order(l.bits, r.bits) = 0
      BY <1>1, EqualIsOrder
    <3> HIDE DEF same
    <3>5. holds = (IF n.op = "Equal" THEN order = 0 ELSE order # 0)
      BY <2>1 DEF Comparison
    <3>6. same \in BOOLEAN
      BY DEF same
    <3>7. ((n.op = "Equal") = same) = holds
      <4> HIDE DEF order, holds
      <4> QED BY <2>1, <3>2, <3>4, <3>5, <3>6
    <3> QED BY <3>3, <3>7
  <2>2. CASE n.op \in SignedComparing
    <3>1. s = TRUE
      BY <2>2, SignsOfOperators
    <3>2. order = Order(Signed(l), Signed(r))
      BY <3>1 DEF Meaning
    <3>3. EmitBinary(n, l, r) = FromBool(Comparison(n.op, CmpSigned(l, r)))
      BY <2>2 DEF EmitBinary, Comparing, SignedComparing
    <3>4. CmpSigned(l, r) = order
      BY <1>1, <3>2, CmpSignedIsOrder
    <3> HIDE DEF order
    <3> QED BY <3>3, <3>4
  <2>3. CASE n.op \notin SignedComparing \cup {"Equal", "NotEqual"}
    <3>1. s = FALSE
      BY <2>3, SignsOfOperators DEF Adding, SignedComparing, Comparing
    <3>2. order = Order(l.bits, r.bits)
      BY <3>1 DEF Meaning
    <3>3. EmitBinary(n, l, r) = FromBool(Comparison(n.op, CmpUnsigned(l, r)))
      BY <2>3 DEF EmitBinary, Comparing, SignedComparing
    <3>4. CmpUnsigned(l, r) = order
      BY <1>1, <3>2, CmpUnsignedIsOrder
    <3> HIDE DEF order
    <3> QED BY <3>3, <3>4
  <2> QED BY <2>1, <2>2, <2>3
<1> HIDE DEF s, order, holds
<1>5. Number(holds) \in Int
  BY DEF Number
<1> QED BY <1>1, <1>2, <1>3, <1>4, <1>5, FromBoolHolds

\* The logical operators.
LEMMA LogicalCompute ==
  ASSUME NEW n, NEW l, NEW r, Applied(n, l, r), n.op \in Logical
  PROVE  /\ RtlNumber(n, l, r) \in Int /\ Holds(EmitBinary(n, l, r), n.width, RtlNumber(n, l, r))
<1>1. IsValued(l) /\ IsValued(r) /\ n.width = 1
  BY DEF Applied, WidthsAgree, Same, Extending, Reducing, Bitwise, Adding, Scaling, SignedComparing, Comparing, Logical, Shifting
<1>2. (Positive(l) <=> l.bits # 0) /\ (Positive(r) <=> r.bits # 0)
      /\ Positive(l) \in BOOLEAN /\ Positive(r) \in BOOLEAN
  BY <1>1, PositiveIsNotZero DEF IsValued, Positive
<1>3. CASE n.op = "LogicalAnd"
  <2>1. EmitBinary(n, l, r) = FromBool(Positive(l) /\ Positive(r))
    BY <1>3 DEF EmitBinary, Comparing, SignedComparing
  <2>2. RtlNumber(n, l, r) = Number(l.bits # 0 /\ r.bits # 0)
    BY <1>3 DEF RtlNumber, Comparing, SignedComparing
  <2>3. (Positive(l) /\ Positive(r)) = (l.bits # 0 /\ r.bits # 0)
    BY <1>2
  <2>4. Number(l.bits # 0 /\ r.bits # 0) \in Int
    BY DEF Number
  <2> QED BY <1>1, <2>1, <2>2, <2>3, <2>4, FromBoolHolds
<1>4. CASE n.op = "LogicalOr"
  <2>1. EmitBinary(n, l, r) = FromBool(Positive(l) \/ Positive(r))
    BY <1>4 DEF EmitBinary, Comparing, SignedComparing
  <2>2. RtlNumber(n, l, r) = Number(l.bits # 0 \/ r.bits # 0)
    BY <1>4 DEF RtlNumber, Comparing, SignedComparing
  <2>3. (Positive(l) \/ Positive(r)) = (l.bits # 0 \/ r.bits # 0)
    BY <1>2
  <2>4. Number(l.bits # 0 \/ r.bits # 0) \in Int
    BY DEF Number
  <2> QED BY <1>1, <2>1, <2>2, <2>3, <2>4, FromBoolHolds
<1> QED BY <1>3, <1>4 DEF Logical

\* The shifts.
LEMMA ShiftCompute ==
  ASSUME NEW n, NEW l, NEW r, Applied(n, l, r), n.op \in Shifting
  PROVE  /\ RtlNumber(n, l, r) \in Int /\ Holds(EmitBinary(n, l, r), n.width, RtlNumber(n, l, r))
<1>1. IsValued(l) /\ r.bits \in Nat /\ n.width = l.width
  BY DEF Applied, WidthsAgree, IsValued, VectorRecords, Same, Extending, Reducing, Bitwise, Adding, Scaling, SignedComparing, Comparing, Logical, Shifting
<1>2. CASE n.op = "ShiftLeft"
  <2>1. EmitBinary(n, l, r) = Shift(l, r, l.width, FALSE, FALSE)
    BY <1>1, <1>2 DEF EmitBinary, Comparing, SignedComparing
  <2>2. RtlNumber(n, l, r) = l.bits * 2 ^ r.bits
    BY <1>2 DEF RtlNumber, Comparing, SignedComparing
  <2> QED BY <1>1, <2>1, <2>2, ShiftLeftHolds
<1>3. CASE n.op = "ShiftRight"
  <2>1. EmitBinary(n, l, r) = Shift(l, r, l.width, TRUE, FALSE)
    BY <1>1, <1>3 DEF EmitBinary, Comparing, SignedComparing
  <2>2. RtlNumber(n, l, r) = Meaning(l, FALSE) \div 2 ^ r.bits
    BY <1>3 DEF RtlNumber, Comparing, SignedComparing, Meaning
  <2> QED BY <1>1, <2>1, <2>2, ShiftRightHolds
<1>4. CASE n.op = "ShiftRightArithmetic"
  <2>1. EmitBinary(n, l, r) = Shift(l, r, l.width, TRUE, TRUE)
    BY <1>1, <1>4 DEF EmitBinary, Comparing, SignedComparing
  <2>2. RtlNumber(n, l, r) = Meaning(l, TRUE) \div 2 ^ r.bits
    BY <1>4 DEF RtlNumber, Comparing, SignedComparing, Meaning
  <2> QED BY <1>1, <2>1, <2>2, ShiftRightHolds
<1> QED BY <1>2, <1>3, <1>4 DEF Shifting

\* The element of an array is where its declared range puts it.
LEMMA ElementOffset ==
  ASSUME NEW n, NEW l, NEW r, Applied(n, l, r), n.op = "ArraySelect",
         InRange(r.bits, Left(n, l), Right(n, l))
  PROVE  /\ ArrayOffset(r.bits, Left(n, l), Right(n, l), n.width) = n.width * Position(n, l, r.bits)
         /\ Position(n, l, r.bits) \in Nat
<1>1. n.extra \in {0, 1} /\ n.width \in Nat \ {0} /\ l.width \in Nat /\ r.bits \in Nat
  BY DEF Applied, IsValued, VectorRecords
<1>2. l.width > 0 /\ l.width % n.width = 0
  BY DEF Applied, IsValued, WidthsAgree, Same, Extending, Reducing, Bitwise, Adding, Scaling, SignedComparing, Comparing, Logical, Shifting
<1> DEFINE c == l.width \div n.width
<1>3. c \in Int /\ c >= 1
  <2>0. PICK a \in Int, d \in Nat \ {0} : a = l.width /\ d = n.width
    BY <1>1
  <2>1. l.width = (l.width % n.width) + n.width * c /\ c \in Int
    <3>1. a = (a % d) + d * (a \div d) /\ a \div d \in Int
      BY DivMod
    <3> QED BY <2>0, <3>1
  <2> HIDE DEF c
  <2>2. l.width = n.width * c
    BY <1>1, <1>2, <2>1
  <2>3. c <= 0 => n.width * c <= 0
    BY <1>1, <2>1
  <2> QED BY <1>1, <1>2, <2>1, <2>2, <2>3
<1>4. PICK w \in Nat \ {0}, i \in Nat : w = n.width /\ i = r.bits
  BY <1>1
<1> HIDE DEF c
<1>5. CASE n.extra = 1
  <2>1. Left(n, l) = c - 1 /\ Right(n, l) = 0 /\ Position(n, l, r.bits) = c - 1 - i
    BY <1>4, <1>5 DEF Left, Right, Position, c
  <2>2. i >= 0 /\ i <= c - 1
    BY <1>3, <1>4, <2>1 DEF InRange
  <2>3. ArrayOffset(r.bits, Left(n, l), Right(n, l), n.width) = (c - 1 - i) * w
    <3>1. CASE c = 1
      <4>1. i = 0
        BY <2>2, <3>1
      <4> QED BY <1>4, <2>1, <3>1, <4>1 DEF ArrayOffset
    <3>2. CASE c # 1
      <4>1. ~ (c - 1 <= 0)
        BY <1>3, <3>2
      <4> QED BY <1>4, <2>1, <4>1 DEF ArrayOffset
    <3> QED BY <3>1, <3>2
  <2>4. (c - 1 - i) * w = w * (c - 1 - i) /\ c - 1 - i \in Nat
    BY <1>3, <2>2
  <2> QED BY <1>4, <2>1, <2>3, <2>4
<1>6. CASE n.extra = 0
  <2>1. Left(n, l) = 0 /\ Right(n, l) = c - 1 /\ Position(n, l, r.bits) = i
    BY <1>4, <1>6 DEF Left, Right, Position, c
  <2>2. ArrayOffset(r.bits, Left(n, l), Right(n, l), n.width) = i * w
    BY <1>3, <1>4, <2>1 DEF ArrayOffset
  <2>3. i * w = w * i
    OBVIOUS
  <2> QED BY <1>4, <2>1, <2>2, <2>3
<1> QED BY <1>1, <1>5, <1>6

\* Concatenations, conditionals and selections.
LEMMA PlacementCompute ==
  ASSUME NEW n, NEW l, NEW r, Applied(n, l, r), ~ Panics(n, l, r),
         n.op \in {"Concat", "Conditional", "Select", "ArraySelect"}
  PROVE  /\ RtlNumber(n, l, r) \in Int /\ Holds(EmitBinary(n, l, r), n.width, RtlNumber(n, l, r))
<1>1. IsValued(l) /\ IsValued(r) /\ IsValued(n.other) /\ r.bits \in Nat /\ n.width \in Nat
  BY DEF Applied, IsValued, VectorRecords
<1>2. CASE n.op = "Concat"
  <2>1. EmitBinary(n, l, r) = Concat(l, r, n.width)
    BY <1>2 DEF EmitBinary, Comparing, SignedComparing
  <2>2. RtlNumber(n, l, r) = l.bits * 2 ^ r.width + r.bits
    BY <1>2 DEF RtlNumber, Comparing, SignedComparing
  <2> QED BY <1>1, <2>1, <2>2, ConcatHolds
<1>3. CASE n.op = "Conditional"
  <2> DEFINE v == IF l.bits # 0 THEN r ELSE n.other
  <2>1. EmitBinary(n, l, r) = Widened(v, n.width, FALSE)
    <3>1. Positive(l) <=> l.bits # 0
      BY <1>1, PositiveIsNotZero DEF IsValued
    <3>2. EmitBinary(n, l, r) = Widened(IF Positive(l) THEN r ELSE n.other, n.width, FALSE)
      BY <1>3 DEF EmitBinary, Comparing, SignedComparing
    <3> QED BY <3>1, <3>2
  <2>2. RtlNumber(n, l, r) = Meaning(v, FALSE)
    <3>1. RtlNumber(n, l, r) = IF l.bits # 0 THEN r.bits ELSE n.other.bits
      BY <1>3 DEF RtlNumber, Comparing, SignedComparing
    <3> QED BY <3>1 DEF Meaning
  <2>3. IsValued(v)
    BY <1>1
  <2> HIDE DEF v
  <2> QED BY <1>1, <2>1, <2>2, <2>3, WidenedHolds
<1>4. CASE n.op = "Select"
  <2>1. EmitBinary(n, l, r) = Select(l, r.bits, n.width)
    BY <1>4 DEF EmitBinary, Comparing, SignedComparing
  <2>2. RtlNumber(n, l, r) = l.bits \div 2 ^ r.bits
    BY <1>4 DEF RtlNumber, Comparing, SignedComparing
  <2> QED BY <1>1, <2>1, <2>2, SelectHolds
<1>5. CASE n.op = "ArraySelect"
  <2> DEFINE o == n.width * Position(n, l, r.bits)
  <2>1. InRange(r.bits, Left(n, l), Right(n, l))
    BY <1>5 DEF Panics
  <2>2. ArrayOffset(r.bits, Left(n, l), Right(n, l), n.width) = o /\ Position(n, l, r.bits) \in Nat
    BY <1>5, <2>1, ElementOffset
  <2>3. o \in Nat
    BY <1>1, <2>2
  <2>4. EmitBinary(n, l, r) = Select(l, o, n.width)
    <3> HIDE DEF o
    <3> QED BY <1>5, <2>2 DEF EmitBinary, Comparing, SignedComparing
  <2>5. RtlNumber(n, l, r) = l.bits \div 2 ^ o
    BY <1>5 DEF RtlNumber, Comparing, SignedComparing
  <2> HIDE DEF o
  <2> QED BY <1>1, <2>3, <2>4, <2>5, SelectHolds
<1> QED BY <1>2, <1>3, <1>4, <1>5

\* Whatever the storage type, and division by zero and the smallest number included.
LEMMA OperatorsCompute ==
  ASSUME NEW n, NEW l, NEW r, Applied(n, l, r), ~ Panics(n, l, r)
  PROVE  Computes(n, l, r)
<1>1. CASE Unary(n)
  BY <1>1, UnaryCompute
<1>2. CASE ~ Unary(n)
  <2>1. EmitExpression(n, l, r) = EmitBinary(n, l, r)
    BY <1>2 DEF EmitExpression
  <2>2. n.op \in Bitwise \cup (Adding \cup Scaling) \cup Comparing \cup Logical \cup Shifting
                   \cup {"Concat", "Conditional", "Select", "ArraySelect"}
    BY <1>2 DEF Unary, Applied, Operators, Selecting
  <2>3. RtlNumber(n, l, r) \in Int /\ Holds(EmitBinary(n, l, r), n.width, RtlNumber(n, l, r))
    BY <2>2, BitwiseCompute, ArithmeticCompute, ComparisonCompute, LogicalCompute, ShiftCompute,
       PlacementCompute
  <2> QED BY <2>1, <2>3 DEF Computes
<1> QED BY <1>1, <1>2

-----------------------------------------------------------------------------
(* The sum by which the converter replicates.                              *)

\* Different places are worth different powers.
LEMMA PowerInjective ==
  ASSUME NEW i \in Nat, NEW j \in Nat, 2 ^ i = 2 ^ j
  PROVE  i = j
<1>1. ASSUME NEW a \in Nat, NEW b \in Nat, a < b PROVE 2 ^ a < 2 ^ b
  <2>1. a + 1 \in Nat /\ a + 1 <= b
    BY <1>1
  <2>2. 2 ^ (a + 1) <= 2 ^ b
    BY <2>1, PowerMonotone
  <2>3. 2 ^ (a + 1) = 2 ^ a + 2 ^ a /\ 2 ^ a \in Nat \ {0} /\ 2 ^ b \in Nat
    BY PowerStep, PowerPositive
  <2> QED BY <2>2, <2>3
<1>2. 2 ^ i \in Nat /\ 2 ^ j \in Nat
  BY PowerPositive
<1>3. ~ (i < j) /\ ~ (j < i)
  BY <1>1, <1>2
<1> QED BY <1>3

\* The sum of a set of powers is the number with ones at these places.
LEMMA SumOfPowers ==
  ASSUME NEW w \in Nat, NEW s \in SUBSET (0 .. w - 1)
  PROVE  SumSet({2 ^ i : i \in s}) = Value(w, s)
<1> DEFINE T == {2 ^ i : i \in s}
           Adds(h) == h = [t \in SUBSET T |->
                             IF t = {} THEN 0
                             ELSE (CHOOSE x \in t : TRUE) + h[t \ {CHOOSE x \in t : TRUE}]]
           f == [x \in T |-> x]
           Places(t) == {i \in 0 .. w - 1 : 2 ^ i \in t}
           m == [t \in SUBSET T |-> Value(w, Places(t))]
<1>1. SumSet(T) = (CHOOSE h : Adds(h))[T]
  BY DEF SumSet, FoldSet, MapThenFoldSet
<1>2. \A t \in SUBSET T : t # {} => (CHOOSE x \in t : TRUE) = f[CHOOSE x \in t : TRUE]
  <2> SUFFICES ASSUME NEW t \in SUBSET T, t # {}
               PROVE  (CHOOSE x \in t : TRUE) \in T
    OBVIOUS
  <2>1. (CHOOSE x \in t : TRUE) \in t
    OBVIOUS
  <2> QED BY <2>1
<1>3. \A h : Adds(h) <=> Sums(h, T, f)
  <2> HIDE DEF T, f
  <2> QED BY <1>2 DEF Sums
<1>4. IsFiniteSet(T)
  <2>1. 0 \in Int /\ w - 1 \in Int
    OBVIOUS
  <2>2. IsFiniteSet(0 .. w - 1)
    BY <2>1, FS_Interval
  <2>3. IsFiniteSet(s)
    BY <2>2, FS_Subset
  <2>4. [i \in s |-> 2 ^ i] \in Surjection(s, T)
    BY DEF Surjection
  <2> HIDE DEF T
  <2> QED BY <2>3, <2>4, FS_Surjection
<1>5. \A t \in SUBSET T : m[t] = Value(w, Places(t)) /\ m[t] \in Nat
  BY ValueType
<1>6. m[{}] = 0
  <2>1. Places({}) = {} /\ {} \in SUBSET T
    OBVIOUS
  <2> QED BY <2>1, ValueEmpty
<1>7. ASSUME NEW t \in SUBSET T, NEW x \in t PROVE m[t] = f[x] + m[t \ {x}]
  <2>1. PICK j \in s : x = 2 ^ j
    OBVIOUS
  <2>2. j \in 0 .. w - 1 /\ j \in Nat /\ x \in T /\ f[x] = x /\ t \ {x} \in SUBSET T
    BY <2>1
  <2>3. j \in Places(t)
    BY <2>1, <2>2
  <2>4. Places(t \ {x}) = Places(t) \ {j}
    <3>1. ASSUME NEW i \in 0 .. w - 1 PROVE 2 ^ i = x <=> i = j
      BY <2>1, <2>2, PowerInjective
    <3> QED BY <3>1
  <2>5. Value(w, Places(t)) = 2 ^ j + Value(w, Places(t) \ {j})
    <3> HIDE DEF Places
    <3> QED BY <2>2, <2>3, ValueRemove
  <2>6. m[t] = Value(w, Places(t)) /\ m[t \ {x}] = Value(w, Places(t) \ {j})
    <3> HIDE DEF m, Places
    <3> QED BY <1>5, <2>2, <2>4
  <2> QED BY ONLY <2>1, <2>2, <2>5, <2>6, Zenon
<1>8. Places(T) = s
  <2>1. ASSUME NEW i \in 0 .. w - 1 PROVE 2 ^ i \in T <=> i \in s
    <3>1. ASSUME NEW j \in s, 2 ^ i = 2 ^ j PROVE i = j
      BY <3>1, PowerInjective
    <3> QED BY <3>1
  <2> HIDE DEF T
  <2> QED BY <2>1
<1>9. m[T] = Value(w, s)
  <2>1. T \in SUBSET T
    OBVIOUS
  <2> HIDE DEF T, m, Places
  <2> QED BY <1>5, <1>8, <2>1
<1>10. Sums([t \in SUBSET T |-> m[t]], T, f)
  <2> HIDE DEF T, f, m
  <2> QED BY <1>5, <1>6, <1>7, SumIsMeasure
<1> DEFINE g == CHOOSE h : Adds(h)
<1>11. Sums(g, T, f)
  <2> HIDE DEF T, f, m, Adds
  <2>1. Adds([t \in SUBSET T |-> m[t]])
    BY <1>3, <1>10
  <2>2. Adds(g)
    BY <2>1
  <2> HIDE DEF g
  <2> QED BY <1>3, <2>2
<1> HIDE DEF T, f, m, g, Adds, Places
<1>12. g[T] = m[T]
  <2>1. \A t \in SUBSET T : m[t] \in Nat
    BY <1>5
  <2> QED BY <1>4, <1>6, <1>7, <1>11, <2>1, SumIs
<1>13. SumSet(T) = Value(w, s)
  BY <1>1, <1>9, <1>12 DEF g
<1> QED BY <1>13 DEF T

\* One has its only one at the lowest place.
LEMMA DigitsOfOne ==
  ASSUME NEW i \in Nat
  PROVE  Digit(1, i) = 1 <=> i = 0
<1>1. CASE i = 0
  <2>1. 2 ^ 0 = 1
    OBVIOUS
  <2>2. (1 \div 1) % 2 = 1
    OBVIOUS
  <2> QED BY <1>1, <2>1, <2>2 DEF Digit
<1>2. CASE i # 0
  <2>1. 2 ^ 1 = 2
    <3>1. 2 ^ (0 + 1) = 2 ^ 0 + 2 ^ 0 /\ 2 ^ 0 = 1 /\ 0 + 1 = 1
      BY PowerStep
    <3> QED BY <3>1
  <2>2. 1 \in 0 .. 2 ^ 1 - 1 /\ 1 <= i
    BY <1>2, <2>1
  <2>3. Digit(1, i) = 0
    BY <2>2, DigitsEnd
  <2> QED BY <1>2, <2>3
<1> QED BY <1>1, <1>2

\* The geometric sum.
LEMMA SumOfShifts ==
  ASSUME NEW width \in Nat \ {0}, NEW k \in Nat
  PROVE  SumSet({2 ^ (width * i) : i \in 0 .. k - 1}) = (2 ^ (width * k) - 1) \div (2 ^ width - 1)
<1> DEFINE s == {width * i : i \in 0 .. k - 1}
<1>1. PICK w \in Nat : w = width * k
  OBVIOUS
<1>2. s \in SUBSET (0 .. w - 1)
  <2>1. ASSUME NEW i \in 0 .. k - 1 PROVE width * i \in 0 .. w - 1
    <3>1. PICK c \in Nat : k = i + 1 + c
      <4>1. k - i - 1 \in Nat /\ k = i + 1 + (k - i - 1)
        OBVIOUS
      <4> QED BY <4>1
    <3>2. w = width * i + width + width * c /\ width * i \in Nat /\ width * c \in Nat
      BY <1>1, <3>1
    <3> QED BY <3>2
  <2> QED BY <2>1
<1>3. {2 ^ (width * i) : i \in 0 .. k - 1} = {2 ^ j : j \in s}
  OBVIOUS
<1>4. 1 \in 0 .. 2 ^ width - 1
  <2>1. PICK u \in Nat : width = u + 1
    <3>1. width - 1 \in Nat /\ width = (width - 1) + 1
      OBVIOUS
    <3> QED BY <3>1
  <2>2. 2 ^ (u + 1) = 2 ^ u + 2 ^ u /\ 2 ^ u \in Nat \ {0}
    BY PowerStep, PowerPositive
  <2> QED BY <2>1, <2>2
<1>5. PICK g : Copies(1, width, k, g)
  BY <1>4, CopiesExist
<1>6. (2 ^ (width * k) - 1) \div (2 ^ width - 1) = g
  BY <1>5, CopiesFactor
<1>7. g \in 0 .. 2 ^ w - 1 /\ \A j \in Nat : Digit(g, j) = 1 <=> j < w /\ Digit(1, j % width) = 1
  <2>1. /\ g \in Nat /\ 1 * g \in 0 .. 2 ^ w - 1
        /\ \A j \in Nat : Digit(1 * g, j) = 1 <=> j < w /\ Digit(1, j % width) = 1
    BY ONLY <1>1, <1>5, Zenon DEF Copies
  <2>2. 1 * g = g
    BY <2>1
  <2> QED BY ONLY <2>1, <2>2, Zenon
<1>8. ASSUME NEW j \in 0 .. w - 1 PROVE j \in s <=> Digit(g, j) = 1
  <2>1. j \in Nat /\ j < w
    OBVIOUS
  <2>2. PICK q \in Int, r \in 0 .. width - 1 : q = j \div width /\ r = j % width /\ j = r + width * q
    <3>1. /\ j \div width \in Int /\ j % width \in 0 .. width - 1
          /\ j = (j % width) + width * (j \div width)
      BY <2>1, DivMod
    <3> QED BY ONLY <3>1, Zenon
  <2>3. Digit(g, j) = 1 <=> r = 0
    BY <1>7, <2>1, <2>2, DigitsOfOne
  <2>4. ASSUME r = 0 PROVE j \in s
    <3>1. j = width * q
      BY <2>2, <2>4
    <3>2. q >= 0
      BY <2>1, <3>1
    <3>3. q < k
      BY <1>1, <2>1, <3>1
    <3> QED BY <3>1, <3>2, <3>3
  <2>5. ASSUME j \in s PROVE r = 0
    <3>1. PICK i \in 0 .. k - 1 : j = width * i
      BY <2>5
    <3>2. PICK z \in 0 .. width - 1 : z = 0 /\ j = z + width * i
      BY <3>1
    <3>3. j % width = z
      BY <3>2, DivisionOf
    <3> QED BY <2>2, <3>2, <3>3
  <2> QED BY <2>3, <2>4, <2>5
<1> HIDE DEF s
<1>9. Value(w, s) = g % 2 ^ w
  BY <1>2, <1>7, <1>8, NumberByDigits
<1>10. g % 2 ^ w = g
  BY <1>7, PowerPositive, ModSmall
<1>11. SumSet({2 ^ j : j \in s}) = Value(w, s)
  BY <1>2, SumOfPowers
<1> QED BY <1>3, <1>6, <1>9, <1>10, <1>11

-----------------------------------------------------------------------------
(* Every step applies an operator to vectors that the program can have.    *)

\* A literal of positive width is a value.
LEMMA LiteralIsValued ==
  ASSUME NEW v, v.width \in Nat \ {0}, v.bits \in Nat
  PROVE  IsValued(Literal(v).sim)
<1>1. Holds(FromInteger(v.width, v.bits), v.width, v.bits)
  BY FromIntegerHolds
<1>2. IsValued(FromInteger(v.width, v.bits))
  BY <1>1, HoldsIsValued
<1> QED BY <1>2 DEF Literal

\* So is every vector of a literal's width, and the zero of one bit.
LEMMA VectorsAreValued ==
  /\ \A v \in Vectors(LiteralWidths) : IsValued(v)
  /\ IsValued(Zero(1))
<1>1. ASSUME NEW v \in Vectors(LiteralWidths) PROVE IsValued(v)
  <2>1. PICK w \in LiteralWidths : \E m \in 0 .. 2 ^ w - 1 : v = Vector(w, m)
    BY DEF Vectors
  <2>2. PICK m \in 0 .. 2 ^ w - 1 : v = Vector(w, m)
    BY <2>1
  <2>3. w \in Nat \ {0} /\ m \in Nat
    BY ResultWidthsAssumption
  <2>4. v.width = w /\ v.bits = m /\ v \in VectorRecords
    BY <2>2, <2>3 DEF Vector, VectorRecords
  <2> QED BY <2>3, <2>4 DEF IsValued, IsVector
<1>2. IsValued(Zero(1))
  <2>1. 2 ^ 1 \in Nat \ {0} /\ 1 \in Nat
    BY PowerPositive
  <2> QED BY <2>1 DEF Zero, Vector, VectorRecords, IsValued, IsVector
<1> QED BY <1>1, <1>2

\* Every operator the parser accepts has a positive width and a sound count.
LEMMA NodesAreSound ==
  ASSUME NEW n \in Nodes
  PROVE  /\ n.op \in Operators /\ n.width \in Nat \ {0} /\ n.signed \in BOOLEAN /\ n.extra \in Nat
         /\ n.op \notin Adding => ~ n.signed
         /\ n.op = "ArraySelect" => n.extra \in {0, 1}
         /\ n # NoNode /\ IsValued(n.other)
<1>1. n.width \in Widths
  BY DEF Nodes, Node
<1>2. n.width \in Nat \ {0}
  BY <1>1, ResultWidthsAssumption
<1>3. n.width # NoNode.width
  BY <1>2 DEF NoNode
<1> IsValued(Zero(1))
  BY VectorsAreValued
<1>4. CASE n \in Node(Operators \ (Adding \cup {"Replicate", "SelectConstant", "ArraySelect", "Conditional"}),
                     {FALSE}, {0}, {Zero(1)})
  <2>1. /\ n.op \in Operators \ (Adding \cup {"Replicate", "SelectConstant", "ArraySelect", "Conditional"})
        /\ n.signed = FALSE /\ n.extra = 0 /\ n.other = Zero(1)
    BY <1>4 DEF Node
  <2>2. ~ n.signed /\ n.signed \in BOOLEAN
    BY ONLY <2>1, Zenon
  <2>3. n.op \in Operators /\ n.op # "ArraySelect" /\ n.extra \in Nat /\ IsValued(n.other)
    BY <2>1
  <2> QED BY ONLY <1>2, <1>3, <2>2, <2>3, Zenon
<1>5. CASE n \in Node(Adding, BOOLEAN, {0}, {Zero(1)})
  <2>1. n.op \in Adding /\ n.signed \in BOOLEAN /\ n.extra = 0 /\ n.other = Zero(1)
    BY <1>5 DEF Node
  <2>2. n.op \in Operators /\ n.op # "ArraySelect" /\ IsValued(n.other)
    BY <2>1 DEF Operators, Adding
  <2> QED BY <1>2, <1>3, <2>1, <2>2
<1>6. CASE n \in Node({"Replicate", "SelectConstant"}, {FALSE}, 0 .. Max(Widths), {Zero(1)})
  <2>1. n.op \in {"Replicate", "SelectConstant"} /\ n.signed = FALSE /\ n.extra \in 0 .. Max(Widths) /\ n.other = Zero(1)
    BY <1>6 DEF Node
  <2>2. n.extra \in Nat /\ IsValued(n.other)
    BY <2>1
  <2> QED BY <1>2, <1>3, <2>1, <2>2 DEF Operators, Selecting
<1>7. CASE n \in Node({"ArraySelect"}, {FALSE}, {0, 1}, {Zero(1)})
  <2>1. n.op = "ArraySelect" /\ n.signed = FALSE /\ n.extra \in {0, 1} /\ n.other = Zero(1)
    BY <1>7 DEF Node
  <2>2. ~ n.signed /\ n.signed \in BOOLEAN
    BY ONLY <2>1, Zenon
  <2>3. n.op \in Operators /\ n.extra \in Nat /\ IsValued(n.other)
    BY <2>1 DEF Operators, Selecting
  <2> QED BY ONLY <1>2, <1>3, <2>1, <2>2, <2>3, Zenon
<1>8. CASE n \in Node({"Conditional"}, {FALSE}, {0}, Vectors(LiteralWidths))
  <2>1. n.op = "Conditional" /\ n.signed = FALSE /\ n.extra = 0 /\ n.other \in Vectors(LiteralWidths)
    BY <1>8 DEF Node
  <2>2. ~ n.signed /\ n.signed \in BOOLEAN
    BY ONLY <2>1, Zenon
  <2>3. n.op \in Operators /\ n.op # "ArraySelect" /\ n.extra \in Nat /\ IsValued(n.other)
    BY <2>1, VectorsAreValued DEF Operators
  <2> QED BY ONLY <1>2, <1>3, <2>1, <2>2, <2>3, Zenon
<1> QED BY <1>4, <1>5, <1>6, <1>7, <1>8 DEF Nodes

\* So are all that the statements start from.
LEMMA LiteralsAreValued ==
  /\ \A literal \in Literals : IsValued(literal.sim)
  /\ IsValued(Literal(Zero(1)).sim)
<1>1. ASSUME NEW literal \in Literals PROVE IsValued(literal.sim)
  <2>1. PICK v \in Vectors(LiteralWidths) : literal = Literal(v)
    BY DEF Literals
  <2>2. PICK w \in LiteralWidths : \E m \in 0 .. 2 ^ w - 1 : v = Vector(w, m)
    BY DEF Vectors
  <2>9. PICK m \in 0 .. 2 ^ w - 1 : v = Vector(w, m)
    BY <2>2
  <2>3. w \in Nat \ {0} /\ m \in Nat
    BY ResultWidthsAssumption
  <2>4. v.width \in Nat \ {0} /\ v.bits \in Nat
    BY <2>9, <2>3 DEF Vector
  <2> QED BY <2>1, <2>4, LiteralIsValued
<1>2. Zero(1).width \in Nat \ {0} /\ Zero(1).bits \in Nat
  BY DEF Zero, Vector
<1> QED BY <1>1, <1>2, LiteralIsValued

\* A step of an expression panics, or computes what its operator means.
LEMMA PanicOrValue ==
  ASSUME NEW n, NEW l, NEW r, Applied(n, l, r), EmitExpression(n, l, r) # Panic
  PROVE  Computes(n, l, r) /\ ~ Panics(n, l, r)
<1>1. ~ Panics(n, l, r)
  BY DEF EmitExpression
<1> QED BY <1>1, OperatorsCompute

\* The invariant of an expression as it grows.
ExpressionInv ==
  /\ IsValued(lhs.sim) /\ IsValued(rhs.sim)
  /\ node # NoNode =>
       /\ Applied(node, lhs.sim, rhs.sim)
       /\ simulated = EmitExpression(node, lhs.sim, rhs.sim)
       /\ converted = OnBvExpr(node, lhs.fsm, rhs.fsm)

\* It holds in every state of a statement.
LEMMA ExpressionInvHolds == StatementSpec => []ExpressionInv
<1>1. StatementInit => ExpressionInv
  BY LiteralsAreValued DEF StatementInit, ExpressionInit, ExpressionInv
<1>2. ExpressionInv /\ [StatementNext]_statementVars => ExpressionInv'
  <2> SUFFICES ASSUME ExpressionInv, [StatementNext]_statementVars PROVE ExpressionInv'
    OBVIOUS
  <2>1. ASSUME NEW n \in Nodes, Operate(n) PROVE ExpressionInv'
    <3>1. Applied(n, lhs.sim, rhs.sim)
      BY <2>1, NodesAreSound DEF Applied, Operate, ExpressionInv
    <3> QED BY <2>1, <3>1 DEF Operate, ExpressionInv
  <2>2. ASSUME NEW literal \in Literals, Nest(literal) PROVE ExpressionInv'
    <3>1. node # NoNode /\ simulated # Panic
      BY <2>2 DEF Nest
    <3>2. Applied(node, lhs.sim, rhs.sim) /\ simulated = EmitExpression(node, lhs.sim, rhs.sim)
      BY <3>1 DEF ExpressionInv
    <3>3. Holds(simulated, node.width, RtlNumber(node, lhs.sim, rhs.sim)) /\ node.width \in Nat \ {0}
      BY <3>1, <3>2, PanicOrValue DEF Computes, Applied
    <3>4. IsValued(simulated) /\ IsValued(literal.sim)
      BY <3>3, HoldsIsValued, LiteralsAreValued
    <3>5. node' = NoNode /\ IsValued(lhs'.sim) /\ IsValued(rhs'.sim)
      BY <2>2, <3>4 DEF Nest
    <3> QED BY <3>5 DEF ExpressionInv
  <2>3. CASE Yield
    <3>1. node' = NoNode /\ lhs' = Literal(Zero(1)) /\ rhs' = Literal(Zero(1))
      BY <2>3 DEF Yield
    <3> QED BY <3>1, LiteralsAreValued DEF ExpressionInv
  <2>4. CASE UNCHANGED expressionVars
    BY <2>4 DEF expressionVars, ExpressionInv
  <2> QED BY <2>1, <2>2, <2>3, <2>4 DEF StatementNext, Compute, ExpressionNext, Place, statementVars
<1> QED BY <1>1, <1>2, PTL DEF StatementSpec

\* Every value the generated code computes has the width of its operator and no
\* stray bit in its storage, whatever operators it is nested from and however
\* the storage type of an intermediate result wraps around (Bits::masked).
THEOREM CanonicalCorrect == StatementSpec => []Canonical
<1>1. ExpressionInv => Canonical
  <2> SUFFICES ASSUME ExpressionInv, node # NoNode, simulated # Panic
               PROVE  IsVector(simulated) /\ simulated.width = node.width
    BY DEF Canonical
  <2>1. Applied(node, lhs.sim, rhs.sim) /\ simulated = EmitExpression(node, lhs.sim, rhs.sim)
    BY DEF ExpressionInv
  <2> QED BY <2>1, PanicOrValue DEF Computes, Holds
<1> QED BY <1>1, ExpressionInvHolds, PTL

\* The generated code computes what its operators mean: the number RtlNumber
\* gives them, cut to the width, for every width, nesting and pair of operands
\* (emit_expression and the operators of the runtime).
THEOREM RtlCorrect == StatementSpec => []RuntimeIsRtl
<1>1. ExpressionInv => RuntimeIsRtl
  <2> SUFFICES ASSUME ExpressionInv, node # NoNode, simulated # Panic
               PROVE  simulated.bits = RtlNumber(node, lhs.sim, rhs.sim) % 2 ^ node.width
    BY DEF RuntimeIsRtl
  <2>1. Applied(node, lhs.sim, rhs.sim) /\ simulated = EmitExpression(node, lhs.sim, rhs.sim)
    BY DEF ExpressionInv
  <2> QED BY <2>1, PanicOrValue DEF Computes, Holds
<1> QED BY <1>1, ExpressionInvHolds, PTL

-----------------------------------------------------------------------------
(* The term the converter builds holds the same number.                    *)

\* One bit is zero or one.
LEMMA BitNumber ==
  ASSUME NEW v, IsValued(v), v.width = 1
  PROVE  v.bits \in {0, 1}
<1>1. 2 ^ 1 = 2
  <2>1. 2 ^ (0 + 1) = 2 ^ 0 + 2 ^ 0 /\ 2 ^ 0 = 1 /\ 0 + 1 = 1
    BY PowerStep
  <2> QED BY <2>1
<1>2. v.bits \in 0 .. 2 ^ 1 - 1
  BY DEF IsValued, IsVector
<1> QED BY <1>1, <1>2

\* ext_or_truncate is resize.
LEMMA ExtendedHolds ==
  ASSUME NEW v, IsValued(v), NEW w \in Nat, NEW s \in BOOLEAN
  PROVE  /\ Meaning(v, s) \in Int
         /\ Holds(ExtOrTruncate(v, w, s), w, Meaning(v, s))
BY WidenedHolds, FromIntegerHolds DEF ExtOrTruncate

\* Extending by zeros keeps the number and its ones.
LEMMA ExtendedUnsigned ==
  ASSUME NEW v, IsValued(v), NEW w \in Nat \ {0}, v.width <= w
  PROVE  /\ IsValued(ExtOrTruncate(v, w, FALSE)) /\ ExtOrTruncate(v, w, FALSE).width = w
         /\ ExtOrTruncate(v, w, FALSE).bits = v.bits
         /\ Ones(ExtOrTruncate(v, w, FALSE)) = Ones(v)
<1> DEFINE e == ExtOrTruncate(v, w, FALSE)
<1>1. Holds(e, w, v.bits)
  BY ExtendedHolds DEF Meaning
<1> HIDE DEF e
<1>2. IsValued(e) /\ e.width = w /\ e.bits = v.bits
  BY <1>1, HoldsIsValued, UnsignedWidened
<1>3. /\ e \in VectorRecords /\ IsVector(e) /\ v \in VectorRecords /\ IsVector(v)
  BY <1>2 DEF IsValued
<1>4. \A i \in Nat : i \in Ones(e) <=> i \in Ones(v)
  BY <1>2, <1>3, DigitsOfVector
<1>5. Ones(e) \subseteq Nat /\ Ones(v) \subseteq Nat
  BY <1>3 DEF Ones, VectorRecords
<1>6. Ones(e) = Ones(v)
  BY <1>4, <1>5
<1> QED BY <1>2, <1>6 DEF e

\* The terms of one operand.
LEMMA UnaryTerm ==
  ASSUME NEW n, NEW l, NEW r, Applied(n, l, r), Unary(n), HasTerm(n, l, r)
  PROVE  Holds(UnaryExpression(n, l), n.width, RtlNumber(n, l, r))
<1>1. n.op \in {"BitwiseNot", "Negate", "LogicalNot", "ZeroExtend", "SignExtend", "Replicate"}
  BY DEF Unary, HasTerm, Same, Extending, Reducing, Selecting
<1>2. IsValued(l) /\ l.width \in Nat \ {0} /\ l.bits \in Nat /\ n.width \in Nat \ {0}
  BY DEF Applied, IsValued, VectorRecords
<1>3. CASE n.op = "BitwiseNot"
  <2>1. UnaryExpression(n, l) = Term(l.width, - l.bits - 1)
    BY <1>3 DEF UnaryExpression
  <2>2. RtlNumber(n, l, r) = - l.bits - 1
    BY <1>3 DEF RtlNumber, Comparing, SignedComparing
  <2>3. n.width = l.width
    BY <1>3 DEF Applied, WidthsAgree, Same, Extending, Reducing, Bitwise, Adding, Scaling, SignedComparing, Comparing, Logical, Shifting
  <2>4. - l.bits - 1 \in Int
    BY <1>2
  <2>5. Holds(Term(l.width, - l.bits - 1), l.width, - l.bits - 1)
    BY <1>2, <2>4, FromIntegerHolds
  <2> QED BY ONLY <2>1, <2>2, <2>3, <2>5, Zenon
<1>4. CASE n.op = "Negate"
  <2>1. UnaryExpression(n, l) = Term(l.width, - l.bits)
    BY <1>4 DEF UnaryExpression
  <2>2. RtlNumber(n, l, r) = - l.bits
    BY <1>4 DEF RtlNumber, Comparing, SignedComparing
  <2>3. n.width = l.width
    BY <1>4 DEF Applied, WidthsAgree, Same, Extending, Reducing, Bitwise, Adding, Scaling, SignedComparing, Comparing, Logical, Shifting
  <2>4. - l.bits \in Int
    BY <1>2
  <2>5. Holds(Term(l.width, - l.bits), l.width, - l.bits)
    BY <1>2, <2>4, FromIntegerHolds
  <2> QED BY ONLY <2>1, <2>2, <2>3, <2>5, Zenon
<1>5. CASE n.op = "LogicalNot"
  <2>1. UnaryExpression(n, l) = Term(1, 1 - l.bits)
    BY <1>5 DEF UnaryExpression
  <2>2. RtlNumber(n, l, r) = Number(l.bits = 0)
    BY <1>5 DEF RtlNumber, Comparing, SignedComparing
  <2>3. n.width = 1
    BY <1>5 DEF Applied, WidthsAgree, Same, Extending, Reducing, Bitwise, Adding, Scaling, SignedComparing, Comparing, Logical, Shifting
  <2>4. l.width = 1
    BY <1>5 DEF HasTerm
  <2>5. l.bits \in {0, 1}
    BY <1>2, <2>4, BitNumber
  <2>6. Number(l.bits = 0) = 1 - l.bits /\ 1 - l.bits \in Int
    BY <2>5 DEF Number
  <2>7. Holds(Term(1, 1 - l.bits), 1, 1 - l.bits)
    BY <2>6, FromIntegerHolds
  <2> QED BY ONLY <2>1, <2>2, <2>3, <2>6, <2>7, Zenon
<1>6. CASE n.op = "ZeroExtend"
  <2>1. UnaryExpression(n, l) = ExtOrTruncate(l, n.width, FALSE)
    BY <1>6 DEF UnaryExpression
  <2>2. RtlNumber(n, l, r) = Meaning(l, FALSE)
    BY <1>6 DEF RtlNumber, Meaning, Comparing, SignedComparing
  <2> QED BY <1>2, <2>1, <2>2, ExtendedHolds
<1>7. CASE n.op = "SignExtend"
  <2>1. UnaryExpression(n, l) = ExtOrTruncate(l, n.width, TRUE)
    BY <1>7 DEF UnaryExpression
  <2>2. RtlNumber(n, l, r) = Meaning(l, TRUE)
    BY <1>7 DEF RtlNumber, Meaning, Comparing, SignedComparing
  <2> QED BY <1>2, <2>1, <2>2, ExtendedHolds
<1>8. CASE n.op = "Replicate"
  <2> DEFINE sum == SumSet({2 ^ (l.width * i) : i \in 0 .. n.extra - 1})
             factor == (2 ^ n.width - 1) \div (2 ^ l.width - 1)
  <2>1. UnaryExpression(n, l) = Term(n.width, l.bits * sum)
    BY <1>8 DEF UnaryExpression
  <2>2. RtlNumber(n, l, r) = l.bits * factor
    BY <1>8 DEF RtlNumber, Comparing, SignedComparing
  <2>3. l.width * n.extra = n.width /\ n.extra \in Nat
    BY <1>8 DEF Applied, Accepted
  <2>4. sum = factor
    <3>1. sum = (2 ^ (l.width * n.extra) - 1) \div (2 ^ l.width - 1)
      BY <1>2, <2>3, SumOfShifts
    <3> QED BY ONLY <2>3, <3>1, Zenon
  <2>5. l.bits * factor \in Int
    BY <1>2, <2>3, ReplicateHolds
  <2> HIDE DEF sum, factor
  <2>6. Holds(Term(n.width, l.bits * factor), n.width, l.bits * factor)
    BY <1>2, <2>5, FromIntegerHolds
  <2> QED BY ONLY <2>1, <2>2, <2>4, <2>6, Zenon
<1> QED BY <1>1, <1>3, <1>4, <1>5, <1>6, <1>7, <1>8

\* The bitwise terms.
LEMMA BitwiseTerm ==
  ASSUME NEW n, NEW l, NEW r, Applied(n, l, r), n.op \in Bitwise
  PROVE  Holds(BinaryExpression(n, l, r), n.width, RtlNumber(n, l, r))
<1> DEFINE e == ExtOrTruncate(l, n.width, FALSE)
           f == ExtOrTruncate(r, n.width, FALSE)
<1>1. n.width >= l.width /\ n.width >= r.width
  BY DEF Applied, WidthsAgree, Same, Extending, Reducing, Bitwise, Adding, Scaling, SignedComparing, Comparing, Logical, Shifting
<1>2. IsValued(l) /\ IsValued(r) /\ n.width \in Nat \ {0} /\ l.width <= n.width /\ r.width <= n.width
  BY <1>1 DEF Applied, IsValued, VectorRecords
<1>3. Ones(e) = Ones(l) /\ Ones(f) = Ones(r)
  BY <1>2, ExtendedUnsigned
<1>4. BinaryExpression(n, l, r) = EmitBinary(n, e, f)
  BY DEF BinaryExpression, Bitwise, Adding, Scaling, Comparing, SignedComparing, Shifting, Logical
<1> HIDE DEF e, f
<1>5. EmitBinary(n, e, f) = EmitBinary(n, l, r)
  <2>1. CASE n.op = "BitwiseAnd"
    <3>1. \A a, b : EmitBinary(n, a, b) = BitwiseAnd(a, b, n.width)
      BY <2>1 DEF EmitBinary, Comparing, SignedComparing
    <3>2. BitwiseAnd(e, f, n.width) = BitwiseAnd(l, r, n.width)
      BY <1>3 DEF BitwiseAnd
    <3> QED BY ONLY <3>1, <3>2, Zenon
  <2>2. CASE n.op = "BitwiseOr"
    <3>1. \A a, b : EmitBinary(n, a, b) = BitwiseOr(a, b, n.width)
      BY <2>2 DEF EmitBinary, Comparing, SignedComparing
    <3>2. BitwiseOr(e, f, n.width) = BitwiseOr(l, r, n.width)
      BY <1>3 DEF BitwiseOr
    <3> QED BY ONLY <3>1, <3>2, Zenon
  <2>3. CASE n.op = "BitwiseXor"
    <3>1. \A a, b : EmitBinary(n, a, b) = BitwiseXor(a, b, n.width)
      BY <2>3 DEF EmitBinary, Comparing, SignedComparing
    <3>2. BitwiseXor(e, f, n.width) = BitwiseXor(l, r, n.width)
      BY <1>3 DEF BitwiseXor
    <3> QED BY ONLY <3>1, <3>2, Zenon
  <2> QED BY <2>1, <2>2, <2>3 DEF Bitwise
<1> QED BY <1>4, <1>5, BitwiseCompute

\* The terms of sums, products and quotients.
LEMMA ArithmeticTerm ==
  ASSUME NEW n, NEW l, NEW r, Applied(n, l, r), n.op \in Adding \cup Scaling
  PROVE  Holds(BinaryExpression(n, l, r), n.width, RtlNumber(n, l, r))
<1> DEFINE s == SignExtends(n)
           e == ExtOrTruncate(l, n.width, s)
           f == ExtOrTruncate(r, n.width, s)
<1>1. n.width >= l.width /\ n.width >= r.width
  BY DEF Applied, WidthsAgree, Same, Extending, Reducing, Bitwise, Adding, Scaling, SignedComparing, Comparing, Logical, Shifting
<1>2. IsValued(l) /\ IsValued(r) /\ n.width \in Nat \ {0} /\ l.width <= n.width /\ r.width <= n.width
      /\ s \in BOOLEAN
  BY <1>1, SignsOfOperators DEF Applied, IsValued, VectorRecords
<1>3. BinaryExpression(n, l, r) = Arithmetic(n, e, f)
  BY DEF BinaryExpression, Bitwise, Adding, Scaling, Comparing, SignedComparing, Shifting, Logical
<1>4. Holds(e, n.width, Meaning(l, s)) /\ Holds(f, n.width, Meaning(r, s))
  BY <1>2, ExtendedHolds
<1>5. PICK a \in Int, b \in Int : a = Meaning(l, s) /\ b = Meaning(r, s)
  BY <1>2, ExtendedHolds
<1>6. PICK c \in Int, d \in Int, p \in Nat \ {0} :
        c = e.bits /\ d = f.bits /\ p = 2 ^ n.width /\ Congruent(c, a, p) /\ Congruent(d, b, p)
  <2> HIDE DEF e, f, s
  <2>1. e.bits \in Int /\ Congruent(e.bits, a, 2 ^ n.width)
    BY <1>2, <1>4, <1>5, HoldsCongruence
  <2>2. f.bits \in Int /\ Congruent(f.bits, b, 2 ^ n.width)
    BY <1>2, <1>4, <1>5, HoldsCongruence
  <2>3. 2 ^ n.width \in Nat \ {0}
    BY <1>2, PowerPositive
  <2> QED BY <2>1, <2>2, <2>3
<1>7. Congruent(c + d, a + b, p) /\ Congruent(c - d, a - b, p) /\ Congruent(c * d, a * b, p)
  BY <1>6, CongruentSum
<1>8. /\ Holds(Term(n.width, c + d), n.width, a + b)
      /\ Holds(Term(n.width, c - d), n.width, a - b)
      /\ Holds(Term(n.width, c * d), n.width, a * b)
  <2>1. ASSUME NEW x \in Int, NEW y \in Int, Congruent(x, y, p)
        PROVE  Holds(Term(n.width, x), n.width, y)
    <3>1. Holds(Term(n.width, x), n.width, x)
      BY <1>2, FromIntegerHolds
    <3> QED BY <1>2, <1>6, <2>1, <3>1, HoldsCongruent
  <2>2. c + d \in Int /\ a + b \in Int /\ c - d \in Int /\ a - b \in Int /\ c * d \in Int /\ a * b \in Int
    OBVIOUS
  <2> QED BY <1>7, <2>1, <2>2
<1>9. CASE n.op = "Add"
  <2>1. Arithmetic(n, e, f) = Term(n.width, e.bits + f.bits)
    BY <1>9 DEF Arithmetic
  <2>2. RtlNumber(n, l, r) = Meaning(l, s) + Meaning(r, s)
    BY <1>9 DEF RtlNumber, Comparing, SignedComparing
  <2> HIDE DEF e, f, s
  <2> QED BY ONLY <1>3, <1>5, <1>6, <1>8, <2>1, <2>2, Zenon
<1>10. CASE n.op = "Subtract"
  <2>1. Arithmetic(n, e, f) = Term(n.width, e.bits - f.bits)
    BY <1>10 DEF Arithmetic
  <2>2. RtlNumber(n, l, r) = Meaning(l, s) - Meaning(r, s)
    BY <1>10 DEF RtlNumber, Comparing, SignedComparing
  <2> HIDE DEF e, f, s
  <2> QED BY ONLY <1>3, <1>5, <1>6, <1>8, <2>1, <2>2, Zenon
<1>11. CASE n.op \in {"MultiplyUnsigned", "MultiplySigned"}
  <2>1. Arithmetic(n, e, f) = Term(n.width, e.bits * f.bits)
    BY <1>11 DEF Arithmetic
  <2>2. RtlNumber(n, l, r) = Meaning(l, s) * Meaning(r, s)
    BY <1>11 DEF RtlNumber, Comparing, SignedComparing
  <2> HIDE DEF e, f, s
  <2> QED BY ONLY <1>3, <1>5, <1>6, <1>8, <2>1, <2>2, Zenon
<1>12. CASE n.op = "DivideUnsigned"
  <2>1. s = FALSE
    BY <1>2, <1>12, SignsOfOperators DEF Adding, SignedComparing
  <2>2. e.bits = l.bits /\ f.bits = r.bits
    BY <1>2, <2>1, ExtendedUnsigned
  <2> DEFINE quotient == IF r.bits = 0 THEN -1 ELSE l.bits \div r.bits
  <2>3. Arithmetic(n, e, f) = Term(n.width, quotient)
    <3>1. Arithmetic(n, e, f) = Term(n.width, IF f.bits = 0 THEN -1 ELSE e.bits \div f.bits)
      BY <1>12 DEF Arithmetic
    <3> HIDE DEF e, f
    <3> QED BY ONLY <2>2, <3>1, Zenon
  <2>4. RtlNumber(n, l, r) = Quotient(l.bits, r.bits)
    <3>1. RtlNumber(n, l, r) = Quotient(Meaning(l, s), Meaning(r, s))
      BY <1>12 DEF RtlNumber, Comparing, SignedComparing
    <3> QED BY <2>1, <3>1 DEF Meaning
  <2>5. l.bits \in Nat /\ r.bits \in Nat
    BY <1>2 DEF IsValued, VectorRecords
  <2>6. Quotient(l.bits, r.bits) = quotient
    BY <2>5 DEF Quotient, Magnitudes
  <2>7. quotient \in Int
    BY <2>5
  <2> HIDE DEF quotient, e, f, s
  <2>8. Holds(Term(n.width, quotient), n.width, quotient)
    BY <1>2, <2>7, FromIntegerHolds
  <2> QED BY ONLY <1>3, <2>3, <2>4, <2>6, <2>8, Zenon
<1>13. CASE n.op = "DivideSigned"
  <2>1. s = TRUE
    BY <1>2, <1>13, SignsOfOperators
  <2>2. Holds(e, n.width, Signed(l)) /\ Holds(f, n.width, Signed(r))
    BY <1>4, <2>1 DEF Meaning
  <2>3. Signed(e) = Signed(l) /\ Signed(f) = Signed(r)
    <3> HIDE DEF e, f, s
    <3> QED BY <1>2, <2>2, SignedWidened
  <2>4. Arithmetic(n, e, f) = Term(n.width, Quotient(Signed(e), Signed(f)))
    BY <1>13 DEF Arithmetic
  <2>5. RtlNumber(n, l, r) = Quotient(Signed(l), Signed(r))
    <3>1. RtlNumber(n, l, r) = Quotient(Meaning(l, s), Meaning(r, s))
      BY <1>13 DEF RtlNumber, Comparing, SignedComparing
    <3> QED BY <2>1, <3>1 DEF Meaning
  <2>6. Quotient(Signed(l), Signed(r)) \in Int
    BY <1>2, DivideSignedHolds
  <2> HIDE DEF e, f, s
  <2>7. Holds(Term(n.width, Quotient(Signed(l), Signed(r))), n.width, Quotient(Signed(l), Signed(r)))
    BY <1>2, <2>6, FromIntegerHolds
  <2> QED BY ONLY <1>3, <2>3, <2>4, <2>5, <2>7, Zenon
<1> QED BY <1>9, <1>10, <1>11, <1>12, <1>13 DEF Adding, Scaling

\* The terms of comparisons.
LEMMA ComparisonTerm ==
  ASSUME NEW n, NEW l, NEW r, Applied(n, l, r), n.op \in Comparing
  PROVE  Holds(BinaryExpression(n, l, r), n.width, RtlNumber(n, l, r))
<1> DEFINE s == SignExtends(n)
           b == Comparison(n.op, Order(Meaning(l, s), Meaning(r, s)))
<1>1. BinaryExpression(n, l, r) = Truth(1, b)
  BY DEF BinaryExpression, Bitwise, Adding, Scaling, Comparing, SignedComparing, Shifting, Logical
<1>2. RtlNumber(n, l, r) = Number(b)
  BY DEF RtlNumber, Comparing, SignedComparing
<1>3. n.width = 1
  BY DEF Applied, WidthsAgree, Same, Extending, Reducing, Bitwise, Adding, Scaling, SignedComparing, Comparing, Logical, Shifting
<1> HIDE DEF b
<1>4. Truth(1, b) = Term(1, Number(b)) /\ Number(b) \in Int
  BY DEF Truth, Number
<1>5. Holds(Term(1, Number(b)), 1, Number(b))
  BY <1>4, FromIntegerHolds
<1> QED BY ONLY <1>1, <1>2, <1>3, <1>4, <1>5, Zenon

\* The terms of the logical operators, of one bit each.
LEMMA LogicalTerm ==
  ASSUME NEW n, NEW l, NEW r, Applied(n, l, r), n.op \in Logical, HasTerm(n, l, r)
  PROVE  Holds(BinaryExpression(n, l, r), n.width, RtlNumber(n, l, r))
<1>1. n.width = 1
  BY DEF Applied, WidthsAgree, Same, Extending, Reducing, Bitwise, Adding, Scaling, SignedComparing, Comparing, Logical, Shifting
<1>2. l.bits \in {0, 1} /\ r.bits \in {0, 1}
  <2>1. l.width = 1 /\ r.width = 1
    BY DEF HasTerm
  <2> QED BY <2>1, BitNumber DEF Applied
<1>3. CASE n.op = "LogicalAnd"
  <2> DEFINE b == l.bits = 1 /\ r.bits = 1
  <2>1. BinaryExpression(n, l, r) = Truth(1, b)
    BY <1>3 DEF BinaryExpression, Bitwise, Adding, Scaling, Comparing, SignedComparing, Shifting, Logical
  <2>2. RtlNumber(n, l, r) = Number(l.bits # 0 /\ r.bits # 0)
    BY <1>3 DEF RtlNumber, Comparing, SignedComparing
  <2>3. Number(l.bits # 0 /\ r.bits # 0) = Number(b)
    BY <1>2 DEF Number
  <2> HIDE DEF b
  <2>4. Truth(1, b) = Term(1, Number(b)) /\ Number(b) \in Int
    BY DEF Truth, Number
  <2>5. Holds(Term(1, Number(b)), 1, Number(b))
    BY <2>4, FromIntegerHolds
  <2> QED BY ONLY <1>1, <2>1, <2>2, <2>3, <2>4, <2>5, Zenon
<1>4. CASE n.op = "LogicalOr"
  <2> DEFINE b == l.bits = 1 \/ r.bits = 1
  <2>1. BinaryExpression(n, l, r) = Truth(1, b)
    BY <1>4 DEF BinaryExpression, Bitwise, Adding, Scaling, Comparing, SignedComparing, Shifting, Logical
  <2>2. RtlNumber(n, l, r) = Number(l.bits # 0 \/ r.bits # 0)
    BY <1>4 DEF RtlNumber, Comparing, SignedComparing
  <2>3. Number(l.bits # 0 \/ r.bits # 0) = Number(b)
    BY <1>2 DEF Number
  <2> HIDE DEF b
  <2>4. Truth(1, b) = Term(1, Number(b)) /\ Number(b) \in Int
    BY DEF Truth, Number
  <2>5. Holds(Term(1, Number(b)), 1, Number(b))
    BY <2>4, FromIntegerHolds
  <2> QED BY ONLY <1>1, <2>1, <2>2, <2>3, <2>4, <2>5, Zenon
<1> QED BY <1>3, <1>4 DEF Logical

\* The terms of shifts, by an amount that fits the width of the result.
LEMMA ShiftTerms ==
  ASSUME NEW n, NEW l, NEW r, Applied(n, l, r), n.op \in Shifting, r.bits < 2 ^ n.width
  PROVE  Holds(BinaryExpression(n, l, r), n.width, RtlNumber(n, l, r))
<1>1. n.width = l.width
  BY DEF Applied, WidthsAgree, Same, Extending, Reducing, Bitwise, Adding, Scaling, SignedComparing, Comparing, Logical, Shifting
<1>2. /\ IsValued(l) /\ l \in VectorRecords /\ IsVector(l) /\ n.width \in Nat \ {0}
      /\ IsValued(r) /\ r.bits \in Nat /\ 2 ^ n.width \in Nat \ {0}
  BY PowerPositive DEF Applied, IsValued, VectorRecords
<1>3. ExtOrTruncate(l, n.width, FALSE) = l
  <2>1. Holds(ExtOrTruncate(l, n.width, FALSE), n.width, l.bits)
    BY <1>2, ExtendedHolds DEF Meaning
  <2>2. Holds(l, n.width, l.bits)
    BY <1>1, <1>2, HoldsSelf
  <2> QED BY <1>2, <2>1, <2>2, HoldsUnique
<1>4. ExtOrTruncate(r, n.width, FALSE).bits = r.bits
  <2>1. Holds(ExtOrTruncate(r, n.width, FALSE), n.width, r.bits)
    BY <1>2, ExtendedHolds DEF Meaning
  <2>2. r.bits % 2 ^ n.width = r.bits
    BY <1>2, ModSmall
  <2> QED BY <2>1, <2>2 DEF Holds
<1>5. BinaryExpression(n, l, r) = ShiftTerm(n.op, l, r.bits)
  <2>1. BinaryExpression(n, l, r)
          = ShiftTerm(n.op, ExtOrTruncate(l, n.width, FALSE), ExtOrTruncate(r, n.width, FALSE).bits)
    BY DEF BinaryExpression, Bitwise, Adding, Scaling, Comparing, SignedComparing, Shifting, Logical
  <2> QED BY ONLY <1>3, <1>4, <2>1, Zenon
<1>6. ASSUME NEW x \in Int, ShiftTerm(n.op, l, r.bits) = Term(l.width, x), RtlNumber(n, l, r) = x
      PROVE  Holds(BinaryExpression(n, l, r), n.width, RtlNumber(n, l, r))
  <2>1. Holds(Term(l.width, x), n.width, x)
    BY <1>1, <1>2, FromIntegerHolds
  <2> QED BY ONLY <1>5, <1>6, <2>1, Zenon
<1>7. CASE n.op = "ShiftLeft"
  <2>1. ShiftTerm(n.op, l, r.bits) = Term(l.width, l.bits * 2 ^ r.bits)
    BY <1>7 DEF ShiftTerm
  <2>2. RtlNumber(n, l, r) = l.bits * 2 ^ r.bits
    BY <1>7 DEF RtlNumber, Comparing, SignedComparing
  <2>3. l.bits * 2 ^ r.bits \in Int
    BY <1>2, ShiftLeftHolds
  <2> QED BY ONLY <1>6, <2>1, <2>2, <2>3, Zenon
<1>8. CASE n.op = "ShiftRight"
  <2>1. ShiftTerm(n.op, l, r.bits) = Term(l.width, l.bits \div 2 ^ r.bits)
    BY <1>8 DEF ShiftTerm
  <2>2. RtlNumber(n, l, r) = l.bits \div 2 ^ r.bits
    BY <1>8 DEF RtlNumber, Comparing, SignedComparing
  <2>3. l.bits \div 2 ^ r.bits \in Int
    BY <1>2, ShiftRightHolds DEF Meaning
  <2> QED BY ONLY <1>6, <2>1, <2>2, <2>3, Zenon
<1>9. CASE n.op = "ShiftRightArithmetic"
  <2>1. ShiftTerm(n.op, l, r.bits) = Term(l.width, Signed(l) \div 2 ^ r.bits)
    BY <1>9 DEF ShiftTerm
  <2>2. RtlNumber(n, l, r) = Signed(l) \div 2 ^ r.bits
    BY <1>9 DEF RtlNumber, Comparing, SignedComparing
  <2>3. Signed(l) \div 2 ^ r.bits \in Int
    BY <1>2, ShiftRightHolds DEF Meaning
  <2> QED BY ONLY <1>6, <2>1, <2>2, <2>3, Zenon
<1> QED BY <1>7, <1>8, <1>9 DEF Shifting

\* The terms of concatenations and conditionals.
LEMMA PlacementTerm ==
  ASSUME NEW n, NEW l, NEW r, Applied(n, l, r), n.op \in {"Concat", "Conditional"}, HasTerm(n, l, r)
  PROVE  Holds(BinaryExpression(n, l, r), n.width, RtlNumber(n, l, r))
<1>1. IsValued(l) /\ IsValued(r) /\ IsValued(n.other) /\ n.width \in Nat \ {0}
  BY DEF Applied
<1>2. CASE n.op = "Concat"
  <2>1. BinaryExpression(n, l, r) = Term(l.width + r.width, l.bits * 2 ^ r.width + r.bits)
    BY <1>2 DEF BinaryExpression, Bitwise, Adding, Scaling, Comparing, SignedComparing, Shifting, Logical
  <2>2. RtlNumber(n, l, r) = l.bits * 2 ^ r.width + r.bits
    BY <1>2 DEF RtlNumber, Comparing, SignedComparing
  <2>3. n.width = l.width + r.width
    BY <1>2 DEF Applied, WidthsAgree, Same, Extending, Reducing, Bitwise, Adding, Scaling, SignedComparing, Comparing, Logical, Shifting
  <2>4. l.bits * 2 ^ r.width + r.bits \in Int
    BY <1>1, ConcatHolds
  <2>5. Holds(Term(n.width, l.bits * 2 ^ r.width + r.bits), n.width, l.bits * 2 ^ r.width + r.bits)
    BY <1>1, <2>4, FromIntegerHolds
  <2> QED BY ONLY <2>1, <2>2, <2>3, <2>5, Zenon
<1>3. CASE n.op = "Conditional"
  <2> DEFINE chosen == IF l.bits = 1 THEN r ELSE n.other
  <2>1. BinaryExpression(n, l, r) = ExtOrTruncate(chosen, n.width, FALSE)
    BY <1>3 DEF BinaryExpression, Bitwise, Adding, Scaling, Comparing, SignedComparing, Shifting, Logical
  <2>2. RtlNumber(n, l, r) = IF l.bits # 0 THEN r.bits ELSE n.other.bits
    BY <1>3 DEF RtlNumber, Comparing, SignedComparing
  <2>3. l.bits \in {0, 1}
    <3>1. l.width = 1
      BY <1>3 DEF HasTerm
    <3> QED BY <1>1, <3>1, BitNumber
  <2>4. chosen.bits = (IF l.bits # 0 THEN r.bits ELSE n.other.bits) /\ IsValued(chosen)
    BY <1>1, <2>3
  <2> HIDE DEF chosen
  <2>5. Holds(ExtOrTruncate(chosen, n.width, FALSE), n.width, chosen.bits)
    BY <1>1, <2>4, ExtendedHolds DEF Meaning
  <2> QED BY ONLY <2>1, <2>2, <2>4, <2>5, Zenon
<1> QED BY <1>2, <1>3

\* The term is the vector that the generated code computes.
LEMMA TermsAgree ==
  ASSUME NEW n, NEW l, NEW r, Applied(n, l, r), ~ Panics(n, l, r), HasTerm(n, l, r),
         n.op \in Shifting => r.bits < 2 ^ n.width
  PROVE  EmitExpression(n, l, r) = IF Unary(n) THEN UnaryExpression(n, l) ELSE BinaryExpression(n, l, r)
<1> DEFINE term == IF Unary(n) THEN UnaryExpression(n, l) ELSE BinaryExpression(n, l, r)
<1>1. Holds(EmitExpression(n, l, r), n.width, RtlNumber(n, l, r)) /\ n.width \in Nat
  BY OperatorsCompute DEF Computes, Applied
<1>2. CASE Unary(n)
  <2>1. Holds(UnaryExpression(n, l), n.width, RtlNumber(n, l, r))
    BY <1>2, UnaryTerm
  <2> QED BY <1>1, <1>2, <2>1, HoldsUnique
<1>3. CASE ~ Unary(n)
  <2>1. n.op \in Bitwise \cup (Adding \cup Scaling) \cup Comparing \cup Logical \cup Shifting \cup {"Concat", "Conditional"}
    BY <1>3 DEF Unary, Applied, Operators, Selecting, HasTerm, Reducing
  <2>2. Holds(BinaryExpression(n, l, r), n.width, RtlNumber(n, l, r))
    BY <2>1, BitwiseTerm, ArithmeticTerm, ComparisonTerm, LogicalTerm, ShiftTerms, PlacementTerm
  <2> QED BY <1>1, <1>3, <2>2, HoldsUnique
<1> QED BY <1>2, <1>3

\* From equal operands the converter's term and the generated code have one
\* value, for every operator both support and all widths (on_bv_expr against
\* emit_expression); shift amounts that do not fit are where they differ.
THEOREM BackendsAgreeCorrect == StatementSpec => []BackendsAgree
<1>1. ExpressionInv => BackendsAgree
  <2> SUFFICES ASSUME ExpressionInv, node # NoNode, simulated # Panic, converted # NoTerm,
                      lhs.sim = lhs.fsm, rhs.sim = rhs.fsm, AmountFits
               PROVE  simulated = converted
    BY DEF BackendsAgree
  <2>1. /\ Applied(node, lhs.sim, rhs.sim) /\ simulated = EmitExpression(node, lhs.sim, rhs.sim)
        /\ converted = OnBvExpr(node, lhs.sim, rhs.sim)
    BY DEF ExpressionInv
  <2>2. ~ Panics(node, lhs.sim, rhs.sim)
    BY <2>1, PanicOrValue
  <2>3. /\ HasTerm(node, lhs.sim, rhs.sim)
        /\ converted = IF Unary(node) THEN UnaryExpression(node, lhs.sim)
                                      ELSE BinaryExpression(node, lhs.sim, rhs.sim)
    BY <2>1 DEF OnBvExpr
  <2>4. node.op \in Shifting => rhs.sim.bits < 2 ^ node.width
    BY DEF AmountFits
  <2> QED BY <2>1, <2>2, <2>3, <2>4, TermsAgree
<1> QED BY <1>1, ExpressionInvHolds, PTL

StepSet == [kind : {"ARRAYSEL", "SEL"}, constant : BOOLEAN, value : Nat, width : Nat]

-----------------------------------------------------------------------------
(* One step.                                                               *)

\* An index in its declared range is that of exactly one element, and the
\* runtime's array_offset is where this element starts.
LEMMA IndexIsDeclared ==
  ASSUME NEW range \in Dimensions, NEW index \in Nat,
         InRange(index, range.left, range.right)
  PROVE  \E k \in 0 .. RangeLength(range) - 1 :
           /\ ArrayOffset(index, range.left, range.right, range.element) = k * range.element
           /\ \A n \in 0 .. RangeLength(range) - 1 : index = Declared(range, n) <=> n = k
<1>1. range.left \in Nat /\ range.right \in Nat
  BY DEF Dimensions
<1>2. CASE range.left <= range.right
  <2>1. index - range.left \in 0 .. RangeLength(range) - 1
    BY <1>1, <1>2 DEF InRange, RangeLength
  <2>2. \A n \in 0 .. RangeLength(range) - 1 :
          index = Declared(range, n) <=> n = index - range.left
    BY <1>1, <1>2 DEF Declared, RangeLength
  <2> QED BY <1>2, <2>1, <2>2 DEF ArrayOffset
<1>3. CASE ~ (range.left <= range.right)
  <2>1. range.left - index \in 0 .. RangeLength(range) - 1
    BY <1>1, <1>3 DEF InRange, RangeLength
  <2>2. \A n \in 0 .. RangeLength(range) - 1 :
          index = Declared(range, n) <=> n = range.left - index
    BY <1>1, <1>3 DEF Declared, RangeLength
  <2> QED BY <1>3, <2>1, <2>2 DEF ArrayOffset
<1> QED BY <1>2, <1>3

\* The offset a step adds when the statement runs is one the analysis takes
\* into account, and the only one if the step is a literal.
LEMMA StepIsKnown ==
  ASSUME NEW v \in Variables, NEW target, ~ Selects(target), Len(target) \in Nat,
         NEW step \in StepSet, StepAccepted(v, target, step), ~ StepPanics(v, target, step),
         step.kind = "SEL" => step.value + step.width <= WidthAt(v, Len(target)),
         WidthAt(v, Len(target)) \in Nat
  PROVE  /\ StepOffset(v, target, step) \in StepOffsets(v, target, step)
         /\ step.constant => StepOffsets(v, target, step) = {StepOffset(v, target, step)}
<1>1. step.value \in Nat /\ step.width \in Nat /\ step.constant \in BOOLEAN
      /\ step.kind \in {"ARRAYSEL", "SEL"}
  BY DEF StepSet
<1>2. CASE step.kind = "SEL"
  <2>1. TargetWidth(v, target) = WidthAt(v, Len(target))
    BY DEF TargetWidth
  <2>2. step.value \in 0 .. TargetWidth(v, target) - step.width
    BY <1>1, <1>2, <2>1
  <2> QED BY <1>2, <2>2 DEF StepOffset, StepOffsets
<1>3. CASE step.kind = "ARRAYSEL"
  <2> DEFINE range == v.dims[Len(target) + 1]
             places == {n \in 0 .. RangeLength(range) - 1 :
                          step.constant => step.value = Declared(range, n)}
  <2>1. range \in Dimensions
    <3>1. v.dims \in Seq(Dimensions)
      BY VariablesAssumption
    <3>2. Len(target) + 1 \in 1 .. Len(v.dims)
      BY <1>3, <3>1 DEF StepAccepted
    <3> QED BY <3>1, <3>2
  <2>2. InRange(step.value, range.left, range.right)
    BY <1>3 DEF StepPanics
  <2>3. PICK k \in 0 .. RangeLength(range) - 1 :
          /\ ArrayOffset(step.value, range.left, range.right, range.element) = k * range.element
          /\ \A n \in 0 .. RangeLength(range) - 1 : step.value = Declared(range, n) <=> n = k
    BY <1>1, <2>1, <2>2, IndexIsDeclared
  <2>4. /\ StepOffset(v, target, step) = k * range.element
        /\ StepOffsets(v, target, step) = {n * range.element : n \in places}
    BY <1>3, <2>3 DEF StepOffset, StepOffsets
  <2>5. k \in places /\ (step.constant => places = {k})
    BY <2>3
  <2> QED BY <2>4, <2>5
<1> QED BY <1>1, <1>2, <1>3

-----------------------------------------------------------------------------
(* The invariant.                                                          *)

\* Only the last step is a SEL, and there is a dimension for each ARRAYSEL.
TargetOK ==
  /\ variable \in Variables
  /\ steps \in Seq(StepSet)
  /\ IF Selects(steps) THEN Len(steps) <= Len(variable.dims) + 1 ELSE Len(steps) <= Len(variable.dims)
  /\ starts \subseteq Int /\ offset \in Int /\ panics \in BOOLEAN
  /\ phase = "evaluate" => steps = <<>>

AllConstant == \A i \in DOMAIN steps : steps[i].constant

\* The analysis keeps up with the statement, step by step.
OffsetKnown ==
  ~ panics /\ Guarded => offset \in starts /\ (AllConstant => starts = {offset})

RunOK == phase = "Assigned" => ~ panics

IInv == TargetOK /\ OffsetKnown /\ RunOK

\* The width of each dimension's elements is a number.
LEMMA WidthsAreNumbers ==
  ASSUME NEW v \in Variables, NEW depth \in 0 .. Len(v.dims)
  PROVE  WidthAt(v, depth) \in Nat
<1>1. v.width \in Nat /\ v.dims \in Seq(Dimensions)
  BY VariablesAssumption
<1>2. CASE depth = 0
  BY <1>1, <1>2 DEF WidthAt
<1>3. CASE depth # 0
  <2>1. v.dims[depth] \in Dimensions
    BY <1>1, <1>3
  <2> QED BY <1>3, <2>1 DEF WidthAt, Dimensions
<1> QED BY <1>2, <1>3

\* The invariant holds at first.
LEMMA InitInvariant == TargetInit => IInv
<1> SUFFICES ASSUME TargetInit PROVE IInv
  OBVIOUS
<1>1. variable.dims \in Seq(Dimensions) /\ steps = <<>> /\ ~ Selects(steps)
  BY VariablesAssumption DEF TargetInit, Selects
<1>2. steps \in Seq(StepSet) /\ Len(steps) = 0 /\ Len(variable.dims) \in Nat
  BY <1>1
<1>3. TargetOK
  <2>1. IF Selects(steps) THEN Len(steps) <= Len(variable.dims) + 1
                          ELSE Len(steps) <= Len(variable.dims)
    BY <1>1, <1>2
  <2>2. starts \subseteq Int /\ offset \in Int
    BY DEF TargetInit
  <2>3. variable \in Variables /\ panics \in BOOLEAN
    BY DEF TargetInit
  <2> QED BY <1>1, <1>2, <2>1, <2>2, <2>3 DEF TargetOK
<1>4. OffsetKnown
  BY DEF TargetInit, OffsetKnown
<1> QED BY <1>3, <1>4 DEF TargetInit, IInv, RunOK

\* A step into the target.
LEMMA StepInvariant ==
  ASSUME IInv, NEW step \in TargetSteps, Step(step)
  PROVE  IInv'
<1>1. step \in StepSet
  <2>1. variable.width \in Nat
    BY VariablesAssumption DEF IInv, TargetOK
  <2> QED BY <2>1 DEF TargetSteps, StepSet, ArraySel, Sel
<1>2. /\ variable \in Variables /\ variable.dims \in Seq(Dimensions)
      /\ steps \in Seq(StepSet) /\ ~ Selects(steps)
      /\ Len(steps) \in 0 .. Len(variable.dims)
  BY VariablesAssumption DEF IInv, TargetOK, Step, StepAccepted
<1>3. WidthAt(variable, Len(steps)) \in Nat
  BY <1>2, WidthsAreNumbers
<1>4. /\ steps' = Append(steps, step) /\ variable' = variable
      /\ steps' \in Seq(StepSet) /\ steps' # <<>>
      /\ Len(steps') = Len(steps) + 1 /\ steps'[Len(steps')] = step
      /\ \A i \in DOMAIN steps : i \in DOMAIN steps' /\ steps'[i] = steps[i]
  BY <1>1, <1>2 DEF Step
<1>5. Selects(steps)' <=> step.kind = "SEL"
  BY <1>4 DEF Selects
<1>6. StepOffset(variable, steps, step) \in Int
  <2>1. CASE step.kind = "SEL"
    BY <1>1, <2>1 DEF StepOffset, StepSet
  <2>2. CASE step.kind = "ARRAYSEL"
    <3>1. variable.dims[Len(steps) + 1] \in Dimensions
      BY <1>2, <2>2 DEF Step, StepAccepted
    <3> DEFINE range == variable.dims[Len(steps) + 1]
    <3>2. range.left \in Nat /\ range.right \in Nat /\ range.element \in Nat /\ step.value \in Nat
      BY <1>1, <3>1 DEF Dimensions, StepSet
    <3>3. StepOffset(variable, steps, step)
            = ArrayOffset(step.value, range.left, range.right, range.element)
      BY <2>2 DEF StepOffset
    <3> HIDE DEF range
    <3>4. ArrayOffset(step.value, range.left, range.right, range.element) \in Int
      BY <3>2 DEF ArrayOffset
    <3> QED BY <3>3, <3>4
  <2> QED BY <1>1, <2>1, <2>2 DEF StepSet
<1>7. StepOffsets(variable, steps, step) \subseteq Int
  <2>1. CASE step.kind = "SEL"
    BY <2>1 DEF StepOffsets
  <2>2. CASE step.kind = "ARRAYSEL"
    <3>1. variable.dims[Len(steps) + 1] \in Dimensions
      BY <1>2, <2>2 DEF Step, StepAccepted
    <3>2. variable.dims[Len(steps) + 1].element \in Nat
      BY <3>1 DEF Dimensions
    <3> QED BY <2>2, <3>2 DEF StepOffsets
  <2> QED BY <1>1, <2>1, <2>2 DEF StepSet
<1>8. TargetOK'
  <2>1. IF Selects(steps)' THEN Len(steps') <= Len(variable'.dims) + 1
                           ELSE Len(steps') <= Len(variable'.dims)
    BY <1>1, <1>2, <1>4, <1>5 DEF Step, StepAccepted, StepSet
  <2>2. starts' \subseteq Int /\ offset' \in Int
    BY <1>6, <1>7 DEF Step, IInv, TargetOK, EmitTarget
  <2>3. panics' \in BOOLEAN /\ phase' = "parse"
    BY DEF Step
  <2> QED BY <1>2, <1>4, <2>1, <2>2, <2>3 DEF TargetOK
<1>9. OffsetKnown'
  <2> SUFFICES ASSUME ~ panics', Guarded'
               PROVE  offset' \in starts' /\ (AllConstant' => starts' = {offset'})
    BY DEF OffsetKnown
  <2>1. ~ panics /\ ~ StepPanics(variable, steps, step)
    BY DEF Step
  <2>2. Guarded
    BY <1>2 DEF Guarded
  <2>3. offset \in starts /\ (AllConstant => starts = {offset})
    BY <2>1, <2>2 DEF IInv, OffsetKnown
  <2>4. step.kind = "SEL" => step.value + step.width <= WidthAt(variable, Len(steps))
    <3>1. Len(steps') - 1 = Len(steps)
      BY <1>2, <1>4
    <3> QED BY <1>4, <1>5, <3>1 DEF Guarded
  <2>5. /\ StepOffset(variable, steps, step) \in StepOffsets(variable, steps, step)
        /\ step.constant =>
             StepOffsets(variable, steps, step) = {StepOffset(variable, steps, step)}
    BY <1>1, <1>2, <1>3, <2>1, <2>4, StepIsKnown DEF Step
  <2>6. /\ starts' = {s + o : s \in starts, o \in StepOffsets(variable, steps, step)}
        /\ offset' = offset + StepOffset(variable, steps, step)
    BY DEF Step, EmitTarget
  <2>7. offset' \in starts'
    BY <2>3, <2>5, <2>6
  <2>8. ASSUME AllConstant' PROVE starts' = {offset'}
    <3>1. AllConstant /\ step.constant
      <4>1. Len(steps') \in DOMAIN steps'
        BY <1>4
      <4> QED BY <1>4, <2>8, <4>1 DEF AllConstant
    <3>2. starts = {offset} /\ StepOffsets(variable, steps, step) = {StepOffset(variable, steps, step)}
      BY <2>3, <2>5, <3>1
    <3> QED BY <2>6, <3>2
  <2> QED BY <2>7, <2>8
<1>10. RunOK'
  BY DEF Step, RunOK
<1> QED BY <1>8, <1>9, <1>10 DEF IInv

\* Every step of the system.
LEMMA NextInvariant == IInv /\ [TargetNext]_targetVars => IInv'
<1> SUFFICES ASSUME IInv, [TargetNext]_targetVars PROVE IInv'
  OBVIOUS
<1> USE DEF IInv
<1>1. CASE Evaluate
  <2>1. steps = <<>> /\ steps' = <<>> /\ variable' \in Variables
    BY <1>1 DEF Evaluate, TargetOK
  <2>2. variable'.dims \in Seq(Dimensions)
    BY <2>1, VariablesAssumption
  <2>3. TargetOK'
    BY <1>1, <2>1, <2>2 DEF Evaluate, TargetOK, Selects
  <2>4. OffsetKnown'
    BY <1>1, <2>1 DEF Evaluate, OffsetKnown, Guarded, AllConstant, Selects
  <2> QED BY <1>1, <2>3, <2>4 DEF Evaluate, RunOK
<1>2. CASE Assign
  <2>1. TargetOK' /\ OffsetKnown'
    BY <1>2 DEF Assign, TargetOK, OffsetKnown, Guarded, AllConstant, Selects
  <2> QED BY <1>2, <2>1 DEF Assign, RunOK
<1>3. CASE RefuseStep
  <2>1. TargetOK' /\ OffsetKnown'
    BY <1>3 DEF RefuseStep, TargetOK, OffsetKnown, Guarded, AllConstant, Selects
  <2> QED BY <1>3, <2>1 DEF RefuseStep, RunOK
<1>4. ASSUME NEW step \in TargetSteps, Step(step) PROVE IInv'
  BY <1>4, StepInvariant
<1>5. CASE UNCHANGED targetVars
  BY <1>5 DEF targetVars, TargetOK, OffsetKnown, RunOK, Guarded, AllConstant, Selects
<1> QED BY <1>1, <1>2, <1>3, <1>4, <1>5 DEF TargetNext

\* And always.
LEMMA Invariant == TargetSpec => []IInv
BY InitInvariant, NextInvariant, PTL DEF TargetSpec

-----------------------------------------------------------------------------

\* The bits an assignment writes when it runs are in the regions the analysis
\* computes without knowing its variable indices, at any depth of nesting: so
\* regions that do not meet are writes that do not (target_regions,
\* emit_target).
THEOREM RegionsCoverWrites == TargetSpec => []WritesAreKnown
<1>1. IInv => WritesAreKnown
  <2> SUFFICES ASSUME IInv, phase = "Assigned", Guarded PROVE Written \subseteq Region
    BY DEF WritesAreKnown
  <2>1. offset \in starts
    BY DEF IInv, OffsetKnown, RunOK
  <2> QED BY <2>1 DEF Written, Region
<1> QED BY <1>1, Invariant, PTL

\* Of a literal target the region is the range of bits the statement writes:
\* two processes that write different elements are not taken for rivals.
THEOREM LiteralRegionsAreExact == TargetSpec => []ConstantRegionIsExact
<1>1. IInv => ConstantRegionIsExact
  <2> SUFFICES ASSUME IInv, phase = "Assigned", Guarded,
                      \A i \in DOMAIN steps : steps[i].constant
               PROVE  Region = Written
    BY DEF ConstantRegionIsExact
  <2>1. starts = {offset}
    BY DEF IInv, OffsetKnown, RunOK, AllConstant
  <2> QED BY <2>1 DEF Written, Region
<1> QED BY <1>1, Invariant, PTL

-----------------------------------------------------------------------------
(* Reading a path.                                                         *)

BaseOf(target, k) == SubSeq(target, 1, k - 1)
StepAt(v, target, k) == StepOffset(v, BaseOf(target, k), target[k])
WidthOf(v, target, k) == TargetWidth(v, SubSeq(target, 1, k))

\* Every step leads to bits of what it selects from.
Fits(v, target) ==
  \A k \in 1 .. Len(target) :
    /\ StepAt(v, target, k) \in Nat
    /\ WidthOf(v, target, k) \in Nat
    /\ StepAt(v, target, k) + WidthOf(v, target, k) <= WidthOf(v, target, k - 1)

\* Where each part of a path starts in the variable.
AreOffsets(g, v, target) ==
  /\ g \in [0 .. Len(target) -> Nat]
  /\ g[0] = 0
  /\ \A k \in 1 .. Len(target) : g[k] = g[k - 1] + StepAt(v, target, k)

\* A path whose steps fit has offsets.
LEMMA OffsetsExist ==
  ASSUME NEW v, NEW target, Len(target) \in Nat, Fits(v, target)
  PROVE  \E g : AreOffsets(g, v, target)
<1> DEFINE n == Len(target)
           step == [k \in 1 .. n |-> [x \in Nat |-> x + StepAt(v, target, k)]]
<1>1. step \in Steps(n, Nat)
  BY DEF Steps, Fits
<1>2. PICK g : Iterates(g, n, Nat, 0, step)
  <2> HIDE DEF step, n
  <2>1. n \in Nat
    BY DEF n
  <2> QED BY <1>1, <2>1, IterationExists
<1>3. g \in [0 .. n -> Nat] /\ g[0] = 0
  BY <1>2 DEF Iterates
<1>4. ASSUME NEW k \in 1 .. n PROVE g[k] = g[k - 1] + StepAt(v, target, k)
  <2>1. g[k - 1] \in Nat /\ g[k] = step[k][g[k - 1]]
    <3>1. k - 1 \in 0 .. n
      OBVIOUS
    <3> HIDE DEF step, n
    <3> QED BY <1>2, <1>3, <3>1 DEF Iterates
  <2> QED BY <2>1
<1> QED BY <1>3, <1>4 DEF AreOffsets

\* A part lies within the parts it is a part of.
LEMMA PartsAreNested ==
  ASSUME NEW v, v.width \in Nat, NEW target, Len(target) \in Nat, Fits(v, target),
         WidthOf(v, target, 0) = v.width,
         NEW g, AreOffsets(g, v, target), NEW k \in 0 .. Len(target), NEW m \in k .. Len(target)
  PROVE  /\ g[k] <= g[m] /\ WidthOf(v, target, m) \in Nat /\ WidthOf(v, target, k) \in Nat
         /\ g[m] + WidthOf(v, target, m) <= g[k] + WidthOf(v, target, k)
<1> DEFINE n == Len(target)
           W(i) == WidthOf(v, target, i)
           S == {d \in Nat : k + d <= n =>
                   g[k] <= g[k + d] /\ g[k + d] + W(k + d) <= g[k] + W(k)}
<1>1. \A i \in 0 .. n : W(i) \in Nat
  BY DEF Fits
<1>2. \A i \in 0 .. n : g[i] \in Nat
  BY DEF AreOffsets
<1> HIDE DEF W
<1>3. 0 \in S
  BY <1>1, <1>2
<1>4. ASSUME NEW d \in S PROVE d + 1 \in S
  <2> SUFFICES ASSUME k + (d + 1) <= n
               PROVE  g[k] <= g[k + (d + 1)] /\ g[k + (d + 1)] + W(k + (d + 1)) <= g[k] + W(k)
    OBVIOUS
  <2> DEFINE i == k + d
             j == k + (d + 1)
  <2>1. j \in 1 .. n /\ j - 1 = i /\ i \in 0 .. n /\ j \in 0 .. n
    OBVIOUS
  <2>2. g[k] <= g[i] /\ g[i] + W(i) <= g[k] + W(k)
    OBVIOUS
  <2> HIDE DEF i, j
  <2>3. g[j] = g[i] + StepAt(v, target, j)
    BY <2>1 DEF AreOffsets
  <2>4. StepAt(v, target, j) \in Nat /\ StepAt(v, target, j) + W(j) <= W(i)
    BY <2>1 DEF Fits, W
  <2>5. g[j] \in Nat /\ g[i] \in Nat /\ g[k] \in Nat /\ W(j) \in Nat /\ W(i) \in Nat /\ W(k) \in Nat
    BY <1>1, <1>2, <2>1
  <2>6. g[k] <= g[j] /\ g[j] + W(j) <= g[k] + W(k)
    <3>1. \A a, b, c, s, x, y, z \in Nat :
            a <= b /\ b + y <= a + z /\ c = b + s /\ s + x <= y => a <= c /\ c + x <= a + z
      OBVIOUS
    <3> QED BY ONLY <2>2, <2>3, <2>4, <2>5, <3>1
  <2> QED BY <2>6 DEF j
<1>5. Nat \subseteq S
  <2> HIDE DEF S
  <2> QED BY <1>3, <1>4, NaturalsInSet
<1>6. m - k \in Nat /\ k + (m - k) = m /\ m <= n
  OBVIOUS
<1>7. m - k \in S
  BY <1>5, <1>6
<1>8. g[k] <= g[m] /\ g[m] + W(m) <= g[k] + W(k)
  BY <1>6, <1>7
<1>9. m \in 0 .. n /\ k \in 0 .. n
  OBVIOUS
<1> QED BY <1>1, <1>8, <1>9 DEF W

\* Selecting a part of a part is selecting it from the whole.
LEMMA SelectOfSelect ==
  ASSUME NEW u \in VectorRecords, NEW a \in Nat, NEW w \in Nat, NEW b \in Nat, NEW x \in Nat,
         NEW c, c = a + b, b + x <= w
  PROVE  Select(Select(u, a, w), b, x) = Select(u, c, x)
<1> DEFINE P == {i \in 0 .. w - 1 : BitSet(u, a + i)}
           Q == {i \in 0 .. x - 1 : BitSet(FromFn(w, P), b + i)}
           R == {i \in 0 .. x - 1 : BitSet(u, (a + b) + i)}
<1>1. \A i \in Nat : BitSet(FromFn(w, P), i) <=> i \in P /\ i < w
  <2> HIDE DEF P
  <2> QED BY FromFnBits
<1>2. ASSUME NEW i \in 0 .. x - 1
      PROVE  BitSet(FromFn(w, P), b + i) <=> BitSet(u, (a + b) + i)
  <2>1. b + i \in 0 .. w - 1 /\ b + i \in Nat /\ b + i < w /\ a + (b + i) = (a + b) + i
    OBVIOUS
  <2>2. b + i \in P <=> BitSet(u, (a + b) + i)
    BY <2>1
  <2> HIDE DEF P
  <2> QED BY <1>1, <2>1, <2>2
<1>3. Q = R
  BY <1>2
<1> QED BY <1>3 DEF Select

ReadPart(v, target, value, i) ==
  Select(value, StepOffset(v, SubSeq(target, 1, i - 1), target[i]),
         TargetWidth(v, Append(SubSeq(target, 1, i - 1), target[i])))

ReadsBy(f, v, target, vector) ==
  f = [s \in SUBSET DOMAIN [i \in DOMAIN target |-> i] |->
         IF s = {} THEN vector
         ELSE ReadPart(v, target, f[s \ {Max(s)}], [i \in DOMAIN target |-> i][Max(s)])]

\* What is read through a path is the bits from where it leads to, as many as
\* its last part has.
LEMMA ReadIsSelect ==
  ASSUME NEW v, v.width \in Nat, NEW target \in Seq(StepSet), target # <<>>, Fits(v, target),
         WidthOf(v, target, 0) = v.width,
         NEW g, AreOffsets(g, v, target), NEW vector \in VectorRecords
  PROVE  EmitRead(v, target, vector)
           = Select(vector, g[Len(target)], WidthOf(v, target, Len(target)))
<1> DEFINE n == Len(target)
           id == [i \in DOMAIN target |-> i]
           W(k) == WidthOf(v, target, k)
           At(k) == StepAt(v, target, k)
           G == [i \in 1 .. n |-> [x \in VectorRecords |-> Select(x, At(i), W(i))]]
           h == CHOOSE f : ReadsBy(f, v, target, vector)
<1>1. n \in Nat \ {0} /\ DOMAIN target = 1 .. n /\ DOMAIN id = 1 .. n /\ \A i \in 1 .. n : id[i] = i
  OBVIOUS
<1>2. EmitRead(v, target, vector) = h[1 .. n]
  BY <1>1 DEF EmitRead, FoldLeft, MapThenFoldSet, ReadsBy, ReadPart
<1>3. ASSUME NEW i \in 1 .. n, NEW x
      PROVE  ReadPart(v, target, x, i) = Select(x, At(i), W(i))
  <2>1. Append(SubSeq(target, 1, i - 1), target[i]) = SubSeq(target, 1, i)
    OBVIOUS
  <2> QED BY <2>1 DEF ReadPart, StepAt, BaseOf, WidthOf
<1>4. \A i \in 1 .. n : W(i) \in Nat /\ At(i) \in Nat /\ At(i) + W(i) <= W(i - 1)
  BY DEF Fits
<1>5. G \in Steps(n, VectorRecords)
  <2>1. \A i \in 1 .. n, x \in VectorRecords : Select(x, At(i), W(i)) \in VectorRecords
    BY <1>4, FromFnBits DEF Select
  <2> QED BY <2>1 DEF Steps
<1> HIDE DEF W, At, n
<1>6. ReadsBy(h, v, target, vector)
  <2>1. PICK f \in [SUBSET (1 .. n) -> VectorRecords] : FoldsBy(f, n, vector, G)
    <3> HIDE DEF G
    <3> QED BY <1>1, <1>5, FoldExists
  <2>2. ASSUME NEW s \in SUBSET (1 .. n), s # {}
        PROVE  Max(s) \in s /\ Max(s) \in 1 .. n /\ s \ {Max(s)} \in SUBSET (1 .. n)
    <3>1. \E x \in s : \A y \in s : x >= y
      BY <1>1, <2>2, LargestInside
    <3>2. Max(s) \in s
      BY <3>1 DEF Max
    <3> QED BY <3>2
  <2>3. ASSUME NEW s \in SUBSET (1 .. n), s # {}
        PROVE  G[Max(s)][f[s \ {Max(s)}]] = ReadPart(v, target, f[s \ {Max(s)}], id[Max(s)])
    <3>1. f[s \ {Max(s)}] \in VectorRecords /\ Max(s) \in 1 .. n /\ id[Max(s)] = Max(s)
      BY <1>1, <2>1, <2>2, <2>3
    <3> QED BY <1>3, <3>1
  <2>4. f = [s \in SUBSET DOMAIN id |->
               IF s = {} THEN vector
               ELSE ReadPart(v, target, f[s \ {Max(s)}], id[Max(s)])]
    <3> HIDE DEF G, id
    <3> QED BY <1>1, <2>1, <2>3 DEF FoldsBy
  <2>5. ReadsBy(f, v, target, vector)
    BY <2>4 DEF ReadsBy
  <2> HIDE DEF id, G
  <2> QED BY <2>5
<1> HIDE DEF h, G
<1>7. \A s \in SUBSET (1 .. n) :
        h[s] = IF s = {} THEN vector ELSE ReadPart(v, target, h[s \ {Max(s)}], id[Max(s)])
  BY <1>1, <1>6 DEF ReadsBy
<1>8. ASSUME NEW k \in 1 .. n
      PROVE  h[1 .. k] = Select(h[1 .. k - 1], At(k), W(k))
  <2>1. Max(1 .. k) = k /\ (1 .. k) \ {k} = 1 .. k - 1 /\ 1 .. k # {}
    BY LargestPosition, SMTT(30)
  <2>2. 1 .. k \in SUBSET (1 .. n)
    BY <1>1
  <2>3. h[1 .. k] = ReadPart(v, target, h[1 .. k - 1], id[k])
    BY <1>7, <2>1, <2>2
  <2> HIDE DEF id
  <2> QED BY <1>1, <1>3, <2>3
<1>9. h[1 .. 0] = vector
  <2>1. 1 .. 0 = {}
    OBVIOUS
  <2> QED BY <1>7, <2>1
<1> DEFINE T == {k \in Nat : k + 1 <= n => h[1 .. k + 1] = Select(vector, g[k + 1], W(k + 1))}
<1>10. g \in [0 .. n -> Nat] /\ g[0] = 0 /\ \A k \in 1 .. n : g[k] = g[k - 1] + At(k)
  BY DEF AreOffsets, n, At
<1>11. 0 \in T
  <2>1. 1 \in 1 .. n /\ 1 - 1 = 0 /\ 0 + 1 = 1
    BY <1>1
  <2>2. h[1 .. 1] = Select(h[1 .. 0], At(1), W(1)) /\ g[1] = g[0] + At(1) /\ At(1) \in Nat
    BY <1>4, <1>8, <1>10, <2>1
  <2>3. g[1] = At(1)
    BY <1>10, <2>2
  <2> QED BY <1>9, <2>1, <2>2, <2>3
<1>12. ASSUME NEW k \in T PROVE k + 1 \in T
  <2> SUFFICES ASSUME (k + 1) + 1 <= n
               PROVE  h[1 .. (k + 1) + 1] = Select(vector, g[(k + 1) + 1], W((k + 1) + 1))
    OBVIOUS
  <2> DEFINE i == k + 1
             j == (k + 1) + 1
  <2>1. i \in 1 .. n /\ j \in 1 .. n /\ j - 1 = i /\ i \in 0 .. n
    BY <1>1
  <2>2. h[1 .. i] = Select(vector, g[i], W(i))
    BY <2>1
  <2> HIDE DEF i, j
  <2>3. h[1 .. j] = Select(Select(vector, g[i], W(i)), At(j), W(j))
    BY <1>8, <2>1, <2>2
  <2>4. W(i) \in Nat /\ W(j) \in Nat /\ At(j) \in Nat /\ At(j) + W(j) <= W(i) /\ g[i] \in Nat
    BY <1>4, <1>10, <2>1
  <2>5. g[j] = g[i] + At(j)
    BY <1>10, <2>1
  <2>6. Select(Select(vector, g[i], W(i)), At(j), W(j)) = Select(vector, g[j], W(j))
    <3>1. PICK a \in Nat, w \in Nat, b \in Nat, x \in Nat :
            a = g[i] /\ w = W(i) /\ b = At(j) /\ x = W(j)
      BY <2>4
    <3>2. b + x <= w /\ g[j] = a + b
      BY <2>4, <2>5, <3>1
    <3> HIDE DEF T
    <3>3. Select(Select(vector, a, w), b, x) = Select(vector, g[j], x)
      BY ONLY vector \in VectorRecords, <3>2, SelectOfSelect
    <3> QED BY <3>1, <3>3
  <2>7. h[1 .. j] = Select(vector, g[j], W(j))
    BY <2>3, <2>6
  <2> QED BY <2>7 DEF j
<1>13. Nat \subseteq T
  <2> HIDE DEF T
  <2> QED BY <1>11, <1>12, NaturalsInSet
<1>14. n - 1 \in T /\ (n - 1) + 1 = n
  BY <1>1, <1>13
<1>15. h[1 .. n] = Select(vector, g[n], W(n))
  BY <1>1, <1>14
<1> QED BY <1>2, <1>15 DEF n, W

\* A step the parser accepts that does not panic, and whose part is guarded.
SoundStep(v, base, step) ==
  /\ step \in StepSet /\ ~ Selects(base) /\ Len(base) \in 0 .. Len(v.dims)
  /\ StepAccepted(v, base, step) /\ ~ StepPanics(v, base, step)
  /\ step.kind = "SEL" => step.value + step.width <= WidthAt(v, Len(base))

Sound(v, target) ==
  \A k \in 1 .. Len(target) : SoundStep(v, BaseOf(target, k), target[k])

\* A step inside the declared ranges stays inside its base.
LEMMA SoundStepFits ==
  ASSUME NEW v \in Variables, NEW base \in Seq(StepSet), NEW step, SoundStep(v, base, step)
  PROVE  /\ StepOffset(v, base, step) \in Nat
         /\ TargetWidth(v, Append(base, step)) \in Nat
         /\ StepOffset(v, base, step) + TargetWidth(v, Append(base, step)) <= TargetWidth(v, base)
<1>1. step.value \in Nat /\ step.width \in Nat /\ step.kind \in {"ARRAYSEL", "SEL"}
  BY DEF SoundStep, StepSet
<1>2. Len(base) \in Nat /\ TargetWidth(v, base) = WidthAt(v, Len(base)) /\ Len(base) \in 0 .. Len(v.dims)
  BY DEF SoundStep, TargetWidth
<1>3. /\ Append(base, step) # <<>> /\ Len(Append(base, step)) = Len(base) + 1
      /\ Append(base, step)[Len(base) + 1] = step
  BY DEF SoundStep
<1>4. CASE step.kind = "SEL"
  <2>1. TargetWidth(v, Append(base, step)) = step.width /\ StepOffset(v, base, step) = step.value
    BY <1>3, <1>4 DEF TargetWidth, Selects, StepOffset
  <2> QED BY <1>1, <1>2, <1>4, <2>1 DEF SoundStep
<1>5. CASE step.kind = "ARRAYSEL"
  <2> DEFINE d == Len(base) + 1
             range == v.dims[d]
  <2>1. /\ v.dims \in Seq(Dimensions) /\ d \in 1 .. Len(v.dims) /\ range \in Dimensions
        /\ WidthAt(v, d - 1) = RangeLength(range) * range.element
    <3>1. v.dims \in Seq(Dimensions)
      BY VariablesAssumption
    <3>2. d \in 1 .. Len(v.dims)
      BY <1>2, <1>5, <3>1 DEF SoundStep, StepAccepted
    <3> QED BY <3>1, <3>2, VariablesAssumption
  <2>2. d - 1 = Len(base)
    BY <1>2
  <2>3. StepOffset(v, base, step) = ArrayOffset(step.value, range.left, range.right, range.element)
    BY <1>5 DEF StepOffset
  <2>4. InRange(step.value, range.left, range.right)
    BY <1>5 DEF SoundStep, StepPanics
  <2>5. TargetWidth(v, Append(base, step)) = range.element
    <3>1. ~ Selects(Append(base, step)) /\ d # 0
      BY <1>2, <1>3, <1>5 DEF Selects
    <3> QED BY <1>3, <3>1 DEF TargetWidth, WidthAt
  <2> HIDE DEF range
  <2>6. PICK k \in 0 .. RangeLength(range) - 1 :
          ArrayOffset(step.value, range.left, range.right, range.element) = k * range.element
    BY <1>1, <2>1, <2>4, IndexIsDeclared
  <2>7. range.element \in Nat /\ RangeLength(range) \in Nat
    BY <2>1 DEF Dimensions, RangeLength
  <2>8. \A e, r, j \in Nat : j <= r - 1 => j * e \in Nat /\ j * e + e <= r * e
    <3> SUFFICES ASSUME NEW e \in Nat, NEW r \in Nat, NEW j \in Nat, j <= r - 1
                 PROVE  j * e \in Nat /\ j * e + e <= r * e
      OBVIOUS
    <3>1. (j + 1) * e <= r * e
      OBVIOUS
    <3>2. (j + 1) * e = j * e + e /\ j * e \in Nat
      OBVIOUS
    <3> QED BY <3>1, <3>2
  <2>9. k * range.element \in Nat
        /\ k * range.element + range.element <= RangeLength(range) * range.element
    <3>1. PICK e \in Nat, r \in Nat : e = range.element /\ r = RangeLength(range)
      BY <2>7
    <3>2. k \in Nat /\ k <= r - 1
      BY <3>1
    <3>3. k * e \in Nat /\ k * e + e <= r * e
      BY <2>8, <3>2
    <3> QED BY <3>1, <3>3
  <2>10. TargetWidth(v, base) = RangeLength(range) * range.element
    BY <1>2, <2>1, <2>2
  <2> QED BY <2>3, <2>5, <2>6, <2>7, <2>9, <2>10
<1> QED BY <1>1, <1>4, <1>5

\* So does each step of such a path.
LEMMA SoundFits ==
  ASSUME NEW v \in Variables, NEW target \in Seq(StepSet), Sound(v, target)
  PROVE  Fits(v, target) /\ WidthOf(v, target, 0) = v.width /\ v.width \in Nat
<1>1. WidthOf(v, target, 0) = v.width /\ v.width \in Nat
  <2>1. SubSeq(target, 1, 0) = <<>>
    OBVIOUS
  <2>2. ~ Selects(<<>>) /\ Len(<<>>) = 0
    BY DEF Selects
  <2> QED BY <2>1, <2>2, VariablesAssumption DEF WidthOf, TargetWidth, WidthAt
<1>2. ASSUME NEW k \in 1 .. Len(target)
      PROVE  /\ StepAt(v, target, k) \in Nat
             /\ WidthOf(v, target, k) \in Nat
             /\ StepAt(v, target, k) + WidthOf(v, target, k) <= WidthOf(v, target, k - 1)
  <2> DEFINE base == SubSeq(target, 1, k - 1)
  <2>1. base \in Seq(StepSet) /\ Append(base, target[k]) = SubSeq(target, 1, k)
    OBVIOUS
  <2>2. SoundStep(v, base, target[k])
    BY DEF Sound, BaseOf
  <2> HIDE DEF base
  <2>3. /\ StepOffset(v, base, target[k]) \in Nat
        /\ TargetWidth(v, Append(base, target[k])) \in Nat
        /\ StepOffset(v, base, target[k]) + TargetWidth(v, Append(base, target[k])) <= TargetWidth(v, base)
    BY <2>1, <2>2, SoundStepFits
  <2> QED BY <2>1, <2>3 DEF StepAt, WidthOf, BaseOf, base
<1> QED BY <1>1, <1>2 DEF Fits

\* One more step.
LEMMA SoundAppend ==
  ASSUME NEW v \in Variables, NEW target \in Seq(StepSet), Sound(v, target),
         NEW step, SoundStep(v, target, step), NEW g, AreOffsets(g, v, target)
  PROVE  /\ Sound(v, Append(target, step))
         /\ \E h : /\ AreOffsets(h, v, Append(target, step))
                   /\ h[Len(target) + 1] = g[Len(target)] + StepOffset(v, target, step)
<1> DEFINE n == Len(target)
           more == Append(target, step)
           h == [k \in 0 .. n + 1 |-> IF k = n + 1 THEN g[n] + StepOffset(v, target, step) ELSE g[k]]
<1>1. n \in Nat /\ Len(more) = n + 1 /\ more[n + 1] = step
      /\ \A k \in 1 .. n : more[k] = target[k]
  OBVIOUS
<1>2. /\ \A k \in 1 .. n : BaseOf(more, k) = BaseOf(target, k)
      /\ BaseOf(more, n + 1) = target
  <2>0. step \in StepSet
    BY DEF SoundStep
  <2>1. ASSUME NEW k \in 1 .. n PROVE SubSeq(more, 1, k - 1) = SubSeq(target, 1, k - 1)
    BY <2>0
  <2>2. SubSeq(more, 1, (n + 1) - 1) = target
    BY <2>0
  <2> QED BY <2>1, <2>2 DEF BaseOf
<1>3. \A k \in 1 .. n + 1 : k \in 1 .. n \/ k = n + 1
  BY <1>1
<1> HIDE DEF more
<1>4. Sound(v, more)
  <2>1. ASSUME NEW k \in 1 .. n + 1 PROVE SoundStep(v, BaseOf(more, k), more[k])
    <3>1. CASE k \in 1 .. n
      BY <1>1, <1>2, <3>1 DEF Sound
    <3>2. CASE k = n + 1
      BY <1>1, <1>2, <3>2
    <3> QED BY <1>3, <3>1, <3>2
  <2> QED BY <1>1, <2>1 DEF Sound
<1>5. g \in [0 .. n -> Nat] /\ g[0] = 0 /\ \A k \in 1 .. n : g[k] = g[k - 1] + StepAt(v, target, k)
  BY DEF AreOffsets
<1>6. StepOffset(v, target, step) \in Nat
  BY SoundStepFits
<1>7. h \in [0 .. n + 1 -> Nat] /\ h[0] = 0 /\ h[n + 1] = g[n] + StepOffset(v, target, step)
      /\ \A k \in 0 .. n : h[k] = g[k]
  BY <1>1, <1>5, <1>6
<1> HIDE DEF h
<1>8. ASSUME NEW k \in 1 .. n + 1 PROVE h[k] = h[k - 1] + StepAt(v, more, k)
  <2>1. CASE k \in 1 .. n
    <3>1. StepAt(v, more, k) = StepAt(v, target, k)
      BY <1>1, <1>2, <2>1 DEF StepAt
    <3>2. k \in 0 .. n /\ k - 1 \in 0 .. n
      BY <1>1, <2>1
    <3> QED BY <1>5, <1>7, <2>1, <3>1, <3>2
  <2>2. CASE k = n + 1
    <3>1. StepAt(v, more, n + 1) = StepOffset(v, target, step)
      BY <1>1, <1>2 DEF StepAt
    <3>2. k - 1 = n /\ n \in 0 .. n
      BY <1>1, <2>2
    <3> QED BY <1>7, <2>2, <3>1, <3>2
  <2> QED BY <1>3, <2>1, <2>2
<1>9. AreOffsets(h, v, more)
  BY <1>1, <1>7, <1>8 DEF AreOffsets
<1> QED BY <1>4, <1>7, <1>9 DEF more

\* What a step into an array adds, from its place among the elements.
LEMMA ElementStep ==
  ASSUME NEW v \in Variables, NEW target \in Seq(StepSet), Sound(v, target),
         NEW k \in 1 .. Len(target), target[k].kind = "ARRAYSEL"
  PROVE  /\ k <= Len(v.dims) /\ v.dims[k] \in Dimensions
         /\ WidthOf(v, target, k) = v.dims[k].element
         /\ StepAt(v, target, k)
              = ArrayOffset(target[k].value, v.dims[k].left, v.dims[k].right, v.dims[k].element)
         /\ InRange(target[k].value, v.dims[k].left, v.dims[k].right)
         /\ target[k].value \in Nat
<1> DEFINE base == BaseOf(target, k)
<1>1. base = SubSeq(target, 1, k - 1) /\ Len(base) = k - 1 /\ Len(base) + 1 = k
  BY DEF BaseOf
<1>2. SoundStep(v, base, target[k])
  BY DEF Sound
<1> HIDE DEF base
<1>3. v.dims \in Seq(Dimensions)
  BY VariablesAssumption
<1>4. k <= Len(v.dims)
  BY <1>1, <1>2, <1>3 DEF SoundStep, StepAccepted
<1>5. v.dims[k] \in Dimensions
  BY <1>3, <1>4
<1>6. WidthOf(v, target, k) = v.dims[k].element
  <2>1. Len(SubSeq(target, 1, k)) = k /\ SubSeq(target, 1, k)[k] = target[k] /\ k # 0
    OBVIOUS
  <2>2. ~ Selects(SubSeq(target, 1, k))
    BY <2>1 DEF Selects
  <2> QED BY <2>1, <2>2 DEF WidthOf, TargetWidth, WidthAt
<1>7. StepAt(v, target, k)
        = ArrayOffset(target[k].value, v.dims[k].left, v.dims[k].right, v.dims[k].element)
  BY <1>1 DEF StepAt, StepOffset, base
<1>8. InRange(target[k].value, v.dims[k].left, v.dims[k].right)
  BY <1>1, <1>2 DEF SoundStep, StepPanics
<1>9. target[k].value \in Nat
  <2>1. target[k] \in StepSet
    OBVIOUS
  <2> QED BY <2>1 DEF StepSet
<1> QED BY <1>4, <1>5, <1>6, <1>7, <1>8, <1>9

\* Only the last step may be a SEL.
LEMMA SelectIsLast ==
  ASSUME NEW v \in Variables, NEW target \in Seq(StepSet), Sound(v, target),
         NEW k \in 1 .. Len(target), k # Len(target)
  PROVE  target[k].kind = "ARRAYSEL"
<1>1. k + 1 \in 1 .. Len(target) /\ (k + 1) - 1 = k
  OBVIOUS
<1>2. ~ Selects(SubSeq(target, 1, k))
  BY <1>1 DEF Sound, SoundStep, BaseOf
<1>3. SubSeq(target, 1, k) # <<>> /\ Len(SubSeq(target, 1, k)) = k /\ SubSeq(target, 1, k)[k] = target[k]
  OBVIOUS
<1>4. target[k].kind \in {"ARRAYSEL", "SEL"}
  <2>1. target[k] \in StepSet
    OBVIOUS
  <2> QED BY <2>1 DEF StepSet
<1> QED BY <1>2, <1>3, <1>4 DEF Selects

\* Different elements of an array have no bit in common.
LEMMA ElementsAreApart ==
  ASSUME NEW range \in Dimensions, NEW i \in Nat, NEW j \in Nat, i # j,
         InRange(i, range.left, range.right), InRange(j, range.left, range.right)
  PROVE  LET p == ArrayOffset(i, range.left, range.right, range.element)
             q == ArrayOffset(j, range.left, range.right, range.element)
         IN  p + range.element <= q \/ q + range.element <= p
<1>1. range.left \in Nat /\ range.right \in Nat /\ range.element \in Nat
  BY DEF Dimensions
<1>2. \A a, b, e \in Nat : a < b => a * e + e <= b * e
  <2> SUFFICES ASSUME NEW a \in Nat, NEW b \in Nat, NEW e \in Nat, a < b
               PROVE  a * e + e <= b * e
    OBVIOUS
  <2>1. (a + 1) * e <= b * e /\ (a + 1) * e = a * e + e
    OBVIOUS
  <2> QED BY <2>1
<1>3. CASE range.left <= range.right
  <2>1. i - range.left \in Nat /\ j - range.left \in Nat
        /\ (i - range.left < j - range.left \/ j - range.left < i - range.left)
    BY <1>1, <1>3 DEF InRange
  <2> QED BY <1>1, <1>2, <1>3, <2>1 DEF ArrayOffset
<1>4. CASE ~ (range.left <= range.right)
  <2>1. range.left - i \in Nat /\ range.left - j \in Nat
        /\ (range.left - i < range.left - j \/ range.left - j < range.left - i)
    BY <1>1, <1>4 DEF InRange
  <2> QED BY <1>1, <1>2, <1>4, <2>1 DEF ArrayOffset
<1> QED BY <1>3, <1>4

\* The paths of the elements are accepted, and do not panic.
LEMMA ElementPathIsSound ==
  ASSUME NEW v \in Variables, NEW path \in ElementPaths(v)
  PROVE  /\ path \in Seq(StepSet) /\ Len(path) = Len(v.dims) /\ Sound(v, path)
         /\ \A k \in 1 .. Len(path) : path[k].kind = "ARRAYSEL"
<1>1. v.dims \in Seq(Dimensions) /\ v.width \in Nat
  BY VariablesAssumption
<1>2. PICK p \in [DOMAIN v.dims -> 0 .. v.width] :
         /\ \A d \in DOMAIN v.dims : InRange(p[d], v.dims[d].left, v.dims[d].right)
         /\ path = [d \in DOMAIN v.dims |-> ArraySel(TRUE, p[d])]
  BY DEF ElementPaths
<1> DEFINE n == Len(v.dims)
<1>3. n \in Nat /\ DOMAIN v.dims = 1 .. n
  BY <1>1
<1>4. \A d \in 1 .. n : p[d] \in Nat
  BY <1>1, <1>3
<1>5. path \in Seq(StepSet) /\ Len(path) = n /\ \A d \in 1 .. n : path[d] = ArraySel(TRUE, p[d])
  <2>1. path \in [1 .. n -> StepSet]
    BY <1>2, <1>3, <1>4 DEF ArraySel, StepSet
  <2>2. \A d \in 1 .. n : path[d] = ArraySel(TRUE, p[d])
    BY <1>2, <1>3
  <2> HIDE DEF n
  <2>3. path \in Seq(StepSet) /\ Len(path) = n
    BY ONLY <1>3, <2>1
  <2> QED BY <2>2, <2>3
<1> HIDE DEF n
<1>6. \A d \in 1 .. n : path[d].kind = "ARRAYSEL" /\ path[d].value = p[d]
  BY <1>5 DEF ArraySel
<1>7. ASSUME NEW k \in 1 .. n PROVE SoundStep(v, BaseOf(path, k), path[k])
  <2> DEFINE base == SubSeq(path, 1, k - 1)
  <2>1. base \in Seq(StepSet) /\ Len(base) = k - 1 /\ \A i \in 1 .. k - 1 : base[i] = path[i]
    BY <1>3, <1>5
  <2>2. ~ Selects(base)
    <3> SUFFICES ASSUME Selects(base) PROVE FALSE
      OBVIOUS
    <3>1. base # <<>> /\ base[Len(base)].kind = "SEL"
      BY DEF Selects
    <3>2. k - 1 \in 1 .. k - 1 /\ k - 1 \in 1 .. n
      BY <1>3, <2>1, <3>1
    <3>3. base[k - 1] = path[k - 1]
      BY <2>1, <3>2
    <3> HIDE DEF base
    <3> QED BY <1>6, <2>1, <3>1, <3>2, <3>3
  <2> HIDE DEF base
  <2>3. Len(base) + 1 = k /\ Len(base) \in 0 .. n /\ Len(base) < n
    BY <1>3, <2>1
  <2>4. StepAccepted(v, base, path[k])
    BY <1>6, <2>2, <2>3 DEF StepAccepted, n
  <2>5. ~ StepPanics(v, base, path[k])
    BY <1>2, <1>3, <1>6, <2>3 DEF StepPanics
  <2>6. path[k] \in StepSet
    BY <1>5
  <2> QED BY <1>6, <2>2, <2>3, <2>4, <2>5, <2>6 DEF SoundStep, base, BaseOf, n
<1> QED BY <1>5, <1>6, <1>7 DEF Sound, n

\* An element that is not on the path of a target shares no bit with it.
LEMMA PathsApart ==
  ASSUME NEW v \in Variables, NEW target \in Seq(StepSet), Sound(v, target),
         NEW path \in Seq(StepSet), Sound(v, path), Len(path) = Len(v.dims),
         \A k \in 1 .. Len(path) : path[k].kind = "ARRAYSEL",
         ~ Reached(path, target),
         NEW g, AreOffsets(g, v, target), NEW h, AreOffsets(h, v, path)
  PROVE  \/ g[Len(target)] + TargetWidth(v, target) <= h[Len(path)]
         \/ h[Len(path)] + TargetWidth(v, path) <= g[Len(target)]
<1> DEFINE m == Len(target)
           n == Len(path)
           D == {i \in 1 .. m : target[i].kind = "ARRAYSEL" /\ path[i].value # target[i].value}
<1>1. m \in Nat /\ n \in Nat /\ DOMAIN target = 1 .. m /\ DOMAIN path = 1 .. n
  OBVIOUS
<1>2. \A i \in 1 .. m : target[i].kind = "ARRAYSEL" => i \in 1 .. n
  <2> SUFFICES ASSUME NEW i \in 1 .. m, target[i].kind = "ARRAYSEL" PROVE i \in 1 .. n
    OBVIOUS
  <2>1. i <= Len(v.dims)
    BY ElementStep
  <2> QED BY <1>1, <2>1
<1>3. D \subseteq Nat /\ D # {}
  BY <1>1, <1>2 DEF Reached
<1>4. PICK d \in D : \A i \in D : d <= i
  <2> HIDE DEF D
  <2> QED BY <1>3, LeastNatural
<1>5. /\ d \in 1 .. m /\ d \in 1 .. n /\ target[d].kind = "ARRAYSEL" /\ path[d].kind = "ARRAYSEL"
      /\ path[d].value # target[d].value
  BY <1>2
<1>6. ASSUME NEW i \in 1 .. m, i < d
      PROVE  i \in 1 .. n /\ StepAt(v, path, i) = StepAt(v, target, i)
  <2>1. target[i].kind = "ARRAYSEL"
    <3>1. i # Len(target)
      <4>1. d <= m /\ d \in Nat
        BY <1>1, <1>5
      <4> HIDE DEF D
      <4> QED BY <1>6, <4>1
    <3> QED BY <3>1, SelectIsLast
  <2>2. i \notin D
    <3> HIDE DEF D
    <3> QED BY <1>4, <1>5, <1>6
  <2>3. path[i].value = target[i].value /\ i \in 1 .. n
    BY <1>2, <2>1, <2>2
  <2>4. path[i].kind = "ARRAYSEL"
    BY <2>3
  <2>5. StepAt(v, target, i) = ArrayOffset(target[i].value, v.dims[i].left, v.dims[i].right, v.dims[i].element)
    BY <2>1, ElementStep
  <2>6. StepAt(v, path, i) = ArrayOffset(path[i].value, v.dims[i].left, v.dims[i].right, v.dims[i].element)
    BY <2>3, <2>4, ElementStep
  <2> QED BY <2>3, <2>5, <2>6
<1> DEFINE S == {i \in Nat : i < d => h[i] = g[i]}
<1>7. \A i \in 1 .. m : g[i] = g[i - 1] + StepAt(v, target, i)
  BY DEF AreOffsets
<1>8. \A i \in 1 .. n : h[i] = h[i - 1] + StepAt(v, path, i)
  BY DEF AreOffsets
<1>9. g[0] = 0 /\ h[0] = 0 /\ g \in [0 .. m -> Nat] /\ h \in [0 .. n -> Nat]
  BY DEF AreOffsets
<1> HIDE DEF D, m, n
<1>10. 0 \in S
  BY <1>9
<1>11. ASSUME NEW i \in S PROVE i + 1 \in S
  <2> SUFFICES ASSUME i + 1 < d PROVE h[i + 1] = g[i + 1]
    OBVIOUS
  <2>1. i + 1 \in 1 .. m /\ (i + 1) - 1 = i /\ h[i] = g[i]
    BY <1>1, <1>5
  <2> QED BY <1>6, <1>7, <1>8, <2>1
<1>12. Nat \subseteq S
  <2> HIDE DEF S
  <2> QED BY <1>10, <1>11, NaturalsInSet
<1>13. d - 1 \in Nat /\ d - 1 < d /\ d - 1 \in 0 .. m /\ d \in 0 .. m /\ d \in 0 .. n
  BY <1>1, <1>5
<1>14. h[d - 1] = g[d - 1] /\ g[d - 1] \in Nat
  BY <1>9, <1>12, <1>13
<1> DEFINE e == v.dims[d].element
           p == StepAt(v, target, d)
           q == StepAt(v, path, d)
<1>15. /\ v.dims[d] \in Dimensions
       /\ WidthOf(v, target, d) = e /\ WidthOf(v, path, d) = e
       /\ p = ArrayOffset(target[d].value, v.dims[d].left, v.dims[d].right, e)
       /\ q = ArrayOffset(path[d].value, v.dims[d].left, v.dims[d].right, e)
       /\ InRange(target[d].value, v.dims[d].left, v.dims[d].right)
       /\ InRange(path[d].value, v.dims[d].left, v.dims[d].right)
       /\ target[d].value \in Nat /\ path[d].value \in Nat
  BY <1>5, ElementStep DEF m, n
<1>16. p + e <= q \/ q + e <= p
  BY <1>5, <1>15, ElementsAreApart
<1>17. Fits(v, target) /\ WidthOf(v, target, 0) = v.width /\ v.width \in Nat
       /\ Fits(v, path) /\ WidthOf(v, path, 0) = v.width
  BY SoundFits
<1>18. p \in Nat /\ q \in Nat /\ e \in Nat
  BY <1>5, <1>15, <1>17 DEF Fits, m, n, Dimensions
<1>19. /\ g[d] = g[d - 1] + p /\ h[d] = g[d - 1] + q
  BY <1>5, <1>7, <1>8, <1>14
<1>20. /\ g[d] <= g[m] /\ WidthOf(v, target, m) \in Nat
       /\ g[m] + WidthOf(v, target, m) <= g[d] + e
  <2>1. m \in d .. m
    BY <1>1, <1>5
  <2> QED BY <1>1, <1>13, <1>15, <1>17, <2>1, PartsAreNested DEF m
<1>21. /\ h[d] <= h[n] /\ WidthOf(v, path, n) \in Nat
       /\ h[n] + WidthOf(v, path, n) <= h[d] + e
  <2>1. n \in d .. n
    BY <1>1, <1>5
  <2> QED BY <1>1, <1>13, <1>15, <1>17, <2>1, PartsAreNested DEF n
<1>22. SubSeq(target, 1, m) = target /\ SubSeq(path, 1, n) = path
  BY DEF m, n
<1>23. WidthOf(v, target, m) = TargetWidth(v, target) /\ WidthOf(v, path, n) = TargetWidth(v, path)
  BY <1>22 DEF WidthOf
<1>24. g[m] \in Nat /\ h[n] \in Nat
  BY <1>1, <1>9
<1> HIDE DEF p, q, e
<1>25. g[d] \in Nat /\ h[d] \in Nat
  BY <1>9, <1>13
<1> DEFINE wt == TargetWidth(v, target)
           wp == TargetWidth(v, path)
<1>26. /\ g[d] <= g[m] /\ wt \in Nat /\ g[m] + wt <= g[d] + e
       /\ h[d] <= h[n] /\ wp \in Nat /\ h[n] + wp <= h[d] + e
  BY <1>20, <1>21, <1>23
<1> HIDE DEF wt, wp
<1>27. CASE p + e <= q
  <2>1. g[d] + e <= h[d]
    BY <1>14, <1>18, <1>19, <1>27
  <2>2. g[m] + wt <= h[n]
    BY <1>18, <1>24, <1>25, <1>26, <2>1
  <2> QED BY <2>2 DEF m, n, wt
<1>28. CASE q + e <= p
  <2>1. h[d] + e <= g[d]
    BY <1>14, <1>18, <1>19, <1>28
  <2>2. h[n] + wp <= g[m]
    BY <1>18, <1>24, <1>25, <1>26, <2>1
  <2> QED BY <2>2 DEF m, n, wp
<1> QED BY <1>16, <1>27, <1>28

\* The same bits make the same vector.
LEMMA FromFnAgree ==
  ASSUME NEW w \in Nat, NEW s, NEW t, s \cap 0 .. w - 1 = t \cap 0 .. w - 1
  PROVE  FromFn(w, s) = FromFn(w, t)
<1>1. /\ FromFn(w, s) \in VectorRecords /\ IsVector(FromFn(w, s)) /\ FromFn(w, s).width = w
      /\ Ones(FromFn(w, s)) = s \cap 0 .. w - 1
  BY FromFnBits
<1>2. /\ FromFn(w, t) \in VectorRecords /\ IsVector(FromFn(w, t)) /\ FromFn(w, t).width = w
      /\ Ones(FromFn(w, t)) = t \cap 0 .. w - 1
  BY FromFnBits
<1> QED BY <1>1, <1>2, SameBits

\* assign_select writes the bits of its range and keeps the others.
LEMMA AssignSelectBits ==
  ASSUME NEW u \in VectorRecords, IsVector(u), NEW a \in Nat, NEW w \in Nat, NEW value,
         a + w <= u.width
  PROVE  LET r == AssignSelect(u, a, w, value)
         IN  /\ r \in VectorRecords /\ IsVector(r) /\ r.width = u.width
             /\ \A i \in Nat : BitSet(r, i) <=>
                  /\ i < u.width
                  /\ IF i >= a /\ i < a + w THEN BitSet(value, i - a) ELSE BitSet(u, i)
<1> DEFINE s == {i \in 0 .. u.width - 1 :
                   IF i >= a /\ i < a + w THEN BitSet(value, i - a) ELSE BitSet(u, i)}
<1>1. u.width \in Nat
  BY DEF VectorRecords
<1>2. AssignSelect(u, a, w, value) = FromFn(u.width, s)
  BY <1>1 DEF AssignSelect
<1>3. \A i \in Nat : i \in s /\ i < u.width <=>
        /\ i < u.width
        /\ IF i >= a /\ i < a + w THEN BitSet(value, i - a) ELSE BitSet(u, i)
  BY <1>1
<1> HIDE DEF s
<1>4. LET r == FromFn(u.width, s)
      IN  /\ r \in VectorRecords /\ IsVector(r) /\ r.width = u.width
          /\ \A i \in Nat : BitSet(r, i) <=> i \in s /\ i < u.width
  BY <1>1, FromFnBits
<1> QED BY <1>2, <1>3, <1>4

\* What assign_select wrote is what select reads.
LEMMA SelectAssigned ==
  ASSUME NEW u \in VectorRecords, IsVector(u), NEW a \in Nat, NEW w \in Nat,
         NEW value \in VectorRecords, a + w <= u.width
  PROVE  Select(AssignSelect(u, a, w, value), a, w) = Resize(value, w, FALSE)
<1> DEFINE r == AssignSelect(u, a, w, value)
           s == {i \in 0 .. w - 1 : BitSet(r, a + i)}
<1>1. \A i \in Nat : BitSet(r, i) <=>
        /\ i < u.width
        /\ IF i >= a /\ i < a + w THEN BitSet(value, i - a) ELSE BitSet(u, i)
  BY AssignSelectBits
<1>2. value.width \in Nat /\ u.width \in Nat
  BY DEF VectorRecords
<1> HIDE DEF r
<1>3. ASSUME NEW i \in 0 .. w - 1
      PROVE  BitSet(r, a + i) <=> i \in Ones(value)
  <2>1. a + i \in Nat /\ a + i < u.width /\ a + i >= a /\ a + i < a + w /\ (a + i) - a = i
    BY <1>2
  <2>2. BitSet(r, a + i) <=> BitSet(value, i)
    BY <1>1, <2>1
  <2>3. BitSet(value, i) <=> i \in Ones(value)
    <3>1. BitSet(value, i) => i \in 0 .. value.width - 1
      BY <1>2 DEF BitSet
    <3> QED BY <3>1 DEF Ones
  <2> QED BY <2>2, <2>3
<1>4. s \cap 0 .. w - 1 = (Ones(value) \cup {}) \cap 0 .. w - 1
  BY <1>3
<1>5. FromFn(w, s) = FromFn(w, Ones(value) \cup {})
  <2> HIDE DEF s
  <2> QED BY <1>4, FromFnAgree
<1>6. Resize(value, w, FALSE) = FromFn(w, Ones(value) \cup {})
  BY DEF Resize
<1>7. Select(r, a, w) = FromFn(w, s)
  BY DEF Select
<1> QED BY <1>5, <1>6, <1>7 DEF r

\* And what lies elsewhere reads as before.
LEMMA SelectElsewhere ==
  ASSUME NEW u \in VectorRecords, IsVector(u), NEW a \in Nat, NEW w \in Nat,
         NEW value, a + w <= u.width,
         NEW b \in Nat, NEW x \in Nat, a + w <= b \/ b + x <= a
  PROVE  Select(AssignSelect(u, a, w, value), b, x) = Select(u, b, x)
<1> DEFINE r == AssignSelect(u, a, w, value)
<1>1. \A i \in Nat : BitSet(r, i) <=>
        /\ i < u.width
        /\ IF i >= a /\ i < a + w THEN BitSet(value, i - a) ELSE BitSet(u, i)
  BY AssignSelectBits
<1> HIDE DEF r
<1>2. ASSUME NEW i \in 0 .. x - 1
      PROVE  BitSet(r, b + i) <=> BitSet(u, b + i)
  <2>1. b + i \in Nat /\ ~ (b + i >= a /\ b + i < a + w)
    OBVIOUS
  <2>2. BitSet(u, b + i) => b + i < u.width
    BY DEF BitSet
  <2> QED BY <1>1, <2>1, <2>2
<1>3. {i \in 0 .. x - 1 : BitSet(r, b + i)} = {i \in 0 .. x - 1 : BitSet(u, b + i)}
  BY <1>2
<1> QED BY <1>3 DEF Select, r

-----------------------------------------------------------------------------
(* An assignment, for a target that leads to its bits.                     *)

\* The offset of a target, whose every step is sound.
Leads(v, target, o) ==
  Sound(v, target) /\ \E g : AreOffsets(g, v, target) /\ o = g[Len(target)]

\* Where a path leads is inside the variable.
LEMMA LeadsInside ==
  ASSUME NEW v \in Variables, NEW target \in Seq(StepSet), NEW o, Leads(v, target, o)
  PROVE  /\ o \in Nat /\ TargetWidth(v, target) \in Nat
         /\ o + TargetWidth(v, target) <= v.width
<1>1. PICK g : AreOffsets(g, v, target) /\ o = g[Len(target)]
  BY DEF Leads
<1>2. Fits(v, target) /\ WidthOf(v, target, 0) = v.width /\ v.width \in Nat
  BY SoundFits DEF Leads
<1> DEFINE n == Len(target)
<1>3. n \in Nat /\ 0 \in 0 .. n /\ n \in 0 .. n /\ SubSeq(target, 1, n) = target
  OBVIOUS
<1>4. /\ g[0] <= g[n] /\ WidthOf(v, target, n) \in Nat
      /\ g[n] + WidthOf(v, target, n) <= g[0] + WidthOf(v, target, 0)
  BY <1>1, <1>2, <1>3, PartsAreNested
<1>5. g[0] = 0 /\ g[n] \in Nat
  BY <1>1, <1>3 DEF AreOffsets
<1>6. WidthOf(v, target, n) = TargetWidth(v, target)
  BY <1>3 DEF WidthOf
<1> QED BY <1>1, <1>2, <1>4, <1>5, <1>6

\* Selecting step by step reads the bits a path leads to.
LEMMA LeadsRead ==
  ASSUME NEW v \in Variables, NEW target \in Seq(StepSet), target # <<>>, NEW o,
         Leads(v, target, o), NEW vector \in VectorRecords
  PROVE  EmitRead(v, target, vector) = Select(vector, o, TargetWidth(v, target))
<1>1. PICK g : AreOffsets(g, v, target) /\ o = g[Len(target)]
  BY DEF Leads
<1>2. Fits(v, target) /\ WidthOf(v, target, 0) = v.width /\ v.width \in Nat
  BY SoundFits DEF Leads
<1>3. SubSeq(target, 1, Len(target)) = target
  OBVIOUS
<1>4. WidthOf(v, target, Len(target)) = TargetWidth(v, target)
  BY <1>3 DEF WidthOf
<1> QED BY <1>1, <1>2, <1>4, ReadIsSelect

\* The empty path reads the whole variable.
LEMMA EmptyRead ==
  ASSUME NEW v, NEW vector
  PROVE  EmitRead(v, <<>>, vector) = vector
<1> DEFINE h == CHOOSE f : ReadsBy(f, v, <<>>, vector)
           id == [i \in DOMAIN <<>> |-> i]
<1>1. DOMAIN id = {} /\ DOMAIN <<>> = {}
  OBVIOUS
<1>2. EmitRead(v, <<>>, vector) = h[{}]
  BY <1>1 DEF EmitRead, FoldLeft, MapThenFoldSet, ReadsBy, ReadPart
<1>3. ReadsBy([s \in SUBSET DOMAIN id |-> vector], v, <<>>, vector)
  BY <1>1 DEF ReadsBy
<1>4. ReadsBy(h, v, <<>>, vector)
  BY <1>3
<1> HIDE DEF h
<1>5. h[{}] = vector
  BY <1>1, <1>4 DEF ReadsBy
<1> QED BY <1>2, <1>5

\* Wherever a step may lead is within what it selects from.
LEMMA StepOffsetsFit ==
  ASSUME NEW v \in Variables, NEW target \in Seq(StepSet), NEW step \in StepSet,
         ~ Selects(target), Len(target) \in 0 .. Len(v.dims), StepAccepted(v, target, step),
         NEW o \in StepOffsets(v, target, step)
  PROVE  /\ o \in Nat /\ TargetWidth(v, Append(target, step)) \in Nat
         /\ o + TargetWidth(v, Append(target, step)) <= TargetWidth(v, target)
<1>1. step.value \in Nat /\ step.width \in Nat /\ step.kind \in {"ARRAYSEL", "SEL"}
  BY DEF StepSet
<1>2. /\ Append(target, step) # <<>> /\ Len(Append(target, step)) = Len(target) + 1
      /\ Append(target, step)[Len(target) + 1] = step /\ Len(target) \in Nat
  OBVIOUS
<1>3. TargetWidth(v, target) = WidthAt(v, Len(target)) /\ WidthAt(v, Len(target)) \in Nat
  BY WidthsAreNumbers DEF TargetWidth
<1>4. CASE step.kind = "SEL"
  <2>1. TargetWidth(v, Append(target, step)) = step.width
    BY <1>2, <1>4 DEF TargetWidth, Selects
  <2>2. o \in 0 .. TargetWidth(v, target) - step.width
    BY <1>4 DEF StepOffsets
  <2> QED BY <1>1, <1>3, <2>1, <2>2
<1>5. CASE step.kind = "ARRAYSEL"
  <2> DEFINE d == Len(target) + 1
             range == v.dims[d]
  <2>1. /\ d \in 1 .. Len(v.dims) /\ range \in Dimensions /\ d - 1 = Len(target)
        /\ WidthAt(v, d - 1) = RangeLength(range) * range.element
    <3>1. v.dims \in Seq(Dimensions)
      BY VariablesAssumption
    <3>2. d \in 1 .. Len(v.dims)
      BY <1>2, <1>5, <3>1 DEF StepAccepted
    <3> QED BY <1>2, <3>1, <3>2, VariablesAssumption
  <2>2. TargetWidth(v, Append(target, step)) = range.element
    <3>1. ~ Selects(Append(target, step)) /\ d # 0
      BY <1>2, <1>5 DEF Selects
    <3> QED BY <1>2, <3>1 DEF TargetWidth, WidthAt
  <2>3. PICK k \in 0 .. RangeLength(range) - 1 : o = k * range.element
    BY <1>5 DEF StepOffsets
  <2> HIDE DEF range
  <2>4. PICK e \in Nat, r \in Nat : e = range.element /\ r = RangeLength(range)
    BY <2>1 DEF Dimensions, RangeLength
  <2>5. k \in Nat /\ k + 1 <= r
    BY <2>4
  <2>6. (k + 1) * e <= r * e /\ (k + 1) * e = k * e + e /\ k * e \in Nat
    BY <2>5
  <2> QED BY <1>3, <2>1, <2>2, <2>3, <2>4, <2>6
<1> QED BY <1>1, <1>4, <1>5

-----------------------------------------------------------------------------
(* The invariant of the values.                                            *)

Phases == {"evaluate", "parse", "Rejected", "Panic", "Assigned"}

VectorsOK ==
  /\ phase \in Phases
  /\ before \in VectorRecords /\ IsVector(before)
  /\ after \in VectorRecords /\ IsVector(after)
  /\ written \in VectorRecords /\ IsVector(written)
  /\ phase # "evaluate" => before.width = variable.width

StartsInside ==
  \A s \in starts : s \in Nat /\ s + TargetWidth(variable, steps) <= variable.width

OffsetLeads == ~ panics /\ Guarded => Leads(variable, steps, offset)

Unassigned == phase = "evaluate" => starts = {0} /\ offset = 0
IsAssigned == phase = "Assigned" => after = EmitAssignment(before, written)

BitsInv == VectorsOK /\ StartsInside /\ OffsetLeads /\ Unassigned /\ IsAssigned

\* The empty path has the width of the variable.
LEMMA NothingLeads ==
  ASSUME NEW v
  PROVE  Leads(v, <<>>, 0) /\ TargetWidth(v, <<>>) = v.width
<1>1. Len(<<>>) = 0 /\ ~ Selects(<<>>)
  BY DEF Selects
<1>2. AreOffsets([k \in 0 .. 0 |-> 0], v, <<>>)
  BY <1>1 DEF AreOffsets
<1>3. Sound(v, <<>>)
  BY <1>1 DEF Sound
<1>4. \E g : AreOffsets(g, v, <<>>) /\ 0 = g[Len(<<>>)]
  <2>1. [k \in 0 .. 0 |-> 0][0] = 0
    OBVIOUS
  <2> QED BY <1>1, <1>2, <2>1
<1> QED BY <1>1, <1>3, <1>4 DEF Leads, TargetWidth, WidthAt

\* Zero is a vector.
LEMMA ZeroIsVector ==
  Zero(0) \in VectorRecords /\ IsVector(Zero(0))
<1>1. 2 ^ 0 = 1
  OBVIOUS
<1> QED BY <1>1 DEF Zero, Vector, VectorRecords, IsVector

\* The values are vectors at first.
LEMMA InitBits == TargetInit => BitsInv
<1> SUFFICES ASSUME TargetInit PROVE BitsInv
  OBVIOUS
<1>1. VectorsOK
  BY ZeroIsVector DEF TargetInit, VectorsOK, Phases
<1>2. variable.width \in Nat /\ TargetWidth(variable, steps) = variable.width
      /\ Leads(variable, steps, offset)
  BY NothingLeads, VariablesAssumption DEF TargetInit
<1>3. StartsInside
  BY <1>2 DEF TargetInit, StartsInside
<1> QED BY <1>1, <1>2, <1>3 DEF BitsInv, TargetInit, OffsetLeads, Unassigned, IsAssigned

\* A step keeps the values and leads further inside.
LEMMA StepBits ==
  ASSUME IInv, BitsInv, NEW step \in TargetSteps, Step(step)
  PROVE  BitsInv'
<1>1. step \in StepSet
  <2>1. variable.width \in Nat
    BY VariablesAssumption DEF IInv, TargetOK
  <2> QED BY <2>1 DEF TargetSteps, StepSet, ArraySel, Sel
<1>2. /\ variable \in Variables /\ steps \in Seq(StepSet) /\ ~ Selects(steps)
      /\ Len(steps) \in 0 .. Len(variable.dims) /\ variable' = variable
      /\ steps' = Append(steps, step) /\ StepAccepted(variable, steps, step)
  BY VariablesAssumption DEF IInv, TargetOK, Step, StepAccepted
<1>3. VectorsOK'
  BY <1>2 DEF BitsInv, VectorsOK, Step
<1>4. StartsInside'
  <2>1. ASSUME NEW t \in starts'
        PROVE  t \in Nat /\ t + TargetWidth(variable, Append(steps, step)) <= variable.width
    <3>1. PICK s \in starts, o \in StepOffsets(variable, steps, step) : t = s + o
      BY <2>1 DEF Step
    <3>2. /\ o \in Nat /\ TargetWidth(variable, Append(steps, step)) \in Nat
          /\ o + TargetWidth(variable, Append(steps, step)) <= TargetWidth(variable, steps)
      BY <1>1, <1>2, StepOffsetsFit
    <3>3. s \in Nat /\ s + TargetWidth(variable, steps) <= variable.width
      BY DEF BitsInv, StartsInside
    <3>4. TargetWidth(variable, steps) \in Nat /\ variable.width \in Nat
      BY <1>2, WidthsAreNumbers, VariablesAssumption DEF TargetWidth
    <3> QED BY <3>1, <3>2, <3>3, <3>4
  <2> QED BY <1>2, <2>1 DEF StartsInside
<1>5. OffsetLeads'
  <2> SUFFICES ASSUME ~ panics', Guarded' PROVE Leads(variable, Append(steps, step), offset')
    BY <1>2 DEF OffsetLeads
  <2>1. ~ panics /\ ~ StepPanics(variable, steps, step)
    BY DEF Step
  <2>2. Guarded
    BY <1>2 DEF Guarded
  <2>3. Leads(variable, steps, offset)
    BY <2>1, <2>2 DEF BitsInv, OffsetLeads
  <2>4. step.kind = "SEL" => step.value + step.width <= WidthAt(variable, Len(steps))
    <3> SUFFICES ASSUME step.kind = "SEL"
                 PROVE  step.value + step.width <= WidthAt(variable, Len(steps))
      OBVIOUS
    <3>1. /\ steps' # <<>> /\ Len(steps') = Len(steps) + 1 /\ steps'[Len(steps')] = step
          /\ Len(steps') - 1 = Len(steps)
      BY <1>1, <1>2
    <3>2. Selects(steps)'
      BY <3>1 DEF Selects
    <3> QED BY <1>2, <3>1, <3>2 DEF Guarded
  <2>5. SoundStep(variable, steps, step)
    BY <1>1, <1>2, <2>1, <2>4 DEF SoundStep
  <2>6. PICK g : AreOffsets(g, variable, steps) /\ offset = g[Len(steps)]
    BY <2>3 DEF Leads
  <2>7. /\ Sound(variable, Append(steps, step))
        /\ \E h : /\ AreOffsets(h, variable, Append(steps, step))
                  /\ h[Len(steps) + 1] = g[Len(steps)] + StepOffset(variable, steps, step)
    BY <1>2, <2>3, <2>5, <2>6, SoundAppend DEF Leads
  <2>8. offset' = g[Len(steps)] + StepOffset(variable, steps, step)
    BY <2>6 DEF Step, EmitTarget
  <2>9. Len(Append(steps, step)) = Len(steps) + 1
    BY <1>2
  <2> QED BY <2>7, <2>8, <2>9 DEF Leads
<1>6. Unassigned' /\ IsAssigned'
  BY DEF Step, Unassigned, IsAssigned
<1> QED BY <1>3, <1>4, <1>5, <1>6 DEF BitsInv

\* What a statement stores is a vector of the variable's width.
LEMMA AssignmentIsVector ==
  ASSUME IInv, BitsInv, phase = "parse", ~ panics
  PROVE  /\ EmitAssignment(before, written) \in VectorRecords
         /\ IsVector(EmitAssignment(before, written))
<1>1. /\ variable \in Variables /\ variable.width \in Nat /\ before.width = variable.width
      /\ before \in VectorRecords /\ IsVector(before) /\ steps \in Seq(StepSet)
  BY VariablesAssumption DEF IInv, TargetOK, BitsInv, VectorsOK
<1>2. CASE steps = <<>>
  BY <1>1, <1>2, FromFnBits DEF EmitAssignment, Resize
<1>3. CASE steps # <<>>
  <2>1. EmitAssignment(before, written)
          = AssignSelect(before, offset, TargetWidth(variable, steps), written)
    BY <1>3 DEF EmitAssignment
  <2>2. \A s : FromFn(before.width, s) \in VectorRecords /\ IsVector(FromFn(before.width, s))
    BY <1>1, FromFnBits
  <2> QED BY <1>1, <2>1, <2>2 DEF AssignSelect
<1> QED BY <1>2, <1>3

\* A variable may have any of its patterns as its value.
LEMMA PatternIsVector ==
  ASSUME NEW v \in Variables, NEW n \in Patterns[v.width]
  PROVE  /\ Vector(v.width, n) \in VectorRecords /\ IsVector(Vector(v.width, n))
         /\ Vector(v.width, n).width = v.width
<1>1. n \in 0 .. 2 ^ v.width - 1 /\ v.width \in Nat
  BY ValuesAssumption, VariablesAssumption
<1> QED BY <1>1 DEF Vector, VectorRecords, IsVector

\* Every action keeps the invariant of the values.
LEMMA NextBits == IInv /\ BitsInv /\ [TargetNext]_targetVars => BitsInv'
<1> SUFFICES ASSUME IInv, BitsInv, [TargetNext]_targetVars PROVE BitsInv'
  OBVIOUS
<1>1. CASE Evaluate
  <2>1. /\ variable' \in Variables /\ steps' = <<>> /\ starts' = {0} /\ offset' = 0
        /\ phase' = "parse"
    BY <1>1 DEF Evaluate, IInv, TargetOK, BitsInv, Unassigned
  <2>2. written' \in VectorRecords /\ IsVector(written')
    BY <1>1, ValuesAssumption DEF Evaluate, VectorRecords
  <2>3. PICK n \in Patterns[variable'.width] : before' = Vector(variable'.width, n) /\ after' = before'
    BY <1>1 DEF Evaluate
  <2>4. before' \in VectorRecords /\ IsVector(before') /\ before'.width = variable'.width
    BY <2>1, <2>3, PatternIsVector
  <2>5. VectorsOK'
    BY <2>1, <2>2, <2>3, <2>4 DEF VectorsOK, Phases
  <2>6. /\ Leads(variable', steps', offset') /\ TargetWidth(variable', steps') = variable'.width
        /\ variable'.width \in Nat
    BY <2>1, NothingLeads, VariablesAssumption
  <2>7. StartsInside'
    BY <2>1, <2>6 DEF StartsInside
  <2> QED BY <2>1, <2>5, <2>6, <2>7 DEF BitsInv, OffsetLeads, Unassigned, IsAssigned
<1>2. CASE Assign
  <2>1. /\ variable' = variable /\ steps' = steps /\ starts' = starts /\ offset' = offset
        /\ panics' = panics /\ before' = before /\ written' = written /\ phase = "parse"
        /\ phase' \in {"Rejected", "Panic", "Assigned"}
        /\ phase' = "Assigned" => ~ panics
        /\ after' = IF phase' = "Assigned" THEN EmitAssignment(before, written) ELSE after
    BY <1>2 DEF Assign
  <2>2. after' \in VectorRecords /\ IsVector(after')
    BY <2>1, AssignmentIsVector DEF BitsInv, VectorsOK
  <2>3. VectorsOK'
    BY <2>1, <2>2 DEF BitsInv, VectorsOK, Phases
  <2>4. StartsInside' /\ OffsetLeads' /\ Unassigned'
    BY <2>1 DEF BitsInv, StartsInside, OffsetLeads, Unassigned, Guarded
  <2>5. IsAssigned'
    BY <2>1 DEF IsAssigned, EmitAssignment
  <2> QED BY <2>3, <2>4, <2>5 DEF BitsInv
<1>3. CASE RefuseStep
  BY <1>3 DEF RefuseStep, BitsInv, VectorsOK, Phases, StartsInside, OffsetLeads, Unassigned,
              IsAssigned, Guarded
<1>4. ASSUME NEW step \in TargetSteps, Step(step) PROVE BitsInv'
  BY <1>4, StepBits
<1>5. CASE UNCHANGED targetVars
  BY <1>5 DEF targetVars, BitsInv, VectorsOK, StartsInside, OffsetLeads, Unassigned, IsAssigned,
              Guarded, EmitAssignment
<1> QED BY <1>1, <1>2, <1>3, <1>4, <1>5 DEF TargetNext

\* Both invariants hold in every state.
LEMMA BitsInvariant == TargetSpec => [](IInv /\ BitsInv)
<1>1. TargetInit => IInv /\ BitsInv
  BY InitInvariant, InitBits
<1>2. IInv /\ BitsInv /\ [TargetNext]_targetVars => (IInv /\ BitsInv)'
  BY NextInvariant, NextBits
<1> QED BY <1>1, <1>2, PTL DEF TargetSpec

\* All through an assignment the variable, the value before, the value after
\* and the value written are vectors, and the regions of the analysis start
\* inside the variable.
THEOREM TypeCorrect == TargetSpec => []TypeOK
<1>1. IInv /\ BitsInv => TypeOK
  <2> SUFFICES ASSUME IInv, BitsInv PROVE TypeOK
    OBVIOUS
  <2>1. TargetWidth(variable, steps) \in Nat /\ variable.width \in Nat /\ variable \in Variables
    <3>1. variable \in Variables /\ steps \in Seq(StepSet) /\ variable.width \in Nat
          /\ variable.dims \in Seq(Dimensions)
      BY VariablesAssumption DEF IInv, TargetOK
    <3>2. CASE Selects(steps)
      <4>1. steps[Len(steps)] \in StepSet
        BY <3>1, <3>2 DEF Selects
      <4>2. steps[Len(steps)].width \in Nat
        BY <4>1 DEF StepSet
      <4> QED BY <3>1, <3>2, <4>2 DEF TargetWidth
    <3>3. CASE ~ Selects(steps)
      <4>1. Len(steps) \in 0 .. Len(variable.dims)
        BY <3>1, <3>3 DEF IInv, TargetOK
      <4> QED BY <3>1, <3>3, <4>1, WidthsAreNumbers DEF TargetWidth
    <3> QED BY <3>1, <3>2, <3>3
  <2>2. starts \subseteq 0 .. variable.width
    BY <2>1 DEF BitsInv, StartsInside
  <2> QED BY <2>1, <2>2 DEF BitsInv, VectorsOK, Phases, TypeOK
<1> QED BY <1>1, BitsInvariant, PTL

\* What a statement assigns through a target reads back through the same path,
\* cut to the width of the target; no bit it does not claim to write changes,
\* and no element off the path does (emit_target, assign_select, select).
THEOREM ReadsBackCorrect == TargetSpec => []ReadsBack
<1>1. IInv /\ BitsInv => ReadsBack
  <2> SUFFICES ASSUME IInv, BitsInv, phase = "Assigned", Guarded
               PROVE  /\ EmitRead(variable, steps, after)
                           = Resize(written, TargetWidth(variable, steps), FALSE)
                      /\ Changed \subseteq Written
                      /\ \A path \in ElementPaths(variable) :
                           ~ Reached(path, steps) =>
                             EmitRead(variable, path, after) = EmitRead(variable, path, before)
    BY DEF ReadsBack
  <2> DEFINE w == TargetWidth(variable, steps)
  <2>1. /\ variable \in Variables /\ steps \in Seq(StepSet) /\ variable.width \in Nat
        /\ before \in VectorRecords /\ IsVector(before) /\ before.width = variable.width
        /\ after \in VectorRecords /\ IsVector(after) /\ written \in VectorRecords
        /\ after = EmitAssignment(before, written)
    BY VariablesAssumption DEF IInv, TargetOK, BitsInv, VectorsOK, IsAssigned
  <2>2. Leads(variable, steps, offset)
    BY DEF IInv, RunOK, BitsInv, OffsetLeads
  <2>3. offset \in Nat /\ w \in Nat /\ offset + w <= variable.width
    BY <2>1, <2>2, LeadsInside
  <2>4. CASE steps = <<>>
    <3>1. w = variable.width /\ after = Resize(written, variable.width, FALSE)
      BY <2>1, <2>4, NothingLeads DEF EmitAssignment
    <3>2. EmitRead(variable, steps, after) = Resize(written, w, FALSE)
      BY <2>4, <3>1, EmptyRead
    <3>3. offset = 0
      <4>1. PICK g : AreOffsets(g, variable, steps) /\ offset = g[Len(steps)]
        BY <2>2 DEF Leads
      <4> QED BY <2>4, <4>1 DEF AreOffsets
    <3>4. Changed \subseteq Written
      <4>1. Changed \subseteq 0 .. variable.width - 1
        BY <2>1 DEF Changed
      <4>2. Written = 0 .. variable.width - 1
        BY <2>1, <3>1, <3>3 DEF Written
      <4> QED BY <4>1, <4>2
    <3>5. \A path : Reached(path, steps)
      BY <2>4 DEF Reached
    <3> QED BY <3>2, <3>4, <3>5
  <2>5. CASE steps # <<>>
    <3>1. after = AssignSelect(before, offset, w, written)
      BY <2>1, <2>5 DEF EmitAssignment
    <3>2. EmitRead(variable, steps, after) = Resize(written, w, FALSE)
      <4>1. EmitRead(variable, steps, after) = Select(after, offset, w)
        BY <2>1, <2>2, <2>5, LeadsRead
      <4>2. Select(after, offset, w) = Resize(written, w, FALSE)
        <5> HIDE DEF w
        <5>1. offset + w <= before.width
          BY <2>1, <2>3
        <5>2. Select(AssignSelect(before, offset, w, written), offset, w) = Resize(written, w, FALSE)
          BY ONLY <2>1, <2>3, <5>1, SelectAssigned
        <5> QED BY <3>1, <5>2
      <4> QED BY <4>1, <4>2
    <3>3. Changed \subseteq Written
      <4>1. \A i \in Nat : BitSet(after, i) <=>
              /\ i < before.width
              /\ IF i >= offset /\ i < offset + w THEN BitSet(written, i - offset)
                                                  ELSE BitSet(before, i)
        BY <2>1, <2>3, <3>1, AssignSelectBits
      <4>2. ASSUME NEW i \in 0 .. before.width - 1, BitSet(before, i) # BitSet(after, i)
            PROVE  i \in offset .. offset + w - 1
        <5>1. i \in Nat /\ i < before.width
          BY <2>1
        <5>2. i >= offset /\ i < offset + w
          <6> SUFFICES ASSUME ~ (i >= offset /\ i < offset + w) PROVE FALSE
            OBVIOUS
          <6>1. BitSet(after, i) <=> BitSet(before, i)
            BY <4>1, <5>1
          <6>2. BitSet(after, i) \in BOOLEAN /\ BitSet(before, i) \in BOOLEAN
            BY DEF BitSet
          <6> QED BY <4>2, <6>1, <6>2
        <5> QED BY <2>3, <5>1, <5>2
      <4> QED BY <4>2 DEF Changed, Written
    <3>4. ASSUME NEW path \in ElementPaths(variable), ~ Reached(path, steps)
          PROVE  EmitRead(variable, path, after) = EmitRead(variable, path, before)
      <4>1. /\ path \in Seq(StepSet) /\ Len(path) = Len(variable.dims) /\ Sound(variable, path)
            /\ \A k \in 1 .. Len(path) : path[k].kind = "ARRAYSEL"
        BY <2>1, ElementPathIsSound
      <4>2. PICK g : AreOffsets(g, variable, steps) /\ offset = g[Len(steps)]
        BY <2>2 DEF Leads
      <4>3. PICK h : AreOffsets(h, variable, path)
        <5>1. Len(path) \in Nat /\ Fits(variable, path)
          BY <2>1, <4>1, SoundFits
        <5> QED BY <5>1, OffsetsExist
      <4> DEFINE o == h[Len(path)]
                 x == TargetWidth(variable, path)
      <4>4. Leads(variable, path, o)
        BY <4>1, <4>3 DEF Leads
      <4>5. o \in Nat /\ x \in Nat
        BY <2>1, <4>1, <4>4, LeadsInside
      <4>6. offset + w <= o \/ o + x <= offset
        BY <2>1, <2>2, <3>4, <4>1, <4>2, <4>3, PathsApart DEF Leads
      <4>7. CASE path = <<>>
        <5>1. \A i \in DOMAIN steps : steps[i].kind # "ARRAYSEL"
          <6> SUFFICES ASSUME NEW i \in DOMAIN steps, steps[i].kind = "ARRAYSEL" PROVE FALSE
            OBVIOUS
          <6>1. i \in 1 .. Len(steps) /\ i <= Len(variable.dims)
            BY <2>1, <2>2, ElementStep DEF Leads
          <6>2. Len(variable.dims) = 0
            BY <4>1, <4>7
          <6> QED BY <6>1, <6>2
        <5> QED BY <3>4, <5>1 DEF Reached
      <4>8. CASE path # <<>>
        <5>1. EmitRead(variable, path, after) = Select(after, o, x)
              /\ EmitRead(variable, path, before) = Select(before, o, x)
          BY <2>1, <4>1, <4>4, <4>8, LeadsRead
        <5>2. Select(after, o, x) = Select(before, o, x)
          <6> HIDE DEF o, x, w
          <6> QED BY <2>1, <2>3, <3>1, <4>5, <4>6, SelectElsewhere
        <5> QED BY <5>1, <5>2
      <4> QED BY <4>7, <4>8
    <3> QED BY <3>2, <3>3, <3>4
  <2> QED BY <2>4, <2>5
<1> QED BY <1>1, BitsInvariant, PTL

-----------------------------------------------------------------------------
(* Statements.                                                             *)

\* Computing a value first is the Evaluate of the module about targets: a
\* statement is an assignment with values its expression may have.
THEOREM StatementsAreAssignments == StatementSpec => TargetSpec
<1>1. StatementInit => TargetInit
  BY DEF StatementInit
<1>2. [StatementNext]_statementVars => [TargetNext]_targetVars
  <2> SUFFICES ASSUME [StatementNext]_statementVars PROVE [TargetNext]_targetVars
    OBVIOUS
  <2>1. CASE Compute
    BY <2>1 DEF Compute
  <2>2. CASE Yield
    BY <2>2 DEF Yield, TargetNext
  <2>3. CASE Place
    BY <2>3 DEF Place, TargetNext
  <2>4. CASE UNCHANGED statementVars
    BY <2>4 DEF statementVars
  <2> QED BY <2>1, <2>2, <2>3, <2>4 DEF StatementNext
<1> QED BY <1>1, <1>2, PTL DEF StatementSpec, TargetSpec

\* So the statement whose value an expression computes has the properties of
\* assignments: types, reading back, and regions that cover what is written and
\* of literal targets are what is written.
THEOREM StatementsAssignCorrectly ==
  StatementSpec => [](TypeOK /\ ReadsBack /\ WritesAreKnown /\ ConstantRegionIsExact)
BY StatementsAreAssignments, TypeCorrect, ReadsBackCorrect, RegionsCoverWrites,
   LiteralRegionsAreExact, PTL

=============================================================================
