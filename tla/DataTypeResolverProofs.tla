----------------------- MODULE DataTypeResolverProofs -----------------------
(***************************************************************************)
(* Theorems about the data type resolver, for every set of documents: the  *)
(* type table has no cycle, resolve never recurses without end, a struct's *)
(* members cover it, and an answer is what the address means.              *)
(***************************************************************************)
EXTENDS DataTypeResolver, RecursionFacts, SequenceTheorems, FiniteSetTheorems, TLAPS

-----------------------------------------------------------------------------
(* Stacks. *)

\* The first n elements of a sequence.
LEMMA PrefixProperties ==
  ASSUME NEW S, NEW s, NEW n \in Nat, \A i \in 1 .. n : s[i] \in S
  PROVE  /\ SubSeq(s, 1, n) \in Seq(S)
         /\ Len(SubSeq(s, 1, n)) = n
         /\ \A i \in 1 .. n : SubSeq(s, 1, n)[i] = s[i]
<1> DEFINE t == SubSeq(s, 1, n)
<1>1. /\ t \in Seq(S)
      /\ Len(t) = IF 1 <= n THEN n - 1 + 1 ELSE 0
      /\ \A i \in 1 .. n - 1 + 1 : t[i] = s[1 + i - 1]
  BY SubSeqProperties
<1> HIDE DEF t
<1>2. Len(t) = n
  BY <1>1
<1>3. \A i \in 1 .. n : t[i] = s[i]
  <2>1. \A i \in 1 .. n : i \in 1 .. n - 1 + 1 /\ 1 + i - 1 = i
    OBVIOUS
  <2> QED BY <1>1, <2>1
<1> QED BY <1>1, <1>2, <1>3 DEF t

\* A stack without its top is the stack below it.
LEMMA FrontOfStack ==
  ASSUME NEW S, NEW s \in Seq(S), s # <<>>
  PROVE  /\ Front(s) \in Seq(S)
         /\ Len(Front(s)) = Len(s) - 1
         /\ DOMAIN Front(s) = 1 .. Len(s) - 1
         /\ \A i \in 1 .. Len(s) - 1 : Front(s)[i] = s[i]
<1>1. Len(s) - 1 \in Nat
  BY EmptySeq
<1>2. \A i \in 1 .. Len(s) - 1 : s[i] \in S
  BY <1>1, ElementOfSeq
<1>3. /\ Front(s) \in Seq(S)
      /\ Len(Front(s)) = Len(s) - 1
      /\ \A i \in 1 .. Len(s) - 1 : Front(s)[i] = s[i]
  BY <1>1, <1>2, PrefixProperties, ZenonT(60) DEF Front
<1> QED BY <1>3, LenProperties

\* What a push leaves in a stack, and what it adds.
LEMMA PushOnStack ==
  ASSUME NEW S, NEW s \in Seq(S), NEW x
  PROVE  /\ Append(s, x) \in Seq(S \cup {x})
         /\ Len(Append(s, x)) = Len(s) + 1
         /\ DOMAIN Append(s, x) = 1 .. Len(s) + 1
         /\ \A i \in 1 .. Len(s) : Append(s, x)[i] = s[i]
         /\ Append(s, x)[Len(s) + 1] = x
<1>1. s \in Seq(S \cup {x})
  BY SeqMonotonic
<1> QED BY <1>1, LenProperties

-----------------------------------------------------------------------------
(* The members of a struct. *)

SumsBy(f, w) ==
  f = [s \in SUBSET DOMAIN w |->
         IF s = {} THEN 0 ELSE LET x == Max(s) IN f[s \ {x}] + w[x]]

\* SumOf adds the elements from the first to the last.
LEMMA PartialSums ==
  ASSUME NEW w \in Seq(Nat)
  PROVE  \E g \in [0 .. Len(w) -> Nat] :
           /\ g[0] = 0
           /\ \A k \in 1 .. Len(w) : g[k] = g[k - 1] + w[k]
           /\ SumOf(w) = g[Len(w)]
<1> DEFINE n == Len(w)
           G == [i \in 1 .. n |-> [x \in Nat |-> x + w[i]]]
           h == CHOOSE f : SumsBy(f, w)
           g == [k \in 0 .. n |-> h[1 .. k]]
<1>1. n \in Nat /\ DOMAIN w = 1 .. n /\ \A i \in 1 .. n : w[i] \in Nat
  OBVIOUS
<1>2. SumOf(w) = h[1 .. n]
  BY <1>1 DEF SumOf, FoldLeft, MapThenFoldSet, SumsBy
<1>3. SumsBy(h, w)
  <2>1. G \in Steps(n, Nat)
    BY <1>1 DEF Steps
  <2>2. PICK f \in [SUBSET (1 .. n) -> Nat] : FoldsBy(f, n, 0, G)
    <3> HIDE DEF G, n
    <3> QED BY <1>1, <2>1, FoldExists
  <2>3. ASSUME NEW s \in SUBSET (1 .. n), s # {}
        PROVE  Max(s) \in s /\ Max(s) \in 1 .. n /\ s \ {Max(s)} \in SUBSET (1 .. n)
    <3>1. \E x \in s : \A y \in s : x >= y
      BY <1>1, <2>3, LargestInside
    <3>2. Max(s) \in s
      BY <3>1 DEF Max
    <3> QED BY <3>2
  <2>4. f = [s \in SUBSET (1 .. n) |->
               IF s = {} THEN 0 ELSE f[s \ {Max(s)}] + w[Max(s)]]
    <3>1. ASSUME NEW s \in SUBSET (1 .. n), s # {}
          PROVE  G[Max(s)][f[s \ {Max(s)}]] = f[s \ {Max(s)}] + w[Max(s)]
      <4>1. f[s \ {Max(s)}] \in Nat
        BY <2>2, <2>3, <3>1
      <4> QED BY <2>3, <3>1, <4>1
    <3> HIDE DEF G
    <3> QED BY <2>2, <3>1 DEF FoldsBy
  <2>5. SumsBy(f, w)
    BY <1>1, <2>4 DEF SumsBy
  <2> QED BY <2>5
<1> HIDE DEF h
<1>4. g[0] = 0
  <2>1. 1 .. 0 = {} /\ {} \in SUBSET DOMAIN w
    OBVIOUS
  <2>2. h[{}] = 0
    BY <1>3, <2>1 DEF SumsBy
  <2> QED BY <1>1, <2>1, <2>2
<1>5. ASSUME NEW k \in 1 .. n
      PROVE  g[k] = g[k - 1] + w[k]
  <2>1. Max(1 .. k) = k /\ (1 .. k) \ {k} = 1 .. k - 1 /\ 1 .. k # {}
    BY LargestPosition, SMTT(30)
  <2>2. 1 .. k \in SUBSET DOMAIN w
    BY <1>1
  <2>3. h[1 .. k] = h[1 .. k - 1] + w[k]
    BY <1>3, <2>1, <2>2 DEF SumsBy
  <2>4. k - 1 \in 0 .. n /\ k \in 0 .. n
    BY <1>1
  <2> QED BY <2>3, <2>4
<1>6. \A k \in 0 .. n : g[k] \in Nat
  <2>1. \A k \in 1 .. n : g[k - 1] \in Nat => g[k] \in Nat
    <3> HIDE DEF g
    <3> QED BY <1>1, <1>5
  <2>2. n \in Nat /\ g[0] \in Nat
    BY <1>1, <1>4
  <2> HIDE DEF g, n, G
  <2> QED BY ONLY <2>1, <2>2, IterationInvariant
<1>7. g \in [0 .. n -> Nat] /\ SumOf(w) = g[n]
  <2>1. n \in 0 .. n
    BY <1>1
  <2> QED BY <1>2, <1>6, <2>1
<1> HIDE DEF g
<1> QED BY <1>4, <1>5, <1>7

\* The sum is determined by its recursion.
LEMMA SumsAgree ==
  ASSUME NEW w \in Seq(Nat), NEW g,
         g[0] = 0, \A k \in 1 .. Len(w) : g[k] = g[k - 1] + w[k]
  PROVE  SumOf(w) = g[Len(w)]
<1> DEFINE n == Len(w)
<1>1. PICK p \in [0 .. n -> Nat] :
         /\ p[0] = 0
         /\ \A k \in 1 .. n : p[k] = p[k - 1] + w[k]
         /\ SumOf(w) = p[n]
  BY PartialSums
<1> DEFINE S == {k \in Nat : k <= n => p[k] = g[k]}
<1>2. 0 \in S
  BY <1>1
<1>3. \A k \in S \cap Nat : k + 1 \in S
  <2> SUFFICES ASSUME NEW k \in Nat, k \in S, k + 1 <= n PROVE p[k + 1] = g[k + 1]
    OBVIOUS
  <2>1. k + 1 \in 1 .. n /\ (k + 1) - 1 = k
    OBVIOUS
  <2>2. p[k + 1] = p[k] + w[k + 1] /\ g[k + 1] = g[k] + w[k + 1]
    BY <1>1, <2>1
  <2> QED BY <2>2
<1>4. Nat \subseteq S
  <2> HIDE DEF S
  <2> QED BY <1>2, <1>3, NaturalsInSet
<1>5. n \in S
  BY <1>4
<1> QED BY <1>1, <1>5

IsSums(g, w) ==
  /\ g \in [0 .. Len(w) -> Nat]
  /\ g[0] = 0
  /\ \A k \in 1 .. Len(w) : g[k] = g[k - 1] + w[k]

\* Partial sums do not decrease.
LEMMA SumsGrow ==
  ASSUME NEW w \in Seq(Nat), NEW g, IsSums(g, w),
         NEW i \in 0 .. Len(w), NEW j \in i .. Len(w)
  PROVE  g[i] <= g[j]
<1> DEFINE n == Len(w)
           S == {k \in Nat : i + k <= n => g[i] <= g[i + k]}
<1>1. /\ n \in Nat /\ g \in [0 .. n -> Nat] /\ \A k \in 1 .. n : g[k] = g[k - 1] + w[k]
      /\ w \in [1 .. n -> Nat] /\ i \in 0 .. n /\ j \in i .. n
  BY DEF IsSums
<1> HIDE DEF n
<1>2. 0 \in S
  <2>1. g[i] \in Nat /\ i + 0 = i
    BY <1>1
  <2> QED BY <2>1
<1>3. ASSUME NEW k \in S PROVE k + 1 \in S
  <2> SUFFICES ASSUME i + (k + 1) <= n PROVE g[i] <= g[i + (k + 1)]
    OBVIOUS
  <2>1. i + (k + 1) \in 1 .. n /\ (i + (k + 1)) - 1 = i + k
    BY <1>1
  <2>2. g[i + (k + 1)] = g[i + k] + w[i + (k + 1)]
    BY <1>1, <2>1
  <2>3. g[i] <= g[i + k] /\ w[i + (k + 1)] \in Nat
    BY <1>1, <2>1, SMTT(30)
  <2>4. g[i] \in Nat /\ g[i + k] \in Nat
    BY <1>1
  <2> QED BY <2>2, <2>3, <2>4
<1>4. Nat \subseteq S
  <2> HIDE DEF S
  <2> QED BY <1>2, <1>3, NaturalsInSet
<1>5. j - i \in Nat /\ i + (j - i) = j /\ j <= n
  BY <1>1
<1>6. j - i \in S
  BY <1>4, <1>5
<1> QED BY <1>5, <1>6

\* A member starts where those after it end.
LEMMA TailSums ==
  ASSUME NEW w \in Seq(Nat), NEW g, IsSums(g, w)
  PROVE  /\ SumOf(w) = g[Len(w)]
         /\ DOMAIN MemberOffsets(w) = 1 .. Len(w)
         /\ \A i \in 1 .. Len(w) : MemberOffsets(w)[i] = g[Len(w)] - g[i]
<1> DEFINE n == Len(w)
<1>1. /\ n \in Nat /\ DOMAIN w = 1 .. n
      /\ g \in [0 .. n -> Nat] /\ g[0] = 0 /\ \A k \in 1 .. n : g[k] = g[k - 1] + w[k]
      /\ w \in [1 .. n -> Nat]
  BY DEF IsSums
<1>2. SumOf(w) = g[n]
  BY <1>1, SumsAgree
<1> HIDE DEF n
<1>3. ASSUME NEW i \in 1 .. n
      PROVE  SumOf(SubSeq(w, i + 1, n)) = g[n] - g[i]
  <2> DEFINE s == SubSeq(w, i + 1, n)
             m == n - i
             t == [k \in 0 .. m |-> g[i + k] - g[i]]
  <2>1. /\ s \in Seq(Nat) /\ Len(s) = m
        /\ \A k \in 1 .. m : s[k] = w[i + k]
    <3>1. \A k \in i + 1 .. n : w[k] \in Nat
      BY <1>1
    <3>2. /\ s \in Seq(Nat)
          /\ Len(s) = IF i + 1 <= n THEN n - (i + 1) + 1 ELSE 0
          /\ \A k \in 1 .. n - (i + 1) + 1 : s[k] = w[i + 1 + k - 1]
      <4>1. i + 1 \in Int /\ n \in Int
        BY <1>1
      <4> QED BY <3>1, <4>1, SubSeqProperties
    <3> HIDE DEF s
    <3>3. Len(s) = m /\ m \in Nat
      BY <1>1, <3>2
    <3>4. \A k \in 1 .. m : k \in 1 .. n - (i + 1) + 1 /\ i + 1 + k - 1 = i + k
      BY <1>1
    <3> QED BY <3>2, <3>3, <3>4
  <2>2. m \in Nat /\ m \in 0 .. m /\ i + m = n /\ i + 0 = i
    BY <1>1
  <2>3. t[0] = 0
    <3>1. g[i] \in Nat
      BY <1>1
    <3> QED BY <2>2, <3>1
  <2>4. ASSUME NEW k \in 1 .. m
        PROVE  t[k] = t[k - 1] + s[k]
    <3>1. i + k \in 1 .. n /\ (i + k) - 1 = i + (k - 1) /\ i + (k - 1) \in 0 .. n
      BY <1>1
    <3>2. g[i + k] = g[i + (k - 1)] + w[i + k]
      BY <1>1, <3>1
    <3>3. w[i + k] \in Nat /\ g[i] \in Nat /\ g[i + (k - 1)] \in Nat
      BY <1>1, <3>1
    <3>4. t[k] = g[i + k] - g[i] /\ t[k - 1] = g[i + (k - 1)] - g[i]
      BY <2>2
    <3>5. s[k] = w[i + k]
      BY <2>1
    <3> HIDE DEF t, s
    <3> QED BY <3>2, <3>3, <3>4, <3>5
  <2>5. SumOf(s) = t[m]
    <3> HIDE DEF t, s, m
    <3> QED BY <2>1, <2>3, <2>4, SumsAgree
  <2>6. t[m] = g[n] - g[i]
    BY <2>2
  <2> QED BY <2>5, <2>6
<1> QED BY <1>1, <1>2, <1>3 DEF MemberOffsets, n

LEMMA IntervalEnds ==
  ASSUME NEW a \in Int, NEW b \in Int, a <= b
  PROVE  Min(a .. b) = a /\ Max(a .. b) = b
<1>1. a \in a .. b /\ b \in a .. b
  OBVIOUS
<1>2. \A x \in a .. b : a <= x /\ b >= x
  OBVIOUS
<1>3. \A x \in a .. b : (x <= a => x = a) /\ (x >= b => x = b)
  OBVIOUS
<1>4. Min(a .. b) = a
  BY <1>1, <1>2, <1>3 DEF Min
<1>5. Max(a .. b) = b
  BY <1>1, <1>2, <1>3 DEF Max
<1> QED BY <1>4, <1>5

MemberBits(lsb, w, i) == lsb[i] .. lsb[i] + w[i] - 1

\* Members laid out by MemberOffsets cover the struct, and each lies above
\* those declared after it.
LEMMA MembersCover ==
  ASSUME NEW w, w \in Seq(Nat), \A i \in DOMAIN w : w[i] # 0, NEW lsb, lsb = MemberOffsets(w)
  PROVE  /\ UNION {MemberBits(lsb, w, i) : i \in DOMAIN w} = 0 .. SumOf(w) - 1
         /\ \A i, j \in DOMAIN w : i < j =>
              Min(MemberBits(lsb, w, i)) > Max(MemberBits(lsb, w, j))
<1> DEFINE n == Len(w)
           bits(i) == MemberBits(lsb, w, i)
<1>1. PICK g : IsSums(g, w)
  BY PartialSums DEF IsSums
<1>2. /\ n \in Nat /\ DOMAIN w = 1 .. n /\ g \in [0 .. n -> Nat] /\ g[0] = 0
      /\ \A k \in 1 .. n : g[k] = g[k - 1] + w[k]
      /\ w \in [1 .. n -> Nat]
  BY <1>1 DEF IsSums
<1>3. /\ SumOf(w) = g[n] /\ \A i \in 1 .. n : lsb[i] = g[n] - g[i]
  BY <1>1, TailSums
<1>4. \A i \in 0 .. n : \A j \in i .. n : g[i] <= g[j]
  BY <1>1, SumsGrow
<1> HIDE DEF n
<1>5. ASSUME NEW i \in 1 .. n
      PROVE  /\ i \in 0 .. n /\ i - 1 \in 0 .. n
             /\ g[i] \in Nat /\ g[i - 1] \in Nat /\ g[n] \in Nat
             /\ g[i] <= g[n]
             /\ bits(i) = g[n] - g[i] .. g[n] - g[i - 1] - 1
             /\ bits(i) \subseteq 0 .. g[n] - 1
             /\ Min(bits(i)) = g[n] - g[i] /\ Max(bits(i)) = g[n] - g[i - 1] - 1
  <2>1. i \in 0 .. n /\ i - 1 \in 0 .. n /\ n \in i .. n /\ n \in 0 .. n
    BY <1>2
  <2>2. g[i] \in Nat /\ g[i - 1] \in Nat /\ g[n] \in Nat /\ g[i] <= g[n]
    BY <1>2, <1>4, <2>1
  <2>3. w[i] \in Nat \ {0} /\ g[i] = g[i - 1] + w[i]
    BY <1>2
  <2>4. bits(i) = g[n] - g[i] .. g[n] - g[i] + w[i] - 1
    BY <1>3 DEF MemberBits
  <2> HIDE DEF bits
  <2>5. /\ bits(i) = g[n] - g[i] .. g[n] - g[i - 1] - 1
        /\ bits(i) \subseteq 0 .. g[n] - 1
        /\ Min(bits(i)) = g[n] - g[i] /\ Max(bits(i)) = g[n] - g[i - 1] - 1
    <3> DEFINE all == g[n]
               to == g[i]
               from == g[i - 1]
               width == w[i]
               these == bits(i)
    <3>1. /\ all \in Nat /\ to \in Nat /\ from \in Nat /\ width \in Nat \ {0}
          /\ to = from + width /\ to <= all
      BY <2>2, <2>3
    <3>2. these = all - to .. all - to + width - 1
      BY <2>4
    <3> HIDE DEF all, to, from, width, these
    <3>3. /\ these = all - to .. all - from - 1
          /\ these \subseteq 0 .. all - 1
          /\ Min(these) = all - to /\ Max(these) = all - from - 1
      <4>1. /\ all - to + width - 1 = all - from - 1 /\ all - to <= all - from - 1
            /\ all - to \in Int /\ all - from - 1 \in Int
        BY <3>1
      <4>2. these = all - to .. all - from - 1
        BY <3>2, <4>1
      <4>3. these \subseteq 0 .. all - 1
        BY <3>1, <4>2
      <4> DEFINE a == all - to
                 b == all - from - 1
      <4>4. these = a .. b /\ a \in Int /\ b \in Int /\ a <= b
        BY <4>1, <4>2
      <4> HIDE DEF a, b
      <4>5. Min(these) = a /\ Max(these) = b
        BY <4>4, IntervalEnds
      <4> QED BY <4>2, <4>3, <4>5 DEF a, b
    <3> QED BY <3>3 DEF all, to, from, these
  <2> QED BY <2>1, <2>2, <2>5
<1>7. ASSUME NEW b \in 0 .. g[n] - 1 PROVE \E i \in 1 .. n : b \in bits(i)
  <2> DEFINE T == {k \in Nat : k <= n /\ g[n] - g[k] <= b}
  <2>0. n \in 0 .. n /\ g[n] \in Nat /\ b \in Nat /\ b <= g[n] - 1
    BY <1>2
  <2>1. n \in T
    BY <1>2, <2>0
  <2>2. PICK i \in T : \A k \in T : i <= k
    <3> HIDE DEF T
    <3>1. T # {} 
      BY <2>1
    <3>2. T \subseteq Nat
      BY DEF T
    <3> QED BY <3>1, <3>2, LeastNatural
  <2>3. i # 0
    BY <1>2, <2>0
  <2>4. i \in 1 .. n /\ i - 1 \in Nat /\ i - 1 <= n
    BY <1>2, <2>3
  <2>5. ~ (g[n] - g[i - 1] <= b)
    <3>1. ~ (i <= i - 1)
      BY <2>4
    <3>2. i - 1 \notin T
      BY <2>2, <3>1
    <3> QED BY <2>4, <3>2
  <2>6. g[n] - g[i] <= b /\ b <= g[n] - g[i - 1] - 1
    BY <1>5, <2>0, <2>4, <2>5
  <2>7. b \in bits(i)
    <3> HIDE DEF bits
    <3> QED BY <1>5, <2>0, <2>4, <2>6
  <2> QED BY <2>4, <2>7
<1>8. UNION {bits(i) : i \in 1 .. n} = 0 .. g[n] - 1
  <2> DEFINE R == 0 .. g[n] - 1
  <2>1. \A i \in 1 .. n : bits(i) \subseteq R
    BY <1>5
  <2>2. \A b \in R : \E i \in 1 .. n : b \in bits(i)
    BY <1>7
  <2> HIDE DEF bits, R
  <2>3. UNION {bits(i) : i \in 1 .. n} = R
    BY <2>1, <2>2
  <2> QED BY <2>3 DEF R
<1>9. ASSUME NEW i \in 1 .. n, NEW j \in 1 .. n, i < j
      PROVE  Min(bits(i)) > Max(bits(j))
  <2>3. g[i] <= g[j - 1]
    <3>1. i \in 0 .. n /\ j - 1 \in i .. n
      BY <1>2, <1>9
    <3> QED BY <1>4, <3>1
  <2>4. /\ Min(bits(i)) = g[n] - g[i] /\ Max(bits(j)) = g[n] - g[j - 1] - 1
        /\ g[n] \in Nat /\ g[i] \in Nat /\ g[j - 1] \in Nat
    <3> HIDE DEF bits
    <3> QED BY <1>5
  <2> HIDE DEF bits
  <2> QED BY <2>3, <2>4
<1> QED BY <1>2, <1>3, <1>8, <1>9

-----------------------------------------------------------------------------
(* Meaning, as a fixed point. *)

\* The width of a type, from those w gives the addresses.
Known(w, t) == IF t \in DOMAIN w THEN w[t] ELSE 0
PartWidths(document, w, a) ==
  [i \in DOMAIN Children(document, a) |-> Known(w, Children(document, a)[i])]
WidthFrom(document, w, a) ==
  IF \/ 0 \in ToSet(PartWidths(document, w, a))
     \/ RefusesPart(document, a, PartWidths(document, w, a))
     \/ RefusesWhole(document, a, PartWidths(document, w, a))
  THEN 0 ELSE LayoutWidth(document[a], PartWidths(document, w, a))

LEMMA ChildrenType ==
  ASSUME NEW document \in Documents, NEW a \in DOMAIN document
  PROVE  /\ Len(Children(document, a)) \in Nat
         /\ DOMAIN Children(document, a) = 1 .. Len(Children(document, a))
         /\ document[a].kind \in {"Alias", "Enum", "PackedArray", "UnpackedArray"}
              => Len(Children(document, a)) = 1
<1>1. document[a].kind \in Kinds /\ document[a].members \in Seq(Nat)
  BY NodesTyped
<1>2. CASE document[a].kind \in {"Alias", "Enum", "PackedArray", "UnpackedArray"}
  <2> DEFINE t == DTypeTarget(document, a)
  <2>1. Children(document, a) = <<t>>
    BY <1>2 DEF Children
  <2> HIDE DEF t
  <2> QED BY <2>1
<1>3. CASE document[a].kind \in {"PackedStruct", "PackedUnion"}
  <2>1. Children(document, a) = document[a].members
    BY <1>3 DEF Children
  <2> QED BY <1>1, <1>3, <2>1
<1>4. CASE document[a].kind \in {"Basic", "Unsupported"}
  <2>1. Children(document, a) = <<>>
    BY <1>4 DEF Children
  <2> QED BY <1>4, <2>1
<1> QED BY <1>1, <1>2, <1>3, <1>4 DEF Kinds

\* A type that is not refused has a width.
LEMMA WidthType ==
  ASSUME NEW document \in Documents, NEW a \in DOMAIN document,
         NEW widths \in Seq(Nat), Len(widths) = Len(Children(document, a)),
         ~ RefusesPart(document, a, widths)
  PROVE  LayoutWidth(document[a], widths) \in Nat
<1> DEFINE node == document[a]
<1>1. /\ node.kind \in Kinds \ {"Unsupported"} /\ node.length \in Nat
      /\ Len(widths) \in Nat /\ DOMAIN widths = 1 .. Len(widths)
      /\ \A i \in 1 .. Len(widths) : widths[i] \in Nat
  BY NodesTyped DEF RefusesPart
<1> HIDE DEF node
<1>2. CASE node.kind = "Basic"
  BY <1>1, <1>2 DEF LayoutWidth, node
<1>3. CASE node.kind \in {"Alias", "Enum", "PackedArray", "UnpackedArray"}
  <2>1. Len(widths) = 1
    BY <1>3, ChildrenType DEF node
  <2>2. widths[1] \in Nat
    BY <1>1, <2>1
  <2>3. widths[1] * node.length \in Nat
    BY <1>1, <2>2
  <2> QED BY <1>3, <2>2, <2>3 DEF LayoutWidth, node
<1>4. CASE node.kind = "PackedStruct"
  <2>1. SumOf(widths) \in Nat
    <3>1. PICK g \in [0 .. Len(widths) -> Nat] : SumOf(widths) = g[Len(widths)]
      BY PartialSums
    <3> QED BY <1>1, <3>1
  <2> QED BY <1>4, <2>1 DEF LayoutWidth, node
<1>5. CASE node.kind = "PackedUnion"
  <2>1. (IF widths = <<>> THEN 0 ELSE widths[1]) \in Nat
    BY <1>1
  <2> QED BY <1>5, <2>1 DEF LayoutWidth, node
<1> QED BY <1>1, <1>2, <1>3, <1>4, <1>5 DEF Kinds

LEMMA WidthFromType ==
  ASSUME NEW document \in Documents, NEW w \in [DOMAIN document -> Nat],
         NEW a \in DOMAIN document
  PROVE  /\ PartWidths(document, w, a) \in Seq(Nat)
         /\ Len(PartWidths(document, w, a)) = Len(Children(document, a))
         /\ WidthFrom(document, w, a) \in Nat
<1> DEFINE n == Len(Children(document, a))
           p == PartWidths(document, w, a)
<1>1. n \in Nat /\ DOMAIN Children(document, a) = 1 .. n
  BY ChildrenType
<1>2. p \in [1 .. n -> Nat]
  <2>1. \A t : Known(w, t) \in Nat
    BY DEF Known
  <2> QED BY <1>1, <2>1 DEF PartWidths
<1> HIDE DEF p, n
<1>3. p \in Seq(Nat) /\ Len(p) = n
  BY <1>1, <1>2
<1>4. ~ RefusesPart(document, a, p) => LayoutWidth(document[a], p) \in Nat
  BY <1>3, WidthType DEF n
<1> QED BY <1>3, <1>4 DEF WidthFrom, p, n

-----------------------------------------------------------------------------
(* The rounds of Meaning. *)

IsRounds(round, document) ==
  round = [k \in 0 .. Cardinality(DOMAIN document) |->
             IF k = 0 THEN [a \in DOMAIN document |-> 0]
             ELSE [a \in DOMAIN document |-> WidthFrom(document, round[k - 1], a)]]

Rounds(document) == CHOOSE round : IsRounds(round, document)

LEMMA MeaningIsRound ==
  ASSUME NEW document
  PROVE  Meaning(document) = Rounds(document)[Cardinality(DOMAIN document)]
BY DEF Meaning, Rounds, IsRounds, WidthFrom, PartWidths, Known

LEMMA RoundsType ==
  ASSUME NEW document \in Documents, NEW N \in Nat, N = Cardinality(DOMAIN document),
         NEW R, R = Rounds(document)
  PROVE  /\ R \in [0 .. N -> [DOMAIN document -> Nat]]
         /\ R[0] = [a \in DOMAIN document |-> 0]
         /\ \A k \in 1 .. N : R[k] = [a \in DOMAIN document |-> WidthFrom(document, R[k - 1], a)]
<1> DEFINE D == DOMAIN document
           A == [D -> Nat]
           zero == [a \in D |-> 0]
           next(w) == [a \in D |-> WidthFrom(document, w, a)]
           step == [k \in 1 .. N |-> [w \in A |-> next(w)]]
<1>1. zero \in A /\ \A w \in A : next(w) \in A
  BY WidthFromType
<1>2. IsRounds(R, document)
  <2>1. step \in Steps(N, A)
    <3> HIDE DEF next, A
    <3> QED BY <1>1 DEF Steps
  <2>2. PICK f : Iterates(f, N, A, zero, step)
    <3> HIDE DEF step, zero, A
    <3> QED BY <1>1, <2>1, IterationExists
  <2>3. /\ f = [n \in 0 .. N |-> IF n = 0 THEN zero ELSE step[n][f[n - 1]]]
        /\ \A n \in 1 .. N : f[n - 1] \in A
    <3> HIDE DEF step, zero, A
    <3> QED BY <2>2, IterationValues
  <2>4. \A n \in 1 .. N : step[n][f[n - 1]] = next(f[n - 1])
    <3> HIDE DEF next, A
    <3> QED BY <2>3
  <2>5. f = [n \in 0 .. N |-> IF n = 0 THEN zero ELSE next(f[n - 1])]
    <3>1. \A n \in 0 .. N : n # 0 => n \in 1 .. N
      OBVIOUS
    <3> HIDE DEF step, zero, next
    <3> QED BY <2>3, <2>4, <3>1
  <2>6. IsRounds(f, document)
    BY <2>5 DEF IsRounds
  <2> QED BY <2>6 DEF Rounds
<1>3. /\ R = [n \in 0 .. N |-> IF n = 0 THEN zero ELSE next(R[n - 1])]
  BY <1>2 DEF IsRounds
<1>4. R[0] = zero /\ \A k \in 1 .. N : R[k] = next(R[k - 1])
  <2>1. 0 \in 0 .. N /\ \A k \in 1 .. N : k \in 0 .. N /\ k # 0
    OBVIOUS
  <2> HIDE DEF zero, next
  <2> QED BY <1>3, <2>1
<1>5. \A k \in 0 .. N : R[k] \in A
  <2>1. R[0] \in A /\ \A k \in 1 .. N : R[k - 1] \in A => R[k] \in A
    <3> HIDE DEF zero, next, A
    <3> QED BY <1>1, <1>4
  <2> HIDE DEF A
  <2> QED BY ONLY N \in Nat, <2>1, IterationInvariant
<1>6. R \in [0 .. N -> A]
  <2> HIDE DEF A, zero, next
  <2> QED BY <1>3, <1>5
<1> QED BY <1>4, <1>6

Settled(document, w) ==
  \A a \in DOMAIN document : WidthFrom(document, w, a) = w[a]

\* An address with a width takes it from parts with a width, and keeps it as
\* long as those keep theirs.
LEMMA WidthNeedsParts ==
  ASSUME NEW document \in Documents, NEW v \in [DOMAIN document -> Nat],
         NEW a \in DOMAIN document, WidthFrom(document, v, a) # 0
  PROVE  /\ \A i \in DOMAIN Children(document, a) :
              Children(document, a)[i] \in DOMAIN document /\ v[Children(document, a)[i]] # 0
         /\ \A w \in [DOMAIN document -> Nat] :
              (\A c \in DOMAIN document : v[c] # 0 => w[c] = v[c])
                => WidthFrom(document, w, a) = WidthFrom(document, v, a)
<1> DEFINE kids == Children(document, a)
<1>1. ASSUME NEW i \in DOMAIN kids
      PROVE  kids[i] \in DOMAIN document /\ v[kids[i]] # 0
  <2>1. 0 \notin ToSet(PartWidths(document, v, a))
    BY DEF WidthFrom
  <2>2. Known(v, kids[i]) # 0
    BY <2>1 DEF ToSet, PartWidths
  <2> QED BY <2>2 DEF Known
<1>2. ASSUME NEW w \in [DOMAIN document -> Nat],
             \A c \in DOMAIN document : v[c] # 0 => w[c] = v[c]
      PROVE  WidthFrom(document, w, a) = WidthFrom(document, v, a)
  <2>1. \A i \in DOMAIN kids : Known(w, kids[i]) = Known(v, kids[i])
    BY <1>1, <1>2 DEF Known
  <2>2. PartWidths(document, w, a) = PartWidths(document, v, a)
    BY <2>1 DEF PartWidths
  <2> QED BY <2>2 DEF WidthFrom
<1> QED BY <1>1, <1>2

\* Meaning is a fixed point: the rounds settle before they end, since one
\* that changes anything gives another address a width.
LEMMA RoundsSettle ==
  ASSUME NEW document \in Documents, IsFiniteSet(DOMAIN document),
         NEW N, N = Cardinality(DOMAIN document)
  PROVE  Settled(document, Rounds(document)[N])
<1> DEFINE D == DOMAIN document
           R == Rounds(document)
           A == [D -> Nat]
           P(k) == {a \in D : R[k][a] # 0}
           Keeps(k) == \A a \in D : R[k][a] # 0 => WidthFrom(document, R[k], a) = R[k][a]
<1>1. N \in Nat
  BY FS_CardinalityType
<1>2. /\ R \in [0 .. N -> A]
      /\ R[0] = [a \in D |-> 0]
      /\ \A k \in 1 .. N : R[k] = [a \in D |-> WidthFrom(document, R[k - 1], a)]
  BY <1>1, RoundsType
<1> HIDE DEF R
<1>a. \A k \in 1 .. N : \A a \in D : R[k][a] = WidthFrom(document, R[k - 1], a)
  <2> SUFFICES ASSUME NEW k \in 1 .. N, NEW a \in D
               PROVE  R[k][a] = WidthFrom(document, R[k - 1], a)
    OBVIOUS
  <2>1. R[k] = [b \in D |-> WidthFrom(document, R[k - 1], b)]
    BY <1>2
  <2> QED BY <2>1
<1>3. \A k \in 1 .. N : k - 1 \in 0 .. N /\ k \in 0 .. N /\ R[k - 1] \in A /\ R[k] \in A
  <2>1. \A k \in 1 .. N : k - 1 \in 0 .. N /\ k \in 0 .. N
    BY <1>1
  <2> QED BY <1>2, <2>1
<1>4. \A k \in 1 .. N : Keeps(k - 1) => \A a \in D : R[k - 1][a] # 0 => R[k][a] = R[k - 1][a]
  BY <1>a
<1>5. ASSUME NEW k \in 1 .. N, Keeps(k - 1) PROVE Keeps(k)
  <2> SUFFICES ASSUME NEW a \in D, R[k][a] # 0
               PROVE  WidthFrom(document, R[k], a) = R[k][a]
    OBVIOUS
  <2>1. R[k][a] = WidthFrom(document, R[k - 1], a)
    BY <1>a
  <2>2. \A c \in D : R[k - 1][c] # 0 => R[k][c] = R[k - 1][c]
    BY <1>4, <1>5
  <2> QED BY <1>3, <2>1, <2>2, WidthNeedsParts
<1>6. \A k \in 0 .. N : Keeps(k)
  <2> DEFINE S == {k \in Nat : k <= N => Keeps(k)}
  <2> HIDE DEF Keeps
  <2>1. 0 \in S
    BY <1>2 DEF Keeps
  <2>2. ASSUME NEW k \in S PROVE k + 1 \in S
    <3> SUFFICES ASSUME k + 1 <= N PROVE Keeps(k + 1)
      OBVIOUS
    <3>1. k + 1 \in 1 .. N /\ (k + 1) - 1 = k /\ Keeps(k)
      BY <1>1
    <3>2. Keeps((k + 1) - 1)
      BY <3>1
    <3> QED BY <1>5, <3>1, <3>2
  <2>3. Nat \subseteq S
    <3> HIDE DEF S
    <3> QED BY <2>1, <2>2, NaturalsInSet
  <2> QED BY <2>3
<1>7. \A k \in 1 .. N : \A a \in D : R[k - 1][a] # 0 => R[k][a] = R[k - 1][a]
  BY <1>3, <1>4, <1>6
<1>8. \A k \in 0 .. N : IsFiniteSet(P(k)) /\ Cardinality(P(k)) \in Nat /\ Cardinality(P(k)) <= N
  BY FS_Subset, FS_CardinalityType
<1>9. ASSUME NEW k \in 1 .. N, ~ Settled(document, R[k])
      PROVE  /\ ~ Settled(document, R[k - 1])
             /\ Cardinality(P(k)) >= Cardinality(P(k - 1)) + 1
  <2>1. R[k] # R[k - 1]
    <3> SUFFICES ASSUME R[k] = R[k - 1] PROVE FALSE
      OBVIOUS
    <3>1. \A a \in D : R[k][a] = WidthFrom(document, R[k], a)
      BY <1>a
    <3> QED BY <1>9, <3>1 DEF Settled
  <2>2. ~ Settled(document, R[k - 1])
    <3> SUFFICES ASSUME Settled(document, R[k - 1]) PROVE FALSE
      OBVIOUS
    <3>1. \A a \in D : R[k][a] = R[k - 1][a]
      BY <1>a DEF Settled
    <3> QED BY <1>3, <2>1, <3>1
  <2>3. P(k - 1) \subseteq P(k)
    BY <1>7
  <2>4. P(k - 1) # P(k)
    <3> SUFFICES ASSUME P(k - 1) = P(k) PROVE FALSE
      OBVIOUS
    <3>1. \A a \in D : R[k][a] = R[k - 1][a]
      BY <1>7
    <3> QED BY <1>3, <2>1, <3>1
  <2>5. Cardinality(P(k - 1)) < Cardinality(P(k))
    <3> HIDE DEF P
    <3>1. IsFiniteSet(P(k))
      BY <1>3, <1>8
    <3>2. /\ Cardinality(P(k - 1)) <= Cardinality(P(k))
          /\ Cardinality(P(k - 1)) = Cardinality(P(k)) => P(k - 1) = P(k)
      BY <2>3, <3>1, FS_Subset
    <3>3. Cardinality(P(k - 1)) \in Nat /\ Cardinality(P(k)) \in Nat
      BY <1>3, <1>8
    <3> QED BY <2>4, <3>2, <3>3
  <2> HIDE DEF P
  <2> QED BY <1>3, <1>8, <2>2, <2>5
<1>10. \A k \in 0 .. N : Settled(document, R[k]) \/ Cardinality(P(k)) >= k
  <2> DEFINE S == {k \in Nat : k <= N => Settled(document, R[k]) \/ Cardinality(P(k)) >= k}
  <2> HIDE DEF P
  <2>1. 0 \in S
    <3>1. 0 \in 0 .. N
      BY <1>1
    <3> QED BY <1>8, <3>1
  <2>2. ASSUME NEW k \in S PROVE k + 1 \in S
    <3> SUFFICES ASSUME k + 1 <= N, ~ Settled(document, R[k + 1])
                 PROVE  Cardinality(P(k + 1)) >= k + 1
      OBVIOUS
    <3>1. k + 1 \in 1 .. N /\ (k + 1) - 1 = k /\ k \in 0 .. N /\ k + 1 \in 0 .. N
      BY <1>1
    <3>2. ~ Settled(document, R[k]) /\ Cardinality(P(k + 1)) >= Cardinality(P(k)) + 1
      BY <1>9, <3>1
    <3>3. Cardinality(P(k)) >= k
      BY <1>1, <3>2
    <3>4. Cardinality(P(k)) \in Nat /\ Cardinality(P(k + 1)) \in Nat
      BY <1>8, <3>1
    <3> QED BY <3>2, <3>3, <3>4
  <2>3. Nat \subseteq S
    <3> HIDE DEF S
    <3> QED BY <2>1, <2>2, NaturalsInSet
  <2> QED BY <2>3
<1>11. Settled(document, R[N])
  <2> SUFFICES ASSUME ~ Settled(document, R[N]) PROVE FALSE
    OBVIOUS
  <2>1. N \in 0 .. N
    BY <1>1
  <2>2. Cardinality(P(N)) = N
    <3> HIDE DEF P
    <3> QED BY <1>1, <1>8, <1>10, <2>1
  <2>3. P(N) = D
    <3>1. P(N) \subseteq D
      OBVIOUS
    <3> HIDE DEF P
    <3> QED BY <2>2, <3>1, FS_Subset
  <2> QED BY <1>6, <2>1, <2>3 DEF Settled
<1> QED BY <1>11 DEF R

\* What the addresses mean: each has the width its parts give it, and no
\* address with a width is among the parts of its own parts.
IsMeaning(document, M) ==
  /\ M \in [DOMAIN document -> Nat]
  /\ Settled(document, M)
  /\ \E rank \in [DOMAIN document -> Nat] :
       \A a \in DOMAIN document : M[a] # 0 =>
         \A i \in DOMAIN Children(document, a) :
           LET c == Children(document, a)[i]
           IN  c \in DOMAIN document /\ M[c] # 0 /\ rank[c] < rank[a]

LEMMA MeaningFacts ==
  ASSUME NEW document \in Documents, IsFiniteSet(DOMAIN document)
  PROVE  IsMeaning(document, Meaning(document))
<1> DEFINE D == DOMAIN document
           N == Cardinality(D)
           R == Rounds(document)
           M == R[N]
           First(a) == {k \in 0 .. N : R[k][a] # 0}
           rank == [a \in D |-> IF First(a) = {} THEN 0
                                ELSE CHOOSE k \in First(a) : \A j \in First(a) : k <= j]
<1>1. Meaning(document) = M
  BY MeaningIsRound
<1>2. N \in Nat
  BY FS_CardinalityType
<1> HIDE DEF N
<1>3. /\ R \in [0 .. N -> [D -> Nat]]
      /\ R[0] = [a \in D |-> 0]
      /\ \A k \in 1 .. N : R[k] = [a \in D |-> WidthFrom(document, R[k - 1], a)]
  BY <1>2, RoundsType DEF N
<1>4. Settled(document, M)
  BY RoundsSettle DEF N
<1>5. N \in 0 .. N /\ M \in [D -> Nat]
  BY <1>2, <1>3
<1>6. ASSUME NEW a \in D, First(a) # {}
      PROVE  rank[a] \in First(a) /\ \A j \in First(a) : rank[a] <= j
  <2> HIDE DEF R
  <2>1. First(a) \subseteq Nat
    OBVIOUS
  <2> DEFINE F == First(a)
  <2>2. F \subseteq Nat /\ F # {}
    BY <1>6, <2>1
  <2> HIDE DEF F
  <2>3. PICK first \in F : \A j \in F : first <= j
    BY <2>2, LeastNatural
  <2>4. rank[a] = CHOOSE k \in F : \A j \in F : k <= j
    BY <2>2 DEF F
  <2> QED BY <2>3, <2>4 DEF F
<1>7. rank \in [D -> Nat]
  <2>1. ASSUME NEW a \in D PROVE rank[a] \in Nat
    <3>1. CASE First(a) = {}
      BY <3>1
    <3>2. CASE First(a) # {}
      <4>1. \A k \in First(a) : k \in Nat
        OBVIOUS
      <4> HIDE DEF rank, First
      <4> QED BY <1>6, <3>2, <4>1
    <3> QED BY <3>1, <3>2
  <2>2. rank = [a \in D |-> rank[a]]
    OBVIOUS
  <2> HIDE DEF rank
  <2> QED BY <2>1, <2>2
<1>8. ASSUME NEW a \in D, M[a] # 0, NEW i \in DOMAIN Children(document, a),
             NEW c, c = Children(document, a)[i]
      PROVE  c \in D /\ M[c] # 0 /\ rank[c] < rank[a]
  <2>1. N \in First(a)
    BY <1>5, <1>8
  <2>2. rank[a] \in First(a)
    BY <1>6, <2>1
  <2>3. rank[a] # 0
    BY <1>3, <2>2
  <2>4. rank[a] \in 1 .. N /\ rank[a] - 1 \in 0 .. N /\ R[rank[a]][a] # 0
    <3>1. rank[a] \in 0 .. N /\ R[rank[a]][a] # 0
      BY <2>2
    <3> HIDE DEF rank
    <3> QED BY <1>2, <2>3, <3>1
  <2> HIDE DEF rank
  <2>5. WidthFrom(document, R[rank[a] - 1], a) # 0
    BY <1>3, <2>4, ZenonT(60)
  <2>6. R[rank[a] - 1] \in [D -> Nat]
    BY <1>3, <2>4
  <2>7. c \in D /\ R[rank[a] - 1][c] # 0
    BY <1>8, <2>5, <2>6, WidthNeedsParts
  <2>8. rank[a] - 1 \in First(c)
    BY <2>4, <2>7
  <2>9. rank[c] <= rank[a] - 1
    <3> HIDE DEF First
    <3> QED BY <1>6, <2>7, <2>8
  <2>10. M[c] # 0
    <3>1. WidthFrom(document, M, a) # 0
      BY <1>4, <1>8 DEF Settled
    <3> HIDE DEF M
    <3> QED BY <1>5, <1>8, <3>1, WidthNeedsParts
  <2>11. rank[c] \in Nat /\ rank[a] \in Nat
    BY <1>7, <2>7
  <2> QED BY <2>7, <2>9, <2>10, <2>11
<1> HIDE DEF rank, M
<1> QED BY <1>1, <1>4, <1>5, <1>7, <1>8 DEF IsMeaning

-----------------------------------------------------------------------------
(* The steps of resolve. *)

Inv == nodes \in Documents /\ TypeOK /\ CallsConsistent /\ PartsComeFirst

\* The empty resolver satisfies the invariant.
LEMMA InitInv == Init => Inv
<1> SUFFICES ASSUME Init PROVE Inv
  OBVIOUS
<1>1. TypeOK
  <2>1. /\ dataTypes \in Seq({dataTypes[i] : i \in DOMAIN dataTypes})
        /\ frames \in Seq([address : DOMAIN nodes, parts : Seq(Nat)])
    BY EmptySeq DEF Init
  <2>2. answer \in [state : {"pending", "error", "ok"}, id : Nat]
    BY DEF Init, Pending
  <2> QED BY <2>1, <2>2 DEF TypeOK
<1>2. CallsConsistent
  BY DEF Init, CallsConsistent, IsInjective, Pending
<1>3. PartsComeFirst
  BY DEF Init, PartsComeFirst, IsInjective
<1> QED BY <1>1, <1>2, <1>3 DEF Inv, Init

\* A step that changes neither the table nor the stack.
LEMMA StackUnchanged ==
  ASSUME Inv, UNCHANGED <<nodes, ids, dataTypes, resolving, frames>>,
         \/ answer' = answer
         \/ answer' = Pending
         \/ answer' = Err
         \/ asked \in DOMAIN ids /\ answer' = Ok(ids[asked])
  PROVE  Inv'
<1>1. /\ answer' \in [state : {"pending", "error", "ok"}, id : Nat]
      /\ answer'.state = "ok" => answer'.id \in DOMAIN dataTypes
  <2>1. CASE answer' = answer
    BY <2>1 DEF Inv, TypeOK, CallsConsistent
  <2>2. CASE answer' = Pending \/ answer' = Err
    BY <2>2 DEF Pending, Err
  <2>3. CASE asked \in DOMAIN ids /\ answer' = Ok(ids[asked])
    <3>1. ids[asked] \in DOMAIN dataTypes
      BY <2>3 DEF Inv, PartsComeFirst
    <3>2. ids[asked] \in Nat
      BY <3>1, LenProperties DEF Inv, TypeOK
    <3> QED BY <2>3, <3>1, <3>2 DEF Ok
  <2> QED BY <2>1, <2>2, <2>3
<1>2. TypeOK'
  BY <1>1 DEF Inv, TypeOK
<1>3. CallsConsistent'
  BY <1>1 DEF Inv, CallsConsistent
<1>4. PartsComeFirst'
  BY DEF Inv, PartsComeFirst
<1> QED BY <1>2, <1>3, <1>4 DEF Inv

Frame == [address : DOMAIN nodes, parts : Seq(Nat)]

\* What a change of the stack alone must leave in place.
LEMMA StackChanged ==
  ASSUME Inv, UNCHANGED <<nodes, ids, dataTypes>>,
         frames' \in Seq(Frame), answer' \in {Pending, Err},
         resolving' = [i \in DOMAIN frames' |-> frames'[i].address],
         IsInjective(resolving'),
         \A i \in DOMAIN frames' :
           /\ frames'[i].address \notin DOMAIN ids
           /\ ToSet(frames'[i].parts) \subseteq DOMAIN dataTypes
  PROVE  Inv'
<1>1. /\ answer' \in [state : {"pending", "error", "ok"}, id : Nat]
      /\ answer'.state # "ok"
  BY DEF Pending, Err
<1>2. TypeOK'
  BY <1>1 DEF Inv, TypeOK, Frame
<1>3. CallsConsistent'
  BY <1>1 DEF CallsConsistent
<1>4. PartsComeFirst'
  BY DEF Inv, PartsComeFirst
<1> QED BY <1>2, <1>3, <1>4 DEF Inv

\* What the type invariant says of the stack, call by call.
LEMMA StackFacts ==
  ASSUME Inv
  PROVE  /\ frames \in Seq(Frame) /\ Len(frames) \in Nat /\ DOMAIN frames = 1 .. Len(frames)
         /\ frames # <<>> => Len(frames) \in DOMAIN frames
         /\ \A i \in DOMAIN frames :
              /\ frames[i] \in Frame
              /\ frames[i].address \in DOMAIN nodes
              /\ frames[i].parts \in Seq(Nat)
<1>1. frames \in Seq(Frame)
  BY DEF Inv, TypeOK, Frame
<1>2. Len(frames) \in Nat /\ DOMAIN frames = 1 .. Len(frames)
  BY <1>1, LenProperties
<1>3. frames # <<>> => Len(frames) \in DOMAIN frames
  BY <1>1, <1>2, EmptySeq
<1>4. \A i \in DOMAIN frames : frames[i] \in Frame
  BY <1>1, <1>2, ElementOfSeq
<1>5. \A f \in Frame : f.address \in DOMAIN nodes /\ f.parts \in Seq(Nat)
  BY DEF Frame
<1> QED BY <1>1, <1>2, <1>3, <1>4, <1>5

\* Entering a node pushes one that is not on the stack and has no number.
LEMMA EnterInv ==
  ASSUME Inv, ResolveEnter, UNCHANGED nodes
  PROVE  Inv'
<1> DEFINE new == [address |-> asked, parts |-> <<>>]
           n   == Len(frames)
<1>1. /\ frames \in Seq(Frame) /\ new \in Frame /\ n \in Nat
      /\ DOMAIN frames = 1 .. n
  BY EmptySeq, LenProperties DEF Inv, TypeOK, ResolveEnter, Frame
<1>2. /\ frames' \in Seq(Frame) /\ DOMAIN frames' = 1 .. n + 1
      /\ \A i \in 1 .. n : frames'[i] = frames[i]
      /\ frames'[n + 1] = new
  <2>1. frames' = Append(frames, new) /\ Frame \cup {new} = Frame
    BY <1>1 DEF ResolveEnter
  <2> HIDE DEF new
  <2> QED BY <1>1, <2>1, PushOnStack
<1>3. /\ resolving \in Seq(DOMAIN nodes) /\ Len(resolving) = n
      /\ \A i \in 1 .. n : resolving[i] = frames[i].address
  <2>1. resolving = [i \in 1 .. n |-> frames[i].address]
    BY <1>1 DEF Inv, CallsConsistent
  <2>2. \A i \in 1 .. n : frames[i].address \in DOMAIN nodes
    BY <1>1, StackFacts
  <2> QED BY <1>1, <2>1, <2>2
<1>4. /\ DOMAIN resolving' = 1 .. n + 1
      /\ \A i \in 1 .. n : resolving'[i] = frames[i].address
      /\ resolving'[n + 1] = asked
      /\ resolving' \in [1 .. n + 1 -> DOMAIN nodes \cup {asked}]
  <2>1. resolving' = Append(resolving, asked)
    BY DEF ResolveEnter
  <2>2. /\ resolving' \in Seq(DOMAIN nodes \cup {asked}) /\ Len(resolving') = n + 1
        /\ DOMAIN resolving' = 1 .. n + 1
        /\ \A i \in 1 .. n : resolving'[i] = resolving[i]
        /\ resolving'[n + 1] = asked
    BY <1>3, <2>1, PushOnStack
  <2>3. resolving' \in [1 .. n + 1 -> DOMAIN nodes \cup {asked}]
    BY <2>2, LenProperties
  <2> QED BY <1>3, <2>2, <2>3
<1>5. resolving' = [i \in DOMAIN frames' |-> frames'[i].address]
  BY <1>1, <1>2, <1>4
<1>6. IsInjective(resolving')
  <2>1. \A i \in 1 .. n : frames[i].address # asked
    BY <1>1, <1>3, LenProperties DEF ResolveEnter, IsActive, ToSet
  <2>2. \A i, j \in 1 .. n : frames[i].address = frames[j].address => i = j
    BY <1>1 DEF Inv, CallsConsistent, IsInjective
  <2> QED BY <1>1, <1>4, <2>1, <2>2 DEF IsInjective
<1>7. ASSUME NEW i \in DOMAIN frames'
      PROVE  /\ frames'[i].address \notin DOMAIN ids
             /\ ToSet(frames'[i].parts) \subseteq DOMAIN dataTypes
  <2>1. CASE i \in 1 .. n
    BY <1>1, <1>2, <2>1 DEF Inv, CallsConsistent
  <2>2. CASE i = n + 1
    BY <1>2, <2>2 DEF ResolveEnter, ToSet
  <2> QED BY <1>1, <1>2, <2>1, <2>2
<1> QED BY <1>2, <1>5, <1>6, <1>7, StackChanged DEF ResolveEnter, Return

\* A number received is a part of the node on top.
LEMMA ReceiveInv ==
  ASSUME Inv, Receive, UNCHANGED nodes
  PROVE  Inv'
<1> DEFINE n   == Len(frames)
           new == [frames[n] EXCEPT !.parts = Append(@, answer.id)]
<1>1. /\ frames \in Seq(Frame) /\ n \in Nat \ {0} /\ DOMAIN frames = 1 .. n
      /\ frames[n] \in Frame
      /\ answer.id \in DOMAIN dataTypes /\ answer.id \in Nat
  <2>1. frames # <<>> /\ answer.state = "ok"
    BY DEF Receive, Inside
  <2>2. answer.id \in DOMAIN dataTypes /\ answer.id \in Nat
    BY <2>1 DEF Inv, TypeOK, CallsConsistent
  <2> QED BY <2>1, <2>2, StackFacts
<1>2. /\ new \in Frame /\ new.address = frames[n].address
      /\ new.parts = Append(frames[n].parts, answer.id)
  <2>1. Append(frames[n].parts, answer.id) \in Seq(Nat)
    BY <1>1, StackFacts
  <2> QED BY <1>1, <2>1 DEF Frame
<1>3. frames' = [frames EXCEPT ![n] = new]
  BY <1>1 DEF Receive
<1> HIDE DEF new
<1>4. /\ frames' \in Seq(Frame) /\ DOMAIN frames' = 1 .. n
      /\ \A i \in 1 .. n : frames'[i] = IF i = n THEN new ELSE frames[i]
  BY <1>1, <1>2, <1>3, ExceptSeq, LenProperties
<1>5. /\ resolving' = [i \in DOMAIN frames' |-> frames'[i].address]
      /\ IsInjective(resolving')
  <2>1. \A i \in 1 .. n : frames'[i].address = frames[i].address
    BY <1>2, <1>4
  <2>2. resolving' = [i \in DOMAIN frames |-> frames[i].address] /\ IsInjective(resolving')
    BY DEF Inv, CallsConsistent, Receive
  <2> QED BY <1>1, <1>4, <2>1, <2>2
<1>6. ToSet(new.parts) \subseteq DOMAIN dataTypes
  <2>1. /\ frames[n].parts \in Seq(Nat)
        /\ \A j \in DOMAIN frames[n].parts : frames[n].parts[j] \in DOMAIN dataTypes
    BY <1>1, StackFacts DEF Inv, CallsConsistent, ToSet
  <2>2. /\ DOMAIN new.parts = 1 .. Len(frames[n].parts) + 1
        /\ \A j \in 1 .. Len(frames[n].parts) : new.parts[j] = frames[n].parts[j]
        /\ new.parts[Len(frames[n].parts) + 1] = answer.id
    BY <1>2, <2>1, PushOnStack
  <2>3. Len(frames[n].parts) \in Nat /\ DOMAIN frames[n].parts = 1 .. Len(frames[n].parts)
    BY <2>1, LenProperties
  <2> QED BY <1>1, <2>1, <2>2, <2>3 DEF ToSet
<1>7. ASSUME NEW i \in DOMAIN frames'
      PROVE  /\ frames'[i].address \notin DOMAIN ids
             /\ ToSet(frames'[i].parts) \subseteq DOMAIN dataTypes
  BY <1>1, <1>2, <1>4, <1>6 DEF Inv, CallsConsistent
<1> QED BY <1>4, <1>5, <1>7, StackChanged DEF Receive

\* The stack below the top: its calls, and resolving without the last address.
LEMMA PopFacts ==
  ASSUME Inv, frames # <<>>
  PROVE  /\ Front(frames) \in Seq(Frame)
         /\ DOMAIN Front(frames) = 1 .. Len(frames) - 1
         /\ \A i \in DOMAIN Front(frames) : Front(frames)[i] = frames[i]
         /\ Front(resolving) = [i \in DOMAIN Front(frames) |-> Front(frames)[i].address]
         /\ IsInjective(Front(resolving))
         /\ \A i \in DOMAIN Front(frames) : Front(frames)[i].address # Top.address
<1> DEFINE n == Len(frames)
<1>1. /\ frames \in Seq(Frame) /\ n \in Nat \ {0} /\ DOMAIN frames = 1 .. n
  BY StackFacts
<1>2. /\ Front(frames) \in Seq(Frame)
      /\ DOMAIN Front(frames) = 1 .. n - 1
      /\ \A i \in 1 .. n - 1 : Front(frames)[i] = frames[i]
  BY <1>1, FrontOfStack
<1>3. /\ resolving = [i \in 1 .. n |-> frames[i].address] /\ IsInjective(resolving)
  BY <1>1 DEF Inv, CallsConsistent
<1>4. resolving \in Seq(DOMAIN nodes) /\ Len(resolving) = n
  <2>1. \A i \in 1 .. n : frames[i].address \in DOMAIN nodes
    BY <1>1, StackFacts
  <2> QED BY <1>1, <1>3, <2>1
<1>5. /\ Front(resolving) \in Seq(DOMAIN nodes)
      /\ Len(Front(resolving)) = n - 1
      /\ DOMAIN Front(resolving) = 1 .. n - 1
      /\ \A i \in 1 .. n - 1 : Front(resolving)[i] = frames[i].address
  <2>1. resolving # <<>>
    BY <1>1, <1>3, <1>4, EmptySeq
  <2>2. /\ Front(resolving) \in Seq(DOMAIN nodes)
        /\ DOMAIN Front(resolving) = 1 .. n - 1
        /\ Len(Front(resolving)) = n - 1
        /\ \A i \in 1 .. n - 1 : Front(resolving)[i] = resolving[i]
    BY <1>4, <2>1, FrontOfStack
  <2> QED BY <1>1, <1>3, <2>2
<1>6. Front(resolving) = [i \in DOMAIN Front(frames) |-> Front(frames)[i].address]
  <2>1. Front(resolving) = [i \in 1 .. n - 1 |-> Front(resolving)[i]]
    BY <1>5, LenProperties
  <2> QED BY <1>2, <1>5, <2>1
<1>7. \A i, j \in 1 .. n : frames[i].address = frames[j].address => i = j
  BY <1>1, <1>3 DEF IsInjective
<1>8. IsInjective(Front(resolving))
  BY <1>1, <1>5, <1>7 DEF IsInjective
<1>9. \A i \in 1 .. n - 1 : Front(frames)[i].address # Top.address
  BY <1>1, <1>2, <1>7 DEF Top, Last
<1> QED BY <1>2, <1>6, <1>8, <1>9

\* An error leaves the stack below the node on top.
LEMMA FailInv ==
  ASSUME Inv, Fail, UNCHANGED nodes
  PROVE  Inv'
<1>1. /\ frames # <<>> /\ frames' = Front(frames) /\ resolving' = Front(resolving)
      /\ answer' = Err /\ UNCHANGED <<nodes, ids, dataTypes>>
  BY DEF Fail, Inside, Return
<1>2. ASSUME NEW i \in DOMAIN frames'
      PROVE  /\ frames'[i].address \notin DOMAIN ids
             /\ ToSet(frames'[i].parts) \subseteq DOMAIN dataTypes
  <2>1. i \in DOMAIN frames /\ frames'[i] = frames[i]
    BY <1>1, PopFacts, StackFacts
  <2> QED BY <2>1 DEF Inv, CallsConsistent
<1> QED BY <1>1, <1>2, PopFacts, StackChanged

\* What Finish adds to the table and to the numbers.
LEMMA FinishFacts ==
  ASSUME Inv, Finish, NEW n, n = Len(dataTypes)
  PROVE  /\ n \in Nat /\ DOMAIN dataTypes = 1 .. n
         /\ dataTypes \in Seq({dataTypes[i] : i \in 1 .. n})
         /\ dataTypes' \in Seq({dataTypes'[i] : i \in DOMAIN dataTypes'})
         /\ DOMAIN dataTypes' = 1 .. n + 1
         /\ \A i \in 1 .. n : dataTypes'[i] = dataTypes[i]
         /\ dataTypes'[n + 1] = DataType(nodes, Top.address, Top.parts, WidthsOf(Top.parts))
         /\ Top.address \in DOMAIN nodes /\ Top.address \notin DOMAIN ids
         /\ Top.parts \in Seq(Nat) /\ ToSet(Top.parts) \subseteq 1 .. n
         /\ DOMAIN ids' = DOMAIN ids \cup {Top.address}
         /\ \A a \in DOMAIN ids : ids'[a] = ids[a]
         /\ ids'[Top.address] = n + 1
         /\ frames # <<>> /\ frames' = Front(frames) /\ resolving' = Front(resolving)
         /\ answer' = [state |-> "ok", id |-> n + 1] /\ asked' = NoAddress
<1> DEFINE type == DataType(nodes, Top.address, Top.parts, WidthsOf(Top.parts))
<1>1. /\ frames # <<>> /\ frames' = Front(frames) /\ resolving' = Front(resolving)
      /\ dataTypes' = Append(dataTypes, type)
      /\ ids' = [a \in DOMAIN ids \cup {Top.address} |->
                   IF a = Top.address THEN n + 1 ELSE ids[a]]
      /\ answer' = [state |-> "ok", id |-> n + 1] /\ asked' = NoAddress
  BY DEF Finish, Complete, Inside, Return, NextId, Ok
<1>2. /\ Top.address \notin DOMAIN ids /\ Top.address \in DOMAIN nodes
      /\ Top.parts \in Seq(Nat)
      /\ ToSet(Top.parts) \subseteq DOMAIN dataTypes
  BY <1>1, StackFacts DEF Inv, CallsConsistent, Top, Last
<1> HIDE DEF type
<1>3. /\ n \in Nat /\ DOMAIN dataTypes = 1 .. n
      /\ dataTypes \in Seq({dataTypes[i] : i \in 1 .. n})
      /\ DOMAIN dataTypes' = 1 .. n + 1
      /\ \A i \in 1 .. n : dataTypes'[i] = dataTypes[i]
      /\ dataTypes'[n + 1] = type
      /\ dataTypes' \in Seq({dataTypes'[i] : i \in DOMAIN dataTypes'})
  <2> DEFINE S == {dataTypes[i] : i \in DOMAIN dataTypes}
  <2>1. dataTypes \in Seq(S)
    BY DEF Inv, TypeOK
  <2> HIDE DEF S
  <2>2. /\ n \in Nat /\ DOMAIN dataTypes = 1 .. n
        /\ dataTypes' \in Seq(S \cup {type})
        /\ DOMAIN dataTypes' = 1 .. n + 1
        /\ \A i \in 1 .. n : dataTypes'[i] = dataTypes[i]
        /\ dataTypes'[n + 1] = type
    BY <1>1, <2>1, PushOnStack, LenProperties
  <2>3. S \cup {type} = {dataTypes'[i] : i \in DOMAIN dataTypes'}
    BY <2>2 DEF S
  <2> QED BY <2>1, <2>2, <2>3 DEF S
<1>4. /\ DOMAIN ids' = DOMAIN ids \cup {Top.address}
      /\ \A a \in DOMAIN ids : ids'[a] = ids[a]
      /\ ids'[Top.address] = n + 1
  BY <1>1, <1>2
<1> QED BY <1>1, <1>2, <1>3, <1>4 DEF type

\* A type is numbered after its parts, with a number no other address has.
LEMMA FinishInv ==
  ASSUME Inv, Finish, UNCHANGED nodes
  PROVE  Inv'
<1> DEFINE n    == Len(dataTypes)
           type == DataType(nodes, Top.address, Top.parts, WidthsOf(Top.parts))
<1>1. /\ frames # <<>> /\ frames' = Front(frames) /\ resolving' = Front(resolving)
      /\ answer' = [state |-> "ok", id |-> n + 1]
  BY FinishFacts
<1>2. Top.address \notin DOMAIN ids /\ ToSet(Top.parts) \subseteq 1 .. n
  BY FinishFacts
<1>3. type.parts = Top.parts
  BY DEF DataType
<1>4. /\ n \in Nat /\ DOMAIN dataTypes = 1 .. n
      /\ DOMAIN dataTypes' = 1 .. n + 1
      /\ \A i \in 1 .. n : dataTypes'[i] = dataTypes[i]
      /\ dataTypes'[n + 1] = type
      /\ dataTypes' \in Seq({dataTypes'[i] : i \in DOMAIN dataTypes'})
  BY FinishFacts
<1> HIDE DEF type
<1>5. /\ DOMAIN ids' = DOMAIN ids \cup {Top.address}
      /\ \A a \in DOMAIN ids : ids'[a] = ids[a]
      /\ ids'[Top.address] = n + 1
  BY FinishFacts
<1>6. PartsComeFirst'
  <2>1. ASSUME NEW i \in DOMAIN dataTypes', NEW j \in ToSet(dataTypes'[i].parts)
        PROVE  j \in 1 .. i - 1
    <3>1. CASE i \in 1 .. n
      BY <1>4, <2>1, <3>1 DEF Inv, PartsComeFirst
    <3>2. CASE i = n + 1
      BY <1>2, <1>3, <1>4, <2>1, <3>2
    <3> QED BY <1>4, <3>1, <3>2
  <2>2. IsInjective(ids) /\ {ids[a] : a \in DOMAIN ids} = 1 .. n
    BY <1>4 DEF Inv, PartsComeFirst
  <2>3. IsInjective(ids')
    BY <1>2, <1>4, <1>5, <2>2 DEF IsInjective
  <2>4. {ids'[a] : a \in DOMAIN ids'} = 1 .. n + 1
    <3>1. {ids'[a] : a \in DOMAIN ids'} = {ids[a] : a \in DOMAIN ids} \cup {n + 1}
      BY <1>2, <1>5
    <3>2. 1 .. n + 1 = (1 .. n) \cup {n + 1}
      BY <1>4
    <3> QED BY <2>2, <3>1, <3>2
  <2> QED BY <1>4, <2>1, <2>3, <2>4 DEF PartsComeFirst
<1>7. TypeOK'
  <2>1. frames' \in Seq(Frame)
    BY <1>1, PopFacts
  <2>2. answer' \in [state : {"pending", "error", "ok"}, id : Nat]
    BY <1>1, <1>4
  <2> QED BY <1>4, <2>1, <2>2 DEF TypeOK, Frame
<1>8. CallsConsistent'
  <2>1. /\ resolving' = [i \in DOMAIN frames' |-> frames'[i].address]
        /\ IsInjective(resolving')
    BY <1>1, PopFacts
  <2>2. ASSUME NEW i \in DOMAIN frames'
        PROVE  /\ frames'[i].address \notin DOMAIN ids'
               /\ ToSet(frames'[i].parts) \subseteq DOMAIN dataTypes'
    <3>1. /\ i \in DOMAIN frames /\ frames'[i] = frames[i]
          /\ frames'[i].address # Top.address
      BY <1>1, PopFacts, StackFacts
    <3>2. /\ frames[i].address \notin DOMAIN ids
          /\ ToSet(frames[i].parts) \subseteq DOMAIN dataTypes
      BY <3>1 DEF Inv, CallsConsistent
    <3> QED BY <1>4, <1>5, <3>1, <3>2
  <2>3. answer'.state = "ok" => answer'.id \in DOMAIN dataTypes'
    BY <1>1, <1>4
  <2> QED BY <2>1, <2>2, <2>3 DEF CallsConsistent
<1> QED BY <1>6, <1>7, <1>8 DEF Inv

-----------------------------------------------------------------------------
(* The layout of a struct. *)

\* Every type has a width, and a struct is laid out by its parts' widths.
WidthsIn(table, parts) == [i \in DOMAIN parts |-> table[parts[i]].width]
TableLaidOut(table) ==
  \A n \in DOMAIN table :
    /\ table[n].width \in Nat \ {0} /\ table[n].parts \in Seq(Nat)
    /\ table[n].kind = "PackedStruct" =>
         /\ table[n].width = SumOf(WidthsIn(table, table[n].parts))
         /\ table[n].lsb = MemberOffsets(WidthsIn(table, table[n].parts))
LaidOut == TableLaidOut(dataTypes)

\* The widths of parts that are in the table.
LEMMA WidthsType ==
  ASSUME Inv, LaidOut, NEW parts \in Seq(Nat), ToSet(parts) \subseteq DOMAIN dataTypes
  PROVE  /\ WidthsOf(parts) \in Seq(Nat) /\ Len(WidthsOf(parts)) = Len(parts)
         /\ DOMAIN WidthsOf(parts) = DOMAIN parts
         /\ \A i \in DOMAIN parts :
              /\ parts[i] \in DOMAIN dataTypes
              /\ WidthsOf(parts)[i] = dataTypes[parts[i]].width
              /\ WidthsOf(parts)[i] \in Nat \ {0}
<1>1. DOMAIN parts = 1 .. Len(parts) /\ Len(parts) \in Nat
  OBVIOUS
<1>2. ASSUME NEW i \in DOMAIN parts
      PROVE  parts[i] \in DOMAIN dataTypes /\ dataTypes[parts[i]].width \in Nat \ {0}
  BY DEF ToSet, LaidOut, TableLaidOut
<1>3. /\ WidthsOf(parts) \in [1 .. Len(parts) -> Nat]
      /\ \A i \in DOMAIN parts : WidthsOf(parts)[i] = dataTypes[parts[i]].width
  BY <1>1, <1>2 DEF WidthsOf
<1> QED BY <1>1, <1>2, <1>3

LEMMA FinishLaidOut ==
  ASSUME Inv, LaidOut, Finish
  PROVE  /\ WidthsOf(Top.parts) \in Seq(Nat)
         /\ LayoutWidth(nodes[Top.address], WidthsOf(Top.parts)) \in Nat \ {0}
         /\ LaidOut'
<1> DEFINE n      == Len(dataTypes)
           node   == nodes[Top.address]
           widths == WidthsOf(Top.parts)
           type   == DataType(nodes, Top.address, Top.parts, widths)
<1>1. /\ n \in Nat /\ DOMAIN dataTypes = 1 .. n
      /\ DOMAIN dataTypes' = 1 .. n + 1
      /\ \A i \in 1 .. n : dataTypes'[i] = dataTypes[i]
      /\ dataTypes'[n + 1] = type
      /\ Top.address \in DOMAIN nodes
      /\ Top.parts \in Seq(Nat) /\ ToSet(Top.parts) \subseteq 1 .. n
  BY FinishFacts
<1>2. widths \in Seq(Nat) /\ Len(widths) = Len(Top.parts)
  BY <1>1, WidthsType
<1>3. LayoutWidth(node, widths) \in Nat \ {0}
  <2>1. /\ Len(Top.parts) = Len(Children(nodes, Top.address))
        /\ ~ RefusesPart(nodes, Top.address, widths)
        /\ ~ RefusesWhole(nodes, Top.address, widths)
    BY DEF Finish, Complete
  <2>2. LayoutWidth(node, widths) \in Nat
    BY <1>1, <1>2, <2>1, WidthType DEF Inv
  <2> QED BY <2>1, <2>2 DEF RefusesWhole
<1>4. ASSUME NEW parts, ToSet(parts) \subseteq 1 .. n
      PROVE  WidthsIn(dataTypes', parts) = WidthsIn(dataTypes, parts)
  BY <1>1, <1>4 DEF WidthsIn, ToSet
<1>5. ASSUME NEW i \in 1 .. n
      PROVE  ToSet(dataTypes[i].parts) \subseteq 1 .. n
  <2>1. \A j \in ToSet(dataTypes[i].parts) : j \in 1 .. i - 1
    BY <1>1 DEF Inv, PartsComeFirst
  <2> QED BY <1>1, <2>1
<1>6. /\ type.parts = Top.parts /\ type.width = LayoutWidth(node, widths)
      /\ type.kind = node.kind
      /\ type.kind = "PackedStruct" =>
           type.width = SumOf(widths) /\ type.lsb = MemberOffsets(widths)
  BY DEF DataType, LayoutWidth
<1>7. widths = WidthsIn(dataTypes, Top.parts)
  BY DEF WidthsOf, WidthsIn
<1> HIDE DEF type, widths, node
<1>8. ASSUME NEW i \in DOMAIN dataTypes'
      PROVE  /\ dataTypes'[i].width \in Nat \ {0} /\ dataTypes'[i].parts \in Seq(Nat)
             /\ dataTypes'[i].kind = "PackedStruct" =>
                  /\ dataTypes'[i].width = SumOf(WidthsIn(dataTypes', dataTypes'[i].parts))
                  /\ dataTypes'[i].lsb = MemberOffsets(WidthsIn(dataTypes', dataTypes'[i].parts))
  <2>1. CASE i \in 1 .. n
    <3>1. WidthsIn(dataTypes', dataTypes[i].parts) = WidthsIn(dataTypes, dataTypes[i].parts)
      BY <1>4, <1>5, <2>1
    <3> QED BY <1>1, <2>1, <3>1 DEF LaidOut, TableLaidOut
  <2>2. CASE i = n + 1
    <3>1. WidthsIn(dataTypes', Top.parts) = widths
      BY <1>1, <1>4, <1>7
    <3> QED BY <1>1, <1>3, <1>6, <2>2, <3>1
  <2> QED BY <1>1, <2>1, <2>2
<1>9. LaidOut'
  BY <1>8 DEF LaidOut, TableLaidOut
<1> QED BY <1>2, <1>3, <1>9 DEF widths, node

LEMMA NextLaidOut == Inv /\ LaidOut /\ [Next]_resolverVars => LaidOut'
<1> SUFFICES ASSUME Inv, LaidOut, [Next]_resolverVars PROVE LaidOut'
  OBVIOUS
<1>1. CASE Finish
  BY <1>1, FinishLaidOut
<1>2. CASE UNCHANGED dataTypes
  BY <1>2 DEF LaidOut
<1> QED BY <1>1, <1>2 DEF Next, resolverVars, Resolve, ResolveKnown, ResolveCycle, ResolveMissing,
      ResolveEnter, Descend, Receive, Fail, TryDeclaration, RequestType, Ask

-----------------------------------------------------------------------------
(* The theorems. *)

\* Every step of the resolver and of its caller keeps the invariant.
LEMMA NextInv == Inv /\ [Next]_resolverVars => Inv'
<1> SUFFICES ASSUME Inv, [Next]_resolverVars PROVE Inv'
  OBVIOUS
<1>1. CASE UNCHANGED resolverVars
  BY <1>1, StackUnchanged DEF resolverVars
<1>2. CASE Resolve
  <2>0. UNCHANGED nodes
    BY <1>2 DEF Resolve
  <2>1. CASE ResolveKnown \/ ResolveCycle \/ ResolveMissing
    BY <2>0, <2>1, StackUnchanged DEF ResolveKnown, ResolveCycle, ResolveMissing, Return
  <2>2. CASE ResolveEnter
    BY <2>0, <2>2, EnterInv
  <2>3. CASE Descend
    BY <2>0, <2>3, StackUnchanged DEF Descend
  <2>4. CASE Receive
    BY <2>0, <2>4, ReceiveInv
  <2>5. CASE Fail
    BY <2>0, <2>5, FailInv
  <2>6. CASE Finish
    BY <2>0, <2>6, FinishInv
  <2> QED BY <1>2, <2>1, <2>2, <2>3, <2>4, <2>5, <2>6 DEF Resolve
<1>3. CASE TryDeclaration
  BY <1>3, StackUnchanged DEF TryDeclaration, Ask
<1>4. ASSUME NEW a \in Wanted, RequestType(a) PROVE Inv'
  BY <1>4, StackUnchanged DEF RequestType, Ask
<1> QED BY <1>1, <1>2, <1>3, <1>4 DEF Next

\* resolve_node keeps its three books in step: the calls on the stack are those
\* of `resolving`, each of another address and none with a number yet, and
\* every number it holds or hands out is that of a type in the table.
THEOREM CallsConsistentCorrect == Spec => []CallsConsistent
<1>1. Inv => CallsConsistent
  BY DEF Inv
<1> QED BY InitInv, NextInv, <1>1, PTL DEF Spec

\* In every document the types come after their parts, so no chain of type
\* references is a cycle, and every number belongs to one address.
THEOREM PartsComeFirstCorrect == Spec => []PartsComeFirst
<1>1. Inv => PartsComeFirst
  BY DEF Inv
<1> QED BY InitInv, NextInv, <1>1, PTL DEF Spec

\* In every document each bit of a packed struct belongs to exactly one of its
\* members, the earlier ones above the later.
THEOREM MembersTileCorrect == Spec => []MembersTile
<1>1. Init => LaidOut
  BY DEF Init, LaidOut, TableLaidOut
<1>2. ASSUME Inv, LaidOut PROVE MembersTile
  <2> SUFFICES ASSUME NEW n \in DOMAIN dataTypes, dataTypes[n].kind = "PackedStruct"
               PROVE  LET type   == dataTypes[n]
                          bits(i) == type.lsb[i] .. type.lsb[i] + dataTypes[type.parts[i]].width - 1
                      IN  /\ UNION {bits(i) : i \in DOMAIN type.parts} = 0 .. type.width - 1
                          /\ \A i, j \in DOMAIN type.parts : i < j => Min(bits(i)) > Max(bits(j))
    BY DEF MembersTile
  <2> DEFINE parts == dataTypes[n].parts
             lsb   == dataTypes[n].lsb
             w     == WidthsOf(parts)
             bits(i) == lsb[i] .. lsb[i] + dataTypes[parts[i]].width - 1
             these(i) == MemberBits(lsb, w, i)
  <2>1. parts \in Seq(Nat) /\ lsb = MemberOffsets(w) /\ dataTypes[n].width = SumOf(w)
    BY <1>2 DEF LaidOut, TableLaidOut, WidthsIn, WidthsOf
  <2>2. ToSet(parts) \subseteq DOMAIN dataTypes
    <3>1. dataTypes \in Seq({dataTypes[i] : i \in DOMAIN dataTypes})
      BY <1>2 DEF Inv, TypeOK
    <3>2. DOMAIN dataTypes = 1 .. Len(dataTypes) /\ Len(dataTypes) \in Nat
      BY <3>1, LenProperties
    <3>3. \A j \in ToSet(parts) : j \in 1 .. n - 1
      BY <1>2 DEF Inv, PartsComeFirst
    <3> QED BY <3>2, <3>3
  <2>3. /\ w \in Seq(Nat) /\ DOMAIN w = DOMAIN parts /\ \A i \in DOMAIN w : w[i] # 0
        /\ \A i \in DOMAIN parts : w[i] = dataTypes[parts[i]].width
    BY <1>2, <2>1, <2>2, WidthsType
  <2> HIDE DEF parts, lsb, w
  <2>4. /\ UNION {these(i) : i \in DOMAIN w} = 0 .. SumOf(w) - 1
        /\ \A i, j \in DOMAIN w : i < j => Min(these(i)) > Max(these(j))
    <3>1. w \in Seq(Nat) /\ (\A i \in DOMAIN w : w[i] # 0) /\ lsb = MemberOffsets(w)
      BY <2>1, <2>3
    <3>2. /\ UNION {MemberBits(lsb, w, i) : i \in DOMAIN w} = 0 .. SumOf(w) - 1
          /\ \A i, j \in DOMAIN w : i < j =>
               Min(MemberBits(lsb, w, i)) > Max(MemberBits(lsb, w, j))
      BY <3>1, MembersCover
    <3> QED BY <3>2
  <2>5. \A i \in DOMAIN parts : bits(i) = these(i)
    BY <2>3 DEF MemberBits
  <2>6. UNION {bits(i) : i \in DOMAIN parts} = UNION {these(i) : i \in DOMAIN w}
    BY <2>3, <2>5
  <2> HIDE DEF bits, these
  <2>7. /\ UNION {bits(i) : i \in DOMAIN parts} = 0 .. SumOf(w) - 1
        /\ \A i, j \in DOMAIN parts : i < j => Min(bits(i)) > Max(bits(j))
    BY <2>3, <2>4, <2>5, <2>6
  <2> QED BY <2>1, <2>7 DEF bits, parts, lsb
<1> QED BY InitInv, NextInv, NextLaidOut, <1>1, <1>2, PTL DEF Spec
\* In every finite document the stack of calls has at most one call per node.
THEOREM RecursionBoundedCorrect ==
  (\A document \in Documents : IsFiniteSet(DOMAIN document)) => (Spec => []RecursionBounded)
<1> SUFFICES ASSUME \A document \in Documents : IsFiniteSet(DOMAIN document)
             PROVE  Spec => []RecursionBounded
  OBVIOUS
<1>1. ASSUME Inv PROVE RecursionBounded
  <2> DEFINE n == Len(frames)
  <2>1. n \in Nat /\ DOMAIN frames = 1 .. n
    BY <1>1, StackFacts
  <2>2. resolving \in Injection(1 .. n, DOMAIN nodes)
    <3>1. \A i \in 1 .. n : frames[i].address \in DOMAIN nodes
      BY <1>1, <2>1, StackFacts
    <3>2. resolving = [i \in 1 .. n |-> frames[i].address] /\ IsInjective(resolving)
      BY <1>1, <2>1 DEF Inv, CallsConsistent
    <3> QED BY <3>1, <3>2 DEF Injection
  <2>3. IsFiniteSet(DOMAIN nodes)
    BY <1>1 DEF Inv
  <2>4. Cardinality(1 .. n) <= Cardinality(DOMAIN nodes)
    BY <2>2, <2>3, FS_Injection
  <2>5. Cardinality(1 .. n) = n
    BY <2>1, FS_Interval
  <2> QED BY <2>4, <2>5 DEF RecursionBounded
<1> QED BY InitInv, NextInv, <1>1, PTL DEF Spec

-----------------------------------------------------------------------------
(* Answers, compared with what the addresses mean. *)

\* Every number belongs to an address with the width of its type.
WidthsMeant(M) ==
  \A a \in DOMAIN ids :
    a \in DOMAIN nodes /\ M[a] = dataTypes[ids[a]].width /\ M[a] # 0

\* Each call on the stack was made for the next part of the call below it,
\* the first for the request, and the parts it has are those of its children.
Follow(document, numbers, stack, first) ==
  \A k \in DOMAIN stack :
    LET kids  == Children(document, stack[k].address)
        parts == stack[k].parts
    IN  /\ Len(parts) <= Len(kids)
        /\ \A i \in DOMAIN parts : kids[i] \in DOMAIN numbers /\ parts[i] = numbers[kids[i]]
        /\ k < Len(stack) =>
             Len(parts) < Len(kids) /\ stack[k + 1].address = kids[Len(parts) + 1]
        /\ k = 1 => stack[k].address = first
FramesFollow == Follow(nodes, ids, frames, request)

\* The address the next answer is for.
Awaits(document, stack, first, a) ==
  IF stack = <<>> THEN a = first
  ELSE LET n    == Len(stack)
           kids == Children(document, stack[n].address)
       IN  Len(stack[n].parts) < Len(kids) /\ a = kids[Len(stack[n].parts) + 1]
Awaited(a) == Awaits(nodes, frames, request, a)

Answered(M) ==
  /\ asked # NoAddress => Awaited(asked) /\ answer.state = "pending"
  /\ asked = NoAddress /\ answer.state = "ok" =>
       \E a \in DOMAIN ids : Awaited(a) /\ answer.id = ids[a]
  /\ asked = NoAddress /\ answer.state = "error" =>
       answer = Err /\ \E a : Awaited(a) /\ Known(M, a) = 0
  /\ Idle /\ request # NoAddress => answer.state # "pending"

MeansInv(M) == LaidOut /\ WidthsMeant(M) /\ FramesFollow /\ Answered(M)

\* What the parts known so far refuse, all of them refuse.
LEMMA PrefixRefused ==
  ASSUME NEW document \in Documents, NEW a \in DOMAIN document,
         NEW M \in [DOMAIN document -> Nat],
         NEW p \in Seq(Nat), Len(p) <= Len(Children(document, a)),
         \A i \in DOMAIN p : p[i] = PartWidths(document, M, a)[i],
         RefusesPart(document, a, p)
  PROVE  \/ 0 \in ToSet(PartWidths(document, M, a))
         \/ RefusesPart(document, a, PartWidths(document, M, a))
<1> DEFINE kids == Children(document, a)
           n    == Len(kids)
           q    == PartWidths(document, M, a)
<1>1. /\ q \in Seq(Nat) /\ Len(q) = n /\ DOMAIN q = 1 .. n /\ n \in Nat
      /\ DOMAIN kids = 1 .. n
  <2>1. q \in Seq(Nat) /\ Len(q) = n
    BY WidthFromType
  <2>2. n \in Nat /\ DOMAIN kids = 1 .. n
    BY ChildrenType
  <2> HIDE DEF q, n
  <2> QED BY <2>1, <2>2
<1>2. DOMAIN p = 1 .. Len(p) /\ Len(p) \in 0 .. n
  BY <1>1
<1>3. CASE \/ document[a].kind = "Unsupported"
           \/ document[a].kind \in {"Basic", "PackedStruct", "PackedUnion"} /\ ~ document[a].ok
  BY <1>3 DEF RefusesPart
<1>4. CASE Len(p) < n /\ kids[Len(p) + 1] = NoAddress
  <2>1. Len(p) + 1 \in 1 .. n
    BY <1>1, <1>2, <1>4
  <2>2. NoAddress \notin DOMAIN M
    BY AddressesPositive
  <2>3. q[Len(p) + 1] = 0
    BY <1>1, <1>4, <2>1, <2>2 DEF PartWidths, Known
  <2> QED BY <1>1, <2>1, <2>3 DEF ToSet
<1>5. CASE document[a].kind = "PackedUnion" /\ \E i \in DOMAIN p : p[i] # p[1]
  <2>1. PICK i \in DOMAIN p : p[i] # p[1]
    BY <1>5
  <2>2. i \in DOMAIN q /\ 1 \in DOMAIN p
    BY <1>1, <1>2
  <2>3. q[i] # q[1]
    BY <2>1, <2>2
  <2> QED BY <1>5, <2>2, <2>3 DEF RefusesPart
<1>6. CASE document[a].kind = "PackedStruct" /\ SumOf(p) > UsizeMax
  <2>1. PICK g : IsSums(g, q)
    BY <1>1, PartialSums DEF IsSums
  <2> HIDE DEF q
  <2>2. SumOf(q) = g[n]
    BY <1>1, <2>1, SumsAgree DEF IsSums
  <2>3. SumOf(p) = g[Len(p)]
    <3>1. g[0] = 0 /\ \A k \in 1 .. Len(p) : g[k] = g[k - 1] + p[k]
      BY <1>1, <1>2, <2>1 DEF IsSums, q
    <3> QED BY <3>1, SumsAgree
  <2>4. g[Len(p)] <= g[n]
    <3>1. Len(p) \in 0 .. Len(q) /\ n \in Len(p) .. Len(q)
      BY <1>1, <1>2
    <3> QED BY <1>1, <2>1, <3>1, SumsGrow
  <2>5. g[Len(p)] \in Nat /\ g[n] \in Nat
    <3>1. Len(p) \in 0 .. Len(q) /\ n \in 0 .. Len(q)
      BY <1>1, <1>2
    <3> QED BY <2>1, <3>1 DEF IsSums
  <2>6. SumOf(q) > UsizeMax
    BY <1>6, <2>2, <2>3, <2>4, <2>5, UsizeMaxPositive
  <2> QED BY <1>6, <2>6 DEF RefusesPart, q
<1> QED BY <1>3, <1>4, <1>5, <1>6 DEF RefusesPart

\* The widths a call holds are those of its first children.
LEMMA HeldWidths ==
  ASSUME Inv, NEW M, IsMeaning(nodes, M), MeansInv(M), frames # <<>>
  PROVE  LET w == WidthsOf(Top.parts)
             q == PartWidths(nodes, M, Top.address)
         IN  /\ Top.address \in DOMAIN nodes /\ M[Top.address] = WidthFrom(nodes, M, Top.address)
             /\ w \in Seq(Nat) /\ Len(w) = Len(Top.parts)
             /\ q \in Seq(Nat) /\ Len(q) = Len(Children(nodes, Top.address))
             /\ Len(w) <= Len(q)
             /\ \A i \in DOMAIN w : w[i] = q[i] /\ w[i] # 0
<1> DEFINE n == Len(frames)
           w == WidthsOf(Top.parts)
           q == PartWidths(nodes, M, Top.address)
           kids == Children(nodes, Top.address)
<1>1. /\ n \in DOMAIN frames /\ Top = frames[n]
      /\ Top.address \in DOMAIN nodes /\ Top.parts \in Seq(Nat)
  BY StackFacts DEF Top, Last
<1>2. nodes \in Documents /\ M \in [DOMAIN nodes -> Nat]
  BY DEF Inv, IsMeaning
<1>3. M[Top.address] = WidthFrom(nodes, M, Top.address)
  BY <1>1 DEF IsMeaning, Settled
<1>4. ToSet(Top.parts) \subseteq DOMAIN dataTypes
  BY <1>1 DEF Inv, CallsConsistent
<1>5. /\ w \in Seq(Nat) /\ Len(w) = Len(Top.parts) /\ DOMAIN w = DOMAIN Top.parts
      /\ \A i \in DOMAIN Top.parts : w[i] = dataTypes[Top.parts[i]].width /\ w[i] \in Nat \ {0}
  BY <1>1, <1>4, WidthsType DEF MeansInv
<1>6. q \in Seq(Nat) /\ Len(q) = Len(kids)
  BY <1>1, <1>2, WidthFromType
<1>7. Len(kids) \in Nat /\ DOMAIN kids = 1 .. Len(kids)
  BY <1>1, <1>2, ChildrenType
<1>8. /\ Len(Top.parts) <= Len(kids)
      /\ \A i \in DOMAIN Top.parts : kids[i] \in DOMAIN ids /\ Top.parts[i] = ids[kids[i]]
  BY <1>1 DEF MeansInv, FramesFollow, Follow
<1>9. ASSUME NEW i \in DOMAIN w PROVE w[i] = q[i]
  <2>1. i \in DOMAIN Top.parts /\ i \in DOMAIN kids
    BY <1>1, <1>5, <1>7, <1>8
  <2>2. kids[i] \in DOMAIN nodes /\ M[kids[i]] = dataTypes[ids[kids[i]]].width
    BY <1>8, <2>1 DEF MeansInv, WidthsMeant
  <2>3. q[i] = M[kids[i]]
    BY <1>2, <2>1, <2>2 DEF PartWidths, Known
  <2> QED BY <1>5, <1>8, <2>1, <2>2, <2>3
<1> HIDE DEF w, q, kids
<1>10. \A i \in DOMAIN w : w[i] = q[i] /\ w[i] # 0
  BY <1>5, <1>9
<1> QED BY <1>1, <1>3, <1>5, <1>6, <1>8, <1>10 DEF w, q, kids

\* A call that is refused is for an address without a width.
LEMMA RefusedMeansNone ==
  ASSUME Inv, NEW M, IsMeaning(nodes, M), MeansInv(M), Fail
  PROVE  Top.address \in DOMAIN nodes /\ M[Top.address] = 0
<1> DEFINE a == Top.address
           w == WidthsOf(Top.parts)
           q == PartWidths(nodes, M, a)
<1>1. frames # <<>> /\ asked = NoAddress
  BY DEF Fail, Inside
<1>2. /\ a \in DOMAIN nodes /\ M[a] = WidthFrom(nodes, M, a)
      /\ w \in Seq(Nat) /\ Len(w) = Len(Top.parts)
      /\ q \in Seq(Nat) /\ Len(q) = Len(Children(nodes, a))
      /\ Len(w) <= Len(q)
      /\ \A i \in DOMAIN w : w[i] = q[i] /\ w[i] # 0
  BY <1>1, HeldWidths
<1>3. nodes \in Documents /\ M \in [DOMAIN nodes -> Nat]
  BY DEF Inv, IsMeaning
<1>4. CASE answer.state = "error"
  <2>1. PICK c : Awaited(c) /\ Known(M, c) = 0
    BY <1>1, <1>4 DEF MeansInv, Answered
  <2>2. /\ Len(Top.parts) < Len(Children(nodes, a))
        /\ c = Children(nodes, a)[Len(Top.parts) + 1]
    BY <1>1, <2>1 DEF Awaited, Awaits, Top, Last
  <2>3. /\ Len(Top.parts) \in Nat /\ DOMAIN Children(nodes, a) = 1 .. Len(Children(nodes, a))
        /\ Len(Children(nodes, a)) \in Nat
    BY <1>2, <1>3, ChildrenType
  <2>4. Len(Top.parts) + 1 \in DOMAIN Children(nodes, a)
    BY <2>2, <2>3
  <2>5. 0 \in ToSet(q)
    BY <2>1, <2>2, <2>4 DEF ToSet, PartWidths
  <2> QED BY <1>2, <2>5 DEF WidthFrom
<1>5. CASE RefusesPart(nodes, a, w)
  <2> HIDE DEF w, a
  <2>1. 0 \in ToSet(q) \/ RefusesPart(nodes, a, q)
    <3>1. Len(w) <= Len(Children(nodes, a)) /\ \A i \in DOMAIN w : w[i] = q[i]
      BY <1>2
    <3> QED BY <1>2, <1>3, <1>5, <3>1, PrefixRefused
  <2> QED BY <1>2, <2>1 DEF WidthFrom, a
<1>6. CASE Complete /\ RefusesWhole(nodes, a, w)
  <2>1. Len(w) = Len(q)
    BY <1>2, <1>6 DEF Complete
  <2>2. w = q
    <3> HIDE DEF w, q
    <3>1. DOMAIN w = 1 .. Len(w) /\ DOMAIN q = 1 .. Len(q)
      BY <1>2
    <3>2. \A i \in 1 .. Len(w) : w[i] = q[i]
      BY <1>2, <3>1
    <3> QED BY <1>2, <2>1, <3>2, SeqEqual
  <2> QED BY <1>2, <1>6, <2>2 DEF WidthFrom
<1> QED BY <1>2, <1>4, <1>5, <1>6 DEF Fail

\* A type that is made has the width its address means.
LEMMA FinishedMeansWidth ==
  ASSUME Inv, NEW M, IsMeaning(nodes, M), MeansInv(M), Finish
  PROVE  /\ Top.address \in DOMAIN nodes
         /\ M[Top.address] = LayoutWidth(nodes[Top.address], WidthsOf(Top.parts))
         /\ M[Top.address] # 0
<1> DEFINE a == Top.address
           w == WidthsOf(Top.parts)
           q == PartWidths(nodes, M, a)
<1>1. frames # <<>> /\ Len(Top.parts) = Len(Children(nodes, a))
  BY DEF Finish, Complete, Inside
<1>2. /\ a \in DOMAIN nodes /\ M[a] = WidthFrom(nodes, M, a)
      /\ w \in Seq(Nat) /\ Len(w) = Len(Top.parts)
      /\ q \in Seq(Nat) /\ Len(q) = Len(Children(nodes, a))
      /\ \A i \in DOMAIN w : w[i] = q[i] /\ w[i] # 0
  BY <1>1, HeldWidths
<1>3. w = q
  <2> HIDE DEF w, q
  <2>1. Len(w) = Len(q) /\ DOMAIN w = 1 .. Len(w)
    BY <1>1, <1>2
  <2>2. \A i \in 1 .. Len(w) : w[i] = q[i]
    BY <1>2, <2>1
  <2> QED BY <1>2, <2>1, <2>2, SeqEqual
<1>4. 0 \notin ToSet(q)
  <2> HIDE DEF w, q
  <2> QED BY <1>2, <1>3 DEF ToSet
<1>5. ~ RefusesPart(nodes, a, w) /\ ~ RefusesWhole(nodes, a, w)
  BY DEF Finish, Complete
<1>6. M[a] = LayoutWidth(nodes[a], w)
  BY <1>2, <1>3, <1>4, <1>5 DEF WidthFrom
<1> QED BY <1>2, <1>5, <1>6 DEF RefusesWhole

\* An address awaited by a call made for it has no width.
LEMMA CycleMeansNone ==
  ASSUME Inv, NEW M, IsMeaning(nodes, M), MeansInv(M), ResolveCycle
  PROVE  Known(M, asked) = 0
<1> DEFINE n == Len(frames)
<1>1. n \in Nat /\ DOMAIN frames = 1 .. n /\ \A k \in 1 .. n : frames[k].address \in DOMAIN nodes
  BY StackFacts
<1>2. PICK j \in 1 .. n : frames[j].address = asked
  BY <1>1 DEF ResolveCycle, IsActive, ToSet, Inv, CallsConsistent
<1>3. PICK rank \in [DOMAIN nodes -> Nat] :
         \A a \in DOMAIN nodes : M[a] # 0 =>
           \A i \in DOMAIN Children(nodes, a) :
             LET c == Children(nodes, a)[i]
             IN  c \in DOMAIN nodes /\ M[c] # 0 /\ rank[c] < rank[a]
  BY DEF IsMeaning
<1> SUFFICES ASSUME M[asked] # 0 PROVE FALSE
  BY DEF Known
<1> DEFINE at(k) == frames[k].address
           Kids(k) == Children(nodes, frames[k].address)
           S == {k \in Nat : j + k <= n =>
                   M[at(j + k)] # 0 /\ rank[at(j + k)] <= rank[at(j)]}
<1>4. ASSUME NEW k \in 1 .. n, Len(frames[k].parts) < Len(Kids(k)), M[at(k)] # 0
      PROVE  LET c == Kids(k)[Len(frames[k].parts) + 1]
             IN  M[c] # 0 /\ rank[c] < rank[at(k)] /\ c \in DOMAIN nodes
  <2>1. Len(frames[k].parts) \in Nat
    BY <1>1, StackFacts
  <2>2. DOMAIN Kids(k) = 1 .. Len(Kids(k)) /\ Len(Kids(k)) \in Nat
    BY <1>1, ChildrenType DEF Inv
  <2>3. Len(frames[k].parts) + 1 \in DOMAIN Kids(k)
    BY <1>4, <2>1, <2>2
  <2> QED BY <1>1, <1>3, <1>4, <2>3
<1>5. 0 \in S
  <2>1. j + 0 = j /\ rank[at(j)] \in Nat
    BY <1>1, <1>2, <1>3
  <2> QED BY <1>2, <2>1
<1>6. ASSUME NEW k \in S PROVE k + 1 \in S
  <2> SUFFICES ASSUME j + (k + 1) <= n
               PROVE  M[at(j + (k + 1))] # 0 /\ rank[at(j + (k + 1))] <= rank[at(j)]
    OBVIOUS
  <2>1. /\ j + k \in 1 .. n /\ j + k < n /\ j + (k + 1) = (j + k) + 1
        /\ j + (k + 1) \in 1 .. n
    BY <1>1
  <2>2. M[at(j + k)] # 0 /\ rank[at(j + k)] <= rank[at(j)]
    BY <2>1
  <2>3. /\ Len(frames[j + k].parts) < Len(Kids(j + k))
        /\ at(j + (k + 1)) = Kids(j + k)[Len(frames[j + k].parts) + 1]
    BY <1>1, <2>1 DEF MeansInv, FramesFollow, Follow
  <2>4. M[at(j + (k + 1))] # 0 /\ rank[at(j + (k + 1))] < rank[at(j + k)]
    BY <1>4, <2>1, <2>2, <2>3
  <2>5. rank[at(j + (k + 1))] \in Nat /\ rank[at(j + k)] \in Nat /\ rank[at(j)] \in Nat
    BY <1>1, <1>3, <2>1
  <2> QED BY <2>2, <2>4, <2>5
<1>7. Nat \subseteq S
  <2> HIDE DEF S
  <2> QED BY <1>5, <1>6, NaturalsInSet
<1>8. M[at(n)] # 0 /\ rank[at(n)] <= rank[at(j)]
  <2>1. n - j \in Nat /\ j + (n - j) = n
    BY <1>1
  <2>2. n - j \in S
    BY <1>7, <2>1
  <2> QED BY <1>1, <2>1, <2>2
<1>9. n \in 1 .. n /\ frames # <<>>
  BY <1>1, <1>2
<1>10. Len(frames[n].parts) < Len(Kids(n)) /\ asked = Kids(n)[Len(frames[n].parts) + 1]
  BY <1>9 DEF MeansInv, Answered, Awaited, Awaits, ResolveCycle
<1>11. rank[asked] < rank[at(n)]
  BY <1>4, <1>8, <1>9, <1>10
<1>12. rank[asked] \in Nat /\ rank[at(n)] \in Nat
  BY <1>1, <1>2, <1>3, <1>9
<1> HIDE DEF S
<1> QED BY <1>2, <1>8, <1>11, <1>12

\* A step that keeps the table and the stack.
LEMMA KeepsStack ==
  ASSUME NEW M, MeansInv(M), UNCHANGED <<nodes, ids, dataTypes, frames>>,
         frames # <<>> => UNCHANGED request
  PROVE  /\ LaidOut' /\ WidthsMeant(M)' /\ FramesFollow'
         /\ \A a : frames # <<>> /\ Awaited(a) => Awaited(a)'
<1>1. LaidOut' /\ WidthsMeant(M)'
  BY DEF MeansInv, LaidOut, WidthsMeant
<1>2. FramesFollow'
  <2>1. CASE frames # <<>>
    BY <2>1 DEF MeansInv, FramesFollow
  <2>2. CASE frames = <<>>
    <3>1. DOMAIN frames' = {}
      BY <2>2
    <3> QED BY <3>1 DEF FramesFollow, Follow
  <2> QED BY <2>1, <2>2
<1>3. \A a : frames # <<>> /\ Awaited(a) => Awaited(a)'
  BY DEF Awaited
<1> QED BY <1>1, <1>2, <1>3

\* An answer from the table or an error, without a call.
LEMMA AnswersAtOnce ==
  ASSUME Inv, NEW M, IsMeaning(nodes, M), MeansInv(M), UNCHANGED <<nodes, request>>,
         ResolveKnown \/ ResolveCycle \/ ResolveMissing
  PROVE  MeansInv(M)'
<1>1. /\ UNCHANGED <<nodes, ids, dataTypes, frames, request>> /\ asked' = NoAddress
      /\ asked # NoAddress
  <2>1. NoAddress \notin DOMAIN ids
    BY AddressesPositive DEF MeansInv, WidthsMeant, Inv
  <2> QED BY <2>1 DEF ResolveKnown, ResolveCycle, ResolveMissing, Return
<1>2. /\ LaidOut' /\ WidthsMeant(M)' /\ FramesFollow'
  BY <1>1, KeepsStack
<1>3. Awaited(asked) /\ \A a : Awaited(a)' = Awaited(a)
  BY <1>1 DEF MeansInv, Answered, Awaited
<1>4. CASE ResolveKnown
  <2>1. answer' = [state |-> "ok", id |-> ids[asked]] /\ asked \in DOMAIN ids
    BY <1>4 DEF ResolveKnown, Return, Ok
  <2>2. Answered(M)'
    BY <1>1, <1>3, <2>1 DEF Answered
  <2> QED BY <1>2, <2>2 DEF MeansInv
<1>5. CASE ResolveCycle \/ ResolveMissing
  <2>1. answer' = Err
    BY <1>5 DEF ResolveCycle, ResolveMissing, Return
  <2>2. Known(M, asked) = 0
    <3>1. CASE ResolveCycle
      BY <3>1, CycleMeansNone
    <3>2. CASE ResolveMissing
      BY <3>2 DEF ResolveMissing, Known, IsMeaning
    <3> QED BY <1>5, <3>1, <3>2
  <2>3. Answered(M)'
    BY <1>1, <1>3, <2>1, <2>2 DEF Answered, Err
  <2> QED BY <1>2, <2>3 DEF MeansInv
<1> QED BY <1>4, <1>5

LEMMA EnterMeans ==
  ASSUME Inv, NEW M, MeansInv(M), UNCHANGED <<nodes, request>>, ResolveEnter
  PROVE  MeansInv(M)'
<1> DEFINE n == Len(frames)
           new == [address |-> asked, parts |-> <<>>]
<1>1. /\ UNCHANGED <<nodes, ids, dataTypes, request>> /\ asked' = NoAddress
      /\ asked # NoAddress /\ asked \in DOMAIN nodes /\ answer'.state = "pending"
      /\ frames' = Append(frames, new)
  BY DEF ResolveEnter, Return, Pending
<1>2. LaidOut' /\ WidthsMeant(M)'
  BY <1>1 DEF MeansInv, LaidOut, WidthsMeant
<1>3. frames \in Seq(Frame) /\ n \in Nat /\ DOMAIN frames = 1 .. n
  BY StackFacts
<1>4. /\ Len(frames') = n + 1 /\ DOMAIN frames' = 1 .. n + 1
      /\ \A i \in 1 .. n : frames'[i] = frames[i]
      /\ frames'[n + 1] = new
  <2> HIDE DEF new
  <2> QED BY <1>1, <1>3, PushOnStack
<1>5. Awaited(asked)
  BY <1>1 DEF MeansInv, Answered
<1>6. Follow(nodes, ids, frames, request)
  BY DEF MeansInv, FramesFollow
<1>7. Len(Children(nodes, asked)) \in Nat /\ Len(<<>>) = 0 /\ DOMAIN <<>> = {}
  BY <1>1, ChildrenType DEF Inv
<1> HIDE DEF n
<1>8. Follow(nodes, ids, frames', request)
  <2> SUFFICES ASSUME NEW k \in 1 .. n + 1
      PROVE LET kids  == Children(nodes, frames'[k].address)
                parts == frames'[k].parts
            IN  /\ Len(parts) <= Len(kids)
                /\ \A i \in DOMAIN parts : kids[i] \in DOMAIN ids /\ parts[i] = ids[kids[i]]
                /\ k < n + 1 =>
                     Len(parts) < Len(kids) /\ frames'[k + 1].address = kids[Len(parts) + 1]
                /\ k = 1 => frames'[k].address = request
    BY <1>4 DEF Follow
  <2>1. CASE k \in 1 .. n - 1
    <3>1. k + 1 \in 1 .. n /\ k \in 1 .. n /\ k < n
      BY <1>3, <2>1
    <3>2. /\ frames'[k] = frames[k] /\ frames'[k + 1] = frames[k + 1] /\ n = Len(frames)
      BY <1>4, <3>1 DEF n
    <3> DEFINE kids == Children(nodes, frames[k].address)
               parts == frames[k].parts
    <3>3. /\ Len(parts) <= Len(kids)
          /\ \A i \in DOMAIN parts : kids[i] \in DOMAIN ids /\ parts[i] = ids[kids[i]]
          /\ k < n => Len(parts) < Len(kids) /\ frames[k + 1].address = kids[Len(parts) + 1]
          /\ k = 1 => frames[k].address = request
      BY <1>3, <1>6, <3>1, <3>2 DEF Follow
    <3> HIDE DEF kids, parts
    <3>4. kids = Children(nodes, frames'[k].address) /\ parts = frames'[k].parts
      BY <3>2 DEF kids, parts
    <3> QED BY <3>1, <3>2, <3>3, <3>4
  <2>2. CASE k = n
    <3>1. n \in 1 .. n /\ frames # <<>> /\ frames'[k] = frames[n] /\ frames'[k + 1].address = asked
      BY <1>3, <1>4, <2>2
    <3>2. /\ Len(frames[n].parts) < Len(Children(nodes, frames[n].address))
          /\ asked = Children(nodes, frames[n].address)[Len(frames[n].parts) + 1]
      BY <1>5, <3>1 DEF Awaited, Awaits, n
    <3> QED BY <1>3, <1>6, <2>2, <3>1, <3>2 DEF Follow
  <2>3. CASE k = n + 1
    <3>1. frames'[k].address = asked /\ frames'[k].parts = <<>>
      BY <1>4, <2>3
    <3>2. k = 1 => asked = request
      <4>1. k = 1 => frames = <<>>
        BY <1>3, <2>3 DEF n
      <4> QED BY <1>5, <4>1 DEF Awaited, Awaits
    <3>3. ~ (k < n + 1)
      BY <1>3, <2>3
    <3> QED BY <1>7, <3>1, <3>2, <3>3
  <2> QED BY <1>3, <2>1, <2>2, <2>3
<1>9. FramesFollow'
  BY <1>1, <1>8 DEF FramesFollow
<1>10. Answered(M)'
  <2>1. frames' # <<>>
    BY <1>3, <1>4
  <2> QED BY <1>1, <2>1 DEF Answered, Idle
<1> QED BY <1>2, <1>9, <1>10 DEF MeansInv

LEMMA DescendMeans ==
  ASSUME Inv, NEW M, MeansInv(M), UNCHANGED <<nodes, request>>, Descend
  PROVE  MeansInv(M)'
<1>1. /\ UNCHANGED <<nodes, ids, dataTypes, frames, request, answer>>
      /\ frames # <<>> /\ answer.state = "pending"
      /\ Len(Top.parts) < Len(Children(nodes, Top.address))
      /\ asked' = Children(nodes, Top.address)[Len(Top.parts) + 1]
  BY DEF Descend, Inside
<1>2. LaidOut' /\ WidthsMeant(M)' /\ FramesFollow'
  BY <1>1, KeepsStack
<1>3. Awaits(nodes, frames, request, asked')
  BY <1>1 DEF Awaits, Top, Last
<1>4. Answered(M)'
  BY <1>1, <1>3 DEF Answered, Idle, Awaited
<1> QED BY <1>2, <1>4 DEF MeansInv

LEMMA ReceiveMeans ==
  ASSUME Inv, NEW M, MeansInv(M), UNCHANGED <<nodes, request>>, Receive
  PROVE  MeansInv(M)'
<1> DEFINE n == Len(frames)
           new == [frames[n] EXCEPT !.parts = Append(@, answer.id)]
           kids == Children(nodes, frames[n].address)
<1>1. /\ UNCHANGED <<nodes, ids, dataTypes, request>> /\ asked' = NoAddress
      /\ asked = NoAddress /\ frames # <<>> /\ answer.state = "ok" /\ answer'.state = "pending"
      /\ frames' = [frames EXCEPT ![n] = new]
  BY DEF Receive, Pending, Inside
<1>2. LaidOut' /\ WidthsMeant(M)'
  BY <1>1 DEF MeansInv, LaidOut, WidthsMeant
<1>3. /\ frames \in Seq(Frame) /\ n \in Nat \ {0} /\ DOMAIN frames = 1 .. n
      /\ frames[n] \in Frame /\ frames[n].parts \in Seq(Nat)
  BY <1>1, StackFacts
<1>4. PICK a \in DOMAIN ids : Awaited(a) /\ answer.id = ids[a]
  BY <1>1 DEF MeansInv, Answered
<1>5. Len(frames[n].parts) < Len(kids) /\ a = kids[Len(frames[n].parts) + 1]
  BY <1>1, <1>4 DEF Awaited, Awaits
<1>6. /\ new.address = frames[n].address
      /\ new.parts = Append(frames[n].parts, answer.id)
  BY <1>3 DEF Frame
<1>7. /\ Len(new.parts) = Len(frames[n].parts) + 1
      /\ DOMAIN new.parts = 1 .. Len(frames[n].parts) + 1
      /\ \A i \in 1 .. Len(frames[n].parts) : new.parts[i] = frames[n].parts[i]
      /\ new.parts[Len(frames[n].parts) + 1] = answer.id
  BY <1>3, <1>6, PushOnStack
<1> HIDE DEF new
<1>8. /\ DOMAIN frames' = 1 .. n /\ Len(frames') = n
      /\ \A i \in 1 .. n : frames'[i] = IF i = n THEN new ELSE frames[i]
  BY <1>1, <1>3
<1>9. Follow(nodes, ids, frames, request)
  BY DEF MeansInv, FramesFollow
<1>n. n = Len(frames)
  OBVIOUS
<1> HIDE DEF n
<1>10. /\ Len(frames[n].parts) \in Nat /\ Len(kids) \in Nat
       /\ DOMAIN frames[n].parts = 1 .. Len(frames[n].parts)
  <2>1. frames[n].address \in DOMAIN nodes
    BY <1>3, StackFacts
  <2>2. Len(kids) \in Nat
    BY <2>1, ChildrenType DEF Inv
  <2> QED BY <1>3, <2>2
<1>11. Follow(nodes, ids, frames', request)
  <2> SUFFICES ASSUME NEW k \in 1 .. n
      PROVE LET kid  == Children(nodes, frames'[k].address)
                parts == frames'[k].parts
            IN  /\ Len(parts) <= Len(kid)
                /\ \A i \in DOMAIN parts : kid[i] \in DOMAIN ids /\ parts[i] = ids[kid[i]]
                /\ k < n =>
                     Len(parts) < Len(kid) /\ frames'[k + 1].address = kid[Len(parts) + 1]
                /\ k = 1 => frames'[k].address = request
    BY <1>8 DEF Follow
  <2>0. n \in 1 .. n /\ frames'[n].address = frames[n].address
    BY <1>3, <1>6, <1>8
  <2>1. CASE k \in 1 .. n - 1
    <3>1. k + 1 \in 1 .. n /\ k < n /\ frames'[k] = frames[k]
      BY <1>3, <1>8, <2>1
    <3>2. frames'[k + 1].address = frames[k + 1].address
      BY <1>6, <1>8, <3>1
    <3> DEFINE kid == Children(nodes, frames[k].address)
               parts == frames[k].parts
    <3>3. /\ Len(parts) <= Len(kid)
          /\ \A i \in DOMAIN parts : kid[i] \in DOMAIN ids /\ parts[i] = ids[kid[i]]
          /\ k < n => Len(parts) < Len(kid) /\ frames[k + 1].address = kid[Len(parts) + 1]
          /\ k = 1 => frames[k].address = request
      BY <1>3, <1>9, <1>n, <3>1 DEF Follow
    <3> HIDE DEF kid, parts
    <3>4. kid = Children(nodes, frames'[k].address) /\ parts = frames'[k].parts
      BY <3>1 DEF kid, parts
    <3> QED BY <3>1, <3>2, <3>3, <3>4
  <2>2. CASE k = n
    <3>1. frames'[k] = new /\ ~ (k < n)
      BY <1>3, <1>8, <2>2
    <3>2. \A i \in 1 .. Len(frames[n].parts) :
            kids[i] \in DOMAIN ids /\ frames[n].parts[i] = ids[kids[i]]
      BY <1>3, <1>9, <1>10 DEF Follow
    <3>3. \A i \in DOMAIN new.parts : kids[i] \in DOMAIN ids /\ new.parts[i] = ids[kids[i]]
      <4> SUFFICES ASSUME NEW i \in 1 .. Len(frames[n].parts) + 1
                   PROVE  kids[i] \in DOMAIN ids /\ new.parts[i] = ids[kids[i]]
        BY <1>7
      <4>1. CASE i \in 1 .. Len(frames[n].parts)
        BY <1>7, <3>2, <4>1
      <4>2. CASE i = Len(frames[n].parts) + 1
        BY <1>4, <1>5, <1>7, <4>2
      <4> QED BY <1>10, <4>1, <4>2
    <3>4. k = 1 => frames[n].address = request
      BY <1>3, <1>9, <2>2 DEF Follow
    <3>5. Len(new.parts) <= Len(kids)
      BY <1>5, <1>7, <1>10
    <3> QED BY <1>6, <3>1, <3>3, <3>4, <3>5
  <2> QED BY <1>3, <2>1, <2>2
<1>12. FramesFollow'
  BY <1>1, <1>11 DEF FramesFollow
<1>13. Answered(M)'
  <2>1. frames' # <<>>
    BY <1>3, <1>8
  <2> QED BY <1>1, <2>1 DEF Answered, Idle
<1> QED BY <1>2, <1>12, <1>13 DEF MeansInv

\* What is left when a call returns awaits that call's address.
LEMMA PopAwaits ==
  ASSUME Inv, NEW M, MeansInv(M), frames # <<>>
  PROVE  /\ Follow(nodes, ids, Front(frames), request)
         /\ Awaits(nodes, Front(frames), request, Top.address)
         /\ \A k \in DOMAIN Front(frames) : Front(frames)[k] = frames[k]
<1> DEFINE n == Len(frames)
           below == Front(frames)
<1>1. /\ frames \in Seq(Frame) /\ n \in Nat \ {0} /\ DOMAIN frames = 1 .. n
      /\ Top = frames[n]
  BY StackFacts DEF Top, Last
<1>2. /\ below \in Seq(Frame) /\ Len(below) = n - 1 /\ DOMAIN below = 1 .. n - 1
      /\ \A i \in 1 .. n - 1 : below[i] = frames[i]
  BY <1>1, FrontOfStack
<1>3. Follow(nodes, ids, frames, request)
  BY DEF MeansInv, FramesFollow
<1>4. n = Len(frames)
  OBVIOUS
<1> HIDE DEF n, below
<1>5. Follow(nodes, ids, below, request)
  <2> SUFFICES ASSUME NEW k \in 1 .. n - 1
      PROVE LET kids  == Children(nodes, below[k].address)
                parts == below[k].parts
            IN  /\ Len(parts) <= Len(kids)
                /\ \A i \in DOMAIN parts : kids[i] \in DOMAIN ids /\ parts[i] = ids[kids[i]]
                /\ k < n - 1 =>
                     Len(parts) < Len(kids) /\ below[k + 1].address = kids[Len(parts) + 1]
                /\ k = 1 => below[k].address = request
    BY <1>2 DEF Follow
  <2>1. /\ k \in 1 .. n /\ below[k] = frames[k] /\ k < n
        /\ k < n - 1 => k + 1 \in 1 .. n - 1 /\ below[k + 1] = frames[k + 1]
    BY <1>1, <1>2
  <2> DEFINE kids == Children(nodes, frames[k].address)
             parts == frames[k].parts
  <2>2. /\ Len(parts) <= Len(kids)
        /\ \A i \in DOMAIN parts : kids[i] \in DOMAIN ids /\ parts[i] = ids[kids[i]]
        /\ k < n => Len(parts) < Len(kids) /\ frames[k + 1].address = kids[Len(parts) + 1]
        /\ k = 1 => frames[k].address = request
    BY <1>1, <1>3, <1>4, <2>1 DEF Follow
  <2> HIDE DEF kids, parts
  <2>3. kids = Children(nodes, below[k].address) /\ parts = below[k].parts
    BY <2>1 DEF kids, parts
  <2> QED BY <2>1, <2>2, <2>3
<1>6. Awaits(nodes, below, request, Top.address)
  <2>1. CASE n = 1
    <3>1. below = <<>>
      BY <1>2, <2>1, EmptySeq
    <3>2. Top.address = request
      BY <1>1, <1>3, <2>1 DEF Follow
    <3> QED BY <3>1, <3>2 DEF Awaits
  <2>2. CASE n # 1
    <3>1. n - 1 \in 1 .. n - 1 /\ n - 1 \in 1 .. n /\ n - 1 < n /\ (n - 1) + 1 = n
      BY <1>1, <2>2
    <3>2. below # <<>> /\ below[n - 1] = frames[n - 1]
      BY <1>2, <3>1
    <3>3. /\ Len(frames[n - 1].parts) < Len(Children(nodes, frames[n - 1].address))
          /\ frames[n].address
               = Children(nodes, frames[n - 1].address)[Len(frames[n - 1].parts) + 1]
      BY <1>1, <1>3, <1>4, <3>1 DEF Follow
    <3> QED BY <1>1, <1>2, <3>2, <3>3 DEF Awaits
  <2> QED BY <2>1, <2>2
<1> QED BY <1>2, <1>5, <1>6 DEF below

LEMMA FailMeans ==
  ASSUME Inv, NEW M, IsMeaning(nodes, M), MeansInv(M), UNCHANGED <<nodes, request>>, Fail
  PROVE  MeansInv(M)'
<1>1. /\ UNCHANGED <<nodes, ids, dataTypes, request>> /\ frames # <<>>
      /\ frames' = Front(frames) /\ asked' = NoAddress /\ answer' = Err
  BY DEF Fail, Inside, Return
<1>2. LaidOut' /\ WidthsMeant(M)'
  BY <1>1 DEF MeansInv, LaidOut, WidthsMeant
<1>3. FramesFollow'
  BY <1>1, PopAwaits DEF FramesFollow
<1>4. Known(M, Top.address) = 0
  BY RefusedMeansNone DEF Known
<1>5. Awaits(nodes', frames', request', Top.address)
  BY <1>1, PopAwaits
<1>6. Answered(M)'
  BY <1>1, <1>4, <1>5 DEF Answered, Awaited, Err, Idle
<1> QED BY <1>2, <1>3, <1>6 DEF MeansInv

LEMMA FinishMeans ==
  ASSUME Inv, NEW M, IsMeaning(nodes, M), MeansInv(M), UNCHANGED <<nodes, request>>, Finish
  PROVE  MeansInv(M)'
<1> DEFINE n == Len(dataTypes)
           a == Top.address
           type == DataType(nodes, a, Top.parts, WidthsOf(Top.parts))
<1>1. /\ n \in Nat /\ DOMAIN dataTypes = 1 .. n
      /\ \A i \in 1 .. n : dataTypes'[i] = dataTypes[i]
      /\ dataTypes'[n + 1] = type
      /\ a \notin DOMAIN ids
      /\ DOMAIN ids' = DOMAIN ids \cup {a}
      /\ \A b \in DOMAIN ids : ids'[b] = ids[b]
      /\ ids'[a] = n + 1
      /\ frames # <<>> /\ frames' = Front(frames)
      /\ answer' = [state |-> "ok", id |-> n + 1] /\ asked' = NoAddress
  BY FinishFacts
<1>2. a \in DOMAIN nodes /\ M[a] = type.width /\ M[a] # 0
  BY FinishedMeansWidth DEF DataType
<1> HIDE DEF n, type
<1>3. LaidOut'
  BY FinishLaidOut DEF MeansInv
<1>4. WidthsMeant(M)'
  <2> SUFFICES ASSUME NEW b \in DOMAIN ids'
               PROVE  b \in DOMAIN nodes' /\ M[b] = dataTypes'[ids'[b]].width /\ M[b] # 0
    BY DEF WidthsMeant
  <2>1. CASE b = a
    BY <1>1, <1>2, <2>1
  <2>2. CASE b \in DOMAIN ids
    <3>1. ids[b] \in 1 .. n
      BY <1>1, <2>2 DEF Inv, PartsComeFirst
    <3> QED BY <1>1, <2>2, <3>1 DEF MeansInv, WidthsMeant
  <2> QED BY <1>1, <2>1, <2>2
<1>5. Follow(nodes', ids', frames', request')
  <2>1. Follow(nodes, ids, frames', request)
    BY <1>1, PopAwaits
  <2>2. \A c \in DOMAIN ids : c \in DOMAIN ids' /\ ids'[c] = ids[c]
    BY <1>1
  <2> QED BY <2>1, <2>2 DEF Follow
<1>6. Awaits(nodes', frames', request', a)
  BY <1>1, PopAwaits
<1>7. Answered(M)'
  BY <1>1, <1>6 DEF Answered, Awaited, Idle
<1> QED BY <1>3, <1>4, <1>5, <1>7 DEF MeansInv, FramesFollow

\* The caller asks when nothing is under way.
LEMMA AskMeans ==
  ASSUME NEW M, MeansInv(M), Idle, NEW a, Ask(a)
  PROVE  MeansInv(M)'
<1>1. /\ UNCHANGED <<nodes, ids, dataTypes, frames>> /\ frames = <<>>
      /\ asked' = a /\ request' = a /\ answer'.state = "pending"
  BY DEF Ask, Idle, Pending
<1>2. LaidOut' /\ WidthsMeant(M)' /\ FramesFollow'
  BY <1>1, KeepsStack
<1>3. Awaits(nodes', frames', request', a)
  BY <1>1 DEF Awaits
<1>4. Answered(M)'
  BY <1>1, <1>3 DEF Answered, Awaited, Idle
<1> QED BY <1>2, <1>4 DEF MeansInv

LEMMA NextMeans ==
  ASSUME Inv, NEW M, IsMeaning(nodes, M), MeansInv(M), [Next]_resolverVars
  PROVE  MeansInv(M)'
<1>1. CASE UNCHANGED resolverVars
  <2>1. LaidOut' /\ WidthsMeant(M)' /\ FramesFollow'
    BY <1>1, KeepsStack DEF resolverVars
  <2>2. Answered(M)'
    BY <1>1 DEF MeansInv, Answered, Awaited, Idle, resolverVars
  <2> QED BY <2>1, <2>2 DEF MeansInv
<1>2. CASE Resolve
  <2>0. UNCHANGED <<nodes, request>>
    BY <1>2 DEF Resolve
  <2>1. CASE ResolveKnown \/ ResolveCycle \/ ResolveMissing
    BY <2>0, <2>1, AnswersAtOnce
  <2>2. CASE ResolveEnter
    BY <2>0, <2>2, EnterMeans
  <2>3. CASE Descend
    BY <2>0, <2>3, DescendMeans
  <2>4. CASE Receive
    BY <2>0, <2>4, ReceiveMeans
  <2>5. CASE Fail
    BY <2>0, <2>5, FailMeans
  <2>6. CASE Finish
    BY <2>0, <2>6, FinishMeans
  <2> QED BY <1>2, <2>1, <2>2, <2>3, <2>4, <2>5, <2>6 DEF Resolve
<1>3. CASE TryDeclaration
  BY <1>3, AskMeans DEF TryDeclaration
<1>4. ASSUME NEW a \in Wanted, RequestType(a) PROVE MeansInv(M)'
  BY <1>4, AskMeans DEF RequestType
<1> QED BY <1>1, <1>2, <1>3, <1>4 DEF Next

AnswersInv == Inv /\ IsFiniteSet(DOMAIN nodes) /\ MeansInv(Meaning(nodes))

\* In every finite document resolve gives a type exactly when the address means
\* one, with the width it means: the order of the requests, and the errors
\* dropped while the declarations were tried, have no influence.
THEOREM AnswersAreMeaningCorrect ==
  (\A document \in Documents : IsFiniteSet(DOMAIN document)) => (Spec => []AnswersAreMeaning)
<1> SUFFICES ASSUME \A document \in Documents : IsFiniteSet(DOMAIN document)
             PROVE  Spec => []AnswersAreMeaning
  OBVIOUS
<1>1. Init => AnswersInv
  <2> SUFFICES ASSUME Init PROVE AnswersInv
    OBVIOUS
  <2>1. Inv /\ IsFiniteSet(DOMAIN nodes)
    BY InitInv DEF Init
  <2>2. /\ frames = <<>> /\ asked = NoAddress /\ answer.state = "pending" /\ request = NoAddress
        /\ DOMAIN ids = {} /\ DOMAIN dataTypes = {} /\ DOMAIN frames = {}
    BY DEF Init, Pending
  <2> DEFINE M == Meaning(nodes)
  <2>3. LaidOut /\ WidthsMeant(M) /\ FramesFollow
    BY <2>2 DEF LaidOut, TableLaidOut, WidthsMeant, FramesFollow, Follow
  <2>4. Answered(M)
    BY <2>2 DEF Answered, Idle
  <2> QED BY <2>1, <2>3, <2>4 DEF AnswersInv, MeansInv
<1>2. AnswersInv /\ [Next]_resolverVars => AnswersInv'
  <2> SUFFICES ASSUME AnswersInv, [Next]_resolverVars PROVE AnswersInv'
    OBVIOUS
  <2>1. Inv' /\ UNCHANGED nodes
    BY NextInv DEF AnswersInv, Next, resolverVars, Resolve, TryDeclaration, RequestType, Ask
  <2>2. PICK M : M = Meaning(nodes)
    OBVIOUS
  <2>3. IsMeaning(nodes, M)
    BY <2>2, MeaningFacts DEF AnswersInv, Inv
  <2>4. MeansInv(M)'
    BY <2>2, <2>3, NextMeans DEF AnswersInv
  <2>5. M = Meaning(nodes')
    BY <2>1, <2>2
  <2> QED BY <2>1, <2>4, <2>5 DEF AnswersInv
<1>3. AnswersInv => AnswersAreMeaning
  <2> SUFFICES ASSUME AnswersInv, Idle, request # NoAddress
               PROVE  IF request \in DOMAIN nodes /\ Meaning(nodes)[request] > 0
                        THEN /\ answer.state = "ok"
                             /\ request \in DOMAIN ids /\ ids[request] = answer.id
                             /\ answer.id \in DOMAIN dataTypes
                             /\ dataTypes[answer.id].width = Meaning(nodes)[request]
                        ELSE answer = Err
    BY DEF AnswersAreMeaning
  <2> DEFINE M == Meaning(nodes)
  <2>1. /\ nodes \in Documents /\ IsFiniteSet(DOMAIN nodes)
        /\ WidthsMeant(M) /\ Answered(M)
    BY DEF AnswersInv, Inv, MeansInv
  <2>2. M \in [DOMAIN nodes -> Nat]
    BY <2>1, MeaningFacts DEF IsMeaning
  <2>3. answer.state \in {"pending", "error", "ok"}
    BY DEF AnswersInv, Inv, TypeOK
  <2> HIDE DEF M
  <2>4. frames = <<>> /\ asked = NoAddress /\ \A a : Awaited(a) => a = request
    BY DEF Idle, Awaited, Awaits
  <2>5. CASE answer.state = "ok"
    <3>1. request \in DOMAIN ids /\ answer.id = ids[request]
      BY <2>1, <2>4, <2>5 DEF Answered
    <3>2. /\ request \in DOMAIN nodes /\ M[request] = dataTypes[ids[request]].width
          /\ M[request] # 0
      BY <2>1, <3>1 DEF WidthsMeant
    <3>3. ids[request] \in DOMAIN dataTypes
      BY <3>1 DEF AnswersInv, Inv, PartsComeFirst
    <3>4. M[request] > 0
      BY <2>2, <3>2
    <3> QED BY <2>5, <3>1, <3>2, <3>3, <3>4 DEF M
  <2>6. CASE answer.state = "error"
    <3>1. answer = Err /\ Known(M, request) = 0
      BY <2>1, <2>4, <2>6 DEF Answered
    <3>2. ~ (request \in DOMAIN nodes /\ M[request] > 0)
      BY <2>2, <3>1 DEF Known
    <3> QED BY <3>1, <3>2 DEF M
  <2>7. answer.state # "pending"
    BY <2>1 DEF Answered
  <2> QED BY <2>3, <2>5, <2>6, <2>7
<1> QED BY <1>1, <1>2, <1>3, PTL DEF Spec

=============================================================================
