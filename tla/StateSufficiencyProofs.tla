---------------------- MODULE StateSufficiencyProofs ----------------------
(***************************************************************************)
(* Proof that the registers are enough, for every set of well-formed       *)
(* designs.  What is hidden from Model::state is what the clocked          *)
(* statements leave in their blocking temporaries (Temporaries).  The      *)
(* analysis keeps those inside their statement, so that where the logic    *)
(* settles (SettledAgree), what an edge keeps (EdgesAgree) and what an     *)
(* evaluation shows (EvaluationsAgree) follow from the rest; the two       *)
(* models of StateSufficiency are then related, step by step (Joint).      *)
(***************************************************************************)
EXTENDS StateSufficiency, DesignProofs

-----------------------------------------------------------------------------
(* The combinational statements. *)

\* What the combinational statements write.
Driven(d) == AllWrites(d, d.combinational)

\* The order is of the combinational statements, and all lists are of top statements.
LEMMA CombinationalTops ==
  ASSUME NEW d, WellFormed(d)
  PROVE  /\ Tops(d, OrderCombinational(d).statements)
         /\ ToIds(OrderCombinational(d).statements) = ToIds(d.combinational)
         /\ Tops(d, d.combinational) /\ Tops(d, d.sequential)
         /\ Driven(d) \subseteq Variables(d)
<1>1. Tops(d, d.combinational) /\ Tops(d, d.sequential)
  BY DEF WellFormed, Tops
<1>2. OrderCombinational(d).statements \in Seq(Statements(d))
      /\ ToIds(OrderCombinational(d).statements) = ToIds(d.combinational)
  BY OrderFacts
<1>3. Driven(d) \subseteq Variables(d)
  <2>1. \A n : StatementWrites(d, n) \subseteq Variables(d)
    BY WritesDeclared
  <2> QED BY <2>1 DEF Driven, AllWrites
<1> QED BY <1>1, <1>2, <1>3 DEF Tops

\* Statements in the order that needs one pass depend on what is known.
LEMMA PassAgrees ==
  ASSUME NEW d, WellFormed(d), LatchFree(d), ~ OrderCombinational(d).fixedPoint,
         NEW P \in SUBSET Variables(d),
         \A n \in ToIds(d.combinational) : LiveIn(d, n) \subseteq P \cup Driven(d),
         NEW ids, ids = OrderCombinational(d).statements,
         NEW env \in Stores(d), NEW pending \in Stores(d),
         NEW other \in Stores(d), NEW results \in Stores(d), Agree(d, P, env, other),
         NEW t, Finishes(d, ids, env, pending, t), NEW u, Finishes(d, ids, other, results, u)
  PROVE  Agree(d, P \cup Driven(d), t.env, u.env)
<1> DEFINE N == Len(ids)
           V == Variables(d)
           R == [k \in 0 .. N |-> P \cup WritesUpTo(d, ids, k)]
<1>1. /\ Tops(d, ids) /\ ToIds(ids) = ToIds(d.combinational) /\ Driven(d) \subseteq V
      /\ \A k \in 1 .. N :
           StatementReads(d, ids[k]) \subseteq Known(d) \cup WritesUpTo(d, ids, k - 1)
  BY CombinationalTops, OrderFacts
<1>2. /\ N \in Nat /\ DOMAIN ids = 1 .. N
      /\ \A k \in 1 .. N :
           ids[k] \in Statements(d) /\ ids[k] \in ToIds(d.combinational) /\ d.root[ids[k]] = ids[k]
  BY <1>1, TopsFacts
<1>3. \A n : StatementWrites(d, n) \subseteq V
  BY WritesDeclared
<1>4. R \in [0 .. N -> SUBSET V]
  BY <1>3 DEF WritesUpTo
<1>5. R[0] = P /\ R[N] = P \cup Driven(d)
  <2>1. WritesUpTo(d, ids, 0) = {}
    BY DEF WritesUpTo
  <2>2. WritesUpTo(d, ids, N) = Driven(d)
    <3>1. ToIds(ids) = {ids[k] : k \in 1 .. N}
      BY <1>2 DEF ToIds
    <3> QED BY <1>1, <3>1 DEF WritesUpTo, Driven, AllWrites
  <2> QED BY <1>2, <2>1, <2>2
<1>6. ASSUME NEW k \in 1 .. N
      PROVE  Carried(d, ids[k], R[k - 1], R[k])
  <2> DEFINE n == ids[k]
  <2>1. /\ k - 1 \in 0 .. N /\ k \in 0 .. N
        /\ n \in Statements(d) /\ n \in ToIds(d.combinational) /\ d.root[n] = n
    BY <1>2
  <2>2. WritesUpTo(d, ids, k) = WritesUpTo(d, ids, k - 1) \cup StatementWrites(d, n)
    <3>1. 1 .. k = (1 .. k - 1) \cup {k}
      BY <1>2
    <3> QED BY <3>1 DEF WritesUpTo
  <2>3. StatementReads(d, n) \subseteq Known(d) \cup WritesUpTo(d, ids, k - 1)
    BY <1>1
  <2> HIDE DEF n
  <2>4. LiveIn(d, n) \subseteq StatementReads(d, n)
    <3>1. {} \in SUBSET V
      OBVIOUS
    <3>2. Flow(d)[n][{}].liveIn \subseteq StatementReads(d, d.root[n])
      BY <2>1, <3>1, FlowBounds
    <3> QED BY <2>1, <3>2 DEF LiveIn
  <2>5. LiveIn(d, n) \subseteq P \cup WritesUpTo(d, ids, k - 1)
    <3>1. Known(d) \cap Driven(d) = {}
      BY DEF Known, Driven
    <3>2. LiveIn(d, n) \subseteq P \cup Driven(d)
      BY <2>1
    <3> QED BY <2>3, <2>4, <3>1, <3>2
  <2>6. StatementWrites(d, n) \subseteq Flow(d)[n][{}].assigned
    BY <2>1 DEF LatchFree
  <2>7. R[k - 1] = P \cup WritesUpTo(d, ids, k - 1) /\ R[k] = P \cup WritesUpTo(d, ids, k)
    BY <2>1
  <2> QED BY <2>2, <2>5, <2>6, <2>7 DEF Carried, n
<1> HIDE DEF R
<1>7. /\ R \in [0 .. Len(ids) -> SUBSET V] /\ R[0] = P /\ R[Len(ids)] = P \cup Driven(d)
      /\ \A k \in 1 .. Len(ids) :
           Carried(d, ids[k], R[k - 1], R[k]) \/ Spared(d, ids[k], R[k - 1], R[k])
  BY <1>4, <1>5, <1>6
<1>8. Agree(d, R[0], env, other)
  BY <1>7
<1>9. Agree(d, R[Len(ids)], t.env, u.env)
  BY <1>1, <1>7, <1>8, ListAgrees
<1> QED BY <1>7, <1>9

\* The variables of the first ranks.
Ranked(d, P, rank, k) ==
  P \cup {v \in Driven(d) : \A m \in ToIds(d.combinational) :
                              v \in StatementWrites(d, m) => rank[m] < k}

\* The same of statements that were iterated until nothing changed.
LEMMA FixedPointAgrees ==
  ASSUME NEW d, WellFormed(d), LatchFree(d), CycleFree(d),
         NEW P \in SUBSET Variables(d), P \cap Driven(d) = {},
         \A n \in ToIds(d.combinational) : LiveIn(d, n) \subseteq P \cup Driven(d),
         NEW ids, ids = OrderCombinational(d).statements,
         NEW env \in Stores(d), NEW pending \in Stores(d),
         NEW other \in Stores(d), NEW results \in Stores(d), Agree(d, P, env, other),
         NEW t, Finishes(d, ids, env, pending, t), NEW u, Finishes(d, ids, other, results, u),
         t.env = env, u.env = other
  PROVE  Agree(d, P \cup Driven(d), env, other)
<1> DEFINE N == Len(ids)
           V == Variables(d)
           C == ToIds(d.combinational)
           M == Len(d.combinational)
<1>1. Tops(d, ids) /\ ToIds(ids) = C /\ Driven(d) \subseteq V /\ Tops(d, d.combinational)
  BY CombinationalTops
<1>2. /\ N \in Nat /\ DOMAIN ids = 1 .. N
      /\ \A k \in 1 .. N : ids[k] \in Statements(d) /\ ids[k] \in C /\ d.root[ids[k]] = ids[k]
  BY <1>1, TopsFacts
<1>3. M \in Nat /\ DOMAIN d.combinational = 1 .. M
  BY <1>1, TopsFacts
<1>4. PICK rank \in [C -> 1 .. M] :
        \A m, n \in C : LiveIn(d, n) \cap StatementWrites(d, m) # {} => rank[m] < rank[n]
  BY <1>3 DEF CycleFree
<1> DEFINE D(k) == Ranked(d, P, rank, k)
<1>5. \A k : D(k) \in SUBSET V
  BY <1>1 DEF Ranked
<1>6. D(0) \subseteq P
  <2>1. \A v \in Driven(d) : \E m \in C : v \in StatementWrites(d, m)
    BY DEF Driven, AllWrites
  <2>2. \A m \in C : ~ (rank[m] < 0)
    BY <1>3, <1>4
  <2> QED BY <2>1, <2>2 DEF Ranked
<1>7. P \cup Driven(d) = D(M + 1)
  <2>1. \A m \in C : rank[m] < M + 1
    BY <1>3, <1>4
  <2> QED BY <2>1 DEF Ranked
<1> HIDE DEF N, M, C
<1>8. ASSUME NEW k \in Nat, Agree(d, D(k), env, other)
      PROVE  Agree(d, D(k + 1), env, other)
  <2> DEFINE R == [j \in 0 .. N |->
                     D(k) \cup {v \in D(k + 1) : \E i \in 1 .. j : v \in StatementWrites(d, ids[i])}]
  <2>1. R \in [0 .. N -> SUBSET V]
    BY <1>5
  <2>2. R[0] = D(k)
    BY <1>2
  <2>3. D(k) \subseteq D(k + 1)
    <3>1. \A m \in C : rank[m] \in Nat
      BY <1>3, <1>4
    <3>2. \A m \in C : rank[m] < k => rank[m] < k + 1
      BY <3>1
    <3> QED BY <3>2 DEF Ranked, C
  <2>4. D(k + 1) \subseteq R[N]
    <3>1. P \subseteq D(k)
      BY DEF Ranked
    <3>2. ASSUME NEW v \in D(k + 1), v \notin P
          PROVE  \E i \in 1 .. N : v \in StatementWrites(d, ids[i])
      <4>1. v \in Driven(d)
        BY <3>2 DEF Ranked
      <4>2. PICK m \in ToIds(ids) : v \in StatementWrites(d, m)
        BY <1>1, <4>1 DEF Driven, AllWrites, C
      <4> QED BY <1>2, <4>2 DEF ToIds
    <3> HIDE DEF D
    <3>3. R[N] = D(k) \cup {v \in D(k + 1) : \E i \in 1 .. N : v \in StatementWrites(d, ids[i])}
      BY <1>2
    <3> QED BY <3>1, <3>2, <3>3
  <2>5. ASSUME NEW j \in 1 .. N
        PROVE  Carried(d, ids[j], R[j - 1], R[j]) \/ Spared(d, ids[j], R[j - 1], R[j])
    <3> DEFINE n == ids[j]
               writes == StatementWrites(d, n)
    <3>1. /\ n \in C /\ n \in Statements(d) /\ rank[n] \in Nat
          /\ j - 1 \in 0 .. N /\ j \in 0 .. N
      BY <1>2, <1>3, <1>4
    <3>2. R[j] = R[j - 1] \cup (D(k + 1) \cap writes) /\ R[j] \subseteq D(k + 1)
      <4>1. 1 .. j = (1 .. j - 1) \cup {j}
        BY <1>2
      <4> HIDE DEF D
      <4>2. R[j - 1] = D(k) \cup {v \in D(k + 1) : \E i \in 1 .. j - 1 : v \in StatementWrites(d, ids[i])}
            /\ R[j] = D(k) \cup {v \in D(k + 1) : \E i \in 1 .. j : v \in StatementWrites(d, ids[i])}
        BY <3>1
      <4> HIDE DEF R
      <4> QED BY <2>3, <4>1, <4>2
    <3>3. D(k) \subseteq R[j - 1]
      <4> HIDE DEF D
      <4> QED BY <3>1
    <3> HIDE DEF R, n
    <3>4. CASE rank[n] <= k
      <4>1. LiveIn(d, n) \subseteq D(k)
        <5> SUFFICES ASSUME NEW v \in LiveIn(d, n), v \notin P PROVE v \in D(k)
          BY DEF Ranked
        <5>1. v \in Driven(d)
          BY <3>1 DEF C
        <5>2. ASSUME NEW m \in C, v \in StatementWrites(d, m) PROVE rank[m] < k
          <6>1. rank[m] < rank[n] /\ rank[m] \in Nat
            BY <1>3, <1>4, <3>1, <5>2
          <6> QED BY <3>1, <3>4, <6>1
        <5> QED BY <5>1, <5>2 DEF Ranked, C
      <4>2. writes \subseteq Flow(d)[n][{}].assigned
        BY <3>1 DEF LatchFree, C
      <4> HIDE DEF D
      <4>3. Carried(d, n, R[j - 1], R[j])
        BY <3>2, <3>3, <4>1, <4>2 DEF Carried
      <4> QED BY <4>3 DEF n
    <3>5. CASE rank[n] > k
      <4>1. D(k + 1) \cap writes = {}
        <5> SUFFICES ASSUME NEW v \in D(k + 1), v \in writes PROVE FALSE
          OBVIOUS
        <5>1. v \in Driven(d)
          BY <3>1 DEF Driven, AllWrites, C
        <5>2. v \notin P
          BY <5>1
        <5>3. rank[n] < k + 1
          BY <3>1, <5>2 DEF Ranked, C
        <5> QED BY <3>1, <3>5, <5>3
      <4> HIDE DEF D
      <4>2. Spared(d, n, R[j - 1], R[j])
        BY <3>2, <4>1 DEF Spared
      <4> QED BY <4>2 DEF n
    <3> QED BY <3>1, <3>4, <3>5
  <2> HIDE DEF R, D
  <2>6. /\ R \in [0 .. Len(ids) -> SUBSET V] /\ Agree(d, R[0], env, other)
        /\ \A j \in 1 .. Len(ids) :
             Carried(d, ids[j], R[j - 1], R[j]) \/ Spared(d, ids[j], R[j - 1], R[j])
    BY <1>8, <2>1, <2>2, <2>5 DEF N
  <2>7. Agree(d, R[Len(ids)], t.env, u.env)
    BY <1>1, <2>6, ListAgrees
  <2> QED BY <2>4, <2>7, AgreeLess DEF N
<1> DEFINE Ranks == {k \in Nat : Agree(d, D(k), env, other)}
<1>9. 0 \in Ranks
  <2>1. Agree(d, D(0), env, other)
    BY <1>6, AgreeLess
  <2> QED BY <2>1
<1>10. \A k \in Ranks : k + 1 \in Ranks
  BY <1>8
<1>11. M + 1 \in Ranks
  <2> HIDE DEF Ranks
  <2> QED BY <1>3, <1>9, <1>10, NaturalsInSet
<1>12. Agree(d, D(M + 1), env, other)
  BY <1>11
<1> HIDE DEF D
<1> QED BY <1>7, <1>12

-----------------------------------------------------------------------------
(* What is hidden. *)

\* The variables the clocked statements have bits of, and those of them that
\* the registers and inputs leave out.
Clocked(d) == {l[1] : l \in UNION {Footprint(d, n) : n \in ToIds(d.sequential)}}
Temporaries(d) == Clocked(d) \ (Registers(d) \cup InputIds(d))

\* The checks of analyze and what it collects keep temporaries inside their
\* statement.
LEMMA TemporariesFacts ==
  ASSUME NEW d, WellFormed(d), Supported(d)
  PROVE  /\ OutsideReads(d) \cap Temporaries(d) = {}
         /\ \A n \in ToIds(d.sequential) : LiveIn(d, n) \cap Temporaries(d) = {}
         /\ OutputIds(d) \cap Temporaries(d) = {}
         /\ Nonblocking(d) \subseteq Registers(d)
         /\ Registers(d) \subseteq AllWrites(d, d.sequential)
         /\ Clocked(d) \subseteq AllWrites(d, d.sequential)
         /\ AllWrites(d, d.sequential) \subseteq Variables(d) \ DOMAIN d.sampled
         /\ Driven(d) \subseteq Variables(d) \ DOMAIN d.sampled
         /\ AllWrites(d, d.sequential) \cap Driven(d) = {}
<1> DEFINE W == AllWrites(d, d.sequential)
           Seqs == ToIds(d.sequential)
<1>1. /\ \A n \in Seqs : n \in Statements(d) /\ d.root[n] = n
      /\ \A n \in Seqs : \E p \in Processes(d) : d.sequential[p] = n
  <2>1. Tops(d, d.sequential)
    BY CombinationalTops
  <2> QED BY <2>1 DEF Tops, ToIds, Processes
<1>2. ~ CrossProcessRead(d) /\ W \cap Driven(d) = {}
  BY DEF Supported, AnalyzeError, Driven
<1>3. \A n : StatementWrites(d, n) \subseteq Variables(d) \ DOMAIN d.sampled
  <2> SUFFICES ASSUME NEW n, NEW v \in StatementWrites(d, n)
               PROVE  v \in Variables(d) \ DOMAIN d.sampled
    OBVIOUS
  <2>1. PICK a \in AssignmentsIn(d, n) : v = d.statement[a].target.var
    BY DEF StatementWrites
  <2>2. a \in Statements(d) /\ d.statement[a].kind = "Assignment"
    BY DEF AssignmentsIn, Inside
  <2>3. v \notin DOMAIN d.sampled
    BY <2>1, <2>2 DEF WellFormed, SampledOK
  <2> QED BY <2>3, WritesDeclared
<1>4. W \subseteq Variables(d) \ DOMAIN d.sampled /\ Driven(d) \subseteq Variables(d) \ DOMAIN d.sampled
  BY <1>3 DEF AllWrites, Driven
<1>5. Clocked(d) \subseteq W
  BY FootprintWritten DEF Clocked, AllWrites
<1>6. ASSUME NEW v \in Clocked(d)
      PROVE  v \in Blocking(d) \cup Nonblocking(d)
  <2>1. PICK n \in Seqs : v \in StatementWrites(d, n)
    BY FootprintWritten DEF Clocked
  <2>2. PICK a \in AssignmentsIn(d, n) : v = d.statement[a].target.var
    BY <2>1 DEF StatementWrites
  <2>3. a \in Statements(d) /\ d.statement[a].kind = "Assignment"
    BY DEF AssignmentsIn, Inside
  <2>4. d.statement[a].assign \in {"Blocking", "Nonblocking", "Continuous"}
    BY <2>3 DEF WellFormed, StatementOK
  <2>5. a \in UNION {AssignmentsIn(d, m) : m \in Seqs}
    OBVIOUS
  <2> QED BY <2>2, <2>4, <2>5 DEF Blocking, Nonblocking, AssignedBy
<1>7. \A v \in Temporaries(d) : v \in Blocking(d) /\ v \notin Nonblocking(d) /\ v \in Clocked(d)
                               /\ v \notin OutsideReads(d) /\ d.direction[v] # "Output"
  BY <1>6 DEF Temporaries, Registers
<1>8. ASSUME NEW n \in Seqs, NEW v \in LiveIn(d, n), v \in Temporaries(d)
      PROVE  FALSE
  <2>1. v \notin StatementWrites(d, n)
    BY <1>8 DEF Temporaries, Registers
  <2>2. v \in StatementReads(d, n)
    <3>1. n \in Statements(d) /\ d.root[n] = n /\ {} \in SUBSET Variables(d)
      BY <1>1
    <3>2. Flow(d)[n][{}].liveIn \subseteq StatementReads(d, d.root[n])
      BY <3>1, FlowBounds
    <3> QED BY <3>1, <3>2 DEF LiveIn
  <2>3. PICK m \in Seqs : \E l \in Footprint(d, m) : v = l[1]
    BY <1>7, <1>8 DEF Clocked
  <2>4. v \in StatementWrites(d, m)
    BY <2>3, FootprintWritten
  <2>5. PICK p \in Processes(d), q \in Processes(d) : d.sequential[p] = m /\ d.sequential[q] = n
    BY <1>1
  <2>6. p # q /\ OwnsBitOf(d, p, v) /\ v \in StatementReads(d, d.sequential[q])
    BY <2>1, <2>2, <2>3, <2>4, <2>5 DEF OwnsBitOf
  <2>7. v \in Blocking(d)
    BY <1>7, <1>8
  <2>8. CrossProcessRead(d)
    BY <2>6, <2>7 DEF CrossProcessRead
  <2> QED BY <1>2, <2>8
<1>9. OutputIds(d) \cap Temporaries(d) = {}
  BY <1>7 DEF OutputIds
<1>10. Nonblocking(d) \subseteq Registers(d) /\ Registers(d) \subseteq W
  <2>1. \A kinds : AssignedBy(d, d.sequential, kinds) \subseteq W
    BY DEF AssignedBy, AllWrites, StatementWrites
  <2>2. Blocking(d) \subseteq W /\ Nonblocking(d) \subseteq W
    BY <2>1 DEF Blocking, Nonblocking
  <2>3. UNION {LiveIn(d, n) \cap StatementWrites(d, n) : n \in Seqs} \subseteq W
    BY DEF AllWrites
  <2> QED BY <2>2, <2>3 DEF Registers
<1> QED BY <1>2, <1>4, <1>5, <1>7, <1>8, <1>9, <1>10

\* The variables two stores agree on once their hidden ones do not matter.
Shown(d, hidden) ==
  (Variables(d) \ (Driven(d) \cup DOMAIN d.sampled \cup InputIds(d) \cup hidden)) \cup Registers(d)

\* The variables every edge assigns, and what it leaves of the temporaries.
EdgeAssigned(d) == UNION {Flow(d)[n][{}].assigned : n \in ToIds(d.sequential)}
Leftover(d) == Temporaries(d) \ EdgeAssigned(d)

\* capture_sampled depends on no hidden variable.
LEMMA SamplesAgree ==
  ASSUME NEW d, WellFormed(d), NEW hidden,
         \A v \in DOMAIN d.sampled : ExpressionReads(d.sampled[v]) \cap hidden = {},
         NEW env \in Stores(d), NEW other \in Stores(d),
         Agree(d, Variables(d) \ (DOMAIN d.sampled \cup hidden), env, other)
  PROVE  /\ Agree(d, Variables(d) \ hidden, CaptureSampled(d, env), CaptureSampled(d, other))
         /\ CaptureSampled(d, env) \in Stores(d) /\ CaptureSampled(d, other) \in Stores(d)
<1> DEFINE X == CaptureSampled(d, env)
           Y == CaptureSampled(d, other)
           S == DOMAIN d.sampled
           V == Variables(d)
           K == Cardinality(S)
<1>1. /\ X \in Stores(d) /\ Y \in Stores(d)
      /\ \A l \in Locations(d) : l[1] \notin S => X[l] = env[l] /\ Y[l] = other[l]
      /\ \A v \in S : Word(d, X, v) = Eval(d, d.sampled[v], X) /\ Word(d, Y, v) = Eval(d, d.sampled[v], Y)
  BY SamplesSettle
<1>2. /\ S \subseteq V /\ \A v \in S : ExpressionOK(d, d.sampled[v])
      /\ \E rank \in [S -> 0 .. K - 1] :
           \A v, w \in S : w \in ExpressionReads(d.sampled[v]) => rank[w] < rank[v]
  BY DEF WellFormed, SampledOK
<1>3. PICK rank \in [S -> 0 .. K - 1] :
        \A v, w \in S : w \in ExpressionReads(d.sampled[v]) => rank[w] < rank[v]
  BY <1>2
<1>4. K \in Nat
  <2>1. IsFiniteSet(S)
    BY <1>2, FS_Subset DEF WellFormed
  <2> QED BY <2>1, FS_CardinalityType
<1> HIDE DEF X, Y, K
<1> DEFINE D(k) == (V \ (S \cup hidden)) \cup {v \in S : rank[v] < k}
<1>5. Agree(d, D(0), X, Y)
  <2>1. D(0) \subseteq V \ (S \cup hidden)
    BY <1>3, <1>4
  <2>2. Agree(d, V \ (S \cup hidden), X, Y)
    <3>1. \A l \in LocationsIn(d, V \ (S \cup hidden)) : l \in Locations(d) /\ l[1] \notin S
      BY LocationVariable
    <3> QED BY <1>1, <3>1 DEF Agree
  <2> QED BY <2>1, <2>2, AgreeLess
<1>6. ASSUME NEW k \in Nat, Agree(d, D(k), X, Y)
      PROVE  Agree(d, D(k + 1), X, Y)
  <2>1. ASSUME NEW v \in S, rank[v] < k + 1
        PROVE  \A l \in LocationsOf(d, v) : X[l] = Y[l]
    <3>1. ExpressionOK(d, d.sampled[v]) /\ ExpressionReads(d.sampled[v]) \cap hidden = {}
      BY <1>2
    <3>2. ExpressionReads(d.sampled[v]) \subseteq V
      BY <3>1, ExpressionReadsDeclared
    <3>3. ExpressionReads(d.sampled[v]) \subseteq D(k)
      <4>1. \A w \in S : w \in ExpressionReads(d.sampled[v]) => rank[w] < k
        <5>1. \A w \in S : rank[w] \in Int
          BY <1>3, <1>4
        <5> QED BY <1>3, <2>1, <5>1
      <4> QED BY <3>1, <3>2, <4>1
    <3>4. Agree(d, ExpressionReads(d.sampled[v]), X, Y)
      BY <1>6, <3>3, AgreeLess
    <3>5. Eval(d, d.sampled[v], X) = Eval(d, d.sampled[v], Y)
      BY <1>1, <3>1, <3>4, EvalAgrees
    <3>6. Word(d, X, v) = Word(d, Y, v)
      BY <1>1, <3>5
    <3> SUFFICES ASSUME NEW l \in LocationsOf(d, v) PROVE X[l] = Y[l]
      OBVIOUS
    <3>7. d.width[v] \in Nat
      BY <1>2 DEF WellFormed
    <3>8. PICK i \in 0 .. d.width[v] - 1 : l = <<v, i>>
      BY DEF LocationsOf
    <3>9. i + 1 \in 1 .. d.width[v] /\ (i + 1) - 1 = i
      BY <3>7
    <3>10. Word(d, X, v)[i + 1] = X[<<v, i>>] /\ Word(d, Y, v)[i + 1] = Y[<<v, i>>]
      BY <3>9 DEF Word
    <3> QED BY <3>6, <3>8, <3>10
  <2>2. D(k + 1) \subseteq D(k) \cup {v \in S : rank[v] < k + 1}
    OBVIOUS
  <2>3. LocationsIn(d, D(k + 1)) \subseteq LocationsIn(d, D(k)) \cup LocationsIn(d, {v \in S : rank[v] < k + 1})
    BY <2>2 DEF LocationsIn
  <2> QED BY <1>6, <2>1, <2>3 DEF Agree, LocationsIn
<1> DEFINE Ranks == {k \in Nat : Agree(d, D(k), X, Y)}
<1>7. 0 \in Ranks
  BY <1>5
<1>8. \A k \in Ranks : k + 1 \in Ranks
  BY <1>6
<1>9. K \in Ranks
  <2> HIDE DEF Ranks
  <2> QED BY <1>4, <1>7, <1>8, NaturalsInSet
<1>10. V \ hidden \subseteq D(K)
  <2>1. \A v \in S : rank[v] < K
    BY <1>3, <1>4
  <2> QED BY <2>1
<1>11. Agree(d, D(K), X, Y)
  BY <1>9
<1> HIDE DEF D
<1>12. Agree(d, V \ hidden, X, Y)
  BY <1>10, <1>11, AgreeLess
<1> QED BY <1>1, <1>12 DEF X, Y

-----------------------------------------------------------------------------
(* Calls of a generated model, as relations between stores. *)

AppliedInputs(d, store, i) ==
  [l \in DOMAIN store |-> IF l[1] \in InputIds(d) THEN i[l] ELSE store[l]]
CopiedPending(d, store, results) ==
  [l \in DOMAIN store |-> IF l[1] \in Nonblocking(d) THEN results[l] ELSE store[l]]
Satisfies(d, v, store) ==
  IF d.property[v] = "Assertion" THEN ~ Truthy(Word(d, store, v)) ELSE Truthy(Word(d, store, v))
Observed(d, store) ==
  [outputs    |-> Project(d, OutputIds(d), store),
   properties |-> [v \in DOMAIN d.property |-> Satisfies(d, v, store)]]

\* The combinational logic has settled to env: a pass from a store that holds
\* the inputs ended in it, and changed nothing if passes are iterated.
SettledFrom(d, values, i, start, pending, t, env) ==
  /\ Agree(d, Variables(d) \ Driven(d), start, AppliedInputs(d, values, i))
  /\ Finishes(d, OrderCombinational(d).statements, start, pending, t)
  /\ OrderCombinational(d).fixedPoint => t.env = start
  /\ env = t.env
Settled(d, values, i, env) ==
  \E start \in Stores(d), pending \in Stores(d), t \in Machines(d) :
    SettledFrom(d, values, i, start, pending, t, env)

\* A tick took values to new.
EdgeFrom(d, values, i, new, env, t) ==
  /\ Settled(d, values, i, env)
  /\ Finishes(d, d.sequential, CaptureSampled(d, env), CaptureSampled(d, env), t)
  /\ new = CopiedPending(d, t.env, t.pending)
Edge(d, values, i, new) ==
  \E env \in Stores(d), t \in Machines(d) : EdgeFrom(d, values, i, new, env, t)

\* An evaluation showed what these values and inputs settle to.
Evaluated(d, values, i, evaluation) ==
  \E env \in Stores(d) : Settled(d, values, i, env) /\ evaluation = Observed(d, CaptureSampled(d, env))

\* What no call changes but by its inputs, its samples and what it settles.
Untouched(d) == Variables(d) \ (Driven(d) \cup DOMAIN d.sampled \cup InputIds(d) \cup Clocked(d))

InputStores(d) == StoresOf(d, InputIds(d))

\* Applying inputs to a store gives a store.
LEMMA AppliedType ==
  ASSUME NEW d, NEW store \in Stores(d), NEW i \in InputStores(d)
  PROVE  AppliedInputs(d, store, i) \in Stores(d)
<1>1. \A l \in Locations(d) : l[1] \in InputIds(d) => i[l] \in Bit
  <2>1. InputIds(d) \in SUBSET Variables(d)
    BY DEF InputIds
  <2>2. \A l \in Locations(d) : l[1] \in InputIds(d) => l \in LocationsIn(d, InputIds(d))
    BY <2>1, LocationVariable
  <2> QED BY <2>2 DEF InputStores, StoresOf
<1> QED BY <1>1 DEF AppliedInputs, Stores

\* Sampling a store gives a store, and changes sampled variables only.
LEMMA SamplesType ==
  ASSUME NEW d, WellFormed(d), NEW store \in Stores(d)
  PROVE  /\ CaptureSampled(d, store) \in Stores(d)
         /\ \A l \in Locations(d) : l[1] \notin DOMAIN d.sampled => CaptureSampled(d, store)[l] = store[l]
BY SamplesSettle

\* Where the combinational logic settles, given the same inputs, does not
\* depend on the hidden variables.
LEMMA SettledAgree ==
  ASSUME NEW d, WellFormed(d), Supported(d), LatchFree(d), CycleFree(d),
         NEW hidden \in SUBSET Temporaries(d),
         NEW values \in Stores(d), NEW others \in Stores(d), NEW i \in InputStores(d),
         Agree(d, Shown(d, hidden), values, others),
         NEW env \in Stores(d), NEW other \in Stores(d),
         Settled(d, values, i, env), Settled(d, others, i, other)
  PROVE  Agree(d, Variables(d) \ hidden, CaptureSampled(d, env), CaptureSampled(d, other))
<1> DEFINE V == Variables(d)
           S == DOMAIN d.sampled
           P == V \ (Driven(d) \cup S \cup hidden)
           ids == OrderCombinational(d).statements
           X == AppliedInputs(d, values, i)
           Y == AppliedInputs(d, others, i)
<1>1. /\ OutsideReads(d) \cap hidden = {} /\ Driven(d) \subseteq V \ S
      /\ P \in SUBSET V /\ P \cap Driven(d) = {}
  BY TemporariesFacts
<1>2. \A n \in ToIds(d.combinational) : LiveIn(d, n) \subseteq P \cup Driven(d)
  <2> SUFFICES ASSUME NEW n \in ToIds(d.combinational) PROVE LiveIn(d, n) \subseteq P \cup Driven(d)
    OBVIOUS
  <2>1. n \in Statements(d) /\ d.root[n] = n
    BY CombinationalTops DEF Tops, ToIds
  <2>2. {} \in SUBSET V
    OBVIOUS
  <2>3. LiveIn(d, n) \subseteq StatementReads(d, n)
    <3>1. Flow(d)[n][{}].liveIn \subseteq StatementReads(d, d.root[n])
      BY <2>1, <2>2, FlowBounds
    <3> QED BY <2>1, <3>1 DEF LiveIn
  <2>4. StatementReads(d, n) \subseteq V
    BY <2>1, ReadsDeclared
  <2>5. StatementReads(d, n) \cap S = {}
    BY DEF LatchFree
  <2>6. StatementReads(d, n) \subseteq OutsideReads(d)
    BY DEF OutsideReads, AllReads
  <2> QED BY <1>1, <2>3, <2>4, <2>5, <2>6
<1>3. \A v \in S : ExpressionReads(d.sampled[v]) \cap hidden = {}
  <2>1. \A v \in S : ExpressionReads(d.sampled[v]) \subseteq OutsideReads(d)
    BY DEF OutsideReads
  <2> QED BY <1>1, <2>1
<1>4. Agree(d, P, X, Y)
  <2> SUFFICES ASSUME NEW l \in LocationsIn(d, P) PROVE X[l] = Y[l]
    BY DEF Agree
  <2>1. l \in Locations(d) /\ l[1] \in P
    BY <1>1, LocationVariable
  <2>2. DOMAIN values = Locations(d) /\ DOMAIN others = Locations(d)
    BY DEF Stores
  <2>3. CASE l[1] \in InputIds(d)
    BY <2>1, <2>2, <2>3 DEF AppliedInputs
  <2>4. CASE l[1] \notin InputIds(d)
    <3>1. l[1] \in Shown(d, hidden)
      BY <2>1, <2>4 DEF Shown
    <3>2. Shown(d, hidden) \subseteq V
      BY TemporariesFacts DEF Shown
    <3>3. l \in LocationsIn(d, Shown(d, hidden))
      BY <2>1, <3>1, <3>2, LocationVariable
    <3>4. values[l] = others[l]
      BY <3>3 DEF Agree
    <3> QED BY <2>1, <2>2, <2>4, <3>4 DEF AppliedInputs
  <2> QED BY <2>3, <2>4
<1>5. PICK start \in Stores(d), pending \in Stores(d), t \in Machines(d) :
        SettledFrom(d, values, i, start, pending, t, env)
  BY DEF Settled
<1>6. PICK second \in Stores(d), results \in Stores(d), u \in Machines(d) :
        SettledFrom(d, others, i, second, results, u, other)
  BY DEF Settled
<1>7. /\ Agree(d, V \ Driven(d), start, X) /\ Agree(d, V \ Driven(d), second, Y)
      /\ Finishes(d, ids, start, pending, t) /\ Finishes(d, ids, second, results, u)
      /\ OrderCombinational(d).fixedPoint => t.env = start /\ u.env = second
      /\ env = t.env /\ other = u.env
  BY <1>5, <1>6 DEF SettledFrom
<1> HIDE DEF X, Y, ids
<1>8. Agree(d, P, start, second)
  <2>1. P \subseteq V \ Driven(d)
    BY <1>1
  <2>2. Agree(d, P, start, X) /\ Agree(d, P, second, Y)
    BY <1>7, <2>1, AgreeLess
  <2> QED BY <1>4, <2>2 DEF Agree
<1> HIDE DEF P
<1>9. Agree(d, P \cup Driven(d), env, other)
  <2>1. CASE OrderCombinational(d).fixedPoint
    <3>1. t.env = start /\ u.env = second
      BY <1>7, <2>1
    <3>2. Agree(d, P \cup Driven(d), start, second)
      BY <1>1, <1>2, <1>7, <1>8, <3>1, FixedPointAgrees DEF ids
    <3> QED BY <1>7, <3>1, <3>2
  <2>2. CASE ~ OrderCombinational(d).fixedPoint
    <3>1. Agree(d, P \cup Driven(d), t.env, u.env)
      BY <1>1, <1>2, <1>7, <1>8, <2>2, PassAgrees DEF ids
    <3> QED BY <1>7, <3>1
  <2> QED BY <2>1, <2>2
<1>10. Agree(d, V \ (S \cup hidden), env, other)
  <2>1. V \ (S \cup hidden) \subseteq P \cup Driven(d)
    BY DEF P
  <2> QED BY <1>9, <2>1, AgreeLess
<1> QED BY <1>3, <1>10, SamplesAgree

\* The settled store holds what is not driven as it was.
LEMMA SettledKeeps ==
  ASSUME NEW d, WellFormed(d), NEW values \in Stores(d), NEW i \in InputStores(d),
         NEW env \in Stores(d), Settled(d, values, i, env)
  PROVE  Agree(d, Variables(d) \ Driven(d), env, AppliedInputs(d, values, i))
<1> DEFINE U == Variables(d) \ Driven(d)
           ids == OrderCombinational(d).statements
<1>1. PICK start \in Stores(d), pending \in Stores(d), t \in Machines(d) :
        SettledFrom(d, values, i, start, pending, t, env)
  BY DEF Settled
<1>2. Agree(d, U, start, AppliedInputs(d, values, i))
      /\ Finishes(d, ids, start, pending, t) /\ env = t.env
  BY <1>1 DEF SettledFrom
<1>3. Tops(d, ids) /\ ToIds(ids) = ToIds(d.combinational)
  BY CombinationalTops
<1>4. ASSUME NEW l \in LocationsIn(d, U)
      PROVE  l \in Locations(d) /\ \A n \in ToIds(ids) : l \notin Footprint(d, n)
  <2>1. l \in Locations(d) /\ l[1] \in U
    BY LocationVariable
  <2> QED BY <1>3, <2>1, FootprintWritten DEF Driven, AllWrites
<1> HIDE DEF ids
<1>5. \A l \in LocationsIn(d, U) : t.env[l] = start[l]
  <2>1. \A l \in Locations(d) :
          (\A n \in ToIds(ids) : l \notin Footprint(d, n)) =>
            t.env[l] = start[l] /\ t.pending[l] = pending[l]
    BY <1>2, <1>3, ListWritesOnly
  <2> HIDE DEF U
  <2> QED BY <1>4, <2>1
<1> QED BY <1>2, <1>5 DEF Agree

\* Copying nonblocking results gives a store.
LEMMA CopiedType ==
  ASSUME NEW d, NEW store \in Stores(d), NEW results \in Stores(d)
  PROVE  /\ CopiedPending(d, store, results) \in Stores(d)
         /\ \A l \in Locations(d) :
              CopiedPending(d, store, results)[l] = IF l[1] \in Nonblocking(d) THEN results[l] ELSE store[l]
BY DEF CopiedPending, Stores

\* An edge leaves the untouched variables as they were.
LEMMA EdgeKeeps ==
  ASSUME NEW d, WellFormed(d), NEW values \in Stores(d), NEW i \in InputStores(d),
         NEW new, Edge(d, values, i, new)
  PROVE  new \in Stores(d) /\ Agree(d, Untouched(d), new, values)
<1> DEFINE U == Untouched(d)
<1>1. PICK env \in Stores(d), t \in Machines(d) : EdgeFrom(d, values, i, new, env, t)
  BY DEF Edge
<1> DEFINE e == CaptureSampled(d, env)
<1>2. Settled(d, values, i, env) /\ Finishes(d, d.sequential, e, e, t)
      /\ new = CopiedPending(d, t.env, t.pending)
  BY <1>1 DEF EdgeFrom
<1>3. e \in Stores(d) /\ \A l \in Locations(d) : l[1] \notin DOMAIN d.sampled => e[l] = env[l]
  BY SamplesType
<1> HIDE DEF e
<1>4. t.env \in Stores(d) /\ t.pending \in Stores(d)
  BY DEF Machines
<1>5. Tops(d, d.sequential)
  BY CombinationalTops
<1>6. U \in SUBSET Variables(d)
  BY DEF Untouched
<1>7. ASSUME NEW l \in LocationsIn(d, U)
      PROVE  new[l] = values[l]
  <2>1. l \in Locations(d) /\ l[1] \in U
    BY <1>6, LocationVariable
  <2>2. \A n \in ToIds(d.sequential) : l \notin Footprint(d, n)
    BY <2>1 DEF Untouched, Clocked
  <2>3. t.env[l] = e[l] /\ t.pending[l] = e[l]
    BY <1>2, <1>3, <1>5, <2>1, <2>2, ListWritesOnly
  <2>4. new[l] = e[l]
    BY <1>2, <1>4, <2>1, <2>3, CopiedType
  <2>5. e[l] = env[l]
    BY <1>3, <2>1 DEF Untouched
  <2>6. l \in LocationsIn(d, Variables(d) \ Driven(d))
    <3>1. l[1] \in Variables(d) \ Driven(d) /\ Variables(d) \ Driven(d) \in SUBSET Variables(d)
      BY <2>1 DEF Untouched
    <3> QED BY <2>1, <3>1, LocationVariable
  <2>7. env[l] = AppliedInputs(d, values, i)[l]
    BY <1>2, <2>6, SettledKeeps DEF Agree
  <2>8. AppliedInputs(d, values, i)[l] = values[l]
    BY <2>1 DEF AppliedInputs, Stores, Untouched
  <2> QED BY <2>4, <2>5, <2>7, <2>8
<1>8. new \in Stores(d)
  BY <1>2, <1>4, CopiedType
<1> QED BY <1>7, <1>8 DEF Agree

\* Edges from values that agree on what is shown agree on all but what is left
\* of the temporaries.
LEMMA EdgesAgree ==
  ASSUME NEW d, WellFormed(d), Supported(d), LatchFree(d), CycleFree(d),
         NEW values \in Stores(d), NEW others \in Stores(d), NEW i \in InputStores(d),
         Agree(d, Shown(d, Temporaries(d)), values, others),
         NEW new, Edge(d, values, i, new), NEW next, Edge(d, others, i, next)
  PROVE  Agree(d, Shown(d, Leftover(d)), new, next)
<1> DEFINE V == Variables(d)
           T == Temporaries(d)
           ids == d.sequential
           N == Len(ids)
           R == [k \in 0 .. N |-> (V \ T) \cup UNION {Flow(d)[ids[j]][{}].assigned : j \in 1 .. k}]
<1>1. PICK env \in Stores(d), t \in Machines(d) : EdgeFrom(d, values, i, new, env, t)
  BY DEF Edge
<1>2. PICK other \in Stores(d), u \in Machines(d) : EdgeFrom(d, others, i, next, other, u)
  BY DEF Edge
<1> DEFINE e == CaptureSampled(d, env)
           f == CaptureSampled(d, other)
<1>3. /\ Settled(d, values, i, env) /\ Settled(d, others, i, other)
      /\ Finishes(d, ids, e, e, t) /\ Finishes(d, ids, f, f, u)
      /\ new = CopiedPending(d, t.env, t.pending) /\ next = CopiedPending(d, u.env, u.pending)
  BY <1>1, <1>2 DEF EdgeFrom
<1>4. Agree(d, V \ T, e, f)
  BY <1>3, SettledAgree
<1>5. e \in Stores(d) /\ f \in Stores(d)
  BY SamplesType
<1> HIDE DEF e, f
<1>6. /\ t.env \in Stores(d) /\ t.pending \in Stores(d)
      /\ u.env \in Stores(d) /\ u.pending \in Stores(d)
  BY DEF Machines
<1>7. Tops(d, ids)
  BY CombinationalTops
<1>8. /\ N \in Nat /\ DOMAIN ids = 1 .. N
      /\ \A k \in 1 .. N : ids[k] \in Statements(d) /\ ids[k] \in ToIds(ids)
  BY <1>7, TopsFacts
<1>9. \A k \in 1 .. N : Flow(d)[ids[k]][{}].assigned \in SUBSET V
  <2> SUFFICES ASSUME NEW k \in 1 .. N PROVE Flow(d)[ids[k]][{}].assigned \in SUBSET V
    OBVIOUS
  <2>1. Flow(d)[ids[k]] \in [SUBSET V -> Results(V)] /\ {} \in SUBSET V
    BY <1>8, FlowUnfolds
  <2>2. Flow(d)[ids[k]][{}] \in Results(V)
    BY <2>1
  <2> QED BY <2>2 DEF Results
<1>10. \A n \in ToIds(ids) : LiveIn(d, n) \subseteq V \ T
  <2> SUFFICES ASSUME NEW n \in ToIds(ids) PROVE LiveIn(d, n) \subseteq V \ T
    OBVIOUS
  <2>1. n \in Statements(d) /\ d.root[n] = n /\ {} \in SUBSET V
    BY <1>7 DEF Tops, ToIds
  <2>2. Flow(d)[n][{}].liveIn \subseteq StatementReads(d, d.root[n])
    BY <2>1, FlowBounds
  <2>3. StatementReads(d, n) \subseteq V
    BY <2>1, ReadsDeclared
  <2>4. LiveIn(d, n) \cap T = {}
    BY TemporariesFacts
  <2> QED BY <2>1, <2>2, <2>3, <2>4 DEF LiveIn
<1> HIDE DEF N, T, V
<1>11. R \in [0 .. N -> SUBSET V]
  <2>1. \A k \in 0 .. N : \A j \in 1 .. k : j \in 1 .. N
    BY <1>8
  <2> QED BY <1>9, <2>1
<1>12. R[0] = V \ T /\ (V \ T) \cup EdgeAssigned(d) \subseteq R[N]
  <2>1. R[0] = (V \ T) \cup UNION {Flow(d)[ids[j]][{}].assigned : j \in 1 .. 0}
        /\ R[N] = (V \ T) \cup UNION {Flow(d)[ids[j]][{}].assigned : j \in 1 .. N}
    BY <1>8
  <2>2. EdgeAssigned(d) = UNION {Flow(d)[ids[j]][{}].assigned : j \in 1 .. N}
    <3>1. ToIds(ids) = {ids[j] : j \in 1 .. N}
      BY <1>8 DEF ToIds
    <3> QED BY <3>1 DEF EdgeAssigned
  <2>3. 1 .. 0 = {}
    OBVIOUS
  <2> HIDE DEF R
  <2> QED BY <2>1, <2>2, <2>3
<1>13. ASSUME NEW k \in 1 .. N
       PROVE  Carried(d, ids[k], R[k - 1], R[k])
  <2>1. k - 1 \in 0 .. N /\ k \in 0 .. N /\ 1 .. k = (1 .. k - 1) \cup {k}
    BY <1>8
  <2>2. R[k - 1] = (V \ T) \cup UNION {Flow(d)[ids[j]][{}].assigned : j \in 1 .. k - 1}
        /\ R[k] = (V \ T) \cup UNION {Flow(d)[ids[j]][{}].assigned : j \in 1 .. k}
    BY <2>1
  <2> HIDE DEF R
  <2>3. R[k] = R[k - 1] \cup Flow(d)[ids[k]][{}].assigned
    BY <2>1, <2>2
  <2>4. LiveIn(d, ids[k]) \subseteq R[k - 1]
    BY <1>8, <1>10, <2>2
  <2> QED BY <2>3, <2>4 DEF Carried
<1> HIDE DEF R
<1>14. /\ R \in [0 .. Len(ids) -> SUBSET V] /\ Agree(d, R[0], e, f)
       /\ \A k \in 1 .. Len(ids) : Carried(d, ids[k], R[k - 1], R[k])
  BY <1>4, <1>11, <1>12, <1>13 DEF N
<1>15. \A k \in 1 .. Len(ids) :
         Carried(d, ids[k], R[k - 1], R[k]) \/ Spared(d, ids[k], R[k - 1], R[k])
  BY <1>14
<1>16. /\ Agree(d, R[Len(ids)], t.env, u.env)
       /\ \A Q \in SUBSET V :
              /\ Agree(d, Q, e, f)
              /\ \A k \in 1 .. Len(ids) : Carried(d, ids[k], R[k - 1], R[k])
              => Agree(d, Q, t.pending, u.pending)
  BY <1>3, <1>5, <1>7, <1>14, <1>15, ListAgrees DEF V
<1>17. Agree(d, V \ T, t.pending, u.pending)
  <2>1. V \ T \in SUBSET V
    OBVIOUS
  <2> QED BY ONLY <1>4, <1>14, <1>16, <2>1
<1>18. /\ Nonblocking(d) \cap T = {} /\ Registers(d) \subseteq V /\ Registers(d) \cap T = {}
  <2>1. Nonblocking(d) \subseteq Registers(d) /\ Registers(d) \subseteq V
    BY TemporariesFacts DEF V
  <2> QED BY <2>1 DEF T, Temporaries
<1>19. Shown(d, Leftover(d)) \subseteq (V \ T) \cup EdgeAssigned(d) /\ Shown(d, Leftover(d)) \subseteq V
  BY <1>18 DEF Shown, Leftover, V, T
<1>20. ASSUME NEW l \in LocationsIn(d, Shown(d, Leftover(d)))
       PROVE  new[l] = next[l]
  <2>1. l \in Locations(d) /\ l[1] \in Shown(d, Leftover(d))
    BY <1>19, LocationVariable DEF V
  <2>2. /\ new[l] = IF l[1] \in Nonblocking(d) THEN t.pending[l] ELSE t.env[l]
        /\ next[l] = IF l[1] \in Nonblocking(d) THEN u.pending[l] ELSE u.env[l]
    BY <1>3, <1>6, <2>1, CopiedType
  <2>3. CASE l[1] \in Nonblocking(d)
    <3>1. l[1] \in V \ T
      BY <1>18, <1>19, <2>1, <2>3
    <3>2. l \in LocationsIn(d, V \ T)
      BY <2>1, <3>1, LocationVariable DEF V
    <3> QED BY <1>17, <2>2, <2>3, <3>2 DEF Agree
  <2>4. CASE l[1] \notin Nonblocking(d)
    <3>1. l[1] \in R[N] /\ R[N] \in SUBSET V
      BY <1>8, <1>11, <1>12, <1>19, <2>1
    <3>2. l \in LocationsIn(d, R[N])
      BY <2>1, <3>1, LocationVariable DEF V
    <3> QED BY <1>16, <2>2, <2>4, <3>2 DEF Agree, N
  <2> QED BY <2>3, <2>4
<1> QED BY <1>20 DEF Agree

\* What is shown is untouched or a register.
LEMMA ShownFacts ==
  ASSUME NEW d, WellFormed(d), Supported(d)
  PROVE  /\ Shown(d, Temporaries(d)) \subseteq Untouched(d) \cup Registers(d)
         /\ Registers(d) \subseteq Shown(d, Temporaries(d))
         /\ Shown(d, Temporaries(d)) \subseteq Shown(d, Leftover(d))
         /\ Leftover(d) \subseteq Temporaries(d)
BY DEF Shown, Untouched, Leftover, Temporaries

\* What two evaluations show.
LEMMA EvaluationsAgree ==
  ASSUME NEW d, WellFormed(d), Supported(d), LatchFree(d), CycleFree(d),
         NEW hidden \in SUBSET Temporaries(d),
         NEW values \in Stores(d), NEW others \in Stores(d), NEW i \in InputStores(d),
         Agree(d, Shown(d, hidden), values, others),
         NEW x, Evaluated(d, values, i, x), NEW y, Evaluated(d, others, i, y)
  PROVE  /\ x.outputs = y.outputs
         /\ PropertiesAssigned(d) /\ hidden \subseteq Leftover(d) => x.properties = y.properties
<1> DEFINE V == Variables(d)
<1>1. PICK env \in Stores(d) : Settled(d, values, i, env) /\ x = Observed(d, CaptureSampled(d, env))
  BY DEF Evaluated
<1>2. PICK other \in Stores(d) : Settled(d, others, i, other) /\ y = Observed(d, CaptureSampled(d, other))
  BY DEF Evaluated
<1> DEFINE e == CaptureSampled(d, env)
           f == CaptureSampled(d, other)
<1>3. Agree(d, V \ hidden, e, f)
  BY <1>1, <1>2, SettledAgree
<1> HIDE DEF e, f
<1>4. /\ x.outputs = Project(d, OutputIds(d), e) /\ y.outputs = Project(d, OutputIds(d), f)
      /\ x.properties = [v \in DOMAIN d.property |-> Satisfies(d, v, e)]
      /\ y.properties = [v \in DOMAIN d.property |-> Satisfies(d, v, f)]
  BY <1>1, <1>2 DEF Observed, e, f
<1>5. x.outputs = y.outputs
  <2>1. OutputIds(d) \subseteq V \ hidden
    BY TemporariesFacts DEF OutputIds
  <2>2. Agree(d, OutputIds(d), e, f)
    BY <1>3, <2>1, AgreeLess
  <2> QED BY <1>4, <2>2 DEF Project, Agree
<1>6. ASSUME PropertiesAssigned(d), hidden \subseteq Leftover(d)
      PROVE  x.properties = y.properties
  <2>1. ASSUME NEW v \in DOMAIN d.property
        PROVE  Satisfies(d, v, e) = Satisfies(d, v, f)
    <3>1. PICK n \in ToIds(d.combinational \o d.sequential) : v \in Flow(d)[n][{}].assigned
      BY <1>6 DEF PropertiesAssigned
    <3>2. ToIds(d.combinational \o d.sequential) \subseteq ToIds(d.combinational) \cup ToIds(d.sequential)
      <4>1. Tops(d, d.combinational) /\ Tops(d, d.sequential)
        BY CombinationalTops
      <4> DEFINE p == d.combinational
                 q == d.sequential
      <4>2. p \in Seq(Statements(d)) /\ q \in Seq(Statements(d)) /\ Len(p) \in Nat /\ Len(q) \in Nat
            /\ DOMAIN p = 1 .. Len(p) /\ DOMAIN q = 1 .. Len(q)
        BY <4>1, TopsFacts
      <4> HIDE DEF p, q
      <4>3. /\ p \o q \in Seq(Statements(d)) /\ Len(p \o q) = Len(p) + Len(q)
            /\ \A k \in 1 .. Len(p) + Len(q) :
                 (p \o q)[k] = IF k <= Len(p) THEN p[k] ELSE q[k - Len(p)]
        BY <4>2, ConcatProperties
      <4>4. DOMAIN (p \o q) = 1 .. Len(p) + Len(q)
        BY <4>3, LenProperties
      <4>5. ToIds(p \o q) \subseteq ToIds(p) \cup ToIds(q)
        <5> SUFFICES ASSUME NEW k \in 1 .. Len(p) + Len(q)
                     PROVE  (p \o q)[k] \in ToIds(p) \cup ToIds(q)
          BY <4>4 DEF ToIds
        <5>1. CASE k <= Len(p)
          <6>1. k \in DOMAIN p /\ (p \o q)[k] = p[k]
            BY <4>2, <4>3, <5>1
          <6> QED BY <6>1 DEF ToIds
        <5>2. CASE ~ (k <= Len(p))
          <6>1. k - Len(p) \in DOMAIN q /\ (p \o q)[k] = q[k - Len(p)]
            BY <4>2, <4>3, <5>2
          <6> QED BY <6>1 DEF ToIds
        <5> QED BY <5>1, <5>2
      <4> QED BY <4>5 DEF p, q
    <3>3. n \in Statements(d) /\ d.root[n] = n /\ {} \in SUBSET V
      <4>1. Tops(d, d.combinational) /\ Tops(d, d.sequential)
        BY CombinationalTops
      <4>2. \A ids : Tops(d, ids) => \A m \in ToIds(ids) : m \in Statements(d) /\ d.root[m] = m
        BY TopsFacts DEF ToIds
      <4> QED BY <3>1, <3>2, <4>1, <4>2
    <3>4. v \in StatementWrites(d, n)
      <4>1. Flow(d)[n][{}].assigned \subseteq {} \cup StatementWrites(d, d.root[n])
        BY <3>3, FlowBounds
      <4> QED BY <3>1, <3>3, <4>1
    <3>5. v \in V /\ v \notin hidden
      <4>1. CASE n \in ToIds(d.combinational)
        <5>1. v \in Driven(d)
          BY <3>4, <4>1 DEF Driven, AllWrites
        <5> QED BY <5>1, TemporariesFacts DEF Temporaries
      <4>2. CASE n \in ToIds(d.sequential)
        <5>1. v \in EdgeAssigned(d)
          BY <3>1, <4>2 DEF EdgeAssigned
        <5>2. v \in V
          BY <3>4, WritesDeclared
        <5> QED BY <1>6, <5>1, <5>2 DEF Leftover
      <4> QED BY <3>1, <3>2, <4>1, <4>2
    <3>6. Word(d, e, v) = Word(d, f, v)
      BY <1>3, <3>5, WordAgrees
    <3> QED BY <3>6 DEF Satisfies
  <2> QED BY <1>4, <2>1
<1> QED BY <1>5, <1>6

-----------------------------------------------------------------------------
(* One generated model: a record of its variables, what its steps do, and  *)
(* what a call has come to in each of its phases.                          *)

\* The machine a call is running.
Running(m) == Machine(m.stack, m.env, m.pending)

Settling(d, m) ==
  \E results \in Stores(d) :
    /\ m.snapshot \in Stores(d)
    /\ Agree(d, Variables(d) \ Driven(d), m.snapshot, AppliedInputs(d, m.values, m.inputs))
    /\ Running(m) \in Reachable(Stepper(d), Machine(OrderCombinational(d).statements, m.snapshot, results))

Clocking(d, m) ==
  \E env \in Stores(d) :
    /\ Settled(d, m.values, m.inputs, env)
    /\ Running(m) \in Reachable(Stepper(d),
                                Machine(d.sequential, CaptureSampled(d, env), CaptureSampled(d, env)))

Evaluating(d, m) ==
  \E env \in Stores(d) : Settled(d, m.values, m.inputs, env) /\ m.env = CaptureSampled(d, env)

ModelType(d, m) ==
  /\ m.values \in Stores(d) /\ m.env \in Stores(d) /\ m.pending \in Stores(d)
  /\ m.inputs \in InputStores(d)
  /\ m.stack \in Seq(Statements(d))
  /\ m.call \in {"eval", "tick"}
  /\ m.phase \in {"idle", "settle", "sample", "sequential", "evaluate", "panicked"}

ModelOK(d, m) ==
  /\ ModelType(d, m)
  /\ m.phase = "settle"     => Settling(d, m)
  /\ m.phase = "sample"     => Settled(d, m.values, m.inputs, m.env)
  /\ m.phase = "sequential" => Clocking(d, m) /\ m.call = "tick"
  /\ m.phase = "evaluate"   => Evaluating(d, m) /\ m.call = "eval"
  /\ m.phase = "idle"       => m.call = "eval"

\* The steps, from m to n.
Keeps(m, n) == n.values = m.values /\ n.inputs = m.inputs /\ n.call = m.call
Begins(d, n, store) ==
  n.env = store /\ n.snapshot = store /\ n.stack = OrderCombinational(d).statements /\ n.phase = "settle"

CallStep(d, m, n, name, i) ==
  /\ m.phase = "idle" /\ i \in InputStores(d) /\ name \in {"eval", "tick"}
  /\ n.inputs = i /\ n.call = name /\ n.values = m.values /\ n.pending = m.pending
  /\ Begins(d, n, AppliedInputs(d, m.values, i))

ExecuteStep(d, m, n) ==
  LET after == ExecStep(d, Running(m)) IN
  /\ m.phase \in {"settle", "sequential"} /\ m.stack # <<>>
  /\ n.env = after.env /\ n.pending = after.pending /\ n.stack = after.stack
  /\ n.phase = IF after.panicked THEN "panicked" ELSE m.phase
  /\ n.snapshot = m.snapshot /\ Keeps(m, n)

EndPassStep(d, m, n) ==
  /\ m.phase = "settle" /\ m.stack = <<>>
  /\ n.pending = m.pending /\ Keeps(m, n)
  /\ \/ /\ ~ OrderCombinational(d).fixedPoint \/ m.env = m.snapshot
        /\ n.phase = "sample" /\ n.env = m.env /\ n.stack = m.stack
     \/ n.phase = "panicked" /\ n.env = m.env /\ n.stack = m.stack
     \/ Begins(d, n, m.env)

SampleStep(d, m, n) ==
  /\ m.phase = "sample" /\ Keeps(m, n)
  /\ n.env = CaptureSampled(d, m.env)
  /\ \/ /\ m.call = "tick" /\ n.phase = "sequential"
        /\ n.pending = n.env /\ n.stack = d.sequential
     \/ /\ m.call = "eval" /\ n.phase = "evaluate"
        /\ n.pending = m.pending /\ n.stack = m.stack

CommitStep(d, m, n) ==
  /\ m.phase = "sequential" /\ m.stack = <<>>
  /\ n.values = CopiedPending(d, m.env, m.pending)
  /\ Begins(d, n, AppliedInputs(d, n.values, m.inputs))
  /\ n.call = "eval" /\ n.inputs = m.inputs /\ n.pending = m.pending

EvaluateStep(d, m, n) ==
  /\ m.phase = "evaluate" /\ n.phase = "idle" /\ Keeps(m, n)
  /\ n.evaluation = Observed(d, m.env)
  /\ n.env = m.env /\ n.pending = m.pending /\ n.stack = m.stack

WorkStep(d, m, n) ==
  \/ ExecuteStep(d, m, n) \/ EndPassStep(d, m, n) \/ SampleStep(d, m, n)
  \/ CommitStep(d, m, n) \/ EvaluateStep(d, m, n)

\* A model that starts a pass settles from the store it starts with.
LEMMA BeginsSettling ==
  ASSUME NEW d, WellFormed(d), NEW n, NEW store \in Stores(d), Begins(d, n, store),
         n.values \in Stores(d), n.inputs \in InputStores(d), n.pending \in Stores(d),
         n.call \in {"eval", "tick"},
         Agree(d, Variables(d) \ Driven(d), store, AppliedInputs(d, n.values, n.inputs))
  PROVE  ModelOK(d, n)
<1> DEFINE ids == OrderCombinational(d).statements
<1>1. ids \in Seq(Statements(d))
  BY CombinationalTops DEF Tops
<1>2. n.env = store /\ n.snapshot = store /\ n.stack = ids /\ n.phase = "settle"
  BY DEF Begins
<1> HIDE DEF ids
<1>3. Running(n) = Machine(ids, store, n.pending)
  BY <1>2 DEF Running
<1>4. Machine(ids, store, n.pending) \in DOMAIN Stepper(d)
  BY <1>1, MachineType, StepperFacts
<1>5. Running(n) \in Reachable(Stepper(d), Machine(ids, store, n.pending))
  BY <1>3, <1>4, ReachableStart
<1>6. Settling(d, n)
  BY <1>2, <1>5 DEF Settling, ids
<1> QED BY <1>1, <1>2, <1>6 DEF ModelOK, ModelType

\* A call keeps the values, and starts to settle.
LEMMA CallKeeps ==
  ASSUME NEW d, WellFormed(d), NEW m, NEW n, NEW name, NEW i, ModelOK(d, m),
         CallStep(d, m, n, name, i)
  PROVE  ModelOK(d, n) /\ n.values = m.values /\ n.inputs = i /\ n.call = name /\ n.phase # "idle"
<1>1. /\ m.values \in Stores(d) /\ i \in InputStores(d) /\ n.pending \in Stores(d)
      /\ n.values = m.values /\ n.inputs = i /\ n.call = name /\ name \in {"eval", "tick"}
      /\ Begins(d, n, AppliedInputs(d, m.values, i))
  BY DEF ModelOK, ModelType, CallStep
<1>2. AppliedInputs(d, m.values, i) \in Stores(d)
  BY <1>1, AppliedType
<1>3. \A vs, x : Agree(d, vs, x, x)
  BY DEF Agree
<1>4. ModelOK(d, n)
  BY <1>1, <1>2, <1>3, BeginsSettling
<1>5. n.phase = "settle"
  BY <1>1 DEF Begins
<1> QED BY <1>1, <1>4, <1>5

\* A statement leads on in the run it is of.
LEMMA ExecuteKeeps ==
  ASSUME NEW d, WellFormed(d), NEW m, NEW n, ModelOK(d, m), ExecuteStep(d, m, n)
  PROVE  ModelOK(d, n) /\ n.phase # "idle" /\ m.phase # "idle"
<1> DEFINE x == Running(m)
           after == ExecStep(d, x)
<1>1. /\ m.phase \in {"settle", "sequential"}
      /\ n.env = after.env /\ n.pending = after.pending /\ n.stack = after.stack
      /\ n.phase = IF after.panicked THEN "panicked" ELSE m.phase
      /\ n.snapshot = m.snapshot /\ n.values = m.values /\ n.inputs = m.inputs /\ n.call = m.call
  BY DEF ExecuteStep, Keeps
<1>2. ModelType(d, m)
  BY DEF ModelOK
<1>3. x \in Machines(d)
  BY <1>2, MachineType DEF Running, ModelType
<1>4. after \in Machines(d) /\ Stepper(d)[x] = after
  BY <1>3, StepperFacts
<1>5. \A start : x \in Reachable(Stepper(d), start) => after \in Reachable(Stepper(d), start)
  BY <1>4, StepperFacts, ReachableStep
<1> HIDE DEF x, after
<1>6. /\ after.stack \in Seq(Statements(d)) /\ after.env \in Stores(d) /\ after.pending \in Stores(d)
      /\ after.panicked \in BOOLEAN
      /\ after = [stack |-> after.stack, env |-> after.env, pending |-> after.pending,
                  panicked |-> after.panicked]
  BY <1>4 DEF Machines
<1>7. ModelType(d, n)
  BY <1>1, <1>2, <1>6 DEF ModelType
<1>8. CASE after.panicked
  <2>1. n.phase = "panicked"
    BY <1>1, <1>8
  <2> QED BY <1>1, <1>7, <2>1 DEF ModelOK
<1>9. CASE ~ after.panicked
  <2>1. n.phase = m.phase /\ Running(n) = after
    BY <1>1, <1>6, <1>9 DEF Running, Machine
  <2>2. CASE m.phase = "settle"
    <3>1. Settling(d, m)
      BY <2>2 DEF ModelOK
    <3>2. Settling(d, n)
      BY <1>1, <1>5, <2>1, <3>1 DEF Settling, x
    <3> QED BY <1>7, <2>1, <2>2, <3>2 DEF ModelOK
  <2>3. CASE m.phase = "sequential"
    <3>1. Clocking(d, m) /\ m.call = "tick"
      BY <2>3 DEF ModelOK
    <3>2. Clocking(d, n)
      BY <1>1, <1>5, <2>1, <3>1 DEF Clocking, x
    <3> QED BY <1>1, <1>7, <2>1, <2>3, <3>1, <3>2 DEF ModelOK
  <2> QED BY <1>1, <2>2, <2>3
<1> QED BY <1>8, <1>9

\* The end of a pass: the logic has settled, or another pass starts where it ended.
LEMMA EndPassKeeps ==
  ASSUME NEW d, WellFormed(d), NEW m, NEW n, ModelOK(d, m), EndPassStep(d, m, n)
  PROVE  ModelOK(d, n) /\ n.phase # "idle" /\ m.phase # "idle"
<1> DEFINE ids == OrderCombinational(d).statements
           U == Variables(d) \ Driven(d)
<1>1. /\ m.phase = "settle" /\ m.stack = <<>>
      /\ n.pending = m.pending /\ n.values = m.values /\ n.inputs = m.inputs /\ n.call = m.call
  BY DEF EndPassStep, Keeps
<1>2. ModelType(d, m) /\ Settling(d, m)
  BY <1>1 DEF ModelOK
<1>3. PICK results \in Stores(d) :
        /\ m.snapshot \in Stores(d)
        /\ Agree(d, U, m.snapshot, AppliedInputs(d, m.values, m.inputs))
        /\ Running(m) \in Reachable(Stepper(d), Machine(ids, m.snapshot, results))
  BY <1>2 DEF Settling
<1>4. Finishes(d, ids, m.snapshot, results, Running(m)) /\ Running(m).env = m.env
  BY <1>1, <1>3 DEF Finishes, Running, Machine
<1>5. Running(m) \in Machines(d)
  BY <1>3, StepperFacts
<1> HIDE DEF ids, U
<1>6. Agree(d, U, m.env, m.snapshot)
  <2>1. Tops(d, ids) /\ ToIds(ids) = ToIds(d.combinational)
    BY CombinationalTops DEF ids
  <2>2. U \in SUBSET Variables(d)
    BY DEF U
  <2>3. \A l \in Locations(d) :
          (\A k \in ToIds(ids) : l \notin Footprint(d, k)) =>
            Running(m).env[l] = m.snapshot[l] /\ Running(m).pending[l] = results[l]
    BY <1>3, <1>4, <2>1, ListWritesOnly
  <2>4. ASSUME NEW l \in LocationsIn(d, U)
        PROVE  l \in Locations(d) /\ \A k \in ToIds(ids) : l \notin Footprint(d, k)
    <3>1. l \in Locations(d) /\ l[1] \in U
      BY <2>2, LocationVariable
    <3> QED BY <2>1, <3>1, FootprintWritten DEF U, Driven, AllWrites
  <2> QED BY <1>4, <2>3, <2>4 DEF Agree
<1>7. CASE (~ OrderCombinational(d).fixedPoint \/ m.env = m.snapshot)
           /\ n.phase = "sample" /\ n.env = m.env /\ n.stack = m.stack
  <2>1. SettledFrom(d, m.values, m.inputs, m.snapshot, results, Running(m), m.env)
    BY <1>3, <1>4, <1>7 DEF SettledFrom, ids, U
  <2>2. Settled(d, m.values, m.inputs, m.env)
    BY <1>3, <1>5, <2>1 DEF Settled
  <2>3. ModelType(d, n)
    BY <1>1, <1>2, <1>7 DEF ModelType
  <2> QED BY <1>1, <1>7, <2>2, <2>3 DEF ModelOK
<1>8. CASE n.phase = "panicked" /\ n.env = m.env /\ n.stack = m.stack
  <2>1. ModelType(d, n)
    BY <1>1, <1>2, <1>8 DEF ModelType
  <2> QED BY <1>1, <1>8, <2>1 DEF ModelOK
<1>9. CASE Begins(d, n, m.env)
  <2>1. Agree(d, U, m.env, AppliedInputs(d, n.values, n.inputs))
    BY <1>1, <1>3, <1>6 DEF Agree
  <2>2. n.phase = "settle"
    BY <1>9 DEF Begins
  <2>3. /\ m.env \in Stores(d) /\ n.values \in Stores(d) /\ n.inputs \in InputStores(d)
        /\ n.pending \in Stores(d) /\ n.call \in {"eval", "tick"}
    BY <1>1, <1>2 DEF ModelType
  <2>4. ModelOK(d, n)
    BY <1>9, <2>1, <2>3, BeginsSettling DEF U
  <2> QED BY <1>1, <2>2, <2>4
<1> QED BY <1>7, <1>8, <1>9 DEF EndPassStep

\* Samples are taken of a settled store.
LEMMA SampleKeeps ==
  ASSUME NEW d, WellFormed(d), NEW m, NEW n, ModelOK(d, m), SampleStep(d, m, n)
  PROVE  ModelOK(d, n) /\ n.phase # "idle" /\ m.phase # "idle"
<1> DEFINE e == CaptureSampled(d, m.env)
<1>1. /\ m.phase = "sample" /\ n.env = e
      /\ n.values = m.values /\ n.inputs = m.inputs /\ n.call = m.call
  BY DEF SampleStep, Keeps
<1>2. ModelType(d, m) /\ Settled(d, m.values, m.inputs, m.env)
  BY <1>1 DEF ModelOK
<1>3. m.env \in Stores(d) /\ e \in Stores(d)
  BY <1>2, SamplesType DEF ModelType
<1> HIDE DEF e
<1>4. CASE m.call = "tick" /\ n.phase = "sequential" /\ n.pending = n.env /\ n.stack = d.sequential
  <2>1. d.sequential \in Seq(Statements(d))
    BY CombinationalTops DEF Tops
  <2>2. ModelType(d, n)
    BY <1>1, <1>2, <1>3, <1>4, <2>1 DEF ModelType
  <2>3. Running(n) = Machine(d.sequential, e, e)
    BY <1>1, <1>4 DEF Running
  <2>4. Machine(d.sequential, e, e) \in DOMAIN Stepper(d)
    BY <1>3, <2>1, MachineType, StepperFacts
  <2>5. Running(n) \in Reachable(Stepper(d), Machine(d.sequential, e, e))
    BY <2>3, <2>4, ReachableStart
  <2>6. Clocking(d, n)
    BY <1>1, <1>2, <1>3, <2>5 DEF Clocking, e
  <2> QED BY <1>1, <1>4, <2>2, <2>6 DEF ModelOK
<1>5. CASE m.call = "eval" /\ n.phase = "evaluate" /\ n.pending = m.pending /\ n.stack = m.stack
  <2>1. ModelType(d, n)
    BY <1>1, <1>2, <1>3, <1>5 DEF ModelType
  <2>2. Evaluating(d, n)
    BY <1>1, <1>2, <1>3 DEF Evaluating, e
  <2> QED BY <1>1, <1>5, <2>1, <2>2 DEF ModelOK
<1> QED BY <1>4, <1>5 DEF SampleStep

\* The end of run_sequential: the values have taken an edge.
LEMMA CommitKeeps ==
  ASSUME NEW d, WellFormed(d), NEW m, NEW n, ModelOK(d, m), CommitStep(d, m, n)
  PROVE  /\ ModelOK(d, n) /\ n.phase # "idle" /\ m.phase # "idle"
         /\ m.call = "tick" /\ Edge(d, m.values, m.inputs, n.values)
<1>1. /\ m.phase = "sequential" /\ m.stack = <<>>
      /\ n.values = CopiedPending(d, m.env, m.pending)
      /\ Begins(d, n, AppliedInputs(d, n.values, m.inputs))
      /\ n.inputs = m.inputs /\ n.pending = m.pending /\ n.call = "eval"
  BY DEF CommitStep
<1>2. ModelType(d, m) /\ Clocking(d, m) /\ m.call = "tick"
  BY <1>1 DEF ModelOK
<1>3. PICK env \in Stores(d) :
        /\ Settled(d, m.values, m.inputs, env)
        /\ Running(m) \in Reachable(Stepper(d),
                                    Machine(d.sequential, CaptureSampled(d, env), CaptureSampled(d, env)))
  BY <1>2 DEF Clocking
<1>4. /\ Finishes(d, d.sequential, CaptureSampled(d, env), CaptureSampled(d, env), Running(m))
      /\ Running(m).env = m.env /\ Running(m).pending = m.pending
  BY <1>1, <1>3 DEF Finishes, Running, Machine
<1>5. Running(m) \in Machines(d)
  BY <1>3, StepperFacts
<1>6. Edge(d, m.values, m.inputs, n.values)
  BY <1>1, <1>3, <1>4, <1>5 DEF Edge, EdgeFrom
<1>7. /\ m.env \in Stores(d) /\ m.pending \in Stores(d) /\ m.inputs \in InputStores(d)
      /\ n.values \in Stores(d)
  BY <1>1, <1>2, CopiedType DEF ModelType
<1>8. AppliedInputs(d, n.values, m.inputs) \in Stores(d)
  BY <1>7, AppliedType
<1>9. \A vs, x : Agree(d, vs, x, x)
  BY DEF Agree
<1>10. ModelOK(d, n)
  BY <1>1, <1>7, <1>8, <1>9, BeginsSettling
<1>11. n.phase = "settle"
  BY <1>1 DEF Begins
<1> QED BY <1>1, <1>2, <1>6, <1>10, <1>11

\* The end of a call: the evaluation is of what the values settle to.
LEMMA EvaluateKeeps ==
  ASSUME NEW d, WellFormed(d), NEW m, NEW n, ModelOK(d, m), EvaluateStep(d, m, n)
  PROVE  ModelOK(d, n) /\ m.phase # "idle" /\ Evaluated(d, n.values, n.inputs, n.evaluation)
<1>1. /\ m.phase = "evaluate" /\ n.phase = "idle"
      /\ n.values = m.values /\ n.inputs = m.inputs /\ n.call = m.call
      /\ n.evaluation = Observed(d, m.env)
      /\ n.env = m.env /\ n.pending = m.pending /\ n.stack = m.stack
  BY DEF EvaluateStep, Keeps
<1>2. ModelType(d, m) /\ Evaluating(d, m) /\ m.call = "eval"
  BY <1>1 DEF ModelOK
<1>3. ModelType(d, n)
  BY <1>1, <1>2 DEF ModelType
<1>4. Evaluated(d, n.values, n.inputs, n.evaluation)
  BY <1>1, <1>2 DEF Evaluating, Evaluated
<1> QED BY <1>1, <1>2, <1>3, <1>4 DEF ModelOK

\* What a step of a call does to what the other calls see.
LEMMA WorkKeeps ==
  ASSUME NEW d, WellFormed(d), NEW m, NEW n, ModelOK(d, m), WorkStep(d, m, n)
  PROVE  /\ ModelOK(d, n) /\ m.phase # "idle" /\ n.inputs = m.inputs
         /\ \/ n.values = m.values /\ n.call = m.call
            \/ m.call = "tick" /\ n.call = "eval" /\ Edge(d, m.values, m.inputs, n.values)
         /\ n.phase = "idle" => Evaluated(d, n.values, n.inputs, n.evaluation)
<1>1. CASE ExecuteStep(d, m, n)
  BY <1>1, ExecuteKeeps DEF ExecuteStep, Keeps
<1>2. CASE EndPassStep(d, m, n)
  BY <1>2, EndPassKeeps DEF EndPassStep, Keeps
<1>3. CASE SampleStep(d, m, n)
  BY <1>3, SampleKeeps DEF SampleStep, Keeps
<1>4. CASE CommitStep(d, m, n)
  BY <1>4, CommitKeeps DEF CommitStep
<1>5. CASE EvaluateStep(d, m, n)
  BY <1>5, EvaluateKeeps DEF EvaluateStep, Keeps
<1> QED BY <1>1, <1>2, <1>3, <1>4, <1>5 DEF WorkStep

-----------------------------------------------------------------------------
(* Two models of one design side by side, as records a and b; t is how far *)
(* the observer has got with them.                                         *)

\* The values a model held before the call it is in, or has just ended.
After(d, old, m) ==
  \/ m.call = "tick" /\ m.values = old
  \/ m.call = "eval" /\ Edge(d, old, m.inputs, m.values)

Matching(d, a, b, t) ==
  /\ Agree(d, Shown(d, Temporaries(d)), a.values, b.values)
  /\ t = "ticked" => Agree(d, Shown(d, Leftover(d)), a.values, b.values)

Alongside(d, a, b, t) ==
  \/ a.call = "eval" /\ b.call = "eval" /\ Matching(d, a, b, t)
  \/ /\ t = "ticked"
     /\ \E old, other \in Stores(d) :
          /\ Agree(d, Shown(d, Temporaries(d)), old, other)
          /\ After(d, old, a) /\ After(d, other, b)

Answered(d, m) == m.phase = "idle" => Evaluated(d, m.values, m.inputs, m.evaluation)

Joint(d, a, b, t) ==
  /\ ModelOK(d, a) /\ ModelOK(d, b)
  /\ Agree(d, Untouched(d), a.values, b.values)
  /\ t \in {"called", "ticked"} => a.inputs = b.inputs /\ Answered(d, a) /\ Answered(d, b)
  /\ t # "apart" /\ LatchFree(d) /\ CycleFree(d) => Alongside(d, a, b, t)

\* The relation has no first and second.
LEMMA JointSymmetric ==
  ASSUME NEW d, NEW a, NEW b, NEW t, Joint(d, a, b, t)
  PROVE  Joint(d, b, a, t)
<1>1. \A vs, x, y : Agree(d, vs, x, y) => Agree(d, vs, y, x)
  BY DEF Agree
<1>2. Alongside(d, a, b, t) => Alongside(d, b, a, t)
  BY <1>1 DEF Alongside, Matching
<1> QED BY <1>1, <1>2 DEF Joint

\* What two models at rest have in common.
LEMMA JointRests ==
  ASSUME NEW d, WellFormed(d), Supported(d), LatchFree(d), CycleFree(d),
         NEW a, NEW b, NEW t, Joint(d, a, b, t), t # "apart", a.phase = "idle", b.phase = "idle"
  PROVE  a.call = "eval" /\ b.call = "eval" /\ Matching(d, a, b, t)
<1>1. a.call = "eval" /\ b.call = "eval" /\ Alongside(d, a, b, t)
  BY DEF Joint, ModelOK
<1>2. CASE Matching(d, a, b, t)
  BY <1>1, <1>2
<1>3. CASE t = "ticked" /\ \E old, other \in Stores(d) :
             /\ Agree(d, Shown(d, Temporaries(d)), old, other)
             /\ After(d, old, a) /\ After(d, other, b)
  <2>1. PICK old \in Stores(d), other \in Stores(d) :
          /\ Agree(d, Shown(d, Temporaries(d)), old, other)
          /\ After(d, old, a) /\ After(d, other, b)
    BY <1>3
  <2>2. a.inputs = b.inputs /\ a.inputs \in InputStores(d)
    BY <1>3 DEF Joint, ModelOK, ModelType
  <2>3. Edge(d, old, a.inputs, a.values) /\ Edge(d, other, a.inputs, b.values)
    BY <1>1, <2>1, <2>2 DEF After
  <2>4. Agree(d, Shown(d, Leftover(d)), a.values, b.values)
    BY <2>1, <2>2, <2>3, EdgesAgree
  <2>5. Agree(d, Shown(d, Temporaries(d)), a.values, b.values)
    BY <2>4, ShownFacts, AgreeLess
  <2> QED BY <1>1, <2>4, <2>5 DEF Matching
<1> QED BY <1>1, <1>2, <1>3 DEF Alongside

\* A step of one of them.
LEMMA JointWorks ==
  ASSUME NEW d, WellFormed(d), NEW a, NEW b, NEW t, Joint(d, a, b, t),
         NEW n, WorkStep(d, a, n)
  PROVE  Joint(d, n, b, t)
<1>1. ModelOK(d, a) /\ ModelOK(d, b)
  BY DEF Joint
<1>2. /\ ModelOK(d, n) /\ n.inputs = a.inputs
      /\ \/ n.values = a.values /\ n.call = a.call
         \/ a.call = "tick" /\ n.call = "eval" /\ Edge(d, a.values, a.inputs, n.values)
      /\ Answered(d, n)
  BY <1>1, WorkKeeps DEF Answered
<1>3. a.values \in Stores(d) /\ a.inputs \in InputStores(d)
  BY <1>1 DEF ModelOK, ModelType
<1>4. Agree(d, Untouched(d), n.values, b.values)
  <2>1. Agree(d, Untouched(d), a.values, b.values)
    BY DEF Joint
  <2>2. CASE n.values = a.values
    BY <2>1, <2>2
  <2>3. CASE Edge(d, a.values, a.inputs, n.values)
    <3>1. Agree(d, Untouched(d), n.values, a.values)
      BY <1>3, <2>3, EdgeKeeps
    <3> QED BY <2>1, <3>1 DEF Agree
  <2> QED BY <1>2, <2>2, <2>3
<1>5. Alongside(d, a, b, t) => Alongside(d, n, b, t)
  <2>1. a.call = "eval" /\ Matching(d, a, b, t) => n.call = "eval" /\ Matching(d, n, b, t)
    BY <1>2 DEF Matching
  <2>2. \A old : After(d, old, a) => After(d, old, n)
    BY <1>2 DEF After
  <2> QED BY <2>1, <2>2 DEF Alongside
<1> QED BY <1>1, <1>2, <1>4, <1>5 DEF Joint

\* A call of one of them before they are compared.
LEMMA JointApart ==
  ASSUME NEW d, WellFormed(d), NEW a, NEW b, Joint(d, a, b, "apart"),
         NEW n, NEW name, NEW i, CallStep(d, a, n, name, i)
  PROVE  Joint(d, n, b, "apart")
<1>1. ModelOK(d, a) /\ ModelOK(d, b) /\ Agree(d, Untouched(d), a.values, b.values)
  BY DEF Joint
<1>2. ModelOK(d, n) /\ n.values = a.values
  BY <1>1, CallKeeps
<1> QED BY <1>1, <1>2 DEF Joint

\* The observer starts to compare them.
LEMMA JointJoins ==
  ASSUME NEW d, WellFormed(d), Supported(d), NEW a, NEW b, Joint(d, a, b, "apart"),
         a.phase = "idle", b.phase = "idle", Agree(d, Registers(d), a.values, b.values)
  PROVE  Joint(d, a, b, "joined")
<1>1. /\ ModelOK(d, a) /\ ModelOK(d, b) /\ Agree(d, Untouched(d), a.values, b.values)
      /\ a.call = "eval" /\ b.call = "eval"
  BY DEF Joint, ModelOK
<1>2. Agree(d, Shown(d, Temporaries(d)), a.values, b.values)
  <2>1. Agree(d, Untouched(d) \cup Registers(d), a.values, b.values)
    <3>1. LocationsIn(d, Untouched(d) \cup Registers(d)) =
            LocationsIn(d, Untouched(d)) \cup LocationsIn(d, Registers(d))
      BY DEF LocationsIn
    <3> QED BY <1>1, <3>1 DEF Agree
  <2> QED BY <2>1, ShownFacts, AgreeLess
<1>3. Alongside(d, a, b, "joined")
  BY <1>1, <1>2 DEF Alongside, Matching
<1> QED BY <1>1, <1>3 DEF Joint

\* The observer calls both with the same inputs.
LEMMA JointCalls ==
  ASSUME NEW d, WellFormed(d), Supported(d), NEW a, NEW b, NEW t, Joint(d, a, b, t), t # "apart",
         NEW m, NEW n, NEW name \in {"tick", "eval"}, NEW i,
         CallStep(d, a, m, name, i), CallStep(d, b, n, name, i)
  PROVE  Joint(d, m, n, IF name = "tick" \/ t = "ticked" THEN "ticked" ELSE "called")
<1> DEFINE u == IF name = "tick" \/ t = "ticked" THEN "ticked" ELSE "called"
<1>1. ModelOK(d, a) /\ ModelOK(d, b) /\ Agree(d, Untouched(d), a.values, b.values)
  BY DEF Joint
<1>2. /\ ModelOK(d, m) /\ m.values = a.values /\ m.inputs = i /\ m.call = name /\ m.phase # "idle"
      /\ ModelOK(d, n) /\ n.values = b.values /\ n.inputs = i /\ n.call = name /\ n.phase # "idle"
      /\ a.phase = "idle" /\ b.phase = "idle"
  BY <1>1, CallKeeps DEF CallStep
<1>3. ASSUME LatchFree(d), CycleFree(d)
      PROVE  Alongside(d, m, n, u)
  <2>1. Matching(d, a, b, t)
    BY <1>2, <1>3, JointRests
  <2>2. CASE name = "tick"
    <3>1. a.values \in Stores(d) /\ b.values \in Stores(d)
      BY <1>1 DEF ModelOK, ModelType
    <3>2. After(d, a.values, m) /\ After(d, b.values, n)
      BY <1>2, <2>2 DEF After
    <3> QED BY <2>1, <2>2, <3>1, <3>2 DEF Alongside, Matching
  <2>3. CASE name = "eval"
    <3>1. u = "ticked" => t = "ticked"
      BY <2>3
    <3> QED BY <1>2, <2>1, <2>3, <3>1 DEF Alongside, Matching
  <2> QED BY <2>2, <2>3
<1> QED BY <1>1, <1>2, <1>3 DEF Joint, Answered

\* What the observer then sees.
LEMMA JointShows ==
  ASSUME NEW d, WellFormed(d), Supported(d), LatchFree(d), CycleFree(d),
         NEW a, NEW b, NEW t, Joint(d, a, b, t), t # "apart", a.phase = "idle", b.phase = "idle"
  PROVE  /\ Agree(d, Registers(d), a.values, b.values)
         /\ t \in {"called", "ticked"} => a.evaluation.outputs = b.evaluation.outputs
         /\ t = "ticked" /\ PropertiesAssigned(d) => a.evaluation.properties = b.evaluation.properties
<1>1. Matching(d, a, b, t)
  BY JointRests
<1>2. Agree(d, Registers(d), a.values, b.values)
  BY <1>1, ShownFacts, AgreeLess DEF Matching
<1>3. a.values \in Stores(d) /\ b.values \in Stores(d) /\ a.inputs \in InputStores(d)
  BY DEF Joint, ModelOK, ModelType
<1>4. ASSUME t \in {"called", "ticked"}
      PROVE  Evaluated(d, a.values, a.inputs, a.evaluation) /\ Evaluated(d, b.values, a.inputs, b.evaluation)
  BY <1>4 DEF Joint, Answered
<1>5. ASSUME t \in {"called", "ticked"}
      PROVE  a.evaluation.outputs = b.evaluation.outputs
  <2>1. Agree(d, Shown(d, Temporaries(d)), a.values, b.values)
    BY <1>1 DEF Matching
  <2> QED BY <1>3, <1>4, <1>5, <2>1, EvaluationsAgree
<1>6. ASSUME t = "ticked", PropertiesAssigned(d)
      PROVE  a.evaluation.properties = b.evaluation.properties
  <2>1. Agree(d, Shown(d, Leftover(d)), a.values, b.values)
    BY <1>1, <1>6 DEF Matching
  <2>2. Leftover(d) \in SUBSET Temporaries(d)
    BY ShownFacts
  <2> QED BY <1>3, <1>4, <1>6, <2>1, <2>2, EvaluationsAgree
<1> QED BY <1>2, <1>5, <1>6

-----------------------------------------------------------------------------
(* The two models are instances of the module Simulator, with operators of *)
(* their own: those are the operators the lemmas are about.                *)

\* The analyses, the steps and what is shown are the same operators.
LEMMA SameOperatorsA ==
  ASSUME NEW d
  PROVE  /\ A!Supported(d) = Supported(d) /\ A!OrderCombinational(d) = OrderCombinational(d)
         /\ A!Registers(d) = Registers(d) /\ A!Nonblocking(d) = Nonblocking(d)
         /\ A!InputIds(d) = InputIds(d) /\ A!OutputIds(d) = OutputIds(d)
         /\ A!LocationsIn(d, InputIds(d)) = LocationsIn(d, InputIds(d))
         /\ A!Locations(d) = Locations(d) /\ A!Inputs(d) = InputStores(d)
         /\ \A m : A!ExecStep(d, m) = ExecStep(d, m)
         /\ \A ids, store, results : A!Machine(ids, store, results) = Machine(ids, store, results)
         /\ \A store : A!CaptureSampled(d, store) = CaptureSampled(d, store)
         /\ \A vs, store : A!Project(d, vs, store) = Project(d, vs, store)
         /\ \A store : A!MakeEvaluation(d, store) = Observed(d, store)
<1>1. A!Supported(d) = Supported(d)
  BY DEF
    A!Supported, Supported, A!AnalyzeError, AnalyzeError, A!Overlap, Overlap, A!Processes,
    Processes, A!Footprint, Footprint, A!TargetFootprint, TargetFootprint, A!TargetRegions,
    TargetRegions, A!ElementRegions, ElementRegions, A!ToUsize, ToUsize, A!ElementWidth,
    ElementWidth, A!SelectRegions, SelectRegions, A!AssignmentsIn, AssignmentsIn, A!Inside,
    Inside, A!Statements, Statements, A!Blocking, Blocking, A!AssignedBy, AssignedBy, A!ToIds,
    ToIds, A!Nonblocking, Nonblocking, A!AllWrites, AllWrites, A!StatementWrites,
    StatementWrites, A!CrossProcessRead, CrossProcessRead, A!OwnsBitOf, OwnsBitOf,
    A!StatementReads, StatementReads, A!TargetReads, TargetReads, A!IsWhole, IsWhole,
    A!ExpressionReads, ExpressionReads
<1>2. A!OrderCombinational(d) = OrderCombinational(d)
  BY DEF
    A!OrderCombinational, OrderCombinational, A!OrderFrom, OrderFrom, A!ReadyStatement,
    ReadyStatement, A!SelectInSeq, SelectInSeq, A!Min, Min, A!StatementReads, StatementReads,
    A!TargetReads, TargetReads, A!IsWhole, IsWhole, A!ExpressionReads, ExpressionReads,
    A!Inside, Inside, A!Statements, Statements, A!RemoveAt, RemoveAt, A!StatementWrites,
    StatementWrites, A!AssignmentsIn, AssignmentsIn, A!Variables, Variables, A!AllWrites,
    AllWrites, A!ToIds, ToIds
<1>3. A!Registers(d) = Registers(d) /\ A!Nonblocking(d) = Nonblocking(d)
  BY DEF
    A!Registers, Registers, A!LiveIn, LiveIn, A!Flow, Flow, A!Statements, Statements,
    A!Variables, Variables, A!AnalyzeStatement, AnalyzeStatement, A!AnalyzeStatements,
    AnalyzeStatements, A!FoldLeft, FoldLeft, A!MapThenFoldSet, MapThenFoldSet, A!Max, Max,
    A!Nonblocking, Nonblocking, A!AssignedBy, AssignedBy, A!AssignmentsIn, AssignmentsIn,
    A!Inside, Inside, A!ToIds, ToIds, A!IsWhole, IsWhole, A!TargetReads, TargetReads,
    A!ExpressionReads, ExpressionReads, A!StatementWrites, StatementWrites, A!Blocking,
    Blocking, A!OutsideReads, OutsideReads, A!AllReads, AllReads, A!StatementReads,
    StatementReads
<1>4. /\ A!InputIds(d) = InputIds(d) /\ A!OutputIds(d) = OutputIds(d)
      /\ A!LocationsIn(d, InputIds(d)) = LocationsIn(d, InputIds(d))
      /\ A!Locations(d) = Locations(d)
  BY DEF
    A!InputIds, InputIds, A!Variables, Variables, A!OutputIds, OutputIds, A!LocationsIn,
    LocationsIn, A!LocationsOf, LocationsOf, A!Locations, Locations
<1>5. A!Inputs(d) = InputStores(d)
  BY DEF
    A!InputIds, InputIds, A!Variables, Variables, A!StoresOf, StoresOf, A!LocationsIn,
    LocationsIn, A!LocationsOf, LocationsOf, A!Bit, Bit, A!Inputs, InputStores
<1>6. ASSUME NEW m PROVE A!ExecStep(d, m) = ExecStep(d, m)
  <2>1. \A e, store : A!Eval(d, e, store) = Eval(d, e, store)
    BY DEF
      A!Eval, Eval, A!Word, Word, A!Truthy, Truthy, A!BitOf, BitOf, A!ToUsize, ToUsize
  <2>2. /\ \A bits : A!ToUsize(bits) = ToUsize(bits) /\ A!Truthy(bits) = Truthy(bits)
        /\ \A bits, i : A!BitOf(bits, i) = BitOf(bits, i)
        /\ \A v : A!ElementWidth(d, v) = ElementWidth(d, v) /\ A!LocationsOf(d, v) = LocationsOf(d, v)
        /\ \A t : A!TargetWidth(d, t) = TargetWidth(d, t)
    BY DEF
      A!ToUsize, ToUsize, A!Truthy, Truthy, A!BitOf, BitOf, A!ElementWidth, ElementWidth,
      A!LocationsOf, LocationsOf, A!TargetWidth, TargetWidth
  <2>3. ASSUME NEW t, NEW store
        PROVE  A!TargetStart(d, t, store) = TargetStart(d, t, store)
    <3> DEFINE at(index) == CHOOSE k \in DOMAIN d.indices[t.var] : d.indices[t.var][k] = index
               start(index, offset) ==
                 (IF t.index = <<>> THEN 0 ELSE (at(index) - 1) * ElementWidth(d, t.var))
                   + (IF t.select = <<>> THEN 0 ELSE offset)
    <3>1. TargetStart(d, t, store) =
            start(ToUsize(Eval(d, t.index[1], store)), ToUsize(Eval(d, t.select[1].offset, store)))
      BY DEF TargetStart
    <3>2. A!TargetStart(d, t, store) =
            start(A!ToUsize(A!Eval(d, t.index[1], store)),
                  A!ToUsize(A!Eval(d, t.select[1].offset, store)))
      BY DEF A!TargetStart, A!ElementWidth, ElementWidth
    <3> HIDE DEF at
    <3> QED BY <2>1, <2>2, <3>1, <3>2
  <2>4. ASSUME NEW t, NEW store
        PROVE  /\ A!IndexDeclared(d, t, store) = IndexDeclared(d, t, store)
               /\ A!Destination(d, t, store) = Destination(d, t, store)
    <3>1. A!IndexDeclared(d, t, store) = IndexDeclared(d, t, store)
      BY <2>1, <2>2 DEF A!IndexDeclared, IndexDeclared
    <3> QED BY <2>2, <2>3, <3>1 DEF A!Destination, Destination
  <2>5. ASSUME NEW s, NEW value, NEW to, NEW store
        PROVE  A!StoreBits(d, to, s.target, value, store) = StoreBits(d, to, s.target, value, store)
    BY <2>2, <2>3, <2>4 DEF A!StoreBits, StoreBits
  <2>6. ASSUME NEW s, NEW store, NEW results, NEW rest
        PROVE  /\ A!AssignEnv(d, s, store) = AssignEnv(d, s, store)
               /\ A!AssignPending(d, s, store, results) = AssignPending(d, s, store, results)
               /\ A!Unfold(d, s, store, rest) = Unfold(d, s, store, rest)
               /\ A!Panics(d, s, store) = Panics(d, s, store)
    <3>1. A!AssignEnv(d, s, store) = AssignEnv(d, s, store)
      BY <2>1, <2>5 DEF A!AssignEnv, AssignEnv
    <3>2. A!AssignPending(d, s, store, results) = AssignPending(d, s, store, results)
      BY <2>1, <2>5 DEF A!AssignPending, AssignPending
    <3>3. A!Unfold(d, s, store, rest) = Unfold(d, s, store, rest)
      BY <2>1, <2>2 DEF A!Unfold, Unfold
    <3>4. A!Panics(d, s, store) = Panics(d, s, store)
      BY <2>4 DEF A!Panics, Panics
    <3> QED BY <3>1, <3>2, <3>3, <3>4
  <2> QED BY <2>6 DEF A!ExecStep, ExecStep
<1>7. ASSUME NEW ids, NEW store, NEW results PROVE A!Machine(ids, store, results) = Machine(ids, store, results)
  BY DEF
    A!Machine, Machine
<1>8. ASSUME NEW store PROVE A!CaptureSampled(d, store) = CaptureSampled(d, store)
  BY DEF
    A!CaptureSampled, CaptureSampled, A!Cardinality, Cardinality, A!BitOf, BitOf, A!Eval, Eval,
    A!Word, Word, A!ToUsize, ToUsize, A!Truthy, Truthy
<1>9. ASSUME NEW vs, NEW store PROVE A!Project(d, vs, store) = Project(d, vs, store)
  BY DEF
    A!Project, Project, A!LocationsIn, LocationsIn, A!LocationsOf, LocationsOf
<1>10. ASSUME NEW store PROVE A!MakeEvaluation(d, store) = Observed(d, store)
  BY DEF
    A!Project, Project, A!LocationsIn, LocationsIn, A!LocationsOf, LocationsOf, A!OutputIds,
    OutputIds, A!Variables, Variables, A!Truthy, Truthy, A!Word, Word,
    A!MakeEvaluation, Observed, A!Holds, Satisfies
<1> QED BY <1>1, <1>2, <1>3, <1>4, <1>5, <1>6, <1>7, <1>8, <1>9, <1>10

\* Runs are recursive functions: both are the one iteration there is.
LEMMA SameRunA ==
  ASSUME NEW d, WellFormed(d), NEW ids \in Seq(Statements(d)), NEW store \in Stores(d),
         A!Statements(d) = Statements(d),
         A!Machine(ids, store, store) = Machine(ids, store, store),
         \A m : A!ExecStep(d, m) = ExecStep(d, m),
         A!Cardinality(Statements(d)) = Cardinality(Statements(d))
  PROVE  A!Run(d, ids, store) = Run(d, ids, store)
<1> DEFINE N == Cardinality(Statements(d))
           start == Machine(ids, store, store)
           now(m) == IF m = m THEN m ELSE start
           nowA(m) == IF m = m THEN m ELSE A!Machine(ids, store, store)
           after[k \in 0 .. N] == IF k = 0 THEN start ELSE now(ExecStep(d, after[k - 1]))
           afterA[k \in 0 .. A!Cardinality(A!Statements(d))] ==
             IF k = 0 THEN A!Machine(ids, store, store) ELSE nowA(A!ExecStep(d, afterA[k - 1]))
           step == [k \in 1 .. N |-> [m \in Machines(d) |-> ExecStep(d, m)]]
<1>1. N \in Nat
  BY FS_CardinalityType DEF WellFormed
<1>2. start \in Machines(d)
  BY DEF Machine, Machines
<1>3. \A m : now(m) = m /\ nowA(m) = m
  OBVIOUS
<1>4. Run(d, ids, store) = after[N]
  BY DEF Run
<1>5. A!Run(d, ids, store) = afterA[A!Cardinality(A!Statements(d))]
  BY DEF A!Run
<1>6. A!Cardinality(A!Statements(d)) = N /\ A!Machine(ids, store, store) = start
  OBVIOUS
<1>7. \A m : A!ExecStep(d, m) = ExecStep(d, m)
  OBVIOUS
<1> HIDE DEF now, nowA, start, N, after, afterA
<1>8. step \in Steps(N, Machines(d))
  BY ExecStepType DEF Steps
<1> HIDE DEF step
<1>9. PICK g : Iterates(g, N, Machines(d), start, step)
  BY ONLY <1>1, <1>2, <1>8, IterationExists
<1>10. /\ g = [k \in 0 .. N |-> IF k = 0 THEN start ELSE step[k][g[k - 1]]]
       /\ \A k \in 0 .. N : g[k] \in Machines(d)
       /\ \A k \in 1 .. N : k - 1 \in 0 .. N /\ g[k - 1] \in Machines(d)
  BY ONLY <1>1, <1>9, IterationValues
<1>11. \A k \in 1 .. N : /\ step[k][g[k - 1]] = now(ExecStep(d, g[k - 1]))
                         /\ step[k][g[k - 1]] = nowA(A!ExecStep(d, g[k - 1]))
  <2>1. \A k \in 1 .. N : step[k][g[k - 1]] = ExecStep(d, g[k - 1])
    <3> SUFFICES ASSUME NEW k \in 1 .. N PROVE step[k][g[k - 1]] = ExecStep(d, g[k - 1])
      OBVIOUS
    <3>1. g[k - 1] \in Machines(d)
      BY <1>10
    <3>2. \A m \in Machines(d) : step[k][m] = ExecStep(d, m)
      BY DEF step
    <3> QED BY <3>1, <3>2
  <2> QED BY <1>3, <1>7, <2>1
<1>12. \A k \in 0 .. N : k = 0 \/ k \in 1 .. N
  BY <1>1
<1>13. g = [k \in 0 .. N |-> IF k = 0 THEN start ELSE now(ExecStep(d, g[k - 1]))]
  BY <1>10, <1>11, <1>12
<1>14. g = [k \in 0 .. N |-> IF k = 0 THEN start ELSE nowA(A!ExecStep(d, g[k - 1]))]
  BY <1>10, <1>11, <1>12
<1>15. g = [k \in 0 .. A!Cardinality(A!Statements(d)) |->
              IF k = 0 THEN A!Machine(ids, store, store) ELSE nowA(A!ExecStep(d, g[k - 1]))]
  BY <1>14, <1>6
<1>16. after = [k \in 0 .. N |-> IF k = 0 THEN start ELSE now(ExecStep(d, after[k - 1]))]
  BY <1>13 DEF after
<1>17. afterA = [k \in 0 .. A!Cardinality(A!Statements(d)) |->
                   IF k = 0 THEN A!Machine(ids, store, store) ELSE nowA(A!ExecStep(d, afterA[k - 1]))]
  BY <1>15 DEF afterA
<1>18. afterA = [k \in 0 .. N |-> IF k = 0 THEN start ELSE nowA(A!ExecStep(d, afterA[k - 1]))]
  BY <1>17, <1>6
<1>19. after[0] = afterA[0]
  BY <1>1, <1>18, <1>16
<1>20. ASSUME NEW k \in 1 .. N, after[k - 1] = afterA[k - 1]
       PROVE  after[k] = afterA[k]
  <2>1. after[k] = now(ExecStep(d, after[k - 1]))
    BY <1>1, <1>16
  <2>2. afterA[k] = nowA(A!ExecStep(d, afterA[k - 1]))
    BY <1>1, <1>18
  <2> QED BY <1>3, <1>20, <2>1, <2>2, <1>7
<1> DEFINE same == [k \in 0 .. N |-> IF after[k] = afterA[k] THEN 1 ELSE 0]
<1>21. \A k \in 0 .. N : same[k] \in {1}
  <2>1. same[0] \in {1}
    BY <1>1, <1>19
  <2>2. ASSUME NEW k \in 1 .. N, same[k - 1] \in {1} PROVE same[k] \in {1}
    <3>1. k \in 0 .. N /\ k - 1 \in 0 .. N
      BY <1>1
    <3>2. after[k - 1] = afterA[k - 1]
      BY <2>2, <3>1
    <3> QED BY <1>20, <3>1, <3>2
  <2> DEFINE yes == {1}
  <2> HIDE DEF same, yes
  <2>3. same[0] \in yes /\ \A k \in 1 .. N : same[k - 1] \in yes => same[k] \in yes
    BY <2>1, <2>2 DEF yes
  <2>4. \A k \in 0 .. N : same[k] \in yes
    BY ONLY <1>1, <2>3, IterationInvariant
  <2> QED BY <2>4 DEF yes
<1>22. after[N] = afterA[N]
  BY <1>1, <1>21
<1> QED BY <1>4, <1>5, <1>6, <1>22

\* The same for the other model.
LEMMA SameOperatorsB ==
  ASSUME NEW d
  PROVE  /\ B!Supported(d) = Supported(d) /\ B!OrderCombinational(d) = OrderCombinational(d)
         /\ B!Registers(d) = Registers(d) /\ B!Nonblocking(d) = Nonblocking(d)
         /\ B!InputIds(d) = InputIds(d) /\ B!OutputIds(d) = OutputIds(d)
         /\ B!LocationsIn(d, InputIds(d)) = LocationsIn(d, InputIds(d))
         /\ B!Locations(d) = Locations(d) /\ B!Inputs(d) = InputStores(d)
         /\ \A m : B!ExecStep(d, m) = ExecStep(d, m)
         /\ \A ids, store, results : B!Machine(ids, store, results) = Machine(ids, store, results)
         /\ \A store : B!CaptureSampled(d, store) = CaptureSampled(d, store)
         /\ \A vs, store : B!Project(d, vs, store) = Project(d, vs, store)
         /\ \A store : B!MakeEvaluation(d, store) = Observed(d, store)
<1>1. B!Supported(d) = Supported(d)
  BY DEF
    B!Supported, Supported, B!AnalyzeError, AnalyzeError, B!Overlap, Overlap, B!Processes,
    Processes, B!Footprint, Footprint, B!TargetFootprint, TargetFootprint, B!TargetRegions,
    TargetRegions, B!ElementRegions, ElementRegions, B!ToUsize, ToUsize, B!ElementWidth,
    ElementWidth, B!SelectRegions, SelectRegions, B!AssignmentsIn, AssignmentsIn, B!Inside,
    Inside, B!Statements, Statements, B!Blocking, Blocking, B!AssignedBy, AssignedBy, B!ToIds,
    ToIds, B!Nonblocking, Nonblocking, B!AllWrites, AllWrites, B!StatementWrites,
    StatementWrites, B!CrossProcessRead, CrossProcessRead, B!OwnsBitOf, OwnsBitOf,
    B!StatementReads, StatementReads, B!TargetReads, TargetReads, B!IsWhole, IsWhole,
    B!ExpressionReads, ExpressionReads
<1>2. B!OrderCombinational(d) = OrderCombinational(d)
  BY DEF
    B!OrderCombinational, OrderCombinational, B!OrderFrom, OrderFrom, B!ReadyStatement,
    ReadyStatement, B!SelectInSeq, SelectInSeq, B!Min, Min, B!StatementReads, StatementReads,
    B!TargetReads, TargetReads, B!IsWhole, IsWhole, B!ExpressionReads, ExpressionReads,
    B!Inside, Inside, B!Statements, Statements, B!RemoveAt, RemoveAt, B!StatementWrites,
    StatementWrites, B!AssignmentsIn, AssignmentsIn, B!Variables, Variables, B!AllWrites,
    AllWrites, B!ToIds, ToIds
<1>3. B!Registers(d) = Registers(d) /\ B!Nonblocking(d) = Nonblocking(d)
  BY DEF
    B!Registers, Registers, B!LiveIn, LiveIn, B!Flow, Flow, B!Statements, Statements,
    B!Variables, Variables, B!AnalyzeStatement, AnalyzeStatement, B!AnalyzeStatements,
    AnalyzeStatements, B!FoldLeft, FoldLeft, B!MapThenFoldSet, MapThenFoldSet, B!Max, Max,
    B!Nonblocking, Nonblocking, B!AssignedBy, AssignedBy, B!AssignmentsIn, AssignmentsIn,
    B!Inside, Inside, B!ToIds, ToIds, B!IsWhole, IsWhole, B!TargetReads, TargetReads,
    B!ExpressionReads, ExpressionReads, B!StatementWrites, StatementWrites, B!Blocking,
    Blocking, B!OutsideReads, OutsideReads, B!AllReads, AllReads, B!StatementReads,
    StatementReads
<1>4. /\ B!InputIds(d) = InputIds(d) /\ B!OutputIds(d) = OutputIds(d)
      /\ B!LocationsIn(d, InputIds(d)) = LocationsIn(d, InputIds(d))
      /\ B!Locations(d) = Locations(d)
  BY DEF
    B!InputIds, InputIds, B!Variables, Variables, B!OutputIds, OutputIds, B!LocationsIn,
    LocationsIn, B!LocationsOf, LocationsOf, B!Locations, Locations
<1>5. B!Inputs(d) = InputStores(d)
  BY DEF
    B!InputIds, InputIds, B!Variables, Variables, B!StoresOf, StoresOf, B!LocationsIn,
    LocationsIn, B!LocationsOf, LocationsOf, B!Bit, Bit, B!Inputs, InputStores
<1>6. ASSUME NEW m PROVE B!ExecStep(d, m) = ExecStep(d, m)
  <2>1. \A e, store : B!Eval(d, e, store) = Eval(d, e, store)
    BY DEF
      B!Eval, Eval, B!Word, Word, B!Truthy, Truthy, B!BitOf, BitOf, B!ToUsize, ToUsize
  <2>2. /\ \A bits : B!ToUsize(bits) = ToUsize(bits) /\ B!Truthy(bits) = Truthy(bits)
        /\ \A bits, i : B!BitOf(bits, i) = BitOf(bits, i)
        /\ \A v : B!ElementWidth(d, v) = ElementWidth(d, v) /\ B!LocationsOf(d, v) = LocationsOf(d, v)
        /\ \A t : B!TargetWidth(d, t) = TargetWidth(d, t)
    BY DEF
      B!ToUsize, ToUsize, B!Truthy, Truthy, B!BitOf, BitOf, B!ElementWidth, ElementWidth,
      B!LocationsOf, LocationsOf, B!TargetWidth, TargetWidth
  <2>3. ASSUME NEW t, NEW store
        PROVE  B!TargetStart(d, t, store) = TargetStart(d, t, store)
    <3> DEFINE at(index) == CHOOSE k \in DOMAIN d.indices[t.var] : d.indices[t.var][k] = index
               start(index, offset) ==
                 (IF t.index = <<>> THEN 0 ELSE (at(index) - 1) * ElementWidth(d, t.var))
                   + (IF t.select = <<>> THEN 0 ELSE offset)
    <3>1. TargetStart(d, t, store) =
            start(ToUsize(Eval(d, t.index[1], store)), ToUsize(Eval(d, t.select[1].offset, store)))
      BY DEF TargetStart
    <3>2. B!TargetStart(d, t, store) =
            start(B!ToUsize(B!Eval(d, t.index[1], store)),
                  B!ToUsize(B!Eval(d, t.select[1].offset, store)))
      BY DEF B!TargetStart, B!ElementWidth, ElementWidth
    <3> HIDE DEF at
    <3> QED BY <2>1, <2>2, <3>1, <3>2
  <2>4. ASSUME NEW t, NEW store
        PROVE  /\ B!IndexDeclared(d, t, store) = IndexDeclared(d, t, store)
               /\ B!Destination(d, t, store) = Destination(d, t, store)
    <3>1. B!IndexDeclared(d, t, store) = IndexDeclared(d, t, store)
      BY <2>1, <2>2 DEF B!IndexDeclared, IndexDeclared
    <3> QED BY <2>2, <2>3, <3>1 DEF B!Destination, Destination
  <2>5. ASSUME NEW s, NEW value, NEW to, NEW store
        PROVE  B!StoreBits(d, to, s.target, value, store) = StoreBits(d, to, s.target, value, store)
    BY <2>2, <2>3, <2>4 DEF B!StoreBits, StoreBits
  <2>6. ASSUME NEW s, NEW store, NEW results, NEW rest
        PROVE  /\ B!AssignEnv(d, s, store) = AssignEnv(d, s, store)
               /\ B!AssignPending(d, s, store, results) = AssignPending(d, s, store, results)
               /\ B!Unfold(d, s, store, rest) = Unfold(d, s, store, rest)
               /\ B!Panics(d, s, store) = Panics(d, s, store)
    <3>1. B!AssignEnv(d, s, store) = AssignEnv(d, s, store)
      BY <2>1, <2>5 DEF B!AssignEnv, AssignEnv
    <3>2. B!AssignPending(d, s, store, results) = AssignPending(d, s, store, results)
      BY <2>1, <2>5 DEF B!AssignPending, AssignPending
    <3>3. B!Unfold(d, s, store, rest) = Unfold(d, s, store, rest)
      BY <2>1, <2>2 DEF B!Unfold, Unfold
    <3>4. B!Panics(d, s, store) = Panics(d, s, store)
      BY <2>4 DEF B!Panics, Panics
    <3> QED BY <3>1, <3>2, <3>3, <3>4
  <2> QED BY <2>6 DEF B!ExecStep, ExecStep
<1>7. ASSUME NEW ids, NEW store, NEW results PROVE B!Machine(ids, store, results) = Machine(ids, store, results)
  BY DEF
    B!Machine, Machine
<1>8. ASSUME NEW store PROVE B!CaptureSampled(d, store) = CaptureSampled(d, store)
  BY DEF
    B!CaptureSampled, CaptureSampled, B!Cardinality, Cardinality, B!BitOf, BitOf, B!Eval, Eval,
    B!Word, Word, B!ToUsize, ToUsize, B!Truthy, Truthy
<1>9. ASSUME NEW vs, NEW store PROVE B!Project(d, vs, store) = Project(d, vs, store)
  BY DEF
    B!Project, Project, B!LocationsIn, LocationsIn, B!LocationsOf, LocationsOf
<1>10. ASSUME NEW store PROVE B!MakeEvaluation(d, store) = Observed(d, store)
  BY DEF
    B!Project, Project, B!LocationsIn, LocationsIn, B!LocationsOf, LocationsOf, B!OutputIds,
    OutputIds, B!Variables, Variables, B!Truthy, Truthy, B!Word, Word,
    B!MakeEvaluation, Observed, B!Holds, Satisfies
<1> QED BY <1>1, <1>2, <1>3, <1>4, <1>5, <1>6, <1>7, <1>8, <1>9, <1>10
\* The same for the other model.
LEMMA SameRunB ==
  ASSUME NEW d, WellFormed(d), NEW ids \in Seq(Statements(d)), NEW store \in Stores(d),
         B!Statements(d) = Statements(d),
         B!Machine(ids, store, store) = Machine(ids, store, store),
         \A m : B!ExecStep(d, m) = ExecStep(d, m),
         B!Cardinality(Statements(d)) = Cardinality(Statements(d))
  PROVE  B!Run(d, ids, store) = Run(d, ids, store)
<1> DEFINE N == Cardinality(Statements(d))
           start == Machine(ids, store, store)
           now(m) == IF m = m THEN m ELSE start
           nowB(m) == IF m = m THEN m ELSE B!Machine(ids, store, store)
           after[k \in 0 .. N] == IF k = 0 THEN start ELSE now(ExecStep(d, after[k - 1]))
           afterB[k \in 0 .. B!Cardinality(B!Statements(d))] ==
             IF k = 0 THEN B!Machine(ids, store, store) ELSE nowB(B!ExecStep(d, afterB[k - 1]))
           step == [k \in 1 .. N |-> [m \in Machines(d) |-> ExecStep(d, m)]]
<1>1. N \in Nat
  BY FS_CardinalityType DEF WellFormed
<1>2. start \in Machines(d)
  BY DEF Machine, Machines
<1>3. \A m : now(m) = m /\ nowB(m) = m
  OBVIOUS
<1>4. Run(d, ids, store) = after[N]
  BY DEF Run
<1>5. B!Run(d, ids, store) = afterB[B!Cardinality(B!Statements(d))]
  BY DEF B!Run
<1>6. B!Cardinality(B!Statements(d)) = N /\ B!Machine(ids, store, store) = start
  OBVIOUS
<1>7. \A m : B!ExecStep(d, m) = ExecStep(d, m)
  OBVIOUS
<1> HIDE DEF now, nowB, start, N, after, afterB
<1>8. step \in Steps(N, Machines(d))
  BY ExecStepType DEF Steps
<1> HIDE DEF step
<1>9. PICK g : Iterates(g, N, Machines(d), start, step)
  BY ONLY <1>1, <1>2, <1>8, IterationExists
<1>10. /\ g = [k \in 0 .. N |-> IF k = 0 THEN start ELSE step[k][g[k - 1]]]
       /\ \A k \in 0 .. N : g[k] \in Machines(d)
       /\ \A k \in 1 .. N : k - 1 \in 0 .. N /\ g[k - 1] \in Machines(d)
  BY ONLY <1>1, <1>9, IterationValues
<1>11. \A k \in 1 .. N : /\ step[k][g[k - 1]] = now(ExecStep(d, g[k - 1]))
                         /\ step[k][g[k - 1]] = nowB(B!ExecStep(d, g[k - 1]))
  <2>1. \A k \in 1 .. N : step[k][g[k - 1]] = ExecStep(d, g[k - 1])
    <3> SUFFICES ASSUME NEW k \in 1 .. N PROVE step[k][g[k - 1]] = ExecStep(d, g[k - 1])
      OBVIOUS
    <3>1. g[k - 1] \in Machines(d)
      BY <1>10
    <3>2. \A m \in Machines(d) : step[k][m] = ExecStep(d, m)
      BY DEF step
    <3> QED BY <3>1, <3>2
  <2> QED BY <1>3, <1>7, <2>1
<1>12. \A k \in 0 .. N : k = 0 \/ k \in 1 .. N
  BY <1>1
<1>13. g = [k \in 0 .. N |-> IF k = 0 THEN start ELSE now(ExecStep(d, g[k - 1]))]
  BY <1>10, <1>11, <1>12
<1>14. g = [k \in 0 .. N |-> IF k = 0 THEN start ELSE nowB(B!ExecStep(d, g[k - 1]))]
  BY <1>10, <1>11, <1>12
<1>15. g = [k \in 0 .. B!Cardinality(B!Statements(d)) |->
              IF k = 0 THEN B!Machine(ids, store, store) ELSE nowB(B!ExecStep(d, g[k - 1]))]
  BY <1>14, <1>6
<1>16. after = [k \in 0 .. N |-> IF k = 0 THEN start ELSE now(ExecStep(d, after[k - 1]))]
  BY <1>13 DEF after
<1>17. afterB = [k \in 0 .. B!Cardinality(B!Statements(d)) |->
                   IF k = 0 THEN B!Machine(ids, store, store) ELSE nowB(B!ExecStep(d, afterB[k - 1]))]
  BY <1>15 DEF afterB
<1>18. afterB = [k \in 0 .. N |-> IF k = 0 THEN start ELSE nowB(B!ExecStep(d, afterB[k - 1]))]
  BY <1>17, <1>6
<1>19. after[0] = afterB[0]
  BY <1>1, <1>18, <1>16
<1>20. ASSUME NEW k \in 1 .. N, after[k - 1] = afterB[k - 1]
       PROVE  after[k] = afterB[k]
  <2>1. after[k] = now(ExecStep(d, after[k - 1]))
    BY <1>1, <1>16
  <2>2. afterB[k] = nowB(B!ExecStep(d, afterB[k - 1]))
    BY <1>1, <1>18
  <2> QED BY <1>3, <1>20, <2>1, <2>2, <1>7
<1> DEFINE same == [k \in 0 .. N |-> IF after[k] = afterB[k] THEN 1 ELSE 0]
<1>21. \A k \in 0 .. N : same[k] \in {1}
  <2>1. same[0] \in {1}
    BY <1>1, <1>19
  <2>2. ASSUME NEW k \in 1 .. N, same[k - 1] \in {1} PROVE same[k] \in {1}
    <3>1. k \in 0 .. N /\ k - 1 \in 0 .. N
      BY <1>1
    <3>2. after[k - 1] = afterB[k - 1]
      BY <2>2, <3>1
    <3> QED BY <1>20, <3>1, <3>2
  <2> DEFINE yes == {1}
  <2> HIDE DEF same, yes
  <2>3. same[0] \in yes /\ \A k \in 1 .. N : same[k - 1] \in yes => same[k] \in yes
    BY <2>1, <2>2 DEF yes
  <2>4. \A k \in 0 .. N : same[k] \in yes
    BY ONLY <1>1, <2>3, IterationInvariant
  <2> QED BY <2>4 DEF yes
<1>22. after[N] = afterB[N]
  BY <1>1, <1>21
<1> QED BY <1>4, <1>5, <1>6, <1>22

-----------------------------------------------------------------------------
(* The specification.                                                      *)

modelA == [values |-> valuesA, inputs |-> inputsA, call |-> callA, phase |-> phaseA, env |-> envA,
           pending |-> pendingA, stack |-> stackA, snapshot |-> snapshotA, evaluation |-> evaluationA]
modelB == [values |-> valuesB, inputs |-> inputsB, call |-> callB, phase |-> phaseB, env |-> envB,
           pending |-> pendingB, stack |-> stackB, snapshot |-> snapshotB, evaluation |-> evaluationB]

GeneratedFor(d) ==
  [statements  |-> OrderCombinational(d).statements,
   fixedPoint  |-> OrderCombinational(d).fixedPoint,
   registers   |-> Registers(d),
   nonblocking |-> Nonblocking(d)]

\* Model::new: the initial statements, run on a store of zeros.
NewStore(d) == Run(d, d.initial, [l \in Locations(d) |-> 0]).env

\* A new model.
LEMMA StartsA ==
  ASSUME NEW d \in Designs, A!SimInit(d)
  PROVE  /\ design = d /\ Supported(d) /\ generated = GeneratedFor(d) /\ ModelOK(d, modelA)
         /\ valuesA = NewStore(d)
<1> DEFINE zero == [l \in Locations(d) |-> 0]
           start == Run(d, d.initial, zero)
<1>1. WellFormed(d)
  BY DesignsWellFormed
<1>2. d.initial \in Seq(Statements(d)) /\ zero \in Stores(d)
  BY <1>1 DEF WellFormed, Stores, Bit
<1>3. A!Run(d, d.initial, zero) = start
  <2>1. A!Statements(d) = Statements(d)
    BY DEF A!Statements, Statements
  <2>2. A!Cardinality(Statements(d)) = Cardinality(Statements(d))
    BY DEF A!Cardinality, Cardinality
  <2> HIDE DEF zero
  <2>3. /\ A!Machine(d.initial, zero, zero) = Machine(d.initial, zero, zero)
        /\ \A m : A!ExecStep(d, m) = ExecStep(d, m)
    BY SameOperatorsA
  <2> QED BY <1>1, <1>2, <2>1, <2>2, <2>3, SameRunA
<1>4. start \in Machines(d)
  BY <1>1, <1>2, RunType
<1>5. /\ A!Supported(d) /\ design = d /\ generated = A!Generate(d)
      /\ valuesA = A!Run(d, d.initial, [l \in A!Locations(d) |-> 0]).env
      /\ inputsA = [l \in A!LocationsIn(d, A!InputIds(d)) |-> 0]
      /\ callA = "eval" /\ phaseA \in {"panicked", "idle"}
      /\ envA = valuesA /\ pendingA = valuesA /\ stackA = <<>>
  BY DEF A!SimInit
<1>6. Supported(d) /\ generated = GeneratedFor(d)
  BY <1>5, SameOperatorsA DEF A!Generate, GeneratedFor
<1>7. inputsA \in InputStores(d)
  <2>1. inputsA = [l \in LocationsIn(d, InputIds(d)) |-> 0]
    BY <1>5, SameOperatorsA
  <2> QED BY <2>1 DEF InputStores, StoresOf, Bit
<1>8. valuesA = start.env
  <2>1. A!Locations(d) = Locations(d)
    BY SameOperatorsA
  <2> QED BY <1>3, <1>5, <2>1
<1> HIDE DEF start, zero
<1>9. valuesA \in Stores(d)
  BY <1>4, <1>8 DEF Machines
<1>10. ModelOK(d, modelA)
  BY <1>5, <1>7, <1>9, EmptySeq DEF ModelOK, ModelType, modelA
<1>11. NewStore(d) = start.env
  BY DEF NewStore, start, zero
<1> QED BY <1>5, <1>6, <1>8, <1>10, <1>11

\* Its calls are those of the record.
LEMMA CallsA ==
  ASSUME generated = GeneratedFor(design), NEW name \in {"eval", "tick"}, NEW i \in A!Inputs(design), A!StartCall(name, i)
  PROVE  CallStep(design, modelA, modelA', name, i) /\ UNCHANGED shared
<1>1. i \in InputStores(design) /\ A!InputIds(design) = InputIds(design)
  BY SameOperatorsA
<1>2. A!ApplyInputs(valuesA, i) = AppliedInputs(design, valuesA, i)
  BY <1>1 DEF A!ApplyInputs, AppliedInputs
<1>3. generated.statements = OrderCombinational(design).statements
  BY DEF GeneratedFor
<1> QED BY <1>1, <1>2, <1>3
        DEF A!StartCall, A!StartPass, CallStep, Begins, modelA, shared

\* Its steps are those of the record.
LEMMA WorksA ==
  ASSUME generated = GeneratedFor(design), callA \in {"eval", "tick"}, A!Work
  PROVE  WorkStep(design, modelA, modelA') /\ UNCHANGED shared
<1>1. /\ generated.statements = OrderCombinational(design).statements
      /\ generated.fixedPoint = OrderCombinational(design).fixedPoint
      /\ generated.nonblocking = Nonblocking(design)
  BY DEF GeneratedFor
<1>2. A!InputIds(design) = InputIds(design)
  BY SameOperatorsA
<1>3. CASE A!Execute
  <2>1. Running(modelA) = A!Machine(stackA, envA, pendingA)
    <3>1. A!Machine(stackA, envA, pendingA) = Machine(stackA, envA, pendingA)
      BY SameOperatorsA
    <3> QED BY <3>1 DEF Running, modelA
  <2>2. A!ExecStep(design, Running(modelA)) = ExecStep(design, Running(modelA))
    BY SameOperatorsA
  <2>3. ExecuteStep(design, modelA, modelA')
    BY <1>3, <2>1, <2>2 DEF A!Execute, ExecuteStep, Keeps, modelA
  <2> QED BY <1>3, <2>3 DEF A!Execute, WorkStep, shared
<1>4. CASE A!EndPass
  <2>1. EndPassStep(design, modelA, modelA')
    BY <1>1, <1>4 DEF A!EndPass, A!StartPass, EndPassStep, Begins, Keeps, modelA
  <2> QED BY <1>4, <2>1 DEF A!EndPass, WorkStep, shared
<1>5. CASE A!Sample
  <2>1. A!CaptureSampled(design, envA) = CaptureSampled(design, envA)
    BY SameOperatorsA
  <2>2. SampleStep(design, modelA, modelA')
    BY <1>5, <2>1 DEF A!Sample, SampleStep, Keeps, modelA
  <2> QED BY <1>5, <2>2 DEF A!Sample, WorkStep, shared
<1>6. CASE A!Commit
  <2>1. A!CopyPending(envA, pendingA) = CopiedPending(design, envA, pendingA)
    BY <1>1 DEF A!CopyPending, CopiedPending
  <2>2. A!ApplyInputs(valuesA', inputsA) = AppliedInputs(design, valuesA', inputsA)
    BY <1>2 DEF A!ApplyInputs, AppliedInputs
  <2>3. CommitStep(design, modelA, modelA')
    BY <1>1, <1>6, <2>1, <2>2 DEF A!Commit, A!StartPass, CommitStep, Begins, modelA
  <2> QED BY <1>6, <2>3 DEF A!Commit, WorkStep, shared
<1>7. CASE A!Evaluate
  <2>1. A!MakeEvaluation(design, envA) = Observed(design, envA)
    BY SameOperatorsA
  <2>2. EvaluateStep(design, modelA, modelA')
    BY <1>7, <2>1 DEF A!Evaluate, EvaluateStep, Keeps, modelA
  <2> QED BY <1>7, <2>2 DEF A!Evaluate, WorkStep, shared
<1> QED BY <1>3, <1>4, <1>5, <1>6, <1>7 DEF A!Work

\* A new model.
LEMMA StartsB ==
  ASSUME NEW d \in Designs, B!SimInit(d)
  PROVE  /\ design = d /\ Supported(d) /\ generated = GeneratedFor(d) /\ ModelOK(d, modelB)
         /\ valuesB = NewStore(d)
<1> DEFINE zero == [l \in Locations(d) |-> 0]
           start == Run(d, d.initial, zero)
<1>1. WellFormed(d)
  BY DesignsWellFormed
<1>2. d.initial \in Seq(Statements(d)) /\ zero \in Stores(d)
  BY <1>1 DEF WellFormed, Stores, Bit
<1>3. B!Run(d, d.initial, zero) = start
  <2>1. B!Statements(d) = Statements(d)
    BY DEF B!Statements, Statements
  <2>2. B!Cardinality(Statements(d)) = Cardinality(Statements(d))
    BY DEF B!Cardinality, Cardinality
  <2> HIDE DEF zero
  <2>3. /\ B!Machine(d.initial, zero, zero) = Machine(d.initial, zero, zero)
        /\ \A m : B!ExecStep(d, m) = ExecStep(d, m)
    BY SameOperatorsB
  <2> QED BY <1>1, <1>2, <2>1, <2>2, <2>3, SameRunB
<1>4. start \in Machines(d)
  BY <1>1, <1>2, RunType
<1>5. /\ B!Supported(d) /\ design = d /\ generated = B!Generate(d)
      /\ valuesB = B!Run(d, d.initial, [l \in B!Locations(d) |-> 0]).env
      /\ inputsB = [l \in B!LocationsIn(d, B!InputIds(d)) |-> 0]
      /\ callB = "eval" /\ phaseB \in {"panicked", "idle"}
      /\ envB = valuesB /\ pendingB = valuesB /\ stackB = <<>>
  BY DEF B!SimInit
<1>6. Supported(d) /\ generated = GeneratedFor(d)
  BY <1>5, SameOperatorsB DEF B!Generate, GeneratedFor
<1>7. inputsB \in InputStores(d)
  <2>1. inputsB = [l \in LocationsIn(d, InputIds(d)) |-> 0]
    BY <1>5, SameOperatorsB
  <2> QED BY <2>1 DEF InputStores, StoresOf, Bit
<1>8. valuesB = start.env
  <2>1. B!Locations(d) = Locations(d)
    BY SameOperatorsB
  <2> QED BY <1>3, <1>5, <2>1
<1> HIDE DEF start, zero
<1>9. valuesB \in Stores(d)
  BY <1>4, <1>8 DEF Machines
<1>10. ModelOK(d, modelB)
  BY <1>5, <1>7, <1>9, EmptySeq DEF ModelOK, ModelType, modelB
<1>11. NewStore(d) = start.env
  BY DEF NewStore, start, zero
<1> QED BY <1>5, <1>6, <1>8, <1>10, <1>11

\* Its calls are those of the record.
LEMMA CallsB ==
  ASSUME generated = GeneratedFor(design), NEW name \in {"eval", "tick"}, NEW i \in B!Inputs(design), B!StartCall(name, i)
  PROVE  CallStep(design, modelB, modelB', name, i) /\ UNCHANGED shared
<1>1. i \in InputStores(design) /\ B!InputIds(design) = InputIds(design)
  BY SameOperatorsB
<1>2. B!ApplyInputs(valuesB, i) = AppliedInputs(design, valuesB, i)
  BY <1>1 DEF B!ApplyInputs, AppliedInputs
<1>3. generated.statements = OrderCombinational(design).statements
  BY DEF GeneratedFor
<1> QED BY <1>1, <1>2, <1>3
        DEF B!StartCall, B!StartPass, CallStep, Begins, modelB, shared

\* Its steps are those of the record.
LEMMA WorksB ==
  ASSUME generated = GeneratedFor(design), callB \in {"eval", "tick"}, B!Work
  PROVE  WorkStep(design, modelB, modelB') /\ UNCHANGED shared
<1>1. /\ generated.statements = OrderCombinational(design).statements
      /\ generated.fixedPoint = OrderCombinational(design).fixedPoint
      /\ generated.nonblocking = Nonblocking(design)
  BY DEF GeneratedFor
<1>2. B!InputIds(design) = InputIds(design)
  BY SameOperatorsB
<1>3. CASE B!Execute
  <2>1. Running(modelB) = B!Machine(stackB, envB, pendingB)
    <3>1. B!Machine(stackB, envB, pendingB) = Machine(stackB, envB, pendingB)
      BY SameOperatorsB
    <3> QED BY <3>1 DEF Running, modelB
  <2>2. B!ExecStep(design, Running(modelB)) = ExecStep(design, Running(modelB))
    BY SameOperatorsB
  <2>3. ExecuteStep(design, modelB, modelB')
    BY <1>3, <2>1, <2>2 DEF B!Execute, ExecuteStep, Keeps, modelB
  <2> QED BY <1>3, <2>3 DEF B!Execute, WorkStep, shared
<1>4. CASE B!EndPass
  <2>1. EndPassStep(design, modelB, modelB')
    BY <1>1, <1>4 DEF B!EndPass, B!StartPass, EndPassStep, Begins, Keeps, modelB
  <2> QED BY <1>4, <2>1 DEF B!EndPass, WorkStep, shared
<1>5. CASE B!Sample
  <2>1. B!CaptureSampled(design, envB) = CaptureSampled(design, envB)
    BY SameOperatorsB
  <2>2. SampleStep(design, modelB, modelB')
    BY <1>5, <2>1 DEF B!Sample, SampleStep, Keeps, modelB
  <2> QED BY <1>5, <2>2 DEF B!Sample, WorkStep, shared
<1>6. CASE B!Commit
  <2>1. B!CopyPending(envB, pendingB) = CopiedPending(design, envB, pendingB)
    BY <1>1 DEF B!CopyPending, CopiedPending
  <2>2. B!ApplyInputs(valuesB', inputsB) = AppliedInputs(design, valuesB', inputsB)
    BY <1>2 DEF B!ApplyInputs, AppliedInputs
  <2>3. CommitStep(design, modelB, modelB')
    BY <1>1, <1>6, <2>1, <2>2 DEF B!Commit, B!StartPass, CommitStep, Begins, modelB
  <2> QED BY <1>6, <2>3 DEF B!Commit, WorkStep, shared
<1>7. CASE B!Evaluate
  <2>1. B!MakeEvaluation(design, envB) = Observed(design, envB)
    BY SameOperatorsB
  <2>2. EvaluateStep(design, modelB, modelB')
    BY <1>7, <2>1 DEF B!Evaluate, EvaluateStep, Keeps, modelB
  <2> QED BY <1>7, <2>2 DEF B!Evaluate, WorkStep, shared
<1> QED BY <1>3, <1>4, <1>5, <1>6, <1>7 DEF B!Work

\* The inductive invariant.
JointOK ==
  /\ design \in Designs /\ Supported(design) /\ generated = GeneratedFor(design)
  /\ together \in {"apart", "joined", "called", "ticked"}
  /\ Joint(design, modelA, modelB, together)

\* Two new models have the same store.
LEMMA StartsJoint == Init => JointOK
<1> SUFFICES ASSUME NEW d \in Designs, A!SimInit(d), B!SimInit(d), together = "apart"
             PROVE  JointOK
  BY DEF Init
<1>1. /\ design = d /\ Supported(d) /\ generated = GeneratedFor(d)
      /\ ModelOK(d, modelA) /\ ModelOK(d, modelB) /\ valuesA = valuesB
  BY StartsA, StartsB
<1>2. Agree(d, Untouched(d), modelA.values, modelB.values)
  BY <1>1 DEF Agree, modelA, modelB
<1> QED BY <1>1, <1>2 DEF JointOK, Joint

\* Equal projections are stores that agree.
LEMMA ProjectionsAgree ==
  ASSUME NEW d, NEW vs, NEW x, NEW y
  PROVE  Project(d, vs, x) = Project(d, vs, y) <=> Agree(d, vs, x, y)
<1>1. ASSUME Project(d, vs, x) = Project(d, vs, y), NEW l \in LocationsIn(d, vs)
      PROVE  x[l] = y[l]
  <2>1. Project(d, vs, x)[l] = x[l] /\ Project(d, vs, y)[l] = y[l]
    BY DEF Project
  <2> QED BY <1>1, <2>1
<1> QED BY <1>1 DEF Project, Agree

\* Every step keeps it.
LEMMA KeepsJoint == JointOK /\ [Next]_all => JointOK'
<1> SUFFICES ASSUME JointOK, [Next]_all PROVE JointOK'
  OBVIOUS
<1>1. /\ design \in Designs /\ Supported(design) /\ generated = GeneratedFor(design)
      /\ together \in {"apart", "joined", "called", "ticked"}
      /\ Joint(design, modelA, modelB, together)
  BY DEF JointOK
<1>2. WellFormed(design)
  BY <1>1, DesignsWellFormed
<1>3. callA \in {"eval", "tick"} /\ callB \in {"eval", "tick"}
  BY <1>1 DEF Joint, ModelOK, ModelType, modelA, modelB
<1>4. /\ A!Inputs(design) = InputStores(design) /\ B!Inputs(design) = InputStores(design)
      /\ UNCHANGED varsA => modelA' = modelA
      /\ UNCHANGED varsB => modelB' = modelB
  BY SameOperatorsA, SameOperatorsB DEF varsA, varsB, modelA, modelB
<1>5. SUFFICES /\ UNCHANGED shared /\ together' \in {"apart", "joined", "called", "ticked"}
               /\ Joint(design, modelA', modelB', together')
  BY <1>1 DEF JointOK, shared
<1>6. CASE UNCHANGED all
  BY <1>1, <1>4, <1>6 DEF all, shared
<1>7. CASE A!Work /\ UNCHANGED <<varsB, together>>
  <2>1. WorkStep(design, modelA, modelA') /\ UNCHANGED shared
    BY <1>1, <1>3, <1>7, WorksA
  <2>2. Joint(design, modelA', modelB, together)
    BY <1>1, <1>2, <2>1, JointWorks
  <2> QED BY <1>1, <1>4, <1>7, <2>1, <2>2
<1>8. CASE B!Work /\ UNCHANGED <<varsA, together>>
  <2>1. WorkStep(design, modelB, modelB') /\ UNCHANGED shared
    BY <1>1, <1>3, <1>8, WorksB
  <2>2. Joint(design, modelB, modelA, together)
    BY <1>1, JointSymmetric
  <2>3. Joint(design, modelB', modelA, together)
    BY <1>2, <2>1, <2>2, JointWorks
  <2>4. Joint(design, modelA, modelB', together)
    BY <2>3, JointSymmetric
  <2> QED BY <1>1, <1>4, <1>8, <2>1, <2>4
<1>9. CASE Apart
  <2>1. Joint(design, modelA, modelB, "apart") /\ Joint(design, modelB, modelA, "apart")
    BY <1>1, <1>9, JointSymmetric DEF Apart
  <2>2. PICK i \in A!Inputs(design) :
          \/ A!StartCall("tick", i) /\ UNCHANGED <<varsB, together>>
          \/ B!StartCall("tick", i) /\ UNCHANGED <<varsA, together>>
    BY <1>9 DEF Apart
  <2>3. CASE A!StartCall("tick", i) /\ UNCHANGED <<varsB, together>>
    <3>1. CallStep(design, modelA, modelA', "tick", i) /\ UNCHANGED shared
      BY <1>1, <2>3, CallsA
    <3>2. Joint(design, modelA', modelB, "apart")
      BY <1>2, <2>1, <3>1, JointApart
    <3> QED BY <1>1, <1>4, <1>9, <2>3, <3>1, <3>2 DEF Apart
  <2>4. CASE B!StartCall("tick", i) /\ UNCHANGED <<varsA, together>>
    <3>1. CallStep(design, modelB, modelB', "tick", i) /\ UNCHANGED shared
      BY <1>1, <1>4, <2>4, CallsB
    <3>2. Joint(design, modelB', modelA, "apart")
      BY <1>2, <2>1, <3>1, JointApart
    <3>3. Joint(design, modelA, modelB', "apart")
      BY <3>2, JointSymmetric
    <3> QED BY <1>1, <1>4, <1>9, <2>4, <3>1, <3>3 DEF Apart
  <2> QED BY <2>2, <2>3, <2>4
<1>10. CASE Join
  <2>1. /\ together = "apart" /\ phaseA = "idle" /\ phaseB = "idle" /\ A!State = B!State
        /\ together' = "joined" /\ UNCHANGED <<shared, varsA, varsB>>
    BY <1>10 DEF Join, Resting
  <2>2. Project(design, Registers(design), valuesA) = Project(design, Registers(design), valuesB)
    BY <1>1, <2>1, SameOperatorsA, SameOperatorsB DEF A!State, B!State, GeneratedFor
  <2>3. Agree(design, Registers(design), modelA.values, modelB.values)
    BY <2>2, ProjectionsAgree DEF modelA, modelB
  <2>4. Joint(design, modelA, modelB, "joined")
    BY <1>1, <1>2, <2>1, <2>3, JointJoins DEF modelA, modelB
  <2> QED BY <1>4, <2>1, <2>4
<1>11. CASE CallBoth
  <2>1. PICK i \in A!Inputs(design), name \in {"tick", "eval"} :
          /\ A!StartCall(name, i) /\ B!StartCall(name, i)
          /\ together' = IF name = "tick" \/ together = "ticked" THEN "ticked" ELSE "called"
    BY <1>11 DEF CallBoth
  <2>2. /\ CallStep(design, modelA, modelA', name, i) /\ UNCHANGED shared
        /\ CallStep(design, modelB, modelB', name, i)
    BY <1>1, <1>4, <2>1, CallsA, CallsB
  <2>3. together # "apart"
    BY <1>11 DEF CallBoth
  <2>4. Joint(design, modelA', modelB', together')
    BY <1>1, <1>2, <2>1, <2>2, <2>3, JointCalls
  <2> QED BY <2>1, <2>2, <2>4
<1> QED BY <1>6, <1>7, <1>8, <1>9, <1>10, <1>11 DEF Next, Work

\* The observer sees equal registers, outputs and properties.
LEMMA ShowsJoint == JointOK => RegistersSuffice
<1> SUFFICES ASSUME JointOK, LatchFree(design), CycleFree(design)
             PROVE  SameState /\ SameOutputs /\ (PropertiesAssigned(design) => SameProperties)
  BY DEF RegistersSuffice
<1>1. /\ WellFormed(design) /\ Supported(design) /\ generated = GeneratedFor(design)
      /\ Joint(design, modelA, modelB, together)
  BY DesignsWellFormed DEF JointOK
<1>2. ASSUME Resting, together # "apart"
      PROVE  /\ Agree(design, Registers(design), valuesA, valuesB)
             /\ together \in {"called", "ticked"} => evaluationA.outputs = evaluationB.outputs
             /\ together = "ticked" /\ PropertiesAssigned(design) =>
                  evaluationA.properties = evaluationB.properties
  <2>1. modelA.phase = "idle" /\ modelB.phase = "idle"
    BY <1>2 DEF Resting, modelA, modelB
  <2>2. /\ Agree(design, Registers(design), modelA.values, modelB.values)
        /\ together \in {"called", "ticked"} => modelA.evaluation.outputs = modelB.evaluation.outputs
        /\ together = "ticked" /\ PropertiesAssigned(design) =>
             modelA.evaluation.properties = modelB.evaluation.properties
    BY <1>1, <1>2, <2>1, JointShows
  <2> QED BY <2>2 DEF modelA, modelB
<1>3. SameState
  <2> SUFFICES ASSUME Resting, together # "apart" PROVE A!State = B!State
    BY DEF SameState
  <2>1. Project(design, Registers(design), valuesA) = Project(design, Registers(design), valuesB)
    BY <1>2, ProjectionsAgree
  <2> QED BY <1>1, <2>1, SameOperatorsA, SameOperatorsB DEF A!State, B!State, GeneratedFor
<1>4. SameOutputs
  BY <1>2 DEF SameOutputs
<1>5. PropertiesAssigned(design) => SameProperties
  BY <1>2 DEF SameProperties
<1> QED BY <1>3, <1>4, <1>5

(* The registers are enough: for every design, two models whose state()    *)
(* shows equal registers answer equal calls with equal outputs and stay in *)
(* equal states, whatever else their stores hold.                          *)
THEOREM RegistersAreEnough == Spec => []RegistersSuffice
<1>1. Init => JointOK
  BY StartsJoint
<1>2. JointOK /\ [Next]_all => JointOK'
  BY KeepsJoint
<1>3. JointOK => RegistersSuffice
  BY ShowsJoint
<1> QED BY <1>1, <1>2, <1>3, PTL DEF Spec

=============================================================================
