----------------------------- MODULE Sequential -----------------------------
(***************************************************************************)
(* ast/sequential.rs: which clocked designs are supported, which variables *)
(* carry state from one edge to the next and which are written by          *)
(* nonblocking assignments.  Also order_combinational of the simulator     *)
(* generator, the other static analysis of a design's statements, and the  *)
(* samples its capture_sampled takes of a store.                           *)
(***************************************************************************)
EXTENDS Design, SequencesExt

Processes(d) == DOMAIN d.sequential

AllReads(d, ids)  == UNION {StatementReads(d, n) : n \in ToIds(ids)}
AllWrites(d, ids) == UNION {StatementWrites(d, n) : n \in ToIds(ids)}

(* analyze_statement: the variables a statement reads before it has surely *)
(* assigned the whole of them, given the ones assigned already; flow is    *)
(* what it finds for the statements inside.                                *)
AnalyzeStatements(flow, ids, start) ==
  FoldLeft(LAMBDA acc, c :
             LET r == flow[c][acc.assigned]
             IN  [assigned |-> r.assigned, liveIn |-> acc.liveIn \cup r.liveIn],
           [assigned |-> start, liveIn |-> {}], ids)

AnalyzeStatement(flow, s, assigned) ==
  CASE s.kind = "Block" -> AnalyzeStatements(flow, s.body, assigned)
    [] s.kind = "Assignment" ->
         [assigned |-> IF s.assign # "Nonblocking" /\ IsWhole(s.target)
                         THEN assigned \cup {s.target.var} ELSE assigned,
          liveIn   |-> (TargetReads(s.target) \cup ExpressionReads(s.value)) \ assigned]
    [] s.kind = "If" ->
         LET yes == AnalyzeStatements(flow, s.then, assigned)
             no  == AnalyzeStatements(flow, s.else, assigned)
         IN  [assigned |-> yes.assigned \cap no.assigned,
              liveIn   |-> (ExpressionReads(s.condition) \ assigned) \cup yes.liveIn \cup no.liveIn]

Flow(d) ==
  LET flow[n \in Statements(d)] ==
        [assigned \in SUBSET Variables(d) |-> AnalyzeStatement(flow, d.statement[n], assigned)]
  IN  flow

LiveIn(d, n) == Flow(d)[n][{}].liveIn

\* The variables the statements assign with a kind of the set.
AssignedBy(d, ids, kinds) ==
  {d.statement[a].target.var :
     a \in {x \in UNION {AssignmentsIn(d, n) : n \in ToIds(ids)} : d.statement[x].assign \in kinds}}

Blocking(d)    == AssignedBy(d, d.sequential, {"Blocking", "Continuous"})
Nonblocking(d) == AssignedBy(d, d.sequential, {"Nonblocking"})

\* Two processes may write one bit.
Overlap(d) ==
  \E p, q \in Processes(d) :
     p # q /\ Footprint(d, d.sequential[p]) \cap Footprint(d, d.sequential[q]) # {}

\* A variable with a bit another process owns is read by this one.
OwnsBitOf(d, p, v) == \E l \in Footprint(d, d.sequential[p]) : l[1] = v

CrossProcessReadBefore(d) ==        \* mutant: looks only at later writers
  \E v \in Blocking(d) : \E p, q \in Processes(d) :
     p > q /\ OwnsBitOf(d, p, v) /\ v \in StatementReads(d, d.sequential[q])

CrossProcessRead(d) ==
  \E v \in Blocking(d) : \E p, q \in Processes(d) :
     p # q /\ OwnsBitOf(d, p, v) /\ v \in StatementReads(d, d.sequential[q])

\* What is read outside the clocked processes.
OutsideReads(d) ==
  AllReads(d, d.combinational)
    \cup (UNION {ExpressionReads(d.sampled[v]) : v \in DOMAIN d.sampled})

RegistersOfOutputs(d) ==            \* mutant: forgets the live-in variables
  {v \in Blocking(d) : v \in OutsideReads(d) \/ d.direction[v] = "Output"}
    \cup Nonblocking(d)

Registers(d) ==
  (UNION {LiveIn(d, n) \cap StatementWrites(d, n) : n \in ToIds(d.sequential)})
    \cup {v \in Blocking(d) : v \in OutsideReads(d) \/ d.direction[v] = "Output"}
    \cup Nonblocking(d)

\* The checks of analyze, in its order; "None" is Ok(info).
AnalyzeError(d) ==
  IF Overlap(d) THEN "overlapping bits"
  ELSE IF Blocking(d) \cap Nonblocking(d) # {} THEN "mixed kinds"
  ELSE IF AllWrites(d, d.sequential) \cap AllWrites(d, d.combinational) # {}
    THEN "combinational and clocked"
  ELSE IF CrossProcessRead(d) THEN "cross-process read"
  ELSE IF AssignedBy(d, d.initial \o d.combinational, {"Nonblocking"}) # {}
    THEN "nonblocking outside clocked processes"
  ELSE "None"

Supported(d) == AnalyzeError(d) = "None"

-----------------------------------------------------------------------------
(* order_combinational: take the first statement all of whose reads are    *)
(* available; when none is, keep the rest in source order and iterate.     *)

ReadyStatement(d, ids, available) ==
  SelectInSeq(ids, LAMBDA n : StatementReads(d, n) \subseteq available)

OrderCombinationalOnce(d) ==        \* mutant: source order, one pass
  [statements |-> d.combinational, fixedPoint |-> FALSE]

OrderFrom(d, known) ==
  LET steps == Len(d.combinational)
      after[k \in 0 .. steps] ==
        IF k = 0 THEN [ordered |-> <<>>, left |-> d.combinational, available |-> known]
        ELSE LET m == after[k - 1]
                 i == ReadyStatement(d, m.left, m.available)
             IN  IF i = 0 THEN m
                 ELSE [ordered   |-> Append(m.ordered, m.left[i]),
                       left      |-> RemoveAt(m.left, i),
                       available |-> m.available \cup StatementWrites(d, m.left[i])]
  IN  after[steps]

OrderCombinational(d) ==
  LET order == OrderFrom(d, Variables(d) \ AllWrites(d, d.combinational))
  IN  [statements |-> order.ordered \o order.left, fixedPoint |-> order.left # <<>>]

-----------------------------------------------------------------------------
(* The values assertions sample. *)

CaptureSampledOnce(d, store) ==     \* mutant: reads sampled variables from the store
  [l \in DOMAIN store |->
     IF l[1] \in DOMAIN d.sampled THEN BitOf(Eval(d, d.sampled[l[1]], store), l[2])
                                  ELSE store[l]]

\* capture_sampled expands the sampled variables a sampled expression reads:
\* none of them is read from the store.
CaptureSampled(d, store) ==
  LET captured[k \in 0 .. Cardinality(DOMAIN d.sampled)] ==
        IF k = 0 THEN store
        ELSE [l \in DOMAIN store |->
                IF l[1] \in DOMAIN d.sampled
                  THEN BitOf(Eval(d, d.sampled[l[1]], captured[k - 1]), l[2])
                  ELSE store[l]]
  IN  captured[Cardinality(DOMAIN d.sampled)]

-----------------------------------------------------------------------------
(* Designs without latches. *)

\* Combinational statements assign all they write before reading any of it,
\* and read no sampled variable (those hold the samples of the last edge).
LatchFree(d) ==
  \A n \in ToIds(d.combinational) :
    /\ LiveIn(d, n) \cap StatementWrites(d, n) = {}
    /\ StatementWrites(d, n) \subseteq Flow(d)[n][{}].assigned
    /\ StatementReads(d, n) \cap DOMAIN d.sampled = {}

\* What a combinational statement depends on is driven by earlier ones in some
\* order, so that the logic has one value whatever its variables held.
CycleFree(d) ==
  \E rank \in [ToIds(d.combinational) -> DOMAIN d.combinational] :
    \A m, n \in ToIds(d.combinational) :
      LiveIn(d, n) \cap StatementWrites(d, m) # {} => rank[m] < rank[n]

\* Every edge assigns the whole of every property variable.
PropertiesAssigned(d) ==
  \A v \in DOMAIN d.property :
    \E n \in ToIds(d.combinational \o d.sequential) : v \in Flow(d)[n][{}].assigned

-----------------------------------------------------------------------------
(* Who drives a bit. *)

\* No bit the combinational statements read is written by two of them.
SingleDrivers(d) ==
  \A m, n \in ToIds(d.combinational) :
    m # n => Footprint(d, m) \cap Footprint(d, n) \cap LocationsIn(d, AllReads(d, d.combinational)) = {}

\* No bit is written by two of the combinational statements.
OneDriver(d) ==
  \A m, n \in ToIds(d.combinational) : m # n => Footprint(d, m) \cap Footprint(d, n) = {}

\* No combinational statement reads a sample: samples change after the logic
\* has settled.
SamplesUnread(d) ==
  \A n \in ToIds(d.combinational) : StatementReads(d, n) \cap DOMAIN d.sampled = {}

=============================================================================
