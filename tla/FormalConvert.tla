--------------------------- MODULE FormalConvert ---------------------------
(***************************************************************************)
(* formal/src/convert.rs: the transition system of a design.  The code     *)
(* computes with symbolic expressions over the inputs and registers; here  *)
(* an expression is its value under one valuation of them.  Environment,   *)
(* the map from variables to expressions, is then a store in which the     *)
(* bits of variables that have none are Unknown; which those are does not  *)
(* depend on the valuation.                                                *)
(*                                                                         *)
(* What the converter has no translation for (todo!) is modelled as a      *)
(* conversion that fails, like an Err: part selects, array elements, and   *)
(* conditions wider than a bit.  The debug assertion that no continuous    *)
(* assignment reaches on_stmt is left out: a release build converts them.  *)
(***************************************************************************)
EXTENDS Sequential

Unknown == 2
Environments(d) == [Locations(d) -> Bit \cup {Unknown}]
Environment(d, values) ==
  [l \in Locations(d) |-> IF l \in DOMAIN values THEN values[l] ELSE Unknown]
NoEnvironment(d) == Environment(d, <<>>)
Known(d, env) == {v \in Variables(d) : env[<<v, 0>>] # Unknown}

\* analyse_rw: the variables the statements read, and those the sampled
\* variables among them sample.
AnalyseReads(d) ==
  LET closure[k \in 0 .. Cardinality(DOMAIN d.sampled)] ==
        IF k = 0 THEN AllReads(d, d.combinational \o d.sequential)
        ELSE closure[k - 1] \cup UNION {ExpressionReads(d.sampled[v]) :
                                          v \in closure[k - 1] \cap DOMAIN d.sampled}
  IN  closure[Cardinality(DOMAIN d.sampled)]

AnalyseWrites(d) == AllWrites(d, d.combinational \o d.sequential)

\* The inputs of the system: the design's, and what is read but never driven.
FormalInputIds(d) ==
  InputIds(d) \cup
    ((AnalyseReads(d) \ AnalyseWrites(d)) \ (Registers(d) \cup DOMAIN d.sampled \cup d.internal))

\* The generated zero assignments of history registers are the only
\* initialisation the converter accepts.
IsStaticInitializer(d, n) ==
  /\ n \in d.static
  /\ d.statement[n].kind = "Block"
  /\ \A m \in ToIds(d.statement[n].body) :
       LET s == d.statement[m] IN
       /\ s.kind = "Assignment" /\ IsWhole(s.target) /\ s.target.var \in d.history
       /\ s.value.op = "Constant" /\ ~ Truthy(s.value.bits)

-----------------------------------------------------------------------------
(* on_bv_expr, assign and on_stmt over a converter state                   *)
(* [env, pending, ok]; ok turns FALSE at the first failure.                *)

ConverterStates(d) == [env : Environments(d), pending : Environments(d), ok : BOOLEAN]

ConvertsExpression(d, env, e) ==
  /\ ExpressionReads(e) \subseteq Known(d, env)
  /\ \A v \in ExpressionReads(e) : d.indices[v] = <<>>
  /\ e.op # "Select"
  /\ e.op = "Conditional" => d.width[e.args[1]] = 1

ConvertsAssignment(d, env, s) ==
  /\ ConvertsExpression(d, env, s.value)
  /\ IsWhole(s.target) /\ d.indices[s.target.var] = <<>>

ConvertsCondition(d, env, e) ==
  /\ ConvertsExpression(d, env, e)
  /\ Len(Eval(d, e, env)) = 1

\* The value is extended or truncated to the variable's width.
Bind(env, v, bits) == [l \in DOMAIN env |-> IF l[1] = v THEN BitOf(bits, l[2]) ELSE env[l]]

OnAssignment(d, s, c) ==
  IF ~ ConvertsAssignment(d, c.env, s) THEN [c EXCEPT !.ok = FALSE]
  ELSE IF s.assign = "Nonblocking"
    THEN [c EXCEPT !.pending = Bind(@, s.target.var, Eval(d, s.value, c.env))]
    ELSE [c EXCEPT !.env = Bind(@, s.target.var, Eval(d, s.value, c.env))]

\* A variable only one branch assigns gets its value of before, or zero.
MergeEnvironments(taken, other, before) ==
  [l \in DOMAIN taken |->
     IF taken[l] # Unknown \/ other[l] = Unknown THEN taken[l]
     ELSE IF before[l] # Unknown THEN before[l] ELSE 0]

Merge(d, c, taken, other) ==
  [env     |-> MergeEnvironments(taken.env, other.env, c.env),
   pending |-> MergeEnvironments(taken.pending, other.pending, NoEnvironment(d)),
   ok      |-> taken.ok /\ other.ok]

OnStatement(d) ==
  LET on[n \in Statements(d), c \in ConverterStates(d)] ==
        LET s == d.statement[n]
            all(ids) == FoldLeft(LAMBDA now, m : on[m, now], c, ids)
        IN
        CASE ~ c.ok -> c
          [] c.ok /\ s.kind = "Block" -> all(s.body)
          [] c.ok /\ s.kind = "Assignment" -> OnAssignment(d, s, c)
          [] c.ok /\ s.kind = "If" ->
               IF ~ ConvertsCondition(d, c.env, s.condition) THEN [c EXCEPT !.ok = FALSE]
               ELSE IF Truthy(Eval(d, s.condition, c.env))
                 THEN Merge(d, c, all(s.then), all(s.else))
                 ELSE Merge(d, c, all(s.else), all(s.then))
  IN  on

OnStatements(d, ids, c) == FoldLeft(LAMBDA now, n : OnStatement(d)[n, now], c, ids)

-----------------------------------------------------------------------------

\* execute_combinational: the next statement is the first whose reads are
\* all known; it is an error when none is.
ExecuteInOrder(d, env, order) ==
  OnStatements(d, order.ordered,
               [env |-> env, pending |-> NoEnvironment(d), ok |-> order.left = <<>>])
ExecuteCombinational(d, env) == ExecuteInOrder(d, env, OrderFrom(d, Known(d, env)))

\* Sampled expressions are frozen before the clocked processes run.  One that
\* reads another sampled variable expands it: rounds of freezing reach all.
FreezeRound(d, before, env) ==
  [l \in DOMAIN env |->
     IF l[1] \in DOMAIN d.sampled /\ ConvertsExpression(d, env, d.sampled[l[1]])
       THEN BitOf(Eval(d, d.sampled[l[1]], env), l[2]) ELSE before[l]]
FreezeSampled(d, before) ==
  LET frozen[k \in 0 .. Cardinality(DOMAIN d.sampled)] ==
        IF k = 0 THEN before ELSE FreezeRound(d, before, frozen[k - 1])
  IN  frozen[Cardinality(DOMAIN d.sampled)]

\* The properties a clock edge decides; the others follow the registers.
EdgeProperties(d) == (DOMAIN d.property \cap AllWrites(d, d.sequential)) \ Registers(d)

\* What the conversion takes from the analysis of the design.
Fsm(d) ==
  [inputs         |-> FormalInputIds(d),
   registers      |-> Registers(d),
   nonblocking    |-> Nonblocking(d),
   edgeProperties |-> EdgeProperties(d)]

\* The clocked processes start with the frozen environment; nonblocking
\* assignments are pending, the variables they assign with the value so far.
EdgeStart(d, fsm, logic, frozen) ==
  [env     |-> frozen,
   pending |-> Environment(d, Project(d, fsm.nonblocking, frozen)),
   ok      |-> logic.ok /\ DOMAIN d.sampled \subseteq Known(d, frozen)]
Edge(d, fsm, logic) ==
  OnStatements(d, d.sequential, EdgeStart(d, fsm, logic, FreezeSampled(d, logic.env)))
OnEdge(d, fsm, valuation) ==
  Edge(d, fsm, ExecuteCombinational(d, Environment(d, valuation)))

NextOf(d, fsm, edge) ==
  [l \in LocationsIn(d, fsm.registers) |->
     IF edge.pending[l] # Unknown THEN edge.pending[l] ELSE edge.env[l]]

ShownEnvironmentAfter(d, fsm, valuation, edge) == edge.env   \* mutant: shows the next cycle

\* Outputs and properties are computed with the registers' current values.
ShownEnvironment(d, fsm, valuation, edge) == Project(d, fsm.registers, valuation) @@ edge.env

\* The system under one valuation; the properties are the raw variables.
SystemOf(d, fsm, edge, shown) ==
  [next       |-> NextOf(d, fsm, edge),
   outputs    |-> Project(d, OutputIds(d), shown),
   properties |-> [v \in DOMAIN d.property |-> Truthy(Word(d, shown, v))]]
SystemAt(d, fsm, valuation, edge) ==
  SystemOf(d, fsm, edge, ShownEnvironment(d, fsm, valuation, edge))
System(d, fsm, valuation) == SystemAt(d, fsm, valuation, OnEdge(d, fsm, valuation))

\* from_design returns Ok.
ConvertsOn(d, edge) ==
  /\ edge.ok
  /\ OutputIds(d) \cup DOMAIN d.property \subseteq Known(d, edge.env)
Converts(d) ==
  /\ \A n \in ToIds(d.initial) : IsStaticInitializer(d, n)
  /\ Supported(d)
  /\ \A v \in DOMAIN d.property : d.width[v] = 1
  /\ ConvertsOn(d, OnEdge(d, Fsm(d),
                      [l \in LocationsIn(d, FormalInputIds(d) \cup Registers(d)) |-> 0]))

\* select_property of main.rs: the one bad state of a system exported for a
\* single assertion or cover.
SelectProperty(kind, value) == IF kind = "Cover" THEN ~ value ELSE value

-----------------------------------------------------------------------------
(* apply_reset.  reset is [variable, edge]; a register whose next state    *)
(* under an active reset simplifies to a literal starts with it.  The      *)
(* simplifier is taken to recognise every constant.                        *)

ActiveValueSwapped(reset) == IF reset.edge = "Positive" THEN 0 ELSE 1   \* mutant: polarity
ActiveValue(reset) == IF reset.edge = "Positive" THEN 1 ELSE 0

\* The next states under an active reset.
DuringReset(d, fsm, reset) ==
  {System(d, fsm, valuation).next :
     valuation \in {x \in StoresOf(d, fsm.inputs \cup fsm.registers) :
                      x[<<reset.variable, 0>>] = ActiveValue(reset)}}

Literals(d, registers, during) ==
  UNION {{[variable |-> v, value |-> Project(d, {v}, next)] : next \in during} :
           v \in {r \in registers : \A a, b \in during : Project(d, {r}, a) = Project(d, {r}, b)}}

ResetInit(d, fsm, reset) == Literals(d, fsm.registers, DuringReset(d, fsm, reset))

=============================================================================
