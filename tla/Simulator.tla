----------------------------- MODULE Simulator -----------------------------
(***************************************************************************)
(* The model simulator-rust generates for a design: Model::new, eval and   *)
(* tick and the phases they run (emit_phase, order_combinational,          *)
(* emit_sampled_function, emit_evaluation).  A call runs to completion in  *)
(* one thread, one statement at a time.  The clock is no variable of the   *)
(* design here: input_ids drops it and no phase reads it.                  *)
(***************************************************************************)
EXTENDS Sequential

CONSTANT Designs        \* the designs the generator is given

ASSUME DesignsWellFormed == \A d \in Designs : WellFormed(d)

VARIABLES
  design,
  generated,            \* what the generator computed from the design
  values,               \* Model.values: the store kept between calls
  inputs,               \* the argument of the call
  call,                 \* "eval" or "tick"
  phase,                \* what the call does next
  env,                  \* the store of the call
  pending,              \* run_sequential's store of nonblocking results
  stack,                \* the statements the phase still has to run
  snapshot,             \* the store before the pass of the settling loop
  round,                \* completed passes of the settling loop
  evaluation            \* what the last call returned

callVars == <<inputs, call, phase, env, pending, stack, snapshot, round, evaluation>>
simVars == <<design, generated, values, callVars>>

Inputs(d) == StoresOf(d, InputIds(d))

State == Project(design, generated.registers, values)

Generate(d) ==
  LET order == OrderCombinational(d)
  IN  [statements  |-> order.statements,
       fixedPoint  |-> order.fixedPoint,
       registers   |-> Registers(d),
       nonblocking |-> Nonblocking(d)]

ApplyInputsOnly(store, i) == i      \* mutant: drops the rest of the store
ApplyInputs(store, i) ==
  [l \in DOMAIN store |-> IF l[1] \in InputIds(design) THEN i[l] ELSE store[l]]

\* One pass over the statements in the generated order.
Pass(store) == Run(design, generated.statements, store).env

\* An assertion's variable is set when it is violated, so it is inverted.
Holds(d, v, store) ==
  IF d.property[v] = "Assertion" THEN ~ Truthy(Word(d, store, v)) ELSE Truthy(Word(d, store, v))

MakeEvaluation(d, store) ==
  [outputs    |-> Project(d, OutputIds(d), store),
   properties |-> [v \in DOMAIN d.property |-> Holds(d, v, store)]]

\* Nothing has been called yet.
NoEvaluation == [outputs |-> <<>>, properties |-> <<>>]

CopyPendingAll(store, results) == results   \* mutant: not only nonblocking variables

\* The end of run_sequential: the whole variable is copied, written or not.
CopyPending(store, results) ==
  [l \in DOMAIN store |-> IF l[1] \in generated.nonblocking THEN results[l] ELSE store[l]]

-----------------------------------------------------------------------------

\* Generator::generate refuses what analyze refuses; Model::new.
SimInit(d) ==
  LET start == Run(d, d.initial, [l \in Locations(d) |-> 0]) IN
  /\ Supported(d)
  /\ design = d
  /\ generated = Generate(d)
  /\ values = start.env
  /\ inputs = [l \in LocationsIn(d, InputIds(d)) |-> 0]
  /\ call = "eval"
  /\ phase = IF start.panicked THEN "panicked" ELSE "idle"
  /\ env = values
  /\ pending = values
  /\ stack = <<>>
  /\ snapshot = values
  /\ round = 0
  /\ evaluation = NoEvaluation

StartPass(store) ==
  /\ env' = store
  /\ snapshot' = store
  /\ stack' = generated.statements
  /\ phase' = "settle"

StartCall(name, i) ==
  /\ phase = "idle"
  /\ inputs' = i
  /\ call' = name
  /\ StartPass(ApplyInputs(values, i))
  /\ round' = 0
  /\ UNCHANGED <<design, generated, values, pending, evaluation>>

\* A statement of a combinational pass or of run_sequential.
Execute ==
  LET after == ExecStep(design, Machine(stack, env, pending)) IN
  /\ phase \in {"settle", "sequential"}
  /\ stack # <<>>
  /\ env' = after.env
  /\ pending' = after.pending
  /\ stack' = after.stack
  /\ phase' = IF after.panicked THEN "panicked" ELSE phase
  /\ UNCHANGED <<design, generated, values, inputs, call, snapshot, round, evaluation>>

\* The settling loop runs one pass more than the code's design has variables,
\* the clock, which is no variable here, among them.
PassLimitTwo == 1                   \* mutant: two passes for every design
PassLimit == Cardinality(Variables(design)) + 1

EndPassUnbounded ==                 \* mutant: loops until settled
  /\ phase = "settle"
  /\ stack = <<>>
  /\ IF ~ generated.fixedPoint \/ env = snapshot
       THEN phase' = "sample" /\ UNCHANGED <<env, snapshot, stack>>
       ELSE StartPass(env)
  /\ UNCHANGED <<design, generated, values, inputs, call, pending, round, evaluation>>

\* run_combinational ends after one pass, or when a pass changed nothing; it
\* panics after PassLimit + 1 passes.
EndPass ==
  /\ phase = "settle"
  /\ stack = <<>>
  /\ IF ~ generated.fixedPoint \/ env = snapshot
       THEN phase' = "sample" /\ UNCHANGED <<env, snapshot, stack, round>>
     ELSE IF round = PassLimit
       THEN phase' = "panicked" /\ UNCHANGED <<env, snapshot, stack, round>>
     ELSE StartPass(env) /\ round' = round + 1
  /\ UNCHANGED <<design, generated, values, inputs, call, pending, evaluation>>

\* capture_sampled; tick goes on to run_sequential, eval to make_evaluation.
Sample ==
  /\ phase = "sample"
  /\ env' = CaptureSampled(design, env)
  /\ IF call = "tick"
       THEN phase' = "sequential" /\ pending' = env' /\ stack' = design.sequential
       ELSE phase' = "evaluate" /\ UNCHANGED <<pending, stack>>
  /\ UNCHANGED <<design, generated, values, inputs, call, snapshot, round, evaluation>>

\* The end of tick: keep the store, then evaluate under the same inputs.
Commit ==
  /\ phase = "sequential"
  /\ stack = <<>>
  /\ values' = CopyPending(env, pending)
  /\ StartPass(ApplyInputs(values', inputs))
  /\ call' = "eval"
  /\ round' = 0
  /\ UNCHANGED <<design, generated, inputs, pending, evaluation>>

Evaluate ==
  /\ phase = "evaluate"
  /\ evaluation' = MakeEvaluation(design, env)
  /\ phase' = "idle"
  /\ UNCHANGED <<design, generated, values, inputs, call, env, pending, stack, snapshot, round>>

Work == Execute \/ EndPass \/ Sample \/ Commit \/ Evaluate
Call == \E i \in Inputs(design) : StartCall("eval", i) \/ StartCall("tick", i)

Init == \E d \in Designs : SimInit(d)
Next == Call \/ Work
Spec == Init /\ [][Next]_simVars
\* A call runs to completion in the caller's thread.
FairSpec == Spec /\ WF_simVars(Work)

-----------------------------------------------------------------------------
(* The model's store has a bit for every location, and a call is in one of *)
(* its phases with a stack only while it runs the sequential statements.   *)
TypeOK ==
  /\ design \in Designs
  /\ values \in Stores(design) /\ env \in Stores(design) /\ pending \in Stores(design)
  /\ inputs \in Inputs(design)
  /\ call \in {"eval", "tick"}
  /\ phase \in {"idle", "settle", "sample", "sequential", "evaluate", "panicked"}
  /\ stack \in Seq(Statements(design))
  /\ snapshot \in Stores(design)
  /\ (stack # <<>> => phase \in {"settle", "sequential", "panicked"})
  /\ round \in 0 .. PassLimit

(* order_combinational: before the edge the combinational logic is         *)
(* settled. One more pass changes nothing, whether the statements were put *)
(* in an order that needs one pass or were iterated.                       *)
SettledBeforeEdge ==
  phase = "sample" => Pass(env) = env

\* A fixed point is reached from the store within one pass per location.
Settles(store) ==
  LET n == Cardinality(DOMAIN store)
      pass == [s \in Stores(design) |-> Pass(s)]
      after[k \in 0 .. n + 1] == IF k = 0 THEN store ELSE pass[after[k - 1]]
  IN  after[n] = after[n + 1]

(* run_combinational panics with "combinational logic did not reach a      *)
(* fixed point" (simulator-rust/src/lib.rs): it gives up only on logic     *)
(* that has none to reach.                                                 *)
PanicMeansDivergence == phase = "panicked" => ~ Settles(env)

(* Every call returns or panics: the settling loop is bounded.             *)
CallsReturn == phase = "settle" ~> phase \in {"idle", "panicked"}

=============================================================================
