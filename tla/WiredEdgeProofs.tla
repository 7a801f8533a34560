--------------------------- MODULE WiredEdgeProofs ---------------------------
(***************************************************************************)
(* Theorems about the generated model beside the meaning of a clock edge,  *)
(* for every set of well-formed designs: run_sequential leaves the store   *)
(* every interleaving of the clocked processes leaves, because analyze     *)
(* refuses overlapping writes, mixed kinds and cross-process reads, and    *)
(* what it reads of the moment before the edge stays what it was.  First,  *)
(* that the generated model's calls keep its stores stores of the design,  *)
(* and that its combinational logic is settled before the edge.            *)
(*                                                                         *)
(* The argument: a process sees nothing of what the others write, so in    *)
(* every interleaving, run_sequential's among them, it goes through the    *)
(* states it would go through alone from the store at the edge, and that   *)
(* run has one end.  With the logic awake the same holds of the store with *)
(* the wires that follow blocking writes put back to what they were: no    *)
(* process sees them, and no other wire moves, as the logic was settled.   *)
(***************************************************************************)
EXTENDS WiredEdge, DesignProofs

-----------------------------------------------------------------------------
(* The invariant. *)

\* The generator has run on a design it accepts.
Generated == Supported(design) /\ generated = Generate(design)

\* What is known of the generated statements and of the design's own lists.
LEMMA GeneratedStatements ==
  ASSUME design \in Designs, Generated
  PROVE  /\ WellFormed(design)
         /\ generated.statements \in Seq(Statements(design))
         /\ design.sequential \in Seq(Statements(design))
         /\ generated.nonblocking = Nonblocking(design)
         /\ PassLimit \in Nat
<1>1. WellFormed(design)
  BY DesignsWellFormed
<1>2. generated.statements \in Seq(Statements(design))
  BY <1>1, OrderFacts DEF Generated, Generate
<1>3. PassLimit \in Nat
  BY <1>1, FS_CardinalityType DEF PassLimit, WellFormed
<1> QED BY <1>1, <1>2, <1>3 DEF Generated, Generate, WellFormed

\* Inputs are copied over bits of the store.
LEMMA InputsType ==
  ASSUME NEW store \in Stores(design), NEW i \in Inputs(design)
  PROVE  ApplyInputs(store, i) \in Stores(design)
<1>1. ASSUME NEW l \in Locations(design), l[1] \in InputIds(design)
      PROVE  i[l] \in Bit
  <2>1. l \in LocationsIn(design, InputIds(design))
    <3>1. PICK v \in Variables(design) : l \in LocationsOf(design, v)
      BY DEF Locations
    <3>2. l[1] = v
      BY <3>1 DEF LocationsOf
    <3> QED BY <1>1, <3>1, <3>2 DEF LocationsIn
  <2> QED BY <2>1 DEF Inputs, StoresOf
<1>2. \A l \in Locations(design) : store[l] \in Bit
  BY DEF Stores
<1> QED BY <1>1, <1>2 DEF ApplyInputs, Stores

LEMMA SimInitType ==
  ASSUME NEW d \in Designs, SimInit(d)
  PROVE  TypeOK /\ Generated
<1> DEFINE zero == [l \in Locations(d) |-> 0]
           start == Run(d, d.initial, zero)
<1>1. WellFormed(d)
  BY DesignsWellFormed
<1>2. d.initial \in Seq(Statements(d))
  BY <1>1 DEF WellFormed
<1>3. zero \in Stores(d)
  BY DEF Stores, Bit
<1>4. start \in Machines(d)
  BY <1>1, <1>2, <1>3, RunType
<1>5. values \in Stores(d)
  BY <1>4 DEF SimInit, Machines
<1>6. inputs \in Inputs(d)
  BY DEF SimInit, Inputs, StoresOf, Bit
<1>7. Generated /\ design = d
  BY DEF SimInit, Generated
<1>8. PassLimit \in Nat /\ 0 \in 0 .. PassLimit
  BY <1>7, GeneratedStatements
<1> QED BY <1>5, <1>6, <1>7, <1>8, EmptySeq DEF SimInit, TypeOK

LEMMA TypeStep == TypeOK /\ Generated /\ [Next]_simVars => (TypeOK /\ Generated)'
<1> SUFFICES ASSUME TypeOK, Generated, [Next]_simVars
             PROVE  (TypeOK /\ Generated)'
  OBVIOUS
<1>1. /\ WellFormed(design)
      /\ generated.statements \in Seq(Statements(design))
      /\ design.sequential \in Seq(Statements(design))
      /\ PassLimit \in Nat
  BY GeneratedStatements DEF TypeOK
<1>2. design' = design /\ generated' = generated /\ PassLimit' = PassLimit
  BY DEF Next, Call, Work, StartCall, Execute, EndPass, Sample, Commit, Evaluate, StartPass,
         simVars, PassLimit
<1>3. CASE UNCHANGED simVars
  BY <1>3 DEF TypeOK, Generated, simVars, callVars, PassLimit
<1>4. ASSUME NEW i \in Inputs(design), NEW name \in {"eval", "tick"}, StartCall(name, i)
      PROVE  (TypeOK /\ Generated)'
  <2>1. ApplyInputs(values, i) \in Stores(design)
    BY InputsType DEF TypeOK
  <2>2. 0 \in 0 .. PassLimit
    BY <1>1
  <2> QED BY <1>1, <1>2, <1>4, <2>1, <2>2 DEF StartCall, StartPass, TypeOK, Generated
<1>5. CASE Execute
  <2> DEFINE m == Machine(stack, env, pending)
  <2>1. m \in Machines(design)
    BY DEF Machine, Machines, TypeOK
  <2>2. ExecStep(design, m) \in Machines(design)
    BY <1>1, <2>1, ExecStepType
  <2>3. /\ env' \in Stores(design) /\ pending' \in Stores(design)
        /\ stack' \in Seq(Statements(design))
    BY <1>5, <2>2 DEF Execute, Machines
  <2>4. phase' \in {"settle", "sequential", "panicked"}
    BY <1>5 DEF Execute
  <2> QED BY <1>2, <1>5, <2>3, <2>4 DEF Execute, TypeOK, Generated
<1>6. CASE EndPass
  <2>1. /\ env' = env /\ pending' = pending
        /\ snapshot' \in {snapshot, env}
        /\ stack' \in {stack, generated.statements}
        /\ round' \in 0 .. PassLimit
        /\ phase' \in {"settle", "sample", "panicked"}
        /\ (phase' # "settle" => stack' = <<>>)
    <3>1. round \in 0 .. PassLimit /\ (round # PassLimit => round + 1 \in 0 .. PassLimit)
      BY <1>1 DEF TypeOK
    <3> QED BY <1>6, <3>1 DEF EndPass, StartPass
  <2> QED BY <1>1, <1>2, <1>6, <2>1 DEF EndPass, TypeOK, Generated
<1>7. CASE Sample
  <2>1. CaptureSampled(design, env) \in Stores(design)
    BY <1>1, SamplesSettle DEF TypeOK
  <2>2. stack = <<>>
    BY <1>7 DEF Sample, TypeOK
  <2>3. /\ env' \in Stores(design) /\ pending' \in Stores(design)
        /\ stack' \in Seq(Statements(design))
        /\ phase' \in {"sequential", "evaluate"} /\ (stack' # <<>> => phase' = "sequential")
    BY <1>1, <1>7, <2>1, <2>2 DEF Sample, TypeOK
  <2> QED BY <1>2, <1>7, <2>3 DEF Sample, TypeOK, Generated
<1>8. CASE Commit
  <2>1. values' \in Stores(design)
    BY <1>8 DEF Commit, CopyPending, TypeOK, Stores
  <2>2. ApplyInputs(values', inputs) \in Stores(design)
    BY <2>1, InputsType DEF TypeOK
  <2>3. 0 \in 0 .. PassLimit
    BY <1>1
  <2> QED BY <1>1, <1>2, <1>8, <2>1, <2>2, <2>3 DEF Commit, StartPass, TypeOK, Generated
<1>9. CASE Evaluate
  BY <1>2, <1>9 DEF Evaluate, TypeOK, Generated
<1> QED BY <1>3, <1>4, <1>5, <1>6, <1>7, <1>8, <1>9 DEF Next, Call, Work

(* For every set of designs: through every phase of a call the generated   *)
(* model's stores keep a bit for every location, its stack has statements  *)
(* of the design only while a phase runs them, and the settling loop never *)
(* counts past its limit.                                                  *)
THEOREM TypeCorrect == Spec => []TypeOK
<1>1. Init => TypeOK /\ Generated
  BY SimInitType DEF Init
<1>2. Spec => [](TypeOK /\ Generated)
  BY <1>1, TypeStep, PTL DEF Spec
<1> QED BY <1>2, PTL

-----------------------------------------------------------------------------
(* The settling loop. *)

\* While a pass runs, it is a run of the generated statements from the store
\* kept before it; what it has ended in is the store before the edge.
PassRunning ==
  phase = "settle" =>
    \E results \in Stores(design) :
      Machine(stack, env, pending) \in
        Reachable(Stepper(design), Machine(generated.statements, snapshot, results))

PassEnded ==
  phase = "sample" =>
    \E start, results \in Stores(design) : \E t :
      /\ Finishes(design, generated.statements, start, results, t)
      /\ t.env = env /\ (generated.fixedPoint => start = env)

PassInvariant == PassRunning /\ PassEnded

\* A pass that starts is at its start.
LEMMA PassStarts ==
  ASSUME TypeOK, Generated, NEW store \in Stores(design), StartPass(store), pending' = pending,
         UNCHANGED <<design, generated>>
  PROVE  PassInvariant'
<1>1. WellFormed(design) /\ generated.statements \in Seq(Statements(design))
  BY GeneratedStatements DEF TypeOK
<1>2. pending \in Stores(design)
  BY DEF TypeOK
<1> DEFINE m == Machine(generated.statements, store, pending)
<1>3. m \in DOMAIN Stepper(design)
  BY <1>1, <1>2, MachineType, StepperFacts
<1>4. m \in Reachable(Stepper(design), m)
  BY <1>3, ReachableStart
<1>5. Machine(stack', env', pending') = m /\ Machine(generated'.statements, snapshot', pending) = m
      /\ phase' = "settle" /\ design' = design
  BY DEF StartPass
<1> HIDE DEF m
<1> QED BY <1>2, <1>4, <1>5 DEF PassInvariant, PassRunning, PassEnded

\* The phases of a call keep it.
LEMMA PassStep ==
  TypeOK /\ Generated /\ PassInvariant /\ [Next]_simVars => PassInvariant'
<1> SUFFICES ASSUME TypeOK, Generated, PassInvariant, [Next]_simVars
             PROVE  PassInvariant'
  OBVIOUS
<1>1. /\ WellFormed(design) /\ generated.statements \in Seq(Statements(design))
      /\ env \in Stores(design) /\ pending \in Stores(design) /\ snapshot \in Stores(design)
      /\ values \in Stores(design) /\ stack \in Seq(Statements(design))
      /\ inputs \in Inputs(design)
  BY GeneratedStatements DEF TypeOK
<1>2. CASE UNCHANGED simVars
  BY <1>2 DEF PassInvariant, PassRunning, PassEnded, simVars, callVars
<1>3. ASSUME NEW i \in Inputs(design), NEW name \in {"eval", "tick"}, StartCall(name, i)
      PROVE  PassInvariant'
  <2>1. ApplyInputs(values, i) \in Stores(design)
    BY <1>1, InputsType
  <2>2. /\ StartPass(ApplyInputs(values, i)) /\ pending' = pending
        /\ UNCHANGED <<design, generated>>
    BY <1>3 DEF StartCall
  <2> QED BY <2>1, <2>2, PassStarts
<1>4. CASE Execute
  <2> DEFINE m == Machine(stack, env, pending)
             after == ExecStep(design, m)
  <2>1. /\ design' = design /\ generated' = generated /\ snapshot' = snapshot
        /\ env' = after.env /\ pending' = after.pending /\ stack' = after.stack
        /\ phase' = IF after.panicked THEN "panicked" ELSE phase
        /\ phase \in {"settle", "sequential"}
    BY <1>4 DEF Execute
  <2>2. CASE phase' = "settle"
    <3>1. phase = "settle" /\ ~ after.panicked
      BY <2>1, <2>2
    <3>2. PICK results \in Stores(design) :
            m \in Reachable(Stepper(design), Machine(generated.statements, snapshot, results))
      BY <3>1 DEF PassInvariant, PassRunning
    <3>3. m \in Machines(design)
      BY <1>1, MachineType
    <3>4. /\ Stepper(design)[m] = after /\ after \in Machines(design)
          /\ \A x \in DOMAIN Stepper(design) : Stepper(design)[x] \in DOMAIN Stepper(design)
      BY <1>1, <3>3, StepperFacts
    <3>5. after \in Reachable(Stepper(design), Machine(generated.statements, snapshot, results))
      BY <3>2, <3>4, ReachableStep
    <3> HIDE DEF after, m
    <3>6. after = Machine(stack', env', pending')
      BY <2>1, <3>1, <3>4 DEF Machine, Machines
    <3>7. \E r \in Stores(design') :
            Machine(stack', env', pending') \in
              Reachable(Stepper(design'), Machine(generated'.statements, snapshot', r))
      BY <2>1, <3>5, <3>6
    <3> QED BY <2>2, <3>7 DEF PassInvariant, PassRunning, PassEnded
  <2>3. CASE phase' # "settle"
    <3>1. phase' # "sample"
      BY <2>1
    <3> QED BY <2>3, <3>1 DEF PassInvariant, PassRunning, PassEnded
  <2> QED BY <2>2, <2>3
<1>5. CASE EndPass
  <2>1. /\ phase = "settle" /\ stack = <<>>
        /\ pending' = pending /\ design' = design /\ generated' = generated
        /\ \/ /\ ~ generated.fixedPoint \/ env = snapshot
              /\ phase' = "sample" /\ env' = env
           \/ phase' = "panicked"
           \/ StartPass(env)
    BY <1>5 DEF EndPass
  <2>2. CASE (~ generated.fixedPoint \/ env = snapshot) /\ phase' = "sample" /\ env' = env
    <3>1. PICK results \in Stores(design) :
            Machine(stack, env, pending) \in
              Reachable(Stepper(design), Machine(generated.statements, snapshot, results))
      BY <2>1 DEF PassInvariant, PassRunning
    <3> DEFINE t == Machine(stack, env, pending)
    <3>2. t.stack = <<>> /\ t.env = env
      BY <2>1 DEF Machine
    <3>3. Finishes(design, generated.statements, snapshot, results, t)
      BY <3>1, <3>2 DEF Finishes
    <3> HIDE DEF t
    <3>4. \E start, r \in Stores(design') : \E u :
            /\ Finishes(design', generated'.statements, start, r, u)
            /\ u.env = env' /\ (generated'.fixedPoint => start = env')
      BY <1>1, <2>1, <2>2, <3>2, <3>3
    <3> QED BY <2>2, <3>4 DEF PassInvariant, PassRunning, PassEnded
  <2>3. CASE phase' = "panicked"
    BY <2>3 DEF PassInvariant, PassRunning, PassEnded
  <2>4. CASE StartPass(env)
    BY <1>1, <2>1, <2>4, PassStarts
  <2> QED BY <2>1, <2>2, <2>3, <2>4
<1>6. CASE Sample
  BY <1>6 DEF Sample, PassInvariant, PassRunning, PassEnded
<1>7. CASE Commit
  <2>1. ApplyInputs(values', inputs) \in Stores(design)
    <3>1. values' \in Stores(design)
      BY <1>1, <1>7 DEF Commit, CopyPending, Stores
    <3> QED BY <1>1, <3>1, InputsType
  <2>2. /\ StartPass(ApplyInputs(values', inputs)) /\ pending' = pending
        /\ UNCHANGED <<design, generated>>
    BY <1>7 DEF Commit
  <2> QED BY <2>1, <2>2, PassStarts
<1>8. CASE Evaluate
  BY <1>8 DEF Evaluate, PassInvariant, PassRunning, PassEnded
<1> QED BY <1>2, <1>3, <1>4, <1>5, <1>6, <1>7, <1>8 DEF Next, Call, Work

\* Logic that has been iterated, or that has one driver for what it reads, is
\* left as another pass leaves it.
LEMMA PassStays ==
  ASSUME TypeOK, Generated, PassInvariant, phase = "sample",
         generated.fixedPoint \/ SingleDrivers(design)
  PROVE  LET ids == generated.statements
             u == Run(design, ids, env)
         IN  /\ Tops(design, ids) /\ Listed(ids) /\ ToIds(ids) = ToIds(design.combinational)
             /\ Finishes(design, ids, env, env, u) /\ u.env = env
<1> DEFINE ids == OrderCombinational(design).statements
<1>1. /\ WellFormed(design) /\ generated.statements = ids
      /\ generated.fixedPoint = OrderCombinational(design).fixedPoint
  BY GeneratedStatements DEF TypeOK, Generated, Generate
<1>2. Listed(ids) /\ Tops(design, ids) /\ ToIds(ids) = ToIds(design.combinational)
  <2>1. ids \in Seq(Statements(design)) /\ Listed(ids) /\ ToIds(ids) = ToIds(design.combinational)
    BY <1>1, OrderFacts
  <2>2. \A n \in ToIds(design.combinational) : design.root[n] = n
    BY <1>1 DEF WellFormed
  <2> QED BY <2>1, <2>2 DEF Tops
<1>3. PICK start, results \in Stores(design) : \E t :
        /\ Finishes(design, ids, start, results, t)
        /\ t.env = env /\ (generated.fixedPoint => start = env)
  BY <1>1 DEF PassInvariant, PassEnded
<1>4. PICK t : /\ Finishes(design, ids, start, results, t)
               /\ t.env = env /\ (generated.fixedPoint => start = env)
  BY <1>3
<1>5. start = t.env \/ Forward(design, ids)
  BY <1>1, <1>4, OrderForward
<1> HIDE DEF ids
<1>6. /\ Finishes(design, ids, t.env, t.env, Run(design, ids, t.env))
      /\ Run(design, ids, t.env).env = t.env
  BY <1>1, <1>2, <1>4, <1>5, RunsAgain
<1> QED BY <1>1, <1>2, <1>4, <1>6

\* That is what is promised of it.
LEMMA PassSettles ==
  ASSUME TypeOK, Generated, PassInvariant, generated.fixedPoint \/ SingleDrivers(design)
  PROVE  SettledBeforeEdge
BY PassStays DEF SettledBeforeEdge, Pass

\* Statements that drive no bit together and read no sample are each settled,
\* in the store handed to the edge too.
LEMMA SettledEach ==
  ASSUME TypeOK, Generated, PassInvariant, phase = "sample",
         OneDriver(design), SamplesUnread(design), NEW n \in ToIds(design.combinational)
  PROVE  LET store == CaptureSampled(design, env)
         IN  Run(design, <<n>>, store).env = store
<1> DEFINE d == design
           store == CaptureSampled(d, env)
           ids == generated.statements
           u == Run(d, ids, env)
           one == <<n>>
<1>1. WellFormed(d) /\ env \in Stores(d)
  BY GeneratedStatements DEF TypeOK
<1>2. SingleDrivers(d)
  BY DEF OneDriver, SingleDrivers
<1>3. /\ Tops(d, ids) /\ Listed(ids) /\ ToIds(ids) = ToIds(d.combinational)
      /\ Finishes(d, ids, env, env, u) /\ u.env = env
  BY <1>2, PassStays
<1>4. n \in Statements(d) /\ d.root[n] = n
  <2>1. d.combinational \in Seq(Statements(d)) /\ \A c \in ToIds(d.combinational) : d.root[c] = c
    BY <1>1 DEF WellFormed
  <2>2. n \in Statements(d)
    BY <2>1, LenProperties, ElementOfSeq DEF ToIds
  <2> QED BY <2>1, <2>2
<1>5. \A k, m \in ToIds(ids) : k # m => Footprint(d, k) \cap Footprint(d, m) = {}
  BY <1>3 DEF OneDriver
<1> HIDE DEF ids, u
<1>6. Run(d, one, env).env = env
  BY <1>1, <1>3, <1>5, StaysAlone
<1>7. /\ store \in Stores(d)
      /\ \A l \in Locations(d) : l[1] \notin DOMAIN d.sampled => store[l] = env[l]
  BY <1>1, SamplesSettle
<1> HIDE DEF store
<1>8. Agree(d, StatementReads(d, n), env, store)
  <2>1. StatementReads(d, n) \in SUBSET Variables(d)
    BY <1>1, ReadsDeclared
  <2>2. \A l \in LocationsIn(d, StatementReads(d, n)) :
          l \in Locations(d) /\ l[1] \in StatementReads(d, n)
    BY <2>1, LocationVariable
  <2> QED BY <1>7, <2>2 DEF Agree, SamplesUnread
<1>9. \A l \in Locations(d) : Run(d, one, store).env[l] = env[l] \/ Run(d, one, store).env[l] = store[l]
  BY <1>1, <1>4, <1>6, <1>7, <1>8, QuietFollows
<1>10. /\ Run(d, one, store).env \in Stores(d)
       /\ \A l \in Locations(d) : l \notin Footprint(d, n) => Run(d, one, store).env[l] = store[l]
  BY <1>1, <1>4, <1>7, RunWritesOnly
<1> HIDE DEF one
<1>11. \A l \in Footprint(d, n) : l[1] \notin DOMAIN d.sampled
  <2>1. \A a \in AssignmentsIn(d, n) : d.statement[a].target.var \notin DOMAIN d.sampled
    BY <1>1 DEF WellFormed, SampledOK, AssignmentsIn, Inside
  <2>2. StatementWrites(d, n) \cap DOMAIN d.sampled = {}
    BY <2>1 DEF StatementWrites
  <2> QED BY <2>2, FootprintWritten
<1>12. \A l \in Locations(d) : Run(d, one, store).env[l] = store[l]
  BY <1>7, <1>9, <1>10, <1>11
<1> QED BY <1>7, <1>10, <1>12 DEF Stores, store, one

(* For every set of designs: the combinational logic is settled before the *)
(* edge, whether it was run once in order_combinational's order or passes  *)
(* were iterated, unless a bit it reads has two drivers and it is run      *)
(* once.                                                                   *)
THEOREM SettledBeforeEdgeCorrect ==
  Spec => [](generated.fixedPoint \/ SingleDrivers(design) => SettledBeforeEdge)
<1>1. Init => TypeOK /\ Generated /\ PassInvariant
  <2> SUFFICES ASSUME NEW d \in Designs, SimInit(d)
               PROVE  TypeOK /\ Generated /\ PassInvariant
    BY DEF Init
  <2>1. TypeOK /\ Generated
    BY SimInitType
  <2>2. phase \in {"panicked", "idle"}
    BY DEF SimInit
  <2> QED BY <2>1, <2>2 DEF PassInvariant, PassRunning, PassEnded
<1>2. TypeOK /\ Generated /\ PassInvariant /\ [Next]_simVars => (TypeOK /\ Generated /\ PassInvariant)'
  BY TypeStep, PassStep
<1>3. TypeOK /\ Generated /\ PassInvariant =>
        (generated.fixedPoint \/ SingleDrivers(design) => SettledBeforeEdge)
  BY PassSettles
<1> QED BY <1>1, <1>2, <1>3, PTL DEF Spec

-----------------------------------------------------------------------------
(* The wired edge. *)

NoWrite == S!NoWrite
DeferredWrites(d) == S!DeferredWrites(d)

-----------------------------------------------------------------------------
(* S is an instance of EdgeScheduler, so it has its own copies of the      *)
(* operators of Design; they are the same operators.                       *)

LEMMA SameStores ==
  ASSUME NEW d
  PROVE  /\ S!Stores(d) = Stores(d)
         /\ S!Locations(d) = Locations(d)
         /\ S!Processes(d) = Processes(d)
         /\ DeferredWrites(d) = [Locations(d) -> Bit \cup {NoWrite}]
<1>1. S!Locations(d) = Locations(d) /\ S!Bit = Bit
  BY DEF S!Locations, Locations, S!LocationsOf, LocationsOf, S!Variables, Variables, S!Bit, Bit
<1> QED BY <1>1 DEF S!Stores, Stores, S!Processes, Processes, DeferredWrites, S!DeferredWrites, NoWrite

LEMMA SameEval ==
  ASSUME NEW d, NEW e, NEW store
  PROVE  S!Eval(d, e, store) = Eval(d, e, store)
BY DEF S!Eval, Eval, S!Word, Word, S!Truthy, Truthy, S!BitOf, BitOf, S!ToUsize, ToUsize

LEMMA SameTarget ==
  ASSUME NEW d, NEW t, NEW store
  PROVE  /\ S!TargetStart(d, t, store) = TargetStart(d, t, store)
         /\ S!Destination(d, t, store) = Destination(d, t, store)
<1>1. /\ \A bits : S!ToUsize(bits) = ToUsize(bits)
      /\ \A v : S!ElementWidth(d, v) = ElementWidth(d, v)
      /\ \A v : S!LocationsOf(d, v) = LocationsOf(d, v)
  BY DEF S!ToUsize, ToUsize, S!ElementWidth, ElementWidth, S!LocationsOf, LocationsOf
<1>2. S!TargetStart(d, t, store) = TargetStart(d, t, store)
  <2> DEFINE at(index) == CHOOSE k \in DOMAIN d.indices[t.var] : d.indices[t.var][k] = index
             start(index, offset) ==
               (IF t.index = <<>> THEN 0 ELSE (at(index) - 1) * ElementWidth(d, t.var))
                 + (IF t.select = <<>> THEN 0 ELSE offset)
  <2>1. TargetStart(d, t, store) =
          start(ToUsize(Eval(d, t.index[1], store)), ToUsize(Eval(d, t.select[1].offset, store)))
    BY DEF TargetStart
  <2>2. S!TargetStart(d, t, store) =
          start(S!ToUsize(S!Eval(d, t.index[1], store)),
                S!ToUsize(S!Eval(d, t.select[1].offset, store)))
    BY DEF S!TargetStart, S!ElementWidth, ElementWidth
  <2> HIDE DEF at
  <2> QED BY <1>1, <2>1, <2>2, SameEval
<1>3. S!IndexDeclared(d, t, store) = IndexDeclared(d, t, store)
  BY <1>1, SameEval DEF S!IndexDeclared, IndexDeclared
<1>4. S!TargetWidth(d, t) = TargetWidth(d, t)
  BY <1>1 DEF S!TargetWidth, TargetWidth
<1> QED BY <1>1, <1>2, <1>3, <1>4 DEF S!Destination, Destination

LEMMA SameStatement ==
  ASSUME NEW d, NEW s, NEW store, NEW results, NEW rest
  PROVE  /\ S!AssignEnv(d, s, store) = AssignEnv(d, s, store)
         /\ S!AssignPending(d, s, store, results) = AssignPending(d, s, store, results)
         /\ S!Unfold(d, s, store, rest) = Unfold(d, s, store, rest)
<1>1. \A value, to : S!StoreBits(d, to, s.target, value, store) = StoreBits(d, to, s.target, value, store)
  BY SameTarget DEF S!StoreBits, StoreBits, S!BitOf, BitOf
<1>2. /\ S!AssignEnv(d, s, store) = AssignEnv(d, s, store)
      /\ S!AssignPending(d, s, store, results) = AssignPending(d, s, store, results)
  BY <1>1, SameEval DEF S!AssignEnv, AssignEnv, S!AssignPending, AssignPending
<1>3. S!Unfold(d, s, store, rest) = Unfold(d, s, store, rest)
  BY SameEval DEF S!Unfold, Unfold, S!Truthy, Truthy
<1> QED BY <1>2, <1>3

-----------------------------------------------------------------------------
(* A process alone. *)

SoloMachines(d, q) ==
  [stack : Seq(Inside(d, d.sequential[q])), env : Stores(d), results : DeferredWrites(d)]

SoloStep(d, m) ==
  LET s == d.statement[Head(m.stack)] IN
  IF m.stack = <<>> THEN m
  ELSE IF s.kind = "Assignment"
    THEN [stack   |-> Tail(m.stack),
          env     |-> AssignEnv(d, s, m.env),
          results |-> AssignPending(d, s, m.env, m.results)]
    ELSE [stack |-> Unfold(d, s, m.env, Tail(m.stack)), env |-> m.env, results |-> m.results]

Solo(d, q) == [m \in SoloMachines(d, q) |-> SoloStep(d, m)]

SoloStart(d, q, store) ==
  [stack   |-> <<d.sequential[q]>>,
   env     |-> store,
   results |-> [l \in Locations(d) |-> NoWrite]]

Own(d, q) == Footprint(d, d.sequential[q])
Reads(d, q) == StatementReads(d, d.sequential[q])

\* The next statement of a machine of q is one of q's.
LEMMA SoloStatement ==
  ASSUME NEW d, WellFormed(d), NEW q \in Processes(d), NEW m \in SoloMachines(d, q),
         m.stack # <<>>
  PROVE  /\ Head(m.stack) \in Inside(d, d.sequential[q])
         /\ Head(m.stack) \in Statements(d)
         /\ d.root[Head(m.stack)] = d.sequential[q]
         /\ Tail(m.stack) \in Seq(Inside(d, d.sequential[q]))
         /\ StatementOK(d, Head(m.stack))
<1>1. m.stack \in Seq(Inside(d, d.sequential[q]))
  BY DEF SoloMachines
<1>2. /\ Head(m.stack) \in Inside(d, d.sequential[q])
      /\ Tail(m.stack) \in Seq(Inside(d, d.sequential[q]))
  BY <1>1, HeadTailProperties
<1> QED BY <1>2 DEF Inside, WellFormed

\* A step of q leads to a machine of q and writes only q's bits, those of
\* blocking variables at once and those of nonblocking ones deferred.
LEMMA SoloWrites ==
  ASSUME NEW d, WellFormed(d), NEW q \in Processes(d), NEW m \in SoloMachines(d, q)
  PROVE  /\ SoloStep(d, m) \in SoloMachines(d, q)
         /\ \A l \in Locations(d) :
              /\ SoloStep(d, m).env[l] # m.env[l] => l \in Own(d, q) /\ l[1] \in Blocking(d)
              /\ SoloStep(d, m).results[l] # m.results[l] =>
                   l \in Own(d, q) /\ l[1] \in Nonblocking(d)
<1> DEFINE I == Inside(d, d.sequential[q])
           B == Bit \cup {NoWrite}
           a == Head(m.stack)
           s == d.statement[a]
           n == SoloStep(d, m)
           e == m.env
           r == m.results
<1>1. m.stack \in Seq(I) /\ m.env \in Stores(d) /\ m.results \in DeferredWrites(d)
  BY DEF SoloMachines
<1>2. DeferredWrites(d) = [Locations(d) -> B]
  BY SameStores
<1>3. CASE m.stack = <<>>
  BY <1>3 DEF SoloStep
<1>4. ASSUME m.stack # <<>>
      PROVE  /\ a \in I /\ a \in Statements(d) /\ d.root[a] = d.sequential[q]
             /\ Tail(m.stack) \in Seq(I) /\ StatementOK(d, a)
  BY <1>4, SoloStatement
<1>5. CASE m.stack # <<>> /\ s.kind = "Assignment"
  <2> DEFINE e2 == AssignEnv(d, s, e)
             r2 == AssignPending(d, s, e, r)
  <2>1. n = [stack |-> Tail(m.stack), env |-> e2, results |-> r2]
    BY <1>5 DEF SoloStep
  <2>2. /\ s.assign \in {"Blocking", "Nonblocking", "Continuous"}
        /\ TargetOK(d, s.target) /\ ExpressionOK(d, s.value)
    BY <1>4, <1>5 DEF StatementOK
  <2>3. /\ s.assign = "Nonblocking" => s.target.var \in Nonblocking(d)
        /\ s.assign # "Nonblocking" => s.target.var \in Blocking(d)
    BY <1>4, <1>5, <2>2, AssignedVariable
  <2>4. TargetFootprint(d, s.target) \subseteq Own(d, q)
    <3>1. a \in AssignmentsIn(d, d.sequential[q])
      BY <1>4, <1>5 DEF AssignmentsIn
    <3> QED BY <3>1 DEF Own, Footprint
  <2>5. \A l \in Destination(d, s.target, e) : l \in Own(d, q) /\ l[1] = s.target.var
    BY <1>1, <2>2, <2>4, DestinationInFootprint, DestinationInVariable
  <2>6. ExpressionOK(d, s.value) /\ e \in Stores(d)
    BY <1>1, <2>2
  <2>7. Bit \subseteq B /\ r \in [Locations(d) -> B]
    BY <1>1, <1>2
  <2> HIDE DEF s, B, n, a, e, r
  <2>8. /\ e2 \in Stores(d) /\ r2 \in [Locations(d) -> B]
        /\ \A l \in Locations(d) :
             /\ e2[l] # e[l] => s.assign # "Nonblocking" /\ l \in Destination(d, s.target, e)
             /\ r2[l] # r[l] => s.assign = "Nonblocking" /\ l \in Destination(d, s.target, e)
    BY ONLY WellFormed(d), <2>6, <2>7, AssignmentWrites
  <2> HIDE DEF e2, r2
  <2>9. n \in SoloMachines(d, q)
    BY <1>2, <1>4, <1>5, <2>1, <2>8 DEF SoloMachines
  <2>10. \A l \in Locations(d) :
          /\ n.env[l] # e[l] => l \in Own(d, q) /\ l[1] \in Blocking(d)
          /\ n.results[l] # r[l] => l \in Own(d, q) /\ l[1] \in Nonblocking(d)
    BY <2>1, <2>3, <2>5, <2>8
  <2> QED BY <2>9, <2>10 DEF n, e, r
<1>6. CASE m.stack # <<>> /\ s.kind # "Assignment"
  <2> DEFINE stack2 == Unfold(d, s, m.env, Tail(m.stack))
  <2>1. n = [stack |-> stack2, env |-> m.env, results |-> m.results]
    BY <1>6 DEF SoloStep
  <2>2. stack2 \in Seq(I)
    <3> HIDE DEF a
    <3> QED BY <1>4, <1>6, UnfoldStaysInside
  <2> QED BY <1>1, <2>1, <2>2 DEF SoloMachines
<1> QED BY <1>3, <1>5, <1>6

\* The bits a process reads or writes.
Sees(d, q) == {l \in Locations(d) : l \in LocationsIn(d, Reads(d, q)) \/ l \in Own(d, q)}

\* The machine is where a process with this stack is, as far as it can see.
Matches(d, q, m, top, store, results) ==
  /\ m.stack = top
  /\ \A l \in Sees(d, q) : m.env[l] = store[l]
  /\ \A l \in Sees(d, q) \cap Own(d, q) : m.results[l] = results[l]

\* A process takes the same step wherever it sees the same.
LEMMA SoloAgrees ==
  ASSUME NEW d, WellFormed(d), NEW q \in Processes(d),
         NEW m \in SoloMachines(d, q), NEW n \in SoloMachines(d, q),
         Matches(d, q, m, n.stack, n.env, n.results)
  PROVE  LET k == SoloStep(d, n)
         IN  Matches(d, q, SoloStep(d, m), k.stack, k.env, k.results)
<1> DEFINE a == Head(n.stack)
           s == d.statement[a]
           k == SoloStep(d, n)
           j == SoloStep(d, m)
<1>1. /\ m.stack = n.stack
      /\ \A l \in Sees(d, q) : m.env[l] = n.env[l]
      /\ \A l \in Sees(d, q) \cap Own(d, q) : m.results[l] = n.results[l]
  BY DEF Matches
<1>2. Agree(d, Reads(d, q), m.env, n.env)
  <2>1. Reads(d, q) \subseteq Variables(d)
    BY ReadsDeclared DEF Reads
  <2>2. LocationsIn(d, Reads(d, q)) \subseteq Sees(d, q)
    BY <2>1 DEF LocationsIn, Locations, Sees
  <2> QED BY <1>1, <2>2 DEF Agree
<1>3. CASE n.stack = <<>>
  BY <1>1, <1>3 DEF SoloStep, Matches
<1>4. ASSUME n.stack # <<>>
      PROVE  /\ a \in Inside(d, d.sequential[q])
             /\ \A rest : Unfold(d, s, m.env, rest) = Unfold(d, s, n.env, rest)
             /\ s.kind = "Assignment" =>
                  /\ Eval(d, s.value, m.env) = Eval(d, s.value, n.env)
                  /\ TargetStart(d, s.target, m.env) = TargetStart(d, s.target, n.env)
                  /\ Destination(d, s.target, m.env) = Destination(d, s.target, n.env)
  <2>1. a \in Inside(d, d.sequential[q])
    BY <1>4, SoloStatement
  <2>2. Agree(d, StatementReads(d, d.sequential[q]), m.env, n.env)
    BY <1>2 DEF Reads
  <2> HIDE DEF a
  <2> QED BY <2>1, <2>2, StatementAgrees
<1>5. CASE n.stack # <<>> /\ s.kind # "Assignment"
  BY <1>1, <1>4, <1>5 DEF SoloStep, Matches
<1>6. CASE n.stack # <<>> /\ s.kind = "Assignment"
  <2> DEFINE value == Eval(d, s.value, n.env)
             t == s.target
  <2>1. /\ Eval(d, s.value, m.env) = value
        /\ TargetStart(d, t, m.env) = TargetStart(d, t, n.env)
        /\ Destination(d, t, m.env) = Destination(d, t, n.env)
    BY <1>4, <1>6
  <2>2. /\ j = [stack   |-> Tail(m.stack),
                env     |-> AssignEnv(d, s, m.env),
                results |-> AssignPending(d, s, m.env, m.results)]
        /\ k = [stack   |-> Tail(n.stack),
                env     |-> AssignEnv(d, s, n.env),
                results |-> AssignPending(d, s, n.env, n.results)]
    BY <1>1, <1>6 DEF SoloStep
  <2>3. /\ m.env \in [Locations(d) -> Bit] /\ n.env \in [Locations(d) -> Bit]
        /\ m.results \in [Locations(d) -> Bit \cup {NoWrite}]
        /\ n.results \in [Locations(d) -> Bit \cup {NoWrite}]
    BY SameStores DEF SoloMachines, Stores
  <2> HIDE DEF value, t
  <2>4. ASSUME NEW l \in Sees(d, q)
        PROVE  j.env[l] = k.env[l]
    <3>1. l \in Locations(d) /\ m.env[l] = n.env[l]
      BY <1>1 DEF Sees
    <3>2. StoreBits(d, m.env, t, value, m.env)[l] = StoreBits(d, n.env, t, value, n.env)[l]
      BY ONLY <2>1, <2>3, <3>1 DEF StoreBits
    <3>3. AssignEnv(d, s, m.env)[l] = AssignEnv(d, s, n.env)[l]
      BY <2>1, <3>1, <3>2 DEF AssignEnv, t, value
    <3> QED BY <2>2, <3>3
  <2>5. ASSUME NEW l \in Sees(d, q) \cap Own(d, q)
        PROVE  j.results[l] = k.results[l]
    <3>1. l \in Locations(d) /\ m.results[l] = n.results[l]
      BY <1>1 DEF Sees
    <3>2. StoreBits(d, m.results, t, value, m.env)[l] = StoreBits(d, n.results, t, value, n.env)[l]
      BY ONLY <2>1, <2>3, <3>1 DEF StoreBits
    <3>3. AssignPending(d, s, m.env, m.results)[l] = AssignPending(d, s, n.env, n.results)[l]
      BY <2>1, <3>1, <3>2 DEF AssignPending, t, value
    <3> QED BY <2>2, <3>3
  <2>6. j.stack = k.stack
    BY <1>1, <2>2
  <2> HIDE DEF j, k
  <2>7. Matches(d, q, j, k.stack, k.env, k.results)
    BY <2>4, <2>5, <2>6 DEF Matches
  <2> QED BY <2>7 DEF j, k
<1> QED BY <1>3, <1>5, <1>6

-----------------------------------------------------------------------------
(* The processes together. *)

\* Each process is where its run alone from the store at the edge has been,
\* bits no process owns are as they were at the edge, and so are those of
\* variables with nonblocking writes.
Together(d, atEdge, store, results, tops) ==
  /\ store \in Stores(d) /\ results \in DeferredWrites(d)
  /\ tops = [q \in Processes(d) |-> tops[q]]
  /\ \A q \in Processes(d) :
       \E m \in Reachable(Solo(d, q), SoloStart(d, q, atEdge)) :
         Matches(d, q, m, tops[q], store, results)
  /\ \A l \in Locations(d) :
       /\ store[l] # atEdge[l] => l[1] \in Blocking(d)
       /\ results[l] # NoWrite => l[1] \in Nonblocking(d)
       /\ (\A q \in Processes(d) : l \notin Own(d, q)) =>
            store[l] = atEdge[l] /\ results[l] = NoWrite

\* What is reachable alone is a machine of the process.
LEMMA ReachableIsSolo ==
  ASSUME NEW d, NEW q, NEW start, NEW m \in Reachable(Solo(d, q), start)
  PROVE  m \in SoloMachines(d, q) /\ Solo(d, q)[m] = SoloStep(d, m)
BY DEF Reachable, Solo

LEMMA SoloClosed ==
  ASSUME NEW d, WellFormed(d), NEW q \in Processes(d)
  PROVE  /\ DOMAIN Solo(d, q) = SoloMachines(d, q)
         /\ \A m \in DOMAIN Solo(d, q) : Solo(d, q)[m] \in DOMAIN Solo(d, q)
BY SoloWrites DEF Solo

LEMMA SoloStartType ==
  ASSUME NEW d, WellFormed(d), NEW q \in Processes(d), NEW store \in Stores(d)
  PROVE  SoloStart(d, q, store) \in SoloMachines(d, q)
<1>1. d.sequential[q] \in Statements(d) /\ d.root[d.sequential[q]] = d.sequential[q]
  BY DEF WellFormed, Processes, ToIds
<1>2. <<d.sequential[q]>> \in Seq(Inside(d, d.sequential[q]))
  BY <1>1 DEF Inside
<1>3. [l \in Locations(d) |-> NoWrite] \in DeferredWrites(d)
  BY SameStores
<1> QED BY <1>2, <1>3 DEF SoloStart, SoloMachines

\* No process has begun.
LEMMA TogetherStart ==
  ASSUME NEW d, WellFormed(d), NEW store \in Stores(d)
  PROVE  Together(d, store, store, [l \in Locations(d) |-> NoWrite],
                  [q \in Processes(d) |-> <<d.sequential[q]>>])
<1> DEFINE results == [l \in Locations(d) |-> NoWrite]
           tops == [q \in Processes(d) |-> <<d.sequential[q]>>]
<1>1. results \in DeferredWrites(d)
  BY SameStores
<1>2. ASSUME NEW q \in Processes(d)
      PROVE  \E m \in Reachable(Solo(d, q), SoloStart(d, q, store)) :
               Matches(d, q, m, tops[q], store, results)
  <2> DEFINE m == SoloStart(d, q, store)
  <2>1. m \in DOMAIN Solo(d, q)
    BY SoloStartType, SoloClosed
  <2>2. m \in Reachable(Solo(d, q), m)
    <3> HIDE DEF m
    <3> QED BY <2>1, ReachableStart
  <2>3. Matches(d, q, m, tops[q], store, results)
    BY DEF Matches, SoloStart
  <2> QED BY <2>2, <2>3
<1> QED BY <1>1, <1>2 DEF Together

\* What analyze refuses keeps a process from seeing what another one writes.
LEMMA OthersUnseen ==
  ASSUME NEW d, Supported(d), NEW p \in Processes(d), NEW q \in Processes(d), p # q,
         NEW l \in Locations(d), l \in Own(d, p)
  PROVE  /\ l \notin Own(d, q)
         /\ l[1] \in Blocking(d) => l \notin Sees(d, q)
<1>1. ~ Overlap(d) /\ ~ CrossProcessRead(d)
  BY DEF Supported, AnalyzeError
<1>2. l \notin Own(d, q)
  BY <1>1 DEF Overlap, Own
<1>3. ASSUME l[1] \in Blocking(d), l \in LocationsIn(d, Reads(d, q))
      PROVE  FALSE
  <2>1. l[1] \in Reads(d, q)
    BY <1>3 DEF LocationsIn, LocationsOf
  <2>2. OwnsBitOf(d, p, l[1])
    BY DEF OwnsBitOf, Own
  <2> QED BY <1>1, <1>3, <2>1, <2>2 DEF CrossProcessRead, Reads
<1> QED BY <1>2, <1>3 DEF Sees

\* A step of one process leaves every process on its run alone.
LEMMA TogetherStep ==
  ASSUME NEW d, WellFormed(d), Supported(d), NEW atEdge, NEW store, NEW results, NEW tops,
         Together(d, atEdge, store, results, tops), NEW p \in Processes(d)
  PROVE  LET n == SoloStep(d, [stack |-> tops[p], env |-> store, results |-> results])
         IN  Together(d, atEdge, n.env, n.results, [tops EXCEPT ![p] = n.stack])
<1> DEFINE now == [stack |-> tops[p], env |-> store, results |-> results]
           n == SoloStep(d, now)
           F(q) == Solo(d, q)
           R(q) == Reachable(Solo(d, q), SoloStart(d, q, atEdge))
<1>1. /\ store \in Stores(d) /\ results \in DeferredWrites(d)
      /\ tops = [q \in Processes(d) |-> tops[q]]
      /\ \A q \in Processes(d) : \E m \in R(q) : Matches(d, q, m, tops[q], store, results)
      /\ \A l \in Locations(d) :
           /\ store[l] # atEdge[l] => l[1] \in Blocking(d)
           /\ results[l] # NoWrite => l[1] \in Nonblocking(d)
           /\ (\A q \in Processes(d) : l \notin Own(d, q)) =>
                store[l] = atEdge[l] /\ results[l] = NoWrite
  BY DEF Together
<1>2. PICK m \in R(p) : Matches(d, p, m, tops[p], store, results)
  BY <1>1
<1>3. m \in SoloMachines(d, p) /\ F(p)[m] = SoloStep(d, m)
  BY ReachableIsSolo
<1>4. now \in SoloMachines(d, p)
  BY <1>1, <1>2, <1>3 DEF SoloMachines, Matches
<1>5. /\ now.stack = tops[p] /\ now.env = store /\ now.results = results
  OBVIOUS
<1> HIDE DEF now
<1>6. /\ n \in SoloMachines(d, p)
      /\ \A l \in Locations(d) :
           /\ n.env[l] # store[l] => l \in Own(d, p) /\ l[1] \in Blocking(d)
           /\ n.results[l] # results[l] => l \in Own(d, p) /\ l[1] \in Nonblocking(d)
  BY <1>4, <1>5, SoloWrites
<1>7. n.env \in Stores(d) /\ n.results \in DeferredWrites(d)
  BY <1>6 DEF SoloMachines
<1>8. SoloStep(d, m) \in R(p) /\ Matches(d, p, SoloStep(d, m), n.stack, n.env, n.results)
  <2>1. Matches(d, p, m, now.stack, now.env, now.results)
    BY <1>2, <1>5
  <2>2. Matches(d, p, SoloStep(d, m), n.stack, n.env, n.results)
    BY <1>3, <1>4, <2>1, SoloAgrees
  <2>3. F(p)[m] \in R(p)
    BY SoloClosed, ReachableStep
  <2> QED BY <1>3, <2>2, <2>3
<1> HIDE DEF n
<1>9. ASSUME NEW q \in Processes(d), q # p
      PROVE  \E k \in R(q) : Matches(d, q, k, tops[q], n.env, n.results)
  <2>1. PICK k \in R(q) : Matches(d, q, k, tops[q], store, results)
    BY <1>1
  <2>2. \A l \in Sees(d, q) : n.env[l] = store[l]
    <3>1. \A l \in Sees(d, q) : l \in Locations(d)
      BY DEF Sees
    <3> QED BY <1>6, <1>9, <3>1, OthersUnseen
  <2>3. \A l \in Sees(d, q) \cap Own(d, q) : n.results[l] = results[l]
    <3>1. \A l \in Sees(d, q) : l \in Locations(d)
      BY DEF Sees
    <3> QED BY <1>6, <1>9, <3>1, OthersUnseen
  <2> QED BY <2>1, <2>2, <2>3 DEF Matches
<1> DEFINE tops2 == [tops EXCEPT ![p] = n.stack]
<1>10. \A q \in Processes(d) : \E k \in R(q) : Matches(d, q, k, tops2[q], n.env, n.results)
  <2>1. tops2[p] = n.stack /\ \A q \in Processes(d) : q # p => tops2[q] = tops[q]
    BY <1>1
  <2> HIDE DEF tops2
  <2> QED BY <1>8, <1>9, <2>1
<1>11. ASSUME NEW l \in Locations(d)
       PROVE  /\ n.env[l] # atEdge[l] => l[1] \in Blocking(d)
              /\ n.results[l] # NoWrite => l[1] \in Nonblocking(d)
              /\ (\A q \in Processes(d) : l \notin Own(d, q)) =>
                   n.env[l] = atEdge[l] /\ n.results[l] = NoWrite
  BY <1>1, <1>6
<1>12. Together(d, atEdge, n.env, n.results, tops2)
  BY <1>1, <1>7, <1>10, <1>11 DEF Together
<1> QED BY <1>12 DEF n, now

-----------------------------------------------------------------------------
(* The end of an edge. *)

Outcome(d, store, results) ==
  [l \in Locations(d) |-> IF results[l] = NoWrite THEN store[l] ELSE results[l]]

AllDone(d) == [q \in Processes(d) |-> <<>>]

\* Wherever the processes have all come to their end, they leave one outcome.
LEMMA SameOutcome ==
  ASSUME NEW d, WellFormed(d), NEW atEdge \in Stores(d),
         NEW store, NEW results, Together(d, atEdge, store, results, AllDone(d)),
         NEW store2, NEW results2, Together(d, atEdge, store2, results2, AllDone(d))
  PROVE  Outcome(d, store, results) = Outcome(d, store2, results2)
<1> SUFFICES ASSUME NEW l \in Locations(d)
             PROVE  store[l] = store2[l] /\ results[l] = results2[l]
  BY DEF Outcome
<1>1. CASE \A q \in Processes(d) : l \notin Own(d, q)
  BY <1>1 DEF Together
<1>2. ASSUME NEW q \in Processes(d), l \in Own(d, q)
      PROVE  store[l] = store2[l] /\ results[l] = results2[l]
  <2> DEFINE R == Reachable(Solo(d, q), SoloStart(d, q, atEdge))
  <2>1. PICK m \in R : Matches(d, q, m, <<>>, store, results)
    BY DEF Together, AllDone
  <2>2. PICK k \in R : Matches(d, q, k, <<>>, store2, results2)
    BY DEF Together, AllDone
  <2>3. Solo(d, q)[m] = m /\ Solo(d, q)[k] = k
    <3>1. Solo(d, q)[m] = SoloStep(d, m) /\ Solo(d, q)[k] = SoloStep(d, k)
      BY ReachableIsSolo
    <3>2. m.stack = <<>> /\ k.stack = <<>>
      BY <2>1, <2>2 DEF Matches
    <3> QED BY <3>1, <3>2 DEF SoloStep
  <2>4. SoloStart(d, q, atEdge) \in DOMAIN Solo(d, q)
    BY SoloStartType, SoloClosed
  <2>5. m = k
    <3>1. \A x \in DOMAIN Solo(d, q) : Solo(d, q)[x] \in DOMAIN Solo(d, q)
      BY SoloClosed
    <3> QED BY <2>3, <2>4, <3>1, UniqueEnd
  <2>6. l \in Sees(d, q) \cap Own(d, q)
    BY <1>2 DEF Sees
  <2> QED BY <2>1, <2>2, <2>5, <2>6 DEF Matches
<1> QED BY <1>1, <1>2

-----------------------------------------------------------------------------
(* run_sequential: the processes one after the other. *)

Rest(d, k) == SubSeq(d.sequential, k + 1, Len(d.sequential))

\* The first k - 1 processes are done, the k-th has current left to run.
TopsAt(d, k, current) ==
  [q \in Processes(d) |-> IF q < k THEN <<>> ELSE IF q = k THEN current ELSE <<d.sequential[q]>>]

LEMMA ProcessNumbers ==
  ASSUME NEW d, WellFormed(d)
  PROVE  /\ d.sequential \in Seq(Statements(d))
         /\ Len(d.sequential) \in Nat
         /\ Processes(d) = 1 .. Len(d.sequential)
         /\ \A k \in 0 .. Len(d.sequential) : Rest(d, k) \in Seq(Statements(d))
         /\ Rest(d, 0) = d.sequential
<1>1. d.sequential \in Seq(Statements(d))
  BY DEF WellFormed
<1>2. Len(d.sequential) \in Nat /\ DOMAIN d.sequential = 1 .. Len(d.sequential)
  BY <1>1, LenProperties
<1>3. ASSUME NEW k \in 0 .. Len(d.sequential)
      PROVE  Rest(d, k) \in Seq(Statements(d))
  <2>1. \A i \in k + 1 .. Len(d.sequential) : d.sequential[i] \in Statements(d)
    BY <1>1, <1>2, ElementOfSeq
  <2> QED BY <1>1, <1>2, <2>1, SubSeqProperties DEF Rest
<1>4. Rest(d, 0) = d.sequential
  BY <1>1, <1>2, SubSeqFull DEF Rest
<1> QED BY <1>1, <1>2, <1>3, <1>4 DEF Processes

\* When a process has nothing left, the next one begins.
LEMMA NextProcess ==
  ASSUME NEW d, WellFormed(d), NEW k \in 0 .. Len(d.sequential), k # Len(d.sequential)
  PROVE  /\ k + 1 \in Processes(d)
         /\ Rest(d, k) = <<d.sequential[k + 1]>> \o Rest(d, k + 1)
         /\ TopsAt(d, k, <<>>) = TopsAt(d, k + 1, <<d.sequential[k + 1]>>)
<1>1. /\ d.sequential \in Seq(Statements(d)) /\ Len(d.sequential) \in Nat
      /\ Processes(d) = 1 .. Len(d.sequential)
  BY ProcessNumbers
<1>2. k + 1 \in 1 .. Len(d.sequential)
  BY <1>1
<1>3. Rest(d, k) = <<d.sequential[k + 1]>> \o Rest(d, k + 1)
  BY <1>1, <1>2, SubSeqRecursiveFirst DEF Rest
<1>4. \A q \in 1 .. Len(d.sequential) :
        /\ q < k + 1 <=> q < k \/ q = k
        /\ (q = k + 1 => ~ (q < k) /\ q # k)
  BY <1>1
<1>5. TopsAt(d, k, <<>>) = TopsAt(d, k + 1, <<d.sequential[k + 1]>>)
  BY <1>1, <1>4 DEF TopsAt
<1> QED BY <1>1, <1>2, <1>3, <1>5

LEMMA LastProcess ==
  ASSUME NEW d, WellFormed(d), NEW k \in 0 .. Len(d.sequential), Rest(d, k) = <<>>
  PROVE  k = Len(d.sequential) /\ TopsAt(d, k, <<>>) = AllDone(d)
<1>1. Len(d.sequential) \in Nat /\ Processes(d) = 1 .. Len(d.sequential)
  BY ProcessNumbers
<1>2. k = Len(d.sequential)
  <2> SUFFICES ASSUME k # Len(d.sequential) PROVE FALSE
    OBVIOUS
  <2>1. Rest(d, k) = <<d.sequential[k + 1]>> \o Rest(d, k + 1)
    BY NextProcess
  <2>2. /\ d.sequential[k + 1] \in Statements(d)
        /\ Rest(d, k + 1) \in Seq(Statements(d))
    <3>1. k + 1 \in 1 .. Len(d.sequential)
      BY <1>1
    <3>2. k + 1 \in 0 .. Len(d.sequential)
      BY <1>1, <3>1
    <3> QED BY <3>1, <3>2, ProcessNumbers, ElementOfSeq
  <2>3. Len(<<d.sequential[k + 1]>> \o Rest(d, k + 1)) = 1 + Len(Rest(d, k + 1))
    BY <2>2, ConcatProperties
  <2>4. Len(Rest(d, k + 1)) \in Nat
    BY <2>2, LenProperties
  <2> QED BY <2>1, <2>3, <2>4
<1>3. TopsAt(d, k, <<>>) = AllDone(d)
  <2>1. \A q \in Processes(d) : q < k \/ q = k
    BY <1>1, <1>2
  <2> QED BY <2>1 DEF TopsAt, AllDone
<1> QED BY <1>2, <1>3

\* pending holds what is deferred, over the store at the edge.
LEMMA PendingIsDeferred ==
  ASSUME NEW d, WellFormed(d), NEW s, ExpressionOK(d, s.value), NEW store \in Stores(d),
         NEW atEdge \in Stores(d), NEW results \in DeferredWrites(d)
  PROVE  AssignPending(d, s, store, Outcome(d, atEdge, results)) =
           Outcome(d, atEdge, AssignPending(d, s, store, results))
<1> DEFINE value == Eval(d, s.value, store)
           from == TargetStart(d, s.target, store)
           dest == Destination(d, s.target, store)
<1>1. \A i : BitOf(value, i) \in Bit
  <2>1. \A i \in DOMAIN value : value[i] \in Bit
    BY EvalIsBits
  <2> QED BY <2>1, BitOfIsBit
<1>2. NoWrite \notin Bit
  BY DEF NoWrite, S!NoWrite, Bit
<1>3. results \in [Locations(d) -> Bit \cup {NoWrite}]
  BY SameStores
<1>4. AssignPending(d, s, store, results) =
        IF s.assign = "Nonblocking"
          THEN [l \in Locations(d) |-> IF l \in dest THEN BitOf(value, l[2] - from) ELSE results[l]]
          ELSE results
  BY <1>3 DEF AssignPending, StoreBits
<1>5. AssignPending(d, s, store, Outcome(d, atEdge, results)) =
        IF s.assign = "Nonblocking"
          THEN [l \in Locations(d) |-> IF l \in dest THEN BitOf(value, l[2] - from)
                                                     ELSE Outcome(d, atEdge, results)[l]]
          ELSE Outcome(d, atEdge, results)
  BY DEF AssignPending, StoreBits, Outcome
<1> HIDE DEF value, from, dest
<1> QED BY <1>1, <1>2, <1>4, <1>5 DEF Outcome

-----------------------------------------------------------------------------
(* The invariant. *)

\* run_sequential is at the k-th process, has current of it left to run, and
\* has deferred results.
RunningAt(k, current, results) ==
  /\ k = 0 => current = <<>>
  /\ stack = current \o Rest(design, k)
  /\ pending = Outcome(design, before, results)
  /\ Together(design, before, env, results, TopsAt(design, k, current))

SequentialRun ==
  phase = "sequential" =>
    /\ edge = "running" /\ call = "tick"
    /\ \E k \in 0 .. Len(design.sequential) : \E current, results : RunningAt(k, current, results)
    /\ \A v \in DOMAIN design.sampled :
         Word(design, before, v) = Eval(design, design.sampled[v], before)

\* The interleaving with the combinational logic asleep.
Interleaved == edge = "running" /\ ~ awake => Together(design, before, live, deferred, stacks)

\* What tick has left behind is the outcome of an edge from the same store.
Returned ==
  edge = "running" /\ phase # "sequential" /\ ~ PanickedInTick =>
    \E store, results : /\ Together(design, before, store, results, AllDone(design))
                        /\ values = Outcome(design, store, results)

EdgeInvariant ==
  /\ before \in Stores(design)
  /\ SequentialRun /\ Interleaved /\ Returned /\ AsleepIsRaceFree

\* A statement of run_sequential is a step of the process it belongs to.
LEMMA ExecuteIsStep ==
  ASSUME TypeOK, Generated, EdgeInvariant, phase = "sequential", Execute, phase' = "sequential",
         UNCHANGED <<before, design>>
  PROVE  \E k \in 0 .. Len(design'.sequential) : \E current, results :
           RunningAt(k, current, results)'
<1> DEFINE d == design
           N == Len(d.sequential)
<1>1. WellFormed(d) /\ Supported(d) /\ before \in Stores(d) /\ env \in Stores(d)
  BY GeneratedStatements DEF TypeOK, Generated, EdgeInvariant
<1>2. N \in Nat /\ Processes(d) = 1 .. N
  BY <1>1, ProcessNumbers
<1>3. \E p \in Processes(d) : \E current, results : current # <<>> /\ RunningAt(p, current, results)
  <2>1. PICK k \in 0 .. N : \E current, results : RunningAt(k, current, results)
    BY DEF EdgeInvariant, SequentialRun
  <2>2. PICK current, results : RunningAt(k, current, results)
    BY <2>1
  <2>3. CASE current # <<>>
    <3>1. k # 0
      BY <2>2, <2>3 DEF RunningAt
    <3>2. k \in Processes(d)
      BY <1>2, <3>1
    <3> QED BY ONLY <2>2, <2>3, <3>2
  <2>4. CASE current = <<>>
    <3>1. Rest(d, k) \in Seq(Statements(d))
      BY <1>1, ProcessNumbers
    <3>2. stack = Rest(d, k)
      BY <2>2, <2>4, <3>1, ConcatEmptySeq DEF RunningAt
    <3>3. k # N
      <4>1. Rest(d, N) = <<>>
        BY <1>1, <1>2, ProcessNumbers, SubSeqEmpty DEF Rest
      <4> QED BY <3>2, <4>1 DEF Execute
    <3>4. /\ k + 1 \in Processes(d)
          /\ Rest(d, k) = <<d.sequential[k + 1]>> \o Rest(d, k + 1)
          /\ TopsAt(d, k, <<>>) = TopsAt(d, k + 1, <<d.sequential[k + 1]>>)
      BY <1>1, <3>3, NextProcess
    <3>5. RunningAt(k + 1, <<d.sequential[k + 1]>>, results)
      BY <1>2, <2>2, <2>4, <3>2, <3>4 DEF RunningAt
    <3>6. <<d.sequential[k + 1]>> # <<>>
      OBVIOUS
    <3> QED BY ONLY <3>4, <3>5, <3>6
  <2> QED BY <2>3, <2>4
<1>4. PICK p \in Processes(d) : \E current, results : current # <<>> /\ RunningAt(p, current, results)
  BY <1>3
<1>5. PICK current, results : current # <<>> /\ RunningAt(p, current, results)
  BY <1>4
<1> DEFINE rest == Rest(d, p)
           tops == TopsAt(d, p, current)
           now == [stack |-> tops[p], env |-> env, results |-> results]
           n == SoloStep(d, now)
           s == d.statement[Head(current)]
<1>6. /\ stack = current \o rest /\ pending = Outcome(d, before, results)
      /\ Together(d, before, env, results, tops)
  BY <1>5 DEF RunningAt
<1>7. tops[p] = current
  BY <1>2 DEF TopsAt
<1>8. now \in SoloMachines(d, p)
  <2>1. PICK m \in Reachable(Solo(d, p), SoloStart(d, p, before)) :
          Matches(d, p, m, tops[p], env, results)
    BY <1>6 DEF Together
  <2>2. m \in SoloMachines(d, p)
    BY ReachableIsSolo
  <2> QED BY <1>6, <2>1, <2>2 DEF Together, Matches, SoloMachines
<1>9. now.stack = current /\ now.env = env /\ now.results = results
  BY <1>7
<1>10. rest \in Seq(Statements(d)) /\ current \in Seq(Statements(d)) /\ current # <<>>
  <2>1. current \in Seq(Inside(d, d.sequential[p]))
    BY <1>8, <1>9 DEF SoloMachines
  <2>2. Inside(d, d.sequential[p]) \subseteq Statements(d)
    BY DEF Inside
  <2>3. p \in 0 .. N
    BY <1>2
  <2> QED BY <1>1, <1>5, <2>1, <2>2, <2>3, ProcessNumbers, SeqMonotonic
<1>11. /\ Head(stack) = Head(current) /\ Tail(stack) = Tail(current) \o rest
       /\ stack # <<>> /\ Tail(current) \in Seq(Statements(d))
  <2>1. stack # <<>> /\ Head(stack) = Head(current) /\ Tail(stack) = Tail(current) \o rest
    BY <1>6, <1>10
  <2> QED BY <1>10, <2>1, HeadTailProperties
<1>12. StatementOK(d, Head(current))
  BY <1>1, <1>8, <1>9, <1>10, SoloStatement
<1> DEFINE m == Machine(stack, env, pending)
           after == ExecStep(d, m)
<1>13. /\ env' = after.env /\ pending' = after.pending /\ stack' = after.stack
       /\ ~ after.panicked
  BY DEF Execute
<1>14. m.stack = stack /\ m.env = env /\ m.pending = pending /\ ~ m.panicked
       /\ m = [stack |-> stack, env |-> env, pending |-> pending, panicked |-> FALSE]
  BY DEF Machine
<1> HIDE DEF m
<1>15. ~ Panics(d, s, env)
  <2> SUFFICES ASSUME Panics(d, s, env) PROVE after.panicked
    BY <1>13
  <2>1. after = [m EXCEPT !.panicked = TRUE]
    BY <1>11, <1>14 DEF ExecStep
  <2> QED BY <1>14, <2>1
<1>16. /\ env' = n.env /\ pending' = Outcome(d, before, n.results) /\ stack' = n.stack \o rest
  <2>1. CASE s.kind = "Assignment"
    <3>1. after = [m EXCEPT !.stack = Tail(stack), !.env = AssignEnv(d, s, env),
                            !.pending = AssignPending(d, s, env, pending)]
      BY <1>11, <1>14, <1>15, <2>1 DEF ExecStep
    <3>2. n = [stack   |-> Tail(current),
               env     |-> AssignEnv(d, s, env),
               results |-> AssignPending(d, s, env, results)]
      BY <1>5, <1>9, <2>1 DEF SoloStep
    <3>3. ExpressionOK(d, s.value) /\ results \in DeferredWrites(d)
      BY <1>6, <1>12, <2>1 DEF StatementOK, Together
    <3>4. AssignPending(d, s, env, Outcome(d, before, results)) =
            Outcome(d, before, AssignPending(d, s, env, results))
      <4> HIDE DEF s
      <4> QED BY <1>1, <3>3, PendingIsDeferred
    <3> HIDE DEF n, after
    <3> QED BY <1>6, <1>11, <1>13, <1>14, <3>1, <3>2, <3>4
  <2>2. CASE s.kind # "Assignment"
    <3>1. after = [m EXCEPT !.stack = Unfold(d, s, env, Tail(stack))]
      BY <1>11, <1>14, <1>15, <2>2 DEF ExecStep
    <3>2. n = [stack |-> Unfold(d, s, env, Tail(current)), env |-> env, results |-> results]
      BY <1>5, <1>9, <2>2 DEF SoloStep
    <3>3. Unfold(d, s, env, Tail(current) \o rest) = Unfold(d, s, env, Tail(current)) \o rest
      <4>1. \A ids : ids \in Seq(Statements(d)) =>
              ids \o (Tail(current) \o rest) = (ids \o Tail(current)) \o rest
        BY <1>10, <1>11, ConcatAssociative
      <4>2. \A ids : PartsOf(d, Head(current), ids) => ids \in Seq(Statements(d))
        BY DEF PartsOf, Inside
      <4> QED BY <1>12, <2>2, <4>1, <4>2 DEF StatementOK, Unfold
    <3> HIDE DEF n, after
    <3> QED BY <1>6, <1>11, <1>13, <1>14, <3>1, <3>2, <3>3
  <2> QED BY <2>1, <2>2
<1>17. Together(d, before, n.env, n.results, [tops EXCEPT ![p] = n.stack])
  <2> HIDE DEF tops, d
  <2> QED BY <1>1, <1>6, TogetherStep
<1> HIDE DEF n
<1>18. [tops EXCEPT ![p] = n.stack] = TopsAt(d, p, n.stack)
  <2>1. tops = [q \in 1 .. N |-> IF q < p THEN <<>> ELSE IF q = p THEN current ELSE <<d.sequential[q]>>]
    BY <1>2 DEF TopsAt
  <2> HIDE DEF tops
  <2> QED BY <1>2, <2>1, SMTT(30) DEF TopsAt
<1>19. PICK c, r : c = n.stack /\ r = n.results
  OBVIOUS
<1>20. RunningAt(p, c, r)'
  BY <1>2, <1>16, <1>17, <1>18, <1>19 DEF RunningAt
<1> QED BY <1>2, <1>20

\* A step of the interleaving is a step of the process it belongs to.
LEMMA StepIsSolo ==
  ASSUME NEW p \in Processes(design), S!Step(p)
  PROVE  LET n == SoloStep(design, [stack |-> stacks[p], env |-> live, results |-> deferred])
         IN  /\ live' = n.env /\ deferred' = n.results
             /\ stacks' = [stacks EXCEPT ![p] = n.stack]
             /\ edge = "running" /\ edge' = edge /\ before' = before
<1> DEFINE d == design
           s == d.statement[Head(stacks[p])]
           n == SoloStep(d, [stack |-> stacks[p], env |-> live, results |-> deferred])
<1>1. stacks[p] # <<>> /\ edge = "running" /\ edge' = edge /\ before' = before
  BY DEF S!Step
<1>2. CASE S!Write(p)
  <2>1. /\ s.kind = "Assignment"
        /\ live' = AssignEnv(d, s, live) /\ deferred' = AssignPending(d, s, live, deferred)
        /\ stacks' = [stacks EXCEPT ![p] = Tail(stacks[p])]
    BY <1>2, SameStatement DEF S!Write
  <2> QED BY <1>1, <2>1 DEF SoloStep
<1>3. CASE S!Enter(p)
  <2>1. /\ s.kind # "Assignment"
        /\ live' = live /\ deferred' = deferred
        /\ stacks' = [stacks EXCEPT ![p] = Unfold(d, s, live, Tail(stacks[p]))]
    BY <1>3, SameStatement DEF S!Enter
  <2> QED BY <1>1, <2>1 DEF SoloStep
<1> QED BY <1>2, <1>3 DEF S!Step

\* With the logic asleep all it changes is what the processes share.
LEMMA ProcessStep ==
  ASSUME WellFormed(design), Supported(design),
         Together(design, before, live, deferred, stacks),
         NEW p \in Processes(design), S!Step(p), UNCHANGED design
  PROVE  Together(design, before, live, deferred, stacks)' /\ edge' = edge /\ before' = before
<1> DEFINE n == SoloStep(design, [stack |-> stacks[p], env |-> live, results |-> deferred])
<1>1. /\ live' = n.env /\ deferred' = n.results
      /\ stacks' = [stacks EXCEPT ![p] = n.stack]
      /\ edge' = edge /\ before' = before
  BY StepIsSolo
<1>2. Together(design, before, n.env, n.results, [stacks EXCEPT ![p] = n.stack])
  BY TogetherStep
<1> HIDE DEF n
<1> QED BY <1>1, <1>2

\* The update of the interleaving leaves its outcome.
LEMMA UpdateIsOutcome ==
  ASSUME Together(design, before, live, deferred, stacks), S!Update
  PROVE  /\ stacks = AllDone(design) /\ edge' = "done" /\ before' = before
         /\ live' = Outcome(design, live, deferred)
<1>1. \A q \in Processes(design) : stacks[q] = <<>>
  BY SameStores DEF S!Update
<1>2. stacks = AllDone(design)
  <2>1. stacks = [q \in Processes(design) |-> stacks[q]]
    BY DEF Together
  <2> QED BY <1>1, <2>1 DEF AllDone
<1> QED BY <1>2, SameStores DEF S!Update, Outcome, NoWrite

\* When run_sequential has nothing left, what it keeps is its outcome.
LEMMA CommitIsOutcome ==
  ASSUME TypeOK, Generated, EdgeInvariant, Commit
  PROVE  \E store, results : /\ Together(design, before, store, results, AllDone(design))
                             /\ values' = Outcome(design, store, results)
<1> DEFINE d == design
<1>1. WellFormed(d) /\ Supported(d) /\ generated.nonblocking = Nonblocking(d) /\ env \in Stores(d)
  BY GeneratedStatements DEF TypeOK, Generated
<1>2. PICK k \in 0 .. Len(d.sequential) : \E current, results : RunningAt(k, current, results)
  BY DEF Commit, EdgeInvariant, SequentialRun
<1>3. PICK current, results : RunningAt(k, current, results)
  BY <1>2
<1>4. /\ stack = current \o Rest(d, k) /\ pending = Outcome(d, before, results)
      /\ Together(d, before, env, results, TopsAt(d, k, current))
      /\ k = 0 => current = <<>>
  BY <1>3 DEF RunningAt
<1>5. Rest(d, k) \in Seq(Statements(d)) /\ Processes(d) = 1 .. Len(d.sequential)
      /\ Len(d.sequential) \in Nat
  BY <1>1, ProcessNumbers
<1>6. current \in Seq(Statements(d))
  <2>1. CASE k = 0
    BY <1>4, <2>1
  <2>2. CASE k # 0
    <3>1. k \in Processes(d)
      BY <1>5, <2>2
    <3>2. TopsAt(d, k, current)[k] = current
      BY <1>5, <3>1 DEF TopsAt
    <3>3. PICK m \in Reachable(Solo(d, k), SoloStart(d, k, before)) :
            Matches(d, k, m, current, env, results)
      BY <1>4, <3>1, <3>2 DEF Together
    <3>4. current \in Seq(Inside(d, d.sequential[k]))
      BY <3>3, ReachableIsSolo DEF Matches, SoloMachines
    <3>5. Inside(d, d.sequential[k]) \subseteq Statements(d)
      BY DEF Inside
    <3> QED BY <3>4, <3>5
  <2> QED BY <2>1, <2>2
<1>7. current = <<>> /\ Rest(d, k) = <<>>
  <2>1. current \o Rest(d, k) = <<>>
    BY <1>4 DEF Commit
  <2> QED BY <1>5, <1>6, <2>1, ConcatEmptySeq, ConcatProperties, EmptySeq, LenProperties
<1>8. Together(d, before, env, results, AllDone(d))
  BY <1>1, <1>4, <1>7, LastProcess
<1>9. values' = Outcome(d, env, results)
  <2>1. Blocking(d) \cap Nonblocking(d) = {}
    BY <1>1, SupportedNotMixed
  <2>2. ASSUME NEW l \in Locations(d)
        PROVE  (IF l[1] \in Nonblocking(d) THEN pending[l] ELSE env[l]) =
                 (IF results[l] = NoWrite THEN env[l] ELSE results[l])
    <3>1. /\ env[l] # before[l] => l[1] \in Blocking(d)
          /\ results[l] # NoWrite => l[1] \in Nonblocking(d)
      BY <1>8 DEF Together
    <3>2. pending[l] = IF results[l] = NoWrite THEN before[l] ELSE results[l]
      BY <1>4 DEF Outcome
    <3> QED BY <2>1, <3>1, <3>2
  <2>3. values' = [l \in Locations(d) |-> IF l[1] \in Nonblocking(d) THEN pending[l] ELSE env[l]]
    BY <1>1 DEF Commit, CopyPending, Stores
  <2> QED BY <2>2, <2>3 DEF Outcome
<1> QED BY <1>8, <1>9

\* A phase other than run_sequential touches nothing the edge is about.
LEMMA OtherPhases ==
  ASSUME EdgeInvariant, phase # "sequential", phase # "panicked", phase' # "sequential",
         UNCHANGED <<design, values, edgeVars, awake>>
  PROVE  EdgeInvariant'
<1>1. /\ UNCHANGED <<before, live, deferred, stacks, edge>> /\ ~ PanickedInTick
  BY DEF edgeVars, PanickedInTick
<1>2. SequentialRun' /\ Interleaved'
  BY <1>1 DEF SequentialRun, EdgeInvariant, Interleaved
<1>3. Returned'
  BY <1>1 DEF EdgeInvariant, Returned
<1>4. AsleepIsRaceFree'
  BY <1>1 DEF EdgeInvariant, AsleepIsRaceFree, RaceFree
<1> QED BY <1>1, <1>2, <1>3, <1>4 DEF EdgeInvariant

LEMMA ForkKeepsInvariant ==
  ASSUME TypeOK, Generated, EdgeInvariant, Fork, UNCHANGED awake
  PROVE  EdgeInvariant'
<1>1. CASE call # "tick"
  BY <1>1, OtherPhases DEF Fork, Sample
<1>2. CASE call = "tick"
  <2> DEFINE d == design
             none == [l \in Locations(d) |-> NoWrite]
             tops == [q \in Processes(d) |-> <<d.sequential[q]>>]
  <2>1. /\ WellFormed(d) /\ env \in Stores(d)
        /\ design' = design /\ phase' = "sequential" /\ call' = "tick" /\ pending' = env'
        /\ stack' = d.sequential /\ env' = CaptureSampled(d, env)
    BY <1>2, GeneratedStatements DEF Fork, Sample, TypeOK
  <2>2. /\ env' \in Stores(d)
        /\ \A v \in DOMAIN d.sampled : Word(d, env', v) = Eval(d, d.sampled[v], env')
    BY <2>1, SamplesSettle
  <2>3. /\ before' = env' /\ live' = env' /\ edge' = "running"
        /\ deferred' = none /\ stacks' = tops
    BY <1>2, SameStores DEF Fork, S!Begin, NoWrite
  <2>4. Together(d, env', env', none, tops)
    BY <2>1, <2>2, TogetherStart
  <2>5. TopsAt(d, 0, <<>>) = tops
    <3>1. \A q \in Processes(d) : ~ (q < 0) /\ q # 0
      BY <2>1, ProcessNumbers
    <3> QED BY <3>1 DEF TopsAt
  <2>6. stack' = <<>> \o Rest(d, 0) /\ 0 \in 0 .. Len(d.sequential)
    BY <2>1, ProcessNumbers, ConcatEmptySeq
  <2>7. env' = Outcome(d, env', none)
    BY <2>2 DEF Outcome, Stores
  <2>8. PICK r : r = none
    OBVIOUS
  <2>9. RunningAt(0, <<>>, r)'
    BY <2>1, <2>3, <2>4, <2>5, <2>6, <2>7, <2>8 DEF RunningAt
  <2>10. SequentialRun'
    BY <2>1, <2>2, <2>3, <2>6, <2>9 DEF SequentialRun
  <2>11. Interleaved'
    BY <2>1, <2>3, <2>4 DEF Interleaved
  <2> QED BY <2>1, <2>2, <2>3, <2>10, <2>11 DEF EdgeInvariant, Returned, AsleepIsRaceFree, RaceFree
<1> QED BY <1>1, <1>2

\* The interleaving goes on while the model rests.
LEMMA AsleepKeepsInvariant ==
  ASSUME TypeOK, Generated, EdgeInvariant, AsleepStep, UNCHANGED awake
  PROVE  EdgeInvariant'
<1>1. /\ UNCHANGED simVars /\ ~ awake /\ phase \in {"idle", "panicked"} /\ edge = "running"
      /\ (\E p \in Processes(design) : S!Step(p)) \/ S!Update
  BY DEF AsleepStep, Concurrent, S!Step, S!Update
<1>2. UNCHANGED <<design, values, call, phase>> /\ (PanickedInTick' <=> PanickedInTick)
  BY <1>1 DEF simVars, callVars, PanickedInTick
<1>3. WellFormed(design) /\ Supported(design) /\ before \in Stores(design)
  BY GeneratedStatements DEF TypeOK, Generated, EdgeInvariant
<1>4. Together(design, before, live, deferred, stacks)
  BY <1>1 DEF EdgeInvariant, Interleaved
<1>5. ASSUME NEW p \in Processes(design), S!Step(p)
      PROVE  EdgeInvariant'
  <2>1. Together(design, before, live, deferred, stacks)' /\ edge' = edge /\ before' = before
    BY <1>2, <1>3, <1>4, <1>5, ProcessStep
  <2>2. Returned'
    BY <1>2, <2>1 DEF EdgeInvariant, Returned
  <2> QED BY <1>1, <1>2, <1>3, <2>1, <2>2
          DEF EdgeInvariant, SequentialRun, Interleaved, AsleepIsRaceFree, RaceFree
<1>6. CASE S!Update
  <2>1. /\ stacks = AllDone(design) /\ edge' = "done" /\ before' = before
        /\ live' = Outcome(design, live, deferred)
    BY <1>4, <1>6, UpdateIsOutcome
  <2>2. ASSUME ~ PanickedInTick
        PROVE  live' = values
    <3>1. PICK store, results :
            /\ Together(design, before, store, results, AllDone(design))
            /\ values = Outcome(design, store, results)
      BY <1>1, <2>2 DEF EdgeInvariant, Returned
    <3> QED BY <1>3, <1>4, <2>1, <3>1, SameOutcome
  <2>3. AsleepIsRaceFree'
    BY <1>2, <2>2 DEF AsleepIsRaceFree, RaceFree
  <2> QED BY <1>1, <1>2, <1>3, <2>1, <2>3 DEF EdgeInvariant, SequentialRun, Interleaved, Returned
<1> QED BY <1>1, <1>5, <1>6

\* With the logic awake only the typing of the edge is left.
LEMMA AwakeKeepsInvariant ==
  ASSUME EdgeInvariant, AwakeStep, UNCHANGED awake
  PROVE  EdgeInvariant'
<1>1. /\ UNCHANGED simVars /\ awake /\ phase = "idle" /\ before' = before
      /\ edge = "running" /\ edge' \in {"running", "done"}
  BY DEF AwakeStep, WiredStep, Propagate, S!Step, S!Update
<1>2. UNCHANGED <<design, values, call, phase>>
  BY <1>1 DEF simVars, callVars
<1>3. Returned'
  BY <1>1, <1>2 DEF EdgeInvariant, Returned, PanickedInTick
<1> QED BY <1>1, <1>2, <1>3 DEF EdgeInvariant, SequentialRun, Interleaved, AsleepIsRaceFree

LEMMA WiredStepKeepsInvariant ==
  TypeOK /\ Generated /\ EdgeInvariant /\ [WiredNext]_wiredVars =>
    (TypeOK /\ Generated /\ EdgeInvariant)'
<1> SUFFICES ASSUME TypeOK, Generated, EdgeInvariant, [WiredNext]_wiredVars
             PROVE  (TypeOK /\ Generated /\ EdgeInvariant)'
  OBVIOUS
<1>1. (TypeOK /\ Generated)'
  <2>1. [Next]_simVars
    BY DEF WiredNext, wiredVars, both, PairCall, PairWork, Fork, AwakeStep, WiredStep, Propagate,
           AsleepStep, Concurrent, Next, Work
  <2> QED BY <2>1, TypeStep
<1> SUFFICES EdgeInvariant'
  BY <1>1
<1>2. CASE UNCHANGED wiredVars
  <2>1. UNCHANGED <<design, generated, values, call, phase, env, pending, stack,
                    before, live, deferred, stacks, edge, awake>>
    BY <1>2 DEF wiredVars, both, simVars, callVars, edgeVars
  <2>2. SequentialRun'
    BY <2>1 DEF EdgeInvariant, SequentialRun, RunningAt
  <2>3. Returned'
    BY <2>1 DEF EdgeInvariant, Returned, PanickedInTick
  <2> QED BY <2>1, <2>2, <2>3
          DEF EdgeInvariant, Interleaved, AsleepIsRaceFree, RaceFree, PanickedInTick
<1>3. CASE PairCall /\ UNCHANGED awake
  BY <1>3, OtherPhases DEF PairCall, Call, StartCall, StartPass
<1>4. CASE (EndPass \/ Evaluate) /\ UNCHANGED <<edgeVars, awake>>
  BY <1>4, OtherPhases DEF EndPass, Evaluate, StartPass
<1>5. CASE Execute /\ UNCHANGED <<edgeVars, awake>>
  <2>1. CASE phase = "settle"
    BY <1>5, <2>1, OtherPhases DEF Execute
  <2>2. CASE phase = "sequential"
    <3>1. UNCHANGED <<design, values, call, before, live, deferred, stacks, edge, awake>>
      BY <1>5 DEF Execute, edgeVars
    <3>2. edge = "running" /\ call = "tick" /\ phase' \in {"sequential", "panicked"}
      BY <1>5, <2>2 DEF Execute, EdgeInvariant, SequentialRun
    <3>3. SequentialRun'
      <4>1. CASE phase' = "sequential"
        <5>1. \E k \in 0 .. Len(design'.sequential) : \E current, results :
                RunningAt(k, current, results)'
          BY <1>5, <2>2, <3>1, <4>1, ExecuteIsStep
        <5> QED BY <2>2, <3>1, <3>2, <5>1 DEF EdgeInvariant, SequentialRun
      <4>2. CASE phase' # "sequential"
        BY <4>2 DEF SequentialRun
      <4> QED BY <4>1, <4>2
    <3>4. Returned'
      BY <3>1, <3>2 DEF Returned, PanickedInTick
    <3> QED BY <3>1, <3>2, <3>3, <3>4
            DEF EdgeInvariant, Interleaved, AsleepIsRaceFree, RaceFree
  <2> QED BY <1>5, <2>1, <2>2 DEF Execute
<1>6. CASE Commit /\ UNCHANGED <<edgeVars, awake>>
  <2>1. UNCHANGED <<design, before, live, deferred, stacks, edge, awake>>
    BY <1>6 DEF Commit, edgeVars
  <2>2. edge = "running" /\ phase' = "settle"
    BY <1>6 DEF Commit, StartPass, EdgeInvariant, SequentialRun
  <2>3. PICK store, results :
          /\ Together(design, before, store, results, AllDone(design))
          /\ values' = Outcome(design, store, results)
    BY <1>6, CommitIsOutcome
  <2>4. Returned'
    BY <2>1, <2>3 DEF Returned
  <2> QED BY <2>1, <2>2, <2>4
          DEF EdgeInvariant, SequentialRun, Interleaved, AsleepIsRaceFree, RaceFree
<1> QED BY <1>2, <1>3, <1>4, <1>5, <1>6, ForkKeepsInvariant, AwakeKeepsInvariant,
           AsleepKeepsInvariant DEF WiredNext, PairWork

LEMMA WiredInvariant == WiredSpec => [](TypeOK /\ Generated /\ EdgeInvariant)
<1>1. WiredInit => TypeOK /\ Generated /\ EdgeInvariant
  <2> SUFFICES ASSUME NEW d \in Designs, SimInit(d), S!EdgeInit(d)
               PROVE  TypeOK /\ Generated /\ EdgeInvariant
    BY DEF WiredInit, PairInit
  <2>1. TypeOK /\ Generated
    BY SimInitType
  <2>2. edge = "none" /\ phase # "sequential" /\ before \in Stores(d) /\ design = d
    BY SameStores DEF SimInit, S!EdgeInit, Stores, Bit
  <2> QED BY <2>1, <2>2
          DEF EdgeInvariant, SequentialRun, Interleaved, Returned, AsleepIsRaceFree, RaceFree
<1> QED BY <1>1, WiredStepKeepsInvariant, PTL DEF WiredSpec

-----------------------------------------------------------------------------
(* The wires. *)

\* The combinational statements that read one of the variables, and the
\* variables with what those statements write.
Reading(d, vs) == {m \in ToIds(d.combinational) : StatementReads(d, m) \cap vs # {}}
Grown(d, vs) == vs \cup UNION {StatementWrites(d, n) : n \in Reading(d, vs)}

\* A round over no new statement adds nothing, and there are no more statements
\* than rounds.
LEMMA DownstreamClosed ==
  ASSUME NEW d, WellFormed(d), NEW vs
  PROVE  LET D == Downstream(d, vs) IN
         /\ vs \subseteq D /\ D \subseteq vs \cup AllWrites(d, d.combinational)
         /\ \A n \in Reading(d, D) : StatementWrites(d, n) \subseteq D
<1> DEFINE N == Len(d.combinational)
           M == ToIds(d.combinational)
           A == SUBSET (vs \cup AllWrites(d, d.combinational))
           reach[k \in 0 .. N] ==
             IF k = 0 THEN vs
             ELSE reach[k - 1] \cup
                  UNION {StatementWrites(d, n) : n \in
                           {m \in M : StatementReads(d, m) \cap reach[k - 1] # {}}}
           step == [k \in 1 .. N |-> [s \in A |-> Grown(d, s)]]
           T(k) == Reading(d, reach[k])
           Closed(k) == \A n \in T(k) : StatementWrites(d, n) \subseteq reach[k]
<1>1. N \in Nat /\ DOMAIN d.combinational = 1 .. N
  BY LenProperties DEF WellFormed
<1>2. IsFiniteSet(M) /\ Cardinality(M) <= N
  <2>1. d.combinational \in Surjection(1 .. N, M)
    <3>1. d.combinational \in [1 .. N -> M]
      <4>1. d.combinational \in Seq(Statements(d))
        BY DEF WellFormed
      <4>2. d.combinational \in [1 .. N -> Statements(d)]
        BY <4>1
      <4> QED BY <1>1, <4>2 DEF ToIds
    <3> QED BY <1>1, <3>1 DEF Surjection, ToIds
  <2>2. IsFiniteSet(1 .. N) /\ Cardinality(1 .. N) = N
    BY <1>1, FS_Interval
  <2> HIDE DEF N, M
  <2> QED BY <2>1, <2>2, FS_Surjection
<1>3. Downstream(d, vs) = reach[N]
  BY DEF Downstream
<1>4. \A s \in A : Grown(d, s) \in A
  BY DEF Grown, Reading, AllWrites
<1>5. vs \in A
  OBVIOUS
<1> HIDE DEF N, M, A
<1>6. step \in Steps(N, A)
  BY <1>4 DEF Steps
<1> HIDE DEF step
<1>7. PICK g : Iterates(g, N, A, vs, step)
  BY ONLY <1>1, <1>5, <1>6, IterationExists
<1>8. /\ g = [k \in 0 .. N |-> IF k = 0 THEN vs ELSE step[k][g[k - 1]]]
      /\ \A k \in 0 .. N : g[k] \in A
      /\ \A k \in 1 .. N : k - 1 \in 0 .. N /\ g[k - 1] \in A
  BY ONLY <1>1, <1>7, IterationValues
<1>9. \A s : s \cup UNION {StatementWrites(d, n) : n \in {m \in M : StatementReads(d, m) \cap s # {}}}
        = Grown(d, s)
  BY DEF Grown, Reading, M
<1>10. g = [k \in 0 .. N |->
             IF k = 0 THEN vs
             ELSE g[k - 1] \cup
                  UNION {StatementWrites(d, n) : n \in
                           {m \in M : StatementReads(d, m) \cap g[k - 1] # {}}}]
  <2>1. \A k \in 1 .. N : step[k][g[k - 1]] = Grown(d, g[k - 1])
    BY <1>8 DEF step
  <2>2. \A k \in 0 .. N : k = 0 \/ k \in 1 .. N
    BY <1>1
  <2> QED BY <1>8, <1>9, <2>1, <2>2
<1>11. reach = [k \in 0 .. N |->
             IF k = 0 THEN vs
             ELSE reach[k - 1] \cup
                  UNION {StatementWrites(d, n) : n \in
                           {m \in M : StatementReads(d, m) \cap reach[k - 1] # {}}}]
  BY <1>10
<1> HIDE DEF reach
<1>12. /\ reach[0] = vs
       /\ \A k \in 1 .. N : k \in 0 .. N /\ k - 1 \in 0 .. N /\ reach[k] = Grown(d, reach[k - 1])
  <2>1. reach[0] = vs
    BY <1>1, <1>11
  <2>2. ASSUME NEW k \in 1 .. N
        PROVE  k \in 0 .. N /\ k - 1 \in 0 .. N /\ reach[k] = Grown(d, reach[k - 1])
    <3>1. k \in 0 .. N /\ k - 1 \in 0 .. N /\ k # 0
      BY <1>1
    <3> QED BY <1>9, <1>11, <3>1
  <2> QED BY <2>1, <2>2
<1>13. \A k \in 0 .. N : vs \subseteq reach[k] /\ reach[k] \in A
  <2> DEFINE B == {s \in A : vs \subseteq s}
  <2>1. reach[0] \in B
    BY <1>5, <1>12
  <2>2. \A k \in 1 .. N : reach[k - 1] \in B => reach[k] \in B
    <3>1. \A s \in B : Grown(d, s) \in B
      BY <1>4 DEF Grown
    <3> HIDE DEF B
    <3> QED BY <1>12, <3>1
  <2> HIDE DEF B
  <2>3. \A k \in 0 .. N : reach[k] \in B
    BY ONLY <1>1, <2>1, <2>2, IterationInvariant
  <2> QED BY <2>3 DEF B
<1>14. \A k \in 0 .. N : /\ T(k) \subseteq M /\ IsFiniteSet(T(k))
                         /\ Cardinality(T(k)) \in Nat /\ Cardinality(T(k)) <= Cardinality(M)
  <2>1. \A k \in 0 .. N : T(k) \subseteq M
    BY DEF Reading, M
  <2> HIDE DEF T
  <2> QED BY <1>2, <2>1, FS_Subset, FS_CardinalityType
<1>15. ASSUME NEW k \in 1 .. N, ~ Closed(k)
       PROVE  ~ Closed(k - 1) /\ Cardinality(T(k)) >= Cardinality(T(k - 1)) + 1
  <2>1. k \in 0 .. N /\ k - 1 \in 0 .. N /\ reach[k] = Grown(d, reach[k - 1])
    BY <1>12
  <2>2. ~ Closed(k - 1)
    <3> SUFFICES ASSUME Closed(k - 1) PROVE FALSE
      OBVIOUS
    <3>1. reach[k] = reach[k - 1]
      BY <2>1 DEF Grown
    <3> QED BY <1>15, <3>1
  <2>3. T(k - 1) \subseteq T(k)
    BY <2>1 DEF Grown, Reading
  <2>4. T(k - 1) # T(k)
    <3> SUFFICES ASSUME T(k - 1) = T(k) PROVE FALSE
      OBVIOUS
    <3>1. \A n \in T(k - 1) : StatementWrites(d, n) \subseteq reach[k]
      BY <2>1 DEF Grown
    <3> QED BY <1>15, <3>1
  <2> HIDE DEF T
  <2>5. /\ Cardinality(T(k - 1)) <= Cardinality(T(k))
        /\ Cardinality(T(k - 1)) = Cardinality(T(k)) => T(k - 1) = T(k)
    BY <1>14, <2>1, <2>3, FS_Subset
  <2> QED BY <1>14, <2>1, <2>2, <2>4, <2>5
<1>16. \A k \in 0 .. N : Closed(k) \/ Cardinality(T(k)) >= k + 1
  <2> DEFINE K == {k \in Nat : k <= N => Closed(k) \/ Cardinality(T(k)) >= k + 1}
  <2>1. 0 \in K
    <3>1. T(0) # {} => Cardinality(T(0)) # 0
      <4> HIDE DEF T
      <4>1. 0 \in 0 .. N
        BY <1>1
      <4> QED BY <1>14, <4>1, FS_EmptySet
    <3>2. ~ Closed(0) => T(0) # {}
      OBVIOUS
    <3>3. 0 \in 0 .. N
      BY <1>1
    <3> HIDE DEF T, Closed
    <3> QED BY <1>14, <3>1, <3>2, <3>3
  <2> HIDE DEF T, Closed
  <2>2. ASSUME NEW k \in K \cap Nat PROVE k + 1 \in K
    <3> SUFFICES ASSUME k + 1 <= N, ~ Closed(k + 1)
                 PROVE  Cardinality(T(k + 1)) >= (k + 1) + 1
      OBVIOUS
    <3>1. k + 1 \in 1 .. N /\ (k + 1) - 1 = k /\ k \in 0 .. N /\ k + 1 \in 0 .. N /\ k <= N
      BY <1>1
    <3>2. ~ Closed(k) /\ Cardinality(T(k + 1)) >= Cardinality(T(k)) + 1
      BY <1>15, <3>1
    <3>3. Cardinality(T(k)) >= k + 1
      BY <3>1, <3>2
    <3> QED BY <1>14, <3>1, <3>2, <3>3
  <2>3. Nat \subseteq K
    <3> HIDE DEF K
    <3> QED BY <2>1, <2>2, NaturalsInSet
  <2> QED BY <2>3
<1>17. Closed(N)
  <2> HIDE DEF T, Closed
  <2>1. N \in 0 .. N
    BY <1>1
  <2>2. Cardinality(M) \in Nat
    BY <1>2, FS_CardinalityType
  <2> QED BY <1>1, <1>2, <1>14, <1>16, <2>1, <2>2
<1>18. vs \subseteq reach[N] /\ reach[N] \in A
  BY <1>1, <1>13
<1> QED BY <1>3, <1>17, <1>18 DEF A

\* The wires that follow the blocking writes of an edge.
Followers(d) == Downstream(d, Blocking(d)) \ Blocking(d)

\* The store with those wires as they were at the edge.
Masked(d, atEdge, store) ==
  [l \in Locations(d) |-> IF l[1] \in Followers(d) THEN atEdge[l] ELSE store[l]]

\* They are not written by clocked processes, and a combinational statement
\* writes nothing else once it reads one of them or a blocking write.
LEMMA FollowersFacts ==
  ASSUME NEW d, WellFormed(d), Supported(d)
  PROVE  /\ Followers(d) \cap AllWrites(d, d.sequential) = {}
         /\ Blocking(d) \subseteq AllWrites(d, d.sequential)
         /\ \A n \in ToIds(d.combinational) :
              /\ StatementWrites(d, n) \cap Blocking(d) = {}
              /\ StatementReads(d, n) \cap Downstream(d, Blocking(d)) # {} =>
                   StatementWrites(d, n) \subseteq Followers(d)
<1> DEFINE B == Blocking(d)
           D == Downstream(d, B)
<1>1. /\ B \subseteq D /\ D \subseteq B \cup AllWrites(d, d.combinational)
      /\ \A n \in Reading(d, D) : StatementWrites(d, n) \subseteq D
  <2> HIDE DEF B
  <2> QED BY DownstreamClosed
<1>2. B \subseteq AllWrites(d, d.sequential)
  BY DEF Blocking, AssignedBy, AllWrites, StatementWrites
<1>3. AllWrites(d, d.sequential) \cap AllWrites(d, d.combinational) = {}
  BY DEF Supported, AnalyzeError
<1>4. \A n \in ToIds(d.combinational) : StatementWrites(d, n) \subseteq AllWrites(d, d.combinational)
  BY DEF AllWrites
<1> HIDE DEF B, D
<1>5. Followers(d) = D \ B
  BY DEF Followers, D, B
<1>6. \A n \in ToIds(d.combinational) : StatementReads(d, n) \cap D # {} => n \in Reading(d, D)
  BY DEF Reading
<1> QED BY <1>1, <1>2, <1>3, <1>4, <1>5, <1>6 DEF D, B

\* When they are isolated, a process sees none of them.
LEMMA FollowersUnseen ==
  ASSUME NEW d, WellFormed(d), Supported(d), WiresIsolated(d), NEW q \in Processes(d),
         NEW l \in Sees(d, q)
  PROVE  l[1] \notin Followers(d)
<1>1. d.sequential[q] \in ToIds(d.sequential)
  BY DEF Processes, ToIds
<1>2. Reads(d, q) \subseteq AllReads(d, d.sequential)
      /\ StatementWrites(d, d.sequential[q]) \subseteq AllWrites(d, d.sequential)
  BY <1>1 DEF Reads, AllReads, AllWrites
<1>3. l[1] \in Reads(d, q) \/ l[1] \in StatementWrites(d, d.sequential[q])
  BY FootprintWritten DEF Sees, Own, LocationsIn, LocationsOf
<1> QED BY <1>2, <1>3, FollowersFacts DEF WiresIsolated, Followers

\* A step of a process in a store is the step it takes where those wires are
\* as they were at the edge.
LEMMA MaskedStep ==
  ASSUME NEW d, WellFormed(d), Supported(d), WiresIsolated(d),
         NEW atEdge \in Stores(d), NEW store \in Stores(d), NEW results, NEW tops,
         Together(d, atEdge, Masked(d, atEdge, store), results, tops), NEW p \in Processes(d)
  PROVE  LET n == SoloStep(d, [stack |-> tops[p], env |-> store, results |-> results])
         IN  /\ n.env \in Stores(d)
             /\ \A l \in Locations(d) : n.env[l] # store[l] => l[1] \in Blocking(d)
             /\ Together(d, atEdge, Masked(d, atEdge, n.env), n.results, [tops EXCEPT ![p] = n.stack])
<1> DEFINE mask == Masked(d, atEdge, store)
           real == [stack |-> tops[p], env |-> store, results |-> results]
           seen == [stack |-> tops[p], env |-> mask, results |-> results]
           n == SoloStep(d, real)
           k == SoloStep(d, seen)
<1>1. mask \in Stores(d) /\ results \in DeferredWrites(d) /\ tops[p] \in Seq(Inside(d, d.sequential[p]))
  <2>1. PICK m \in Reachable(Solo(d, p), SoloStart(d, p, atEdge)) :
          Matches(d, p, m, tops[p], mask, results)
    BY DEF Together
  <2>2. m \in SoloMachines(d, p) /\ m.stack = tops[p]
    BY <2>1, ReachableIsSolo DEF Matches
  <2> HIDE DEF mask
  <2> QED BY <2>2 DEF Together, SoloMachines, mask
<1>2. \A l \in Locations(d) :
        /\ l[1] \in Followers(d) => mask[l] = atEdge[l]
        /\ l[1] \notin Followers(d) => mask[l] = store[l]
  BY DEF Masked
<1> HIDE DEF mask
<1>3. real \in SoloMachines(d, p) /\ seen \in SoloMachines(d, p)
  BY <1>1 DEF SoloMachines
<1>4. /\ real.stack = tops[p] /\ real.env = store /\ real.results = results
      /\ seen.stack = tops[p] /\ seen.env = mask /\ seen.results = results
  OBVIOUS
<1>5. \A l \in Sees(d, p) : l \in Locations(d) /\ l[1] \notin Followers(d)
  BY FollowersUnseen DEF Sees
<1> HIDE DEF real, seen
<1>6. Matches(d, p, seen, real.stack, real.env, real.results)
  BY <1>2, <1>4, <1>5 DEF Matches
<1>7. Matches(d, p, k, n.stack, n.env, n.results)
  BY <1>3, <1>6, SoloAgrees
<1>8. /\ n \in SoloMachines(d, p)
      /\ \A l \in Locations(d) :
           /\ n.env[l] # store[l] => l \in Own(d, p) /\ l[1] \in Blocking(d)
           /\ n.results[l] # results[l] => l \in Own(d, p) /\ l[1] \in Nonblocking(d)
  BY <1>3, <1>4, SoloWrites
<1>9. /\ k \in SoloMachines(d, p)
      /\ \A l \in Locations(d) :
           /\ k.env[l] # mask[l] => l \in Own(d, p) /\ l[1] \in Blocking(d)
           /\ k.results[l] # results[l] => l \in Own(d, p) /\ l[1] \in Nonblocking(d)
  BY <1>3, <1>4, SoloWrites
<1>10. Together(d, atEdge, k.env, k.results, [tops EXCEPT ![p] = k.stack])
  <2>1. k = SoloStep(d, [stack |-> tops[p], env |-> mask, results |-> results])
    BY DEF seen
  <2> HIDE DEF k
  <2>2. Together(d, atEdge, mask, results, tops)
    BY DEF mask
  <2> QED BY <2>1, <2>2, TogetherStep
<1> HIDE DEF n, k
<1>11. \A l \in Own(d, p) : l \in Locations(d) => l \in Sees(d, p)
  BY DEF Sees
<1>12. /\ k.stack = n.stack
       /\ \A l \in Locations(d) : l \in Own(d, p) => k.env[l] = n.env[l] /\ k.results[l] = n.results[l]
  BY <1>7, <1>11 DEF Matches
<1>13. /\ n.env \in Stores(d) /\ k.env \in Stores(d)
       /\ n.results \in [Locations(d) -> Bit \cup {NoWrite}]
       /\ k.results \in [Locations(d) -> Bit \cup {NoWrite}]
  BY <1>8, <1>9, SameStores DEF SoloMachines
<1>14. k.results = n.results
  <2>1. \A l \in Locations(d) : k.results[l] = n.results[l]
    BY <1>8, <1>9, <1>12
  <2> QED BY <1>13, <2>1
<1>15. k.env = Masked(d, atEdge, n.env)
  <2>1. \A l \in Locations(d) : l[1] \in Followers(d) => l \notin Own(d, p)
    BY <1>5, <1>11
  <2>2. \A l \in Locations(d) : k.env[l] = IF l[1] \in Followers(d) THEN atEdge[l] ELSE n.env[l]
    BY <1>2, <1>8, <1>9, <1>12, <2>1
  <2> QED BY <1>13, <2>2 DEF Masked, Stores
<1>16. Together(d, atEdge, Masked(d, atEdge, n.env), n.results, [tops EXCEPT ![p] = n.stack])
  BY <1>10, <1>12, <1>14, <1>15
<1> QED BY <1>8, <1>13, <1>16 DEF n, real

-----------------------------------------------------------------------------
(* The edge with the combinational logic awake. *)

\* No bit of a wire has two drivers, and no wire follows a sample.
Untangled == OneDriver(design) /\ SamplesUnread(design)

\* The processes are on their runs alone but for wires they do not see, and
\* every combinational statement was settled at the edge.
Attended ==
  edge = "running" /\ awake /\ WiresIsolated(design) /\ Untangled =>
    /\ live \in Stores(design)
    /\ Together(design, before, Masked(design, before, live), deferred, stacks)
    /\ \A n \in ToIds(design.combinational) : Run(design, <<n>>, before).env = before

AwakeInvariant == Attended /\ (Untangled => IsolatedIsRaceFree)

\* A step that leaves the edge alone, and values too once the edge is over,
\* keeps it.
LEMMA AwakeStays ==
  ASSUME AwakeInvariant, UNCHANGED <<design, edgeVars, awake>>, values' = values \/ edge = "running"
  PROVE  AwakeInvariant'
<1>1. Attended'
  BY DEF AwakeInvariant, Attended, Untangled, edgeVars
<1>2. (Untangled => IsolatedIsRaceFree)'
  BY DEF AwakeInvariant, Untangled, IsolatedIsRaceFree, edgeVars
<1> QED BY <1>1, <1>2 DEF AwakeInvariant

\* A combinational statement changes wires that follow blocking writes only.
LEMMA PropagateKeeps ==
  ASSUME TypeOK, Generated, EdgeInvariant, AwakeInvariant, awake,
         NEW n \in ToIds(design.combinational), Propagate(n), UNCHANGED awake
  PROVE  AwakeInvariant'
<1> DEFINE d == design
           B == Blocking(d)
           D == Downstream(d, B)
           mask == Masked(d, before, live)
<1>1. /\ WellFormed(d) /\ Supported(d) /\ before \in Stores(d)
  BY GeneratedStatements DEF TypeOK, Generated, EdgeInvariant
<1>2. /\ edge = "running" /\ design' = design /\ values' = values /\ before' = before
      /\ deferred' = deferred /\ stacks' = stacks /\ edge' = edge
      /\ live' = Run(d, <<n>>, live).env
  BY DEF Propagate, Propagated, simVars
<1>3. ASSUME WiresIsolated(d), Untangled
      PROVE  /\ live' \in Stores(d)
             /\ Masked(d, before, live') = mask
  <2>1. /\ live \in Stores(d)
        /\ Together(d, before, mask, deferred, stacks)
        /\ Run(d, <<n>>, before).env = before
    BY <1>2, <1>3 DEF AwakeInvariant, Attended
  <2>2. n \in Statements(d) /\ d.root[n] = n
    <3>1. d.combinational \in Seq(Statements(d)) /\ \A c \in ToIds(d.combinational) : d.root[c] = c
      BY <1>1 DEF WellFormed
    <3>2. n \in Statements(d)
      BY <3>1, LenProperties, ElementOfSeq DEF ToIds
    <3> QED BY <3>1, <3>2
  <2>3. /\ live' \in Stores(d)
        /\ \A l \in Locations(d) : l \notin Footprint(d, n) => live'[l] = live[l]
    BY <1>1, <1>2, <2>1, <2>2, RunWritesOnly
  <2>4. \A l \in Locations(d) :
          /\ mask[l] = IF l[1] \in Followers(d) THEN before[l] ELSE live[l]
          /\ mask[l] # before[l] => l[1] \in B
    <3>1. \A l \in Locations(d) : mask[l] # before[l] => l[1] \in B
      <4> HIDE DEF mask
      <4> QED BY <2>1 DEF Together
    <3> QED BY <3>1 DEF Masked
  <2>5. /\ StatementWrites(d, n) \cap B = {}
        /\ StatementReads(d, n) \cap D # {} => StatementWrites(d, n) \subseteq Followers(d)
        /\ Followers(d) = D \ B
    BY <1>1, FollowersFacts DEF Followers
  <2>6. ASSUME NEW l \in Locations(d), l[1] \notin Followers(d)
        PROVE  live'[l] = live[l]
    <3>1. CASE l \notin Footprint(d, n)
      BY <2>3, <3>1
    <3>2. CASE l \in Footprint(d, n)
      <4>1. l[1] \in StatementWrites(d, n)
        BY <3>2, FootprintWritten
      <4>2. StatementReads(d, n) \cap D = {} /\ l[1] \notin B
        BY <2>5, <2>6, <4>1
      <4>3. Agree(d, StatementReads(d, n), before, live)
        <5>1. StatementReads(d, n) \in SUBSET Variables(d)
          BY <1>1, ReadsDeclared
        <5>2. ASSUME NEW r \in LocationsIn(d, StatementReads(d, n))
              PROVE  before[r] = live[r]
          <6>1. r \in Locations(d) /\ r[1] \in StatementReads(d, n)
            BY <5>1, LocationVariable
          <6>2. r[1] \notin D
            BY <4>2, <6>1
          <6>3. B \subseteq D
            <7> HIDE DEF B
            <7> QED BY <1>1, DownstreamClosed
          <6> HIDE DEF mask, D, B
          <6> QED BY <2>4, <2>5, <6>1, <6>2, <6>3
        <5> QED BY <5>2 DEF Agree
      <4>4. live'[l] = before[l] \/ live'[l] = live[l]
        BY <1>1, <1>2, <2>1, <2>2, <4>3, QuietFollows
      <4>5. live[l] = before[l]
        BY <2>4, <2>6, <4>2
      <4> QED BY <4>4, <4>5
    <3> QED BY <3>1, <3>2
  <2>7. Masked(d, before, live') = mask
    BY <2>6 DEF Masked
  <2> QED BY <2>3, <2>7
<1>4. Attended'
  BY <1>2, <1>3 DEF AwakeInvariant, Attended, Untangled
<1>5. IsolatedIsRaceFree'
  BY <1>2 DEF IsolatedIsRaceFree
<1> QED BY <1>4, <1>5 DEF AwakeInvariant

\* A step of a process.
LEMMA AwakeProcessKeeps ==
  ASSUME TypeOK, Generated, EdgeInvariant, AwakeInvariant, awake,
         NEW p \in Processes(design), S!Step(p), UNCHANGED <<simVars, awake>>
  PROVE  AwakeInvariant'
<1> DEFINE d == design
           n == SoloStep(d, [stack |-> stacks[p], env |-> live, results |-> deferred])
<1>1. /\ WellFormed(d) /\ Supported(d) /\ before \in Stores(d)
  BY GeneratedStatements DEF TypeOK, Generated, EdgeInvariant
<1>2. /\ live' = n.env /\ deferred' = n.results /\ stacks' = [stacks EXCEPT ![p] = n.stack]
      /\ edge = "running" /\ edge' = edge /\ before' = before /\ design' = design
  BY StepIsSolo DEF simVars
<1>3. ASSUME WiresIsolated(d), Untangled
      PROVE  /\ n.env \in Stores(d)
             /\ Together(d, before, Masked(d, before, n.env), n.results,
                         [stacks EXCEPT ![p] = n.stack])
  <2>1. live \in Stores(d) /\ Together(d, before, Masked(d, before, live), deferred, stacks)
    BY <1>2, <1>3 DEF AwakeInvariant, Attended
  <2> QED BY <1>1, <1>3, <2>1, MaskedStep
<1> HIDE DEF n
<1>4. Attended'
  BY <1>2, <1>3 DEF AwakeInvariant, Attended, Untangled
<1>5. IsolatedIsRaceFree'
  BY <1>2 DEF IsolatedIsRaceFree
<1> QED BY <1>4, <1>5 DEF AwakeInvariant

\* The update: the clocked processes have come to the end run_sequential came to.
LEMMA AwakeUpdateKeeps ==
  ASSUME TypeOK, Generated, EdgeInvariant, AwakeInvariant, awake, phase = "idle",
         S!Update, UNCHANGED <<simVars, awake>>
  PROVE  AwakeInvariant'
<1> DEFINE d == design
           mask == Masked(d, before, live)
<1>1. /\ WellFormed(d) /\ Supported(d) /\ before \in Stores(d)
  BY GeneratedStatements DEF TypeOK, Generated, EdgeInvariant
<1>2. /\ edge = "running" /\ edge' = "done" /\ design' = design /\ values' = values
      /\ \A p \in Processes(d) : stacks[p] = <<>>
      /\ live' = [l \in Locations(d) |-> IF deferred[l] = NoWrite THEN live[l] ELSE deferred[l]]
  BY SameStores DEF S!Update, NoWrite, simVars
<1>3. ASSUME WiresIsolated(d), Untangled, NEW l \in ClockedBits(d)
      PROVE  live'[l] = values[l]
  <2>1. Together(d, before, mask, deferred, stacks)
    BY <1>2, <1>3 DEF AwakeInvariant, Attended
  <2>2. stacks = AllDone(d)
    <3>1. stacks = [q \in Processes(d) |-> stacks[q]]
      BY <2>1 DEF Together
    <3> QED BY <1>2, <3>1 DEF AllDone
  <2>3. PICK store, results : /\ Together(d, before, store, results, AllDone(d))
                              /\ values = Outcome(d, store, results)
    BY <1>2 DEF EdgeInvariant, Returned, PanickedInTick
  <2> HIDE DEF mask
  <2>4. Outcome(d, mask, deferred) = values
    BY <1>1, <2>1, <2>2, <2>3, SameOutcome
  <2>5. l \in Locations(d) /\ l[1] \in AllWrites(d, d.sequential)
    <3>1. AllWrites(d, d.sequential) \in SUBSET Variables(d)
      BY <1>1, WritesDeclared DEF AllWrites
    <3> QED BY <1>3, <3>1, LocationVariable DEF ClockedBits
  <2>6. l[1] \notin Followers(d)
    BY <1>1, <2>5, FollowersFacts
  <2>7. mask[l] = live[l]
    BY <2>5, <2>6 DEF mask, Masked
  <2> QED BY <1>2, <2>4, <2>5, <2>7 DEF Outcome
<1>4. Attended'
  BY <1>2 DEF Attended
<1>5. (Untangled => IsolatedIsRaceFree)'
  BY <1>2, <1>3 DEF Untangled, IsolatedIsRaceFree
<1> QED BY <1>4, <1>5 DEF AwakeInvariant

\* An edge begins.
LEMMA AwakeForkKeeps ==
  ASSUME TypeOK, Generated, PassInvariant, AwakeInvariant, Fork, UNCHANGED awake
  PROVE  AwakeInvariant'
<1>1. CASE call # "tick"
  BY <1>1, AwakeStays DEF Fork, Sample
<1>2. CASE call = "tick"
  <2> DEFINE d == design
             none == [l \in Locations(d) |-> NoWrite]
             tops == [q \in Processes(d) |-> <<d.sequential[q]>>]
             store == CaptureSampled(d, env)
  <2>1. /\ WellFormed(d) /\ env \in Stores(d) /\ phase = "sample"
        /\ design' = design /\ env' = store
    BY <1>2, GeneratedStatements DEF Fork, Sample, TypeOK
  <2>2. store \in Stores(d)
    BY <2>1, SamplesSettle
  <2>3. /\ before' = store /\ live' = store /\ edge' = "running"
        /\ deferred' = none /\ stacks' = tops
    BY <1>2, <2>1, SameStores DEF Fork, S!Begin, NoWrite
  <2>4. Untangled => \A n \in ToIds(d.combinational) : Run(d, <<n>>, store).env = store
    BY <2>1, SettledEach DEF Untangled
  <2> HIDE DEF store
  <2>5. Masked(d, store, store) = store
    BY <2>2 DEF Masked, Stores
  <2>6. Together(d, store, store, none, tops)
    BY <2>1, <2>2, TogetherStart
  <2> HIDE DEF none, tops
  <2>7. Attended'
    BY <2>1, <2>2, <2>3, <2>4, <2>5, <2>6 DEF Attended, Untangled
  <2>8. IsolatedIsRaceFree'
    BY <2>3 DEF IsolatedIsRaceFree
  <2> QED BY <2>7, <2>8 DEF AwakeInvariant
<1> QED BY <1>1, <1>2

\* Every step keeps it.
LEMMA AwakeInvariantStep ==
  ASSUME TypeOK, Generated, PassInvariant, EdgeInvariant, AwakeInvariant, [WiredNext]_wiredVars
  PROVE  AwakeInvariant'
<1>1. CASE UNCHANGED wiredVars
  BY <1>1, AwakeStays DEF wiredVars, both, simVars
<1>2. CASE PairCall /\ UNCHANGED awake
  BY <1>2, AwakeStays DEF PairCall, Call, StartCall
<1>3. CASE (EndPass \/ Evaluate \/ Execute) /\ UNCHANGED <<edgeVars, awake>>
  BY <1>3, AwakeStays DEF EndPass, Evaluate, Execute
<1>4. CASE Commit /\ UNCHANGED <<edgeVars, awake>>
  <2>1. edge = "running" /\ design' = design
    BY <1>4 DEF Commit, EdgeInvariant, SequentialRun
  <2> QED BY <1>4, <2>1, AwakeStays
<1>5. CASE AsleepStep /\ UNCHANGED awake
  <2>1. ~ awake'
    BY <1>5 DEF AsleepStep
  <2> QED BY <2>1 DEF AwakeInvariant, Attended, IsolatedIsRaceFree
<1>6. CASE AwakeStep /\ UNCHANGED awake
  <2>1. awake
    BY <1>6 DEF AwakeStep
  <2>2. ASSUME NEW p \in Processes(design), S!Step(p), UNCHANGED simVars
        PROVE  AwakeInvariant'
    BY <1>6, <2>1, <2>2, AwakeProcessKeeps
  <2>3. ASSUME phase = "idle", S!Update, UNCHANGED simVars
        PROVE  AwakeInvariant'
    BY <1>6, <2>1, <2>3, AwakeUpdateKeeps
  <2>4. ASSUME NEW n \in ToIds(design.combinational), Propagate(n)
        PROVE  AwakeInvariant'
    BY <1>6, <2>1, <2>4, PropagateKeeps
  <2> QED BY <1>6, <2>2, <2>3, <2>4 DEF AwakeStep, WiredStep
<1> QED BY <1>1, <1>2, <1>3, <1>4, <1>5, <1>6, AwakeForkKeeps DEF WiredNext, PairWork

-----------------------------------------------------------------------------
(* The theorems. *)

(* For every set of designs analyze accepts: with the combinational logic  *)
(* asleep, every interleaving of the clocked processes ends in the store   *)
(* run_sequential leaves, unless run_sequential has panicked.              *)
THEOREM AsleepIsRaceFreeCorrect == WiredSpec => []AsleepIsRaceFree
BY WiredInvariant, PTL DEF EdgeInvariant

(* For every set of designs: while run_sequential runs, registers with     *)
(* nonblocking writes keep their value of the edge, and a sampled variable *)
(* has the value its expression had at the edge.                           *)
THEOREM ReadsPreEdgeCorrect == WiredSpec => []ReadsPreEdge
<1>1. TypeOK /\ Generated /\ EdgeInvariant => ReadsPreEdge
  <2> SUFFICES ASSUME TypeOK, Generated, EdgeInvariant, phase = "sequential"
               PROVE  /\ \A l \in Locations(design) :
                           l[1] \in generated.nonblocking => env[l] = before[l]
                      /\ \A v \in DOMAIN design.sampled :
                           Word(design, env, v) = Eval(design, design.sampled[v], before)
    BY DEF ReadsPreEdge
  <2> DEFINE d == design
  <2>1. /\ WellFormed(d) /\ Supported(d) /\ generated.nonblocking = Nonblocking(d)
    BY GeneratedStatements DEF TypeOK, Generated
  <2>2. PICK k \in 0 .. Len(d.sequential) : \E current, results : RunningAt(k, current, results)
    BY DEF EdgeInvariant, SequentialRun
  <2>3. PICK current, results : RunningAt(k, current, results)
    BY <2>2
  <2>4. \A l \in Locations(d) : env[l] # before[l] => l[1] \in Blocking(d)
    BY <2>3 DEF RunningAt, Together
  <2>5. Blocking(d) \cap Nonblocking(d) = {}
    BY <2>1, SupportedNotMixed
  <2>6. \A v \in Blocking(d) : v \notin DOMAIN d.sampled
    <3>1. ASSUME NEW p \in ToIds(d.sequential), NEW a \in AssignmentsIn(d, p)
          PROVE  d.statement[a].target.var \notin DOMAIN d.sampled
      BY <2>1 DEF WellFormed, SampledOK, AssignmentsIn, Inside
    <3> QED BY <3>1 DEF Blocking, AssignedBy
  <2>7. ASSUME NEW v \in DOMAIN d.sampled
        PROVE  Word(d, env, v) = Eval(d, d.sampled[v], before)
    <3>1. v \in Variables(d)
      BY <2>1 DEF WellFormed, SampledOK
    <3>2. \A l \in LocationsOf(d, v) : l \in Locations(d) /\ l[1] = v
      BY <3>1 DEF Locations, LocationsOf
    <3>3. Agree(d, {v}, env, before)
      BY <2>4, <2>6, <3>2 DEF Agree, LocationsIn
    <3>4. Word(d, env, v) = Word(d, before, v)
      BY <2>1, <3>1, <3>3, WordAgrees
    <3> QED BY <3>4 DEF EdgeInvariant, SequentialRun
  <2> QED BY <2>1, <2>4, <2>5, <2>7
<1> QED BY <1>1, WiredInvariant, PTL

(* For every set of designs: with the combinational logic awake, a design  *)
(* whose clocked processes read no wire that follows a blocking write has  *)
(* the registers of run_sequential after every interleaving of processes   *)
(* and wires, if no bit of a wire has two drivers and no wire follows a    *)
(* sample.                                                                 *)
THEOREM IsolatedIsRaceFreeCorrect ==
  WiredSpec => [](OneDriver(design) /\ SamplesUnread(design) => IsolatedIsRaceFree)
<1>1. WiredInit => PassInvariant /\ AwakeInvariant
  <2> SUFFICES ASSUME NEW d \in Designs, SimInit(d), S!EdgeInit(d)
               PROVE  PassInvariant /\ AwakeInvariant
    BY DEF WiredInit, PairInit
  <2>1. phase \in {"panicked", "idle"} /\ edge = "none"
    BY DEF SimInit, S!EdgeInit
  <2> QED BY <2>1
          DEF PassInvariant, PassRunning, PassEnded, AwakeInvariant, Attended, IsolatedIsRaceFree
<1>2. TypeOK /\ Generated /\ PassInvariant /\ [WiredNext]_wiredVars => PassInvariant'
  <2> SUFFICES ASSUME TypeOK, Generated, PassInvariant, [WiredNext]_wiredVars PROVE PassInvariant'
    OBVIOUS
  <2>1. [Next]_simVars
    BY DEF WiredNext, wiredVars, both, PairCall, PairWork, Fork, AwakeStep, WiredStep, Propagate,
           AsleepStep, Concurrent, Next, Work
  <2> QED BY <2>1, PassStep
<1>3. TypeOK /\ Generated /\ EdgeInvariant /\ PassInvariant /\ AwakeInvariant
        /\ [WiredNext]_wiredVars => AwakeInvariant'
  BY AwakeInvariantStep
<1>4. AwakeInvariant => (OneDriver(design) /\ SamplesUnread(design) => IsolatedIsRaceFree)
  BY DEF AwakeInvariant, Untangled
<1> QED BY <1>1, <1>2, <1>3, <1>4, WiredInvariant, PTL DEF WiredSpec

=============================================================================
