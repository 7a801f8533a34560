-------------------------- MODULE FormalSimulation --------------------------
(***************************************************************************)
(* The two back ends on one design: the generated simulator is shown to    *)
(* implement the transition system the converter writes.                   *)
(***************************************************************************)
EXTENDS Simulator

CONSTANT Reset      \* the reset given to the converter: [variable, edge]

VARIABLES
  fsm,              \* what the converter takes from the design
  resetInit         \* the initial values apply_reset gives registers

F == INSTANCE FormalConvert

convertedVars == <<fsm, resetInit>>

PairInit ==
  \E d \in {x \in Designs : F!Converts(x)} :
    /\ SimInit(d)
    /\ fsm = F!Fsm(d)
    /\ resetInit = F!ResetInit(d, fsm, Reset)
PairNext == Next /\ UNCHANGED convertedVars
PairSpec == PairInit /\ [][PairNext]_<<simVars, convertedVars>>

-----------------------------------------------------------------------------
\* The inputs of the last call; what nothing drives has the value it always has.
Driven == Project(design, fsm.inputs, inputs @@ values)

\* The properties a clocked process sets keep the value of the last edge.
Fired == [v \in fsm.edgeProperties |-> Truthy(Word(design, values, v))]

T == INSTANCE TransitionSystem
       WITH regs <- State, inputs <- Driven, fired <- Fired, shown <- evaluation

(* Every call of the generated model is a choice of inputs, a clock of     *)
(* exactly the converter's next-state functions, and a look at exactly its *)
(* outputs and properties, from the state --zero-init gives: what is       *)
(* proved of the system holds of the simulation.                           *)
ImplementsTransitionSystem == T!Spec

(* A cycle of the simulator under an active reset, from any state and with *)
(* any other inputs, brings the registers to the initial values            *)
(* apply_reset computed.                                                   *)
ResetReachesInit ==
  [][Commit /\ (inputs[<<Reset.variable, 0>>] = 1) = (Reset.edge = "Positive") =>
       \A r \in resetInit : Project(design, {r.variable}, values') = r.value]_<<simVars, convertedVars>>

(* main.rs:46 exports a cover "inverted as an assertion", the assertion    *)
(* that it is never hit: the exported system is in its bad state when the  *)
(* generated model has just reported the cover.                            *)
CoverExportIsHit ==
  phase = "idle" /\ evaluation # NoEvaluation =>
    \A now \in {F!System(design, fsm, Driven @@ State)} :
      \A v \in DOMAIN design.property :
        design.property[v] = "Cover" =>
          F!SelectProperty("Cover", (Fired @@ now.properties)[v]) = evaluation.properties[v]

=============================================================================
