-------------------------- MODULE StateSufficiency --------------------------
(***************************************************************************)
(* Two models of one design.  They are ticked apart until Model::state     *)
(* shows the same registers; from then on both get the same calls.  What   *)
(* they show afterwards tells whether the registers analyze collects are   *)
(* all the state there is.                                                 *)
(***************************************************************************)
EXTENDS Sequential

CONSTANT Designs

ASSUME DesignsWellFormed == \A d \in Designs : WellFormed(d)

VARIABLES design, generated,
  together,            \* "apart", "joined", "called" or "ticked"
  valuesA, inputsA, callA, phaseA, envA, pendingA, stackA, snapshotA, roundA, evaluationA,
  valuesB, inputsB, callB, phaseB, envB, pendingB, stackB, snapshotB, roundB, evaluationB

varsA == <<valuesA, inputsA, callA, phaseA, envA, pendingA, stackA, snapshotA, roundA, evaluationA>>
varsB == <<valuesB, inputsB, callB, phaseB, envB, pendingB, stackB, snapshotB, roundB, evaluationB>>
shared == <<design, generated>>
all == <<shared, together, varsA, varsB>>

A == INSTANCE Simulator WITH values <- valuesA, inputs <- inputsA, call <- callA,
       phase <- phaseA, env <- envA, pending <- pendingA, stack <- stackA,
       snapshot <- snapshotA, round <- roundA, evaluation <- evaluationA
B == INSTANCE Simulator WITH values <- valuesB, inputs <- inputsB, call <- callB,
       phase <- phaseB, env <- envB, pending <- pendingB, stack <- stackB,
       snapshot <- snapshotB, round <- roundB, evaluation <- evaluationB

Resting == phaseA = "idle" /\ phaseB = "idle"

\* One model works at a time: the two share nothing.
Work ==
  \/ A!Work /\ UNCHANGED <<varsB, together>>
  \/ phaseA = "idle" /\ B!Work /\ UNCHANGED <<varsA, together>>

Apart ==
  /\ together = "apart" /\ Resting
  /\ \E i \in A!Inputs(design) :
       \/ A!StartCall("tick", i) /\ UNCHANGED <<varsB, together>>
       \/ B!StartCall("tick", i) /\ UNCHANGED <<varsA, together>>

\* The observer sees equal states and compares the models from here on.
Join ==
  /\ together = "apart" /\ Resting
  /\ A!State = B!State
  /\ together' = "joined"
  /\ UNCHANGED <<shared, varsA, varsB>>

CallBoth ==
  /\ together # "apart" /\ Resting
  /\ \E i \in A!Inputs(design), name \in {"tick", "eval"} :
       /\ A!StartCall(name, i) /\ B!StartCall(name, i)
       /\ together' = IF name = "tick" \/ together = "ticked" THEN "ticked" ELSE "called"

Init == \E d \in Designs : A!SimInit(d) /\ B!SimInit(d) /\ together = "apart"
Next == Work \/ Apart \/ Join \/ CallBoth
Spec == Init /\ [][Next]_all

-----------------------------------------------------------------------------
SameState == Resting /\ together # "apart" => A!State = B!State

SameOutputs ==
  Resting /\ together \in {"called", "ticked"} => evaluationA.outputs = evaluationB.outputs

SameProperties ==
  Resting /\ together = "ticked" => evaluationA.properties = evaluationB.properties

(* The registers are enough: when no combinational statement is a latch    *)
(* and no cycle of them holds a value, two models with equal state()       *)
(* answer equal calls with equal outputs and stay in equal states,         *)
(* whatever temporaries, wires and samples their stores still hold; and    *)
(* from the next tick on they report the same properties, if every edge    *)
(* assigns those.                                                          *)
RegistersSuffice ==
  LatchFree(design) /\ CycleFree(design) =>
    SameState /\ SameOutputs /\ (PropertiesAssigned(design) => SameProperties)

(* sequential.rs:8 calls the registers the "State [...] in the supported   *)
(* single-edge execution model": equal states stay equal and give equal    *)
(* outputs, for every design analyze accepts.                              *)
RegistersAreTheState == SameState /\ SameOutputs

=============================================================================
