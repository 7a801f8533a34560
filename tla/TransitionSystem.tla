-------------------------- MODULE TransitionSystem --------------------------
(***************************************************************************)
(* What a model checker makes of the system the converter writes: from all *)
(* registers zero (--zero-init) it may choose any inputs, look at the      *)
(* outputs and properties, and clock the registers.                        *)
(***************************************************************************)
EXTENDS FormalConvert

CONSTANT Designs

VARIABLES
  design,
  fsm,           \* what from_design made of it
  regs,          \* the states of the system
  inputs,        \* the inputs chosen last
  fired,         \* the properties the clocked processes set, at the last clock
  shown          \* the outputs and properties seen last

systemVars == <<design, fsm, regs, inputs, fired, shown>>

\* add_properties: an assertion's variable is a bad state, as it is.
Satisfied(v, value) == IF design.property[v] = "Assertion" THEN ~ value ELSE value

Choose ==
  /\ inputs' \in StoresOf(design, fsm.inputs)
  /\ UNCHANGED <<regs, fired, shown>>

Clock ==
  \E now \in {System(design, fsm, inputs @@ regs)} :
    /\ regs' = now.next
    /\ fired' = [v \in fsm.edgeProperties |-> now.properties[v]]
    /\ UNCHANGED <<inputs, shown>>

Show ==
  \E now \in {System(design, fsm, inputs @@ regs)} :
    /\ shown' = [outputs    |-> now.outputs,
                 properties |-> [v \in DOMAIN design.property |->
                                   Satisfied(v, (fired @@ now.properties)[v])]]
    /\ UNCHANGED <<regs, inputs, fired>>

Init ==
  /\ design \in Designs /\ Converts(design)
  /\ fsm = Fsm(design)
  /\ regs = [l \in LocationsIn(design, fsm.registers) |-> 0]
  /\ inputs \in StoresOf(design, fsm.inputs)
  /\ fired = [v \in fsm.edgeProperties |-> FALSE]
  /\ shown = [outputs |-> <<>>, properties |-> <<>>]

Next == (Choose \/ Clock \/ Show) /\ UNCHANGED <<design, fsm>>
Spec == Init /\ [][Next]_systemVars

=============================================================================
