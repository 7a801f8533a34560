------------------------------ MODULE MCFormal ------------------------------
EXTENDS FormalSimulation, DesignFamilies

\* What the converter accepts, without latches and half-assigned properties.
MCDesigns == {d \in FormalDesigns : F!Converts(d) /\ LatchFree(d) /\ PropertiesAssigned(d)}
MCReset == [variable |-> "rst", edge |-> "Positive"]
=============================================================================
