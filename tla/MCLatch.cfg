SPECIFICATION Spec
CONSTANT Designs <- MCLatchDesigns
INVARIANTS RegistersAreTheState
