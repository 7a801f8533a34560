SPECIFICATION Spec
CONSTANT Designs <- MCDesigns
INVARIANTS RegistersSuffice
