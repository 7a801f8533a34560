SPECIFICATION Spec
CONSTANT Designs <- MCDesigns
INVARIANTS EdgeTypeOK NonblockingHeld
PROPERTY WritesOwnBits
