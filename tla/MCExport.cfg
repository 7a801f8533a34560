SPECIFICATION PairSpec
CONSTANTS
  Designs <- MCDesigns
  Reset <- MCReset
INVARIANT CoverExportIsHit
