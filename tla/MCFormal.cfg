SPECIFICATION PairSpec
CONSTANTS
  Designs <- MCDesigns
  Reset <- MCReset
PROPERTIES ImplementsTransitionSystem ResetReachesInit
