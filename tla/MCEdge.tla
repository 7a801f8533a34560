------------------------------- MODULE MCEdge -------------------------------
EXTENDS EdgeScheduler, DesignFamilies

\* Short designs: every kind of statement and target, few enough to begin an
\* edge from every store.
MCDesigns ==
  {RaceDesign(<<l>>, r) : l \in LeftStatements, r \in UpTo(RightStatements, 1)}
    \cup LaneDesigns
=============================================================================
