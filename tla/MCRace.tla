------------------------------- MODULE MCRace -------------------------------
EXTENDS WiredEdge, DesignFamilies

MCDesigns == RaceDesigns \cup SampleDesigns \cup LaneDesigns \cup GapDesigns

\* What IsolatedIsRaceFree takes for granted with the logic awake.
ASSUME DesignsUntangled == \A d \in MCDesigns : OneDriver(d) /\ SamplesUnread(d)
=============================================================================
