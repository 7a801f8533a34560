----------------------------- MODULE WiredEdge -----------------------------
(***************************************************************************)
(* SimulatedEdge with the combinational logic asleep or awake during the   *)
(* edge.  When it is awake, a wire follows a blocking write as soon as its *)
(* statement is scheduled, before or after another clocked process reads   *)
(* it.  analyze looks for cross-process reads of the written variable      *)
(* itself, not of wires that depend on it.                                 *)
(***************************************************************************)
EXTENDS SimulatedEdge

VARIABLE awake       \* whether wires follow the blocking writes of an edge

wiredVars == <<both, awake>>

Propagated(n) == Run(design, <<n>>, live).env

Propagate(n) ==
  /\ phase = "idle"
  /\ edge = "running"
  /\ Propagated(n) # live
  /\ live' = Propagated(n)
  /\ UNCHANGED <<simVars, before, deferred, stacks, edge>>

Quiet == \A n \in ToIds(design.combinational) : Propagated(n) = live

WiredStep ==
  /\ phase = "idle"
  /\ \/ \E p \in Processes(design) : S!Step(p)
     \/ Quiet /\ S!Update
  /\ UNCHANGED simVars

AwakeStep == awake /\ (WiredStep \/ \E n \in ToIds(design.combinational) : Propagate(n))
AsleepStep == ~ awake /\ Concurrent

WiredInit == PairInit /\ awake \in BOOLEAN /\ (awake => design.combinational # <<>>)
WiredNext ==
  /\ PairCall \/ PairWork \/ Fork \/ AwakeStep \/ AsleepStep
  /\ UNCHANGED awake
WiredSpec == WiredInit /\ [][WiredNext]_wiredVars

-----------------------------------------------------------------------------
\* The wires that depend, through any number of statements, on a variable of vs.
Downstream(d, vs) ==
  LET reach[k \in 0 .. Len(d.combinational)] ==
        IF k = 0 THEN vs
        ELSE reach[k - 1] \cup
             UNION {StatementWrites(d, n) : n \in
                      {m \in ToIds(d.combinational) : StatementReads(d, m) \cap reach[k - 1] # {}}}
  IN  reach[Len(d.combinational)]

\* The check analyze does not make: no clocked process reads a wire that
\* follows a blocking write of the same edge.
WiresIsolated(d) ==
  (Downstream(d, Blocking(d)) \ Blocking(d)) \cap AllReads(d, d.sequential) = {}

ClockedBits(d) == LocationsIn(d, AllWrites(d, d.sequential))

(* sequential.rs:16, "races between processes are deliberately             *)
(* unsupported": what analyze accepts has one outcome, the generated       *)
(* code's; with the logic awake if no clocked process reads a wire that    *)
(* follows a blocking write, which analyze does not check.                 *)
AsleepIsRaceFree == ~ awake => RaceFree
IsolatedIsRaceFree ==
  awake /\ WiresIsolated(design) /\ edge = "done" =>
    \A l \in ClockedBits(design) : live[l] = values[l]

=============================================================================
