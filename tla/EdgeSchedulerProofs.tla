------------------------ MODULE EdgeSchedulerProofs ------------------------
(***************************************************************************)
(* Theorems about a clock edge, for every set of well-formed designs: its  *)
(* state is well formed, nonblocking assignments are held back to the end  *)
(* of the edge, and a process writes no bit outside the footprint analyze  *)
(* computes for it.                                                        *)
(***************************************************************************)
EXTENDS EdgeScheduler, DesignProofs

-----------------------------------------------------------------------------
(* The invariant. *)

\* What a process runs next: a statement of its own.
LEMMA NextStatement ==
  ASSUME EdgeTypeOK, WellFormed(design), NEW p \in Processes(design), stacks[p] # <<>>
  PROVE  /\ Head(stacks[p]) \in Inside(design, design.sequential[p])
         /\ Head(stacks[p]) \in Statements(design)
         /\ design.root[Head(stacks[p])] = design.sequential[p]
         /\ Tail(stacks[p]) \in Seq(Inside(design, design.sequential[p]))
         /\ StatementOK(design, Head(stacks[p]))
<1>1. stacks[p] \in Seq(Inside(design, design.sequential[p]))
  BY DEF EdgeTypeOK
<1>2. /\ Head(stacks[p]) \in Inside(design, design.sequential[p])
      /\ Tail(stacks[p]) \in Seq(Inside(design, design.sequential[p]))
  BY <1>1, HeadTailProperties
<1> QED BY <1>2 DEF Inside, WellFormed

\* The design is one of Designs, and one analyze accepts.
DesignFixed == design \in Designs /\ Supported(design)

\* What a process writes in one step: bits, in the destination of an
\* assignment of its own.
LEMMA WriteType ==
  ASSUME EdgeTypeOK, WellFormed(design), NEW p \in Processes(design), stacks[p] # <<>>, Write(p)
  PROVE  /\ live' \in Stores(design)
         /\ deferred' \in DeferredWrites(design)
         /\ \A l \in Locations(design) :
              LET a == Head(stacks[p])
                  s == design.statement[a]
              IN  /\ live'[l] # live[l] =>
                       s.assign # "Nonblocking" /\ l \in Destination(design, s.target, live)
                  /\ deferred'[l] # deferred[l] =>
                       s.assign = "Nonblocking" /\ l \in Destination(design, s.target, live)
<1> DEFINE s == design.statement[Head(stacks[p])]
           B == Bit \cup {NoWrite}
<1>1. live \in Stores(design) /\ deferred \in [Locations(design) -> B] /\ Bit \subseteq B
  BY DEF EdgeTypeOK, DeferredWrites
<1>2. s.kind = "Assignment"
  BY DEF Write
<1>3. ExpressionOK(design, s.value)
  BY <1>2, NextStatement DEF StatementOK
<1>4. live' = AssignEnv(design, s, live) /\ deferred' = AssignPending(design, s, live, deferred)
  BY DEF Write
<1>5. DeferredWrites(design) = [Locations(design) -> B]
  BY DEF DeferredWrites
<1> HIDE DEF B, s
<1>6. /\ AssignEnv(design, s, live) \in Stores(design)
      /\ AssignPending(design, s, live, deferred) \in [Locations(design) -> B]
      /\ \A l \in Locations(design) :
           /\ AssignEnv(design, s, live)[l] # live[l] =>
                s.assign # "Nonblocking" /\ l \in Destination(design, s.target, live)
           /\ AssignPending(design, s, live, deferred)[l] # deferred[l] =>
                s.assign = "Nonblocking" /\ l \in Destination(design, s.target, live)
  BY ONLY WellFormed(design), <1>1, <1>3, AssignmentWrites
<1> QED BY <1>4, <1>5, <1>6 DEF s

LEMMA EdgeInitType == Init => EdgeTypeOK /\ DesignFixed
<1> SUFFICES ASSUME NEW d \in Designs, Supported(d), EdgeInit(d)
             PROVE  EdgeTypeOK /\ DesignFixed
  BY DEF Init
<1>1. before \in Stores(d) /\ live \in Stores(d)
  BY DEF EdgeInit, Stores, Bit
<1>2. deferred \in DeferredWrites(d)
  BY DEF EdgeInit, DeferredWrites
<1>3. DOMAIN stacks = Processes(d) /\ \A p \in Processes(d) : stacks[p] = <<>>
  BY DEF EdgeInit
<1> QED BY <1>1, <1>2, <1>3, EmptySeq DEF EdgeInit, EdgeTypeOK, DesignFixed

LEMMA EdgeTypeStep ==
  EdgeTypeOK /\ DesignFixed /\ [Next]_<<design, edgeVars>> => (EdgeTypeOK /\ DesignFixed)'
<1> SUFFICES ASSUME EdgeTypeOK, DesignFixed, [Next]_<<design, edgeVars>>
             PROVE  (EdgeTypeOK /\ DesignFixed)'
  OBVIOUS
<1>1. WellFormed(design)
  BY DesignsWellFormed DEF DesignFixed
<1>2. CASE UNCHANGED <<design, edgeVars>>
  BY <1>2 DEF EdgeTypeOK, DesignFixed, edgeVars
<1>3. ASSUME design' = design, NEW store \in Stores(design), Begin(store)
      PROVE  (EdgeTypeOK /\ DesignFixed)'
  <2>1. deferred' \in DeferredWrites(design)
    BY <1>3 DEF Begin, DeferredWrites
  <2>2. ASSUME NEW p \in Processes(design)
        PROVE  <<design.sequential[p]>> \in Seq(Inside(design, design.sequential[p]))
    <3>1. design.sequential[p] \in Statements(design)
      BY <1>1 DEF WellFormed, Processes
    <3>2. design.root[design.sequential[p]] = design.sequential[p]
      BY <1>1 DEF WellFormed, ToIds, Processes
    <3> QED BY <3>1, <3>2 DEF Inside
  <2>3. /\ DOMAIN stacks' = Processes(design)
        /\ \A p \in Processes(design) : stacks'[p] \in Seq(Inside(design, design.sequential[p]))
    BY <1>3, <2>2 DEF Begin
  <2> QED BY <1>3, <2>1, <2>3 DEF Begin, EdgeTypeOK, DesignFixed
<1>4. ASSUME design' = design, NEW p \in Processes(design), Step(p)
      PROVE  (EdgeTypeOK /\ DesignFixed)'
  <2>1. stacks[p] # <<>> /\ before' = before /\ edge' = edge
    BY <1>4 DEF Step
  <2> DEFINE I == Inside(design, design.sequential[p])
  <2>2. ASSUME NEW stack \in Seq(I), stacks' = [stacks EXCEPT ![p] = stack]
        PROVE  /\ DOMAIN stacks' = Processes(design)
               /\ \A q \in Processes(design) : stacks'[q] \in Seq(Inside(design, design.sequential[q]))
    BY <2>2 DEF EdgeTypeOK
  <2>3. CASE Write(p)
    <3>1. live' \in Stores(design) /\ deferred' \in DeferredWrites(design)
      BY <1>1, <2>1, <2>3, WriteType
    <3>2. stacks' = [stacks EXCEPT ![p] = Tail(stacks[p])]
      BY <2>3 DEF Write
    <3>3. Tail(stacks[p]) \in Seq(I)
      BY <1>1, <2>1, NextStatement
    <3> QED BY <1>4, <2>1, <2>2, <3>1, <3>2, <3>3 DEF EdgeTypeOK, DesignFixed
  <2>4. CASE Enter(p)
    <3> DEFINE stack == Unfold(design, design.statement[Head(stacks[p])], live, Tail(stacks[p]))
    <3>1. stack \in Seq(I)
      BY <1>1, <2>1, NextStatement, UnfoldStaysInside
    <3>2. stacks' = [stacks EXCEPT ![p] = stack] /\ live' = live /\ deferred' = deferred
      BY <2>4 DEF Enter
    <3> QED BY <1>4, <2>1, <2>2, <3>1, <3>2 DEF EdgeTypeOK, DesignFixed
  <2> QED BY <1>4, <2>3, <2>4 DEF Step
<1>5. ASSUME design' = design, Update
      PROVE  (EdgeTypeOK /\ DesignFixed)'
  <2>1. live' = [l \in Locations(design) |-> IF deferred[l] = NoWrite THEN live[l] ELSE deferred[l]]
    BY <1>5 DEF Update
  <2>2. \A l \in Locations(design) : live[l] \in Bit /\ deferred[l] \in Bit \cup {NoWrite}
    BY DEF EdgeTypeOK, Stores, DeferredWrites
  <2>3. live' \in Stores(design)
    BY <2>1, <2>2 DEF Stores
  <2> QED BY <1>5, <2>3 DEF Update, EdgeTypeOK, DesignFixed
<1> QED BY <1>2, <1>3, <1>4, <1>5 DEF Next, EdgeNext

(* The state of an edge stays well formed, for every set of designs: each  *)
(* store keeps a bit for every location, and a process's stack holds only  *)
(* statements of its own top-level statement.                              *)
THEOREM EdgeTypeCorrect == Spec => []EdgeTypeOK
<1>1. Spec => [](EdgeTypeOK /\ DesignFixed)
  BY EdgeInitType, EdgeTypeStep, PTL DEF Spec
<1> QED BY <1>1, PTL

-----------------------------------------------------------------------------
(* Nonblocking assignments wait. *)

LEMMA HeldStep ==
  EdgeTypeOK /\ DesignFixed /\ NonblockingHeld /\ [Next]_<<design, edgeVars>> => NonblockingHeld'
<1> SUFFICES ASSUME EdgeTypeOK, DesignFixed, NonblockingHeld, [Next]_<<design, edgeVars>>,
                    edge' = "running"
             PROVE  \A l \in Locations(design') :
                      /\ l[1] \in Nonblocking(design') => live'[l] = before'[l]
                      /\ deferred'[l] # NoWrite => l[1] \in Nonblocking(design')
  BY DEF NonblockingHeld
<1>1. WellFormed(design)
  BY DesignsWellFormed DEF DesignFixed
<1>2. CASE UNCHANGED <<design, edgeVars>>
  BY <1>2 DEF NonblockingHeld, edgeVars
<1>3. ASSUME design' = design, NEW store \in Stores(design), Begin(store)
      PROVE  \A l \in Locations(design) : live'[l] = before'[l] /\ deferred'[l] = NoWrite
  BY <1>3 DEF Begin
<1>4. ASSUME design' = design, NEW p \in Processes(design), Step(p), NEW l \in Locations(design)
      PROVE  /\ l[1] \in Nonblocking(design) => live'[l] = before'[l]
             /\ deferred'[l] # NoWrite => l[1] \in Nonblocking(design)
  <2> DEFINE a == Head(stacks[p])
             s == design.statement[a]
  <2>1. stacks[p] # <<>> /\ edge = "running" /\ before' = before
    BY <1>4 DEF Step
  <2>2. /\ l[1] \in Nonblocking(design) => live[l] = before[l]
        /\ deferred[l] # NoWrite => l[1] \in Nonblocking(design)
    BY <2>1 DEF NonblockingHeld
  <2>3. CASE Enter(p)
    BY <2>1, <2>2, <2>3 DEF Enter
  <2>4. CASE Write(p)
    <3>1. a \in Inside(design, design.sequential[p]) /\ StatementOK(design, a)
      BY <1>1, <2>1, NextStatement
    <3>2. s.kind = "Assignment"
      BY <2>4 DEF Write
    <3>3. s.assign \in {"Blocking", "Nonblocking", "Continuous"}
      BY <3>1, <3>2 DEF StatementOK
    <3>4. /\ s.assign = "Nonblocking" => s.target.var \in Nonblocking(design)
          /\ s.assign # "Nonblocking" => s.target.var \in Blocking(design)
      BY <1>1, <3>1, <3>2, <3>3, AssignedVariable
    <3>5. /\ live'[l] # live[l] => s.assign # "Nonblocking" /\ l[1] = s.target.var
          /\ deferred'[l] # deferred[l] => s.assign = "Nonblocking" /\ l[1] = s.target.var
      BY <1>1, <2>1, <2>4, WriteType, DestinationInVariable
    <3>6. s.target.var \in Blocking(design) => s.target.var \notin Nonblocking(design)
      BY SupportedNotMixed DEF DesignFixed
    <3> QED BY <2>1, <2>2, <3>4, <3>5, <3>6
  <2> QED BY <1>4, <2>3, <2>4 DEF Step
<1>5. ~ Update
  BY DEF Update
<1> QED BY <1>2, <1>3, <1>4, <1>5 DEF Next, EdgeNext

(* For every set of designs: no nonblocking assignment is seen before all  *)
(* processes of the edge are done, because analyze refuses variables       *)
(* written with both kinds.                                                *)
THEOREM NonblockingHeldCorrect == Spec => []NonblockingHeld
<1>1. Init => NonblockingHeld
  BY DEF Init, EdgeInit, NonblockingHeld
<1>2. Spec => [](EdgeTypeOK /\ DesignFixed)
  BY EdgeInitType, EdgeTypeStep, PTL DEF Spec
<1> QED BY <1>1, <1>2, HeldStep, PTL DEF Spec

-----------------------------------------------------------------------------
(* Footprints. *)

(* For every set of designs: no step of a process changes, now or after    *)
(* the edge, a bit that collect_footprints has not counted to it.          *)
THEOREM WritesOwnBitsCorrect == Spec => WritesOwnBits
<1> DEFINE Own ==
      \A p \in Processes(design) : Step(p) =>
         LET own == Footprint(design, design.sequential[p]) IN
         \A l \in Locations(design) :
           live'[l] # live[l] \/ deferred'[l] # deferred[l] => l \in own
<1>1. ASSUME EdgeTypeOK, DesignFixed
      PROVE  Own
  <2> SUFFICES ASSUME NEW p \in Processes(design), Step(p), NEW l \in Locations(design),
                      live'[l] # live[l] \/ deferred'[l] # deferred[l]
               PROVE  l \in Footprint(design, design.sequential[p])
    OBVIOUS
  <2> DEFINE a == Head(stacks[p])
             t == design.statement[a].target
  <2>1. WellFormed(design)
    BY <1>1, DesignsWellFormed DEF DesignFixed
  <2>2. stacks[p] # <<>>
    BY DEF Step
  <2>3. Write(p)
    BY DEF Step, Enter
  <2>4. design.statement[a].kind = "Assignment"
    BY <2>3 DEF Write
  <2>5. a \in Inside(design, design.sequential[p]) /\ StatementOK(design, a)
    BY <1>1, <2>1, <2>2, NextStatement
  <2>6. TargetOK(design, t)
    BY <2>4, <2>5 DEF StatementOK
  <2>7. l \in Destination(design, t, live)
    BY <1>1, <2>1, <2>2, <2>3, WriteType
  <2>8. live \in Stores(design)
    BY <1>1 DEF EdgeTypeOK
  <2>9. l \in TargetFootprint(design, t)
    BY <2>1, <2>6, <2>7, <2>8, DestinationInFootprint
  <2>10. a \in AssignmentsIn(design, design.sequential[p])
    BY <2>4, <2>5 DEF AssignmentsIn
  <2> QED BY <2>9, <2>10 DEF Footprint
<1>2. Spec => [](EdgeTypeOK /\ DesignFixed)
  BY EdgeInitType, EdgeTypeStep, PTL DEF Spec
<1>3. Spec => [][Own]_<<design, edgeVars>>
  BY <1>1, <1>2, PTL DEF Spec
<1> QED BY <1>3 DEF WritesOwnBits

=============================================================================
