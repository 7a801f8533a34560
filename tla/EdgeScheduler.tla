--------------------------- MODULE EdgeScheduler ---------------------------
(***************************************************************************)
(* What a clock edge means: the clocked processes of the design run        *)
(* concurrently, one statement at a time and in any order; a blocking      *)
(* assignment takes effect at once, a nonblocking one is deferred until    *)
(* every process has suspended.  This is the language's meaning of the     *)
(* statements in Design::sequential, of which the generated run_sequential *)
(* executes one order.                                                     *)
(***************************************************************************)
EXTENDS Sequential

CONSTANT Designs        \* the designs a behaviour may be about

ASSUME DesignsWellFormed == \A d \in Designs : WellFormed(d)

VARIABLES
  design,               \* the design, fixed
  before,               \* the store at the edge
  live,                 \* the store the processes read and write
  deferred,             \* what each location is to receive after the edge
  stacks,               \* process -> the statements it still has to run
  edge                  \* "none", "running" or "done"

edgeVars == <<before, live, deferred, stacks, edge>>

NoWrite == 2
DeferredWrites(d) == [Locations(d) -> Bit \cup {NoWrite}]

EdgeInit(d) ==
  /\ design = d
  /\ before = [l \in Locations(d) |-> 0]
  /\ live = before
  /\ deferred = [l \in Locations(d) |-> NoWrite]
  /\ stacks = [p \in Processes(d) |-> <<>>]
  /\ edge = "none"

Begin(store) ==
  /\ edge # "running"
  /\ before' = store
  /\ live' = store
  /\ deferred' = [l \in Locations(design) |-> NoWrite]
  /\ stacks' = [p \in Processes(design) |-> <<design.sequential[p]>>]
  /\ edge' = "running"

Write(p) ==
  LET s == design.statement[Head(stacks[p])] IN
  /\ s.kind = "Assignment"
  /\ live' = AssignEnv(design, s, live)
  /\ deferred' = AssignPending(design, s, live, deferred)
  /\ stacks' = [stacks EXCEPT ![p] = Tail(@)]

Enter(p) ==
  LET s == design.statement[Head(stacks[p])] IN
  /\ s.kind # "Assignment"
  /\ stacks' = [stacks EXCEPT ![p] = Unfold(design, s, live, Tail(@))]
  /\ UNCHANGED <<live, deferred>>

Step(p) ==
  /\ edge = "running"
  /\ stacks[p] # <<>>
  /\ Write(p) \/ Enter(p)
  /\ UNCHANGED <<before, edge>>

Update ==
  /\ edge = "running"
  /\ \A p \in Processes(design) : stacks[p] = <<>>
  /\ live' = [l \in Locations(design) |->
                IF deferred[l] = NoWrite THEN live[l] ELSE deferred[l]]
  /\ edge' = "done"
  /\ UNCHANGED <<before, deferred, stacks>>

EdgeNext ==
  \/ \E store \in Stores(design) : Begin(store)
  \/ \E p \in Processes(design) : Step(p)
  \/ Update

Init == \E d \in Designs : Supported(d) /\ EdgeInit(d)
Next == EdgeNext /\ UNCHANGED design
Spec == Init /\ [][Next]_<<design, edgeVars>>

-----------------------------------------------------------------------------
(* The state of an edge is well formed: the stores have a bit for every    *)
(* location, and each process has only statements of its own to run.       *)
EdgeTypeOK ==
  /\ design \in Designs
  /\ before \in Stores(design)
  /\ live \in Stores(design)
  /\ deferred \in DeferredWrites(design)
  /\ DOMAIN stacks = Processes(design)
  /\ \A p \in Processes(design) : stacks[p] \in Seq(Inside(design, design.sequential[p]))
  /\ edge \in {"none", "running", "done"}

(* A nonblocking assignment is not seen before every process is done:      *)
(* while the processes run, the variables with nonblocking writes keep     *)
(* their value of the edge, and only they have deferred writes.  analyze   *)
(* makes it so by refusing variables written with both kinds.              *)
NonblockingHeld ==
  edge = "running" =>
    LET held == Nonblocking(design) IN
    \A l \in Locations(design) :
      /\ l[1] \in held => live[l] = before[l]
      /\ deferred[l] # NoWrite => l[1] \in held

(* collect_footprints finds every bit a process may write: no step of a    *)
(* process changes, now or after the edge, a bit outside its footprint.    *)
WritesOwnBits ==
  [][\A p \in Processes(design) : Step(p) =>
       LET own == Footprint(design, design.sequential[p]) IN
       \A l \in Locations(design) :
         live'[l] # live[l] \/ deferred'[l] # deferred[l] => l \in own]_<<design, edgeVars>>

=============================================================================
