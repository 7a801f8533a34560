--------------------------- MODULE SimulatedEdge ---------------------------
(***************************************************************************)
(* The generated model beside the meaning of a clock edge: whenever tick   *)
(* reaches run_sequential, the same store is handed to EdgeScheduler,      *)
(* which runs the same clocked processes in every interleaving.            *)
(***************************************************************************)
EXTENDS Simulator

VARIABLES before, live, deferred, stacks, edge

S == INSTANCE EdgeScheduler

edgeVars == <<before, live, deferred, stacks, edge>>
both == <<simVars, edgeVars>>

Fork ==
  /\ Sample
  /\ IF call = "tick" THEN S!Begin(env') ELSE UNCHANGED edgeVars

\* The interleavings are explored while the model rests.
Concurrent ==
  /\ phase \in {"idle", "panicked"}
  /\ (\E p \in Processes(design) : S!Step(p)) \/ S!Update
  /\ UNCHANGED simVars

PairCall == edge # "running" /\ Call /\ UNCHANGED edgeVars
PairWork == (Execute \/ EndPass \/ Commit \/ Evaluate) /\ UNCHANGED edgeVars

PairInit == \E d \in Designs : SimInit(d) /\ S!EdgeInit(d)
PairNext == PairCall \/ PairWork \/ Fork \/ Concurrent
PairSpec == PairInit /\ [][PairNext]_both

-----------------------------------------------------------------------------
\* tick panics at an undeclared index and keeps no store of its own.
PanickedInTick == phase = "panicked" /\ call = "tick"

(* sequential.rs:16 leaves races between processes unsupported: for every  *)
(* design analyze accepts, all interleavings of the clocked processes end  *)
(* in the store that run_sequential, which runs them in source order and   *)
(* copies whole pending variables, leaves behind.                          *)
RaceFree == edge = "done" /\ ~ PanickedInTick => live = values

(* What the clocked code reads of the moment before the edge stays what it *)
(* was, from the first statement of run_sequential to the last: registers  *)
(* with nonblocking writes, and sampled expressions, also of variables the *)
(* processes have meanwhile written with blocking assignments.             *)
ReadsPreEdge ==
  phase = "sequential" =>
    /\ \A l \in Locations(design) : l[1] \in generated.nonblocking => env[l] = before[l]
    /\ \A v \in DOMAIN design.sampled :
         Word(design, env, v) = Eval(design, design.sampled[v], before)

=============================================================================
