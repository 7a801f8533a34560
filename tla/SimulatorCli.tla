---------------------------- MODULE SimulatorCli ----------------------------
(***************************************************************************)
(* One process of the simulator generator (main.rs): the document is       *)
(* parsed, the domains the user names are selected, and only then does     *)
(* generate_project look at the file system.  What the design was matters  *)
(* no more from there on, and is dropped; of later processes, the requests *)
(* say whether their documents and options are accepted.                   *)
(***************************************************************************)
EXTENDS ProjectGenerator

CONSTANTS Documents, Clocks, Resets

VARIABLES document, phase, addresses, variables, domains, position, lists, selected

P == INSTANCE AstParser

ASSUME DocumentsWellFormed == \A doc \in Documents : P!DocumentOK(doc)
ASSUME OptionsAreLists == \A option \in Clocks \cup Resets : Len(option) \in {0, 1} /\ P!IsList(option)

parserVars == <<document, phase, addresses, variables, domains, position, lists, selected>>
cliVars == <<vars, parserVars>>

\* The request of no run: any.
CliInit == Init /\ P!Init /\ request = CHOOSE r \in Requests : r.accepted

\* Parsing, of a document the process has just read, changes no file.
Parse == phase # "dropped" /\ P!Next /\ UNCHANGED vars

\* The values of run are dropped when it returns.
Dropped ==
  /\ document' = [root |-> <<>>, scopes |-> <<>>]
  /\ phase' = "dropped"
  /\ addresses' = {} /\ variables' = <<>> /\ domains' = {} /\ position' = 0
  /\ lists' = P!NoLists /\ selected' = <<>>

\* Design::try_from fails, and run returns its error.
ParsingFails == phase = "error" /\ Dropped /\ UNCHANGED vars

\* generate_project: the options are refused, or the domains are selected.
\* (The clock a converter finds by itself could as well have been named.)
Generate ==
  /\ phase = "design"
  /\ Start
  /\ request'.accepted => selected # <<>>
  /\ Dropped

Later == phase = "dropped" /\ Next /\ UNCHANGED parserVars

CliNext == Parse \/ ParsingFails \/ Generate \/ Later
CliSpec == CliInit /\ [][CliNext]_cliVars /\ WF_cliVars(Parse)

-----------------------------------------------------------------------------
(* The properties of the parser, see AstParser.                            *)

\* The types of both parts, while the parser's values are there.
CliTypeOK == TypeOK /\ (phase # "dropped" => P!TypeOK)

\* A design has the statements of the hierarchy, each list in file order.
StatementsKept == P!StatementsKept

\* No process of an accepted design is triggered by another edge.
OneEdge == P!OneEdge

\* Parsing ends: run is straight-line code of one thread, so a step of it that
\* can be taken is taken; the loop of find_scopes is the one that could spin.
ParsingEnds == P!ParsingEnds

=============================================================================
