----------------------------- MODULE AstParser -----------------------------
(***************************************************************************)
(* parser-verilator/src/parser.rs: from the node list of a Verilator AST   *)
(* to the lists of statements a design consists of, and the choice of its  *)
(* clock and reset (select_domains of both back ends).                     *)
(*                                                                         *)
(* A document lists its SCOPE nodes in file order.  A scope has an         *)
(* address, the address of the scope above it, variables and ACTIVE        *)
(* blocks; a block has a name, its sensitivity tree's items, if it has     *)
(* one, and statements, which are [kind, id].  Inside of a statement, and  *)
(* the analysis of the finished design, is the matter of other modules.    *)
(***************************************************************************)
EXTENDS Integers, FiniteSets, SequencesExt

CONSTANTS
  Documents,     \* [root, scopes: sequence of [addr, above, variables, blocks]]
  Clocks,        \* the clock given by the user: a sequence of at most one domain [name, edge]
  Resets         \* the reset given by the user, likewise

VARIABLES
  document,
  phase,         \* "scopes", "variables", "domains", "statements", "design", "error"
  addresses,     \* find_scopes: scope_addresses
  variables,     \* the design's variables: [scope, name], in the order of their ids
  domains,       \* sensitivity_domains: the set of [variable, edge], no two in one place
  position,      \* how many of the active blocks are parsed
  lists,         \* [static, initial, combinational, sequential]: the statements
  selected       \* select_domains: the clock's domain and, if there is one, the reset's

vars == <<document, phase, addresses, variables, domains, position, lists, selected>>

NoLists == [static |-> <<>>, initial |-> <<>>, combinational |-> <<>>, sequential |-> <<>>]
Scopes(doc) == doc.scopes
ScopeAddresses(doc) == {Scopes(doc)[i].addr : i \in DOMAIN Scopes(doc)}

\* What Verilator writes, as far as the parser relies on it: a TOPSCOPE leads
\* to scopes of the document.
Kinds == {"INITIALSTATIC", "INITIAL", "ALWAYS", "OTHER"}
IsList(s) == s \in Seq(ToSet(s))
DocumentOK(doc) ==
  /\ IsList(Scopes(doc))
  /\ \A scope \in ToSet(Scopes(doc)) :
       /\ scope.addr[1] \in Nat /\ IsList(scope.variables) /\ IsList(scope.blocks)
       /\ \A block \in ToSet(scope.blocks) :
            IsList(block.statements) /\ \A s \in ToSet(block.statements) : s.kind \in Kinds
  /\ ToSet(doc.root) \subseteq ScopeAddresses(doc)

-----------------------------------------------------------------------------
(* find_scopes.                                                            *)

PassOnceUpwards(doc, known) ==     \* mutant: follows aboveScopep the wrong way
  FoldLeft(LAMBDA found, scope : IF scope.addr \in found THEN found \cup {scope.above} ELSE found,
           known, Scopes(doc))

\* One pass over the nodes: a scope below one that is known is known.
PassOnce(doc, known) ==
  FoldLeft(LAMBDA found, scope : IF scope.above \in found THEN found \cup {scope.addr} ELSE found,
           known, Scopes(doc))

\* Then the scopes are taken in file order.
ActiveBlocks(doc, found) ==
  FlattenSeq([i \in DOMAIN Scopes(doc) |->
                IF Scopes(doc)[i].addr \in found THEN Scopes(doc)[i].blocks ELSE <<>>])

\* find_legacy_scope: without a TOPSCOPE one scope is taken: a TOP with blocks,
\* or else a TOP, or else any, the first in the order of the addresses.
LegacyScope(doc) ==
  LET all == {Scopes(doc)[i] : i \in DOMAIN Scopes(doc)}
      tops == {s \in all : s.addr[2] = "TOP"}
      full == {s \in tops : s.blocks # <<>>}
      best == IF full # {} THEN full ELSE IF tops # {} THEN tops ELSE all
  IN  CHOOSE s \in best : \A t \in best : s.addr[1] <= t.addr[1]

-----------------------------------------------------------------------------
(* Variables: numbered scope by scope.  The variables of the root scope    *)
(* show their own name, the others that of their scope as well.            *)

VariablesOf(doc, found) ==
  FlattenSeq([i \in DOMAIN Scopes(doc) |->
    LET scope == Scopes(doc)[i]
    IN  IF scope.addr \in found
        THEN [k \in DOMAIN scope.variables |->
                [scope |-> scope.addr, name |-> scope.variables[k].name,
                 direction |-> scope.variables[k].direction, width |-> scope.variables[k].width]]
        ELSE <<>>])

Shown(v) == IF v.scope[2] = "TOP" THEN <<v.name>> ELSE <<v.scope[2], v.name>>
VariableIds(vs, reference) ==
  {id \in DOMAIN vs : vs[id].scope = reference.scope /\ vs[id].name = reference.name}

-----------------------------------------------------------------------------
(* parse_sensitivity_domains.                                              *)

\* A clocked block without a sensitivity tree is passed over.
Sensed(block) == block.name = "sequent" /\ block.senses # <<>>
SensesOf(block) == ToSet(block.senses[1])
AllSenses(blocks) == UNION {SensesOf(block) : block \in {b \in ToSet(blocks) : Sensed(b)}}

\* Of an item the edge must be known, it must have no condition, and its
\* variable must be one of the design's.
SenseAccepted(vs, sense) ==
  sense.edge \in {"Positive", "Negative"} /\ VariableIds(vs, sense.of) # {}
DomainsAccepted(vs, blocks) ==
  /\ \A block \in ToSet(blocks) : Sensed(block) => SensesOf(block) # {}
  /\ \A sense \in AllSenses(blocks) : SenseAccepted(vs, sense)

\* Each variable and edge once.
DomainsOf(vs, blocks) ==
  {[variable |-> CHOOSE id \in VariableIds(vs, sense.of) : TRUE, edge |-> sense.edge] :
     sense \in AllSenses(blocks)}

\* Nonblocking assignments that Verilator has lowered are refused, in any scope.
Lowered(doc) ==
  \E i \in DOMAIN Scopes(doc) : \E k \in DOMAIN Scopes(doc)[i].blocks :
    Scopes(doc)[i].blocks[k].name = "nba-"

-----------------------------------------------------------------------------
(* Statements.                                                             *)

ListOf(block, statement) ==
  CASE block.name = "" /\ statement.kind = "INITIALSTATIC" -> "static"
    [] block.name = "" /\ statement.kind = "INITIAL" -> "initial"
    [] block.name = "" /\ statement.kind \notin {"INITIALSTATIC", "INITIAL"} -> "combinational"
    [] block.name = "sequent" -> "sequential"

\* A block of another name is passed over.
Parsed(block) == block.name \in {"", "sequent"}
Supported(block) == \A i \in DOMAIN block.statements : block.statements[i].kind # "OTHER"

AddedInPlace(sorted, block) ==     \* mutant: static initialisation stays where it is
  FoldLeft(LAMBDA now, s :
             LET to == IF ListOf(block, s) = "static" THEN "initial" ELSE ListOf(block, s)
             IN  [now EXCEPT ![to] = Append(@, s)], sorted, block.statements)
Added(sorted, block) ==
  FoldLeft(LAMBDA now, s : [now EXCEPT ![ListOf(block, s)] = Append(@, s)],
           sorted, block.statements)

\* The design runs every static initialisation before any initial block.
DesignInitial(sorted) == sorted.static \o sorted.initial

-----------------------------------------------------------------------------
(* select_domains and resolve_reset, the same in both back ends; only the  *)
(* converter may be called without a clock.                                *)

DomainOf(vs, domain) == [name |-> Shown(vs[domain.variable]), edge |-> domain.edge]

ResetIds(vs, reset) == {id \in DOMAIN vs : Shown(vs[id]) = reset.name}
ResetAccepted(vs, reset) ==
  /\ Cardinality(ResetIds(vs, reset)) = 1
  /\ \A id \in ResetIds(vs, reset) : vs[id].direction = "INPUT" /\ vs[id].width = 1
ResolveReset(vs, reset) ==
  [variable |-> CHOOSE id \in DOMAIN vs : id \in ResetIds(vs, reset), edge |-> reset.edge]

\* The domains of the name and edge given; the only one if none is given.
ClockMatches(vs, ds, clock) ==
  {d \in ds : IF clock = <<>> THEN ds = {d} ELSE DomainOf(vs, d) = clock[1]}
\* The list of domains is in the order of the ids, and has one of each edge.
ClockDomain(vs, ds, clock) ==
  CHOOSE d \in ClockMatches(vs, ds, clock) :
    \A e \in ClockMatches(vs, ds, clock) : d.variable <= e.variable

\* Only the clock's and the reset's edge may trigger a process.
AllExpectedByName(vs, ds, clock, reset) ==    \* mutant: compares what the user wrote
  \A d \in ds :
    DomainOf(vs, d).name \in
      {clock[k].name : k \in DOMAIN clock} \cup {reset[k].name : k \in DOMAIN reset}
AllExpected(vs, ds, clock, reset) ==
  ds \subseteq {ClockDomain(vs, ds, clock)} \cup {ResolveReset(vs, reset[k]) : k \in DOMAIN reset}

DomainsSelected(vs, ds, clock, reset) ==
  /\ \A k \in DOMAIN reset : ResetAccepted(vs, reset[k])
  /\ \A k \in DOMAIN reset, c \in DOMAIN clock : reset[k].name # clock[c].name
  /\ ClockMatches(vs, ds, clock) # {}
  /\ AllExpected(vs, ds, clock, reset)

-----------------------------------------------------------------------------
Init ==
  /\ document \in Documents
  /\ phase = "scopes"
  /\ addresses = {}
  /\ variables = <<>> /\ domains = {} /\ position = 0 /\ lists = NoLists
  /\ selected = <<>>

\* The roots are the scopes of the TOPSCOPE; or the document has none.
FindRoots ==
  /\ phase = "scopes" /\ addresses = {}
  /\ \/ /\ document.root # <<>>
        /\ addresses' = ToSet(document.root)
        /\ UNCHANGED phase
     \/ /\ document.root = <<>> /\ Scopes(document) # <<>>
        /\ addresses' = {LegacyScope(document).addr}
        /\ phase' = "variables"
     \/ /\ document.root = <<>> /\ Scopes(document) = <<>>
        /\ phase' = "error"
        /\ UNCHANGED addresses
  /\ UNCHANGED <<document, variables, domains, position, lists, selected>>

\* One pass, repeated until nothing changes.
NextPhaseUntilNone(known, found) ==             \* mutant: any scope below counts as a change
  IF Cardinality(found) = 1 THEN "variables" ELSE "scopes"
NextPhase(known, found) == IF found = known THEN "variables" ELSE "scopes"

FindScopes ==
  /\ phase = "scopes" /\ addresses # {}
  /\ addresses' = PassOnce(document, addresses)
  /\ phase' = NextPhase(addresses, addresses')
  /\ UNCHANGED <<document, variables, domains, position, lists, selected>>

NumberVariables ==
  /\ phase = "variables"
  /\ variables' = VariablesOf(document, addresses)
  /\ phase' = "domains"
  /\ UNCHANGED <<document, addresses, domains, position, lists, selected>>

ParseSensitivityDomains ==
  /\ phase = "domains"
  /\ IF DomainsAccepted(variables, ActiveBlocks(document, addresses)) /\ ~ Lowered(document)
     THEN /\ domains' = DomainsOf(variables, ActiveBlocks(document, addresses))
          /\ phase' = "statements"
     ELSE phase' = "error" /\ UNCHANGED domains
  /\ UNCHANGED <<document, addresses, variables, position, lists, selected>>

ParseBlock ==
  LET blocks == ActiveBlocks(document, addresses) IN
  /\ phase = "statements" /\ position < Len(blocks)
  /\ position' = position + 1
  /\ LET block == blocks[position'] IN
     IF ~ Parsed(block) THEN UNCHANGED <<phase, lists>>
     ELSE IF ~ Supported(block) THEN phase' = "error" /\ UNCHANGED lists
     ELSE lists' = Added(lists, block) /\ UNCHANGED phase
  /\ UNCHANGED <<document, addresses, variables, domains, selected>>

FinishDesign ==
  /\ phase = "statements" /\ position = Len(ActiveBlocks(document, addresses))
  /\ phase' = IF lists.sequential = <<>> THEN "error" ELSE "design"
  /\ UNCHANGED <<document, addresses, variables, domains, position, lists, selected>>

\* A back end is called with a clock and maybe a reset.
SelectDomains ==
  /\ phase = "design" /\ selected = <<>>
  /\ \E clock \in Clocks, reset \in Resets :
       /\ DomainsSelected(variables, domains, clock, reset)
       /\ selected' = <<ClockDomain(variables, domains, clock)>> \o
                      [k \in DOMAIN reset |-> ResolveReset(variables, reset[k])]
  /\ UNCHANGED <<document, phase, addresses, variables, domains, position, lists>>

Next ==
  \/ FindRoots
  \/ FindScopes
  \/ NumberVariables
  \/ ParseSensitivityDomains
  \/ ParseBlock
  \/ FinishDesign
  \/ SelectDomains

Spec == Init /\ [][Next]_vars /\ WF_vars(Next)

-----------------------------------------------------------------------------
(* Properties.                                                             *)

TypeOK ==
  /\ phase \in {"scopes", "variables", "domains", "statements", "design", "error"}
  /\ addresses \subseteq ScopeAddresses(document)
  /\ position \in 0 .. Len(ActiveBlocks(document, addresses))
  /\ \A i \in DOMAIN selected : selected[i].variable \in DOMAIN variables

\* The scopes in the hierarchy, or the one scope of a document without one:
\* every set that has the roots and with a scope the scopes below it has them.
InHierarchy(doc, addr) ==
  IF doc.root = <<>> THEN addr = LegacyScope(doc).addr
  ELSE \A set \in SUBSET ScopeAddresses(doc) :
         /\ ToSet(doc.root) \subseteq set
         /\ \A scope \in ToSet(Scopes(doc)) : scope.above \in set => scope.addr \in set
         => addr \in set

\* Whatever the order the file lists the scopes in, the design has the
\* statements of all scopes in the hierarchy and of no other: each list has
\* the statements of its blocks in file order, but the static initialisation
\* of every scope comes before the initial blocks of any (a variable that has
\* both ends with the value the initial block gives it).
Kept(statements, kinds) ==
  FlattenSeq([i \in DOMAIN statements |->
                IF statements[i].kind \in kinds THEN <<statements[i]>> ELSE <<>>])
OfBlocks(doc, kinds, name) ==
  LET blocks == FlattenSeq([i \in DOMAIN Scopes(doc) |->
                  IF InHierarchy(doc, Scopes(doc)[i].addr) THEN Scopes(doc)[i].blocks ELSE <<>>])
  IN  FlattenSeq([i \in DOMAIN blocks |->
                    IF blocks[i].name = name THEN Kept(blocks[i].statements, kinds) ELSE <<>>])

StatementsKept ==
  phase = "design" =>
    /\ DesignInitial(lists) = OfBlocks(document, {"INITIALSTATIC"}, "") \o
                                OfBlocks(document, {"INITIAL"}, "")
    /\ lists.combinational = OfBlocks(document, {"ALWAYS"}, "")
    /\ lists.sequential = OfBlocks(document, {"INITIALSTATIC", "INITIAL", "ALWAYS"}, "sequent")

\* A design a back end accepts has no process that another edge than the
\* chosen clock's or reset's triggers: the one edge a generated model and a
\* transition system have stands for all of them.
OneEdge ==
  selected # <<>> =>
    \A i \in DOMAIN Scopes(document) : \A k \in DOMAIN Scopes(document)[i].blocks :
      LET scope == Scopes(document)[i]
          block == scope.blocks[k]
      IN  InHierarchy(document, scope.addr) /\ block.name = "sequent" /\ block.senses # <<>> =>
            \A sense \in SensesOf(block) :
              \E d \in DOMAIN selected :
                /\ selected[d].edge = sense.edge
                /\ variables[selected[d].variable].scope = sense.of.scope
                /\ variables[selected[d].variable].name = sense.of.name

\* Parsing ends, with a design or an error: the passes over the scopes stop
\* also when some scopes hang under themselves.
ParsingEnds == <>(phase \in {"design", "error"})
=============================================================================
