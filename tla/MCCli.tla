------------------------------- MODULE MCCli -------------------------------
EXTENDS SimulatorCli, TLC

(* Documents and options. *)

\* Scopes: TOP, A under TOP, and B under A, under TOP or in a ring with
\* nothing; the order of the addresses is not that of the hierarchy.
Top == <<2, "TOP">>
ScopeA == <<3, "A">>
ScopeB == <<1, "B">>
None == <<0, "">>

Port(name, width) == [name |-> name, direction |-> "INPUT", width |-> width]
Ports == [s \in {Top, ScopeA, ScopeB} |->
            IF s = Top THEN <<Port("clk", 1), Port("rst", 1), Port("d", 2)>>
            ELSE <<Port("clk", 1)>>]

Sense(scope, name, edge) == [of |-> [scope |-> scope, name |-> name], edge |-> edge]
Clk == Sense(Top, "clk", "Positive")
Rst == Sense(Top, "rst", "Negative")

Block(name, senses, kinds, scope) ==
  [name |-> name, senses |-> senses,
   statements |-> [i \in DOMAIN kinds |-> [kind |-> kinds[i], id |-> <<scope[2], i>>]]]
Plain(kinds, scope) == Block("", <<>>, kinds, scope)
Clocked(senses, scope) == Block("sequent", <<senses>>, <<"ALWAYS">>, scope)

\* What the scopes may contain.
InitialBlocks(scope) ==
  {<<Plain(<<"INITIAL", "ALWAYS", "INITIALSTATIC">>, scope)>>,
   <<Plain(<<"INITIALSTATIC", "OTHER">>, scope)>>,
   <<Block("act", <<>>, <<"OTHER">>, scope), Plain(<<"INITIALSTATIC">>, scope)>>, <<>>}
ClockedBlocks(scope) ==
  {<<Clocked(<<Clk>>, scope)>>, <<Clocked(<<Clk, Rst>>, scope)>>,
   <<Clocked(<<Sense(Top, "clk", "Negative")>>, scope)>>,
   <<Clocked(<<Sense(ScopeA, "clk", "Positive")>>, scope)>>,
   <<Clocked(<<Sense(Top, "clk", "Any")>>, scope)>>, <<Clocked(<<>>, scope)>>,
   <<Block("sequent", <<>>, <<"ALWAYS">>, scope)>>, <<Block("nba-", <<>>, <<"ALWAYS">>, scope)>>}
Contents(scope) == InitialBlocks(scope) \cup ClockedBlocks(scope)

Scope(addr, above, blocks) ==
  [addr |-> addr, above |-> above, variables |-> Ports[addr], blocks |-> blocks]

Orders == {o \in [1 .. 3 -> {Top, ScopeA, ScopeB}] : \A i, j \in 1 .. 3 : o[i] = o[j] => i = j}
Document(root, order, aboveB, blocks) ==
  [root |-> root,
   scopes |-> [i \in 1 .. 3 |->
     Scope(order[i], IF order[i] = Top THEN None ELSE IF order[i] = ScopeA THEN Top ELSE aboveB,
           blocks[order[i]])]]

Hierarchies ==
  {Document(<<Top>>, order, above, Top :> top @@ ScopeA :> a @@ ScopeB :> b) :
     order \in Orders, above \in {Top, ScopeA, ScopeB},
     top \in ClockedBlocks(Top) \cup InitialBlocks(Top), a \in Contents(ScopeA),
     b \in Contents(ScopeB)}

\* Without a TOPSCOPE one scope has all blocks, if there is one.
Legacy ==
  {[root |-> <<>>, scopes |-> <<>>]} \cup
  {[root |-> <<>>, scopes |-> <<Scope(ScopeA, None, <<>>), Scope(Top, None, top)>>] :
     top \in Contents(Top)} \cup
  {[root |-> <<>>, scopes |-> <<Scope(ScopeA, None, blocks)>>] : blocks \in Contents(ScopeA)}

MCDocuments == Hierarchies \cup Legacy

MCClocks == {<<>>, <<[name |-> <<"clk">>, edge |-> "Positive"]>>,
             <<[name |-> <<"clk">>, edge |-> "Negative"]>>,
             <<[name |-> <<"A", "clk">>, edge |-> "Positive"]>>}
MCResets == {<<>>, <<[name |-> <<"rst">>, edge |-> "Negative"]>>,
             <<[name |-> <<"rst">>, edge |-> "Positive"]>>,
             <<[name |-> <<"d">>, edge |-> "Positive"]>>,
             <<[name |-> <<"clk">>, edge |-> "Negative"]>>}

-----------------------------------------------------------------------------
(* File system and requests. *)

MCNames ==
  {"..", "home", "out", "crates", "runtime", "disk", "data", "link", "new", "sim", "tmp", "keep",
   "Cargo.toml", "src", "lib.rs", "types.rs", "input.rs", "output.rs", "state.rs"}

\* /home has the user's directory out; /home/link leads to /disk/data; the
\* runtime crate is /home/crates/runtime.
MCDirectories ==
  {<<>>, <<"home">>, <<"home", "out">>, <<"home", "crates">>, <<"home", "crates", "runtime">>,
   <<"disk">>, <<"disk", "data">>}
MCLinks == <<"home", "link">> :> <<"disk", "data">>
MCRuntimeDir == <<"home", "crates", "runtime">>

Request(accepted, output) == [accepted |-> accepted, output |-> output]
Home(path) == <<"home">> \o path

\* An existing directory, new ones at some depth, through a link, out of and
\* into one by "..", out of one that is missing, beyond the root, and a
\* request that is not accepted.
MCRequests ==
  {Request(TRUE, Home(<<"out">>)), Request(TRUE, Home(<<"new", "sim">>)),
   Request(TRUE, Home(<<"link", "sim">>)), Request(TRUE, Home(<<"link", "..", "sim">>)),
   Request(TRUE, Home(<<"crates", "..", "out">>)), Request(TRUE, Home(<<"tmp", "..", "out">>)),
   Request(TRUE, <<"home", "..", "..", "out">>),
   Request(FALSE, Home(<<"out">>))}
MCUserFiles == {Home(<<"out", "keep">>), Home(<<"out", "Cargo.toml">>), Home(<<"new">>)}
=============================================================================
