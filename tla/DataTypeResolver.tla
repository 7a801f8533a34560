-------------------------- MODULE DataTypeResolver --------------------------
(***************************************************************************)
(* parser/dtype.rs: data types refer to each other by address, in any      *)
(* order.  The resolver follows them depth first, numbers each type when   *)
(* the types it is made of have numbers, and gives an error for a cycle.   *)
(* The parser first tries every declaration and forgets the errors, then   *)
(* asks for the types it needs and stops at the first error.               *)
(*                                                                         *)
(* A node is [kind, links, members, length, ok]: links are refDTypep,      *)
(* dtypep and the child's address, members those of a struct or union,     *)
(* length that of its range; ok says that its attributes are supported.    *)
(***************************************************************************)
EXTENDS Integers, SequencesExt, FiniteSetsExt

CONSTANTS
  Documents,      \* the documents, each a function from addresses to nodes
  Wanted,         \* the addresses the parser may ask for
  UsizeMax        \* the largest usize

NoAddress == 0
IsizeMax == UsizeMax \div 2

Kinds == {"Basic", "Alias", "Enum", "PackedArray", "UnpackedArray", "PackedStruct",
          "PackedUnion", "Unsupported"}

ASSUME NodesTyped ==
  \A nodes \in Documents : \A a \in DOMAIN nodes :
    nodes[a] \in [kind : Kinds, links : Seq(Nat), members : Seq(Nat), length : Nat, ok : BOOLEAN]
ASSUME AddressesPositive ==
  /\ Wanted \subseteq Nat \ {NoAddress}
  /\ \A nodes \in Documents : DOMAIN nodes \subseteq Nat \ {NoAddress}
ASSUME UsizeMaxPositive == UsizeMax \in Nat \ {0}

VARIABLES
  nodes,          \* nodes_by_addr
  ids,            \* the numbers given to addresses
  dataTypes,      \* the types, by number: [kind, width, parts, lsb]
  resolving,      \* the addresses being resolved
  frames,         \* the calls of resolve_node: [address, parts] each
  asked,          \* the address resolve is called with, or NoAddress
  answer,         \* what the last call returned: [state, id]
  todo,           \* the declarations still to be tried
  request,        \* the type the parser asked for last, or NoAddress
  required        \* an error for it ends the parse

resolverVars == <<nodes, ids, dataTypes, resolving, frames, asked, answer, todo,
                  request, required>>

Pending == [state |-> "pending", id |-> 0]
Err == [state |-> "error", id |-> 0]
Ok(id) == [state |-> "ok", id |-> id]

-----------------------------------------------------------------------------
\* A link to the node itself or to UNLINKED leads nowhere; the child is last.
DTypeTarget(document, a) ==
  LET links  == document[a].links
      usable == SelectSeq(<<links[1], links[2]>>, LAMBDA t : t \notin {a, NoAddress})
  IN  IF usable = <<>> THEN links[3] ELSE Head(usable)

Children(document, a) ==
  CASE document[a].kind \in {"Alias", "Enum", "PackedArray", "UnpackedArray"} ->
         <<DTypeTarget(document, a)>>
    [] document[a].kind \in {"PackedStruct", "PackedUnion"} -> document[a].members
    [] OTHER -> <<>>

SumOf(widths) == FoldLeft(LAMBDA x, y : x + y, 0, widths)

\* The width of a type from those of its parts.
LayoutWidth(node, widths) ==
  CASE node.kind = "Basic" -> node.length
    [] node.kind \in {"Alias", "Enum"} -> widths[1]
    [] node.kind \in {"PackedArray", "UnpackedArray"} -> widths[1] * node.length
    [] node.kind = "PackedStruct" -> SumOf(widths)
    [] node.kind = "PackedUnion" -> IF widths = <<>> THEN 0 ELSE widths[1]

\* flat_indices: the largest index of these types is an isize.
WidthLimit(node) ==
  IF node.kind \in {"Basic", "Alias", "Enum"} THEN UsizeMax ELSE IsizeMax + 1

\* Which refusals precede the next part: attributes of structs and unions,
\* a part without an address, members of unequal width, a sum that overflows.
RefusesPart(document, a, widths) ==
  LET node == document[a]
      children == Children(document, a)
  IN
  \/ node.kind = "Unsupported"
  \/ node.kind \in {"Basic", "PackedStruct", "PackedUnion"} /\ ~ node.ok
  \/ Len(widths) < Len(children) /\ children[Len(widths) + 1] = NoAddress
  \/ node.kind = "PackedUnion" /\ \E i \in DOMAIN widths : widths[i] # widths[1]
  \/ node.kind = "PackedStruct" /\ SumOf(widths) > UsizeMax

\* And those that come with all parts known.
RefusesWhole(document, a, widths) ==
  LET node == document[a] IN
  \/ ~ node.ok
  \/ LayoutWidth(node, widths) = 0
  \/ LayoutWidth(node, widths) > WidthLimit(node)

MemberOffsetsDeclared(widths) ==            \* mutant: first member lowest
  [i \in DOMAIN widths |-> SumOf(SubSeq(widths, 1, i - 1))]
\* The last member of a struct is the lowest; a union's are all at 0.
MemberOffsets(widths) ==
  [i \in DOMAIN widths |-> SumOf(SubSeq(widths, i + 1, Len(widths)))]

DataType(document, a, parts, widths) ==
  [kind  |-> document[a].kind,
   width |-> LayoutWidth(document[a], widths),
   parts |-> parts,
   lsb   |-> CASE document[a].kind = "PackedStruct" -> MemberOffsets(widths)
               [] document[a].kind = "PackedUnion" -> [i \in DOMAIN widths |-> 0]
               [] OTHER -> <<>>]

-----------------------------------------------------------------------------
(* resolve and resolve_node                                                *)

Top == Last(frames)
WidthsOfNewest(parts) ==                    \* mutant: takes the type resolved last
  [i \in DOMAIN parts |-> Last(dataTypes).width]
WidthsOf(parts) == [i \in DOMAIN parts |-> dataTypes[parts[i]].width]

Return(result) == answer' = result /\ asked' = NoAddress

ResolveKnown ==
  /\ asked \in DOMAIN ids
  /\ Return(Ok(ids[asked]))
  /\ UNCHANGED <<ids, dataTypes, resolving, frames>>

IsActiveOfCaller(a) == resolving # <<>> /\ Last(resolving) = a    \* mutant: checks the caller only
IsActive(a) == a \in ToSet(resolving)

ResolveCycle ==
  /\ asked # NoAddress /\ asked \notin DOMAIN ids
  /\ IsActive(asked)
  /\ Return(Err)
  /\ UNCHANGED <<ids, dataTypes, resolving, frames>>

ResolveMissing ==
  /\ asked # NoAddress /\ asked \notin DOMAIN ids /\ ~ IsActive(asked)
  /\ asked \notin DOMAIN nodes
  /\ Return(Err)
  /\ UNCHANGED <<ids, dataTypes, resolving, frames>>

ResolveEnter ==
  /\ asked # NoAddress /\ asked \notin DOMAIN ids /\ ~ IsActive(asked)
  /\ asked \in DOMAIN nodes
  /\ resolving' = Append(resolving, asked)
  /\ frames' = Append(frames, [address |-> asked, parts |-> <<>>])
  /\ Return(Pending)
  /\ UNCHANGED <<ids, dataTypes>>

Inside == asked = NoAddress /\ frames # <<>>

\* The next part of the node on top, or its number once it was resolved.
Descend ==
  LET children == Children(nodes, Top.address) IN
  /\ Inside /\ answer.state = "pending"
  /\ ~ RefusesPart(nodes, Top.address, WidthsOf(Top.parts))
  /\ Len(Top.parts) < Len(children)
  /\ asked' = children[Len(Top.parts) + 1]
  /\ UNCHANGED <<ids, dataTypes, resolving, frames, answer>>

Receive ==
  /\ Inside /\ answer.state = "ok"
  /\ frames' = [frames EXCEPT ![Len(frames)].parts = Append(@, answer.id)]
  /\ answer' = Pending
  /\ UNCHANGED <<ids, dataTypes, resolving, asked>>

Complete ==
  /\ Inside /\ answer.state = "pending"
  /\ ~ RefusesPart(nodes, Top.address, WidthsOf(Top.parts))
  /\ Len(Top.parts) = Len(Children(nodes, Top.address))

Fail ==
  /\ Inside
  /\ \/ answer.state = "error"
     \/ answer.state = "pending" /\ RefusesPart(nodes, Top.address, WidthsOf(Top.parts))
     \/ Complete /\ RefusesWhole(nodes, Top.address, WidthsOf(Top.parts))
  /\ frames' = Front(frames)
  /\ resolving' = Front(resolving)
  /\ Return(Err)
  /\ UNCHANGED <<ids, dataTypes>>

NextIdAfterPush == Len(dataTypes) + 2        \* mutant: counted after the push
NextId == Len(dataTypes) + 1

Finish ==
  /\ Complete /\ ~ RefusesWhole(nodes, Top.address, WidthsOf(Top.parts))
  /\ dataTypes' = Append(dataTypes, DataType(nodes, Top.address, Top.parts, WidthsOf(Top.parts)))
  /\ ids' = [a \in DOMAIN ids \cup {Top.address} |->
               IF a = Top.address THEN NextId ELSE ids[a]]
  /\ frames' = Front(frames)
  /\ resolving' = Front(resolving)
  /\ Return(Ok(NextId))

Resolve ==
  /\ \/ ResolveKnown \/ ResolveCycle \/ ResolveMissing \/ ResolveEnter
     \/ Descend \/ Receive \/ Fail \/ Finish
  /\ UNCHANGED <<nodes, todo, request, required>>

-----------------------------------------------------------------------------
(* The parser's calls.                                                     *)

Idle == asked = NoAddress /\ frames = <<>>

Ask(a) ==
  /\ asked' = a /\ request' = a
  /\ answer' = Pending
  /\ UNCHANGED <<nodes, ids, dataTypes, resolving, frames>>

Declarations(document) ==
  SetToSortSeq({a \in DOMAIN document : document[a].kind # "Unsupported"}, <)

\* resolve_supported_declarations: errors are dropped.
TryDeclaration ==
  /\ Idle /\ todo # <<>>
  /\ Ask(Head(todo)) /\ required' = FALSE
  /\ todo' = Tail(todo)

\* A type a variable or an expression needs: the first error ends the parse.
RequestType(a) ==
  /\ Idle /\ todo = <<>>
  /\ ~ (required /\ answer = Err)
  /\ Ask(a) /\ required' = TRUE
  /\ UNCHANGED todo

Init ==
  /\ nodes \in Documents
  /\ ids = <<>> /\ dataTypes = <<>> /\ resolving = <<>> /\ frames = <<>>
  /\ asked = NoAddress /\ answer = Pending
  /\ todo = Declarations(nodes)
  /\ request = NoAddress /\ required = FALSE

Next == Resolve \/ TryDeclaration \/ \E a \in Wanted : RequestType(a)
Spec == Init /\ [][Next]_resolverVars

-----------------------------------------------------------------------------
TypeOK ==
  /\ dataTypes \in Seq({dataTypes[i] : i \in DOMAIN dataTypes})
  /\ frames \in Seq([address : DOMAIN nodes, parts : Seq(Nat)])
  /\ answer \in [state : {"pending", "error", "ok"}, id : Nat]

(* The calls of resolve_node on the stack are of different nodes, those in *)
(* resolving, none of them numbered yet; all numbers handed out are in use.*)
CallsConsistent ==
  /\ resolving = [i \in DOMAIN frames |-> frames[i].address]
  /\ IsInjective(resolving)
  /\ \A i \in DOMAIN frames :
       /\ frames[i].address \notin DOMAIN ids
       /\ ToSet(frames[i].parts) \subseteq DOMAIN dataTypes
  /\ answer.state = "ok" => answer.id \in DOMAIN dataTypes

(* What the types of a document are, whoever asks for them and in which    *)
(* order: after as many rounds as there are addresses every address whose  *)
(* parts can be laid out has its width, and the others have 0.             *)
Meaning(document) ==
  LET known(w, t) == IF t \in DOMAIN w THEN w[t] ELSE 0
      width(w, a) ==
        LET parts == [i \in DOMAIN Children(document, a) |-> known(w, Children(document, a)[i])]
        IN  IF \/ 0 \in ToSet(parts)
               \/ RefusesPart(document, a, parts)
               \/ RefusesWhole(document, a, parts)
            THEN 0 ELSE LayoutWidth(document[a], parts)
      round[k \in 0 .. Cardinality(DOMAIN document)] ==
        IF k = 0 THEN [a \in DOMAIN document |-> 0]
        ELSE [a \in DOMAIN document |-> width(round[k - 1], a)]
  IN  round[Cardinality(DOMAIN document)]

(* resolve gives a type exactly when the address means one, and with that  *)
(* width: neither what was asked before nor the errors that were dropped   *)
(* while trying the declarations have any influence.                       *)
AnswersAreMeaning ==
  Idle /\ request # NoAddress =>
    IF request \in DOMAIN nodes /\ Meaning(nodes)[request] > 0
      THEN /\ answer.state = "ok"
           /\ request \in DOMAIN ids /\ ids[request] = answer.id
           /\ answer.id \in DOMAIN dataTypes
           /\ dataTypes[answer.id].width = Meaning(nodes)[request]
      ELSE answer = Err

(* The type table has no cycle: a type comes after its parts, and each     *)
(* number belongs to one address.  What walks the table relies on it to    *)
(* come to an end.                                                         *)
PartsComeFirst ==
  /\ \A i \in DOMAIN dataTypes : \A j \in ToSet(dataTypes[i].parts) : j \in 1 .. i - 1
  /\ IsInjective(ids) /\ {ids[a] : a \in DOMAIN ids} = DOMAIN dataTypes

(* resolve calls itself at most once per node: no chain of types, cyclic   *)
(* or not, makes it recurse without end.                                   *)
RecursionBounded == Len(frames) <= Cardinality(DOMAIN nodes)

(* Each bit of a packed struct belongs to exactly one member, and earlier  *)
(* members lie above later ones.                                           *)
MembersTile ==
  \A n \in DOMAIN dataTypes : dataTypes[n].kind = "PackedStruct" =>
    LET type   == dataTypes[n]
        bits(i) == type.lsb[i] .. type.lsb[i] + dataTypes[type.parts[i]].width - 1
    IN  /\ UNION {bits(i) : i \in DOMAIN type.parts} = 0 .. type.width - 1
        /\ \A i, j \in DOMAIN type.parts : i < j => Min(bits(i)) > Max(bits(j))

=============================================================================
