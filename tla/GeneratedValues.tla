-------------------------- MODULE GeneratedValues --------------------------
(***************************************************************************)
(* The user of a generated model: a container is filled by the model, one  *)
(* of its values at a time is taken apart through the accessors of its     *)
(* type, changed and put back, and the container goes through its bits     *)
(* back into an environment.                                               *)
(***************************************************************************)
EXTENDS SignalContainers

CONSTANTS
  Edited,        \* bound: the designs whose containers the user changes
  MaxDepth,      \* bound: values that are open at a time
  MaxAssigns     \* bound: assignments

VARIABLES open, image, assigns,
  place          \* the element of the container that is open: <<field, element>>

A == INSTANCE TypeAccessors WITH table <- design.types, Tables <- {d.types : d \in Designs}

accessorVars == <<open, image, assigns>>
valueVars == <<vars, accessorVars, place>>

TypeAt(p) == design.variables[fields[p[1]].ids[p[2]]].dtype

\* The user starts to work on an element.
Take(p) ==
  /\ design \in Edited /\ container # <<>> /\ packed = Nothing
  /\ open = <<>> /\ assigns = 0
  /\ place' = p
  /\ image' = container[p[1]][p[2]]
  /\ open' = <<A!Opened(TypeAt(p), 0, A!Deserialize(design.types, TypeAt(p), image'))>>
  /\ UNCHANGED <<vars, assigns>>

Edit == open # <<>> /\ UNCHANGED <<vars, place>> /\ A!Next

\* env is the environment the container is meant to stand for.
PutBack ==
  /\ Len(open) = 1 /\ assigns > 0
  /\ container' = [container EXCEPT ![place[1]][place[2]] =
                     A!Serialize(design.types, open[1].type, open[1].value)]
  /\ env' = [env EXCEPT ![fields[place[1]].ids[place[2]]] = image]
  /\ open' = <<>>
  /\ UNCHANGED <<design, fieldNames, typeNames, collected, fields, packed, applied, image, assigns, place>>

ValuesInit == Init /\ open = <<>> /\ image = Nothing /\ assigns = 0 /\ place = <<0, 0>>
ValuesNext ==
  \/ open = <<>> /\ Next /\ UNCHANGED <<accessorVars, place>>
  \/ \E p \in Places : Take(p)
  \/ Edit
  \/ PutBack
ValuesSpec == ValuesInit /\ [][ValuesNext]_valueVars

-----------------------------------------------------------------------------

\* "Lossless conversion between an RTL value and its packed two-state bits ...
\* Deserialization preserves every bit pattern" (the runtime's lib.rs): with
\* everything put back, a value serializes to the RTL value, whatever was
\* taken apart, replaced and put back in between.
Lossless == open # <<>> => A!Lossless

=============================================================================
