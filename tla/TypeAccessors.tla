--------------------------- MODULE TypeAccessors ---------------------------
(***************************************************************************)
(* emit_data_types: the Rust types of a design's data types and the        *)
(* accessors of their values.  A struct's value has a field per member;    *)
(* enums, arrays and unions wrap the packed bits.  The user of a model     *)
(* takes a value apart to any depth (open), replaces a part (assign), and  *)
(* puts the parts back (close); image is what the RTL value would be.      *)
(*                                                                         *)
(* A type is [kind, width, parts, lsb, left, right]: a member's or an      *)
(* element's type comes before it, as the resolver numbers them.           *)
(***************************************************************************)
EXTENDS BitsRuntime, SequencesExt

CONSTANTS
  Tables,        \* the tables of data types
  MaxDepth,      \* bound: values that are open at a time
  MaxAssigns     \* bound: assignments

VARIABLES
  table,         \* Design.data_types
  open,          \* the values taken apart, outermost first: [type, key, value]
  image,         \* the bits the outermost value should have
  assigns        \* how many parts were replaced

vars == <<table, open, image, assigns>>

Arrays == {"PackedArray", "UnpackedArray"}

\* pub type Alias = Target.
Target(types, type) ==
  LET target[t \in DOMAIN types] ==
        IF types[t].kind = "Alias" THEN target[types[t].parts[1]] ELSE t
  IN  target[type]

Keys(type) ==
  CASE type.kind \in {"PackedStruct", "PackedUnion"} -> DOMAIN type.parts
    [] type.kind \in Arrays ->
         {i \in 0 .. Max({type.left, type.right}) : InRange(i, type.left, type.right)}
    [] OTHER -> {}
Length(type) == Cardinality(Keys(type))

\* Where a part lies in the bits of its type, and which type it has.
PartOf(type, key) == IF type.kind \in Arrays THEN type.parts[1] ELSE type.parts[key]
PartWidth(types, type, key) ==
  IF type.kind \in Arrays THEN type.width \div Length(type) ELSE types[PartOf(type, key)].width
PartOffset(type, key) ==
  IF type.kind \in Arrays
  THEN ArrayOffset(key, type.left, type.right, type.width \div Length(type))
  ELSE type.lsb[key]

-----------------------------------------------------------------------------
(* BitSerialize for the generated types, and the accessors.                *)

RECURSIVE Deserialize(_, _, _)
Deserialize(types, t, vector) ==
  CASE types[t].kind = "Alias" -> Deserialize(types, types[t].parts[1], vector)
    [] types[t].kind = "PackedStruct" ->
         [i \in Keys(types[t]) |->
            Deserialize(types, types[t].parts[i],
                        Select(vector, types[t].lsb[i], PartWidth(types, types[t], i)))]
    [] OTHER -> vector

RECURSIVE Serialize(_, _, _)
Serialize(types, t, value) ==
  CASE types[t].kind = "Alias" -> Serialize(types, types[t].parts[1], value)
    [] types[t].kind = "PackedStruct" ->
         FoldLeft(LAMBDA bits, i :
                    AssignSelect(bits, types[t].lsb[i], PartWidth(types, types[t], i),
                                 Serialize(types, types[t].parts[i], value[i])),
                  Zero(types[t].width), [i \in DOMAIN types[t].parts |-> i])
    [] OTHER -> value

\* A struct's field, or what get and the members of a union return.
Get(types, t, value, key) ==
  IF types[t].kind = "PackedStruct" THEN value[key]
  ELSE Deserialize(types, PartOf(types[t], key),
                   Select(value, PartOffset(types[t], key), PartWidth(types, types[t], key)))

SetWhole(types, t, value, key, part) ==       \* mutant: other members are lost
  IF types[t].kind = "PackedStruct" THEN [value EXCEPT ![key] = part]
  ELSE AssignSelect(Zero(types[t].width), PartOffset(types[t], key), PartWidth(types, types[t], key),
                    Serialize(types, PartOf(types[t], key), part))
Set(types, t, value, key, part) ==
  IF types[t].kind = "PackedStruct" THEN [value EXCEPT ![key] = part]
  ELSE AssignSelect(value, PartOffset(types[t], key), PartWidth(types, types[t], key),
                    Serialize(types, PartOf(types[t], key), part))

-----------------------------------------------------------------------------
(* The user of the types.                                                  *)

Top == Last(open)
TopType == table[Target(table, Top.type)]
Opened(t, key, value) == [type |-> t, key |-> key, value |-> value]

\* A value of any type starts as any pattern of bits.
Init ==
  /\ table \in Tables
  /\ assigns = 0
  /\ \E t \in DOMAIN table : \E n \in 0 .. 2 ^ table[t].width - 1 :
       /\ image = Vector(table[t].width, n)
       /\ open = <<Opened(t, 0, Deserialize(table, t, Vector(table[t].width, n)))>>

Open(key) ==
  /\ Len(open) < MaxDepth
  /\ open' = Append(open, Opened(PartOf(TopType, key), key,
                                 Get(table, Target(table, Top.type), Top.value, key)))
  /\ UNCHANGED <<table, image, assigns>>

\* What a value's parent makes of the part that was taken out of it.
Close ==
  LET parent == open[Len(open) - 1]
      closed == Set(table, Target(table, parent.type), parent.value, Top.key, Top.value)
  IN
  /\ Len(open) > 1
  /\ open' = Append(Front(Front(open)), [parent EXCEPT !.value = closed])
  /\ UNCHANGED <<table, image, assigns>>

\* The offset of the value on top from bit zero of the outermost one.
OffsetOfTop ==
  MapThenSumSet(LAMBDA d : PartOffset(table[Target(table, open[d - 1].type)], open[d].key),
                2 .. Len(open))

\* A part that is no struct is replaced as a whole.
Assign(n) ==
  /\ assigns < MaxAssigns
  /\ TopType.kind # "PackedStruct" /\ n < 2 ^ TopType.width
  /\ open' = [open EXCEPT ![Len(open)].value = Vector(TopType.width, n)]
  /\ image' = AssignSelect(image, OffsetOfTop, TopType.width, Vector(TopType.width, n))
  /\ assigns' = assigns + 1
  /\ UNCHANGED table

Next ==
  \/ \E key \in Keys(TopType) : Open(key)
  \/ Close
  \/ \E n \in 0 .. 2 ^ TopType.width - 1 : Assign(n)

Spec == Init /\ [][Next]_vars

-----------------------------------------------------------------------------

\* "Lossless conversion between an RTL value and its packed two-state bits ...
\* Deserialization preserves every bit pattern" (the runtime's lib.rs): with
\* everything put back, a value serializes to the RTL value, whatever was
\* taken apart, replaced and put back in between.
Lossless == Len(open) = 1 => Serialize(table, open[1].type, open[1].value) = image

=============================================================================
