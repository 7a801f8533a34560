------------------------- MODULE SignalContainers -------------------------
(***************************************************************************)
(* The Rust structs of a generated model that carry signals (Inputs,       *)
(* Outputs, State): how Generator::new names fields and types, how         *)
(* signal_fields groups x_v0, x_v1, ... into one array field, and how a    *)
(* value travels from an environment through a container to packed bits    *)
(* and back.                                                               *)
(* A name is a sequence of lexemes: words, single digits and separators.   *)
(***************************************************************************)
EXTENDS BitsRuntime, SequencesExt

CONSTANTS
  Designs,     \* [variables: sequence of [name, dtype], types: a table of data types
               \* as in TypeAccessors, with names]
  Capital,     \* words, as they are in a field's name, to the same word with a capital
  Keywords,    \* names that are Rust keywords
  Reserved     \* type names the generated code uses itself

NoFields == <<>>
DigitOf == "0" :> 0 @@ "1" :> 1 @@ "2" :> 2 @@ "3" :> 3 @@ "4" :> 4
IsDigit(lexeme) == lexeme \in DOMAIN DigitOf
Words == DOMAIN Capital \cup {Capital[w] : w \in DOMAIN Capital}
IsSeparator(lexeme) == ~ IsDigit(lexeme) /\ lexeme \notin Words

VARIABLES
  design,      \* the design the model is generated from
  fieldNames,  \* Generator.field_names: one name for each variable
  typeNames,   \* Generator.type_names: one name for each data type
  collected,   \* the variables a container is for, in their order: ids of signal_fields
  fields,      \* the container's fields: [name, ids, array]
  env,         \* the environment the container was filled from
  container,   \* the struct's value: for each field the values of its elements
  packed,      \* its serialized bits
  applied      \* the environment a deserialized container was applied to

vars == <<design, fieldNames, typeNames, collected, fields, env, container, packed, applied>>

-----------------------------------------------------------------------------
(* util.rs: identifiers.                                                   *)

Lowercase(lexeme) ==
  IF \E w \in DOMAIN Capital : Capital[w] = lexeme
  THEN CHOOSE w \in DOMAIN Capital : Capital[w] = lexeme ELSE lexeme

\* Runs of separators become one underscore, none at either end.
Separated(raw) ==
  LET kept == {i \in DOMAIN raw : \/ ~ IsSeparator(raw[i])
                                  \/ /\ i > 1 /\ ~ IsSeparator(raw[i - 1])
                                     /\ \E j \in i .. Len(raw) : ~ IsSeparator(raw[j])}
      at == SetToSortSeq(kept, <)
  IN  [k \in DOMAIN at |-> IF IsSeparator(raw[at[k]]) THEN "_" ELSE Lowercase(raw[at[k]])]

Named(words) == IF words = <<>> THEN <<"signal">> ELSE words
NotADigit(name) == IF IsDigit(Head(name)) THEN <<"signal", "_">> \o name ELSE name
NotAKeyword(name) == IF name \in Keywords THEN Append(name, "_") ELSE name
SnakeIdentifier(raw) == NotAKeyword(NotADigit(Named(Separated(raw))))

\* The words of the snake identifier, each with a capital, nothing between.
TypeIdentifier(raw) ==
  LET snake == SnakeIdentifier(raw)
      first(i) == i = 1 \/ snake[i - 1] = "_"
      capital == [i \in DOMAIN snake |->
                    IF first(i) /\ snake[i] \in DOMAIN Capital THEN Capital[snake[i]] ELSE snake[i]]
  IN  SelectSeq(capital, LAMBDA lexeme : lexeme # "_")

\* unique_name: a repeated name gets the number of earlier uses.
Count(name, used) == IF name \in DOMAIN used THEN used[name] ELSE 0
UniqueNameAdjoined(name, used) ==        \* mutant: no underscore before the number
  IF Count(name, used) = 0 THEN name ELSE name \o <<ToString(Count(name, used))>>
UniqueName(name, used) ==
  IF Count(name, used) = 0 THEN name ELSE name \o <<"_", ToString(Count(name, used))>>
Used(name, used) == (name :> Count(name, used) + 1) @@ used

UniqueNamesFrom(names, used) ==
  FoldLeft(LAMBDA acc, name : [names |-> Append(acc.names, UniqueName(name, acc.used)),
                               used |-> Used(name, acc.used)],
           [names |-> <<>>, used |-> used], names).names
UniqueNames(names) == UniqueNamesFrom(names, <<>>)

-----------------------------------------------------------------------------
(* lib.rs: indexed_field_name and signal_fields.                           *)

\* A name is indexed when it ends in _v and digits, with something before.
Suffix(name) ==
  {i \in 2 .. Len(name) - 2 : /\ name[i] = "_" /\ name[i + 1] = "v"
                              /\ \A j \in i + 2 .. Len(name) : IsDigit(name[j])}
Indexed(name) == Suffix(name) # {}
Base(name) == SubSeq(name, 1, Min(Suffix(name)) - 1)
Index(name) ==
  FoldLeft(LAMBDA n, digit : 10 * n + DigitOf[digit], 0,
           SubSeq(name, Min(Suffix(name)) + 2, Len(name)))

\* value_type: a basic type is its bits, any other type its generated name.
ValueType(types, dtype, named) ==
  IF types[dtype].kind = "Basic" THEN [bits |-> types[dtype].width, name |-> <<>>]
                        ELSE [bits |-> 0, name |-> named[dtype]]
TypeOf(id) == ValueType(design.types, design.variables[id].dtype, typeNames)
Width(id) == design.types[design.variables[id].dtype].width

Candidates(ids, base) ==
  {id \in ToSet(ids) : Indexed(fieldNames[id]) /\ Base(fieldNames[id]) = base}
IndicesFromZero(elements) ==                           \* mutant: gaps are allowed
  0 \in {Index(fieldNames[id]) : id \in elements}
IndicesDense(elements) == {Index(fieldNames[id]) : id \in elements} = 0 .. Cardinality(elements) - 1

\* A group is an array when its indices are 0, 1, ... without a gap or a
\* repetition, its elements have one type, and its base is not taken.
IsArray(ids, base) ==
  LET elements == Candidates(ids, base) IN
  /\ elements # {}
  /\ base \notin {fieldNames[id] : id \in ToSet(ids)}
  /\ \A a, b \in elements : a # b => Index(fieldNames[a]) # Index(fieldNames[b])
  /\ IndicesDense(elements)
  /\ \A a, b \in elements : TypeOf(a) = TypeOf(b)

ByIndex(elements) ==
  SetToSortSeq(elements, LAMBDA a, b : Index(fieldNames[a]) < Index(fieldNames[b]))

FieldsOfLosing(ids, id) ==                             \* mutant: an element is skipped
  LET name == fieldNames[id] IN                        \* also when there is no array
  IF Indexed(name) /\ Index(name) # 0 THEN <<>>
  ELSE IF Indexed(name) /\ IsArray(ids, Base(name))
  THEN <<[name |-> Base(name), ids |-> ByIndex(Candidates(ids, Base(name))), array |-> TRUE]>>
  ELSE <<[name |-> name, ids |-> <<id>>, array |-> FALSE]>>
FieldsOf(ids, id) ==
  LET name == fieldNames[id] IN
  IF Indexed(name) /\ IsArray(ids, Base(name))
  THEN IF Index(name) # 0 THEN <<>>
       ELSE <<[name |-> Base(name), ids |-> ByIndex(Candidates(ids, Base(name))), array |-> TRUE]>>
  ELSE <<[name |-> name, ids |-> <<id>>, array |-> FALSE]>>

SignalFields(ids) ==
  LET grouped == FlattenSeq([k \in DOMAIN ids |-> FieldsOf(ids, ids[k])])
      names == UniqueNames([k \in DOMAIN grouped |-> SnakeIdentifier(grouped[k].name)])
  IN  [k \in DOMAIN grouped |-> [grouped[k] EXCEPT !.name = names[k]]]

-----------------------------------------------------------------------------
(* emit_signal_serialization: offsets run through the elements of every    *)
(* field, in the order of the fields.                                      *)

FieldWidth(field) == MapThenSumSet(Width, ToSet(field.ids))
OffsetWithinField(k, e) ==                             \* mutant: elements share an offset
  MapThenSumSet(LAMBDA j : FieldWidth(fields[j]), 1 .. k - 1)
Offset(k, e) ==
  MapThenSumSet(LAMBDA j : FieldWidth(fields[j]), 1 .. k - 1)
    + MapThenSumSet(LAMBDA j : Width(fields[k].ids[j]), 1 .. e - 1)
PackedWidth == MapThenSumSet(LAMBDA k : FieldWidth(fields[k]), DOMAIN fields)
Places == UNION {{<<k, e>> : e \in DOMAIN fields[k].ids} : k \in DOMAIN fields}
PlacesInOrder == SetToSortSeq(Places, LAMBDA p, q : p[1] < q[1] \/ (p[1] = q[1] /\ p[2] < q[2]))

Serialize(value) ==
  FoldLeft(LAMBDA bits, p :
             AssignSelect(bits, Offset(p[1], p[2]), Width(fields[p[1]].ids[p[2]]), value[p[1]][p[2]]),
           Zero(PackedWidth), PlacesInOrder)
Deserialize(bits) ==
  [k \in DOMAIN fields |->
     [e \in DOMAIN fields[k].ids |-> Select(bits, Offset(k, e), Width(fields[k].ids[e]))]]

\* make_state and make_evaluation read, apply_inputs writes, the variables
\* in the order of the fields' ids.
Filled(values) == [k \in DOMAIN fields |-> [e \in DOMAIN fields[k].ids |-> values[fields[k].ids[e]]]]
ApplyInputsAsDeclared(values, value) ==                \* mutant: elements in declaration order
  FoldLeft(LAMBDA acc, p :
             [acc EXCEPT ![SetToSortSeq(ToSet(fields[p[1]].ids), <)[p[2]]] = value[p[1]][p[2]]],
           values, PlacesInOrder)
ApplyInputs(values, value) ==
  FoldLeft(LAMBDA acc, p : [acc EXCEPT ![fields[p[1]].ids[p[2]]] = value[p[1]][p[2]]],
           values, PlacesInOrder)

-----------------------------------------------------------------------------

Blank == [id \in DOMAIN design.variables |-> Zero(Width(id))]
Nothing == [width |-> 0, bits |-> 0]

Init ==
  /\ design \in Designs
  /\ fieldNames = <<>> /\ typeNames = <<>>
  /\ collected = <<>> /\ fields = NoFields
  /\ env = <<>> /\ container = <<>> /\ packed = Nothing /\ applied = <<>>

\* Generator::new.
New ==
  /\ fieldNames = <<>>
  /\ fieldNames' = UniqueNames([id \in DOMAIN design.variables |->
                                  SnakeIdentifier(design.variables[id].name)])
  /\ typeNames' = UniqueNamesFrom([t \in DOMAIN design.types |->
                                     TypeIdentifier(design.types[t].name)],
                                  [name \in Reserved |-> 1])
  /\ UNCHANGED <<design, collected, fields, env, container, packed, applied>>

\* input_ids, output_ids or state_ids: some of the variables, in their order.
Collect(chosen) ==
  /\ fieldNames # <<>> /\ fields = NoFields /\ chosen # {}
  /\ collected' = SetToSortSeq(chosen, <)
  /\ fields' = SignalFields(collected')
  /\ UNCHANGED <<design, fieldNames, typeNames, env, container, packed, applied>>

\* make_state, make_evaluation.
Fill(values) ==
  /\ fields # NoFields /\ env = <<>>
  /\ env' = values /\ container' = Filled(values)
  /\ UNCHANGED <<design, fieldNames, typeNames, collected, fields, packed, applied>>

Pack ==
  /\ env # <<>> /\ packed = Nothing
  /\ packed' = Serialize(container)
  /\ UNCHANGED <<design, fieldNames, typeNames, collected, fields, env, container, applied>>

\* The container read back from its bits is the next call's inputs.
Apply ==
  /\ packed # Nothing /\ applied = <<>>
  /\ applied' = ApplyInputs(Blank, Deserialize(packed))
  /\ UNCHANGED <<design, fieldNames, typeNames, collected, fields, env, container, packed>>

\* Every variable all ones, one variable all ones, or alternating values.
Samples ==
  {[id \in DOMAIN design.variables |->
      FromFn(Width(id), {i \in 0 .. Width(id) - 1 : (i + id) % 2 = parity})] : parity \in {0, 1}}
    \cup {[id \in DOMAIN design.variables |->
             FromFn(Width(id), IF id = one THEN 0 .. Width(id) - 1 ELSE {})] :
            one \in DOMAIN design.variables}

Next ==
  \/ New \/ Pack \/ Apply
  \/ \E chosen \in SUBSET DOMAIN design.variables : Collect(chosen)
  \/ \E values \in Samples : Fill(values)

Spec == Init /\ [][Next]_vars

-----------------------------------------------------------------------------

\* No two data types get one Rust type, nor a name the generated code uses:
\* a type identifier has no underscore, so a numbered one is free.
TypeNamesDistinct ==
  /\ IsInjective(typeNames)
  /\ ToSet(typeNames) \cap Reserved = {}

SignalAt(p) == fields[p[1]].ids[p[2]]
Family(id) == {other \in ToSet(collected) : /\ Indexed(fieldNames[other])
                                            /\ Base(fieldNames[other]) = Base(fieldNames[id])}

\* Of the collected signals none is lost, doubled or joined by another one,
\* whether its family becomes an array or falls back to single fields
\* (signal_fields); an array holds its whole family, element k is the signal
\* that the design numbers k, and all elements are of one type.
SignalsGrouped ==
  /\ \A id \in DOMAIN design.variables :
       Cardinality({p \in Places : SignalAt(p) = id}) = IF id \in ToSet(collected) THEN 1 ELSE 0
  /\ \A p \in Places : fields[p[1]].array =>
       /\ Family(SignalAt(p)) = ToSet(fields[p[1]].ids)
       /\ Index(fieldNames[SignalAt(p)]) = p[2] - 1
       /\ TypeOf(SignalAt(p)) = TypeOf(fields[p[1]].ids[1])

\* "Signal containers place their first declared field at bit zero, then
\* subsequent fields above it; grouped arrays place element zero first"
\* (the runtime's lib.rs): the bits are those values end to end.
LayoutAsDocumented ==
  packed # Nothing =>
    packed.bits =
      FoldRight(LAMBDA p, above : env[fields[p[1]].ids[p[2]]].bits
                                    + 2 ^ Width(fields[p[1]].ids[p[2]]) * above,
                PlacesInOrder, 0)

\* The value of every collected signal survives the container, its bits and
\* the way back, and no other variable is touched (make_state and apply_inputs).
ValuesSurvive ==
  applied # <<>> =>
    \A id \in DOMAIN applied :
      applied[id] = IF id \in ToSet(collected) THEN env[id] ELSE Blank[id]

=============================================================================
