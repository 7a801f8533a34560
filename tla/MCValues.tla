------------------------------ MODULE MCValues ------------------------------
EXTENDS GeneratedValues

CONSTANT Most        \* bound: variables of a design

MCCapital == "a" :> "A" @@ "v" :> "V" @@ "in" :> "In" @@ "signal" :> "Signal" @@ "state" :> "State"
MCKeywords == {<<"in">>}
MCReserved == {<<"State">>}

Type(name, kind, width, parts, lsb, left, right) ==
  [name |-> name, kind |-> kind, width |-> width, parts |-> parts, lsb |-> lsb,
   left |-> left, right |-> right]
Scalar(name, kind, width) == Type(name, kind, width, <<>>, <<>>, 0, 0)
Alias(width, t) == Type(<<"a">>, "Alias", width, <<t>>, <<>>, 0, 0)

(* Names: clashing, numbered and keyword names of plain signals. *)

RawNames ==
  {<<"a">>, <<"A">>, <<"a", "_", "1">>, <<"in">>, <<"in", ".", "v", "0", "]">>,
   <<"a", "_", "v", "0">>, <<"a", "_", "_", "v", "1">>, <<"a", "_", "v", "0", "0">>,
   <<"a", "_", "v", "2">>, <<"1">>}

\* Two basic types, and three others with the same words in their names.
NamedTypes ==
  <<Scalar(<<"a">>, "Basic", 1), Scalar(<<"state">>, "Basic", 2),
    Scalar(<<"A", "_", "1">>, "Enum", 2), Scalar(<<"a", "1">>, "Enum", 2), Scalar(<<"A">>, "Enum", 2)>>
NameDesigns ==
  UNION {{[variables |-> [id \in 1 .. n |-> [name |-> names[id], dtype |-> dtypes[id]]],
           types |-> NamedTypes] :
            names \in [1 .. n -> RawNames],
            dtypes \in {[id \in 1 .. n |-> IF id = odd THEN 3 ELSE 2] : odd \in {0, n}}} : n \in 1 .. Most}

(* Values: two elements of a structured type in an array, declared in the
   wrong order, with a signal of another type between them. *)

\* A record overlaid with its bits, twice: union { struct { pair; state; }; bits; } [0:1].
Overlay(left, right) ==
  <<Scalar(<<"a">>, "Basic", 1), Type(<<"a">>, "PackedArray", 2, <<1>>, <<>>, left, right),
    Scalar(<<"a">>, "Enum", 1), Type(<<"a">>, "PackedStruct", 3, <<2, 3>>, <<1, 0>>, 0, 0),
    Scalar(<<"a">>, "Basic", 3), Type(<<"a">>, "PackedUnion", 3, <<4, 5>>, <<0, 0>>, 0, 0),
    Alias(3, 6), Type(<<"a">>, "UnpackedArray", 6, <<7>>, <<>>, right, left)>>

\* Structs in a struct and in an array of their own.
Nested ==
  <<Scalar(<<"a">>, "Basic", 1), Scalar(<<"a">>, "Enum", 2),
    Type(<<"a">>, "PackedStruct", 3, <<1, 2>>, <<2, 0>>, 0, 0), Alias(3, 3),
    Type(<<"a">>, "PackedStruct", 4, <<4, 1>>, <<1, 0>>, 0, 0),
    Type(<<"a">>, "PackedArray", 6, <<4>>, <<>>, 2, 1)>>

ValueDesigns ==
  UNION {{[variables |-> <<[name |-> <<"a", "_", "v", "1">>, dtype |-> t],
                           [name |-> <<"in">>, dtype |-> other],
                           [name |-> <<"a", "_", "v", "0">>, dtype |-> t]>>,
           types |-> types] : t \in DOMAIN types, other \in {1}} :
           types \in {Overlay(1, 0), Overlay(0, 1), Nested}}

MCDesigns == NameDesigns \cup ValueDesigns
=============================================================================
