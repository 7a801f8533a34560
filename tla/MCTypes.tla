------------------------------ MODULE MCTypes ------------------------------
EXTENDS DataTypeResolver

Node(kind, links, members, length, ok) ==
  [kind |-> kind, links |-> links, members |-> members, length |-> length, ok |-> ok]

\* Address 4 has no node.
Addresses == 1 .. 3
Somewhere == 0 .. 4

Leaves == {Node("Basic", <<0, 0, 0>>, <<>>, n, TRUE) : n \in {1, 3}}
          \cup {Node("Unsupported", <<0, 0, 0>>, <<>>, 0, TRUE)}
Links(a) == {<<t, 0, 0>> : t \in Somewhere} \cup {<<a, t, 0>> : t \in Addresses}
            \cup {<<a, a, t>> : t \in Addresses \ {a}}
Aliases(a) == {Node("Alias", l, <<>>, 0, TRUE) : l \in Links(a)}
Arrays == {Node(k, <<t, 0, 0>>, <<>>, 3, ok) :
             k \in {"PackedArray", "UnpackedArray"}, t \in Addresses, ok \in BOOLEAN}
Members == {<<>>} \cup {<<t>> : t \in Addresses} \cup {<<s, t>> : s, t \in Addresses}
Structs == {Node(k, <<0, 0, 0>>, m, 0, TRUE) : k \in {"PackedStruct", "PackedUnion"}, m \in Members}
Others(a) == Leaves \cup {Node("Alias", <<t, 0, 0>>, <<>>, 0, TRUE) : t \in Addresses}
             \cup {Node("PackedStruct", <<0, 0, 0>>, <<s, t>>, 0, TRUE) : s, t \in 1 .. 2}

Nodes(a) == Leaves \cup Aliases(a) \cup Arrays \cup Structs
MCDocuments == {<<x, y, z>> : x \in Nodes(1), y \in Nodes(2), z \in Others(3)}
=============================================================================
