---------------------------- MODULE MCStatements ----------------------------
EXTENDS AssignmentStatements

Dimension(left, right, element) == [left |-> left, right |-> right, element |-> element]
Variable(width, dims) == [width |-> width, dims |-> dims]

\* No array, an array in either direction, and arrays of arrays that start
\* above zero.
MCVariables ==
  {Variable(3, <<>>), Variable(4, <<Dimension(2, 1, 2)>>), Variable(3, <<Dimension(1, 3, 1)>>),
   Variable(8, <<Dimension(0, 1, 4), Dimension(2, 1, 2)>>), Variable(6, <<Dimension(2, 0, 2), Dimension(0, 1, 1)>>)}

\* Every other bit; the values assigned are all there are.
MCPatterns == [w \in 0 .. 8 |-> {MapThenSumSet(LAMBDA i : 2 ^ i, {i \in 0 .. w - 1 : i % 2 = 0})}]

MCValues == Vectors(Widths)
=============================================================================
