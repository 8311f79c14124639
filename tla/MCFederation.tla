---------------------------- MODULE MCFederation ----------------------------
(***************************************************************************)
(* Small instances of Federation: two partitions, of which the first one's *)
(* client starts, saves and is stopped while the rounds go on.             *)
(***************************************************************************)
EXTENDS Federation

R(area, mughlai) == [area |-> area, mughlai |-> mughlai]
TableOf(rows) == [r \in 0..(Len(rows) - 1) |-> rows[r + 1]]

\* In the order of the areas, the last but one without features; with one edge
\* only; with a first row without features; with the areas out of order, an
\* edge of one area between two of another.
InOrder == TableOf(<<R(0, TRUE), R(0, TRUE), R(1, FALSE), R(1, TRUE)>>)
OneEdge == TableOf(<<R(0, TRUE), R(1, FALSE)>>)
FirstPlain == TableOf(<<R(0, FALSE), R(1, TRUE), R(0, TRUE)>>)
OutOfOrder == TableOf(<<R(1, TRUE), R(0, TRUE), R(1, TRUE)>>)

\* Files that can be loaded, with a neighbour that is no partition, and the same
\* without the restaurants' file.
Whole == [customers |-> {0, 2}, restaurants |-> {1}, adjacency |-> {<<1, 2>>, <<1, 0>>}]
NoRestaurants == [Whole EXCEPT !.restaurants = Missing]

MCTrainer == {Whole, NoRestaurants}
CityTrainer == {Whole}

\* The tables the rounds are checked on, and those the city's table resembles.
MCTable == {InOrder, OneEdge}
CityTable == {FirstPlain, OutOfOrder}
=============================================================================
