------------------------------ MODULE SWGDataset ------------------------------
(***************************************************************************)
(* The graphs the restaurants are trained on: the city-wide graph made of  *)
(* the restaurant table (ml/swg_create.py, ml/swg_db.py) and the local     *)
(* graph one restaurant cuts out of it (ml/swg_db_local.py).               *)
(*                                                                         *)
(* Nodes are numbered from 0, as in the code; sequences, which TLA+        *)
(* numbers from 1, are only indexed here.  A table gives every restaurant  *)
(* the number of its area, in the order of the area names, and says        *)
(* whether "mughlai" is among its food types; its address, which becomes   *)
(* the attribute of an edge, is represented by the restaurant itself.      *)
(***************************************************************************)
EXTENDS Ordering

Image(s) == {s[i] : i \in DOMAIN s}

\* The rows of a table that get features: only mughlai has an embedding, all
\* other restaurants have a row of zeros.
Featured(table, r) == table[r].mughlai

FeaturedRows(table) == Ascending({r \in DOMAIN table : Featured(table, r)})

\* The files of the dataset: the attribute of a restaurant's edge is its
\* address, for the rows with features, in the order of the table; the
\* attributes of the edges back are a copy.
CreateFeatures(table) ==
  [edge_attrs_1 |-> FeaturedRows(table), edge_attrs_3 |-> FeaturedRows(table)]

\* The blocks of the adjacency matrix that are not zero: restaurant to area,
\* for the restaurants with features, and its transpose.
CreateAdjacency(table) ==
  LET restaurants == {r \in DOMAIN table : Featured(table, r)}
  IN  [r_to_a |-> {<<r, table[r].area>> : r \in restaurants},
       a_to_r |-> {<<table[r].area, r>> : r \in restaurants}]

\* coo_matrix lists the entries of a block row by row.
Before(e, f) == e[1] < f[1] \/ (e[1] = f[1] /\ e[2] < f[2])
RowMajor(entries) ==
  Listed(entries, {p \in entries \X entries : Before(p[1], p[2])})

\* SWGDataset.process: edges from the blocks, attributes from the files, one
\* beside the other.
Process(table) ==
  LET adj == CreateAdjacency(table)
      files == CreateFeatures(table)
  IN  [r_to_a |-> RowMajor(adj.r_to_a), r_to_a_attr |-> files.edge_attrs_1,
       a_to_r |-> RowMajor(adj.a_to_r), a_to_r_attr |-> files.edge_attrs_3]

-----------------------------------------------------------------------------
(* SWGDatasetLocal.process for partition p.                                *)

\* restaurants[p_id] and areas[p_id] are those of an edge, the p-th.
HasPartition(data, p) == p < Len(data.r_to_a)
PartitionArea(data, p) == data.r_to_a[p + 1][2]

\* Variant: the partition's number is taken for its area's.
LocalIndicesOfNumber(data, p) ==
  Ascending({i \in DOMAIN data.r_to_a : data.r_to_a[i][2] = p})
\* The positions of the edges of that restaurant's area, counted in r_to_a,
\* pick the edges of both directions.
LocalIndices(data, p) ==
  Ascending({i \in DOMAIN data.r_to_a : data.r_to_a[i][2] = PartitionArea(data, p)})

\* The local graph: the picked edges, one more from restaurant p to area p
\* that gets no attribute, an edge between restaurant p and every customer
\* with features, and one between the neighbour and the customer its row of
\* the adjacency matrix names first.
LocalGraph(data, p, customers, neighbor, first) ==
  LET at == LocalIndices(data, p)
  IN  [r_to_a |-> Append(Pick(data.r_to_a, at), <<p, p>>),
       r_to_a_attr |-> Pick(data.r_to_a_attr, at),
       a_to_r |-> Pick(data.a_to_r, at),
       a_to_r_attr |-> Pick(data.a_to_r_attr, at),
       r_to_c |-> {<<p, c>> : c \in customers} \cup {<<neighbor, first>>},
       c_to_r |-> {<<c, p>> : c \in customers} \cup {<<first, neighbor>>}]

-----------------------------------------------------------------------------
(* What the local graph is for.                                            *)

\* The restaurants of p's area the city-wide graph has edges for.
Neighborhood(table, p) ==
  {q \in DOMAIN table : Featured(table, q) /\ table[q].area = table[p].area}

\* Restaurant p and its neighbourhood, in both directions.
IsNeighborhood(table, p, graph) ==
  /\ {e[1] : e \in Image(graph.r_to_a)} = Neighborhood(table, p) \cup {p}
  /\ {e[2] : e \in Image(graph.a_to_r)} = Neighborhood(table, p)

\* The attribute beside an edge is the address of the edge's restaurant.
AttrsFollowEdges(graph) ==
  /\ \A i \in DOMAIN graph.r_to_a_attr :
       graph.r_to_a_attr[i] = graph.r_to_a[i][1]
  /\ \A i \in DOMAIN graph.a_to_r_attr :
       graph.a_to_r_attr[i] = graph.a_to_r[i][2]

\* A table whose restaurants up to p all have features, and in which the
\* restaurants with features come in the order of the names of their areas.
Aligned(table, p) ==
  /\ \A q \in 0..p : Featured(table, q)
  /\ \A q, r \in {x \in DOMAIN table : Featured(table, x)} :
       q < r => table[q].area <= table[r].area
=============================================================================
