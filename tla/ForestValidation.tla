--------------------------- MODULE ForestValidation ---------------------------
(***************************************************************************)
(* The validators of ragzoom (validation/tree.py and the SQL of            *)
(* run_validation_queries), as predicates on the rows of a document: what  *)
(* an operator of the program is told about a store.  A predicate is TRUE  *)
(* when the check of its name reports no error.  Warnings, the checks of   *)
(* token counts and of preceding_context, and a telemetry payload are left *)
(* out: DocumentForest has no such columns.                                *)
(***************************************************************************)
EXTENDS DocumentForest, SequencesExt

(* A column that holds NULL compares as unknown: in the WHERE of a check   *)
(* neither a = b nor a # b holds then.                                     *)
SqlDiffer(a, b) == a # NIL /\ b # NIL /\ a # b

\* get_leaves: the rows without children, whatever their height
Childless(rows) ==
    {n \in DOMAIN rows : rows[n].left_child_id = NIL /\ rows[n].right_child_id = NIL}

\* ORDER BY span_start; rows that start together in the order of their ids.
Precedes(rows, a, b) ==
    \/ rows[a].span_start < rows[b].span_start
    \/ rows[a].span_start = rows[b].span_start /\ a < b

BySpanStart(rows, nodes) == SetToSortSeq(nodes, LAMBDA a, b : Precedes(rows, a, b))

\* One leaf after another: the next begins where the one before it ends.
Meeting(rows, leaves) ==
    \A a, b \in leaves :
        Precedes(rows, a, b) /\ (\A m \in leaves : ~(Precedes(rows, a, m) /\ Precedes(rows, m, b)))
        => rows[b].span_start = rows[a].span_end

Contiguous(rows, leaves) ==
    /\ Meeting(rows, leaves)
    /\ \A n \in leaves : (\A m \in leaves : ~Precedes(rows, m, n)) => rows[n].span_start = 0

NodesExist(rows) == rows # EmptyStore

-----------------------------------------------------------------------------
(* validate_document, check by check *)

LeafSpansAreOrdered(rows) == Contiguous(rows, Childless(rows))

ChildrenNamed(row) == {row.left_child_id, row.right_child_id} \ {NIL}

ParentChildRelationships_OneWay(rows) ==     \* seeded fault: children are not asked
    \A n \in DOMAIN rows :
        rows[n].parent_id # NIL =>
            /\ rows[n].parent_id \in DOMAIN rows
            /\ n \in ChildrenNamed(rows[rows[n].parent_id])
ParentChildRelationships(rows) ==
    \A n \in DOMAIN rows :
        /\ rows[n].parent_id # NIL =>
              /\ rows[n].parent_id \in DOMAIN rows
              /\ n \in ChildrenNamed(rows[rows[n].parent_id])
        /\ \A c \in ChildrenNamed(rows[n]) : c \in DOMAIN rows /\ rows[c].parent_id = n

NeighborConsistency(rows) ==
    \A n \in DOMAIN rows :
        LET prev == rows[n].preceding_neighbor_id
            next == rows[n].following_neighbor_id
        IN  /\ prev # NIL => prev \in DOMAIN rows /\ rows[prev].following_neighbor_id = n
            /\ next # NIL => next \in DOMAIN rows /\ rows[next].preceding_neighbor_id = n

CoordinatesAreUnique(rows) ==
    \A m, n \in DOMAIN rows : SameCoordinate(rows[m], rows[n]) => m = n

\* Seeded fault: the neighbour is the next row of the level, not of the next index.
LevelNeighborChains_NextRow(rows) ==
    /\ CoordinatesAreUnique(rows)
    /\ \A m, n \in DOMAIN rows :
          /\ rows[m].height = rows[n].height /\ rows[m].level_index > rows[n].level_index
          /\ \A k \in DOMAIN rows : rows[k].height = rows[n].height =>
                rows[k].level_index <= rows[n].level_index \/ rows[m].level_index <= rows[k].level_index
          => rows[n].following_neighbor_id = m

\* A level with one node is not looked at.
LevelNeighborChains(rows) ==
    /\ CoordinatesAreUnique(rows)
    /\ \A m, n \in DOMAIN rows :
          m # n /\ rows[m].height = rows[n].height =>
            /\ rows[n].preceding_neighbor_id = NodeAt(rows, rows[n].height, rows[n].level_index - 1)
            /\ rows[n].following_neighbor_id = NodeAt(rows, rows[n].height, rows[n].level_index + 1)

PerfectBinaryTrees(rows) ==
    \A n \in DOMAIN rows : (rows[n].left_child_id = NIL) = (rows[n].right_child_id = NIL)

NodeCoordinates(rows) ==
    \A n \in DOMAIN rows :
        LET l == rows[n].left_child_id
            r == rows[n].right_child_id
        IN  /\ n \in Childless(rows) => rows[n].height = 0
            /\ \A c \in {l, r} \cap DOMAIN rows : rows[n].height = rows[c].height + 1
            /\ l \in DOMAIN rows =>
                  /\ rows[n].level_index = rows[l].level_index \div 2
                  /\ rows[l].level_index % 2 = 0
            /\ r \in DOMAIN rows => rows[r].level_index % 2 = 1
            /\ {l, r} \subseteq DOMAIN rows => rows[r].level_index = rows[l].level_index + 1

ParentSpanUnion(rows) ==
    \A n \in DOMAIN rows \ Childless(rows) :
        LET l == rows[n].left_child_id
            r == rows[n].right_child_id
        IN  /\ l \in DOMAIN rows
            /\ rows[n].span_start = rows[l].span_start
            /\ IF r \in DOMAIN rows
                 THEN /\ rows[l].span_end = rows[r].span_start
                      /\ rows[n].span_end = rows[r].span_end
                 ELSE rows[n].span_end = rows[l].span_end

IsFunctional(pairs) == \A p, q \in pairs : p[1] = q[1] => p[2] = q[2]

Above(rows, n) == IF n \in DOMAIN rows THEN rows[n].parent_id ELSE NIL

\* n, its parent, the parent of that, ...
Ascent(rows, n) ==
    LET up[k \in 0 .. Cardinality(DOMAIN rows)] == IF k = 0 THEN n ELSE Above(rows, up[k - 1])
    IN  up

\* The walk from every root down to the rows that are nobody's parent.
PerTreeLeafDepth(rows) ==
    LET ends == DOMAIN rows \ {rows[m].parent_id : m \in DOMAIN rows}
        Found(n) ==
            LET up == Ascent(rows, n)
            IN  {<<up[k], k>> : k \in {j \in DOMAIN up : /\ up[j] \in DOMAIN rows
                                                       /\ rows[up[j]].parent_id \notin DOMAIN rows}}
    IN  IsFunctional(UNION {Found(n) : n \in ends})

Accepts(rows) ==
    /\ NodesExist(rows)
    /\ LeafSpansAreOrdered(rows)
    /\ ParentChildRelationships(rows)
    /\ NeighborConsistency(rows)
    /\ LevelNeighborChains(rows)
    /\ PerfectBinaryTrees(rows)
    /\ NodeCoordinates(rows)
    /\ ParentSpanUnion(rows)
    /\ PerTreeLeafDepth(rows)

\* What require_complete adds: no two siblings without a parent, or with two.
CompletenessCheck_LeavesOnly(rows) ==     \* seeded fault
    \A l, r \in Leaves(rows) :
        IsEligiblePair(rows, l, r) =>
            rows[l].parent_id = rows[r].parent_id /\ rows[l].parent_id # NIL
CompletenessCheck(rows) ==
    \A l, r \in DOMAIN rows :
        IsEligiblePair(rows, l, r) =>
            rows[l].parent_id = rows[r].parent_id /\ rows[l].parent_id # NIL

\* The metric shown as pending summaries: the roots of each height, halved.
MergeablePairs(rows) ==
    MapThenSumSet(LAMBDA h : Cardinality({n \in Roots(rows) : rows[n].height = h}) \div 2,
                  {rows[n].height : n \in DOMAIN rows})

-----------------------------------------------------------------------------
(* run_validation_queries: the same document, checked by SQL *)

LeafGaps(rows) == Contiguous(rows, Leaves(rows))

BrokenParentRefs(rows) ==
    \A c \in DOMAIN rows :
        LET p == rows[c].parent_id
        IN  p # NIL =>
              /\ p \in DOMAIN rows
              /\ ~ (SqlDiffer(rows[p].left_child_id, c) /\ SqlDiffer(rows[p].right_child_id, c))

BrokenChildRefs(rows) ==
    \A p \in DOMAIN rows : \A c \in ChildrenNamed(rows[p]) :
        c \in DOMAIN rows /\ ~ SqlDiffer(rows[c].parent_id, p)

ParentSpanUnionSql(rows) ==
    \A p \in DOMAIN rows :
        LET l == rows[p].left_child_id
            r == rows[p].right_child_id
        IN  {l, r} \subseteq DOMAIN rows =>
              rows[p].span_start = rows[l].span_start /\ rows[p].span_end = rows[r].span_end

NeighborBacklinks(rows) ==
    \A a \in DOMAIN rows :
        LET next == rows[a].following_neighbor_id
            prev == rows[a].preceding_neighbor_id
        IN  /\ next \in DOMAIN rows => rows[next].preceding_neighbor_id = a
            /\ prev \in DOMAIN rows => rows[prev].following_neighbor_id = a

NodeCoordinatesSql(rows) ==
    \A p \in DOMAIN rows :
        LET l == rows[p].left_child_id
        IN  l \in DOMAIN rows => rows[p].height = rows[l].height + 1

LevelChainsSql(rows) ==
    \A a \in DOMAIN rows :
        LET next == rows[a].following_neighbor_id
        IN  next # NIL =>
              /\ next \in DOMAIN rows
              /\ rows[next].height = rows[a].height
              /\ rows[next].level_index = rows[a].level_index + 1

AcceptsFast(rows) ==
    /\ NodesExist(rows)
    /\ LeafGaps(rows)
    /\ BrokenParentRefs(rows)
    /\ BrokenChildRefs(rows)
    /\ PerfectBinaryTrees(rows)
    /\ ParentSpanUnionSql(rows)
    /\ NeighborBacklinks(rows)
    /\ NodeCoordinatesSql(rows)
    /\ CoordinatesAreUnique(rows)
    /\ LevelChainsSql(rows)
=============================================================================
