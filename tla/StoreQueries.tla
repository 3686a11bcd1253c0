----------------------------- MODULE StoreQueries -----------------------------
(***************************************************************************)
(* What is read from the rows of a document: the queries of the node       *)
(* repository, the navigation of services/tree_navigator.py, and the       *)
(* leaves at the edges of a window of characters or of time.  An ORDER     *)
(* BY that leaves ties open makes the answer one of a set.                 *)
(***************************************************************************)
EXTENDS ForestStore, SequencesExt

Coordinate(rows, n) == <<rows[n].height, rows[n].level_index>>

\* get_nodes_by_height_levels
NodesAt(rows, coordinates) == {n \in DOMAIN rows : Coordinate(rows, n) \in coordinates}

-----------------------------------------------------------------------------
(* TreeNavigator: by coordinate, and by the link columns where the          *)
(* coordinate has no node.                                                  *)

ParentCoordinate(rows, n) == <<rows[n].height + 1, rows[n].level_index \div 2>>

SiblingCoordinate(rows, n) ==
    LET i == rows[n].level_index IN <<rows[n].height, IF i % 2 = 0 THEN i + 1 ELSE i - 1>>

\* get_ancestors: round after round the parents of what the round before found.
AncestorRounds(rows, ids) ==
    LET found[k \in 0 .. Cardinality(DOMAIN rows)] ==
            IF k = 0 THEN ids \cap DOMAIN rows
            ELSE NodesAt(rows, {ParentCoordinate(rows, n) : n \in found[k - 1]})
    IN  found

AncestorNodes(rows, ids) ==
    LET found == AncestorRounds(rows, ids) IN (UNION {found[k] : k \in DOMAIN found}) \ ids

OtherChild(rows, p, n) ==
    IF rows[p].left_child_id = n THEN rows[p].right_child_id
    ELSE IF rows[p].right_child_id = n THEN rows[p].left_child_id ELSE NIL

\* The row named by a column, if it is there.
Named(rows, ref) == IF ref \in DOMAIN rows THEN ref ELSE NIL

SiblingNode(rows, n) ==
    LET there == NodesAt(rows, {SiblingCoordinate(rows, n)}) \ {n}
        p     == rows[n].parent_id
    IN  IF there # {} THEN CHOOSE m \in there : TRUE
        ELSE IF p \in DOMAIN rows THEN Named(rows, OtherChild(rows, p, n)) ELSE NIL

NeighborNode(rows, n, offset) ==
    LET there == NodesAt(rows, {<<rows[n].height, rows[n].level_index + offset>>})
    IN  IF there # {} THEN CHOOSE m \in there : TRUE
        ELSE Named(rows, IF offset < 0 THEN rows[n].preceding_neighbor_id
                                       ELSE rows[n].following_neighbor_id)

GetChildren(rows, n) ==
    <<Named(rows, rows[n].left_child_id), Named(rows, rows[n].right_child_id)>>

\* The root that is returned as the document's: the first one.
RootNodes(rows) ==
    {r \in Roots(rows) : \A x \in Roots(rows) : rows[r].span_start <= rows[x].span_start}

-----------------------------------------------------------------------------
(* Spans *)

SpanEnd(rows) == IF DOMAIN rows = {} THEN NIL ELSE Max({rows[n].span_end : n \in DOMAIN rows})

LeavesAt(rows, position) ==
    {n \in Leaves(rows) : rows[n].span_start <= position /\ position < rows[n].span_end}

\* For the picture of a document: taller nodes first, then by position.
DrawnBefore(rows, m, n) ==
    \/ rows[m].height > rows[n].height
    \/ /\ rows[m].height = rows[n].height
       /\ \/ rows[m].span_start < rows[n].span_start
          \/ rows[m].span_start = rows[n].span_start /\ rows[m].level_index < rows[n].level_index

Overlapping(rows, from, to, limit, minHeight) ==
    LET hits == {n \in DOMAIN rows : /\ rows[n].span_start < to /\ rows[n].span_end > from
                                     /\ rows[n].height >= minHeight}
        drawn == SetToSortSeq(hits, LAMBDA m, n : DrawnBefore(rows, m, n))
    IN  [nodes |-> SubSeq(drawn, 1, IF limit < Len(drawn) THEN limit ELSE Len(drawn)),
         total |-> Cardinality(hits)]

\* How far the document stands under one root from its start.
CompletionFrontiers(rows) ==
    IF Roots(rows) = {} THEN {0} ELSE {rows[r].span_end : r \in RootNodes(rows)}

LeavesFromSpanStart(rows, start) ==
    SetToSortSeq({n \in Leaves(rows) : rows[n].span_start >= start},
                 LAMBDA m, n : rows[m].span_start < rows[n].span_start)

ReadyLeftChildren(rows) ==
    LET end == SpanEnd(rows)
    IN  {n \in Roots(rows) :
            /\ rows[n].level_index % 2 = 0
            /\ rows[n].span_start > 0 \/ rows[n].span_end < end
            /\ rows[n].span_start = 0 \/ rows[n].preceding_neighbor_id # NIL
            /\ rows[n].span_end = end \/ rows[n].following_neighbor_id # NIL}

\* The rows by id, so many at a time.
Pages(rows, size) ==
    LET rank(n) == Cardinality({m \in DOMAIN rows : m < n})
    IN  [k \in 1 .. ((Cardinality(DOMAIN rows) + size - 1) \div size) |->
            {n \in DOMAIN rows : rank(n) \div size = k - 1}]

\* Seeded fault: the leaf at the end of a window is looked for at its end.
WindowBounds_PastEnd(rows, from, to) ==
    {[start |-> rows[l].span_start, end |-> rows[r].span_end] :
        l \in LeavesAt(rows, from), r \in LeavesAt(rows, to)}

\* compute_window_bounds: the leaves a window of characters begins and ends
\* in.  Empty: no leaf there, the query is refused.
WindowBounds(rows, from, to) ==
    LET last  == LeavesAt(rows, IF to > from THEN to - 1 ELSE from)
        final == IF last = {} /\ to >= SpanEnd(rows) THEN LeavesAt(rows, SpanEnd(rows) - 1) ELSE last
    IN  {[start |-> rows[l].span_start, end |-> rows[r].span_end] :
            l \in LeavesAt(rows, from), r \in final}

-----------------------------------------------------------------------------
(* Times: begins and ends give every leaf its time_start and its time_end. *)

LeavesAtStart(rows, ends, t) ==
    LET hits == {n \in Leaves(rows) : ends[n] >= t}
    IN  {n \in hits : \A m \in hits : ends[n] <= ends[m]}

\* Seeded fault: the earliest leaf that has begun, not the latest.
LeavesAtEnd_First(rows, begins, t) ==
    LET hits == {n \in Leaves(rows) : begins[n] <= t}
    IN  {n \in hits : \A m \in hits : begins[m] >= begins[n]}

LeavesAtEnd(rows, begins, t) ==
    LET hits == {n \in Leaves(rows) : begins[n] <= t}
    IN  {n \in hits : \A m \in hits : begins[m] <= begins[n]}

Nothing == [start |-> 0, end |-> 0]
=============================================================================
