----------------------------- MODULE DocumentTools -----------------------------
(***************************************************************************)
(* The two scripts that write to a stored document beside the server:      *)
(* prune_summary_roots.py takes summaries away so that they are made       *)
(* again, repair_corrupt_nodes.py mends time stamps that were lost and     *)
(* rows whose parent was.  Each works on the rows of one document while    *)
(* nothing else does.                                                      *)
(***************************************************************************)
EXTENDS ForestValidation

(* prune_summary_roots.py *)

\* list_non_leaf_roots
RemovableRoots(rows) ==
    {r \in Roots(rows) : rows[r].left_child_id # NIL \/ rows[r].right_child_id # NIL}

\* Seeded fault: the children still name the root that is gone.
RemoveSingleRoot_Attached(rows, r) ==
    LET pass(ref, instead) == IF ref = r THEN instead ELSE ref
    IN  [n \in DOMAIN rows \ {r} |->
            [rows[n] EXCEPT
                !.preceding_neighbor_id = pass(@, rows[r].preceding_neighbor_id),
                !.following_neighbor_id = pass(@, rows[r].following_neighbor_id)]]

\* The children become roots, and the neighbours of the root are linked to
\* each other although a coordinate is free between them now.
RemoveSingleRoot(rows, r) ==
    LET pass(ref, instead) == IF ref = r THEN instead ELSE ref
    IN  [n \in DOMAIN rows \ {r} |->
            [rows[n] EXCEPT
                !.parent_id = IF n \in ChildrenNamed(rows[r]) THEN NIL ELSE @,
                !.preceding_neighbor_id = pass(@, rows[r].preceding_neighbor_id),
                !.following_neighbor_id = pass(@, rows[r].following_neighbor_id)]]

\* select_root chooses among these at random.
SelectRoot(rows, preferHighest) ==
    IF preferHighest
    THEN {r \in RemovableRoots(rows) :
             \A q \in RemovableRoots(rows) : rows[q].height <= rows[r].height}
    ELSE RemovableRoots(rows)

\* The stores that --count rounds can leave.
Prunings(rows, count, preferHighest) ==
    LET after[k \in 0 .. count] ==
            IF k = 0 THEN {rows}
            ELSE UNION {IF RemovableRoots(kept) = {} THEN {kept}
                        ELSE {RemoveSingleRoot(kept, r) : r \in SelectRoot(kept, preferHighest)}
                           : kept \in after[k - 1]}
    IN  after[count]

-----------------------------------------------------------------------------
(* repair_corrupt_nodes.py; begins and ends are the columns time_start and  *)
(* time_end of a temporal document, 0 where the time was lost (0.0).        *)

MaxHops == 20

Lost(time) == time = 0

\* The first time along a column of links that was not lost, 0 if there is none.
FirstAlong(rows, column, times, n) ==
    LET trail[k \in 0 .. MaxHops] ==
            IF k = 0 THEN n
            ELSE IF trail[k - 1] \in DOMAIN rows THEN rows[trail[k - 1]][column] ELSE NIL
        found == {k \in 1 .. MaxHops : trail[k] \in DOMAIN rows /\ ~Lost(times[trail[k]])}
    IN  IF found = {} THEN 0 ELSE times[trail[Min(found)]]

\* From the end of a row before to the start of a row behind; where one of
\* them is missing the other stands for both.
InterpolateTimestamp(rows, begins, ends, n) ==
    LET before == FirstAlong(rows, "preceding_neighbor_id", ends, n)
        behind == FirstAlong(rows, "following_neighbor_id", begins, n)
    IN  [start |-> IF Lost(before) THEN behind ELSE before,
         end   |-> IF Lost(behind) THEN before ELSE behind]

\* Of a summary, from its children first.
RecomputeInternalTimestamps(rows, begins, ends, n) ==
    LET children == BySpanStart(rows, {c \in DOMAIN rows : rows[c].parent_id = n})
        between  == InterpolateTimestamp(rows, begins, ends, n)
    IN  IF children = <<>> THEN between
        ELSE [start |-> IF Lost(begins[Head(children)]) THEN between.start ELSE begins[Head(children)],
              end   |-> IF Lost(ends[Last(children)]) THEN between.end ELSE ends[Last(children)]]

\* Row by row, the leaves first, each with the times mended before it.
RepairTimestamps(rows, begins, ends) ==
    LET zeros == {n \in DOMAIN rows : Lost(begins[n]) \/ Lost(ends[n])}
        order == SetToSortSeq(zeros, LAMBDA a, b :
                     \/ rows[a].height < rows[b].height
                     \/ rows[a].height = rows[b].height /\ rows[a].level_index < rows[b].level_index)
        Mend(time, new) == IF Lost(time) THEN new ELSE time
        Fix(t, n) ==
            LET new == IF rows[n].height = 0
                       THEN InterpolateTimestamp(rows, t.begins, t.ends, n)
                       ELSE RecomputeInternalTimestamps(rows, t.begins, t.ends, n)
            IN  [begins |-> [t.begins EXCEPT ![n] = Mend(@, new.start)],
                 ends   |-> [t.ends EXCEPT ![n] = Mend(@, new.end)]]
    IN  FoldLeft(Fix, [begins |-> begins, ends |-> ends], order)

\* repair_orphaned_parents
RepairOrphanedParents(rows) ==
    [n \in DOMAIN rows |->
        [rows[n] EXCEPT !.parent_id = IF @ \in DOMAIN rows THEN @ ELSE NIL]]
================================================================================
