---------------------------- MODULE ForestStore ----------------------------
(***************************************************************************)
(* The rows of the tree_nodes table that belong to one document, and the   *)
(* transactions ragzoom runs on them: appending leaves, inserting the      *)
(* parent of a sibling pair, truncating by span or by time.                *)
(*                                                                         *)
(* A store is a function from node ids to rows.  Ids are positive numbers  *)
(* handed out in order (the code uses fresh UUIDs); a column that holds    *)
(* NULL holds NIL here.  Text, token counts, costs and embeddings are left *)
(* out: nothing in this module depends on them.                            *)
(***************************************************************************)
EXTENDS Integers, Sequences, FiniteSets, FiniteSetsExt

NIL == 0
NodeId == Nat \ {NIL}

\* The structural columns of tree_nodes.
Row == [height: Nat, level_index: Nat, span_start: Nat, span_end: Nat,
        parent_id: Nat, left_child_id: Nat, right_child_id: Nat,
        preceding_neighbor_id: Nat, following_neighbor_id: Nat,
        time_end: Nat]

-----------------------------------------------------------------------------
(* Queries *)

Leaves(db) == {n \in DOMAIN db : db[n].height = 0}

Roots(db) == {n \in DOMAIN db : db[n].parent_id = NIL}

\* get_node_by_height_and_level
NodeAt(db, h, i) ==
    LET hits == {n \in DOMAIN db : db[n].height = h /\ db[n].level_index = i}
    IN  IF hits = {} THEN NIL ELSE CHOOSE n \in hits : TRUE

\* get_rightmost_leaf_for_document orders by span_end alone, so the row it
\* returns is any leaf with the greatest span_end; NIL if there is no leaf.
RightmostLeaves(db) ==
    IF Leaves(db) = {} THEN {NIL}
    ELSE {n \in Leaves(db) : \A m \in Leaves(db) : db[m].span_end <= db[n].span_end}

\* The unique index on (document_id, height, level_index).
SameCoordinate(a, b) == a.height = b.height /\ a.level_index = b.level_index

IndexAccepts(db, new) ==
    \A n \in DOMAIN db, m \in DOMAIN new : ~SameCoordinate(db[n], new[m])

\* An INSERT of several rows.
Insert(db, new) ==
    [n \in DOMAIN db \cup DOMAIN new |-> IF n \in DOMAIN db THEN db[n] ELSE new[n]]

-----------------------------------------------------------------------------
(* Appending *)

\* Seeded fault: the next leaf starts where the rightmost one starts.
EndOf_Start(db, n) == IF n = NIL THEN 0 ELSE db[n].span_start

EndOf(db, n) == IF n = NIL THEN 0 ELSE db[n].span_end

NextIndex(db, n) == IF n = NIL THEN 0 ELSE db[n].level_index + 1

\* The chunks of one append, as the positions where they end: ends[k] is the
\* span_end of the k-th new leaf.  The new ids are first, first + 1, ...
LeafSpecs(db, right, first, ends, time) ==
    [n \in first .. (first + Len(ends) - 1) |->
        LET k == n - first + 1
        IN  [height |-> 0,
             level_index |-> NextIndex(db, right) + k - 1,
             span_start |-> IF k = 1 THEN EndOf(db, right) ELSE ends[k - 1],
             span_end |-> ends[k],
             parent_id |-> NIL, left_child_id |-> NIL, right_child_id |-> NIL,
             preceding_neighbor_id |-> IF k = 1 THEN right ELSE n - 1,
             following_neighbor_id |-> IF k = Len(ends) THEN NIL ELSE n + 1,
             time_end |-> time]]

\* The append transaction: insert the leaves and point the old rightmost leaf
\* at the first of them.  The unique index may refuse it, and then nothing of
\* it is kept.
AppendLeaves(db, right, first, ends, time) ==
    LET new    == LeafSpecs(db, right, first, ends, time)
        linked == [n \in DOMAIN db |->
                      IF n = right THEN [db[n] EXCEPT !.following_neighbor_id = first]
                                   ELSE db[n]]
    IN  IF IndexAccepts(db, new) THEN Insert(linked, new) ELSE db

-----------------------------------------------------------------------------
(* Summarising *)

\* What a summary job reads of its pair before it calls the model, and uses
\* again when it writes the parent.
ReadPair(db, l, r) ==
    [left |-> l, right |-> r,
     height |-> db[l].height, level_index |-> db[l].level_index,
     span_start |-> db[l].span_start, span_end |-> db[r].span_end,
     time_end |-> db[r].time_end]

\* The parent's row; its neighbours are whatever stands at the coordinates
\* next to it on its level when the transaction runs.
ParentRow(db, job) ==
    LET h == job.height + 1
        i == job.level_index \div 2
    IN  [height |-> h, level_index |-> i,
         span_start |-> job.span_start, span_end |-> job.span_end,
         parent_id |-> NIL,
         left_child_id |-> job.left, right_child_id |-> job.right,
         preceding_neighbor_id |-> IF i > 0 THEN NodeAt(db, h, i - 1) ELSE NIL,
         following_neighbor_id |-> NodeAt(db, h, i + 1),
         time_end |-> job.time_end]

\* Seeded fault: only the left child learns of its parent.
LinkParent_LeftOnly(db, id, row) ==
    [n \in DOMAIN db |->
        [db[n] EXCEPT
            !.parent_id = IF n = row.left_child_id THEN id ELSE @,
            !.following_neighbor_id = IF n = row.preceding_neighbor_id THEN id ELSE @,
            !.preceding_neighbor_id = IF n = row.following_neighbor_id THEN id ELSE @]]

\* Seeded fault: a right neighbour that was inserted first is not linked back.
LinkParent_NoBackLink(db, id, row) ==
    [n \in DOMAIN db |->
        [db[n] EXCEPT
            !.parent_id = IF n \in {row.left_child_id, row.right_child_id} THEN id ELSE @,
            !.following_neighbor_id = IF n = row.preceding_neighbor_id THEN id ELSE @]]

\* The rows that change because the parent is inserted: its two children and
\* its two neighbours.
LinkParent(db, id, row) ==
    [n \in DOMAIN db |->
        [db[n] EXCEPT
            !.parent_id = IF n \in {row.left_child_id, row.right_child_id} THEN id ELSE @,
            !.following_neighbor_id = IF n = row.preceding_neighbor_id THEN id ELSE @,
            !.preceding_neighbor_id = IF n = row.following_neighbor_id THEN id ELSE @]]

\* The transaction that ends a summary job.
InsertParent(db, id, job) ==
    LET row == ParentRow(db, job)
        new == [n \in {id} |-> row]
    IN  IF IndexAccepts(db, new) THEN Insert(LinkParent(db, id, row), new) ELSE db

-----------------------------------------------------------------------------
(* Truncating *)

\* Seeded fault: the parent_id of a kept child is not cleared.
DeleteAndDetach_KeepParent(db, gone) ==
    LET Clear(ref) == IF ref \in gone THEN NIL ELSE ref
    IN  [n \in DOMAIN db \ gone |-> [db[n] EXCEPT !.following_neighbor_id = Clear(@)]]

\* Steps 2 to 4 shared by both deletions: clear the parent_id and the
\* following_neighbor_id of the rows that stay and point at a deleted row,
\* then delete.  preceding_neighbor_id is not touched.
DeleteAndDetach(db, gone) ==
    LET Clear(ref) == IF ref \in gone THEN NIL ELSE ref
    IN  [n \in DOMAIN db \ gone |->
            [db[n] EXCEPT !.parent_id = Clear(@), !.following_neighbor_id = Clear(@)]]

\* Seeded fault: only leaves are deleted, the summaries over them stay.
DeleteFromSpan_LeavesOnly(db, cut) ==
    DeleteAndDetach(db, {n \in Leaves(db) : db[n].span_end > cut})

DeleteFromSpan(db, cut) ==
    DeleteAndDetach(db, {n \in DOMAIN db : db[n].span_end > cut})

\* How far the row n moves left: the loop goes through the deleted leaves from
\* the last to the first and moves every row that starts at or after the
\* leaf's end, so a row moves by the leaves that ended at or before its start.
ShiftOf(db, goneLeaves, n) ==
    LET before == {m \in goneLeaves : db[m].span_end <= db[n].span_start}
    IN  IF before = {} THEN 0
        ELSE MapThenSumSet(LAMBDA m : db[m].span_end - db[m].span_start, before)

\* Seeded fault: every kept row moves, not only those behind a deleted leaf.
DeleteFromTime_ShiftsAll(db, cutoff) ==
    LET gone       == {n \in DOMAIN db : db[n].time_end > cutoff}
        goneLeaves == gone \cap Leaves(db)
        d          == MapThenSumSet(LAMBDA m : db[m].span_end - db[m].span_start, goneLeaves)
        kept       == DeleteAndDetach(db, gone)
    IN  [n \in DOMAIN kept |->
            [kept[n] EXCEPT !.span_start = @ - d, !.span_end = @ - d]]

\* Seeded fault: the end of a kept row moves and its start does not.
DeleteFromTime_EndOnly(db, cutoff) ==
    LET gone       == {n \in DOMAIN db : db[n].time_end > cutoff}
        goneLeaves == gone \cap Leaves(db)
        kept       == DeleteAndDetach(db, gone)
    IN  [n \in DOMAIN kept |->
            [kept[n] EXCEPT !.span_end = @ - ShiftOf(db, goneLeaves, n)]]

DeleteFromTime(db, cutoff) ==
    LET gone       == {n \in DOMAIN db : db[n].time_end > cutoff}
        goneLeaves == gone \cap Leaves(db)
        kept       == DeleteAndDetach(db, gone)
    IN  [n \in DOMAIN kept |->
            LET d == ShiftOf(db, goneLeaves, n)
            IN  [kept[n] EXCEPT !.span_start = @ - d, !.span_end = @ - d]]
=============================================================================
