----------------------------- MODULE PostgresStore -----------------------------
(***************************************************************************)
(* The transactions and the validator of the Postgres backend, where they  *)
(* differ from those of SQLite (ForestStore, ForestValidation):            *)
(*   - there is no unique index on the coordinates, an INSERT is never     *)
(*     refused;                                                            *)
(*   - rows are read by id through a cache, so the commit of a summary     *)
(*     writes back the neighbours it saw, view[n], not those of the table; *)
(*   - truncating by time closes no hole: no row moves;                    *)
(*   - the SQL checks compare NULL explicitly.                             *)
(***************************************************************************)
EXTENDS ForestValidation

PgAppendLeaves(rows, right, first, ends, time) ==
    LET new == LeafSpecs(rows, right, first, ends, time)
    IN  Insert([n \in DOMAIN rows |->
                  IF n = right THEN [rows[n] EXCEPT !.following_neighbor_id = first]
                               ELSE rows[n]], new)

\* Seeded fault: only the column that points at the new parent is written.
PgLinkParent_ParentOnly(rows, id, row, view) ==
    [n \in DOMAIN rows |->
        [rows[n] EXCEPT !.parent_id = IF n \in {row.left_child_id, row.right_child_id} THEN id ELSE @]]

\* update_parent_references_batch and update_neighbors_batch: both columns of
\* either neighbour are written, the one that does not change from view.
PgLinkParent(rows, id, row, view) ==
    LET before == row.preceding_neighbor_id
        after  == row.following_neighbor_id
    IN  [n \in DOMAIN rows |->
            [rows[n] EXCEPT
                !.parent_id = IF n \in {row.left_child_id, row.right_child_id} THEN id ELSE @,
                !.preceding_neighbor_id =
                    IF n = after THEN id
                    ELSE IF n = before THEN view[n].preceding_neighbor_id ELSE @,
                !.following_neighbor_id =
                    IF n = before THEN id
                    ELSE IF n = after THEN view[n].following_neighbor_id ELSE @]]

PgInsertParent(rows, id, job, view) ==
    LET row == ParentRow(rows, job)
    IN  Insert(PgLinkParent(rows, id, row, view), [n \in {id} |-> row])

\* Seeded fault: the links of the kept rows are left as they are.
PgDelete_Dangling(rows, gone) == [n \in DOMAIN rows \ gone |-> rows[n]]

\* Two UPDATEs clear the links from kept to deleted rows, then the DELETE.
PgDelete(rows, gone) ==
    LET Kept(ref) == IF ref \in gone THEN NIL ELSE ref
    IN  [n \in DOMAIN rows \ gone |->
            [rows[n] EXCEPT !.parent_id = Kept(@), !.following_neighbor_id = Kept(@)]]

PgDeleteFromSpan(rows, cut) == PgDelete(rows, {n \in DOMAIN rows : rows[n].span_end > cut})

PgDeleteFromTime(rows, cutoff) == PgDelete(rows, {n \in DOMAIN rows : rows[n].time_end > cutoff})

-----------------------------------------------------------------------------
(* run_validation_queries for Postgres *)

PgLeafGaps(rows) == Meeting(rows, Leaves(rows))

PgBrokenParentRefs(rows) ==
    \A c \in DOMAIN rows : rows[c].parent_id # NIL => rows[c].parent_id \in DOMAIN rows

PgBrokenChildRefs(rows) ==
    \A p \in DOMAIN rows : \A c \in ChildrenNamed(rows[p]) :
        c \in DOMAIN rows /\ rows[c].parent_id = p

PgNeighborBacklinks(rows) ==
    \A n \in DOMAIN rows :
        LET next == rows[n].following_neighbor_id
        IN  next \in DOMAIN rows => rows[next].preceding_neighbor_id = n

\* Asked of a row that has a parent, by the row's place among its children.
PgNodeCoordinates(rows) ==
    \A c \in DOMAIN rows :
        LET p == rows[c].parent_id
        IN  p \in DOMAIN rows =>
              /\ rows[p].height = rows[c].height + 1
              /\ c = rows[p].left_child_id => rows[c].level_index = rows[p].level_index * 2
              /\ c = rows[p].right_child_id => rows[c].level_index = rows[p].level_index * 2 + 1

\* The next row of a level is the one with the next greater level_index.
PgLevelNeighborChains(rows) ==
    \A n \in DOMAIN rows :
        LET later == {m \in DOMAIN rows : /\ rows[m].height = rows[n].height
                                          /\ rows[m].level_index > rows[n].level_index}
        IN  later # {} =>
              \E m \in later : /\ \A k \in later : rows[m].level_index <= rows[k].level_index
                               /\ rows[n].following_neighbor_id = m

PgAcceptsFast(rows) ==
    /\ NodesExist(rows)
    /\ PgLeafGaps(rows)
    /\ PgBrokenParentRefs(rows)
    /\ PgBrokenChildRefs(rows)
    /\ PgNeighborBacklinks(rows)
    /\ PerfectBinaryTrees(rows)
    /\ PgNodeCoordinates(rows)
    /\ ParentSpanUnionSql(rows)
    /\ CoordinatesAreUnique(rows)
    /\ PgLevelNeighborChains(rows)

-----------------------------------------------------------------------------
(* The backends and the validators, side by side *)

\* No level has a free coordinate between two rows.
LevelsAreGapless(rows) ==
    \A m, n \in DOMAIN rows :
        rows[m].height = rows[n].height /\ rows[m].level_index < rows[n].level_index
        => NodeAt(rows, rows[m].height, rows[m].level_index + 1) # NIL

\* The full validator and the SQL checks of SQLite report no error of any store
\* the program can reach, at any moment between two transactions.  Those of
\* Postgres do so exactly when parents that were committed out of order have
\* left no coordinate free between two others: their last check takes the next
\* row of a level for its neighbour.
ValidatorsAgree ==
    db # EmptyStore =>
        /\ Accepts(db)
        /\ AcceptsFast(db)
        /\ PgAcceptsFast(db) <=> LevelsAreGapless(db)

\* The two backends do the same to a document, although one refuses duplicate
\* coordinates and closes holes and the other does neither and writes both
\* columns of a neighbour: whatever transaction comes next (time stamps in
\* order, rows read as they are) leaves the same rows.  (Every table is reached
\* without jobs too, for all of them may fail.)
BackendsAgree ==
    /\ \A job \in jobs :
          PgInsertParent(db, nextId, job, db) = InsertParent(db, nextId, job)
    /\ jobs = {} =>
        /\ \A right \in RightmostLeaves(db), time \in Times :
              \A ends \in ChunkEnds(EndOf(db, right)) :
                 PgAppendLeaves(db, right, nextId, ends, time)
                    = AppendLeaves(db, right, nextId, ends, time)
        /\ \A cut \in 0 .. DocumentEnd : PgDeleteFromSpan(db, cut) = DeleteFromSpan(db, cut)
        /\ \A cutoff \in Times : PgDeleteFromTime(db, cutoff) = DeleteFromTime(db, cutoff)
=============================================================================
