---------------------------- MODULE PostgresForest ----------------------------
(***************************************************************************)
(* The life of a document (DocumentForest) over the Postgres backend and   *)
(* the row cache of its node repository.  Reads by id are answered from    *)
(* the cache when it has the row; queries go to the table and overwrite    *)
(* the cached rows they return.  Inserting puts the new rows in the cache, *)
(* updating takes the updated rows out, and truncating takes out the rows  *)
(* it deletes.  A transaction and its cache updates are one step: all of   *)
(* them run on the event loop.  That the cache holds 1000 rows and drops   *)
(* the least recently used one is left out.                                *)
(***************************************************************************)
EXTENDS PostgresStore

VARIABLE cache   \* rows by id, as they were when they were read or inserted

pgVars == <<db, nextId, jobs, born, cache>>

\* get_node: what a read by id returns for a row of the table.
View(n) == IF n \in DOMAIN cache THEN cache[n] ELSE db[n]

Without(ids) == [n \in DOMAIN cache \ ids |-> cache[n]]

Put(rows) == [n \in DOMAIN cache \cup DOMAIN rows |-> IF n \in DOMAIN rows THEN rows[n] ELSE cache[n]]

PgInit == Init /\ cache = EmptyStore

\* The rightmost leaf is read by a query; it is updated, and so leaves the
\* cache, and the new leaves enter it.
PgAppend ==
    \E right \in RightmostLeaves(db), time \in Times : \E ends \in ChunkEnds(EndOf(db, right)) :
        /\ born + Len(ends) <= MaxLeaves
        /\ InOrder => \A n \in Leaves(db) : db[n].time_end <= time
        /\ db' = PgAppendLeaves(db, right, nextId, ends, time)
        /\ nextId' = nextId + Len(ends)
        /\ born' = born + Len(ends)
        /\ cache' = [n \in (DOMAIN cache \ {right}) \cup (nextId .. nextId + Len(ends) - 1) |->
                        IF n \in DOMAIN cache THEN cache[n]
                        ELSE LeafSpecs(db, right, nextId, ends, time)[n]]
        /\ UNCHANGED jobs

\* The pair comes from the scan of the table; the job reads it by id.
ReadsAsSummarised(l, r) == View(l).parent_id # NIL \/ View(r).parent_id # NIL

PgStartSummary(l, r) ==
    /\ <<l, r>> \in EligiblePairs(db)
    /\ \A j \in jobs : ~(j.left = l /\ j.right = r)
    /\ ~ReadsAsSummarised(l, r)
    /\ jobs' = jobs \cup {ReadPair([n \in {l, r} |-> View(n)], l, r)}
    /\ cache' = Put([n \in {l, r} |-> View(n)])
    /\ UNCHANGED <<db, nextId, born>>

\* "pair already has parent": the job ends and nothing is written.
PgSkipSummary(l, r) ==
    /\ <<l, r>> \in EligiblePairs(db)
    /\ ReadsAsSummarised(l, r)
    /\ cache' = Put([n \in {l, r} |-> View(n)])
    /\ UNCHANGED <<db, nextId, jobs, born>>

\* The children and the neighbours are updated, and leave the cache; so does
\* the parent, which is inserted first and whose neighbours are then updated.
PgCommitSummary(job) ==
    /\ job \in jobs
    /\ LET row == ParentRow(db, job)
       IN  cache' = Without({nextId, job.left, job.right, row.preceding_neighbor_id,
                             row.following_neighbor_id})
    /\ db' = PgInsertParent(db, nextId, job, [n \in DOMAIN db |-> View(n)])
    /\ nextId' = nextId + 1
    /\ jobs' = jobs \ {job}
    /\ UNCHANGED born

PgFailSummary(job) == FailSummary(job) /\ UNCHANGED cache

PgRestart == jobs' = {} /\ cache' = EmptyStore /\ UNCHANGED <<db, nextId, born>>

\* The rows whose parent_id or following_neighbor_id is cleared stay in the
\* cache as they were.
PgTruncate ==
    /\ jobs = {}
    /\ \/ \E cut \in 0 .. DocumentEnd : db' = PgDeleteFromSpan(db, cut)
       \/ \E cutoff \in Times : db' = PgDeleteFromTime(db, cutoff)
       \/ db' = EmptyStore
    /\ cache' = Without(DOMAIN db \ DOMAIN db')
    /\ UNCHANGED <<nextId, jobs, born>>

\* Reads, of a retrieval say: get_node and get_nodes by id; the queries put
\* the rows they return in the cache as the table has them.
PgGetNodes(n) == cache' = Put([m \in {n} |-> View(n)]) /\ UNCHANGED vars

Returns(ids) == cache' = Put([n \in ids |-> db[n]]) /\ UNCHANGED vars

PgRootNodes == Returns(Roots(db))

PgRightmostLeaf == \E right \in RightmostLeaves(db) \ {NIL} : Returns({right})

PgNodesByHeightLevels == \E n \in DOMAIN db : Returns({n})

PgNodesOverlappingSpan ==
    \E from \in 0 .. DocumentEnd, minHeight \in {0, 1} :
        Returns({n \in DOMAIN db : db[n].span_end > from /\ db[n].height >= minHeight})

PgNext ==
    \/ PgAppend
    \/ \E l, r \in DOMAIN db : PgStartSummary(l, r) \/ PgSkipSummary(l, r)
    \/ \E job \in jobs : PgCommitSummary(job) \/ PgFailSummary(job)
    \/ PgRestart
    \/ PgTruncate
    \/ \E n \in DOMAIN db : PgGetNodes(n)
    \/ PgRootNodes \/ PgRightmostLeaf \/ PgNodesByHeightLevels \/ PgNodesOverlappingSpan

PgSpec == PgInit /\ [][PgNext]_pgVars

-----------------------------------------------------------------------------
\* delete_nodes_from_span: "This prevents dangling neighbor references."  No
\* row names a following neighbour that is not in the table.
FollowersExist ==
    \A n \in DOMAIN db : db[n].following_neighbor_id \in DOMAIN db \cup {NIL}
=============================================================================
