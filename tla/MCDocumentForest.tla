-------------------------- MODULE MCDocumentForest --------------------------
(***************************************************************************)
(* DocumentForest with everything that reads its rows: validators, repair, *)
(* queries, both backends; and the statements the repository makes of      *)
(* truncation that the code does not keep.                                 *)
(***************************************************************************)
EXTENDS ForestInvariant, DocumentChecks, DocumentTools, PostgresStore, PostgresTable, DocumentStatus, QueryRequests

CONSTANT DamageSize   \* bound: rows of the stores that are damaged

\* Whatever tiling a job stores as the context of a row, it is a sound context
\* then and after every truncation that keeps the row.
ContextsSurvive(cut) ==
    LET kept == DeleteFromSpan(db, cut)
    IN  \A n \in DOMAIN kept : \A context \in PrecedingContexts(db, db[n].span_start) :
            PrecedingContextCheck(kept, n, context)

\* What a cap on its tokens leaves of a context is sound as well: enough of it,
\* and no row that could be spared.
CapsAreMet ==
    LET tokens     == [n \in DOMAIN db |-> 1 + db[n].span_end - db[n].span_start]
        sum(shown) == MapThenSumSet(LAMBDA k : tokens[shown[k]], DOMAIN shown)
    IN  \A n \in DOMAIN db : \A context \in PrecedingContexts(db, db[n].span_start) :
            LET shown == ApplyTokenCap(context, tokens, 3)
            IN  /\ PrecedingContextCheck(db, n, shown)
                /\ sum(shown) >= 3 \/ shown = context
                /\ shown # <<>> => sum(Tail(shown)) < 3

\* The older checks: only the last of them fails, whenever there are several
\* trees (EqualLeafDepth compares the leaves of one root).
OlderChecksAgree ==
    /\ DocumentCoverage(db, DocumentEnd)
    /\ TreeStructure(db)
    /\ ChildrenComeInPairs(db)
    /\ EqualLeafDepth(db) = {Cardinality(Roots(db)) = 1}

Replaced(rows, old, new) ==
    LET now(ref) == IF ref = old THEN new ELSE ref
    IN  [n \in {now(m) : m \in DOMAIN rows} |->
            [rows[IF n = new THEN old ELSE n] EXCEPT
                !.parent_id = now(@), !.left_child_id = now(@), !.right_child_id = now(@),
                !.preceding_neighbor_id = now(@), !.following_neighbor_id = now(@)]]

\* A root that was pruned is made again as it was, by the next job on its
\* children.  In between the validators accept the forest as one that is not
\* complete, unless the root stood between two others of its height: those are
\* linked to each other then.  Pruned as often as it goes, the leaves are left, and nothing else.
PruningIsUndone ==
    LET leaves == [n \in Leaves(db) |-> [db[n] EXCEPT !.parent_id = NIL]]
    IN  /\ \A preferHighest \in BOOLEAN :
              Prunings(db, Cardinality(DOMAIN db \ Leaves(db)), preferHighest) = {leaves}
        /\ \A r \in RemovableRoots(db) :
              LET kept  == RemoveSingleRoot(db, r)
                  sound == Accepts(kept)
                  pair  == ReadPair(kept, db[r].left_child_id, db[r].right_child_id)
              IN  /\ InsertParent(kept, nextId, pair) = Replaced(db, r, nextId)
                  /\ sound <=> NIL \in {db[r].preceding_neighbor_id, db[r].following_neighbor_id}
                  /\ sound => AcceptsFast(kept) /\ (PgAcceptsFast(kept) <=> LevelsAreGapless(kept))
                  /\ ~CompletenessCheck(kept)

LevelsAreFilled ==
    \A n \in DOMAIN db :
        db[n].level_index > 0 => NodeAt(db, db[n].height, db[n].level_index - 1) # NIL

\* What is said of a sound store, whichever jobs have failed on it, is right: the
\* pending summaries it is shown with are the pairs that wait for a parent, and
\* more than those only while a coordinate is free before a row of its level;
\* `validate --complete' is satisfied by exactly the forests in which the engine
\* finds nothing left to do, and the contexts its jobs left are sound.
ReportsAreRight ==
    db # EmptyStore =>
        /\ LET waiting == Cardinality({p \in Roots(db) \X Roots(db) :
                                          IsEligiblePair(db, p[1], p[2])})
           IN  /\ waiting <= MergeablePairs(db)
               /\ LevelsAreFilled => waiting = MergeablePairs(db)
        /\ CompletenessCheck(db) <=> IsCompleteForest(db)
        /\ OlderChecksAgree
        /\ \A cut \in 0 .. DocumentEnd : ContextsSurvive(cut)
        /\ CapsAreMet

Columns == DOMAIN ParentRow(db, [left |-> 0, right |-> 0, height |-> 0, level_index |-> 0,
                                 span_start |-> 0, span_end |-> 0, time_end |-> 0])
           \ {"time_end"}

Damaged(n, column) ==
    {[db EXCEPT ![n][column] = v] : v \in (0 .. nextId) \ {db[n][column]}}

\* The times of the leaves, one after the other, and what summaries take of them.
SoundTimes ==
    LET first(n) == CHOOSE m \in Leaves(db) : db[m].span_start = db[n].span_start
        last(n)  == CHOOSE m \in Leaves(db) : db[m].span_end = db[n].span_end
    IN  [begins |-> [n \in DOMAIN db |-> 2 * db[first(n)].level_index + 1],
         ends   |-> [n \in DOMAIN db |-> 2 * db[last(n)].level_index + 2],
         first  |-> [n \in DOMAIN db |-> first(n)],
         last   |-> [n \in DOMAIN db |-> last(n)]]

\* Whichever leaves lost their times, and with them the summaries that begin or
\* end with such a leaf: the repair gives every row a time again, the times of
\* the leaves are in order and a summary has those of its first and last leaf,
\* as long as one leaf has kept its own.
TimesAreMended ==
    \A lost \in SUBSET Leaves(db) \ {Leaves(db)} :
        LET sound == SoundTimes
            t == RepairTimestamps(db,
                    [n \in DOMAIN db |-> IF sound.first[n] \in lost THEN 0 ELSE sound.begins[n]],
                    [n \in DOMAIN db |-> IF sound.last[n] \in lost THEN 0 ELSE sound.ends[n]])
        IN  \A n \in DOMAIN db :
                /\ ~Lost(t.begins[n]) /\ t.begins[n] <= t.ends[n]
                /\ t.begins[n] = t.begins[sound.first[n]] /\ t.ends[n] = t.ends[sound.last[n]]
                /\ n \in Leaves(db) /\ db[n].following_neighbor_id # NIL =>
                      t.ends[n] <= t.begins[db[n].following_neighbor_id]

\* Whichever rows are lost, a link to one of them is left and the full validator
\* reports it.  The repair takes away what names a parent that is gone; where
\* rows were lost with all above them, parents and children agree again.
OrphansAreFreed ==
    \A gone \in SUBSET DOMAIN db \ {{}, DOMAIN db} :
        LET kept   == [n \in DOMAIN db \ gone |-> db[n]]
            mended == RepairOrphanedParents(kept)
        IN  /\ ~Accepts(kept)
            /\ \A n \in DOMAIN mended : mended[n].parent_id \in DOMAIN mended \cup {NIL}
            /\ (\A n \in gone : db[n].parent_id \in gone \cup {NIL}) =>
                  ParentChildRelationships(mended)

\* One structural column of one row of a sound store is overwritten: the full
\* validator reports it, whatever the column, the row and the value (rows of
\* one document).  The end of the text alone is written nowhere else.  The
\* checks made in SQL never report what the full ones accept, but for the free
\* coordinates of ValidatorsAgree.
DamageIsNoticed ==
    \A n \in DOMAIN db, column \in Columns : \A rows \in Damaged(n, column) :
        Accepts(rows) =>
            /\ AcceptsFast(rows)
            /\ PgAcceptsFast(rows) <=> LevelsAreGapless(rows)
            /\ column = "span_end" /\ n \in Roots(db)
            /\ db[n].following_neighbor_id = NIL

\* What is there to look after a stored document is sound: what is said of it,
\* what pruning does to it and, of a few rows (with one time: the checks do
\* not read it), what the repair mends and what damage the validator notices.
UpkeepIsSound ==
    LET few == /\ Cardinality(DOMAIN db) \in 2 .. DamageSize
               /\ \A n \in DOMAIN db : db[n].time_end = Min(Times)
    IN  jobs = {} =>
          /\ ReportsAreRight
          /\ PruningIsUndone
          /\ few => TimesAreMended /\ OrphansAreFreed /\ DamageIsNoticed

\* The rows of db as the first document of the table, and as far as cut as
\* the second, whose rows have other ids at the same coordinates.
Described(rows, doc) ==
    [n \in DOMAIN rows |->
        rows[n] @@ [document |-> doc, token_count |-> 1 + rows[n].span_end - rows[n].span_start,
                    cost |-> rows[n].height, is_pinned |-> n % 3 = 0, embedded |-> n % 2 = 0,
                    time_start |-> rows[n].time_end]]

Renamed(rows, by) ==
    LET to(ref) == IF ref = NIL THEN NIL ELSE ref + by
    IN  [n \in {m + by : m \in DOMAIN rows} |->
            [rows[n - by] EXCEPT !.parent_id = to(@), !.left_child_id = to(@),
                !.right_child_id = to(@), !.preceding_neighbor_id = to(@),
                !.following_neighbor_id = to(@)]]

Table(cut) == Described(db, 1) @@ Described(Renamed(DeleteFromSpan(db, cut), nextId), 2)

AnswersAlike(t, doc) ==
    LET rows == Rows(t, doc)
        end  == PgSpanEnd(t, doc)
    IN  /\ PgStreams(t, doc) = Streams(t, doc)
        /\ PgMetrics(t, doc) = Metrics(t, doc)
        /\ PgCosts(t, doc) = Costs(t, doc)
        /\ PgPinned(t, doc) = Pinned(t, doc)
        /\ PgCharsPerToken(t, doc) = CharsPerToken(t, doc)
        /\ PgParentlessNodes(t, doc) = ParentlessNodes(t, doc)
        /\ PgCountLeaves(t, doc) = CountLeaves(t, doc)
        /\ <<PgLeafTokens(t, doc), PgRootTokens(t, doc)>> = <<LeafTokens(t, doc), RootTokens(t, doc)>>
        /\ PgTokenStats(t, doc).total = Total(t, DOMAIN rows, "token_count")
        /\ Len(PgPageSizes(t, doc, 2)) = Len(BatchesOf(t, doc, 2))
        /\ \A k \in DOMAIN BatchesOf(t, doc, 2) :
              PgPageSizes(t, doc, 2)[k] = Cardinality(BatchesOf(t, doc, 2)[k])
        /\ doc # NIL =>
              /\ end = (IF SpanEnd(rows) = NIL THEN 0 ELSE SpanEnd(rows))
              /\ PgReadyLeftChildren(t, doc) = ReadyLeftChildren(rows)
              /\ PgFrontiers(t, doc) = CompletionFrontiers(rows)
              /\ \A place \in {0, end \div 2, end} :
                    /\ PgLeavesAt(t, doc, place) = LeavesAt(rows, place)
                    /\ PgLeavesFrom(t, doc, place) = LeavesFromSpanStart(rows, place)
                    /\ \A budget \in {0, 2} :
                          PgRecentBefore(t, doc, budget, place) = Recent(t, doc, budget, place)
              /\ \A budget \in {0, 2} : PgRecent(t, doc, budget) = Recent(t, doc, budget, end)
              /\ \A n \in DOMAIN rows :
                    PgAtCoordinate(t, doc, rows[n].height, rows[n].level_index)
                        = AtCoordinates(t, doc, {Coordinate(t, n)})
              /\ \A time \in Times :
                    /\ PgLeavesAtStart(t, doc, time)
                          = LeavesAtStart(rows, [n \in DOMAIN rows |-> rows[n].time_end], time)
                    /\ PgLeavesAtEnd(t, doc, time)
                          = LeavesAtEnd(rows, [n \in DOMAIN rows |-> rows[n].time_start], time)
              /\ Halves(t, doc) = {} /\ Doubles(t, doc) = {}
              /\ Oversized(t, doc, 2) = LeafChunkSize(t, doc, 2)
              /\ Oversized(t, doc, 2) \subseteq PgMisfits(t, doc, 2, 2)

\* What a client is told of the progress of a sound document is never more than
\* there is to do, and it is all of it exactly when the engine finds nothing
\* left to do; a worker's last message speaks of every document that has nodes,
\* with the total its status gives; the sums over the documents are those of the table; the depth
\* shown is the height of the tallest tree once the document is complete, and
\* never more.
StatusIsHonest(t) ==
    LET status(doc) == GetDocumentStatus(t, doc, {1})
        whole       == GetSystemStatus(t, {1, 2})
        told        == EngineStatus(t, {1, 2})
        last        == RunWorkers(t, {1, 2}, EmptyStore)
    IN  /\ \A doc \in {1, 2} :
              LET rows     == Rows(t, doc)
                  progress == status(doc).progress
                  seen     == GetDocument(t, doc, {1}, 0)
              IN  /\ status(doc).exists <=> rows # EmptyStore
                  /\ progress = ListDocuments(t, {1, 2}, {1})[doc].progress
                  /\ \A depth \in seen.depths : depth <= MaxHeight(t, doc)
                  /\ Accepts(rows) =>
                        /\ progress.nodes <= progress.expected
                        /\ progress.nodes = progress.expected <=> IsCompleteForest(rows)
                        /\ IsCompleteForest(rows) => seen.depths = {MaxHeight(t, doc)}
                  /\ Accepts(rows) /\ doc \in DOMAIN told.completed =>
                        /\ told.completed[doc] <= told.expected[doc]
                        /\ told.completed[doc] = told.expected[doc] <=>
                              /\ IsCompleteForest(rows)
                              /\ VectorsMatch(rows, {n \in Leaves(rows) : rows[n].embedded})
                  /\ GetCostStats(t, {1, 2}, doc)[doc] = GetCostStats(t, {1, 2}, NIL)[doc]
        /\ DOMAIN last.documents = {doc \in {1, 2} : Rows(t, doc) # EmptyStore}
        /\ \A doc \in DOMAIN last.documents :
              Accepts(Rows(t, doc)) => last.documents[doc].total = status(doc).progress.expected
        /\ whole.nodes = Cardinality(DOMAIN t) /\ whole.depth = MaxHeight(t, NIL)
        /\ whole.leaves = CountLeaves(t, NIL)

Unlinked == [parent |-> NIL, preceding |-> NIL, following |-> NIL]

\* Once a document was appended to, summaries are measured by the ratio of its
\* leaves, whatever was remembered of it, and those of the other as before.
RatiosAreFresh(t) ==
    \A stale \in {InitialRatios(t, {1, 2}, TRUE), InitialRatios(t, {1, 2}, FALSE), 1 :> <<9, 9>>} :
        LET fresh == RatiosAfterAppend(stale, t, 1, TRUE)
        IN  /\ LeafTokens(t, 1) # 0 => RatioOf(fresh, t, 1) = CharsPerToken(t, 1)
            /\ RatioOf(fresh, t, 2) = RatioOf(stale, t, 2)

\* What is written of a document leaves the row of the other as it is, and a
\* document that was temporal is so until it is cleared, whatever is set of
\* its models; then it starts over.
DocumentRowsAreApart ==
    \A docs \in UNION {[ids -> {[r EXCEPT !.is_temporal = temporal] :
                                 r \in {NewDocument(path, 1, model, NIL) : path \in {NIL, 1}, model \in {1, 2}},
                                 temporal \in BOOLEAN}] : ids \in SUBSET {1, 2}} :
        \A path, model \in {NIL, 2} :
            LET with  == SetMetadata(docs, 1, path, model, model)
                fresh == AddDocument(WithoutDocument(docs, 1), 1, path, 1, 1, NIL)
            IN  /\ \A t \in {with, fresh, WithoutDocument(docs, 1), SetIsTemporal(docs, 1, TRUE)} :
                      DocumentRow(t, 2) = DocumentRow(docs, 2)
                /\ 1 \in DOMAIN docs => IsTemporal(with, 1) = IsTemporal(docs, 1)
                /\ 1 \in DOMAIN docs => EmbeddingModel(with, 1) # NIL
                /\ IsTemporal(fresh, 1) = FALSE
                /\ AddDocument(docs, 2, path, 1, 1, NIL)[2] = IF 2 \in DOMAIN docs THEN docs[2] ELSE NewDocument(path, 1, 1, NIL)
                /\ 1 \in DocumentsByPath(fresh, 2) <=> path = 2

\* Whatever another document in the same table holds, at the same coordinates
\* and the same positions, a document's store answers as if the table were its
\* own, both backends answer alike, and no write through it touches a row of
\* the other: a deletion by id, a clearing, an addition.
DocumentsAreApart ==
    jobs = {} =>
        \A cut \in {DocumentEnd \div 2, DocumentEnd} :
            LET t == Table(cut)
            IN  /\ \A doc \in {1, 2} :
                      /\ StoreView(t, doc) = StoreView(Rows(t, doc), doc)
                      /\ Rows(DeleteNodes(t, doc, DOMAIN t), 3 - doc) = Rows(t, 3 - doc)
                      /\ Rows(ClearDocument(t, doc), 3 - doc) = Rows(t, 3 - doc)
                      /\ Rows(AddBatch(t, doc, Described(Renamed(Rows(t, 3 - doc), nextId * 3), 3)), 3 - doc)
                            = Rows(t, 3 - doc)
                      /\ Rows(UpdateLinks(t, [n \in Of(t, doc) |-> Unlinked]), 3 - doc)
                            = Rows(t, 3 - doc)
                /\ DocumentRowsAreApart
                /\ RatiosAreFresh(t)
                /\ \A doc \in {NIL, 1, 2} : AnswersAlike(t, doc)
                /\ StatusIsHonest(t)
                /\ \A n \in DOMAIN t :
                      /\ IsRoot(t, t[n].document, n) \/ IsLeftChild(t, n) # IsRightChild(t, n)
                      /\ IsLeaf(t, t[n].document, n) <=> t[n].height = 0
                      /\ PgRepinned(t, n) = Repinned(t, n)
                      /\ UpdateParent(t, n, NIL) = PgSetColumn(t, n, "parent_id", NIL)
                      /\ PgDeleted(t, {n}) = Deleted(t, {n})
=============================================================================
