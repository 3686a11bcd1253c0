--------------------------- MODULE ForestInvariant ---------------------------
(***************************************************************************)
(* The inductive invariant behind the theorems of DocumentForestProofs.    *)
(* The properties of DocumentForest do not follow from one another step by *)
(* step: that a commit finds its coordinate free rests on the index order  *)
(* of the leaves, that a truncation keeps the children of a kept parent    *)
(* rests on the order of the times.  The parts below say what they need.   *)
(*                                                                         *)
(* It holds when clients behave as OrderlyClients says: the two findings   *)
(* on this table (an empty unit, times out of order) are the reason.       *)
(*                                                                         *)
(* The last section states what the queries of a document answer.          *)
(***************************************************************************)
EXTENDS DocumentForest, QueryRequests

CONSTANT Clock   \* bound: the times of the leaves and of the queries of TimeWindowsAreExact

ASSUME ClockAssumption ==
    /\ Clock \subseteq Nat
    /\ \E first, last \in Clock : \A t \in Clock : first <= t /\ t <= last

OrderlyClients == 0 \notin ChunkLens /\ InOrder

\* No row is empty.
SpansForward == \A n \in DOMAIN db : db[n].span_start < db[n].span_end

OneRowPerCoordinate ==
    \A m, n \in DOMAIN db : SameCoordinate(db[m], db[n]) => m = n

LeavesHaveNoChildren ==
    \A n \in Leaves(db) : db[n].left_child_id = NIL /\ db[n].right_child_id = NIL

\* Every row starts where some leaf starts and ends where some leaf ends.
StartsAtLeaf ==
    \A n \in DOMAIN db : \E m \in Leaves(db) : db[m].span_start = db[n].span_start

EndsAtLeaf ==
    \A n \in DOMAIN db : \E m \in Leaves(db) : db[m].span_end = db[n].span_end

\* Later in the text is not earlier in time, for leaves and summaries alike.
TimesFollowSpans ==
    \A m, n \in DOMAIN db :
        db[m].span_end <= db[n].span_end => db[m].time_end <= db[n].time_end

\* The index order of the rows of one level is their text order.
LevelsInOrder ==
    \A m, n \in DOMAIN db :
        db[m].height = db[n].height /\ db[m].level_index < db[n].level_index
        => db[m].span_end <= db[n].span_start

\* A row that shares text with a higher one hangs below it: it has a parent,
\* and the parent does not reach out of the higher row.
OverlapMeansUnder ==
    \A m, n \in DOMAIN db :
        /\ db[m].height < db[n].height
        /\ db[m].span_start < db[n].span_end
        /\ db[n].span_start < db[m].span_end
        => LET p == db[m].parent_id
           IN  /\ p # NIL
               /\ db[n].span_start <= db[p].span_start
               /\ db[p].span_end <= db[n].span_end

\* Rows at consecutive coordinates of one level meet.
SiblingsMeet ==
    \A m, n \in DOMAIN db :
        db[m].height = db[n].height /\ db[n].level_index = db[m].level_index + 1
        => db[m].span_end = db[n].span_start

\* What a job works on is a left and a right sibling.
JobsPairSiblings ==
    \A job \in jobs :
        /\ job.level_index % 2 = 0
        /\ db[job.right].height = db[job.left].height
        /\ db[job.right].level_index = db[job.left].level_index + 1

ForestInv ==
    /\ TypeOK
    /\ SpansForward
    /\ OneRowPerCoordinate
    /\ LeavesHaveNoChildren
    /\ StartsAtLeaf
    /\ EndsAtLeaf
    /\ TimesFollowSpans
    /\ LevelsInOrder
    /\ OverlapMeansUnder
    /\ LeavesTile
    /\ SiblingsMeet
    /\ ParentsMatchChildren
    /\ NeighborsMatchCoordinates
    /\ JobsNotStale
    /\ JobsPairSiblings

-----------------------------------------------------------------------------
(* The shape of the forest *)

OccupiedCoordinates == {<<db[n].height, db[n].level_index>> : n \in DOMAIN db}

\* The rows at their coordinates.
Shape == INSTANCE SummaryForest
            WITH forest <- OccupiedCoordinates, MaxGrowth <- MaxChunks

\* The rows of the table implement the forest of coordinates that the engine
\* schedules by: appends, commits, failures, restarts and truncations (time
\* stamps in order) do nothing to its shape that SummaryForest does not allow.
KeepsShape == Shape!ForestSpec

-----------------------------------------------------------------------------
(* The text of the client *)

\* The leaves in document order, each as the length and time of its chunk.
VisibleText ==
    [k \in 1 .. Cardinality(Leaves(db)) |->
        LET n == CHOOSE n \in Leaves(db) :
                    Cardinality({m \in Leaves(db) : db[m].span_start < db[n].span_start}) = k - 1
        IN  [len |-> db[n].span_end - db[n].span_start, time |-> db[n].time_end]]

Client == INSTANCE DocumentText
            WITH text <- VisibleText, Lens <- ChunkLens, MaxBatch <- MaxChunks,
                 Stamps <- Times

\* The stored document is the sequence of chunks the client sent and did not
\* take back: no summary, failure, restart or truncation reorders, loses or
\* doubles a chunk, even when the times are out of order and a time
\* truncation cuts a hole that delete_nodes_from_time closes by moving spans.
ShowsClientText == Client!TextSpec

-----------------------------------------------------------------------------
(* What the queries answer in a stored document *)

\* Two ways to find a node's relatives, coordinates and link columns, give the
\* same relatives in every half-built forest, truncated or not: the retrieval
\* climbs by coordinate what the engine linked by id.
NavigationAgrees ==
    \A n \in DOMAIN db :
        LET p == db[n].parent_id
        IN  /\ AncestorNodes(db, {n}) = IF p = NIL THEN {} ELSE {p} \cup AncestorNodes(db, {p})
            /\ SiblingNode(db, n) =
                  IF p = NIL THEN NodeAt(db, SiblingCoordinate(db, n)[1], SiblingCoordinate(db, n)[2])
                  ELSE OtherChild(db, p, n)
            /\ NeighborNode(db, n, 1) = db[n].following_neighbor_id
            /\ NeighborNode(db, n, -1) = db[n].preceding_neighbor_id
            /\ db[n].height > 0 =>
                  \A c \in {GetChildren(db, n)[1], GetChildren(db, n)[2]} : db[c].parent_id = n

\* A window of characters that is not empty, through every way that takes one.
AskedForSpan(from, to) ==
    LET r == [Plain EXCEPT !.seeds = 1, !.budget = 2, !.from = from, !.to = to]
    IN  {ExecuteQuery(ClientMessage(CommandQuery(r)), Unset), QueryService(r, Unset)}
          \cup (IF from = 0 THEN {ContextQuery(to, 2, 1)} ELSE {})
          \cup (IF from = 0 /\ to = DocumentEnd THEN {Retrieve(ClientMessage(r), Unset)} ELSE {})

\* A window of characters becomes the least run of whole leaves around it,
\* whichever way it is asked for;
\* everything before the completion frontier stands under the first root; the
\* rows drawn for a window are those that reach into it, each once; and the
\* list of left children that are ready leaves out no pair that waits, unless
\* the coordinate before it is still free (it asks for a preceding neighbour
\* the pair does not need), and adds only a last node that has no sibling yet.
SpanQueriesAgree ==
    db # EmptyStore =>
        /\ \A from, to \in 0 .. DocumentEnd : from < to =>
              /\ \A q \in AskedForSpan(from, to) :
                  LET windows == QueryWindows(db, FALSE, <<>>, <<>>, q)
                  IN  \E w \in windows : windows = {w} /\
                    \A n \in Leaves(db) :
                       (w.start <= db[n].span_start /\ db[n].span_end <= w.end)
                           <=> (from < db[n].span_end /\ db[n].span_start < to)
              /\ LET drawn == Overlapping(db, from, to, born, 1)
                 IN  drawn.total = Cardinality({n \in DOMAIN db \ Leaves(db) :
                                        \E i \in from .. (to - 1) : db[n].span_start <= i
                                                                    /\ i < db[n].span_end})
        /\ \A f \in CompletionFrontiers(db) : \A r \in Roots(db) :
              db[r].span_start = 0 \/ f <= db[r].span_start
        /\ LET waiting == {p[1] : p \in {p \in Roots(db) \X Roots(db) : IsEligiblePair(db, p[1], p[2])}}
           IN  /\ \A n \in waiting \ ReadyLeftChildren(db) :
                     db[n].level_index > 0 /\ NodeAt(db, db[n].height, db[n].level_index - 1) = NIL
               /\ \A n \in ReadyLeftChildren(db) \ waiting :
                     SiblingNode(db, n) = NIL /\ db[n].span_end = DocumentEnd

\* What retrieval and the tools ask of the rows is answered alike by
\* coordinate and by link, and exactly, in every half-built forest.
QueriesAgree == NavigationAgrees /\ SpanQueriesAgree

\* One time for every leaf, later for later leaves.
Timed ==
    {at \in [Leaves(db) -> Clock] :
        \A m, n \in Leaves(db) : db[m].span_start < db[n].span_start => at[m] < at[n]}

\* A window of time, through every way that takes one.  The recall tool gets
\* one end of it from the model, or asks for more than the bounds of its search.
AskedForTime(since, until) ==
    LET r == [Plain EXCEPT !.budget = 2, !.since = since, !.until = until]
    IN  {ExecuteQuery(ClientMessage(CommandQuery(r)), Unset), QueryService(r, Unset),
         RecallQuery(2, since, Unset, Unset, until), RecallQuery(2, Unset, until, since, Unset),
         AgentRecall(2, since, Unset, 3, Min(Clock), until),
         AgentRecall(3, Min(Clock), until, 2, since, Max(Clock))}

\* A window of time becomes the leaves that overlap it and no other, whichever
\* way it is asked for, when the leaves begin and end in document order and no
\* two of them together; a time between two leaves is refused, one before or
\* after all of them gives an empty answer.  (The chunks of one message do have
\* its times together: then the window may begin or end at any of them.  And
\* when a time truncation has left a summary that reaches beyond the leaves,
\* a window up to the end is refused.)
TimeWindowsAreExact ==
    \A begins, ends \in Timed :
        (\A n \in Leaves(db) : begins[n] <= ends[n]) =>
            \A t0 \in Clock \cup {Unset}, t1 \in Clock \cup {Unset} :
                LET last == IF t1 = Unset THEN Max(Clock) ELSE t1
                    inside == {n \in Leaves(db) : t0 <= ends[n] /\ begins[n] <= last}
                    toTheEnd == t1 = Unset
                IN  (t0 <= last /\ (toTheEnd => t0 # Unset /\ LeavesAt(db, SpanEnd(db) - 1) # {})) =>
                      \A q \in AskedForTime(t0, t1) :
                        QueryWindows(db, TRUE, begins, ends, q) =
                          IF inside # {}
                          THEN {[start |-> Min({db[n].span_start : n \in inside}),
                                 end |-> Max({db[n].span_end : n \in inside})]}
                          ELSE IF \/ \A n \in Leaves(db) : ends[n] < t0
                                  \/ \A n \in Leaves(db) : last < begins[n]
                          THEN {Nothing} ELSE {}
=============================================================================
