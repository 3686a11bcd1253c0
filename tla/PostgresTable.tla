----------------------------- MODULE PostgresTable -----------------------------
(***************************************************************************)
(* What repositories/postgres_node_repository.py asks of the table, for    *)
(* one document or for all.                                                *)
(***************************************************************************)
EXTENDS NodeTable

First(t, ids, Before(_, _)) == {n \in ids : \A m \in ids : ~Before(m, n)}

PgCountLeaves(t, doc) == Cardinality(WithoutChildren(t, Of(t, doc)))

PgCountEmbedded(t, doc) == Cardinality({n \in AtGround(t, Of(t, doc)) : t[n].embedded})

PgMaxHeight(t, doc) == Max({0} \cup {t[n].height : n \in Of(t, doc)})

PgLeafTokens(t, doc) == Total(t, AtGround(t, Of(t, doc)), "token_count")

PgRootTokens(t, doc) == Total(t, Parentless(t, Of(t, doc)), "token_count")

PgParentlessNodes(t, doc) ==
    [c \in {Coordinate(t, n) : n \in Parentless(t, {n \in DOMAIN t : t[n].document = doc})} |->
        {n \in DOMAIN t : t[n].document = doc /\ t[n].parent_id = NIL /\ Coordinate(t, n) = c}]

PgPinned(t, doc) == {n \in Of(t, doc) : t[n].is_pinned}

PgCosts(t, doc) == CostStats(t, Of(t, doc))

PgCharsPerToken(t, doc) ==
    LET leaves == AtGround(t, Of(t, doc))
    IN  IF Total(t, leaves, "token_count") = 0 THEN NIL
        ELSE <<Total(t, leaves, "span_end") - Total(t, leaves, "span_start"),
               Total(t, leaves, "token_count")>>

PgStreams(t, doc) ==
    [roots |-> ByStart(t, Parentless(t, Of(t, doc))),
     leaves |-> ByStart(t, AtGround(t, Of(t, doc))),
     all |-> ByStart(t, Of(t, doc))]

PgRecent(t, doc, budget) == RecentWithin(t, AtGround(t, Of(t, doc)), budget)

PgRecentBefore(t, doc, budget, before) ==
    RecentWithin(t, {n \in AtGround(t, {n \in DOMAIN t : t[n].document = doc}) :
                        t[n].span_end <= before}, budget)

PgLeavesAt(t, doc, position) ==
    {n \in Of(t, doc) : t[n].height = 0 /\ t[n].span_start <= position /\ t[n].span_end > position}

PgSpanEnd(t, doc) == Max({NIL} \cup {t[n].span_end : n \in Of(t, doc)})

PgReadyLeftChildren(t, doc) ==
    LET end == PgSpanEnd(t, doc)
    IN  {n \in Parentless(t, Of(t, doc)) :
            /\ t[n].level_index % 2 = 0
            /\ t[n].span_start > 0 \/ t[n].span_end < end
            /\ t[n].span_start = 0 \/ t[n].preceding_neighbor_id # NIL
            /\ t[n].span_end = end \/ t[n].following_neighbor_id # NIL}

PgAtCoordinate(t, doc, h, i) ==
    {n \in Of(t, doc) : t[n].height = h /\ t[n].level_index = i}

PgFrontiers(t, doc) ==
    LET roots == Parentless(t, Of(t, doc))
        first == First(t, roots, LAMBDA m, n : t[m].span_start < t[n].span_start)
    IN  IF roots = {} THEN {0} ELSE {t[n].span_end : n \in first}

PgLeavesFrom(t, doc, start) ==
    SetToSortSeq({n \in AtGround(t, Of(t, doc)) : t[n].span_start >= start},
                 LAMBDA m, n : t[m].span_start < t[n].span_start)

PgLeavesAtStart(t, doc, time) ==
    First(t, {n \in AtGround(t, Of(t, doc)) : t[n].time_end >= time},
          LAMBDA m, n : t[m].time_end < t[n].time_end)

PgLeavesAtEnd(t, doc, time) ==
    First(t, {n \in AtGround(t, Of(t, doc)) : t[n].time_start <= time},
          LAMBDA m, n : t[m].time_start > t[n].time_start)

PgMetrics(t, doc) ==
    LET ids   == Of(t, doc)
        on(h) == Cardinality({n \in Parentless(t, ids) : t[n].height = h})
    IN  [nodes |-> Cardinality(ids), leaves |-> Cardinality(AtGround(t, ids)),
         roots |-> Cardinality(Parentless(t, ids)), height |-> PgMaxHeight(t, doc),
         embedded |-> PgCountEmbedded(t, doc),
         pairs |-> MapThenSumSet(LAMBDA h : on(h) \div 2, {t[n].height : n \in Parentless(t, ids)})]

\* Leaves below the target are reported as well: only here.
PgMisfits(t, doc, least, most) ==
    {n \in AtGround(t, Of(t, doc)) : t[n].token_count < least \/ t[n].token_count > most}

\* One page after another, each a query of its own without an ORDER BY: the
\* rows of every page are those of some order of the table.
PgPageSizes(t, doc, size) ==
    LET left[k \in Nat] == IF k = 0 THEN Cardinality(Of(t, doc)) ELSE left[k - 1] - size
    IN  [k \in 1 .. ((Cardinality(Of(t, doc)) + size - 1) \div size) |-> Min({size, left[k - 1]})]

PgDeleted(t, ids) == [n \in DOMAIN t \ ids |-> t[n]]

PgRepinned(t, n) == [m \in DOMAIN t |-> [t[m] EXCEPT !.is_pinned = (m = n) \/ @]]

PgSetColumn(t, n, column, value) ==
    [m \in DOMAIN t |-> IF m = n THEN [t[m] EXCEPT ![column] = value] ELSE t[m]]

PgTokenStats(t, doc) ==
    LET ids == Of(t, doc)
    IN  [total |-> Total(t, ids, "token_count"), nodes |-> Cardinality(ids),
         least |-> IF ids = {} THEN 0 ELSE Min({t[n].token_count : n \in ids}),
         most |-> IF ids = {} THEN 0 ELSE Max({t[n].token_count : n \in ids})]
=============================================================================
