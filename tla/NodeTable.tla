------------------------------- MODULE NodeTable -------------------------------
(***************************************************************************)
(* The table tree_nodes with the rows of every document, and the columns    *)
(* the forest does not need: the document of a row, its tokens, its cost,  *)
(* its times, whether it is pinned and whether its embedding is there.     *)
(***************************************************************************)
EXTENDS StoreQueries

\* document_id = None asks for the rows of every document.
Of(t, doc) == {n \in DOMAIN t : doc = NIL \/ t[n].document = doc}

\* The rows of one document as a store.
Rows(t, doc) == [n \in Of(t, doc) |-> t[n]]

\* ORDER BY span_start: rows that start together come in any order.
ByStart(t, ids) ==
    [s \in {t[n].span_start : n \in ids} |-> {n \in ids : t[n].span_start = s}]

\* coalesce(sum(column), 0)
Total(t, ids, column) == MapThenSumSet(LAMBDA n : t[n][column], ids)

\* A leaf for most queries is a row of height 0, for some one without children.
WithoutChildren(t, ids) == {n \in ids : t[n].left_child_id = NIL /\ t[n].right_child_id = NIL}

AtGround(t, ids) == {n \in ids : t[n].height = 0}

Parentless(t, ids) == {n \in ids : t[n].parent_id = NIL}

CostStats(t, ids) ==
    [cost |-> Total(t, ids, "cost"), nodes |-> Cardinality(ids),
     leaves |-> Cardinality(AtGround(t, ids)),
     summaries |-> Cardinality(ids) - Cardinality(AtGround(t, ids))]

\* Leaves from the end of the text backwards, while the leaves behind one
\* leave something of the budget.
RecentWithin(t, leaves, budget) ==
    {n \in leaves :
        budget > 0 /\ Total(t, {m \in leaves : t[m].span_end > t[n].span_end}, "token_count") < budget}

\* ON CONFLICT (id) DO UPDATE: the height, the pin and the embedding stay.
Upsert(t, new) ==
    [n \in DOMAIN t \cup DOMAIN new |->
        IF n \notin DOMAIN t THEN new[n]
        ELSE IF n \notin DOMAIN new THEN t[n]
        ELSE [new[n] EXCEPT !.height = t[n].height, !.is_pinned = t[n].is_pinned,
                            !.embedded = t[n].embedded]]

-----------------------------------------------------------------------------
(* What backends/sqlite_repositories.py asks of it.                         *)

CountLeaves(t, doc) == Cardinality(WithoutChildren(t, Of(t, doc)))

CountEmbedded(t, doc) == Cardinality({n \in AtGround(t, Of(t, doc)) : t[n].embedded})

MaxHeight(t, doc) == Max({0} \cup {t[n].height : n \in Of(t, doc)})

LeafTokens(t, doc) == Total(t, AtGround(t, Of(t, doc)), "token_count")

RootTokens(t, doc) == Total(t, Parentless(t, Of(t, doc)), "token_count")

\* In the order of height and level_index: by coordinate.
ParentlessNodes(t, doc) ==
    [c \in {Coordinate(t, n) : n \in Parentless(t, {n \in DOMAIN t : t[n].document = doc})} |->
        {n \in DOMAIN t : t[n].document = doc /\ t[n].parent_id = NIL /\ Coordinate(t, n) = c}]

Pinned(t, doc) == {n \in Of(t, doc) : t[n].is_pinned}

Costs(t, doc) == CostStats(t, Of(t, doc))

\* Total characters and total tokens, or nothing.
CharsPerToken(t, doc) ==
    LET leaves == AtGround(t, Of(t, doc))
    IN  IF Total(t, leaves, "token_count") = 0 THEN NIL
        ELSE <<Total(t, leaves, "span_end") - Total(t, leaves, "span_start"),
               Total(t, leaves, "token_count")>>

Streams(t, doc) ==
    [roots |-> ByStart(t, Parentless(t, Of(t, doc))),
     leaves |-> ByStart(t, AtGround(t, Of(t, doc))),
     all |-> ByStart(t, Of(t, doc))]

Recent(t, doc, budget, before) ==
    RecentWithin(t, {n \in AtGround(t, Of(t, doc)) : t[n].span_end <= before}, budget)

BatchesOf(t, doc, size) == Pages(Rows(t, doc), size)

AtCoordinates(t, doc, coordinates) == NodesAt(Rows(t, doc), coordinates)

Metrics(t, doc) ==
    LET rows == Rows(t, doc)
        on(h) == Cardinality({n \in Roots(rows) : rows[n].height = h})
    IN  [nodes |-> Cardinality(DOMAIN rows), leaves |-> Cardinality(Leaves(rows)),
         roots |-> Cardinality(Roots(rows)), height |-> MaxHeight(t, doc),
         embedded |-> CountEmbedded(t, doc),
         pairs |-> MapThenSumSet(LAMBDA h : on(h) \div 2, {rows[n].height : n \in Roots(rows)})]

\* One child and not both.
Halves(t, doc) ==
    {n \in DOMAIN t : /\ t[n].document = doc
                      /\ (t[n].left_child_id = NIL) # (t[n].right_child_id = NIL)}

Doubles(t, doc) ==
    {c \in {Coordinate(t, n) : n \in Of(t, doc)} :
        Cardinality(NodesAt(Rows(t, doc), {c})) > 1}

Oversized(t, doc, most) ==
    {n \in DOMAIN t : t[n].document = doc /\ t[n].height = 0 /\ t[n].token_count > most}

\* The same by validation/tree.py
LeafChunkSize(t, doc, most) ==
    {n \in WithoutChildren(t, Of(t, doc)) : t[n].token_count > 0 /\ t[n].token_count > most}

Deleted(t, ids) == [n \in DOMAIN t \ ids |-> t[n]]

ClearedOf(t, doc) == [n \in {n \in DOMAIN t : t[n].document # doc} |-> t[n]]

Repinned(t, n) == [m \in DOMAIN t |-> [t[m] EXCEPT !.is_pinned = (m = n) \/ @]]

\* update_cost, update_embedding and the updates of the preceding context
SetColumn(t, n, column, value) == [m \in DOMAIN t |-> IF m = n THEN [t[m] EXCEPT ![column] = value] ELSE t[m]]
===============================================================================
