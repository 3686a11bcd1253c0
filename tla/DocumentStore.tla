----------------------------- MODULE DocumentStore -----------------------------
(***************************************************************************)
(* document_store.py: the table seen through one document.  Some reads     *)
(* filter in the query, some ask by id and drop what belongs to another    *)
(* document, some count on the caller (update_parent_references_batch).    *)
(***************************************************************************)
EXTENDS NodeTable

PinDepthMax == 2

\* get, get_many and get_nodes: by id, then the document is compared.
GetMany(t, doc, ids) == {n \in ids \cap DOMAIN t : t[n].document = doc}

\* add_node, add_batch and upsert_nodes_batch put the document's id over what
\* the data says.
AddBatch(t, doc, new) == Upsert(t, [n \in DOMAIN new |-> [new[n] EXCEPT !.document = doc]])

\* Seeded fault: the ids are deleted as they come.
DeleteNodes_Unscoped(t, doc, ids) == Deleted(t, ids)

DeleteNodes(t, doc, ids) == Deleted(t, GetMany(t, doc, ids))

InSpan(t, doc, from, to, limit, minHeight) ==
    Overlapping(Rows(t, doc), from, to, limit, minHeight)

\* What the wrappers of the counting queries return.
Counts(t, doc) ==
    [nodes |-> Cardinality(Of(t, doc)), leaves |-> CountLeaves(t, doc),
     embedded |-> CountEmbedded(t, doc), height |-> MaxHeight(t, doc),
     leafTokens |-> LeafTokens(t, doc), rootTokens |-> RootTokens(t, doc),
     pinned |-> Cardinality(Pinned(t, doc)), costs |-> Costs(t, doc)]

\* get_by_height_and_level and get_by_height_levels
AtPlaces(t, doc, coordinates) == AtCoordinates(t, doc, coordinates)

\* get_root_nodes, and the iterators over roots, leaves and all nodes
Walks(t, doc) == [roots |-> Parentless(t, Of(t, doc)), streams |-> Streams(t, doc)]

\* get_all and get_all_paginated
Everything(t, doc) == [all |-> Of(t, doc), pages |-> BatchesOf(t, doc, 2)]

ChildlessNodes(t, doc) == WithoutChildren(t, Of(t, doc))

\* The scans of the engine and the appends read these.
Places(t, doc) ==
    [rightmost |-> RightmostLeaves(Rows(t, doc)), parentless |-> ParentlessNodes(t, doc),
     ready |-> ReadyLeftChildren(Rows(t, doc))]

\* The contextual gate reads these.
Gates(t, doc) ==
    [frontiers |-> CompletionFrontiers(Rows(t, doc)), ratio |-> CharsPerToken(t, doc),
     beyond |-> [f \in CompletionFrontiers(Rows(t, doc)) |-> LeavesFromSpanStart(Rows(t, doc), f)]]

\* The engine remembers the ratio of a document until the next append to it:
\* a truncation or a clearing leaves it as it was.  Four characters to a token
\* stand for a document without leaves.
InitialRatios(t, listed, managed) ==
    [doc \in {d \in listed : managed /\ LeafTokens(t, d) # 0} |-> CharsPerToken(t, doc)]

RatioOf(ratios, t, doc) ==
    IF doc \in DOMAIN ratios THEN ratios[doc]
    ELSE IF LeafTokens(t, doc) = 0 THEN <<4, 1>> ELSE CharsPerToken(t, doc)

RatiosAfterAppend(ratios, t, doc, managed) ==
    [d \in DOMAIN ratios \cup (IF managed /\ LeafTokens(t, doc) # 0 THEN {doc} ELSE {}) |->
        IF managed /\ d = doc /\ LeafTokens(t, doc) # 0 THEN CharsPerToken(t, doc) ELSE ratios[d]]

\* The batches of links are written as they come, whatever document the ids
\* belong to.
UpdateLinks(t, links) ==
    [n \in DOMAIN t |-> IF n \in DOMAIN links
                        THEN [t[n] EXCEPT !.parent_id = links[n].parent,
                                          !.preceding_neighbor_id = links[n].preceding,
                                          !.following_neighbor_id = links[n].following]
                        ELSE t[n]]

\* run_validation_queries, of which these are the figures and the sizes
Validation(t, doc, most) == [metrics |-> Metrics(t, doc), large |-> Oversized(t, doc, most)]

-----------------------------------------------------------------------------
(* DocumentTreeNavigator: the navigator works on the whole table, what it    *)
(* finds in another document is dropped.                                    *)

Parent(t, n) == IF t[n].parent_id \in DOMAIN t THEN t[n].parent_id ELSE NIL

TreeAncestors(t, doc, ids) ==
    GetMany(t, doc, AncestorNodes(Rows(t, doc), GetMany(t, doc, ids)))

TreeChildren(t, doc, n) ==
    IF GetMany(t, doc, {n}) = {} THEN <<NIL, NIL>> ELSE GetChildren(Rows(t, doc), n)

\* get_node_depth: one more than the parent's.
Depth(t, n) ==
    LET trail[k \in Nat] ==
            IF k = 0 THEN n ELSE IF trail[k - 1] = NIL THEN NIL ELSE Parent(t, trail[k - 1])
    IN  Cardinality({k \in 1 .. Cardinality(DOMAIN t) : trail[k] # NIL})

IsLeaf(t, doc, n) == GetMany(t, doc, {n}) # {} /\ WithoutChildren(t, {n}) # {}

IsRoot(t, doc, n) == GetMany(t, doc, {n}) # {} /\ t[n].parent_id = NIL

IsLeftChild(t, n) == Parent(t, n) # NIL /\ t[Parent(t, n)].left_child_id = n

IsRightChild(t, n) == Parent(t, n) # NIL /\ t[Parent(t, n)].right_child_id = n

Beside(t, doc, n) ==
    LET rows == Rows(t, doc)
    IN  [sibling |-> SiblingNode(rows, n), before |-> NeighborNode(rows, n, -1),
         after |-> NeighborNode(rows, n, 1)]

-----------------------------------------------------------------------------
(* DocumentStore *)

PinnedNodes(t, doc) == {n \in Pinned(t, doc) : Depth(t, n) <= PinDepthMax}

TemporalRange(t, doc) ==
    LET leaves == AtGround(t, Of(t, doc))
    IN  IF leaves = {} THEN <<NIL, NIL>>
        ELSE <<Min({t[n].time_start : n \in leaves}), Max({t[n].time_end : n \in leaves})>>

AvgLeafTokens(t, doc) ==
    IF CountLeaves(t, doc) = 0 THEN NIL ELSE LeafTokens(t, doc) \div CountLeaves(t, doc)

RootStatistics(t, doc) ==
    IF Parentless(t, Of(t, doc)) = {} THEN NIL ELSE <<RootTokens(t, doc), MaxHeight(t, doc)>>

ClearDocument(t, doc) == ClearedOf(t, doc)

UpdateParent(t, n, p) == SetColumn(t, n, "parent_id", p)

\* Everything a document's store answers.
StoreView(t, doc) ==
    [counts |-> Counts(t, doc), walks |-> Walks(t, doc), everything |-> Everything(t, doc),
     leaves |-> ChildlessNodes(t, doc), places |-> Places(t, doc), gates |-> Gates(t, doc),
     validation |-> Validation(t, doc, 2), pinned |-> PinnedNodes(t, doc),
     corners |-> AtPlaces(t, doc, {<<0, 0>>, <<0, 1>>, <<1, 0>>}),
     drawn |-> InSpan(t, doc, 0, 1, 2, 1),
     times |-> TemporalRange(t, doc), average |-> AvgLeafTokens(t, doc),
     roots |-> RootStatistics(t, doc),
     tree |-> [n \in Of(t, doc) |->
                 [above |-> TreeAncestors(t, doc, {n}), children |-> TreeChildren(t, doc, n),
                  beside |-> Beside(t, doc, n), depth |-> Depth(t, n)]]]

(***************************************************************************)
(* The documents table: one row for each document, read and written by the *)
(* repositories of both backends.  A column that is NULL holds NIL; a path *)
(* or a model is a number.                                                 *)
(***************************************************************************)
NewDocument(path, embedding, summary, guidance) ==
    [file_path |-> path, embedding_model |-> embedding, summary_model |-> summary,
     summarization_guidance |-> guidance, is_temporal |-> FALSE]

\* The columns of the models are NOT NULL, the id is the primary key: an
\* INSERT that breaks either is refused and leaves the table as it was.
Inserted(docs, id, row) ==
    IF id \in DOMAIN docs \/ NIL \in {row.embedding_model, row.summary_model} THEN docs
    ELSE [d \in DOMAIN docs \cup {id} |-> IF d = id THEN row ELSE docs[d]]

AddDocument(docs, id, path, embedding, summary, guidance) ==
    Inserted(docs, id, NewDocument(path, embedding, summary, guidance))

\* clear_document takes the row with the nodes; delete_document_nodes and the
\* truncations leave it.
WithoutDocument(docs, id) == [d \in DOMAIN docs \ {id} |-> docs[d]]

DocumentRow(docs, id) == IF id \in DOMAIN docs THEN {docs[id]} ELSE {}

\* filter_by(file_path = ...).first() without an order
DocumentsByPath(docs, path) == {d \in DOMAIN docs : path # NIL /\ docs[d].file_path = path}

EmbeddingModel(docs, id) == IF id \in DOMAIN docs THEN docs[id].embedding_model ELSE NIL

IsTemporal(docs, id) == IF id \in DOMAIN docs THEN docs[id].is_temporal ELSE NIL

\* A document that is not there: ValueError, nothing is written.
SetIsTemporal(docs, id, temporal) ==
    [d \in DOMAIN docs |-> IF d = id THEN [docs[d] EXCEPT !.is_temporal = temporal] ELSE docs[d]]

\* set_metadata: what is None stays as it is; a row that is missing is made,
\* without the guidance.
SetMetadata(docs, id, path, embedding, summary) ==
    LET new(old, value) == IF value = NIL THEN old ELSE value
    IN  IF id \in DOMAIN docs
        THEN [docs EXCEPT ![id].file_path = new(@, path),
                          ![id].embedding_model = new(@, embedding),
                          ![id].summary_model = new(@, summary)]
        ELSE Inserted(docs, id, NewDocument(path, embedding, summary, NIL))
=============================================================================
