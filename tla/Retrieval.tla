----------------------------- MODULE Retrieval -----------------------------
(***************************************************************************)
(* One query against a document that goes on changing: RetrievalService    *)
(* fixes a window of leaves and the leaves to show verbatim, waits for the *)
(* embedding of the query, and then, without another await, collects a     *)
(* covering set of nodes around the seeds and rolls its frontier up until  *)
(* it fits the token budget.                                               *)
(*                                                                         *)
(* The document is the forest of SummaryForest; while the query waits it   *)
(* is appended to, summarised and truncated.  A node is its coordinate.    *)
(* Which leaves are found as seeds and in which order pairs are rolled up  *)
(* depends on floating-point scores: both are left open.  No code sets     *)
(* is_pinned, so the pinned nodes here are the verbatim leaves.  A failing *)
(* embedding call ends the query and is left out.                          *)
(***************************************************************************)
EXTENDS SummaryForest, FiniteSetsExt

CONSTANTS
    Tokens,           \* token_count of the node at a coordinate
    Budgets,          \* budget_tokens a query can ask for
    NoBudget,         \* ... or none
    VerbatimBudgets,  \* recent_verbatim_budget a query can ask for
    MaxSeeds,         \* num_seeds
    MaxLeaves         \* bound: leaves of the document

ASSUME RetrievalAssumption ==
    /\ NoBudget \notin Nat
    /\ Budgets \subseteq Nat \cup {NoBudget}
    /\ VerbatimBudgets \subseteq Nat
    /\ MaxSeeds \in Nat
    /\ MaxLeaves \in Nat
    /\ MaxGrowth \in Nat

VARIABLE query

queryVars == <<forest, query>>

NoQuery == [pc |-> "idle"]

QueryInit == ForestInit /\ query = NoQuery

-----------------------------------------------------------------------------
(* Coordinates *)

TokensOf(S) == MapThenSumSet(LAMBDA c : Tokens[c], S)

MaxHeight == IF forest = {} THEN 0 ELSE Max({c[1] : c \in forest})

Ancestors(c, top) == {<<h, c[2] \div Width[h - c[1]]>> : h \in (c[1] + 1) .. top}

Over(c, i) == FirstLeaf(c) <= i /\ i < PastLeaf(c)

IsWithin(c, first, last) == first <= FirstLeaf(c) /\ PastLeaf(c) - 1 <= last

Highest(S) == CHOOSE c \in S : \A d \in S : d[1] <= c[1]

\* Seeded fault: the climb does not stop at the document's height.
EdgeMax_NoTop(i, first, last) ==
    Highest({c \in {Leaf(i)} \cup Ancestors(Leaf(i), MaxHeight + 1) :
                /\ IsWithin(c, first, last)
                /\ i \in {FirstLeaf(c), PastLeaf(c) - 1}})

\* highest_ancestor_within_window of the leaf at an edge of the window: it
\* shares that edge with its ancestor and stays inside the other.
EdgeMax(i, first, last) ==
    Highest({c \in {Leaf(i)} \cup Ancestors(Leaf(i), MaxHeight) :
                /\ IsWithin(c, first, last)
                /\ i \in {FirstLeaf(c), PastLeaf(c) - 1}})

-----------------------------------------------------------------------------
(* The covering set: _build_coordinate_closure *)

\* Seeded fault: the node is enqueued with its ancestors but no sibling.
Enqueued_NoSiblings(c) == {c} \cup Ancestors(c, MaxHeight)

Enqueued(c) ==
    LET line == {c} \cup Ancestors(c, MaxHeight)
    IN  line \cup {SiblingOf(a) : a \in line}

PinnedAncestors(pinned) == UNION {Ancestors(c, MaxHeight) : c \in pinned}

\* The coordinates around the seeds, the verbatim leaves and the edges of the
\* window, with all roots; only those inside the window, and none above a
\* verbatim leaf.
Coverage(seeds, pinned, q) ==
    LET above == PinnedAncestors(pinned)
    IN  {c \in (UNION {Enqueued(s) : s \in seeds \cup pinned \cup q.edges}) \cup Tops(forest) :
            /\ c \in forest
            /\ IsWithin(c, q.first, q.last)
            /\ c \notin above}

\* Seeds are registered by their ids as well, and then no filter stands between
\* them and the answer: all, if the vector index did not keep the coordinates
\* (as the Python index does not: VectorIndexes); and otherwise those within
\* the characters of the window, which after a truncation may be the characters
\* of other leaves.  How far from the window there can be such a seed: a search
\* limited to the window, or to what is before its verbatim leaves, finds none
\* beyond it; one of the whole document finds leaves appended since; and after
\* a truncation, or as a lexical hit, any leaf may be one.
Reaches ==
    {"window", "anywhere"} \cup (IF query.limited THEN {} ELSE {"behind"})

Strays(seeds, reach) ==
    IF reach = "window" THEN {}
    ELSE {c \in seeds \cap forest : ~IsWithin(c, query.first, query.last)}

-----------------------------------------------------------------------------
(* Rolling up: GreedyTilingGenerator *)

\* Every node of a covering set is reached from its top nodes, so the frontier
\* is what has no child in the set.
FrontierOf(nodes) == {c \in nodes : ChildrenOf(c) \cap nodes = {}}

Below(p, nodes) == ChildrenOf(p) \cap nodes

\* _compute_candidate
Eligible(p, nodes, frontier) ==
    p \in nodes /\ Below(p, nodes) # {} /\ Below(p, nodes) \subseteq frontier

Candidates(from, nodes, frontier) ==
    {p \in {ParentOf(c) : c \in from} : Eligible(p, nodes, frontier)}

OverBudget == query.budget # NoBudget /\ TokensOf(query.frontier) > query.budget

-----------------------------------------------------------------------------
(* The query *)

\* The latest leaves of the window; the one that crosses the budget counts.
Verbatim(first, last, budget) ==
    {i \in first .. last : TokensOf({Leaf(k) : k \in (i + 1) .. last}) < budget}

\* A query for a part of the document is windowed, and its search is limited to
\* the window; so is one for all leaves that leaves out some characters of the
\* first or the last.
Ask ==
    /\ query.pc = "idle"
    /\ \E first, last \in 0 .. (Cardinality(LeavesOf(forest)) - 1),
          b \in Budgets, v \in VerbatimBudgets, windowed \in BOOLEAN :
          /\ first <= last
          /\ windowed \/ (first = 0 /\ last = Cardinality(LeavesOf(forest)) - 1)
          /\ query' = [pc |-> "asking", first |-> first, last |-> last,
                       edges |-> {EdgeMax(first, first, last), EdgeMax(last, first, last)},
                       pinned |-> Verbatim(first, last, v),
                       limited |-> windowed \/ Verbatim(first, last, v) # {},
                       budget |-> IF b = NoBudget THEN b ELSE b + v,
                       cut |-> FALSE]
    /\ UNCHANGED forest

\* ancestors() refuses a node above the document's height, and without any
\* node the query has no root.
Refused(nodes) == (\E c \in query.edges : c[1] > MaxHeight) \/ nodes = {}

\* The query with its covering set at hand, nothing of it rolled up yet.
Collected(nodes, reach) ==
    LET frontier == FrontierOf(nodes)
    IN  IF Refused(nodes)
        THEN [pc |-> "failed", cut |-> query.cut]
        ELSE [pc |-> "rolling", first |-> query.first, last |-> query.last,
              pinned |-> query.pinned, budget |-> query.budget, reach |-> reach,
              nodes |-> nodes, frontier |-> frontier,
              queue |-> Candidates(frontier, nodes, frontier)]

\* The seeds are what the vector index returns: leaves, and places where there
\* was a leaf once; these are enqueued like the others, if their coordinates are
\* known.
Build ==
    /\ query.pc = "asking"
    /\ \E found \in UNION {kSubset(k, 0 .. (MaxLeaves - 1)) : k \in 0 .. MaxSeeds},
          reach \in Reaches :
          LET seeds == {Leaf(i) : i \in found}
              pinned == {Leaf(i) : i \in query.pinned}
              strays == Strays(seeds, reach)
          IN  /\ reach = "window" \/ strays # {}
              /\ \E nodes \in {Coverage(seeds, pinned, query) \cup strays} :
                    query' = Collected(nodes, reach)
    /\ UNCHANGED forest

\* Seeded fault: a pair that becomes complete by a roll-up is not queued.
RolledUp_NoGrandparent(p) ==
    [query EXCEPT !.frontier = (@ \ Below(p, query.nodes)) \cup {p},
                  !.queue = @ \ {p}]

RolledUp(p) ==
    LET frontier == (query.frontier \ Below(p, query.nodes)) \cup {p}
    IN  [query EXCEPT !.frontier = frontier,
                      !.queue = (@ \ {p}) \cup Candidates({p}, query.nodes, frontier)]

\* A candidate comes off the queue; it is checked again before it is used.
RollUp ==
    /\ query.pc = "rolling"
    /\ OverBudget
    /\ \E p \in query.queue :
          query' = IF Eligible(p, query.nodes, query.frontier)
                   THEN RolledUp(p)
                   ELSE [query EXCEPT !.queue = @ \ {p}]
    /\ UNCHANGED forest

Answer ==
    /\ query.pc = "rolling"
    /\ ~OverBudget \/ query.queue = {}
    /\ query' = [query EXCEPT !.pc = "answered"]
    /\ UNCHANGED forest

\* validate_tiling, which looks at the answer of a query made with debug: the
\* nodes of the covering set that have no parent in it tell where it begins and
\* ends.
TilingFindings(tiling, nodes, budget) ==
    LET tops == {c \in nodes : ParentOf(c) \notin nodes}
        from == Min({FirstLeaf(c) : c \in tops})
        past == Max({PastLeaf(c) : c \in tops})
        shown == UNION {FirstLeaf(c) .. (PastLeaf(c) - 1) : c \in tiling}
    IN  {f \in {"empty", "overlap", "start", "end", "gap", "budget"} :
            CASE f = "empty" -> tiling = {}
              [] f = "overlap" -> \E c, d \in tiling :
                    c # d /\ FirstLeaf(c) <= FirstLeaf(d) /\ FirstLeaf(d) < PastLeaf(c)
              [] f = "start" -> from \notin shown \/ \E i \in shown : i < from
              [] f = "end" -> past - 1 \notin shown \/ \E i \in shown : i >= past
              [] f = "gap" -> \E i \in from .. (past - 1) : i \notin shown
              [] f = "budget" -> budget # NoBudget /\ TokensOf(tiling) > budget}

\* The warning of ExecuteQuery, only where a budget was asked for: the verbatim
\* budget is added to it.
ValidationWarning ==
    IF query.budget = NoBudget THEN {}
    ELSE TilingFindings(query.frontier, query.nodes, query.budget)

Return ==
    /\ query.pc \in {"answered", "failed"}
    /\ query' = NoQuery
    /\ UNCHANGED forest

-----------------------------------------------------------------------------
(* The document meanwhile.  From Build to Answer nothing is awaited. *)

Changes ==
    /\ Grow \/ Merge
    /\ Cardinality(LeavesOf(forest')) <= MaxLeaves
    /\ UNCHANGED query

\* A verbatim leaf is known by its id, which goes with its row.
Truncates ==
    /\ CutOff
    /\ query' = IF query = NoQuery THEN query
                ELSE [query EXCEPT !.pinned = {i \in @ : Leaf(i) \in forest'},
                                   !.cut = @ \/ forest' # forest]

QueryNext ==
    \/ Ask \/ Build \/ RollUp \/ Answer \/ Return
    \/ query.pc \in {"idle", "asking"} /\ (Changes \/ Truncates)

QuerySpec == QueryInit /\ [][QueryNext]_queryVars

-----------------------------------------------------------------------------
(* Properties *)

InHand == query.pc \in {"rolling", "answered"}

\* A leaf that an answer may show outside the window of its query.
MayStray(c) ==
    /\ c[1] = 0
    /\ \/ query.reach = "anywhere"
       \/ query.reach = "behind" /\ c[2] > query.last

\* "the tiling covers exactly the minimal span that contains the requested
\* window": every leaf of the window that is still there is shown once, by
\* itself or by one summary over it, and the recent leaves asked for verbatim
\* are shown as they are, however small the budget, unless they were truncated:
\* for any seeds, half-built forest, and growth or truncation during the await.
\* Nothing beyond the window is shown but single leaves that were found as
\* seeds: behind it, leaves appended to a document asked for as a whole while
\* the query waited; and elsewhere after a truncation, or as lexical hits.  A
\* caller is warned of the budget exactly if it was too small, and of nothing
\* else but the gap between the window and such a leaf.
TilingCoversWindow ==
    InHand =>
        /\ \A i \in query.first .. query.last :
              Leaf(i) \in forest => Cardinality({c \in query.frontier : Over(c, i)}) = 1
        /\ {Leaf(i) : i \in query.pinned} \subseteq query.frontier
        /\ LET beyond == {c \in query.frontier : ~IsWithin(c, query.first, query.last)}
           IN  /\ \A c \in beyond : MayStray(c)
               /\ query.pc = "answered" =>
                     /\ TilingFindings(query.frontier, query.nodes, NoBudget) \subseteq
                          (IF beyond = {} THEN {} ELSE {"gap"})
                     /\ ValidationWarning \ {"gap"} = IF OverBudget THEN {"budget"} ELSE {}
                     /\ "gap" \in ValidationWarning => beyond # {}

\* The answer fits the budget, or no pair of it could be rolled up further:
\* re-queueing only the parent of the last roll-up misses no pair.
AnswerIsSmallest ==
    query.pc = "answered" =>
        \/ ~OverBudget
        \/ \A p \in query.nodes : ~Eligible(p, query.nodes, query.frontier)

\* Growth while a query waits never makes it fail; only a truncation does.
OnlyCutsFail == query.pc = "failed" => query.cut

-----------------------------------------------------------------------------
(* The inductive invariant behind the theorems of RetrievalProofs.          *)

\* Summaries stand over what is there, and leaves have no gap.
ForestSound ==
    /\ forest \in SUBSET (Nat \X Nat)
    /\ IsFiniteSet(forest)
    /\ Supported(forest)
    /\ \A c \in LeavesOf(forest) : c[2] # 0 => Leaf(c[2] - 1) \in forest

QueryTyped ==
    \/ query = NoQuery
    \/ query \in [pc : {"asking"}, first : Nat, last : Nat, edges : SUBSET (Nat \X Nat),
                  pinned : SUBSET Nat, limited : BOOLEAN, budget : Nat \cup {NoBudget},
                  cut : BOOLEAN]
    \/ query \in [pc : {"rolling", "answered"}, first : Nat, last : Nat,
                  pinned : SUBSET Nat, budget : Nat \cup {NoBudget},
                  reach : {"window", "behind", "anywhere"},
                  nodes : SUBSET (Nat \X Nat), frontier : SUBSET (Nat \X Nat),
                  queue : SUBSET (Nat \X Nat)]
    \/ query \in [pc : {"failed"}, cut : BOOLEAN]

\* What a query keeps over the await: nodes that stand over the edges of the
\* window and do not reach out of it, and leaves that are still there.
PlanIsSound ==
    query.pc = "asking" =>
        /\ query.first <= query.last
        /\ \A e \in query.edges : IsWithin(e, query.first, query.last)
        /\ \A i \in {query.first, query.last} : \E e \in query.edges : Over(e, i)
        /\ \A i \in query.pinned : i \in query.first .. query.last /\ Leaf(i) \in forest
        /\ query.limited \/ query.first = 0
        /\ ~query.cut => /\ Leaf(query.first) \in forest
                         /\ \A e \in query.edges : e[1] <= MaxHeight

\* A node of the covering set has both its children in it or none, and no node
\* is above a verbatim leaf.
CoverageIsSound ==
    InHand =>
        /\ query.nodes # {} /\ query.nodes \subseteq forest
        /\ \A c \in query.nodes : IsWithin(c, query.first, query.last) \/ MayStray(c)
        /\ \A p \in query.nodes : Below(p, query.nodes) # {} => ChildrenOf(p) \subseteq query.nodes
        /\ query.nodes \cap PinnedAncestors({Leaf(i) : i \in query.pinned}) = {}

FrontierTiles ==
    InHand =>
        /\ query.frontier \subseteq query.nodes
        /\ \A c \in query.nodes : ~IsWithin(c, query.first, query.last) => c \in query.frontier
        /\ \A i \in query.first .. query.last :
              Leaf(i) \in forest => \E c \in query.frontier : Over(c, i)
        /\ \A i \in Nat : \A c, d \in query.frontier : Over(c, i) /\ Over(d, i) => c = d
        /\ {Leaf(i) : i \in query.pinned} \subseteq query.frontier

QueueIsComplete ==
    InHand => \A p \in query.nodes :
                 Eligible(p, query.nodes, query.frontier) => p \in query.queue

RetrievalInv ==
    /\ ForestSound
    /\ QueryTyped
    /\ PlanIsSound
    /\ CoverageIsSound
    /\ FrontierTiles
    /\ QueueIsComplete
    /\ AnswerIsSmallest
    /\ OnlyCutsFail
=============================================================================
