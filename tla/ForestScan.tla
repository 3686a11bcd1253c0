----------------------------- MODULE ForestScan -----------------------------
(***************************************************************************)
(* How the indexing engine finds work in a document's store: the sibling   *)
(* pairs that are ready to be summarised, the completeness measure that    *)
(* gates them, and the closed forms the code uses for a finished forest.   *)
(***************************************************************************)
EXTENDS ForestStore

CONSTANTS
    MaxHeightDiff,    \* preceding_context.inner.max_forest_height_differential
    NoLimit,          \* ... when it is null
    MinCompleteness,  \* preceding_context.inner.min_forest_completeness, percent
    VerbatimChars     \* verbatim_tokens * avg_chars_per_token

ASSUME ScanAssumption ==
    /\ NoLimit \notin Nat
    /\ MaxHeightDiff \in Nat \cup {NoLimit}
    /\ MinCompleteness \in 0 .. 100
    /\ VerbatimChars \in Nat

-----------------------------------------------------------------------------
(* Closed forms: bin(n).count("1") and n.bit_length() - 1 *)

PopCount[n \in Nat] == IF n = 0 THEN 0 ELSE (n % 2) + PopCount[n \div 2]

BitLength[n \in Nat] == IF n = 0 THEN 0 ELSE 1 + BitLength[n \div 2]

MinRootsForLeafCount(n) == IF n <= 0 THEN 0 ELSE PopCount[n]

OptimalMaxHeight(n) == IF n <= 0 THEN 0 ELSE BitLength[n] - 1

\* complete_forest_size of the gRPC service is the same closed form.
ExpectedTotalFromLeafCount(n) == IF n <= 0 THEN 0 ELSE 2 * n - PopCount[n]

\* Seeded fault: <= where < is meant.
BelowCompleteness_OrEqual(numRoots, maxHeight, leafCount, percent) ==
    LET optimal == MinRootsForLeafCount(leafCount) + OptimalMaxHeight(leafCount)
        actual  == numRoots + maxHeight
    IN  /\ leafCount > 1
        /\ actual # 0
        /\ 100 * optimal <= percent * actual

\* _forest_completeness(...) < threshold, with the threshold in percent.
BelowCompleteness(numRoots, maxHeight, leafCount, percent) ==
    LET optimal == MinRootsForLeafCount(leafCount) + OptimalMaxHeight(leafCount)
        actual  == numRoots + maxHeight
    IN  /\ leafCount > 1
        /\ actual # 0
        /\ 100 * optimal < percent * actual

-----------------------------------------------------------------------------
(* The scan over the roots, in span_start order *)

\* The roots the scan has passed when it reaches root r.
RootsBefore(db, r) == {x \in Roots(db) : db[x].span_start < db[r].span_start}

\* The first root whose preceding forest is too ragged closes the frontier.
RaggedBefore(db, r) ==
    LET passed == RootsBefore(db, r)
    IN  /\ passed # {}
        /\ BelowCompleteness(Cardinality(passed),
                             Max({db[x].height : x \in passed}),
                             MapThenSumSet(LAMBDA x : 2 ^ db[x].height, passed),
                             MinCompleteness)

WithinFrontier(db, r) ==
    MinCompleteness > 0 =>
        \A x \in Roots(db) :
            RaggedBefore(db, x) =>
                db[r].span_start <= db[x].span_start + VerbatimChars

\* Two roots next to each other in the scan.
Adjacent(db, l, r) ==
    /\ l # r
    /\ db[l].span_start <= db[r].span_start
    /\ ~\E x \in Roots(db) : /\ db[l].span_start < db[x].span_start
                             /\ db[x].span_start < db[r].span_start

\* Seeded fault: any two adjacent indices make a pair.
IsEligiblePair_AnyParity(db, l, r) ==
    /\ db[l].height = db[r].height
    /\ db[r].level_index = db[l].level_index + 1

IsEligiblePair(db, l, r) ==
    /\ db[l].height = db[r].height
    /\ db[l].level_index % 2 = 0
    /\ db[r].level_index = db[l].level_index + 1

\* min_preceding_height is updated with every root the scan passes, the left
\* root of the pair included.
HeightAllowed(db, l) ==
    MaxHeightDiff # NoLimit =>
        \A x \in RootsBefore(db, l) \cup {l} :
            (db[l].height + 1) - db[x].height <= MaxHeightDiff

EligiblePairs(db) ==
    {p \in Roots(db) \X Roots(db) :
        /\ Adjacent(db, p[1], p[2])
        /\ IsEligiblePair(db, p[1], p[2])
        /\ HeightAllowed(db, p[1])
        /\ WithinFrontier(db, p[2])}

-----------------------------------------------------------------------------
(* The finished forest of n leaves: one perfect tree for every 1-bit of n,  *)
(* the taller trees first.                                                  *)
IsCompleteForest(db) ==
    /\ Cardinality(Roots(db)) = MinRootsForLeafCount(Cardinality(Leaves(db)))
    /\ Cardinality(DOMAIN db) = ExpectedTotalFromLeafCount(Cardinality(Leaves(db)))
    /\ \A a, b \in Roots(db) :
          db[a].span_start < db[b].span_start => db[a].height > db[b].height
=============================================================================
