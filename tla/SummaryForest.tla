---------------------------- MODULE SummaryForest ----------------------------
(***************************************************************************)
(* What the store, the append path, the summary jobs and the truncations   *)
(* together promise about a document, without rows, links or jobs: leaves  *)
(* are added at the right end, a summary appears over two siblings that    *)
(* are there and have none, and a truncation takes away a suffix of the    *)
(* leaves with exactly the summaries that reach into it.                   *)
(***************************************************************************)
EXTENDS CoordinateForest

CONSTANT MaxGrowth   \* leaves added by one append

VARIABLE forest

ForestInit == forest = {}

Grow == \E k \in 1 .. MaxGrowth : forest' = Grown(forest, k)

Merge == \E c \in ReadyPairs(forest) : forest' = Merged(forest, c)

CutOff == \E n \in 0 .. Cardinality(LeavesOf(forest)) : forest' = Cut(forest, n)

ForestNext == Grow \/ Merge \/ CutOff

ForestSpec == ForestInit /\ [][ForestNext]_forest
=============================================================================
