------------------------ MODULE DocumentForestProofs ------------------------
(***************************************************************************)
(* What the runs of MCDocumentForest check on a few leaves, proved for     *)
(* every document: the forest of one document stays sound through every    *)
(* interleaving of appends, summary jobs, failures, restarts and           *)
(* truncations.  ForestInv is the inductive invariant; there is one lemma  *)
(* for what an action writes where that takes an argument, and one that    *)
(* the action keeps ForestInv.                                             *)
(***************************************************************************)
EXTENDS ForestInvariant, PostgresStore, CoordinateForestProofs, SequenceTheorems

-----------------------------------------------------------------------------
(* Numbers and sequences *)

\* A sequence whose every step goes up goes up over any distance.
LEMMA StepsUp ==
  ASSUME NEW k \in Nat, NEW f \in [1 .. k -> Nat],
         \A i \in 1 .. k : i > 1 => f[i - 1] <= f[i]
  PROVE  \A i, j \in 1 .. k : i <= j => f[i] <= f[j]
<1> SUFFICES ASSUME NEW i \in 1 .. k, NEW j \in 1 .. k, i <= j, ~(f[i] <= f[j])
             PROVE  FALSE
  OBVIOUS
<1> DEFINE Bad == {m \in 1 .. k : i <= m /\ ~(f[i] <= f[m])}
<1>1. PICK m \in Bad : \A y \in Bad : m <= y
  <2>1. Bad \in SUBSET Nat /\ j \in Bad
    OBVIOUS
  <2> HIDE DEF Bad
  <2> QED BY <2>1, LeastNat
<1>2. m # i
  BY <1>1
<1>3. m - 1 \in 1 .. k /\ i <= m - 1 /\ m - 1 \notin Bad
  BY <1>1, <1>2
<1>4. f[i] <= f[m - 1] /\ f[m - 1] <= f[m]
  BY <1>3
<1> QED BY <1>4

\* What one append sends: at least one chunk, none empty, laid out from base.
LEMMA ChunkEndsGoUp ==
  ASSUME OrderlyClients, NEW base \in Nat, NEW ends \in ChunkEnds(base)
  PROVE  /\ Len(ends) \in Nat /\ Len(ends) >= 1
         /\ DOMAIN ends = 1 .. Len(ends)
         /\ \A i \in 1 .. Len(ends) : ends[i] \in Nat /\ base < ends[i]
         /\ \A i \in 1 .. Len(ends) : i > 1 => ends[i - 1] < ends[i]
         /\ \A i, j \in 1 .. Len(ends) : i <= j => ends[i] <= ends[j]
<1> DEFINE Longest == Max(ChunkLens)
           Prev(i) == IF i = 1 THEN base ELSE ends[i - 1]
<1>1. Longest \in Nat
  BY ForestAssumption DEF ForestAssumption, Max
<1> HIDE DEF Longest
<1>2. PICK k \in 1 .. MaxChunks :
         /\ ends \in [1 .. k -> base .. (base + k * Longest)]
         /\ \A i \in 1 .. k : ends[i] - Prev(i) \in ChunkLens
  BY DEF ChunkEnds, Longest
<1>3. k \in Nat /\ k >= 1 /\ k * Longest \in Nat
  BY <1>1, ForestAssumption DEF ForestAssumption
<1>4. ends \in [1 .. k -> Nat]
  BY <1>2, <1>3
<1>5. Len(ends) = k
  BY <1>3, <1>4
<1>6. \A i \in 1 .. k : Prev(i) \in Nat
  BY <1>3, <1>4
<1>7. \A i \in 1 .. k : Prev(i) < ends[i]
  <2> SUFFICES ASSUME NEW i \in 1 .. k PROVE Prev(i) < ends[i]
    OBVIOUS
  <2>1. ends[i] - Prev(i) \in Nat \ {0}
    BY <1>2, ForestAssumption DEF OrderlyClients, ForestAssumption
  <2>2. ends[i] \in Nat /\ Prev(i) \in Nat
    BY <1>4, <1>6
  <2> HIDE DEF Prev
  <2> QED BY <2>1, <2>2
<1>8. \A i \in 1 .. k : i > 1 => ends[i - 1] < ends[i]
  BY <1>3, <1>4, <1>7
<1>9. \A i, j \in 1 .. k : i <= j => ends[i] <= ends[j]
  <2>1. \A i \in 1 .. k : i > 1 => ends[i - 1] <= ends[i]
    BY <1>3, <1>4, <1>8
  <2> QED BY <1>3, <1>4, <2>1, StepsUp
<1>10. base < ends[1]
  BY <1>3, <1>7
<1>11. \A i \in 1 .. k : base < ends[i]
  BY <1>3, <1>4, <1>9, <1>10
<1> QED BY <1>3, <1>4, <1>5, <1>8, <1>9, <1>11

-----------------------------------------------------------------------------
(* Queries *)

\* A row is what get_node_by_height_and_level finds at its coordinate.
LEMMA NodeAtRow ==
  ASSUME NEW s, NEW n \in DOMAIN s,
         \A m \in DOMAIN s : SameCoordinate(s[m], s[n]) => m = n
  PROVE  NodeAt(s, s[n].height, s[n].level_index) = n
BY DEF NodeAt, SameCoordinate

\* Where there is no row it finds none, and what it finds is there.
LEMMA NodeAtFinds ==
  ASSUME NEW s, NIL \notin DOMAIN s, NEW h, NEW i
  PROVE  LET n == NodeAt(s, h, i)
         IN  IF n \in DOMAIN s THEN s[n].height = h /\ s[n].level_index = i
             ELSE n = NIL /\ \A m \in DOMAIN s : ~(s[m].height = h /\ s[m].level_index = i)
<1> DEFINE hits == {n \in DOMAIN s : s[n].height = h /\ s[n].level_index = i}
<1>1. CASE hits = {}
  <2>1. NodeAt(s, h, i) = NIL
    BY <1>1 DEF NodeAt
  <2> QED BY <1>1, <2>1
<1>2. CASE hits # {}
  <2>1. NodeAt(s, h, i) \in hits
    BY <1>2 DEF NodeAt
  <2> QED BY <2>1
<1> QED BY <1>1, <1>2

\* The leaf an append continues from is the last in every sense: no row ends
\* beyond it and no leaf has a greater index.
LEMMA RightmostIsLast ==
  ASSUME ForestInv, NEW right \in RightmostLeaves(db)
  PROVE  /\ EndOf(db, right) \in Nat /\ NextIndex(db, right) \in Nat
         /\ right = NIL => DOMAIN db = {} /\ EndOf(db, right) = 0 /\ NextIndex(db, right) = 0
         /\ right # NIL => /\ right \in Leaves(db)
                           /\ EndOf(db, right) = db[right].span_end
                           /\ NextIndex(db, right) = db[right].level_index + 1
         /\ \A n \in DOMAIN db : db[n].span_end <= EndOf(db, right)
         /\ \A n \in Leaves(db) : db[n].level_index < NextIndex(db, right)
<1>1. NIL \notin DOMAIN db /\ \A n \in DOMAIN db : db[n] \in Row
  BY DEF ForestInv, TypeOK, NIL, NodeId
<1>2. Leaves(db) \subseteq DOMAIN db
  BY DEF Leaves
<1>3. CASE Leaves(db) = {}
  <2>1. right = NIL
    BY <1>3 DEF RightmostLeaves
  <2>2. DOMAIN db = {}
    BY <1>3 DEF ForestInv, EndsAtLeaf
  <2> QED BY <2>1, <2>2, <1>2 DEF EndOf, NextIndex
<1>4. CASE Leaves(db) # {}
  <2>1. right \in Leaves(db) /\ \A m \in Leaves(db) : db[m].span_end <= db[right].span_end
    BY <1>4 DEF RightmostLeaves
  <2>2. right # NIL /\ db[right] \in Row
    BY <1>1, <1>2, <2>1
  <2>3. EndOf(db, right) = db[right].span_end /\ NextIndex(db, right) = db[right].level_index + 1
    BY <2>2 DEF EndOf, NextIndex
  <2>4. \A n \in DOMAIN db : db[n].span_end <= db[right].span_end
    <3> TAKE n \in DOMAIN db
    <3>1. PICK m \in Leaves(db) : db[m].span_end = db[n].span_end
      BY DEF ForestInv, EndsAtLeaf
    <3> QED BY <2>1, <3>1
  <2>5. \A n \in Leaves(db) : db[n].level_index <= db[right].level_index
    <3> TAKE n \in Leaves(db)
    <3>1. db[n].span_start \in Nat /\ db[n].span_end \in Nat /\ db[n].level_index \in Nat
          /\ db[right].span_end \in Nat /\ db[right].level_index \in Nat
      BY <1>1, <1>2, <2>2 DEF Row
    <3>2. db[n].span_start < db[n].span_end /\ db[n].span_end <= db[right].span_end
      BY <1>2, <2>1 DEF ForestInv, SpansForward
    <3>3. db[right].level_index < db[n].level_index => db[right].span_end <= db[n].span_start
      BY <1>2, <2>1 DEF ForestInv, LevelsInOrder, Leaves
    <3> QED BY <3>1, <3>2, <3>3
  <2>6. db[right].level_index \in Nat /\ db[right].span_end \in Nat
        /\ \A n \in Leaves(db) : db[n].level_index \in Nat
    BY <1>1, <1>2, <2>2 DEF Row
  <2> QED BY <2>1, <2>2, <2>3, <2>4, <2>5, <2>6
<1> QED BY <1>3, <1>4
\* The id of the row at a coordinate, or NIL where there is none.
LEMMA NodeAtIs ==
  ASSUME NEW s, NEW h, NEW i, NEW id,
         \/ /\ id \in DOMAIN s /\ s[id].height = h /\ s[id].level_index = i
            /\ \A m \in DOMAIN s : s[m].height = h /\ s[m].level_index = i => m = id
         \/ /\ id = NIL
            /\ \A m \in DOMAIN s : ~(s[m].height = h /\ s[m].level_index = i)
  PROVE  NodeAt(s, h, i) = id
BY DEF NodeAt

-----------------------------------------------------------------------------
(* Initial states *)

\* An empty table satisfies the invariant.
LEMMA InitForest == Init => ForestInv
<1> SUFFICES ASSUME Init PROVE ForestInv
  OBVIOUS
<1>1. DOMAIN db = {} /\ Leaves(db) = {} /\ jobs = {} /\ nextId = 1 /\ born = 0
  BY DEF Init, EmptyStore, Leaves
<1>2. db \in [DOMAIN db -> Row]
  BY DEF Init, EmptyStore
<1>3. TypeOK
  BY <1>1, <1>2, ForestAssumption DEF TypeOK, NodeId, NIL, ForestAssumption
<1> QED
  BY <1>1, <1>3 DEF ForestInv, SpansForward, OneRowPerCoordinate,
     LeavesHaveNoChildren, StartsAtLeaf, EndsAtLeaf, TimesFollowSpans,
     LevelsInOrder, OverlapMeansUnder, LeavesTile, SiblingsMeet,
     ParentsMatchChildren, NeighborsMatchCoordinates, JobsNotStale,
     JobsPairSiblings, Leaves

-----------------------------------------------------------------------------
(* Appending *)

\* The rows after an append: the old ones with one neighbour link changed, and
\* the new leaves behind them.
AppendedRows(right, time, ends) ==
    LET last == nextId + Len(ends) - 1
        ids  == nextId .. last
    IN  /\ DOMAIN db' = DOMAIN db \cup ids
        /\ \A n \in ids : n \notin DOMAIN db
        /\ \A n \in DOMAIN db :
             /\ db'[n] \in Row
             /\ db'[n] = [db[n] EXCEPT !.following_neighbor_id =
                             IF n = right THEN nextId ELSE @]
        /\ \A n \in ids :
             /\ db'[n] \in Row
             /\ db'[n].height = 0 /\ db'[n].parent_id = NIL
             /\ db'[n].left_child_id = NIL /\ db'[n].right_child_id = NIL
             /\ db'[n].level_index = NextIndex(db, right) + (n - nextId)
             /\ db'[n].span_start = IF n = nextId THEN EndOf(db, right) ELSE ends[n - nextId]
             /\ db'[n].span_end = ends[n - nextId + 1]
             /\ db'[n].time_end = time
             /\ db'[n].preceding_neighbor_id = IF n = nextId THEN right ELSE n - 1
             /\ db'[n].following_neighbor_id = IF n = last THEN NIL ELSE n + 1
        /\ db' = [n \in DOMAIN db' |-> db'[n]]

\* The unique index accepts every append after a leaf that the rightmost query
\* returns.
LEMMA AppendIsAccepted ==
  ASSUME ForestInv, OrderlyClients, NEW right \in RightmostLeaves(db), NEW time,
         NEW ends \in ChunkEnds(EndOf(db, right))
  PROVE  IndexAccepts(db, LeafSpecs(db, right, nextId, ends, time))
<1> DEFINE new   == LeafSpecs(db, right, nextId, ends, time)
           index == NextIndex(db, right)
           ids   == nextId .. (nextId + Len(ends) - 1)
<1>1. /\ EndOf(db, right) \in Nat /\ index \in Nat
      /\ \A n \in Leaves(db) : db[n].level_index < index
  BY RightmostIsLast
<1>2. nextId \in Nat /\ \A n \in DOMAIN db : db[n].level_index \in Nat
  BY DEF ForestInv, TypeOK, NodeId, Row
<1>3. Len(ends) \in Nat
  BY <1>1, ChunkEndsGoUp
<1>4. DOMAIN new = ids
  BY DEF LeafSpecs
<1>5. \A m \in ids : new[m].height = 0 /\ new[m].level_index = index + (m - nextId)
  BY <1>1, <1>2, <1>3 DEF LeafSpecs
<1> SUFFICES ASSUME NEW n \in DOMAIN db, NEW m \in ids, SameCoordinate(db[n], new[m])
             PROVE  FALSE
  BY <1>4 DEF IndexAccepts
<1> HIDE DEF new, index
<1>6. n \in Leaves(db) /\ db[n].level_index = index + (m - nextId)
  BY <1>5 DEF SameCoordinate, Leaves
<1> QED BY <1>1, <1>2, <1>3, <1>6

\* The rows of an append.
LEMMA AppendRows ==
  ASSUME ForestInv, OrderlyClients, NEW right \in RightmostLeaves(db),
         NEW time \in Times, NEW ends \in ChunkEnds(EndOf(db, right)),
         AppendText(right, ends, time)
  PROVE  AppendedRows(right, time, ends)
<1> DEFINE base  == EndOf(db, right)
           index == NextIndex(db, right)
           ids   == nextId .. (nextId + Len(ends) - 1)
           new   == LeafSpecs(db, right, nextId, ends, time)
           linked == [n \in DOMAIN db |->
                      IF n = right THEN [db[n] EXCEPT !.following_neighbor_id = nextId]
                                   ELSE db[n]]
<1>1. /\ nextId \in Nat /\ nextId >= 1
      /\ \A n \in DOMAIN db : n \in Nat /\ n >= 1 /\ n < nextId /\ db[n] \in Row
  BY DEF ForestInv, TypeOK, NodeId, NIL
<1>2. /\ base \in Nat /\ index \in Nat
      /\ \A n \in Leaves(db) : db[n].level_index < index
      /\ right = NIL \/ right \in Leaves(db)
  BY RightmostIsLast
<1>3. /\ Len(ends) \in Nat /\ Len(ends) >= 1
      /\ \A i \in 1 .. Len(ends) : ends[i] \in Nat
  BY <1>2, ChunkEndsGoUp
<1>4. time \in Nat /\ right \in Nat
  BY <1>1, <1>2, ForestAssumption DEF ForestAssumption, Leaves, NIL
<1>5. DOMAIN new = ids
  BY DEF LeafSpecs
<1>6. \A n \in ids : n \notin DOMAIN db
  BY <1>1, <1>3
<1>7. \A n \in ids :
        /\ new[n].height = 0 /\ new[n].parent_id = NIL
        /\ new[n].left_child_id = NIL /\ new[n].right_child_id = NIL
        /\ new[n].level_index = index + (n - nextId)
        /\ new[n].span_start = IF n = nextId THEN base ELSE ends[n - nextId]
        /\ new[n].span_end = ends[n - nextId + 1]
        /\ new[n].time_end = time
        /\ new[n].preceding_neighbor_id = IF n = nextId THEN right ELSE n - 1
        /\ new[n].following_neighbor_id = IF n = nextId + Len(ends) - 1 THEN NIL ELSE n + 1
  BY <1>1, <1>2, <1>3 DEF LeafSpecs
<1>8. \A n \in ids : new[n] \in Row
  <2> TAKE n \in ids
  <2>1. n \in Nat /\ n - nextId + 1 \in 1 .. Len(ends)
        /\ (n # nextId => n - nextId \in 1 .. Len(ends))
    BY <1>1, <1>3
  <2>2. new[n] = [height |-> 0, level_index |-> new[n].level_index,
             span_start |-> new[n].span_start, span_end |-> new[n].span_end,
             parent_id |-> NIL, left_child_id |-> NIL, right_child_id |-> NIL,
             preceding_neighbor_id |-> new[n].preceding_neighbor_id,
             following_neighbor_id |-> new[n].following_neighbor_id,
             time_end |-> new[n].time_end]
    BY DEF LeafSpecs
  <2>3. /\ new[n].level_index \in Nat /\ new[n].span_start \in Nat /\ new[n].span_end \in Nat
        /\ new[n].preceding_neighbor_id \in Nat /\ new[n].following_neighbor_id \in Nat
        /\ new[n].time_end \in Nat
    <3> HIDE DEF new, index, base
    <3>1. new[n].level_index \in Nat /\ new[n].time_end \in Nat
      <4> HIDE DEF ids, linked
      <4>1. new[n].level_index = index + (n - nextId) /\ new[n].time_end = time
        BY <1>7
      <4>2. index \in Nat /\ time \in Nat /\ nextId \in Nat /\ n - nextId >= 0
        BY <1>1, <1>2, <1>4, <2>1
      <4> QED BY <2>1, <4>1, <4>2
    <3>2. new[n].span_start \in Nat /\ new[n].span_end \in Nat
      BY <1>1, <1>2, <1>3, <1>7, <2>1
    <3>3. new[n].preceding_neighbor_id \in Nat /\ new[n].following_neighbor_id \in Nat
      BY <1>1, <1>4, <1>7, <2>1 DEF NIL
    <3> QED BY <3>1, <3>2, <3>3
  <2> HIDE DEF new
  <2> QED BY <2>2, <2>3 DEF Row, NIL
<1>9. IndexAccepts(db, new)
  BY AppendIsAccepted
<1>10. db' = Insert(linked, new)
  BY <1>9 DEF AppendText, AppendLeaves
<1>11. DOMAIN db' = DOMAIN db \cup ids
  BY <1>5, <1>10 DEF Insert
<1>12. \A n \in DOMAIN db : db'[n] = linked[n]
  BY <1>10 DEF Insert
<1>13. \A n \in ids : db'[n] = new[n]
  BY <1>5, <1>6, <1>10 DEF Insert
<1>14. \A n \in DOMAIN db : db'[n] = [db[n] EXCEPT !.following_neighbor_id =
                                  IF n = right THEN nextId ELSE @]
  BY <1>1, <1>12 DEF Row
<1>15. \A n \in DOMAIN db : db'[n] \in Row
  <2> TAKE n \in DOMAIN db
  <2>1. db[n] \in Row /\ nextId \in Nat
    BY <1>1
  <2>2. CASE n = right
    <3>1. db'[n] = [db[n] EXCEPT !.following_neighbor_id = nextId]
      BY <1>12, <2>2
    <3> QED BY <2>1, <3>1 DEF Row
  <2>3. CASE n # right
    BY <1>12, <2>1, <2>3
  <2> QED BY <2>2, <2>3
<1>16. db' = [n \in DOMAIN db' |-> db'[n]]
  BY <1>10 DEF Insert
<1> HIDE DEF new
<1> QED BY <1>6, <1>7, <1>8, <1>11, <1>13, <1>14, <1>15, <1>16 DEF AppendedRows

\* An append keeps the invariant.
LEMMA AppendKeepsForest ==
  ASSUME ForestInv, OrderlyClients, NEW right \in RightmostLeaves(db),
         NEW time \in Times, NEW ends \in ChunkEnds(EndOf(db, right)),
         AppendText(right, ends, time)
  PROVE  ForestInv'
<1>0. AppendedRows(right, time, ends)
  BY AppendRows
<1> DEFINE base  == EndOf(db, right)
           index == NextIndex(db, right)
           last  == nextId + Len(ends) - 1
           ids   == nextId .. last
<1>1. /\ DOMAIN db' = DOMAIN db \cup ids
      /\ \A n \in ids : n \notin DOMAIN db
      /\ \A n \in DOMAIN db' : db'[n] \in Row
      /\ db' = [n \in DOMAIN db' |-> db'[n]]
  BY <1>0 DEF AppendedRows
<1>2. \A n \in DOMAIN db :
        /\ db'[n].height = db[n].height /\ db'[n].level_index = db[n].level_index
        /\ db'[n].span_start = db[n].span_start /\ db'[n].span_end = db[n].span_end
        /\ db'[n].parent_id = db[n].parent_id /\ db'[n].left_child_id = db[n].left_child_id
        /\ db'[n].right_child_id = db[n].right_child_id /\ db'[n].time_end = db[n].time_end
        /\ db'[n].preceding_neighbor_id = db[n].preceding_neighbor_id
        /\ db'[n].following_neighbor_id = IF n = right THEN nextId
                                          ELSE db[n].following_neighbor_id
  <2> TAKE n \in DOMAIN db
  <2>1. db[n] \in Row
    BY DEF ForestInv, TypeOK
  <2>2. db'[n] = [db[n] EXCEPT !.following_neighbor_id = IF n = right THEN nextId ELSE @]
    BY <1>0 DEF AppendedRows
  <2> QED BY <2>1, <2>2 DEF Row
<1>3. \A n \in ids :
        /\ db'[n].height = 0 /\ db'[n].parent_id = NIL
        /\ db'[n].left_child_id = NIL /\ db'[n].right_child_id = NIL
        /\ db'[n].level_index = index + (n - nextId)
        /\ db'[n].span_start = IF n = nextId THEN base ELSE ends[n - nextId]
        /\ db'[n].span_end = ends[n - nextId + 1]
        /\ db'[n].time_end = time
        /\ db'[n].preceding_neighbor_id = IF n = nextId THEN right ELSE n - 1
        /\ db'[n].following_neighbor_id = IF n = last THEN NIL ELSE n + 1
  BY <1>0 DEF AppendedRows
<1>4. /\ nextId \in Nat /\ nextId >= 1
      /\ \A n \in DOMAIN db : n \in Nat /\ n >= 1 /\ n < nextId /\ db[n] \in Row
      /\ \A n \in DOMAIN db :
           /\ db[n].height \in Nat /\ db[n].level_index \in Nat
           /\ db[n].span_start \in Nat /\ db[n].span_end \in Nat /\ db[n].time_end \in Nat
  BY DEF ForestInv, TypeOK, NodeId, NIL, Row
<1>5. /\ base \in Nat /\ index \in Nat
      /\ right = NIL => DOMAIN db = {} /\ base = 0 /\ index = 0
      /\ right # NIL => /\ right \in Leaves(db)
                        /\ base = db[right].span_end
                        /\ index = db[right].level_index + 1
      /\ \A n \in DOMAIN db : db[n].span_end <= base
      /\ \A n \in Leaves(db) : db[n].level_index < index
  BY RightmostIsLast
<1>6. /\ Len(ends) \in Nat /\ Len(ends) >= 1
      /\ \A i \in 1 .. Len(ends) : ends[i] \in Nat /\ base < ends[i]
      /\ \A i \in 1 .. Len(ends) : i > 1 => ends[i - 1] < ends[i]
      /\ \A i, j \in 1 .. Len(ends) : i <= j => ends[i] <= ends[j]
  BY <1>5, ChunkEndsGoUp
<1>7. /\ nextId' = nextId + Len(ends) /\ born' = born + Len(ends) /\ jobs' = jobs
      /\ born + Len(ends) <= MaxLeaves
      /\ \A n \in Leaves(db) : db[n].time_end <= time
  BY DEF AppendText, OrderlyClients
<1>8. Leaves(db) \subseteq DOMAIN db /\ Leaves(db') = Leaves(db) \cup ids
  BY <1>1, <1>2, <1>3 DEF Leaves
<1>9. last \in ids /\ \A n \in ids : n \in Nat /\ n - nextId + 1 \in 1 .. Len(ends)
  BY <1>4, <1>6
<1>10. \A n \in ids : /\ db'[n].span_start \in Nat /\ db'[n].span_end \in Nat
                      /\ base <= db'[n].span_start
                      /\ db'[n].span_start < db'[n].span_end
  <2> TAKE n \in ids
  <2>1. CASE n = nextId
    <3>1. db'[n].span_start = base /\ db'[n].span_end = ends[1]
      BY <1>3, <1>4, <2>1
    <3> QED BY <1>5, <1>6, <3>1
  <2>2. CASE n # nextId
    <3>1. n - nextId \in 1 .. Len(ends) /\ n - nextId + 1 \in 1 .. Len(ends)
          /\ n - nextId + 1 > 1 /\ (n - nextId + 1) - 1 = n - nextId
      BY <1>4, <1>6, <2>2
    <3>2. db'[n].span_start = ends[n - nextId] /\ db'[n].span_end = ends[n - nextId + 1]
      BY <1>3, <2>2
    <3> QED BY <1>5, <1>6, <3>1, <3>2
  <2> QED BY <2>1, <2>2
<1>11. \A n \in DOMAIN db : db[n].time_end <= time
  <2> TAKE n \in DOMAIN db
  <2>1. PICK m \in Leaves(db) : db[m].span_end = db[n].span_end
    BY DEF ForestInv, EndsAtLeaf
  <2>2. db[n].time_end <= db[m].time_end
    BY <1>4, <1>8, <2>1 DEF ForestInv, TimesFollowSpans
  <2>3. time \in Nat
    BY ForestAssumption DEF ForestAssumption
  <2> QED BY <1>4, <1>7, <1>8, <2>1, <2>2, <2>3
<1>12. right \in ids => FALSE
  BY <1>1, <1>4, <1>5, <1>8, <1>9 DEF NIL
<1> HIDE DEF base, index, ids
<1>13. TypeOK'
  <2>1. nextId' \in NodeId /\ born' \in 0 .. MaxLeaves
    BY <1>4, <1>6, <1>7 DEF ForestInv, TypeOK, NodeId, NIL
  <2>2. DOMAIN db' \subseteq 1 .. (nextId' - 1)
    BY <1>1, <1>4, <1>6, <1>7 DEF ids
  <2>3. db' \in [DOMAIN db' -> Row]
    BY <1>1
  <2>4. (jobs \subseteq Job)'
    BY <1>7 DEF ForestInv, TypeOK, Job
  <2> QED BY <2>1, <2>2, <2>3, <2>4 DEF TypeOK
<1>14. SpansForward'
  BY <1>1, <1>2, <1>10 DEF SpansForward, ForestInv
<1>15. OneRowPerCoordinate'
  <2> SUFFICES ASSUME NEW m \in DOMAIN db', NEW n \in DOMAIN db',
                      db'[m].height = db'[n].height, db'[m].level_index = db'[n].level_index
               PROVE  m = n
    BY DEF OneRowPerCoordinate, SameCoordinate
  <2>1. CASE m \in DOMAIN db /\ n \in DOMAIN db
    BY <1>2, <2>1 DEF ForestInv, OneRowPerCoordinate, SameCoordinate
  <2>2. \A x \in DOMAIN db, y \in ids :
          ~(db'[x].height = db'[y].height /\ db'[x].level_index = db'[y].level_index)
    <3> TAKE x \in DOMAIN db, y \in ids
    <3>1. db[x].height = 0 => db[x].level_index < index
      BY <1>5 DEF Leaves
    <3>2. db[x].level_index \in Nat /\ y \in Nat /\ y >= nextId
      BY <1>4, <1>9 DEF ids
    <3>3. db'[y].height = 0 /\ db'[y].level_index = index + (y - nextId)
      BY <1>3
    <3> QED BY <1>2, <1>4, <1>5, <3>1, <3>2, <3>3
  <2>3. CASE m \in ids /\ n \in ids
    <3>1. index + (m - nextId) = index + (n - nextId)
      BY <1>3, <2>3
    <3>2. m \in Nat /\ n \in Nat /\ index \in Nat /\ nextId \in Nat
      BY <1>4, <1>5, <1>9, <2>3
    <3> QED BY <3>1, <3>2
  <2> QED BY <1>1, <2>1, <2>2, <2>3
<1>16. EndsAtLeaf'
  <2> SUFFICES ASSUME NEW n \in DOMAIN db'
               PROVE  \E m \in Leaves(db') : db'[m].span_end = db'[n].span_end
    BY DEF EndsAtLeaf
  <2>1. CASE n \in ids
    BY <1>8, <2>1
  <2>2. CASE n \in DOMAIN db
    <3>1. PICK m \in Leaves(db) : db[m].span_end = db[n].span_end
      BY <2>2 DEF ForestInv, EndsAtLeaf
    <3> QED BY <1>2, <1>8, <2>2, <3>1
  <2> QED BY <1>1, <2>1, <2>2
<1>17. TimesFollowSpans'
  <2> SUFFICES ASSUME NEW m \in DOMAIN db', NEW n \in DOMAIN db',
                      db'[m].span_end <= db'[n].span_end
               PROVE  db'[m].time_end <= db'[n].time_end
    BY DEF TimesFollowSpans
  <2>1. CASE m \in DOMAIN db /\ n \in DOMAIN db
    BY <1>2, <2>1 DEF ForestInv, TimesFollowSpans
  <2>2. CASE m \in DOMAIN db /\ n \in ids
    BY <1>2, <1>3, <1>11, <2>2
  <2>3. CASE m \in ids /\ n \in DOMAIN db
    BY <1>2, <1>4, <1>5, <1>10, <2>3
  <2>4. CASE m \in ids /\ n \in ids
    <3>1. time \in Nat
      BY ForestAssumption DEF ForestAssumption
    <3> QED BY <1>3, <2>4, <3>1
  <2> QED BY <1>1, <2>1, <2>2, <2>3, <2>4
<1>18. LevelsInOrder'
  <2> SUFFICES ASSUME NEW m \in DOMAIN db', NEW n \in DOMAIN db',
                      db'[m].height = db'[n].height,
                      db'[m].level_index < db'[n].level_index
               PROVE  db'[m].span_end <= db'[n].span_start
    BY DEF LevelsInOrder
  <2>1. CASE m \in DOMAIN db /\ n \in DOMAIN db
    BY <1>2, <2>1 DEF ForestInv, LevelsInOrder
  <2>2. CASE m \in DOMAIN db /\ n \in ids
    BY <1>2, <1>4, <1>5, <1>10, <2>2
  <2>3. CASE m \in ids /\ n \in DOMAIN db
    <3>1. n \in Leaves(db)
      BY <1>2, <1>3, <2>3 DEF Leaves
    <3>2. db[n].level_index < index /\ db[n].level_index \in Nat
      BY <1>4, <1>5, <2>3, <3>1
    <3>3. m \in Nat /\ m >= nextId
      BY <1>4, <1>9, <2>3 DEF ids
    <3>4. db'[m].level_index = index + (m - nextId)
      BY <1>3, <2>3
    <3> QED BY <1>2, <1>4, <1>5, <2>3, <3>2, <3>3, <3>4
  <2>4. CASE m \in ids /\ n \in ids
    <3>1. m < n /\ n # nextId
      <4>1. index + (m - nextId) < index + (n - nextId)
        BY <1>3, <2>4
      <4>2. m \in Nat /\ n \in Nat /\ index \in Nat /\ nextId \in Nat /\ m >= nextId
        BY <1>4, <1>5, <1>9, <2>4 DEF ids
      <4> QED BY <4>1, <4>2
    <3>2. db'[m].span_end = ends[m - nextId + 1] /\ db'[n].span_start = ends[n - nextId]
      BY <1>3, <2>4, <3>1
    <3>3. m - nextId + 1 \in 1 .. Len(ends) /\ n - nextId \in 1 .. Len(ends)
          /\ m - nextId + 1 <= n - nextId
      BY <1>4, <1>9, <2>4, <3>1 DEF ids
    <3> QED BY <1>6, <3>2, <3>3
  <2> QED BY <1>1, <2>1, <2>2, <2>3, <2>4
<1>19. OverlapMeansUnder'
  <2> SUFFICES ASSUME NEW m \in DOMAIN db', NEW n \in DOMAIN db',
                      db'[m].height < db'[n].height,
                      db'[m].span_start < db'[n].span_end,
                      db'[n].span_start < db'[m].span_end,
                      NEW p, p = db'[m].parent_id
               PROVE  /\ p # NIL
                      /\ db'[n].span_start <= db'[p].span_start
                      /\ db'[p].span_end <= db'[n].span_end
    BY DEF OverlapMeansUnder
  <2>1. n \in DOMAIN db
    BY <1>1, <1>2, <1>3, <1>4
  <2>2. m \in DOMAIN db
    BY <1>1, <1>2, <1>4, <1>5, <1>10, <2>1
  <2>3. /\ p # NIL /\ p = db[m].parent_id
        /\ db[n].span_start <= db[p].span_start /\ db[p].span_end <= db[n].span_end
    BY <1>2, <2>1, <2>2 DEF ForestInv, OverlapMeansUnder
  <2>4. p \in DOMAIN db
    BY <2>2, <2>3 DEF ForestInv, ParentsMatchChildren
  <2> QED BY <1>2, <2>1, <2>3, <2>4
<1>20. LeavesHaveNoChildren'
  BY <1>2, <1>3, <1>8 DEF ForestInv, LeavesHaveNoChildren
<1>21. StartsAtLeaf'
  <2> SUFFICES ASSUME NEW n \in DOMAIN db'
               PROVE  \E m \in Leaves(db') : db'[m].span_start = db'[n].span_start
    BY DEF StartsAtLeaf
  <2>1. CASE n \in ids
    BY <1>8, <2>1
  <2>2. CASE n \in DOMAIN db
    <3>1. PICK m \in Leaves(db) : db[m].span_start = db[n].span_start
      BY <2>2 DEF ForestInv, StartsAtLeaf
    <3> QED BY <1>2, <1>8, <2>2, <3>1
  <2> QED BY <1>1, <2>1, <2>2
<1>22. LeavesTile'
  <2> SUFFICES ASSUME NEW n \in Leaves(db')
               PROVE  IF db'[n].level_index = 0 THEN db'[n].span_start = 0
                      ELSE \E m \in Leaves(db') :
                              /\ db'[m].level_index = db'[n].level_index - 1
                              /\ db'[m].span_end = db'[n].span_start
    BY DEF LeavesTile
  <2>1. CASE n \in Leaves(db)
    BY <1>2, <1>8, <2>1 DEF ForestInv, LeavesTile
  <2>2. CASE n \in ids /\ n # nextId
    <3>1. n - 1 \in ids
      BY <1>4, <1>9, <2>2 DEF ids
    <3>2. db'[n - 1].span_end = ends[n - nextId]
      <4>1. db'[n - 1].span_end = ends[(n - 1) - nextId + 1]
        BY <1>3, <3>1
      <4>2. (n - 1) - nextId + 1 = n - nextId
        BY <1>4, <1>9, <2>2
      <4> QED BY <4>1, <4>2
    <3>3. db'[n - 1].level_index = db'[n].level_index - 1 /\ db'[n].level_index # 0
      BY <1>3, <1>4, <1>5, <1>9, <2>2, <3>1 DEF ids
    <3> QED BY <1>3, <1>8, <2>2, <3>1, <3>2, <3>3
  <2>3. CASE n = nextId /\ right = NIL
    BY <1>3, <1>4, <1>5, <1>9, <2>3, <1>6 DEF ids
  <2>4. CASE n = nextId /\ right # NIL
    <3>1. nextId \in ids
      BY <1>4, <1>6 DEF ids
    <3>2. db'[n].level_index = index /\ db'[n].span_start = base
      BY <1>3, <1>4, <1>5, <2>4, <3>1
    <3>3. right \in Leaves(db') /\ db'[right].level_index = index - 1 /\ index # 0
          /\ db'[right].span_end = base
      <4>1. right \in DOMAIN db /\ right \in Leaves(db') /\ db[right].level_index \in Nat
        BY <1>4, <1>5, <1>8, <2>4
      <4>2. index = db[right].level_index + 1 /\ base = db[right].span_end
        BY <1>5, <2>4
      <4> QED BY <1>2, <4>1, <4>2
    <3> QED BY <3>2, <3>3
  <2> QED BY <1>8, <2>1, <2>2, <2>3, <2>4
<1>23. SiblingsMeet'
  <2> SUFFICES ASSUME NEW m \in DOMAIN db', NEW n \in DOMAIN db',
                      db'[m].height = db'[n].height,
                      db'[n].level_index = db'[m].level_index + 1
               PROVE  db'[m].span_end = db'[n].span_start
    BY DEF SiblingsMeet
  <2>1. CASE m \in DOMAIN db /\ n \in DOMAIN db
    BY <1>2, <2>1 DEF ForestInv, SiblingsMeet
  <2>2. CASE n \in ids
    <3>1. n \in Leaves(db') /\ m \in Leaves(db')
      BY <1>3, <1>8, <2>2 DEF Leaves
    <3>2. db'[n].level_index # 0 /\ db'[m].level_index = db'[n].level_index - 1
      <4>1. db'[m].level_index \in Nat /\ db'[n].level_index \in Nat
        BY <1>1 DEF Row
      <4> QED BY <4>1
    <3>3. PICK x \in Leaves(db') : /\ db'[x].level_index = db'[n].level_index - 1
                                   /\ db'[x].span_end = db'[n].span_start
      BY <1>22, <3>1, <3>2 DEF LeavesTile
    <3>4. x = m
      <4>1. x \in DOMAIN db' /\ db'[x].height = 0 /\ db'[m].height = 0
            /\ db'[x].level_index = db'[m].level_index
        BY <3>1, <3>2, <3>3 DEF Leaves
      <4> QED BY <1>15, <4>1 DEF OneRowPerCoordinate, SameCoordinate
    <3> QED BY <3>3, <3>4
  <2>3. CASE m \in ids /\ n \in DOMAIN db
    <3>1. db[n].height = 0 /\ db[n].level_index = index + (m - nextId) + 1
      BY <1>2, <1>3, <2>3
    <3>2. db[n].level_index < index
      BY <1>5, <2>3, <3>1 DEF Leaves
    <3>3. m \in Nat /\ nextId \in Nat /\ index \in Nat /\ m >= nextId
      BY <1>4, <1>5, <1>9, <2>3 DEF ids
    <3> QED BY <3>1, <3>2, <3>3
  <2> QED BY <1>1, <2>1, <2>2, <2>3
<1>24. ParentsMatchChildren'
  <2>1. \A n \in DOMAIN db' : db'[n].parent_id # NIL \/ db'[n].height > 0 => n \in DOMAIN db
    BY <1>1, <1>3
  <2>2. ParentsMatchChildren
    BY DEF ForestInv
  <2>3. \A n \in DOMAIN db' : db'[n].parent_id # NIL =>
          LET p == db'[n].parent_id
          IN  /\ p \in DOMAIN db'
              /\ n = IF db'[n].level_index % 2 = 0 THEN db'[p].left_child_id
                                                   ELSE db'[p].right_child_id
    <3> SUFFICES ASSUME NEW n \in DOMAIN db, db[n].parent_id # NIL
                 PROVE  LET p == db[n].parent_id
                        IN  /\ p \in DOMAIN db'
                            /\ n = IF db'[n].level_index % 2 = 0 THEN db'[p].left_child_id
                                                                 ELSE db'[p].right_child_id
      BY <1>2, <2>1
    <3>1. db[n].parent_id \in DOMAIN db
      BY <2>2 DEF ParentsMatchChildren
    <3> QED BY <1>1, <1>2, <2>2, <3>1 DEF ParentsMatchChildren
  <2>4. \A p \in DOMAIN db : db[p].height > 0 =>
          LET l == db'[p].left_child_id
              r == db'[p].right_child_id
          IN  /\ {l, r} \subseteq DOMAIN db'
              /\ db'[l].parent_id = p /\ db'[r].parent_id = p
              /\ db'[l].height = db'[p].height - 1 /\ db'[r].height = db'[p].height - 1
              /\ db'[l].level_index = 2 * db'[p].level_index
              /\ db'[r].level_index = 2 * db'[p].level_index + 1
              /\ db'[p].span_start = db'[l].span_start
              /\ db'[p].span_end = db'[r].span_end
              /\ db'[l].span_end = db'[r].span_start
    <3> SUFFICES ASSUME NEW p \in DOMAIN db, db[p].height > 0, NEW l, NEW r,
                        l = db[p].left_child_id, r = db[p].right_child_id
                 PROVE  /\ {l, r} \subseteq DOMAIN db'
                        /\ db'[l].parent_id = p /\ db'[r].parent_id = p
                        /\ db'[l].height = db'[p].height - 1
                        /\ db'[r].height = db'[p].height - 1
                        /\ db'[l].level_index = 2 * db'[p].level_index
                        /\ db'[r].level_index = 2 * db'[p].level_index + 1
                        /\ db'[p].span_start = db'[l].span_start
                        /\ db'[p].span_end = db'[r].span_end
                        /\ db'[l].span_end = db'[r].span_start
      BY <1>2
    <3>1. l \in DOMAIN db /\ r \in DOMAIN db
      BY <2>2 DEF ParentsMatchChildren
    <3> QED BY <1>1, <1>2, <2>2, <3>1 DEF ParentsMatchChildren
  <2> QED BY <1>1, <1>2, <2>1, <2>3, <2>4 DEF ParentsMatchChildren
<1>25. NeighborsMatchCoordinates'
  <2> SUFFICES ASSUME NEW n \in DOMAIN db', NEW h, NEW i,
                      h = db'[n].height, i = db'[n].level_index
               PROVE  /\ db'[n].following_neighbor_id = NodeAt(db', h, i + 1)
                      /\ db'[n].preceding_neighbor_id =
                           IF i = 0 THEN NIL ELSE NodeAt(db', h, i - 1)
    BY DEF NeighborsMatchCoordinates
  <2>1. NIL \notin DOMAIN db
    BY <1>4 DEF NIL
  <2>2. \A x, y \in DOMAIN db' :
          db'[x].height = db'[y].height /\ db'[x].level_index = db'[y].level_index => x = y
    BY <1>15 DEF OneRowPerCoordinate, SameCoordinate
  <2>3. h \in Nat /\ i \in Nat
    BY <1>1 DEF Row
  <2>4. ASSUME NEW j \in Nat, n \in DOMAIN db, NEW x, x = NodeAt(db, h, j),
               h = 0 => j < index
        PROVE  NodeAt(db', h, j) = x
    <3>1. CASE x \in DOMAIN db
      <4>1. x \in DOMAIN db' /\ db'[x].height = h /\ db'[x].level_index = j
        BY <1>1, <1>2, <2>1, <2>4, <3>1, NodeAtFinds
      <4> QED BY <2>2, <4>1, NodeAtIs
    <3>2. CASE x \notin DOMAIN db
      <4>1. x = NIL /\ \A m \in DOMAIN db : ~(db[m].height = h /\ db[m].level_index = j)
        BY <2>1, <2>4, <3>2, NodeAtFinds
      <4>2. \A m \in ids : ~(db'[m].height = h /\ db'[m].level_index = j)
        BY <1>3, <1>4, <1>5, <2>4 DEF ids
      <4>3. \A m \in DOMAIN db' : ~(db'[m].height = h /\ db'[m].level_index = j)
        BY <1>1, <1>2, <4>1, <4>2
      <4> QED BY <4>1, <4>3, NodeAtIs
    <3> QED BY <3>1, <3>2
  <2>5. CASE n \in DOMAIN db /\ n # right
    <3>1. db[n].following_neighbor_id = NodeAt(db, h, i + 1)
          /\ db[n].preceding_neighbor_id = IF i = 0 THEN NIL ELSE NodeAt(db, h, i - 1)
      BY <1>2, <2>5 DEF ForestInv, NeighborsMatchCoordinates
    <3>2. h = 0 => i < index
      BY <1>2, <1>5, <2>5 DEF Leaves
    <3>3. h = 0 => i + 1 < index
      <4> SUFFICES ASSUME h = 0, ~(i + 1 < index) PROVE FALSE
        OBVIOUS
      <4>1. i + 1 = index
        BY <1>5, <2>3, <3>2
      <4>2. right # NIL
        BY <1>5, <2>5
      <4>3. right \in DOMAIN db' /\ db'[right].height = 0 /\ db'[right].level_index = i
        BY <1>1, <1>2, <1>4, <1>5, <1>8, <2>3, <4>1, <4>2 DEF Leaves
      <4> QED BY <2>2, <2>5, <4>3
    <3>4. NodeAt(db', h, i + 1) = NodeAt(db, h, i + 1)
      BY <2>3, <2>4, <2>5, <3>3
    <3>5. i # 0 => NodeAt(db', h, i - 1) = NodeAt(db, h, i - 1)
      BY <1>5, <2>3, <2>4, <2>5, <3>2
    <3> QED BY <1>2, <2>5, <3>1, <3>4, <3>5
  <2>6. CASE n \in DOMAIN db /\ n = right
    <3>1. right # NIL /\ h = 0 /\ i + 1 = index
      BY <1>2, <1>5, <2>1, <2>6 DEF Leaves
    <3>2. nextId \in DOMAIN db' /\ db'[nextId].height = 0 /\ db'[nextId].level_index = index
      BY <1>1, <1>3, <1>4, <1>5, <1>6 DEF ids
    <3>3. NodeAt(db', h, i + 1) = nextId
      BY <2>2, <3>1, <3>2, NodeAtIs
    <3>4. db[n].preceding_neighbor_id = IF i = 0 THEN NIL ELSE NodeAt(db, h, i - 1)
      BY <1>2, <2>6 DEF ForestInv, NeighborsMatchCoordinates
    <3>5. i # 0 => NodeAt(db', h, i - 1) = NodeAt(db, h, i - 1)
      BY <1>5, <2>3, <2>4, <2>6, <3>1
    <3> QED BY <1>2, <2>6, <3>3, <3>4, <3>5
  <2>7. CASE n \in ids
    <3>1. h = 0 /\ i = index + (n - nextId)
      BY <1>3, <2>7
    <3>2. db'[n].following_neighbor_id = NodeAt(db', h, i + 1)
      <4>1. CASE n = last
        <5>1. \A m \in DOMAIN db' : ~(db'[m].height = h /\ db'[m].level_index = i + 1)
          <6>1. \A m \in ids : ~(db'[m].height = h /\ db'[m].level_index = i + 1)
            BY <1>3, <1>4, <1>5, <1>6, <1>9, <3>1, <4>1 DEF ids
          <6>2. \A m \in DOMAIN db : ~(db'[m].height = h /\ db'[m].level_index = i + 1)
            <7>1. i + 1 >= index /\ i \in Nat
              BY <1>4, <1>5, <1>6, <2>3, <2>7, <3>1 DEF ids
            <7>2. \A m \in DOMAIN db : db[m].height = 0 => db[m].level_index < index
              BY <1>5 DEF Leaves
            <7> QED BY <1>2, <1>4, <1>5, <3>1, <7>1, <7>2
          <6> QED BY <1>1, <6>1, <6>2
        <5>2. NodeAt(db', h, i + 1) = NIL
          BY <5>1, NodeAtIs
        <5> QED BY <1>3, <2>7, <4>1, <5>2
      <4>2. CASE n # last
        <5>1. n + 1 \in ids
          BY <1>4, <1>6, <1>9, <2>7, <4>2 DEF ids
        <5>2. n + 1 \in DOMAIN db' /\ db'[n + 1].height = h /\ db'[n + 1].level_index = i + 1
          <6>1. n + 1 \in DOMAIN db' /\ db'[n + 1].height = h
                /\ db'[n + 1].level_index = index + ((n + 1) - nextId)
            BY <1>1, <1>3, <3>1, <5>1
          <6>2. index \in Nat /\ n \in Nat /\ nextId \in Nat
            BY <1>4, <1>5, <1>9, <2>7
          <6> QED BY <3>1, <6>1, <6>2
        <5>3. NodeAt(db', h, i + 1) = n + 1
          BY <2>2, <5>2, NodeAtIs
        <5> QED BY <1>3, <2>7, <4>2, <5>3
      <4> QED BY <4>1, <4>2
    <3>3. db'[n].preceding_neighbor_id = IF i = 0 THEN NIL ELSE NodeAt(db', h, i - 1)
      <4>1. CASE n # nextId
        <5>1. n - 1 \in ids /\ i # 0
          BY <1>4, <1>5, <1>9, <2>7, <3>1, <4>1 DEF ids
        <5>2. n - 1 \in DOMAIN db' /\ db'[n - 1].height = h /\ db'[n - 1].level_index = i - 1
          <6>1. n - 1 \in DOMAIN db' /\ db'[n - 1].height = h
                /\ db'[n - 1].level_index = index + ((n - 1) - nextId)
            BY <1>1, <1>3, <3>1, <5>1
          <6>2. index \in Nat /\ n \in Nat /\ nextId \in Nat
            BY <1>4, <1>5, <1>9, <2>7
          <6> QED BY <3>1, <6>1, <6>2
        <5>3. NodeAt(db', h, i - 1) = n - 1
          BY <2>2, <5>2, NodeAtIs
        <5> QED BY <1>3, <2>7, <4>1, <5>1, <5>3
      <4>2. CASE n = nextId /\ right = NIL
        BY <1>3, <1>4, <1>5, <2>7, <3>1, <4>2
      <4>3. CASE n = nextId /\ right # NIL
        <5>1. i # 0 /\ right \in DOMAIN db' /\ db'[right].height = h
              /\ db'[right].level_index = i - 1
          BY <1>1, <1>2, <1>4, <1>5, <1>8, <3>1, <4>3 DEF Leaves
        <5>2. NodeAt(db', h, i - 1) = right
          BY <2>2, <5>1, NodeAtIs
        <5> QED BY <1>3, <2>7, <4>3, <5>1, <5>2
      <4> QED BY <4>1, <4>2, <4>3
    <3> QED BY <3>2, <3>3
  <2> QED BY <1>1, <2>5, <2>6, <2>7
<1>26. JobsNotStale'
  <2> SUFFICES ASSUME NEW job \in jobs
               PROVE  /\ {job.left, job.right} \subseteq Roots(db')
                      /\ job = ReadPair(db', job.left, job.right)
    BY <1>7 DEF JobsNotStale
  <2>1. {job.left, job.right} \subseteq Roots(db) /\ job = ReadPair(db, job.left, job.right)
    BY DEF ForestInv, JobsNotStale
  <2>2. Roots(db) \subseteq Roots(db') /\ Roots(db) \subseteq DOMAIN db
    BY <1>1, <1>2 DEF Roots
  <2>3. ReadPair(db', job.left, job.right) = ReadPair(db, job.left, job.right)
    BY <1>2, <2>1, <2>2 DEF ReadPair
  <2> QED BY <2>1, <2>2, <2>3
<1>27. JobsPairSiblings'
  <2>1. \A job \in jobs : job.left \in DOMAIN db /\ job.right \in DOMAIN db
    BY DEF ForestInv, JobsNotStale, Roots
  <2> QED BY <1>2, <1>7, <2>1 DEF ForestInv, JobsPairSiblings
<1> QED
  BY <1>13, <1>14, <1>15, <1>16, <1>17, <1>18, <1>22, <1>23, <1>24, <1>25, <1>26, <1>27,
     <1>19, <1>21, <1>20 DEF ForestInv

-----------------------------------------------------------------------------
(* Summarising *)

\* A scan's pair is read once; nothing else changes.
LEMMA StartKeepsForest ==
  ASSUME ForestInv, NEW l, NEW r, StartSummary(l, r)
  PROVE  ForestInv'
<1> DEFINE job == ReadPair(db, l, r)
<1>1. /\ db' = db /\ nextId' = nextId /\ born' = born
      /\ jobs' = jobs \cup {job}
  BY DEF StartSummary
<1>2. l \in Roots(db) /\ r \in Roots(db) /\ IsEligiblePair(db, l, r)
  BY DEF StartSummary, EligiblePairs
<1>3. l \in DOMAIN db /\ r \in DOMAIN db /\ l \in NodeId /\ r \in NodeId
      /\ db[l] \in Row /\ db[r] \in Row
  BY <1>2 DEF Roots, ForestInv, TypeOK, NodeId, NIL
<1>4. job \in Job /\ job.left = l /\ job.right = r /\ job.level_index = db[l].level_index
  BY <1>3 DEF ReadPair, Job, Row
<1>5. /\ TypeOK' /\ SpansForward' /\ OneRowPerCoordinate' /\ LeavesHaveNoChildren'
      /\ StartsAtLeaf' /\ EndsAtLeaf' /\ TimesFollowSpans'
      /\ LevelsInOrder' /\ OverlapMeansUnder' /\ LeavesTile'
      /\ SiblingsMeet' /\ ParentsMatchChildren'
      /\ NeighborsMatchCoordinates'
  BY <1>1, <1>4 DEF ForestInv, TypeOK, SpansForward, OneRowPerCoordinate,
     LeavesHaveNoChildren, StartsAtLeaf, EndsAtLeaf, TimesFollowSpans,
     LevelsInOrder, OverlapMeansUnder, LeavesTile, SiblingsMeet,
     ParentsMatchChildren, NeighborsMatchCoordinates
<1>6. JobsNotStale'
  <2> HIDE DEF job
  <2>1. {job.left, job.right} \subseteq Roots(db)
        /\ job = ReadPair(db, job.left, job.right)
    BY <1>2, <1>4 DEF job
  <2> QED BY <1>1, <2>1 DEF ForestInv, JobsNotStale
<1>7. JobsPairSiblings'
  BY <1>1, <1>2, <1>4 DEF ForestInv, JobsPairSiblings, IsEligiblePair
<1> QED BY <1>5, <1>6, <1>7 DEF ForestInv

\* What a job in flight is sure of: its pair are sibling roots that meet, it
\* holds their columns, and the parent's coordinate is free.
JobFacts(job) ==
    LET l == job.left
        r == job.right
    IN  /\ l \in DOMAIN db /\ r \in DOMAIN db /\ db[l].parent_id = NIL /\ db[r].parent_id = NIL
        /\ db[l].height \in Nat /\ db[l].level_index \in Nat
        /\ db[l].level_index = 2 * (db[l].level_index \div 2)
        /\ db[r].height = db[l].height /\ db[r].level_index = db[l].level_index + 1
        /\ db[l].span_end = db[r].span_start
        /\ job.height = db[l].height /\ job.level_index = db[l].level_index
        /\ job.span_start = db[l].span_start /\ job.span_end = db[r].span_end
        /\ job.time_end = db[r].time_end
        /\ \A n \in DOMAIN db : ~(/\ db[n].height = job.height + 1
                                  /\ db[n].level_index = job.level_index \div 2)

\* Every job in flight is sure of it.
LEMMA JobPair == ASSUME ForestInv, NEW job \in jobs PROVE JobFacts(job)
<1> DEFINE l == job.left
           r == job.right
<1>1. /\ l \in Roots(db) /\ r \in Roots(db) /\ job = ReadPair(db, l, r)
      /\ job.level_index % 2 = 0
      /\ db[r].height = db[l].height /\ db[r].level_index = db[l].level_index + 1
  BY DEF ForestInv, JobsNotStale, JobsPairSiblings
<1>2. /\ job.height = db[l].height /\ job.level_index = db[l].level_index
      /\ job.span_start = db[l].span_start /\ job.span_end = db[r].span_end
      /\ job.time_end = db[r].time_end
  BY <1>1 DEF ReadPair
<1>3. /\ l \in DOMAIN db /\ r \in DOMAIN db
      /\ db[l].parent_id = NIL /\ db[r].parent_id = NIL
  BY <1>1 DEF Roots
<1>4. \A n \in DOMAIN db : n # NIL /\ db[n].height \in Nat /\ db[n].level_index \in Nat
  BY DEF ForestInv, TypeOK, Row, NIL
<1>5. db[l].level_index = 2 * (db[l].level_index \div 2)
  <2>1. db[l].level_index % 2 = 0 /\ db[l].level_index \in Nat
    BY <1>1, <1>2, <1>3, <1>4
  <2> QED BY <2>1
<1>6. db[l].span_end = db[r].span_start
  BY <1>1, <1>3 DEF ForestInv, SiblingsMeet
<1>7. ASSUME NEW n \in DOMAIN db, db[n].height = job.height + 1,
             db[n].level_index = job.level_index \div 2
      PROVE  FALSE
  <2>1. db[n].height > 0
    BY <1>2, <1>3, <1>4, <1>7
  <2>2. PICK c \in DOMAIN db : /\ db[c].parent_id = n /\ db[c].height = db[n].height - 1
                               /\ db[c].level_index = 2 * db[n].level_index
    BY <2>1 DEF ForestInv, ParentsMatchChildren
  <2>3. db[c].height = db[l].height /\ db[c].level_index = db[l].level_index
    BY <1>2, <1>3, <1>4, <1>5, <1>7, <2>2
  <2>4. c = l
    BY <1>3, <2>3 DEF ForestInv, OneRowPerCoordinate, SameCoordinate
  <2> QED BY <1>3, <1>4, <2>2, <2>4
<1> QED BY <1>1, <1>2, <1>3, <1>4, <1>5, <1>6, <1>7 DEF JobFacts

\* The rows after a commit: the parent is there, its children and neighbours
\* know it, and the unique index never refuses it.
CommittedRows(job) ==
    LET row == ParentRow(db, job)
    IN  /\ DOMAIN db' = DOMAIN db \cup {nextId}
        /\ nextId \notin DOMAIN db
        /\ \A n \in DOMAIN db :
             /\ db'[n] \in Row
             /\ db'[n].height = db[n].height /\ db'[n].level_index = db[n].level_index
             /\ db'[n].span_start = db[n].span_start /\ db'[n].span_end = db[n].span_end
             /\ db'[n].left_child_id = db[n].left_child_id
             /\ db'[n].right_child_id = db[n].right_child_id
             /\ db'[n].time_end = db[n].time_end
             /\ db'[n].parent_id = IF n \in {job.left, job.right} THEN nextId
                                   ELSE db[n].parent_id
             /\ db'[n].following_neighbor_id =
                  IF n = row.preceding_neighbor_id THEN nextId ELSE db[n].following_neighbor_id
             /\ db'[n].preceding_neighbor_id =
                  IF n = row.following_neighbor_id THEN nextId ELSE db[n].preceding_neighbor_id
        /\ db'[nextId] = row
        /\ row \in Row
        /\ db' = [n \in DOMAIN db' |-> db'[n]]

\* The unique index accepts what a job commits.
LEMMA CommitIsAccepted ==
  ASSUME ForestInv, NEW job \in jobs
  PROVE  IndexAccepts(db, [n \in {nextId} |-> ParentRow(db, job)])
<1>1. JobFacts(job)
  BY JobPair
<1>2. /\ ParentRow(db, job).height = job.height + 1
      /\ ParentRow(db, job).level_index = job.level_index \div 2
  BY DEF ParentRow
<1> QED BY <1>1, <1>2 DEF JobFacts, IndexAccepts, SameCoordinate

\* A commit leaves the rows so.
LEMMA CommitRows ==
  ASSUME ForestInv, NEW job \in jobs, CommitSummary(job)
  PROVE  CommittedRows(job)
<1> DEFINE row    == ParentRow(db, job)
           new    == [n \in {nextId} |-> row]
           linked == LinkParent(db, nextId, row)
           h      == job.height + 1
           i      == job.level_index \div 2
<1>1. JobFacts(job)
  BY JobPair
<1>2. /\ nextId \in Nat /\ nextId # NIL /\ NIL \notin DOMAIN db
      /\ \A n \in DOMAIN db : n \in Nat /\ n # nextId /\ db[n] \in Row
  BY DEF ForestInv, TypeOK, NodeId, NIL
<1>3. IndexAccepts(db, new)
  BY CommitIsAccepted
<1>4. db' = Insert(linked, new)
  BY <1>3 DEF CommitSummary, InsertParent
<1>5. DOMAIN linked = DOMAIN db
  BY DEF LinkParent
<1>6. DOMAIN db' = DOMAIN db \cup {nextId} /\ nextId \notin DOMAIN db
      /\ db' = [n \in DOMAIN db' |-> db'[n]]
  BY <1>2, <1>4, <1>5 DEF Insert
<1>7. db'[nextId] = row
  BY <1>2, <1>4, <1>5 DEF Insert
<1>8. \A n \in DOMAIN db : db'[n] = linked[n]
  BY <1>4, <1>5 DEF Insert
<1>9. \A n \in DOMAIN db :
        db'[n] = [db[n] EXCEPT
            !.parent_id = IF n \in {row.left_child_id, row.right_child_id} THEN nextId ELSE @,
            !.following_neighbor_id = IF n = row.preceding_neighbor_id THEN nextId ELSE @,
            !.preceding_neighbor_id = IF n = row.following_neighbor_id THEN nextId ELSE @]
  <2> HIDE DEF row
  <2> QED BY <1>8 DEF LinkParent
<1>10. row.left_child_id = job.left /\ row.right_child_id = job.right
  BY DEF ParentRow
<1>11. row \in Row
  <2>1. \A x, y : NodeAt(db, x, y) \in Nat
    BY <1>2, NodeAtFinds DEF NIL
  <2>2. i \in Nat /\ h \in Nat
    BY <1>1 DEF JobFacts
  <2>3. /\ job.left \in Nat /\ job.right \in Nat
        /\ job.span_start \in Nat /\ job.span_end \in Nat /\ job.time_end \in Nat
    BY <1>1, <1>2 DEF JobFacts, Row
  <2> QED BY <2>1, <2>2, <2>3 DEF ParentRow, Row, NIL
<1> HIDE DEF row, linked, new
<1>12. \A n \in DOMAIN db :
             /\ db'[n] \in Row
             /\ db'[n].height = db[n].height /\ db'[n].level_index = db[n].level_index
             /\ db'[n].span_start = db[n].span_start /\ db'[n].span_end = db[n].span_end
             /\ db'[n].left_child_id = db[n].left_child_id
             /\ db'[n].right_child_id = db[n].right_child_id
             /\ db'[n].time_end = db[n].time_end
             /\ db'[n].parent_id = IF n \in {job.left, job.right} THEN nextId
                                   ELSE db[n].parent_id
             /\ db'[n].following_neighbor_id =
                  IF n = row.preceding_neighbor_id THEN nextId ELSE db[n].following_neighbor_id
             /\ db'[n].preceding_neighbor_id =
                  IF n = row.following_neighbor_id THEN nextId ELSE db[n].preceding_neighbor_id
  <2> TAKE n \in DOMAIN db
  <2> DEFINE p == IF n \in {job.left, job.right} THEN nextId ELSE db[n].parent_id
             f == IF n = row.preceding_neighbor_id THEN nextId ELSE db[n].following_neighbor_id
             b == IF n = row.following_neighbor_id THEN nextId ELSE db[n].preceding_neighbor_id
  <2>1. db[n] \in Row /\ nextId \in Nat
    BY <1>2
  <2>2. p \in Nat /\ f \in Nat /\ b \in Nat
    BY <2>1 DEF Row
  <2>3. db'[n] = [db[n] EXCEPT !.parent_id = p, !.following_neighbor_id = f,
                               !.preceding_neighbor_id = b]
    BY <1>9, <1>10
  <2> HIDE DEF p, f, b
  <2>4. /\ db'[n] \in Row
        /\ db'[n].height = db[n].height /\ db'[n].level_index = db[n].level_index
        /\ db'[n].span_start = db[n].span_start /\ db'[n].span_end = db[n].span_end
        /\ db'[n].left_child_id = db[n].left_child_id
        /\ db'[n].right_child_id = db[n].right_child_id
        /\ db'[n].time_end = db[n].time_end
        /\ db'[n].parent_id = p /\ db'[n].following_neighbor_id = f
        /\ db'[n].preceding_neighbor_id = b
    BY <2>1, <2>2, <2>3 DEF Row
  <2> QED BY <2>4 DEF p, f, b
<1> QED BY <1>6, <1>7, <1>11, <1>12 DEF CommittedRows, row

\* A commit keeps the invariant, for the jobs still in flight too.
LEMMA CommitKeepsForest ==
  ASSUME ForestInv, NEW job \in jobs, CommitSummary(job)
  PROVE  ForestInv'
<1> DEFINE l   == job.left
           r   == job.right
           row == ParentRow(db, job)
           h   == job.height + 1
           i   == job.level_index \div 2
<1>1. CommittedRows(job) /\ JobFacts(job)
  BY CommitRows, JobPair
<1>2. /\ DOMAIN db' = DOMAIN db \cup {nextId}
      /\ nextId \notin DOMAIN db
      /\ db'[nextId] = row
      /\ row \in Row
      /\ db' = [n \in DOMAIN db' |-> db'[n]]
      /\ \A n \in DOMAIN db' : db'[n] \in Row
  BY <1>1 DEF CommittedRows
<1>3. \A n \in DOMAIN db :
             /\ db'[n].height = db[n].height /\ db'[n].level_index = db[n].level_index
             /\ db'[n].span_start = db[n].span_start /\ db'[n].span_end = db[n].span_end
             /\ db'[n].left_child_id = db[n].left_child_id
             /\ db'[n].right_child_id = db[n].right_child_id
             /\ db'[n].time_end = db[n].time_end
             /\ db'[n].parent_id = IF n \in {l, r} THEN nextId ELSE db[n].parent_id
             /\ db'[n].following_neighbor_id =
                  IF n = row.preceding_neighbor_id THEN nextId ELSE db[n].following_neighbor_id
             /\ db'[n].preceding_neighbor_id =
                  IF n = row.following_neighbor_id THEN nextId ELSE db[n].preceding_neighbor_id
  BY <1>1 DEF CommittedRows
<1>4. /\ l \in DOMAIN db /\ r \in DOMAIN db /\ db[l].parent_id = NIL /\ db[r].parent_id = NIL
      /\ db[l].height \in Nat /\ db[l].level_index \in Nat
      /\ db[r].height = db[l].height /\ db[r].level_index = db[l].level_index + 1
      /\ db[l].span_end = db[r].span_start
      /\ job.height = db[l].height /\ job.level_index = db[l].level_index
      /\ \A n \in DOMAIN db : ~(db[n].height = h /\ db[n].level_index = i)
  BY <1>1 DEF JobFacts
<1>5. i \in Nat /\ h \in Nat /\ h > 0 /\ db[l].level_index = 2 * i /\ h = db[l].height + 1
  <2>1. db[l].level_index = 2 * i
    BY <1>1 DEF JobFacts
  <2> QED BY <1>4, <2>1
<1>6. /\ row.height = h /\ row.level_index = i
      /\ row.parent_id = NIL /\ row.left_child_id = l /\ row.right_child_id = r
      /\ row.span_start = db[l].span_start /\ row.span_end = db[r].span_end
      /\ row.time_end = db[r].time_end
      /\ row.preceding_neighbor_id = IF i = 0 THEN NIL ELSE NodeAt(db, h, i - 1)
      /\ row.following_neighbor_id = NodeAt(db, h, i + 1)
  BY <1>1, <1>5 DEF JobFacts, ParentRow
<1>7. /\ nextId' = nextId + 1 /\ born' = born /\ jobs' = jobs \ {job}
  BY DEF CommitSummary
<1>8. /\ nextId \in Nat /\ nextId # NIL /\ NIL \notin DOMAIN db
      /\ \A n \in DOMAIN db :
           /\ n \in Nat /\ n >= 1 /\ n < nextId
           /\ db[n].height \in Nat /\ db[n].level_index \in Nat
           /\ db[n].span_start \in Nat /\ db[n].span_end \in Nat /\ db[n].time_end \in Nat
  BY DEF ForestInv, TypeOK, NodeId, NIL, Row
<1> HIDE DEF row, h, i
<1>9. Leaves(db') = Leaves(db) /\ Leaves(db) \subseteq DOMAIN db
  BY <1>2, <1>3, <1>5, <1>6 DEF Leaves
<1>10. TypeOK'
  <2>1. nextId' \in NodeId /\ born' \in 0 .. MaxLeaves
    BY <1>7, <1>8 DEF ForestInv, TypeOK, NodeId, NIL
  <2>2. DOMAIN db' \subseteq 1 .. (nextId' - 1)
    BY <1>2, <1>7, <1>8 DEF NIL
  <2>3. db' \in [DOMAIN db' -> Row]
    BY <1>2
  <2>4. (jobs \subseteq Job)'
    BY <1>7 DEF ForestInv, TypeOK, Job
  <2> QED BY <2>1, <2>2, <2>3, <2>4 DEF TypeOK
<1>11. SpansForward'
  <2>1. db'[nextId].span_start < db'[nextId].span_end
    BY <1>2, <1>4, <1>6, <1>8 DEF ForestInv, SpansForward
  <2> QED BY <1>2, <1>3, <2>1 DEF ForestInv, SpansForward
<1>12. OneRowPerCoordinate'
  <2>1. \A m, n \in DOMAIN db' :
          db'[m].height = db'[n].height /\ db'[m].level_index = db'[n].level_index => m = n
    <3> TAKE m, n \in DOMAIN db'
    <3>1. CASE m \in DOMAIN db /\ n \in DOMAIN db
      BY <1>3, <3>1 DEF ForestInv, OneRowPerCoordinate, SameCoordinate
    <3>2. CASE m = nextId \/ n = nextId
      BY <1>2, <1>3, <1>4, <1>6, <3>2
    <3> QED BY <1>2, <3>1, <3>2
  <2> QED BY <2>1 DEF OneRowPerCoordinate, SameCoordinate
<1>13. EndsAtLeaf'
  <2> SUFFICES ASSUME NEW n \in DOMAIN db'
               PROVE  \E m \in Leaves(db') : db'[m].span_end = db'[n].span_end
    BY DEF EndsAtLeaf
  <2>1. PICK x \in DOMAIN db : db[x].span_end = db'[n].span_end
    BY <1>2, <1>3, <1>4, <1>6
  <2>2. PICK m \in Leaves(db) : db[m].span_end = db[x].span_end
    BY DEF ForestInv, EndsAtLeaf
  <2> QED BY <1>3, <1>9, <2>1, <2>2
<1>14. TimesFollowSpans'
  <2>1. \A n \in DOMAIN db' : \E x \in DOMAIN db :
          db[x].span_end = db'[n].span_end /\ db[x].time_end = db'[n].time_end
    BY <1>2, <1>3, <1>4, <1>6
  <2> SUFFICES ASSUME NEW m \in DOMAIN db', NEW n \in DOMAIN db',
                      db'[m].span_end <= db'[n].span_end
               PROVE  db'[m].time_end <= db'[n].time_end
    BY DEF TimesFollowSpans
  <2>2. PICK x \in DOMAIN db :
          db[x].span_end = db'[m].span_end /\ db[x].time_end = db'[m].time_end
    BY <2>1
  <2>3. PICK y \in DOMAIN db :
          db[y].span_end = db'[n].span_end /\ db[y].time_end = db'[n].time_end
    BY <2>1
  <2>4. db[x].time_end <= db[y].time_end
    BY <2>2, <2>3 DEF ForestInv, TimesFollowSpans
  <2> QED BY <2>2, <2>3, <2>4
<1>15. LevelsInOrder'
  <2> SUFFICES ASSUME NEW m \in DOMAIN db', NEW n \in DOMAIN db',
                      db'[m].height = db'[n].height,
                      db'[m].level_index < db'[n].level_index
               PROVE  db'[m].span_end <= db'[n].span_start
    BY DEF LevelsInOrder
  <2>1. CASE m \in DOMAIN db /\ n \in DOMAIN db
    BY <1>3, <2>1 DEF ForestInv, LevelsInOrder
  <2>2. CASE n = nextId /\ m \in DOMAIN db
    <3>1. db[m].height = h /\ db[m].level_index < i
      BY <1>2, <1>3, <1>6, <2>2
    <3>2. PICK c \in DOMAIN db : /\ db[c].height = h - 1
                                 /\ db[c].level_index = 2 * db[m].level_index + 1
                                 /\ db[c].span_end = db[m].span_end
      BY <1>5, <2>2, <3>1 DEF ForestInv, ParentsMatchChildren
    <3>3. db[c].height = db[l].height /\ db[c].level_index < db[l].level_index
      BY <1>4, <1>5, <1>8, <2>2, <3>1, <3>2
    <3>4. db[c].span_end <= db[l].span_start
      BY <1>4, <3>3 DEF ForestInv, LevelsInOrder
    <3> QED BY <1>2, <1>3, <1>6, <2>2, <3>2, <3>4
  <2>3. CASE m = nextId /\ n \in DOMAIN db
    <3>1. db[n].height = h /\ i < db[n].level_index
      BY <1>2, <1>3, <1>6, <2>3
    <3>2. PICK c \in DOMAIN db : /\ db[c].height = h - 1
                                 /\ db[c].level_index = 2 * db[n].level_index
                                 /\ db[c].span_start = db[n].span_start
      BY <1>5, <2>3, <3>1 DEF ForestInv, ParentsMatchChildren
    <3>3. db[c].height = db[r].height /\ db[r].level_index < db[c].level_index
      BY <1>4, <1>5, <1>8, <2>3, <3>1, <3>2
    <3>4. db[r].span_end <= db[c].span_start
      BY <1>4, <3>3 DEF ForestInv, LevelsInOrder
    <3> QED BY <1>2, <1>3, <1>6, <2>3, <3>2, <3>4
  <2>4. CASE m = nextId /\ n = nextId
    BY <1>2, <1>5, <1>6, <2>4
  <2> QED BY <1>2, <2>1, <2>2, <2>3, <2>4
<1>16. OverlapMeansUnder'
  <2> DEFINE Overlap(a, b) == a.span_start < b.span_end /\ b.span_start < a.span_end
  <2>1. \A n \in DOMAIN db : db[l].height < db[n].height =>
           ~Overlap(db[l], db[n]) /\ ~Overlap(db[r], db[n])
    BY <1>4 DEF ForestInv, OverlapMeansUnder
  <2>2. \A n \in DOMAIN db : db[n].height = db[l].height =>
           (Overlap(db[n], db[l]) => n = l) /\ (Overlap(db[n], db[r]) => n = r)
    <3> SUFFICES ASSUME NEW n \in DOMAIN db, NEW x \in {l, r}, db[n].height = db[x].height,
                        Overlap(db[n], db[x])
                 PROVE  n = x
      BY <1>4
    <3>1. x \in DOMAIN db
      BY <1>4
    <3>2. ~(db[n].level_index < db[x].level_index) /\ ~(db[x].level_index < db[n].level_index)
      BY <1>8, <3>1 DEF ForestInv, LevelsInOrder
    <3>3. db[n].level_index = db[x].level_index
      BY <1>8, <3>1, <3>2
    <3> QED BY <3>1, <3>3 DEF ForestInv, OneRowPerCoordinate, SameCoordinate
  <2>3. \A n \in DOMAIN db : Overlap(db[n], row) => Overlap(db[n], db[l]) \/ Overlap(db[n], db[r])
    <3> TAKE n \in DOMAIN db
    <3>1. /\ db[n].span_start \in Nat /\ db[n].span_end \in Nat
          /\ db[l].span_start \in Nat /\ db[l].span_end \in Nat
          /\ db[r].span_start \in Nat /\ db[r].span_end \in Nat
          /\ db[n].span_start < db[n].span_end
      BY <1>4, <1>8 DEF ForestInv, SpansForward
    <3> QED BY <1>4, <1>6, <3>1
  <2>4. db[l].span_start < db[l].span_end /\ db[r].span_start < db[r].span_end
    BY <1>4 DEF ForestInv, SpansForward
  <2> SUFFICES ASSUME NEW m \in DOMAIN db', NEW n \in DOMAIN db',
                      db'[m].height < db'[n].height,
                      Overlap(db'[m], db'[n]),
                      NEW p, p = db'[m].parent_id
               PROVE  /\ p # NIL
                      /\ db'[n].span_start <= db'[p].span_start
                      /\ db'[p].span_end <= db'[n].span_end
    BY DEF OverlapMeansUnder
  <2>5. CASE m \in DOMAIN db /\ n \in DOMAIN db
    <3>1. Overlap(db[m], db[n]) /\ db[m].height < db[n].height
      BY <1>3, <2>5
    <3>2. m \notin {l, r}
      BY <1>4, <2>1, <2>5, <3>1
    <3>3. /\ p # NIL /\ p = db[m].parent_id
          /\ db[n].span_start <= db[p].span_start /\ db[p].span_end <= db[n].span_end
      BY <1>3, <2>5, <3>1, <3>2 DEF ForestInv, OverlapMeansUnder
    <3>4. p \in DOMAIN db
      BY <2>5, <3>3 DEF ForestInv, ParentsMatchChildren
    <3> QED BY <1>3, <2>5, <3>3, <3>4
  <2>6. CASE m = nextId /\ n \in DOMAIN db
    <3>1. Overlap(db[n], row) /\ db[l].height < db[n].height
      BY <1>2, <1>3, <1>4, <1>5, <1>6, <1>8, <2>6
    <3>2. Overlap(db[n], db[l]) \/ Overlap(db[n], db[r])
      BY <2>3, <2>6, <3>1
    <3> QED BY <2>1, <2>6, <3>1, <3>2
  <2>7. CASE m \in DOMAIN db /\ n = nextId
    <3>1. Overlap(db[m], row) /\ db[m].height < h
      BY <1>2, <1>3, <1>6, <2>7
    <3>2. PICK x \in {l, r} : Overlap(db[m], db[x])
      BY <2>3, <2>7, <3>1
    <3>3. /\ x \in DOMAIN db /\ db[x].height = h - 1
          /\ row.span_start <= db[x].span_start /\ db[x].span_end <= row.span_end
      BY <1>4, <1>5, <1>6, <1>8, <2>4
    <3>4. CASE db[m].height = db[x].height
      <4>1. m = x
        BY <1>4, <2>2, <2>7, <3>2, <3>4
      <4>2. p = nextId
        BY <1>3, <2>7, <4>1
      <4> QED BY <1>2, <1>8, <2>7, <4>2, <1>4, <1>6
    <3>5. CASE db[m].height < db[x].height
      <4>1. m \notin {l, r}
        BY <1>4, <3>2, <3>5
      <4>2. /\ p # NIL /\ p = db[m].parent_id
            /\ db[x].span_start <= db[p].span_start /\ db[p].span_end <= db[x].span_end
        BY <1>3, <2>7, <3>2, <3>3, <3>5, <4>1 DEF ForestInv, OverlapMeansUnder
      <4>3. p \in DOMAIN db
        BY <2>7, <4>2 DEF ForestInv, ParentsMatchChildren
      <4> QED BY <1>2, <1>3, <1>4, <1>6, <1>8, <2>7, <3>3, <4>2, <4>3
    <3>6. db[m].height <= db[x].height
      BY <1>4, <1>5, <1>8, <2>7, <3>1, <3>3
    <3> QED BY <1>8, <2>7, <3>3, <3>4, <3>5, <3>6
  <2>8. CASE m = nextId /\ n = nextId
    BY <1>2, <1>5, <1>6, <2>8
  <2> QED BY <1>2, <2>5, <2>6, <2>7, <2>8
<1>17. LeavesHaveNoChildren'
  BY <1>3, <1>9 DEF ForestInv, LeavesHaveNoChildren
<1>18. StartsAtLeaf'
  <2> SUFFICES ASSUME NEW n \in DOMAIN db'
               PROVE  \E m \in Leaves(db') : db'[m].span_start = db'[n].span_start
    BY DEF StartsAtLeaf
  <2>1. PICK x \in DOMAIN db : db[x].span_start = db'[n].span_start
    BY <1>2, <1>3, <1>4, <1>6
  <2>2. PICK m \in Leaves(db) : db[m].span_start = db[x].span_start
    BY DEF ForestInv, StartsAtLeaf
  <2> QED BY <1>3, <1>9, <2>1, <2>2
<1>19. LeavesTile'
  BY <1>3, <1>9 DEF ForestInv, LeavesTile
<1>20. SiblingsMeet'
  <2> SUFFICES ASSUME NEW m \in DOMAIN db', NEW n \in DOMAIN db',
                      db'[m].height = db'[n].height,
                      db'[n].level_index = db'[m].level_index + 1
               PROVE  db'[m].span_end = db'[n].span_start
    BY DEF SiblingsMeet
  <2>1. CASE m \in DOMAIN db /\ n \in DOMAIN db
    BY <1>3, <2>1 DEF ForestInv, SiblingsMeet
  <2>2. CASE n = nextId /\ m \in DOMAIN db
    <3>1. db[m].height = h /\ db[m].level_index = i - 1
      BY <1>2, <1>3, <1>5, <1>6, <1>8, <2>2
    <3>2. PICK c \in DOMAIN db : /\ db[c].height = h - 1
                                 /\ db[c].level_index = 2 * db[m].level_index + 1
                                 /\ db[c].span_end = db[m].span_end
      BY <1>5, <2>2, <3>1 DEF ForestInv, ParentsMatchChildren
    <3>3. db[c].height = db[l].height /\ db[l].level_index = db[c].level_index + 1
      BY <1>4, <1>5, <3>1, <3>2
    <3>4. db[c].span_end = db[l].span_start
      BY <1>4, <3>3 DEF ForestInv, SiblingsMeet
    <3>5. db'[m].span_end = db[m].span_end
      BY <1>3, <2>2
    <3>6. db'[n].span_start = db[l].span_start
      BY <1>2, <1>6, <2>2
    <3> QED BY <3>2, <3>4, <3>5, <3>6
  <2>3. CASE m = nextId /\ n \in DOMAIN db
    <3>1. db[n].height = h /\ db[n].level_index = i + 1
      BY <1>2, <1>3, <1>5, <1>6, <1>8, <2>3
    <3>2. PICK c \in DOMAIN db : /\ db[c].height = h - 1
                                 /\ db[c].level_index = 2 * db[n].level_index
                                 /\ db[c].span_start = db[n].span_start
      BY <1>5, <2>3, <3>1 DEF ForestInv, ParentsMatchChildren
    <3>3. db[c].height = db[r].height /\ db[c].level_index = db[r].level_index + 1
      BY <1>4, <1>5, <3>1, <3>2
    <3>4. db[r].span_end = db[c].span_start
      BY <1>4, <3>3 DEF ForestInv, SiblingsMeet
    <3>5. db'[n].span_start = db[n].span_start
      BY <1>3, <2>3
    <3>6. db'[m].span_end = db[r].span_end
      BY <1>2, <1>6, <2>3
    <3> QED BY <3>2, <3>4, <3>5, <3>6
  <2>4. CASE m = nextId /\ n = nextId
    BY <1>2, <1>5, <1>6, <2>4
  <2> QED BY <1>2, <2>1, <2>2, <2>3, <2>4
<1>21. ParentsMatchChildren'
  <2>1. db[l].level_index % 2 = 0 /\ db[r].level_index % 2 = 1
    BY <1>4, <1>5
  <2>2. ASSUME NEW n \in DOMAIN db', db'[n].parent_id # NIL
        PROVE  LET p == db'[n].parent_id
               IN  /\ p \in DOMAIN db'
                   /\ n = IF db'[n].level_index % 2 = 0 THEN db'[p].left_child_id
                                                        ELSE db'[p].right_child_id
    <3>1. n \in DOMAIN db
      BY <1>2, <1>6, <2>2
    <3>2. CASE n \in {l, r}
      BY <1>2, <1>3, <1>6, <2>1, <3>1, <3>2
    <3>3. CASE n \notin {l, r}
      <4>1. db'[n].parent_id = db[n].parent_id /\ db[n].parent_id # NIL
        BY <1>3, <2>2, <3>1, <3>3
      <4>2. db[n].parent_id \in DOMAIN db
        BY <3>1, <4>1 DEF ForestInv, ParentsMatchChildren
      <4> QED BY <1>2, <1>3, <3>1, <4>1, <4>2 DEF ForestInv, ParentsMatchChildren
    <3> QED BY <3>2, <3>3
  <2>3. ASSUME NEW p \in DOMAIN db', db'[p].height > 0, NEW x, NEW y,
               x = db'[p].left_child_id, y = db'[p].right_child_id
        PROVE  /\ {x, y} \subseteq DOMAIN db'
               /\ db'[x].parent_id = p /\ db'[y].parent_id = p
               /\ db'[x].height = db'[p].height - 1
               /\ db'[y].height = db'[p].height - 1
               /\ db'[x].level_index = 2 * db'[p].level_index
               /\ db'[y].level_index = 2 * db'[p].level_index + 1
               /\ db'[p].span_start = db'[x].span_start
               /\ db'[p].span_end = db'[y].span_end
               /\ db'[x].span_end = db'[y].span_start
    <3>1. CASE p = nextId
      <4>1. x = l /\ y = r
        BY <1>2, <1>6, <2>3, <3>1
      <4> QED BY <1>2, <1>3, <1>4, <1>5, <1>6, <3>1, <4>1
    <3>2. CASE p \in DOMAIN db
      <4>1. /\ x \in DOMAIN db /\ y \in DOMAIN db
            /\ db[x].parent_id = p /\ db[y].parent_id = p
            /\ db[x].height = db[p].height - 1 /\ db[y].height = db[p].height - 1
            /\ db[x].level_index = 2 * db[p].level_index
            /\ db[y].level_index = 2 * db[p].level_index + 1
            /\ db[p].span_start = db[x].span_start
            /\ db[p].span_end = db[y].span_end
            /\ db[x].span_end = db[y].span_start
        BY <1>3, <2>3, <3>2 DEF ForestInv, ParentsMatchChildren
      <4>2. x \notin {l, r} /\ y \notin {l, r}
        BY <1>4, <1>8, <3>2, <4>1
      <4> QED BY <1>2, <1>3, <3>2, <4>1, <4>2
    <3> QED BY <1>2, <3>1, <3>2
  <2> QED BY <2>2, <2>3 DEF ParentsMatchChildren
<1>22. NeighborsMatchCoordinates'
  <2>1. \A x, y \in DOMAIN db' :
          db'[x].height = db'[y].height /\ db'[x].level_index = db'[y].level_index => x = y
    BY <1>12 DEF OneRowPerCoordinate, SameCoordinate
  <2>2. NodeAt(db', h, i) = nextId
    BY <1>2, <1>6, <2>1, NodeAtIs
  <2>3. ASSUME NEW a, NEW b, ~(a = h /\ b = i)
        PROVE  NodeAt(db', a, b) = NodeAt(db, a, b)
    <3>1. CASE NodeAt(db, a, b) \in DOMAIN db
      <4>1. PICK x \in DOMAIN db : x = NodeAt(db, a, b)
        BY <3>1
      <4>2. db[x].height = a /\ db[x].level_index = b
        BY <1>8, <4>1, NodeAtFinds
      <4>3. x \in DOMAIN db' /\ db'[x].height = a /\ db'[x].level_index = b
        BY <1>2, <1>3, <4>2
      <4>4. NodeAt(db', a, b) = x
        BY <2>1, <4>3, NodeAtIs
      <4> QED BY <4>1, <4>4
    <3>2. CASE NodeAt(db, a, b) \notin DOMAIN db
      <4>1. NodeAt(db, a, b) = NIL
            /\ \A m \in DOMAIN db : ~(db[m].height = a /\ db[m].level_index = b)
        BY <1>8, <3>2, NodeAtFinds
      <4>2. \A m \in DOMAIN db' : ~(db'[m].height = a /\ db'[m].level_index = b)
        BY <1>2, <1>3, <1>6, <2>3, <4>1
      <4>3. NodeAt(db', a, b) = NIL
        BY <4>2, NodeAtIs
      <4> QED BY <4>1, <4>3
    <3> QED BY <3>1, <3>2
  <2>4. ASSUME NEW n \in DOMAIN db'
        PROVE  /\ db'[n].following_neighbor_id
                    = NodeAt(db', db'[n].height, db'[n].level_index + 1)
               /\ db'[n].preceding_neighbor_id =
                    IF db'[n].level_index = 0 THEN NIL
                    ELSE NodeAt(db', db'[n].height, db'[n].level_index - 1)
    <3>1. CASE n = nextId
      <4>1. NodeAt(db', h, i + 1) = NodeAt(db, h, i + 1)
        BY <1>5, <2>3
      <4>2. i # 0 => NodeAt(db', h, i - 1) = NodeAt(db, h, i - 1)
        BY <1>5, <2>3
      <4> QED BY <1>2, <1>6, <3>1, <4>1, <4>2
    <3>2. CASE n \in DOMAIN db
      <4> DEFINE a == db[n].height
                 b == db[n].level_index
      <4>1. db[n].following_neighbor_id = NodeAt(db, a, b + 1)
            /\ db[n].preceding_neighbor_id = IF b = 0 THEN NIL ELSE NodeAt(db, a, b - 1)
        BY <3>2 DEF ForestInv, NeighborsMatchCoordinates
      <4>2. NodeAt(db, a, b) = n
        BY <3>2, NodeAtRow DEF ForestInv, OneRowPerCoordinate
      <4>3. a \in Nat /\ b \in Nat /\ db'[n].height = a /\ db'[n].level_index = b /\ n # NIL
        BY <1>3, <1>8, <3>2
      <4> HIDE DEF a, b
      <4>4. db'[n].following_neighbor_id = NodeAt(db', a, b + 1)
        <5>1. CASE n = row.preceding_neighbor_id
          <6>1. i # 0 /\ n = NodeAt(db, h, i - 1)
            BY <1>6, <4>3, <5>1
          <6>2. a = h /\ b = i - 1
            BY <1>8, <3>2, <6>1, NodeAtFinds DEF a, b
          <6>3. b + 1 = i
            BY <1>5, <6>2
          <6> QED BY <1>3, <2>2, <3>2, <5>1, <6>2, <6>3
        <5>2. CASE n # row.preceding_neighbor_id
          <6>1. ~(a = h /\ b + 1 = i)
            <7> SUFFICES ASSUME a = h, b + 1 = i PROVE FALSE
              OBVIOUS
            <7>1. i # 0 /\ b = i - 1
              BY <4>3
            <7> QED BY <1>6, <4>2, <5>2, <7>1
          <6>2. NodeAt(db', a, b + 1) = NodeAt(db, a, b + 1)
            BY <2>3, <6>1
          <6> QED BY <1>3, <3>2, <4>1, <5>2, <6>2
        <5> QED BY <5>1, <5>2
      <4>5. db'[n].preceding_neighbor_id = IF b = 0 THEN NIL ELSE NodeAt(db', a, b - 1)
        <5>1. CASE n = row.following_neighbor_id
          <6>1. n = NodeAt(db, h, i + 1)
            BY <1>6, <5>1
          <6>2. a = h /\ b = i + 1
            BY <1>8, <3>2, <6>1, NodeAtFinds DEF a, b
          <6>3. b # 0 /\ b - 1 = i
            BY <1>5, <6>2
          <6> QED BY <1>3, <2>2, <3>2, <5>1, <6>2, <6>3
        <5>2. CASE n # row.following_neighbor_id
          <6>1. b # 0 => ~(a = h /\ b - 1 = i)
            <7> SUFFICES ASSUME a = h, b # 0, b - 1 = i PROVE FALSE
              OBVIOUS
            <7>1. b = i + 1
              BY <4>3
            <7> QED BY <1>6, <4>2, <5>2, <7>1
          <6>2. b # 0 => NodeAt(db', a, b - 1) = NodeAt(db, a, b - 1)
            BY <2>3, <6>1
          <6> QED BY <1>3, <3>2, <4>1, <5>2, <6>2
        <5> QED BY <5>1, <5>2
      <4> QED BY <4>3, <4>4, <4>5
    <3> QED BY <1>2, <3>1, <3>2
  <2> QED BY <2>4 DEF NeighborsMatchCoordinates
<1>23. \A other \in jobs' : /\ other \in jobs
                            /\ other.left \notin {l, r} /\ other.right \notin {l, r}
  <2> SUFFICES ASSUME NEW other \in jobs, other # job
               PROVE  other.left \notin {l, r} /\ other.right \notin {l, r}
    BY <1>7
  <2>1. JobFacts(other)
    BY JobPair
  <2>2. /\ other.left \in DOMAIN db /\ other.right \in DOMAIN db
        /\ db[other.left].level_index = 2 * (db[other.left].level_index \div 2)
        /\ db[other.left].level_index \in Nat
        /\ db[other.right].height = db[other.left].height
        /\ db[other.right].level_index = db[other.left].level_index + 1
    BY <2>1 DEF JobFacts
  <2>3. other.left = l => other.right = r
    BY <1>4, <2>2 DEF ForestInv, OneRowPerCoordinate, SameCoordinate
  <2>4. other.right = r => other.left = l
    <3> SUFFICES ASSUME other.right = r PROVE other.left = l
      OBVIOUS
    <3>1. db[other.left].height = db[l].height /\ db[other.left].level_index = db[l].level_index
      <4>1. db[r].height = db[other.left].height
            /\ db[r].level_index = db[other.left].level_index + 1
        BY <2>2
      <4>2. db[l].level_index \in Nat /\ db[other.left].level_index \in Nat
        BY <1>4, <2>2
      <4>3. db[r].height = db[l].height /\ db[r].level_index = db[l].level_index + 1
        BY <1>4
      <4> HIDE DEF l, r
      <4> QED BY <4>1, <4>2, <4>3
    <3> QED BY <1>4, <2>2, <3>1 DEF ForestInv, OneRowPerCoordinate, SameCoordinate
  <2>5. ~(other.left = l /\ other.right = r)
    <3>1. other = ReadPair(db, other.left, other.right) /\ job = ReadPair(db, l, r)
      BY DEF ForestInv, JobsNotStale
    <3> QED BY <3>1
  <2>6. other.left # r /\ other.right # l
    <3>1. db[other.left].level_index # db[r].level_index
      BY <1>4, <1>5, <2>2
    <3>2. db[other.right].level_index # db[l].level_index
      BY <1>4, <1>5, <2>2
    <3> QED BY <3>1, <3>2
  <2> QED BY <2>3, <2>4, <2>5, <2>6
<1>24. JobsNotStale'
  <2> SUFFICES ASSUME NEW other \in jobs'
               PROVE  /\ {other.left, other.right} \subseteq Roots(db')
                      /\ other = ReadPair(db', other.left, other.right)
    BY DEF JobsNotStale
  <2>1. {other.left, other.right} \subseteq Roots(db)
        /\ other = ReadPair(db, other.left, other.right)
    BY <1>23 DEF ForestInv, JobsNotStale
  <2>2. other.left \in DOMAIN db /\ other.right \in DOMAIN db
    BY <2>1 DEF Roots
  <2>3. {other.left, other.right} \subseteq Roots(db')
    BY <1>2, <1>3, <1>23, <2>1, <2>2 DEF Roots
  <2>4. ReadPair(db', other.left, other.right) = ReadPair(db, other.left, other.right)
    BY <1>3, <2>2 DEF ReadPair
  <2> QED BY <2>1, <2>3, <2>4
<1>25. JobsPairSiblings'
  <2>1. \A other \in jobs' : other.left \in DOMAIN db /\ other.right \in DOMAIN db
    BY <1>23 DEF ForestInv, JobsNotStale, Roots
  <2> QED BY <1>3, <1>7, <2>1 DEF ForestInv, JobsPairSiblings
<1> QED
  BY <1>10, <1>11, <1>12, <1>13, <1>14, <1>15, <1>19, <1>20, <1>21, <1>22, <1>24, <1>25,
     <1>16, <1>18, <1>17 DEF ForestInv

\* A job that ends without writing, and a process that stops, drop jobs only.
LEMMA DropJobsKeepsForest ==
  ASSUME ForestInv, jobs' \subseteq jobs, UNCHANGED <<db, nextId, born>>
  PROVE  ForestInv'
BY DEF ForestInv, TypeOK, SpansForward, OneRowPerCoordinate,
   LeavesHaveNoChildren, StartsAtLeaf, EndsAtLeaf, TimesFollowSpans,
   LevelsInOrder, OverlapMeansUnder, LeavesTile, SiblingsMeet,
   ParentsMatchChildren, NeighborsMatchCoordinates, JobsNotStale,
   JobsPairSiblings

-----------------------------------------------------------------------------
(* Truncating *)

\* Of two rows, the one that ends further on does not stay behind alone.
UpwardClosed(gone) ==
    /\ gone \subseteq DOMAIN db
    /\ \A m \in gone, n \in DOMAIN db : db[m].span_end <= db[n].span_end => n \in gone

\* A parent covers its child and is longer.
LEMMA UnderParent ==
  ASSUME ForestInv, NEW n \in DOMAIN db, db[n].parent_id # NIL
  PROVE  LET p == db[n].parent_id
         IN  /\ p \in DOMAIN db /\ db[p].height = db[n].height + 1
             /\ n = db[p].left_child_id \/ n = db[p].right_child_id
             /\ db[p].span_start <= db[n].span_start /\ db[n].span_end <= db[p].span_end
             /\ db[n].span_end - db[n].span_start < db[p].span_end - db[p].span_start
<1> DEFINE p == db[n].parent_id
           x == db[p].left_child_id
           y == db[p].right_child_id
<1>1. p \in DOMAIN db /\ (n = x \/ n = y)
  BY DEF ForestInv, ParentsMatchChildren
<1>2. \A m \in DOMAIN db :
        /\ m # NIL /\ db[m].height \in Nat /\ db[m].left_child_id \in Nat
        /\ db[m].span_start \in Nat /\ db[m].span_end \in Nat
        /\ db[m].span_start < db[m].span_end
  BY DEF ForestInv, TypeOK, NodeId, NIL, Row, SpansForward
<1>3. db[p].height > 0
  BY <1>1, <1>2 DEF ForestInv, LeavesHaveNoChildren, Leaves
<1>4. /\ x \in DOMAIN db /\ y \in DOMAIN db
      /\ db[x].height = db[p].height - 1 /\ db[y].height = db[p].height - 1
      /\ db[p].span_start = db[x].span_start
      /\ db[p].span_end = db[y].span_end
      /\ db[x].span_end = db[y].span_start
  BY <1>1, <1>3 DEF ForestInv, ParentsMatchChildren
<1> HIDE DEF p, x, y
<1>5. /\ db[p].height = db[n].height + 1
      /\ db[p].span_start <= db[n].span_start /\ db[n].span_end <= db[p].span_end
      /\ db[n].span_end - db[n].span_start < db[p].span_end - db[p].span_start
  BY <1>1, <1>2, <1>4
<1> QED BY <1>1, <1>5 DEF p, x, y

\* Deleting the end of the document keeps the invariant when no job is in
\* flight.
LEMMA DeletionKeepsForest ==
  ASSUME ForestInv, NEW gone, UpwardClosed(gone), jobs = {},
         db' = DeleteAndDetach(db, gone), UNCHANGED <<nextId, jobs, born>>
  PROVE  ForestInv'
<1> DEFINE Kept == DOMAIN db \ gone
           Cleared(ref) == IF ref \in gone THEN NIL ELSE ref
<1>1. /\ DOMAIN db' = Kept /\ Kept \subseteq DOMAIN db
      /\ db' = [n \in DOMAIN db' |-> db'[n]]
  BY DEF DeleteAndDetach
<1>2. \A n \in Kept :
        /\ db'[n] \in Row
        /\ db'[n].height = db[n].height /\ db'[n].level_index = db[n].level_index
        /\ db'[n].span_start = db[n].span_start /\ db'[n].span_end = db[n].span_end
        /\ db'[n].left_child_id = db[n].left_child_id
        /\ db'[n].right_child_id = db[n].right_child_id
        /\ db'[n].time_end = db[n].time_end
        /\ db'[n].preceding_neighbor_id = db[n].preceding_neighbor_id
        /\ db'[n].parent_id = Cleared(db[n].parent_id)
        /\ db'[n].following_neighbor_id = Cleared(db[n].following_neighbor_id)
  <2> TAKE n \in Kept
  <2> DEFINE p == Cleared(db[n].parent_id)
             f == Cleared(db[n].following_neighbor_id)
  <2>1. db[n] \in Row
    BY DEF ForestInv, TypeOK
  <2>2. p \in Nat /\ f \in Nat
    BY <2>1 DEF Row, NIL
  <2>3. db'[n] = [db[n] EXCEPT !.parent_id = p, !.following_neighbor_id = f]
    BY DEF DeleteAndDetach
  <2> HIDE DEF p, f
  <2>4. /\ db'[n] \in Row
        /\ db'[n].height = db[n].height /\ db'[n].level_index = db[n].level_index
        /\ db'[n].span_start = db[n].span_start /\ db'[n].span_end = db[n].span_end
        /\ db'[n].left_child_id = db[n].left_child_id
        /\ db'[n].right_child_id = db[n].right_child_id
        /\ db'[n].time_end = db[n].time_end
        /\ db'[n].preceding_neighbor_id = db[n].preceding_neighbor_id
        /\ db'[n].parent_id = p /\ db'[n].following_neighbor_id = f
    BY <2>1, <2>2, <2>3 DEF Row
  <2> QED BY <2>4 DEF p, f
<1>3. /\ NIL \notin DOMAIN db
      /\ \A n \in DOMAIN db :
           /\ db[n].height \in Nat /\ db[n].level_index \in Nat
           /\ db[n].span_start \in Nat /\ db[n].span_end \in Nat /\ db[n].time_end \in Nat
  BY DEF ForestInv, TypeOK, NodeId, NIL, Row
<1>4. \A m \in DOMAIN db, n \in Kept : db[m].span_end <= db[n].span_end => m \in Kept
  BY DEF UpwardClosed
<1>5. nextId' = nextId /\ jobs' = {} /\ born' = born
  OBVIOUS
<1> HIDE DEF Kept
<1>6. Leaves(db') = Leaves(db) \cap Kept
  BY <1>1, <1>2 DEF Leaves
<1>7. TypeOK'
  <2>1. db' \in [DOMAIN db' -> Row]
    BY <1>1, <1>2
  <2> QED BY <1>1, <1>5, <2>1 DEF ForestInv, TypeOK
<1>8. SpansForward' /\ OneRowPerCoordinate' /\ TimesFollowSpans' /\ SiblingsMeet'
  <2>1. SpansForward'
    BY <1>1, <1>2 DEF ForestInv, SpansForward
  <2>2. OneRowPerCoordinate'
    BY <1>1, <1>2 DEF ForestInv, OneRowPerCoordinate, SameCoordinate
  <2>3. TimesFollowSpans'
    BY <1>1, <1>2 DEF ForestInv, TimesFollowSpans
  <2>4. SiblingsMeet'
    BY <1>1, <1>2 DEF ForestInv, SiblingsMeet
  <2> QED BY <2>1, <2>2, <2>3, <2>4
<1>9. EndsAtLeaf'
  <2> SUFFICES ASSUME NEW n \in Kept
               PROVE  \E m \in Leaves(db') : db'[m].span_end = db'[n].span_end
    BY <1>1 DEF EndsAtLeaf
  <2>1. PICK m \in Leaves(db) : db[m].span_end = db[n].span_end
    BY <1>1 DEF ForestInv, EndsAtLeaf
  <2>2. m \in DOMAIN db /\ db[m].span_end <= db[n].span_end
    BY <1>1, <1>3, <2>1 DEF Leaves
  <2>3. m \in Kept
    BY <1>4, <2>2
  <2> QED BY <1>2, <1>6, <2>1, <2>3
<1>10. LevelsInOrder'
  BY <1>1, <1>2 DEF ForestInv, LevelsInOrder
<1>11. OverlapMeansUnder'
  <2> SUFFICES ASSUME NEW m \in Kept, NEW n \in Kept,
                      db[m].height < db[n].height,
                      db[m].span_start < db[n].span_end,
                      db[n].span_start < db[m].span_end,
                      NEW p, p = db'[m].parent_id
               PROVE  /\ p # NIL
                      /\ db[n].span_start <= db'[p].span_start
                      /\ db'[p].span_end <= db[n].span_end
    BY <1>1, <1>2 DEF OverlapMeansUnder
  <2> DEFINE q == db[m].parent_id
  <2>1. q # NIL /\ db[n].span_start <= db[q].span_start /\ db[q].span_end <= db[n].span_end
    BY <1>1 DEF ForestInv, OverlapMeansUnder
  <2>2. q \in DOMAIN db
    BY <1>1, <2>1 DEF ForestInv, ParentsMatchChildren
  <2>3. q \in Kept
    BY <1>4, <2>1, <2>2
  <2>4. p = q
    BY <1>2, <2>3 DEF Kept
  <2> QED BY <1>2, <2>1, <2>3, <2>4
<1>12. LeavesHaveNoChildren'
  BY <1>2, <1>6 DEF ForestInv, LeavesHaveNoChildren
<1>13. StartsAtLeaf'
  <2> SUFFICES ASSUME NEW n \in Kept
               PROVE  \E m \in Leaves(db') : db'[m].span_start = db'[n].span_start
    BY <1>1 DEF StartsAtLeaf
  <2>1. PICK m \in Leaves(db) : db[m].span_start = db[n].span_start
    BY <1>1 DEF ForestInv, StartsAtLeaf
  <2>2. m \in DOMAIN db /\ db[m].height = 0 /\ n \in DOMAIN db
    BY <1>1, <2>1 DEF Leaves
  <2>3. db[m].span_end <= db[n].span_end
    <3>1. CASE db[n].height = 0
      <4>1. ~(db[n].level_index < db[m].level_index)
            /\ ~(db[m].level_index < db[n].level_index)
        BY <1>3, <2>1, <2>2, <3>1 DEF ForestInv, LevelsInOrder, SpansForward
      <4>2. db[n].level_index = db[m].level_index
        BY <1>3, <2>2, <4>1
      <4>3. m = n
        BY <2>2, <3>1, <4>2 DEF ForestInv, OneRowPerCoordinate, SameCoordinate
      <4> QED BY <1>3, <2>2, <4>3
    <3>2. CASE db[n].height > 0
      <4>1. db[m].span_start < db[n].span_end /\ db[n].span_start < db[m].span_end
        BY <1>3, <2>1, <2>2 DEF ForestInv, SpansForward
      <4>2. db[m].parent_id # NIL /\ db[db[m].parent_id].span_end <= db[n].span_end
        BY <2>2, <3>2, <4>1 DEF ForestInv, OverlapMeansUnder
      <4>3. db[m].parent_id \in DOMAIN db /\ db[m].span_end <= db[db[m].parent_id].span_end
        BY <2>2, <4>2, UnderParent
      <4> QED BY <1>3, <2>2, <4>2, <4>3
    <3> QED BY <1>3, <2>2, <3>1, <3>2
  <2>4. m \in Kept
    BY <1>4, <2>2, <2>3
  <2> QED BY <1>2, <1>6, <2>1, <2>4
<1>14. LeavesTile'
  <2> SUFFICES ASSUME NEW n \in Leaves(db')
               PROVE  IF db'[n].level_index = 0 THEN db'[n].span_start = 0
                      ELSE \E m \in Leaves(db') :
                              /\ db'[m].level_index = db'[n].level_index - 1
                              /\ db'[m].span_end = db'[n].span_start
    BY DEF LeavesTile
  <2>1. n \in Leaves(db) /\ n \in Kept
    BY <1>6
  <2>2. CASE db[n].level_index = 0
    BY <1>2, <2>1, <2>2 DEF ForestInv, LeavesTile
  <2>3. CASE db[n].level_index # 0
    <3>1. PICK m \in Leaves(db) : /\ db[m].level_index = db[n].level_index - 1
                                  /\ db[m].span_end = db[n].span_start
      BY <2>1, <2>3 DEF ForestInv, LeavesTile
    <3>2. m \in DOMAIN db /\ db[n].span_start < db[n].span_end /\ n \in DOMAIN db
      BY <1>1, <2>1 DEF Leaves, ForestInv, SpansForward
    <3>3. db[m].span_end <= db[n].span_end
      BY <1>3, <3>1, <3>2
    <3>4. m \in Kept
      BY <1>4, <2>1, <3>2, <3>3
    <3> QED BY <1>2, <1>6, <2>1, <2>3, <3>1, <3>4
  <2> QED BY <2>2, <2>3
<1>15. ParentsMatchChildren'
  <2>1. \A p \in DOMAIN db : db[p].height > 0 =>
          /\ db[db[p].left_child_id].span_end <= db[p].span_end
          /\ db[db[p].right_child_id].span_end <= db[p].span_end
    <3> TAKE p \in DOMAIN db
    <3> HAVE db[p].height > 0
    <3> DEFINE x == db[p].left_child_id
               y == db[p].right_child_id
    <3>1. /\ x \in DOMAIN db /\ y \in DOMAIN db
          /\ db[x].span_end = db[y].span_start /\ db[y].span_end = db[p].span_end
      BY DEF ForestInv, ParentsMatchChildren
    <3>2. db[y].span_start < db[y].span_end
      BY <3>1 DEF ForestInv, SpansForward
    <3> HIDE DEF x, y
    <3>3. db[x].span_end <= db[p].span_end /\ db[y].span_end <= db[p].span_end
      BY <1>3, <3>1, <3>2
    <3> QED BY <3>3 DEF x, y
  <2>2. ASSUME NEW n \in Kept, db'[n].parent_id # NIL
        PROVE  LET p == db'[n].parent_id
               IN  /\ p \in DOMAIN db'
                   /\ n = IF db'[n].level_index % 2 = 0 THEN db'[p].left_child_id
                                                        ELSE db'[p].right_child_id
    <3>1. db'[n].parent_id = db[n].parent_id /\ db[n].parent_id # NIL
          /\ db[n].parent_id \notin gone
      BY <1>2, <2>2
    <3>2. n \in DOMAIN db /\ db[n].parent_id \in DOMAIN db
      BY <1>1, <3>1 DEF ForestInv, ParentsMatchChildren
    <3>3. db[n].parent_id \in Kept
      BY <3>1, <3>2 DEF Kept
    <3> QED BY <1>1, <1>2, <3>1, <3>2, <3>3 DEF ForestInv, ParentsMatchChildren
  <2>3. ASSUME NEW p \in Kept, db'[p].height > 0, NEW x, NEW y,
               x = db'[p].left_child_id, y = db'[p].right_child_id
        PROVE  /\ {x, y} \subseteq DOMAIN db'
               /\ db'[x].parent_id = p /\ db'[y].parent_id = p
               /\ db'[x].height = db'[p].height - 1
               /\ db'[y].height = db'[p].height - 1
               /\ db'[x].level_index = 2 * db'[p].level_index
               /\ db'[y].level_index = 2 * db'[p].level_index + 1
               /\ db'[p].span_start = db'[x].span_start
               /\ db'[p].span_end = db'[y].span_end
               /\ db'[x].span_end = db'[y].span_start
    <3>1. p \in DOMAIN db /\ p \notin gone /\ db[p].height > 0
          /\ x = db[p].left_child_id /\ y = db[p].right_child_id
      BY <1>2, <2>3 DEF Kept
    <3>2. /\ x \in DOMAIN db /\ y \in DOMAIN db
          /\ db[x].parent_id = p /\ db[y].parent_id = p
          /\ db[x].height = db[p].height - 1 /\ db[y].height = db[p].height - 1
          /\ db[x].level_index = 2 * db[p].level_index
          /\ db[y].level_index = 2 * db[p].level_index + 1
          /\ db[p].span_start = db[x].span_start
          /\ db[p].span_end = db[y].span_end
          /\ db[x].span_end = db[y].span_start
      BY <3>1 DEF ForestInv, ParentsMatchChildren
    <3>3. x \in Kept /\ y \in Kept
      BY <1>4, <2>1, <2>3, <3>1, <3>2
    <3> QED BY <1>1, <1>2, <2>3, <3>1, <3>2, <3>3
  <2> QED BY <1>1, <2>2, <2>3 DEF ParentsMatchChildren
<1>16. NeighborsMatchCoordinates'
  <2>1. \A x, y \in DOMAIN db' :
          db'[x].height = db'[y].height /\ db'[x].level_index = db'[y].level_index => x = y
    BY <1>8 DEF OneRowPerCoordinate, SameCoordinate
  <2>2. ASSUME NEW a, NEW b
        PROVE  NodeAt(db', a, b) = Cleared(NodeAt(db, a, b))
    <3>1. CASE NodeAt(db, a, b) \in Kept
      <4>1. PICK x \in Kept : x = NodeAt(db, a, b)
        BY <3>1
      <4>2. x \in DOMAIN db /\ x \notin gone /\ db[x].height = a /\ db[x].level_index = b
        BY <1>1, <1>3, <4>1, NodeAtFinds DEF Kept
      <4>3. x \in DOMAIN db' /\ db'[x].height = a /\ db'[x].level_index = b
        BY <1>1, <1>2, <4>1, <4>2
      <4>4. NodeAt(db', a, b) = x
        BY <2>1, <4>3, NodeAtIs
      <4> QED BY <4>1, <4>2, <4>4
    <3>2. CASE NodeAt(db, a, b) \notin Kept
      <4>1. Cleared(NodeAt(db, a, b)) = NIL
        BY <1>3, <3>2, NodeAtFinds DEF Kept
      <4>2. \A m \in Kept : ~(db[m].height = a /\ db[m].level_index = b)
        <5> SUFFICES ASSUME NEW m \in Kept, db[m].height = a, db[m].level_index = b
                     PROVE  FALSE
          OBVIOUS
        <5>1. m \in DOMAIN db
          BY <1>1
        <5>2. NodeAt(db, a, b) = m
          BY <5>1, NodeAtRow DEF ForestInv, OneRowPerCoordinate
        <5> QED BY <3>2, <5>2
      <4>3. \A m \in DOMAIN db' : ~(db'[m].height = a /\ db'[m].level_index = b)
        BY <1>1, <1>2, <4>2
      <4>4. NodeAt(db', a, b) = NIL
        BY <4>3, NodeAtIs
      <4> QED BY <4>1, <4>4
    <3> QED BY <3>1, <3>2
  <2>3. ASSUME NEW n \in Kept
        PROVE  /\ db'[n].following_neighbor_id
                    = NodeAt(db', db'[n].height, db'[n].level_index + 1)
               /\ db'[n].preceding_neighbor_id =
                    IF db'[n].level_index = 0 THEN NIL
                    ELSE NodeAt(db', db'[n].height, db'[n].level_index - 1)
    <3> DEFINE a == db[n].height
               b == db[n].level_index
               m == NodeAt(db, a, b - 1)
    <3>1. db[n].following_neighbor_id = NodeAt(db, a, b + 1)
          /\ db[n].preceding_neighbor_id = IF b = 0 THEN NIL ELSE m
      BY <1>1 DEF ForestInv, NeighborsMatchCoordinates
    <3>2. db'[n].height = a /\ db'[n].level_index = b
      BY <1>2
    <3>3. m \notin gone
      <4> SUFFICES ASSUME m \in gone PROVE FALSE
        OBVIOUS
      <4>1. m \in DOMAIN db /\ n \in DOMAIN db
        BY <1>1 DEF UpwardClosed
      <4>2. db[m].height = a /\ db[m].level_index = b - 1
        BY <1>3, <4>1, NodeAtFinds
      <4>3. a \in Nat /\ b \in Nat
        BY <1>3, <4>1
      <4> HIDE DEF m
      <4>4. db[m].span_end = db[n].span_start
        BY <4>1, <4>2, <4>3 DEF ForestInv, SiblingsMeet
      <4>5. db[n].span_start < db[n].span_end
        BY <4>1 DEF ForestInv, SpansForward
      <4>6. m \in Kept
        BY <1>3, <1>4, <4>1, <4>4, <4>5
      <4> QED BY <4>6 DEF Kept
    <3> HIDE DEF a, b
    <3>4. NodeAt(db', a, b - 1) = m
      BY <2>2, <3>3
    <3>5. NodeAt(db', a, b + 1) = Cleared(NodeAt(db, a, b + 1))
      BY <2>2
    <3> QED BY <1>2, <3>1, <3>2, <3>4, <3>5
  <2> QED BY <1>1, <2>3 DEF NeighborsMatchCoordinates
<1>17. JobsNotStale' /\ JobsPairSiblings'
  BY <1>5 DEF JobsNotStale, JobsPairSiblings
<1> QED
  BY <1>7, <1>8, <1>9, <1>10, <1>14, <1>15, <1>16, <1>17, <1>11, <1>13, <1>12
     DEF ForestInv

\* What ends beyond the cut is upward closed.
LEMMA TruncateFromSpanKeepsForest ==
  ASSUME ForestInv, NEW cut \in Nat, TruncateFromSpan(cut)
  PROVE  ForestInv'
<1> DEFINE gone == {n \in DOMAIN db : db[n].span_end > cut}
<1>1. \A n \in DOMAIN db : db[n].span_end \in Nat
  BY DEF ForestInv, TypeOK, Row
<1>2. UpwardClosed(gone)
  BY <1>1 DEF UpwardClosed
<1>3. db' = DeleteAndDetach(db, gone) /\ jobs = {} /\ UNCHANGED <<nextId, jobs, born>>
  BY DEF TruncateFromSpan, DeleteFromSpan
<1> HIDE DEF gone
<1> QED BY <1>2, <1>3, DeletionKeepsForest

\* Because later in the text is not earlier in time, no row that stays lies
\* behind a leaf that goes: a truncation by time shifts nothing.
LEMMA TimeCutsTheEnd ==
  ASSUME ForestInv, NEW cutoff \in Nat
  PROVE  LET gone == {n \in DOMAIN db : db[n].time_end > cutoff}
         IN  UpwardClosed(gone) /\ DeleteFromTime(db, cutoff) = DeleteAndDetach(db, gone)
<1> DEFINE gone == {n \in DOMAIN db : db[n].time_end > cutoff}
           goneLeaves == gone \cap Leaves(db)
           kept == DeleteAndDetach(db, gone)
<1>1. \A n \in DOMAIN db : /\ db[n] \in Row
                           /\ db[n].span_start \in Nat /\ db[n].span_end \in Nat
                           /\ db[n].time_end \in Nat
                           /\ db[n].span_start < db[n].span_end
  BY DEF ForestInv, TypeOK, Row, SpansForward
<1>2. UpwardClosed(gone)
  <2> SUFFICES ASSUME NEW m \in gone, NEW n \in DOMAIN db, db[m].span_end <= db[n].span_end
               PROVE  n \in gone
    BY DEF UpwardClosed
  <2>1. db[m].time_end <= db[n].time_end /\ m \in DOMAIN db /\ db[m].time_end > cutoff
    BY DEF ForestInv, TimesFollowSpans
  <2> QED BY <1>1, <2>1
<1>3. DOMAIN kept = DOMAIN db \ gone /\ kept = [n \in DOMAIN kept |-> kept[n]]
  BY DEF DeleteAndDetach
<1>4. ASSUME NEW n \in DOMAIN kept PROVE ShiftOf(db, goneLeaves, n) = 0
  <2> DEFINE before == {m \in goneLeaves : db[m].span_end <= db[n].span_start}
  <2>1. before = {}
    <3> SUFFICES ASSUME NEW m \in gone, db[m].span_end <= db[n].span_start PROVE FALSE
      OBVIOUS
    <3>1. n \in DOMAIN db /\ n \notin gone /\ m \in DOMAIN db
      BY <1>3
    <3>2. db[m].span_end <= db[n].span_end
      BY <1>1, <3>1
    <3> HIDE DEF gone
    <3> QED BY <1>2, <3>1, <3>2 DEF UpwardClosed
  <2> HIDE DEF goneLeaves
  <2> QED BY <2>1 DEF ShiftOf
<1>5. ASSUME NEW n \in DOMAIN kept
      PROVE  [kept[n] EXCEPT !.span_start = @ - 0, !.span_end = @ - 0] = kept[n]
  <2>1. n \in DOMAIN db
    BY <1>3
  <2> DEFINE p == IF db[n].parent_id \in gone THEN NIL ELSE db[n].parent_id
             f == IF db[n].following_neighbor_id \in gone THEN NIL
                  ELSE db[n].following_neighbor_id
  <2>2. kept[n] = [db[n] EXCEPT !.parent_id = p, !.following_neighbor_id = f]
    BY <1>3 DEF DeleteAndDetach
  <2>3. p \in Nat /\ f \in Nat
    BY <1>1, <2>1 DEF Row, NIL
  <2> HIDE DEF p, f, kept
  <2>4. kept[n] \in Row
    BY <1>1, <2>1, <2>2, <2>3 DEF Row
  <2>5. kept[n].span_start - 0 = kept[n].span_start /\ kept[n].span_end - 0 = kept[n].span_end
    BY <2>4 DEF Row
  <2>6. [kept[n] EXCEPT !.span_start = kept[n].span_start, !.span_end = kept[n].span_end]
          = kept[n]
    BY <2>4 DEF Row
  <2> QED BY <2>5, <2>6
<1>6. DeleteFromTime(db, cutoff) = [n \in DOMAIN kept |->
               LET d == ShiftOf(db, goneLeaves, n)
               IN  [kept[n] EXCEPT !.span_start = @ - d, !.span_end = @ - d]]
  BY DEF DeleteFromTime
<1> HIDE DEF kept, goneLeaves
<1>7. DeleteFromTime(db, cutoff) = [n \in DOMAIN kept |->
               [kept[n] EXCEPT !.span_start = @ - 0, !.span_end = @ - 0]]
  BY <1>4, <1>6
<1>8. DeleteFromTime(db, cutoff) = kept
  BY <1>3, <1>5, <1>7
<1> QED BY <1>2, <1>8 DEF kept

\* And so a truncation by time is a deletion of the end of the document.
LEMMA TruncateFromTimeKeepsForest ==
  ASSUME ForestInv, NEW cutoff \in Nat, TruncateFromTime(cutoff)
  PROVE  ForestInv'
<1> DEFINE gone == {n \in DOMAIN db : db[n].time_end > cutoff}
<1>1. UpwardClosed(gone) /\ db' = DeleteAndDetach(db, gone)
  BY TimeCutsTheEnd DEF TruncateFromTime
<1>2. jobs = {} /\ UNCHANGED <<nextId, jobs, born>>
  BY DEF TruncateFromTime
<1> HIDE DEF gone
<1> QED BY <1>1, <1>2, DeletionKeepsForest

\* Clearing deletes every row.
LEMMA ClearKeepsForest == ASSUME ForestInv, Clear PROVE ForestInv'
<1>1. UpwardClosed(DOMAIN db)
  BY DEF UpwardClosed
<1>2. db' = DeleteAndDetach(db, DOMAIN db)
  BY DEF Clear, EmptyStore, DeleteAndDetach
<1>3. jobs = {} /\ UNCHANGED <<nextId, jobs, born>>
  BY DEF Clear
<1> QED BY <1>1, <1>2, <1>3, DeletionKeepsForest

\* The cut of a truncation is a position, the cutoff a time.
LEMMA TruncateCases ==
  ASSUME ForestInv, Truncate
  PROVE  \/ \E cut \in Nat : TruncateFromSpan(cut)
         \/ \E cutoff \in Nat : TruncateFromTime(cutoff)
         \/ Clear
<1>1. \A cut \in 0 .. DocumentEnd : cut \in Nat
  OBVIOUS
<1>2. \A cutoff \in Times : cutoff \in Nat
  BY ForestAssumption DEF ForestAssumption
<1> QED BY <1>1, <1>2 DEF Truncate

-----------------------------------------------------------------------------
(* The invariant *)

\* Every step keeps the invariant.
LEMMA StepKeepsForest ==
  ASSUME OrderlyClients
  PROVE  ForestInv /\ [Next]_vars => ForestInv'
<1> SUFFICES ASSUME ForestInv, [Next]_vars PROVE ForestInv'
  OBVIOUS
<1>1. CASE AppendSome
  BY <1>1, AppendKeepsForest DEF AppendSome
<1>2. CASE \E l, r \in DOMAIN db : StartSummary(l, r)
  BY <1>2, StartKeepsForest
<1>3. CASE Commit
  BY <1>3, CommitKeepsForest DEF Commit
<1>4. CASE \E job \in jobs : FailSummary(job)
  BY <1>4, DropJobsKeepsForest DEF FailSummary
<1>5. CASE Restart
  BY <1>5, DropJobsKeepsForest DEF Restart
<1>6. CASE Truncate
  BY <1>6, TruncateCases, TruncateFromSpanKeepsForest, TruncateFromTimeKeepsForest,
     ClearKeepsForest
<1>7. CASE UNCHANGED vars
  BY <1>7, DropJobsKeepsForest DEF vars
<1> QED BY <1>1, <1>2, <1>3, <1>4, <1>5, <1>6, <1>7 DEF Next, Summarise

\* The structure of the forest, for every number of leaves, chunk lengths,
\* gates of the scan and interleaving of appends, jobs, failures, restarts and
\* truncations, when clients send no empty unit and their times in order.
THEOREM ForestStaysSound ==
  ASSUME OrderlyClients
  PROVE  Spec => []ForestInv
<1>1. ForestInv /\ [Next]_vars => ForestInv'
  BY StepKeepsForest
<1> QED BY InitForest, <1>1, PTL DEF Spec

-----------------------------------------------------------------------------
(* What follows from it *)

\* Two roots share no text: of two rows that share text, the lower one has a
\* parent, and rows of one level share none.
LEMMA RootsShareNothing ==
  ASSUME ForestInv, NEW r \in Roots(db), NEW x \in Roots(db) \ {r}
  PROVE  db[x].span_end <= db[r].span_start \/ db[r].span_end <= db[x].span_start
<1>1. /\ x \in DOMAIN db /\ r \in DOMAIN db /\ x # r
      /\ db[x].parent_id = NIL /\ db[r].parent_id = NIL
  BY DEF Roots
<1>2. \A n \in DOMAIN db :
        /\ db[n].height \in Nat /\ db[n].level_index \in Nat
        /\ db[n].span_start \in Nat /\ db[n].span_end \in Nat
  BY DEF ForestInv, TypeOK, Row
<1>3. CASE db[x].height = db[r].height
  <2>1. db[x].level_index # db[r].level_index
    BY <1>1, <1>3 DEF ForestInv, OneRowPerCoordinate, SameCoordinate
  <2>2. db[x].level_index < db[r].level_index \/ db[r].level_index < db[x].level_index
    BY <1>1, <1>2, <2>1
  <2> QED BY <1>1, <1>3, <2>2 DEF ForestInv, LevelsInOrder
<1>4. CASE db[x].height < db[r].height
  BY <1>1, <1>2, <1>4 DEF ForestInv, OverlapMeansUnder
<1>5. CASE db[r].height < db[x].height
  BY <1>1, <1>2, <1>5 DEF ForestInv, OverlapMeansUnder
<1> QED BY <1>1, <1>2, <1>3, <1>4, <1>5

\* Where a root starts, another one ends: the longest row that ends there is a
\* root, for a parent of it would be longer still or share text with r.
LEMMA RootsMeet ==
  ASSUME ForestInv, NEW r \in Roots(db), db[r].span_start # 0
  PROVE  \E x \in Roots(db) : db[x].span_end = db[r].span_start
<1> DEFINE at == db[r].span_start
           ending == {n \in DOMAIN db : db[n].span_end = at}
           starts == {db[n].span_start : n \in ending}
<1>1. r \in DOMAIN db /\ db[r].parent_id = NIL
  BY DEF Roots
<1>2. \A n \in DOMAIN db :
        /\ db[n].height \in Nat /\ db[n].level_index \in Nat
        /\ db[n].span_start \in Nat /\ db[n].span_end \in Nat
        /\ db[n].span_start < db[n].span_end
  BY DEF ForestInv, TypeOK, Row, SpansForward
<1>3. PICK m \in Leaves(db) : db[m].span_end = at
  <2>1. PICK n \in Leaves(db) : db[n].span_start = at
    BY <1>1 DEF ForestInv, StartsAtLeaf
  <2>2. db[n].level_index # 0
    BY <2>1 DEF ForestInv, LeavesTile
  <2> QED BY <2>1, <2>2 DEF ForestInv, LeavesTile
<1>4. PICK least \in starts : \A y \in starts : least <= y
  <2>1. starts \in SUBSET Nat
    BY <1>2
  <2>2. starts # {}
    BY <1>3 DEF Leaves
  <2> HIDE DEF starts
  <2> QED BY <2>1, <2>2, LeastNat
<1>5. PICK p \in ending : db[p].span_start = least
  BY <1>4
<1>6. p \in DOMAIN db /\ db[p].span_end = at
      /\ \A n \in DOMAIN db : db[n].span_end = at => db[p].span_start <= db[n].span_start
  BY <1>4, <1>5
<1> HIDE DEF at, ending, starts
<1>7. ASSUME db[p].parent_id # NIL PROVE FALSE
  <2> DEFINE q == db[p].parent_id
  <2>1. /\ q \in DOMAIN db
        /\ db[q].span_start <= db[p].span_start /\ db[p].span_end <= db[q].span_end
        /\ db[p].span_end - db[p].span_start < db[q].span_end - db[q].span_start
    BY <1>6, <1>7, UnderParent
  <2> HIDE DEF q
  <2>2. CASE db[q].span_end = at
    BY <1>2, <1>6, <2>1, <2>2
  <2>3. CASE db[q].span_end > at
    <3>1. db[q].span_start < db[r].span_start /\ db[r].span_start < db[q].span_end
      BY <1>1, <1>2, <1>6, <2>1, <2>3 DEF at
    <3>2. db[q].span_start < db[r].span_end
      BY <1>1, <1>2, <2>1, <3>1
    <3>3. CASE db[q].height = db[r].height
      <4>1. db[q].level_index # db[r].level_index
        BY <1>1, <1>2, <2>1, <3>1, <3>3 DEF ForestInv, OneRowPerCoordinate, SameCoordinate
      <4>2. db[q].level_index < db[r].level_index \/ db[r].level_index < db[q].level_index
        BY <1>1, <1>2, <2>1, <4>1
      <4>3. db[q].span_end <= db[r].span_start \/ db[r].span_end <= db[q].span_start
        BY <1>1, <2>1, <3>3, <4>2 DEF ForestInv, LevelsInOrder
      <4> QED BY <1>1, <1>2, <2>1, <3>1, <3>2, <4>3
    <3>4. CASE db[q].height < db[r].height
      <4>1. db[q].parent_id # NIL /\ db[r].span_start <= db[db[q].parent_id].span_start
        BY <1>1, <2>1, <3>1, <3>2, <3>4 DEF ForestInv, OverlapMeansUnder
      <4>2. /\ db[q].parent_id \in DOMAIN db
            /\ db[db[q].parent_id].span_start <= db[q].span_start
        BY <2>1, <4>1, UnderParent
      <4> QED BY <1>1, <1>2, <2>1, <3>1, <4>1, <4>2
    <3>5. CASE db[r].height < db[q].height
      BY <1>1, <2>1, <3>1, <3>2, <3>5 DEF ForestInv, OverlapMeansUnder
    <3> QED BY <1>1, <1>2, <2>1, <3>3, <3>4, <3>5
  <2> QED BY <1>2, <1>6, <2>1, <2>2, <2>3
<1> QED BY <1>6, <1>7 DEF Roots, at

\* Both together: the roots tile the text.
LEMMA ForestIsTiled == ForestInv => RootsTile
BY RootsShareNothing, RootsMeet DEF RootsTile

\* The coordinates the next transactions write to are free.
LEMMA ForestHasRoom == ForestInv => NoCoordinateClash
<1> SUFFICES ASSUME ForestInv PROVE NoCoordinateClash
  OBVIOUS
<1>1. ASSUME NEW right \in RightmostLeaves(db)
      PROVE  NodeAt(db, 0, NextIndex(db, right)) = NIL
  <2>1. NextIndex(db, right) \in Nat
        /\ \A n \in Leaves(db) : db[n].level_index < NextIndex(db, right)
    BY RightmostIsLast
  <2>2. \A n \in DOMAIN db :
          ~(db[n].height = 0 /\ db[n].level_index = NextIndex(db, right))
    BY <2>1 DEF Leaves
  <2> QED BY <2>2, NodeAtIs
<1>2. ASSUME NEW job \in jobs
      PROVE  NodeAt(db, job.height + 1, job.level_index \div 2) = NIL
  <2>1. \A n \in DOMAIN db : ~(/\ db[n].height = job.height + 1
                               /\ db[n].level_index = job.level_index \div 2)
    BY JobPair DEF JobFacts
  <2> QED BY <2>1, NodeAtIs
<1> QED BY <1>1, <1>2 DEF NoCoordinateClash

\* Rows are of the table's types and every id in use was handed out.
THEOREM ForestIsTyped ==
  ASSUME OrderlyClients
  PROVE  Spec => []TypeOK
<1>1. ForestInv => TypeOK
  BY DEF ForestInv
<1> QED BY ForestStaysSound, <1>1, PTL

\* The text has no gap and no overlap, whatever is appended and truncated.
THEOREM TextHasNoGap ==
  ASSUME OrderlyClients
  PROVE  Spec => []LeavesTile
<1>1. ForestInv => LeavesTile
  BY DEF ForestInv
<1> QED BY ForestStaysSound, <1>1, PTL

\* Parent and child rows agree in every state, and no row refers to a deleted
\* one, through every interleaving of commits, appends and truncations.
THEOREM ParentsAndChildrenAgree ==
  ASSUME OrderlyClients
  PROVE  Spec => []ParentsMatchChildren
<1>1. ForestInv => ParentsMatchChildren
  BY DEF ForestInv
<1> QED BY ForestStaysSound, <1>1, PTL

\* The neighbour columns link exactly the rows at consecutive coordinates, in
\* whatever order parents are inserted and rows deleted.
THEOREM NeighborsAreLinked ==
  ASSUME OrderlyClients
  PROVE  Spec => []NeighborsMatchCoordinates
<1>1. ForestInv => NeighborsMatchCoordinates
  BY DEF ForestInv
<1> QED BY ForestStaysSound, <1>1, PTL

\* A tiling made of roots shows every character of the text exactly once.
THEOREM RootsCoverTheText ==
  ASSUME OrderlyClients
  PROVE  Spec => []RootsTile
BY ForestStaysSound, ForestIsTiled, PTL

\* The unique index on the coordinates refuses no transaction of the code.
THEOREM NoTransactionIsRefused ==
  ASSUME OrderlyClients
  PROVE  Spec => []NoCoordinateClash
BY ForestStaysSound, ForestHasRoom, PTL

\* What a job read before its model call still holds when it commits.
THEOREM JobsStayFresh ==
  ASSUME OrderlyClients
  PROVE  Spec => []JobsNotStale
<1>1. ForestInv => JobsNotStale
  BY DEF ForestInv
<1> QED BY ForestStaysSound, <1>1, PTL

\* A leaf keeps its place until it is deleted, and nothing is deleted while a
\* summary job is in flight.
THEOREM LeavesKeepTheirPlace ==
  ASSUME OrderlyClients
  PROVE  Spec => LeavesAreStable
<1> DEFINE Stays ==
             /\ \A n \in Leaves(db) \cap DOMAIN db' :
                  /\ db'[n].height = 0
                  /\ db'[n].level_index = db[n].level_index
                  /\ db'[n].span_start = db[n].span_start
                  /\ db'[n].span_end = db[n].span_end
             /\ jobs # {} => DOMAIN db \subseteq DOMAIN db'
<1>1. ForestInv /\ [Next]_vars => [Stays]_vars
  <2> SUFFICES ASSUME ForestInv, Next PROVE Stays
    OBVIOUS
  <2>1. Leaves(db) \subseteq DOMAIN db /\ \A n \in Leaves(db) : db[n].height = 0 /\ db[n] \in Row
    BY DEF Leaves, ForestInv, TypeOK
  <2>2. CASE db' = db
    BY <2>1, <2>2
  <2>3. CASE AppendSome
    <3>1. PICK right \in RightmostLeaves(db), time \in Times :
            \E ends \in ChunkEnds(EndOf(db, right)) : AppendText(right, ends, time)
      BY <2>3 DEF AppendSome
    <3>2. PICK ends \in ChunkEnds(EndOf(db, right)) : AppendText(right, ends, time)
      BY <3>1
    <3>3. AppendedRows(right, time, ends)
      BY <3>2, AppendRows
    <3>4. /\ DOMAIN db \subseteq DOMAIN db'
          /\ \A n \in DOMAIN db : db'[n] = [db[n] EXCEPT !.following_neighbor_id =
                                              IF n = right THEN nextId ELSE @]
      BY <3>3 DEF AppendedRows
    <3> QED BY <2>1, <3>4 DEF Row
  <2>4. CASE Commit
    <3>1. PICK job \in jobs : CommitSummary(job)
      BY <2>4 DEF Commit
    <3>2. CommittedRows(job)
      BY <3>1, CommitRows
    <3> QED BY <2>1, <3>2 DEF CommittedRows
  <2>5. ASSUME NEW gone, db' = DeleteAndDetach(db, gone), jobs = {} PROVE Stays
    <3>1. /\ DOMAIN db' \subseteq DOMAIN db
          /\ \A n \in DOMAIN db' :
               db'[n] = [db[n] EXCEPT
                  !.parent_id = IF @ \in gone THEN NIL ELSE @,
                  !.following_neighbor_id = IF @ \in gone THEN NIL ELSE @]
      BY <2>5 DEF DeleteAndDetach
    <3>2. ASSUME NEW n \in Leaves(db) \cap DOMAIN db'
          PROVE  /\ db'[n].height = db[n].height
                 /\ db'[n].level_index = db[n].level_index
                 /\ db'[n].span_start = db[n].span_start
                 /\ db'[n].span_end = db[n].span_end
      <4> DEFINE p == IF db[n].parent_id \in gone THEN NIL ELSE db[n].parent_id
                 f == IF db[n].following_neighbor_id \in gone THEN NIL
                      ELSE db[n].following_neighbor_id
      <4>1. db[n] \in Row
        BY <2>1
      <4>2. db'[n] = [db[n] EXCEPT !.parent_id = p, !.following_neighbor_id = f]
        BY <3>1
      <4> HIDE DEF p, f
      <4> QED BY <4>1, <4>2 DEF Row
    <3> QED BY <2>1, <2>5, <3>2
  <2>6. CASE Truncate
    <3>1. ASSUME NEW cut \in Nat, TruncateFromSpan(cut) PROVE Stays
      BY <2>5, <3>1 DEF TruncateFromSpan, DeleteFromSpan
    <3>2. ASSUME NEW cutoff \in Nat, TruncateFromTime(cutoff) PROVE Stays
      <4>1. db' = DeleteAndDetach(db, {n \in DOMAIN db : db[n].time_end > cutoff})
        BY <3>2, TimeCutsTheEnd DEF TruncateFromTime
      <4>2. jobs = {}
        BY <3>2 DEF TruncateFromTime
      <4> QED BY <2>5, <4>1, <4>2
    <3>3. ASSUME Clear PROVE Stays
      <4>1. DOMAIN db' = {} /\ jobs = {}
        BY <3>3 DEF Clear, EmptyStore
      <4> QED BY <4>1
    <3> QED BY <2>6, <3>1, <3>2, <3>3, TruncateCases
  <2>7. CASE (\E l, r \in DOMAIN db : StartSummary(l, r))
             \/ (\E job \in jobs : FailSummary(job)) \/ Restart
    BY <2>2, <2>7 DEF StartSummary, FailSummary, Restart
  <2> QED BY <2>3, <2>4, <2>6, <2>7 DEF Next, Summarise
<1> QED BY ForestStaysSound, <1>1, PTL DEF LeavesAreStable, Spec

-----------------------------------------------------------------------------
(* The shape of the forest *)

\* The operators of the shape are those of CoordinateForest.
LEMMA ShapeOperators ==
  /\ \A F : Shape!LeavesOf(F) = LeavesOf(F) /\ Shape!ReadyPairs(F) = ReadyPairs(F)
  /\ \A S : Shape!Cardinality(S) = Cardinality(S)
  /\ \A F, k : Shape!Grown(F, k) = Grown(F, k)
  /\ \A F, c : Shape!Merged(F, c) = Merged(F, c)
  /\ \A F, n : Shape!Cut(F, n) = Cut(F, n)
<1>1. \A S : Shape!Cardinality(S) = Cardinality(S)
  BY DEF Shape!Cardinality, Cardinality, Shape!IsFiniteSet, IsFiniteSet
<1>2. Shape!Width = Width
  BY DEF Shape!Width, Width
<1>3. \A F : Shape!LeavesOf(F) = LeavesOf(F)
  BY DEF Shape!LeavesOf, LeavesOf
<1>4. \A F : Shape!ReadyPairs(F) = ReadyPairs(F)
  BY DEF Shape!ReadyPairs, ReadyPairs, Shape!Tops, Tops, Shape!ParentOf, ParentOf,
         Shape!SiblingOf, SiblingOf
<1>5. \A F, k : Shape!Grown(F, k) = Grown(F, k)
  BY <1>1, <1>3 DEF Shape!Grown, Grown, Shape!Leaf, Leaf
<1>6. \A F, c : Shape!Merged(F, c) = Merged(F, c)
  BY DEF Shape!Merged, Merged, Shape!ParentOf, ParentOf
<1>7. \A F, n : Shape!Cut(F, n) = Cut(F, n)
  BY <1>2 DEF Shape!Cut, Cut, Shape!PastLeaf, PastLeaf
<1> QED BY <1>1, <1>3, <1>4, <1>5, <1>6, <1>7

IndexesOf(rows) == {db[n].level_index : n \in rows}

\* The leaves' indexes are 0, 1, 2, ..., and there are as many leaves in the
\* shape as indexes.
LEMMA LeavesInARow ==
  ASSUME ForestInv
  PROVE  LET S == IndexesOf(Leaves(db))
             n == Cardinality(LeavesOf(OccupiedCoordinates))
         IN  S \in SUBSET Nat /\ IsFiniteSet(S) /\ n = Cardinality(S) /\ n \in Nat /\ S = 0 .. (n - 1)
<1> DEFINE S == IndexesOf(Leaves(db))
           L == LeavesOf(OccupiedCoordinates)
           f == [i \in S |-> <<0, i>>]
           g == [n \in Leaves(db) |-> db[n].level_index]
<1>0. \A n \in Leaves(db) : n \in DOMAIN db /\ db[n].level_index \in Nat /\ db[n].height = 0
  BY DEF ForestInv, TypeOK, Row, Leaves
<1>1. IsFiniteSet(Leaves(db))
  <2>1. nextId - 1 \in Nat /\ Leaves(db) \in SUBSET (1 .. (nextId - 1))
    BY DEF ForestInv, TypeOK, NodeId, NIL, Leaves
  <2>2. IsFiniteSet(1 .. (nextId - 1))
    BY <2>1, FS_Interval
  <2> QED BY <2>1, <2>2, FS_Subset
<1>2. S \in SUBSET Nat
  BY <1>0 DEF IndexesOf
<1>3. IsFiniteSet(S)
  <2>1. g \in Surjection(Leaves(db), S)
    BY DEF Surjection, IndexesOf
  <2> HIDE DEF g, S
  <2> QED BY <1>1, <2>1, FS_Surjection
<1>4. ASSUME NEW i \in S, i # 0 PROVE i - 1 \in S
  <2>1. PICK n \in Leaves(db) : i = db[n].level_index
    BY <1>4 DEF IndexesOf
  <2>2. PICK m \in Leaves(db) : db[m].level_index = i - 1
    BY <1>4, <2>1 DEF ForestInv, LeavesTile
  <2> QED BY <2>2 DEF IndexesOf
<1>5. L = {<<0, i>> : i \in S}
  <2>1. \A c \in L : \E i \in S : c = <<0, i>>
    BY DEF LeavesOf, OccupiedCoordinates, IndexesOf, Leaves
  <2>2. \A i \in S : <<0, i>> \in L
    BY DEF LeavesOf, OccupiedCoordinates, IndexesOf, Leaves
  <2> QED BY <2>1, <2>2
<1>6. f \in Bijection(S, L)
  BY <1>5 DEF Bijection, Injection, Surjection, IsInjective
<1> HIDE DEF S, L, f
<1>7. Cardinality(L) = Cardinality(S)
  <2>1. Cardinality(S) = Cardinality(L)
    BY <1>3, <1>6, FS_Bijection DEF ExistsBijection
  <2> QED BY <2>1
<1>8. Cardinality(S) \in Nat /\ S = 0 .. (Cardinality(S) - 1)
  BY <1>2, <1>3, <1>4, NumbersInARow
<1> QED BY <1>2, <1>3, <1>7, <1>8 DEF S, L

\* An append grows the shape by its leaves.
LEMMA AppendGrows ==
  ASSUME ForestInv, OrderlyClients, NEW right \in RightmostLeaves(db),
         NEW time \in Times, NEW ends \in ChunkEnds(EndOf(db, right)),
         AppendText(right, ends, time), Len(ends) \in 1 .. MaxChunks
  PROVE  Shape!Grow
<1> DEFINE index == NextIndex(db, right)
           k     == Len(ends)
           ids   == nextId .. (nextId + k - 1)
           n     == Cardinality(LeavesOf(OccupiedCoordinates))
<1>1. AppendedRows(right, time, ends)
  BY AppendRows
<1>2. index \in Nat /\ nextId \in Nat /\ k \in Nat
  BY RightmostIsLast, ForestAssumption DEF ForestInv, TypeOK, NodeId, ForestAssumption
<1>3. index = n
  <2> DEFINE S == IndexesOf(Leaves(db))
  <2>1. n \in Nat /\ S = 0 .. (n - 1)
    BY LeavesInARow
  <2>2. CASE right = NIL
    <3>1. DOMAIN db = {} /\ index = 0
      BY <2>2, RightmostIsLast
    <3>2. S = {}
      BY <3>1 DEF IndexesOf, Leaves
    <3> HIDE DEF S, n
    <3> QED BY <2>1, <3>1, <3>2
  <2>3. CASE right # NIL
    <3>1. right \in Leaves(db) /\ index = db[right].level_index + 1
          /\ \A m \in Leaves(db) : db[m].level_index < index
      BY <2>3, RightmostIsLast
    <3>2. db[right].level_index \in S /\ \A i \in S : i < index
      BY <3>1 DEF IndexesOf
    <3>3. db[right].level_index \in Nat
      BY <3>1 DEF ForestInv, TypeOK, Row, Leaves
    <3> HIDE DEF S, n, index
    <3>4. index - 1 \in S /\ \A i \in S : i < index
      BY <3>1, <3>2, <3>3
    <3>5. n - 1 < index
      BY <1>2, <2>1, <3>4
    <3> QED BY <1>2, <2>1, <3>4, <3>5
  <2> QED BY <2>2, <2>3
<1> HIDE DEF n
<1>4. OccupiedCoordinates' =
         OccupiedCoordinates \cup {<<0, i>> : i \in index .. (index + k - 1)}
  <2>1. /\ DOMAIN db' = DOMAIN db \cup ids
        /\ \A m \in DOMAIN db : db'[m].height = db[m].height
                                /\ db'[m].level_index = db[m].level_index
        /\ \A m \in ids : db'[m].height = 0 /\ db'[m].level_index = index + (m - nextId)
    <3>1. \A m \in DOMAIN db : db[m] \in Row
      BY DEF ForestInv, TypeOK
    <3> QED BY <1>1, <3>1 DEF AppendedRows, Row
  <2> DEFINE New == {<<0, i>> : i \in index .. (index + k - 1)}
  <2> HIDE DEF index, k
  <2>2. \A m \in ids : <<db'[m].height, db'[m].level_index>> \in New
    <3> TAKE m \in ids
    <3>1. index + (m - nextId) \in index .. (index + k - 1)
      BY <1>2
    <3> QED BY <2>1, <3>1
  <2>3. \A i \in index .. (index + k - 1) :
           \E m \in ids : <<0, i>> = <<db'[m].height, db'[m].level_index>>
    <3> TAKE i \in index .. (index + k - 1)
    <3>1. nextId + (i - index) \in ids /\ index + ((nextId + (i - index)) - nextId) = i
      BY <1>2
    <3> QED BY <2>1, <3>1
  <2> HIDE DEF ids
  <2>4. OccupiedCoordinates' = {<<db'[m].height, db'[m].level_index>> : m \in DOMAIN db'}
    BY DEF OccupiedCoordinates
  <2>5. \A c \in OccupiedCoordinates' : c \in OccupiedCoordinates \cup New
    BY <2>1, <2>2, <2>4 DEF OccupiedCoordinates
  <2>6. \A c \in OccupiedCoordinates : c \in OccupiedCoordinates'
    BY <2>1, <2>4 DEF OccupiedCoordinates
  <2>7. \A c \in New : c \in OccupiedCoordinates'
    BY <2>1, <2>3, <2>4
  <2> QED BY <2>5, <2>6, <2>7
<1>5. OccupiedCoordinates' = Grown(OccupiedCoordinates, k)
  <2> DEFINE m == Cardinality(LeavesOf(OccupiedCoordinates))
  <2>1. Grown(OccupiedCoordinates, k) =
          OccupiedCoordinates \cup {Leaf(i) : i \in m .. (m + k - 1)}
    BY DEF Grown
  <2>2. m = index
    BY <1>3 DEF n
  <2> HIDE DEF m, k, index
  <2>3. {Leaf(i) : i \in m .. (m + k - 1)} = {<<0, i>> : i \in index .. (index + k - 1)}
    BY <2>2 DEF Leaf
  <2> QED BY <1>4, <2>1, <2>3
<1> QED BY <1>5, ShapeOperators DEF Shape!Grow

\* One append sends at least one chunk and not more than MaxChunks.
LEMMA ChunksOfAnAppend ==
  ASSUME NEW base, NEW ends \in ChunkEnds(base)
  PROVE  Len(ends) \in 1 .. MaxChunks
<1>1. PICK k \in 1 .. MaxChunks : ends \in [1 .. k -> base .. (base + k * Max(ChunkLens))]
  BY DEF ChunkEnds
<1>2. Len(ends) = k
  BY <1>1, ForestAssumption DEF ForestAssumption
<1> QED BY <1>2

\* A row ends where the last leaf under its coordinate does.
LEMMA EndsWithLastLeaf ==
  ASSUME ForestInv, NEW n \in DOMAIN db
  PROVE  LET past == PastLeaf(<<db[n].height, db[n].level_index>>)
         IN  /\ past \in Nat /\ past > 0
             /\ \E m \in Leaves(db) :
                  db[m].span_end = db[n].span_end /\ db[m].level_index = past - 1
<1> DEFINE Past(x) == PastLeaf(<<db[x].height, db[x].level_index>>)
           Ends(x) == /\ Past(x) \in Nat /\ Past(x) > 0
                      /\ \E m \in Leaves(db) :
                           db[m].span_end = db[x].span_end /\ db[m].level_index = Past(x) - 1
           Good(h) == \A x \in DOMAIN db : db[x].height = h => Ends(x)
           Bad == {h \in Nat : ~Good(h)}
<1>0. \A x \in DOMAIN db : db[x].height \in Nat /\ db[x].level_index \in Nat
  BY DEF ForestInv, TypeOK, Row
<1>1. Good(0)
  <2> SUFFICES ASSUME NEW x \in DOMAIN db, db[x].height = 0 PROVE Ends(x)
    OBVIOUS
  <2>1. Past(x) = db[x].level_index + 1
    BY <1>0, WidthDoubles DEF PastLeaf
  <2> QED BY <1>0, <2>1 DEF Leaves
<1>2. ASSUME NEW h \in Nat, Good(h) PROVE Good(h + 1)
  <2> SUFFICES ASSUME NEW x \in DOMAIN db, db[x].height = h + 1 PROVE Ends(x)
    OBVIOUS
  <2>1. PICK r \in DOMAIN db : /\ db[r].height = h /\ db[r].level_index = 2 * db[x].level_index + 1
                               /\ db[r].span_end = db[x].span_end
    <3>1. db[x].height > 0 /\ db[x].height - 1 = h
      OBVIOUS
    <3> QED BY <3>1 DEF ForestInv, ParentsMatchChildren
  <2>2. Ends(r)
    BY <1>2, <2>1
  <2>3. Past(r) = Past(x)
    BY <1>0, <2>1, ChildrenAreWithin
  <2> HIDE DEF Past
  <2> QED BY <2>1, <2>2, <2>3
<1> HIDE DEF Good
<1>3. Bad = {}
  <2> SUFFICES ASSUME Bad # {} PROVE FALSE
    OBVIOUS
  <2>1. PICK h \in Bad : \A y \in Bad : h <= y
    <3>1. Bad \in SUBSET Nat
      OBVIOUS
    <3> QED BY <3>1, LeastNat
  <2>2. h # 0
    BY <1>1, <2>1
  <2>3. h - 1 \in Nat /\ h - 1 \notin Bad /\ (h - 1) + 1 = h
    BY <2>1, <2>2
  <2> QED BY <1>2, <2>1, <2>3
<1>4. Good(db[n].height)
  BY <1>0, <1>3
<1>5. Ends(n)
  BY <1>4 DEF Good
<1> QED BY <1>5

\* A commit puts a summary over two siblings that have none.
LEMMA CommitMerges ==
  ASSUME ForestInv, NEW job \in jobs, CommitSummary(job)
  PROVE  Shape!Merge
<1> DEFINE F == OccupiedCoordinates
           l == job.left
           r == job.right
           c == <<db[l].height, db[l].level_index>>
           p == <<job.height + 1, job.level_index \div 2>>
<1>1. CommittedRows(job) /\ JobFacts(job)
  BY CommitRows, JobPair
<1>2. OccupiedCoordinates' = F \cup {p}
  <2>1. ParentRow(db, job).height = p[1] /\ ParentRow(db, job).level_index = p[2]
    BY DEF ParentRow
  <2>2. /\ DOMAIN db' = DOMAIN db \cup {nextId}
        /\ db'[nextId].height = p[1] /\ db'[nextId].level_index = p[2]
        /\ \A n \in DOMAIN db : db'[n].height = db[n].height
                                /\ db'[n].level_index = db[n].level_index
    BY <1>1, <2>1 DEF CommittedRows
  <2>3. OccupiedCoordinates' = {<<db'[n].height, db'[n].level_index>> : n \in DOMAIN db'}
    BY DEF OccupiedCoordinates
  <2>4. p = <<p[1], p[2]>>
    OBVIOUS
  <2> HIDE DEF p
  <2> QED BY <2>2, <2>3, <2>4 DEF OccupiedCoordinates
<1>3. ParentOf(c) = p
  BY <1>1 DEF JobFacts, ParentOf
<1>4. c[2] % 2 = 0 /\ SiblingOf(c) = <<db[r].height, db[r].level_index>>
  <2>1. db[l].level_index % 2 = 0
    BY <1>1 DEF JobFacts
  <2> QED BY <1>1, <2>1 DEF JobFacts, SiblingOf
<1>5. ParentOf(SiblingOf(c)) = p
  <2> DEFINE i == db[l].level_index \div 2
  <2>1. i \in Nat /\ db[l].level_index = 2 * i
    BY <1>1 DEF JobFacts
  <2> HIDE DEF i
  <2>2. (2 * i + 1) \div 2 = i
    BY <2>1
  <2>3. db[r].level_index = 2 * i + 1 /\ db[r].height = job.height /\ job.level_index = 2 * i
    BY <1>1, <2>1 DEF JobFacts
  <2>4. (2 * i) \div 2 = i
    BY <2>1
  <2> QED BY <1>4, <2>2, <2>3, <2>4 DEF ParentOf
<1>6. p \notin F
  BY <1>1 DEF JobFacts, OccupiedCoordinates
<1>7. c \in F /\ SiblingOf(c) \in F
  BY <1>1, <1>4 DEF JobFacts, OccupiedCoordinates
<1> HIDE DEF c, p, F
<1>8. c \in ReadyPairs(F)
  BY <1>3, <1>4, <1>5, <1>6, <1>7 DEF ReadyPairs, Tops
<1>9. OccupiedCoordinates' = Merged(F, c)
  BY <1>2, <1>3 DEF Merged
<1> QED BY <1>8, <1>9, ShapeOperators DEF Shape!Merge, F

\* A deletion of the end of the document cuts the shape before some leaf.
LEMMA DeletionCuts ==
  ASSUME ForestInv, NEW gone, UpwardClosed(gone), db' = DeleteAndDetach(db, gone)
  PROVE  Shape!CutOff
<1> DEFINE F == OccupiedCoordinates
           Kept == DOMAIN db \ gone
           S == IndexesOf(Leaves(db))
           T == IndexesOf(Leaves(db) \ gone)
           t == Cardinality(T)
           At(x) == <<db[x].height, db[x].level_index>>
<1>1. /\ S \in SUBSET Nat /\ IsFiniteSet(S)
      /\ Cardinality(LeavesOf(F)) = Cardinality(S) /\ Cardinality(S) \in Nat
  BY LeavesInARow
<1>2. T \in SUBSET S /\ T \in SUBSET Nat
  BY <1>1 DEF IndexesOf
<1>3. IsFiniteSet(T) /\ t <= Cardinality(S)
  <2> HIDE DEF S, T
  <2> QED BY <1>1, <1>2, FS_Subset
<1>4. \A x \in DOMAIN db : db[x].span_start < db[x].span_end
                            /\ db[x].span_start \in Nat /\ db[x].span_end \in Nat
  BY DEF ForestInv, SpansForward, TypeOK, Row
<1>5. ASSUME NEW i \in T, i # 0 PROVE i - 1 \in T
  <2>1. PICK m \in Leaves(db) \ gone : i = db[m].level_index
    BY <1>5 DEF IndexesOf
  <2>2. PICK k \in Leaves(db) : db[k].level_index = i - 1 /\ db[k].span_end = db[m].span_start
    BY <1>5, <2>1 DEF ForestInv, LeavesTile
  <2>3. k \in DOMAIN db /\ m \in DOMAIN db
    BY <2>1, <2>2 DEF Leaves
  <2>4. db[k].span_end <= db[m].span_end
    BY <1>4, <2>2, <2>3
  <2>5. k \notin gone
    BY <2>1, <2>3, <2>4 DEF UpwardClosed
  <2> QED BY <2>2, <2>5 DEF IndexesOf
<1>6. t \in Nat /\ T = 0 .. (t - 1)
  <2> HIDE DEF T
  <2> QED BY <1>2, <1>3, <1>5, NumbersInARow
<1>7. ASSUME NEW x \in DOMAIN db PROVE x \in Kept <=> PastLeaf(At(x)) <= t
  <2> DEFINE past == PastLeaf(At(x))
  <2>1. past \in Nat /\ past > 0
    BY EndsWithLastLeaf
  <2>2. PICK m \in Leaves(db) : db[m].span_end = db[x].span_end /\ db[m].level_index = past - 1
    BY EndsWithLastLeaf
  <2>3. m \in DOMAIN db
    BY DEF Leaves
  <2>4. m \in gone <=> x \in gone
    <3>1. db[m].span_end <= db[x].span_end /\ db[x].span_end <= db[m].span_end
      BY <1>4, <2>2, <2>3
    <3> QED BY <2>3, <3>1 DEF UpwardClosed
  <2>5. m \notin gone <=> past - 1 \in T
    <3>1. ASSUME NEW k \in Leaves(db) \ gone, db[k].level_index = past - 1 PROVE k = m
      BY <2>2, <2>3, <3>1 DEF ForestInv, OneRowPerCoordinate, SameCoordinate, Leaves
    <3> QED BY <2>2, <3>1 DEF IndexesOf
  <2> HIDE DEF past, T, t
  <2>6. past - 1 \in T <=> past <= t
    BY <1>6, <2>1
  <2> QED BY <2>4, <2>5, <2>6 DEF past
<1>8. OccupiedCoordinates' = {At(x) : x \in Kept}
  <2>1. DOMAIN db' = Kept
    BY DEF DeleteAndDetach
  <2>2. ASSUME NEW x \in Kept
        PROVE  db'[x].height = db[x].height /\ db'[x].level_index = db[x].level_index
    <3>1. db[x] \in Row
      BY DEF ForestInv, TypeOK
    <3> QED BY <3>1 DEF DeleteAndDetach, Row
  <2>3. OccupiedCoordinates' = {<<db'[x].height, db'[x].level_index>> : x \in DOMAIN db'}
    BY DEF OccupiedCoordinates
  <2> HIDE DEF Kept
  <2> QED BY <2>1, <2>2, <2>3
<1>9. F = {At(x) : x \in DOMAIN db}
  BY DEF OccupiedCoordinates
<1> HIDE DEF t, At, F
<1>10. OccupiedCoordinates' = Cut(F, t)
  BY <1>7, <1>8, <1>9 DEF Cut
<1>11. t \in 0 .. Cardinality(LeavesOf(F))
  <2> HIDE DEF S
  <2> QED BY <1>1, <1>3, <1>6 DEF t
<1> QED BY <1>10, <1>11, ShapeOperators DEF Shape!CutOff, F

\* Every step of the rows is a step of the shape or leaves it as it is.
LEMMA StepShapes ==
  ASSUME OrderlyClients, ForestInv, [Next]_vars
  PROVE  [Shape!ForestNext]_OccupiedCoordinates
<1>1. CASE AppendSome
  <2>1. PICK right \in RightmostLeaves(db), time \in Times :
          \E ends \in ChunkEnds(EndOf(db, right)) : AppendText(right, ends, time)
    BY <1>1 DEF AppendSome
  <2>2. PICK ends \in ChunkEnds(EndOf(db, right)) : AppendText(right, ends, time)
    BY <2>1
  <2>3. Len(ends) \in 1 .. MaxChunks
    BY ChunksOfAnAppend
  <2> QED BY <2>2, <2>3, AppendGrows DEF Shape!ForestNext
<1>2. CASE Commit
  BY <1>2, CommitMerges DEF Commit, Shape!ForestNext
<1>3. CASE Truncate
  <2>1. CASE \E cut \in Nat : TruncateFromSpan(cut)
    <3>1. PICK cut \in Nat : TruncateFromSpan(cut)
      BY <2>1
    <3> DEFINE gone == {n \in DOMAIN db : db[n].span_end > cut}
    <3>2. \A n \in DOMAIN db : db[n].span_end \in Nat
      BY DEF ForestInv, TypeOK, Row
    <3>3. UpwardClosed(gone) /\ db' = DeleteAndDetach(db, gone)
      BY <3>1, <3>2 DEF UpwardClosed, TruncateFromSpan, DeleteFromSpan
    <3> HIDE DEF gone
    <3> QED BY <3>3, DeletionCuts DEF Shape!ForestNext
  <2>2. CASE \E cutoff \in Nat : TruncateFromTime(cutoff)
    <3>1. PICK cutoff \in Nat : TruncateFromTime(cutoff)
      BY <2>2
    <3> DEFINE gone == {n \in DOMAIN db : db[n].time_end > cutoff}
    <3>2. UpwardClosed(gone) /\ db' = DeleteAndDetach(db, gone)
      BY <3>1, TimeCutsTheEnd DEF TruncateFromTime
    <3> HIDE DEF gone
    <3> QED BY <3>2, DeletionCuts DEF Shape!ForestNext
  <2>3. CASE Clear
    <3>1. UpwardClosed(DOMAIN db)
      BY DEF UpwardClosed
    <3>2. db' = DeleteAndDetach(db, DOMAIN db)
      BY <2>3 DEF Clear, EmptyStore, DeleteAndDetach
    <3> QED BY <3>1, <3>2, DeletionCuts DEF Shape!ForestNext
  <2> QED BY <1>3, <2>1, <2>2, <2>3, TruncateCases
<1>4. CASE UNCHANGED db
  BY <1>4 DEF OccupiedCoordinates
<1>5. (\E l, r \in DOMAIN db : StartSummary(l, r)) => UNCHANGED db
  BY DEF StartSummary
<1>6. (\E job \in jobs : FailSummary(job)) \/ Restart \/ UNCHANGED vars => UNCHANGED db
  BY DEF FailSummary, Restart, vars
<1> QED BY <1>1, <1>2, <1>3, <1>4, <1>5, <1>6 DEF Next, Summarise

\* The rows implement the forest of coordinates the engine schedules by, for
\* every document: an append grows it at the right end by as many leaves as it
\* has chunks, a commit puts a summary over two siblings that have none, and a
\* truncation, by position or by time, takes a suffix of the leaves with
\* exactly the summaries that reach into it.
THEOREM RowsImplementTheForest ==
  ASSUME OrderlyClients
  PROVE  Spec => KeepsShape
<1>1. Init => Shape!ForestInit
  BY DEF Init, EmptyStore, OccupiedCoordinates, Shape!ForestInit
<1>2. ForestInv /\ [Next]_vars => [Shape!ForestNext]_OccupiedCoordinates
  BY StepShapes
<1> QED BY <1>1, <1>2, ForestStaysSound, PTL DEF Spec, KeepsShape, Shape!ForestSpec

-----------------------------------------------------------------------------
(* The two backends *)

\* With the rows read as they are, the column of a neighbour that Postgres
\* writes although it does not change keeps its value.
LEMMA LinksAreTheSame ==
  ASSUME ForestInv, NEW row
  PROVE  PgLinkParent(db, nextId, row, db) = LinkParent(db, nextId, row)
<1> DEFINE before == row.preceding_neighbor_id
           after  == row.following_neighbor_id
           s == LinkParent(db, nextId, row)
           t == PgLinkParent(db, nextId, row, db)
<1>1. ASSUME NEW n \in DOMAIN db PROVE s[n] = t[n]
  <2> DEFINE p == IF n \in {row.left_child_id, row.right_child_id} THEN nextId ELSE db[n].parent_id
             f == IF n = before THEN nextId ELSE db[n].following_neighbor_id
             b == IF n = after THEN nextId ELSE db[n].preceding_neighbor_id
  <2>1. db[n] \in Row /\ nextId \in Nat
    BY DEF ForestInv, TypeOK, NodeId
  <2>2. p \in Nat /\ f \in Nat /\ b \in Nat
    BY <2>1 DEF Row
  <2>3. s[n] = [db[n] EXCEPT !.parent_id = p, !.following_neighbor_id = f,
                             !.preceding_neighbor_id = b]
    BY DEF LinkParent
  <2>4. t[n] = [db[n] EXCEPT !.parent_id = p, !.preceding_neighbor_id = b,
                             !.following_neighbor_id = f]
    BY DEF PgLinkParent
  <2> HIDE DEF p, f, b, s, t
  <2> QED BY <2>1, <2>2, <2>3, <2>4 DEF Row
<1>2. s = [n \in DOMAIN db |-> s[n]] /\ t = [n \in DOMAIN db |-> t[n]]
  BY DEF LinkParent, PgLinkParent
<1> HIDE DEF s, t
<1>3. s = t
  BY <1>1, <1>2
<1> QED BY <1>3 DEF s, t

\* In every state the invariant allows, the next transaction leaves the same
\* rows on either backend.
LEMMA ForestOnBothBackends ==
  ASSUME OrderlyClients
  PROVE  ForestInv => BackendsAgree
<1> SUFFICES ASSUME ForestInv PROVE BackendsAgree
  OBVIOUS
<1>1. ASSUME NEW job \in jobs
      PROVE  PgInsertParent(db, nextId, job, db) = InsertParent(db, nextId, job)
  BY LinksAreTheSame, CommitIsAccepted DEF PgInsertParent, InsertParent
<1>2. ASSUME NEW right \in RightmostLeaves(db), NEW time \in Times,
             NEW ends \in ChunkEnds(EndOf(db, right))
      PROVE  PgAppendLeaves(db, right, nextId, ends, time)
               = AppendLeaves(db, right, nextId, ends, time)
  BY AppendIsAccepted DEF PgAppendLeaves, AppendLeaves
<1>3. ASSUME NEW gone PROVE PgDelete(db, gone) = DeleteAndDetach(db, gone)
  BY DEF PgDelete, DeleteAndDetach
<1>4. ASSUME NEW cut PROVE PgDeleteFromSpan(db, cut) = DeleteFromSpan(db, cut)
  BY <1>3 DEF PgDeleteFromSpan, DeleteFromSpan
<1>5. ASSUME NEW cutoff \in Times PROVE PgDeleteFromTime(db, cutoff) = DeleteFromTime(db, cutoff)
  BY <1>3, TimeCutsTheEnd, ForestAssumption DEF PgDeleteFromTime, ForestAssumption
<1> QED BY <1>1, <1>2, <1>4, <1>5 DEF BackendsAgree

\* Whatever comes next to a document leaves the same rows on SQLite and on
\* Postgres: Postgres needs neither the unique index nor the closing of holes.
THEOREM BackendsDoTheSame ==
  ASSUME OrderlyClients
  PROVE  Spec => []BackendsAgree
<1>1. ForestInv => BackendsAgree
  BY ForestOnBothBackends
<1> QED BY ForestStaysSound, <1>1, PTL
-----------------------------------------------------------------------------
(* The validators *)

\* The columns of a row that name other rows: none of a row of height 0 but
\* both of any other, and no row is named by NIL.
LEMMA ChildrenOfARow ==
  ASSUME ForestInv, NEW n \in DOMAIN db
  PROVE  /\ n # NIL /\ db[n].height \in Nat /\ db[n].level_index \in Nat
         /\ db[n].span_start \in Nat /\ db[n].span_end \in Nat
         /\ db[n].span_start < db[n].span_end
         /\ db[n].height = 0 => db[n].left_child_id = NIL /\ db[n].right_child_id = NIL
         /\ db[n].height > 0 => db[n].left_child_id # NIL /\ db[n].right_child_id # NIL
<1>1. n # NIL /\ db[n] \in Row /\ NIL \notin DOMAIN db
  BY DEF ForestInv, TypeOK, NodeId, NIL
<1>2. db[n].height = 0 => db[n].left_child_id = NIL /\ db[n].right_child_id = NIL
  BY DEF ForestInv, LeavesHaveNoChildren, Leaves
<1>3. db[n].height > 0 => {db[n].left_child_id, db[n].right_child_id} \subseteq DOMAIN db
  BY DEF ForestInv, ParentsMatchChildren
<1> QED BY <1>1, <1>2, <1>3 DEF ForestInv, Row, SpansForward

LEMMA ChildlessAreLeaves == ASSUME ForestInv PROVE Childless(db) = Leaves(db)
BY ChildrenOfARow DEF Childless, Leaves

\* The order of the leaves by span_start is that of their indexes, no two start
\* together.
LEMMA LeavesByIndex ==
  ASSUME ForestInv, NEW a \in Leaves(db), NEW b \in Leaves(db)
  PROVE  /\ Precedes(db, a, b) <=> db[a].level_index < db[b].level_index
         /\ db[a].span_start < db[b].span_start <=> db[a].level_index < db[b].level_index
<1>1. /\ a \in DOMAIN db /\ b \in DOMAIN db /\ a \in Nat /\ b \in Nat
      /\ db[a].height = 0 /\ db[b].height = 0
  BY DEF Leaves, ForestInv, TypeOK, NodeId
<1>2. /\ db[a].level_index \in Nat /\ db[b].level_index \in Nat
      /\ db[a].span_start \in Nat /\ db[a].span_end \in Nat
      /\ db[b].span_start \in Nat /\ db[b].span_end \in Nat
      /\ db[a].span_start < db[a].span_end /\ db[b].span_start < db[b].span_end
  BY <1>1, ChildrenOfARow
<1>3. CASE db[a].level_index < db[b].level_index
  <2>1. db[a].span_end <= db[b].span_start
    BY <1>1, <1>3 DEF ForestInv, LevelsInOrder
  <2> QED BY <1>2, <1>3, <2>1 DEF Precedes
<1>4. CASE db[a].level_index = db[b].level_index
  <2>1. a = b
    BY <1>1, <1>4 DEF ForestInv, OneRowPerCoordinate, SameCoordinate
  <2> QED BY <1>1, <1>2, <2>1 DEF Precedes
<1>5. CASE db[b].level_index < db[a].level_index
  <2>1. db[b].span_end <= db[a].span_start
    BY <1>1, <1>5 DEF ForestInv, LevelsInOrder
  <2> QED BY <1>2, <1>5, <2>1 DEF Precedes
<1> QED BY <1>2, <1>3, <1>4, <1>5

\* A leaf without a leaf before it starts the text, any other starts where the
\* one before it ends.
LEMMA LeavesMeet == ASSUME ForestInv PROVE Contiguous(db, Leaves(db))
<1>1. \A n \in Leaves(db) : n \in DOMAIN db /\ db[n].level_index \in Nat /\ db[n].height = 0
  BY DEF Leaves, ForestInv, TypeOK, Row
<1>2. Meeting(db, Leaves(db))
  <2> SUFFICES ASSUME NEW a \in Leaves(db), NEW b \in Leaves(db), Precedes(db, a, b),
                      \A m \in Leaves(db) : ~(Precedes(db, a, m) /\ Precedes(db, m, b))
               PROVE  db[b].span_start = db[a].span_end
    BY DEF Meeting
  <2>1. db[a].level_index < db[b].level_index
    BY LeavesByIndex
  <2>2. PICK m \in Leaves(db) : /\ db[m].level_index = db[b].level_index - 1
                                /\ db[m].span_end = db[b].span_start
    BY <1>1, <2>1 DEF ForestInv, LeavesTile
  <2>3. Precedes(db, m, b)
    BY <1>1, <2>2, LeavesByIndex
  <2>4. ~(db[a].level_index < db[m].level_index)
    BY <2>3, LeavesByIndex
  <2>5. db[a].level_index = db[m].level_index
    BY <1>1, <2>1, <2>2, <2>4
  <2>6. a = m
    BY <1>1, <2>5 DEF ForestInv, OneRowPerCoordinate, SameCoordinate
  <2> QED BY <2>2, <2>6
<1>3. ASSUME NEW n \in Leaves(db), \A m \in Leaves(db) : ~Precedes(db, m, n)
      PROVE  db[n].span_start = 0
  <2>1. CASE db[n].level_index = 0
    BY <2>1 DEF ForestInv, LeavesTile
  <2>2. CASE db[n].level_index # 0
    <3>1. PICK m \in Leaves(db) : db[m].level_index = db[n].level_index - 1
      BY <2>2 DEF ForestInv, LeavesTile
    <3>2. db[m].level_index < db[n].level_index
      BY <1>1, <3>1
    <3> QED BY <1>3, <3>2, LeavesByIndex
  <2> QED BY <2>1, <2>2
<1> QED BY <1>2, <1>3 DEF Contiguous

\* Two rows are linked exactly when they are next to each other on a level,
\* and a link that is not NIL names a row.
LEMMA LinkedRows ==
  ASSUME ForestInv, NEW n \in DOMAIN db
  PROVE  /\ db[n].following_neighbor_id \in DOMAIN db \cup {NIL}
         /\ db[n].preceding_neighbor_id \in DOMAIN db \cup {NIL}
         /\ \A m \in DOMAIN db :
              LET next == db[m].height = db[n].height /\ db[m].level_index = db[n].level_index + 1
              IN  /\ db[n].following_neighbor_id = m <=> next
                  /\ db[m].preceding_neighbor_id = n <=> next
<1>1. NIL \notin DOMAIN db /\ \A m \in DOMAIN db : db[m].height \in Nat /\ db[m].level_index \in Nat
  BY DEF ForestInv, TypeOK, NodeId, NIL, Row
<1>2. \A x, y \in DOMAIN db :
        db[x].height = db[y].height /\ db[x].level_index = db[y].level_index => x = y
  BY DEF ForestInv, OneRowPerCoordinate, SameCoordinate
<1>3. /\ db[n].following_neighbor_id = NodeAt(db, db[n].height, db[n].level_index + 1)
      /\ \A m \in DOMAIN db :
            db[m].preceding_neighbor_id =
              IF db[m].level_index = 0 THEN NIL
              ELSE NodeAt(db, db[m].height, db[m].level_index - 1)
  BY DEF ForestInv, NeighborsMatchCoordinates
<1>4. db[n].following_neighbor_id \in DOMAIN db \cup {NIL}
  BY <1>1, <1>3, NodeAtFinds
<1>5. db[n].preceding_neighbor_id \in DOMAIN db \cup {NIL}
  BY <1>1, <1>3, NodeAtFinds
<1>6. ASSUME NEW m \in DOMAIN db
      PROVE  LET next == db[m].height = db[n].height /\ db[m].level_index = db[n].level_index + 1
             IN  /\ db[n].following_neighbor_id = m <=> next
                 /\ db[m].preceding_neighbor_id = n <=> next
  <2> DEFINE f == NodeAt(db, db[n].height, db[n].level_index + 1)
             b == NodeAt(db, db[m].height, db[m].level_index - 1)
             next == db[m].height = db[n].height /\ db[m].level_index = db[n].level_index + 1
  <2>1. IF f \in DOMAIN db
          THEN db[f].height = db[n].height /\ db[f].level_index = db[n].level_index + 1
          ELSE /\ f = NIL
               /\ \A k \in DOMAIN db : ~(/\ db[k].height = db[n].height
                                         /\ db[k].level_index = db[n].level_index + 1)
    BY <1>1, NodeAtFinds
  <2>2. IF b \in DOMAIN db
          THEN db[b].height = db[m].height /\ db[b].level_index = db[m].level_index - 1
          ELSE /\ b = NIL
               /\ \A k \in DOMAIN db : ~(/\ db[k].height = db[m].height
                                         /\ db[k].level_index = db[m].level_index - 1)
    BY <1>1, NodeAtFinds
  <2> HIDE DEF f, b
  <2>3. f = m <=> next
    BY <1>1, <1>2, <2>1
  <2>4. (IF db[m].level_index = 0 THEN NIL ELSE b) = n <=> next
    BY <1>1, <1>2, <2>2
  <2> QED BY <1>3, <2>3, <2>4 DEF f, b
<1> QED BY <1>4, <1>5, <1>6

\* The checks of parents and children, in the full validator and in the SQL
\* of either backend.
LEMMA FamiliesAreAccepted ==
  ASSUME ForestInv
  PROVE  /\ ParentChildRelationships(db) /\ PerfectBinaryTrees(db)
         /\ NodeCoordinates(db) /\ ParentSpanUnion(db)
         /\ BrokenParentRefs(db) /\ BrokenChildRefs(db)
         /\ ParentSpanUnionSql(db) /\ NodeCoordinatesSql(db)
         /\ PgBrokenParentRefs(db) /\ PgBrokenChildRefs(db) /\ PgNodeCoordinates(db)
<1>1. NIL \notin DOMAIN db
  BY DEF ForestInv, TypeOK, NodeId, NIL
<1>2. ASSUME NEW n \in DOMAIN db, db[n].parent_id # NIL
      PROVE  LET p == db[n].parent_id
             IN  /\ p \in DOMAIN db /\ db[p].height = db[n].height + 1
                 /\ n \in ChildrenNamed(db[p])
  BY <1>1, <1>2, UnderParent DEF ChildrenNamed
<1>3. ASSUME NEW n \in DOMAIN db, NEW c \in ChildrenNamed(db[n])
      PROVE  /\ c \in DOMAIN db /\ db[c].parent_id = n /\ db[n].height = db[c].height + 1
             /\ c = db[n].left_child_id => db[c].level_index = 2 * db[n].level_index
             /\ c = db[n].right_child_id => db[c].level_index = 2 * db[n].level_index + 1
  <2>1. db[n].height > 0
    BY <1>3, ChildrenOfARow DEF ChildrenNamed
  <2> QED BY <1>3, <2>1, ChildrenOfARow DEF ChildrenNamed, ForestInv, ParentsMatchChildren
<1>4. ASSUME NEW n \in DOMAIN db, db[n].height > 0
      PROVE  LET l == db[n].left_child_id
                 r == db[n].right_child_id
             IN  /\ l \in ChildrenNamed(db[n]) /\ r \in ChildrenNamed(db[n])
                 /\ l \in DOMAIN db /\ r \in DOMAIN db
                 /\ db[n].span_start = db[l].span_start
                 /\ db[n].span_end = db[r].span_end
                 /\ db[l].span_end = db[r].span_start
  BY <1>4, ChildrenOfARow DEF ChildrenNamed, ForestInv, ParentsMatchChildren
<1>5. ParentChildRelationships(db)
  BY <1>2, <1>3 DEF ParentChildRelationships
<1>6. PerfectBinaryTrees(db)
  BY ChildrenOfARow DEF PerfectBinaryTrees
<1>7. ASSUME NEW n \in DOMAIN db, db[n].left_child_id \in DOMAIN db \/ db[n].right_child_id \in DOMAIN db
      PROVE  db[n].height > 0
  BY <1>1, <1>7, ChildrenOfARow
<1>8. NodeCoordinates(db)
  <2> SUFFICES ASSUME NEW n \in DOMAIN db
               PROVE  LET l == db[n].left_child_id
                          r == db[n].right_child_id
                      IN  /\ n \in Childless(db) => db[n].height = 0
                          /\ \A c \in {l, r} \cap DOMAIN db : db[n].height = db[c].height + 1
                          /\ l \in DOMAIN db =>
                                /\ db[n].level_index = db[l].level_index \div 2
                                /\ db[l].level_index % 2 = 0
                          /\ r \in DOMAIN db => db[r].level_index % 2 = 1
                          /\ {l, r} \subseteq DOMAIN db =>
                                db[r].level_index = db[l].level_index + 1
    BY DEF NodeCoordinates
  <2>1. CASE db[n].height = 0
    BY <1>1, <2>1, ChildrenOfARow
  <2>2. CASE db[n].height > 0
    <3> DEFINE l == db[n].left_child_id
               r == db[n].right_child_id
    <3>1. /\ l # NIL /\ l \in DOMAIN db /\ r \in DOMAIN db
          /\ db[n].height = db[l].height + 1 /\ db[n].height = db[r].height + 1
          /\ db[l].level_index = 2 * db[n].level_index
          /\ db[r].level_index = 2 * db[n].level_index + 1
      BY <1>1, <1>3, <1>4, <2>2
    <3>2. n \notin Childless(db)
      BY <3>1 DEF Childless
    <3>3. db[n].level_index \in Nat
      BY ChildrenOfARow
    <3> HIDE DEF l, r
    <3>4. /\ db[n].level_index = db[l].level_index \div 2 /\ db[l].level_index % 2 = 0
          /\ db[r].level_index % 2 = 1 /\ db[r].level_index = db[l].level_index + 1
      BY <3>1, <3>3
    <3> QED BY <3>1, <3>2, <3>4 DEF l, r
  <2> QED BY <2>1, <2>2, ChildrenOfARow
<1>9. ParentSpanUnion(db)
  <2>1. \A n \in DOMAIN db \ Childless(db) : db[n].height > 0
    BY ChildlessAreLeaves, ChildrenOfARow DEF Leaves
  <2> QED BY <1>4, <2>1 DEF ParentSpanUnion
<1>10. BrokenParentRefs(db)
  BY <1>2 DEF BrokenParentRefs, ChildrenNamed, SqlDiffer
<1>11. BrokenChildRefs(db) /\ PgBrokenChildRefs(db)
  BY <1>3 DEF BrokenChildRefs, PgBrokenChildRefs, SqlDiffer
<1>12. ParentSpanUnionSql(db)
  BY <1>4, <1>7 DEF ParentSpanUnionSql
<1>13. NodeCoordinatesSql(db)
  BY <1>3, <1>4, <1>7 DEF NodeCoordinatesSql
<1>14. PgBrokenParentRefs(db)
  BY <1>2 DEF PgBrokenParentRefs
<1>15. PgNodeCoordinates(db)
  <2> SUFFICES ASSUME NEW c \in DOMAIN db, db[c].parent_id \in DOMAIN db
               PROVE  LET p == db[c].parent_id
                      IN  /\ db[p].height = db[c].height + 1
                          /\ c = db[p].left_child_id => db[c].level_index = db[p].level_index * 2
                          /\ c = db[p].right_child_id => db[c].level_index = db[p].level_index * 2 + 1
    BY DEF PgNodeCoordinates
  <2> DEFINE p == db[c].parent_id
  <2>1. p \in DOMAIN db /\ db[p].height = db[c].height + 1 /\ c \in ChildrenNamed(db[p])
    BY <1>1, <1>2
  <2>2. db[p].level_index \in Nat
    BY <2>1, ChildrenOfARow
  <2> HIDE DEF p
  <2>3. /\ c = db[p].left_child_id => db[c].level_index = 2 * db[p].level_index
        /\ c = db[p].right_child_id => db[c].level_index = 2 * db[p].level_index + 1
    BY <1>3, <2>1
  <2> QED BY <2>1, <2>2, <2>3 DEF p
<1> QED BY <1>5, <1>6, <1>8, <1>9, <1>10, <1>11, <1>12, <1>13, <1>14, <1>15

\* The checks of neighbours.
LEMMA ChainsAreAccepted ==
  ASSUME ForestInv
  PROVE  /\ NeighborConsistency(db) /\ CoordinatesAreUnique(db) /\ LevelNeighborChains(db)
         /\ NeighborBacklinks(db) /\ LevelChainsSql(db) /\ PgNeighborBacklinks(db)
         /\ PgLevelNeighborChains(db) <=> LevelsAreGapless(db)
<1>1. NIL \notin DOMAIN db /\ \A m \in DOMAIN db : db[m].height \in Nat /\ db[m].level_index \in Nat
  BY DEF ForestInv, TypeOK, NodeId, NIL, Row
<1>2. NeighborConsistency(db)
  BY LinkedRows DEF NeighborConsistency
<1>3. CoordinatesAreUnique(db)
  BY DEF ForestInv, OneRowPerCoordinate, CoordinatesAreUnique
<1>4. LevelNeighborChains(db)
  <2>1. \A n \in DOMAIN db : db[n].level_index = 0 => NodeAt(db, db[n].height, db[n].level_index - 1) = NIL
    BY <1>1, NodeAtFinds
  <2>2. \A n \in DOMAIN db :
          /\ db[n].preceding_neighbor_id = NodeAt(db, db[n].height, db[n].level_index - 1)
          /\ db[n].following_neighbor_id = NodeAt(db, db[n].height, db[n].level_index + 1)
    BY <2>1 DEF ForestInv, NeighborsMatchCoordinates
  <2> QED BY <1>3, <2>2 DEF LevelNeighborChains
<1>5. NeighborBacklinks(db) /\ PgNeighborBacklinks(db)
  BY LinkedRows DEF NeighborBacklinks, PgNeighborBacklinks
<1>6. LevelChainsSql(db)
  BY LinkedRows DEF LevelChainsSql
<1>7. ASSUME PgLevelNeighborChains(db) PROVE LevelsAreGapless(db)
  <2> SUFFICES ASSUME NEW m \in DOMAIN db, NEW n \in DOMAIN db,
                      db[m].height = db[n].height, db[m].level_index < db[n].level_index
               PROVE  NodeAt(db, db[m].height, db[m].level_index + 1) # NIL
    BY DEF LevelsAreGapless
  <2>1. PICK k \in DOMAIN db : db[m].following_neighbor_id = k
    <3> DEFINE later == {x \in DOMAIN db : /\ db[x].height = db[m].height
                                           /\ db[x].level_index > db[m].level_index}
    <3>1. n \in later
      BY <1>1
    <3>2. later # {} => \E x \in later : db[m].following_neighbor_id = x
      BY <1>7 DEF PgLevelNeighborChains
    <3> QED BY <3>1, <3>2
  <2>2. db[m].following_neighbor_id = NodeAt(db, db[m].height, db[m].level_index + 1)
    BY DEF ForestInv, NeighborsMatchCoordinates
  <2> QED BY <1>1, <2>1, <2>2
<1>8. ASSUME LevelsAreGapless(db) PROVE PgLevelNeighborChains(db)
  <2> SUFFICES ASSUME NEW n \in DOMAIN db, NEW m \in DOMAIN db,
                      db[m].height = db[n].height, db[m].level_index > db[n].level_index
               PROVE  LET later == {x \in DOMAIN db : /\ db[x].height = db[n].height
                                                      /\ db[x].level_index > db[n].level_index}
                      IN  \E x \in later : /\ \A k \in later : db[x].level_index <= db[k].level_index
                                           /\ db[n].following_neighbor_id = x
    BY DEF PgLevelNeighborChains
  <2> DEFINE x == NodeAt(db, db[n].height, db[n].level_index + 1)
  <2>1. x # NIL
    BY <1>1, <1>8 DEF LevelsAreGapless
  <2>2. x \in DOMAIN db /\ db[x].height = db[n].height /\ db[x].level_index = db[n].level_index + 1
    BY <1>1, <2>1, NodeAtFinds
  <2>3. db[n].following_neighbor_id = x
    BY DEF ForestInv, NeighborsMatchCoordinates
  <2> HIDE DEF x
  <2> QED BY <1>1, <2>2, <2>3
<1> QED BY <1>2, <1>3, <1>4, <1>5, <1>6, <1>7, <1>8
\* The walk up from n, as long as the table: what its definition says of it.
LEMMA AscentIs ==
  ASSUME NEW rows, Cardinality(DOMAIN rows) \in Nat, NEW n
  PROVE  /\ DOMAIN Ascent(rows, n) = 0 .. Cardinality(DOMAIN rows)
         /\ Ascent(rows, n)[0] = n
         /\ \A k \in 1 .. Cardinality(DOMAIN rows) :
              Ascent(rows, n)[k] = Above(rows, Ascent(rows, n)[k - 1])
<1> DEFINE Climbs(f, K) == f = [k \in 0 .. K |-> IF k = 0 THEN n ELSE Above(rows, f[k - 1])]
           Stuck == {K \in Nat : \A f : ~Climbs(f, K)}
           N == Cardinality(DOMAIN rows)
<1>1. Stuck = {}
  <2> SUFFICES ASSUME Stuck # {} PROVE FALSE
    OBVIOUS
  <2>1. PICK K \in Stuck : \A y \in Stuck : K <= y
    <3>1. Stuck \in SUBSET Nat
      OBVIOUS
    <3> HIDE DEF Stuck
    <3> QED BY <3>1, LeastNat
  <2>2. CASE K = 0
    <3> DEFINE f == [k \in 0 .. 0 |-> n]
    <3>1. Climbs(f, 0)
      OBVIOUS
    <3> QED BY <2>1, <2>2, <3>1
  <2>3. CASE K # 0
    <3>1. K \in Nat /\ K - 1 \in Nat /\ K - 1 \notin Stuck
      BY <2>1, <2>3
    <3>2. PICK f : Climbs(f, K - 1)
      BY <3>1
    <3> DEFINE g == [k \in 0 .. K |-> IF k = K THEN Above(rows, f[K - 1]) ELSE f[k]]
    <3>3. ASSUME NEW k \in 0 .. K PROVE g[k] = IF k = 0 THEN n ELSE Above(rows, g[k - 1])
      <4>1. CASE k = K
        BY <2>3, <3>1, <4>1
      <4>2. CASE k # K
        <5>1. k \in 0 .. (K - 1) /\ g[k] = f[k]
          BY <3>1, <4>2
        <5>2. f[k] = IF k = 0 THEN n ELSE Above(rows, f[k - 1])
          BY <3>2, <5>1
        <5>3. k # 0 => g[k - 1] = f[k - 1]
          BY <3>1, <4>2, <5>1
        <5> QED BY <5>1, <5>2, <5>3
      <4> QED BY <4>1, <4>2
    <3>4. Climbs(g, K)
      <4>1. g = [k \in 0 .. K |-> g[k]]
        OBVIOUS
      <4> HIDE DEF g
      <4> QED BY <3>3, <4>1
    <3> QED BY <2>1, <3>4
  <2> QED BY <2>2, <2>3
<1>2. \E f : Climbs(f, N)
  BY <1>1
<1>3. Climbs(Ascent(rows, n), N)
  <2>1. Ascent(rows, n) = CHOOSE f : Climbs(f, N)
    BY DEF Ascent
  <2> HIDE DEF Climbs, N
  <2> QED BY <1>2, <2>1
<1> DEFINE up == Ascent(rows, n)
<1>4. up = [k \in 0 .. N |-> IF k = 0 THEN n ELSE Above(rows, up[k - 1])]
  BY <1>3
<1> HIDE DEF up, N
<1>5. DOMAIN up = 0 .. N
  BY <1>4
<1>6. \A k \in 0 .. N : up[k] = IF k = 0 THEN n ELSE Above(rows, up[k - 1])
  BY <1>4
<1>7. 0 \in 0 .. N /\ \A k \in 1 .. N : k \in 0 .. N /\ k # 0
  BY DEF N
<1> QED BY <1>5, <1>6, <1>7 DEF up, N

\* A walk that starts at height 0 is at height k after k steps, while it is on
\* the forest at all.
LEMMA AscentClimbs ==
  ASSUME ForestInv, Cardinality(DOMAIN db) \in Nat, NEW n \in Leaves(db)
  PROVE  \A k \in 0 .. Cardinality(DOMAIN db) :
           Ascent(db, n)[k] \in DOMAIN db => db[Ascent(db, n)[k]].height = k
<1> DEFINE N == Cardinality(DOMAIN db)
           up == Ascent(db, n)
           Wrong == {k \in 0 .. N : up[k] \in DOMAIN db /\ db[up[k]].height # k}
<1>1. up[0] = n /\ \A k \in 1 .. N : up[k] = Above(db, up[k - 1])
  BY AscentIs
<1>2. NIL \notin DOMAIN db
  BY DEF ForestInv, TypeOK, NodeId, NIL
<1> HIDE DEF up
<1>3. Wrong = {}
  <2> SUFFICES ASSUME Wrong # {} PROVE FALSE
    OBVIOUS
  <2>1. PICK k \in Wrong : \A y \in Wrong : k <= y
    <3>1. Wrong \in SUBSET Nat
      OBVIOUS
    <3> HIDE DEF Wrong
    <3> QED BY <3>1, LeastNat
  <2>2. k # 0
    BY <1>1, <2>1 DEF Leaves
  <2>3. k \in 1 .. N /\ k - 1 \in 0 .. N /\ k - 1 \notin Wrong /\ N \in Nat
    BY <2>1, <2>2
  <2>4. up[k] = Above(db, up[k - 1]) /\ up[k] \in DOMAIN db /\ db[up[k]].height # k
    BY <1>1, <2>1, <2>3
  <2>5. up[k - 1] \in DOMAIN db /\ up[k] = db[up[k - 1]].parent_id
    BY <1>2, <2>4 DEF Above
  <2>6. db[up[k - 1]].height = k - 1
    BY <2>3, <2>5
  <2>7. db[up[k]].height = db[up[k - 1]].height + 1
    BY <1>2, <2>4, <2>5, UnderParent
  <2> QED BY <2>3, <2>4, <2>6, <2>7
<1> QED BY <1>3 DEF up

\* All leaves of one tree are equally deep.
LEMMA TreesAreLevel == ASSUME ForestInv PROVE PerTreeLeafDepth(db)
<1> DEFINE ends == DOMAIN db \ {db[m].parent_id : m \in DOMAIN db}
           Found(n) ==
             LET up == Ascent(db, n)
             IN  {<<up[k], k>> : k \in {j \in DOMAIN up : /\ up[j] \in DOMAIN db
                                                          /\ db[up[j]].parent_id \notin DOMAIN db}}
           pairs == UNION {Found(n) : n \in ends}
<1>1. Cardinality(DOMAIN db) \in Nat
  <2>1. nextId - 1 \in Nat /\ DOMAIN db \in SUBSET (1 .. (nextId - 1))
    BY DEF ForestInv, TypeOK, NodeId, NIL
  <2>2. IsFiniteSet(1 .. (nextId - 1))
    BY <2>1, FS_Interval
  <2>3. IsFiniteSet(DOMAIN db)
    BY <2>1, <2>2, FS_Subset
  <2> QED BY <2>3, FS_CardinalityType
<1>2. ends \subseteq Leaves(db)
  <2> SUFFICES ASSUME NEW n \in DOMAIN db, db[n].height # 0
               PROVE  \E m \in DOMAIN db : db[m].parent_id = n
    BY DEF Leaves
  <2>1. db[n].height > 0
    BY ChildrenOfARow
  <2> QED BY <2>1 DEF ForestInv, ParentsMatchChildren
<1>3. ASSUME NEW p \in pairs PROVE p[2] = db[p[1]].height
  <2>1. PICK n \in ends : p \in Found(n)
    OBVIOUS
  <2> HIDE DEF ends
  <2>2. PICK k \in DOMAIN Ascent(db, n) : p = <<Ascent(db, n)[k], k>> /\ Ascent(db, n)[k] \in DOMAIN db
    BY <2>1
  <2>3. k \in 0 .. Cardinality(DOMAIN db)
    BY <1>1, <2>2, AscentIs
  <2> QED BY <1>1, <1>2, <2>2, <2>3, AscentClimbs
<1>4. IsFunctional(pairs)
  <2> HIDE DEF pairs
  <2> QED BY <1>3 DEF IsFunctional
<1> QED BY <1>4 DEF PerTreeLeafDepth

\* No validator reports an error of a store the invariant allows.
LEMMA ForestIsAccepted == ForestInv => ValidatorsAgree
<1> SUFFICES ASSUME ForestInv, db # EmptyStore
             PROVE  /\ Accepts(db) /\ AcceptsFast(db)
                    /\ PgAcceptsFast(db) <=> LevelsAreGapless(db)
  BY DEF ValidatorsAgree
<1>1. NodesExist(db)
  BY DEF NodesExist
<1>2. LeafSpansAreOrdered(db) /\ LeafGaps(db) /\ PgLeafGaps(db)
  BY LeavesMeet, ChildlessAreLeaves DEF LeafSpansAreOrdered, LeafGaps, PgLeafGaps, Contiguous
<1>3. Accepts(db)
  BY <1>1, <1>2, FamiliesAreAccepted, ChainsAreAccepted, TreesAreLevel DEF Accepts
<1>4. AcceptsFast(db)
  BY <1>1, <1>2, FamiliesAreAccepted, ChainsAreAccepted DEF AcceptsFast
<1>5. PgAcceptsFast(db) <=> LevelsAreGapless(db)
  BY <1>1, <1>2, FamiliesAreAccepted, ChainsAreAccepted DEF PgAcceptsFast
<1> QED BY <1>3, <1>4, <1>5

\* Whatever happens to a document, an operator who validates it between two
\* transactions is told of no error, neither by the full validator nor by the
\* SQL of SQLite; the SQL of Postgres reports one exactly when a level has a
\* free coordinate between two rows.
THEOREM EveryStoreIsAccepted ==
  ASSUME OrderlyClients
  PROVE  Spec => []ValidatorsAgree
BY ForestStaysSound, ForestIsAccepted, PTL

-----------------------------------------------------------------------------
(* The text of the client *)

\* As many leaves as indexes of leaves.
LEMMA IndexesCount ==
  ASSUME ForestInv, NEW X \in SUBSET Leaves(db)
  PROVE  IsFiniteSet(X) /\ Cardinality(X) = Cardinality(IndexesOf(X))
<1> DEFINE g == [n \in X |-> db[n].level_index]
<1>1. IsFiniteSet(X)
  <2>1. nextId - 1 \in Nat /\ X \in SUBSET (1 .. (nextId - 1))
    BY DEF ForestInv, TypeOK, NodeId, NIL, Leaves
  <2>2. IsFiniteSet(1 .. (nextId - 1))
    BY <2>1, FS_Interval
  <2> QED BY <2>1, <2>2, FS_Subset
<1>2. g \in Bijection(X, IndexesOf(X))
  <2>1. \A m, n \in X : db[m].level_index = db[n].level_index => m = n
    BY DEF ForestInv, OneRowPerCoordinate, SameCoordinate, Leaves
  <2> QED BY <2>1 DEF IndexesOf, Bijection, Injection, Surjection, IsInjective
<1> QED BY <1>1, <1>2, FS_Bijection DEF ExistsBijection

\* The leaves before a leaf are as many as its index says, and the indexes of
\* all are the numbers below their count.
LEMMA LeavesAreNumbered ==
  ASSUME ForestInv
  PROVE  LET N == Cardinality(Leaves(db))
         IN  /\ N \in Nat
             /\ \A n \in Leaves(db) : db[n].level_index \in 0 .. (N - 1)
             /\ \A i \in 0 .. (N - 1) : \E n \in Leaves(db) : db[n].level_index = i
             /\ \A n \in Leaves(db) :
                  Cardinality({m \in Leaves(db) : db[m].span_start < db[n].span_start})
                     = db[n].level_index
<1> DEFINE N == Cardinality(Leaves(db))
           S == IndexesOf(Leaves(db))
<1>1. N = Cardinality(S)
  BY IndexesCount
<1>2. N \in Nat /\ S = 0 .. (N - 1)
  BY <1>1, LeavesInARow
<1>3. \A n \in Leaves(db) : db[n].level_index \in S
  BY DEF IndexesOf
<1>4. \A i \in S : \E n \in Leaves(db) : db[n].level_index = i
  BY DEF IndexesOf
<1>5. ASSUME NEW n \in Leaves(db)
      PROVE  Cardinality({m \in Leaves(db) : db[m].span_start < db[n].span_start})
                = db[n].level_index
  <2> DEFINE before == {m \in Leaves(db) : db[m].span_start < db[n].span_start}
             i == db[n].level_index
  <2>1. before = {m \in Leaves(db) : db[m].level_index < i}
    BY LeavesByIndex
  <2>2. i \in 0 .. (N - 1)
    BY <1>2, <1>3
  <2>3. \A j \in IndexesOf(before) : j \in S /\ j < i
    BY <2>1 DEF IndexesOf
  <2>4. \A j \in S : j < i => j \in IndexesOf(before)
    BY <2>1 DEF IndexesOf
  <2> HIDE DEF before, i, S, N
  <2>5. IndexesOf(before) = 0 .. (i - 1)
    <3>1. ASSUME NEW j \in IndexesOf(before) PROVE j \in 0 .. (i - 1)
      <4>1. j \in 0 .. (N - 1) /\ j < i
        BY <1>2, <2>3
      <4> QED BY <1>2, <2>2, <4>1
    <3>2. ASSUME NEW j \in 0 .. (i - 1) PROVE j \in IndexesOf(before)
      <4>1. j \in 0 .. (N - 1) /\ j < i
        BY <1>2, <2>2
      <4> QED BY <1>2, <2>4, <4>1
    <3> QED BY <3>1, <3>2
  <2>6. i \in Int /\ i - 1 \in Int /\ i >= 0
    BY <1>2, <2>2
  <2>7. Cardinality(0 .. (i - 1)) = i
    <3>1. Cardinality(0 .. (i - 1)) = IF 0 > i - 1 THEN 0 ELSE (i - 1) - 0 + 1
      BY <2>6, FS_Interval
    <3> QED BY <2>6, <3>1
  <2>8. Cardinality(before) = Cardinality(IndexesOf(before))
    BY IndexesCount DEF before
  <2> QED BY <2>5, <2>7, <2>8 DEF before, i
<1> QED BY <1>2, <1>3, <1>4, <1>5

\* The chunk a leaf holds, and the text as the chunks of the leaves in the order
\* of their indexes.
ChunkOf(n) == [len |-> db[n].span_end - db[n].span_start, time |-> db[n].time_end]

TextIsLeaves ==
    LET N == Cardinality(Leaves(db))
    IN  /\ N \in Nat
        /\ VisibleText = [k \in 1 .. N |-> VisibleText[k]]
        /\ \A n \in Leaves(db) : /\ db[n].level_index \in Nat /\ db[n].level_index < N
                                 /\ VisibleText[db[n].level_index + 1] = ChunkOf(n)
        /\ \A k \in 1 .. N : \E n \in Leaves(db) : db[n].level_index + 1 = k

LEMMA TextOfLeaves == ForestInv => TextIsLeaves
<1> SUFFICES ASSUME ForestInv PROVE TextIsLeaves
  OBVIOUS
<1> DEFINE N == Cardinality(Leaves(db))
           Rank(n) == Cardinality({m \in Leaves(db) : db[m].span_start < db[n].span_start})
<1>1. /\ N \in Nat
      /\ \A n \in Leaves(db) : db[n].level_index \in 0 .. (N - 1) /\ Rank(n) = db[n].level_index
      /\ \A i \in 0 .. (N - 1) : \E n \in Leaves(db) : db[n].level_index = i
  BY LeavesAreNumbered
<1>2. VisibleText = [k \in 1 .. N |-> ChunkOf(CHOOSE n \in Leaves(db) : Rank(n) = k - 1)]
  BY DEF VisibleText, ChunkOf
<1> HIDE DEF N, Rank
<1>3. ASSUME NEW n \in Leaves(db)
      PROVE  VisibleText[db[n].level_index + 1] = ChunkOf(n)
  <2> DEFINE k == db[n].level_index + 1
  <2>1. k \in 1 .. N /\ k - 1 = db[n].level_index
    BY <1>1
  <2> HIDE DEF k
  <2>2. \A m \in Leaves(db) : Rank(m) = k - 1 => m = n
    <3>1. \A m \in Leaves(db) : db[m].level_index = db[n].level_index => m = n
      BY DEF ForestInv, OneRowPerCoordinate, SameCoordinate, Leaves
    <3> QED BY <1>1, <2>1, <3>1
  <2>3. Rank(n) = k - 1
    BY <1>1, <2>1
  <2>4. (CHOOSE m \in Leaves(db) : Rank(m) = k - 1) = n
    BY <2>2, <2>3
  <2> QED BY <1>2, <2>1, <2>4 DEF k
<1>4. VisibleText = [k \in 1 .. N |-> VisibleText[k]]
  BY <1>2
<1>5. \A n \in Leaves(db) : db[n].level_index \in Nat /\ db[n].level_index < N
  BY <1>1
<1>6. ASSUME NEW k \in 1 .. N PROVE \E n \in Leaves(db) : db[n].level_index + 1 = k
  <2>1. k - 1 \in 0 .. (N - 1)
    BY <1>1
  <2>2. PICK n \in Leaves(db) : db[n].level_index = k - 1
    BY <1>1, <2>1
  <2>3. db[n].level_index + 1 = k
    BY <2>2
  <2> QED BY <2>3
<1> QED BY <1>1, <1>3, <1>4, <1>5, <1>6 DEF TextIsLeaves, N

\* Where the chunks of a sequence end.
LEMMA EndsOfChunks ==
  ASSUME NEW chunks, Len(chunks) \in Nat
  PROVE  LET e == Client!EndPositions(chunks)
         IN  /\ e[0] = 0
             /\ \A k \in 1 .. Len(chunks) : e[k] = e[k - 1] + chunks[k].len
<1> DEFINE Adds(f, K) == f = [k \in 0 .. K |-> IF k = 0 THEN 0 ELSE f[k - 1] + chunks[k].len]
           Stuck == {K \in Nat : \A f : ~Adds(f, K)}
           N == Len(chunks)
<1>1. Stuck = {}
  <2> SUFFICES ASSUME Stuck # {} PROVE FALSE
    OBVIOUS
  <2>1. PICK K \in Stuck : \A y \in Stuck : K <= y
    <3>1. Stuck \in SUBSET Nat
      OBVIOUS
    <3> HIDE DEF Stuck
    <3> QED BY <3>1, LeastNat
  <2>2. CASE K = 0
    <3> DEFINE f == [k \in 0 .. 0 |-> 0]
    <3>1. Adds(f, 0)
      OBVIOUS
    <3> QED BY <2>1, <2>2, <3>1
  <2>3. CASE K # 0
    <3>1. K \in Nat /\ K - 1 \in Nat /\ K - 1 \notin Stuck
      <4> HIDE DEF Adds
      <4> QED BY <2>1, <2>3
    <3>2. PICK f : Adds(f, K - 1)
      BY <3>1
    <3> DEFINE g == [k \in 0 .. K |-> IF k = K THEN f[K - 1] + chunks[K].len ELSE f[k]]
    <3>3. ASSUME NEW k \in 0 .. K PROVE g[k] = IF k = 0 THEN 0 ELSE g[k - 1] + chunks[k].len
      <4>1. CASE k = K
        BY <2>3, <3>1, <4>1
      <4>2. CASE k # K
        <5>1. k \in 0 .. (K - 1) /\ g[k] = f[k]
          BY <3>1, <4>2
        <5>2. f[k] = IF k = 0 THEN 0 ELSE f[k - 1] + chunks[k].len
          BY <3>2, <5>1
        <5>3. k # 0 => g[k - 1] = f[k - 1]
          BY <3>1, <4>2, <5>1
        <5> QED BY <5>1, <5>2, <5>3
      <4> QED BY <4>1, <4>2
    <3>4. Adds(g, K)
      <4>1. g = [k \in 0 .. K |-> g[k]]
        OBVIOUS
      <4> HIDE DEF g
      <4> QED BY <3>3, <4>1
    <3> QED BY <2>1, <3>4
  <2> QED BY <2>2, <2>3
<1>2. \E f : Adds(f, N)
  BY <1>1
<1>3. Adds(Client!EndPositions(chunks), N)
  <2>1. Client!EndPositions(chunks) = CHOOSE f : Adds(f, N)
    BY DEF Client!EndPositions
  <2> HIDE DEF Adds, N
  <2> QED BY <1>2, <2>1
<1> DEFINE e == Client!EndPositions(chunks)
<1>4. e = [k \in 0 .. N |-> IF k = 0 THEN 0 ELSE e[k - 1] + chunks[k].len]
  BY <1>3
<1> HIDE DEF e, N
<1>5. \A k \in 0 .. N : e[k] = IF k = 0 THEN 0 ELSE e[k - 1] + chunks[k].len
  BY <1>4
<1>6. 0 \in 0 .. N /\ \A k \in 1 .. N : k \in 0 .. N /\ k # 0
  BY DEF N
<1> QED BY <1>5, <1>6 DEF e, N

\* A leaf ends where its chunk ends.
LEMMA LeavesEndAsChunks ==
  ASSUME ForestInv
  PROVE  LET e == Client!EndPositions(VisibleText)
         IN  /\ Len(VisibleText) = Cardinality(Leaves(db)) /\ Cardinality(Leaves(db)) \in Nat
             /\ e[0] = 0
             /\ \A n \in Leaves(db) : e[db[n].level_index + 1] = db[n].span_end
<1> DEFINE N == Cardinality(Leaves(db))
           text == VisibleText
           e == Client!EndPositions(VisibleText)
           Wrong == {i \in Nat : \E n \in Leaves(db) :
                                    db[n].level_index = i /\ e[i + 1] # db[n].span_end}
<1>1. /\ N \in Nat /\ text = [k \in 1 .. N |-> text[k]]
      /\ \A n \in Leaves(db) : /\ db[n].level_index \in Nat /\ db[n].level_index < N
                               /\ text[db[n].level_index + 1] = ChunkOf(n)
  BY TextOfLeaves DEF TextIsLeaves
<1>2. Len(text) = N
  <2> HIDE DEF text, N
  <2> QED BY <1>1
<1>3. e[0] = 0 /\ \A k \in 1 .. N : e[k] = e[k - 1] + text[k].len
  BY <1>1, <1>2, EndsOfChunks
<1>4. \A n \in Leaves(db) : n \in DOMAIN db /\ db[n].span_start \in Nat /\ db[n].span_end \in Nat
  BY ChildrenOfARow DEF Leaves
<1> HIDE DEF e, text, N
<1>5. Wrong = {}
  <2> SUFFICES ASSUME Wrong # {} PROVE FALSE
    OBVIOUS
  <2>1. PICK i \in Wrong : \A y \in Wrong : i <= y
    <3>1. Wrong \in SUBSET Nat
      OBVIOUS
    <3> HIDE DEF Wrong
    <3> QED BY <3>1, LeastNat
  <2>2. PICK n \in Leaves(db) : db[n].level_index = i /\ e[i + 1] # db[n].span_end
    BY <2>1
  <2>3. i \in Nat /\ i + 1 \in 1 .. N /\ (i + 1) - 1 = i
    <3>1. i \in Nat /\ i < N /\ N \in Nat
      BY <1>1, <2>2
    <3> HIDE DEF Wrong
    <3> QED BY <3>1
  <2>4. e[i + 1] = e[i] + (db[n].span_end - db[n].span_start)
    <3>1. e[i + 1] = e[i] + text[i + 1].len
      BY <1>3, <2>3
    <3>2. text[i + 1] = ChunkOf(n)
      BY <1>1, <2>2
    <3>3. text[i + 1].len = db[n].span_end - db[n].span_start
      BY <3>2 DEF ChunkOf
    <3> QED BY <3>1, <3>3
  <2>5. e[i] = db[n].span_start
    <3>1. CASE i = 0
      BY <1>3, <2>2, <3>1 DEF ForestInv, LeavesTile
    <3>2. CASE i # 0
      <4>1. PICK m \in Leaves(db) : /\ db[m].level_index = i - 1
                                    /\ db[m].span_end = db[n].span_start
        BY <2>2, <3>2 DEF ForestInv, LeavesTile
      <4>2. i - 1 \in Nat /\ i - 1 \notin Wrong /\ (i - 1) + 1 = i
        BY <2>1, <2>3, <3>2
      <4> QED BY <4>1, <4>2
    <3> QED BY <3>1, <3>2
  <2> QED BY <1>4, <2>2, <2>4, <2>5
<1>6. ASSUME NEW n \in Leaves(db) PROVE e[db[n].level_index + 1] = db[n].span_end
  BY <1>1, <1>5
<1> QED BY <1>1, <1>2, <1>3, <1>6 DEF e, text, N

\* Where the leaves and what they hold stay, the text does.
LEMMA TextStays ==
  ASSUME ForestInv, ForestInv', Leaves(db)' = Leaves(db),
         \A n \in Leaves(db) : /\ db'[n].level_index = db[n].level_index
                               /\ db'[n].span_start = db[n].span_start
                               /\ db'[n].span_end = db[n].span_end
                               /\ db'[n].time_end = db[n].time_end
  PROVE  VisibleText' = VisibleText
<1> DEFINE N == Cardinality(Leaves(db))
           old == VisibleText
           new == VisibleText'
<1>1. TextIsLeaves
  BY TextOfLeaves
<1>2. TextIsLeaves'
  BY TextOfLeaves, PTL
<1>3. /\ old = [k \in 1 .. N |-> old[k]]
      /\ \A n \in Leaves(db) : old[db[n].level_index + 1] = ChunkOf(n)
      /\ \A k \in 1 .. N : \E n \in Leaves(db) : db[n].level_index + 1 = k
  BY <1>1 DEF TextIsLeaves
<1>4. /\ new = [k \in 1 .. N |-> new[k]]
      /\ \A n \in Leaves(db) : new[db'[n].level_index + 1] = ChunkOf(n)'
  BY <1>2 DEF TextIsLeaves
<1>5. \A n \in Leaves(db) : ChunkOf(n)' = ChunkOf(n)
  BY DEF ChunkOf
<1> HIDE DEF old, new, N
<1>6. \A k \in 1 .. N : new[k] = old[k]
  BY <1>3, <1>4, <1>5
<1>7. new = old
  BY <1>3, <1>4, <1>6
<1> QED BY <1>7 DEF old, new

\* The chunks of an append, as their client sees them.
LEMMA AppendSends ==
  ASSUME ForestInv, ForestInv', OrderlyClients, NEW right \in RightmostLeaves(db),
         NEW time \in Times, NEW ends \in ChunkEnds(EndOf(db, right)),
         AppendText(right, ends, time)
  PROVE  \E k \in 1 .. MaxChunks : \E chunks \in [1 .. k -> Client!Chunk] :
            Client!SendChunks(chunks)
<1> DEFINE base == EndOf(db, right)
           N == Cardinality(Leaves(db))
           M == Cardinality(Leaves(db))'
           K == Len(ends)
           old == VisibleText
           new == VisibleText'
           chunks == [i \in 1 .. K |-> [len |-> ends[i] - (IF i = 1 THEN base ELSE ends[i - 1]),
                                        time |-> time]]
           ids == nextId .. (nextId + K - 1)
<1>1. /\ AppendedRows(right, time, ends)
      /\ nextId \in Nat
  BY AppendRows DEF ForestInv, TypeOK, NodeId
<1>2. K \in 1 .. MaxChunks /\ K \in Nat /\ K >= 1 /\ chunks \in [1 .. K -> Client!Chunk]
  <2>1. base \in Nat
    BY RightmostIsLast
  <2>2. PICK k \in 1 .. MaxChunks :
          /\ ends \in [1 .. k -> base .. (base + k * Max(ChunkLens))]
          /\ \A i \in 1 .. k : ends[i] - (IF i = 1 THEN base ELSE ends[i - 1]) \in ChunkLens
    BY DEF ChunkEnds
  <2>3. k \in Nat /\ K = k
    <3>1. k \in Nat
      BY ForestAssumption DEF ForestAssumption
    <3> QED BY <2>2, <3>1
  <2> HIDE DEF base, K
  <2> QED BY <2>2, <2>3 DEF Client!Chunk
<1>3. Leaves(db)' = Leaves(db) \cup ids /\ Leaves(db) \subseteq DOMAIN db
  <2>1. Leaves(db)' = {n \in DOMAIN db' : db'[n].height = 0}
    BY DEF Leaves
  <2>2. /\ DOMAIN db' = DOMAIN db \cup ids
        /\ \A n \in ids : db'[n].height = 0
    BY <1>1 DEF AppendedRows
  <2>3. \A n \in DOMAIN db : db'[n].height = db[n].height
    <3> SUFFICES ASSUME NEW n \in DOMAIN db PROVE db'[n].height = db[n].height
      OBVIOUS
    <3>1. db[n] \in Row /\ nextId \in Nat
      BY DEF ForestInv, TypeOK, NodeId
    <3>2. db'[n] = [db[n] EXCEPT !.following_neighbor_id = IF n = right THEN nextId ELSE @]
      BY <1>1 DEF AppendedRows
    <3> QED BY <3>1, <3>2 DEF Row
  <2> HIDE DEF ids
  <2> QED BY <2>1, <2>2, <2>3 DEF Leaves
<1>4. \A n \in Leaves(db) : /\ db'[n].level_index = db[n].level_index /\ ChunkOf(n)' = ChunkOf(n)
  <2> SUFFICES ASSUME NEW n \in Leaves(db)
               PROVE  db'[n].level_index = db[n].level_index /\ ChunkOf(n)' = ChunkOf(n)
    OBVIOUS
  <2>1. n \in DOMAIN db /\ db[n] \in Row /\ nextId \in Nat
    BY DEF ForestInv, TypeOK, NodeId, Leaves
  <2>2. db'[n] = [db[n] EXCEPT !.following_neighbor_id = IF n = right THEN nextId ELSE @]
    BY <1>1, <2>1 DEF AppendedRows
  <2>3. /\ db'[n].level_index = db[n].level_index /\ db'[n].time_end = db[n].time_end
        /\ db'[n].span_start = db[n].span_start /\ db'[n].span_end = db[n].span_end
    BY <2>1, <2>2 DEF Row
  <2> QED BY <2>3 DEF ChunkOf
<1>5. TextIsLeaves /\ TextIsLeaves'
  BY TextOfLeaves, PTL
<1>6. /\ N \in Nat /\ old = [k \in 1 .. N |-> old[k]]
      /\ \A n \in Leaves(db) : /\ db[n].level_index \in Nat /\ db[n].level_index < N
                               /\ old[db[n].level_index + 1] = ChunkOf(n)
      /\ \A k \in 1 .. N : \E n \in Leaves(db) : db[n].level_index + 1 = k
  BY <1>5 DEF TextIsLeaves
<1>7. /\ M \in Nat /\ new = [k \in 1 .. M |-> new[k]]
      /\ \A n \in Leaves(db)' : /\ db'[n].level_index \in Nat /\ db'[n].level_index < M
                                /\ new[db'[n].level_index + 1] = ChunkOf(n)'
      /\ \A k \in 1 .. M : \E n \in Leaves(db)' : db'[n].level_index + 1 = k
  BY <1>5 DEF TextIsLeaves
<1>8. NextIndex(db, right) = N
  <2> DEFINE index == NextIndex(db, right)
  <2>1. /\ index \in Nat
        /\ \A n \in Leaves(db) : db[n].level_index < index
        /\ right = NIL => DOMAIN db = {} /\ index = 0
        /\ right # NIL => right \in Leaves(db) /\ index = db[right].level_index + 1
    BY RightmostIsLast
  <2>2. N \in Nat /\ \A n \in Leaves(db) : db[n].level_index \in Nat /\ db[n].level_index < N
    BY <1>6
  <2>3. N # 0 => \E n \in Leaves(db) : db[n].level_index + 1 = N
    <3>1. N # 0 => N \in 1 .. N
      BY <2>2
    <3> QED BY <1>6, <3>1
  <2> HIDE DEF index, N
  <2>4. N <= index
    BY <2>1, <2>2, <2>3
  <2>5. index <= N
    <3>1. CASE right = NIL
      BY <2>1, <2>2, <3>1
    <3>2. CASE right # NIL
      <4>1. index = db[right].level_index + 1 /\ db[right].level_index \in Nat
            /\ db[right].level_index < N
        BY <2>1, <2>2, <3>2
      <4> QED BY <2>2, <4>1
    <3> QED BY <3>1, <3>2
  <2> QED BY <2>1, <2>2, <2>4, <2>5 DEF index
<1>9. \A n \in ids : /\ db'[n].level_index = N + (n - nextId)
                     /\ ChunkOf(n)' = chunks[n - nextId + 1]
  <2> SUFFICES ASSUME NEW n \in ids
               PROVE  /\ db'[n].level_index = N + (n - nextId)
                      /\ ChunkOf(n)' = chunks[n - nextId + 1]
    OBVIOUS
  <2>1. /\ db'[n].level_index = NextIndex(db, right) + (n - nextId)
        /\ db'[n].span_start = IF n = nextId THEN base ELSE ends[n - nextId]
        /\ db'[n].span_end = ends[n - nextId + 1]
        /\ db'[n].time_end = time
    BY <1>1 DEF AppendedRows
  <2>2. /\ n - nextId + 1 \in 1 .. K /\ (n - nextId + 1 = 1 <=> n = nextId)
        /\ (n - nextId + 1) - 1 = n - nextId
    BY <1>1, <1>2
  <2>3. ChunkOf(n)' = [len |-> db'[n].span_end - db'[n].span_start, time |-> db'[n].time_end]
    BY DEF ChunkOf
  <2> HIDE DEF base, K, ids, N
  <2> QED BY <1>8, <2>1, <2>2, <2>3
<1> HIDE DEF old, new, N, M, K, chunks, base
<1>10. M = N + K
  <2>1. N + K <= M
    <3>1. nextId + K - 1 \in ids /\ N + ((nextId + K - 1) - nextId) = N + K - 1
      BY <1>1, <1>2, <1>6
    <3>2. db'[nextId + K - 1].level_index = N + K - 1
      BY <1>9, <3>1
    <3>3. N + K - 1 < M
      BY <1>3, <1>7, <3>1, <3>2
    <3> QED BY <1>2, <1>6, <1>7, <3>3
  <2>2. M <= N + K
    <3>1. M # 0
      BY <1>2, <1>6, <1>7, <2>1
    <3>2. PICK n \in Leaves(db)' : db'[n].level_index + 1 = M
      BY <1>7, <3>1
    <3>3. CASE n \in Leaves(db)
      <4>1. db[n].level_index + 1 = M /\ db[n].level_index < N /\ db[n].level_index \in Nat
        BY <1>4, <1>6, <3>2, <3>3
      <4> QED BY <1>2, <1>6, <1>7, <4>1
    <3>4. CASE n \in ids
      <4>1. N + (n - nextId) + 1 = M /\ n - nextId <= K - 1 /\ n \in Int
        BY <1>1, <1>2, <1>9, <3>2, <3>4
      <4> QED BY <1>1, <1>2, <1>6, <1>7, <4>1
    <3> QED BY <1>3, <3>2, <3>3, <3>4
  <2> QED BY <1>2, <1>6, <1>7, <2>1, <2>2
<1>11. ASSUME NEW j \in 1 .. (N + K)
       PROVE  new[j] = IF j <= N THEN old[j] ELSE chunks[j - N]
  <2>1. CASE j <= N
    <3>1. PICK n \in Leaves(db) : db[n].level_index + 1 = j
      BY <1>6, <2>1
    <3>2. old[j] = ChunkOf(n)
      BY <1>6, <3>1
    <3>3. n \in Leaves(db)' /\ db'[n].level_index + 1 = j
      BY <1>3, <1>4, <3>1
    <3>4. new[j] = ChunkOf(n)'
      BY <1>7, <3>3
    <3> QED BY <1>4, <2>1, <3>1, <3>2, <3>4
  <2>2. CASE ~(j <= N)
    <3> DEFINE n == nextId + (j - N - 1)
    <3>1. n \in ids /\ n - nextId + 1 = j - N /\ N + (n - nextId) + 1 = j
      BY <1>1, <1>2, <1>6, <2>2
    <3>2. PICK m \in ids : m - nextId + 1 = j - N /\ N + (m - nextId) + 1 = j
      BY <3>1
    <3>3. m \in Leaves(db)' /\ db'[m].level_index + 1 = j
      BY <1>3, <1>9, <3>2
    <3>4. new[j] = ChunkOf(m)'
      BY <1>7, <3>3
    <3>5. ChunkOf(m)' = chunks[m - nextId + 1]
      BY <1>9, <3>2
    <3> QED BY <2>2, <3>2, <3>4, <3>5
  <2> QED BY <2>1, <2>2
<1>12. new = old \o chunks
  <2> DEFINE S == {old[k] : k \in 1 .. N} \cup {chunks[k] : k \in 1 .. K}
  <2>1. old \in [1 .. N -> S]
    BY <1>6
  <2>2. chunks \in [1 .. K -> S]
    BY <1>2
  <2> HIDE DEF S
  <2>3. old \in Seq(S) /\ Len(old) = N /\ chunks \in Seq(S) /\ Len(chunks) = K
    BY <1>2, <1>6, <2>1, <2>2
  <2>4. old \o chunks = [j \in 1 .. (N + K) |-> IF j <= N THEN old[j] ELSE chunks[j - N]]
    <3>1. /\ Len(old \o chunks) = N + K /\ old \o chunks \in Seq(S)
          /\ \A j \in 1 .. (N + K) : (old \o chunks)[j] = IF j <= N THEN old[j] ELSE chunks[j - N]
      BY <2>3, ConcatProperties
    <3> DEFINE both == old \o chunks
    <3> HIDE DEF both
    <3>2. both \in Seq(S) /\ Len(both) = N + K
      BY <3>1 DEF both
    <3>3. both = [j \in 1 .. (N + K) |-> both[j]]
      BY <3>2
    <3> QED BY <3>1, <3>3 DEF both
  <2>5. new = [j \in 1 .. (N + K) |-> new[j]]
    BY <1>7, <1>10
  <2> QED BY <1>11, <2>4, <2>5
<1>13. Client!SendChunks(chunks)
  <2>1. Len(chunks) = K /\ DOMAIN chunks = 1 .. K
    BY <1>2
  <2>2. \A i \in 1 .. K : chunks[i].time = time
    BY DEF chunks
  <2>3. 1 \in 1 .. K
    BY <1>2
  <2> QED BY <1>2, <1>12, <2>1, <2>2, <2>3 DEF Client!SendChunks, old, new
<1> QED BY <1>2, <1>13

\* Deleting the end of the document leaves the first chunks of the text: those
\* of the leaves that stay.
LEMMA DeletionKeepsPrefix ==
  ASSUME ForestInv, ForestInv', NEW gone, UpwardClosed(gone), db' = DeleteAndDetach(db, gone)
  PROVE  LET N == Cardinality(Leaves(db))
             t == Cardinality(Leaves(db)')
         IN  /\ t \in 0 .. N
             /\ \A n \in Leaves(db) : n \in gone <=> t <= db[n].level_index
             /\ VisibleText' = [i \in 1 .. t |-> VisibleText[i]]
<1> DEFINE N == Cardinality(Leaves(db))
           t == Cardinality(Leaves(db)')
           old == VisibleText
           new == VisibleText'
<1>1. TextIsLeaves /\ TextIsLeaves'
  BY TextOfLeaves, PTL
<1>2. /\ N \in Nat /\ old = [k \in 1 .. N |-> old[k]]
      /\ \A n \in Leaves(db) : /\ db[n].level_index \in Nat /\ db[n].level_index < N
                               /\ old[db[n].level_index + 1] = ChunkOf(n)
      /\ \A k \in 1 .. N : \E n \in Leaves(db) : db[n].level_index + 1 = k
  BY <1>1 DEF TextIsLeaves
<1>3. /\ t \in Nat /\ new = [k \in 1 .. t |-> new[k]]
      /\ \A n \in Leaves(db)' : /\ db'[n].level_index \in Nat /\ db'[n].level_index < t
                                /\ new[db'[n].level_index + 1] = ChunkOf(n)'
      /\ \A k \in 1 .. t : \E n \in Leaves(db)' : db'[n].level_index + 1 = k
  BY <1>1 DEF TextIsLeaves
<1>4. ASSUME NEW n \in DOMAIN db \ gone
      PROVE  /\ db'[n].height = db[n].height /\ db'[n].level_index = db[n].level_index
             /\ ChunkOf(n)' = ChunkOf(n)
  <2> DEFINE p == IF db[n].parent_id \in gone THEN NIL ELSE db[n].parent_id
             f == IF db[n].following_neighbor_id \in gone THEN NIL
                  ELSE db[n].following_neighbor_id
  <2>1. db[n] \in Row
    BY DEF ForestInv, TypeOK
  <2>2. db'[n] = [db[n] EXCEPT !.parent_id = p, !.following_neighbor_id = f]
    BY DEF DeleteAndDetach
  <2> HIDE DEF p, f
  <2>3. /\ db'[n].height = db[n].height /\ db'[n].level_index = db[n].level_index
        /\ db'[n].span_start = db[n].span_start /\ db'[n].span_end = db[n].span_end
        /\ db'[n].time_end = db[n].time_end
    BY <2>1, <2>2 DEF Row
  <2> QED BY <2>3 DEF ChunkOf
<1>5. Leaves(db)' = Leaves(db) \ gone /\ Leaves(db) \subseteq DOMAIN db
  <2>1. Leaves(db)' = {n \in DOMAIN db' : db'[n].height = 0}
    BY DEF Leaves
  <2>2. DOMAIN db' = DOMAIN db \ gone
    BY DEF DeleteAndDetach
  <2> QED BY <1>4, <2>1, <2>2 DEF Leaves
<1>12. N \in Nat /\ t \in Nat /\ \A n \in Leaves(db) : db[n].level_index \in Nat
  BY <1>2, <1>3
<1> HIDE DEF old, new, N, t
<1>6. \A n \in Leaves(db) \ gone : db[n].level_index < t
  BY <1>3, <1>4, <1>5
<1>7. ASSUME NEW n \in Leaves(db), n \in gone PROVE t <= db[n].level_index
  <2> SUFFICES ASSUME db[n].level_index < t PROVE FALSE
    BY <1>12
  <2>1. db[n].level_index + 1 \in 1 .. t /\ db[n].level_index \in Nat
    BY <1>12
  <2>2. PICK m \in Leaves(db)' : db'[m].level_index + 1 = db[n].level_index + 1
    BY <1>3, <2>1
  <2>3. m \in Leaves(db) \ gone /\ db[m].level_index + 1 = db[n].level_index + 1
    BY <1>4, <1>5, <2>2
  <2>4. db[m].level_index = db[n].level_index
    BY <1>12, <2>3
  <2>5. m = n
    BY <2>3, <2>4 DEF ForestInv, OneRowPerCoordinate, SameCoordinate, Leaves
  <2> QED BY <1>7, <2>3, <2>5
<1>8. \A n \in Leaves(db) : n \in gone <=> t <= db[n].level_index
  BY <1>2, <1>3, <1>6, <1>7
<1>9. t <= N
  <2>1. t # 0 => t \in 1 .. t
    BY <1>3
  <2>2. t # 0 => \E n \in Leaves(db)' : db'[n].level_index + 1 = t
    BY <1>3, <2>1
  <2>3. \A n \in Leaves(db)' : db'[n].level_index < N /\ db'[n].level_index \in Nat
    BY <1>2, <1>3, <1>4, <1>5
  <2> QED BY <1>2, <1>3, <2>2, <2>3
<1>10. ASSUME NEW i \in 1 .. t PROVE new[i] = old[i]
  <2>1. PICK n \in Leaves(db)' : db'[n].level_index + 1 = i
    BY <1>3
  <2>2. new[i] = ChunkOf(n)'
    BY <1>3, <2>1
  <2>3. n \in DOMAIN db \ gone /\ n \in Leaves(db)
    BY <1>5
  <2>4. db[n].level_index + 1 = i /\ ChunkOf(n)' = ChunkOf(n)
    BY <1>4, <2>1, <2>3
  <2>5. old[i] = ChunkOf(n)
    BY <1>2, <2>3, <2>4
  <2> QED BY <2>2, <2>4, <2>5
<1>11. new = [i \in 1 .. t |-> old[i]]
  BY <1>3, <1>10
<1> QED BY <1>2, <1>3, <1>8, <1>9, <1>11 DEF old, new, N, t

\* A prefix is a subsequence.
LEMMA PrefixIs ==
  ASSUME NEW S, NEW N \in Nat, NEW s \in [1 .. N -> S], NEW t \in 0 .. N
  PROVE  SubSeq(s, 1, t) = [i \in 1 .. t |-> s[i]]
<1> DEFINE sub == SubSeq(s, 1, t)
<1>1. \A k \in 1 .. t : s[k] \in S
  OBVIOUS
<1>2. 1 \in Int /\ t \in Int /\ t \in Nat
  OBVIOUS
<1>3. /\ sub \in Seq(S) /\ Len(sub) = (IF 1 <= t THEN t - 1 + 1 ELSE 0)
      /\ \A i \in 1 .. (t - 1 + 1) : sub[i] = s[1 + i - 1]
  BY <1>1, <1>2, SubSeqProperties
<1> HIDE DEF sub
<1>4. Len(sub) = t /\ t - 1 + 1 = t
  BY <1>2, <1>3
<1>5. \A i \in 1 .. t : sub[i] = s[i]
  BY <1>2, <1>3, <1>4
<1>6. sub = [i \in 1 .. t |-> sub[i]]
  BY <1>3, <1>4
<1>7. sub = [i \in 1 .. t |-> s[i]]
  BY <1>5, <1>6
<1> QED BY <1>7 DEF sub

\* DocumentText counts as the forest does.
LEMMA ClientCounts == \A S : Client!Cardinality(S) = Cardinality(S)
BY DEF Client!Cardinality, Cardinality, Client!IsFiniteSet, IsFiniteSet

\* A truncation by position keeps the longest prefix that ends there.
LEMMA CutKeepsPrefix ==
  ASSUME ForestInv, ForestInv', NEW cut \in Nat,
         db' = DeleteAndDetach(db, {n \in DOMAIN db : db[n].span_end > cut})
  PROVE  Client!KeepUpTo(cut)
<1> DEFINE N == Cardinality(Leaves(db))
           gone == {n \in DOMAIN db : db[n].span_end > cut}
           t == Cardinality(Leaves(db)')
           old == VisibleText
           e == Client!EndPositions(VisibleText)
           kept == {k \in 0 .. N : e[k] <= cut}
<1>1. \A n \in DOMAIN db : db[n].span_end \in Nat
  BY DEF ForestInv, TypeOK, Row
<1>2. UpwardClosed(gone)
  BY <1>1 DEF UpwardClosed
<1>3. /\ t \in 0 .. N
      /\ \A n \in Leaves(db) : n \in gone <=> t <= db[n].level_index
      /\ VisibleText' = [i \in 1 .. t |-> old[i]]
  <2> HIDE DEF gone
  <2> QED BY <1>2, DeletionKeepsPrefix DEF gone
<1>4. /\ N \in Nat /\ Len(old) = N /\ e[0] = 0
      /\ \A n \in Leaves(db) : e[db[n].level_index + 1] = db[n].span_end
  BY LeavesEndAsChunks
<1>5. TextIsLeaves
  BY TextOfLeaves
<1>6. /\ old = [k \in 1 .. N |-> old[k]]
      /\ \A k \in 1 .. N : \E n \in Leaves(db) : db[n].level_index + 1 = k
      /\ \A n \in Leaves(db) : n \in DOMAIN db /\ db[n].level_index \in Nat
  BY <1>5 DEF TextIsLeaves, Leaves
<1> HIDE DEF old, N, t, e
<1>7. \A k \in 1 .. N : e[k] <= cut <=> k <= t
  <2> SUFFICES ASSUME NEW k \in 1 .. N PROVE e[k] <= cut <=> k <= t
    OBVIOUS
  <2>1. PICK n \in Leaves(db) : db[n].level_index + 1 = k
    BY <1>6
  <2>2. e[k] = db[n].span_end
    BY <1>4, <2>1
  <2>3. n \in gone <=> ~(e[k] <= cut)
    BY <1>1, <1>6, <2>2
  <2>4. n \in gone <=> t <= db[n].level_index
    BY <1>3
  <2> HIDE DEF gone
  <2>5. t \in Nat /\ db[n].level_index \in Nat /\ k \in Nat
    BY <1>3, <1>4, <1>6
  <2> QED BY <2>1, <2>3, <2>4, <2>5
<1>8. t \in kept /\ \A k \in kept : k <= t
  <2>1. t \in kept
    <3>1. CASE t = 0
      BY <1>3, <1>4, <3>1
    <3>2. CASE t # 0
      <4>1. t \in 1 .. N /\ t \in 0 .. N /\ t <= t
        BY <1>3, <1>4, <3>2
      <4> QED BY <1>7, <4>1
    <3> QED BY <3>1, <3>2
  <2>2. ASSUME NEW k \in kept PROVE k <= t
    <3>1. k \in 0 .. N /\ e[k] <= cut
      OBVIOUS
    <3> HIDE DEF kept
    <3>2. CASE k = 0
      BY <1>3, <1>4, <3>2
    <3>3. CASE k # 0
      <4>1. k \in 1 .. N
        BY <1>4, <3>1, <3>3
      <4> QED BY <1>7, <3>1, <4>1
    <3> QED BY <3>2, <3>3
  <2> QED BY <2>1, <2>2
<1>9. Max(kept) = t
  <2>1. \A k \in kept : k \in Nat
    BY <1>4
  <2> HIDE DEF kept
  <2>2. ASSUME NEW x \in kept, \A y \in kept : y <= x PROVE x = t
    <3>1. t <= x /\ x <= t /\ x \in Nat /\ t \in Nat
      BY <1>8, <2>1, <2>2
    <3> QED BY <3>1
  <2> QED BY <1>8, <2>2 DEF Max
<1>10. VisibleText' = SubSeq(old, 1, t)
  <2> DEFINE S == {old[k] : k \in 1 .. N}
  <2>1. old \in [1 .. N -> S]
    BY <1>6
  <2> HIDE DEF S
  <2> QED BY <1>3, <1>4, <2>1, PrefixIs
<1>11. kept = {k \in 0 .. Len(old) : e[k] <= cut}
  BY <1>4
<1>12. VisibleText' = SubSeq(old, 1, Max({k \in 0 .. Len(old) : e[k] <= cut}))
  BY <1>9, <1>10, <1>11
<1> QED BY <1>12 DEF Client!KeepUpTo, Client!Max, Max, old, e

\* So does one by time, for later in the text is not earlier in time.
LEMMA TimeKeepsPrefix ==
  ASSUME ForestInv, ForestInv', NEW cutoff \in Nat, TruncateFromTime(cutoff)
  PROVE  Client!KeepUntil(cutoff)
<1> DEFINE N == Cardinality(Leaves(db))
           gone == {n \in DOMAIN db : db[n].time_end > cutoff}
           t == Cardinality(Leaves(db)')
           old == VisibleText
           kept == {k \in DOMAIN old : old[k].time <= cutoff}
<1>1. \A n \in DOMAIN db : db[n].time_end \in Nat
  BY DEF ForestInv, TypeOK, Row
<1>2. UpwardClosed(gone) /\ db' = DeleteAndDetach(db, gone)
  BY TimeCutsTheEnd DEF TruncateFromTime
<1>3. /\ t \in 0 .. N
      /\ \A n \in Leaves(db) : n \in gone <=> t <= db[n].level_index
      /\ VisibleText' = [i \in 1 .. t |-> old[i]]
  <2> HIDE DEF gone
  <2> QED BY <1>2, DeletionKeepsPrefix DEF gone
<1>4. TextIsLeaves
  BY TextOfLeaves
<1>5. /\ N \in Nat /\ old = [k \in 1 .. N |-> old[k]]
      /\ \A k \in 1 .. N : \E n \in Leaves(db) : db[n].level_index + 1 = k
      /\ \A n \in Leaves(db) : /\ n \in DOMAIN db /\ db[n].level_index \in Nat
                               /\ old[db[n].level_index + 1] = ChunkOf(n)
  BY <1>4 DEF TextIsLeaves, Leaves
<1> HIDE DEF old, N, t
<1>12. /\ \A n \in Leaves(db) : n \in DOMAIN db /\ db[n].level_index \in Nat
       /\ N \in Nat /\ t \in Nat
  <2>1. N \in Nat /\ \A n \in Leaves(db) : n \in DOMAIN db /\ db[n].level_index \in Nat
    BY <1>5
  <2>2. t \in 0 .. N
    BY <1>3
  <2> QED BY <2>1, <2>2
<1>6. DOMAIN old = 1 .. N
  BY <1>5
<1>7. \A k \in 1 .. N : old[k].time <= cutoff <=> k <= t
  <2> SUFFICES ASSUME NEW k \in 1 .. N PROVE old[k].time <= cutoff <=> k <= t
    OBVIOUS
  <2>1. PICK n \in Leaves(db) : db[n].level_index + 1 = k
    BY <1>5
  <2>2. old[k].time = db[n].time_end
    <3>1. old[k] = ChunkOf(n)
      BY <1>5, <2>1
    <3> QED BY <3>1 DEF ChunkOf
  <2>3. n \in gone <=> ~(old[k].time <= cutoff)
    <3>1. n \in DOMAIN db
      BY <1>12
    <3> QED BY <1>1, <2>2, <3>1
  <2>4. n \in gone <=> t <= db[n].level_index
    BY <1>3
  <2> HIDE DEF gone
  <2>5. t \in Nat /\ db[n].level_index \in Nat /\ k \in Nat
    BY <1>12
  <2> QED BY <2>1, <2>3, <2>4, <2>5
<1>8. kept = 1 .. t
  <2>1. kept = {k \in 1 .. N : k <= t}
    BY <1>6, <1>7
  <2> HIDE DEF kept
  <2>2. t \in Nat /\ t <= N /\ N \in Nat
    BY <1>3, <1>5
  <2> QED BY <2>1, <2>2
<1>9. ASSUME NEW i \in 0 .. t PROVE Client!Cardinality(1 .. i) = i
  <2>1. i \in Nat /\ 1 \in Int /\ i \in Int
    BY <1>3
  <2>2. Cardinality(1 .. i) = IF 1 > i THEN 0 ELSE i - 1 + 1
    BY <2>1, FS_Interval
  <2> QED BY <2>1, <2>2, ClientCounts
<1>10. ASSUME NEW i \in 1 .. t
       PROVE  (CHOOSE k \in 1 .. t : Client!Cardinality({j \in 1 .. t : j <= k}) = i) = i
  <2>1. \A k \in 1 .. t : Client!Cardinality({j \in 1 .. t : j <= k}) = k
    <3> SUFFICES ASSUME NEW k \in 1 .. t PROVE Client!Cardinality({j \in 1 .. t : j <= k}) = k
      OBVIOUS
    <3>1. {j \in 1 .. t : j <= k} = 1 .. k /\ k \in 0 .. t
      BY <1>3
    <3> QED BY <1>9, <3>1
  <2> QED BY <2>1
<1>11. Client!Picked(old, kept) = [i \in 1 .. t |-> old[i]]
  <2>1. Client!Cardinality(1 .. t) = t
    BY <1>9, <1>12
  <2>2. Client!Picked(old, 1 .. t) =
          [i \in 1 .. Client!Cardinality(1 .. t) |->
             old[CHOOSE k \in 1 .. t : Client!Cardinality({j \in 1 .. t : j <= k}) = i]]
    BY DEF Client!Picked
  <2> QED BY <1>8, <1>10, <2>1, <2>2
<1> QED BY <1>3, <1>11 DEF Client!KeepUntil, old

\* The text ends where the document does.
LEMMA TextEndsThere ==
  ASSUME ForestInv
  PROVE  Client!EndPosition(VisibleText) = DocumentEnd /\ DocumentEnd \in Nat
<1> DEFINE N == Cardinality(Leaves(db))
           e == Client!EndPositions(VisibleText)
           ends == {db[n].span_end : n \in DOMAIN db}
<1>1. /\ Len(VisibleText) = N /\ N \in Nat /\ e[0] = 0
      /\ \A n \in Leaves(db) : e[db[n].level_index + 1] = db[n].span_end
  BY LeavesEndAsChunks
<1>2. TextIsLeaves
  BY TextOfLeaves
<1>3. /\ \A k \in 1 .. N : \E n \in Leaves(db) : db[n].level_index + 1 = k
      /\ \A n \in Leaves(db) : n \in DOMAIN db /\ db[n].level_index \in Nat /\ db[n].level_index < N
  BY <1>2 DEF TextIsLeaves, Leaves
<1>4. Client!EndPosition(VisibleText) = e[N]
  BY <1>1 DEF Client!EndPosition
<1>5. \A n \in DOMAIN db : /\ db[n].span_start \in Nat /\ db[n].span_end \in Nat
                           /\ db[n].span_start < db[n].span_end
  BY ChildrenOfARow
<1> HIDE DEF N, e
<1>6. CASE N = 0
  <2>1. DOMAIN db = {}
    <3>1. Leaves(db) = {}
      BY <1>3, <1>6
    <3> QED BY <3>1 DEF ForestInv, EndsAtLeaf
  <2>2. db = EmptyStore
    <3>1. db = [n \in DOMAIN db |-> db[n]]
      BY DEF ForestInv, TypeOK
    <3> QED BY <2>1, <3>1 DEF EmptyStore
  <2> QED BY <1>1, <1>4, <1>6, <2>2 DEF DocumentEnd
<1>7. CASE N # 0
  <2>1. PICK last \in Leaves(db) : db[last].level_index + 1 = N
    <3>1. N \in 1 .. N
      BY <1>1, <1>7
    <3> QED BY <1>3, <3>1
  <2>2. e[N] = db[last].span_end /\ last \in DOMAIN db
    BY <1>1, <1>3, <2>1
  <2>3. ASSUME NEW n \in DOMAIN db PROVE db[n].span_end <= db[last].span_end
    <3>1. PICK m \in Leaves(db) : db[m].span_end = db[n].span_end
      BY DEF ForestInv, EndsAtLeaf
    <3>2. /\ m \in DOMAIN db /\ db[m].level_index \in Nat /\ db[m].level_index < N
          /\ db[last].level_index \in Nat
      BY <1>3
    <3>3. db[m].level_index = db[last].level_index \/ db[m].level_index < db[last].level_index
      BY <1>1, <2>1, <3>2
    <3>4. CASE db[m].level_index = db[last].level_index
      <4>1. m = last
        BY <3>4 DEF ForestInv, OneRowPerCoordinate, SameCoordinate, Leaves
      <4> QED BY <1>5, <2>2, <3>1, <4>1
    <3>5. CASE db[m].level_index < db[last].level_index
      <4>1. db[m].span_end <= db[last].span_start
        BY <3>5 DEF ForestInv, LevelsInOrder, Leaves
      <4> QED BY <1>5, <2>2, <3>1, <3>2, <4>1
    <3> QED BY <3>3, <3>4, <3>5
  <2>4. Max(ends) = db[last].span_end
    <3>1. db[last].span_end \in ends /\ \A y \in ends : y <= db[last].span_end /\ y \in Nat
      BY <1>5, <2>2, <2>3
    <3> HIDE DEF ends
    <3>2. ASSUME NEW x \in ends, \A y \in ends : y <= x PROVE x = db[last].span_end
      <4>1. x <= db[last].span_end /\ db[last].span_end <= x /\ x \in Nat /\ db[last].span_end \in Nat
        BY <3>1, <3>2
      <4> QED BY <4>1
    <3> QED BY <3>1, <3>2 DEF Max
  <2>5. db # EmptyStore
    BY <2>2 DEF EmptyStore
  <2> QED BY <1>4, <1>5, <2>2, <2>4, <2>5 DEF DocumentEnd
<1> QED BY <1>6, <1>7

\* Every step of the rows is a step of the text or leaves it as it is.
LEMMA StepShowsText ==
  ASSUME OrderlyClients, ForestInv, ForestInv', [Next]_vars
  PROVE  [Client!TextNext]_VisibleText
<1>1. CASE AppendSome
  <2>1. PICK right \in RightmostLeaves(db), time \in Times :
          \E ends \in ChunkEnds(EndOf(db, right)) : AppendText(right, ends, time)
    BY <1>1 DEF AppendSome
  <2>2. PICK ends \in ChunkEnds(EndOf(db, right)) : AppendText(right, ends, time)
    BY <2>1
  <2>3. \E k \in 1 .. MaxChunks : \E chunks \in [1 .. k -> Client!Chunk] : Client!SendChunks(chunks)
    BY <2>2, AppendSends
  <2> QED BY <2>3 DEF Client!TextNext
<1>2. CASE Commit
  <2>1. PICK job \in jobs : CommitSummary(job)
    BY <1>2 DEF Commit
  <2>2. CommittedRows(job) /\ JobFacts(job)
    BY <2>1, CommitRows, JobPair
  <2>3. /\ DOMAIN db' = DOMAIN db \cup {nextId}
        /\ \A n \in DOMAIN db : /\ db'[n].height = db[n].height
                                /\ db'[n].level_index = db[n].level_index
                                /\ db'[n].span_start = db[n].span_start
                                /\ db'[n].span_end = db[n].span_end
                                /\ db'[n].time_end = db[n].time_end
    BY <2>2 DEF CommittedRows
  <2>4. db'[nextId].height # 0
    <3>1. db'[nextId].height = job.height + 1 /\ job.height \in Nat
      BY <2>2 DEF CommittedRows, ParentRow, JobFacts
    <3> QED BY <3>1
  <2>5. Leaves(db)' = Leaves(db) /\ Leaves(db) \subseteq DOMAIN db
    <3>1. Leaves(db)' = {n \in DOMAIN db' : db'[n].height = 0}
      BY DEF Leaves
    <3> QED BY <2>3, <2>4, <3>1 DEF Leaves
  <2> QED BY <2>3, <2>5, TextStays
<1>3. CASE Truncate
  <2>1. CASE \E cut \in 0 .. DocumentEnd : TruncateFromSpan(cut)
    <3>1. PICK cut \in 0 .. DocumentEnd : TruncateFromSpan(cut)
      BY <2>1
    <3>2. cut \in Nat /\ cut \in 0 .. Client!EndPosition(VisibleText)
      BY TextEndsThere
    <3>3. Client!KeepUpTo(cut)
      BY <3>1, <3>2, CutKeepsPrefix DEF TruncateFromSpan, DeleteFromSpan
    <3> QED BY <3>2, <3>3 DEF Client!TextNext
  <2>2. CASE \E cutoff \in Times : TruncateFromTime(cutoff)
    <3>1. PICK cutoff \in Times : TruncateFromTime(cutoff)
      BY <2>2
    <3>2. cutoff \in Nat
      BY ForestAssumption DEF ForestAssumption
    <3>3. Client!KeepUntil(cutoff)
      BY <3>1, <3>2, TimeKeepsPrefix
    <3> QED BY <3>3 DEF Client!TextNext
  <2>3. CASE Clear
    <3> DEFINE gone == {n \in DOMAIN db : db[n].span_end > 0}
    <3>1. gone = DOMAIN db
      BY ChildrenOfARow
    <3>2. db' = DeleteAndDetach(db, gone)
      BY <2>3, <3>1 DEF Clear, EmptyStore, DeleteAndDetach
    <3>3. Client!KeepUpTo(0)
      BY <3>2, CutKeepsPrefix
    <3>4. 0 \in 0 .. Client!EndPosition(VisibleText)
      BY TextEndsThere
    <3> QED BY <3>3, <3>4 DEF Client!TextNext
  <2> QED BY <1>3, <2>1, <2>2, <2>3 DEF Truncate
<1>4. CASE UNCHANGED db
  BY <1>4 DEF VisibleText, Leaves
<1>5. (\E l, r \in DOMAIN db : StartSummary(l, r)) => UNCHANGED db
  BY DEF StartSummary
<1>6. (\E job \in jobs : FailSummary(job)) \/ Restart \/ UNCHANGED vars => UNCHANGED db
  BY DEF FailSummary, Restart, vars
<1> QED BY <1>1, <1>2, <1>3, <1>4, <1>5, <1>6 DEF Next, Summarise

\* What is stored is the text of the client, for documents of any length: no
\* summary, failure, restart or truncation reorders, loses or doubles a chunk.
THEOREM RowsShowTheText ==
  ASSUME OrderlyClients
  PROVE  Spec => ShowsClientText
<1>1. Init => Client!TextInit
  <2> SUFFICES ASSUME Init PROVE VisibleText = <<>>
    BY DEF Client!TextInit
  <2>1. TextIsLeaves
    BY InitForest, TextOfLeaves
  <2>2. Leaves(db) = {}
    BY DEF Init, EmptyStore, Leaves
  <2>3. Cardinality(Leaves(db)) = 0
    BY <2>2, FS_EmptySet
  <2> QED BY <2>1, <2>3 DEF TextIsLeaves
<1>2. ForestInv /\ ForestInv' /\ [Next]_vars => [Client!TextNext]_VisibleText
  BY StepShowsText
<1> QED BY <1>1, <1>2, ForestStaysSound, PTL DEF Spec, ShowsClientText, Client!TextSpec

-----------------------------------------------------------------------------
(* What the queries answer *)

\* The rows of the document are finitely many.
LEMMA RowsAreFinite ==
  ASSUME ForestInv
  PROVE  IsFiniteSet(DOMAIN db) /\ Cardinality(DOMAIN db) \in Nat
<1>1. nextId - 1 \in Nat /\ DOMAIN db \in SUBSET (1 .. (nextId - 1))
  BY DEF ForestInv, TypeOK, NodeId, NIL
<1>2. IsFiniteSet(1 .. (nextId - 1))
  BY <1>1, FS_Interval
<1>3. IsFiniteSet(DOMAIN db)
  BY <1>1, <1>2, FS_Subset
<1> QED BY <1>3, FS_CardinalityType

\* One step of the search for ancestors.
Risen(rows, S) == NodesAt(rows, {ParentCoordinate(rows, n) : n \in S})

\* The rounds of the search, by their equations.
LEMMA RoundsAre ==
  ASSUME NEW rows, Cardinality(DOMAIN rows) \in Nat, NEW ids
  PROVE  /\ DOMAIN AncestorRounds(rows, ids) = 0 .. Cardinality(DOMAIN rows)
         /\ AncestorRounds(rows, ids)[0] = ids \cap DOMAIN rows
         /\ \A k \in 1 .. Cardinality(DOMAIN rows) :
              AncestorRounds(rows, ids)[k] = Risen(rows, AncestorRounds(rows, ids)[k - 1])
<1> DEFINE S == ids \cap DOMAIN rows
           Rises(f, K) == f = [k \in 0 .. K |-> IF k = 0 THEN S ELSE Risen(rows, f[k - 1])]
           Stuck == {K \in Nat : \A f : ~Rises(f, K)}
           N == Cardinality(DOMAIN rows)
<1>1. Stuck = {}
  <2> SUFFICES ASSUME Stuck # {} PROVE FALSE
    OBVIOUS
  <2>1. PICK K \in Stuck : \A y \in Stuck : K <= y
    <3>1. Stuck \in SUBSET Nat
      OBVIOUS
    <3> HIDE DEF Stuck
    <3> QED BY <3>1, LeastNat
  <2> HIDE DEF S
  <2>2. CASE K = 0
    <3> DEFINE f == [k \in 0 .. 0 |-> S]
    <3>1. Rises(f, 0)
      OBVIOUS
    <3> QED BY <2>1, <2>2, <3>1
  <2>3. CASE K # 0
    <3>1. K \in Nat /\ K - 1 \in Nat /\ K - 1 \notin Stuck
      <4> HIDE DEF Rises
      <4> QED BY <2>1, <2>3
    <3>2. PICK f : Rises(f, K - 1)
      BY <3>1
    <3> DEFINE g == [k \in 0 .. K |-> IF k = K THEN Risen(rows, f[K - 1]) ELSE f[k]]
    <3>3. ASSUME NEW k \in 0 .. K PROVE g[k] = IF k = 0 THEN S ELSE Risen(rows, g[k - 1])
      <4>1. CASE k = K
        BY <2>3, <3>1, <4>1
      <4>2. CASE k # K
        <5>1. k \in 0 .. (K - 1) /\ g[k] = f[k]
          BY <3>1, <4>2
        <5>2. f[k] = IF k = 0 THEN S ELSE Risen(rows, f[k - 1])
          BY <3>2, <5>1
        <5>3. k # 0 => g[k - 1] = f[k - 1]
          BY <3>1, <4>2, <5>1
        <5> QED BY <5>1, <5>2, <5>3
      <4> QED BY <4>1, <4>2
    <3>4. Rises(g, K)
      <4>1. g = [k \in 0 .. K |-> g[k]]
        OBVIOUS
      <4> HIDE DEF g
      <4> QED BY <3>3, <4>1
    <3> QED BY <2>1, <3>4
  <2> QED BY <2>2, <2>3
<1>2. \E f : Rises(f, N)
  BY <1>1
<1>3. Rises(AncestorRounds(rows, ids), N)
  <2>1. AncestorRounds(rows, ids) = CHOOSE f : Rises(f, N)
    BY DEF AncestorRounds, Risen
  <2> HIDE DEF Rises, N
  <2> QED BY <1>2, <2>1
<1> DEFINE up == AncestorRounds(rows, ids)
<1>4. up = [k \in 0 .. N |-> IF k = 0 THEN S ELSE Risen(rows, up[k - 1])]
  BY <1>3
<1> HIDE DEF up, N, S
<1>5. DOMAIN up = 0 .. N
  BY <1>4
<1>6. \A k \in 0 .. N : up[k] = IF k = 0 THEN S ELSE Risen(rows, up[k - 1])
  BY <1>4
<1>7. 0 \in 0 .. N /\ \A k \in 1 .. N : k \in 0 .. N /\ k # 0
  BY DEF N
<1> QED BY <1>5, <1>6, <1>7 DEF up, N, S

\* The coordinate above a row is that of its parent, and free when it has none.
LEMMA ParentIsAbove ==
  ASSUME ForestInv, NEW n \in DOMAIN db
  PROVE  Risen(db, {n}) = IF db[n].parent_id = NIL THEN {} ELSE {db[n].parent_id}
<1>1. \A m \in DOMAIN db :
        m # NIL /\ db[m].height \in Nat /\ db[m].level_index \in Nat /\ db[m].parent_id \in Nat
  BY DEF ForestInv, TypeOK, Row, NodeId, NIL
<1>2. Risen(db, {n}) = {m \in DOMAIN db : /\ db[m].height = db[n].height + 1
                                          /\ db[m].level_index = db[n].level_index \div 2}
  BY DEF Risen, NodesAt, Coordinate, ParentCoordinate
<1>3. ASSUME NEW m \in DOMAIN db, db[m].height = db[n].height + 1,
             db[m].level_index = db[n].level_index \div 2
      PROVE  m = db[n].parent_id
  <2> DEFINE l == db[m].left_child_id
             r == db[m].right_child_id
  <2>1. /\ l \in DOMAIN db /\ r \in DOMAIN db
        /\ db[l].parent_id = m /\ db[r].parent_id = m
        /\ db[l].height = db[m].height - 1 /\ db[r].height = db[m].height - 1
        /\ db[l].level_index = 2 * db[m].level_index
        /\ db[r].level_index = 2 * db[m].level_index + 1
    BY <1>1, <1>3 DEF ForestInv, ParentsMatchChildren
  <2> HIDE DEF l, r
  <2>2. db[l].height = db[n].height /\ db[r].height = db[n].height
    BY <1>1, <1>3, <2>1
  <2>3. db[l].level_index = db[n].level_index \/ db[r].level_index = db[n].level_index
    BY <1>1, <1>3, <2>1
  <2>4. n = l \/ n = r
    BY <2>1, <2>2, <2>3 DEF ForestInv, OneRowPerCoordinate, SameCoordinate
  <2> QED BY <2>1, <2>4
<1>4. ASSUME db[n].parent_id # NIL
      PROVE  LET p == db[n].parent_id
             IN  /\ p \in DOMAIN db /\ db[p].height = db[n].height + 1
                 /\ db[p].level_index = db[n].level_index \div 2
  <2> DEFINE p == db[n].parent_id
             l == db[p].left_child_id
             r == db[p].right_child_id
  <2>1. /\ p \in DOMAIN db /\ db[p].height = db[n].height + 1
        /\ n = l \/ n = r
    BY <1>4, UnderParent
  <2>2. /\ db[l].level_index = 2 * db[p].level_index
        /\ db[r].level_index = 2 * db[p].level_index + 1
    <3>1. db[p].height > 0
      BY <1>1, <2>1
    <3> QED BY <2>1, <3>1 DEF ForestInv, ParentsMatchChildren
  <2> HIDE DEF p, l, r
  <2>3. \/ db[n].level_index = 2 * db[p].level_index
        \/ db[n].level_index = 2 * db[p].level_index + 1
    BY <2>1, <2>2
  <2>4. db[p].level_index = db[n].level_index \div 2
    BY <1>1, <2>1, <2>3
  <2> QED BY <2>1, <2>4 DEF p
<1>5. NIL \notin DOMAIN db
  BY <1>1
<1> HIDE DEF Risen
<1> QED BY <1>2, <1>3, <1>4, <1>5

\* Each round is one level above the one before.
LEMMA RoundsClimb ==
  ASSUME ForestInv, NEW n \in DOMAIN db
  PROVE  \A k \in 0 .. Cardinality(DOMAIN db) : \A m \in AncestorRounds(db, {n})[k] :
           m \in DOMAIN db /\ db[m].height = db[n].height + k
<1> DEFINE N == Cardinality(DOMAIN db)
           up == AncestorRounds(db, {n})
           Wrong == {k \in 0 .. N : \E m \in up[k] : ~(m \in DOMAIN db /\ db[m].height = db[n].height + k)}
<1>1. N \in Nat
  BY RowsAreFinite
<1>2. up[0] = {n} /\ \A k \in 1 .. N : up[k] = Risen(db, up[k - 1])
  BY <1>1, RoundsAre
<1>3. \A m \in DOMAIN db : db[m].height \in Nat
  BY DEF ForestInv, TypeOK, Row
<1> HIDE DEF up, N
<1>4. Wrong = {}
  <2> SUFFICES ASSUME Wrong # {} PROVE FALSE
    OBVIOUS
  <2>1. PICK k \in Wrong : \A y \in Wrong : k <= y
    <3>1. Wrong \in SUBSET Nat
      OBVIOUS
    <3> HIDE DEF Wrong
    <3> QED BY <3>1, LeastNat
  <2>2. PICK m \in up[k] : ~(m \in DOMAIN db /\ db[m].height = db[n].height + k)
    BY <2>1
  <2>3. k # 0
    BY <1>2, <1>3, <2>2
  <2>4. k \in 1 .. N /\ k - 1 \in 0 .. N /\ k - 1 \notin Wrong
    BY <1>1, <2>1, <2>3
  <2>5. m \in Risen(db, up[k - 1])
    BY <1>2, <2>2, <2>4
  <2>6. PICK x \in up[k - 1] : m \in DOMAIN db /\ db[m].height = db[x].height + 1
    BY <2>5 DEF Risen, NodesAt, Coordinate, ParentCoordinate
  <2>7. x \in DOMAIN db /\ db[x].height = db[n].height + (k - 1)
    BY <2>4
  <2> QED BY <1>3, <2>2, <2>4, <2>6, <2>7
<1> QED BY <1>4 DEF up, N

\* The search reaches no row in as many rounds as there are rows: the rows it
\* finds are one above the other.
LEMMA RoundsEnd ==
  ASSUME ForestInv, NEW n \in DOMAIN db
  PROVE  AncestorRounds(db, {n})[Cardinality(DOMAIN db)] = {}
<1> DEFINE N == Cardinality(DOMAIN db)
           up == AncestorRounds(db, {n})
           Empty == {j \in 0 .. N : up[N - j] = {}}
<1>1. N \in Nat
  BY RowsAreFinite
<1>2. \A k \in 1 .. N : up[k] = Risen(db, up[k - 1])
  BY <1>1, RoundsAre
<1>3. \A k \in 0 .. N : \A m \in up[k] : m \in DOMAIN db /\ db[m].height = db[n].height + k
  BY RoundsClimb
<1>4. db[n].height \in Nat
  BY DEF ForestInv, TypeOK, Row
<1> HIDE DEF up, N
<1> SUFFICES ASSUME up[N] # {} PROVE FALSE
  BY DEF up, N
<1>5. Empty = {}
  <2> SUFFICES ASSUME Empty # {} PROVE FALSE
    OBVIOUS
  <2>1. PICK j \in Empty : \A y \in Empty : j <= y
    <3>1. Empty \in SUBSET Nat
      OBVIOUS
    <3> HIDE DEF Empty
    <3> QED BY <3>1, LeastNat
  <2>2. j # 0
    BY <1>1, <2>1
  <2>3. /\ j - 1 \in 0 .. N /\ j - 1 \notin Empty /\ up[N - j] = {}
        /\ N - (j - 1) \in 1 .. N /\ N - (j - 1) - 1 = N - j
    BY <1>1, <2>1, <2>2
  <2>4. up[N - (j - 1)] = Risen(db, up[N - j])
    BY <1>2, <2>3
  <2>5. Risen(db, {}) = {}
    BY DEF Risen, NodesAt
  <2> QED BY <2>3, <2>4, <2>5
<1>6. \A k \in 0 .. N : up[k] # {}
  <2> SUFFICES ASSUME NEW k \in 0 .. N PROVE up[k] # {}
    OBVIOUS
  <2>1. N - k \in 0 .. N /\ N - (N - k) = k
    BY <1>1
  <2> QED BY <1>5, <2>1
<1> DEFINE f == [k \in 0 .. N |-> CHOOSE m \in up[k] : TRUE]
<1>7. \A k \in 0 .. N : f[k] \in DOMAIN db /\ db[f[k]].height = db[n].height + k
  BY <1>3, <1>6
<1>8. f \in Injection(0 .. N, DOMAIN db)
  <2>1. f \in [0 .. N -> DOMAIN db]
    BY <1>7
  <2>2. ASSUME NEW j \in 0 .. N, NEW k \in 0 .. N, f[j] = f[k] PROVE j = k
    <3> HIDE DEF f
    <3>1. db[n].height + j = db[n].height + k
      BY <1>7, <2>2
    <3> QED BY <1>1, <1>4, <3>1
  <2> HIDE DEF f
  <2> QED BY <2>1, <2>2 DEF Injection, IsInjective
<1>9. Cardinality(0 .. N) <= Cardinality(DOMAIN db)
  <2> HIDE DEF f
  <2> QED BY <1>8, RowsAreFinite, FS_Injection DEF ExistsInjection
<1>10. Cardinality(0 .. N) = N + 1
  BY <1>1, FS_Interval
<1> QED BY <1>1, <1>9, <1>10 DEF N

LEMMA AncestorsAreFound ==
  ASSUME NEW rows, Cardinality(DOMAIN rows) \in Nat, NEW ids
  PROVE  AncestorNodes(rows, ids) =
           (UNION {AncestorRounds(rows, ids)[k] : k \in 0 .. Cardinality(DOMAIN rows)}) \ ids
<1> DEFINE up == AncestorRounds(rows, ids)
           N  == Cardinality(DOMAIN rows)
           U  == UNION {up[k] : k \in 0 .. N}
           V  == UNION {up[k] : k \in DOMAIN up}
<1>1. AncestorNodes(rows, ids) = V \ ids
  BY DEF AncestorNodes
<1>2. DOMAIN up = 0 .. N
  BY RoundsAre
<1>3. U = V
  <2> HIDE DEF up, N
  <2> QED BY <1>2
<1>4. AncestorNodes(rows, ids) = U \ ids
  <2> HIDE DEF U, V
  <2> QED BY <1>1, <1>3
<1> QED BY <1>4

\* The rows above a row are its parent and the rows above that.
LEMMA AncestorsByLink ==
  ASSUME ForestInv, NEW n \in DOMAIN db
  PROVE  LET p == db[n].parent_id
         IN  AncestorNodes(db, {n}) = IF p = NIL THEN {} ELSE {p} \cup AncestorNodes(db, {p})
<1> DEFINE N == Cardinality(DOMAIN db)
           up == AncestorRounds(db, {n})
           p == db[n].parent_id
<1>1. N \in Nat /\ N >= 1
  <2>1. N # 0
    BY RowsAreFinite, FS_EmptySet
  <2> QED BY <2>1, RowsAreFinite
<1>2. DOMAIN up = 0 .. N /\ up[0] = {n} /\ \A k \in 1 .. N : up[k] = Risen(db, up[k - 1])
  BY <1>1, RoundsAre
<1>3. up[1] = IF p = NIL THEN {} ELSE {p}
  <2>1. 1 \in 1 .. N /\ 1 - 1 = 0
    BY <1>1
  <2>2. up[1] = Risen(db, {n})
    <3> HIDE DEF up, N
    <3> QED BY <1>2, <2>1
  <2> QED BY <2>2, ParentIsAbove
<1>4. CASE p = NIL
  <2> DEFINE Wrong == {k \in 1 .. N : up[k] # {}}
             U == UNION {up[k] : k \in 0 .. N}
  <2> HIDE DEF up, N, p
  <2>1. Wrong = {}
    <3> SUFFICES ASSUME Wrong # {} PROVE FALSE
      OBVIOUS
    <3>1. PICK k \in Wrong : \A y \in Wrong : k <= y
      <4>1. Wrong \in SUBSET Nat
        OBVIOUS
      <4> HIDE DEF Wrong
      <4> QED BY <4>1, LeastNat
    <3>2. k # 1
      BY <1>3, <1>4, <3>1
    <3>3. k - 1 \in 1 .. N /\ k - 1 \notin Wrong /\ up[k] # {} /\ k \in 1 .. N
      BY <1>1, <3>1, <3>2
    <3>4. up[k] = Risen(db, {})
      BY <1>2, <3>3
    <3> QED BY <3>3, <3>4 DEF Risen, NodesAt
  <2>2. U = {n}
    <3>1. \A k \in 0 .. N : k = 0 \/ k \in 1 .. N
      BY <1>1
    <3>2. 0 \in 0 .. N
      BY <1>1
    <3> QED BY <1>2, <2>1, <3>1, <3>2
  <2>3. AncestorNodes(db, {n}) = U \ {n}
    BY <1>1, AncestorsAreFound DEF up, N
  <2>4. AncestorNodes(db, {n}) = {}
    <3> HIDE DEF U
    <3> QED BY <2>2, <2>3
  <2> QED BY <1>4, <2>4 DEF p
<1>5. CASE p # NIL
  <2> DEFINE over == AncestorRounds(db, {p})
             Wrong == {k \in 1 .. N : up[k] # over[k - 1]}
             U == UNION {up[k] : k \in 0 .. N}
             A == UNION {over[k] : k \in 0 .. N}
  <2>1. p \in DOMAIN db /\ db[p].height = db[n].height + 1
    BY <1>5, UnderParent
  <2>2. DOMAIN over = 0 .. N /\ over[0] = {p} /\ \A k \in 1 .. N : over[k] = Risen(db, over[k - 1])
    BY <1>1, <2>1, RoundsAre
  <2>3. over[N] = {}
    BY <2>1, RoundsEnd
  <2>4. \A k \in 0 .. N : n \notin over[k]
    <3> SUFFICES ASSUME NEW k \in 0 .. N, n \in over[k] PROVE FALSE
      OBVIOUS
    <3>1. db[n].height = db[p].height + k
      BY <2>1, RoundsClimb
    <3>2. db[n].height \in Nat
      BY DEF ForestInv, TypeOK, Row
    <3> QED BY <1>1, <2>1, <3>1, <3>2
  <2>5. AncestorNodes(db, {n}) = U \ {n}
    BY <1>1, AncestorsAreFound
  <2>6. AncestorNodes(db, {p}) = A \ {p}
    BY <1>1, AncestorsAreFound
  <2> HIDE DEF up, N, p, over
  <2>7. Wrong = {}
    <3> SUFFICES ASSUME Wrong # {} PROVE FALSE
      OBVIOUS
    <3>1. PICK k \in Wrong : \A y \in Wrong : k <= y
      <4>1. Wrong \in SUBSET Nat
        OBVIOUS
      <4> HIDE DEF Wrong
      <4> QED BY <4>1, LeastNat
    <3>2. k # 1
      <4>1. 1 - 1 = 0 /\ up[k] # over[k - 1]
        BY <3>1
      <4> QED BY <1>3, <1>5, <2>2, <4>1
    <3>3. k - 1 \in 1 .. N /\ k - 1 \notin Wrong /\ up[k] # over[k - 1] /\ k \in 1 .. N
      BY <1>1, <3>1, <3>2
    <3>4. up[k - 1] = over[(k - 1) - 1]
      BY <3>3
    <3> QED BY <1>2, <2>2, <3>3, <3>4
  <2>8. U = {n} \cup A
    <3>1. \A k \in 0 .. N : k # 0 => k - 1 \in 0 .. N /\ up[k] = over[k - 1]
      BY <1>1, <2>7
    <3>2. \A k \in 0 .. N : k # N => k + 1 \in 0 .. N /\ up[k + 1] = over[k]
      <4> SUFFICES ASSUME NEW k \in 0 .. N, k # N PROVE k + 1 \in 0 .. N /\ up[k + 1] = over[k]
        OBVIOUS
      <4>1. k + 1 \in 1 .. N /\ (k + 1) - 1 = k
        BY <1>1
      <4> QED BY <2>7, <4>1
    <3>3. 0 \in 0 .. N
      BY <1>1
    <3> QED BY <1>2, <2>3, <3>1, <3>2, <3>3
  <2>9. p \in A
    BY <1>1, <2>2
  <2>10. n \notin A
    BY <2>4
  <2> HIDE DEF A, U
  <2>11. AncestorNodes(db, {n}) = {p} \cup AncestorNodes(db, {p})
    BY <2>5, <2>6, <2>8, <2>9, <2>10
  <2> QED BY <1>5, <2>11 DEF p
<1> QED BY <1>4, <1>5

\* What stands at a coordinate is one row, or none where NodeAt finds none.
LEMMA NodesAtOne ==
  ASSUME ForestInv, NEW h, NEW i
  PROVE  NodesAt(db, {<<h, i>>}) = IF NodeAt(db, h, i) = NIL THEN {} ELSE {NodeAt(db, h, i)}
<1> DEFINE a == NodeAt(db, h, i)
<1>1. NIL \notin DOMAIN db
  BY DEF ForestInv, TypeOK, NodeId, NIL
<1>2. IF a \in DOMAIN db THEN db[a].height = h /\ db[a].level_index = i
      ELSE a = NIL /\ \A m \in DOMAIN db : ~(db[m].height = h /\ db[m].level_index = i)
  BY <1>1, NodeAtFinds
<1>3. \A m, n \in DOMAIN db :
        db[m].height = db[n].height /\ db[m].level_index = db[n].level_index => m = n
  BY DEF ForestInv, OneRowPerCoordinate, SameCoordinate
<1>4. NodesAt(db, {<<h, i>>}) = {m \in DOMAIN db : db[m].height = h /\ db[m].level_index = i}
  BY DEF NodesAt, Coordinate
<1> HIDE DEF a
<1>5. NodesAt(db, {<<h, i>>}) = IF a = NIL THEN {} ELSE {a}
  BY <1>1, <1>2, <1>3, <1>4
<1> QED BY <1>5 DEF a

\* The neighbour at a coordinate is the one that is linked.
LEMMA NeighborsByLink ==
  ASSUME ForestInv, NEW n \in DOMAIN db
  PROVE  /\ NeighborNode(db, n, 1) = db[n].following_neighbor_id
         /\ NeighborNode(db, n, -1) = db[n].preceding_neighbor_id
<1>1. /\ NIL \notin DOMAIN db /\ db[n].level_index \in Nat
      /\ \A m \in DOMAIN db : db[m].level_index \in Nat
  BY DEF ForestInv, TypeOK, NodeId, NIL, Row
<1>2. /\ db[n].following_neighbor_id = NodeAt(db, db[n].height, db[n].level_index + 1)
      /\ db[n].preceding_neighbor_id =
            IF db[n].level_index = 0 THEN NIL ELSE NodeAt(db, db[n].height, db[n].level_index - 1)
  BY DEF ForestInv, NeighborsMatchCoordinates
<1>3. NeighborNode(db, n, 1) = db[n].following_neighbor_id
  <2> DEFINE a == NodeAt(db, db[n].height, db[n].level_index + 1)
             there == NodesAt(db, {<<db[n].height, db[n].level_index + 1>>})
  <2>1. there = IF a = NIL THEN {} ELSE {a}
    BY NodesAtOne
  <2>2. NeighborNode(db, n, 1) = IF there # {} THEN CHOOSE m \in there : TRUE
                                 ELSE Named(db, db[n].following_neighbor_id)
    BY DEF NeighborNode
  <2> HIDE DEF a, there
  <2>3. db[n].following_neighbor_id = a
    BY <1>2 DEF a
  <2> QED BY <1>1, <2>1, <2>2, <2>3 DEF Named
<1>4. NeighborNode(db, n, -1) = db[n].preceding_neighbor_id
  <2> DEFINE i == db[n].level_index + -1
             a == NodeAt(db, db[n].height, i)
             there == NodesAt(db, {<<db[n].height, i>>})
  <2>1. there = IF a = NIL THEN {} ELSE {a}
    BY NodesAtOne
  <2>2. NeighborNode(db, n, -1) = IF there # {} THEN CHOOSE m \in there : TRUE
                                  ELSE Named(db, db[n].preceding_neighbor_id)
    BY DEF NeighborNode
  <2>3. db[n].level_index # 0 => i = db[n].level_index - 1
    BY <1>1
  <2>4. db[n].level_index = 0 => there = {}
    <3>1. db[n].level_index = 0 => i \notin Nat
      BY <1>1
    <3> HIDE DEF i
    <3> QED BY <1>1, <3>1 DEF NodesAt, Coordinate
  <2> HIDE DEF i, there
  <2>5. db[n].preceding_neighbor_id = IF db[n].level_index = 0 THEN NIL ELSE a
    BY <1>2, <2>3
  <2> HIDE DEF a
  <2> QED BY <1>1, <2>1, <2>2, <2>4, <2>5 DEF Named
<1> QED BY <1>3, <1>4

\* The sibling at a coordinate is the parent's other child.
LEMMA SiblingsByLink ==
  ASSUME ForestInv, NEW n \in DOMAIN db
  PROVE  LET p == db[n].parent_id
         IN  SiblingNode(db, n) =
                  IF p = NIL THEN NodeAt(db, SiblingCoordinate(db, n)[1], SiblingCoordinate(db, n)[2])
                  ELSE OtherChild(db, p, n)
<1> DEFINE p == db[n].parent_id
           h == SiblingCoordinate(db, n)[1]
           i == SiblingCoordinate(db, n)[2]
           a == NodeAt(db, h, i)
           there == NodesAt(db, {SiblingCoordinate(db, n)}) \ {n}
<1>1. /\ NIL \notin DOMAIN db
      /\ \A m \in DOMAIN db : db[m].height \in Nat /\ db[m].level_index \in Nat
  BY DEF ForestInv, TypeOK, NodeId, NIL, Row
<1>2. /\ SiblingCoordinate(db, n) = <<h, i>> /\ h = db[n].height /\ i # db[n].level_index
      /\ db[n].level_index % 2 = 0 => i = db[n].level_index + 1
      /\ db[n].level_index % 2 # 0 => i = db[n].level_index - 1
  BY <1>1 DEF SiblingCoordinate
<1>3. IF a \in DOMAIN db THEN db[a].height = h /\ db[a].level_index = i ELSE a = NIL
  BY <1>1, NodeAtFinds
<1>4. there = IF a = NIL THEN {} ELSE {a}
  <2>1. NodesAt(db, {SiblingCoordinate(db, n)}) = IF a = NIL THEN {} ELSE {a}
    BY <1>2, NodesAtOne
  <2> HIDE DEF a, h, i
  <2>2. a # n
    BY <1>2, <1>3
  <2> QED BY <2>1, <2>2
<1>5. SiblingNode(db, n) = IF there # {} THEN CHOOSE m \in there : TRUE
                           ELSE IF p \in DOMAIN db THEN Named(db, OtherChild(db, p, n)) ELSE NIL
  BY DEF SiblingNode
<1> HIDE DEF p, h, i, a, there
<1>6. CASE p = NIL
  <2>1. SiblingNode(db, n) = a
    BY <1>1, <1>4, <1>5, <1>6
  <2> QED BY <1>6, <2>1 DEF p, a, h, i
<1>7. CASE p # NIL
  <2> DEFINE l == db[p].left_child_id
             r == db[p].right_child_id
             o == OtherChild(db, p, n)
  <2>1. p \in DOMAIN db /\ (n = l \/ n = r) /\ db[p].height = db[n].height + 1
    BY <1>7, UnderParent DEF p
  <2>2. /\ l \in DOMAIN db /\ r \in DOMAIN db
        /\ db[l].height = db[p].height - 1 /\ db[r].height = db[p].height - 1
        /\ db[l].level_index = 2 * db[p].level_index
        /\ db[r].level_index = 2 * db[p].level_index + 1
    <3>1. db[p].height > 0
      BY <1>1, <2>1
    <3> QED BY <2>1, <3>1 DEF ForestInv, ParentsMatchChildren
  <2> HIDE DEF l, r
  <2>3. o = IF n = l THEN r ELSE l
    BY <2>1 DEF OtherChild, l, r
  <2> HIDE DEF o
  <2>4. o \in DOMAIN db /\ db[o].height = h
    BY <1>1, <1>2, <2>1, <2>2, <2>3
  <2>5. db[o].level_index = i
    <3>1. CASE n = l
      <4>1. db[n].level_index % 2 = 0
        BY <1>1, <2>1, <2>2, <3>1
      <4> QED BY <1>2, <2>2, <2>3, <3>1, <4>1
    <3>2. CASE n # l
      <4>1. db[n].level_index % 2 # 0 /\ n = r
        BY <1>1, <2>1, <2>2, <3>2
      <4> QED BY <1>1, <1>2, <2>1, <2>2, <2>3, <3>2, <4>1
    <3> QED BY <3>1, <3>2
  <2>6. a = o
    <3>1. NodeAt(db, h, i) = o
      BY <2>4, <2>5, NodeAtIs DEF ForestInv, OneRowPerCoordinate, SameCoordinate
    <3> QED BY <3>1 DEF a
  <2>7. SiblingNode(db, n) = o
    BY <1>1, <1>4, <1>5, <2>4, <2>6
  <2> QED BY <1>7, <2>7 DEF p, o
<1> QED BY <1>6, <1>7

\* Coordinates and links lead to the same relatives.
LEMMA ForestIsNavigable == ForestInv => NavigationAgrees
<1> SUFFICES ASSUME ForestInv, NEW n \in DOMAIN db, db[n].height > 0,
                    NEW c \in {GetChildren(db, n)[1], GetChildren(db, n)[2]}
             PROVE  db[c].parent_id = n
  BY AncestorsByLink, SiblingsByLink, NeighborsByLink DEF NavigationAgrees
<1>1. /\ db[n].left_child_id \in DOMAIN db /\ db[n].right_child_id \in DOMAIN db
      /\ db[db[n].left_child_id].parent_id = n /\ db[db[n].right_child_id].parent_id = n
  BY DEF ForestInv, ParentsMatchChildren
<1>2. c \in {db[n].left_child_id, db[n].right_child_id}
  BY <1>1 DEF GetChildren, Named
<1> QED BY <1>1, <1>2

\* The document ends where its last leaf ends.
LEMMA DocumentEndsAtLeaf ==
  ASSUME ForestInv, DOMAIN db # {}
  PROVE  /\ SpanEnd(db) = DocumentEnd /\ DocumentEnd \in Nat /\ DocumentEnd > 0
         /\ \A n \in DOMAIN db : db[n].span_end <= DocumentEnd
         /\ \E last \in Leaves(db) : db[last].span_end = DocumentEnd
<1> DEFINE N == Cardinality(Leaves(db))
           ends == {db[n].span_end : n \in DOMAIN db}
<1>1. /\ N \in Nat
      /\ \A n \in Leaves(db) : db[n].level_index \in 0 .. (N - 1)
      /\ \A i \in 0 .. (N - 1) : \E n \in Leaves(db) : db[n].level_index = i
  BY LeavesAreNumbered
<1>2. \A n \in DOMAIN db : /\ db[n].span_start \in Nat /\ db[n].span_end \in Nat
                           /\ db[n].span_start < db[n].span_end
  BY ChildrenOfARow
<1>3. PICK some \in Leaves(db) : TRUE
  BY DEF ForestInv, EndsAtLeaf
<1>4. PICK last \in Leaves(db) : db[last].level_index = N - 1
  <2>1. N - 1 \in 0 .. (N - 1)
    BY <1>1, <1>3
  <2> QED BY <1>1, <2>1
<1>5. last \in DOMAIN db
  BY DEF Leaves
<1>6. ASSUME NEW n \in DOMAIN db PROVE db[n].span_end <= db[last].span_end
  <2>1. PICK m \in Leaves(db) : db[m].span_end = db[n].span_end
    BY DEF ForestInv, EndsAtLeaf
  <2>2. m \in DOMAIN db /\ db[m].level_index \in 0 .. (N - 1)
    BY <1>1 DEF Leaves
  <2>3. db[m].level_index = db[last].level_index \/ db[m].level_index < db[last].level_index
    BY <1>1, <1>4, <2>2
  <2>4. CASE db[m].level_index = db[last].level_index
    <3>1. m = last
      BY <2>4 DEF ForestInv, OneRowPerCoordinate, SameCoordinate, Leaves
    <3> QED BY <1>2, <1>5, <2>1, <3>1
  <2>5. CASE db[m].level_index < db[last].level_index
    <3>1. db[m].span_end <= db[last].span_start
      BY <2>5 DEF ForestInv, LevelsInOrder, Leaves
    <3> QED BY <1>2, <1>5, <2>1, <2>2, <3>1
  <2> QED BY <2>3, <2>4, <2>5
<1>7. Max(ends) = db[last].span_end
  <2>1. db[last].span_end \in ends /\ \A y \in ends : y <= db[last].span_end /\ y \in Nat
    BY <1>2, <1>5, <1>6
  <2> HIDE DEF ends
  <2>2. ASSUME NEW x \in ends, \A y \in ends : y <= x PROVE x = db[last].span_end
    <3>1. x <= db[last].span_end /\ db[last].span_end <= x /\ x \in Nat /\ db[last].span_end \in Nat
      BY <2>1, <2>2
    <3> QED BY <3>1
  <2> QED BY <2>1, <2>2 DEF Max
<1>8. DocumentEnd = Max(ends) /\ SpanEnd(db) = Max(ends)
  <2>1. db # EmptyStore
    BY DEF EmptyStore
  <2> QED BY <2>1 DEF DocumentEnd, SpanEnd
<1>9. DocumentEnd = db[last].span_end /\ SpanEnd(db) = DocumentEnd
  BY <1>7, <1>8
<1> QED BY <1>2, <1>4, <1>5, <1>6, <1>9

\* Two leaves do not share text.
LEMMA LeavesApart ==
  ASSUME ForestInv, NEW a \in Leaves(db), NEW b \in Leaves(db)
  PROVE  a = b \/ db[a].span_end <= db[b].span_start \/ db[b].span_end <= db[a].span_start
<1>1. /\ a \in DOMAIN db /\ b \in DOMAIN db /\ db[a].height = 0 /\ db[b].height = 0
      /\ db[a].level_index \in Nat /\ db[b].level_index \in Nat
  BY DEF Leaves, ForestInv, TypeOK, Row
<1>2. CASE db[a].level_index = db[b].level_index
  BY <1>1, <1>2 DEF ForestInv, OneRowPerCoordinate, SameCoordinate
<1>3. CASE db[a].level_index < db[b].level_index
  BY <1>1, <1>3 DEF ForestInv, LevelsInOrder
<1>4. CASE db[b].level_index < db[a].level_index
  BY <1>1, <1>4 DEF ForestInv, LevelsInOrder
<1> QED BY <1>1, <1>2, <1>3, <1>4

\* Every position of the text is in one leaf.
LEMMA PositionsAreInLeaves ==
  ASSUME ForestInv, DOMAIN db # {}, NEW x \in Nat, x < DocumentEnd
  PROVE  \E l \in Leaves(db) : LeavesAt(db, x) = {l} /\ db[l].span_start <= x /\ x < db[l].span_end
<1> DEFINE Beyond == {n \in Leaves(db) : x < db[n].span_end}
           indexes == {db[n].level_index : n \in Beyond}
<1>1. \A n \in Leaves(db) :
        /\ n \in DOMAIN db /\ db[n].level_index \in Nat
        /\ db[n].span_start \in Nat /\ db[n].span_end \in Nat /\ db[n].span_start < db[n].span_end
  BY ChildrenOfARow DEF Leaves
<1>2. PICK i \in indexes : \A j \in indexes : i <= j
  <2>1. indexes \in SUBSET Nat
    BY <1>1
  <2>2. indexes # {}
    BY DocumentEndsAtLeaf
  <2> HIDE DEF indexes
  <2> QED BY <2>1, <2>2, LeastNat
<1>3. PICK l \in Leaves(db) : x < db[l].span_end /\ db[l].level_index = i
  BY <1>2
<1>4. db[l].span_start <= x
  <2>1. CASE i = 0
    <3>1. db[l].span_start = 0
      BY <1>3, <2>1 DEF ForestInv, LeavesTile
    <3> QED BY <3>1
  <2>2. CASE i # 0
    <3>1. PICK m \in Leaves(db) : db[m].level_index = i - 1 /\ db[m].span_end = db[l].span_start
      BY <1>3, <2>2 DEF ForestInv, LeavesTile
    <3>2. db[m].level_index \notin indexes
      <4>1. i \in Nat /\ \A j \in indexes : i <= j
        BY <1>1, <1>2, <1>3
      <4> HIDE DEF indexes
      <4> QED BY <3>1, <4>1
    <3>3. ~(x < db[m].span_end)
      BY <3>2
    <3> QED BY <1>1, <3>1, <3>3
  <2> QED BY <2>1, <2>2
<1>5. LeavesAt(db, x) = {l}
  <2>1. ASSUME NEW n \in Leaves(db), db[n].span_start <= x, x < db[n].span_end PROVE n = l
    BY <1>1, <1>3, <1>4, <2>1, LeavesApart
  <2> QED BY <1>3, <1>4, <2>1 DEF LeavesAt
<1> QED BY <1>3, <1>4, <1>5

\* A window comes to the leaves that share text with it.
LEMMA WindowsAreWhole ==
  ASSUME ForestInv, DOMAIN db # {}, NEW from \in Nat, NEW to \in 1 .. DocumentEnd, from < to
  PROVE  \E w : /\ WindowBounds(db, from, to) = {w}
                /\ \A n \in Leaves(db) :
                     (w.start <= db[n].span_start /\ db[n].span_end <= w.end)
                        <=> (from < db[n].span_end /\ db[n].span_start < to)
<1>1. DocumentEnd \in Nat /\ from < DocumentEnd /\ to - 1 \in Nat /\ to - 1 < DocumentEnd
  BY DocumentEndsAtLeaf
<1>2. PICK l \in Leaves(db) : LeavesAt(db, from) = {l} /\ db[l].span_start <= from /\ from < db[l].span_end
  BY <1>1, PositionsAreInLeaves
<1>3. PICK r \in Leaves(db) : /\ LeavesAt(db, to - 1) = {r}
                              /\ db[r].span_start <= to - 1 /\ to - 1 < db[r].span_end
  BY <1>1, PositionsAreInLeaves
<1> DEFINE w == [start |-> db[l].span_start, end |-> db[r].span_end]
<1>4. WindowBounds(db, from, to) = {w}
  BY <1>2, <1>3 DEF WindowBounds
<1>5. \A n \in Leaves(db) : db[n].span_start \in Nat /\ db[n].span_end \in Nat /\ db[n].span_start < db[n].span_end
  BY ChildrenOfARow DEF Leaves
<1>6. ASSUME NEW n \in Leaves(db)
      PROVE  (db[l].span_start <= db[n].span_start /\ db[n].span_end <= db[r].span_end)
                <=> (from < db[n].span_end /\ db[n].span_start < to)
  <2>1. n = l \/ db[n].span_end <= db[l].span_start \/ db[l].span_end <= db[n].span_start
    BY LeavesApart
  <2>2. n = r \/ db[n].span_end <= db[r].span_start \/ db[r].span_end <= db[n].span_start
    BY LeavesApart
  <2> QED BY <1>2, <1>3, <1>5, <2>1, <2>2
<1>7. w.start = db[l].span_start /\ w.end = db[r].span_end
  OBVIOUS
<1> HIDE DEF w
<1> QED BY <1>4, <1>6, <1>7

\* Whichever way a window of characters is asked for.
LEMMA SpansAreAsked ==
  ASSUME ForestInv, DOMAIN db # {}, NEW from \in 0 .. DocumentEnd, NEW to \in 0 .. DocumentEnd,
         from < to, NEW q \in AskedForSpan(from, to)
  PROVE  QueryWindows(db, FALSE, <<>>, <<>>, q) = WindowBounds(db, from, to)
<1>1. SpanEnd(db) = DocumentEnd /\ DocumentEnd \in Nat
  BY DocumentEndsAtLeaf
<1>2. /\ q.since = Unset /\ q.until = Unset /\ q.from = from
      /\ q.to = to \/ (from = 0 /\ to = DocumentEnd /\ q.to = Unset)
  <2> DEFINE Fields == {"text", "seeds", "budget", "verbatim", "from", "to", "since", "until"}
             Asks(x) == /\ DOMAIN x = Fields
                        /\ x.since = Unset /\ x.until = Unset /\ x.from = from /\ x.to = to
             r == [Plain EXCEPT !.seeds = 1, !.budget = 2, !.from = from, !.to = to]
             c == CommandQuery(r)
             m == ClientMessage(c)
             e == ExecuteQuery(m, Unset)
  <2>1. to # 0 /\ to # Unset
    BY <1>1 DEF Unset
  <2>2. Asks(r)
    BY DEF Plain
  <2> HIDE DEF r
  <2>3. Asks(c)
    BY <2>2 DEF CommandQuery
  <2> HIDE DEF c
  <2>4. Asks(m)
    BY <2>1, <2>3 DEF ClientMessage, Given
  <2> HIDE DEF m
  <2>5. Asks(e)
    BY <2>1, <2>4 DEF ExecuteQuery, Given
  <2> HIDE DEF e
  <2>6. Asks(QueryService(r, Unset))
    BY <2>2 DEF QueryService
  <2>7. /\ ContextQuery(to, 2, 1).since = Unset /\ ContextQuery(to, 2, 1).until = Unset
        /\ ContextQuery(to, 2, 1).from = 0 /\ ContextQuery(to, 2, 1).to = to
    BY DEF ContextQuery, Plain
  <2>8. ASSUME NEW x PROVE LET g == Retrieve(x, Unset)
                           IN  g.since = Unset /\ g.until = Unset /\ g.from = 0 /\ g.to = Unset
    BY DEF Retrieve, Plain
  <2>9. \/ q = e \/ q = QueryService(r, Unset)
        \/ from = 0 /\ q = ContextQuery(to, 2, 1)
        \/ from = 0 /\ to = DocumentEnd /\ q = Retrieve(ClientMessage(r), Unset)
    BY DEF AskedForSpan, r, c, m, e
  <2> QED BY <2>5, <2>6, <2>7, <2>8, <2>9
<1>3. QueryWindows(db, FALSE, <<>>, <<>>, q) = SpanWindows(db, q.from, q.to)
  BY <1>2 DEF QueryWindows
<1>4. CASE q.to = to
  <2>1. to # Unset
    BY <1>1 DEF Unset
  <2>2. SpanWindows(db, from, to) = WindowBounds(db, from, to)
    <3>1. CASE from = 0 /\ to >= DocumentEnd
      <4>1. to = DocumentEnd
        BY <1>1, <3>1
      <4> QED BY <1>1, <2>1, <3>1, <4>1 DEF SpanWindows
    <3>2. CASE ~(from = 0 /\ to >= DocumentEnd)
      <4>1. ~(from >= to \/ from >= DocumentEnd)
        BY <1>1
      <4> QED BY <1>1, <2>1, <3>2, <4>1 DEF SpanWindows
    <3> QED BY <3>1, <3>2
  <2> QED BY <1>2, <1>3, <1>4, <2>2
<1>5. CASE from = 0 /\ to = DocumentEnd /\ q.to = Unset
  <2>1. SpanWindows(db, 0, Unset) = WindowBounds(db, 0, DocumentEnd)
    BY <1>1 DEF SpanWindows
  <2> QED BY <1>2, <1>3, <1>5, <2>1
<1> QED BY <1>2, <1>4, <1>5

\* The rows that are drawn for a window: each one once that reaches into it.
LEMMA DrawnReachIn ==
  ASSUME ForestInv, NEW from \in Nat, NEW to \in Nat, from < to
  PROVE  LET drawn == Overlapping(db, from, to, born, 1)
         IN  drawn.total = Cardinality({n \in DOMAIN db \ Leaves(db) :
                                \E i \in from .. (to - 1) : db[n].span_start <= i
                                                            /\ i < db[n].span_end})
<1> DEFINE hits == {n \in DOMAIN db : /\ db[n].span_start < to /\ db[n].span_end > from
                                      /\ db[n].height >= 1}
           reach == {n \in DOMAIN db \ Leaves(db) :
                       \E i \in from .. (to - 1) : db[n].span_start <= i /\ i < db[n].span_end}
<1>1. \A n \in DOMAIN db : /\ db[n].height \in Nat
                           /\ db[n].span_start \in Nat /\ db[n].span_end \in Nat
                           /\ db[n].span_start < db[n].span_end
  BY ChildrenOfARow
<1>2. \A n \in DOMAIN db : n \in hits <=> n \in reach
  <2> SUFFICES ASSUME NEW n \in DOMAIN db PROVE n \in hits <=> n \in reach
    OBVIOUS
  <2>1. db[n].height >= 1 <=> n \notin Leaves(db)
    BY <1>1 DEF Leaves
  <2>2. ASSUME n \in hits PROVE n \in reach
    <3> DEFINE i == IF db[n].span_start < from THEN from ELSE db[n].span_start
    <3>1. i \in from .. (to - 1) /\ db[n].span_start <= i /\ i < db[n].span_end
      BY <1>1, <2>2
    <3> QED BY <2>1, <2>2, <3>1
  <2>3. ASSUME n \in reach PROVE n \in hits
    BY <1>1, <2>1, <2>3
  <2> QED BY <2>2, <2>3
<1>3. hits = reach
  <2>1. hits \subseteq DOMAIN db /\ reach \subseteq DOMAIN db
    OBVIOUS
  <2> HIDE DEF hits, reach
  <2> QED BY <1>2, <2>1
<1>4. Overlapping(db, from, to, born, 1).total = Cardinality(hits)
  BY DEF Overlapping
<1> QED BY <1>3, <1>4

\* The first row of every level starts the text.
LEMMA FirstOfALevel ==
  ASSUME ForestInv, NEW n \in DOMAIN db, db[n].level_index = 0
  PROVE  db[n].span_start = 0
<1> DEFINE Late == {m \in DOMAIN db : db[m].level_index = 0 /\ db[m].span_start # 0}
           heights == {db[m].height : m \in Late}
<1>1. \A m \in DOMAIN db : db[m].height \in Nat /\ db[m].level_index \in Nat
  BY ChildrenOfARow
<1> SUFFICES ASSUME n \in Late PROVE FALSE
  OBVIOUS
<1>2. PICK h \in heights : \A y \in heights : h <= y
  <2>1. heights \in SUBSET Nat /\ heights # {}
    BY <1>1
  <2> HIDE DEF heights
  <2> QED BY <2>1, LeastNat
<1>3. PICK m \in Late : db[m].height = h
  BY <1>2
<1>4. CASE h = 0
  BY <1>3, <1>4 DEF ForestInv, LeavesTile, Leaves
<1>5. CASE h # 0
  <2> DEFINE l == db[m].left_child_id
  <2>1. /\ l \in DOMAIN db /\ db[l].height = h - 1 /\ db[l].level_index = 2 * db[m].level_index
        /\ db[m].span_start = db[l].span_start
    BY <1>1, <1>3, <1>5 DEF ForestInv, ParentsMatchChildren
  <2> HIDE DEF l
  <2>2. l \in Late
    BY <1>3, <2>1
  <2>3. h \in Nat /\ h <= h - 1
    <3>1. db[l].height \in heights
      BY <2>2
    <3>2. h <= db[l].height
      BY <1>2, <3>1
    <3> QED BY <1>1, <1>3, <2>1, <3>2
  <2> QED BY <2>3
<1> QED BY <1>4, <1>5

\* Before the completion frontier there is only the first root.
LEMMA FrontierIsFirst ==
  ASSUME ForestInv, NEW f \in CompletionFrontiers(db), NEW r \in Roots(db)
  PROVE  db[r].span_start = 0 \/ f <= db[r].span_start
<1>1. PICK a \in Roots(db) : f = db[a].span_end /\ \A x \in Roots(db) : db[a].span_start <= db[x].span_start
  BY DEF CompletionFrontiers, RootNodes
<1>2. \A x \in Roots(db) : /\ db[x].span_start \in Nat /\ db[x].span_end \in Nat
                           /\ db[x].span_start < db[x].span_end
  BY ChildrenOfARow DEF Roots
<1>3. db[a].span_start = 0
  <2> SUFFICES ASSUME db[a].span_start # 0 PROVE FALSE
    OBVIOUS
  <2>1. PICK x \in Roots(db) : db[x].span_end = db[a].span_start
    BY RootsMeet
  <2> QED BY <1>1, <1>2, <2>1
<1>4. r = a \/ db[r].span_end <= db[a].span_start \/ db[a].span_end <= db[r].span_start
  BY RootsShareNothing
<1> QED BY <1>1, <1>2, <1>3, <1>4

\* The left children that are ready are the left nodes of the pairs that wait,
\* but for the two cases at the end of a run of rows.
LEMMA ReadyAreWaiting ==
  ASSUME ForestInv, DOMAIN db # {}
  PROVE  LET waiting == {p[1] : p \in {p \in Roots(db) \X Roots(db) : IsEligiblePair(db, p[1], p[2])}}
         IN  /\ \A n \in waiting \ ReadyLeftChildren(db) :
                   db[n].level_index > 0 /\ NodeAt(db, db[n].height, db[n].level_index - 1) = NIL
             /\ \A n \in ReadyLeftChildren(db) \ waiting :
                   SiblingNode(db, n) = NIL /\ db[n].span_end = DocumentEnd
<1> DEFINE waiting == {p[1] : p \in {p \in Roots(db) \X Roots(db) : IsEligiblePair(db, p[1], p[2])}}
           ready == ReadyLeftChildren(db)
<1>0. /\ NIL \notin DOMAIN db /\ SpanEnd(db) = DocumentEnd /\ DocumentEnd \in Nat
      /\ \A n \in DOMAIN db : db[n].span_end <= DocumentEnd
  BY DocumentEndsAtLeaf DEF ForestInv, TypeOK, NodeId, NIL
<1>1. \A n \in DOMAIN db : /\ db[n].height \in Nat /\ db[n].level_index \in Nat
                           /\ db[n].span_start \in Nat /\ db[n].span_end \in Nat
                           /\ db[n].span_start < db[n].span_end
  BY ChildrenOfARow
<1>2. \A n : n \in waiting <=> n \in Roots(db) /\ \E s \in Roots(db) : IsEligiblePair(db, n, s)
  <2>1. ASSUME NEW n \in Roots(db), NEW s \in Roots(db), IsEligiblePair(db, n, s) PROVE n \in waiting
    <3>1. <<n, s>> \in {p \in Roots(db) \X Roots(db) : IsEligiblePair(db, p[1], p[2])}
      BY <2>1
    <3> QED BY <3>1
  <2> QED BY <2>1
<1>3. \A n \in Roots(db) : n \in DOMAIN db /\ db[n].parent_id = NIL
  BY DEF Roots
<1>4. \A n : n \in ready <=>
        /\ n \in Roots(db) /\ db[n].level_index % 2 = 0
        /\ db[n].span_start > 0 \/ db[n].span_end < DocumentEnd
        /\ db[n].span_start = 0 \/ db[n].preceding_neighbor_id # NIL
        /\ db[n].span_end = DocumentEnd \/ db[n].following_neighbor_id # NIL
  BY <1>0 DEF ReadyLeftChildren
<1> HIDE DEF waiting, ready
<1>5. ASSUME NEW n \in waiting, n \notin ready
      PROVE  db[n].level_index > 0 /\ NodeAt(db, db[n].height, db[n].level_index - 1) = NIL
  <2>1. PICK s \in Roots(db) : /\ n \in Roots(db) /\ db[n].height = db[s].height
                               /\ db[n].level_index % 2 = 0
                               /\ db[s].level_index = db[n].level_index + 1
    BY <1>2, <1>5 DEF IsEligiblePair
  <2>2. db[n].following_neighbor_id = s
    BY <1>3, <2>1, LinkedRows
  <2>3. db[n].span_end = db[s].span_start
    BY <1>3, <2>1 DEF ForestInv, SiblingsMeet
  <2>4. db[n].span_end < DocumentEnd
    <3>1. db[s].span_start < db[s].span_end /\ db[s].span_end <= DocumentEnd
      BY <1>0, <1>1, <1>3
    <3> QED BY <1>0, <1>1, <1>3, <2>1, <2>3, <3>1
  <2>5. s # NIL
    BY <1>0, <1>3
  <2>6. db[n].span_start # 0 /\ db[n].preceding_neighbor_id = NIL
    BY <1>4, <1>5, <2>1, <2>2, <2>4, <2>5
  <2>7. db[n].level_index # 0
    <3>1. db[n].level_index = 0 => db[n].span_start = 0
      BY <1>3, <2>1, FirstOfALevel
    <3> QED BY <2>6, <3>1
  <2>8. db[n].preceding_neighbor_id = NodeAt(db, db[n].height, db[n].level_index - 1)
    BY <1>3, <2>1, <2>7 DEF ForestInv, NeighborsMatchCoordinates
  <2> QED BY <1>1, <1>3, <2>1, <2>6, <2>7, <2>8
<1>6. ASSUME NEW n \in ready, n \notin waiting
      PROVE  SiblingNode(db, n) = NIL /\ db[n].span_end = DocumentEnd
  <2> DEFINE s == NodeAt(db, db[n].height, db[n].level_index + 1)
  <2>1. n \in Roots(db) /\ n \in DOMAIN db /\ db[n].parent_id = NIL /\ db[n].level_index % 2 = 0
    BY <1>3, <1>4, <1>6
  <2>2. SiblingNode(db, n) = s
    BY <2>1, SiblingsByLink DEF SiblingCoordinate
  <2>3. s = NIL
    <3> SUFFICES ASSUME s # NIL PROVE FALSE
      OBVIOUS
    <3>1. s \in DOMAIN db /\ db[s].height = db[n].height /\ db[s].level_index = db[n].level_index + 1
      BY <1>0, NodeAtFinds
    <3> HIDE DEF s
    <3>2. db[s].parent_id = NIL
      <4> SUFFICES ASSUME db[s].parent_id # NIL PROVE FALSE
        OBVIOUS
      <4> DEFINE p == db[s].parent_id
                 l == db[p].left_child_id
                 r == db[p].right_child_id
      <4>1. p \in DOMAIN db /\ (s = l \/ s = r) /\ db[p].height > 0
        BY <1>1, <3>1, UnderParent
      <4>2. /\ l \in DOMAIN db /\ db[l].parent_id = p
            /\ db[l].height = db[p].height - 1 /\ db[r].height = db[p].height - 1
            /\ db[l].level_index = 2 * db[p].level_index
            /\ db[r].level_index = 2 * db[p].level_index + 1
        BY <4>1 DEF ForestInv, ParentsMatchChildren
      <4> HIDE DEF p, l, r
      <4>3. s = r
        BY <1>1, <2>1, <3>1, <4>1, <4>2
      <4>4. db[l].height = db[n].height /\ db[l].level_index = db[n].level_index
        BY <1>1, <2>1, <3>1, <4>1, <4>2, <4>3
      <4>5. l = n
        BY <2>1, <4>2, <4>4 DEF ForestInv, OneRowPerCoordinate, SameCoordinate
      <4> QED BY <1>0, <2>1, <4>1, <4>2, <4>5
    <3>3. s \in Roots(db) /\ IsEligiblePair(db, n, s)
      BY <2>1, <3>1, <3>2 DEF Roots, IsEligiblePair
    <3> QED BY <1>2, <1>6, <2>1, <3>3
  <2>4. db[n].following_neighbor_id = s
    BY <2>1 DEF ForestInv, NeighborsMatchCoordinates
  <2> QED BY <1>4, <1>6, <2>2, <2>3, <2>4
<1> QED BY <1>5, <1>6 DEF waiting, ready

\* Windows, drawings, the frontier and the ready children are answered exactly.
LEMMA ForestIsQueried == ForestInv => SpanQueriesAgree
<1> SUFFICES ASSUME ForestInv, db # EmptyStore PROVE SpanQueriesAgree
  BY DEF SpanQueriesAgree
<1>1. DOMAIN db # {}
  <2>1. db = [n \in DOMAIN db |-> db[n]]
    BY DEF ForestInv, TypeOK
  <2> QED BY <2>1 DEF EmptyStore
<1>2. DocumentEnd \in Nat
  BY <1>1, DocumentEndsAtLeaf
<1>3. ASSUME NEW from \in 0 .. DocumentEnd, NEW to \in 0 .. DocumentEnd, from < to,
             NEW q \in AskedForSpan(from, to)
      PROVE  LET windows == QueryWindows(db, FALSE, <<>>, <<>>, q)
             IN  \E w \in windows : windows = {w} /\
                   \A n \in Leaves(db) :
                     (w.start <= db[n].span_start /\ db[n].span_end <= w.end)
                        <=> (from < db[n].span_end /\ db[n].span_start < to)
  <2>1. QueryWindows(db, FALSE, <<>>, <<>>, q) = WindowBounds(db, from, to)
    BY <1>1, <1>3, SpansAreAsked
  <2>2. from \in Nat /\ to \in 1 .. DocumentEnd
    BY <1>2, <1>3
  <2>3. PICK w : /\ WindowBounds(db, from, to) = {w}
                 /\ \A n \in Leaves(db) :
                      (w.start <= db[n].span_start /\ db[n].span_end <= w.end)
                         <=> (from < db[n].span_end /\ db[n].span_start < to)
    BY <1>1, <1>3, <2>2, WindowsAreWhole
  <2> DEFINE windows == QueryWindows(db, FALSE, <<>>, <<>>, q)
  <2>4. windows = {w} /\ w \in windows
    BY <2>1, <2>3
  <2> HIDE DEF windows
  <2>5. \E x \in windows : windows = {x} /\
          \A n \in Leaves(db) :
            (x.start <= db[n].span_start /\ db[n].span_end <= x.end)
               <=> (from < db[n].span_end /\ db[n].span_start < to)
    BY <2>3, <2>4
  <2> QED BY <2>5 DEF windows
<1>4. ASSUME NEW from \in 0 .. DocumentEnd, NEW to \in 0 .. DocumentEnd, from < to
      PROVE  LET drawn == Overlapping(db, from, to, born, 1)
             IN  drawn.total = Cardinality({n \in DOMAIN db \ Leaves(db) :
                                    \E i \in from .. (to - 1) : db[n].span_start <= i
                                                                /\ i < db[n].span_end})
  BY <1>2, <1>4, DrawnReachIn
<1> QED BY <1>1, <1>3, <1>4, FrontierIsFirst, ReadyAreWaiting DEF SpanQueriesAgree

\* In every half-built, truncated or growing document, the relatives of a row
\* are the same by coordinate and by link, and what is asked for a window of
\* characters is answered with the leaves that share text with it.
THEOREM QueriesAreExact ==
  ASSUME OrderlyClients
  PROVE  Spec => []QueriesAgree
<1>1. ForestInv => QueriesAgree
  BY ForestIsNavigable, ForestIsQueried DEF QueriesAgree
<1> QED BY ForestStaysSound, <1>1, PTL

-----------------------------------------------------------------------------
(* What a window of time is answered with *)

\* The least and the greatest of some numbers.
LEMMA MaxIs ==
  ASSUME NEW S \in SUBSET Int, NEW x \in S, \A y \in S : y <= x
  PROVE  Max(S) = x
<1>1. \A z \in S : (\A y \in S : z >= y) => z = x
  OBVIOUS
<1> QED BY <1>1 DEF Max

LEMMA MinIs ==
  ASSUME NEW S \in SUBSET Int, NEW x \in S, \A y \in S : x <= y
  PROVE  Min(S) = x
<1>1. \A z \in S : (\A y \in S : z <= y) => z = x
  OBVIOUS
<1> QED BY <1>1 DEF Min

\* The clock has a first and a last time.
LEMMA ClockHasEnds ==
  /\ Min(Clock) \in Clock /\ Max(Clock) \in Clock /\ Clock \subseteq Nat
  /\ \A t \in Clock : t \in Nat /\ t # Unset /\ Min(Clock) <= t /\ t <= Max(Clock)
<1>1. PICK first \in Clock, last \in Clock : \A t \in Clock : first <= t /\ t <= last
  BY ClockAssumption DEF ClockAssumption
<1>2. Clock \in SUBSET Int /\ Clock \subseteq Nat /\ \A t \in Clock : t \in Nat /\ t # Unset
  BY ClockAssumption DEF ClockAssumption, Unset
<1>3. Min(Clock) = first /\ Max(Clock) = last
  BY <1>1, <1>2, MinIs, MaxIs
<1> QED BY <1>1, <1>2, <1>3

\* What the ways that take a window of time ask for: the ends that are given,
\* or the ends of the clock for those that are not.
LEMMA TimesAreAsked ==
  ASSUME NEW t0 \in Clock \cup {Unset}, NEW t1 \in Clock \cup {Unset},
         NEW q \in AskedForTime(t0, t1)
  PROVE  /\ q.from = 0 /\ q.to = Unset
         /\ q.since = t0 \/ (t0 = Unset /\ q.since = Min(Clock))
         /\ q.until = t1 \/ (t1 = Unset /\ q.until = Max(Clock))
<1> DEFINE Fields == {"text", "seeds", "budget", "verbatim", "from", "to", "since", "until"}
           Plainly(x) == DOMAIN x = Fields /\ x.from = 0 /\ x.to = Unset
           Asks(x) == Plainly(x) /\ x.since = t0 /\ x.until = t1
           r == [Plain EXCEPT !.budget = 2, !.since = t0, !.until = t1]
           c == CommandQuery(r)
           m == ClientMessage(c)
           e == ExecuteQuery(m, Unset)
           a == AgentRecall(2, t0, Unset, 3, Min(Clock), t1)
           b == AgentRecall(3, Min(Clock), t1, 2, t0, Max(Clock))
<1>1. /\ Min(Clock) \in Clock /\ Max(Clock) \in Clock
      /\ \A t \in Clock : t \in Nat /\ t # Unset /\ Min(Clock) <= t /\ t <= Max(Clock)
  BY ClockHasEnds
<1>2. Asks(r)
  BY DEF Plain
<1>3. Asks(QueryService(r, Unset))
  BY <1>2 DEF QueryService
<1>4. Asks(e)
  <2> HIDE DEF r
  <2>1. Asks(c)
    BY <1>2 DEF CommandQuery
  <2> HIDE DEF c
  <2>2. Plainly([m EXCEPT !.to = Unset]) /\ m.to = 0 /\ m.since = t0 /\ m.until = t1 /\ DOMAIN m = Fields
    BY <2>1 DEF ClientMessage, Given, Unset
  <2> HIDE DEF m
  <2> QED BY <2>2 DEF ExecuteQuery, Given, Unset
<1>5. \A budget : Asks(RecallQuery(budget, t0, Unset, Unset, t1))
  BY DEF RecallQuery, Either, Plain
<1>6. \A budget : Asks(RecallQuery(budget, Unset, t1, t0, Unset))
  BY DEF RecallQuery, Either, Plain
<1>7. \A t \in Clock : Max({t, Min(Clock)}) = t /\ Min({t, Max(Clock)}) = t
                       /\ Max({Min(Clock), t}) = t
  <2> SUFFICES ASSUME NEW t \in Clock
               PROVE  Max({t, Min(Clock)}) = t /\ Min({t, Max(Clock)}) = t /\ Max({Min(Clock), t}) = t
    OBVIOUS
  <2>1. {t, Min(Clock)} = {Min(Clock), t}
    OBVIOUS
  <2>2. Max({t, Min(Clock)}) = t
    BY <1>1, MaxIs
  <2>3. Min({t, Max(Clock)}) = t
    BY <1>1, MinIs
  <2> QED BY <2>1, <2>2, <2>3
<1>8. /\ Plainly(a) /\ a.until = t1
      /\ a.since = t0 \/ (t0 = Unset /\ a.since = Min(Clock))
  <2>1. Plainly(a)
    BY DEF AgentRecall, Plain
  <2>2. a.until = t1
    BY DEF AgentRecall, Plain, Either
  <2>3. a.since = IF Unset \in {t0, Min(Clock)} THEN Either(t0, Min(Clock)) ELSE Max({t0, Min(Clock)})
    BY DEF AgentRecall, Plain
  <2> QED BY <1>1, <1>7, <2>1, <2>2, <2>3 DEF Either
<1>9. /\ Plainly(b)
      /\ b.since = t0 \/ (t0 = Unset /\ b.since = Min(Clock))
      /\ b.until = t1 \/ (t1 = Unset /\ b.until = Max(Clock))
  <2>1. Plainly(b)
    BY DEF AgentRecall, Plain
  <2>2. b.since = IF Unset \in {Min(Clock), t0} THEN Either(Min(Clock), t0) ELSE Max({Min(Clock), t0})
    BY DEF AgentRecall, Plain
  <2>3. b.until = IF Unset \in {t1, Max(Clock)} THEN Either(t1, Max(Clock)) ELSE Min({t1, Max(Clock)})
    BY DEF AgentRecall, Plain
  <2>4. b.since = t0 \/ (t0 = Unset /\ b.since = Min(Clock))
    BY <1>1, <1>7, <2>2 DEF Either
  <2>5. b.until = t1 \/ (t1 = Unset /\ b.until = Max(Clock))
    BY <1>1, <1>7, <2>3 DEF Either
  <2> QED BY <2>1, <2>4, <2>5
<1>10. q \in {e, QueryService(r, Unset), RecallQuery(2, t0, Unset, Unset, t1),
              RecallQuery(2, Unset, t1, t0, Unset), a, b}
  BY DEF AskedForTime
<1> HIDE DEF r, e, a, b
<1> QED BY <1>3, <1>4, <1>5, <1>6, <1>8, <1>9, <1>10

\* Some leaves have a first and a last.
LEMMA FirstAndLast ==
  ASSUME ForestInv, NEW X \in SUBSET Leaves(db), X # {}
  PROVE  /\ \E e \in X : \A m \in X : db[e].span_start <= db[m].span_start
         /\ \E b \in X : \A m \in X : db[m].span_end <= db[b].span_end
<1>1. \A n \in Leaves(db) : /\ db[n].span_start \in Nat /\ db[n].span_end \in Nat
                            /\ db[n].span_start < db[n].span_end
  BY ChildrenOfARow DEF Leaves
<1>2. DocumentEnd \in Nat /\ \A n \in X : DocumentEnd - db[n].span_end \in Nat
  <2>1. DOMAIN db # {}
    BY DEF Leaves
  <2>2. DocumentEnd \in Nat /\ \A n \in Leaves(db) : db[n].span_end <= DocumentEnd
    BY <2>1, DocumentEndsAtLeaf DEF Leaves
  <2> QED BY <1>1, <2>2
<1>3. \E e \in X : \A m \in X : db[e].span_start <= db[m].span_start
  <2> DEFINE starts == {db[n].span_start : n \in X}
  <2>1. PICK i \in starts : \A j \in starts : i <= j
    <3>1. starts \in SUBSET Nat /\ starts # {}
      BY <1>1
    <3> HIDE DEF starts
    <3> QED BY <3>1, LeastNat
  <2> QED BY <2>1
<1>4. \E b \in X : \A m \in X : db[m].span_end <= db[b].span_end
  <2> DEFINE left == {DocumentEnd - db[n].span_end : n \in X}
  <2>1. PICK i \in left : \A j \in left : i <= j
    <3>1. left \in SUBSET Nat /\ left # {}
      BY <1>2
    <3> HIDE DEF left
    <3> QED BY <3>1, LeastNat
  <2>2. PICK b \in X : i = DocumentEnd - db[b].span_end
    BY <2>1
  <2>3. ASSUME NEW m \in X PROVE db[m].span_end <= db[b].span_end
    <3>1. DocumentEnd - db[b].span_end <= DocumentEnd - db[m].span_end
      BY <2>1, <2>2
    <3>2. db[m].span_end \in Nat /\ db[b].span_end \in Nat
      BY <1>1
    <3> QED BY <1>2, <3>1, <3>2
  <2> QED BY <2>3
<1> QED BY <1>3, <1>4

\* Of two leaves with different places, the times tell the same order.
LEMMA TimesTellOrder ==
  ASSUME ForestInv, NEW at \in Timed, NEW m \in Leaves(db), NEW n \in Leaves(db)
  PROVE  /\ at[m] \in Nat /\ at[n] \in Nat
         /\ db[m].span_start <= db[n].span_start => at[m] <= at[n] /\ (m = n \/ at[m] < at[n])
         /\ db[m].span_end <= db[n].span_end => at[m] <= at[n] /\ (m = n \/ at[m] < at[n])
<1>1. /\ at \in [Leaves(db) -> Clock] /\ Clock \subseteq Nat
      /\ \A x, y \in Leaves(db) : db[x].span_start < db[y].span_start => at[x] < at[y]
  BY ClockAssumption DEF Timed, ClockAssumption
<1>2. \A x \in Leaves(db) : /\ db[x].span_start \in Nat /\ db[x].span_end \in Nat
                            /\ db[x].span_start < db[x].span_end
  BY ChildrenOfARow DEF Leaves
<1>3. at[m] \in Nat /\ at[n] \in Nat
  BY <1>1
<1>4. m = n \/ db[m].span_end <= db[n].span_start \/ db[n].span_end <= db[m].span_start
  BY LeavesApart
<1>5. CASE m = n
  BY <1>3, <1>5
<1>6. CASE db[m].span_end <= db[n].span_start
  <2>1. at[m] < at[n]
    BY <1>1, <1>2, <1>6
  <2> QED BY <1>3, <2>1
<1>7. CASE db[n].span_end <= db[m].span_start
  BY <1>2, <1>3, <1>7
<1> QED BY <1>4, <1>5, <1>6, <1>7

\* The leaf a window of time begins in, and the one it ends in.
LEMMA LeafOfStart ==
  ASSUME ForestInv, NEW at \in Timed, NEW t \in Int
  PROVE  LET E == {n \in Leaves(db) : at[n] >= t}
         IN  /\ E = {} => LeavesAtStart(db, at, t) = {}
             /\ \A e \in E : (\A m \in E : db[e].span_start <= db[m].span_start) =>
                               LeavesAtStart(db, at, t) = {e}
<1> DEFINE E == {n \in Leaves(db) : at[n] >= t}
<1>1. LeavesAtStart(db, at, t) = {n \in E : \A m \in E : at[n] <= at[m]}
  BY DEF LeavesAtStart
<1>2. ASSUME NEW e \in E, \A m \in E : db[e].span_start <= db[m].span_start
      PROVE  LeavesAtStart(db, at, t) = {e}
  <2>1. \A m \in E : /\ at[m] \in Nat /\ at[e] \in Nat
                     /\ at[e] <= at[m] /\ (e = m \/ at[e] < at[m])
    BY <1>2, TimesTellOrder
  <2> HIDE DEF E
  <2> QED BY <1>1, <1>2, <2>1
<1> QED BY <1>1, <1>2

LEMMA LeafOfEnd ==
  ASSUME ForestInv, NEW at \in Timed, NEW t \in Int
  PROVE  LET B == {n \in Leaves(db) : at[n] <= t}
         IN  /\ B = {} => LeavesAtEnd(db, at, t) = {}
             /\ \A b \in B : (\A m \in B : db[m].span_end <= db[b].span_end) =>
                               LeavesAtEnd(db, at, t) = {b}
<1> DEFINE B == {n \in Leaves(db) : at[n] <= t}
<1>1. LeavesAtEnd(db, at, t) = {n \in B : \A m \in B : at[m] <= at[n]}
  BY DEF LeavesAtEnd
<1>2. ASSUME NEW b \in B, \A m \in B : db[m].span_end <= db[b].span_end
      PROVE  LeavesAtEnd(db, at, t) = {b}
  <2>1. \A m \in B : /\ at[m] \in Nat /\ at[b] \in Nat
                     /\ at[m] <= at[b] /\ (b = m \/ at[m] < at[b])
    BY <1>2, TimesTellOrder
  <2> HIDE DEF B
  <2> QED BY <1>1, <1>2, <2>1
<1> QED BY <1>1, <1>2

\* From the start of a leaf to the end of another.
LEMMA SpanOfLeaves ==
  ASSUME ForestInv, NEW e \in Leaves(db), NEW b \in Leaves(db)
  PROVE  /\ SpanWindows(db, db[e].span_start, db[b].span_end) =
              IF db[e].span_start < db[b].span_end
              THEN {[start |-> db[e].span_start, end |-> db[b].span_end]} ELSE {}
         /\ db[b].span_end = DocumentEnd =>
              SpanWindows(db, db[e].span_start, Unset) =
                {[start |-> db[e].span_start, end |-> db[b].span_end]}
<1> DEFINE from == db[e].span_start
           to   == db[b].span_end
           w    == [start |-> from, end |-> to]
<1>1. \A n \in Leaves(db) : /\ db[n].span_start \in Nat /\ db[n].span_end \in Nat
                            /\ db[n].span_start < db[n].span_end
  BY ChildrenOfARow DEF Leaves
<1>2. DOMAIN db # {}
  BY DEF Leaves
<1>3. /\ SpanEnd(db) = DocumentEnd /\ DocumentEnd \in Nat
      /\ \A n \in Leaves(db) : db[n].span_end <= DocumentEnd
  BY <1>2, DocumentEndsAtLeaf DEF Leaves
<1>4. ASSUME NEW n \in Leaves(db), NEW x \in Nat, db[n].span_start <= x, x < db[n].span_end
      PROVE  LeavesAt(db, x) = {n}
  <2>1. ASSUME NEW m \in Leaves(db), db[m].span_start <= x, x < db[m].span_end PROVE m = n
    BY <1>1, <1>4, <2>1, LeavesApart
  <2> QED BY <1>4, <2>1 DEF LeavesAt
<1>5. LeavesAt(db, from) = {e} /\ LeavesAt(db, to - 1) = {b}
  <2>1. from \in Nat /\ from < db[e].span_end
    BY <1>1
  <2>2. to - 1 \in Nat /\ db[b].span_start <= to - 1 /\ to - 1 < to
    BY <1>1
  <2> QED BY <1>4, <2>1, <2>2
<1>6. from \in Nat /\ to \in Nat /\ to <= DocumentEnd /\ from < DocumentEnd /\ to > 0
  BY <1>1, <1>3
<1>7. from < to => WindowBounds(db, from, to) = {w}
  BY <1>5 DEF WindowBounds
<1> HIDE DEF from, to, w
<1>8. \A past \in {to, Unset} : (past = to \/ to = DocumentEnd) =>
        SpanWindows(db, from, past) = IF from < to THEN {w} ELSE {}
  <2> SUFFICES ASSUME NEW past \in {to, Unset}, past = to \/ to = DocumentEnd
               PROVE  SpanWindows(db, from, past) = IF from < to THEN {w} ELSE {}
    OBVIOUS
  <2>1. to # Unset
    BY <1>6 DEF Unset
  <2>2. SpanWindows(db, from, past) =
          IF from = 0 /\ to >= DocumentEnd THEN WindowBounds(db, 0, DocumentEnd)
          ELSE IF from >= to \/ from >= DocumentEnd THEN {} ELSE WindowBounds(db, from, to)
    BY <1>2, <1>3, <2>1 DEF SpanWindows
  <2>3. CASE from = 0 /\ to >= DocumentEnd
    <3>1. to = DocumentEnd /\ from < to
      BY <1>3, <1>6, <2>3
    <3> QED BY <1>7, <2>2, <2>3, <3>1
  <2>4. CASE ~(from = 0 /\ to >= DocumentEnd)
    BY <1>3, <1>6, <1>7, <2>2, <2>4
  <2> QED BY <2>3, <2>4
<1>9. to = DocumentEnd => from < to
  BY <1>6
<1> QED BY <1>8, <1>9 DEF from, to, w

\* The leaves a window of time begins after, those it ends before, those it
\* overlaps, and the ends that are asked for, as TimeWindows gets them.
EndedAfter(ends, t) == {n \in Leaves(db) : ends[n] >= t}

BegunBefore(begins, t) == {n \in Leaves(db) : begins[n] <= t}

Overlapped(begins, ends, t0, last) ==
  {n \in Leaves(db) : t0 <= ends[n] /\ begins[n] <= last}

LastAsked(t1) == IF t1 = Unset THEN Max(Clock) ELSE t1

Starts(ends, since) ==
  IF since = Unset THEN {0} ELSE {db[n].span_start : n \in LeavesAtStart(db, ends, since)}

Stops(begins, until) ==
  IF until = Unset THEN {Unset} ELSE {db[n].span_end : n \in LeavesAtEnd(db, begins, until)}

FirstPlace(leaves) == Min({db[n].span_start : n \in leaves})

LastPlace(leaves) == Max({db[n].span_end : n \in leaves})

\* What a way that takes a window of time asks for, given its ends.
SinceAsked(since, t0) ==
  /\ t0 \in Clock \cup {Unset} /\ since \in Clock \cup {Unset}
  /\ since = t0 \/ (t0 = Unset /\ since = Min(Clock))

UntilAsked(until, t1) ==
  /\ t1 \in Clock \cup {Unset} /\ until \in Clock \cup {Unset}
  /\ until = t1 \/ (t1 = Unset /\ until = Max(Clock))

\* The leaf a window of time begins with, and the one it ends with.
IsFirst(e, ends, t) ==
  e \in EndedAfter(ends, t)
  /\ \A m \in EndedAfter(ends, t) : db[e].span_start <= db[m].span_start

IsLast(b, begins, t) ==
  b \in BegunBefore(begins, t)
  /\ \A m \in BegunBefore(begins, t) : db[m].span_end <= db[b].span_end

\* Every leaf begins before it ends.
TimesInOrder(begins, ends) == \A n \in Leaves(db) : begins[n] <= ends[n]

\* From which of the leaves that end in time, and up to which of those that
\* begin in time, the window goes.
LEMMA WindowEnds ==
  ASSUME ForestInv, NEW begins \in Timed, NEW ends \in Timed,
         NEW t0, NEW t1, NEW since, NEW until, SinceAsked(since, t0), UntilAsked(until, t1),
         Leaves(db) # {}
  PROVE  LET E == EndedAfter(ends, t0)
             B == BegunBefore(begins, LastAsked(t1))
         IN  /\ E = {} => Starts(ends, since) = {}
             /\ \A e : IsFirst(e, ends, t0) => Starts(ends, since) = {db[e].span_start}
             /\ B = {} => Stops(begins, until) = {}
             /\ \A b : IsLast(b, begins, LastAsked(t1)) =>
                         \/ until # Unset /\ Stops(begins, until) = {db[b].span_end}
                         \/ /\ until = Unset /\ Stops(begins, until) = {Unset}
                            /\ db[b].span_end = DocumentEnd
<1>0. /\ t0 \in Clock \cup {Unset} /\ since \in Clock \cup {Unset}
      /\ since = t0 \/ (t0 = Unset /\ since = Min(Clock))
      /\ t1 \in Clock \cup {Unset} /\ until \in Clock \cup {Unset}
      /\ until = t1 \/ (t1 = Unset /\ until = Max(Clock))
  BY DEF SinceAsked, UntilAsked
<1> DEFINE last == IF t1 = Unset THEN Max(Clock) ELSE t1
           E == {n \in Leaves(db) : ends[n] >= t0}
           B == {n \in Leaves(db) : begins[n] <= last}
           starts == IF since = Unset THEN {0}
                     ELSE {db[n].span_start : n \in LeavesAtStart(db, ends, since)}
           stops  == IF until = Unset THEN {Unset}
                     ELSE {db[n].span_end : n \in LeavesAtEnd(db, begins, until)}
<1>1. /\ Min(Clock) \in Nat /\ Max(Clock) \in Clock /\ Clock \subseteq Nat
      /\ \A t \in Clock : t \in Nat /\ t # Unset /\ Min(Clock) <= t /\ t <= Max(Clock)
  BY ClockHasEnds
<1>2. /\ since \in Int /\ until \in Int /\ last \in Int /\ t0 \in Int
      /\ since # Unset => since \in Nat
  <2> HIDE DEF E, B, starts, stops
  <2>1. Unset \in Int
    BY DEF Unset
  <2>2. \A t \in Clock \cup {Unset} : t \in Int /\ (t # Unset => t \in Nat)
    BY <1>1, <2>1
  <2>3. last \in Clock \cup {Unset}
    BY <1>0, <1>1
  <2> HIDE DEF last
  <2> QED BY <1>0, <2>2, <2>3
<1>3. \A n \in Leaves(db) : /\ begins[n] \in Clock /\ ends[n] \in Clock
                            /\ db[n].span_start \in Nat /\ db[n].span_end \in Nat
                            /\ n \in DOMAIN db
  BY ChildrenOfARow DEF Leaves, Timed
<1>4. t0 = Unset => E = Leaves(db)
  <2>1. \A n \in Leaves(db) : ends[n] \in Nat
    BY <1>1, <1>3
  <2> QED BY <2>1 DEF Unset
<1>5. t1 = Unset => B = Leaves(db)
  BY <1>1, <1>3
<1>6. since # Unset => E = {n \in Leaves(db) : ends[n] >= since}
  <2>1. CASE since = t0
    BY <2>1
  <2>2. CASE t0 = Unset /\ since = Min(Clock)
    <3>1. \A n \in Leaves(db) : ends[n] >= since
      BY <1>1, <1>3, <2>2
    <3> QED BY <1>4, <2>2, <3>1
  <2> QED BY <1>0, <2>1, <2>2
<1>7. until # Unset => until = last
  BY <1>0
<1>8. DOMAIN db # {}
  BY DEF Leaves
<1>9. E = {} => starts = {}
  <2> SUFFICES ASSUME E = {} PROVE starts = {}
    OBVIOUS
  <2>1. since # Unset
    BY <1>0, <1>1, <1>4 DEF Unset
  <2>2. LeavesAtStart(db, ends, since) = {}
    BY <1>2, <1>6, <2>1, LeafOfStart
  <2> QED BY <2>1, <2>2
<1>10. ASSUME NEW e \in E, \A m \in E : db[e].span_start <= db[m].span_start
       PROVE  starts = {db[e].span_start}
  <2>1. CASE since = Unset
    <3>1. E = Leaves(db)
      BY <1>0, <1>1, <1>4, <2>1 DEF Unset
    <3>2. PICK l \in Leaves(db) : db[l].span_start <= 0
      <4>1. DocumentEnd \in Nat /\ 0 < DocumentEnd
        BY <1>8, DocumentEndsAtLeaf
      <4> QED BY <1>8, <4>1, PositionsAreInLeaves
    <3>3. db[e].span_start <= db[l].span_start
      BY <1>10, <3>1
    <3>4. db[e].span_start = 0
      BY <1>3, <3>2, <3>3
    <3> QED BY <2>1, <3>4
  <2>2. CASE since # Unset
    <3>1. LeavesAtStart(db, ends, since) = {e}
      BY <1>2, <1>6, <1>10, <2>2, LeafOfStart
    <3> QED BY <2>2, <3>1
  <2> QED BY <2>1, <2>2
<1>11. B = {} => stops = {}
  <2> SUFFICES ASSUME B = {} PROVE stops = {}
    OBVIOUS
  <2>1. until # Unset
    BY <1>0, <1>1, <1>5 DEF Unset
  <2>2. LeavesAtEnd(db, begins, until) = {}
    BY <1>2, <1>7, <2>1, LeafOfEnd
  <2> QED BY <2>1, <2>2
<1>12. ASSUME NEW b \in B, \A m \in B : db[m].span_end <= db[b].span_end
       PROVE  \/ until # Unset /\ stops = {db[b].span_end}
              \/ until = Unset /\ stops = {Unset} /\ db[b].span_end = DocumentEnd
  <2>1. CASE until = Unset
    <3>1. B = Leaves(db)
      BY <1>0, <1>1, <1>5, <2>1
    <3>2. PICK l \in Leaves(db) : db[l].span_end = DocumentEnd
      BY <1>8, DocumentEndsAtLeaf
    <3>3. db[l].span_end <= db[b].span_end /\ db[b].span_end <= DocumentEnd /\ DocumentEnd \in Nat
      BY <1>3, <1>8, <1>12, <3>1, DocumentEndsAtLeaf
    <3>4. db[b].span_end = DocumentEnd
      BY <1>3, <3>2, <3>3
    <3> QED BY <2>1, <3>4
  <2>2. CASE until # Unset
    <3>1. LeavesAtEnd(db, begins, until) = {b}
      BY <1>2, <1>7, <1>12, <2>2, LeafOfEnd
    <3> QED BY <2>2, <3>1
  <2> QED BY <2>1, <2>2
<1> HIDE DEF last, E, B, starts, stops
<1>13. /\ E = {} => starts = {}
       /\ \A e \in E : (\A m \in E : db[e].span_start <= db[m].span_start) =>
                         starts = {db[e].span_start}
       /\ B = {} => stops = {}
       /\ \A b \in B : (\A m \in B : db[m].span_end <= db[b].span_end) =>
                         \/ until # Unset /\ stops = {db[b].span_end}
                         \/ until = Unset /\ stops = {Unset} /\ db[b].span_end = DocumentEnd
  BY <1>9, <1>10, <1>11, <1>12
<1>14. /\ E = EndedAfter(ends, t0) /\ B = BegunBefore(begins, LastAsked(t1))
       /\ starts = Starts(ends, since) /\ stops = Stops(begins, until)
  BY DEF E, B, last, starts, stops, EndedAfter, BegunBefore, LastAsked, Starts, Stops
<1> QED BY <1>13, <1>14 DEF IsFirst, IsLast

\* Where a window of time that has a first leaf and a last one leads to.
LEMMA WindowFromTo ==
  ASSUME ForestInv, NEW begins \in Timed, NEW ends \in Timed,
         TimesInOrder(begins, ends), NEW t0 \in Int, NEW last \in Int, t0 <= last,
         NEW e, NEW b, IsFirst(e, ends, t0), IsLast(b, begins, last)
  PROVE  LET inside == Overlapped(begins, ends, t0, last)
         IN  /\ inside # {} <=> db[e].span_start < db[b].span_end
             /\ inside # {} => /\ FirstPlace(inside) = db[e].span_start
                               /\ LastPlace(inside) = db[b].span_end
<1> DEFINE inside == {n \in Leaves(db) : t0 <= ends[n] /\ begins[n] <= last}
           starts == {db[n].span_start : n \in inside}
           stops  == {db[n].span_end : n \in inside}
<1>0. /\ e \in Leaves(db) /\ b \in Leaves(db) /\ ends[e] >= t0 /\ begins[b] <= last
      /\ \A m \in Leaves(db) : ends[m] >= t0 => db[e].span_start <= db[m].span_start
      /\ \A m \in Leaves(db) : begins[m] <= last => db[m].span_end <= db[b].span_end
      /\ \A n \in Leaves(db) : begins[n] <= ends[n]
  BY DEF IsFirst, IsLast, EndedAfter, BegunBefore, TimesInOrder
<1>1. \A n \in Leaves(db) : /\ begins[n] \in Nat /\ ends[n] \in Nat
                            /\ db[n].span_start \in Nat /\ db[n].span_end \in Nat
                            /\ db[n].span_start < db[n].span_end
  <2>1. \A n \in Leaves(db) : begins[n] \in Nat /\ ends[n] \in Nat
    BY ClockHasEnds DEF Timed
  <2>2. \A n \in Leaves(db) : /\ db[n].span_start \in Nat /\ db[n].span_end \in Nat
                              /\ db[n].span_start < db[n].span_end
    BY ChildrenOfARow DEF Leaves
  <2> QED BY <2>1, <2>2
<1>2. ASSUME NEW x \in inside PROVE db[e].span_start < db[b].span_end
  <2>1. db[e].span_start <= db[x].span_start /\ db[x].span_end <= db[b].span_end
    BY <1>0, <1>1
  <2> QED BY <1>0, <1>1, <2>1
<1>3. ASSUME db[e].span_start < db[b].span_end PROVE e \in inside /\ b \in inside
  <2>1. e = b \/ db[e].span_end <= db[b].span_start
    BY <1>0, <1>1, <1>3, LeavesApart
  <2>2. db[e].span_start <= db[b].span_start
    BY <1>0, <1>1, <2>1
  <2>3. begins[e] <= begins[b] /\ ends[e] <= ends[b]
    BY <1>0, <2>2, TimesTellOrder
  <2>4. begins[e] <= last /\ t0 <= ends[b]
    BY <1>0, <1>1, <2>3
  <2> QED BY <1>0, <1>1, <2>4
<1>4. inside # {} <=> db[e].span_start < db[b].span_end
  <2> HIDE DEF inside
  <2> QED BY <1>2, <1>3
<1>5. ASSUME inside # {} PROVE Min(starts) = db[e].span_start /\ Max(stops) = db[b].span_end
  <2>1. e \in inside /\ b \in inside
    <3> HIDE DEF inside
    <3> QED BY <1>3, <1>4, <1>5
  <2>2. starts \in SUBSET Int /\ stops \in SUBSET Int
    BY <1>1
  <2>3. db[e].span_start \in starts /\ \A y \in starts : db[e].span_start <= y
    BY <1>0, <1>1, <2>1
  <2>4. db[b].span_end \in stops /\ \A y \in stops : y <= db[b].span_end
    BY <1>0, <1>1, <2>1
  <2> HIDE DEF starts, stops
  <2> QED BY <2>2, <2>3, <2>4, MinIs, MaxIs
<1>6. inside # {} => FirstPlace(inside) = db[e].span_start /\ LastPlace(inside) = db[b].span_end
  <2>1. FirstPlace(inside) = Min(starts) /\ LastPlace(inside) = Max(stops)
    BY DEF FirstPlace, LastPlace
  <2> HIDE DEF inside, starts, stops
  <2> QED BY <1>5, <2>1
<1>7. inside = Overlapped(begins, ends, t0, last)
  BY DEF Overlapped
<1> HIDE DEF inside
<1> QED BY <1>4, <1>6, <1>7

\* What a window of time is to come to.
ExactWindow(begins, ends, t0, last) ==
  LET inside == Overlapped(begins, ends, t0, last)
  IN  IF inside # {} THEN {[start |-> FirstPlace(inside), end |-> LastPlace(inside)]}
      ELSE IF \/ \A n \in Leaves(db) : ends[n] < t0
              \/ \A n \in Leaves(db) : last < begins[n]
      THEN {Nothing} ELSE {}

\* A window of time comes to the leaves that overlap it, for the ends it is
\* asked with.
LEMMA TimeIsAnswered ==
  ASSUME ForestInv, NEW begins \in Timed, NEW ends \in Timed,
         TimesInOrder(begins, ends), NEW t0, NEW t1, NEW since, NEW until,
         SinceAsked(since, t0), UntilAsked(until, t1),
         ~(since = Unset /\ until = Unset), t0 <= LastAsked(t1)
  PROVE  TimeWindows(db, begins, ends, since, until) =
           ExactWindow(begins, ends, t0, LastAsked(t1))
<1> DEFINE last == LastAsked(t1)
           inside == Overlapped(begins, ends, t0, last)
           E == EndedAfter(ends, t0)
           B == BegunBefore(begins, last)
           early  == \A n \in Leaves(db) : ends[n] < t0
           late   == \A n \in Leaves(db) : last < begins[n]
           starts == Starts(ends, since)
           stops  == Stops(begins, until)
           found   == UNION {SpanWindows(db, from, to) : from \in starts, to \in stops}
           windows == IF starts = {} \/ stops = {} THEN {Nothing} ELSE found
           answer == ExactWindow(begins, ends, t0, last)
<1>1. TimeWindows(db, begins, ends, since, until) = windows
  BY DEF TimeWindows, Starts, Stops
<1>a. answer = IF inside # {} THEN {[start |-> FirstPlace(inside), end |-> LastPlace(inside)]}
               ELSE IF early \/ late THEN {Nothing} ELSE {}
  BY DEF ExactWindow
<1> HIDE DEF last, inside, E, B, early, late, starts, stops, found, windows, answer
<1>2. t0 \in Int /\ last \in Int
  <2>1. \A t \in Clock \cup {Unset} : t \in Int
    BY ClockHasEnds DEF Unset
  <2>2. last \in Clock \cup {Unset}
    BY ClockHasEnds DEF last, LastAsked, UntilAsked
  <2> QED BY <2>1, <2>2 DEF SinceAsked
<1>3. \A n \in Leaves(db) : begins[n] \in Nat /\ ends[n] \in Nat
  BY ClockHasEnds DEF Timed
<1>4. CASE Leaves(db) = {}
  <2>1. starts = {} \/ stops = {}
    <3>1. LeavesAtStart(db, ends, since) = {} /\ LeavesAtEnd(db, begins, until) = {}
      BY <1>4 DEF LeavesAtStart, LeavesAtEnd
    <3> QED BY <3>1 DEF starts, stops, Starts, Stops
  <2>2. windows = {Nothing}
    BY <2>1 DEF windows
  <2>3. inside = {} /\ early
    BY <1>4 DEF inside, Overlapped, early
  <2>4. answer = {Nothing}
    BY <1>a, <2>3
  <2>5. windows = answer
    BY <2>2, <2>4
  <2> QED BY <1>1, <2>5 DEF answer, last
<1>5. CASE Leaves(db) # {}
  <2>1. /\ E = {} => starts = {}
        /\ \A e : IsFirst(e, ends, t0) => starts = {db[e].span_start}
        /\ B = {} => stops = {}
        /\ \A b : IsLast(b, begins, last) =>
                    \/ until # Unset /\ stops = {db[b].span_end}
                    \/ until = Unset /\ stops = {Unset} /\ db[b].span_end = DocumentEnd
    BY <1>5, WindowEnds DEF E, B, starts, stops, last
  <2>2. CASE E = {} \/ B = {}
    <3>1. windows = {Nothing}
      BY <2>1, <2>2 DEF windows
    <3>2. inside = {}
      BY <2>2 DEF inside, E, B, Overlapped, EndedAfter, BegunBefore
    <3>3. early \/ late
      BY <1>2, <1>3, <2>2 DEF E, B, EndedAfter, BegunBefore, early, late
    <3>4. answer = {Nothing}
      BY <1>a, <3>2, <3>3
    <3>5. windows = answer
      BY <3>1, <3>4
    <3> QED BY <1>1, <3>5 DEF answer, last
  <2>3. CASE E # {} /\ B # {}
    <3>1. PICK e : IsFirst(e, ends, t0)
      <4>1. E \in SUBSET Leaves(db)
        BY DEF E, EndedAfter
      <4>2. PICK e \in E : \A m \in E : db[e].span_start <= db[m].span_start
        BY <2>3, <4>1, FirstAndLast
      <4> QED BY <4>2 DEF IsFirst, E
    <3>2. PICK b : IsLast(b, begins, last)
      <4>1. B \in SUBSET Leaves(db)
        BY DEF B, BegunBefore
      <4>2. PICK b \in B : \A m \in B : db[m].span_end <= db[b].span_end
        BY <2>3, <4>1, FirstAndLast
      <4> QED BY <4>2 DEF IsLast, B
    <3>3. e \in Leaves(db) /\ b \in Leaves(db) /\ ends[e] >= t0 /\ begins[b] <= last
      BY <3>1, <3>2 DEF IsFirst, IsLast, EndedAfter, BegunBefore
    <3> DEFINE w == [start |-> db[e].span_start, end |-> db[b].span_end]
    <3> HIDE DEF w
    <3>4. starts = {db[e].span_start}
      BY <2>1, <3>1
    <3>5. PICK to : /\ stops = {to}
                    /\ to = db[b].span_end \/ (to = Unset /\ db[b].span_end = DocumentEnd)
      BY <2>1, <3>2
    <3>6. found = SpanWindows(db, db[e].span_start, to)
      <4> DEFINE x == db[e].span_start
      <4> HIDE DEF x
      <4>1. starts = {x} /\ stops = {to}
        BY <3>4, <3>5 DEF x
      <4>2. UNION {SpanWindows(db, f, t) : f \in {x}, t \in {to}} = SpanWindows(db, x, to)
        OBVIOUS
      <4>3. found = SpanWindows(db, x, to)
        BY <4>1, <4>2 DEF found
      <4> QED BY <4>3 DEF x
    <3>7. windows = SpanWindows(db, db[e].span_start, to)
      BY <3>4, <3>5, <3>6 DEF windows
    <3>8. SpanWindows(db, db[e].span_start, to) =
            IF db[e].span_start < db[b].span_end THEN {w} ELSE {}
      <4>1. db[b].span_end = DocumentEnd => db[e].span_start < db[b].span_end
        <5>1. e \in DOMAIN db
          BY <3>3 DEF Leaves
        <5>2. /\ db[e].span_start \in Nat /\ db[e].span_end \in Nat /\ DocumentEnd \in Nat
              /\ db[e].span_start < db[e].span_end /\ db[e].span_end <= DocumentEnd
          BY <5>1, ChildrenOfARow, DocumentEndsAtLeaf
        <5> QED BY <5>2
      <4> QED BY <3>3, <3>5, <4>1, SpanOfLeaves DEF w
    <3>9. /\ inside # {} <=> db[e].span_start < db[b].span_end
          /\ inside # {} => FirstPlace(inside) = db[e].span_start /\ LastPlace(inside) = db[b].span_end
      <4>1. t0 <= last
        BY DEF last
      <4> QED BY <1>2, <3>1, <3>2, <4>1, WindowFromTo DEF inside
    <3>10. ~early /\ ~late
      BY <1>2, <1>3, <3>3 DEF early, late
    <3>11. answer = IF inside # {} THEN {w} ELSE {}
      BY <1>a, <3>9, <3>10 DEF w
    <3>12. windows = answer
      BY <3>7, <3>8, <3>9, <3>11
    <3> QED BY <1>1, <3>12 DEF answer, last
  <2> QED BY <2>2, <2>3
<1> QED BY <1>4, <1>5

\* A window of time is answered exactly.
LEMMA ForestIsTimed == ForestInv => TimeWindowsAreExact
<1> SUFFICES ASSUME ForestInv, NEW begins \in Timed, NEW ends \in Timed,
                    \A n \in Leaves(db) : begins[n] <= ends[n],
                    NEW t0 \in Clock \cup {Unset}, NEW t1 \in Clock \cup {Unset}
             PROVE  LET last == IF t1 = Unset THEN Max(Clock) ELSE t1
                        inside == {n \in Leaves(db) : t0 <= ends[n] /\ begins[n] <= last}
                        toTheEnd == t1 = Unset
                    IN  (t0 <= last /\ (toTheEnd => t0 # Unset /\ LeavesAt(db, SpanEnd(db) - 1) # {})) =>
                          \A q \in AskedForTime(t0, t1) :
                            QueryWindows(db, TRUE, begins, ends, q) =
                              IF inside # {}
                              THEN {[start |-> Min({db[n].span_start : n \in inside}),
                                     end |-> Max({db[n].span_end : n \in inside})]}
                              ELSE IF \/ \A n \in Leaves(db) : ends[n] < t0
                                      \/ \A n \in Leaves(db) : last < begins[n]
                              THEN {Nothing} ELSE {}
  BY DEF TimeWindowsAreExact
<1> SUFFICES ASSUME t0 <= LastAsked(t1), t1 = Unset => t0 # Unset, NEW q \in AskedForTime(t0, t1)
             PROVE  QueryWindows(db, TRUE, begins, ends, q) =
                      ExactWindow(begins, ends, t0, LastAsked(t1))
  BY DEF LastAsked, ExactWindow, Overlapped, FirstPlace, LastPlace
<1>1. /\ Min(Clock) \in Clock /\ Max(Clock) \in Clock /\ Clock \subseteq Nat
      /\ \A t \in Clock : t \in Nat /\ t # Unset /\ Min(Clock) <= t /\ t <= Max(Clock)
  BY ClockHasEnds
<1>2. /\ q.from = 0 /\ q.to = Unset
      /\ q.since = t0 \/ (t0 = Unset /\ q.since = Min(Clock))
      /\ q.until = t1 \/ (t1 = Unset /\ q.until = Max(Clock))
  BY TimesAreAsked
<1>3. /\ q.since \in Clock \cup {Unset} /\ q.until \in Clock \cup {Unset}
      /\ ~(q.since = Unset /\ q.until = Unset)
  BY <1>1, <1>2
<1>4. QueryWindows(db, TRUE, begins, ends, q) =
        TimeWindows(db, begins, ends, q.since, q.until)
  <2>1. q.since # Unset /\ q.until # Unset => ~(q.until < q.since)
    <3> SUFFICES ASSUME q.since # Unset, q.until # Unset PROVE ~(q.until < q.since)
      OBVIOUS
    <3>1. q.since \in Nat /\ q.until \in Nat
      BY <1>1, <1>3
    <3>2. q.since <= q.until
      BY <1>1, <1>2, <1>3 DEF LastAsked
    <3> QED BY <3>1, <3>2
  <2> QED BY <1>2, <1>3, <2>1 DEF QueryWindows
<1>5. SinceAsked(q.since, t0) /\ UntilAsked(q.until, t1) /\ TimesInOrder(begins, ends)
  BY <1>2, <1>3 DEF SinceAsked, UntilAsked, TimesInOrder
<1>6. TimeWindows(db, begins, ends, q.since, q.until) =
        ExactWindow(begins, ends, t0, LastAsked(t1))
  BY <1>3, <1>5, TimeIsAnswered
<1> QED BY <1>4, <1>6

\* In every document that grows in order, whatever was truncated, a window of
\* time comes to the leaves that overlap it and no other, through every way
\* that takes one, for every clock.
THEOREM TimesAreAnsweredExactly ==
  ASSUME OrderlyClients
  PROVE  Spec => []TimeWindowsAreExact
BY ForestStaysSound, ForestIsTimed, PTL
=============================================================================
