--------------------------- MODULE DocumentForest ---------------------------
(***************************************************************************)
(* The life of one stored document.  A writer appends leaves, truncates or *)
(* clears; summary jobs read a pair of sibling roots, call the model, and  *)
(* insert the parent in one transaction while the writer goes on           *)
(* appending.  Truncation and clearing first cancel the document's jobs    *)
(* and wait for them, so they run with no job in flight.  The process may  *)
(* stop at any point: the table survives, the jobs do not.                 *)
(*                                                                         *)
(* The engine's task scheduling is the subject of IndexingEngine; here any *)
(* eligible pair may be started at any time, as many at once as there are. *)
(***************************************************************************)
EXTENDS ForestScan

CONSTANTS
    ChunkLens,   \* the lengths a chunk can have, in characters
    MaxChunks,   \* chunks in one append
    Times,       \* the time_end values a leaf can carry ({0}: not temporal)
    InOrder,     \* whether clients send time_end values in order
    MaxLeaves    \* bound: leaves appended over the whole run

ASSUME ForestAssumption ==
    /\ ChunkLens \subseteq Nat
    /\ \E longest \in ChunkLens : \A len \in ChunkLens : len <= longest
    /\ MaxChunks \in Nat \ {0}
    /\ Times \subseteq Nat
    /\ InOrder \in BOOLEAN
    /\ MaxLeaves \in Nat

VARIABLES
    db,       \* the document's rows
    nextId,   \* the next id to hand out
    jobs,     \* the summary jobs in flight, each with what it read
    born      \* leaves appended so far (only bounds the run)

vars == <<db, nextId, jobs, born>>

EmptyStore == [n \in {} |-> 0]

Init ==
    /\ db = EmptyStore
    /\ nextId = 1
    /\ jobs = {}
    /\ born = 0

-----------------------------------------------------------------------------
(* The end positions of 1 .. MaxChunks chunks laid out from base. *)
ChunkEnds(base) ==
    UNION {{ends \in [1 .. k -> base .. (base + k * Max(ChunkLens))] :
              \A i \in 1 .. k :
                 ends[i] - (IF i = 1 THEN base ELSE ends[i - 1]) \in ChunkLens}
           : k \in 1 .. MaxChunks}

\* append, one unit of append_batch, and the chunks of either: one transaction.
AppendText(right, ends, time) ==
    /\ born + Len(ends) <= MaxLeaves
    /\ InOrder => \A n \in Leaves(db) : db[n].time_end <= time
    /\ db' = AppendLeaves(db, right, nextId, ends, time)
    /\ nextId' = nextId + Len(ends)
    /\ born' = born + Len(ends)
    /\ UNCHANGED jobs

AppendSome ==
    \E right \in RightmostLeaves(db), time \in Times :
        \E ends \in ChunkEnds(EndOf(db, right)) : AppendText(right, ends, time)

\* A job starts: both rows are there and still roots, and are read.
StartSummary(l, r) ==
    /\ <<l, r>> \in EligiblePairs(db)
    /\ \A j \in jobs : ~(j.left = l /\ j.right = r)
    /\ jobs' = jobs \cup {ReadPair(db, l, r)}
    /\ UNCHANGED <<db, nextId, born>>

\* Seeded fault: two rows can get the same id.
CommitSummary_SameId(job) ==
    /\ job \in jobs
    /\ db' = InsertParent(db, nextId, job)
    /\ jobs' = jobs \ {job}
    /\ UNCHANGED <<nextId, born>>

CommitSummary(job) ==
    /\ job \in jobs
    /\ db' = InsertParent(db, nextId, job)
    /\ nextId' = nextId + 1
    /\ jobs' = jobs \ {job}
    /\ UNCHANGED born

\* The model call or the transaction fails: nothing is written, and the pair
\* is found again by the next scan.
FailSummary(job) ==
    /\ job \in jobs
    /\ jobs' = jobs \ {job}
    /\ UNCHANGED <<db, nextId, born>>

\* The process stops and is started again.
Restart ==
    /\ jobs # {}
    /\ jobs' = {}
    /\ UNCHANGED <<db, nextId, born>>

\* Seeded fault: truncation does not wait for the jobs it cancels.
TruncateFromSpan_NoWait(cut) ==
    /\ db' = DeleteFromSpan(db, cut)
    /\ UNCHANGED <<nextId, jobs, born>>

TruncateFromSpan(cut) ==
    /\ jobs = {}
    /\ db' = DeleteFromSpan(db, cut)
    /\ UNCHANGED <<nextId, jobs, born>>

TruncateFromTime(cutoff) ==
    /\ jobs = {}
    /\ db' = DeleteFromTime(db, cutoff)
    /\ UNCHANGED <<nextId, jobs, born>>

Clear ==
    /\ jobs = {}
    /\ db' = EmptyStore
    /\ UNCHANGED <<nextId, jobs, born>>

DocumentEnd == IF db = EmptyStore THEN 0 ELSE Max({db[n].span_end : n \in DOMAIN db})

Truncate ==
    \/ \E cut \in 0 .. DocumentEnd : TruncateFromSpan(cut)
    \/ \E cutoff \in Times : TruncateFromTime(cutoff)
    \/ Clear

Commit == \E job \in jobs : CommitSummary(job)

Summarise == (\E l, r \in DOMAIN db : StartSummary(l, r)) \/ Commit

Next ==
    \/ AppendSome
    \/ Summarise
    \/ \E job \in jobs : FailSummary(job)
    \/ Restart
    \/ Truncate

Spec == Init /\ [][Next]_vars

\* The engine's scheduler keeps starting eligible pairs and every job it
\* starts ends; a call that is retried for ever succeeds at some time.
\* Nothing makes the client append or truncate.
FairSpec == Spec /\ WF_vars(Summarise) /\ SF_vars(Commit)

-----------------------------------------------------------------------------
(* Properties.  Most are the structural checks of run_validation_queries    *)
(* (sqlite_repositories.py), which the repository runs on a finished store; *)
(* here they hold in every state.                                           *)

Job == [left: NodeId, right: NodeId, height: Nat, level_index: Nat,
        span_start: Nat, span_end: Nat, time_end: Nat]

TypeOK ==
    /\ DOMAIN db \subseteq 1 .. (nextId - 1)
    /\ db \in [DOMAIN db -> Row]
    /\ nextId \in NodeId
    /\ jobs \subseteq Job
    /\ born \in 0 .. MaxLeaves

\* The leaves are numbered 0, 1, 2, ... in document order, the first starts at
\* 0 and each starts where the one before it ends: whatever is appended and
\* truncated, the text has no gap and no overlap.
LeavesTile ==
    \A n \in Leaves(db) :
        IF db[n].level_index = 0 THEN db[n].span_start = 0
        ELSE \E m \in Leaves(db) : /\ db[m].level_index = db[n].level_index - 1
                                   /\ db[m].span_end = db[n].span_start

\* Parent and child rows agree: a node with a parent is that parent's left or
\* right child by the parity of its index, one level below; an inner node's
\* children exist, point back at it and lie under it, and it spans exactly
\* the two of them.  No row refers to a deleted one.
ParentsMatchChildren ==
    /\ \A n \in DOMAIN db : db[n].parent_id # NIL =>
          LET p == db[n].parent_id
          IN  /\ p \in DOMAIN db
              /\ n = IF db[n].level_index % 2 = 0 THEN db[p].left_child_id
                                                  ELSE db[p].right_child_id
    /\ \A p \in DOMAIN db : db[p].height > 0 =>
          LET l == db[p].left_child_id
              r == db[p].right_child_id
          IN  /\ {l, r} \subseteq DOMAIN db
              /\ db[l].parent_id = p /\ db[r].parent_id = p
              /\ db[l].height = db[p].height - 1 /\ db[r].height = db[p].height - 1
              /\ db[l].level_index = 2 * db[p].level_index
              /\ db[r].level_index = 2 * db[p].level_index + 1
              /\ db[p].span_start = db[l].span_start
              /\ db[p].span_end = db[r].span_end
              /\ db[l].span_end = db[r].span_start

\* The neighbour columns link exactly the nodes at consecutive coordinates of
\* one level, in both directions, in whatever order parents were inserted.
NeighborsMatchCoordinates ==
    \A n \in DOMAIN db :
        /\ db[n].following_neighbor_id = NodeAt(db, db[n].height, db[n].level_index + 1)
        /\ db[n].preceding_neighbor_id =
              IF db[n].level_index = 0 THEN NIL
              ELSE NodeAt(db, db[n].height, db[n].level_index - 1)

\* The roots, in span order, cover the document once: a tiling made of roots
\* shows every character of the text exactly once.
RootsTile ==
    \A r \in Roots(db) :
        /\ \A x \in Roots(db) \ {r} : \/ db[x].span_end <= db[r].span_start
                                      \/ db[r].span_end <= db[x].span_start
        /\ db[r].span_start # 0 =>
              \E x \in Roots(db) : db[x].span_end = db[r].span_start

\* No transaction the code can issue is refused by the unique index on
\* (document_id, height, level_index): an append after any leaf the rightmost
\* query may return, and the commit of any job in flight.  (The Postgres
\* schema relies on this, it has no such index.)
NoCoordinateClash ==
    /\ \A right \in RightmostLeaves(db) :
          NodeAt(db, 0, NextIndex(db, right)) = NIL
    /\ \A job \in jobs :
          NodeAt(db, job.height + 1, job.level_index \div 2) = NIL

\* What a job read before its model call is still so when it commits: its pair
\* still has no parent and the spans it copied are the rows' spans.
JobsNotStale ==
    \A job \in jobs :
        /\ {job.left, job.right} \subseteq Roots(db)
        /\ job = ReadPair(db, job.left, job.right)

\* A leaf keeps its place until it is deleted, and while a summary job is in
\* flight nothing is deleted at all: appends and summaries only add.
LeavesAreStable ==
    [][/\ \A n \in Leaves(db) \cap DOMAIN db' :
             /\ db'[n].height = 0
             /\ db'[n].level_index = db[n].level_index
             /\ db'[n].span_start = db[n].span_start
             /\ db'[n].span_end = db[n].span_end
       /\ jobs # {} => DOMAIN db \subseteq DOMAIN db']_vars

\* Every run ends with the complete forest in place, whatever jobs failed,
\* whenever the process stopped and whatever was truncated before: the
\* client's operations are finitely many here, the retries are not.
Converges == <>[]IsCompleteForest(db)
=============================================================================
