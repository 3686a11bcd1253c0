---------------------------- MODULE DocumentStatus ----------------------------
(***************************************************************************)
(* What server/servicers.py and the engine's status() tell a client of how *)
(* far a document is indexed: read from the table in several queries,      *)
(* with no await between them.  A percentage is kept as its two numbers.   *)
(***************************************************************************)
EXTENDS DocumentStore

Ones(n) == Cardinality({k \in 0 .. n : (n \div 2 ^ k) % 2 = 1})

CompleteForestSize(leaves) == IF leaves <= 0 THEN 0 ELSE 2 * leaves - Ones(leaves)

Progress(t, doc) ==
    [nodes |-> Cardinality(Of(t, doc)), leaves |-> CountLeaves(t, doc),
     expected |-> CompleteForestSize(CountLeaves(t, doc))]

\* GetDocumentStatus; a document that is not there and one without nodes look
\* the same.
GetDocumentStatus(t, doc, temporal) ==
    IF Of(t, doc) = {}
    THEN [exists |-> FALSE, temporal |-> FALSE, times |-> <<NIL, NIL>>,
          progress |-> [nodes |-> 0, leaves |-> 0, expected |-> 0]]
    ELSE [exists |-> TRUE, temporal |-> doc \in temporal,
          times |-> IF doc \in temporal THEN TemporalRange(t, doc) ELSE <<NIL, NIL>>,
          progress |-> Progress(t, doc)]

\* GetDocument; the depth is the height of the first root.
TreeDepths(t, doc) ==
    IF Of(t, doc) = {} THEN {0} ELSE {t[r].height : r \in RootNodes(Rows(t, doc))}

GetDocument(t, doc, temporal, inflight) ==
    [leaves |-> CountLeaves(t, doc), depths |-> TreeDepths(t, doc),
     pending |-> inflight > 0, temporal |-> doc \in temporal]

\* ListDocuments: a document that was truncated to nothing stays listed.
ListDocuments(t, listed, temporal) ==
    [doc \in listed |->
        [progress |-> Progress(t, doc), temporal |-> doc \in temporal,
         times |-> IF doc \in temporal THEN TemporalRange(t, doc) ELSE <<NIL, NIL>>]]

GetSystemStatus(t, listed) ==
    [nodes |-> MapThenSumSet(LAMBDA doc : Cardinality(Of(t, doc)), listed),
     leaves |-> MapThenSumSet(LAMBDA doc : CountLeaves(t, doc), listed),
     depth |-> Max({0} \cup {MaxHeight(t, doc) : doc \in listed})]

GetCostStats(t, listed, doc) ==
    [d \in IF doc = NIL THEN listed ELSE {doc} |-> Costs(t, d)]

\* The engine's own account: what is embedded or summarised, of what there
\* will be.  Documents with nothing to tell are left out.
EngineStatus(t, known) ==
    LET completed(d) == CountEmbedded(t, d) + Cardinality(Of(t, d)) - CountLeaves(t, d)
    IN  [completed |-> [d \in {d \in known : completed(d) > 0} |-> completed(d)],
         expected |-> [d \in {d \in known : CountLeaves(t, d) > 0} |->
                          CompleteForestSize(CountLeaves(t, d))]]

\* from_status_dicts: a total is never shown below what is done.
DocumentTotals(status, inflight, d) ==
    LET known(told) == IF d \in DOMAIN told THEN told[d] ELSE 0
    IN  [inflight  |-> IF d \in DOMAIN inflight THEN inflight[d] ELSE 0,
         completed |-> known(status.completed),
         total     |-> Max({known(status.expected), known(status.completed)})]

\* One message of RunWorkers; inflight has the documents with jobs, with their
\* number.  The stream ends with the first idle message.
RunWorkers(t, listed, inflight) ==
    LET status == EngineStatus(t, listed)
    IN  [idle      |-> DOMAIN inflight = {},
         documents |-> [d \in DOMAIN inflight \cup DOMAIN status.completed \cup DOMAIN status.expected |->
                           DocumentTotals(status, inflight, d)]]
===============================================================================
