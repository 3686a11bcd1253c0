--------------------------- MODULE IndexingEngine ---------------------------
(***************************************************************************)
(* The asyncio job engine of server/indexing_engine.py, for several        *)
(* documents that share its slots.  A finder scans one document and claims *)
(* the jobs it finds; a job reads its nodes, calls the model, writes, and  *)
(* asks for another scan; one scheduler task runs the scans asked for;     *)
(* clients append, truncate and wait.                                      *)
(*                                                                         *)
(* Everything between two awaits is one step.  All tasks meet at one       *)
(* asyncio.Lock, which is granted first come, first served: lockQ is the   *)
(* queue, its head the holder.  A task that wants the lock always joins    *)
(* the queue and gets the lock in a later step, which allows at least the  *)
(* interleavings of the code, where an uncontended lock is taken at once.  *)
(*                                                                         *)
(* The table is reduced to coordinates (DocumentForest shows that its rows *)
(* behave so).  Telemetry runs and progress counters are left out.         *)
(***************************************************************************)
EXTENDS CoordinateForest, Sequences, FiniteSetsExt

CONSTANTS
    Docs,            \* the documents
    Clients,         \* the clients; each has one operation at a time
    TakeTurns,       \* whether a document has one operation at a time
    MaxParallelism,  \* config.max_parallelism
    MaxBatch,        \* leaves in one append
    MaxLeaves,       \* bound: leaves appended to a document over the run
    MaxOps,          \* bound: client operations over the run
    MaxFaults        \* bound: failed jobs, abandoned waits, process stops

ASSUME EngineAssumption ==
    /\ TakeTurns \in BOOLEAN
    /\ MaxParallelism \in Nat \ {0}
    /\ MaxBatch \in Nat \ {0}
    /\ MaxLeaves \in Nat
    /\ MaxOps \in Nat
    /\ MaxFaults \in Nat
    /\ IsFiniteSet(Docs)

\* The tasks that run _find_and_start_jobs: the scheduler, which does one
\* document after the other, and a task for every call of trigger_work.
SCHED == 0
Finders == 1 .. (MaxOps + Cardinality(Docs))

VARIABLES
    forest,      \* the nodes of each document, as coordinates
    embedded,    \* the leaves whose row has an embedding
    vectors,     \* the leaves the vector index knows
    context,     \* _document_contexts: "none", "live" or "cancelled"
    activeDocs,  \* _active_documents
    running,     \* _active_jobs, each with the point its task has reached
    dirty,       \* _dirty_documents
    scheduling,  \* whether the scheduler task is there
    round,       \* documents left in the scheduler's round
    finder,      \* the _find_and_start_jobs calls in progress
    lockQ,       \* _lock: its holder and those who wait for it
    idleEvent,   \* _idle_event
    client,      \* what each client is doing, to which document
    added,       \* leaves appended so far (only bounds the run)
    ops,         \* operations so far (only bounds the run)
    faults,      \* faults so far (only bounds the run)
    missed,      \* history: documents with a failed job that a finder missed
    exposed,     \* history: documents truncated while nothing held their work back
    orphans      \* history: vectors that the index failed to delete

store == <<forest, embedded, vectors>>
engine == <<context, activeDocs, running, dirty, scheduling, round, finder>>
bounds == <<added, ops, faults>>
history == <<missed, exposed, orphans>>
vars == <<store, engine, lockQ, idleEvent, client, bounds, history>>

-----------------------------------------------------------------------------
(* Jobs *)

Job == [doc: Docs, kind: {"embed", "summary"}, at: Nat \X Nat]

Embed(d, leaf) == [doc |-> d, kind |-> "embed", at |-> leaf]
Summary(d, left) == [doc |-> d, kind |-> "summary", at |-> left]

\* What a scan finds when the jobs in busy are under way: every leaf without an
\* embedding and every pair without a parent.  The code holds some pairs back
\* until others are done - beyond the frontier, over incomplete subtrees, above
\* the lowest height - and finds them later; here a scan may find them at once
\* (ForestScan has these gates, and shows that they hold nothing back for ever).
Candidates(d, busy) ==
    ({Embed(d, leaf) : leaf \in LeavesOf(forest[d]) \ embedded[d]}
        \cup {Summary(d, left) : left \in ReadyPairs(forest[d])}) \ busy

\* Jobs are taken in span_start order; on a tie the embedding comes first, then
\* the lower node (two pairs that begin at the same place are found only in a
\* forest that a late summary has broken).
ComesBefore(j, k) ==
    \/ FirstLeaf(j.at) < FirstLeaf(k.at)
    \/ /\ FirstLeaf(j.at) = FirstLeaf(k.at)
       /\ \/ j.kind = "embed" /\ k.kind = "summary"
          \/ j.kind = k.kind /\ j.at[1] < k.at[1]

FirstJobs(S, n) == {j \in S : Cardinality({k \in S : ComesBefore(k, j)}) < n}

JobsOf(d) == {j \in DOMAIN running : j.doc = d}

FreeSlots == MaxParallelism - Cardinality(DOMAIN running)

\* The checks a job makes when it starts.
StillNeeded(j) ==
    IF j.kind = "embed" THEN j.at \in forest[j.doc]
    ELSE /\ {j.at, SiblingOf(j.at)} \subseteq forest[j.doc]
         /\ ParentOf(j.at) \notin forest[j.doc]

-----------------------------------------------------------------------------
(* The lock, the event, the tasks *)

Holds(who) == lockQ # <<>> /\ Head(lockQ) = who

Join(who) == lockQ' = Append(lockQ, who)
Leave == lockQ' = Tail(lockQ)
Rejoin(who) == lockQ' = Append(Tail(lockQ), who)

TheJob(j) == <<"job", j>>
TheFinder(f) == <<"finder", f>>
TheClient(c) == <<"client", c>>

Idle == [pc |-> "idle"]
Off == [pc |-> "off"]

\* Seeded fault: a signal nobody waits for yet is lost.
Notify_Pulse(clients) ==
    /\ idleEvent' = FALSE
    /\ client' = [c \in Clients |->
                    IF clients[c].pc = "asleep" THEN [clients[c] EXCEPT !.pc = "woken"]
                                                ELSE clients[c]]

\* Waiters that have reached event.wait() are woken; clear() after that does
\* not put them back to sleep.
Notify(clients) ==
    /\ idleEvent' = TRUE
    /\ client' = [c \in Clients |->
                    IF clients[c].pc = "asleep" THEN [clients[c] EXCEPT !.pc = "woken"]
                                                ELSE clients[c]]

Begin(d) == [pc |-> "begin", doc |-> d, found |-> {}, started |-> 0]

Init ==
    /\ forest = [d \in Docs |-> {}]
    /\ embedded = [d \in Docs |-> {}]
    /\ vectors = [d \in Docs |-> {}]
    /\ context = [d \in Docs |-> "none"]
    /\ activeDocs = {}
    /\ running = [j \in {} |-> "new"]
    /\ dirty = {}
    /\ scheduling = FALSE
    /\ round = {}
    /\ finder = [f \in Finders \cup {SCHED} |-> Off]
    /\ lockQ = <<>>
    /\ idleEvent = TRUE
    /\ client = [c \in Clients |-> Idle]
    /\ added = [d \in Docs |-> 0]
    /\ ops = 0
    /\ faults = 0
    /\ missed = {}
    /\ exposed = {}
    /\ orphans = [d \in Docs |-> {}]
-----------------------------------------------------------------------------
(* Finders: _find_and_start_jobs *)

Ends(f) == finder' = [finder EXCEPT ![f] = Off]

\* Seeded fault: the slots other finders filled are not counted.
Room_Own(f) == MaxParallelism - finder[f].started

\* How many jobs f may still start.
Room(f) == Min({FreeSlots, MaxParallelism - finder[f].started})

\* Seeded fault: jobs claimed by another finder are claimed again.
Fresh_All(f) == finder[f].found

Fresh(f) == finder[f].found \ DOMAIN running

\* A finder that found nothing for d is about to look whether d has jobs.
ClosingIn(d) ==
    \E f \in Finders \cup {SCHED} :
        finder[f].pc = "claim" /\ finder[f].doc = d /\ finder[f].found = {}

\* Seeded fault: an empty scan is taken for an idle document.
HasActiveJobs_Never(f) == FALSE

HasActiveJobs(f) == JobsOf(finder[f].doc) # {}

FinderBegins(f) ==
    /\ finder[f].pc = "begin"
    /\ finder' = [finder EXCEPT ![f].pc = "scan"]
    /\ Join(TheFinder(f))
    /\ UNCHANGED <<store, context, activeDocs, running, dirty, scheduling, round,
                   idleEvent, client, bounds, history>>

\* The first locked section and the scan that follows it without an await.
FinderScans(f) ==
    LET d == finder[f].doc
    IN  /\ finder[f].pc = "scan"
        /\ Holds(TheFinder(f))
        /\ \/ /\ context[d] = "cancelled"
              /\ activeDocs' = activeDocs \ {d}
              /\ Notify(client)
              /\ Ends(f)
              /\ Leave
           \/ /\ context[d] # "cancelled"
              /\ Room(f) <= 0
              /\ Ends(f)
              /\ Leave
              /\ UNCHANGED <<activeDocs, idleEvent, client>>
           \/ /\ context[d] # "cancelled"
              /\ Room(f) > 0
              /\ finder' = [finder EXCEPT
                              ![f].pc = "claim",
                              ![f].found = FirstJobs(Candidates(d, DOMAIN running), Room(f))]
              /\ Rejoin(TheFinder(f))
              /\ UNCHANGED <<activeDocs, idleEvent, client>>
        /\ UNCHANGED <<store, context, running, dirty, scheduling, round, bounds, history>>

\* The second locked section.  The holder keeps the lock while it sleeps.
FinderClaims(f) ==
    LET d == finder[f].doc
        new == FirstJobs(Fresh(f), Room(f))
    IN  /\ finder[f].pc = "claim"
        /\ Holds(TheFinder(f))
        /\ \/ /\ finder[f].found = {}
              /\ HasActiveJobs(f)
              /\ Ends(f)
              /\ Leave
              /\ UNCHANGED <<activeDocs, running, idleEvent, client>>
           \/ /\ finder[f].found = {}
              /\ ~HasActiveJobs(f)
              /\ activeDocs' = activeDocs \ {d}
              /\ Notify(client)
              /\ Ends(f)
              /\ Leave
              /\ UNCHANGED running
           \/ /\ finder[f].found # {}
              /\ Fresh(f) = {}
              /\ finder' = [finder EXCEPT ![f].pc = "scan", ![f].found = {}]
              /\ Rejoin(TheFinder(f))
              /\ UNCHANGED <<activeDocs, running, idleEvent, client>>
           \/ /\ Fresh(f) # {}
              /\ Room(f) <= 0
              /\ Ends(f)
              /\ Leave
              /\ UNCHANGED <<activeDocs, running, idleEvent, client>>
           \/ /\ Fresh(f) # {}
              /\ Room(f) > 0
              /\ running' = [j \in DOMAIN running \cup new |->
                               IF j \in new THEN "new" ELSE running[j]]
              /\ finder' = [finder EXCEPT
                              ![f].pc = "sleep",
                              ![f].found = {},
                              ![f].started = @ + Cardinality(new)]
              /\ UNCHANGED <<activeDocs, lockQ, idleEvent, client>>
        /\ UNCHANGED <<store, context, dirty, scheduling, round, bounds, history>>

FinderWakes(f) ==
    /\ finder[f].pc = "sleep"
    /\ finder' = [finder EXCEPT ![f].pc = "scan"]
    /\ Rejoin(TheFinder(f))
    /\ UNCHANGED <<store, context, activeDocs, running, dirty, scheduling, round,
                   idleEvent, client, bounds, history>>

FinderSteps(f) == FinderBegins(f) \/ FinderScans(f) \/ FinderClaims(f) \/ FinderWakes(f)

-----------------------------------------------------------------------------
(* The scheduler: _run_scheduler *)

NextInRound ==
    /\ scheduling
    /\ finder[SCHED] = Off
    /\ \E d \in round :
          /\ round' = round \ {d}
          /\ finder' = [finder EXCEPT ![SCHED] = [Begin(d) EXCEPT !.pc = "scan"]]
    /\ Join(TheFinder(SCHED))
    /\ UNCHANGED <<store, context, activeDocs, running, dirty, scheduling,
                   idleEvent, client, bounds, history>>

NextRound ==
    /\ scheduling
    /\ finder[SCHED] = Off
    /\ round = {}
    /\ round' = dirty
    /\ dirty' = {}
    /\ scheduling' = (dirty # {})
    /\ UNCHANGED <<store, context, activeDocs, running, finder,
                   lockQ, idleEvent, client, bounds, history>>

-----------------------------------------------------------------------------
(* Jobs: _run_job, _embed_leaf, _summarize_pair *)

JobStarts(j) ==
    /\ running[j] = "new"
    /\ IF StillNeeded(j)
       THEN /\ running' = [running EXCEPT ![j] = "model"]
            /\ UNCHANGED lockQ
       ELSE /\ running' = [running EXCEPT ![j] = "done"]
            /\ Join(TheJob(j))
    /\ UNCHANGED <<store, context, activeDocs, dirty, scheduling, round, finder,
                   idleEvent, client, bounds, history>>

\* The embedding goes to the leaf's row if it is there, and to the index.
WritesEmbedding(j) ==
    /\ j.kind = "embed"
    /\ embedded' = [embedded EXCEPT ![j.doc] = @ \cup ({j.at} \cap forest[j.doc])]
    /\ vectors' = [vectors EXCEPT ![j.doc] = @ \cup {j.at}]
    /\ UNCHANGED forest

WritesSummary(j) ==
    /\ j.kind = "summary"
    /\ forest' = [forest EXCEPT ![j.doc] = Merged(@, j.at)]
    /\ UNCHANGED <<embedded, vectors>>

JobWrites(j) ==
    /\ running[j] = "model"
    /\ WritesEmbedding(j) \/ WritesSummary(j)
    /\ running' = [running EXCEPT ![j] = "done"]
    /\ Join(TheJob(j))
    /\ UNCHANGED <<context, activeDocs, dirty, scheduling, round, finder,
                   idleEvent, client, bounds, history>>

\* The model call or a write fails.  The row gets its embedding before the
\* index gets the vector, so the failing write may leave the one without the
\* other; a parent and its links are one transaction.
JobFails(j) ==
    /\ running[j] = "model"
    /\ faults < MaxFaults
    /\ faults' = faults + 1
    /\ \/ UNCHANGED embedded
       \/ /\ j.kind = "embed"
          /\ embedded' = [embedded EXCEPT ![j.doc] = @ \cup ({j.at} \cap forest[j.doc])]
    /\ running' = [running EXCEPT ![j] = "failed"]
    /\ Join(TheJob(j))
    /\ UNCHANGED <<forest, vectors, context, activeDocs, dirty, scheduling, round,
                   finder, idleEvent, client, added, ops, history>>

\* Seeded fault: only the ended job's own document is put up.
PutUp_Own(j) == {j.doc}

\* The documents that are scanned again when j gives its slot back.
PutUp(j) == activeDocs \cup {j.doc}

\* The work of j is still to be done, and yet was not found by the scan of a
\* finder that is about to look whether the document has jobs.
IsMissed(j) == running[j] = "failed" /\ ClosingIn(j.doc)

JobEnds(j) ==
    /\ running[j] \in {"done", "failed"}
    /\ Holds(TheJob(j))
    /\ running' = [k \in DOMAIN running \ {j} |-> running[k]]
    /\ Notify(client)
    /\ dirty' = dirty \cup PutUp(j)
    /\ scheduling' = TRUE
    /\ Leave
    /\ missed' = IF IsMissed(j) THEN missed \cup {j.doc} ELSE missed
    /\ UNCHANGED <<store, context, activeDocs, round, finder, bounds, exposed, orphans>>

JobSteps(j) == j \in DOMAIN running /\ (JobStarts(j) \/ JobWrites(j) \/ JobEnds(j))

-----------------------------------------------------------------------------
(* Clients: append_text and trigger_work; the truncations, clear and       *)
(* cancel_document; wait_until_idle                                        *)

Starts(c, op) ==
    /\ client[c].pc = "idle"
    /\ TakeTurns => \A e \in Clients : client[e].pc # "idle" => client[e].doc # op.doc
    /\ ops < MaxOps
    /\ ops' = ops + 1
    /\ client' = [client EXCEPT ![c] = op]
    /\ Join(TheClient(c))
    /\ UNCHANGED <<engine, embedded, vectors, idleEvent, faults, history>>

Appends(c, d, k) ==
    /\ added[d] + k <= MaxLeaves
    /\ added' = [added EXCEPT ![d] = @ + k]
    /\ forest' = [forest EXCEPT ![d] = Grown(@, k)]
    /\ Starts(c, [pc |-> "trigger", doc |-> d])

Truncates(c, d, n) ==
    /\ n <= Cardinality(LeavesOf(forest[d]))
    /\ Starts(c, [pc |-> "cancel", doc |-> d, keep |-> n])
    /\ UNCHANGED <<forest, added>>

\* The scan asked for finds what was missed, unless a finder takes the document
\* off the list before.
Triggers(c) ==
    LET d == client[c].doc
    IN  /\ client[c].pc = "trigger"
        /\ Holds(TheClient(c))
        /\ context' = [context EXCEPT ![d] = "live"]
        /\ activeDocs' = activeDocs \cup {d}
        /\ idleEvent' = FALSE
        /\ finder' = [finder EXCEPT ![Min({f \in Finders : finder[f] = Off})] = Begin(d)]
        /\ client' = [client EXCEPT ![c] = Idle]
        /\ missed' = IF ClosingIn(d) THEN missed ELSE missed \ {d}
        /\ Leave
        /\ UNCHANGED <<store, running, dirty, scheduling, round, bounds, exposed, orphans>>

\* Some task will scan the document, or is at work on it.
HasWorkLeft(d) ==
    \/ d \in dirty \cup round
    \/ \E f \in Finders \cup {SCHED} : finder[f] # Off /\ finder[f].doc = d
    \/ JobsOf(d) # {}

\* A truncation drops the context; until the next append there is none that the
\* next truncation could cancel, and what work is left goes on under it.
Cancels(c) ==
    LET d == client[c].doc
    IN  /\ client[c].pc = "cancel"
        /\ Holds(TheClient(c))
        /\ context' = [context EXCEPT ![d] = IF @ = "none" THEN @ ELSE "cancelled"]
        /\ activeDocs' = activeDocs \ {d}
        /\ client' = [client EXCEPT ![c].pc = "check"]
        /\ exposed' = IF context[d] = "none" /\ HasWorkLeft(d) THEN exposed \cup {d} ELSE exposed
        /\ Rejoin(TheClient(c))
        /\ UNCHANGED <<store, running, dirty, scheduling, round, finder, idleEvent, bounds,
                       missed, orphans>>

\* Seeded fault: the jobs that are still under way are not waited for.
Quiet_Unlisted(d) == d \notin activeDocs

Quiet(d) == JobsOf(d) = {} /\ d \notin activeDocs

\* wait_until_idle.  On Python 3.10 and 3.11 wait_for starts event.wait() in a
\* task of its own: the client reaches the event one step after it let go of
\* the lock, and the event may have been set and cleared again by then.
Checks(c) ==
    /\ client[c].pc = "check"
    /\ Holds(TheClient(c))
    /\ IF Quiet(client[c].doc)
       THEN /\ client' = [client EXCEPT ![c].pc = "drop"]
            /\ Rejoin(TheClient(c))
            /\ UNCHANGED idleEvent
       ELSE /\ client' = [client EXCEPT ![c].pc = "arm"]
            /\ idleEvent' = FALSE
            /\ Leave
    /\ UNCHANGED <<store, engine, bounds, history>>

Arms(c) ==
    /\ client[c].pc = "arm"
    /\ client' = [client EXCEPT ![c].pc = IF idleEvent THEN "woken" ELSE "asleep"]
    /\ UNCHANGED <<store, engine, lockQ, idleEvent, bounds, history>>

Rechecks(c) ==
    /\ client[c].pc = "woken"
    /\ client' = [client EXCEPT ![c].pc = "check"]
    /\ Join(TheClient(c))
    /\ UNCHANGED <<store, engine, idleEvent, bounds, history>>

\* The caller gives up (its RPC is cancelled, which cancels the handler where it
\* waits): the operation fails and the context stays cancelled.
GivesUp(c) ==
    /\ client[c].pc = "asleep"
    /\ faults < MaxFaults
    /\ faults' = faults + 1
    /\ client' = [client EXCEPT ![c] = Idle]
    /\ UNCHANGED <<store, engine, lockQ, idleEvent, added, ops, history>>

\* The vectors of the deleted rows are left behind: what a failing index does,
\* and a seeded fault of DeletesBeyond.
DeletesBeyond_RowsOnly(d, n) ==
    /\ forest' = [forest EXCEPT ![d] = Cut(@, n)]
    /\ embedded' = [embedded EXCEPT ![d] = @ \cap Cut(forest[d], n)]
    /\ UNCHANGED vectors

DeletesBeyond(d, n) ==
    /\ forest' = [forest EXCEPT ![d] = Cut(@, n)]
    /\ embedded' = [embedded EXCEPT ![d] = @ \cap Cut(forest[d], n)]
    /\ vectors' = [vectors EXCEPT ![d] = @ \ (forest[d] \ Cut(forest[d], n))]

\* The context is dropped and, with no await in between, rows and vectors are
\* deleted under the document's lock.
LetsGo(c) ==
    /\ client[c].pc = "drop"
    /\ Holds(TheClient(c))
    /\ context' = [context EXCEPT ![client[c].doc] = "none"]
    /\ client' = [client EXCEPT ![c] = Idle]
    /\ Leave
    /\ UNCHANGED <<activeDocs, running, dirty, scheduling, round, finder,
                   idleEvent, added, ops, missed, exposed>>

Drops(c) ==
    /\ LetsGo(c)
    /\ DeletesBeyond(client[c].doc, client[c].keep)
    /\ UNCHANGED <<faults, orphans>>

\* The vector index fails: that is logged, and the vectors stay.
DropsRowsOnly(c) ==
    /\ LetsGo(c)
    /\ faults < MaxFaults
    /\ faults' = faults + 1
    /\ DeletesBeyond_RowsOnly(client[c].doc, client[c].keep)
    /\ orphans' = [orphans EXCEPT ![client[c].doc] =
                      @ \cup (forest[client[c].doc] \ Cut(forest[client[c].doc], client[c].keep))]

ClientSteps(c) ==
    \/ Triggers(c) \/ Cancels(c) \/ Checks(c) \/ Arms(c) \/ Rechecks(c) \/ Drops(c)

-----------------------------------------------------------------------------
\* The process stops and is started again: the tables survive, and the server
\* triggers every listed document before it serves a client.  A truncation to
\* nothing leaves the document listed, clearing it does not.
Restarts ==
    /\ faults < MaxFaults
    /\ faults' = faults + 1
    /\ \E listed \in SUBSET {d \in Docs : added[d] > 0}, task \in [Docs -> Finders] :
          /\ {d \in Docs : forest[d] # {}} \subseteq listed
          /\ task = CHOOSE t \in [Docs -> Finders] :
                       \A d, e \in Docs : d # e => t[d] # t[e]
          /\ context' = [d \in Docs |-> IF d \in listed THEN "live" ELSE "none"]
          /\ activeDocs' = listed
          /\ finder' = [f \in Finders \cup {SCHED} |->
                          IF \E d \in listed : f = task[d]
                          THEN Begin(CHOOSE d \in Docs : f = task[d]) ELSE Off]
          /\ idleEvent' = (listed = {})
    /\ running' = [j \in {} |-> "new"]
    /\ dirty' = {}
    /\ scheduling' = FALSE
    /\ round' = {}
    /\ lockQ' = <<>>
    /\ client' = [c \in Clients |-> Idle]
    /\ missed' = {}
    /\ UNCHANGED <<store, added, ops, exposed, orphans>>

Operations ==
    \E c \in Clients, d \in Docs :
        \/ \E k \in 1 .. MaxBatch : Appends(c, d, k)
        \/ \E n \in 0 .. MaxLeaves : Truncates(c, d, n)

Next ==
    \/ Operations
    \/ \E c \in Clients : ClientSteps(c) \/ GivesUp(c) \/ DropsRowsOnly(c)
    \/ \E f \in Finders \cup {SCHED} : FinderSteps(f)
    \/ NextInRound \/ NextRound
    \/ \E j \in DOMAIN running : JobSteps(j) \/ JobFails(j)
    \/ Restarts

Spec == Init /\ [][Next]_vars

\* The event loop runs every task that can run, and every model call returns.
Fairness ==
    /\ \A c \in Clients : WF_vars(ClientSteps(c))
    /\ \A f \in Finders \cup {SCHED} : WF_vars(FinderSteps(f))
    /\ WF_vars(NextInRound \/ NextRound)
    /\ WF_vars(\E j \in DOMAIN running : JobSteps(j))

FairSpec == Spec /\ Fairness

-----------------------------------------------------------------------------
(* Properties *)

Coordinate == Nat \X Nat

TypeOK ==
    /\ forest \in [Docs -> SUBSET Coordinate]
    /\ \A d \in Docs : embedded[d] \subseteq LeavesOf(forest[d])
    /\ context \in [Docs -> {"none", "live", "cancelled"}]
    /\ activeDocs \subseteq Docs /\ dirty \subseteq Docs /\ round \subseteq Docs
    /\ DOMAIN running \subseteq Job
    /\ \A j \in DOMAIN running : running[j] \in {"new", "model", "done", "failed"}
    /\ scheduling \in BOOLEAN /\ idleEvent \in BOOLEAN
    /\ added \in [Docs -> 0 .. MaxLeaves] /\ ops \in 0 .. MaxOps /\ faults \in 0 .. MaxFaults

\* Every finder counts the free slots and the free work in one locked section
\* and fills them in another; yet there are never more jobs than slots, and a
\* job that has not written still has its work to do: no leaf is embedded and
\* no pair summarised a second time, and no job works for a node that a
\* truncation took away - unless the document was truncated when it had no
\* context to cancel, but work left.
JobsAreRightlyClaimed ==
    /\ Cardinality(DOMAIN running) <= MaxParallelism
    /\ \A j \in DOMAIN running :
        running[j] \in {"new", "model"} /\ j.doc \notin exposed =>
            /\ StillNeeded(j)
            /\ j.at \notin embedded[j.doc] \/ j.kind = "summary"

\* Every summary stands over two nodes that are there, and every vector over
\* a leaf that is, but for the vectors that a failing index kept when their
\* leaves were deleted; not so in a document that was truncated when it had no
\* context to cancel, but work left.
NothingDangles ==
    \A d \in Docs \ exposed :
        Supported(forest[d]) /\ vectors[d] \subseteq forest[d] \cup orphans[d]

Indexed(d) == Finished(forest[d]) /\ embedded[d] = LeavesOf(forest[d])

\* The leaves of an append whose trigger is still to come.
TriggerPending(d) == \E c \in Clients : client[c].pc = "trigger" /\ client[c].doc = d

\* A document that was triggered and that the engine no longer lists as active
\* is indexed completely: what wait_until_idle and the idle callback report.
\* The exceptions are a document with a job that failed and ended between the
\* two sections of a finder - the finder saw the job and so did not find its
\* work, and then saw no job - and one that was truncated without a context.
IdleMeansIndexed ==
    \A d \in Docs \ (missed \cup exposed) :
        context[d] = "live" /\ d \notin activeDocs /\ ~TriggerPending(d)
        => Indexed(d) /\ JobsOf(d) = {}

\* When the clients are done every document that was triggered is indexed, and
\* stays so; but one whose failed job was missed may be forgotten.
EverythingIsIndexed ==
    \A d \in Docs :
        <>[](context[d] = "live" => Indexed(d) \/ d \in missed \cup exposed)

\* No client waits for ever, although all waiters share one event that any of
\* them may clear.
WaitsEnd ==
    \A c \in Clients : client[c].pc # "idle" ~> client[c].pc = "idle"

=============================================================================
