----------------------------- MODULE IndexingRuns -----------------------------
(***************************************************************************)
(* The runs that follow the indexing of what an append added, for one      *)
(* document (ragzoom/server/run_manager.py, the run bookkeeping of         *)
(* ragzoom/server/indexing_engine.py, ragzoom/indexing/runtime.py).        *)
(*                                                                         *)
(* An append that collects telemetry starts a run, commits its leaves and  *)
(* registers the run with the engine.  The engine credits each job to the  *)
(* run of its first node, and ends the oldest run when it has no job left. *)
(* Ending it writes a log file, and whatever the engine does meanwhile     *)
(* still finds the run registered.                                         *)
(*                                                                         *)
(* Which jobs exist is taken from the tree alone: the gates of the scan    *)
(* are in ForestScan, the race of several scans in IndexingEngine.         *)
(***************************************************************************)
EXTENDS Naturals, Sequences, FiniteSets, SequencesExt, Functions

CONSTANTS Runs,           \* appends that collect telemetry
          NoRun,
          NoContext,      \* a document the engine does not know
          MaxAppends,     \* bound: appends, each of one leaf
          Slots,          \* max_parallelism
          MaxMishaps,     \* bound: failing appends and jobs, and truncations
          MaxChecks       \* bound: tasks that look for runs to end at a time

ASSUME RunConstants ==
  /\ NoRun \notin Runs
  /\ {MaxAppends, MaxMishaps} \subseteq Nat
  /\ {Slots, MaxChecks} \subseteq Nat \ {0}

VARIABLES leaves,         \* how many leaves there are
          embedded,       \* the leaves whose embedding is stored
          inner,          \* the summaries, as <<height, index>>
          ctx,            \* the DocumentContext of the engine
          active,         \* the document is in _active_documents
          dirty,          \* a scan is due
          jobs,           \* the jobs in flight: where they are, and the run they looked up
          status,         \* of each run
          append,         \* the append that runs: its run and how far it is
          cutting,        \* a truncation waits for the document to be idle
          checks,         \* tasks that are about to look for runs to end
          closing,        \* how many tasks are writing the log of a run they ended
          appends, mishaps,
          owner,          \* the run of each leaf, whose collector tracks it
          early,          \* history: leaves claimed before their run was registered
          lost            \* history: runs that a truncation took out of the
                          \* engine, or that wait behind a leaf nobody announced

treeVars == <<leaves, embedded, inner>>
engineVars == <<ctx, active, dirty, jobs, checks, closing>>
clientVars == <<status, append, cutting, appends, mishaps>>
history == <<owner, early, lost>>
vars == <<treeVars, engineVars, clientVars, history>>

Put(f, key, value) == [k \in {key} \cup DOMAIN f |-> IF k = key THEN value ELSE f[k]]

Finished == checks < MaxChecks   \* a task may go on to look for runs to end

FreshContext == [queue |-> <<>>, collectors |-> {}, assigned |-> <<>>,
                 inflight |-> [r \in Runs |-> 0], jobRun |-> <<>>, cancelled |-> FALSE]

Open == {r \in Runs : status[r] = "in_progress"}
NoAppend == [stage |-> "idle", run |-> NoRun, leaf |-> 0]

Leaf(i) == <<0, i>>
Leaves == {Leaf(i) : i \in 0 .. leaves - 1}
Nodes == Leaves \cup inner
Parent(n) == <<n[1] + 1, n[2] \div 2>>
RightOf(n) == <<n[1], n[2] + 1>>

(***************************************************************************)
(* Jobs are named by what they do and the node they are credited by, which *)
(* of a pair is the left one.                                              *)
(***************************************************************************)
Jobs == {<<"embed", n>> : n \in Leaves \ embedded}
        \cup {<<"summarize", n>> : n \in {m \in Nodes :
                m[2] % 2 = 0 /\ RightOf(m) \in Nodes /\ Parent(m) \notin inner}}
FreshJobs == Jobs \ DOMAIN jobs

Assigned(c, n) == IF n \in DOMAIN c.assigned THEN c.assigned[n] ELSE NoRun

(* _assign_run_id_locked: a node without a run goes to the newest run *)
AssignRun(c, n) ==
  IF Assigned(c, n) # NoRun \/ c.queue = <<>> THEN Assigned(c, n) ELSE Last(c.queue)

Credit(c, n) ==
  IF AssignRun(c, n) = NoRun THEN c
  ELSE [c EXCEPT !.assigned = Put(@, n, AssignRun(c, n))]

Init ==
  /\ leaves = 0 /\ embedded = {} /\ inner = {}
  /\ ctx = NoContext /\ active = FALSE /\ dirty = FALSE
  /\ jobs = <<>>
  /\ status = [r \in Runs |-> "none"]
  /\ append = NoAppend
  /\ cutting = FALSE
  /\ checks = 0
  /\ closing = [r \in Runs |-> 0]
  /\ appends = 0 /\ mishaps = 0
  /\ owner = <<>> /\ early = {} /\ lost = {}

(***************************************************************************)
(* append_text, one at a time under the lock of the document.              *)
(***************************************************************************)
StartAppend(r) ==
  /\ append.stage = "idle"
  /\ appends < MaxAppends
  /\ appends' = appends + 1
  /\ r # NoRun => status[r] = "none"
  /\ append' = [stage |-> "started", run |-> r, leaf |-> leaves]
  /\ status' = IF r = NoRun THEN status ELSE [status EXCEPT ![r] = "in_progress"]
  /\ UNCHANGED <<treeVars, engineVars, cutting, mishaps, history>>

CommitLeaf ==
  /\ append.stage = "started"
  /\ append' = [append EXCEPT !.stage = "committed", !.leaf = leaves]
  /\ leaves' = leaves + 1
  /\ owner' = Put(owner, Leaf(leaves), append.run)
  /\ UNCHANGED <<embedded, inner, engineVars, status, cutting, appends, mishaps, early, lost>>

AppendFails ==
  /\ append.stage \in {"started", "committed"}
  /\ mishaps < MaxMishaps
  /\ mishaps' = mishaps + 1
  /\ append' = NoAppend
  /\ status' = IF append.run = NoRun THEN status ELSE [status EXCEPT ![append.run] = "failed"]
  /\ lost' = IF append.stage = "committed" THEN lost \cup Open ELSE lost
  /\ UNCHANGED <<treeVars, engineVars, cutting, appends, owner, early>>

(* register_run *)
Registered_NotInLine(c, r, n) ==    \* seeded fault: the run is not queued
  [c EXCEPT !.collectors = @ \cup {r}, !.assigned = Put(@, n, r)]
Registered(c, r, n) ==
  [c EXCEPT !.queue = Append(@, r), !.collectors = @ \cup {r},
            !.assigned = Put(@, n, r)]

RegisterRun ==
  /\ append.stage = "committed"
  /\ append' = [append EXCEPT !.stage = "registered"]
  /\ ctx' = IF append.run = NoRun THEN ctx
            ELSE Registered(IF ctx = NoContext THEN FreshContext ELSE ctx,
                            append.run, Leaf(append.leaf))
  /\ UNCHANGED <<treeVars, active, dirty, jobs, checks, closing,
                 status, cutting, appends, mishaps, history>>

(* trigger_work *)
TriggerWork ==
  /\ append.stage = "registered"
  /\ append' = NoAppend
  /\ ctx' = IF ctx = NoContext THEN FreshContext ELSE [ctx EXCEPT !.cancelled = FALSE]
  /\ active' = TRUE
  /\ dirty' = TRUE
  /\ UNCHANGED <<treeVars, jobs, checks, closing, status, cutting, appends, mishaps, history>>

(***************************************************************************)
(* A scan claims one job after the other for as long as it finds any.      *)
(***************************************************************************)
Counted(c, j, r) ==
  [Credit(c, j[2]) EXCEPT !.inflight[r] = @ + 1, !.jobRun = Put(@, j, r)]

Claim(j) ==
  /\ dirty
  /\ ctx # NoContext => ~ctx.cancelled
  /\ Cardinality(DOMAIN jobs) < Slots
  /\ j \in FreshJobs
  /\ jobs' = Put(jobs, j, [at |-> "claimed", run |-> NoRun])
  /\ LET r == IF ctx = NoContext THEN NoRun ELSE AssignRun(ctx, j[2]) IN
       ctx' = IF r = NoRun THEN ctx
              ELSE Counted(ctx, j, r)
  /\ early' = early \cup
       (IF append.stage = "committed" THEN {Leaf(append.leaf)} \cap {j[2]} ELSE {})
  /\ UNCHANGED <<treeVars, active, dirty, checks, closing, clientVars, owner, lost>>

ScanEnds ==
  /\ dirty
  /\ dirty' = FALSE
  /\ \/ /\ ctx # NoContext /\ ctx.cancelled
        /\ active' = FALSE
        /\ checks' = checks
     \/ /\ ctx # NoContext => ~ctx.cancelled
        /\ \/ Cardinality(DOMAIN jobs) >= Slots
           \/ FreshJobs = {} /\ jobs # <<>>
        /\ UNCHANGED <<active, checks>>
     \/ /\ ctx # NoContext => ~ctx.cancelled
        /\ FreshJobs = {} /\ jobs = <<>>
        /\ Finished
        /\ active' = FALSE
        /\ checks' = checks + 1
  /\ UNCHANGED <<treeVars, ctx, jobs, closing, clientVars, history>>

(***************************************************************************)
(* The job looks its run up again.  That the run has no collector any more *)
(* raises an exception, and so does, once the model has answered, that the *)
(* collector does not know the leaf: only the append that adds a leaf      *)
(* makes its run's collector track it, a summary's job does so itself.     *)
(***************************************************************************)
Tracks(r, j) == j[1] = "embed" => owner[j[2]] = r
Collectable(r, j) == r # NoRun => r \in ctx.collectors /\ Tracks(r, j)

StartJob(j) ==
  /\ j \in DOMAIN jobs
  /\ jobs[j].at = "claimed"
  /\ IF ctx = NoContext
       THEN jobs' = [jobs EXCEPT ![j].at = "working"] /\ ctx' = ctx
       ELSE LET r == AssignRun(ctx, j[2]) IN
            /\ ctx' = Credit(ctx, j[2])
            /\ jobs' = [jobs EXCEPT ![j] =
                 [at |-> IF Collectable(r, j) THEN "working" ELSE "failed", run |-> r]]
  /\ UNCHANGED <<treeVars, active, dirty, checks, closing, clientVars, history>>

(* The end of _run_job, and before it the commit of a job that succeeded. *)
Released(c, j) ==
  IF j \notin DOMAIN c.jobRun THEN c
  ELSE [c EXCEPT !.jobRun = RestrictDomain(@, LAMBDA k : k # j),
                 !.inflight[c.jobRun[j]] = @ - 1]

Commit(c, j) ==
  IF j[1] = "embed" \/ jobs[j].run = NoRun THEN c
  ELSE [c EXCEPT !.assigned = Put(@, Parent(j[2]), jobs[j].run)]

JobEnds(j, succeeded) ==
  /\ j \in DOMAIN jobs
  /\ Finished
  /\ IF succeeded
       THEN /\ jobs[j].at = "working"
            /\ embedded' = embedded \cup (IF j[1] = "embed" THEN {j[2]} ELSE {})
            /\ inner' = inner \cup (IF j[1] = "summarize" THEN {Parent(j[2])} ELSE {})
            /\ UNCHANGED mishaps
       ELSE /\ \/ jobs[j].at = "failed" /\ UNCHANGED mishaps
               \/ /\ jobs[j].at = "working"
                  /\ mishaps < MaxMishaps
                  /\ mishaps' = mishaps + 1
            /\ UNCHANGED <<embedded, inner>>
  /\ jobs' = RestrictDomain(jobs, LAMBDA k : k # j)
  /\ ctx' = IF ctx = NoContext THEN ctx
            ELSE Released(IF succeeded THEN Commit(ctx, j) ELSE ctx, j)
  /\ dirty' = TRUE
  /\ checks' = checks + 1
  /\ UNCHANGED <<leaves, active, closing, status, append, cutting, appends, history>>

(***************************************************************************)
(* _maybe_complete_runs: the oldest run ends when none of its jobs is in   *)
(* flight and none can be found.  Only then, and after the log is written, *)
(* is it taken out of the engine, and the next one is looked at.           *)
(***************************************************************************)
HasEligibleJob_None(r) == FALSE          \* seeded fault
HasEligibleJob(r) == \E j \in FreshJobs : Assigned(ctx, j[2]) = r

CanEnd(r) == ctx.inflight[r] = 0 /\ ~HasEligibleJob(r)

CheckRuns ==
  /\ checks > 0
  /\ checks' = checks - 1
  /\ IF ctx # NoContext /\ ctx.queue # <<>> /\ CanEnd(Head(ctx.queue))
       THEN LET r == Head(ctx.queue) IN
            /\ status' = [status EXCEPT ![r] = IF @ = "in_progress" THEN "completed" ELSE @]
            /\ closing' = [closing EXCEPT ![r] = @ + 1]
       ELSE UNCHANGED <<status, closing>>
  /\ UNCHANGED <<treeVars, ctx, active, dirty, jobs, append, cutting, appends, mishaps, history>>

Detached(c, r) ==
  [c EXCEPT !.queue = RemoveFirst(@, r),
            !.collectors = @ \ {r},
            !.inflight[r] = 0,
            !.jobRun = RestrictDomain(@, LAMBDA k : @[k] # r),
            !.assigned = RestrictDomain(@, LAMBDA n : @[n] # r)]

DetachRun(r) ==
  /\ closing[r] > 0
  /\ closing' = [closing EXCEPT ![r] = @ - 1]
  /\ IF ctx = NoContext THEN UNCHANGED <<ctx, checks>>
     ELSE Finished /\ ctx' = Detached(ctx, r) /\ checks' = checks + 1
  /\ UNCHANGED <<treeVars, active, dirty, jobs, clientVars, history>>

(***************************************************************************)
(* cancel_document, then the truncation: the context goes with the runs    *)
(* that are in it, and nobody ends them.                                   *)
(***************************************************************************)
StartCut ==
  /\ ~cutting
  /\ mishaps < MaxMishaps
  /\ leaves > 0
  /\ cutting' = TRUE
  /\ mishaps' = mishaps + 1
  /\ ctx' = IF ctx = NoContext THEN ctx ELSE [ctx EXCEPT !.cancelled = TRUE]
  /\ active' = FALSE
  /\ UNCHANGED <<treeVars, dirty, jobs, checks, closing, status, append, appends, history>>

EndCut ==
  /\ cutting
  /\ jobs = <<>> /\ ~active
  /\ append.stage = "idle"          \* the lock of the document
  /\ cutting' = FALSE
  /\ ctx' = NoContext
  /\ lost' = lost \cup {r \in Runs : ctx # NoContext /\ r \in Range(ctx.queue)}
  /\ \E kept \in 0 .. leaves - 1 :
       /\ leaves' = kept
       /\ embedded' = {n \in embedded : n[2] < kept}
       /\ inner' = {n \in inner : (n[2] + 1) * 2 ^ n[1] <= kept}
       /\ owner' = RestrictDomain(owner, LAMBDA n : n[2] < kept)
       /\ early' = {n \in early : n[2] < kept}
  /\ UNCHANGED <<active, dirty, jobs, checks, closing, status, append, appends, mishaps>>

Next ==
  \/ \E r \in Runs \cup {NoRun} : StartAppend(r)
  \/ CommitLeaf \/ AppendFails \/ RegisterRun \/ TriggerWork
  \/ \E j \in FreshJobs : Claim(j)
  \/ ScanEnds
  \/ \E j \in DOMAIN jobs : StartJob(j) \/ JobEnds(j, TRUE) \/ JobEnds(j, FALSE)
  \/ CheckRuns
  \/ \E r \in Runs : DetachRun(r)
  \/ StartCut \/ EndCut

Spec == Init /\ [][Next]_vars

(***************************************************************************)
(* The engine is one event loop: what its tasks can do they do.  A client  *)
(* that appends comes back from each call it made; nobody must append.     *)
(***************************************************************************)
FairSpec ==
  /\ Spec
  /\ WF_vars(CommitLeaf) /\ WF_vars(RegisterRun) /\ WF_vars(TriggerWork)
  /\ WF_vars(\E j \in FreshJobs : Claim(j)) /\ WF_vars(ScanEnds)
  /\ WF_vars(\E j \in DOMAIN jobs : StartJob(j))
  /\ WF_vars(\E j \in DOMAIN jobs : JobEnds(j, jobs[j].at = "working"))
  /\ WF_vars(CheckRuns)
  /\ WF_vars(\E r \in Runs : DetachRun(r))
  /\ WF_vars(EndCut)

-----------------------------------------------------------------------------
(* Types; the runs in line are those that have a collector. *)
TypeOK ==
  /\ leaves \in 0 .. MaxAppends /\ embedded \subseteq Leaves
  /\ \A n \in inner : n[1] > 0 /\ (n[2] + 1) * 2 ^ n[1] <= leaves
  /\ ctx # NoContext =>
       /\ ctx.collectors \subseteq Runs /\ Range(ctx.queue) = ctx.collectors
       /\ IsInjective(ctx.queue)
       /\ Range(ctx.assigned) \subseteq Runs
       /\ Range(ctx.jobRun) \subseteq Runs
  /\ Range(jobs) \subseteq [at : {"claimed", "working", "failed"}, run : Runs \cup {NoRun}]
  /\ Cardinality(DOMAIN jobs) <= Slots
  /\ \A r \in Runs : status[r] \in {"none", "in_progress", "completed", "failed"}
  /\ \A r \in Runs : closing[r] \in Nat
  /\ checks \in Nat

(* What an append added is embedded when its run is reported completed,    *)
(* unless a scan took the leaf between the append's commit and the         *)
(* registration of its run, and credited it to another one.                *)
CompletedRunsAreDone ==
  \A n \in DOMAIN owner :
    owner[n] # NoRun /\ n \notin early /\ status[owner[n]] = "completed"
      => n \in embedded

(* Every run ends that nothing took away, and whose engine has no node of  *)
(* a run that is gone, nor credited a run with a leaf of nobody's or of    *)
(* another's: GetTelemetry waits for it, and the daemon shows it.          *)
NodeOfADeadRun ==
  ctx # NoContext /\ ~(Range(ctx.assigned) \subseteq ctx.collectors)
StrayLeaf ==
  ctx # NoContext /\ \E n \in DOMAIN ctx.assigned :
                       n[1] = 0 /\ owner[n] # ctx.assigned[n]
RunsEnd ==
  \A r \in Runs :
    r \in Open ~> (r \notin Open \/ r \in lost \/ NodeOfADeadRun \/ StrayLeaf)

(* The collector of a run raises ValueError for a leaf it does not track,  *)
(* which "indicates tracking bug": a job embeds a leaf for the run that    *)
(* tracks it.  A leaf appended without telemetry, or left over by a run    *)
(* that a truncation removed, is credited to the newest run in line: its   *)
(* job fails each time it is tried, and the run never ends.                *)
EmbedsWhatItsRunTracks ==
  \A j \in DOMAIN jobs :
    jobs[j].at # "claimed" /\ jobs[j].run # NoRun /\ j[2] \notin early
      => Tracks(jobs[j].run, j)
=============================================================================
