----------------------------- MODULE TelemetryLog -----------------------------
(***************************************************************************)
(* What is recorded of the work of runs, and what is shown of it           *)
(* (ragzoom/telemetry_collection.py, telemetry_log.py, telemetry_export.py,*)
(* server/run_manager.py; GetTelemetry and ExportTelemetry of              *)
(* server/servicers.py).                                                   *)
(*                                                                         *)
(* A run collects the work on its nodes in memory and, as it goes, writes  *)
(* lines into the journal of its document: a directory, whose name two     *)
(* documents may share.  A line is written by a thread while the event     *)
(* loop goes on, and a process that ends may leave half of it.             *)
(*                                                                         *)
(* When a run's work is done, and which run a node belongs to, is in       *)
(* IndexingRuns; here a run adds one leaf and any number of summaries.     *)
(***************************************************************************)
EXTENDS Naturals, Sequences, FiniteSets, Functions

CONSTANTS Reported,     \* documents
          Directory,    \* _sanitize_document_id
          NoMetadata,
          MaxRuns,      \* bound: runs
          MaxNodes,     \* bound: nodes ever tracked
          MaxUpsets     \* bound: failing calls, truncations, clears and process ends

ASSUME LogConstants ==
  /\ Directory \in [Reported -> Range(Directory)]
  /\ NoMetadata \notin Reported
  /\ {MaxRuns, MaxNodes, MaxUpsets} \subseteq Nat

VARIABLES kept,      \* the nodes of each document, each with its height
          runs,      \* all runs, in the order they were started
          folder,    \* each directory: telemetry.meta.json and telemetry.events.jsonl
          tracked,   \* nodes ever tracked
          wiping,    \* documents that were cleared and whose journal is yet to go
          upsets,
          overrun    \* history: runs whose lines were deleted

logVars == <<kept, runs, folder, tracked, wiping, upsets, overrun>>

Ids == 1 .. MaxNodes
NoNode == 0
EmptyFolder == [meta |-> NoMetadata, lines |-> <<>>, torn |-> FALSE]
Line(event, r, nodes) == [event |-> event, run |-> r, nodes |-> nodes]
Garbage == Line("garbage", 0, <<>>)

LogInit ==
  /\ kept = [d \in Reported |-> <<>>]
  /\ runs = <<>>
  /\ folder = [x \in Range(Directory) |-> EmptyFolder]
  /\ tracked = 0 /\ wiping = {} /\ upsets = 0 /\ overrun = {}

DirectoryOf(r) == Directory[runs[r].document]
RunsOf(d) == {r \in DOMAIN runs : runs[r].document = d}
WritersOf(x) == {r \in DOMAIN runs : DirectoryOf(r) = x}

\* under the lock of its document
AppendSteps == {"metadata", "started", "commit", "committed"}
Appending(d) == \E r \in RunsOf(d) : runs[r].step \in AppendSteps
Adding(f, n, value) == [m \in {n} \cup DOMAIN f |-> IF m = n THEN value ELSE f[m]]

AtStep(r, step) == r \in DOMAIN runs /\ runs[r].step = step
Advance(r, step) == runs' = [runs EXCEPT ![r].step = step]
Upset == upsets < MaxUpsets /\ upsets' = upsets + 1

-----------------------------------------------------------------------------
(* The collector: what a run did for each node it tracks *)

track_node_created(c, n, height) ==
  Adding(c, n, [height |-> height, embedded |-> FALSE, attempts |-> 0])
record_embedding_call(c, n) == [c EXCEPT ![n].embedded = TRUE]
record_summary_attempt(c, n) == [c EXCEPT ![n].attempts = @ + 1]

(***************************************************************************)
(* append_event: after half a line the next one continues that line, and   *)
(* both are lost.                                                          *)
(***************************************************************************)
append_event(x, line) ==
  folder' = IF folder[x].torn THEN [folder EXCEPT ![x].torn = FALSE]
            ELSE [folder EXCEPT ![x].lines = Append(@, line)]

-----------------------------------------------------------------------------
(* A run *)

StartRun(d, replace) ==
  /\ Len(runs) < MaxRuns /\ ~Appending(d)
  /\ runs' = Append(runs, [document |-> d, status |-> "in_progress", step |-> "metadata",
                           replace |-> replace, leaf |-> NoNode, job |-> NoNode,
                           collector |-> <<>>])
  /\ UNCHANGED <<kept, folder, tracked, wiping, upsets, overrun>>

ensure_metadata(r) ==
  /\ AtStep(r, "metadata")
  /\ LET x == DirectoryOf(r)
         old == folder[x] IN
       /\ folder' = [folder EXCEPT ![x] = IF runs[r].replace THEN EmptyFolder ELSE old,
                                   ![x].meta = runs[r].document]
       /\ overrun' = IF runs[r].replace
                     THEN overrun \cup {q \in WritersOf(x) : runs[q].step # "metadata"}
                     ELSE overrun
  /\ Advance(r, "started")
  /\ UNCHANGED <<kept, tracked, wiping, upsets>>

LogStarted(r) ==
  /\ AtStep(r, "started")
  /\ append_event(DirectoryOf(r), Line("append_started", r, <<>>))
  /\ Advance(r, "commit")
  /\ UNCHANGED <<kept, tracked, wiping, upsets, overrun>>

AppendLeaf(r) ==
  /\ AtStep(r, "commit") /\ tracked < MaxNodes
  /\ tracked' = tracked + 1
  /\ kept' = [kept EXCEPT ![runs[r].document] = Adding(@, tracked', 0)]
  /\ runs' = [runs EXCEPT ![r].step = "committed", ![r].leaf = tracked',
                          ![r].collector = track_node_created(@, tracked', 0)]
  /\ UNCHANGED <<folder, wiping, upsets, overrun>>

record_node_committed(r) ==
  /\ AtStep(r, "committed")
  /\ append_event(DirectoryOf(r), Line("node_committed", r, [n \in {runs[r].leaf} |-> 0]))
  /\ Advance(r, "working")
  /\ UNCHANGED <<kept, tracked, wiping, upsets, overrun>>

EmbedsLeaf(r) ==
  /\ AtStep(r, "working") /\ runs[r].leaf \in DOMAIN kept[runs[r].document]
  /\ runs' = [runs EXCEPT ![r].collector = record_embedding_call(@, runs[r].leaf)]
  /\ UNCHANGED <<kept, folder, tracked, wiping, upsets, overrun>>

\* each try has a node of its own, tracked before the model is asked
StartsSummary(r) ==
  /\ AtStep(r, "working") /\ runs[r].job = NoNode /\ tracked < MaxNodes
  /\ tracked' = tracked + 1
  /\ runs' = [runs EXCEPT ![r].job = tracked',
       ![r].collector = record_summary_attempt(track_node_created(@, tracked', 1), tracked')]
  /\ UNCHANGED <<kept, folder, wiping, upsets, overrun>>

EndsSummary(r) ==
  /\ AtStep(r, "working") /\ runs[r].job # NoNode
  /\ \/ Upset /\ UNCHANGED kept
     \/ /\ kept' = [kept EXCEPT ![runs[r].document] = Adding(@, runs[r].job, 1)]
        /\ UNCHANGED upsets
  /\ runs' = [runs EXCEPT ![r].job = NoNode]
  /\ UNCHANGED <<folder, tracked, wiping, overrun>>

(***************************************************************************)
(* complete_run: the status and the result are final before the line is    *)
(* written.                                                                *)
(***************************************************************************)
Finalized(r, status) == [runs EXCEPT ![r].status = status, ![r].step = "ending"]

CompleteRun(r) ==
  /\ AtStep(r, "working") /\ runs[r].job = NoNode
  /\ runs[r].collector[runs[r].leaf].embedded
  /\ runs' = Finalized(r, "completed")
  /\ UNCHANGED <<kept, folder, tracked, wiping, upsets, overrun>>

FailRun(r) ==
  /\ r \in DOMAIN runs /\ runs[r].step \in AppendSteps
  /\ Upset
  /\ runs' = Finalized(r, "failed")
  /\ UNCHANGED <<kept, folder, tracked, wiping, overrun>>

LogEnd(r) ==
  /\ AtStep(r, "ending")
  /\ append_event(DirectoryOf(r),
       IF runs[r].status = "failed" THEN Line("append_failed", r, <<>>)
       ELSE Line("append_completed", r, runs[r].collector))
  /\ Advance(r, "over")
  /\ UNCHANGED <<kept, tracked, wiping, upsets, overrun>>

-----------------------------------------------------------------------------
(* Truncation and clearing: the runs under way are never completed, for    *)
(* the engine has dropped them.                                            *)

Dropped(d) ==
  [r \in DOMAIN runs |->
     IF r \in RunsOf(d) /\ runs[r].step = "working"
     THEN [runs[r] EXCEPT !.step = "lost"] ELSE runs[r]]

CutNodes(d) ==
  /\ ~Appending(d)
  /\ \A r \in RunsOf(d) : runs[r].job = NoNode
  /\ kept[d] # <<>>
  /\ Upset
  /\ \/ /\ \E n \in DOMAIN kept[d] : kept' = [kept EXCEPT ![d] = Restrict(@, {m \in DOMAIN @ : m < n})]
        /\ UNCHANGED wiping
     \/ /\ kept' = [kept EXCEPT ![d] = <<>>]
        /\ wiping' = wiping \cup {d}
  /\ runs' = Dropped(d)
  /\ UNCHANGED <<folder, tracked, overrun>>

\* clear of the journal, after the lock of the document was given back
WipeJournal(d) ==
  /\ d \in wiping
  /\ wiping' = wiping \ {d}
  /\ folder' = [folder EXCEPT ![Directory[d]] = EmptyFolder]
  /\ overrun' = overrun \cup {r \in WritersOf(Directory[d]) : runs[r].step # "metadata"}
  /\ UNCHANGED <<kept, runs, tracked, upsets>>

(***************************************************************************)
(* The process ends, perhaps while a line is being written, and another    *)
(* starts: it knows no runs.                                               *)
(***************************************************************************)
Writing == {r \in DOMAIN runs : runs[r].step \in {"started", "committed", "ending"}}

RestartServer ==
  /\ Upset
  /\ \/ UNCHANGED folder
     \/ \E r \in Writing :
          folder' = [folder EXCEPT ![DirectoryOf(r)].torn = TRUE,
            ![DirectoryOf(r)].lines = IF folder[DirectoryOf(r)].torn THEN @ ELSE Append(@, Garbage)]
  /\ runs' = [r \in DOMAIN runs |->
       IF runs[r].step = "over" THEN runs[r]
       ELSE [runs[r] EXCEPT !.step = "lost", !.job = NoNode]]
  /\ wiping' = {}
  /\ UNCHANGED <<kept, tracked, overrun>>

LogNext ==
  \/ \E d \in Reported :
       \/ \E replace \in BOOLEAN : StartRun(d, replace)
       \/ CutNodes(d) \/ WipeJournal(d)
  \/ \E r \in DOMAIN runs :
       \/ ensure_metadata(r) \/ LogStarted(r) \/ AppendLeaf(r) \/ record_node_committed(r)
       \/ EmbedsLeaf(r) \/ StartsSummary(r) \/ EndsSummary(r)
       \/ CompleteRun(r) \/ FailRun(r) \/ LogEnd(r)
  \/ RestartServer

LogSpec == LogInit /\ [][LogNext]_logVars

-----------------------------------------------------------------------------
(* What is shown *)

GetTelemetry(r) ==
  [complete |-> runs[r].status # "in_progress",
   nodes |-> IF runs[r].status = "completed" THEN runs[r].collector ELSE <<>>]

replay_events_StopsAtGarbage(x) ==        \* seeded fault
  {i \in DOMAIN folder[x].lines : \A j \in 1 .. i : folder[x].lines[j] # Garbage}

\* the places of the lines that can be read
replay_events(x) == {i \in DOMAIN folder[x].lines : folder[x].lines[i] # Garbage}

Ended == {"append_completed", "append_failed"}
Exportable(x) ==
  /\ folder[x].meta # NoMetadata
  /\ \E i \in replay_events(x) : folder[x].lines[i].event = "append_completed"

(* The work on a node is that of the last completed run that tells of it;  *)
(* its height is that of the stored node.                                  *)
ShownNode(x, n, height) ==
  LET lines == folder[x].lines
      telling == {i \in replay_events(x) :
                    lines[i].event = "append_completed" /\ n \in DOMAIN lines[i].nodes}
  IN IF telling = {} THEN [height |-> height, embedded |-> FALSE, attempts |-> 0]
     ELSE [lines[CHOOSE i \in telling : \A j \in telling : j <= i].nodes[n]
             EXCEPT !.height = height]

\* the runs that ended, by their last line
History(x) ==
  LET lines == folder[x].lines
      ends == {i \in replay_events(x) : lines[i].event \in {"append_started"} \cup Ended}
  IN {<<lines[i].run, lines[i].event>> : i \in {k \in ends :
        /\ lines[k].event \in Ended
        /\ \A j \in ends : lines[j].run = lines[k].run => j <= k}}

ExportTelemetry(d) ==
  [document |-> folder[Directory[d]].meta,
   nodes |-> [n \in DOMAIN kept[d] |-> ShownNode(Directory[d], n, kept[d][n])],
   history |-> History(Directory[d])]

\* _telemetry_consistency
TelemetryFindings(d, t) ==
  (IF t.document # d THEN {"document_mismatch"} ELSE {})
    \cup (IF DOMAIN kept[d] \ DOMAIN t.nodes # {} THEN {"node.missing"} ELSE {})
    \cup (IF DOMAIN t.nodes \ DOMAIN kept[d] # {} THEN {"node.unexpected"} ELSE {})
    \cup (IF \E n \in DOMAIN kept[d] \cap DOMAIN t.nodes : t.nodes[n].height # kept[d][n]
          THEN {"mismatch.height"} ELSE {})

(***************************************************************************)
(* Once its line is written, what a run did shows for good: whatever       *)
(* other runs fail, whatever lines a process that ended left in half, and  *)
(* whoever shares the directory, until somebody clears or replaces a       *)
(* document of that directory.  The export has the work on every stored    *)
(* node as GetTelemetry told it, and the run once in its history; and the  *)
(* validator has nothing to say but that the metadata are another's.       *)
(***************************************************************************)
ExportShowsTheWork ==
  \A r \in DOMAIN runs :
    LET d == runs[r].document
        told == GetTelemetry(r)
        shown == ExportTelemetry(d)
    IN r \notin overrun /\ runs[r].step = "over" /\ runs[r].status = "completed" =>
         /\ Exportable(Directory[d])
         /\ \A n \in DOMAIN told.nodes \cap DOMAIN kept[d] : shown.nodes[n] = told.nodes[n]
         /\ {e \in shown.history : e[1] = r} = {<<r, "append_completed">>}
         /\ TelemetryFindings(d, shown) \subseteq
              {f \in {"document_mismatch"} : \E e \in Reported \ {d} : Directory[e] = Directory[d]}
=============================================================================
