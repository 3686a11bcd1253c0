--------------------------- MODULE DocumentRequests ---------------------------
(***************************************************************************)
(* The requests that change documents, as the handlers of IndexerServicer  *)
(* (server/servicers.py) run them through DocumentIndexSession             *)
(* (indexing/runtime.py) and AppendExecutor (server/append_executor.py).   *)
(*                                                                         *)
(* A handler checks its arguments, awaits the end of the document's        *)
(* indexing jobs, takes the document's lock without waiting, works, and    *)
(* gives the lock back.  On SQLite the lock is a file, so that two servers *)
(* on one store exclude each other and so that a server that dies leaves   *)
(* it behind - as does a request that cannot write the file's first line   *)
(* or cannot remove it again; the lock of the threads of one server is     *)
(* taken after the file and is then always free.  On Postgres it is an     *)
(* advisory lock that the thread of the event loop waits for, all its      *)
(* requests with it.                                                       *)
(* Requests are those that collect telemetry: they await between the       *)
(* transactions of a batch, and the others have fewer interleavings.       *)
(*                                                                         *)
(* A leaf is a record of its place, the request that appended it, and      *)
(* whether it has a time.                                                  *)
(***************************************************************************)
EXTENDS Naturals, Sequences, FiniteSets, FiniteSetsExt, TLC

CONSTANTS Hosts,            \* server processes
          Documents, Requests, Nobody,
          LockFiles,        \* TRUE on SQLite, FALSE on Postgres
          MaxUnits,         \* bound: units of a batch
          MaxLeaves         \* bound: leaves appended to a document

ASSUME RequestConstants ==
  /\ Nobody \notin Requests
  /\ LockFiles \in BOOLEAN
  /\ {MaxUnits, MaxLeaves} \subseteq Nat

VARIABLES documents,        \* the rows of table documents: is_temporal of each
          leaves,           \* the leaves of each document
          lockFile,         \* of each document: the request that created it
          serving,          \* the servers that are up
          handler           \* where each request stands

requestVars == <<documents, leaves, lockFile, serving, handler>>

NoRequest == [at |-> "off", kind |-> "none", doc |-> Nobody, server |-> Nobody,
              units |-> <<>>, committed |-> 0, base |-> 0, rest |-> {}, sawHolder |-> TRUE]

RequestsInit ==
  /\ documents = [d \in {} |-> FALSE]
  /\ leaves = [d \in Documents |-> {}]
  /\ lockFile = [d \in Documents |-> Nobody]
  /\ serving = Hosts
  /\ handler = [r \in Requests |-> NoRequest]

Rightmost(d) == Max({0} \cup {leaf.place : leaf \in leaves[d]})
Known(d) == d \in DOMAIN documents
Temporal(d) == Known(d) /\ documents[d]

(* What is in doubt is whether some units of a batch have a time. *)
HasTimes(units) == \E i \in DOMAIN units : units[i]

Goes(r, at) == handler' = [handler EXCEPT ![r].at = at]
RequestEnds(r, how) == handler' = [handler EXCEPT ![r] = [NoRequest EXCEPT !.at = how]]

(* The event loop of a server waits for a lock. *)
Waits(s) == \E r \in Requests : handler[r].server = s /\ handler[r].at = "blocked"

Arrives(r, kind, d, units, rest, at) ==
  \E s \in {s \in serving : ~Waits(s)} :
    /\ handler[r] = NoRequest
    /\ handler' = [handler EXCEPT ![r] =
         [NoRequest EXCEPT !.at = at, !.kind = kind, !.doc = d, !.server = s,
                           !.units = units, !.rest = rest]]
    /\ UNCHANGED <<documents, leaves, lockFile, serving>>

(* AppendText and BatchAppendText: a unit with or without a time.  The     *)
(* handler lets a batch mix them; one unit is a batch of one.              *)
AppendText(r, d, units) == Arrives(r, "append", d, units, {}, "waiting")

(* IndexDocument, and AppendText with replace_existing: clear, then append *)
IndexDocument(r, d) == Arrives(r, "index", d, <<FALSE>>, {}, "waiting")

(* TruncateDocument: the document need not exist *)
TruncateDocument(r, d) == Arrives(r, "truncate", d, <<>>, {}, "waiting")

(* TruncateFromTime looks at the document before it has the lock, and not  *)
(* again                                                                   *)
TruncateFromTime(r, d) ==
  IF leaves[d] # {} /\ Temporal(d)
  THEN Arrives(r, "time", d, <<>>, {}, "waiting")
  ELSE Arrives(r, "refused", Nobody, <<>>, {}, "refused")

(* ClearDocument: the documents it was given, or all that have a row, one  *)
(* after the other                                                         *)
ClearDocument(r, named) ==
  IF named = {} THEN Arrives(r, "none", Nobody, <<>>, {}, "done")
  ELSE \E d \in named : Arrives(r, "clear", d, <<>>, named \ {d}, "waiting")

-----------------------------------------------------------------------------
(* The lock: the file is created, or the request is refused as busy.  The   *)
(* file is there before its first line is written: when that write fails,  *)
(* the request fails and the file stays, for only who has entered will     *)
(* leave.  The same when the file cannot be removed.  A request stuck so   *)
(* has ended, and keeps the document.                                      *)

MayLock_ChecksThenWrites(d) == TRUE     \* seeded fault: open without O_EXCL

MayLock(d) == lockFile[d] = Nobody

HoldsIt(r, d) ==
  /\ handler[r].doc = d
  /\ handler[r].at \in {"locked", "working", "died", "stuck"}

Stuck(r) ==
  /\ LockFiles
  /\ handler' = [handler EXCEPT ![r] = [NoRequest EXCEPT !.at = "stuck", !.doc = handler[r].doc]]

TakeLock(r) ==
  LET d == handler[r].doc IN
  /\ handler[r].at = "waiting"
  /\ \/ /\ MayLock(d)
        /\ lockFile' = [lockFile EXCEPT ![d] = r]
        /\ Goes(r, "locked") \/ Stuck(r)
     \/ /\ ~MayLock(d) /\ UNCHANGED lockFile
        /\ IF ~LockFiles THEN Goes(r, "blocked")
           ELSE handler' = [handler EXCEPT ![r] = [NoRequest EXCEPT
                  !.at = "busy", !.sawHolder = HoldsIt(lockFile[d], d)]]
     \/ RequestEnds(r, "failed") /\ UNCHANGED lockFile
  /\ UNCHANGED <<documents, leaves, serving>>

(* Postgres grants an advisory lock; the event loop runs again *)
Granted(r) ==
  LET d == handler[r].doc IN
  /\ handler[r].at = "blocked" /\ lockFile[d] = Nobody
  /\ lockFile' = [lockFile EXCEPT ![d] = r]
  /\ Goes(r, "locked")
  /\ UNCHANGED <<documents, leaves, serving>>

GivenBack(r) == [lockFile EXCEPT ![handler[r].doc] = Nobody]

(* The end of the work under the lock, whatever comes next *)
LetsGo(r, next) ==
  \/ handler' = [handler EXCEPT ![r] = next] /\ lockFile' = GivenBack(r)
  \/ Stuck(r) /\ UNCHANGED lockFile

Leaves(r, how) == LetsGo(r, [NoRequest EXCEPT !.at = how])

(* Appending.  The row is added if there is none; the first leaf decides   *)
(* whether the document is temporal - it sets the flag, and never takes it *)
(* back - and later ones must agree with it.                               *)
Empty(d) == leaves[d] = {}

Agrees(r) == LET d == handler[r].doc IN
  Empty(d) \/ (Temporal(d) <=> HasTimes(handler[r].units))

StartAppend(r) ==
  LET d == handler[r].doc IN
  /\ handler[r].at = "locked" /\ handler[r].kind = "append"
  /\ LET flag == Temporal(d) \/ (Empty(d) /\ HasTimes(handler[r].units))
     IN documents' = [e \in DOMAIN documents \cup {d} |->
                        IF e = d THEN flag ELSE documents[e]]
  /\ IF Agrees(r)
     THEN /\ handler' = [handler EXCEPT ![r].at = "working", ![r].base = Rightmost(d)]
          /\ UNCHANGED lockFile
     ELSE Leaves(r, "refused")
  /\ UNCHANGED <<leaves, serving>>

(* append_batch: one transaction for each unit; the places were counted     *)
(* from the rightmost leaf of the beginning                                *)
AppendUnit(r) ==
  LET d == handler[r].doc  k == handler[r].committed + 1 IN
  /\ handler[r].at = "working" /\ k <= Len(handler[r].units)
  /\ Cardinality(leaves[d]) < MaxLeaves
  /\ leaves' = [leaves EXCEPT ![d] = @ \cup
       {[place |-> handler[r].base + k, by |-> r, timed |-> handler[r].units[k]]}]
  /\ handler' = [handler EXCEPT ![r].committed = k]
  /\ UNCHANGED <<documents, lockFile, serving>>

EndAppend(r) ==
  /\ handler[r].at = "working" /\ handler[r].committed = Len(handler[r].units)
  /\ Leaves(r, "done")
  /\ UNCHANGED <<documents, leaves, serving>>

(* delete_nodes_from_span: the leaves from a place on *)
DeleteFromSpan(r) ==
  LET d == handler[r].doc IN
  /\ handler[r].at = "locked" /\ handler[r].kind = "truncate"
  /\ \E from \in 1..Rightmost(d) + 1 :
       leaves' = [leaves EXCEPT ![d] = {leaf \in @ : leaf.place < from}]
  /\ Leaves(r, "done")
  /\ UNCHANGED <<documents, serving>>

(* delete_nodes_from_time: the leaves with a later time; those without one *)
(* are not compared and stay                                               *)
DeleteFromTime(r) ==
  LET d == handler[r].doc IN
  /\ handler[r].at = "locked" /\ handler[r].kind = "time"
  /\ \E from \in 1..Rightmost(d) + 1 :
       leaves' = [leaves EXCEPT ![d] =
                    {leaf \in @ : leaf.place < from \/ ~leaf.timed}]
  /\ Leaves(r, "done")
  /\ UNCHANGED <<documents, serving>>

(* clear_document: the row and the leaves go together.  IndexDocument lets *)
(* the lock go and asks for it again; ClearDocument turns to its next one  *)
(* (in the order of their ids, here in any).                               *)
AfterClear(r) ==
  IF handler[r].kind = "index"
  THEN {[handler[r] EXCEPT !.kind = "append", !.at = "waiting"]}
  ELSE IF handler[r].rest = {} THEN {[NoRequest EXCEPT !.at = "done"]}
  ELSE {[handler[r] EXCEPT !.doc = d, !.rest = @ \ {d}, !.at = "waiting"] :
          d \in handler[r].rest}

Clear(r) ==
  LET d == handler[r].doc IN
  /\ handler[r].at = "locked" /\ handler[r].kind \in {"clear", "index"}
  /\ documents' = [e \in DOMAIN documents \ {d} |-> documents[e]]
  /\ leaves' = [leaves EXCEPT ![d] = {}]
  /\ \E next \in AfterClear(r) : LetsGo(r, next)
  /\ UNCHANGED serving

\* Seeded fault: a request that fails does not give the lock back.
RequestBreaks_Locked(r) ==
  /\ handler[r].at \in {"locked", "working"}
  /\ RequestEnds(r, "failed") /\ UNCHANGED lockFile
  /\ UNCHANGED <<documents, leaves, serving>>

(* The work fails or its deadline passes: the lock is let go on the way    *)
(* out; what an append has committed stays                                 *)
RequestBreaks(r) ==
  /\ handler[r].at \in {"locked", "working"}
  /\ Leaves(r, "failed")
  /\ UNCHANGED <<documents, leaves, serving>>

(* A server is killed; its lock files stay, its advisory locks go with its *)
(* connections                                                             *)
ServerDies(s) ==
  /\ s \in serving
  /\ serving' = serving \ {s}
  /\ handler' = [r \in Requests |->
       IF handler[r].server = s /\ handler[r].at \in {"waiting", "blocked", "locked", "working"}
       THEN [handler[r] EXCEPT !.at = "died"] ELSE handler[r]]
  /\ lockFile' = [d \in Documents |->
       IF ~LockFiles /\ lockFile[d] # Nobody /\ handler[lockFile[d]].server = s
       THEN Nobody ELSE lockFile[d]]
  /\ UNCHANGED <<documents, leaves>>

Arrival(r) ==
  \/ \E d \in Documents :
       \/ \E n \in 1..MaxUnits : \E units \in [1..n -> BOOLEAN] : AppendText(r, d, units)
       \/ IndexDocument(r, d) \/ TruncateDocument(r, d) \/ TruncateFromTime(r, d)
       \/ ClearDocument(r, {d})
  \/ ClearDocument(r, DOMAIN documents)

Works(r) ==
  \/ TakeLock(r) \/ StartAppend(r) \/ AppendUnit(r) \/ EndAppend(r)
  \/ DeleteFromSpan(r) \/ DeleteFromTime(r) \/ Clear(r) \/ RequestBreaks(r)

RequestsNext ==
  \/ \E r \in Requests : handler[r].at # "off" /\ ~Waits(handler[r].server) /\ Works(r)
  \/ \E r \in Requests : Granted(r) \/ Arrival(r)
  \/ \E s \in Hosts : ServerDies(s)

(* Which request, server and document is which makes no difference. *)
RequestsAlike == Permutations(Requests) \cup Permutations(Hosts) \cup Permutations(Documents)

RequestsSpec == RequestsInit /\ [][RequestsNext]_requestVars

-----------------------------------------------------------------------------
(* Whatever requests overlap on however many servers, a document's leaves  *)
(* never share a place, and no leaf of another request stands among the    *)
(* leaves of a batch (AppendExecutor.append_batch).                        *)
BatchesAreApart ==
  \A d \in Documents : \A a, b \in leaves[d] :
    /\ a.place = b.place => a = b
    /\ a.by = b.by => \A c \in leaves[d] :
         a.place < c.place /\ c.place < b.place => c.by = a.by

(* A request is refused as busy only while another one works on the        *)
(* document, or after one whose server died at its work, or whose lock     *)
(* file could not be written or removed: no other error on the way - of    *)
(* the work, of a refusal, between a clear and its append - leaves the     *)
(* lock behind (FileDocumentLock, DocumentIndexSession).                   *)
BusyHasAHolder == \A r \in Requests : handler[r].sawHolder

(* A second request on a document is refused at once, and locks are per    *)
(* document: no server waits for a lock that it holds itself, when nothing *)
(* it serves can go on any more (docs/api-reference.md: "Locks are         *)
(* per-document (you can index different documents concurrently)").        *)
HoldersGoOn ==
  \A r \in Requests : handler[r].at = "blocked" =>
    LET holder == lockFile[handler[r].doc]
    IN  holder # Nobody => handler[holder].server # handler[r].server
=============================================================================
