---------------------------- MODULE TranscriptSync ----------------------------
(***************************************************************************)
(* Synchronising a Claude Code transcript into a document                  *)
(* (integrations/claude-code: transcript_sync.py, sync-transcript.sh).     *)
(*                                                                         *)
(* Hooks of the editor start a sync in the background, at most one at a    *)
(* time if the lock file does its work.  A sync keeps no state: it reads   *)
(* the head of the transcript, asks the server for the end time of the     *)
(* document, and from these two plans what to cut off and what to append.  *)
(* The server commits the steps one by one, so a sync that fails leaves a  *)
(* part of its plan behind for the next one to see.                        *)
(***************************************************************************)
EXTENDS Transcript

CONSTANTS Syncs,          \* processes of the script, one running at a time each
          MaxFaults       \* bound: failing and killed syncs

ASSUME SyncConstants == MaxFaults \in Nat

VARIABLES doc,            \* the steps of the document, oldest first
          lock,           \* the lock file: the process it names, if any
          sync,           \* what each sync is doing
          faults,
          spoiled         \* history: what has happened that the algorithm does not survive

syncVars == <<doc, lock, sync, faults, spoiled>>

Unlocked == "no lock file"
Dead == "the pid of a dead process"
All == 0                  \* the cutoff before every time stamp: 1970-01-01T00:00:00Z
NoCut == MaxRecords + 1   \* no cutoff at all

Idle == [pc |-> "idle", full |-> FALSE, head |-> None, cutoff |-> NoCut, todo |-> <<>>]

SyncTypeOK ==
  /\ doc \in Seq(DOMAIN file)
  /\ lock \in Syncs \cup {Unlocked, Dead}
  /\ sync \in [Syncs -> [pc : {"idle", "starting", "locked", "looking", "cutting",
                               "appending", "adrift"},
                         full : BOOLEAN, head : 0 .. Len(file),
                         cutoff : 0 .. NoCut, todo : Seq(DOMAIN file)]]
  /\ faults \in 0 .. MaxFaults
  /\ spoiled \subseteq {"tie", "orphan", "return", "race", "adrift"}

(***************************************************************************)
(* The links along which a chain is built: children of a hook go to the    *)
(* record before it, and a record without a parent that is no summary goes *)
(* to the last message before it.  The metadata leave hooks out.           *)
(***************************************************************************)
Hooks == {i \in DOMAIN file : Kind(i) = "hook"}
HookPredecessor(h) == LastOf({i \in 1 .. h - 1 : i \notin Hooks})
Reparented(i) ==
  LET p == file[i].parent IN IF p \in Hooks THEN HookPredecessor(p) ELSE p
ParentMap_NoBridge ==     \* seeded fault: no bridge over a missing parent
  [i \in DOMAIN file |-> Reparented(i)]
ParentMap ==
  [i \in DOMAIN file |->
     IF Reparented(i) = None /\ Kind(i) # "summary" THEN LastMessage(i) ELSE Reparented(i)]

RawParents == [i \in DOMAIN file |-> file[i].parent]
Indexed(end) == {i \in DOMAIN file : Time(i) <= end}

TimeEnd == IF doc = <<>> THEN 0 ELSE Max({Time(i) : i \in Range(doc)})

(***************************************************************************)
(* The record where the current branch meets what is indexed.  This walk   *)
(* takes the parents as they are written, without the bridges.             *)
(***************************************************************************)
TruncationPoint(head, end) ==
  LET walk[i \in 0..Len(file)] ==
        IF i = None \/ i \in Hooks THEN None
        ELSE IF i \in Indexed(end) THEN i ELSE walk[file[i].parent]
  IN walk[head]

BuildAncestryChain(head, stop) == ChainFrom(head, ParentMap, Hooks \cup {stop})

(* _handle_revert_detection_from_meta: where to cut the document *)
Revert(r, end) ==
  CASE r = None -> All
    [] r # None /\ Time(r) < end -> Time(r)
    [] OTHER -> NoCut

(***************************************************************************)
(* The fast path of an append-only sync reads the file backwards to the    *)
(* first record that is indexed; at a record without a parent it gives up  *)
(* and takes the bridges of a full scan.                                   *)
(***************************************************************************)
Recent(end) ==
  LET cut == LastOf(Indexed(end) \ Hooks) IN {i \in DOMAIN file : i > cut} \ Hooks
RecentLinks(end) ==
  IF \E i \in Recent(end) : file[i].parent = None /\ Kind(i) # "summary"
    THEN ParentMap
    ELSE [i \in DOMAIN file |-> IF Reparented(i) \in Recent(end) THEN Reparented(i) ELSE None]
EntriesAfter(head, end) == ChainFrom(head, RecentLinks(end), Hooks \cup Indexed(end))

SyncInit ==
  /\ doc = <<>>
  /\ lock = Unlocked
  /\ sync = [p \in Syncs |-> Idle]
  /\ faults = 0
  /\ spoiled = {}

(***************************************************************************)
(* The script: it skips the sync when the process named in the lock file   *)
(* lives, and removes the file of a dead one.  UserPromptSubmit starts an  *)
(* append-only sync, Stop a full one.                                      *)
(***************************************************************************)
Locked == lock \in Syncs /\ sync[lock].pc \notin {"idle", "adrift"}

HookFires(p, full) ==
  /\ sync[p].pc = "idle"
  /\ ~Locked
  /\ lock' = Unlocked
  /\ sync' = [sync EXCEPT ![p].pc = "starting", ![p].full = full]
  /\ spoiled' = spoiled \cup (IF \E q \in Syncs : sync[q].pc = "starting" THEN {"race"} ELSE {})
  /\ UNCHANGED <<doc, faults>>

WriteLock(p) ==
  /\ sync[p].pc = "starting"
  /\ lock' = p
  /\ sync' = [sync EXCEPT ![p].pc = "locked"]
  /\ UNCHANGED <<doc, faults, spoiled>>

ReadHead(p) ==
  /\ sync[p].pc = "locked"
  /\ CurrentHead # None
  /\ sync' = [sync EXCEPT ![p].pc = "looking", ![p].head = CurrentHead]
  /\ UNCHANGED <<doc, lock, faults, spoiled>>

EmptyTranscript(p) ==
  /\ sync[p].pc = "locked"
  /\ CurrentHead = None
  /\ sync' = [sync EXCEPT ![p] = Idle]
  /\ lock' = Unlocked
  /\ UNCHANGED <<doc, faults, spoiled>>

(***************************************************************************)
(* The status of the document, the scan of the file and the plan.          *)
(***************************************************************************)
Plan(p) ==
  /\ sync[p].pc = "looking"
  /\ LET head == sync[p].head
         full == sync[p].full \/ TimeEnd = 0
         r == IF TimeEnd = 0 THEN None ELSE TruncationPoint(head, TimeEnd)
         cutoff == IF full /\ TimeEnd # 0 THEN Revert(r, TimeEnd) ELSE NoCut
         entries == IF full
                      THEN IF r = head THEN <<>> ELSE BuildAncestryChain(head, r)
                      ELSE EntriesAfter(head, TimeEnd)
         todo == StepsOf(entries)
     IN /\ sync' = [sync EXCEPT ![p].pc = IF cutoff = NoCut THEN "appending" ELSE "cutting",
                                 ![p].cutoff = cutoff, ![p].todo = todo]
        /\ spoiled' = spoiled \cup
             (IF ~full /\ todo # <<>> /\ ~(Range(doc) \subseteq Range(BranchSteps(head)))
                THEN {"orphan"} ELSE {})
  /\ UNCHANGED <<doc, lock, faults>>

(* truncate_from_time: what is later than the cutoff goes *)
Truncate(p) ==
  /\ sync[p].pc = "cutting"
  /\ doc' = Among(doc, Indexed(sync[p].cutoff))
  /\ sync' = [sync EXCEPT ![p].pc = "appending"]
  /\ UNCHANGED <<lock, faults, spoiled>>

(* batch_append, of which the server commits each unit for itself *)
CommitStep(p) ==
  LET rest == Tail(sync[p].todo) IN
  /\ sync[p].pc \in {"appending", "adrift"}
  /\ sync[p].todo # <<>>
  /\ doc' = Append(doc, Head(sync[p].todo))
  /\ sync' = [sync EXCEPT ![p] =
       IF @.pc = "adrift" /\ rest = <<>> THEN Idle ELSE [@ EXCEPT !.todo = rest]]
  /\ UNCHANGED <<lock, faults, spoiled>>

(* The end of the script removes the lock file, whoever wrote it last. *)
Finish(p) ==
  /\ sync[p].pc = "appending"
  /\ sync[p].todo = <<>>
  /\ sync' = [sync EXCEPT ![p] = Idle]
  /\ lock' = Unlocked
  /\ UNCHANGED <<doc, faults, spoiled>>

(* A step with the time stamp of the step committed last is seen as indexed. *)
LosesATie(p) ==
  sync[p].pc = "appending" /\ sync[p].todo # <<>> /\ Time(Head(sync[p].todo)) <= TimeEnd
Tie(p) == IF LosesATie(p) THEN {"tie"} ELSE {}

(* A call to the server fails; the script ends and cleans up. *)
Fail(p) ==
  /\ sync[p].pc \in {"looking", "cutting", "appending"}
  /\ faults < MaxFaults
  /\ faults' = faults + 1
  /\ sync' = [sync EXCEPT ![p] = Idle]
  /\ lock' = Unlocked
  /\ spoiled' = spoiled \cup Tie(p)
  /\ UNCHANGED doc

(***************************************************************************)
(* The script is killed: the lock file stays, and a batch the server has   *)
(* begun it may commit to the end.                                         *)
(***************************************************************************)
Kill(p) ==
  /\ sync[p].pc # "idle" /\ sync[p].pc # "adrift"
  /\ faults < MaxFaults
  /\ faults' = faults + 1
  /\ lock' = IF lock = p THEN Dead ELSE lock
  /\ \/ /\ sync' = [sync EXCEPT ![p] = Idle]
        /\ spoiled' = spoiled \cup Tie(p)
     \/ /\ sync[p].pc = "appending" /\ sync[p].todo # <<>>
        /\ sync' = [sync EXCEPT ![p].pc = "adrift"]
        /\ spoiled' = spoiled \cup {"adrift"}
  /\ UNCHANGED doc

(***************************************************************************)
(* The editor writes while syncs run.  A record with the time stamp of one *)
(* that a sync has taken or is taking is never seen, nor is a branch that  *)
(* leaves from a record with the time stamp of the one after it.  Nor does *)
(* a sync find the steps of a branch that was left for another one and is  *)
(* taken up again: they are older than what is indexed.  And when a branch *)
(* goes on from a side record, the steps of the other one that are older   *)
(* than this record are not cut off.                                       *)
(***************************************************************************)
Taken(t) == \/ \E i \in Range(doc) : Time(i) = t
            \/ \E p \in Syncs : sync[p].head # None /\ Time(sync[p].head) = t

TakenUpAgain(parent) ==
  \E i \in Range(Branch(parent)) : \E j \in i + 1 .. Len(file) :
    IsStep(j) /\ {k \in Range(BranchSteps(j)) : k <= i} # Range(BranchSteps(i))

EditorWrites ==
  \/ \E kind \in {"reply", "note", "hook"}, time \in {LastTime, LastTime + 1} \ {0} :
       /\ Say(kind, time)
       /\ spoiled' = spoiled \cup (IF time = LastTime /\ Taken(time) THEN {"tie"} ELSE {})
       /\ UNCHANGED <<doc, lock, sync, faults>>
  \/ \E kind \in {"reply", "note"}, parent \in (None .. Len(file) - 1) \ Hooks :
       /\ BranchOff(kind, parent)
       /\ spoiled' = spoiled
            \cup (IF parent # None /\ Time(parent) = Time(parent + 1) THEN {"tie"} ELSE {})
            \cup (IF TakenUpAgain(parent) THEN {"return"} ELSE {})
       /\ UNCHANGED <<doc, lock, sync, faults>>
  \/ Compact /\ UNCHANGED syncVars

SyncStep(p) ==
  \/ \E full \in BOOLEAN : HookFires(p, full)
  \/ WriteLock(p)
  \/ ReadHead(p)
  \/ EmptyTranscript(p)
  \/ Plan(p)
  \/ Truncate(p)
  \/ CommitStep(p)
  \/ Finish(p)
  \/ Fail(p)
  \/ Kill(p)
=============================================================================
