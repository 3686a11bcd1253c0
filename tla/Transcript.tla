------------------------------ MODULE Transcript ------------------------------
(***************************************************************************)
(* The transcript of a conversation: a file of records that only grows,    *)
(* each naming its parent, so that it is a tree whose current branch ends  *)
(* at the head.  Its writer is the editor, and how it writes is taken from *)
(* what the readers of it expect.                                          *)
(***************************************************************************)
EXTENDS Naturals, Sequences, FiniteSets, FiniteSetsExt, SequencesExt

CONSTANTS MaxRecords,     \* bound: records of the transcript
          MaxBranches,    \* bound: rewinds, side branches and compactions
          MaxTies         \* bound: records with the time stamp of the record before

ASSUME TranscriptConstants == {MaxRecords, MaxBranches, MaxTies} \subseteq Nat

VARIABLES file,     \* records, each with a ghost: the record it comes after
          branches,
          ties

None == 0   \* parentUuid = null; records are named by their place in the file

(***************************************************************************)
(* prompt, reply: user and assistant messages that become steps; note: a   *)
(* progress or system record; summary: what a compaction leaves;           *)
(* hook: saved_hook_context.                                               *)
(***************************************************************************)
Kinds == {"prompt", "reply", "note", "summary", "hook"}
Kind(i) == file[i].kind
Time(i) == file[i].time
IsStep(i) == Kind(i) \in {"prompt", "reply"}

\* The members of a sequence that are in S, in their order: SelectSeq, as a
\* recursive function, which can be reasoned about.
Among(seq, S) ==
  LET kept[n \in 0 .. Len(seq)] ==
        IF n = 0 THEN <<>>
        ELSE IF seq[n] \in S THEN Append(kept[n - 1], seq[n]) ELSE kept[n - 1]
  IN kept[Len(seq)]

AllSteps == {i \in DOMAIN file : IsStep(i)}
StepsOf(chain) == Among(chain, AllSteps)

LastTime == IF file = <<>> THEN 0 ELSE Last(file).time
LastOf(S) == Max(S \cup {None})

LastMessage(i) == LastOf({j \in 1 .. i - 1 : Kind(j) \in {"prompt", "reply", "summary"}})

(* get_current_head: the last record that is no compaction summary *)
CurrentHead == LastOf({i \in DOMAIN file : Kind(i) # "summary"})

TranscriptInit == file = <<>> /\ branches = 0 /\ ties = 0

Put(records) == Len(file) + Len(records) <= MaxRecords /\ file' = file \o records

Say(kind, time) ==
  /\ Put(<<[parent |-> Len(file), after |-> Len(file), time |-> time, kind |-> kind]>>)
  /\ ties' = ties + (LastTime + 1 - time)
  /\ ties' <= MaxTies
  /\ UNCHANGED branches

(***************************************************************************)
(* The user goes back and goes on from an earlier record, or a progress    *)
(* record is written beside the branch.  A record without a parent is no   *)
(* rewind: a context was reset, and the record comes after the messages    *)
(* so far.                                                                 *)
(***************************************************************************)
BranchOff(kind, parent) ==
  /\ branches < MaxBranches
  /\ Put(<<[parent |-> parent, time |-> LastTime + 1, kind |-> kind,
            after |-> IF parent = None THEN LastMessage(Len(file) + 1) ELSE parent]>>)
  /\ branches' = branches + 1
  /\ UNCHANGED ties

(* A compaction writes a record without a parent and the summary below it. *)
Compact ==
  LET boundary == Len(file) + 1 IN
  /\ branches < MaxBranches
  /\ Put(<<[parent |-> None, after |-> LastMessage(boundary),
            time |-> LastTime + 1, kind |-> "note"],
           [parent |-> boundary, after |-> boundary, time |-> LastTime + 1, kind |-> "summary"]>>)
  /\ branches' = branches + 1
  /\ UNCHANGED ties

(***************************************************************************)
(* Walking from a record towards the root along the links given, up to a   *)
(* record in stops, which is left out.                                     *)
(***************************************************************************)
ChainFrom(head, links, stops) ==
  LET chain[i \in 0..Len(file)] ==
        IF i = None \/ i \in stops THEN <<>> ELSE Append(chain[links[i]], i)
  IN chain[head]

\* What the document of a branch should hold: the links of the ghosts.
Branch(head) == ChainFrom(head, [i \in DOMAIN file |-> file[i].after], {})
BranchSteps(head) == StepsOf(Branch(head))
=============================================================================
