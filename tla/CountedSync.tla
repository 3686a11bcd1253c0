------------------------------ MODULE CountedSync ------------------------------
(***************************************************************************)
(* The two other adapters (integrations/openclaw, integrations/clawdbot)   *)
(* keep a state file that says how many units of the transcript they have  *)
(* sent, append the rest of them, and then save the new number.            *)
(***************************************************************************)
EXTENDS Transcript

CONSTANTS MaxFailures     \* bound: calls and processes that fail

ASSUME CountedConstants == MaxFailures \in Nat

VARIABLES turns,          \* clawdbot counts turns, openclaw steps
          stored,         \* the units of the document
          saved,          \* the state file
          run,            \* the sync that runs
          failures,
          disturbed       \* history: what the count does not survive

countedVars == <<turns, stored, saved, run, failures, disturbed>>

\* SyncState as it is made anew: nothing counted, no unit entered.
NoState == [synced |-> 0, entries |-> <<>>]

NoRun == [pc |-> "idle", all |-> <<>>, todo |-> <<>>]

(***************************************************************************)
(* openclaw: the units are the steps of the current branch; only a record  *)
(* without a parent that is followed by its compaction summary is bridged. *)
(***************************************************************************)
FollowedByCompaction(i) ==
  \E j \in i + 1 .. Len(file) :
    /\ Kind(j) = "summary"
    /\ \A k \in i + 1 .. j - 1 : file[k].parent = i
LastRegular(i) == LastOf({j \in 1 .. i - 1 : Kind(j) # "summary"})
OpenclawParents ==
  [i \in DOMAIN file |->
     IF file[i].parent = None /\ Kind(i) # "summary" /\ FollowedByCompaction(i)
       THEN LastRegular(i) ELSE file[i].parent]
Steps == LET chain == StepsOf(ChainFrom(CurrentHead, OpenclawParents, {}))
         IN [n \in DOMAIN chain |-> <<chain[n]>>]

(***************************************************************************)
(* clawdbot: the units are the turns of the file, a prompt with what       *)
(* follows it; the last of them may not be over.                           *)
(***************************************************************************)
Messages == StepsOf([i \in 1..Len(file) |-> i])
GroupIntoTurns ==
  LET Add(turn, i) == IF turn = <<>> THEN turn ELSE [turn EXCEPT ![Len(turn)] = Append(@, i)]
      grown[n \in 0 .. Len(Messages)] ==
        IF n = 0 THEN <<>>
        ELSE IF Kind(Messages[n]) = "prompt" THEN Append(grown[n - 1], <<Messages[n]>>)
        ELSE Add(grown[n - 1], Messages[n])
  IN grown[Len(Messages)]

Units == IF turns THEN GroupIntoTurns ELSE Steps

CountedInit ==
  /\ turns \in BOOLEAN
  /\ stored = <<>>
  /\ saved = NoState
  /\ run = NoRun
  /\ failures = 0
  /\ disturbed = FALSE

NewUnits_KeepsOne(all) == SubSeq(all, Max({1, saved.synced}), Len(all))  \* seeded fault
NewUnits(all) == SubSeq(all, saved.synced + 1, Len(all))

(***************************************************************************)
(* The state file and the transcript are read; units that were counted and *)
(* are no longer the first of the branch are not noticed.  Without a unit  *)
(* beyond the number saved the sync ends here, and the number stays.       *)
(***************************************************************************)
ReadTranscript ==
  /\ run.pc = "idle"
  /\ NewUnits(Units) # <<>>
  /\ run' = [pc |-> "appending", all |-> Units, todo |-> NewUnits(Units)]
  /\ disturbed' = (disturbed \/ ~IsPrefix(stored, Units))
  /\ UNCHANGED <<turns, stored, saved, failures>>

CommitUnit ==
  /\ run.pc = "appending"
  /\ run.todo # <<>>
  /\ stored' = Append(stored, Head(run.todo))
  /\ run' = [run EXCEPT !.todo = Tail(@)]
  /\ UNCHANGED <<turns, saved, failures, disturbed>>

\* The units sent are entered one by one, with the place where each ends.
StateAfter(all) == [synced |-> Len(all), entries |-> saved.entries \o NewUnits(all)]

SaveState ==
  /\ run.pc = "appending"
  /\ run.todo = <<>>
  /\ saved' = StateAfter(run.all)
  /\ run' = NoRun
  /\ UNCHANGED <<turns, stored, failures, disturbed>>

(* A failure after the first commit and before the save repeats units. *)
CountedFails ==
  /\ run.pc = "appending"
  /\ failures < MaxFailures
  /\ failures' = failures + 1
  /\ disturbed' = (disturbed \/ Len(stored) # saved.synced)
  /\ run' = NoRun
  /\ UNCHANGED <<turns, stored, saved>>

CountedStep == ReadTranscript \/ CommitUnit \/ SaveState \/ CountedFails

TranscriptGrows ==
  /\ \/ \E kind \in {"prompt", "reply", "note"} : Say(kind, LastTime + 1)
     \/ ~turns /\ \E parent \in None .. Len(file) - 1 : BranchOff("reply", parent)
     \/ ~turns /\ Compact
  /\ UNCHANGED countedVars
=============================================================================
