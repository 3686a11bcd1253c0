----------------------------- MODULE SyncAdapters -----------------------------
(***************************************************************************)
(* The adapters of the assistants at work on a transcript that grows, the  *)
(* one that keeps no state and the ones that count.                        *)
(***************************************************************************)
EXTENDS TranscriptSync, CountedSync, AppendUnits

VARIABLE stateless        \* which kind of adapter is installed

adapterVars == <<stateless, file, branches, ties, syncVars, countedVars>>

AdaptersInit ==
  /\ TranscriptInit
  /\ SyncInit
  /\ CountedInit
  /\ stateless \in BOOLEAN
  /\ stateless => ~turns

AdaptersNext ==
  /\ UNCHANGED stateless
  /\ \/ stateless /\ EditorWrites /\ UNCHANGED countedVars
     \/ \E p \in Syncs :
          stateless /\ SyncStep(p) /\ UNCHANGED <<file, branches, ties, countedVars>>
     \/ ~stateless /\ TranscriptGrows /\ UNCHANGED syncVars
     \/ ~stateless /\ CountedStep /\ UNCHANGED <<file, branches, ties, syncVars>>

AdaptersSpec == AdaptersInit /\ [][AdaptersNext]_adapterVars

AdaptersTypeOK ==
  /\ SyncTypeOK
  /\ stateless \in BOOLEAN

\* Bounds the runs: no property speaks of what follows two hooks at once.
NoRace == "race" \notin spoiled

Finished(p) == sync[p].pc = "appending" /\ sync[p].todo = <<>>

(***************************************************************************)
(* A full sync that ends has made the document the steps of the branch of  *)
(* the head it read, and so has an append-only sync on a branch that goes  *)
(* on from the document, however many syncs before it failed half way,     *)
(* whatever was rewound or compacted and wherever hooks were written in    *)
(* between.  (Excepted is what the algorithm does not survive: spoiled;    *)
(* and a head that is itself a hook.)                                      *)
(***************************************************************************)
ExactAfterSync ==
  \A p \in Syncs :
    Finished(p) /\ spoiled = {} /\ Kind(sync[p].head) # "hook" =>
      LET branch == BranchSteps(sync[p].head)
      IN sync[p].full \/ Range(doc) \subseteq Range(branch) => doc = branch

(***************************************************************************)
(* What the server makes of a batch of the adapters: of a temporal one, a  *)
(* leaf for each unit, with its own times, blank or not; of another, a     *)
(* leaf at least for each unit that is not blank; in the order sent, none  *)
(* longer than allowed when units are leaves.  Units and strings with the  *)
(* same times come to the same.                                            *)
(***************************************************************************)
SomeUnits == UNION {[1 .. n -> [text : 0 .. MaxUnitChars + 1, time : {NoTime, <<1, 1>>, <<2, 1>>}]] : n \in 0 .. 2}

UnitsAreKept ==
  \A units \in SomeUnits, managed \in BOOLEAN :
    LET batch == NormalizeUnits(units)
        kept  == ProcessUnits(batch, managed)
        texts == [i \in DOMAIN units |-> units[i].text]
        times == [i \in DOMAIN units |-> units[i].time]
    IN /\ batch.refused <=> <<2, 1>> \in Range(times)
       /\ kept.timed => Len(kept.texts) = Len(units) /\ kept.times = times
       /\ ~batch.refused /\ ~kept.timed => kept.times = <<>>
       /\ managed \/ kept.timed => \A i \in DOMAIN kept.texts : kept.texts[i] = Min({texts[i], MaxUnitChars})
       /\ ~batch.refused /\ ~managed /\ ~kept.timed => kept.texts = NotBlank(texts)
       /\ batch.timed => NormalizeStrings(texts, times, TRUE) = batch

(***************************************************************************)
(* Each step sent by an adapter that counts is sent once, and they are the *)
(* first units of the transcript, as long as the transcript only grows at  *)
(* its end, whole turns at a time for clawdbot, and no sync fails after it *)
(* sent something.  Between syncs the state file then lists the document   *)
(* unit by unit, and the server makes of a batch what was sent.            *)
(***************************************************************************)
CountedOnce ==
  ~disturbed =>
    /\ run.pc = "appending" => IsPrefix(stored, run.all)
    /\ run.pc = "idle" => saved.entries = stored
    /\ UnitsAreKept

=============================================================================
