------------------------------ MODULE MCClients ------------------------------
(***************************************************************************)
(* Two parts that share no state, checked side by side: the requests that  *)
(* change documents, and the adapters that synchronise a transcript.  A    *)
(* behaviour is one of one part, the other rests.                          *)
(***************************************************************************)
EXTENDS SyncAdapters, DocumentRequests

VARIABLE part

vars == <<part, adapterVars, requestVars>>

AdaptersRest ==
  /\ stateless = TRUE /\ file = <<>> /\ branches = 0 /\ ties = 0
  /\ SyncInit
  /\ turns = FALSE /\ stored = <<>> /\ saved = NoState /\ run = NoRun /\ failures = 0
  /\ disturbed = FALSE

Init ==
  \/ part = "adapters" /\ AdaptersInit /\ RequestsInit
  \/ part = "requests" /\ RequestsInit /\ AdaptersRest

AdaptersAct == part = "adapters" /\ AdaptersNext /\ UNCHANGED <<part, requestVars>>
RequestsAct == part = "requests" /\ RequestsNext /\ UNCHANGED <<part, adapterVars>>

Next == AdaptersAct \/ RequestsAct

Spec == Init /\ [][Next]_vars

\* Which request, which document and which process is which makes no difference.
Alike == Permutations(Requests) \cup Permutations(Documents) \cup Permutations(Hosts \cup Syncs)
=============================================================================
