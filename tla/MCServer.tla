------------------------------- MODULE MCServer -------------------------------
(***************************************************************************)
(* Parts that share no state, checked side by side: daemons and their      *)
(* commands, a query against a document that changes, the seeds a query    *)
(* starts from, the conversation of a job with a model, and the sessions   *)
(* of the search agent.  A behaviour is one of one part, the others rest.  *)
(***************************************************************************)
EXTENDS ServerLifecycle, Retrieval, ModelCalls, SearchSessions, QuerySeeds

VARIABLE part

vars == <<part, lifecycleVars, queryVars, callVars, searchVars, seedVars>>

\* Token counts: some summaries are longer than their pair.
MCTokens == [c \in (0 .. 4) \X (0 .. MaxLeaves) |-> 1 + ((2 * c[1] + 3 * c[2]) % 4)]

CallsRest ==
  /\ request = 0 /\ stage = "off" /\ heard = <<>> /\ kept = 0 /\ stored = 0
  /\ attempts = <<>> /\ accepted = 0 /\ tracked = FALSE /\ tries = 0
SearchRests ==
  /\ profiling = FALSE /\ call = [c \in Calls |-> NoCall] /\ conversations = <<>>
  /\ registry = <<>> /\ clock = 0 /\ outcome = <<>>

Init ==
  /\ LifecycleInit /\ QueryInit /\ SeedInit
  /\ \/ part \in {"lifecycle", "query", "seeds"} /\ CallsRest /\ SearchRests
     \/ part = "calls" /\ CallInit /\ SearchRests
     \/ part = "search" /\ SearchInit /\ CallsRest

LifecycleActs ==
  part = "lifecycle" /\ LifecycleNext /\ UNCHANGED <<part, queryVars, callVars, searchVars, seedVars>>
QueryActs ==
  part = "query" /\ QueryNext /\ UNCHANGED <<part, lifecycleVars, callVars, searchVars, seedVars>>
SeedsAct ==
  part = "seeds" /\ SeedNext /\ UNCHANGED <<part, lifecycleVars, queryVars, callVars, searchVars>>
CallsAct ==
  part = "calls" /\ CallNext /\ UNCHANGED <<part, lifecycleVars, queryVars, searchVars, seedVars>>
SearchActs ==
  part = "search" /\ SearchNext /\ UNCHANGED <<part, lifecycleVars, queryVars, callVars, seedVars>>

Next == LifecycleActs \/ QueryActs \/ SeedsAct \/ CallsAct \/ SearchActs

\* Which daemon that is never slow is which makes no difference, nor which user.
Alike == Permutations(Servers \ MaybeSlow) \cup Permutations(Users)

Spec == Init /\ [][Next]_vars
=============================================================================
