------------------------------ MODULE ModelCalls ------------------------------
(***************************************************************************)
(* The conversation of one job with a language model, and what its run's   *)
(* telemetry notes of it (ragzoom/services/summary_utils.py, summarizer.py,*)
(* llm_service.py, telemetry_collection.py).                               *)
(*                                                                         *)
(* A job has a text, a target and a model that answers, or fails, at will. *)
(* A reply is judged by its length; the last one that is acceptable, or    *)
(* else the best one, is stored, and the telemetry says which one it was.  *)
(* A job whose later writes fail is run again, a leaf's for the same node. *)
(* Texts are their numbers of tokens; the wording of prompts is left out.  *)
(***************************************************************************)
EXTENDS Integers, Sequences, FiniteSets

CONSTANTS MaxTokens,   \* bound: tokens of a text or a reply
          MaxInput,    \* max_input_tokens, above which a summary's text is cut
          MaxTarget,   \* bound: target_tokens
          Threshold,   \* retry_threshold, in percent
          MaxRetries,  \* max_retries
          MaxTries     \* bound: how often the job is run

ASSUME ModelConstants ==
  /\ {MaxTokens, MaxInput, MaxTarget, Threshold, MaxRetries, MaxTries} \subseteq Nat
  /\ MaxTries > 0

VARIABLES request,     \* of the job: its kind, tokens and target_tokens
          stage,       \* "idle", "asking", "done" or "failed"
          heard,       \* the replies of this run of the job
          kept,        \* which of them is stored, or 0
          stored,      \* tokens of the stored text
          attempts,    \* summary_attempts of the node, over all runs of the job
          accepted,    \* accepted_attempt, counted from 0, or NoAttempt
          tracked,     \* the run's collector knows the node
          tries        \* how often the job has been run

callVars == <<request, stage, heard, kept, stored, attempts, accepted, tracked, tries>>

NoAttempt == 0 - 1

Replies ==
  {r \in [tokens : 0 .. MaxTokens, blank : BOOLEAN] : r.tokens = 0 => r.blank}

JobRequests ==
  [kind : {"leaf", "summary"}, tokens : 0 .. MaxTokens, target : 0 .. MaxTarget]

(* should_retry_summary: blank, or longer than the threshold allows *)
ShouldRetry(r, target) ==
  \/ r.blank
  \/ target > 0 /\ r.tokens > target /\ (r.tokens - target) * 100 > Threshold * target

(* is_better_summary: within the target the longer, above it the shorter *)
IsBetter_Shorter(new, best, target) == new.tokens < best.tokens   \* seeded fault
IsBetter(new, best, target) ==
  \/ new.tokens <= target /\ best.tokens > target
  \/ new.tokens <= target /\ best.tokens <= target /\ new.tokens > best.tokens
  \/ new.tokens > target /\ best.tokens > target /\ new.tokens < best.tokens

(* Only a summary's text is cut to what the model can read. *)
Input(req) ==
  IF req.kind = "summary" /\ req.tokens > MaxInput
  THEN [req EXCEPT !.tokens = MaxInput] ELSE req

PassesThrough(req) == req.target = 0 \/ req.tokens <= req.target

(* record_summary_attempt_v2 raises for a node it does not know; a model's *)
(* reply is then not noted, a text that is passed through fails the job.   *)
Noted(tokens) == IF tracked THEN Append(attempts, tokens) ELSE attempts
Marked(index) == IF tracked THEN index ELSE accepted    \* mark_accepted_attempt

CallInit ==
  /\ request \in JobRequests
  /\ stage = "idle"
  /\ heard = <<>> /\ kept = 0 /\ stored = 0
  /\ attempts = <<>> /\ accepted = NoAttempt
  /\ tracked \in BOOLEAN
  /\ request.kind = "summary" => tracked     \* its own job makes it known
  /\ tries = 0

Begin(req) ==
  /\ tries < MaxTries
  /\ tries' = tries + 1
  /\ request' = req
  /\ heard' = <<>> /\ kept' = 0
  /\ IF PassesThrough(req)
       THEN IF tracked
            THEN /\ stage' = "done"
                 /\ stored' = req.tokens
                 /\ attempts' = Noted(stored')
            ELSE stage' = "failed" /\ UNCHANGED <<stored, attempts>>
       ELSE stage' = "asking" /\ UNCHANGED <<stored, attempts>>
  /\ UNCHANGED <<accepted, tracked>>

(* run_summary_workflow; another try is for another parent node *)
StartSummary ==
  /\ request.kind = "summary" /\ stage = "idle"
  /\ Begin(Input(request))

(* run_embedding_text_workflow, again when a later write of the job failed *)
StartEmbeddingText ==
  /\ request.kind = "leaf" /\ stage \in {"idle", "done", "failed"}
  /\ Begin(request)

Keep(i) ==
  /\ stage' = "done"
  /\ stored' = heard'[i].tokens
  /\ accepted' = Marked(i - 1)

Hear(r, best, final) ==
  /\ heard' = Append(heard, r)
  /\ attempts' = Noted(r.tokens)
  /\ kept' = best
  /\ IF final THEN Keep(best) ELSE UNCHANGED <<stage, stored, accepted>>
  /\ UNCHANGED <<request, tracked, tries>>

FirstReply(r) ==
  /\ stage = "asking" /\ heard = <<>>
  /\ Hear(r, 1, ~ShouldRetry(r, request.target) \/ MaxRetries = 0)

(* retry_summary_correction *)
RetryReply(r) ==
  /\ stage = "asking" /\ heard # <<>>
  /\ LET n == Len(heard) + 1
         acceptable == ~ShouldRetry(r, request.target)
     IN  Hear(r, IF acceptable \/ IsBetter(r, heard[kept], request.target) THEN n ELSE kept,
              acceptable \/ n > MaxRetries)

(* The first call's failure is the job's; a retry's only ends the retries. *)
CallFails ==
  /\ stage = "asking"
  /\ UNCHANGED <<heard, kept, attempts, request, tracked, tries>>
  /\ IF heard = <<>>
       THEN stage' = "failed" /\ UNCHANGED <<stored, accepted>>
       ELSE Keep(kept)

CallNext ==
  \/ StartSummary \/ StartEmbeddingText \/ CallFails
  \/ \E r \in Replies : FirstReply(r) \/ RetryReply(r)

CallSpec == CallInit /\ [][CallNext]_callVars

-----------------------------------------------------------------------------
(* Of all replies one is stored that no other beats: an acceptable one if  *)
(* there is one, else the longest that fits, else the shortest; of equals  *)
(* the first, whenever the model stops answering.  (A blank reply fits, so *)
(* it is preferred to a summary that is too long.)  And the telemetry of a *)
(* job that was run once points at the reply that was stored.              *)
Fits(r) == r.tokens <= request.target
Beats(a, b) ==
  \/ ~ShouldRetry(a, request.target) /\ ShouldRetry(b, request.target)
  \/ /\ ShouldRetry(a, request.target) <=> ShouldRetry(b, request.target)
     /\ \/ Fits(a) /\ ~Fits(b)
        \/ Fits(a) /\ Fits(b) /\ a.tokens > b.tokens
        \/ ~Fits(a) /\ ~Fits(b) /\ a.tokens < b.tokens

BestReplyIsStored ==
  stage = "done" /\ heard # <<>> =>
    /\ stored = heard[kept].tokens
    /\ \A i \in DOMAIN heard \ {kept} :
         ~Beats(heard[i], heard[kept]) /\ (i < kept => Beats(heard[kept], heard[i]))
    /\ tracked /\ tries = 1 =>
         Len(attempts) = Len(heard) /\ attempts[accepted + 1] = stored
=============================================================================
