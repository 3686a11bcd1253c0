------------------------- MODULE ConversationProofs ---------------------------
(***************************************************************************)
(* What the run `server' checks of the two conversations with a model: of  *)
(* the job that summarizes a text, and of the agent that answers a search. *)
(***************************************************************************)
EXTENDS ModelCalls, SearchSessions, TLAPS

-----------------------------------------------------------------------------
(***************************************************************************)
(* What the run `server' checks of the conversation of a job with a model, *)
(* proved for texts, targets and thresholds of any size, any number of     *)
(* retries, and jobs that are run again any number of times.               *)
(*                                                                         *)
(* is_better_summary looks at two replies only.  What makes the reply that *)
(* is kept the best of all is that, among replies that must be retried,    *)
(* its order is one in which a reply that beats the best beats all, and    *)
(* that an acceptable reply ends the conversation: CallInv says both.      *)
(***************************************************************************)

CallTypeOK ==
  /\ request \in JobRequests
  /\ stage \in {"idle", "asking", "done", "failed"}
  /\ heard \in Seq(Replies)
  /\ kept \in 0 .. Len(heard)
  /\ stored \in Nat
  /\ attempts \in Seq(Nat)
  /\ accepted \in Nat \cup {NoAttempt}
  /\ tracked \in BOOLEAN
  /\ tries \in Nat

\* no reply of hs beats the b-th, and those before it are beaten by it
BestOf(hs, b) ==
  /\ b \in DOMAIN hs
  /\ \A i \in DOMAIN hs \ {b} : ~Beats(hs[i], hs[b]) /\ (i < b => Beats(hs[b], hs[i]))

StillAsking ==
  stage = "asking" /\ heard # <<>> =>
    /\ BestOf(heard, kept)
    /\ \A i \in DOMAIN heard : ShouldRetry(heard[i], request.target)

Done == stage = "done" /\ heard # <<>> => BestOf(heard, kept) /\ stored = heard[kept].tokens

\* the attempts of a job's first run are its replies
Telemetry ==
  /\ tries = 0 => stage = "idle"
  /\ stage = "idle" => heard = <<>> /\ attempts = <<>>
  /\ tracked /\ tries = 1 /\ (stage = "asking" \/ (stage = "done" /\ heard # <<>>)) =>
       /\ Len(attempts) = Len(heard)
       /\ \A i \in DOMAIN heard : attempts[i] = heard[i].tokens
       /\ stage = "done" => accepted = kept - 1

CallInv == CallTypeOK /\ StillAsking /\ Done /\ Telemetry

-----------------------------------------------------------------------------
(* The order of replies *)

LEMMA Amounts ==
  /\ MaxTokens \in Nat /\ MaxInput \in Nat /\ MaxTarget \in Nat /\ Threshold \in Nat
  /\ MaxRetries \in Nat /\ MaxTries \in Nat
BY ModelConstants DEF ModelConstants

LEMMA ReplyTokens == \A r \in Replies : r.tokens \in Nat /\ r.blank \in BOOLEAN
BY Amounts DEF Replies

\* is_better_summary decides between two replies that must be retried.
LEMMA BetterBeats ==
  ASSUME NEW a \in Replies, NEW b \in Replies, request \in JobRequests,
         ShouldRetry(a, request.target), ShouldRetry(b, request.target)
  PROVE  Beats(a, b) <=> IsBetter(a, b, request.target)
<1>1. /\ a.tokens \in Nat /\ b.tokens \in Nat /\ request.target \in Nat
  BY ReplyTokens, Amounts DEF JobRequests
<1> QED BY <1>1 DEF Beats, IsBetter, Fits

LEMMA AcceptableBeats ==
  ASSUME NEW a \in Replies, NEW b \in Replies,
         ~ShouldRetry(a, request.target), ShouldRetry(b, request.target)
  PROVE  Beats(a, b) /\ ~Beats(b, a)
BY DEF Beats

\* What beats the best beats all, and what does not leaves it the best.
LEMMA NextBest ==
  ASSUME NEW hs \in Seq(Replies), NEW b, BestOf(hs, b), NEW r \in Replies,
         request \in JobRequests,
         \A i \in DOMAIN hs : ShouldRetry(hs[i], request.target)
  PROVE  /\ ~ShouldRetry(r, request.target) => BestOf(Append(hs, r), Len(hs) + 1)
         /\ ShouldRetry(r, request.target) /\ IsBetter(r, hs[b], request.target)
              => BestOf(Append(hs, r), Len(hs) + 1)
         /\ ShouldRetry(r, request.target) /\ ~IsBetter(r, hs[b], request.target)
              => BestOf(Append(hs, r), b)
<1> DEFINE n == Len(hs) + 1
           more == Append(hs, r)
<1>1. /\ n \in Nat /\ DOMAIN hs = 1 .. Len(hs) /\ DOMAIN more = 1 .. n
      /\ b \in 1 .. n /\ b \in DOMAIN hs /\ b # n /\ ~(n < b) /\ more[n] = r
      /\ \A i \in DOMAIN hs : more[i] = hs[i] /\ hs[i] \in Replies
  BY DEF BestOf
<1>2. \A i \in DOMAIN more : i # n => i \in DOMAIN hs /\ i < n
  BY <1>1
<1> HIDE DEF n, more
<1>3. ASSUME ~ShouldRetry(r, request.target) PROVE BestOf(more, n)
  <2> SUFFICES ASSUME NEW i \in DOMAIN hs
               PROVE  ~Beats(hs[i], r) /\ Beats(r, hs[i])
    BY <1>1, <1>2 DEF BestOf
  <2> QED BY <1>1, <1>3, AcceptableBeats
<1>4. ASSUME ShouldRetry(r, request.target), IsBetter(r, hs[b], request.target)
      PROVE  BestOf(more, n)
  <2> SUFFICES ASSUME NEW i \in DOMAIN hs
               PROVE  ~Beats(hs[i], r) /\ Beats(r, hs[i])
    BY <1>1, <1>2 DEF BestOf
  <2>1. hs[i] \in Replies /\ hs[b] \in Replies /\ b \in DOMAIN hs
    BY <1>1
  <2>2. i # b => ~Beats(hs[i], hs[b])
    BY DEF BestOf
  <2>3. /\ Beats(hs[i], hs[b]) <=> IsBetter(hs[i], hs[b], request.target)
        /\ Beats(hs[i], r) <=> IsBetter(hs[i], r, request.target)
        /\ Beats(r, hs[i]) <=> IsBetter(r, hs[i], request.target)
    BY <1>4, <2>1, BetterBeats
  <2>4. /\ r.tokens \in Nat /\ hs[i].tokens \in Nat /\ hs[b].tokens \in Nat
        /\ request.target \in Nat
    BY <2>1, ReplyTokens, Amounts DEF JobRequests
  <2>5. i # b => ~IsBetter(hs[i], hs[b], request.target)
    BY <2>2, <2>3
  <2>6. ~IsBetter(hs[i], r, request.target) /\ IsBetter(r, hs[i], request.target)
    BY <1>4, <2>4, <2>5 DEF IsBetter
  <2> QED BY <2>3, <2>6
<1>5. ASSUME ShouldRetry(r, request.target), ~IsBetter(r, hs[b], request.target)
      PROVE  BestOf(more, b)
  <2>1. ~Beats(r, hs[b])
    BY <1>1, <1>5, BetterBeats
  <2>2. b \in DOMAIN more /\ b # n /\ ~(n < b) /\ more[b] = hs[b]
    BY <1>1
  <2>3. ASSUME NEW i \in DOMAIN more \ {b}
        PROVE  ~Beats(more[i], more[b]) /\ (i < b => Beats(more[b], more[i]))
    <3>1. CASE i = n
      BY <1>1, <2>1, <2>2, <3>1
    <3>2. CASE i # n
      BY <1>1, <1>2, <2>2, <3>2 DEF BestOf
    <3> QED BY <3>1, <3>2
  <2> QED BY <2>2, <2>3 DEF BestOf
<1> QED BY <1>3, <1>4, <1>5 DEF more, n

-----------------------------------------------------------------------------
(* Steps *)

LEMMA CallsStart == CallInit => CallInv
BY Amounts
DEF CallInit, CallInv, CallTypeOK, StillAsking, Done, Telemetry, NoAttempt

LEMMA BeginKeeps ==
  ASSUME CallInv, NEW req \in JobRequests, Begin(req)
  PROVE  CallInv'
<1>1. req.tokens \in Nat
  BY Amounts DEF JobRequests
<1>2. attempts \in Seq(Nat) /\ tries \in Nat /\ stored \in Nat
  BY DEF CallInv, CallTypeOK
<1>3. stored' \in Nat /\ attempts' \in Seq(Nat)
  <2>1. CASE PassesThrough(req) /\ tracked
    <3>1. stored' = req.tokens /\ attempts' = Append(attempts, stored')
      BY <2>1 DEF Begin, Noted
    <3> QED BY <1>1, <1>2, <3>1
  <2>2. CASE ~(PassesThrough(req) /\ tracked)
    BY <1>2, <2>2 DEF Begin
  <2> QED BY <2>1, <2>2
<1>4. heard' = <<>> /\ kept' = 0 /\ stage' \in {"asking", "done", "failed"}
  BY DEF Begin
<1>5. CallTypeOK'
  BY <1>2, <1>3, <1>4 DEF CallInv, CallTypeOK, Begin
<1>6. StillAsking' /\ Done'
  BY <1>4 DEF StillAsking, Done
<1>7. Telemetry'
  <2>1. tries' = tries + 1 /\ tracked' = tracked /\ tries' # 0
    BY <1>2 DEF Begin
  <2>2. ASSUME tries' = 1, stage' = "asking" PROVE attempts' = <<>>
    <3>1. tries = 0 /\ stage = "idle" /\ attempts = <<>>
      BY <1>2, <2>1, <2>2 DEF CallInv, Telemetry
    <3> QED BY <2>2, <3>1 DEF Begin
  <2> QED BY <1>4, <2>1, <2>2 DEF Telemetry
<1> QED BY <1>5, <1>6, <1>7 DEF CallInv

LEMMA HearKeeps ==
  ASSUME CallInv, stage = "asking", NEW r \in Replies, NEW best, NEW final \in BOOLEAN,
         Hear(r, best, final),
         BestOf(Append(heard, r), best),
         ~final => ShouldRetry(r, request.target)
  PROVE  CallInv'
<1> DEFINE n == Len(heard) + 1
<1>1. /\ heard \in Seq(Replies) /\ attempts \in Seq(Nat) /\ request \in JobRequests
      /\ tracked \in BOOLEAN /\ stored \in Nat /\ accepted \in Nat \cup {NoAttempt}
      /\ tries \in Nat
  BY DEF CallInv, CallTypeOK
<1>2. /\ heard' = Append(heard, r) /\ kept' = best /\ request' = request
      /\ tracked' = tracked /\ tries' = tries /\ attempts' = Noted(r.tokens)
  BY DEF Hear
<1>3. /\ heard' \in Seq(Replies) /\ Len(heard') = n /\ n \in Nat /\ heard' # <<>>
      /\ DOMAIN heard' = 1 .. n /\ heard'[n] = r
      /\ DOMAIN heard = 1 .. Len(heard)
      /\ \A i \in DOMAIN heard : heard'[i] = heard[i]
      /\ \A i \in DOMAIN heard' : i \in DOMAIN heard \/ i = n
  BY <1>1, <1>2
<1>4. best \in 1 .. n /\ heard'[best] \in Replies /\ heard'[best].tokens \in Nat
  BY <1>2, <1>3, ReplyTokens DEF BestOf
<1>5. BestOf(heard, kept)'
  <2>1. request' = request /\ heard' = Append(heard, r) /\ kept' = best
    BY <1>2
  <2> QED BY <2>1 DEF BestOf, Beats, Fits
<1>6. CASE final
  <2>1. stage' = "done" /\ stored' = heard'[best].tokens /\ accepted' = Marked(best - 1)
    BY <1>2, <1>6 DEF Hear, Keep
  <2>2. stored' \in Nat /\ attempts' \in Seq(Nat) /\ accepted' \in Nat \cup {NoAttempt}
    BY <1>1, <1>2, <1>4, <2>1, ReplyTokens DEF Marked, Noted
  <2>3. CallTypeOK'
    BY <1>1, <1>2, <1>3, <1>4, <2>1, <2>2 DEF CallTypeOK
  <2>4. StillAsking' /\ Done'
    BY <1>2, <1>5, <2>1 DEF StillAsking, Done
  <2>5. Telemetry'
    <3>1. tries # 0 /\ tries' = tries
      BY <1>2 DEF CallInv, Telemetry
    <3>2. ASSUME tracked, tries = 1
          PROVE  /\ Len(attempts') = Len(heard') /\ accepted' = kept' - 1
                 /\ \A i \in DOMAIN heard' : attempts'[i] = heard'[i].tokens
      <4>1. Len(attempts) = Len(heard) /\ \A i \in DOMAIN heard : attempts[i] = heard[i].tokens
        BY <3>2 DEF CallInv, Telemetry
      <4>2. attempts' = Append(attempts, r.tokens) /\ accepted' = best - 1
        BY <1>2, <2>1, <3>2 DEF Noted, Marked
      <4>3. Len(attempts') = n /\ attempts'[n] = r.tokens
            /\ \A i \in DOMAIN heard : attempts'[i] = attempts[i]
        BY <1>1, <1>3, <4>1, <4>2, ReplyTokens
      <4> QED BY <1>2, <1>3, <4>1, <4>2, <4>3
    <3> QED BY <1>2, <2>1, <3>1, <3>2 DEF Telemetry
  <2> QED BY <2>3, <2>4, <2>5 DEF CallInv
<1>7. CASE ~final
  <2>1. UNCHANGED <<stage, stored, accepted>>
    BY <1>7 DEF Hear
  <2>2. attempts' \in Seq(Nat)
    BY <1>1, <1>2, ReplyTokens DEF Noted
  <2>3. CallTypeOK'
    BY <1>1, <1>2, <1>3, <1>4, <2>1, <2>2 DEF CallInv, CallTypeOK
  <2>4. StillAsking' /\ Done'
    <3>1. \A i \in DOMAIN heard' : ShouldRetry(heard'[i], request'.target)
      <4>1. \A i \in DOMAIN heard : ShouldRetry(heard[i], request.target)
        BY <1>1, <1>3 DEF CallInv, StillAsking
      <4> QED BY <1>2, <1>3, <1>7, <4>1
    <3> QED BY <1>5, <2>1, <3>1 DEF StillAsking, Done
  <2>5. Telemetry'
    <3>1. tries # 0 /\ tries' = tries
      BY <1>2 DEF CallInv, Telemetry
    <3>2. ASSUME tracked, tries = 1
          PROVE  /\ Len(attempts') = Len(heard')
                 /\ \A i \in DOMAIN heard' : attempts'[i] = heard'[i].tokens
      <4>1. Len(attempts) = Len(heard) /\ \A i \in DOMAIN heard : attempts[i] = heard[i].tokens
        BY <3>2 DEF CallInv, Telemetry
      <4>2. attempts' = Append(attempts, r.tokens)
        BY <1>2, <3>2 DEF Noted
      <4>3. Len(attempts') = n /\ attempts'[n] = r.tokens
            /\ \A i \in DOMAIN heard : attempts'[i] = attempts[i]
        BY <1>1, <1>3, <4>1, <4>2, ReplyTokens
      <4> QED BY <1>2, <1>3, <4>1, <4>2, <4>3
    <3> QED BY <1>2, <2>1, <3>1, <3>2 DEF Telemetry
  <2> QED BY <2>3, <2>4, <2>5 DEF CallInv
<1> QED BY <1>6, <1>7

LEMMA FirstReplyKeeps ==
  ASSUME CallInv, NEW r \in Replies, FirstReply(r)
  PROVE  CallInv'
<1>1. heard = <<>> /\ stage = "asking"
  BY DEF FirstReply
<1>2. BestOf(Append(heard, r), 1)
  <2>1. Append(heard, r) = <<r>>
    BY <1>1
  <2>2. DOMAIN <<r>> = {1}
    OBVIOUS
  <2> QED BY <2>1, <2>2 DEF BestOf
<1> DEFINE final == ~ShouldRetry(r, request.target) \/ MaxRetries = 0
<1>3. Hear(r, 1, final) /\ final \in BOOLEAN /\ (~final => ShouldRetry(r, request.target))
  BY DEF FirstReply
<1> HIDE DEF final
<1> QED BY <1>1, <1>2, <1>3, HearKeeps

LEMMA RetryReplyKeeps ==
  ASSUME CallInv, NEW r \in Replies, RetryReply(r)
  PROVE  CallInv'
<1> DEFINE n == Len(heard) + 1
           acceptable == ~ShouldRetry(r, request.target)
           best == IF acceptable \/ IsBetter(r, heard[kept], request.target) THEN n ELSE kept
           final == acceptable \/ n > MaxRetries
<1>1. /\ heard # <<>> /\ stage = "asking" /\ heard \in Seq(Replies) /\ request \in JobRequests
      /\ BestOf(heard, kept)
      /\ \A i \in DOMAIN heard : ShouldRetry(heard[i], request.target)
  BY DEF RetryReply, CallInv, CallTypeOK, StillAsking
<1>2. Hear(r, best, final)
  BY DEF RetryReply
<1>3. BestOf(Append(heard, r), best)
  <2>1. CASE acceptable
    BY <1>1, <2>1, NextBest
  <2>2. CASE ~acceptable /\ IsBetter(r, heard[kept], request.target)
    BY <1>1, <2>2, NextBest
  <2>3. CASE ~acceptable /\ ~IsBetter(r, heard[kept], request.target)
    BY <1>1, <2>3, NextBest
  <2> QED BY <2>1, <2>2, <2>3
<1>4. final \in BOOLEAN /\ (~final => ShouldRetry(r, request.target))
  OBVIOUS
<1> HIDE DEF best, final
<1> QED BY <1>1, <1>2, <1>3, <1>4, HearKeeps

LEMMA CallFailsKeeps ==
  ASSUME CallInv, CallFails
  PROVE  CallInv'
<1>1. /\ stage = "asking" /\ UNCHANGED <<heard, kept, attempts, request, tracked, tries>>
  BY DEF CallFails
<1>2. CASE heard = <<>>
  <2>1. stage' = "failed" /\ UNCHANGED <<stored, accepted>>
    BY <1>2 DEF CallFails
  <2> QED BY <1>1, <1>2, <2>1 DEF CallInv, CallTypeOK, StillAsking, Done, Telemetry
<1>3. CASE heard # <<>>
  <2>1. stage' = "done" /\ stored' = heard[kept].tokens /\ accepted' = Marked(kept - 1)
    BY <1>1, <1>3 DEF CallFails, Keep
  <2>2. BestOf(heard, kept) /\ heard \in Seq(Replies) /\ kept \in 1 .. Len(heard)
    BY <1>1, <1>3 DEF CallInv, CallTypeOK, StillAsking, BestOf
  <2>3. heard[kept].tokens \in Nat /\ kept - 1 \in Nat
    BY <2>2, ReplyTokens
  <2>4. CallTypeOK'
    BY <1>1, <2>1, <2>2, <2>3 DEF CallInv, CallTypeOK, Marked
  <2>5. StillAsking' /\ Done'
    BY <1>1, <2>1, <2>2 DEF StillAsking, Done, BestOf, Beats, Fits
  <2>6. Telemetry'
    BY <1>1, <1>3, <2>1 DEF CallInv, Telemetry, Marked
  <2> QED BY <2>4, <2>5, <2>6 DEF CallInv
<1> QED BY <1>2, <1>3

LEMMA InputIsARequest == \A req \in JobRequests : Input(req) \in JobRequests
<1> SUFFICES ASSUME NEW req \in JobRequests PROVE Input(req) \in JobRequests
  OBVIOUS
<1>1. CASE req.kind = "summary" /\ req.tokens > MaxInput
  <2>1. req.tokens \in 0 .. MaxTokens /\ MaxInput \in 0 .. MaxTokens
    BY <1>1, Amounts DEF JobRequests
  <2> QED BY <1>1, <2>1 DEF Input, JobRequests
<1>2. CASE ~(req.kind = "summary" /\ req.tokens > MaxInput)
  BY <1>2 DEF Input
<1> QED BY <1>1, <1>2

LEMMA CallsStep == CallInv /\ [CallNext]_callVars => CallInv'
<1> SUFFICES ASSUME CallInv, [CallNext]_callVars PROVE CallInv'
  OBVIOUS
<1>1. request \in JobRequests
  BY DEF CallInv, CallTypeOK
<1>2. CASE StartSummary
  BY <1>1, <1>2, InputIsARequest, BeginKeeps DEF StartSummary
<1>3. CASE StartEmbeddingText
  BY <1>1, <1>3, BeginKeeps DEF StartEmbeddingText
<1>4. CASE UNCHANGED callVars
  BY <1>4 DEF callVars, CallInv, CallTypeOK, StillAsking, Done, Telemetry, BestOf, Beats, Fits
<1> QED BY <1>2, <1>3, <1>4, CallFailsKeeps, FirstReplyKeeps, RetryReplyKeeps DEF CallNext

-----------------------------------------------------------------------------
(* The inductive invariant of a job's conversation with its model,         *)
(* whatever the model answers and whenever it fails.                       *)
THEOREM ConversationsAreOrderly == CallSpec => []CallInv
BY CallsStart, CallsStep, PTL DEF CallSpec

(* The text that is stored is the reply no other reply beats, the first of *)
(* equals, and the telemetry of a job that was run once points at it       *)
(* (retry_summary_correction, mark_accepted_attempt).                      *)
THEOREM TheBestReplyIsStored == CallSpec => []BestReplyIsStored
<1>1. ASSUME CallInv PROVE BestReplyIsStored
  <2> SUFFICES ASSUME stage = "done", heard # <<>>
               PROVE  /\ stored = heard[kept].tokens
                      /\ \A i \in DOMAIN heard \ {kept} :
                           ~Beats(heard[i], heard[kept]) /\ (i < kept => Beats(heard[kept], heard[i]))
                      /\ tracked /\ tries = 1 =>
                           Len(attempts) = Len(heard) /\ attempts[accepted + 1] = stored
    BY DEF BestReplyIsStored
  <2>1. BestOf(heard, kept) /\ stored = heard[kept].tokens /\ kept \in Nat
    BY <1>1 DEF CallInv, CallTypeOK, Done
  <2>2. ASSUME tracked, tries = 1
        PROVE  Len(attempts) = Len(heard) /\ attempts[accepted + 1] = stored
    BY <1>1, <2>1, <2>2 DEF CallInv, Telemetry, BestOf
  <2> QED BY <2>1, <2>2 DEF BestOf
<1> QED BY <1>1, ConversationsAreOrderly, PTL

-----------------------------------------------------------------------------
(***************************************************************************)
(* What the run `server' checks of the search agent's sessions, proved for *)
(* any number of questions at once, of any length.                         *)
(*                                                                         *)
(* A continuation starts from the messages its session has at that moment. *)
(* So TurnsAreRemembered rests on what a stored conversation holds         *)
(* (Conversed): the turns of its session, but for those that ran beside    *)
(* another turn that has ended, too.  That survives every store because    *)
(* whoever stores was shown all the turns that he did not run beside.      *)
(***************************************************************************)

Messages == [who : {"ask", "tools", "result", "critique"}, call : Calls, calls : Nat]
CallRecords ==
  [at : {"idle", "model", "tools", "answered", "critique", "ended"},
   session : Calls \cup {NoSession}, messages : Seq(Messages), round : Nat,
   retrieved : Nat, pending : Nat, since : Nat, known : SUBSET Calls]

SearchTypeOK ==
  /\ profiling \in BOOLEAN
  /\ call \in [Calls -> CallRecords]
  /\ DOMAIN conversations \subseteq Calls
  /\ conversations \in [DOMAIN conversations -> Seq(Messages)]
  /\ registry \in [DOMAIN registry -> Nat]
  /\ clock \in Nat
  /\ outcome \in [Calls -> {"none", "answer", "lost", "not_found", "error"}]

Active(c) == call[c].at \in {"model", "tools", "answered", "critique"}
Ended == {d \in Calls : outcome[d] # "none"}
Stays(d) == outcome[d] \in {"answer", "lost"}
HasTurn(messages, d) == \E i \in DOMAIN messages : messages[i] = Message("ask", d, 0)

\* Kept, among the calls of K instead of those a call knows
KeptAmong(d, K) ==
  /\ Stays(d)
  /\ \A e \in K \ {d} : SessionOf(e) = SessionOf(d) /\ Stays(e) =>
       d \in call[e].known \/ e \in call[d].known

Progress ==
  \A c \in Calls :
    /\ call[c].at = "ended" <=> outcome[c] # "none"
    /\ call[c].known \subseteq Ended
    /\ call[c].at = "critique" => call[c].session = NoSession /\ c \in DOMAIN conversations

\* a session is that of the call that began it and answered
Sessions ==
  /\ DOMAIN registry \subseteq DOMAIN conversations
  /\ \A s \in DOMAIN conversations : call[s].session = NoSession /\ call[s].at # "idle"
  /\ \A c \in Calls : call[c].session # NoSession =>
       outcome[call[c].session] = "answer" /\ call[c].session \in DOMAIN conversations

\* ms ends in the tools message of a call and the results that are there
AwaitsResults(c, ms, pending) ==
  /\ pending > 0
  /\ \E i \in DOMAIN ms :
       /\ ms[i].who = "tools" /\ ms[i].call = c
       /\ Len(ms) + pending = i + ms[i].calls
       /\ \A j \in i + 1 .. Len(ms) : ms[j] = Message("result", c, 0)
       /\ \A j \in 1 .. i - 1 : ms[j].who = "tools" =>
            \A k \in 1 .. ms[j].calls :
              j + k \in DOMAIN ms /\ ms[j + k] = Message("result", ms[j].call, 0)

ToolsAnswered ==
  /\ \A c \in Calls : call[c].at \in {"model", "answered", "critique"} =>
       AnsweredTools(call[c].messages)
  /\ \A c \in Calls : call[c].at = "tools" =>
       AwaitsResults(c, call[c].messages, call[c].pending)
  /\ \A s \in DOMAIN conversations : AnsweredTools(conversations[s])

Remembered ==
  \A c \in Calls : Active(c) =>
    /\ HasTurn(call[c].messages, c)
    /\ \A d \in call[c].known :
         SessionOf(d) = SessionOf(c) /\ Kept(d, c) => HasTurn(call[c].messages, d)

Conversed ==
  \A s \in DOMAIN conversations : \A d \in Ended :
    SessionOf(d) = s /\ KeptAmong(d, Ended) => HasTurn(conversations[s], d)

\* a session that a call may still want was used after the call began
Awaited ==
  \A c \in Calls : Active(c) /\ call[c].session # NoSession =>
    /\ call[c].since <= clock
    /\ IF call[c].session \in DOMAIN registry THEN registry[call[c].session] >= call[c].since
                                              ELSE clock - call[c].since > SessionTtl

SearchInv ==
  /\ SearchTypeOK /\ Progress /\ Sessions /\ ToolsAnswered
  /\ Remembered /\ Conversed /\ Awaited

-----------------------------------------------------------------------------
LEMMA Bounds ==
  /\ Calls \subseteq Nat /\ NoSession \notin Calls
  /\ MaxIterations \in Nat /\ MaxParallel \in Nat /\ SessionTtl \in Nat
BY SessionConstants DEF SessionConstants

LEMMA NoCallIsACall == NoCall \in CallRecords
BY DEF NoCall, CallRecords

LEMMA SearchStarts == SearchInit => SearchInv
<1> SUFFICES ASSUME SearchInit PROVE SearchInv
  OBVIOUS
<1> USE DEF SearchInit
<1>1. SearchTypeOK
  BY NoCallIsACall DEF SearchTypeOK
<1>2. Progress /\ Sessions
  BY DEF Progress, Sessions, NoCall, Ended
<1>3. ToolsAnswered /\ Remembered /\ Conversed /\ Awaited
  BY DEF ToolsAnswered, Remembered, Conversed, Awaited, Active, NoCall
<1> QED BY <1>1, <1>2, <1>3 DEF SearchInv

\* What is kept is settled when a turn ends: calls that go on do not change it.
LEMMA Settled ==
  ASSUME SearchInv, NEW c \in Calls, outcome[c] = "none",
         \A d \in Calls \ {c} : call'[d] = call[d] /\ outcome'[d] = outcome[d]
  PROVE  /\ \A d \in Ended : d # c /\ SessionOf(d)' = SessionOf(d)
                             /\ (Stays(d)' <=> Stays(d)) /\ call'[d].known = call[d].known
         /\ \A d \in Ended : \A K \in SUBSET Ended : KeptAmong(d, K)' <=> KeptAmong(d, K)
<1>1. \A d \in Ended : d # c /\ d \in Calls
  BY DEF Ended
<1>2. \A d \in Ended : SessionOf(d)' = SessionOf(d) /\ (Stays(d)' <=> Stays(d))
                       /\ call'[d].known = call[d].known
  BY <1>1 DEF SessionOf, Stays
<1>3. ASSUME NEW d \in Ended, NEW K \in SUBSET Ended
      PROVE  KeptAmong(d, K)' <=> KeptAmong(d, K)
  BY <1>2 DEF KeptAmong
<1> QED BY <1>1, <1>2, <1>3

LEMMA KeptIsKeptAmong ==
  ASSUME NEW c, NEW d
  PROVE  Kept(d, c) <=> KeptAmong(d, call[c].known)
BY DEF Kept, KeptAmong, Stays

LEMMA LongerHasTurn ==
  ASSUME NEW ms \in Seq(Messages), NEW x \in Messages
  PROVE  /\ Append(ms, x) \in Seq(Messages)
         /\ \A d : HasTurn(ms, d) => HasTurn(Append(ms, x), d)
         /\ \A d : x = Message("ask", d, 0) => HasTurn(Append(ms, x), d)
<1>1. /\ Append(ms, x) \in Seq(Messages) /\ DOMAIN ms \subseteq DOMAIN Append(ms, x)
      /\ \A i \in DOMAIN ms : Append(ms, x)[i] = ms[i]
      /\ Len(ms) + 1 \in DOMAIN Append(ms, x) /\ Append(ms, x)[Len(ms) + 1] = x
  OBVIOUS
<1> QED BY <1>1 DEF HasTurn

LEMMA MessageType ==
  ASSUME NEW c \in Calls, NEW n \in Nat, NEW who \in {"ask", "tools", "result", "critique"}
  PROVE  /\ Message(who, c, n) \in Messages
         /\ Message(who, c, n).who = who /\ Message(who, c, n).call = c
         /\ Message(who, c, n).calls = n
BY DEF Message, Messages

\* A message that calls no tools may follow.
LEMMA AnsweredLonger ==
  ASSUME NEW ms \in Seq(Messages), NEW x \in Messages, x.who # "tools", AnsweredTools(ms)
  PROVE  AnsweredTools(Append(ms, x))
<1> DEFINE more == Append(ms, x)
<1>1. /\ DOMAIN ms = 1 .. Len(ms) /\ DOMAIN more = 1 .. Len(ms) + 1
      /\ \A i \in DOMAIN ms : more[i] = ms[i] /\ ms[i] \in Messages
      /\ more[Len(ms) + 1] = x /\ Len(ms) \in Nat
  OBVIOUS
<1> HIDE DEF more
<1> SUFFICES ASSUME NEW i \in DOMAIN more, more[i].who = "tools",
                    NEW k \in 1 .. more[i].calls
             PROVE  i + k \in DOMAIN more /\ more[i + k] = Message("result", more[i].call, 0)
  BY DEF AnsweredTools, more
<1>2. i \in DOMAIN ms /\ more[i] = ms[i]
  BY <1>1
<1>3. i + k \in DOMAIN ms /\ ms[i + k] = Message("result", ms[i].call, 0)
  BY <1>2 DEF AnsweredTools
<1> QED BY <1>1, <1>2, <1>3

\* The same for what calls that rest have and will be shown.
LEMMA OthersRemember ==
  ASSUME SearchInv, NEW c \in Calls, outcome[c] = "none",
         \A d \in Calls \ {c} : call'[d] = call[d] /\ outcome'[d] = outcome[d],
         NEW b \in Calls, Active(b), NEW ms,
         call'[b].known = call[b].known, call'[b].session = call[b].session,
         \A d : HasTurn(call[b].messages, d) => HasTurn(ms, d)
  PROVE  /\ HasTurn(ms, b)
         /\ \A d \in call[b].known :
              SessionOf(d)' = SessionOf(b)' /\ Kept(d, b)' => HasTurn(ms, d)
<1>1. HasTurn(ms, b)
  BY DEF SearchInv, Remembered
<1>2. ASSUME NEW d \in call[b].known, SessionOf(d)' = SessionOf(b)', Kept(d, b)'
      PROVE  HasTurn(ms, d)
  <2>1. call[b].known \in SUBSET Ended /\ d \in Ended
    BY <1>2 DEF SearchInv, Progress
  <2>2. SessionOf(d) = SessionOf(b)
    <3>1. SessionOf(d)' = SessionOf(d)
      BY <2>1, Settled
    <3>2. SessionOf(b)' = SessionOf(b)
      BY DEF SessionOf
    <3> QED BY <1>2, <3>1, <3>2
  <2>3. Kept(d, b)
    <3>1. KeptAmong(d, call[b].known)
      <4>1. \A K : K = call'[b].known /\ Kept(d, b)' => KeptAmong(d, K)'
        BY DEF Kept, KeptAmong, Stays
      <4>2. \A K \in SUBSET Ended : KeptAmong(d, K)' <=> KeptAmong(d, K)
        BY <2>1, Settled
      <4>3. \A K : K = call[b].known => KeptAmong(d, K)
        BY <1>2, <2>1, <4>1, <4>2
      <4> QED BY <4>3
    <3> QED BY <3>1, KeptIsKeptAmong
  <2> QED BY <1>2, <2>2, <2>3 DEF SearchInv, Remembered
<1> QED BY <1>1, <1>2

\* What is stored stays right as long as no turn ends.
LEMMA StillConversed ==
  ASSUME SearchInv, NEW c \in Calls, outcome[c] = "none",
         \A d \in Calls \ {c} : call'[d] = call[d] /\ outcome'[d] = outcome[d],
         outcome'[c] = "none",
         NEW s \in DOMAIN conversations
  PROVE  Ended' = Ended /\ \A d \in Ended :
           SessionOf(d)' = s /\ KeptAmong(d, Ended)' => HasTurn(conversations[s], d)
<1>1. Ended' = Ended
  BY DEF Ended
<1>2. ASSUME NEW d \in Ended, SessionOf(d)' = s, KeptAmong(d, Ended)'
      PROVE  HasTurn(conversations[s], d)
  <2>1. SessionOf(d) = s
    BY <1>2, Settled
  <2>2. \A K \in SUBSET Ended : KeptAmong(d, K)' <=> KeptAmong(d, K)
    BY Settled
  <2>3. \A K : K = Ended /\ KeptAmong(d, Ended)' => KeptAmong(d, K)'
    BY <1>1 DEF KeptAmong
  <2>4. KeptAmong(d, Ended)
    BY <1>2, <2>2, <2>3
  <2> QED BY <2>1, <2>4 DEF SearchInv, Conversed
<1> QED BY <1>1, <1>2

\* One round of a conversation: messages are added, nothing else happens.
LEMMA GoesOn ==
  ASSUME SearchInv, NEW c \in Calls, Active(c), call[c].at # "critique",
         NEW next \in CallRecords, next.at \in {"model", "tools", "answered"},
         next.session = call[c].session, next.known = call[c].known,
         next.since = call[c].since,
         call' = [call EXCEPT ![c] = next],
         UNCHANGED <<profiling, conversations, registry, clock, outcome>>,
         \A d : HasTurn(call[c].messages, d) => HasTurn(next.messages, d),
         next.at \in {"model", "answered"} => AnsweredTools(next.messages),
         next.at = "tools" => AwaitsResults(c, next.messages, next.pending)
  PROVE  SearchInv'
<1>1. SearchTypeOK /\ outcome[c] = "none"
  BY DEF SearchInv, Progress, Active
<1>2. \A b \in Calls : call'[b] = IF b = c THEN next ELSE call[b]
  BY <1>1 DEF SearchTypeOK
<1>3. \A b \in Calls : /\ call'[b].known = call[b].known /\ call'[b].session = call[b].session
                       /\ call'[b].since = call[b].since
  BY <1>2
<1>4. \A d \in Calls \ {c} : call'[d] = call[d] /\ outcome'[d] = outcome[d]
  BY <1>2
<1>5. \A b \in Calls : Active(b)' => Active(b)
  BY <1>2 DEF Active
<1>6. SearchTypeOK'
  BY <1>1 DEF SearchTypeOK
<1>7. Progress'
  <2>1. Ended' = Ended
    BY DEF Ended
  <2>2. \A b \in Calls : /\ call'[b].at = "ended" <=> call[b].at = "ended"
                         /\ call'[b].at = "critique" <=> call[b].at = "critique"
    BY <1>2 DEF Active
  <2> QED BY <1>3, <2>1, <2>2 DEF SearchInv, Progress
<1>8. Sessions'
  <2>1. \A b \in Calls : call'[b].at = "idle" => call[b].at = "idle"
    BY <1>2
  <2> QED BY <1>1, <1>3, <2>1 DEF SearchInv, Sessions, SearchTypeOK
<1>9. ToolsAnswered'
  <2>1. \A b \in Calls : call'[b].at \in {"model", "answered", "critique"} =>
          AnsweredTools(call'[b].messages)
    BY <1>2 DEF SearchInv, ToolsAnswered
  <2>2. \A b \in Calls : call'[b].at = "tools" =>
          AwaitsResults(b, call'[b].messages, call'[b].pending)
    BY <1>2 DEF SearchInv, ToolsAnswered
  <2> QED BY <2>1, <2>2 DEF SearchInv, ToolsAnswered, AnsweredTools
<1>10. Remembered'
  <2> SUFFICES ASSUME NEW b \in Calls, Active(b)'
               PROVE  /\ HasTurn(call'[b].messages, b)
                      /\ \A d \in call'[b].known :
                           SessionOf(d)' = SessionOf(b)' /\ Kept(d, b)' =>
                             HasTurn(call'[b].messages, d)
    BY DEF Remembered, HasTurn
  <2>1. Active(b)
    BY <1>5
  <2>2. \A d : HasTurn(call[b].messages, d) => HasTurn(call'[b].messages, d)
    BY <1>2
  <2> DEFINE ms == call'[b].messages
  <2>3. /\ HasTurn(ms, b)
        /\ \A d \in call[b].known :
             SessionOf(d)' = SessionOf(b)' /\ Kept(d, b)' => HasTurn(ms, d)
    <3> HIDE DEF ms
    <3> QED BY <1>1, <1>3, <1>4, <2>1, <2>2, OthersRemember DEF ms
  <2> QED BY <1>3, <2>3
<1>11. Conversed'
  BY <1>1, <1>4, StillConversed DEF Conversed, HasTurn
<1>12. Awaited'
  BY <1>3, <1>5 DEF SearchInv, Awaited
<1> QED BY <1>6, <1>7, <1>8, <1>9, <1>10, <1>11, <1>12 DEF SearchInv

LEMMA ToolsAreAwaited ==
  ASSUME NEW c \in Calls, NEW ms \in Seq(Messages), AnsweredTools(ms), NEW n \in Nat, n > 0
  PROVE  AwaitsResults(c, Append(ms, Message("tools", c, n)), n)
<1> DEFINE x == Message("tools", c, n)
           more == Append(ms, x)
           i == Len(ms) + 1
<1>1. x \in Messages /\ x.who = "tools" /\ x.call = c /\ x.calls = n
  BY MessageType
<1> HIDE DEF x
<1>2. /\ DOMAIN ms = 1 .. Len(ms) /\ DOMAIN more = 1 .. i /\ Len(more) = i /\ more[i] = x
      /\ \A j \in 1 .. Len(ms) : more[j] = ms[j]
      /\ Len(ms) \in Nat
  BY <1>1
<1> HIDE DEF more
<1>3. ASSUME NEW j \in 1 .. i - 1, more[j].who = "tools", NEW k \in 1 .. more[j].calls
      PROVE  j + k \in DOMAIN more /\ more[j + k] = Message("result", more[j].call, 0)
  <2>1. j \in DOMAIN ms /\ more[j] = ms[j]
    BY <1>2
  <2>2. j + k \in DOMAIN ms /\ ms[j + k] = Message("result", ms[j].call, 0)
    BY <1>3, <2>1 DEF AnsweredTools
  <2> QED BY <1>2, <2>1, <2>2
<1>4. \A j \in i + 1 .. Len(more) : FALSE
  BY <1>2
<1>5. i \in DOMAIN more
  BY <1>2
<1> QED BY <1>1, <1>2, <1>3, <1>4, <1>5 DEF AwaitsResults, more, x

LEMMA ResultsArrive ==
  ASSUME NEW c \in Calls, NEW ms \in Seq(Messages), NEW pending \in Nat,
         AwaitsResults(c, ms, pending)
  PROVE  LET more == Append(ms, Message("result", c, 0))
         IN  IF pending = 1 THEN AnsweredTools(more) ELSE AwaitsResults(c, more, pending - 1)
<1> DEFINE x == Message("result", c, 0)
           more == Append(ms, x)
           n == Len(ms) + 1
<1>1. x \in Messages /\ x.who = "result"
  BY MessageType
<1> HIDE DEF x
<1>2. /\ DOMAIN ms = 1 .. Len(ms) /\ DOMAIN more = 1 .. n /\ Len(more) = n /\ more[n] = x
      /\ \A j \in 1 .. Len(ms) : more[j] = ms[j] /\ ms[j] \in Messages
      /\ Len(ms) \in Nat
  BY <1>1
<1> HIDE DEF more
<1>3. PICK i \in DOMAIN ms :
        /\ ms[i].who = "tools" /\ ms[i].call = c
        /\ Len(ms) + pending = i + ms[i].calls
        /\ \A j \in i + 1 .. Len(ms) : ms[j] = x
        /\ \A j \in 1 .. i - 1 : ms[j].who = "tools" =>
             \A k \in 1 .. ms[j].calls :
               j + k \in DOMAIN ms /\ ms[j + k] = Message("result", ms[j].call, 0)
  BY DEF AwaitsResults, x
<1>4. i \in 1 .. Len(ms) /\ more[i] = ms[i] /\ pending > 0 /\ ms[i].calls \in Nat
  BY <1>2, <1>3 DEF AwaitsResults, Messages
<1>5. \A j \in i + 1 .. n : more[j] = x
  BY <1>2, <1>3, <1>4
<1>6. \A j \in 1 .. i - 1 : more[j] = ms[j]
  BY <1>2, <1>4
<1>7. ASSUME NEW j \in 1 .. i - 1, more[j].who = "tools", NEW k \in 1 .. more[j].calls
      PROVE  j + k \in DOMAIN more /\ more[j + k] = Message("result", more[j].call, 0)
  <2>1. j + k \in DOMAIN ms /\ ms[j + k] = Message("result", ms[j].call, 0)
    BY <1>3, <1>6, <1>7
  <2> QED BY <1>2, <1>6, <2>1
<1>8. CASE pending = 1
  <2>1. n = i + ms[i].calls
    BY <1>2, <1>3, <1>4, <1>8
  <2> SUFFICES ASSUME NEW j \in DOMAIN more, more[j].who = "tools", NEW k \in 1 .. more[j].calls
               PROVE  j + k \in DOMAIN more /\ more[j + k] = Message("result", more[j].call, 0)
    BY <1>8 DEF AnsweredTools, more, x
  <2>2. CASE j < i
    BY <1>2, <1>4, <1>7, <2>2
  <2>3. CASE j = i
    <3>1. i + k \in i + 1 .. n
      BY <1>2, <1>4, <2>1, <2>3
    <3> QED BY <1>2, <1>3, <1>4, <1>5, <2>3, <3>1 DEF x
  <2>4. CASE j > i
    <3>1. more[j] = x
      BY <1>2, <1>4, <1>5, <2>4
    <3> QED BY <1>1, <3>1
  <2> QED BY <1>2, <1>4, <2>2, <2>3, <2>4
<1>9. CASE pending # 1
  <2>1. pending - 1 > 0 /\ n + (pending - 1) = i + more[i].calls /\ i \in DOMAIN more
    <3>1. n = Len(ms) + 1 /\ Len(ms) + pending = i + more[i].calls
      BY <1>2, <1>3, <1>4
    <3>2. Len(ms) \in Nat /\ i \in 1 .. n /\ DOMAIN more = 1 .. n
      BY <1>2, <1>4
    <3> QED BY <3>1, <3>2, <1>4, <1>9
  <2>2. AwaitsResults(c, more, pending - 1)
    BY <1>2, <1>3, <1>4, <1>5, <1>7, <2>1 DEF AwaitsResults, x
  <2> QED BY <1>9, <2>2 DEF more, x
<1> QED BY <1>8, <1>9

LEMMA RoundsKeep ==
  ASSUME SearchInv, NEW c \in Calls,
         \/ \E n \in 1 .. MaxParallel : CallsTools(c, n)
         \/ \E found \in BOOLEAN : ToolReturns(c, found)
         \/ Answers(c)
  PROVE  SearchInv'
<1>1. /\ call \in [Calls -> CallRecords] /\ call[c] \in CallRecords
      /\ call[c].messages \in Seq(Messages) /\ call[c].pending \in Nat
      /\ call[c].round \in Nat /\ call[c].retrieved \in Nat
  <2>1. call \in [Calls -> CallRecords] /\ call[c] \in CallRecords
    BY DEF SearchInv, SearchTypeOK
  <2> QED BY <2>1 DEF CallRecords
<1>2. ASSUME NEW n \in 1 .. MaxParallel, CallsTools(c, n) PROVE SearchInv'
  <2> DEFINE x == Message("tools", c, n)
             ms == Append(call[c].messages, x)
             rounds == call[c].round + 1
             next == [call[c] EXCEPT !.at = "tools", !.round = rounds, !.pending = n,
                                     !.messages = ms]
  <2>1. n \in Nat /\ n > 0 /\ rounds \in Nat
    BY <1>1, Bounds
  <2>1a. call[c].at = "model" /\ AnsweredTools(call[c].messages)
    BY <1>2 DEF CallsTools, SearchInv, ToolsAnswered
  <2>2. /\ ms \in Seq(Messages) /\ AwaitsResults(c, ms, n)
        /\ \A d : HasTurn(call[c].messages, d) => HasTurn(ms, d)
    BY <1>1, <2>1, <2>1a, MessageType, LongerHasTurn, ToolsAreAwaited
  <2>3. call' = [call EXCEPT ![c] = next]
        /\ UNCHANGED <<profiling, conversations, registry, clock, outcome>>
    BY <1>2 DEF CallsTools
  <2> HIDE DEF ms, rounds
  <2>4. /\ next \in CallRecords /\ next.at = "tools" /\ next.session = call[c].session
        /\ next.known = call[c].known /\ next.since = call[c].since
        /\ next.messages = ms /\ next.pending = n
    BY ONLY <1>1, <2>1, <2>2 DEF CallRecords
  <2> HIDE DEF next
  <2>5. Active(c)
    BY <2>1a DEF Active
  <2> QED BY <2>1, <2>1a, <2>2, <2>3, <2>4, <2>5, GoesOn
<1>3. ASSUME NEW found \in BOOLEAN, ToolReturns(c, found) PROVE SearchInv'
  <2> DEFINE x == Message("result", c, 0)
             ms == Append(call[c].messages, x)
             after == IF call[c].pending # 1 THEN "tools"
                      ELSE IF call[c].round > MaxIterations THEN "answered" ELSE "model"
             more == call[c].retrieved + (IF found THEN 1 ELSE 0)
             next == [call[c] EXCEPT !.pending = @ - 1, !.at = after, !.retrieved = more,
                                     !.messages = ms]
  <2>1. call[c].at = "tools" /\ AwaitsResults(c, call[c].messages, call[c].pending)
    BY <1>3 DEF ToolReturns, SearchInv, ToolsAnswered
  <2>2. /\ ms \in Seq(Messages)
        /\ \A d : HasTurn(call[c].messages, d) => HasTurn(ms, d)
        /\ IF call[c].pending = 1 THEN AnsweredTools(ms)
                                  ELSE AwaitsResults(c, ms, call[c].pending - 1)
    BY <1>1, <2>1, MessageType, LongerHasTurn, ResultsArrive
  <2>3. call[c].pending - 1 \in Nat /\ after \in {"tools", "answered", "model"} /\ more \in Nat
        /\ (after = "tools" <=> call[c].pending # 1)
    BY <1>1, <2>1 DEF AwaitsResults
  <2>4. call' = [call EXCEPT ![c] = next]
        /\ UNCHANGED <<profiling, conversations, registry, clock, outcome>>
    BY <1>3 DEF ToolReturns
  <2> HIDE DEF ms, after, more
  <2>5. /\ next \in CallRecords /\ next.at = after /\ next.session = call[c].session
        /\ next.known = call[c].known /\ next.since = call[c].since
        /\ next.messages = ms /\ next.pending = call[c].pending - 1
    BY ONLY <1>1, <2>2, <2>3 DEF CallRecords
  <2> HIDE DEF next
  <2>6. Active(c)
    BY <2>1 DEF Active
  <2> QED BY <2>1, <2>2, <2>3, <2>4, <2>5, <2>6, GoesOn
<1>4. CASE Answers(c)
  <2> DEFINE next == [call[c] EXCEPT !.at = "answered"]
  <2>1. call[c].at = "model" /\ AnsweredTools(call[c].messages) /\ Active(c)
    BY <1>4 DEF Answers, Active, SearchInv, ToolsAnswered
  <2>2. call' = [call EXCEPT ![c] = next]
        /\ UNCHANGED <<profiling, conversations, registry, clock, outcome>>
    BY <1>4 DEF Answers
  <2>3. /\ next \in CallRecords /\ next.at = "answered" /\ next.session = call[c].session
        /\ next.known = call[c].known /\ next.since = call[c].since
        /\ next.messages = call[c].messages
    BY ONLY <1>1 DEF CallRecords
  <2> HIDE DEF next
  <2> QED BY <2>1, <2>2, <2>3, GoesOn
<1> QED BY <1>2, <1>3, <1>4

\* what a session's time of last use may become
Touched ==
  /\ registry' \in [DOMAIN registry' -> Nat]
  /\ \A s \in DOMAIN registry : s \in DOMAIN registry' /\ registry'[s] \in {registry[s], clock}
  /\ \A s \in DOMAIN registry' \ DOMAIN registry : registry'[s] = clock

\* A call begins, with the messages of its session or none.
LEMMA StartKeeps ==
  ASSUME SearchInv, NEW c \in Calls, call[c] = NoCall,
         NEW s \in Calls \cup {NoSession}, NEW before,
         \/ s = NoSession /\ before = <<>>
         \/ /\ s \in DOMAIN conversations /\ before = conversations[s]
            /\ outcome[s] = "answer" /\ s \in DOMAIN registry,
         call' = [call EXCEPT ![c] = Asking(c, s, before)],
         Touched, DOMAIN registry' = DOMAIN registry,
         s # NoSession => registry'[s] = clock,
         UNCHANGED <<profiling, conversations, clock, outcome>>
  PROVE  SearchInv'
<1> DEFINE x == Message("ask", c, 0)
           ms == Append(before, x)
           next == Asking(c, s, before)
<1>1. /\ SearchTypeOK /\ call \in [Calls -> CallRecords]
      /\ outcome[c] = "none" /\ call[c].at = "idle" /\ call[c].session = NoSession
      /\ clock \in Nat /\ Ended \in SUBSET Calls
  <2>1. SearchTypeOK /\ call[c].at = "idle" /\ call[c].session = NoSession
    BY DEF SearchInv, NoCall
  <2> QED BY <2>1 DEF SearchInv, Progress, SearchTypeOK, Ended
<1>2. before \in Seq(Messages) /\ AnsweredTools(before)
  <2>1. CASE s = NoSession /\ before = <<>>
    BY <2>1 DEF AnsweredTools
  <2>2. CASE s \in DOMAIN conversations /\ before = conversations[s]
    BY <2>2 DEF SearchInv, SearchTypeOK, ToolsAnswered
  <2> QED BY <2>1, <2>2
<1>3. /\ ms \in Seq(Messages) /\ AnsweredTools(ms) /\ HasTurn(ms, c)
      /\ \A d : HasTurn(before, d) => HasTurn(ms, d)
  <2>1. x \in Messages /\ x.who # "tools"
    BY MessageType
  <2> HIDE DEF x
  <2>2. /\ Append(before, x) \in Seq(Messages) /\ AnsweredTools(Append(before, x))
        /\ \A d : HasTurn(before, d) => HasTurn(Append(before, x), d)
        /\ \A d : x = Message("ask", d, 0) => HasTurn(Append(before, x), d)
    BY <1>2, <2>1, AnsweredLonger, LongerHasTurn
  <2> QED BY <2>2 DEF x
<1>4. next = [NoCall EXCEPT !.at = "model", !.session = s, !.since = clock, !.messages = ms,
                            !.known = Ended]
  BY DEF Asking, Ended
<1>5. call' = [call EXCEPT ![c] = next]
  OBVIOUS
<1> HIDE DEF ms, next
<1>6. /\ next \in CallRecords /\ next.at = "model" /\ next.session = s /\ next.since = clock
      /\ next.messages = ms /\ next.known = Ended
  BY ONLY NoCallIsACall, <1>1, <1>3, <1>4, s \in Calls \cup {NoSession} DEF CallRecords
<1>7. \A b \in Calls : call'[b] = IF b = c THEN next ELSE call[b]
  BY <1>1, <1>5
<1>8. \A d \in Calls \ {c} : call'[d] = call[d] /\ outcome'[d] = outcome[d]
  BY <1>7
<1>9. c \notin DOMAIN conversations /\ \A b \in Calls : call[b].session # c
  BY <1>1, Bounds DEF SearchInv, Sessions
<1>10. SearchTypeOK'
  BY <1>1, <1>5, <1>6 DEF SearchTypeOK, Touched
<1>11. Progress'
  <2>1. Ended' = Ended
    BY DEF Ended
  <2> QED BY <1>1, <1>6, <1>7, <2>1 DEF SearchInv, Progress
<1>12. Sessions'
  <2>1. \A t \in DOMAIN conversations : t \in Calls /\ t # c
    BY <1>1, <1>9 DEF SearchTypeOK
  <2>2. s # NoSession => outcome[s] = "answer" /\ s \in DOMAIN conversations
    OBVIOUS
  <2> QED BY <1>6, <1>7, <2>1, <2>2 DEF SearchInv, Sessions
<1>13. ToolsAnswered'
  <2>1. \A b \in Calls : call'[b].at \in {"model", "answered", "critique"} =>
          AnsweredTools(call'[b].messages)
    BY <1>3, <1>6, <1>7 DEF SearchInv, ToolsAnswered
  <2>2. \A b \in Calls : call'[b].at = "tools" =>
          AwaitsResults(b, call'[b].messages, call'[b].pending)
    BY <1>6, <1>7 DEF SearchInv, ToolsAnswered
  <2> QED BY <2>1, <2>2 DEF SearchInv, ToolsAnswered, AnsweredTools
<1>14. Remembered'
  <2>1. ASSUME NEW b \in Calls, Active(b)', b # c
        PROVE  /\ HasTurn(call'[b].messages, b)
               /\ \A d \in call'[b].known :
                    SessionOf(d)' = SessionOf(b)' /\ Kept(d, b)' =>
                      HasTurn(call'[b].messages, d)
    <3>1. call'[b] = call[b] /\ Active(b)
      BY <1>7, <2>1 DEF Active
    <3>2. \A ms1 : ms1 = call'[b].messages =>
            /\ HasTurn(ms1, b)
            /\ \A d \in call[b].known :
                 SessionOf(d)' = SessionOf(b)' /\ Kept(d, b)' => HasTurn(ms1, d)
      BY <1>1, <1>8, <3>1, OthersRemember
    <3> QED BY <3>1, <3>2
  <2>2. ASSUME NEW d \in call'[c].known, SessionOf(d)' = SessionOf(c)', Kept(d, c)'
        PROVE  HasTurn(call'[c].messages, d)
    <3>1. d \in Ended /\ call'[c].known = Ended /\ call'[c].messages = ms /\ call'[c].session = s
      BY <1>6, <1>7, <2>2
    <3>2. SessionOf(d)' = SessionOf(d) /\ d \in Calls /\ d # c
      BY <1>1, <1>8, <3>1, Settled
    <3>3. SessionOf(c)' = IF s = NoSession THEN c ELSE s
      BY <3>1 DEF SessionOf
    <3>4. s # NoSession
      <4> SUFFICES ASSUME s = NoSession PROVE FALSE
        OBVIOUS
      <4>1. SessionOf(d) = c
        BY <2>2, <3>2, <3>3
      <4> QED BY <1>9, <3>2, <4>1 DEF SessionOf
    <3>5. SessionOf(d) = s
      BY <2>2, <3>2, <3>3, <3>4
    <3>6. KeptAmong(d, Ended)
      <4>1. \A K : K = call'[c].known /\ Kept(d, c)' => KeptAmong(d, K)'
        BY DEF Kept, KeptAmong, Stays
      <4>2. \A K \in SUBSET Ended : KeptAmong(d, K)' <=> KeptAmong(d, K)
        BY <1>1, <1>8, <3>1, Settled
      <4>3. \A K : K = Ended => KeptAmong(d, K)
        BY <2>2, <3>1, <4>1, <4>2
      <4> QED BY <4>3
    <3>7. HasTurn(before, d)
      BY <3>1, <3>4, <3>5, <3>6 DEF SearchInv, Conversed
    <3> QED BY <1>3, <3>1, <3>7
  <2>3. HasTurn(call'[c].messages, c)
    BY <1>3, <1>6, <1>7
  <2>4. \A b \in Calls : Active(b)' =>
          /\ HasTurn(call'[b].messages, b)
          /\ \A d \in call'[b].known :
               SessionOf(d)' = SessionOf(b)' /\ Kept(d, b)' => HasTurn(call'[b].messages, d)
    BY <2>1, <2>2, <2>3
  <2> QED BY <2>4 DEF Remembered, HasTurn
<1>15. Conversed'
  BY <1>1, <1>8, StillConversed DEF Conversed, HasTurn
<1>16. Awaited'
  <2> SUFFICES ASSUME NEW b \in Calls, Active(b)', call'[b].session # NoSession
               PROVE  /\ call'[b].since <= clock
                      /\ IF call'[b].session \in DOMAIN registry'
                           THEN registry'[call'[b].session] >= call'[b].since
                           ELSE clock - call'[b].since > SessionTtl
    BY DEF Awaited
  <2>1. CASE b = c
    <3>1. call'[b].session = s /\ call'[b].since = clock /\ s \in DOMAIN registry'
          /\ registry'[s] = clock
      BY <1>6, <1>7, <2>1
    <3> QED BY <1>1, <3>1
  <2>2. CASE b # c
    <3>1. call'[b] = call[b] /\ Active(b)
      BY <1>7, <2>2 DEF Active
    <3>2. call[b].since \in Nat /\ call[b].since <= clock
      <4>1. call[b] \in CallRecords
        BY <1>1
      <4> QED BY <3>1, <4>1 DEF SearchInv, Awaited, CallRecords
    <3>3. CASE call[b].session \in DOMAIN registry
      <4>1. registry[call[b].session] >= call[b].since
        BY <3>1, <3>3 DEF SearchInv, Awaited
      <4>2. registry'[call[b].session] \in {registry[call[b].session], clock}
        BY <3>3 DEF Touched
      <4> QED BY <1>1, <3>1, <3>2, <3>3, <4>1, <4>2
    <3>4. CASE call[b].session \notin DOMAIN registry
      BY <3>1, <3>2, <3>4 DEF SearchInv, Awaited
    <3> QED BY <3>3, <3>4
  <2> QED BY <2>1, <2>2
<1> QED BY <1>10, <1>11, <1>12, <1>13, <1>14, <1>15, <1>16 DEF SearchInv

\* What every end has in common; what is stored is left to the lemmas below.
LEMMA EndsInOrder ==
  ASSUME SearchInv, NEW c \in Calls, outcome[c] = "none",
         NEW how \in {"answer", "lost", "not_found", "error"}, CallEnds(c, how),
         UNCHANGED <<profiling, clock>>,
         DOMAIN conversations' \subseteq Calls,
         conversations' \in [DOMAIN conversations' -> Seq(Messages)],
         DOMAIN conversations \subseteq DOMAIN conversations',
         registry' \in [DOMAIN registry' -> Nat],
         DOMAIN registry' \subseteq DOMAIN conversations',
         \A s \in DOMAIN conversations' : AnsweredTools(conversations'[s]),
         \A s \in DOMAIN conversations' \ DOMAIN conversations :
           s = c /\ call[c].session = NoSession,
         Touched \/ \E s \in Calls : /\ registry' = [t \in DOMAIN registry \ {s} |-> registry[t]]
                                     /\ s \notin DOMAIN registry \/ SessionExpired(s)
  PROVE  /\ SearchTypeOK' /\ Progress' /\ Sessions' /\ ToolsAnswered' /\ Remembered' /\ Awaited'
         /\ Ended' = Ended \cup {c} /\ c \notin Ended /\ outcome'[c] = how
         /\ SessionOf(c)' = SessionOf(c) /\ call'[c].known = call[c].known
         /\ \A d \in Calls \ {c} : call'[d] = call[d] /\ outcome'[d] = outcome[d]
<1> DEFINE next == [NoCall EXCEPT !.at = "ended", !.session = call[c].session,
                                  !.known = call[c].known]
<1>1. /\ SearchTypeOK /\ call \in [Calls -> CallRecords] /\ call[c] \in CallRecords
      /\ outcome \in [Calls -> {"none", "answer", "lost", "not_found", "error"}]
      /\ clock \in Nat
  BY DEF SearchInv, SearchTypeOK
<1>2. call' = [call EXCEPT ![c] = next] /\ outcome' = [outcome EXCEPT ![c] = how]
  BY DEF CallEnds
<1>3. /\ next \in CallRecords /\ next.at = "ended" /\ next.session = call[c].session
      /\ next.known = call[c].known
  <2>1. \A n : n = next => /\ n \in CallRecords /\ n.at = "ended" /\ n.session = call[c].session
                           /\ n.known = call[c].known
    <3> SUFFICES ASSUME NEW n, n = next
                 PROVE  /\ n \in CallRecords /\ n.at = "ended" /\ n.session = call[c].session
                        /\ n.known = call[c].known
      OBVIOUS
    <3> QED BY ONLY <1>1, n = next, NoCallIsACall DEF CallRecords
  <2> QED BY <2>1
<1> HIDE DEF next
<1>4. \A b \in Calls : /\ call'[b] = IF b = c THEN next ELSE call[b]
                       /\ outcome'[b] = IF b = c THEN how ELSE outcome[b]
  BY <1>1, <1>2
<1>5. \A d \in Calls \ {c} : call'[d] = call[d] /\ outcome'[d] = outcome[d]
  BY <1>4
<1>6. Ended' = Ended \cup {c} /\ c \notin Ended
  <2>1. \A d \in Calls : outcome'[d] # "none" <=> d = c \/ outcome[d] # "none"
    BY <1>4
  <2> QED BY <2>1 DEF Ended
<1>7. SearchTypeOK'
  BY <1>1, <1>2, <1>3 DEF SearchTypeOK
<1>8. Progress'
  <2>1. \A b \in Calls : call'[b].at = "ended" <=> outcome'[b] # "none"
    BY <1>3, <1>4 DEF SearchInv, Progress
  <2>2. \A b \in Calls : call'[b].known \subseteq Ended'
    BY <1>3, <1>4, <1>6 DEF SearchInv, Progress
  <2>3. \A b \in Calls : call'[b].at = "critique" =>
          call'[b].session = NoSession /\ b \in DOMAIN conversations'
    BY <1>3, <1>4 DEF SearchInv, Progress
  <2> QED BY <2>1, <2>2, <2>3 DEF Progress
<1>9. Sessions'
  <2>1. \A s \in DOMAIN conversations' : call'[s].session = NoSession /\ call'[s].at # "idle"
    <3> SUFFICES ASSUME NEW s \in DOMAIN conversations'
                 PROVE  call'[s].session = NoSession /\ call'[s].at # "idle"
      OBVIOUS
    <3>1. CASE s = c
      BY <1>3, <1>4, <3>1 DEF SearchInv, Sessions
    <3>2. CASE s # c
      BY <1>4, <3>2 DEF SearchInv, Sessions
    <3> QED BY <3>1, <3>2
  <2>2. ASSUME NEW b \in Calls, call'[b].session # NoSession
        PROVE  outcome'[call'[b].session] = "answer" /\ call'[b].session \in DOMAIN conversations'
    <3>1. call'[b].session = call[b].session
      BY <1>3, <1>4
    <3>2. outcome[call[b].session] = "answer" /\ call[b].session \in DOMAIN conversations
      BY <2>2, <3>1 DEF SearchInv, Sessions
    <3>3. call[b].session # c /\ call[b].session \in Calls
      BY <1>1, <3>2 DEF SearchTypeOK
    <3> QED BY <1>4, <3>1, <3>2, <3>3
  <2> QED BY <2>1, <2>2 DEF Sessions
<1>10. ToolsAnswered'
  <2>1. \A b \in Calls : call'[b].at \in {"model", "answered", "critique"} =>
          AnsweredTools(call'[b].messages)
    BY <1>3, <1>4 DEF SearchInv, ToolsAnswered
  <2>2. \A b \in Calls : call'[b].at = "tools" =>
          AwaitsResults(b, call'[b].messages, call'[b].pending)
    BY <1>3, <1>4 DEF SearchInv, ToolsAnswered
  <2> QED BY <2>1, <2>2 DEF ToolsAnswered, AnsweredTools
<1>11. \A b \in Calls : Active(b)' => b # c /\ call'[b] = call[b] /\ Active(b)
  BY <1>3, <1>4 DEF Active
<1>12. Remembered'
  <2>1. ASSUME NEW b \in Calls, Active(b)'
        PROVE  /\ HasTurn(call'[b].messages, b)
               /\ \A d \in call'[b].known :
                    SessionOf(d)' = SessionOf(b)' /\ Kept(d, b)' =>
                      HasTurn(call'[b].messages, d)
    <3>1. call'[b] = call[b] /\ Active(b)
      BY <1>11, <2>1
    <3>2. \A ms1 : ms1 = call'[b].messages =>
            /\ HasTurn(ms1, b)
            /\ \A d \in call[b].known :
                 SessionOf(d)' = SessionOf(b)' /\ Kept(d, b)' => HasTurn(ms1, d)
      BY <1>1, <1>5, <3>1, OthersRemember
    <3> QED BY <3>1, <3>2
  <2> QED BY <2>1 DEF Remembered, HasTurn
<1>13. Awaited'
  <2> SUFFICES ASSUME NEW b \in Calls, Active(b)', call'[b].session # NoSession
               PROVE  /\ call'[b].since <= clock
                      /\ IF call'[b].session \in DOMAIN registry'
                           THEN registry'[call'[b].session] >= call'[b].since
                           ELSE clock - call'[b].since > SessionTtl
    BY DEF Awaited
  <2> DEFINE s == call[b].session
             since == call[b].since
  <2>1. call'[b] = call[b] /\ Active(b)
    BY <1>11
  <2>2. /\ since \in Nat /\ since <= clock
        /\ IF s \in DOMAIN registry THEN registry[s] >= since /\ registry[s] \in Nat
                                    ELSE clock - since > SessionTtl
    <3>1. call[b] \in CallRecords
      BY <1>1
    <3> QED BY <1>1, <2>1, <3>1 DEF SearchInv, Awaited, CallRecords, SearchTypeOK
  <2> HIDE DEF s, since
  <2>3. CASE Touched
    <3>1. CASE s \in DOMAIN registry
      <4>1. s \in DOMAIN registry' /\ registry'[s] \in {registry[s], clock}
        BY <2>3, <3>1 DEF Touched
      <4> QED BY <1>1, <2>1, <2>2, <3>1, <4>1 DEF s, since
    <3>2. CASE s \notin DOMAIN registry
      <4>1. s \in DOMAIN registry' => registry'[s] = clock
        BY <2>3, <3>2 DEF Touched
      <4> QED BY <1>1, <2>1, <2>2, <3>2, <4>1 DEF s, since
    <3> QED BY <3>1, <3>2
  <2>4. ASSUME NEW t \in Calls, registry' = [u \in DOMAIN registry \ {t} |-> registry[u]],
               t \notin DOMAIN registry \/ SessionExpired(t)
        PROVE  IF s \in DOMAIN registry' THEN registry'[s] >= since
                                         ELSE clock - since > SessionTtl
    <3>1. CASE s \in DOMAIN registry'
      BY <2>2, <2>4, <3>1
    <3>2. CASE s \notin DOMAIN registry
      BY <2>2, <2>4, <3>2
    <3>3. CASE s \in DOMAIN registry /\ s \notin DOMAIN registry'
      <4>1. s = t /\ clock - registry[s] > SessionTtl
        BY <2>4, <3>3 DEF SessionExpired
      <4> QED BY <1>1, <2>2, <3>3, <4>1, Bounds
    <3> QED BY <3>1, <3>2, <3>3
  <2> QED BY <2>1, <2>2, <2>3, <2>4 DEF s, since
<1>14. SessionOf(c)' = SessionOf(c) /\ call'[c].known = call[c].known /\ outcome'[c] = how
  BY <1>3, <1>4 DEF SessionOf
<1> QED BY <1>5, <1>6, <1>7, <1>8, <1>9, <1>10, <1>12, <1>13, <1>14

\* Ending without an answer changes nothing of what is stored.
LEMMA EndsUnkept ==
  ASSUME SearchInv, NEW c \in Calls, outcome[c] = "none",
         NEW how \in {"not_found", "error"}, CallEnds(c, how),
         UNCHANGED <<profiling, conversations, clock>>,
         \/ registry' = registry
         \/ \E s \in Calls : /\ registry' = [t \in DOMAIN registry \ {s} |-> registry[t]]
                             /\ s \notin DOMAIN registry \/ SessionExpired(s)
  PROVE  SearchInv'
<1>1. /\ DOMAIN conversations \subseteq Calls
      /\ conversations \in [DOMAIN conversations -> Seq(Messages)]
      /\ registry \in [DOMAIN registry -> Nat] /\ DOMAIN registry \subseteq DOMAIN conversations
      /\ \A s \in DOMAIN conversations : AnsweredTools(conversations[s])
  BY DEF SearchInv, SearchTypeOK, Sessions, ToolsAnswered
<1>2. registry' \in [DOMAIN registry' -> Nat] /\ DOMAIN registry' \subseteq DOMAIN registry
  BY <1>1
<1>3. Touched \/ \E s \in Calls : /\ registry' = [t \in DOMAIN registry \ {s} |-> registry[t]]
                                  /\ s \notin DOMAIN registry \/ SessionExpired(s)
  BY <1>1 DEF Touched
<1>4. /\ SearchTypeOK' /\ Progress' /\ Sessions' /\ ToolsAnswered' /\ Remembered' /\ Awaited'
      /\ Ended' = Ended \cup {c} /\ c \notin Ended /\ outcome'[c] = how
      /\ \A d \in Calls \ {c} : call'[d] = call[d] /\ outcome'[d] = outcome[d]
  BY <1>1, <1>2, <1>3, EndsInOrder
<1>5. Conversed'
  <2>1. ASSUME NEW s \in DOMAIN conversations, NEW d \in Ended', SessionOf(d)' = s,
               KeptAmong(d, Ended)'
        PROVE  HasTurn(conversations[s], d)
    <3>1. d # c
      BY <1>4, <2>1 DEF KeptAmong, Stays
    <3>2. d \in Ended
      BY <1>4, <2>1, <3>1
    <3>3. SessionOf(d) = s
      BY <1>4, <2>1, <3>2, Settled
    <3>4. \A K : K = Ended => KeptAmong(d, K)'
      BY <1>4, <2>1 DEF KeptAmong
    <3>5. \A K \in SUBSET Ended : KeptAmong(d, K)' <=> KeptAmong(d, K)
      BY <1>4, <3>2, Settled
    <3>6. \A K : K = Ended => KeptAmong(d, K)
      BY <3>4, <3>5
    <3> QED BY <3>2, <3>3, <3>6 DEF SearchInv, Conversed
  <2> QED BY <2>1 DEF Conversed, HasTurn
<1> QED BY <1>4, <1>5 DEF SearchInv

\* An answer is stored over the turns that its call was shown: a turn that it
\* was not shown ran beside it, unless it was not kept before.
LEMMA EndsKept ==
  ASSUME SearchInv, NEW c \in Calls, call[c].at \in {"answered", "critique"},
         NEW how \in {"answer", "lost"}, CallEnds(c, how),
         UNCHANGED <<profiling, clock>>,
         conversations' = Stored(c),
         Touched, DOMAIN registry' \subseteq DOMAIN conversations'
  PROVE  SearchInv'
<1> DEFINE s == SessionOf(c)
           ms == call[c].messages
<1>1. /\ Active(c) /\ outcome[c] = "none" /\ call[c] \in CallRecords
      /\ ms \in Seq(Messages) /\ AnsweredTools(ms)
      /\ DOMAIN conversations \subseteq Calls
      /\ conversations \in [DOMAIN conversations -> Seq(Messages)]
      /\ \A t \in DOMAIN conversations : AnsweredTools(conversations[t])
  <2>1. Active(c) /\ outcome[c] = "none" /\ call[c] \in CallRecords
    BY DEF SearchInv, Progress, Active, SearchTypeOK
  <2> QED BY <2>1 DEF SearchInv, SearchTypeOK, ToolsAnswered, CallRecords
<1>2. s \in Calls /\ (s \in DOMAIN conversations \/ (s = c /\ call[c].session = NoSession))
  BY <1>1 DEF SessionOf, SearchInv, Sessions, CallRecords
<1>3. conversations' = [t \in {s} \cup DOMAIN conversations |->
                          IF t = s THEN ms ELSE conversations[t]]
  BY DEF Stored, SessionOf, Put
<1> HIDE DEF s, ms
<1>4. /\ DOMAIN conversations' = {s} \cup DOMAIN conversations
      /\ \A t \in DOMAIN conversations' :
           conversations'[t] = IF t = s THEN ms ELSE conversations[t]
      /\ conversations' \in [DOMAIN conversations' -> Seq(Messages)]
  BY <1>1, <1>3
<1>5. \A t \in DOMAIN conversations' : AnsweredTools(conversations'[t])
  BY <1>1, <1>4
<1>6. /\ SearchTypeOK' /\ Progress' /\ Sessions' /\ ToolsAnswered' /\ Remembered' /\ Awaited'
      /\ Ended' = Ended \cup {c} /\ c \notin Ended /\ outcome'[c] = how
      /\ SessionOf(c)' = SessionOf(c) /\ call'[c].known = call[c].known
      /\ \A d \in Calls \ {c} : call'[d] = call[d] /\ outcome'[d] = outcome[d]
  <2>1. registry' \in [DOMAIN registry' -> Nat]
    BY DEF Touched
  <2> QED BY <1>1, <1>2, <1>4, <1>5, <2>1, EndsInOrder
<1>7. Conversed'
  <2>1. ASSUME NEW t \in DOMAIN conversations', NEW d \in Ended', SessionOf(d)' = t,
               KeptAmong(d, Ended)'
        PROVE  HasTurn(conversations'[t], d)
    <3>1. d \in Ended \/ d = c
      BY <1>6
    <3>2. CASE d = c
      <4>1. t = s
        BY <1>6, <2>1, <3>2 DEF s
      <4> QED BY <1>1, <1>4, <3>2, <4>1 DEF SearchInv, Remembered, ms
    <3>3. CASE d \in Ended
      <4>1. SessionOf(d) = t /\ d # c /\ call'[d].known = call[d].known
        BY <1>1, <1>6, <2>1, <3>3, Settled
      <4>2. \A K \in SUBSET Ended : KeptAmong(d, K)' <=> KeptAmong(d, K)
        BY <1>1, <1>6, <3>3, Settled
      <4>3. \A K : K \in SUBSET Ended => KeptAmong(d, K)
        <5>1. \A K : K \in SUBSET Ended => KeptAmong(d, K)'
          BY <1>6, <2>1 DEF KeptAmong
        <5> QED BY <4>2, <5>1
      <4>4. CASE t # s
        <5>1. t \in DOMAIN conversations /\ conversations'[t] = conversations[t]
          BY <1>4, <4>4
        <5> QED BY <3>3, <4>1, <4>3, <5>1 DEF SearchInv, Conversed
      <4>5. CASE t = s
        <5>1. d \in call[c].known
          <6>1. d \in call'[c].known \/ c \in call'[d].known
            <7>1. c \in Ended' \ {d} /\ Stays(c)' /\ SessionOf(c)' = SessionOf(d)'
              BY <1>6, <2>1, <4>1, <4>5 DEF Stays, s
            <7> QED BY <2>1, <7>1 DEF KeptAmong
          <6>2. c \notin call[d].known
            BY <1>6, <3>3 DEF SearchInv, Progress, Ended
          <6> QED BY <1>6, <4>1, <6>1, <6>2
        <5>2. call[c].known \in SUBSET Ended
          BY DEF SearchInv, Progress
        <5>3. Kept(d, c)
          BY <4>3, <5>2, KeptIsKeptAmong
        <5> QED BY <1>1, <1>4, <2>1, <4>1, <4>5, <5>1, <5>3 DEF SearchInv, Remembered, s, ms
      <4> QED BY <4>4, <4>5
    <3> QED BY <3>1, <3>2, <3>3
  <2> QED BY <2>1 DEF Conversed, HasTurn
<1> QED BY <1>6, <1>7 DEF SearchInv

\* The answer of a profiled question is stored before its retrospective.
LEMMA CritiqueKeeps ==
  ASSUME SearchInv, NEW c \in Calls, call[c].at = "answered", call[c].session = NoSession,
         NEW next \in CallRecords, next.at = "critique", next.session = NoSession,
         next.known = call[c].known,
         next.messages = Append(call[c].messages, Message("critique", c, 0)),
         call' = [call EXCEPT ![c] = next],
         conversations' = Put(conversations, c, call[c].messages),
         registry' = Put(registry, c, clock),
         UNCHANGED <<profiling, clock, outcome>>
  PROVE  SearchInv'
<1> DEFINE ms == call[c].messages
           more == Append(ms, Message("critique", c, 0))
<1>1. /\ Active(c) /\ outcome[c] = "none" /\ call[c] \in CallRecords /\ ms \in Seq(Messages)
      /\ SearchTypeOK /\ call \in [Calls -> CallRecords] /\ clock \in Nat
      /\ DOMAIN conversations \subseteq Calls /\ DOMAIN registry \subseteq DOMAIN conversations
      /\ conversations \in [DOMAIN conversations -> Seq(Messages)]
      /\ registry \in [DOMAIN registry -> Nat]
  <2>1. Active(c) /\ outcome[c] = "none" /\ call[c] \in CallRecords
    BY DEF SearchInv, Progress, Active, SearchTypeOK
  <2> QED BY <2>1 DEF SearchInv, SearchTypeOK, Sessions, CallRecords
<1>2. AnsweredTools(ms)
  BY DEF SearchInv, ToolsAnswered
<1>3. AnsweredTools(more) /\ \A d : HasTurn(ms, d) => HasTurn(more, d)
  <2> DEFINE x == Message("critique", c, 0)
  <2>1. x \in Messages /\ x.who # "tools"
    BY MessageType
  <2> HIDE DEF x, ms
  <2> QED BY <1>1, <1>2, <2>1, AnsweredLonger, LongerHasTurn DEF x
<1>4. \A b \in Calls : call'[b] = IF b = c THEN next ELSE call[b]
  BY <1>1
<1>5. \A d \in Calls \ {c} : call'[d] = call[d] /\ outcome'[d] = outcome[d]
  BY <1>4
<1>6. /\ DOMAIN conversations' = {c} \cup DOMAIN conversations
      /\ \A t \in DOMAIN conversations' :
           conversations'[t] = IF t = c THEN ms ELSE conversations[t]
      /\ conversations' \in [DOMAIN conversations' -> Seq(Messages)]
      /\ DOMAIN registry' = {c} \cup DOMAIN registry
      /\ \A t \in DOMAIN registry' : registry'[t] = IF t = c THEN clock ELSE registry[t]
      /\ registry' \in [DOMAIN registry' -> Nat]
  <2> HIDE DEF ms
  <2> QED BY <1>1 DEF Put, ms
<1> HIDE DEF ms, more
<1>7. SearchTypeOK'
  BY <1>1, <1>6 DEF SearchTypeOK
<1>8. Progress'
  <2>1. Ended' = Ended
    BY DEF Ended
  <2> QED BY <1>1, <1>4, <1>6, <2>1 DEF SearchInv, Progress
<1>9. Sessions'
  <2>1. \A s \in DOMAIN conversations' : call'[s].session = NoSession /\ call'[s].at # "idle"
    BY <1>1, <1>4, <1>6 DEF SearchInv, Sessions
  <2>2. \A b \in Calls : call'[b].session # NoSession =>
          outcome'[call'[b].session] = "answer" /\ call'[b].session \in DOMAIN conversations'
    BY <1>4, <1>6 DEF SearchInv, Sessions
  <2> QED BY <1>1, <1>6, <2>1, <2>2 DEF Sessions
<1>10. ToolsAnswered'
  <2>1. \A b \in Calls : call'[b].at \in {"model", "answered", "critique"} =>
          AnsweredTools(call'[b].messages)
    BY <1>3, <1>4 DEF SearchInv, ToolsAnswered, more, ms
  <2>2. \A b \in Calls : call'[b].at = "tools" =>
          AwaitsResults(b, call'[b].messages, call'[b].pending)
    BY <1>4 DEF SearchInv, ToolsAnswered
  <2>3. \A s \in DOMAIN conversations' : AnsweredTools(conversations'[s])
    BY <1>2, <1>6 DEF SearchInv, ToolsAnswered
  <2> QED BY <2>1, <2>2, <2>3 DEF ToolsAnswered, AnsweredTools
<1>11. Remembered'
  <2> SUFFICES ASSUME NEW b \in Calls, Active(b)'
               PROVE  /\ HasTurn(call'[b].messages, b)
                      /\ \A d \in call'[b].known :
                           SessionOf(d)' = SessionOf(b)' /\ Kept(d, b)' =>
                             HasTurn(call'[b].messages, d)
    BY DEF Remembered, HasTurn
  <2>1. Active(b) /\ call'[b].known = call[b].known /\ call'[b].session = call[b].session
    BY <1>1, <1>4 DEF Active
  <2>2. \A d : HasTurn(call[b].messages, d) => HasTurn(call'[b].messages, d)
    BY <1>3, <1>4 DEF ms, more
  <2>3. \A new : new = call'[b].messages =>
          /\ HasTurn(new, b)
          /\ \A d \in call[b].known :
               SessionOf(d)' = SessionOf(b)' /\ Kept(d, b)' => HasTurn(new, d)
    BY <1>1, <1>5, <2>1, <2>2, OthersRemember
  <2> QED BY <2>1, <2>3
<1>12. Conversed'
  <2>1. Ended' = Ended
    BY DEF Ended
  <2>2. ASSUME NEW s \in DOMAIN conversations', NEW d \in Ended, SessionOf(d)' = s,
               KeptAmong(d, Ended)'
        PROVE  HasTurn(conversations'[s], d)
    <3>1. SessionOf(d) = s /\ d \in Calls /\ d # c
      BY <1>1, <1>5, <2>2, Settled DEF Ended
    <3>2. s # c
      BY <1>1, <3>1 DEF SearchInv, Sessions, SessionOf
    <3>3. s \in DOMAIN conversations /\ conversations'[s] = conversations[s]
      BY <1>6, <3>2
    <3> QED BY <1>1, <1>5, <2>2, <3>3, StillConversed
  <2> QED BY <2>1, <2>2 DEF Conversed, HasTurn
<1>13. Awaited'
  <2> SUFFICES ASSUME NEW b \in Calls, Active(b)', call'[b].session # NoSession
               PROVE  /\ call'[b].since <= clock
                      /\ IF call'[b].session \in DOMAIN registry'
                           THEN registry'[call'[b].session] >= call'[b].since
                           ELSE clock - call'[b].since > SessionTtl
    BY DEF Awaited
  <2>1. b # c /\ call'[b] = call[b] /\ Active(b)
    BY <1>4 DEF Active
  <2>2. call[b].session # c
    BY <1>1, <2>1 DEF SearchInv, Sessions
  <2> QED BY <1>6, <2>1, <2>2 DEF SearchInv, Awaited
<1> QED BY <1>7, <1>8, <1>9, <1>10, <1>11, <1>12, <1>13 DEF SearchInv

LEMMA EndSearchKeeps ==
  ASSUME SearchInv, NEW c \in Calls, EndSearch(c) \/ EndCritique(c)
  PROVE  SearchInv'
<1>1. /\ call \in [Calls -> CallRecords] /\ call[c] \in CallRecords /\ clock \in Nat
      /\ DOMAIN registry \subseteq DOMAIN conversations
      /\ registry \in [DOMAIN registry -> Nat]
  BY DEF SearchInv, SearchTypeOK, Sessions
<1>2. ASSUME EndCritique(c) PROVE SearchInv'
  <2>1. /\ call[c].at = "critique" /\ call[c].session = NoSession /\ c \in DOMAIN conversations
    BY <1>2 DEF EndCritique, SearchInv, Progress
  <2>2. conversations' = Put(conversations, c, call[c].messages)
    <3>1. conversations' = [conversations EXCEPT ![c] = call[c].messages]
      BY <1>2 DEF EndCritique
    <3>2. conversations = [t \in DOMAIN conversations |-> conversations[t]]
      BY DEF SearchInv, SearchTypeOK
    <3> QED BY <2>1, <3>1, <3>2 DEF Put
  <2>3. conversations' = Stored(c) /\ DOMAIN conversations' = DOMAIN conversations
    BY <2>1, <2>2 DEF Stored, Put
  <2>4. Touched /\ registry' = registry /\ UNCHANGED <<profiling, clock>> /\ CallEnds(c, "answer")
    BY <1>1, <1>2 DEF EndCritique, Touched
  <2> QED BY <1>1, <2>1, <2>3, <2>4, EndsKept
<1>3. ASSUME EndSearch(c), call[c].session = NoSession PROVE SearchInv'
  <2>1. /\ call[c].at = "answered" /\ registry' = Put(registry, c, clock)
        /\ conversations' = Stored(c) /\ conversations' = Put(conversations, c, call[c].messages)
        /\ UNCHANGED <<profiling, clock>>
    BY <1>3 DEF EndSearch, Stored
  <2>2. CASE profiling
    <3> DEFINE ms == Append(call[c].messages, Message("critique", c, 0))
               next == [call[c] EXCEPT !.at = "critique", !.messages = ms]
    <3>1. ms \in Seq(Messages)
      <4>1. call[c].messages \in Seq(Messages) /\ Message("critique", c, 0) \in Messages
        BY <1>1, MessageType DEF CallRecords
      <4> QED BY <4>1
    <3>2. call' = [call EXCEPT ![c] = next] /\ outcome' = outcome
      BY <1>3, <2>2 DEF EndSearch
    <3> HIDE DEF ms
    <3>3. /\ next \in CallRecords /\ next.at = "critique" /\ next.session = call[c].session
          /\ next.known = call[c].known /\ next.messages = ms
      BY ONLY <1>1, <3>1 DEF CallRecords
    <3> HIDE DEF next
    <3> QED BY <1>3, <2>1, <3>2, <3>3, CritiqueKeeps DEF ms
  <2>3. CASE ~profiling
    <3>1. CallEnds(c, "answer")
      BY <1>3, <2>3 DEF EndSearch
    <3>2. /\ DOMAIN registry' = {c} \cup DOMAIN registry
          /\ \A t \in DOMAIN registry' : registry'[t] = IF t = c THEN clock ELSE registry[t]
          /\ DOMAIN conversations' = {c} \cup DOMAIN conversations
      BY <2>1 DEF Put
    <3>3. registry' \in [DOMAIN registry' -> Nat]
      BY <1>1, <2>1 DEF Put
    <3>4. Touched
      BY <3>2, <3>3 DEF Touched
    <3> QED BY <1>1, <2>1, <3>1, <3>2, <3>4, EndsKept
  <2> QED BY <2>2, <2>3
<1>4. ASSUME EndSearch(c), call[c].session # NoSession PROVE SearchInv'
  <2>1. /\ call[c].at = "answered" /\ conversations' = Stored(c)
        /\ UNCHANGED <<profiling, clock>>
    BY <1>4 DEF EndSearch
  <2>2. DOMAIN conversations \subseteq DOMAIN conversations'
    BY <1>4, <2>1 DEF Stored, Put
  <2>3. CASE call[c].session \in DOMAIN registry
    <3>1. registry' = [registry EXCEPT ![call[c].session] = clock] /\ CallEnds(c, "answer")
      BY <1>4, <2>3 DEF EndSearch, Refreshed
    <3>2. Touched /\ DOMAIN registry' = DOMAIN registry
      BY <1>1, <3>1 DEF Touched
    <3> QED BY <1>1, <2>1, <2>2, <3>1, <3>2, EndsKept
  <2>4. CASE call[c].session \notin DOMAIN registry
    <3>1. registry' = registry /\ CallEnds(c, "lost")
      BY <1>4, <2>4 DEF EndSearch
    <3>2. Touched
      BY <1>1, <3>1 DEF Touched
    <3> QED BY <1>1, <2>1, <2>2, <3>1, <3>2, EndsKept
  <2> QED BY <2>3, <2>4
<1> QED BY <1>2, <1>3, <1>4

LEMMA BeginsKeep ==
  ASSUME SearchInv, NEW c \in Calls,
         Search(c) \/ \E s \in Calls \ {c} : outcome[s] = "answer" /\ SearchContinue(c, s)
  PROVE  SearchInv'
<1>1. /\ call \in [Calls -> CallRecords] /\ clock \in Nat
      /\ DOMAIN registry \subseteq DOMAIN conversations
      /\ registry \in [DOMAIN registry -> Nat]
  BY DEF SearchInv, SearchTypeOK, Sessions
<1>2. CASE Search(c)
  <2>1. /\ call[c] = NoCall /\ call' = [call EXCEPT ![c] = Asking(c, NoSession, <<>>)]
        /\ UNCHANGED <<profiling, conversations, registry, clock, outcome>>
    BY <1>2 DEF Search, MayStart
  <2>2. Touched
    BY <1>1, <2>1 DEF Touched
  <2> QED BY <2>1, <2>2, StartKeeps
<1>3. ASSUME NEW s \in Calls \ {c}, outcome[s] = "answer", SearchContinue(c, s)
      PROVE  SearchInv'
  <2>1. call[c] = NoCall /\ UNCHANGED <<profiling, conversations, clock>>
    BY <1>3 DEF SearchContinue, MayStart
  <2>2. CASE s \in DOMAIN registry /\ ~SessionExpired(s)
    <3>1. /\ registry' = [registry EXCEPT ![s] = clock]
          /\ call' = [call EXCEPT ![c] = Asking(c, s, conversations[s])]
          /\ outcome' = outcome
      BY <1>3, <2>2 DEF SearchContinue, Refreshed
    <3>2. Touched /\ DOMAIN registry' = DOMAIN registry /\ registry'[s] = clock
      BY <1>1, <2>2, <3>1 DEF Touched
    <3>3. s \in DOMAIN conversations
      BY <1>1, <2>2
    <3> QED BY <1>3, <2>1, <2>2, <3>1, <3>2, <3>3, StartKeeps
  <2>3. CASE ~(s \in DOMAIN registry /\ ~SessionExpired(s))
    <3>1. /\ registry' = [t \in DOMAIN registry \ {s} |-> registry[t]]
          /\ CallEnds(c, "not_found")
      BY <1>3, <2>3 DEF SearchContinue
    <3>2. outcome[c] = "none"
      BY <2>1 DEF SearchInv, Progress, NoCall
    <3> QED BY <2>1, <2>3, <3>1, <3>2, EndsUnkept
  <2> QED BY <2>2, <2>3
<1> QED BY <1>2, <1>3

LEMMA TicksKeep ==
  ASSUME SearchInv, ClockTicks
  PROVE  SearchInv'
<1>1. /\ clock \in Nat /\ clock' = clock + 1
      /\ UNCHANGED <<profiling, call, conversations, registry, outcome>>
  BY DEF ClockTicks, SearchInv, SearchTypeOK
<1>2. SearchTypeOK' /\ Progress' /\ Sessions' /\ ToolsAnswered'
  BY <1>1 DEF SearchInv, SearchTypeOK, Progress, Ended, Sessions, ToolsAnswered, AnsweredTools
<1>3. Remembered' /\ Conversed'
  BY <1>1 DEF SearchInv, Remembered, Conversed, Active, HasTurn, SessionOf, Kept, KeptAmong,
              Stays, Ended
<1>4. Awaited'
  <2>1. \A c \in Calls : call[c].since \in Nat
    BY DEF SearchInv, SearchTypeOK, CallRecords
  <2> QED BY <1>1, <2>1, Bounds DEF SearchInv, Awaited, Active
<1> QED BY <1>2, <1>3, <1>4 DEF SearchInv

LEMMA SearchStep == SearchInv /\ [SearchNext]_searchVars => SearchInv'
<1> SUFFICES ASSUME SearchInv, [SearchNext]_searchVars PROVE SearchInv'
  OBVIOUS
<1>1. ASSUME NEW c \in Calls, CallBreaks(c) PROVE SearchInv'
  <2>1. /\ CallEnds(c, "error") /\ UNCHANGED <<profiling, conversations, registry, clock>>
        /\ outcome[c] = "none"
    BY <1>1 DEF CallBreaks, SearchInv, Progress
  <2> QED BY <2>1, EndsUnkept
<1>2. CASE UNCHANGED searchVars
  <2>1. UNCHANGED <<profiling, call, conversations, registry, clock, outcome>>
    BY <1>2 DEF searchVars
  <2>2. SearchTypeOK' /\ Progress' /\ Sessions' /\ ToolsAnswered'
    BY <2>1 DEF SearchInv, SearchTypeOK, Progress, Ended, Sessions, ToolsAnswered, AnsweredTools
  <2>3. Remembered' /\ Conversed'
    BY <2>1 DEF SearchInv, Remembered, Conversed, Active, HasTurn, SessionOf, Kept, KeptAmong,
                Stays, Ended
  <2>4. Awaited'
    BY <2>1 DEF SearchInv, Awaited, Active
  <2> QED BY <2>2, <2>3, <2>4 DEF SearchInv
<1> QED BY <1>1, <1>2, BeginsKeep, RoundsKeep, EndSearchKeeps, TicksKeep DEF SearchNext

-----------------------------------------------------------------------------
(* The inductive invariant of the search agent's sessions, whatever the    *)
(* models do and whichever questions overlap.                              *)
THEOREM SessionsStayInOrder == SearchSpec => []SearchInv
BY SearchStarts, SearchStep, PTL DEF SearchSpec

(* The model is shown a conversation it can go on with, and every turn of  *)
(* the session that had ended before, but those that ran beside another    *)
(* (OpenAIBackend.generate, SessionRegistry).                              *)
THEOREM NoTurnIsForgotten == SearchSpec => []TurnsAreRemembered
<1>1. ASSUME SearchInv PROVE TurnsAreRemembered
  <2> SUFFICES ASSUME NEW c \in Calls, call[c].at \in {"model", "critique"}
               PROVE  /\ AnsweredTools(call[c].messages)
                      /\ \A d \in call[c].known : SessionOf(d) = SessionOf(c) /\ Kept(d, c) =>
                           HasTurn(call[c].messages, d)
    BY DEF TurnsAreRemembered, HasTurn
  <2>1. AnsweredTools(call[c].messages)
    BY <1>1 DEF SearchInv, ToolsAnswered
  <2> QED BY <1>1, <2>1 DEF SearchInv, Remembered, Active
<1> QED BY <1>1, SessionsStayInOrder, PTL

(* A continuation loses its session only by taking longer than sessions    *)
(* live: none that was let in finds, in time, its session gone             *)
(* (SearchAgent.search_continue, SessionRegistry.get).                     *)
THEOREM NoAnswerIsTurnedAway == SearchSpec => []AnswersAreDelivered
<1>1. SearchInv => AnswersAreDelivered
  BY DEF SearchInv, Awaited, Active, AnswersAreDelivered
<1> QED BY <1>1, SessionsStayInOrder, PTL
===============================================================================
