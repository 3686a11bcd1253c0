---------------------------- MODULE SearchSessions ----------------------------
(***************************************************************************)
(* Questions to the search agent and their continuations                   *)
(* (ragzoom/search/agent.py, search/session.py, agent/backends/openai.py,  *)
(* SearchServicer in server/servicers.py).                                 *)
(*                                                                         *)
(* A question is a conversation with a model that may call the recall tool *)
(* round after round.  When it ends the backend stores its messages under  *)
(* a session, and a registry notes the session; a continuation starts from *)
(* a copy of the messages and stores its own at the end.  Several run at   *)
(* once, sessions expire, and the model decides what it does.              *)
(*                                                                         *)
(* A message is a record of who wrote it (ask, tools, result, critique)    *)
(* and in which call; a tools message says how many tools it calls.  The   *)
(* Claude backend keeps its conversations outside the repository.          *)
(***************************************************************************)
EXTENDS Naturals, Sequences, FiniteSets

CONSTANTS Calls,            \* calls of Search, numbered as they begin
          NoSession,
          MaxIterations,    \* max_iterations: recalls a question may make
          MaxParallel,      \* bound: tools called in one round
          MaxOverlap,       \* bound: calls at a time
          SessionTtl,       \* ttl_seconds
          MaxClock          \* bound: how long we look

ASSUME SessionConstants ==
  /\ Calls \subseteq Nat /\ NoSession \notin Calls
  /\ {MaxIterations, MaxParallel, MaxOverlap, SessionTtl, MaxClock} \subseteq Nat
  /\ MaxParallel > 0

VARIABLES profiling,        \* profiling_enabled
          call,             \* what each call is doing
          conversations,    \* of the backend: the messages of each session
          registry,         \* of the agent: when each session was last used
          clock,
          outcome           \* how each call ended

searchVars == <<profiling, call, conversations, registry, clock, outcome>>

(* A session is named after the call that began it. *)
NoCall == [at |-> "idle", session |-> NoSession, messages |-> <<>>, round |-> 0,
         retrieved |-> 0, pending |-> 0, since |-> 0, known |-> {}]

Message(who, c, calls) == [who |-> who, call |-> c, calls |-> calls]

SearchInit ==
  /\ profiling \in BOOLEAN
  /\ call = [c \in Calls |-> NoCall]
  /\ conversations = [s \in {} |-> <<>>]
  /\ registry = [s \in {} |-> 0]
  /\ clock = 0
  /\ outcome = [c \in Calls |-> "none"]

CallEnds(c, how) ==
  /\ call' = [call EXCEPT ![c] = [NoCall EXCEPT !.at = "ended", !.session = call[c].session,
                                               !.known = call[c].known]]
  /\ outcome' = [outcome EXCEPT ![c] = how]

Asking(c, session, before) ==
  [NoCall EXCEPT !.at = "model", !.session = session, !.since = clock,
               !.messages = Append(before, Message("ask", c, 0)),
               !.known = {d \in Calls : outcome[d] # "none"}]

MayStart(c) ==
  /\ call[c] = NoCall /\ \A d \in Calls : d < c => call[d] # NoCall
  /\ Cardinality({d \in Calls : call[d].at \notin {"idle", "ended"}}) < MaxOverlap

Search(c) ==
  /\ MayStart(c)
  /\ call' = [call EXCEPT ![c] = Asking(c, NoSession, <<>>)]
  /\ UNCHANGED <<profiling, conversations, registry, clock, outcome>>

(* SessionRegistry.get, which is where sessions expire, and with no await  *)
(* in between the copy that generate makes of the session's messages       *)
SessionExpired(s) == clock - registry[s] > SessionTtl

Refreshed_Never(s) == registry          \* seeded fault
Refreshed(s) == [registry EXCEPT ![s] = clock]

SearchContinue(c, s) ==
  /\ MayStart(c)
  /\ IF s \in DOMAIN registry /\ ~SessionExpired(s)
       THEN /\ registry' = Refreshed(s)
            /\ call' = [call EXCEPT ![c] = Asking(c, s, conversations[s])]
            /\ UNCHANGED outcome
       ELSE /\ registry' = [t \in DOMAIN registry \ {s} |-> registry[t]]
            /\ CallEnds(c, "not_found")
  /\ UNCHANGED <<profiling, conversations, clock>>

(* The tools are offered until max_turns recalls have brought something;   *)
(* after max_turns + 1 rounds the answer is that the model does not know.  *)
CallsTools(c, n) ==
  /\ call[c].at = "model"
  /\ call[c].retrieved < MaxIterations
  /\ call' = [call EXCEPT ![c].at = "tools", ![c].round = @ + 1, ![c].pending = n,
                          ![c].messages = Append(@, Message("tools", c, n))]
  /\ UNCHANGED <<profiling, conversations, registry, clock, outcome>>

(* A recall fails or finds nothing, and then does not count. *)
ToolReturns(c, found) ==
  /\ call[c].at = "tools"
  /\ LET last == call[c].pending = 1
         after == IF ~last THEN "tools"
                  ELSE IF call[c].round > MaxIterations THEN "answered" ELSE "model"
     IN  call' = [call EXCEPT ![c].pending = @ - 1, ![c].at = after,
                              ![c].retrieved = @ + (IF found THEN 1 ELSE 0),
                              ![c].messages = Append(@, Message("result", c, 0))]
  /\ UNCHANGED <<profiling, conversations, registry, clock, outcome>>

Answers(c) ==
  /\ call[c].at = "model"
  /\ call' = [call EXCEPT ![c].at = "answered"]
  /\ UNCHANGED <<profiling, conversations, registry, clock, outcome>>

Put(f, key, value) == [k \in {key} \cup DOMAIN f |-> IF k = key THEN value ELSE f[k]]

(* generate keeps the messages, search and search_continue the session     *)
Stored_New(c) ==                        \* seeded fault: only a new session is stored
  IF call[c].session = NoSession THEN Put(conversations, c, call[c].messages)
                               ELSE conversations
Stored(c) ==
  LET s == IF call[c].session = NoSession THEN c ELSE call[c].session
  IN  Put(conversations, s, call[c].messages)

EndSearch(c) ==
  /\ call[c].at = "answered"
  /\ conversations' = Stored(c)
  /\ IF call[c].session = NoSession
     THEN /\ registry' = Put(registry, c, clock)
          /\ IF profiling
               THEN /\ call' = [call EXCEPT ![c].at = "critique", ![c].messages =
                                  Append(@, Message("critique", c, 0))]
                    /\ UNCHANGED outcome
               ELSE CallEnds(c, "answer")
     ELSE IF call[c].session \in DOMAIN registry
          THEN registry' = Refreshed(call[c].session) /\ CallEnds(c, "answer")
          ELSE registry' = registry /\ CallEnds(c, "lost")
  /\ UNCHANGED <<profiling, clock>>

(* The retrospective is one more turn of the session, without tools. *)
EndCritique(c) ==
  /\ call[c].at = "critique"
  /\ conversations' = [conversations EXCEPT ![c] = call[c].messages]
  /\ CallEnds(c, "answer")
  /\ UNCHANGED <<profiling, registry, clock>>

(* The model does not answer, or a tool's arguments are no JSON. *)
CallBreaks(c) ==
  /\ call[c].at \in {"model", "tools", "critique"}
  /\ CallEnds(c, "error")
  /\ UNCHANGED <<profiling, conversations, registry, clock>>

ClockTicks ==
  /\ clock < MaxClock
  /\ clock' = clock + 1
  /\ UNCHANGED <<profiling, call, conversations, registry, outcome>>

SearchNext ==
  \/ \E c \in Calls :
       \/ Search(c)
       \/ \E s \in Calls \ {c} : outcome[s] = "answer" /\ SearchContinue(c, s)
       \/ \E n \in 1 .. MaxParallel : CallsTools(c, n)
       \/ \E found \in BOOLEAN : ToolReturns(c, found)
       \/ Answers(c) \/ EndSearch(c) \/ EndCritique(c) \/ CallBreaks(c)
  \/ ClockTicks

SearchSpec == SearchInit /\ [][SearchNext]_searchVars

-----------------------------------------------------------------------------
(* What the model is shown is a conversation it can go on with, each call  *)
(* of tools followed by its results; and a continuation is shown every     *)
(* turn of its session that ended before it began, unless a turn that ran  *)
(* beside it stored its own messages over it.                              *)
AnsweredTools(messages) ==
  \A i \in DOMAIN messages : messages[i].who = "tools" =>
    \A k \in 1 .. messages[i].calls :
      i + k \in DOMAIN messages /\ messages[i + k] = Message("result", messages[i].call, 0)

SessionOf(c) == IF call[c].session = NoSession THEN c ELSE call[c].session
Kept(d, c) ==
  /\ outcome[d] \in {"answer", "lost"}
  /\ \A e \in call[c].known \ {d} :
       SessionOf(e) = SessionOf(d) /\ outcome[e] \in {"answer", "lost"} =>
         d \in call[e].known \/ e \in call[d].known

TurnsAreRemembered ==
  \A c \in Calls : call[c].at \in {"model", "critique"} =>
    /\ AnsweredTools(call[c].messages)
    /\ \A d \in call[c].known : SessionOf(d) = SessionOf(c) /\ Kept(d, c) =>
         \E i \in DOMAIN call[c].messages : call[c].messages[i] = Message("ask", d, 0)

(* An answer is lost for want of its session only if it took longer than   *)
(* sessions live: a continuation that was let in is not turned away later. *)
AnswersAreDelivered ==
  \A c \in Calls :
    call[c].at \in {"model", "tools", "answered"} /\ call[c].session # NoSession
      => call[c].session \in DOMAIN registry \/ clock - call[c].since > SessionTtl
=============================================================================
