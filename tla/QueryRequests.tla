---------------------------- MODULE QueryRequests ----------------------------
(***************************************************************************)
(* What a caller asks of a query, through each of the ways into the        *)
(* program - the command line and its gRPC client, the server's HTTP       *)
(* interface, the query service of the REST interface, the recall tool of  *)
(* the search agent, the context of a leaf - and the windows of leaves     *)
(* that Retriever.retrieve_async makes of it.  Time stamps are numbers in  *)
(* the order of their strings; the text of a query is there or not.        *)
(***************************************************************************)
EXTENDS StoreQueries

Unset == -1

Plain == [text |-> TRUE, seeds |-> Unset, budget |-> Unset, verbatim |-> Unset,
          from |-> 0, to |-> Unset, since |-> Unset, until |-> Unset]

Given(x, default) == IF x \in {Unset, 0} THEN default ELSE x
Either(x, y) == IF x # Unset THEN x ELSE y

-----------------------------------------------------------------------------
(* The ways in.  configured is the server's own budget, Unset for none.    *)

CommandQuery(r) ==
    [r EXCEPT !.seeds = IF ~r.text THEN 0
                        ELSE IF r.seeds = Unset /\ r.budget = Unset THEN 1 ELSE @]

\* In a message a number that is not given is 0, but for the seeds.
ClientMessage(r) ==
    [r EXCEPT !.budget = Given(@, 0), !.verbatim = Given(@, 0), !.to = Given(@, 0)]

ExecuteQuery(message, configured) ==
    [message EXCEPT !.budget = Given(@, configured),
                    !.verbatim = Given(@, Unset),
                    !.to = Given(@, Unset)]

\* The older call has no window and no verbatim leaves.
Retrieve(message, configured) ==
    [Plain EXCEPT !.text = message.text, !.seeds = message.seeds,
                  !.budget = Given(message.budget, configured)]

QueryService(r, configured) == [r EXCEPT !.budget = Given(@, configured)]

\* start and end of a recall, or time_start and time_end
RecallQuery(budget, start, end, since, until) ==
    [Plain EXCEPT !.budget = budget, !.since = Either(start, since), !.until = Either(end, until)]

\* Seeded fault: the earlier of the bounds is taken for the start.
AgentRecall_Earlier(most, lower, upper, budget, since, until) ==
    [Plain EXCEPT !.budget = Min({budget, most}),
                  !.since = IF Unset \in {lower, since} THEN Either(lower, since) ELSE Min({lower, since}),
                  !.until = IF Unset \in {upper, until} THEN Either(upper, until) ELSE Min({upper, until})]

\* The model may ask for less than the bounds of its search, not for more.
AgentRecall(most, lower, upper, budget, since, until) ==
    [Plain EXCEPT !.budget = Min({budget, most}),
                  !.since = IF Unset \in {lower, since} THEN Either(lower, since) ELSE Max({lower, since}),
                  !.until = IF Unset \in {upper, until} THEN Either(upper, until) ELSE Min({upper, until})]

\* Context of a leaf at limit, which is not 0
ContextQuery(limit, budget, seeds) ==
    [Plain EXCEPT !.seeds = seeds, !.budget = budget, !.to = limit]

-----------------------------------------------------------------------------
(* retrieve_async: the windows a query can come to, where ties leave       *)
(* several.  None: the query is refused.                                   *)

SpanWindows(rows, from, to) ==
    LET end  == SpanEnd(rows)
        past == IF to = Unset THEN end ELSE to
    IN  IF DOMAIN rows = {} THEN {}
        ELSE IF from = 0 /\ past >= end THEN WindowBounds(rows, 0, end)
        ELSE IF from >= past \/ from >= end THEN {}
        ELSE WindowBounds(rows, from, past)

\* begins and ends give every leaf its time_start and its time_end.
TimeWindows(rows, begins, ends, since, until) ==
    LET starts == IF since = Unset THEN {0}
                  ELSE {rows[n].span_start : n \in LeavesAtStart(rows, ends, since)}
        stops  == IF until = Unset THEN {Unset}
                  ELSE {rows[n].span_end : n \in LeavesAtEnd(rows, begins, until)}
    IN  IF starts = {} \/ stops = {} THEN {Nothing}
        ELSE UNION {SpanWindows(rows, from, to) : from \in starts, to \in stops}

QueryWindows(rows, temporal, begins, ends, r) ==
    IF r.since = Unset /\ r.until = Unset THEN SpanWindows(rows, r.from, r.to)
    ELSE IF \/ r.from # 0 \/ r.to # Unset
            \/ ~temporal
            \/ r.since # Unset /\ r.until # Unset /\ r.until < r.since THEN {}
    ELSE TimeWindows(rows, begins, ends, r.since, r.until)
=============================================================================
