----------------------------- MODULE AppendUnits -----------------------------
(***************************************************************************)
(* What append_batch makes of the units of a request, before it looks at   *)
(* the document (server/append_executor.py).  A text is its length in      *)
(* characters; 0 also stands for one of blanks only.                       *)
(***************************************************************************)
EXTENDS Naturals, Sequences, FiniteSetsExt

CONSTANT MaxUnitChars     \* MAX_UNIT_CHARS

ASSUME UnitConstants == MaxUnitChars \in Nat \ {0}

NoTime == <<0, 0>>        \* a time is a pair of time stamps
Refusal == [texts |-> <<>>, times |-> <<>>, timed |-> FALSE, refused |-> TRUE]
Batch(texts, times, timed) == [texts |-> texts, times |-> times, timed |-> timed, refused |-> FALSE]

Parsed(time) == time[1] <= time[2]

\* AppendUnits: the times count when one of them has any.
NormalizeUnits(units) ==
  LET timed == \E i \in DOMAIN units : units[i].time # NoTime
  IN IF \E i \in DOMAIN units : ~Parsed(units[i].time) THEN Refusal
     ELSE Batch([i \in DOMAIN units |-> units[i].text],
                IF timed THEN [i \in DOMAIN units |-> units[i].time] ELSE <<>>, timed)

\* Strings, with a list of times or (timed = FALSE) without one.
NormalizeStrings(texts, times, timed) ==
  IF \/ timed /\ Len(times) # Len(texts) /\ texts # <<>>
     \/ \E i \in DOMAIN times : ~Parsed(times[i])
  THEN Refusal
  ELSE IF texts = <<>> THEN Batch(<<>>, <<>>, FALSE)
  ELSE Batch(texts, times, timed)

NotBlank(texts) == SelectSeq(texts, LAMBDA n : n > 0)

\* Where the client splits, and in a temporal batch, every unit is kept, cut to
\* the longest that is allowed; else the blank ones go.
ProcessUnits(batch, managed) ==
  IF managed \/ batch.timed
  THEN [batch EXCEPT !.texts = [i \in DOMAIN @ |-> Min({batch.texts[i], MaxUnitChars})]]
  ELSE [batch EXCEPT !.texts = NotBlank(@)]
===============================================================================
