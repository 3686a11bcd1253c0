------------------------------ MODULE RunProofs ------------------------------
(***************************************************************************)
(* What is proved of runs: when they are reported completed (IndexingRuns),*)
(* and what an export shows of their work (TelemetryLog), for any number   *)
(* of appends, runs, jobs at a time, failures, truncations and restarts.   *)
(*                                                                         *)
(* The engine looks at its own books when it ends a run: the jobs counted  *)
(* in flight and the nodes assigned.  RunsInv says that the books are true *)
(* of the leaves: each leaf of a run in line is assigned to that run, and  *)
(* the job that embeds it is counted for it, unless it was claimed early.  *)
(*                                                                         *)
(* The journal of a document is a file that several runs, and sometimes    *)
(* several documents, write to and that a process may die over.  LogInv    *)
(* says whose each line is, that the line which ends a run is its last and *)
(* holds what the run collected, and that the only lines which half a line *)
(* can swallow are those of runs that failed and the first of any.         *)
(***************************************************************************)
EXTENDS IndexingRuns, TelemetryLog, TLAPS, FiniteSetTheorems, SequenceTheorems

Stages == {"none", "in_progress", "completed", "failed"}

Fields == {"queue", "collectors", "assigned", "inflight", "jobRun", "cancelled"}

\* the jobs that a context counts for a run
Credited(c, r) == {j \in DOMAIN c.jobRun : c.jobRun[j] = r}

\* J are the jobs in flight, O the runs of the leaves, E the leaves claimed early
ContextSound(c, J, O, E) ==
  /\ DOMAIN c = Fields
  /\ c.queue \in Seq(Runs) /\ IsInjective(c.queue)
  /\ \A n \in DOMAIN c.assigned : c.assigned[n] \in Runs
  /\ \A j \in DOMAIN c.jobRun : j \in J /\ c.jobRun[j] \in Runs
  /\ c.inflight \in [Runs -> Nat]
  /\ \A r \in Runs : c.inflight[r] = Cardinality(Credited(c, r))
  /\ \A n \in DOMAIN O :
       O[n] \in Range(c.queue) =>
         /\ Assigned(c, n) = O[n]
         /\ n \notin E /\ <<"embed", n>> \in J =>
              <<"embed", n>> \in DOMAIN c.jobRun /\ c.jobRun[<<"embed", n>>] = O[n]

ContextInv == ctx # NoContext => ContextSound(ctx, DOMAIN jobs, owner, early)

RunTyped ==
  /\ leaves \in Nat /\ embedded \subseteq Leaves
  /\ inner \subseteq (Nat \ {0}) \X Nat
  /\ status \in [Runs -> Stages]
  /\ append \in [stage : {"idle", "started", "committed", "registered"},
                 run : Runs \cup {NoRun}, leaf : Nat]
  /\ DOMAIN owner = Leaves /\ \A n \in Leaves : owner[n] \in Runs \cup {NoRun}

JobsTyped ==
  /\ IsFiniteSet(DOMAIN jobs) /\ jobs = [j \in DOMAIN jobs |-> jobs[j]]
  /\ \A j \in DOMAIN jobs :
       /\ jobs[j] \in [at : {"claimed", "working", "failed"}, run : Runs \cup {NoRun}]
       /\ \/ j \in {"embed"} \X (Leaves \ embedded)
          \/ j \in {"summarize"} \X (Nat \X Nat)

\* A run is not in line before its append registers it; until then it has at
\* most the leaf of that append, which no scan takes unless early.
AppendSound ==
  /\ append.stage \in {"started", "committed"} =>
       /\ append.run \in Runs => status[append.run] = "in_progress"
       /\ ctx # NoContext => append.run \notin Range(ctx.queue)
  /\ append.stage = "started" /\ append.run \in Runs => \A n \in Leaves : owner[n] # append.run
  /\ append.stage = "committed" =>
       /\ Leaf(append.leaf) \in Leaves /\ owner[Leaf(append.leaf)] = append.run
       /\ append.run \in Runs => \A n \in Leaves : owner[n] = append.run => n = Leaf(append.leaf)
       /\ <<"embed", Leaf(append.leaf)>> \in DOMAIN jobs => Leaf(append.leaf) \in early

UnstartedRuns ==
  \A r \in Runs : status[r] = "none" =>
    /\ \A n \in Leaves : owner[n] # r
    /\ ctx # NoContext => r \notin Range(ctx.queue)

RunsInv ==
  /\ RunTyped /\ JobsTyped /\ AppendSound /\ UnstartedRuns
  /\ ContextInv /\ CompletedRunsAreDone

-----------------------------------------------------------------------------
(* Functions, sequences, counting *)

LEMMA PutIs ==
  ASSUME NEW f, NEW k, NEW v
  PROVE /\ Put(f, k, v) = [x \in {k} \cup DOMAIN f |-> IF x = k THEN v ELSE f[x]]
        /\ DOMAIN Put(f, k, v) = {k} \cup DOMAIN f
        /\ Put(f, k, v)[k] = v
        /\ \A x \in DOMAIN f \ {k} : Put(f, k, v)[x] = f[x]
BY DEF Put

LEMMA FirstRemoved ==
  ASSUME NEW s \in Seq(Runs), IsInjective(s), NEW r
  PROVE /\ RemoveFirst(s, r) \in Seq(Runs)
        /\ IsInjective(RemoveFirst(s, r))
        /\ Range(RemoveFirst(s, r)) = Range(s) \ {r}
<1>1. CASE \E i \in 1 .. Len(s) : s[i] = r
  <2>1. PICK i \in 1 .. Len(s) : s[i] = r
    BY <1>1
  <2>2. {k \in 1 .. Len(s) : s[k] = r} = {i}
    BY <2>1 DEF IsInjective
  <2>3. Min({i}) = i
    <3>1. i \in {i} /\ \A y \in {i} : i <= y
      BY <2>1
    <3>2. QED
      BY <3>1 DEF Min
  <2>4. RemoveFirst(s, r) = SubSeq(s, 1, i - 1) \o SubSeq(s, i + 1, Len(s))
    BY <1>1, <2>2, <2>3 DEF RemoveFirst, RemoveAt, SelectInSeq
  <2> DEFINE a == SubSeq(s, 1, i - 1)
             b == SubSeq(s, i + 1, Len(s))
  <2>5. /\ a \in Seq(Runs) /\ Len(a) = i - 1
        /\ \A k \in 1 .. i - 1 : a[k] = s[k]
    BY <2>1, SubSeqProperties
  <2>6. /\ b \in Seq(Runs) /\ Len(b) = Len(s) - i
        /\ \A k \in 1 .. Len(s) - i : b[k] = s[i + k]
    BY <2>1, SubSeqProperties
  <2> DEFINE t == a \o b
  <2>7. /\ t \in Seq(Runs) /\ DOMAIN t = 1 .. Len(s) - 1
        /\ \A k \in 1 .. Len(s) - 1 : t[k] = IF k < i THEN s[k] ELSE s[k + 1]
    <3> HIDE DEF a, b
    <3>1. t \in Seq(Runs) /\ Len(t) = Len(s) - 1
      BY <2>1, <2>5, <2>6, ConcatProperties
    <3>2. ASSUME NEW k \in 1 .. Len(s) - 1
          PROVE t[k] = IF k < i THEN s[k] ELSE s[k + 1]
      BY <2>1, <2>5, <2>6, ConcatProperties
    <3>3. DOMAIN t = 1 .. Len(s) - 1
      BY <3>1, LenProperties
    <3>4. QED
      BY <3>1, <3>2, <3>3
  <2> HIDE DEF t
  <2>8. IsInjective(t)
    <3>1. ASSUME NEW k \in DOMAIN t, NEW l \in DOMAIN t, t[k] = t[l]
          PROVE k = l
      BY <3>1, <2>1, <2>7 DEF IsInjective
    <3>2. QED
      BY <3>1 DEF IsInjective
  <2>9. Range(t) = Range(s) \ {r}
    <3>1. ASSUME NEW x \in Range(t)
          PROVE x \in Range(s) \ {r}
      <4>1. PICK k \in 1 .. Len(s) - 1 : x = t[k]
        BY <2>7 DEF Range
      <4>2. QED
        BY <4>1, <2>1, <2>7 DEF IsInjective, Range
    <3>2. ASSUME NEW x \in Range(s) \ {r}
          PROVE x \in Range(t)
      <4>1. PICK k \in 1 .. Len(s) : x = s[k] /\ k # i
        BY <2>1 DEF Range
      <4>2. CASE k < i
        <5>1. k \in 1 .. Len(s) - 1 /\ t[k] = s[k]
          BY <4>1, <4>2, <2>1, <2>7
        <5>2. QED
          BY <5>1, <4>1, <2>7 DEF Range
      <4>3. CASE k > i
        <5>1. k - 1 \in 1 .. Len(s) - 1 /\ t[k - 1] = s[k]
          BY <4>1, <4>3, <2>1, <2>7
        <5>2. QED
          BY <5>1, <4>1, <2>7 DEF Range
      <4>4. QED
        BY <4>1, <4>2, <4>3, <2>1
    <3>3. QED
      BY <3>1, <3>2
  <2>10. QED
    BY <2>4, <2>7, <2>8, <2>9 DEF t
<1>2. CASE ~\E i \in 1 .. Len(s) : s[i] = r
  BY <1>2 DEF RemoveFirst, Range
<1>3. QED
  BY <1>1, <1>2

\* What a context counts is finite, one more with a job that it did not know,
\* one less without one that it did.
LEMMA CreditedCount ==
  ASSUME NEW c, NEW J, IsFiniteSet(J), DOMAIN c.jobRun \subseteq J, NEW r
  PROVE /\ IsFiniteSet(Credited(c, r))
        /\ Cardinality(Credited(c, r)) \in Nat
        /\ \A j \in Credited(c, r) :
             /\ Cardinality(Credited(c, r)) > 0
             /\ Cardinality(Credited(c, r) \ {j}) = Cardinality(Credited(c, r)) - 1
        /\ \A j : j \notin Credited(c, r) =>
             Cardinality(Credited(c, r) \cup {j}) = Cardinality(Credited(c, r)) + 1
<1>1. Credited(c, r) \subseteq J
  BY DEF Credited
<1>2. IsFiniteSet(Credited(c, r))
  BY <1>1, FS_Subset
<1>3. Cardinality(Credited(c, r)) \in Nat
  BY <1>2, FS_CardinalityType
<1>4. ASSUME NEW j \in Credited(c, r)
      PROVE /\ Cardinality(Credited(c, r)) > 0
            /\ Cardinality(Credited(c, r) \ {j}) = Cardinality(Credited(c, r)) - 1
  <2>1. Cardinality(Credited(c, r)) # 0
    BY <1>2, <1>4, FS_EmptySet
  <2>2. Cardinality(Credited(c, r) \ {j}) = Cardinality(Credited(c, r)) - 1
    BY <1>2, <1>4, FS_RemoveElement
  <2>3. QED
    BY <2>1, <2>2, <1>3
<1>5. ASSUME NEW j, j \notin Credited(c, r)
      PROVE Cardinality(Credited(c, r) \cup {j}) = Cardinality(Credited(c, r)) + 1
  BY <1>2, <1>5, FS_AddElement
<1>6. QED
  BY <1>2, <1>3, <1>4, <1>5

-----------------------------------------------------------------------------
(* What the engine does with its books *)

LEMMA FreshIsSound ==
  ASSUME NEW J, NEW O, NEW E
  PROVE ContextSound(FreshContext, J, O, E) /\ Range(FreshContext.queue) = {}
<1> DEFINE c == FreshContext
<1>1. /\ c.queue = <<>> /\ c.assigned = <<>> /\ c.jobRun = <<>>
      /\ c.inflight = [r \in Runs |-> 0]
      /\ DOMAIN c = Fields
  BY DEF FreshContext, Fields
<1> HIDE DEF c
<1>2. DOMAIN c.queue = {} /\ DOMAIN c.assigned = {} /\ DOMAIN c.jobRun = {}
  BY <1>1
<1>3. Range(c.queue) = {} /\ IsInjective(c.queue) /\ c.queue \in Seq(Runs)
  BY <1>1, <1>2 DEF Range, IsInjective
<1>4. \A r \in Runs : Credited(c, r) = {}
  BY <1>2 DEF Credited
<1>5. \A r \in Runs : c.inflight[r] = Cardinality(Credited(c, r))
  BY <1>1, <1>4, FS_EmptySet
<1>6. ContextSound(c, J, O, E)
  BY <1>1, <1>2, <1>3, <1>5 DEF ContextSound
<1>7. QED
  BY <1>3, <1>6 DEF c

LEMMA CancelledIsSound ==
  ASSUME NEW c, NEW J, NEW O, NEW E, NEW b, ContextSound(c, J, O, E)
  PROVE /\ ContextSound([c EXCEPT !.cancelled = b], J, O, E)
        /\ [c EXCEPT !.cancelled = b].queue = c.queue
<1> DEFINE d == [c EXCEPT !.cancelled = b]
<1>1. /\ d.queue = c.queue /\ d.assigned = c.assigned
      /\ d.inflight = c.inflight /\ d.jobRun = c.jobRun /\ DOMAIN d = Fields
  BY DEF ContextSound, Fields
<1> HIDE DEF d
<1>2. \A r : Credited(d, r) = Credited(c, r)
  BY <1>1 DEF Credited
<1>3. \A n : Assigned(d, n) = Assigned(c, n)
  BY <1>1 DEF Assigned
<1>4. QED
  BY <1>1, <1>2, <1>3 DEF ContextSound, d

\* Nothing is asked of the leaves of runs that are not in line.
LEMMA OthersAreSound ==
  ASSUME NEW c, NEW J, NEW O, NEW E, NEW P, NEW F, ContextSound(c, J, O, E), E \subseteq F,
         \A n \in DOMAIN P : P[n] \in Range(c.queue) => n \in DOMAIN O /\ P[n] = O[n]
  PROVE ContextSound(c, J, P, F)
BY DEF ContextSound

\* register_run puts the run of a leaf in line, and the leaf is its only one.
LEMMA RegisteredIsSound ==
  ASSUME NEW c, NEW J, NEW O, NEW E, NEW r \in Runs, NEW n,
         ContextSound(c, J, O, E), r \notin Range(c.queue),
         \A m \in DOMAIN O : O[m] = r <=> m = n,
         <<"embed", n>> \in J => n \in E
  PROVE /\ ContextSound(Registered(c, r, n), J, O, E)
        /\ Range(Registered(c, r, n).queue) = Range(c.queue) \cup {r}
<1> DEFINE d == Registered(c, r, n)
<1>1. /\ d.queue = Append(c.queue, r) /\ d.assigned = Put(c.assigned, n, r)
      /\ d.inflight = c.inflight /\ d.jobRun = c.jobRun /\ DOMAIN d = Fields
  BY DEF ContextSound, Registered, Fields
<1> HIDE DEF d
<1>2. /\ d.queue \in Seq(Runs) /\ Len(d.queue) = Len(c.queue) + 1
      /\ d.queue[Len(c.queue) + 1] = r
      /\ \A i \in 1 .. Len(c.queue) : d.queue[i] = c.queue[i]
  BY <1>1, AppendProperties DEF ContextSound
<1>3. DOMAIN d.queue = 1 .. Len(c.queue) + 1 /\ DOMAIN c.queue = 1 .. Len(c.queue)
      /\ Len(c.queue) \in Nat
  BY <1>2, LenProperties DEF ContextSound
<1>4. Range(d.queue) = Range(c.queue) \cup {r}
  BY <1>2, <1>3 DEF Range
<1>5. IsInjective(d.queue)
  <2>1. ASSUME NEW i \in DOMAIN d.queue, NEW j \in DOMAIN d.queue, d.queue[i] = d.queue[j]
        PROVE i = j
    <3>1. \A k \in DOMAIN c.queue : c.queue[k] # r
      BY DEF Range
    <3>2. i \in DOMAIN c.queue \/ i = Len(c.queue) + 1
      BY <1>3
    <3>3. j \in DOMAIN c.queue \/ j = Len(c.queue) + 1
      BY <1>3
    <3>4. QED
      BY <2>1, <3>1, <3>2, <3>3, <1>2, <1>3 DEF ContextSound, IsInjective
  <2>2. QED
    BY <2>1 DEF IsInjective
<1>6. \A m \in DOMAIN d.assigned : d.assigned[m] \in Runs
  BY <1>1 DEF ContextSound, Put
<1>7. \A q : Credited(d, q) = Credited(c, q)
  BY <1>1 DEF Credited
<1>8. Assigned(d, n) = r /\ \A m : m # n => Assigned(d, m) = Assigned(c, m)
  BY <1>1 DEF Assigned, Put
<1>9. ASSUME NEW m \in DOMAIN O, O[m] \in Range(d.queue)
      PROVE /\ Assigned(d, m) = O[m]
            /\ m \notin E /\ <<"embed", m>> \in J =>
                 <<"embed", m>> \in DOMAIN d.jobRun /\ d.jobRun[<<"embed", m>>] = O[m]
  <2>1. CASE m = n
    BY <2>1, <1>8
  <2>2. CASE m # n
    <3>1. O[m] \in Range(c.queue)
      BY <2>2, <1>4, <1>9
    <3>2. QED
      BY <2>2, <3>1, <1>1, <1>8 DEF ContextSound
  <2>3. QED
    BY <2>1, <2>2
<1>10. ContextSound(d, J, O, E)
  BY <1>1, <1>2, <1>5, <1>6, <1>7, <1>9 DEF ContextSound
<1>11. QED
  BY <1>4, <1>10 DEF d

\* What _assign_run_id_locked notes takes no leaf from a run in line.
LEMMA CreditIsSound ==
  ASSUME RunConstants, NEW c, NEW J, NEW O, NEW E, NEW n, ContextSound(c, J, O, E)
  PROVE /\ ContextSound(Credit(c, n), J, O, E)
        /\ Credit(c, n).queue = c.queue /\ Credit(c, n).jobRun = c.jobRun
        /\ Credit(c, n).inflight = c.inflight
        /\ AssignRun(c, n) \in Runs \cup {NoRun}
        /\ n \in DOMAIN O /\ O[n] \in Range(c.queue) => AssignRun(c, n) = O[n]
<1> DEFINE r == AssignRun(c, n)
           d == Credit(c, n)
<1>1. \A m : Assigned(c, m) \in Runs \cup {NoRun}
  BY DEF ContextSound, Assigned
<1>2. Range(c.queue) \subseteq Runs
  BY DEF ContextSound, Range
<1>3. r \in Runs \cup {NoRun}
  <2>1. CASE Assigned(c, n) # NoRun \/ c.queue = <<>>
    BY <2>1, <1>1 DEF AssignRun
  <2>2. CASE Assigned(c, n) = NoRun /\ c.queue # <<>>
    <3>1. Len(c.queue) \in DOMAIN c.queue
      BY <2>2, LenProperties, EmptySeq DEF ContextSound
    <3>2. Last(c.queue) \in Runs
      BY <3>1, <1>2 DEF Last, Range
    <3>3. QED
      BY <3>2, <2>2 DEF AssignRun
  <2>3. QED
    BY <2>1, <2>2
<1>4. Assigned(c, n) # NoRun => r = Assigned(c, n)
  BY DEF AssignRun
<1>5. /\ d.queue = c.queue /\ d.jobRun = c.jobRun /\ d.inflight = c.inflight
      /\ d.assigned = IF r = NoRun THEN c.assigned ELSE Put(c.assigned, n, r)
      /\ DOMAIN d = Fields
  BY DEF Credit, ContextSound, Fields
<1> HIDE DEF r, d
<1>6. \A m \in DOMAIN d.assigned : d.assigned[m] \in Runs
  BY <1>3, <1>5 DEF ContextSound, Put
<1>7. \A m : Assigned(c, m) # NoRun => Assigned(d, m) = Assigned(c, m)
  BY <1>4, <1>5 DEF Assigned, Put
<1>8. \A q : Credited(d, q) = Credited(c, q)
  BY <1>5 DEF Credited
<1>9. \A m \in DOMAIN O : O[m] \in Range(c.queue) => Assigned(c, m) = O[m] /\ O[m] # NoRun
  BY <1>2 DEF ContextSound, RunConstants
<1>10. \A m \in DOMAIN O : O[m] \in Range(c.queue) => Assigned(d, m) = O[m]
  BY <1>7, <1>9
<1>11. ContextSound(d, J, O, E)
  BY <1>5, <1>6, <1>8, <1>10 DEF ContextSound
<1>12. QED
  BY <1>3, <1>4, <1>5, <1>9, <1>11 DEF r, d

\* A job that a scan claims is counted for the run of its node.
LEMMA ClaimIsSound ==
  ASSUME RunConstants, NEW c, NEW J, NEW O, NEW E, NEW j,
         ContextSound(c, J, O, E), IsFiniteSet(J), j \notin J,
         NEW r, r = AssignRun(c, j[2]), r # NoRun
  PROVE ContextSound(Counted(c, j, r), J \cup {j}, O, E) /\ Counted(c, j, r).queue = c.queue
<1> DEFINE e == Credit(c, j[2])
           d == Counted(c, j, r)
<1>1. /\ ContextSound(e, J, O, E) /\ e.queue = c.queue /\ r \in Runs
      /\ \A n \in DOMAIN O : n = j[2] /\ O[n] \in Range(c.queue) => r = O[n]
  BY CreditIsSound
<1> HIDE DEF e
<1>2. /\ d.queue = e.queue /\ d.assigned = e.assigned
      /\ d.inflight = [e.inflight EXCEPT ![r] = @ + 1] /\ d.jobRun = Put(e.jobRun, j, r)
      /\ DOMAIN d = Fields
  BY <1>1 DEF ContextSound, Fields, Counted, e
<1> HIDE DEF d
<1>3. j \notin DOMAIN e.jobRun /\ DOMAIN e.jobRun \subseteq J
  BY <1>1 DEF ContextSound
<1>4. \A k \in DOMAIN d.jobRun : k \in J \cup {j} /\ d.jobRun[k] \in Runs
  BY <1>1, <1>2 DEF ContextSound, Put
<1>5. Credited(d, r) = Credited(e, r) \cup {j} /\ j \notin Credited(e, r)
  BY <1>2, <1>3 DEF Credited, Put
<1>6. \A q \in Runs \ {r} : Credited(d, q) = Credited(e, q)
  BY <1>2, <1>3 DEF Credited, Put
<1>7. Cardinality(Credited(d, r)) = Cardinality(Credited(e, r)) + 1
  BY <1>3, <1>5, CreditedCount
<1>8. d.inflight \in [Runs -> Nat] /\ \A q \in Runs : d.inflight[q] = Cardinality(Credited(d, q))
  <2>1. e.inflight \in [Runs -> Nat] /\ \A q \in Runs : e.inflight[q] = Cardinality(Credited(e, q))
    BY <1>1 DEF ContextSound
  <2>2. d.inflight \in [Runs -> Nat] /\ d.inflight[r] = e.inflight[r] + 1
    BY <2>1, <1>1, <1>2
  <2>3. \A q \in Runs \ {r} : d.inflight[q] = e.inflight[q]
    BY <2>1, <1>1, <1>2
  <2>4. QED
    BY <2>1, <2>2, <2>3, <1>1, <1>6, <1>7
<1>9. ASSUME NEW n \in DOMAIN O, O[n] \in Range(d.queue)
      PROVE /\ Assigned(d, n) = O[n]
            /\ n \notin E /\ <<"embed", n>> \in J \cup {j} =>
                 <<"embed", n>> \in DOMAIN d.jobRun /\ d.jobRun[<<"embed", n>>] = O[n]
  <2>1. O[n] \in Range(e.queue) /\ Assigned(d, n) = Assigned(e, n)
    BY <1>2, <1>9 DEF Assigned
  <2>2. CASE <<"embed", n>> = j
    <3>1. r = O[n]
      BY <2>1, <2>2, <1>1
    <3>2. j \in DOMAIN d.jobRun /\ d.jobRun[j] = r
      BY <1>2 DEF Put
    <3>3. QED
      BY <2>1, <2>2, <3>1, <3>2, <1>1 DEF ContextSound
  <2>3. CASE <<"embed", n>> # j
    BY <2>1, <2>3, <1>1, <1>2 DEF ContextSound, Put
  <2>4. QED
    BY <2>2, <2>3
<1>10. ContextSound(d, J \cup {j}, O, E)
  BY <1>1, <1>2, <1>4, <1>8, <1>9 DEF ContextSound
<1>11. QED
  BY <1>1, <1>2, <1>10 DEF d

\* A job that ends is counted no more.
LEMMA ReleasedIsSound ==
  ASSUME NEW c, NEW J, NEW O, NEW E, NEW j, ContextSound(c, J, O, E), IsFiniteSet(J)
  PROVE ContextSound(Released(c, j), J \ {j}, O, E) /\ Released(c, j).queue = c.queue
<1> DEFINE r == c.jobRun[j]
           d == Released(c, j)
<1>1. CASE j \notin DOMAIN c.jobRun
  BY <1>1 DEF Released, ContextSound
<1>2. CASE j \in DOMAIN c.jobRun
  <2>1. r \in Runs /\ DOMAIN c.jobRun \subseteq J
    BY <1>2 DEF ContextSound
  <2>2. /\ d.queue = c.queue /\ d.assigned = c.assigned
        /\ d.inflight = [c.inflight EXCEPT ![r] = @ - 1]
        /\ d.jobRun = [k \in DOMAIN c.jobRun \ {j} |-> c.jobRun[k]]
        /\ DOMAIN d = Fields
    BY <1>2, <2>1 DEF Released, ContextSound, Fields, RestrictDomain, Restrict
  <2> HIDE DEF d
  <2>3. Credited(d, r) = Credited(c, r) \ {j} /\ j \in Credited(c, r)
    BY <1>2, <2>2 DEF Credited
  <2>4. \A q \in Runs \ {r} : Credited(d, q) = Credited(c, q)
    BY <2>2 DEF Credited
  <2>5. /\ Cardinality(Credited(c, r)) > 0
        /\ Cardinality(Credited(d, r)) = Cardinality(Credited(c, r)) - 1
    BY <2>1, <2>3, CreditedCount
  <2>6. d.inflight \in [Runs -> Nat] /\ \A q \in Runs : d.inflight[q] = Cardinality(Credited(d, q))
    BY <2>1, <2>2, <2>4, <2>5 DEF ContextSound
  <2>7. \A n : Assigned(d, n) = Assigned(c, n)
    BY <2>2 DEF Assigned
  <2>8. ContextSound(d, J \ {j}, O, E)
    BY <2>2, <2>6, <2>7 DEF ContextSound
  <2>9. QED
    BY <2>2, <2>8 DEF d
<1>3. QED
  BY <1>1, <1>2

\* A summary that is stored is assigned to the run of its job.
LEMMA CommitIsSound ==
  ASSUME NEW c, NEW J, NEW O, NEW E, NEW p, NEW r \in Runs, ContextSound(c, J, O, E),
         p \notin DOMAIN O
  PROVE /\ ContextSound([c EXCEPT !.assigned = Put(@, p, r)], J, O, E)
        /\ [c EXCEPT !.assigned = Put(@, p, r)].queue = c.queue
<1> DEFINE d == [c EXCEPT !.assigned = Put(@, p, r)]
<1>1. /\ d.queue = c.queue /\ d.assigned = Put(c.assigned, p, r)
      /\ d.inflight = c.inflight /\ d.jobRun = c.jobRun /\ DOMAIN d = Fields
  BY DEF ContextSound, Fields
<1> HIDE DEF d
<1>2. \A q : Credited(d, q) = Credited(c, q)
  BY <1>1 DEF Credited
<1>3. \A n \in DOMAIN O : Assigned(d, n) = Assigned(c, n)
  BY <1>1 DEF Assigned, Put
<1>4. \A m \in DOMAIN d.assigned : d.assigned[m] \in Runs
  BY <1>1 DEF ContextSound, Put
<1>5. ContextSound(d, J, O, E)
  BY <1>1, <1>2, <1>3, <1>4 DEF ContextSound
<1>6. QED
  BY <1>1, <1>5 DEF d

\* A run that is taken out leaves nothing of the other runs in line.
LEMMA DetachedIsSound ==
  ASSUME NEW c, NEW J, NEW O, NEW E, NEW r \in Runs, ContextSound(c, J, O, E)
  PROVE /\ ContextSound(Detached(c, r), J, O, E)
        /\ Range(Detached(c, r).queue) = Range(c.queue) \ {r}
<1> DEFINE d == Detached(c, r)
<1>1. /\ d.queue = RemoveFirst(c.queue, r)
      /\ d.inflight = [c.inflight EXCEPT ![r] = 0]
      /\ d.jobRun = [k \in {l \in DOMAIN c.jobRun : c.jobRun[l] # r} |-> c.jobRun[k]]
      /\ d.assigned = [n \in {m \in DOMAIN c.assigned : c.assigned[m] # r} |-> c.assigned[n]]
      /\ DOMAIN d = Fields
  BY DEF Detached, ContextSound, Fields, RestrictDomain, Restrict
<1> HIDE DEF d
<1>2. /\ d.queue \in Seq(Runs) /\ IsInjective(d.queue)
      /\ Range(d.queue) = Range(c.queue) \ {r}
  BY <1>1, FirstRemoved DEF ContextSound
<1>3. Credited(d, r) = {}
  BY <1>1 DEF Credited
<1>4. \A q \in Runs \ {r} : Credited(d, q) = Credited(c, q)
  BY <1>1 DEF Credited
<1>5. d.inflight \in [Runs -> Nat] /\ \A q \in Runs : d.inflight[q] = Cardinality(Credited(d, q))
  <2>1. Cardinality(Credited(d, r)) = 0
    BY <1>3, FS_EmptySet
  <2>2. QED
    BY <2>1, <1>1, <1>4 DEF ContextSound
<1>6. \A n : Assigned(c, n) # r => Assigned(d, n) = Assigned(c, n)
  BY <1>1 DEF Assigned
<1>7. ASSUME NEW n \in DOMAIN O, O[n] \in Range(d.queue)
      PROVE /\ Assigned(d, n) = O[n]
            /\ n \notin E /\ <<"embed", n>> \in J =>
                 <<"embed", n>> \in DOMAIN d.jobRun /\ d.jobRun[<<"embed", n>>] = O[n]
  <2>1. O[n] \in Range(c.queue) /\ O[n] # r
    BY <1>2, <1>7
  <2>2. QED
    BY <2>1, <1>1, <1>6 DEF ContextSound
<1>8. /\ \A n \in DOMAIN d.assigned : d.assigned[n] \in Runs
      /\ \A j \in DOMAIN d.jobRun : j \in J /\ d.jobRun[j] \in Runs
  BY <1>1 DEF ContextSound
<1>9. ContextSound(d, J, O, E)
  BY <1>1, <1>2, <1>5, <1>7, <1>8 DEF ContextSound
<1>10. QED
  BY <1>2, <1>9 DEF d

-----------------------------------------------------------------------------
(* The steps *)

LEMMA InitRuns ==
  ASSUME RunConstants, Init
  PROVE RunsInv
<1>1. /\ leaves = 0 /\ Leaves = {} /\ embedded = {} /\ inner = {} /\ ctx = NoContext
      /\ jobs = <<>> /\ status = [r \in Runs |-> "none"] /\ append = NoAppend /\ owner = <<>>
  BY DEF Init, Leaves
<1>2. DOMAIN jobs = {} /\ DOMAIN owner = {}
  BY <1>1
<1>3. RunTyped
  BY <1>1, <1>2 DEF RunTyped, Stages, NoAppend
<1>4. jobs = [j \in DOMAIN jobs |-> jobs[j]]
  BY <1>1
<1>5. JobsTyped
  BY <1>2, <1>4, FS_EmptySet DEF JobsTyped
<1>6. AppendSound /\ UnstartedRuns
  BY <1>1 DEF AppendSound, UnstartedRuns, NoAppend
<1>7. ContextInv /\ CompletedRunsAreDone
  BY <1>1, <1>2 DEF ContextInv, CompletedRunsAreDone
<1>8. QED
  BY <1>3, <1>5, <1>6, <1>7 DEF RunsInv

LEMMA StutterRuns ==
  ASSUME RunsInv, UNCHANGED vars
  PROVE RunsInv'
BY DEF RunsInv, vars, treeVars, engineVars, clientVars, history, RunTyped, JobsTyped,
       AppendSound, UnstartedRuns, ContextInv, CompletedRunsAreDone, Leaves

\* The runs in line are runs.
LEMMA InLine ==
  ASSUME RunConstants, RunsInv, ctx # NoContext
  PROVE Range(ctx.queue) \subseteq Runs /\ NoRun \notin Range(ctx.queue)
BY DEF RunsInv, ContextInv, ContextSound, Range, RunConstants

LEMMA StartAppendRuns ==
  ASSUME RunConstants, RunsInv, NEW r \in Runs \cup {NoRun}, StartAppend(r)
  PROVE RunsInv'
<1>1. /\ append' = [stage |-> "started", run |-> r, leaf |-> leaves]
      /\ r # NoRun => status[r] = "none"
      /\ status' = IF r = NoRun THEN status ELSE [status EXCEPT ![r] = "in_progress"]
      /\ leaves' = leaves /\ embedded' = embedded /\ inner' = inner /\ ctx' = ctx
      /\ jobs' = jobs /\ owner' = owner /\ early' = early /\ Leaves' = Leaves
  BY DEF StartAppend, treeVars, engineVars, history, Leaves
<1>2. RunTyped'
  BY <1>1 DEF RunsInv, RunTyped, Stages
<1>3. JobsTyped' /\ ContextInv'
  BY <1>1 DEF RunsInv, JobsTyped, ContextInv
<1>4. AppendSound'
  <2>1. r \in Runs => status'[r] = "in_progress" /\ \A n \in Leaves : owner[n] # r
    BY <1>1 DEF RunsInv, RunTyped, UnstartedRuns, RunConstants
  <2>2. ctx # NoContext => r \notin Range(ctx.queue)
    BY <1>1, InLine DEF RunsInv, UnstartedRuns
  <2>3. QED
    BY <1>1, <2>1, <2>2 DEF AppendSound
<1>5. \A q \in Runs : status'[q] = status[q] \/ (q = r /\ status'[q] = "in_progress")
  BY <1>1 DEF RunsInv, RunTyped
<1>6. UnstartedRuns'
  BY <1>1, <1>5 DEF RunsInv, UnstartedRuns
<1>7. CompletedRunsAreDone'
  BY <1>1, <1>5 DEF RunsInv, RunTyped, CompletedRunsAreDone
<1>8. QED
  BY <1>2, <1>3, <1>4, <1>6, <1>7 DEF RunsInv

LEMMA CommitLeafRuns ==
  ASSUME RunConstants, RunsInv, CommitLeaf
  PROVE RunsInv'
<1> DEFINE n == Leaf(leaves)
           r == append.run
<1>1. /\ append.stage = "started"
      /\ append' = [append EXCEPT !.stage = "committed", !.leaf = leaves]
      /\ leaves' = leaves + 1 /\ owner' = Put(owner, n, r)
      /\ embedded' = embedded /\ inner' = inner /\ ctx' = ctx /\ jobs' = jobs
      /\ status' = status /\ early' = early
  BY DEF CommitLeaf, engineVars
<1>2. /\ leaves \in Nat /\ r \in Runs \cup {NoRun}
      /\ append'.stage = "committed" /\ append'.run = r /\ append'.leaf = leaves
      /\ append' \in [stage : {"idle", "started", "committed", "registered"},
                      run : Runs \cup {NoRun}, leaf : Nat]
  BY <1>1 DEF RunsInv, RunTyped
<1>3. Leaves' = Leaves \cup {n} /\ n \notin Leaves
  BY <1>1, <1>2 DEF Leaves, Leaf
<1>4. /\ DOMAIN owner' = Leaves' /\ owner'[n] = r
      /\ \A m \in Leaves : owner'[m] = owner[m]
  BY <1>1, <1>3 DEF Put, RunsInv, RunTyped
<1>5. Leaf(append'.leaf) = n
  BY <1>2
<1>6. /\ r \in Runs => status[r] = "in_progress" /\ \A m \in Leaves : owner[m] # r
      /\ ctx # NoContext => r \notin Range(ctx.queue)
  BY <1>1 DEF RunsInv, AppendSound
<1> HIDE DEF n, r
<1>7. RunTyped'
  BY <1>1, <1>2, <1>3, <1>4 DEF RunsInv, RunTyped
<1>8. JobsTyped'
  BY <1>1, <1>3 DEF RunsInv, JobsTyped
<1>9. <<"embed", n>> \notin DOMAIN jobs
  BY <1>3 DEF RunsInv, JobsTyped
<1>10. AppendSound'
  BY <1>1, <1>2, <1>3, <1>4, <1>5, <1>6, <1>9 DEF AppendSound
<1>11. UnstartedRuns'
  BY <1>1, <1>3, <1>4, <1>6 DEF RunsInv, UnstartedRuns
<1>12. ContextInv'
  <2>1. ASSUME ctx # NoContext
        PROVE ContextSound(ctx, DOMAIN jobs, owner', early)
    <3>1. \A m \in DOMAIN owner' : owner'[m] \in Range(ctx.queue) =>
            m \in DOMAIN owner /\ owner'[m] = owner[m]
      BY <2>1, <1>3, <1>4, <1>6 DEF RunsInv, RunTyped
    <3>2. ContextSound(ctx, DOMAIN jobs, owner, early)
      BY <2>1 DEF RunsInv, ContextInv
    <3>3. QED
      BY <3>1, <3>2, OthersAreSound
  <2>2. QED
    BY <2>1, <1>1 DEF ContextInv
<1>13. CompletedRunsAreDone'
  BY <1>1, <1>2, <1>3, <1>4, <1>6 DEF RunsInv, RunTyped, CompletedRunsAreDone
<1>14. QED
  BY <1>7, <1>8, <1>10, <1>11, <1>12, <1>13 DEF RunsInv

LEMMA AppendFailsRuns ==
  ASSUME RunConstants, RunsInv, AppendFails
  PROVE RunsInv'
<1>1. /\ append.stage \in {"started", "committed"} /\ append' = NoAppend
      /\ status' = IF append.run = NoRun THEN status ELSE [status EXCEPT ![append.run] = "failed"]
      /\ leaves' = leaves /\ embedded' = embedded /\ inner' = inner /\ ctx' = ctx
      /\ jobs' = jobs /\ owner' = owner /\ early' = early /\ Leaves' = Leaves
  BY DEF AppendFails, treeVars, engineVars, Leaves
<1>2. \A q \in Runs : status'[q] = status[q] \/ status'[q] = "failed"
  BY <1>1 DEF RunsInv, RunTyped
<1>3. RunTyped'
  BY <1>1 DEF RunsInv, RunTyped, Stages, NoAppend
<1>4. JobsTyped' /\ ContextInv' /\ AppendSound'
  BY <1>1 DEF RunsInv, JobsTyped, ContextInv, AppendSound, NoAppend
<1>5. UnstartedRuns' /\ CompletedRunsAreDone'
  BY <1>1, <1>2 DEF RunsInv, RunTyped, UnstartedRuns, CompletedRunsAreDone
<1>6. QED
  BY <1>3, <1>4, <1>5 DEF RunsInv

LEMMA RegisterRunRuns ==
  ASSUME RunConstants, RunsInv, RegisterRun
  PROVE RunsInv'
<1> DEFINE n == Leaf(append.leaf)
           r == append.run
           c == IF ctx = NoContext THEN FreshContext ELSE ctx
<1>1. /\ append.stage = "committed" /\ append' = [append EXCEPT !.stage = "registered"]
      /\ ctx' = IF r = NoRun THEN ctx ELSE Registered(c, r, n)
      /\ leaves' = leaves /\ embedded' = embedded /\ inner' = inner /\ Leaves' = Leaves
      /\ jobs' = jobs /\ status' = status /\ owner' = owner /\ early' = early
  BY DEF RegisterRun, treeVars, history, Leaves
<1>2. RunTyped' /\ append'.stage = "registered"
  BY <1>1 DEF RunsInv, RunTyped
<1>3. JobsTyped' /\ CompletedRunsAreDone' /\ AppendSound'
  BY <1>1, <1>2 DEF RunsInv, JobsTyped, CompletedRunsAreDone, AppendSound
<1>4. CASE r = NoRun
  BY <1>1, <1>2, <1>3, <1>4 DEF RunsInv, UnstartedRuns, ContextInv
<1>5. CASE r \in Runs
  <2>1. ctx' = Registered(c, r, n)
    BY <1>1, <1>5 DEF RunConstants
  <2>2. ContextSound(c, DOMAIN jobs, owner, early) /\ r \notin Range(c.queue)
    BY <1>1, FreshIsSound DEF RunsInv, ContextInv, AppendSound
  <2>3. /\ \A m \in DOMAIN owner : owner[m] = r <=> m = n
        /\ <<"embed", n>> \in DOMAIN jobs => n \in early
    BY <1>1, <1>5 DEF RunsInv, RunTyped, AppendSound
  <2>4. status[r] = "in_progress"
    BY <1>1, <1>5 DEF RunsInv, AppendSound
  <2> HIDE DEF n, r, c
  <2>5. /\ ContextSound(Registered(c, r, n), DOMAIN jobs, owner, early)
        /\ Range(Registered(c, r, n).queue) = Range(c.queue) \cup {r}
    BY <1>5, <2>2, <2>3, RegisteredIsSound
  <2>6. ContextInv'
    BY <1>1, <2>1, <2>5 DEF ContextInv
  <2>7. \A q \in Range(c.queue) : ctx # NoContext /\ q \in Range(ctx.queue)
    BY FreshIsSound DEF c
  <2>8. UnstartedRuns'
    BY <1>1, <2>1, <2>4, <2>5, <2>7 DEF RunsInv, UnstartedRuns
  <2>9. QED
    BY <1>2, <1>3, <2>6, <2>8 DEF RunsInv
<1>6. QED
  BY <1>4, <1>5 DEF RunsInv, RunTyped

LEMMA TriggerWorkRuns ==
  ASSUME RunConstants, RunsInv, TriggerWork
  PROVE RunsInv'
<1>1. /\ append' = NoAppend
      /\ ctx' = IF ctx = NoContext THEN FreshContext ELSE [ctx EXCEPT !.cancelled = FALSE]
      /\ leaves' = leaves /\ embedded' = embedded /\ inner' = inner /\ Leaves' = Leaves
      /\ jobs' = jobs /\ status' = status /\ owner' = owner /\ early' = early
  BY DEF TriggerWork, treeVars, history, Leaves
<1>2. RunTyped' /\ JobsTyped' /\ CompletedRunsAreDone' /\ AppendSound'
  BY <1>1 DEF RunsInv, RunTyped, JobsTyped, CompletedRunsAreDone, AppendSound, NoAppend
<1>3. /\ ContextSound(ctx', DOMAIN jobs, owner, early)
      /\ \A q \in Range(ctx'.queue) : ctx # NoContext /\ q \in Range(ctx.queue)
  BY <1>1, FreshIsSound, CancelledIsSound DEF RunsInv, ContextInv
<1>4. ContextInv' /\ UnstartedRuns'
  BY <1>1, <1>3 DEF RunsInv, ContextInv, UnstartedRuns
<1>5. QED
  BY <1>2, <1>4 DEF RunsInv

LEMMA JobsAreTyped ==
  ASSUME RunsInv, NEW j \in Jobs
  PROVE j \in {"embed"} \X (Leaves \ embedded) \/ j \in {"summarize"} \X (Nat \X Nat)
<1>1. Nodes \subseteq Nat \X Nat
  <2>1. Leaves \subseteq Nat \X Nat
    BY DEF RunsInv, RunTyped, Leaves, Leaf
  <2>2. QED
    BY <2>1 DEF RunsInv, RunTyped, Nodes
<1>2. QED
  BY <1>1 DEF Jobs

LEMMA ClaimRuns ==
  ASSUME RunConstants, RunsInv, NEW j \in FreshJobs, Claim(j)
  PROVE RunsInv'
<1> DEFINE J == DOMAIN jobs
           r == AssignRun(ctx, j[2])
<1>1. /\ jobs' = Put(jobs, j, [at |-> "claimed", run |-> NoRun])
      /\ ctx' = IF ctx = NoContext \/ r = NoRun THEN ctx
                ELSE Counted(ctx, j, r)
      /\ early \subseteq early'
      /\ append.stage = "committed" /\ j[2] = Leaf(append.leaf) => j[2] \in early'
      /\ leaves' = leaves /\ embedded' = embedded /\ inner' = inner /\ Leaves' = Leaves
      /\ append' = append /\ status' = status /\ owner' = owner
  BY DEF Claim, treeVars, clientVars, Leaves
<1>2. j \in Jobs /\ j \notin J
  BY DEF FreshJobs
<1>3. RunTyped' /\ CompletedRunsAreDone'
  BY <1>1 DEF RunsInv, RunTyped, CompletedRunsAreDone
<1>4. DOMAIN jobs' = J \cup {j} /\ IsFiniteSet(J)
  BY <1>1 DEF Put, RunsInv, JobsTyped
<1>5. JobsTyped'
  <2>1. IsFiniteSet(DOMAIN jobs')
    BY <1>4, FS_AddElement
  <2>2. jobs' = [k \in DOMAIN jobs' |-> jobs'[k]]
    BY <1>1 DEF Put
  <2>3. ASSUME NEW k \in DOMAIN jobs'
        PROVE /\ jobs'[k] \in [at : {"claimed", "working", "failed"}, run : Runs \cup {NoRun}]
              /\ \/ k \in {"embed"} \X (Leaves \ embedded)
                 \/ k \in {"summarize"} \X (Nat \X Nat)
    <3>1. CASE k = j
      BY <3>1, <1>1, <1>2, JobsAreTyped DEF Put
    <3>2. CASE k # j
      BY <3>2, <1>1, <1>4 DEF Put, RunsInv, JobsTyped
    <3>3. QED
      BY <3>1, <3>2
  <2>4. QED
    BY <2>1, <2>2, <2>3, <1>1 DEF JobsTyped
<1>6. ASSUME ctx # NoContext
      PROVE ContextSound(ctx', J \cup {j}, owner, early) /\ ctx'.queue = ctx.queue
  <2>1. ContextSound(ctx, J, owner, early)
    BY <1>6 DEF RunsInv, ContextInv
  <2>2. CASE r = NoRun
    <3>1. \A n \in DOMAIN owner : owner[n] \in Range(ctx.queue) => <<"embed", n>> # j
      <4>1. ASSUME NEW n \in DOMAIN owner, owner[n] \in Range(ctx.queue), <<"embed", n>> = j
            PROVE FALSE
        <5>1. n = j[2]
          BY <4>1
        <5>2. r = owner[n]
          BY <4>1, <5>1, <2>1, CreditIsSound
        <5>3. QED
          BY <4>1, <5>2, <2>2, <1>6, InLine
      <4>2. QED
        BY <4>1
    <3>2. QED
      BY <2>1, <2>2, <3>1, <1>1 DEF ContextSound
  <2>3. CASE r # NoRun
    <3>1. ctx' = Counted(ctx, j, r)
      BY <2>3, <1>1, <1>6
    <3>2. r = AssignRun(ctx, j[2]) /\ r # NoRun /\ j \notin J /\ IsFiniteSet(J)
      BY <2>3, <1>2, <1>4
    <3> HIDE DEF r, J
    <3>3. QED
      BY <3>1, <3>2, <2>1, ClaimIsSound
  <2>4. QED
    BY <2>2, <2>3
<1>7. ContextInv'
  <2>1. ASSUME ctx # NoContext
        PROVE ContextSound(ctx', J \cup {j}, owner, early')
    BY <2>1, <1>1, <1>6, OthersAreSound
  <2>2. QED
    BY <2>1, <1>1, <1>4 DEF ContextInv
<1>8. AppendSound'
  BY <1>1, <1>4, <1>6 DEF RunsInv, AppendSound
<1>9. UnstartedRuns'
  BY <1>1, <1>6 DEF RunsInv, UnstartedRuns
<1>10. QED
  BY <1>3, <1>5, <1>7, <1>8, <1>9 DEF RunsInv

LEMMA ScanEndsRuns ==
  ASSUME RunsInv, ScanEnds
  PROVE RunsInv'
BY DEF ScanEnds, RunsInv, treeVars, clientVars, history, RunTyped, JobsTyped, AppendSound,
       UnstartedRuns, ContextInv, CompletedRunsAreDone, Leaves

LEMMA StartJobRuns ==
  ASSUME RunConstants, RunsInv, NEW j \in DOMAIN jobs, StartJob(j)
  PROVE RunsInv'
<1> DEFINE r == AssignRun(ctx, j[2])
<1>1. /\ leaves' = leaves /\ embedded' = embedded /\ inner' = inner /\ Leaves' = Leaves
      /\ append' = append /\ status' = status /\ owner' = owner /\ early' = early
      /\ ctx = NoContext => ctx' = ctx /\ jobs' = [jobs EXCEPT ![j].at = "working"]
      /\ ctx # NoContext =>
           /\ ctx' = Credit(ctx, j[2])
           /\ jobs' = [jobs EXCEPT ![j] =
                [at |-> IF Collectable(r, j) THEN "working" ELSE "failed", run |-> r]]
  BY DEF StartJob, treeVars, clientVars, history, Leaves
<1>2. ctx # NoContext =>
        /\ ContextSound(ctx', DOMAIN jobs, owner, early) /\ ctx'.queue = ctx.queue
        /\ r \in Runs \cup {NoRun}
  BY <1>1, CreditIsSound DEF RunsInv, ContextInv
<1>3. RunTyped' /\ CompletedRunsAreDone'
  BY <1>1 DEF RunsInv, RunTyped, CompletedRunsAreDone
<1>4. DOMAIN jobs' = DOMAIN jobs
  BY <1>1
<1>5. JobsTyped'
  <2>1. jobs' = [k \in DOMAIN jobs' |-> jobs'[k]]
    BY <1>1 DEF RunsInv, JobsTyped
  <2>2. jobs'[j] \in [at : {"claimed", "working", "failed"}, run : Runs \cup {NoRun}]
    BY <1>1, <1>2 DEF RunsInv, JobsTyped
  <2>3. \A k \in DOMAIN jobs \ {j} : jobs'[k] = jobs[k]
    BY <1>1
  <2>4. QED
    BY <1>1, <1>4, <2>1, <2>2, <2>3 DEF RunsInv, JobsTyped
<1>6. ContextInv' /\ AppendSound' /\ UnstartedRuns'
  BY <1>1, <1>2, <1>4 DEF RunsInv, ContextInv, AppendSound, UnstartedRuns
<1>7. QED
  BY <1>3, <1>5, <1>6 DEF RunsInv

LEMMA JobEndsRuns ==
  ASSUME RunConstants, RunsInv, NEW j \in DOMAIN jobs, NEW succeeded \in BOOLEAN,
         JobEnds(j, succeeded)
  PROVE RunsInv'
<1> DEFINE J == DOMAIN jobs
           c == IF succeeded THEN Commit(ctx, j) ELSE ctx
<1>1. /\ embedded' = embedded \cup (IF succeeded /\ j[1] = "embed" THEN {j[2]} ELSE {})
      /\ inner' = inner \cup (IF succeeded /\ j[1] = "summarize" THEN {Parent(j[2])} ELSE {})
      /\ jobs' = [k \in J \ {j} |-> jobs[k]]
      /\ ctx = NoContext => ctx' = ctx
      /\ ctx # NoContext => ctx' = Released(c, j)
      /\ leaves' = leaves /\ Leaves' = Leaves
      /\ append' = append /\ status' = status /\ owner' = owner /\ early' = early
  BY DEF JobEnds, history, Leaves, RestrictDomain, Restrict
<1>2. /\ j \in {"embed"} \X (Leaves \ embedded) \/ j \in {"summarize"} \X (Nat \X Nat)
      /\ jobs[j].run \in Runs \cup {NoRun} /\ IsFiniteSet(J)
  BY DEF RunsInv, JobsTyped
<1>3. j[2] \in Nat \X Nat /\ Parent(j[2]) \in (Nat \ {0}) \X Nat
  <2>1. Leaves \subseteq Nat \X Nat
    BY DEF RunsInv, RunTyped, Leaves, Leaf
  <2>2. j[2] \in Nat \X Nat
    BY <1>2, <2>1
  <2>3. j[2][1] + 1 \in Nat \ {0} /\ j[2][2] \div 2 \in Nat
    BY <2>2
  <2>4. QED
    BY <2>2, <2>3 DEF Parent
<1>4. RunTyped'
  BY <1>1, <1>2, <1>3 DEF RunsInv, RunTyped
<1>5. DOMAIN jobs' = J \ {j} /\ \A k \in J \ {j} : jobs'[k] = jobs[k]
  BY <1>1
<1>6. JobsTyped'
  <2>1. IsFiniteSet(DOMAIN jobs')
    BY <1>2, <1>5, FS_RemoveElement
  <2>2. jobs' = [k \in DOMAIN jobs' |-> jobs'[k]]
    BY <1>1
  <2>3. ASSUME NEW k \in DOMAIN jobs'
        PROVE \/ k \in {"embed"} \X (Leaves \ embedded')
              \/ k \in {"summarize"} \X (Nat \X Nat)
    <3>1. k # j /\ (k \in {"embed"} \X (Leaves \ embedded) \/ k \in {"summarize"} \X (Nat \X Nat))
      BY <1>5 DEF RunsInv, JobsTyped
    <3>2. QED
      BY <3>1, <1>1, <1>2
  <2>4. QED
    BY <1>1, <1>5, <2>1, <2>2, <2>3 DEF RunsInv, JobsTyped
<1>7. ASSUME ctx # NoContext
      PROVE ContextSound(ctx', J \ {j}, owner, early) /\ ctx'.queue = ctx.queue
  <2>1. ContextSound(ctx, J, owner, early)
    BY <1>7 DEF RunsInv, ContextInv
  <2>2. ContextSound(c, J, owner, early) /\ c.queue = ctx.queue
    <3>1. Parent(j[2]) \notin DOMAIN owner
      BY <1>3 DEF RunsInv, RunTyped, Leaves, Leaf
    <3>2. c = ctx \/ (jobs[j].run \in Runs
                      /\ c = [ctx EXCEPT !.assigned = Put(@, Parent(j[2]), jobs[j].run)])
      BY <1>2 DEF Commit
    <3>3. ASSUME NEW r \in Runs
          PROVE /\ ContextSound([ctx EXCEPT !.assigned = Put(@, Parent(j[2]), r)], J, owner, early)
                /\ [ctx EXCEPT !.assigned = Put(@, Parent(j[2]), r)].queue = ctx.queue
      BY <2>1, <3>1, CommitIsSound
    <3>4. QED
      BY <2>1, <3>2, <3>3
  <2> HIDE DEF c
  <2>3. QED
    BY <2>2, <1>1, <1>2, <1>7, ReleasedIsSound
<1>8. ContextInv' /\ UnstartedRuns' /\ AppendSound'
  BY <1>1, <1>5, <1>7 DEF RunsInv, ContextInv, UnstartedRuns, AppendSound
<1>9. CompletedRunsAreDone'
  BY <1>1 DEF RunsInv, CompletedRunsAreDone
<1>10. QED
  BY <1>4, <1>6, <1>8, <1>9 DEF RunsInv

\* The oldest run ends only when its leaf is embedded: a leaf that is not has a
\* job, which either nobody took or is counted in flight.
LEMMA CheckRunsRuns ==
  ASSUME RunConstants, RunsInv, CheckRuns
  PROVE RunsInv'
<1>1. /\ leaves' = leaves /\ embedded' = embedded /\ inner' = inner /\ ctx' = ctx
      /\ jobs' = jobs /\ append' = append /\ owner' = owner /\ early' = early /\ Leaves' = Leaves
  BY DEF CheckRuns, treeVars, history, Leaves
<1>2. CASE status' = status
  BY <1>1, <1>2 DEF RunsInv, RunTyped, JobsTyped, AppendSound, UnstartedRuns, ContextInv,
                    CompletedRunsAreDone
<1>3. CASE ctx # NoContext /\ ctx.queue # <<>> /\ CanEnd(Head(ctx.queue))
  <2> DEFINE r == Head(ctx.queue)
  <2>1. status' = [status EXCEPT ![r] = IF @ = "in_progress" THEN "completed" ELSE @]
    BY <1>3 DEF CheckRuns
  <2>2. ContextSound(ctx, DOMAIN jobs, owner, early)
    BY <1>3 DEF RunsInv, ContextInv
  <2>3. r \in Range(ctx.queue) /\ r \in Runs
    <3>1. 1 \in DOMAIN ctx.queue /\ r = ctx.queue[1]
      BY <1>3, <2>2, LenProperties, EmptySeq DEF ContextSound
    <3>2. QED
      BY <3>1, <1>3, InLine DEF Range
  <2>4. ctx.inflight[r] = 0 /\ ~HasEligibleJob(r)
    BY <1>3 DEF CanEnd
  <2> HIDE DEF r
  <2>5. ASSUME NEW n \in DOMAIN owner, owner[n] = r, n \notin early, n \notin embedded
        PROVE FALSE
    <3> DEFINE j == <<"embed", n>>
    <3>1. j \in Jobs
      BY <2>5 DEF RunsInv, RunTyped, Jobs
    <3>2. Assigned(ctx, n) = r
      BY <2>2, <2>3, <2>5 DEF ContextSound
    <3>3. CASE j \notin DOMAIN jobs
      <4>1. j \in FreshJobs /\ j[2] = n
        BY <3>1, <3>3 DEF FreshJobs
      <4>2. QED
        BY <4>1, <3>2, <2>4 DEF HasEligibleJob
    <3>4. CASE j \in DOMAIN jobs
      <4>1. j \in Credited(ctx, r)
        BY <3>4, <2>2, <2>3, <2>5 DEF ContextSound, Credited
      <4>2. IsFiniteSet(DOMAIN jobs) /\ DOMAIN ctx.jobRun \subseteq DOMAIN jobs
        BY <2>2 DEF RunsInv, JobsTyped, ContextSound
      <4>3. Cardinality(Credited(ctx, r)) > 0
        BY <4>1, <4>2, CreditedCount
      <4>4. QED
        BY <4>3, <2>2, <2>3, <2>4 DEF ContextSound
    <3>5. QED
      BY <3>3, <3>4
  <2>6. CompletedRunsAreDone'
    <3>1. \A q \in Runs \ {r} : status'[q] = status[q]
      BY <2>1 DEF RunsInv, RunTyped
    <3>2. QED
      BY <1>1, <2>5, <3>1 DEF RunsInv, RunTyped, CompletedRunsAreDone
  <2>7. RunTyped' /\ JobsTyped' /\ ContextInv'
    BY <1>1, <2>1 DEF RunsInv, RunTyped, JobsTyped, ContextInv, Stages
  <2>8. /\ \A q \in Runs : status'[q] = "none" => status[q] = "none"
        /\ \A q \in Runs \ {r} : status'[q] = status[q]
    BY <2>1, <2>3 DEF RunsInv, RunTyped
  <2>9. AppendSound' /\ UnstartedRuns'
    BY <1>1, <1>3, <2>3, <2>8 DEF RunsInv, AppendSound, UnstartedRuns
  <2>10. QED
    BY <2>6, <2>7, <2>9 DEF RunsInv
<1>4. QED
  BY <1>2, <1>3 DEF CheckRuns

LEMMA DetachRunRuns ==
  ASSUME RunConstants, RunsInv, NEW r \in Runs, DetachRun(r)
  PROVE RunsInv'
<1>1. /\ leaves' = leaves /\ embedded' = embedded /\ inner' = inner /\ Leaves' = Leaves
      /\ append' = append /\ status' = status /\ owner' = owner /\ early' = early /\ jobs' = jobs
      /\ ctx = NoContext => ctx' = ctx
      /\ ctx # NoContext => ctx' = Detached(ctx, r)
  BY DEF DetachRun, treeVars, clientVars, history, Leaves
<1>2. ctx # NoContext =>
        /\ ContextSound(ctx', DOMAIN jobs, owner, early)
        /\ Range(ctx'.queue) \subseteq Range(ctx.queue)
  BY <1>1, DetachedIsSound DEF RunsInv, ContextInv
<1>3. RunTyped' /\ JobsTyped' /\ CompletedRunsAreDone'
  BY <1>1 DEF RunsInv, RunTyped, JobsTyped, CompletedRunsAreDone
<1>4. ContextInv' /\ UnstartedRuns' /\ AppendSound'
  BY <1>1, <1>2 DEF RunsInv, ContextInv, UnstartedRuns, AppendSound
<1>5. QED
  BY <1>3, <1>4 DEF RunsInv

LEMMA StartCutRuns ==
  ASSUME RunConstants, RunsInv, StartCut
  PROVE RunsInv'
<1>1. /\ ctx' = IF ctx = NoContext THEN ctx ELSE [ctx EXCEPT !.cancelled = TRUE]
      /\ leaves' = leaves /\ embedded' = embedded /\ inner' = inner /\ Leaves' = Leaves
      /\ append' = append /\ status' = status /\ owner' = owner /\ early' = early /\ jobs' = jobs
  BY DEF StartCut, treeVars, history, Leaves
<1>2. ctx # NoContext =>
        ContextSound(ctx', DOMAIN jobs, owner, early) /\ ctx'.queue = ctx.queue
  <2>1. ASSUME ctx # NoContext
        PROVE ContextSound(ctx', DOMAIN jobs, owner, early) /\ ctx'.queue = ctx.queue
    <3>1. ContextSound(ctx, DOMAIN jobs, owner, early)
      BY <2>1 DEF RunsInv, ContextInv
    <3>2. ctx' = [ctx EXCEPT !.cancelled = TRUE]
      BY <2>1, <1>1
    <3>3. QED
      BY <3>1, <3>2, CancelledIsSound
  <2>2. QED
    BY <2>1
<1>3. RunTyped' /\ JobsTyped' /\ CompletedRunsAreDone'
  BY <1>1 DEF RunsInv, RunTyped, JobsTyped, CompletedRunsAreDone
<1>4. ContextInv' /\ UnstartedRuns' /\ AppendSound'
  BY <1>1, <1>2 DEF RunsInv, ContextInv, UnstartedRuns, AppendSound
<1>5. QED
  BY <1>3, <1>4 DEF RunsInv

LEMMA EndCutRuns ==
  ASSUME RunConstants, RunsInv, EndCut
  PROVE RunsInv'
<1>1. PICK cut \in 0 .. leaves - 1 :
        /\ leaves' = cut
        /\ embedded' = {n \in embedded : n[2] < cut}
        /\ inner' = {n \in inner : (n[2] + 1) * 2 ^ n[1] <= cut}
        /\ owner' = [n \in {m \in DOMAIN owner : m[2] < cut} |-> owner[n]]
        /\ early' = {n \in early : n[2] < cut}
  BY DEF EndCut, RestrictDomain, Restrict
<1>2. /\ jobs = <<>> /\ jobs' = jobs /\ append.stage = "idle" /\ append' = append
      /\ ctx' = NoContext /\ status' = status
  BY DEF EndCut
<1>3. leaves \in Nat /\ cut \in Nat /\ cut < leaves
  BY <1>1 DEF RunsInv, RunTyped
<1>4. Leaves' = {n \in Leaves : n[2] < cut}
  <2>1. Leaves' = {Leaf(i) : i \in 0 .. cut - 1}
    BY <1>1 DEF Leaves
  <2>2. \A i \in 0 .. leaves - 1 : Leaf(i)[2] = i
    BY DEF Leaf
  <2>3. ASSUME NEW n \in Leaves'
        PROVE n \in Leaves /\ n[2] < cut
    <3>1. PICK i \in 0 .. cut - 1 : n = Leaf(i)
      BY <2>1, <2>3
    <3>2. i \in 0 .. leaves - 1 /\ i < cut
      BY <1>3
    <3>3. QED
      BY <3>1, <3>2, <2>2 DEF Leaves
  <2>4. ASSUME NEW n \in Leaves, n[2] < cut
        PROVE n \in Leaves'
    <3>1. PICK i \in 0 .. leaves - 1 : n = Leaf(i)
      BY <2>4 DEF Leaves
    <3>2. i \in 0 .. cut - 1
      BY <3>1, <2>2, <2>4, <1>3
    <3>3. QED
      BY <3>1, <3>2, <2>1
  <2>5. QED
    BY <2>3, <2>4
<1>5. DOMAIN owner' = Leaves' /\ \A n \in Leaves' : n \in Leaves /\ owner'[n] = owner[n]
  BY <1>1, <1>4 DEF RunsInv, RunTyped
<1>6. RunTyped'
  BY <1>1, <1>2, <1>3, <1>4, <1>5 DEF RunsInv, RunTyped
<1>7. DOMAIN jobs = {}
  BY <1>2
<1>8. JobsTyped'
  BY <1>2, <1>7 DEF RunsInv, JobsTyped
<1>9. AppendSound' /\ UnstartedRuns' /\ ContextInv'
  BY <1>2, <1>5 DEF RunsInv, AppendSound, UnstartedRuns, ContextInv
<1>10. CompletedRunsAreDone'
  <2>1. ASSUME NEW n \in DOMAIN owner', owner'[n] # NoRun, n \notin early',
               status'[owner'[n]] = "completed"
        PROVE n \in embedded'
    <3>1. n \in DOMAIN owner /\ owner'[n] = owner[n] /\ n[2] < cut
      BY <2>1, <1>4, <1>5 DEF RunsInv, RunTyped
    <3>2. n \notin early /\ status[owner[n]] = "completed"
      BY <2>1, <3>1, <1>1, <1>2
    <3>3. n \in embedded
      BY <2>1, <3>1, <3>2 DEF RunsInv, CompletedRunsAreDone
    <3>4. QED
      BY <3>1, <3>3, <1>1
  <2>2. QED
    BY <2>1 DEF CompletedRunsAreDone
<1>11. QED
  BY <1>6, <1>8, <1>9, <1>10 DEF RunsInv

-----------------------------------------------------------------------------
(* RunsInv holds of every state of the runs' bookkeeping.                  *)
THEOREM RunsAreSound == ASSUME RunConstants PROVE Spec => []RunsInv
<1>1. Init => RunsInv
  BY InitRuns
<1>2. RunsInv /\ [Next]_vars => RunsInv'
  <2> SUFFICES ASSUME RunsInv, [Next]_vars
               PROVE RunsInv'
    OBVIOUS
  <2>1. ASSUME NEW r \in Runs \cup {NoRun}, StartAppend(r)
        PROVE RunsInv'
    BY <2>1, StartAppendRuns
  <2>2. ASSUME NEW j \in FreshJobs, Claim(j)
        PROVE RunsInv'
    BY <2>2, ClaimRuns
  <2>3. ASSUME NEW j \in DOMAIN jobs, StartJob(j) \/ JobEnds(j, TRUE) \/ JobEnds(j, FALSE)
        PROVE RunsInv'
    BY <2>3, StartJobRuns, JobEndsRuns
  <2>4. ASSUME NEW r \in Runs, DetachRun(r)
        PROVE RunsInv'
    BY <2>4, DetachRunRuns
  <2>5. QED
    BY <2>1, <2>2, <2>3, <2>4, CommitLeafRuns, AppendFailsRuns, RegisterRunRuns,
       TriggerWorkRuns, ScanEndsRuns, CheckRunsRuns, StartCutRuns, EndCutRuns, StutterRuns
       DEF Next
<1>3. QED
  BY <1>1, <1>2, PTL DEF Spec

(* What an append added is embedded when its run is reported completed,    *)
(* unless a scan took its leaf before the run was registered               *)
(* (_maybe_complete_runs of the engine, complete_run of the run manager).  *)
THEOREM CompletedRunsHoldTheirLeaves ==
  ASSUME RunConstants PROVE Spec => []CompletedRunsAreDone
<1>1. RunsInv => CompletedRunsAreDone
  BY DEF RunsInv
<1>2. QED
  BY <1>1, RunsAreSound, PTL

-----------------------------------------------------------------------------
(* What is collected and written of runs *)

LogSteps == AppendSteps \cup {"working", "ending", "over", "lost"}
NodeRecords == [height : Nat, embedded : BOOLEAN, attempts : Nat]
Collectors == UNION {[S -> NodeRecords] : S \in SUBSET Nat}
RunRecords ==
  [document : Reported, status : {"in_progress", "completed", "failed"}, step : LogSteps,
   replace : BOOLEAN, leaf : Nat, job : Nat, collector : Collectors]

LineRecords ==
  [event : {"append_started", "node_committed", "garbage"} \cup Ended, run : Nat,
   nodes : Collectors \cup UNION {[S -> {0}] : S \in SUBSET Nat}]
Folders == [meta : Reported \cup {NoMetadata}, lines : Seq(LineRecords), torn : BOOLEAN]

LogTyped ==
  /\ runs \in Seq(RunRecords)
  /\ tracked \in Nat
  /\ kept = [d \in Reported |-> kept[d]]
  /\ \A d \in Reported : DOMAIN kept[d] \subseteq 1 .. tracked
  /\ folder \in [Range(Directory) -> Folders]

\* A node is told of by one collector, with the height that it is stored with.
Collected ==
  \A r \in DOMAIN runs :
    /\ DOMAIN runs[r].collector \subseteq 1 .. tracked
    /\ \A q \in DOMAIN runs \ {r} : DOMAIN runs[r].collector \cap DOMAIN runs[q].collector = {}
    /\ \A n \in DOMAIN runs[r].collector \cap DOMAIN kept[runs[r].document] :
         runs[r].collector[n].height = kept[runs[r].document][n]
    /\ runs[r].job # NoNode =>
         runs[r].job \in DOMAIN runs[r].collector /\ runs[r].collector[runs[r].job].height = 1
    /\ runs[r].step \in {"committed", "working"} => runs[r].leaf \in DOMAIN runs[r].collector

Statuses ==
  \A r \in DOMAIN runs :
    /\ runs[r].step \in AppendSteps \cup {"working"} => runs[r].status = "in_progress"
    /\ runs[r].step \in {"ending", "over"} => runs[r].status # "in_progress"

\* r began to write and has not failed
Succeeding(r) ==
  \/ runs[r].step \in {"commit", "committed", "working"}
  \/ runs[r].step \in {"ending", "over"} /\ runs[r].status = "completed"

LastLine(r) ==
  IF runs[r].status = "failed" THEN Line("append_failed", r, <<>>)
  ELSE Line("append_completed", r, runs[r].collector)

MetadataKept(x) ==
  /\ folder[x].meta # NoMetadata => Directory[folder[x].meta] = x
  /\ \A r \in WritersOf(x) \ overrun :
       Succeeding(r) \/ runs[r].step = "started" => folder[x].meta # NoMetadata

\* Half a line is there only while nobody but runs that are over began to write.
TornBetweenRuns(x) ==
  folder[x].torn => \A r \in WritersOf(x) : Succeeding(r) => runs[r].step = "over"

\* Every line is that of a run in this directory, and the line that ends a run
\* is its last.
LinesTold(x) ==
  \A i \in DOMAIN folder[x].lines : folder[x].lines[i] # Garbage =>
    LET line == folder[x].lines[i] IN
    /\ line.run \in WritersOf(x)
    /\ line.event \in Ended =>
         /\ runs[line.run].step = "over" /\ line = LastLine(line.run)
         /\ \A j \in DOMAIN folder[x].lines : folder[x].lines[j].run = line.run => j <= i

\* A run that is over has told it.
WorkTold(x) ==
  \A r \in WritersOf(x) \ overrun :
    runs[r].step = "over" /\ runs[r].status = "completed" =>
      \E i \in DOMAIN folder[x].lines : folder[x].lines[i] = LastLine(r)

Journal(x) == MetadataKept(x) /\ TornBetweenRuns(x) /\ LinesTold(x) /\ WorkTold(x)
Journals == \A x \in Range(Directory) : Journal(x)

LogInv == LogTyped /\ Collected /\ Statuses /\ Journals

-----------------------------------------------------------------------------
(* Runs and lines *)

LEMMA EmptyCollector == <<>> \in Collectors
<1>1. <<>> \in [{} -> NodeRecords]
  OBVIOUS
<1>2. QED
  BY <1>1 DEF Collectors

LEMMA RunChanged ==
  ASSUME LogTyped, NEW r \in DOMAIN runs, NEW s \in RunRecords,
         NEW rs, rs = [runs EXCEPT ![r] = s]
  PROVE /\ rs \in Seq(RunRecords) /\ DOMAIN rs = DOMAIN runs /\ Len(rs) = Len(runs)
        /\ rs[r] = s /\ \A q \in DOMAIN runs \ {r} : rs[q] = runs[q]
BY ExceptSeq DEF LogTyped

LEMMA RunAt ==
  ASSUME LogTyped, NEW r \in DOMAIN runs
  PROVE /\ runs[r] \in RunRecords /\ r \in Nat \ {0}
        /\ DirectoryOf(r) \in Range(Directory) /\ r \in WritersOf(DirectoryOf(r))
<1>1. runs[r] \in RunRecords /\ r \in Nat \ {0}
  BY LenProperties, ElementOfSeq DEF LogTyped
<1>2. runs[r].document \in Reported
  BY <1>1 DEF RunRecords
<1>3. DOMAIN Directory = Reported
  BY LogConstants DEF LogConstants
<1>4. QED
  BY <1>1, <1>2, <1>3 DEF DirectoryOf, WritersOf, Range

LEMMA GarbageIsALine ==
  Garbage \in LineRecords
<1>1. <<>> \in Collectors
  BY EmptyCollector
<1>2. QED
  BY <1>1 DEF Garbage, Line, LineRecords

LEMMA LineIsAdded ==
  ASSUME NEW lines \in Seq(LineRecords), NEW line \in LineRecords,
         NEW more, more = Append(lines, line)
  PROVE /\ more \in Seq(LineRecords) /\ DOMAIN lines = 1 .. Len(lines) /\ Len(lines) \in Nat
        /\ DOMAIN more = 1 .. Len(lines) + 1 /\ DOMAIN lines \subseteq DOMAIN more
        /\ more[Len(lines) + 1] = line
        /\ \A i \in DOMAIN lines : more[i] = lines[i]
        /\ \A i \in DOMAIN more : i = Len(lines) + 1 \/ i \in DOMAIN lines
<1>1. /\ more \in Seq(LineRecords) /\ Len(more) = Len(lines) + 1
      /\ \A i \in 1 .. Len(lines) : more[i] = lines[i]
      /\ more[Len(lines) + 1] = line
  BY AppendProperties
<1>2. /\ DOMAIN lines = 1 .. Len(lines) /\ Len(lines) \in Nat
      /\ DOMAIN more = 1 .. Len(more)
  BY <1>1, LenProperties
<1>3. QED
  BY <1>1, <1>2

\* A run takes a step and changes nothing else.
LEMMA RunAdvances ==
  ASSUME LogTyped, NEW r \in DOMAIN runs, NEW step \in LogSteps, Advance(r, step)
  PROVE /\ runs' \in Seq(RunRecords) /\ DOMAIN runs' = DOMAIN runs
        /\ runs'[r].step = step /\ runs'[r].status = runs[r].status
        /\ runs'[r].document = runs[r].document /\ runs'[r].collector = runs[r].collector
        /\ runs'[r].leaf = runs[r].leaf /\ runs'[r].job = runs[r].job
        /\ \A q \in DOMAIN runs \ {r} : runs'[q] = runs[q]
<1> DEFINE s == [runs[r] EXCEPT !.step = step]
<1>1. s \in RunRecords /\ s.step = step /\ s.status = runs[r].status
      /\ s.document = runs[r].document /\ s.collector = runs[r].collector
      /\ s.leaf = runs[r].leaf /\ s.job = runs[r].job
  BY RunAt DEF RunRecords
<1>2. runs' = [runs EXCEPT ![r] = s]
  BY DEF Advance
<1> HIDE DEF s
<1>3. QED
  BY <1>1, <1>2, RunChanged

\* No run tells of more nodes, and no document has more.
SameNodes ==
  /\ tracked' = tracked /\ DOMAIN runs' = DOMAIN runs
  /\ kept' = [d \in Reported |-> kept'[d]]
  /\ \A d \in Reported :
       /\ DOMAIN kept'[d] \subseteq DOMAIN kept[d]
       /\ \A n \in DOMAIN kept'[d] : kept'[d][n] = kept[d][n]
  /\ \A r \in DOMAIN runs :
       /\ runs'[r].document = runs[r].document /\ runs'[r].collector = runs[r].collector
       /\ runs'[r].leaf = runs[r].leaf /\ runs'[r].job \in {runs[r].job, NoNode}
       /\ runs'[r].step \in {"committed", "working"} => runs[r].step \in {"committed", "working"}

LEMMA NodesStay ==
  ASSUME LogTyped, Collected, SameNodes
  PROVE Collected'
<1>1. \A r \in DOMAIN runs : runs[r].document \in Reported
  BY RunAt DEF RunRecords
<1>2. QED
  BY <1>1 DEF Collected, SameNodes

\* The journal of x is not touched: a run may begin, fail, be lost, or go on.
SameJournal(x) ==
  /\ folder'[x] = folder[x] /\ overrun \subseteq overrun'
  /\ WritersOf(x) \subseteq WritersOf(x)'
  /\ \A r \in WritersOf(x) :
       /\ runs[r].step = "over" \/ runs'[r].step = "over" => runs'[r] = runs[r]
       /\ Succeeding(r)' => Succeeding(r)
       /\ runs'[r].step = "started" => runs[r].step = "started"
  /\ \A r \in WritersOf(x)' \ WritersOf(x) : runs'[r].step = "metadata"

LEMMA JournalStays ==
  ASSUME NEW x \in Range(Directory), Journal(x), SameJournal(x)
  PROVE Journal(x)'
<1>1. MetadataKept(x) /\ TornBetweenRuns(x) /\ LinesTold(x) /\ WorkTold(x)
  BY DEF Journal
<1>2. \A r \in WritersOf(x)' \ WritersOf(x) : runs'[r].step = "metadata" /\ ~Succeeding(r)'
  BY DEF SameJournal, Succeeding
<1>3. \A r \in WritersOf(x) : runs[r].step = "over" => LastLine(r)' = LastLine(r)
  BY DEF SameJournal, LastLine
<1>4. MetadataKept(x)'
  BY <1>1, <1>2 DEF MetadataKept, SameJournal
<1>5. TornBetweenRuns(x)'
  BY <1>1, <1>2 DEF TornBetweenRuns, SameJournal
<1>6. LinesTold(x)'
  BY <1>1, <1>2, <1>3 DEF LinesTold, SameJournal
<1>7. WorkTold(x)'
  BY <1>1, <1>2, <1>3 DEF WorkTold, SameJournal
<1>8. QED
  BY <1>4, <1>5, <1>6, <1>7 DEF Journal

\* No journal is touched.
SameJournals ==
  /\ folder' = folder /\ overrun' = overrun /\ DOMAIN runs \subseteq DOMAIN runs'
  /\ \A r \in DOMAIN runs :
       /\ runs'[r].document = runs[r].document
       /\ runs[r].step = "over" \/ runs'[r].step = "over" => runs'[r] = runs[r]
       /\ Succeeding(r)' => Succeeding(r)
       /\ runs'[r].step = "started" => runs[r].step = "started"
  /\ \A r \in DOMAIN runs' \ DOMAIN runs : runs'[r].step = "metadata"

LEMMA JournalsStay ==
  ASSUME Journals, SameJournals
  PROVE Journals'
<1>1. ASSUME NEW x \in Range(Directory) PROVE SameJournal(x)
  BY DEF SameJournals, SameJournal, WritersOf, DirectoryOf
<1>2. QED
  BY <1>1, JournalStays DEF Journals

-----------------------------------------------------------------------------
(* The steps of a run *)

LEMMA InitLog ==
  ASSUME LogInit
  PROVE LogInv
<1>1. /\ kept = [d \in Reported |-> <<>>] /\ runs = <<>> /\ tracked = 0
      /\ folder = [x \in Range(Directory) |-> EmptyFolder]
  BY DEF LogInit
<1>2. runs \in Seq(RunRecords) /\ DOMAIN runs = {}
  BY <1>1
<1>3. EmptyFolder \in Folders /\ EmptyFolder.meta = NoMetadata /\ EmptyFolder.torn = FALSE
      /\ EmptyFolder.lines = <<>> /\ DOMAIN EmptyFolder.lines = {}
  BY DEF EmptyFolder, Folders
<1>4. \A d \in Reported : DOMAIN kept[d] = {}
  BY <1>1
<1>5. kept = [d \in Reported |-> kept[d]]
  BY <1>1
<1>6. LogTyped
  BY <1>1, <1>2, <1>3, <1>4, <1>5 DEF LogTyped
<1>7. Collected /\ Statuses
  BY <1>2 DEF Collected, Statuses
<1>8. \A x \in Range(Directory) : folder[x] = EmptyFolder /\ WritersOf(x) = {}
  BY <1>1, <1>2 DEF WritersOf
<1>9. Journals
  BY <1>3, <1>8 DEF Journals, Journal, MetadataKept, TornBetweenRuns, LinesTold, WorkTold
<1>10. QED
  BY <1>6, <1>7, <1>9 DEF LogInv

LEMMA StutterLog ==
  ASSUME LogInv, UNCHANGED logVars
  PROVE LogInv'
<1>1. LogTyped' /\ Statuses'
  BY DEF LogInv, logVars, LogTyped, Statuses
<1>2. SameNodes /\ SameJournals
  BY DEF LogInv, LogTyped, logVars, SameNodes, SameJournals, Succeeding
<1>3. QED
  BY <1>1, <1>2, NodesStay, JournalsStay DEF LogInv

LEMMA StartRunLog ==
  ASSUME LogInv, NEW d \in Reported, NEW replace \in BOOLEAN, StartRun(d, replace)
  PROVE LogInv'
<1> DEFINE new == [document |-> d, status |-> "in_progress", step |-> "metadata",
                   replace |-> replace, leaf |-> NoNode, job |-> NoNode, collector |-> <<>>]
<1>1. /\ runs' = Append(runs, new) /\ kept' = kept /\ folder' = folder
      /\ tracked' = tracked /\ overrun' = overrun
  BY DEF StartRun
<1>2. /\ new \in RunRecords /\ new.step = "metadata" /\ new.status = "in_progress"
      /\ DOMAIN new.collector = {} /\ new.job = NoNode
  BY EmptyCollector DEF RunRecords, LogSteps, AppendSteps, NoNode
<1> HIDE DEF new
<1>3. /\ runs' \in Seq(RunRecords) /\ Len(runs') = Len(runs) + 1
      /\ \A r \in 1 .. Len(runs) : runs'[r] = runs[r]
      /\ runs'[Len(runs) + 1] = new
  BY <1>1, <1>2, AppendProperties DEF LogInv, LogTyped
<1>4. /\ DOMAIN runs = 1 .. Len(runs) /\ DOMAIN runs' = 1 .. Len(runs) + 1 /\ Len(runs) \in Nat
  BY <1>3, LenProperties DEF LogInv, LogTyped
<1>5. /\ DOMAIN runs' = DOMAIN runs \cup {Len(runs) + 1} /\ Len(runs) + 1 \notin DOMAIN runs
      /\ \A r \in DOMAIN runs : runs'[r] = runs[r]
  BY <1>3, <1>4
<1>6. LogTyped'
  BY <1>1, <1>3 DEF LogInv, LogTyped
<1>7. Collected'
  BY <1>1, <1>2, <1>3, <1>5 DEF LogInv, Collected
<1>8. Statuses'
  BY <1>2, <1>3, <1>5 DEF LogInv, Statuses
<1>9. SameJournals
  BY <1>1, <1>2, <1>3, <1>5 DEF SameJournals, Succeeding
<1>10. QED
  BY <1>6, <1>7, <1>8, <1>9, JournalsStay DEF LogInv

\* The work on a node leaves its height alone.
LEMMA OthersStay ==
  ASSUME NEW c \in Collectors, NEW n \in Nat, NEW h \in Nat,
         NEW t, t = track_node_created(c, n, h), NEW m \in DOMAIN c \ {n}
  PROVE t[m] = c[m]
BY DEF track_node_created, Adding

LEMMA NewNodeHasHeight ==
  ASSUME NEW c \in Collectors, NEW n \in Nat, NEW h \in Nat,
         NEW t, t = track_node_created(c, n, h)
  PROVE t[n].height = h
BY DEF track_node_created, Adding

LEMMA NewNodeIsTracked ==
  ASSUME NEW c \in Collectors, NEW n \in Nat, NEW h \in Nat,
         NEW t, t = track_node_created(c, n, h)
  PROVE t \in Collectors /\ DOMAIN t = {n} \cup DOMAIN c
<1> DEFINE z == [height |-> h, embedded |-> FALSE, attempts |-> 0]
<1>1. z \in NodeRecords /\ z.height = h
  BY DEF NodeRecords
<1>2. t = [m \in {n} \cup DOMAIN c |-> IF m = n THEN z ELSE c[m]]
  BY DEF track_node_created, Adding
<1> HIDE DEF z
<1>3. PICK S \in SUBSET Nat : c \in [S -> NodeRecords]
  BY DEF Collectors
<1>4. t \in [{n} \cup S -> NodeRecords]
  BY <1>1, <1>2, <1>3
<1>5. t \in Collectors
  BY <1>4 DEF Collectors
<1>6. QED
  BY <1>1, <1>2, <1>5

LEMMA EmbeddingIsRecorded ==
  ASSUME NEW c \in Collectors, NEW n \in DOMAIN c,
         NEW t, t = record_embedding_call(c, n)
  PROVE /\ t \in Collectors /\ DOMAIN t = DOMAIN c
        /\ \A m \in DOMAIN t : t[m].height = c[m].height
<1> DEFINE v == [c[n] EXCEPT !.embedded = TRUE]
<1>1. PICK S \in SUBSET Nat : c \in [S -> NodeRecords]
  BY DEF Collectors
<1>2. v \in NodeRecords /\ v.height = c[n].height
  BY <1>1 DEF NodeRecords
<1>3. t = [c EXCEPT ![n] = v]
  BY DEF record_embedding_call
<1> HIDE DEF v
<1>4. t \in [S -> NodeRecords]
  BY <1>1, <1>2, <1>3
<1>5. t \in Collectors /\ DOMAIN t = DOMAIN c
  BY <1>1, <1>4 DEF Collectors
<1>6. QED
  BY <1>2, <1>3, <1>5

LEMMA AttemptIsRecorded ==
  ASSUME NEW c \in Collectors, NEW n \in DOMAIN c,
         NEW t, t = record_summary_attempt(c, n)
  PROVE /\ t \in Collectors /\ DOMAIN t = DOMAIN c
        /\ \A m \in DOMAIN t : t[m].height = c[m].height
<1> DEFINE v == [c[n] EXCEPT !.attempts = @ + 1]
<1>1. PICK S \in SUBSET Nat : c \in [S -> NodeRecords]
  BY DEF Collectors
<1>2. v \in NodeRecords /\ v.height = c[n].height
  BY <1>1 DEF NodeRecords
<1>3. t = [c EXCEPT ![n] = v]
  BY DEF record_summary_attempt
<1> HIDE DEF v
<1>4. t \in [S -> NodeRecords]
  BY <1>1, <1>2, <1>3
<1>5. t \in Collectors /\ DOMAIN t = DOMAIN c
  BY <1>1, <1>4 DEF Collectors
<1>6. QED
  BY <1>2, <1>3, <1>5

(***************************************************************************)
(* A run that is at work becomes s: nodes it is the first to tell of are   *)
(* new, and a node that it puts into its document is one it tells of.      *)
(***************************************************************************)
Working(r, s) ==
  /\ runs' = [runs EXCEPT ![r] = s] /\ folder' = folder /\ overrun' = overrun
  /\ s.document = runs[r].document /\ runs[r].step # "over"
  /\ s.step \notin {"metadata", "started", "over"}
  /\ s.step \in AppendSteps \cup {"working"} => s.status = "in_progress"
  /\ s.step = "ending" => s.status # "in_progress"
  /\ s.status # "failed" => runs[r].step \in {"commit", "committed", "working"}
  /\ s.step \in {"committed", "working"} => s.leaf \in DOMAIN s.collector
  /\ s.job # NoNode => s.job \in DOMAIN s.collector /\ s.collector[s.job].height = 1
  /\ tracked' \in Nat /\ tracked <= tracked'
  /\ DOMAIN s.collector \subseteq DOMAIN runs[r].collector \cup (tracked + 1 .. tracked')

Keeping(r, s) ==
  LET d == runs[r].document IN
  /\ kept' = [e \in Reported |-> kept'[e]]
  /\ \A e \in Reported \ {d} : kept'[e] = kept[e]
  /\ DOMAIN kept'[d] \subseteq DOMAIN kept[d] \cup DOMAIN s.collector
  /\ \A m \in DOMAIN kept'[d] \ DOMAIN s.collector : kept'[d][m] = kept[d][m]
  /\ \A m \in DOMAIN kept'[d] \cap DOMAIN s.collector : s.collector[m].height = kept'[d][m]

LEMMA WorkingLog ==
  ASSUME LogInv, NEW r \in DOMAIN runs, NEW s \in RunRecords, Working(r, s), Keeping(r, s)
  PROVE LogInv'
<1> DEFINE d == runs[r].document
<1>1. /\ runs' \in Seq(RunRecords) /\ DOMAIN runs' = DOMAIN runs /\ runs'[r] = s
      /\ \A q \in DOMAIN runs \ {r} : runs'[q] = runs[q]
  BY RunChanged DEF LogInv, Working
<1>2. /\ tracked \in Nat /\ tracked' \in Nat /\ d \in Reported
      /\ 1 .. tracked \subseteq 1 .. tracked'
      /\ tracked + 1 .. tracked' \subseteq 1 .. tracked'
      /\ (tracked + 1 .. tracked') \cap (1 .. tracked) = {}
  BY RunAt DEF LogInv, LogTyped, RunRecords, Working
<1>3. /\ DOMAIN s.collector \subseteq 1 .. tracked'
      /\ \A q \in DOMAIN runs \ {r} : DOMAIN runs[q].collector \cap DOMAIN s.collector = {}
      /\ \A q \in DOMAIN runs : DOMAIN runs[q].collector \subseteq 1 .. tracked
  <2>1. \A q \in DOMAIN runs : DOMAIN runs[q].collector \subseteq 1 .. tracked
    BY DEF LogInv, Collected
  <2>2. \A q \in DOMAIN runs \ {r} : DOMAIN runs[q].collector \cap DOMAIN runs[r].collector = {}
    BY DEF LogInv, Collected
  <2>3. DOMAIN s.collector \subseteq DOMAIN runs[r].collector \cup (tracked + 1 .. tracked')
    BY DEF Working
  <2>4. QED
    BY <1>2, <2>1, <2>2, <2>3
<1>4. LogTyped'
  <2>1. \A e \in Reported : DOMAIN kept'[e] \subseteq 1 .. tracked'
    <3>1. \A e \in Reported : DOMAIN kept[e] \subseteq 1 .. tracked
      BY DEF LogInv, LogTyped
    <3>2. QED
      BY <1>2, <1>3, <3>1 DEF Keeping
  <2>2. kept' = [e \in Reported |-> kept'[e]]
    BY DEF Keeping
  <2>3. folder' \in [Range(Directory) -> Folders]
    BY DEF LogInv, LogTyped, Working
  <2>4. QED
    BY <1>1, <1>2, <2>1, <2>2, <2>3 DEF LogTyped
<1>5. Collected'
  <2>1. ASSUME NEW q \in DOMAIN runs, q # r
        PROVE /\ DOMAIN runs[q].collector \subseteq 1 .. tracked'
              /\ \A m \in DOMAIN runs[q].collector \cap DOMAIN kept'[runs[q].document] :
                   runs[q].collector[m].height = kept'[runs[q].document][m]
    <3>1. runs[q].document \in Reported
      BY RunAt DEF LogInv, RunRecords
    <3>2. \A m \in DOMAIN runs[q].collector \cap DOMAIN kept'[runs[q].document] :
             /\ m \in DOMAIN kept[runs[q].document]
             /\ kept'[runs[q].document][m] = kept[runs[q].document][m]
      BY <1>2, <1>3, <2>1, <3>1 DEF Keeping
    <3>3. QED
      BY <1>2, <1>3, <3>2 DEF LogInv, Collected
  <2>2. ASSUME NEW q \in DOMAIN runs
        PROVE /\ DOMAIN runs'[q].collector \subseteq 1 .. tracked'
              /\ \A p \in DOMAIN runs \ {q} :
                   DOMAIN runs'[q].collector \cap DOMAIN runs'[p].collector = {}
    BY <1>1, <1>3, <2>1 DEF LogInv, Collected
  <2>3. ASSUME NEW q \in DOMAIN runs
        PROVE \A m \in DOMAIN runs'[q].collector \cap DOMAIN kept'[runs'[q].document] :
                runs'[q].collector[m].height = kept'[runs'[q].document][m]
    <3>1. CASE q = r
      BY <3>1, <1>1 DEF Working, Keeping
    <3>2. CASE q # r
      BY <3>2, <1>1, <2>1
    <3>3. QED
      BY <3>1, <3>2
  <2>4. ASSUME NEW q \in DOMAIN runs
        PROVE /\ runs'[q].job # NoNode =>
                   /\ runs'[q].job \in DOMAIN runs'[q].collector
                   /\ runs'[q].collector[runs'[q].job].height = 1
              /\ runs'[q].step \in {"committed", "working"} =>
                   runs'[q].leaf \in DOMAIN runs'[q].collector
    <3>1. CASE q = r
      BY <3>1, <1>1 DEF Working
    <3>2. CASE q # r
      BY <3>2, <1>1 DEF LogInv, Collected
    <3>3. QED
      BY <3>1, <3>2
  <2>5. QED
    BY <1>1, <2>2, <2>3, <2>4 DEF Collected
<1>6. Statuses'
  BY <1>1 DEF LogInv, Statuses, Working
<1>7. SameJournals
  <2>1. Succeeding(r)' => Succeeding(r)
    BY <1>1 DEF Succeeding, Working, AppendSteps
  <2>2. \A q \in DOMAIN runs \ {r} : Succeeding(q)' => Succeeding(q)
    BY <1>1 DEF Succeeding
  <2>3. QED
    BY <1>1, <2>1, <2>2 DEF SameJournals, Working
<1>8. QED
  BY <1>4, <1>5, <1>6, <1>7, JournalsStay DEF LogInv

LEMMA AppendLeafLog ==
  ASSUME LogInv, NEW r \in DOMAIN runs, AppendLeaf(r)
  PROVE LogInv'
<1> DEFINE n == tracked + 1
           d == runs[r].document
           c == track_node_created(runs[r].collector, n, 0)
           s == [runs[r] EXCEPT !.step = "committed", !.leaf = n, !.collector = c]
<1>1. /\ runs[r].step = "commit" /\ tracked' = n
      /\ kept' = [kept EXCEPT ![d] = Adding(@, n, 0)]
      /\ runs' = [runs EXCEPT ![r] = s] /\ folder' = folder /\ overrun' = overrun
  BY DEF AppendLeaf, AtStep
<1>2. tracked \in Nat /\ runs[r] \in RunRecords /\ d \in Reported /\ n \in Nat /\ n # NoNode
  BY RunAt DEF LogInv, LogTyped, RunRecords, NoNode
<1>3. /\ c \in Collectors /\ DOMAIN c = {n} \cup DOMAIN runs[r].collector
      /\ c[n].height = 0 /\ \A m \in DOMAIN runs[r].collector \ {n} : c[m] = runs[r].collector[m]
  <2>1. runs[r].collector \in Collectors /\ 0 \in Nat
    BY <1>2 DEF RunRecords
  <2> HIDE DEF n
  <2>2. c \in Collectors /\ DOMAIN c = {n} \cup DOMAIN runs[r].collector
    BY <1>2, <2>1, NewNodeIsTracked
  <2>3. c[n].height = 0
    BY <1>2, <2>1, NewNodeHasHeight
  <2>4. ASSUME NEW m \in DOMAIN runs[r].collector \ {n} PROVE c[m] = runs[r].collector[m]
    BY <1>2, <2>1, OthersStay
  <2> HIDE DEF c
  <2>5. QED
    BY <2>2, <2>3, <2>4
<1> HIDE DEF c, n
<1>4. /\ s \in RunRecords /\ s.step = "committed" /\ s.status = runs[r].status
      /\ s.document = d /\ s.leaf = n /\ s.job = runs[r].job /\ s.collector = c
  <2>1. "committed" \in LogSteps
    BY DEF LogSteps, AppendSteps
  <2>2. QED
    BY <1>2, <1>3, <2>1 DEF RunRecords
<1> HIDE DEF s
<1>5. /\ kept' = [e \in Reported |-> kept'[e]]
      /\ DOMAIN kept'[d] = {n} \cup DOMAIN kept[d] /\ kept'[d][n] = 0
      /\ \A m \in DOMAIN kept[d] \ {n} : kept'[d][m] = kept[d][m]
      /\ \A e \in Reported \ {d} : kept'[e] = kept[e]
  BY <1>1, <1>2 DEF Adding, LogInv, LogTyped
<1>6. /\ n \notin DOMAIN kept[d] /\ n \notin DOMAIN runs[r].collector
      /\ n \in tracked + 1 .. tracked'
  BY <1>1, <1>2 DEF LogInv, LogTyped, Collected, n
<1>7. Working(r, s)
  <2>1. runs[r].status = "in_progress"
    BY <1>1 DEF LogInv, Statuses, AppendSteps
  <2>2. s.job # NoNode => s.job \in DOMAIN c /\ c[s.job].height = 1
    BY <1>3, <1>4, <1>6 DEF LogInv, Collected
  <2>3. DOMAIN c \subseteq DOMAIN runs[r].collector \cup (tracked + 1 .. tracked')
    BY <1>3, <1>6
  <2>4. tracked' \in Nat /\ tracked <= tracked'
    BY <1>1, <1>2 DEF n
  <2>5. QED
    BY <1>1, <1>3, <1>4, <2>1, <2>2, <2>3, <2>4 DEF Working, AppendSteps, d
<1>8. Keeping(r, s)
  BY <1>3, <1>4, <1>5, <1>6 DEF Keeping, LogInv, Collected
<1>9. QED
  BY <1>4, <1>7, <1>8, WorkingLog

LEMMA EmbedsLeafLog ==
  ASSUME LogInv, NEW r \in DOMAIN runs, EmbedsLeaf(r)
  PROVE LogInv'
<1> DEFINE c == record_embedding_call(runs[r].collector, runs[r].leaf)
           s == [runs[r] EXCEPT !.collector = c]
<1>1. /\ runs[r].step = "working" /\ tracked' = tracked /\ kept' = kept
      /\ runs' = [runs EXCEPT ![r] = s] /\ folder' = folder /\ overrun' = overrun
  BY DEF EmbedsLeaf, AtStep
<1>2. tracked \in Nat /\ runs[r] \in RunRecords
  BY RunAt DEF LogInv, LogTyped
<1>3. runs[r].leaf \in DOMAIN runs[r].collector
  BY <1>1 DEF LogInv, Collected
<1>4. /\ c \in Collectors /\ DOMAIN c = DOMAIN runs[r].collector
      /\ \A m \in DOMAIN c : c[m].height = runs[r].collector[m].height
  BY <1>2, <1>3, EmbeddingIsRecorded DEF RunRecords
<1> HIDE DEF c
<1>5. /\ s \in RunRecords /\ s.step = "working" /\ s.status = runs[r].status
      /\ s.document = runs[r].document /\ s.leaf = runs[r].leaf /\ s.job = runs[r].job
      /\ s.collector = c
  BY <1>1, <1>2, <1>4 DEF RunRecords
<1> HIDE DEF s
<1>6. Working(r, s)
  <2>1. runs[r].status = "in_progress"
    BY <1>1 DEF LogInv, Statuses
  <2>2. s.job # NoNode => s.job \in DOMAIN c /\ c[s.job].height = 1
    BY <1>4, <1>5 DEF LogInv, Collected
  <2>3. QED
    BY <1>1, <1>2, <1>3, <1>4, <1>5, <2>1, <2>2 DEF Working, AppendSteps
<1>7. Keeping(r, s)
  BY <1>1, <1>4, <1>5 DEF Keeping, LogInv, LogTyped, Collected
<1>8. QED
  BY <1>5, <1>6, <1>7, WorkingLog

LEMMA StartsSummaryLog ==
  ASSUME LogInv, NEW r \in DOMAIN runs, StartsSummary(r)
  PROVE LogInv'
<1> DEFINE n == tracked + 1
           b == track_node_created(runs[r].collector, n, 1)
           c == record_summary_attempt(b, n)
           s == [runs[r] EXCEPT !.job = n, !.collector = c]
<1>1. /\ runs[r].step = "working" /\ tracked' = n /\ kept' = kept
      /\ runs' = [runs EXCEPT ![r] = s] /\ folder' = folder /\ overrun' = overrun
  BY DEF StartsSummary, AtStep
<1>2. tracked \in Nat /\ runs[r] \in RunRecords /\ n \in Nat /\ n # NoNode
  BY RunAt DEF LogInv, LogTyped, NoNode
<1>3. /\ b \in Collectors /\ DOMAIN b = {n} \cup DOMAIN runs[r].collector /\ b[n].height = 1
      /\ \A m \in DOMAIN runs[r].collector \ {n} : b[m] = runs[r].collector[m]
  <2>1. runs[r].collector \in Collectors /\ 1 \in Nat
    BY <1>2 DEF RunRecords
  <2> HIDE DEF n
  <2>2. b \in Collectors /\ DOMAIN b = {n} \cup DOMAIN runs[r].collector
    BY <1>2, <2>1, NewNodeIsTracked
  <2>3. b[n].height = 1
    BY <1>2, <2>1, NewNodeHasHeight
  <2>4. ASSUME NEW m \in DOMAIN runs[r].collector \ {n} PROVE b[m] = runs[r].collector[m]
    BY <1>2, <2>1, OthersStay
  <2> HIDE DEF b
  <2>5. QED
    BY <2>2, <2>3, <2>4
<1> HIDE DEF b, n
<1>4. /\ c \in Collectors /\ DOMAIN c = DOMAIN b
      /\ \A m \in DOMAIN c : c[m].height = b[m].height
  BY <1>2, <1>3, AttemptIsRecorded
<1> HIDE DEF c
<1>5. /\ s \in RunRecords /\ s.step = "working" /\ s.status = runs[r].status
      /\ s.document = runs[r].document /\ s.leaf = runs[r].leaf /\ s.job = n
      /\ s.collector = c
  BY <1>1, <1>2, <1>4 DEF RunRecords
<1> HIDE DEF s
<1>6. /\ n \notin DOMAIN kept[runs[r].document] /\ n \notin DOMAIN runs[r].collector
      /\ n \in tracked + 1 .. tracked'
  <2>1. runs[r].document \in Reported
    BY <1>2 DEF RunRecords
  <2>2. QED
    BY <1>1, <1>2, <2>1 DEF LogInv, LogTyped, Collected, n
<1>7. Working(r, s)
  <2>1. runs[r].status = "in_progress"
    BY <1>1 DEF LogInv, Statuses
  <2>2. s.leaf \in DOMAIN s.collector
    BY <1>1, <1>3, <1>4, <1>5 DEF LogInv, Collected
  <2>3. DOMAIN s.collector \subseteq DOMAIN runs[r].collector \cup (tracked + 1 .. tracked')
    BY <1>3, <1>4, <1>5, <1>6
  <2>4. tracked' \in Nat /\ tracked <= tracked'
    BY <1>1, <1>2 DEF n
  <2>5. QED
    BY <1>1, <1>3, <1>4, <1>5, <2>1, <2>2, <2>3, <2>4 DEF Working, AppendSteps
<1>8. Keeping(r, s)
  <2>1. \A m \in DOMAIN kept[runs[r].document] \cap DOMAIN c :
          c[m].height = kept[runs[r].document][m]
    BY <1>3, <1>4, <1>6 DEF LogInv, Collected
  <2>2. QED
    BY <1>1, <1>5, <2>1 DEF Keeping, LogInv, LogTyped
<1>9. QED
  BY <1>5, <1>7, <1>8, WorkingLog

LEMMA EndsSummaryLog ==
  ASSUME LogInv, NEW r \in DOMAIN runs, EndsSummary(r)
  PROVE LogInv'
<1> DEFINE n == runs[r].job
           d == runs[r].document
           s == [runs[r] EXCEPT !.job = NoNode]
<1>1. /\ runs[r].step = "working" /\ n # NoNode /\ tracked' = tracked
      /\ kept' = kept \/ kept' = [kept EXCEPT ![d] = Adding(@, n, 1)]
      /\ runs' = [runs EXCEPT ![r] = s] /\ folder' = folder /\ overrun' = overrun
  BY DEF EndsSummary, AtStep
<1>2. tracked \in Nat /\ runs[r] \in RunRecords /\ d \in Reported /\ NoNode \in Nat
  BY RunAt DEF LogInv, LogTyped, RunRecords, NoNode
<1>3. /\ s \in RunRecords /\ s.step = "working" /\ s.status = runs[r].status
      /\ s.document = d /\ s.leaf = runs[r].leaf /\ s.job = NoNode
      /\ s.collector = runs[r].collector
  BY <1>1, <1>2 DEF RunRecords
<1> HIDE DEF s
<1>4. /\ n \in DOMAIN runs[r].collector /\ runs[r].collector[n].height = 1
      /\ runs[r].leaf \in DOMAIN runs[r].collector
      /\ \A m \in DOMAIN runs[r].collector \cap DOMAIN kept[d] :
           runs[r].collector[m].height = kept[d][m]
  BY <1>1 DEF LogInv, Collected
<1>5. Working(r, s)
  <2>1. runs[r].status = "in_progress"
    BY <1>1 DEF LogInv, Statuses
  <2>2. QED
    BY <1>1, <1>2, <1>3, <1>4, <2>1 DEF Working, AppendSteps
<1>6. Keeping(r, s)
  <2>1. CASE kept' = kept
    BY <1>3, <1>4, <2>1 DEF Keeping, LogInv, LogTyped
  <2>2. CASE kept' = [kept EXCEPT ![d] = Adding(@, n, 1)]
    <3>1. /\ kept' = [e \in Reported |-> kept'[e]]
          /\ DOMAIN kept'[d] = {n} \cup DOMAIN kept[d] /\ kept'[d][n] = 1
          /\ \A m \in DOMAIN kept[d] \ {n} : kept'[d][m] = kept[d][m]
          /\ \A e \in Reported \ {d} : kept'[e] = kept[e]
      BY <1>2, <2>2 DEF Adding, LogInv, LogTyped
    <3>2. QED
      BY <1>3, <1>4, <3>1 DEF Keeping
  <2>3. QED
    BY <1>1, <2>1, <2>2
<1>7. QED
  BY <1>3, <1>5, <1>6, WorkingLog

LEMMA FinalizedLog ==
  ASSUME LogInv, NEW r \in DOMAIN runs, NEW outcome \in {"completed", "failed"},
         runs' = Finalized(r, outcome), runs[r].step \in AppendSteps \cup {"working"},
         outcome = "failed" \/ runs[r].step = "working",
         kept' = kept, folder' = folder, tracked' = tracked, overrun' = overrun
  PROVE LogInv'
<1> DEFINE s == [runs[r] EXCEPT !.status = outcome, !.step = "ending"]
<1>1. runs' = [runs EXCEPT ![r] = s]
  BY DEF Finalized
<1>2. tracked \in Nat /\ runs[r] \in RunRecords /\ "ending" \in LogSteps
  BY RunAt DEF LogInv, LogTyped, LogSteps
<1>3. /\ s \in RunRecords /\ s.step = "ending" /\ s.status = outcome
      /\ s.document = runs[r].document /\ s.leaf = runs[r].leaf /\ s.job = runs[r].job
      /\ s.collector = runs[r].collector
  BY <1>2 DEF RunRecords
<1> HIDE DEF s
<1>4. Working(r, s)
  BY <1>1, <1>2, <1>3 DEF Working, AppendSteps, LogInv, Collected
<1>5. Keeping(r, s)
  <2>1. kept = [e \in Reported |-> kept[e]]
    BY DEF LogInv, LogTyped
  <2>2. \A m \in DOMAIN runs[r].collector \cap DOMAIN kept[runs[r].document] :
          runs[r].collector[m].height = kept[runs[r].document][m]
    BY DEF LogInv, Collected
  <2>3. QED
    BY <1>3, <2>1, <2>2 DEF Keeping
<1>6. QED
  BY <1>3, <1>4, <1>5, WorkingLog

-----------------------------------------------------------------------------
(* Truncations, clears and restarts *)

LEMMA CutNodesLog ==
  ASSUME LogInv, NEW d \in Reported, CutNodes(d)
  PROVE LogInv'
<1>1. /\ folder' = folder /\ tracked' = tracked /\ overrun' = overrun
      /\ runs' = Dropped(d)
      /\ \/ \E n \in DOMAIN kept[d] :
              kept' = [kept EXCEPT ![d] = Restrict(@, {m \in DOMAIN @ : m < n})]
         \/ kept' = [kept EXCEPT ![d] = <<>>]
  BY DEF CutNodes
<1>2. /\ kept = [e \in Reported |-> kept[e]]
      /\ \A e \in Reported : DOMAIN kept[e] \subseteq 1 .. tracked
  BY DEF LogInv, LogTyped
<1>3. /\ kept' = [e \in Reported |-> kept'[e]]
      /\ \A e \in Reported : /\ DOMAIN kept'[e] \subseteq DOMAIN kept[e]
                             /\ \A n \in DOMAIN kept'[e] : kept'[e][n] = kept[e][n]
  <2>1. CASE kept' = [kept EXCEPT ![d] = <<>>]
    BY <1>2, <2>1
  <2>2. ASSUME NEW n \in DOMAIN kept[d],
               kept' = [kept EXCEPT ![d] = Restrict(@, {m \in DOMAIN @ : m < n})]
        PROVE /\ kept' = [e \in Reported |-> kept'[e]]
              /\ \A e \in Reported : /\ DOMAIN kept'[e] \subseteq DOMAIN kept[e]
                                     /\ \A m \in DOMAIN kept'[e] : kept'[e][m] = kept[e][m]
    BY <1>2, <2>2 DEF Restrict
  <2>3. QED
    BY <1>1, <2>1, <2>2
<1>4. ASSUME NEW r \in DOMAIN runs
      PROVE /\ runs'[r] \in RunRecords /\ runs'[r].document = runs[r].document
            /\ runs'[r].collector = runs[r].collector /\ runs'[r].status = runs[r].status
            /\ runs'[r].leaf = runs[r].leaf /\ runs'[r].job = runs[r].job
            /\ \/ runs'[r] = runs[r]
               \/ runs[r].step = "working" /\ runs'[r].step = "lost"
  <2>1. runs[r] \in RunRecords /\ "lost" \in LogSteps
    BY RunAt DEF LogInv, LogSteps
  <2>2. CASE runs'[r] = runs[r]
    BY <2>1, <2>2
  <2>3. CASE runs[r].step = "working" /\ runs'[r] = [runs[r] EXCEPT !.step = "lost"]
    BY <2>1, <2>3 DEF RunRecords
  <2>4. QED
    BY <1>1, <2>2, <2>3 DEF Dropped
<1>5. DOMAIN runs' = DOMAIN runs /\ runs' \in Seq(RunRecords)
  <2>1. DOMAIN runs' = DOMAIN runs /\ runs' = [r \in DOMAIN runs |-> runs'[r]]
    BY <1>1 DEF Dropped
  <2>2. DOMAIN runs = 1 .. Len(runs) /\ Len(runs) \in Nat
    BY LenProperties DEF LogInv, LogTyped
  <2>3. QED
    BY <1>4, <2>1, <2>2, SeqDef
<1>6. LogTyped'
  BY <1>1, <1>2, <1>3, <1>5 DEF LogInv, LogTyped
<1>7. Collected'
  BY <1>1, <1>3, <1>4, <1>5, NodesStay DEF LogInv, SameNodes
<1>8. Statuses'
  BY <1>4, <1>5 DEF LogInv, Statuses, AppendSteps
<1>9. SameJournals
  <2>1. ASSUME NEW r \in DOMAIN runs
        PROVE /\ runs[r].step = "over" \/ runs'[r].step = "over" => runs'[r] = runs[r]
              /\ Succeeding(r)' => Succeeding(r)
              /\ runs'[r].step = "started" => runs[r].step = "started"
    BY <1>4 DEF Succeeding
  <2>2. QED
    BY <1>1, <1>4, <1>5, <2>1 DEF SameJournals
<1>10. QED
  BY <1>6, <1>7, <1>8, <1>9, JournalsStay DEF LogInv

LEMMA WipeJournalLog ==
  ASSUME LogInv, NEW d \in Reported, WipeJournal(d)
  PROVE LogInv'
<1> DEFINE x == Directory[d]
<1>1. /\ runs' = runs /\ kept' = kept /\ tracked' = tracked
      /\ folder' = [folder EXCEPT ![x] = EmptyFolder]
      /\ overrun' = overrun \cup {r \in WritersOf(x) : runs[r].step # "metadata"}
  BY DEF WipeJournal
<1>2. EmptyFolder \in Folders /\ EmptyFolder.meta = NoMetadata /\ EmptyFolder.torn = FALSE
      /\ DOMAIN EmptyFolder.lines = {}
  BY DEF EmptyFolder, Folders
<1>3. /\ folder' \in [Range(Directory) -> Folders]
      /\ x \in Range(Directory) => folder'[x] = EmptyFolder
      /\ \A y \in Range(Directory) \ {x} : folder'[y] = folder[y]
  BY <1>1, <1>2 DEF LogInv, LogTyped
<1> HIDE DEF x
<1>4. LogTyped'
  BY <1>1, <1>3 DEF LogInv, LogTyped
<1>5. Collected' /\ Statuses'
  BY <1>1 DEF LogInv, Collected, Statuses
<1>6. \A y : WritersOf(y)' = WritersOf(y)
  BY <1>1 DEF WritersOf, DirectoryOf
<1>7. ASSUME NEW y \in Range(Directory), y # x
      PROVE Journal(y)'
  <2>1. SameJournal(y)
    BY <1>1, <1>3, <1>6, <1>7 DEF SameJournal, Succeeding
  <2>2. QED
    BY <2>1, JournalStays DEF LogInv, Journals
<1>8. ASSUME x \in Range(Directory)
      PROVE Journal(x)'
  <2>1. \A r \in WritersOf(x)' \ overrun' : runs'[r].step = "metadata"
    BY <1>1, <1>6
  <2>2. folder'[x] = EmptyFolder
    BY <1>3, <1>8
  <2>3. MetadataKept(x)' /\ WorkTold(x)'
    BY <1>2, <2>1, <2>2 DEF MetadataKept, WorkTold, Succeeding
  <2>4. TornBetweenRuns(x)' /\ LinesTold(x)'
    BY <1>2, <2>2 DEF TornBetweenRuns, LinesTold
  <2>5. QED
    BY <2>3, <2>4 DEF Journal
<1>9. Journals'
  BY <1>7, <1>8 DEF Journals
<1>10. QED
  BY <1>4, <1>5, <1>9 DEF LogInv

LEMMA RestartServerLog ==
  ASSUME LogInv, RestartServer
  PROVE LogInv'
<1>1. /\ kept' = kept /\ tracked' = tracked /\ overrun' = overrun
      /\ runs' = [r \in DOMAIN runs |-> IF runs[r].step = "over" THEN runs[r]
                                        ELSE [runs[r] EXCEPT !.step = "lost", !.job = NoNode]]
      /\ \/ folder' = folder
         \/ \E r \in Writing :
              folder' = [folder EXCEPT ![DirectoryOf(r)].torn = TRUE,
                ![DirectoryOf(r)].lines =
                  IF folder[DirectoryOf(r)].torn THEN @ ELSE Append(@, Garbage)]
  BY DEF RestartServer
<1>2. ASSUME NEW r \in DOMAIN runs
      PROVE /\ runs'[r] \in RunRecords /\ runs'[r].document = runs[r].document
            /\ runs'[r].collector = runs[r].collector /\ runs'[r].status = runs[r].status
            /\ runs'[r].leaf = runs[r].leaf /\ runs'[r].job \in {runs[r].job, NoNode}
            /\ \/ runs[r].step = "over" /\ runs'[r] = runs[r]
               \/ runs[r].step # "over" /\ runs'[r].step = "lost"
  <2>1. runs[r] \in RunRecords /\ "lost" \in LogSteps /\ NoNode \in Nat
    BY RunAt DEF LogInv, LogSteps, NoNode
  <2>2. CASE runs[r].step = "over"
    BY <1>1, <2>1, <2>2
  <2>3. CASE runs[r].step # "over"
    <3>1. runs'[r] = [runs[r] EXCEPT !.step = "lost", !.job = NoNode]
      BY <1>1, <2>3
    <3>2. QED
      BY <2>1, <2>3, <3>1 DEF RunRecords
  <2>4. QED
    BY <2>2, <2>3
<1>3. DOMAIN runs' = DOMAIN runs /\ runs' \in Seq(RunRecords)
  <2>1. DOMAIN runs' = DOMAIN runs /\ runs' = [r \in DOMAIN runs |-> runs'[r]]
    BY <1>1
  <2>2. DOMAIN runs = 1 .. Len(runs) /\ Len(runs) \in Nat
    BY LenProperties DEF LogInv, LogTyped
  <2>3. QED
    BY <1>2, <2>1, <2>2, SeqDef
<1>4. Collected'
  <2>1. SameNodes
    BY <1>1, <1>2, <1>3 DEF LogInv, LogTyped, SameNodes
  <2>2. QED
    BY <2>1, NodesStay DEF LogInv
<1>5. Statuses'
  BY <1>2, <1>3 DEF LogInv, Statuses, AppendSteps
<1>6. \A y : WritersOf(y)' = WritersOf(y)
  BY <1>2, <1>3 DEF WritersOf, DirectoryOf
<1>7. ASSUME NEW r \in DOMAIN runs
      PROVE /\ runs[r].step = "over" \/ runs'[r].step = "over" => runs'[r] = runs[r]
            /\ Succeeding(r)' => Succeeding(r) /\ runs'[r].step = "over"
            /\ runs'[r].step # "started"
  BY <1>2 DEF Succeeding
<1>8. ASSUME NEW y \in Range(Directory), folder'[y] = folder[y]
      PROVE Journal(y)'
  <2>1. SameJournal(y)
    BY <1>1, <1>6, <1>7, <1>8 DEF SameJournal, WritersOf
  <2>2. QED
    BY <2>1, JournalStays DEF LogInv, Journals
<1>9. CASE folder' = folder
  BY <1>1, <1>3, <1>4, <1>5, <1>8, <1>9 DEF LogInv, LogTyped, Journals
<1>10. ASSUME NEW r \in Writing,
              folder' = [folder EXCEPT ![DirectoryOf(r)].torn = TRUE,
                ![DirectoryOf(r)].lines =
                  IF folder[DirectoryOf(r)].torn THEN @ ELSE Append(@, Garbage)]
       PROVE LogInv'
  <2> PICK x \in Range(Directory) : x = DirectoryOf(r)
    BY RunAt DEF LogInv, Writing
  <2> DEFINE old == folder[x]
             lines == IF old.torn THEN old.lines ELSE Append(old.lines, Garbage)
  <2>1. folder \in [Range(Directory) -> Folders] /\ old \in Folders
    BY DEF LogInv, LogTyped
  <2>2. /\ old.lines \in Seq(LineRecords) /\ lines \in Seq(LineRecords)
        /\ DOMAIN old.lines \subseteq DOMAIN lines
        /\ \A i \in DOMAIN lines : lines[i] = Garbage \/ i \in DOMAIN old.lines
        /\ \A i \in DOMAIN old.lines : lines[i] = old.lines[i]
    <3>1. Garbage \in LineRecords
      BY GarbageIsALine
    <3>2. old.lines \in Seq(LineRecords)
      BY <2>1 DEF Folders
    <3>3. QED
      BY <3>1, <3>2, LineIsAdded
  <2>3. /\ folder' \in [Range(Directory) -> Folders]
        /\ folder'[x].torn = TRUE /\ folder'[x].lines = lines /\ folder'[x].meta = old.meta
        /\ \A y \in Range(Directory) \ {x} : folder'[y] = folder[y]
    <3> HIDE DEF lines
    <3> DEFINE new == [old EXCEPT !.torn = TRUE, !.lines = lines]
    <3>1. folder' = [folder EXCEPT ![x] = new]
      BY <1>10, <2>1 DEF lines, Folders
    <3>2. new \in Folders /\ new.torn = TRUE /\ new.lines = lines /\ new.meta = old.meta
      BY <2>1, <2>2 DEF Folders
    <3> HIDE DEF new
    <3>3. QED
      BY <2>1, <3>1, <3>2
  <2> HIDE DEF lines, old
  <2>4. LogTyped'
    BY <1>1, <1>3, <2>3 DEF LogInv, LogTyped
  <2>5. Journal(x)'
    <3>1. MetadataKept(x) /\ LinesTold(x) /\ WorkTold(x)
      BY DEF LogInv, Journals, Journal
    <3> /\ WritersOf(x)' = WritersOf(x) /\ WritersOf(x) \subseteq DOMAIN runs
        /\ old = folder[x]
      BY <1>6 DEF WritersOf, old
    <3>2. MetadataKept(x)'
      BY <1>1, <1>7, <2>3, <3>1 DEF MetadataKept
    <3>3. TornBetweenRuns(x)'
      BY <1>3, <1>7 DEF TornBetweenRuns
    <3>4. LinesTold(x)'
      <4>1. \A q \in WritersOf(x) : q # Garbage.run
        BY RunAt DEF LogInv, WritersOf, Garbage, Line
      <4>2. SUFFICES ASSUME NEW i \in DOMAIN lines, NEW line, line = lines[i], line # Garbage
                     PROVE /\ line.run \in WritersOf(x)'
                           /\ line.event \in Ended =>
                                /\ runs'[line.run].step = "over" /\ line = LastLine(line.run)'
                                /\ \A j \in DOMAIN lines : lines[j].run = line.run => j <= i
        BY <2>3 DEF LinesTold
      <4>3. i \in DOMAIN old.lines /\ line = old.lines[i]
        BY <2>2, <4>2
      <4>4. /\ line.run \in WritersOf(x)
            /\ line.event \in Ended =>
                 /\ runs[line.run].step = "over" /\ line = LastLine(line.run)
                 /\ \A j \in DOMAIN old.lines : old.lines[j].run = line.run => j <= i
        BY <3>1, <4>2, <4>3 DEF LinesTold
      <4>5. line.run \in DOMAIN runs /\ line.run # Garbage.run
        BY <4>1, <4>4
      <4>6. line.event \in Ended =>
              runs'[line.run].step = "over" /\ LastLine(line.run)' = LastLine(line.run)
        BY <1>7, <4>4, <4>5 DEF LastLine
      <4>7. QED
        BY <2>2, <4>4, <4>5, <4>6
    <3>5. WorkTold(x)'
      <4>1. ASSUME NEW q \in WritersOf(x), q \notin overrun,
                   runs'[q].step = "over", runs'[q].status = "completed"
            PROVE \E i \in DOMAIN lines : lines[i] = LastLine(q)'
        <5>1. LastLine(q)' = LastLine(q) /\ runs[q].step = "over" /\ runs[q].status = "completed"
          BY <1>7, <4>1 DEF LastLine
        <5>2. PICK i \in DOMAIN old.lines : old.lines[i] = LastLine(q)
          BY <3>1, <4>1, <5>1 DEF WorkTold
        <5>3. QED
          BY <2>2, <5>1, <5>2
      <4>2. QED
        BY <1>1, <2>3, <4>1 DEF WorkTold
    <3>6. QED
      BY <3>2, <3>3, <3>4, <3>5 DEF Journal
  <2>6. QED
    BY <1>4, <1>5, <1>8, <2>3, <2>4, <2>5 DEF LogInv, Journals
<1>11. QED
  BY <1>1, <1>9, <1>10

-----------------------------------------------------------------------------
(* Metadata and lines *)

\* A run advances: what it is found to be, and that no other journal sees it.
LEMMA AdvanceLog ==
  ASSUME LogInv, NEW r \in DOMAIN runs, NEW step \in LogSteps, Advance(r, step),
         kept' = kept, tracked' = tracked, folder' \in [Range(Directory) -> Folders],
         step \in {"committed", "working"} => runs[r].step \in {"committed", "working"},
         step \in AppendSteps \cup {"working"} => runs[r].status = "in_progress",
         step \in {"ending", "over"} => runs[r].status # "in_progress",
         overrun \subseteq overrun',
         \A y \in Range(Directory) \ {DirectoryOf(r)} : folder'[y] = folder[y],
         Journal(DirectoryOf(r))'
  PROVE LogInv'
<1>1. /\ runs' \in Seq(RunRecords) /\ DOMAIN runs' = DOMAIN runs
      /\ runs'[r].step = step /\ runs'[r].status = runs[r].status
      /\ runs'[r].document = runs[r].document /\ runs'[r].collector = runs[r].collector
      /\ runs'[r].leaf = runs[r].leaf /\ runs'[r].job = runs[r].job
      /\ \A q \in DOMAIN runs \ {r} : runs'[q] = runs[q]
  BY RunAdvances DEF LogInv
<1>2. LogTyped'
  BY <1>1 DEF LogInv, LogTyped
<1>3. Collected'
  <2>1. SameNodes
    BY <1>1 DEF LogInv, LogTyped, SameNodes
  <2>2. QED
    BY <2>1, NodesStay DEF LogInv
<1>4. Statuses'
  BY <1>1 DEF LogInv, Statuses
<1>5. DirectoryOf(r)' = DirectoryOf(r)
  BY <1>1 DEF DirectoryOf
<1>6. ASSUME NEW y \in Range(Directory), y # DirectoryOf(r)
      PROVE Journal(y)'
  <2>1. WritersOf(y)' = WritersOf(y) /\ WritersOf(y) \subseteq DOMAIN runs \ {r}
    BY <1>1, <1>6 DEF WritersOf, DirectoryOf
  <2>2. SameJournal(y)
    BY <1>1, <1>6, <2>1 DEF SameJournal, Succeeding
  <2>3. QED
    BY <2>2, JournalStays DEF LogInv, Journals
<1>7. Journals'
  BY <1>5, <1>6 DEF Journals
<1>8. QED
  BY <1>2, <1>3, <1>4, <1>7 DEF LogInv

LEMMA EnsureMetadataLog ==
  ASSUME LogInv, NEW r \in DOMAIN runs, ensure_metadata(r)
  PROVE LogInv'
<1> PICK x \in Range(Directory) : x = DirectoryOf(r)
  BY RunAt DEF LogInv
<1> PICK d \in Reported : d = runs[r].document /\ Directory[d] = x
  BY RunAt DEF LogInv, RunRecords, DirectoryOf
<1> PICK old : old = folder[x]
  OBVIOUS
<1> DEFINE base == IF runs[r].replace THEN EmptyFolder ELSE old
           new == [base EXCEPT !.meta = d]
<1>1. /\ runs[r].step = "metadata" /\ Advance(r, "started") /\ kept' = kept /\ tracked' = tracked
      /\ folder' = [folder EXCEPT ![x] = base, ![x].meta = d]
      /\ overrun' = IF runs[r].replace
                    THEN overrun \cup {q \in WritersOf(x) : runs[q].step # "metadata"}
                    ELSE overrun
  BY DEF ensure_metadata, AtStep
<1>2. /\ folder \in [Range(Directory) -> Folders] /\ old \in Folders
      /\ EmptyFolder \in Folders /\ EmptyFolder.torn = FALSE /\ EmptyFolder.lines = <<>>
  BY DEF LogInv, LogTyped, EmptyFolder, Folders
<1>3. base \in Folders
  BY <1>2
<1> HIDE DEF base
<1>4. new \in Folders /\ new.meta = d /\ new.lines = base.lines /\ new.torn = base.torn
  BY <1>3 DEF Folders
<1>5. folder' = [folder EXCEPT ![x] = new]
  BY <1>1, <1>2
<1> HIDE DEF new
<1>6. /\ folder' \in [Range(Directory) -> Folders]
      /\ folder'[x] = new /\ \A y \in Range(Directory) \ {x} : folder'[y] = folder[y]
  BY <1>2, <1>4, <1>5
<1>7. /\ DOMAIN runs' = DOMAIN runs /\ runs'[r].step = "started"
      /\ runs'[r].document = runs[r].document
      /\ \A q \in DOMAIN runs \ {r} : runs'[q] = runs[q]
  BY <1>1, RunAdvances DEF LogInv, LogSteps, AppendSteps
<1>8. /\ WritersOf(x)' = WritersOf(x) /\ r \in WritersOf(x) /\ WritersOf(x) \subseteq DOMAIN runs
  BY <1>7 DEF WritersOf, DirectoryOf
<1>9. d # NoMetadata
  BY LogConstants DEF LogConstants
<1>10. MetadataKept(x)'
  BY <1>4, <1>6, <1>9 DEF MetadataKept
<1>11. ASSUME runs[r].replace PROVE Journal(x)'
  <2>1. \A q \in WritersOf(x) \ overrun' : runs[q].step = "metadata"
    BY <1>1, <1>11
  <2>2. new.torn = FALSE /\ DOMAIN new.lines = {}
    BY <1>2, <1>4, <1>11 DEF base
  <2>3. TornBetweenRuns(x)' /\ LinesTold(x)'
    BY <1>6, <2>2 DEF TornBetweenRuns, LinesTold
  <2>4. WorkTold(x)'
    BY <1>7, <1>8, <2>1 DEF WorkTold
  <2>5. QED
    BY <1>10, <2>3, <2>4 DEF Journal
<1>12. ASSUME ~runs[r].replace PROVE Journal(x)'
  <2>1. /\ folder'[x].lines = folder[x].lines /\ folder'[x].torn = folder[x].torn
        /\ overrun' = overrun
    BY <1>1, <1>4, <1>6, <1>12 DEF base
  <2>2. TornBetweenRuns(x) /\ LinesTold(x) /\ WorkTold(x)
    BY DEF LogInv, Journals, Journal
  <2>3. /\ \A q \in DOMAIN runs : Succeeding(q)' => Succeeding(q) /\ q # r
        /\ \A q \in DOMAIN runs : runs[q].step = "over" => q # r
        /\ \A q \in DOMAIN runs : q # r => LastLine(q)' = LastLine(q)
    BY <1>1, <1>7 DEF Succeeding, LastLine
  <2>4. TornBetweenRuns(x)'
    BY <1>7, <1>8, <2>1, <2>2, <2>3 DEF TornBetweenRuns
  <2>5. LinesTold(x)'
    BY <1>7, <1>8, <2>1, <2>2, <2>3 DEF LinesTold
  <2>6. WorkTold(x)'
    BY <1>7, <1>8, <2>1, <2>2, <2>3 DEF WorkTold
  <2>7. QED
    BY <1>10, <2>4, <2>5, <2>6 DEF Journal
<1>13. runs[r].status = "in_progress"
  BY <1>1 DEF LogInv, Statuses, AppendSteps
<1>14. Journal(x)' /\ overrun \subseteq overrun'
  BY <1>1, <1>11, <1>12
<1>15. Journal(DirectoryOf(r))'
  <2>1. DirectoryOf(r)' = x
    BY <1>7 DEF DirectoryOf
  <2>2. QED
    BY <1>14, <2>1
<1>16. QED
  BY <1>1, <1>6, <1>13, <1>14, <1>15, AdvanceLog DEF LogSteps, AppendSteps

(***************************************************************************)
(* A line is written, or lost to half a line before it: that happens to a  *)
(* run that failed, and to the first line of any.                          *)
(***************************************************************************)
LEMMA LineWrittenLog ==
  ASSUME LogInv, NEW r \in DOMAIN runs, NEW step \in {"commit", "working", "over"},
         NEW entry \in LineRecords, entry.run = r, entry # Garbage,
         append_event(DirectoryOf(r), entry), Advance(r, step),
         kept' = kept, tracked' = tracked, overrun' = overrun,
         step = "commit" => runs[r].step = "started",
         step = "working" => runs[r].step = "committed",
         step = "over" => runs[r].step = "ending" /\ entry = LastLine(r),
         entry.event \in Ended => step = "over"
  PROVE LogInv'
<1> PICK x \in Range(Directory) : x = DirectoryOf(r)
  BY RunAt DEF LogInv
<1> PICK old : old = folder[x]
  OBVIOUS
<1>0. PICK lines : lines = IF old.torn THEN old.lines ELSE Append(old.lines, entry)
  OBVIOUS
<1>1. /\ MetadataKept(x) /\ TornBetweenRuns(x) /\ LinesTold(x) /\ WorkTold(x)
      /\ folder \in [Range(Directory) -> Folders] /\ old \in Folders
  BY DEF LogInv, LogTyped, Journals, Journal
<1>2. old.lines \in Seq(LineRecords) /\ old.torn \in BOOLEAN
  BY <1>1 DEF Folders
<1>3. /\ lines \in Seq(LineRecords) /\ DOMAIN old.lines \subseteq DOMAIN lines
      /\ \A i \in DOMAIN old.lines : lines[i] = old.lines[i]
      /\ DOMAIN lines \subseteq Int
      /\ \A i \in DOMAIN lines : i \in DOMAIN old.lines \/ lines[i] = entry
      /\ \A i \in DOMAIN lines \ DOMAIN old.lines : \A j \in DOMAIN lines : j <= i
      /\ ~old.torn => \E i \in DOMAIN lines : lines[i] = entry
  <2>1. CASE old.torn
    BY <1>0, <1>2, <2>1, LenProperties
  <2>2. CASE ~old.torn
    <3>1. lines = Append(old.lines, entry)
      BY <1>0, <2>2
    <3>2. /\ lines \in Seq(LineRecords) /\ DOMAIN old.lines = 1 .. Len(old.lines)
          /\ Len(old.lines) \in Nat /\ DOMAIN lines = 1 .. Len(old.lines) + 1
          /\ lines[Len(old.lines) + 1] = entry
      BY <1>2, <3>1, LineIsAdded
    <3>3. \A i \in DOMAIN old.lines : lines[i] = old.lines[i]
      BY <1>2, <3>1, LineIsAdded
    <3>4. QED
      BY <3>2, <3>3
  <2>3. QED
    BY <2>1, <2>2, Zenon
<1>4. /\ folder' \in [Range(Directory) -> Folders]
      /\ folder'[x].torn = FALSE /\ folder'[x].lines = lines /\ folder'[x].meta = old.meta
      /\ \A y \in Range(Directory) \ {x} : folder'[y] = folder[y]
  <2> DEFINE new == [old EXCEPT !.torn = FALSE, !.lines = lines]
  <2>1. folder' = [folder EXCEPT ![x] = new]
    <3>1. CASE old.torn
      <4>1. folder' = [folder EXCEPT ![x].torn = FALSE]
        BY <3>1 DEF append_event
      <4>2. new = [old EXCEPT !.torn = FALSE]
        BY <1>0, <1>1, <3>1 DEF Folders
      <4>3. QED
        BY <1>1, <4>1, <4>2
    <3>2. CASE ~old.torn
      <4>1. folder' = [folder EXCEPT ![x].lines = Append(@, entry)]
        BY <3>2 DEF append_event
      <4>2. new = [old EXCEPT !.lines = Append(@, entry)]
        BY <1>0, <1>1, <1>2, <3>2 DEF Folders
      <4>3. QED
        BY <1>1, <4>1, <4>2
    <3>3. QED
      BY <1>2, <3>1, <3>2
  <2>2. new \in Folders /\ new.torn = FALSE /\ new.lines = lines /\ new.meta = old.meta
    BY <1>1, <1>3 DEF Folders
  <2> HIDE DEF new
  <2>3. QED
    BY <1>1, <2>1, <2>2
<1>5. /\ DOMAIN runs' = DOMAIN runs /\ runs'[r].step = step
      /\ runs'[r].document = runs[r].document /\ runs'[r].status = runs[r].status
      /\ runs'[r].collector = runs[r].collector
      /\ \A q \in DOMAIN runs \ {r} : runs'[q] = runs[q]
  <2>1. step \in LogSteps
    BY DEF LogSteps, AppendSteps
  <2>2. QED
    BY <2>1, RunAdvances DEF LogInv
<1>6. /\ WritersOf(x)' = WritersOf(x) /\ r \in WritersOf(x) /\ WritersOf(x) \subseteq DOMAIN runs
  BY <1>5 DEF WritersOf, DirectoryOf
<1>7. /\ runs[r].step \in {"started", "committed", "ending"}
      /\ runs[r].step \in {"started", "committed"} => runs[r].status = "in_progress"
      /\ runs[r].step = "ending" => runs[r].status # "in_progress"
  BY DEF LogInv, Statuses, AppendSteps
<1>8. \A q \in DOMAIN runs :
        /\ LastLine(q)' = LastLine(q)
        /\ runs[q].step = "over" => q # r /\ runs'[q] = runs[q]
        /\ q # r => (Succeeding(q)' <=> Succeeding(q))
        /\ Succeeding(q)' => Succeeding(q) \/ runs[q].step = "started"
  BY <1>5, <1>7 DEF LastLine, Succeeding
<1>9. MetadataKept(x)'
  BY <1>1, <1>4, <1>5, <1>6, <1>8 DEF MetadataKept
<1>10. TornBetweenRuns(x)'
  BY <1>4 DEF TornBetweenRuns
<1>11. LinesTold(x)'
  <2>1. SUFFICES ASSUME NEW i \in DOMAIN lines, NEW line, line = lines[i], line # Garbage
                 PROVE /\ line.run \in WritersOf(x)'
                       /\ line.event \in Ended =>
                            /\ runs'[line.run].step = "over" /\ line = LastLine(line.run)'
                            /\ \A j \in DOMAIN lines : lines[j].run = line.run => j <= i
    <3>1. folder'[x].lines = lines
      BY <1>4
    <3>2. QED
      BY <3>1 DEF LinesTold
  <2>2. CASE i \in DOMAIN old.lines
    <3>1. /\ line.run \in WritersOf(x)
          /\ line.event \in Ended =>
               /\ runs[line.run].step = "over" /\ line = LastLine(line.run)
               /\ \A j \in DOMAIN old.lines : old.lines[j].run = line.run => j <= i
      BY <1>1, <1>3, <2>1, <2>2 DEF LinesTold
    <3>2. QED
      BY <1>3, <1>6, <1>8, <3>1
  <2>3. CASE i \notin DOMAIN old.lines
    <3>1. line = entry
      BY <1>3, <2>1, <2>3
    <3>2. QED
      BY <1>3, <1>5, <1>6, <1>8, <2>3, <3>1
  <2>4. QED
    BY <2>2, <2>3
<1>12. WorkTold(x)'
  <2>1. SUFFICES ASSUME NEW q \in WritersOf(x), q \notin overrun,
                        runs'[q].step = "over", runs'[q].status = "completed"
                 PROVE \E i \in DOMAIN lines : lines[i] = LastLine(q)'
    BY <1>4, <1>6 DEF WorkTold
  <2>2. CASE q = r
    <3>1. entry = LastLine(q)' /\ Succeeding(q) /\ runs[q].step # "over"
      BY <1>5, <1>6, <1>8, <2>1, <2>2 DEF Succeeding
    <3>2. ~old.torn
      BY <1>1, <3>1 DEF TornBetweenRuns
    <3>3. QED
      BY <1>3, <3>1, <3>2
  <2>3. CASE q # r
    <3>1. PICK i \in DOMAIN old.lines : old.lines[i] = LastLine(q)
      BY <1>1, <1>5, <1>6, <2>1, <2>3 DEF WorkTold
    <3>2. QED
      BY <1>3, <1>6, <1>8, <3>1
  <2>4. QED
    BY <2>2, <2>3
<1>13. Journal(DirectoryOf(r))'
  <2>1. DirectoryOf(r)' = x
    BY <1>5 DEF DirectoryOf
  <2>2. Journal(x)'
    BY <1>9, <1>10, <1>11, <1>12 DEF Journal
  <2>3. QED
    BY <2>1, <2>2
<1>14. QED
  BY <1>4, <1>7, <1>13, AdvanceLog DEF LogSteps, AppendSteps

LEMMA LogStartedLog ==
  ASSUME LogInv, NEW r \in DOMAIN runs, LogStarted(r)
  PROVE LogInv'
<1> DEFINE line == Line("append_started", r, <<>>)
<1>1. line \in LineRecords /\ line.run = r /\ line.event = "append_started" /\ line # Garbage
  BY RunAt, EmptyCollector DEF Line, LineRecords, Garbage, LogInv
<1> HIDE DEF line
<1>2. QED
  BY <1>1, LineWrittenLog DEF LogStarted, AtStep, Ended, line

LEMMA RecordNodeLog ==
  ASSUME LogInv, NEW r \in DOMAIN runs, record_node_committed(r)
  PROVE LogInv'
<1> DEFINE line == Line("node_committed", r, [n \in {runs[r].leaf} |-> 0])
<1>1. line \in LineRecords /\ line.run = r /\ line.event = "node_committed" /\ line # Garbage
  <2>1. runs[r].leaf \in Nat /\ r \in Nat
    BY RunAt DEF LogInv, RunRecords
  <2>2. [n \in {runs[r].leaf} |-> 0] \in UNION {[S -> {0}] : S \in SUBSET Nat}
    <3>1. /\ {runs[r].leaf} \in SUBSET Nat
          /\ [n \in {runs[r].leaf} |-> 0] \in [{runs[r].leaf} -> {0}]
      BY <2>1
    <3>2. QED
      BY <3>1, Zenon
  <2>3. QED
    BY <2>1, <2>2 DEF Line, LineRecords, Garbage
<1> HIDE DEF line
<1>2. QED
  BY <1>1, LineWrittenLog DEF record_node_committed, AtStep, Ended, line

LEMMA LogEndLog ==
  ASSUME LogInv, NEW r \in DOMAIN runs, LogEnd(r)
  PROVE LogInv'
<1> DEFINE line == LastLine(r)
<1>1. line \in LineRecords /\ line.run = r /\ line.event \in Ended /\ line # Garbage
  <2>1. runs[r].collector \in Collectors /\ <<>> \in Collectors /\ r \in Nat
    BY RunAt, EmptyCollector DEF LogInv, RunRecords
  <2>2. QED
    BY <2>1 DEF LastLine, Line, LineRecords, Garbage, Ended
<1>2. append_event(DirectoryOf(r), line) /\ runs[r].step = "ending" /\ Advance(r, "over")
      /\ kept' = kept /\ tracked' = tracked /\ overrun' = overrun
  BY DEF LogEnd, AtStep, LastLine
<1> HIDE DEF line
<1>3. QED
  BY <1>1, <1>2, LineWrittenLog DEF line

-----------------------------------------------------------------------------
(* What is shown *)

\* What is collected and what is written of runs is true of them, in every
\* reachable state of LogSpec.
THEOREM JournalsAreTrue ==
  LogSpec => []LogInv
<1>1. LogInit => LogInv
  BY InitLog
<1>2. LogInv /\ [LogNext]_logVars => LogInv'
  <2> SUFFICES ASSUME LogInv, [LogNext]_logVars
               PROVE LogInv'
    OBVIOUS
  <2>1. ASSUME NEW d \in Reported, NEW replace \in BOOLEAN, StartRun(d, replace) PROVE LogInv'
    BY <2>1, StartRunLog
  <2>2. ASSUME NEW d \in Reported, CutNodes(d) PROVE LogInv'
    BY <2>2, CutNodesLog
  <2>3. ASSUME NEW d \in Reported, WipeJournal(d) PROVE LogInv'
    BY <2>3, WipeJournalLog
  <2>4. ASSUME NEW r \in DOMAIN runs, ensure_metadata(r) PROVE LogInv'
    BY <2>4, EnsureMetadataLog
  <2>5. ASSUME NEW r \in DOMAIN runs, LogStarted(r) PROVE LogInv'
    BY <2>5, LogStartedLog
  <2>6. ASSUME NEW r \in DOMAIN runs, AppendLeaf(r) PROVE LogInv'
    BY <2>6, AppendLeafLog
  <2>7. ASSUME NEW r \in DOMAIN runs, record_node_committed(r) PROVE LogInv'
    BY <2>7, RecordNodeLog
  <2>8. ASSUME NEW r \in DOMAIN runs, EmbedsLeaf(r) PROVE LogInv'
    BY <2>8, EmbedsLeafLog
  <2>9. ASSUME NEW r \in DOMAIN runs, StartsSummary(r) PROVE LogInv'
    BY <2>9, StartsSummaryLog
  <2>10. ASSUME NEW r \in DOMAIN runs, EndsSummary(r) PROVE LogInv'
    BY <2>10, EndsSummaryLog
  <2>11. ASSUME NEW r \in DOMAIN runs, CompleteRun(r) PROVE LogInv'
    BY <2>11, FinalizedLog DEF CompleteRun, AtStep
  <2>12. ASSUME NEW r \in DOMAIN runs, FailRun(r) PROVE LogInv'
    BY <2>12, FinalizedLog DEF FailRun
  <2>13. ASSUME NEW r \in DOMAIN runs, LogEnd(r) PROVE LogInv'
    BY <2>13, LogEndLog
  <2>14. CASE RestartServer
    BY <2>14, RestartServerLog
  <2>15. CASE UNCHANGED logVars
    BY <2>15, StutterLog
  <2>16. QED
    BY <2>1, <2>2, <2>3, <2>4, <2>5, <2>6, <2>7, <2>8, <2>9, <2>10, <2>11, <2>12, <2>13, <2>14,
       <2>15 DEF LogNext
<1>3. QED
  BY <1>1, <1>2, PTL DEF LogSpec

\* The lines of a journal that tell of a node's work are one line.
LEMMA TellingIsUnique ==
  ASSUME LogInv, NEW x \in Range(Directory), NEW n,
         NEW i \in replay_events(x), NEW j \in replay_events(x),
         folder[x].lines[i].event = "append_completed", n \in DOMAIN folder[x].lines[i].nodes,
         folder[x].lines[j].event = "append_completed", n \in DOMAIN folder[x].lines[j].nodes
  PROVE i = j
<1> DEFINE q == folder[x].lines[i].run
           p == folder[x].lines[j].run
<1>1. LinesTold(x)
  BY DEF LogInv, Journals, Journal
<1>2. /\ i \in DOMAIN folder[x].lines /\ folder[x].lines[i] # Garbage
      /\ j \in DOMAIN folder[x].lines /\ folder[x].lines[j] # Garbage
  BY DEF replay_events
<1>3. /\ q \in DOMAIN runs /\ folder[x].lines[i] = LastLine(q)
      /\ p \in DOMAIN runs /\ folder[x].lines[j] = LastLine(p)
      /\ q = p => i <= j /\ j <= i
  BY <1>1, <1>2 DEF LinesTold, Ended, WritersOf
<1>4. n \in DOMAIN runs[q].collector /\ n \in DOMAIN runs[p].collector
  BY <1>3 DEF LastLine, Line
<1>5. q = p
  BY <1>3, <1>4 DEF LogInv, Collected
<1>6. folder[x].lines \in Seq(LineRecords)
  BY DEF LogInv, LogTyped, Folders
<1>7. i \in Int /\ j \in Int
  BY <1>2, <1>6, LenProperties
<1>8. QED
  BY <1>3, <1>5, <1>7

\* What is shown of a node has its height, and is the work that a line tells of.
LEMMA ShownIsTold ==
  ASSUME LogInv, NEW x \in Range(Directory), NEW n, NEW height
  PROVE /\ ShownNode(x, n, height).height = height
        /\ \A i \in replay_events(x) :
             /\ folder[x].lines[i].event = "append_completed"
             /\ n \in DOMAIN folder[x].lines[i].nodes
             => ShownNode(x, n, height) = [folder[x].lines[i].nodes[n] EXCEPT !.height = height]
<1> DEFINE telling == {i \in replay_events(x) : /\ folder[x].lines[i].event = "append_completed"
                                                /\ n \in DOMAIN folder[x].lines[i].nodes}
           last == CHOOSE i \in telling : \A j \in telling : j <= i
<1>1. CASE telling = {}
  BY <1>1 DEF ShownNode
<1>2. ASSUME NEW i \in telling
      PROVE /\ ShownNode(x, n, height) = [folder[x].lines[i].nodes[n] EXCEPT !.height = height]
            /\ folder[x].lines[i].nodes[n] \in NodeRecords
  <2>1. telling = {i}
    BY TellingIsUnique
  <2>2. i \in DOMAIN folder[x].lines /\ folder[x].lines \in Seq(LineRecords)
    BY DEF replay_events, LogInv, LogTyped, Folders
  <2>3. i \in Int
    BY <2>2, LenProperties
  <2>4. last = i
    BY <2>1, <2>3
  <2>5. ShownNode(x, n, height) = [folder[x].lines[last].nodes[n] EXCEPT !.height = height]
    BY DEF ShownNode
  <2>6. folder[x].lines[i].nodes[n] \in NodeRecords
    <3>1. folder[x].lines[i] # Garbage /\ LinesTold(x)
      BY DEF replay_events, LogInv, Journals, Journal
    <3>2. PICK q \in DOMAIN runs : folder[x].lines[i] = LastLine(q)
      BY <2>2, <3>1 DEF LinesTold, Ended, WritersOf
    <3>3. folder[x].lines[i].nodes = runs[q].collector
      BY <3>2 DEF LastLine, Line
    <3>4. runs[q].collector \in Collectors
      BY RunAt DEF LogInv, RunRecords
    <3>5. QED
      BY <3>3, <3>4 DEF Collectors
  <2>7. QED
    BY <2>4, <2>5, <2>6
<1> HIDE DEF last
<1>3. ASSUME NEW i \in telling
      PROVE ShownNode(x, n, height).height = height
  BY <1>2 DEF NodeRecords
<1>4. QED
  BY <1>1, <1>2, <1>3

LEMMA LogInvShows ==
  ASSUME LogInv
  PROVE ExportShowsTheWork
<1> SUFFICES ASSUME NEW r \in DOMAIN runs, r \notin overrun, runs[r].step = "over",
                    runs[r].status = "completed"
             PROVE LET d == runs[r].document
                       told == GetTelemetry(r)
                       shown == ExportTelemetry(d)
                   IN /\ Exportable(Directory[d])
                      /\ \A n \in DOMAIN told.nodes \cap DOMAIN kept[d] :
                           shown.nodes[n] = told.nodes[n]
                      /\ {e \in shown.history : e[1] = r} = {<<r, "append_completed">>}
                      /\ TelemetryFindings(d, shown) \subseteq
                           {f \in {"document_mismatch"} :
                              \E e \in Reported \ {d} : Directory[e] = Directory[d]}
  BY DEF ExportShowsTheWork
<1> PICK d \in Reported : d = runs[r].document
  BY RunAt DEF LogInv, RunRecords
<1> PICK x \in Range(Directory) : x = Directory[d] /\ x = DirectoryOf(r)
  BY RunAt DEF LogInv, DirectoryOf
<1> DEFINE lines == folder[x].lines
           c == runs[r].collector
<1>1. /\ LinesTold(x) /\ WorkTold(x) /\ MetadataKept(x)
      /\ folder[x] \in Folders /\ r \in WritersOf(x) /\ c \in Collectors
  BY RunAt DEF LogInv, LogTyped, Journals, Journal, RunRecords
<1>2. PICK k \in DOMAIN lines : lines[k] = LastLine(r)
  BY <1>1 DEF WorkTold
<1>3. /\ LastLine(r).event = "append_completed" /\ LastLine(r).run = r
      /\ LastLine(r).nodes = c /\ LastLine(r) # Garbage
  BY DEF LastLine, Line, Garbage
<1>4. k \in replay_events(x)
  BY <1>2, <1>3 DEF replay_events
<1>5. folder[x].meta # NoMetadata /\ Directory[folder[x].meta] = x /\ folder[x].meta \in Reported
  BY <1>1 DEF MetadataKept, Succeeding, Folders
<1>6. Exportable(x)
  BY <1>2, <1>3, <1>4, <1>5 DEF Exportable
<1>7. ASSUME NEW n \in DOMAIN kept[d]
      PROVE /\ ShownNode(x, n, kept[d][n]).height = kept[d][n]
            /\ n \in DOMAIN c => ShownNode(x, n, kept[d][n]) = c[n]
  <2>1. CASE n \in DOMAIN c
    <3>1. c[n] \in NodeRecords /\ c[n].height = kept[d][n]
      BY <1>1, <2>1 DEF LogInv, Collected, Collectors
    <3>2. ShownNode(x, n, kept[d][n]) = [c[n] EXCEPT !.height = kept[d][n]]
      BY <1>2, <1>3, <1>4, <2>1, ShownIsTold
    <3>3. QED
      BY <2>1, <3>1, <3>2 DEF NodeRecords
  <2>2. CASE n \notin DOMAIN c
    BY <2>2, ShownIsTold
  <2>3. QED
    BY <2>1, <2>2
<1>8. GetTelemetry(r).nodes = c
  BY DEF GetTelemetry
<1>9. /\ ExportTelemetry(d).document = folder[x].meta
      /\ ExportTelemetry(d).nodes = [n \in DOMAIN kept[d] |-> ShownNode(x, n, kept[d][n])]
      /\ ExportTelemetry(d).history = History(x)
  BY DEF ExportTelemetry
<1>10. {e \in History(x) : e[1] = r} = {<<r, "append_completed">>}
  <2> DEFINE ends == {i \in replay_events(x) : lines[i].event \in {"append_started"} \cup Ended}
             final == {i \in ends : /\ lines[i].event \in Ended
                                    /\ \A j \in ends : lines[j].run = lines[i].run => j <= i}
  <2>1. History(x) = {<<lines[i].run, lines[i].event>> : i \in final}
    BY DEF History
  <2>2. \A j \in DOMAIN lines : lines[j].run = r => j <= k
    BY <1>1, <1>2, <1>3 DEF LinesTold, Ended
  <2>3. k \in final
    BY <1>2, <1>3, <1>4, <2>2 DEF replay_events, Ended
  <2>4. ASSUME NEW i \in final, lines[i].run = r
        PROVE i = k
    <3>1. k <= i /\ i <= k
      BY <1>2, <1>3, <2>2, <2>3, <2>4 DEF replay_events
    <3>2. i \in Int /\ k \in Int
      BY <1>1, <2>4, <1>2, LenProperties DEF Folders, replay_events
    <3>3. QED
      BY <3>1, <3>2
  <2> HIDE DEF final
  <2>5. QED
    BY <1>2, <1>3, <2>1, <2>3, <2>4
<1>11. TelemetryFindings(d, ExportTelemetry(d)) \subseteq
         {f \in {"document_mismatch"} : \E e \in Reported \ {d} : Directory[e] = x}
  <2>1. DOMAIN ExportTelemetry(d).nodes = DOMAIN kept[d]
    BY <1>9
  <2>2. \A n \in DOMAIN kept[d] : ExportTelemetry(d).nodes[n].height = kept[d][n]
    BY <1>7, <1>9
  <2>3. TelemetryFindings(d, ExportTelemetry(d)) =
          IF folder[x].meta # d THEN {"document_mismatch"} ELSE {}
    BY <1>9, <2>1, <2>2 DEF TelemetryFindings
  <2>4. QED
    BY <1>5, <2>3
<1>12. QED
  BY <1>6, <1>7, <1>8, <1>9, <1>10, <1>11

\* Once its last line is written, the work of a run is in every export, with the
\* work on each stored node, whatever fails or is lost later, until somebody
\* clears or replaces a document of that directory (export_telemetry).
THEOREM ExportsShowTheWork ==
  LogSpec => []ExportShowsTheWork
BY JournalsAreTrue, LogInvShows, PTL
==============================================================================
