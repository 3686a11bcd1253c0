------------------------ MODULE IndexingEngineProofs ------------------------
(***************************************************************************)
(* What the runs of the engine check on a few leaves, proved for any       *)
(* number of documents, clients, slots, leaves, operations and faults.     *)
(*                                                                         *)
(* A finder looks at the free work in one locked section and claims it in  *)
(* another.  What holds in between rests on the order of the lock's queue: *)
(* a job that ends, or a client that truncates, while a finder is about to *)
(* claim has joined the queue behind it.  So the invariant speaks of who   *)
(* stands before whom (Ahead), and EngineInv is the inductive one.         *)
(***************************************************************************)
EXTENDS IndexingEngine, CoordinateForestProofs

\* What truncate and append promise each other: the operations of one document
\* take turns.
ClientsTakeTurns == TakeTurns = TRUE

-----------------------------------------------------------------------------
(* The queue of the lock *)

Waiting(q, x) == \E i \in DOMAIN q : q[i] = x

\* x will hold the lock before y does.
Ahead(q, x, y) == \E i \in DOMAIN q : q[i] = x /\ \A k \in 1 .. i : q[k] # y

Once(q, x) == \A i, k \in DOMAIN q : q[i] = x /\ q[k] = x => i = k

-----------------------------------------------------------------------------
(* The invariant *)

Workers == Finders \cup {SCHED}
Tasks == ({"job"} \X Job) \cup ({"finder"} \X Workers) \cup ({"client"} \X Clients)

Scans == [pc : {"begin", "scan", "claim", "sleep"}, doc : Docs,
          found : SUBSET Job, started : Nat]
Truncations == [pc : {"cancel", "check", "arm", "asleep", "woken", "drop"},
                doc : Docs, keep : Nat]
Appendings == [pc : {"trigger"}, doc : Docs]

Claiming(f, d) == finder[f].pc = "claim" /\ finder[f].doc = d

\* An embedding is of a leaf, a summary of a pair that begins at an even place.
WellMade(j) == IF j.kind = "embed" THEN j.at[1] = 0 ELSE j.at[2] % 2 = 0

\* The work of j is still to be done.
Needed(j) == StillNeeded(j) /\ (j.kind = "embed" => j.at \notin embedded[j.doc])

\* No two jobs of S begin at the same place.
Untied(S) == \A j, k \in S : j = k \/ ComesBefore(j, k) \/ ComesBefore(k, j)

StoreTyped ==
  /\ forest \in [Docs -> SUBSET Coordinates]
  /\ embedded \in [Docs -> SUBSET Coordinates]
  /\ vectors \in [Docs -> SUBSET Coordinates]
  /\ \A d \in Docs : IsFiniteSet(forest[d]) /\ embedded[d] \subseteq LeavesOf(forest[d])

TasksTyped ==
  /\ context \in [Docs -> {"none", "live", "cancelled"}]
  /\ activeDocs \subseteq Docs /\ dirty \subseteq Docs /\ round \subseteq Docs
  /\ scheduling \in BOOLEAN
  /\ idleEvent \in BOOLEAN
  /\ running \in [DOMAIN running -> {"new", "model", "done", "failed"}]
  /\ DOMAIN running \subseteq Job
  /\ IsFiniteSet(DOMAIN running)
  /\ finder \in [Workers -> Scans \cup {Off}]
  /\ client \in [Clients -> Truncations \cup Appendings \cup {Idle}]
  /\ lockQ \in Seq(Tasks)

BoundsTyped ==
  /\ added \in [Docs -> 0 .. MaxLeaves]
  /\ ops \in 0 .. MaxOps
  /\ faults \in 0 .. MaxFaults

\* Who waits for the lock, and how often.
Queued ==
  /\ \A f \in Workers :
       /\ finder[f].pc = "sleep" => Holds(TheFinder(f))
       /\ finder[f].pc = "claim" => Waiting(lockQ, TheFinder(f))
  /\ \A j \in Job :
       /\ Once(lockQ, TheJob(j))
       /\ Waiting(lockQ, TheJob(j)) => j \in DOMAIN running /\ running[j] \in {"done", "failed"}
  /\ \A c \in Clients :
       /\ Once(lockQ, TheClient(c))
       /\ Waiting(lockQ, TheClient(c)) => client[c].pc \in {"trigger", "cancel", "check", "drop"}

OneOperation ==
  \A c, e \in Clients :
    client[c].pc # "idle" /\ client[e].pc # "idle" /\ client[c].doc = client[e].doc => c = e

\* What is under way and not written is still to be done.
Claimed ==
  \A j \in DOMAIN running :
    WellMade(j) /\ (running[j] \in {"new", "model"} /\ j.doc \notin exposed => Needed(j))

\* What a finder is about to claim is still to be done, or is a job that was
\* claimed by another finder and cannot end before this one claims.
Found ==
  \A f \in Workers : finder[f].pc = "claim" =>
    /\ IsFiniteSet(finder[f].found) /\ Untied(finder[f].found)
    /\ \A j \in finder[f].found :
         /\ j.doc = finder[f].doc
         /\ WellMade(j)
         /\ \/ j.doc \in exposed \/ Needed(j)
            \/ j \in DOMAIN running /\ running[j] \in {"done", "failed"}
               /\ Ahead(lockQ, TheFinder(f), TheJob(j))

\* Nothing is under way for d, and nothing will be before it is triggered.
Deserted(d) == d \notin activeDocs /\ ~HasWorkLeft(d)

\* Client c is past the point where it cancelled the work of its document.
Waits(c) == client[c].pc \in {"check", "arm", "asleep", "woken", "drop"}

\* A truncation finds that its document has no jobs, and nobody can claim any -
\* unless there was no context to cancel, but work left.
Cancelled(c) ==
  LET d == client[c].doc
  IN  /\ d \notin exposed =>
           /\ Waits(c) => context[d] = "cancelled" \/ (context[d] = "none" /\ Deserted(d))
           /\ client[c].pc = "check" =>
                \A f \in Workers : Claiming(f, d) => Ahead(lockQ, TheFinder(f), TheClient(c))
           /\ Waits(c) /\ client[c].pc # "check" => \A f \in Workers : ~Claiming(f, d)
           /\ client[c].pc = "drop" => JobsOf(d) = {}
      /\ client[c].pc = "cancel" \/ Waits(c) =>
           client[c].keep <= Cardinality(LeavesOf(forest[d]))

Truncating == \A c \in Clients : Cancelled(c)

Slots == Cardinality(DOMAIN running) <= MaxParallelism

Standing == \A d \in Docs \ exposed : Supported(forest[d])

EngineInv ==
  /\ StoreTyped /\ TasksTyped /\ BoundsTyped
  /\ Queued /\ OneOperation /\ Claimed /\ Found /\ Truncating /\ Slots /\ Standing

-----------------------------------------------------------------------------
(* The queue: who joins stands last, who leaves stood first *)

LEMMA QueueJoined ==
  ASSUME NEW q \in Seq(Tasks), NEW w \in Tasks, NEW r, r = Append(q, w)
  PROVE  /\ r \in Seq(Tasks)
         /\ Waiting(r, w)
         /\ \A x : Waiting(q, x) => Waiting(r, x)
         /\ \A x : Waiting(r, x) => x = w \/ Waiting(q, x)
         /\ \A x, y : Ahead(q, x, y) => Ahead(r, x, y)
         /\ \A x : Waiting(q, x) /\ ~Waiting(q, w) => Ahead(r, x, w)
         /\ \A x : Once(q, x) /\ x # w => Once(r, x)
         /\ ~Waiting(q, w) => Once(r, w)
         /\ q # <<>> => Head(r) = Head(q) /\ r # <<>>
<1>1. /\ r \in Seq(Tasks) /\ Len(r) = Len(q) + 1 /\ Len(q) \in Nat
      /\ \A i \in 1 .. Len(q) : r[i] = q[i]
      /\ r[Len(q) + 1] = w
      /\ DOMAIN q = 1 .. Len(q) /\ DOMAIN r = 1 .. (Len(q) + 1)
  OBVIOUS
<1>2. Waiting(r, w)
  BY <1>1 DEF Waiting
<1>3. \A x : Waiting(q, x) => Waiting(r, x)
  BY <1>1 DEF Waiting
<1>4. \A x : Waiting(r, x) => x = w \/ Waiting(q, x)
  BY <1>1 DEF Waiting
<1>5. \A x, y : Ahead(q, x, y) => Ahead(r, x, y)
  <2> SUFFICES ASSUME NEW x, NEW y, Ahead(q, x, y) PROVE Ahead(r, x, y)
    OBVIOUS
  <2>1. PICK i \in DOMAIN q : q[i] = x /\ \A k \in 1 .. i : q[k] # y
    BY DEF Ahead
  <2>2. i \in DOMAIN r /\ r[i] = x /\ \A k \in 1 .. i : r[k] # y
    BY <1>1, <2>1
  <2> QED BY <2>2 DEF Ahead
<1>6. \A x : Waiting(q, x) /\ ~Waiting(q, w) => Ahead(r, x, w)
  <2> SUFFICES ASSUME NEW x, Waiting(q, x), ~Waiting(q, w) PROVE Ahead(r, x, w)
    OBVIOUS
  <2>1. PICK i \in DOMAIN q : q[i] = x
    BY DEF Waiting
  <2>2. i \in DOMAIN r /\ r[i] = x /\ \A k \in 1 .. i : r[k] # w
    BY <1>1, <2>1 DEF Waiting
  <2> QED BY <2>2 DEF Ahead
<1>7. \A x : Once(q, x) /\ x # w => Once(r, x)
  BY <1>1 DEF Once
<1>8. ~Waiting(q, w) => Once(r, w)
  BY <1>1 DEF Once, Waiting
<1>9. q # <<>> => Head(r) = Head(q) /\ r # <<>>
  OBVIOUS
<1> QED BY <1>1, <1>2, <1>3, <1>4, <1>5, <1>6, <1>7, <1>8, <1>9

LEMMA QueueLeft ==
  ASSUME NEW q \in Seq(Tasks), q # <<>>, NEW r, r = Tail(q)
  PROVE  /\ r \in Seq(Tasks)
         /\ \A x : Waiting(q, x) /\ x # Head(q) => Waiting(r, x)
         /\ \A x : Waiting(r, x) => Waiting(q, x)
         /\ \A x, y : Ahead(q, x, y) /\ x # Head(q) => Ahead(r, x, y)
         /\ \A x : ~Ahead(q, x, Head(q))
         /\ \A x : Once(q, x) => Once(r, x)
         /\ Once(q, Head(q)) => ~Waiting(r, Head(q))
         /\ Waiting(q, Head(q))
<1>1. /\ r \in Seq(Tasks) /\ Len(q) \in Nat /\ Len(q) >= 1 /\ Len(r) = Len(q) - 1
      /\ \A i \in 1 .. Len(r) : r[i] = q[i + 1]
      /\ DOMAIN q = 1 .. Len(q) /\ DOMAIN r = 1 .. Len(r) /\ Head(q) = q[1]
  OBVIOUS
<1>2. \A i \in DOMAIN q : i # 1 => i - 1 \in DOMAIN r /\ r[i - 1] = q[i]
  BY <1>1
<1>3. \A i \in DOMAIN r : i + 1 \in DOMAIN q /\ r[i] = q[i + 1]
  BY <1>1
<1>4. \A x : Waiting(q, x) /\ x # Head(q) => Waiting(r, x)
  BY <1>1, <1>2 DEF Waiting
<1>5. \A x : Waiting(r, x) => Waiting(q, x)
  BY <1>3 DEF Waiting
<1>6. \A x, y : Ahead(q, x, y) /\ x # Head(q) => Ahead(r, x, y)
  <2> SUFFICES ASSUME NEW x, NEW y, Ahead(q, x, y), x # Head(q) PROVE Ahead(r, x, y)
    OBVIOUS
  <2>1. PICK i \in DOMAIN q : q[i] = x /\ \A k \in 1 .. i : q[k] # y
    BY DEF Ahead
  <2>2. i # 1
    BY <1>1, <2>1
  <2>3. i - 1 \in DOMAIN r /\ r[i - 1] = x
    BY <1>2, <2>1, <2>2
  <2>4. \A k \in 1 .. (i - 1) : r[k] # y
    <3> TAKE k \in 1 .. (i - 1)
    <3>1. k \in DOMAIN r /\ k + 1 \in 1 .. i
      BY <1>1, <2>1, <2>3
    <3> QED BY <1>3, <2>1, <3>1
  <2> QED BY <2>3, <2>4 DEF Ahead
<1>7. \A x : ~Ahead(q, x, Head(q))
  BY <1>1 DEF Ahead
<1>8. \A x : Once(q, x) => Once(r, x)
  <2> SUFFICES ASSUME NEW x, Once(q, x), NEW i \in DOMAIN r, NEW k \in DOMAIN r,
                      r[i] = x, r[k] = x
               PROVE  i = k
    BY DEF Once
  <2>1. i + 1 = k + 1
    BY <1>3 DEF Once
  <2> QED BY <2>1, <1>1
<1>9. Once(q, Head(q)) => ~Waiting(r, Head(q))
  <2> SUFFICES ASSUME Once(q, Head(q)), NEW i \in DOMAIN r, r[i] = Head(q) PROVE FALSE
    BY DEF Waiting
  <2>1. i + 1 \in DOMAIN q /\ q[i + 1] = Head(q) /\ 1 \in DOMAIN q /\ q[1] = Head(q)
    BY <1>1, <1>3
  <2>2. i + 1 = 1
    BY <2>1 DEF Once
  <2> QED BY <2>2, <1>1
<1>10. Waiting(q, Head(q))
  BY <1>1 DEF Waiting
<1> QED BY <1>1, <1>4, <1>5, <1>6, <1>7, <1>8, <1>9, <1>10
LEMMA QueueRejoined ==
  ASSUME NEW q \in Seq(Tasks), q # <<>>, NEW w \in Tasks, NEW r, r = Append(Tail(q), w)
  PROVE  /\ r \in Seq(Tasks)
         /\ Waiting(r, w)
         /\ \A x : Waiting(q, x) /\ x # Head(q) => Waiting(r, x)
         /\ \A x : Waiting(r, x) => x = w \/ Waiting(q, x)
         /\ \A x, y : Ahead(q, x, y) /\ x # Head(q) => Ahead(r, x, y)
         /\ \A x : Once(q, x) /\ x # w => Once(r, x)
         /\ Once(q, Head(q)) /\ w = Head(q) =>
              /\ Once(r, w)
              /\ \A x : Waiting(q, x) /\ x # Head(q) => Ahead(r, x, w)
<1> DEFINE t == Tail(q)
<1>1. /\ t \in Seq(Tasks)
      /\ \A x : Waiting(q, x) /\ x # Head(q) => Waiting(t, x)
      /\ \A x : Waiting(t, x) => Waiting(q, x)
      /\ \A x, y : Ahead(q, x, y) /\ x # Head(q) => Ahead(t, x, y)
      /\ \A x : Once(q, x) => Once(t, x)
      /\ Once(q, Head(q)) => ~Waiting(t, Head(q))
  BY QueueLeft
<1> HIDE DEF t
<1>2. /\ r \in Seq(Tasks)
      /\ Waiting(r, w)
      /\ \A x : Waiting(t, x) => Waiting(r, x)
      /\ \A x : Waiting(r, x) => x = w \/ Waiting(t, x)
      /\ \A x, y : Ahead(t, x, y) => Ahead(r, x, y)
      /\ \A x : Waiting(t, x) /\ ~Waiting(t, w) => Ahead(r, x, w)
      /\ \A x : Once(t, x) /\ x # w => Once(r, x)
      /\ ~Waiting(t, w) => Once(r, w)
  <2>1. r = Append(t, w)
    BY DEF t
  <2> QED BY <1>1, <2>1, QueueJoined
<1> QED BY <1>1, <1>2

-----------------------------------------------------------------------------
(* The first jobs of a scan *)

\* Jobs are ordered by place, an embedding before a summary, then by height.
LEMMA ComesBeforeOrders ==
  /\ \A j \in Job : ~ComesBefore(j, j)
  /\ \A i, j, k \in Job : ComesBefore(i, j) /\ ComesBefore(j, k) => ComesBefore(i, k)
<1>1. \A j \in Job : j.kind \in {"embed", "summary"} /\ FirstLeaf(j.at) \in Nat /\ j.at[1] \in Nat
  <2> TAKE j \in Job
  <2>1. j.at \in Coordinates /\ j.kind \in {"embed", "summary"}
    BY DEF Job, Coordinates
  <2>2. j.at[1] \in Nat
    BY <2>1 DEF Coordinates
  <2> QED BY <2>1, <2>2, FirstLeafIsNat
<1> QED BY <1>1 DEF ComesBefore

\* A scan takes at most n jobs, and takes one when there is one to take.
LEMMA FirstJobsAreFew ==
  ASSUME NEW S \in SUBSET Job, IsFiniteSet(S), Untied(S), NEW n \in Nat
  PROVE  /\ FirstJobs(S, n) \in SUBSET S
         /\ IsFiniteSet(FirstJobs(S, n))
         /\ Cardinality(FirstJobs(S, n)) <= n
         /\ S # {} /\ n # 0 => FirstJobs(S, n) # {}
<1> DEFINE Before(j) == {k \in S : ComesBefore(k, j)}
           T == FirstJobs(S, n)
<1>1. T \in SUBSET S /\ IsFiniteSet(T)
  <2>1. T \in SUBSET S
    BY DEF FirstJobs
  <2> QED BY <2>1, FS_Subset
<1>2. \A j \in T : Cardinality(Before(j)) < n
  BY DEF FirstJobs
<1>3. \A j \in S : Cardinality(Before(j)) < n => j \in T
  BY DEF FirstJobs
<1>4. \A j \in S : Before(j) \in SUBSET S /\ IsFiniteSet(Before(j)) /\ Cardinality(Before(j)) \in Nat
  <2> TAKE j \in S
  <2>1. Before(j) \in SUBSET S
    OBVIOUS
  <2>2. IsFiniteSet(Before(j))
    <3> HIDE DEF Before
    <3> QED BY <2>1, FS_Subset
  <2>3. Cardinality(Before(j)) \in Nat
    <3> HIDE DEF Before
    <3> QED BY <2>2, FS_CardinalityType
  <2> QED BY <2>1, <2>2, <2>3
<1>5. \A j, k \in S : ComesBefore(j, k) =>
        Cardinality(Before(j)) < Cardinality(Before(k))
  <2> SUFFICES ASSUME NEW j \in S, NEW k \in S, ComesBefore(j, k)
               PROVE  Cardinality(Before(j)) < Cardinality(Before(k))
    OBVIOUS
  <2>1. Before(j) \cup {j} \in SUBSET Before(k) /\ j \notin Before(j)
    BY ComesBeforeOrders
  <2>2. IsFiniteSet(Before(j)) /\ IsFiniteSet(Before(k))
        /\ Cardinality(Before(j)) \in Nat /\ Cardinality(Before(k)) \in Nat
    BY <1>4
  <2> HIDE DEF Before
  <2>3. Cardinality(Before(j) \cup {j}) = Cardinality(Before(j)) + 1
    BY <2>1, <2>2, FS_AddElement
  <2>4. Cardinality(Before(j) \cup {j}) <= Cardinality(Before(k))
    BY <2>1, <2>2, FS_Subset
  <2> QED BY <2>2, <2>3, <2>4
<1>6. Cardinality(T) <= n
  <2>1. CASE T = {}
    BY <2>1, FS_EmptySet
  <2>2. CASE T # {}
    <3> DEFINE Rest == {n - Cardinality(Before(j)) : j \in T}
    <3>1. Rest \in SUBSET Nat /\ Rest # {}
      <4>1. \A j \in T : Cardinality(Before(j)) \in Nat /\ Cardinality(Before(j)) < n
        BY <1>1, <1>2, <1>4
      <4> HIDE DEF Before, T
      <4>2. \A j \in T : n - Cardinality(Before(j)) \in Nat
        BY <4>1
      <4> QED BY <2>2, <4>2
    <3>2. PICK x \in Rest : \A y \in Rest : x <= y
      <4> HIDE DEF Rest
      <4> QED BY <3>1, LeastNat
    <3>3. PICK m \in T : x = n - Cardinality(Before(m))
      BY <3>2
    <3>4. \A k \in T : Cardinality(Before(k)) <= Cardinality(Before(m))
      <4> TAKE k \in T
      <4>1. n - Cardinality(Before(m)) <= n - Cardinality(Before(k))
        BY <3>2, <3>3
      <4>2. Cardinality(Before(m)) \in Nat /\ Cardinality(Before(k)) \in Nat
        BY <1>1, <1>4
      <4> HIDE DEF Before
      <4> QED BY <4>1, <4>2
    <3>5. \A k \in T : ~ComesBefore(m, k)
      <4> TAKE k \in T
      <4>1. Cardinality(Before(m)) \in Nat /\ Cardinality(Before(k)) \in Nat
        BY <1>1, <1>4
      <4>2. ComesBefore(m, k) => Cardinality(Before(m)) < Cardinality(Before(k))
        BY <1>1, <1>5
      <4>3. Cardinality(Before(k)) <= Cardinality(Before(m))
        BY <3>4
      <4> HIDE DEF Before
      <4> QED BY <4>1, <4>2, <4>3
    <3>6. T \in SUBSET (Before(m) \cup {m})
      BY <1>1, <3>5 DEF Untied
    <3>7. /\ IsFiniteSet(Before(m)) /\ Cardinality(Before(m)) \in Nat
          /\ Cardinality(Before(m)) < n /\ m \notin Before(m)
      BY <1>1, <1>2, <1>4, <3>3, ComesBeforeOrders
    <3> HIDE DEF Before, T
    <3>8. /\ IsFiniteSet(Before(m) \cup {m})
          /\ Cardinality(Before(m) \cup {m}) = Cardinality(Before(m)) + 1
      BY <3>7, FS_AddElement
    <3>9. Cardinality(T) <= Cardinality(Before(m) \cup {m}) /\ Cardinality(T) \in Nat
      BY <1>1, <3>6, <3>8, FS_Subset, FS_CardinalityType
    <3> QED BY <3>7, <3>8, <3>9
  <2> QED BY <2>1, <2>2
<1>7. S # {} /\ n # 0 => T # {}
  <2> SUFFICES ASSUME S # {}, n # 0 PROVE T # {}
    OBVIOUS
  <2> DEFINE Counts == {Cardinality(Before(j)) : j \in S}
  <2>1. Counts \in SUBSET Nat /\ Counts # {}
    BY <1>4
  <2>2. PICK x \in Counts : \A y \in Counts : x <= y
    <3> HIDE DEF Counts
    <3> QED BY <2>1, LeastNat
  <2>3. PICK m \in S : x = Cardinality(Before(m))
    BY <2>2
  <2>4. \A k \in S : ~ComesBefore(k, m)
    <3> SUFFICES ASSUME NEW k \in S, ComesBefore(k, m) PROVE FALSE
      OBVIOUS
    <3>1. Cardinality(Before(k)) < Cardinality(Before(m))
      BY <1>5
    <3>2. Cardinality(Before(m)) <= Cardinality(Before(k))
      BY <2>2, <2>3
    <3>3. Cardinality(Before(m)) \in Nat /\ Cardinality(Before(k)) \in Nat
      BY <1>4
    <3> HIDE DEF Before
    <3> QED BY <3>1, <3>2, <3>3
  <2>5. Before(m) = {}
    BY <2>4
  <2>6. Cardinality(Before(m)) = 0
    BY <2>5, FS_EmptySet
  <2> QED BY <1>3, <2>3, <2>6
<1> QED BY <1>1, <1>6, <1>7
-----------------------------------------------------------------------------
(* What a scan finds *)

\* The work that is to be done for d, whatever is under way.
Work(d) == {j \in Job : j.doc = d /\ WellMade(j) /\ Needed(j)}

\* A scan finds the work that nobody is at.
LEMMA ScansFindWork ==
  ASSUME StoreTyped, NEW d \in Docs, NEW busy
  PROVE  Candidates(d, busy) = Work(d) \ busy
<1> DEFINE Embeds == {Embed(d, leaf) : leaf \in LeavesOf(forest[d]) \ embedded[d]}
           Pairs == {Summary(d, left) : left \in ReadyPairs(forest[d])}
<1>0. forest[d] \in SUBSET Coordinates
  BY DEF StoreTyped
<1>1. ASSUME NEW j \in Embeds PROVE j \in Work(d)
  <2>1. PICK leaf \in LeavesOf(forest[d]) \ embedded[d] : j = Embed(d, leaf)
    OBVIOUS
  <2>2. leaf \in Coordinates /\ leaf[1] = 0 /\ leaf \in forest[d]
    BY <1>0 DEF LeavesOf
  <2>3. j \in Job /\ j.doc = d /\ j.kind = "embed" /\ j.at = leaf
    BY <2>1, <2>2 DEF Embed, Job, Coordinates
  <2> QED BY <2>2, <2>3 DEF Work, WellMade, Needed, StillNeeded
<1>2. ASSUME NEW j \in Pairs PROVE j \in Work(d)
  <2>1. PICK left \in ReadyPairs(forest[d]) : j = Summary(d, left)
    OBVIOUS
  <2>2. /\ left \in forest[d] /\ left \in Coordinates /\ left[2] % 2 = 0
        /\ SiblingOf(left) \in forest[d] /\ ParentOf(left) \notin forest[d]
    BY <1>0 DEF ReadyPairs, Tops
  <2>3. j \in Job /\ j.doc = d /\ j.kind = "summary" /\ j.at = left
    BY <2>1, <2>2 DEF Summary, Job, Coordinates
  <2> QED BY <2>2, <2>3 DEF Work, WellMade, Needed, StillNeeded
<1>3. ASSUME NEW j \in Work(d) PROVE j \in Embeds \cup Pairs
  <2>1. /\ j \in Job /\ j.doc = d /\ j.kind \in {"embed", "summary"}
        /\ j = [doc |-> j.doc, kind |-> j.kind, at |-> j.at]
        /\ WellMade(j) /\ StillNeeded(j)
        /\ j.kind = "embed" => j.at \notin embedded[d]
    BY DEF Work, Job, Needed
  <2>2. CASE j.kind = "embed"
    <3>1. j.at \in LeavesOf(forest[d]) \ embedded[d]
      BY <2>1, <2>2 DEF WellMade, StillNeeded, LeavesOf
    <3> QED BY <2>1, <2>2, <3>1 DEF Embed
  <2>3. CASE j.kind = "summary"
    <3>1. /\ j.at \in forest[d] /\ j.at \in Coordinates /\ j.at[2] % 2 = 0
          /\ SiblingOf(j.at) \in forest[d] /\ ParentOf(j.at) \notin forest[d]
      BY <1>0, <2>1, <2>3 DEF WellMade, StillNeeded
    <3>2. ParentOf(SiblingOf(j.at)) = ParentOf(j.at)
      <4>1. (j.at[2] + 1) \div 2 = j.at[2] \div 2
        BY <3>1 DEF Coordinates
      <4> QED BY <3>1, <4>1 DEF SiblingOf, ParentOf
    <3>3. j.at \in ReadyPairs(forest[d])
      BY <3>1, <3>2 DEF ReadyPairs, Tops
    <3> QED BY <2>1, <2>3, <3>3 DEF Summary
  <2> QED BY <2>1, <2>2, <2>3
<1>4. Candidates(d, busy) = (Embeds \cup Pairs) \ busy
  BY DEF Candidates
<1> QED BY <1>1, <1>2, <1>3, <1>4

LEMMA WorkIsFinite ==
  ASSUME StoreTyped, NEW d \in Docs
  PROVE  IsFiniteSet(Work(d)) /\ Work(d) \in SUBSET Job
<1> DEFINE Leaves == LeavesOf(forest[d]) \ embedded[d]
           Lefts == ReadyPairs(forest[d])
           f == [leaf \in Leaves |-> Embed(d, leaf)]
           g == [left \in Lefts |-> Summary(d, left)]
<1>1. IsFiniteSet(Leaves) /\ IsFiniteSet(Lefts)
  <2>1. IsFiniteSet(forest[d])
    BY DEF StoreTyped
  <2>2. Leaves \in SUBSET forest[d] /\ Lefts \in SUBSET forest[d]
    BY DEF LeavesOf, ReadyPairs, Tops
  <2> HIDE DEF Leaves, Lefts
  <2> QED BY <2>1, <2>2, FS_Subset
<1>2. IsFiniteSet({f[x] : x \in Leaves}) /\ IsFiniteSet({g[x] : x \in Lefts})
  <2> HIDE DEF Leaves, Lefts, f, g
  <2> QED BY <1>1, FiniteImage
<1>3. Candidates(d, {}) = {f[x] : x \in Leaves} \cup {g[x] : x \in Lefts}
  BY DEF Candidates
<1>4. IsFiniteSet(Candidates(d, {}))
  <2> HIDE DEF Leaves, Lefts, f, g
  <2> QED BY <1>2, <1>3, FS_Union
<1>5. Candidates(d, {}) = Work(d)
  BY ScansFindWork
<1>6. Work(d) \in SUBSET Job
  BY DEF Work
<1> QED BY <1>4, <1>5, <1>6

\* No two pieces of a document's work are tied.
LEMMA WorkIsUntied ==
  ASSUME StoreTyped, NEW d \in Docs
  PROVE  Untied(Work(d))
<1> SUFFICES ASSUME NEW j \in Work(d), NEW k \in Work(d),
                    ~ComesBefore(j, k), ~ComesBefore(k, j)
             PROVE  j = k
  BY DEF Untied
<1>1. /\ j \in Job /\ k \in Job /\ j.doc = k.doc
      /\ j = [doc |-> j.doc, kind |-> j.kind, at |-> j.at]
      /\ k = [doc |-> k.doc, kind |-> k.kind, at |-> k.at]
      /\ j.kind \in {"embed", "summary"} /\ k.kind \in {"embed", "summary"}
      /\ j.at \in Coordinates /\ k.at \in Coordinates
  BY DEF Work, Job, Coordinates
<1>2. FirstLeaf(j.at) \in Nat /\ FirstLeaf(k.at) \in Nat
  BY <1>1, FirstLeafIsNat
<1>3. FirstLeaf(j.at) = FirstLeaf(k.at) /\ j.kind = k.kind /\ j.at[1] = k.at[1]
  BY <1>1, <1>2 DEF ComesBefore, Coordinates
<1>4. j.at = k.at
  <2>1. PICK h \in Nat, i \in Nat : j.at = <<h, i>>
    BY <1>1 DEF Coordinates
  <2>2. PICK g \in Nat, e \in Nat : k.at = <<g, e>>
    BY <1>1 DEF Coordinates
  <2>3. g = h
    BY <1>3, <2>1, <2>2
  <2>4. i = e
    BY <1>3, <2>1, <2>2, <2>3, SameStart
  <2> QED BY <2>1, <2>2, <2>3, <2>4
<1> QED BY <1>1, <1>3, <1>4

LEMMA UntiedParts ==
  ASSUME NEW S, Untied(S), NEW T \in SUBSET S
  PROVE  Untied(T)
BY DEF Untied
-----------------------------------------------------------------------------
(* What a step does to the queue, the finders and the clients *)

LEMMA NamesDiffer ==
  /\ \A j, f : TheJob(j) # TheFinder(f) /\ TheFinder(f) # TheJob(j)
  /\ \A j, c : TheJob(j) # TheClient(c) /\ TheClient(c) # TheJob(j)
  /\ \A f, c : TheFinder(f) # TheClient(c) /\ TheClient(c) # TheFinder(f)
  /\ \A j, k : TheJob(j) = TheJob(k) => j = k
  /\ \A f, g : TheFinder(f) = TheFinder(g) => f = g
  /\ \A c, e : TheClient(c) = TheClient(e) => c = e
BY DEF TheJob, TheFinder, TheClient

LEMMA NamesAreTasks ==
  /\ \A j \in Job : TheJob(j) \in Tasks
  /\ \A f \in Workers : TheFinder(f) \in Tasks
  /\ \A c \in Clients : TheClient(c) \in Tasks
BY DEF TheJob, TheFinder, TheClient, Tasks

\* The queue as the others see it when x joins, leaves or goes to its end.
Moved(x) ==
  /\ lockQ' \in Seq(Tasks)
  /\ \A y : y # x => (Waiting(lockQ, y) <=> Waiting(lockQ', y))
  /\ \A y, z : y # x /\ Ahead(lockQ, y, z) => Ahead(lockQ', y, z)
  /\ \A y : y # x /\ Once(lockQ, y) => Once(lockQ', y)
  /\ \A y : y # x /\ Holds(y) => Holds(y)'

LEMMA QueueMoves ==
  ASSUME lockQ \in Seq(Tasks), NEW x \in Tasks,
         Join(x) \/ (Holds(x) /\ Leave) \/ (Holds(x) /\ Rejoin(x))
  PROVE  Moved(x)
<1>1. CASE Join(x)
  <2>1. lockQ' = Append(lockQ, x)
    BY <1>1 DEF Join
  <2>2. \A y : y # x /\ Holds(y) => Holds(y)'
    BY <2>1, QueueJoined DEF Holds
  <2> QED BY <2>1, <2>2, QueueJoined DEF Moved
<1>2. CASE Holds(x) /\ Leave
  <2>1. lockQ' = Tail(lockQ) /\ lockQ # <<>> /\ Head(lockQ) = x
    BY <1>2 DEF Leave, Holds
  <2>2. \A y : y # x /\ Holds(y) => Holds(y)'
    BY <2>1 DEF Holds
  <2> QED BY <2>1, <2>2, QueueLeft DEF Moved
<1>3. CASE Holds(x) /\ Rejoin(x)
  <2>1. lockQ' = Append(Tail(lockQ), x) /\ lockQ # <<>> /\ Head(lockQ) = x
    BY <1>3 DEF Rejoin, Holds
  <2>2. \A y : y # x /\ Holds(y) => Holds(y)'
    BY <2>1 DEF Holds
  <2> QED BY <2>1, <2>2, QueueRejoined DEF Moved
<1> QED BY <1>1, <1>2, <1>3

LEMMA JoinsBehind ==
  ASSUME lockQ \in Seq(Tasks), NEW x \in Tasks, Join(x), ~Waiting(lockQ, x)
  PROVE  Once(lockQ', x) /\ \A y : Waiting(lockQ, y) => Ahead(lockQ', y, x)
<1>1. lockQ' = Append(lockQ, x)
  BY DEF Join
<1> QED BY <1>1, QueueJoined

\* Who goes from the head to the end stands behind all the others.
LEMMA RejoinsBehind ==
  ASSUME lockQ \in Seq(Tasks), NEW x \in Tasks, Rejoin(x), Holds(x), Once(lockQ, x)
  PROVE  /\ Once(lockQ', x)
         /\ \A y : y # x /\ Waiting(lockQ, y) => Ahead(lockQ', y, x)
<1>1. lockQ' = Append(Tail(lockQ), x) /\ lockQ # <<>> /\ Head(lockQ) = x
  BY DEF Rejoin, Holds
<1> QED BY <1>1, QueueRejoined

\* Who goes from the head to the end still stands in the queue.
LEMMA RejoinsWaiting ==
  ASSUME lockQ \in Seq(Tasks), NEW x \in Tasks, Rejoin(x), Holds(x)
  PROVE  Waiting(lockQ', x)
<1>1. lockQ' = Append(Tail(lockQ), x) /\ lockQ # <<>> /\ Head(lockQ) = x
  BY DEF Rejoin, Holds
<1> QED BY <1>1, QueueRejoined

\* Who leaves is not in the queue any more, and nobody stood before him.
LEMMA LeavesQueue ==
  ASSUME lockQ \in Seq(Tasks), NEW x \in Tasks, Leave, Holds(x), Once(lockQ, x)
  PROVE  /\ ~Waiting(lockQ', x) /\ Once(lockQ', x)
         /\ \A y : ~Ahead(lockQ, y, x)
<1>1. lockQ' = Tail(lockQ) /\ lockQ # <<>> /\ Head(lockQ) = x
  BY DEF Leave, Holds
<1> QED BY <1>1, QueueLeft

\* Nobody stands before the holder.
LEMMA HolderIsFirst ==
  ASSUME lockQ \in Seq(Tasks), NEW x, Holds(x)
  PROVE  (\A y : ~Ahead(lockQ, y, x)) /\ Waiting(lockQ, x)
<1>1. lockQ # <<>> /\ Head(lockQ) = x
  BY DEF Holds
<1> QED BY <1>1, QueueLeft

ClientRecords == Truncations \cup Appendings \cup {Idle}

\* Some sleeping clients may have been woken, nothing else.
Stirred ==
  /\ client' \in [Clients -> ClientRecords]
  /\ \A c \in Clients :
       /\ client'[c].doc = client[c].doc /\ client'[c].keep = client[c].keep
       /\ client'[c].pc = client[c].pc \/ (client[c].pc = "asleep" /\ client'[c].pc = "woken")

LEMMA WakingRecord ==
  ASSUME NEW r \in ClientRecords, r.pc = "asleep", NEW s, s = [r EXCEPT !.pc = "woken"]
  PROVE  s \in ClientRecords /\ s.pc = "woken" /\ s.doc = r.doc /\ s.keep = r.keep
<1>1. r \in Truncations
  BY DEF ClientRecords, Appendings, Idle
<1>2. s \in Truncations /\ s.pc = "woken" /\ s.doc = r.doc /\ s.keep = r.keep
  BY <1>1 DEF Truncations
<1> QED BY <1>2 DEF ClientRecords

LEMMA NotifyStirs ==
  ASSUME TasksTyped, Notify(client) \/ UNCHANGED <<idleEvent, client>>
  PROVE  Stirred /\ idleEvent' \in BOOLEAN
<1>1. client \in [Clients -> ClientRecords] /\ idleEvent \in BOOLEAN
  BY DEF TasksTyped, ClientRecords
<1>2. CASE Notify(client)
  <2>1. client' = [c \in Clients |->
                    IF client[c].pc = "asleep" THEN [client[c] EXCEPT !.pc = "woken"]
                                               ELSE client[c]]
    BY <1>2 DEF Notify
  <2>2. idleEvent' = TRUE
    BY <1>2 DEF Notify
  <2>3. ASSUME NEW c \in Clients
        PROVE  /\ client'[c] \in ClientRecords
               /\ client'[c].doc = client[c].doc /\ client'[c].keep = client[c].keep
               /\ \/ client'[c].pc = client[c].pc
                  \/ client[c].pc = "asleep" /\ client'[c].pc = "woken"
    <3>1. CASE client[c].pc = "asleep"
      <4>1. client'[c] = [client[c] EXCEPT !.pc = "woken"]
        BY <2>1, <3>1
      <4> QED BY <1>1, <3>1, <4>1, WakingRecord
    <3>2. CASE client[c].pc # "asleep"
      <4>1. client'[c] = client[c]
        BY <2>1, <3>2
      <4> QED BY <1>1, <4>1
    <3> QED BY <3>1, <3>2
  <2>4. client' \in [Clients -> ClientRecords]
    BY <2>1, <2>3
  <2> QED BY <2>2, <2>3, <2>4 DEF Stirred
<1>3. CASE UNCHANGED <<idleEvent, client>>
  BY <1>1, <1>3 DEF Stirred
<1> QED BY <1>2, <1>3
-----------------------------------------------------------------------------
(* Steps of a finder *)

\* Finder f takes a step after which it has claimed nothing.
Rests(f) ==
  /\ finder' \in [Workers -> Scans \cup {Off}]
  /\ \A g \in Workers : g # f => finder'[g] = finder[g]
  /\ finder'[f].pc \in {"begin", "scan", "off"}

OnlyTimePasses ==
  /\ activeDocs' \subseteq Docs /\ dirty' \subseteq Docs /\ round' \subseteq Docs
  /\ scheduling' \in BOOLEAN /\ idleEvent' \in BOOLEAN

\* Nobody turns to a document that nobody is at work on.
StayDeserted == \A d \in Docs : Deserted(d) => Deserted(d)'

LEMMA SameWork ==
  ASSUME UNCHANGED <<forest, embedded>>
  PROVE  \A j : Needed(j)' <=> Needed(j)
BY DEF Needed, StillNeeded

LEMMA TruncationDoc ==
  ASSUME TasksTyped, NEW c \in Clients, client[c].pc = "cancel" \/ Waits(c)
  PROVE  client[c].doc \in Docs
BY DEF TasksTyped, Truncations, Appendings, Idle, Waits

\* A truncation goes on waiting while the step does nothing to its document.
LEMMA WaitGoesOn ==
  ASSUME NEW c \in Clients, NEW d, d = client[c].doc, Cancelled(c), TasksTyped,
         client'[c].doc = client[c].doc, client'[c].keep = client[c].keep,
         client'[c].pc = client[c].pc \/ (client[c].pc = "asleep" /\ client'[c].pc = "woken"),
         d \notin exposed' => d \notin exposed,
         client[c].pc = "cancel" \/ Waits(c) =>
           LeavesOf(forest'[d]) = LeavesOf(forest[d]) /\ context'[d] = context[d],
         d \notin exposed /\ Waits(c) =>
           /\ Deserted(d) => Deserted(d)'
           /\ \A g \in Workers : Claiming(g, d)' => Claiming(g, d)
           /\ \A g \in Workers : Claiming(g, d)' /\ Ahead(lockQ, TheFinder(g), TheClient(c))
                                  => Ahead(lockQ', TheFinder(g), TheClient(c))
           /\ client[c].pc = "drop" => JobsOf(d)' \subseteq JobsOf(d)
  PROVE  Cancelled(c)'
<1>1. Waits(c)' <=> Waits(c)
  BY DEF Waits
<1>2. client'[c].pc \in {"check", "cancel", "drop"} <=> client[c].pc \in {"check", "cancel", "drop"}
  OBVIOUS
<1>3. ASSUME client'[c].pc = "cancel" \/ Waits(c)'
      PROVE  client'[c].keep <= Cardinality(LeavesOf(forest'[d]))
  BY <1>1, <1>3 DEF Cancelled
<1>4. ASSUME d \notin exposed', Waits(c)'
      PROVE  /\ context'[d] = "cancelled" \/ (context'[d] = "none" /\ Deserted(d)')
             /\ client'[c].pc = "check" =>
                  \A g \in Workers : Claiming(g, d)' => Ahead(lockQ', TheFinder(g), TheClient(c))
             /\ client'[c].pc # "check" => \A g \in Workers : ~Claiming(g, d)'
             /\ client'[c].pc = "drop" => JobsOf(d)' = {}
  <2>1. d \notin exposed /\ Waits(c)
    BY <1>1, <1>4
  <2>2. context'[d] = "cancelled" \/ (context'[d] = "none" /\ Deserted(d)')
    BY <2>1 DEF Cancelled
  <2>3. ASSUME client'[c].pc = "check", NEW g \in Workers, Claiming(g, d)'
        PROVE  Ahead(lockQ', TheFinder(g), TheClient(c))
    BY <2>1, <2>3 DEF Cancelled
  <2>4. ASSUME client'[c].pc # "check", NEW g \in Workers PROVE ~Claiming(g, d)'
    BY <2>1, <2>4 DEF Cancelled
  <2>5. client'[c].pc = "drop" => JobsOf(d)' = {}
    BY <2>1 DEF Cancelled
  <2> QED BY <2>2, <2>3, <2>4, <2>5
<1>5. client'[c].doc = d /\ (client'[c].pc = "check" => Waits(c)') /\ (client'[c].pc = "drop" => Waits(c)')
  BY DEF Waits
<1> QED BY <1>3, <1>4, <1>5 DEF Cancelled

LEMMA FinderRests ==
  ASSUME EngineInv, NEW f \in Workers, Moved(TheFinder(f)), Rests(f), Stirred,
         OnlyTimePasses, StayDeserted,
         UNCHANGED <<store, context, running, bounds, exposed>>
  PROVE  EngineInv'
<1> USE DEF EngineInv
<1>0. /\ UNCHANGED <<forest, embedded, vectors, context, running, added, ops, faults, exposed>>
      /\ DOMAIN running' = DOMAIN running
  BY DEF store, bounds
<1>1. StoreTyped' /\ BoundsTyped' /\ Standing' /\ Slots'
  BY <1>0 DEF StoreTyped, BoundsTyped, Standing, Slots
<1>2. TasksTyped'
  BY <1>0 DEF TasksTyped, OnlyTimePasses, Rests, Stirred, ClientRecords, Moved
<1>3. \A g \in Workers : finder'[g].pc \in {"sleep", "claim"} => g # f /\ finder'[g] = finder[g]
  BY DEF Rests
<1>4. Queued'
  <2>1. ASSUME NEW g \in Workers
        PROVE  /\ finder'[g].pc = "sleep" => Holds(TheFinder(g))'
               /\ finder'[g].pc = "claim" => Waiting(lockQ', TheFinder(g))
    BY <1>3, NamesDiffer DEF Queued, Moved
  <2>2. ASSUME NEW j \in Job
        PROVE  /\ Once(lockQ', TheJob(j))
               /\ Waiting(lockQ', TheJob(j)) => j \in DOMAIN running' /\ running'[j] \in {"done", "failed"}
    BY <1>0, NamesDiffer DEF Queued, Moved
  <2>3. ASSUME NEW c \in Clients
        PROVE  /\ Once(lockQ', TheClient(c))
               /\ Waiting(lockQ', TheClient(c)) =>
                    client'[c].pc \in {"trigger", "cancel", "check", "drop"}
    BY NamesDiffer DEF Queued, Moved, Stirred
  <2> QED BY <2>1, <2>2, <2>3 DEF Queued
<1>5. OneOperation'
  BY DEF OneOperation, Stirred
<1>6. Claimed'
  BY <1>0, SameWork DEF Claimed
<1>7. Found'
  <2> SUFFICES ASSUME NEW g \in Workers, finder'[g].pc = "claim"
               PROVE  /\ IsFiniteSet(finder'[g].found) /\ Untied(finder'[g].found)
                      /\ \A j \in finder'[g].found :
                           /\ j.doc = finder'[g].doc
                           /\ WellMade(j)
                           /\ \/ j.doc \in exposed' \/ Needed(j)'
                              \/ j \in DOMAIN running' /\ running'[j] \in {"done", "failed"}
                                 /\ Ahead(lockQ', TheFinder(g), TheJob(j))
    BY DEF Found
  <2>1. g # f /\ finder'[g] = finder[g]
    BY <1>3
  <2>2. \A j : Ahead(lockQ, TheFinder(g), TheJob(j)) => Ahead(lockQ', TheFinder(g), TheJob(j))
    BY <2>1, NamesDiffer DEF Moved
  <2> QED BY <1>0, <2>1, <2>2, SameWork DEF Found
<1>8. Truncating'
  <2> SUFFICES ASSUME NEW c \in Clients PROVE Cancelled(c)'
    BY DEF Truncating
  <2>1. /\ client'[c].doc = client[c].doc /\ client'[c].keep = client[c].keep
        /\ client'[c].pc = client[c].pc \/ (client[c].pc = "asleep" /\ client'[c].pc = "woken")
    BY DEF Stirred
  <2>2. \A g \in Workers : \A d : Claiming(g, d)' => Claiming(g, d) /\ g # f
    BY <1>3 DEF Claiming
  <2>3. \A g \in Workers : g # f /\ Ahead(lockQ, TheFinder(g), TheClient(c))
                           => Ahead(lockQ', TheFinder(g), TheClient(c))
    BY NamesDiffer DEF Moved
  <2>4. Cancelled(c) /\ \A d : JobsOf(d)' = JobsOf(d)
    BY <1>0 DEF Truncating, JobsOf
  <2>5. client[c].pc = "cancel" \/ Waits(c) => client[c].doc \in Docs
    BY TruncationDoc
  <2> QED BY <1>0, <2>1, <2>2, <2>3, <2>4, <2>5, WaitGoesOn DEF StayDeserted, Waits
<1> QED BY <1>1, <1>2, <1>4, <1>5, <1>6, <1>7, <1>8

LEMMA ScanningRecord ==
  ASSUME NEW r \in Scans, NEW s, s = [r EXCEPT !.pc = "scan"]
  PROVE  s \in Scans /\ s.pc = "scan"
BY DEF Scans

\* A finder turns to no new document.
LEMMA NoNewDocument ==
  ASSUME NEW f \in Workers, \A g \in Workers : g # f => finder'[g] = finder[g],
         finder'[f] = Off \/ (finder[f] # Off /\ finder'[f].doc = finder[f].doc),
         activeDocs' \subseteq activeDocs, dirty' \cup round' \subseteq dirty \cup round,
         DOMAIN running' = DOMAIN running
  PROVE  StayDeserted
<1> SUFFICES ASSUME NEW d \in Docs, Deserted(d) PROVE Deserted(d)'
  BY DEF StayDeserted
<1>1. \A g \in Workers : finder'[g] = Off \/ finder'[g].doc # d
  BY DEF Deserted, HasWorkLeft, Workers
<1>2. JobsOf(d)' = {} /\ d \notin activeDocs' /\ d \notin dirty' \cup round'
  BY DEF Deserted, HasWorkLeft, JobsOf
<1> QED BY <1>1, <1>2 DEF Deserted, HasWorkLeft, Workers

LEMMA BusyFinder ==
  ASSUME TasksTyped, NEW f \in Workers, finder[f].pc # "off"
  PROVE  finder[f] \in Scans /\ finder[f].doc \in Docs
BY DEF TasksTyped, Scans, Off

LEMMA FinderTurns ==
  ASSUME TasksTyped, NEW f \in Workers, NEW r \in Scans \cup {Off},
         r.pc \in {"begin", "scan", "off"}, finder' = [finder EXCEPT ![f] = r]
  PROVE  Rests(f)
BY DEF TasksTyped, Rests

LEMMA OffRests == Off \in Scans \cup {Off} /\ Off.pc = "off"
BY DEF Off

LEMMA ClientsStay ==
  ASSUME TasksTyped, UNCHANGED <<idleEvent, client>>
  PROVE  Stirred
BY NotifyStirs

LEMMA FinderGoesOn ==
  ASSUME TasksTyped, NEW f \in Workers, finder[f] \in Scans,
         finder' = [finder EXCEPT ![f].pc = "scan"],
         UNCHANGED <<running, activeDocs, dirty, round>>
  PROVE  StayDeserted
<1>1. finder[f] # Off
  BY DEF Scans, Off
<1>2. finder'[f].doc = finder[f].doc /\ \A g \in Workers : g # f => finder'[g] = finder[g]
  BY DEF TasksTyped, Scans
<1> QED BY <1>1, <1>2, NoNewDocument

LEMMA BeginsKeeps ==
  ASSUME EngineInv, NEW f \in Workers, FinderBegins(f)
  PROVE  EngineInv'
<1>0. TasksTyped
  BY DEF EngineInv
<1>1. finder[f] \in Scans
  BY <1>0, BusyFinder DEF FinderBegins
<1>2. Rests(f)
  <2>1. finder' = [finder EXCEPT ![f] = [finder[f] EXCEPT !.pc = "scan"]]
    BY DEF FinderBegins
  <2> QED BY <1>0, <1>1, <2>1, ScanningRecord, FinderTurns
<1>3. Moved(TheFinder(f))
  BY <1>0, NamesAreTasks, QueueMoves DEF FinderBegins, TasksTyped
<1>4. Stirred /\ OnlyTimePasses
  BY <1>0, ClientsStay DEF FinderBegins, OnlyTimePasses, TasksTyped
<1>5. StayDeserted
  BY <1>0, <1>1, FinderGoesOn DEF FinderBegins
<1> QED BY <1>2, <1>3, <1>4, <1>5, FinderRests DEF FinderBegins, history

LEMMA WakesKeeps ==
  ASSUME EngineInv, NEW f \in Workers, FinderWakes(f)
  PROVE  EngineInv'
<1>0. TasksTyped /\ Queued
  BY DEF EngineInv
<1>1. finder[f] \in Scans
  BY <1>0, BusyFinder DEF FinderWakes
<1>2. Rests(f)
  <2>1. finder' = [finder EXCEPT ![f] = [finder[f] EXCEPT !.pc = "scan"]]
    BY DEF FinderWakes
  <2> QED BY <1>0, <1>1, <2>1, ScanningRecord, FinderTurns
<1>3. Holds(TheFinder(f)) /\ Rejoin(TheFinder(f))
  BY <1>0 DEF FinderWakes, Queued
<1>4. Moved(TheFinder(f))
  BY <1>0, <1>3, NamesAreTasks, QueueMoves DEF TasksTyped
<1>5. Stirred /\ OnlyTimePasses
  BY <1>0, ClientsStay DEF FinderWakes, OnlyTimePasses, TasksTyped
<1>6. StayDeserted
  BY <1>0, <1>1, FinderGoesOn DEF FinderWakes
<1> QED BY <1>2, <1>4, <1>5, <1>6, FinderRests DEF FinderWakes, history

LEMMA BeginRecord ==
  ASSUME NEW d \in Docs
  PROVE  /\ Begin(d) \in Scans /\ Begin(d).pc = "begin"
         /\ [Begin(d) EXCEPT !.pc = "scan"] \in Scans
         /\ [Begin(d) EXCEPT !.pc = "scan"].pc = "scan"
BY DEF Begin, Scans

LEMMA NextInRoundKeeps ==
  ASSUME EngineInv, NextInRound
  PROVE  EngineInv'
<1>0. TasksTyped /\ SCHED \in Workers
  BY DEF EngineInv, Workers
<1>1. PICK d \in round : /\ round' = round \ {d}
                         /\ finder' = [finder EXCEPT ![SCHED] = [Begin(d) EXCEPT !.pc = "scan"]]
  BY DEF NextInRound
<1>2. d \in Docs
  BY <1>0 DEF TasksTyped
<1>3. Rests(SCHED)
  BY <1>0, <1>1, <1>2, BeginRecord, FinderTurns
<1>4. Moved(TheFinder(SCHED))
  BY <1>0, NamesAreTasks, QueueMoves DEF NextInRound, TasksTyped
<1>5. Stirred /\ OnlyTimePasses
  BY <1>0, <1>1, ClientsStay DEF NextInRound, OnlyTimePasses, TasksTyped
<1>6. StayDeserted
  <2> SUFFICES ASSUME NEW e \in Docs, Deserted(e) PROVE Deserted(e)'
    BY DEF StayDeserted
  <2>1. e # d /\ e \notin round' /\ UNCHANGED <<activeDocs, dirty, running>>
    BY <1>1 DEF NextInRound, Deserted, HasWorkLeft
  <2>2. \A g \in Workers : finder'[g] = finder[g] \/ finder'[g].doc = d
    BY <1>0, <1>1 DEF TasksTyped, Begin
  <2> QED BY <2>1, <2>2 DEF Deserted, HasWorkLeft, JobsOf, Workers
<1> QED BY <1>0, <1>3, <1>4, <1>5, <1>6, FinderRests DEF NextInRound, history

\* The slots a finder counts are free, whatever other finders filled.
LEMMA RoomIsFree ==
  ASSUME EngineInv, EngineAssumption, NEW f \in Workers, finder[f].pc # "off"
  PROVE  /\ Room(f) \in Int
         /\ Room(f) <= MaxParallelism - Cardinality(DOMAIN running)
         /\ Cardinality(DOMAIN running) \in Nat /\ MaxParallelism \in Nat
<1>1. Cardinality(DOMAIN running) \in Nat
  BY FS_CardinalityType DEF EngineInv, TasksTyped
<1>2. MaxParallelism \in Nat
  BY DEF EngineAssumption
<1>3. finder[f].started \in Nat
  BY BusyFinder DEF EngineInv, Scans
<1> DEFINE a == MaxParallelism - Cardinality(DOMAIN running)
           b == MaxParallelism - finder[f].started
<1>4. a \in Int /\ b \in Int
  BY <1>1, <1>2, <1>3
<1>5. Room(f) = Min({a, b})
  BY DEF Room, FreeSlots
<1> HIDE DEF a, b
<1>6. Min({a, b}) \in {a, b} /\ Min({a, b}) <= a
  <2>1. \E x \in {a, b} : \A y \in {a, b} : x <= y
    BY <1>4
  <2>2. Min({a, b}) \in {a, b} /\ \A y \in {a, b} : Min({a, b}) <= y
    BY <2>1 DEF Min
  <2> QED BY <2>2
<1> QED BY <1>1, <1>2, <1>4, <1>5, <1>6 DEF a
\* What the free work of a document gives a finder to claim.
LEMMA ScanIsSound ==
  ASSUME EngineInv, EngineAssumption, NEW f \in Workers, finder[f].pc # "off", Room(f) > 0,
         NEW S, S = FirstJobs(Candidates(finder[f].doc, DOMAIN running), Room(f))
  PROVE  /\ S \in SUBSET (Work(finder[f].doc) \ DOMAIN running)
         /\ IsFiniteSet(S) /\ Untied(S)
         /\ S = {} => Work(finder[f].doc) \subseteq DOMAIN running
<1> DEFINE d == finder[f].doc
           C == Candidates(d, DOMAIN running)
<1>1. d \in Docs
  BY BusyFinder DEF EngineInv
<1>2. C = Work(d) \ DOMAIN running
  BY <1>1, ScansFindWork DEF EngineInv
<1>3. IsFiniteSet(Work(d)) /\ Work(d) \in SUBSET Job /\ Untied(Work(d))
  BY <1>1, WorkIsFinite, WorkIsUntied DEF EngineInv
<1>4. C \in SUBSET Work(d)
  BY <1>2
<1> HIDE DEF C, d
<1>5. IsFiniteSet(C) /\ C \in SUBSET Job /\ Untied(C)
  BY <1>3, <1>4, FS_Subset, UntiedParts
<1>6. Room(f) \in Nat /\ Room(f) # 0
  BY RoomIsFree
<1>7. S = FirstJobs(C, Room(f))
  BY DEF C, d
<1>8. S \in SUBSET C /\ IsFiniteSet(S) /\ (C # {} => S # {})
  BY <1>5, <1>6, <1>7, FirstJobsAreFew
<1>9. Untied(S)
  BY <1>5, <1>8, UntiedParts
<1> QED BY <1>2, <1>8, <1>9 DEF d

\* The scan that finds something leaves with a list that is sound.
LEMMA ScanFindsKeeps ==
  ASSUME EngineInv, EngineAssumption, NEW f \in Workers, FinderScans(f),
         context[finder[f].doc] # "cancelled", Room(f) > 0
  PROVE  EngineInv'
<1> USE DEF EngineInv
<1> DEFINE d == finder[f].doc
           S == FirstJobs(Candidates(d, DOMAIN running), Room(f))
           r == [finder[f] EXCEPT !.pc = "claim", !.found = S]
<1>1. /\ finder' = [finder EXCEPT ![f] = r]
      /\ Rejoin(TheFinder(f)) /\ Holds(TheFinder(f)) /\ finder[f].pc = "scan"
      /\ UNCHANGED <<activeDocs, idleEvent, client>>
      /\ UNCHANGED <<store, context, running, dirty, scheduling, round, bounds, history>>
  <2>1. ~(Room(f) <= 0)
    BY RoomIsFree DEF FinderScans
  <2> QED BY <2>1 DEF FinderScans
<1>2. finder[f] \in Scans /\ d \in Docs
  BY <1>1, BusyFinder
<1>3. /\ S \in SUBSET (Work(d) \ DOMAIN running) /\ IsFiniteSet(S) /\ Untied(S)
  BY <1>1, ScanIsSound
<1>4. S \in SUBSET Job
  BY <1>3 DEF Work
<1> HIDE DEF S
<1>5. r \in Scans /\ r.pc = "claim" /\ r.found = S /\ r.doc = d
  BY <1>2, <1>4 DEF Scans
<1> HIDE DEF r, d
<1>6. /\ finder' \in [Workers -> Scans \cup {Off}] /\ finder'[f] = r
      /\ \A g \in Workers : g # f => finder'[g] = finder[g]
  BY <1>1, <1>5 DEF TasksTyped
<1>7. Moved(TheFinder(f)) /\ Waiting(lockQ', TheFinder(f))
  <2>1. Moved(TheFinder(f))
    BY <1>1, NamesAreTasks, QueueMoves DEF TasksTyped
  <2>2. lockQ \in Seq(Tasks) /\ TheFinder(f) \in Tasks
    BY NamesAreTasks DEF TasksTyped
  <2>3. Waiting(lockQ', TheFinder(f))
    BY <1>1, <2>2, RejoinsWaiting
  <2> QED BY <2>1, <2>3
<1>8. /\ UNCHANGED <<forest, embedded, vectors, context, running, added, ops, faults, exposed>>
      /\ UNCHANGED <<activeDocs, idleEvent, client, dirty, scheduling, round>>
      /\ DOMAIN running' = DOMAIN running
  BY <1>1 DEF store, bounds, history
<1>9. StoreTyped' /\ BoundsTyped' /\ Standing' /\ Slots'
  BY <1>8 DEF StoreTyped, BoundsTyped, Standing, Slots
<1>10. TasksTyped'
  BY <1>6, <1>7, <1>8 DEF TasksTyped, Moved
<1>11. Queued'
  <2>1. ASSUME NEW g \in Workers
        PROVE  /\ finder'[g].pc = "sleep" => Holds(TheFinder(g))'
               /\ finder'[g].pc = "claim" => Waiting(lockQ', TheFinder(g))
    BY <1>5, <1>6, <1>7, NamesDiffer DEF Queued, Moved
  <2>2. ASSUME NEW j \in Job
        PROVE  /\ Once(lockQ', TheJob(j))
               /\ Waiting(lockQ', TheJob(j)) => j \in DOMAIN running' /\ running'[j] \in {"done", "failed"}
    BY <1>7, <1>8, NamesDiffer DEF Queued, Moved
  <2>3. ASSUME NEW c \in Clients
        PROVE  /\ Once(lockQ', TheClient(c))
               /\ Waiting(lockQ', TheClient(c)) =>
                    client'[c].pc \in {"trigger", "cancel", "check", "drop"}
    BY <1>7, <1>8, NamesDiffer DEF Queued, Moved
  <2> QED BY <2>1, <2>2, <2>3 DEF Queued
<1>12. OneOperation' /\ Claimed'
  BY <1>8, SameWork DEF OneOperation, Claimed
<1>13. Found'
  <2> SUFFICES ASSUME NEW g \in Workers, finder'[g].pc = "claim"
               PROVE  /\ IsFiniteSet(finder'[g].found) /\ Untied(finder'[g].found)
                      /\ \A j \in finder'[g].found :
                           /\ j.doc = finder'[g].doc
                           /\ WellMade(j)
                           /\ \/ j.doc \in exposed' \/ Needed(j)'
                              \/ j \in DOMAIN running' /\ running'[j] \in {"done", "failed"}
                                 /\ Ahead(lockQ', TheFinder(g), TheJob(j))
    BY DEF Found
  <2>1. CASE g = f
    <3>1. \A j \in S : j.doc = d /\ WellMade(j) /\ Needed(j)'
      BY <1>3, <1>8, SameWork DEF Work
    <3> QED BY <1>3, <1>5, <1>6, <2>1, <3>1
  <2>2. CASE g # f
    <3>1. finder'[g] = finder[g]
      BY <1>6, <2>2
    <3>2. \A j : Ahead(lockQ, TheFinder(g), TheJob(j)) => Ahead(lockQ', TheFinder(g), TheJob(j))
      BY <1>7, <2>2, NamesDiffer DEF Moved
    <3> QED BY <1>8, <3>1, <3>2, SameWork DEF Found
  <2> QED BY <2>1, <2>2
<1>14. Truncating'
  <2> SUFFICES ASSUME NEW c \in Clients PROVE Cancelled(c)'
    BY DEF Truncating
  <2>1. client[c].doc \notin exposed /\ Waits(c) => client[c].doc # d
    <3>1. Deserted(d) => finder[f] = Off
      BY DEF Deserted, HasWorkLeft, Workers, d
    <3>2. ~Deserted(d) /\ context[d] # "cancelled"
      BY <1>1, <3>1 DEF Off, d
    <3> QED BY <3>2 DEF Truncating, Cancelled
  <2>2. \A g \in Workers : \A e : e # d /\ Claiming(g, e)' => Claiming(g, e) /\ g # f
    BY <1>5, <1>6 DEF Claiming
  <2>3. \A g \in Workers : g # f /\ Ahead(lockQ, TheFinder(g), TheClient(c))
                           => Ahead(lockQ', TheFinder(g), TheClient(c))
    BY <1>7, NamesDiffer DEF Moved
  <2>4. Cancelled(c) /\ \A e : JobsOf(e)' = JobsOf(e)
    BY <1>8 DEF Truncating, JobsOf
  <2>5. \A e : e # d /\ Deserted(e) => Deserted(e)'
    BY <1>5, <1>6, <1>8, <2>4 DEF Deserted, HasWorkLeft, Workers
  <2> QED BY <1>8, <2>1, <2>2, <2>3, <2>4, <2>5, WaitGoesOn
<1> QED BY <1>9, <1>10, <1>11, <1>12, <1>13, <1>14

LEMMA ScansKeeps ==
  ASSUME EngineInv, EngineAssumption, NEW f \in Workers, FinderScans(f)
  PROVE  EngineInv'
<1>0. TasksTyped
  BY DEF EngineInv
<1>1. CASE finder' = [finder EXCEPT ![f] = Off] /\ Leave
           /\ activeDocs' \subseteq activeDocs /\ (Notify(client) \/ UNCHANGED <<idleEvent, client>>)
  <2>1. Rests(f)
    BY <1>0, <1>1, OffRests, FinderTurns
  <2>2. Moved(TheFinder(f))
    BY <1>0, <1>1, NamesAreTasks, QueueMoves DEF FinderScans, TasksTyped
  <2>3. Stirred /\ OnlyTimePasses
    BY <1>0, <1>1, NotifyStirs DEF FinderScans, OnlyTimePasses, TasksTyped
  <2>4. finder'[f] = Off
    BY <1>0, <1>1 DEF TasksTyped
  <2>5. StayDeserted
    BY <1>1, <2>1, <2>4, NoNewDocument DEF FinderScans, Rests
  <2> QED BY <2>1, <2>2, <2>3, <2>5, FinderRests DEF FinderScans, history
<1>2. CASE context[finder[f].doc] # "cancelled" /\ Room(f) > 0
  BY <1>2, ScanFindsKeeps
<1> QED BY <1>1, <1>2 DEF FinderScans, Ends
\* What a finder claims is work that nobody is at, and fits into the free slots.
LEMMA ClaimIsSound ==
  ASSUME EngineInv, EngineAssumption, NEW f \in Workers, finder[f].pc = "claim", Room(f) > 0,
         NEW new, new = FirstJobs(Fresh(f), Room(f))
  PROVE  /\ new \in SUBSET Job /\ IsFiniteSet(new) /\ Cardinality(new) \in Nat
         /\ new \cap DOMAIN running = {}
         /\ \A j \in new : j.doc = finder[f].doc /\ WellMade(j) /\ (j.doc \in exposed \/ Needed(j))
         /\ IsFiniteSet(DOMAIN running \cup new)
         /\ Cardinality(DOMAIN running \cup new) <= MaxParallelism
<1> USE DEF EngineInv
<1>1. finder[f] \in Scans /\ finder[f].found \in SUBSET Job
  BY BusyFinder DEF Scans
<1>2. /\ IsFiniteSet(finder[f].found) /\ Untied(finder[f].found)
      /\ \A j \in finder[f].found :
           /\ j.doc = finder[f].doc /\ WellMade(j)
           /\ j.doc \in exposed \/ Needed(j) \/ j \in DOMAIN running
  BY DEF Found
<1>3. Fresh(f) \in SUBSET finder[f].found /\ Fresh(f) \cap DOMAIN running = {}
  BY DEF Fresh
<1>4. IsFiniteSet(Fresh(f)) /\ Fresh(f) \in SUBSET Job /\ Untied(Fresh(f))
  BY <1>1, <1>2, <1>3, FS_Subset, UntiedParts
<1>5. /\ Room(f) \in Nat /\ Room(f) <= MaxParallelism - Cardinality(DOMAIN running)
      /\ Cardinality(DOMAIN running) \in Nat /\ MaxParallelism \in Nat
  BY RoomIsFree
<1>6. new \in SUBSET Fresh(f) /\ IsFiniteSet(new) /\ Cardinality(new) <= Room(f)
  BY <1>4, <1>5, FirstJobsAreFew
<1>7. Cardinality(new) \in Nat
  BY <1>6, FS_CardinalityType
<1>8. new \cap DOMAIN running = {} /\ DOMAIN running \cap new = {} /\ new \in SUBSET Job
  BY <1>3, <1>4, <1>6
<1>9. IsFiniteSet(DOMAIN running)
  BY DEF TasksTyped
<1>10. /\ IsFiniteSet(DOMAIN running \cup new)
       /\ Cardinality(DOMAIN running \cup new) =
            Cardinality(DOMAIN running) + Cardinality(new) - Cardinality(DOMAIN running \cap new)
  BY <1>6, <1>9, FS_Union
<1>11. Cardinality(DOMAIN running \cap new) = 0
  BY <1>8, FS_EmptySet
<1>12. Cardinality(DOMAIN running \cup new) <= MaxParallelism
  BY <1>5, <1>6, <1>7, <1>10, <1>11
<1> QED BY <1>2, <1>3, <1>6, <1>7, <1>8, <1>10, <1>12

\* Finder f starts the jobs in new.
StartsJobs(f, new) ==
  /\ running' = [j \in DOMAIN running \cup new |-> IF j \in new THEN "new" ELSE running[j]]
  /\ finder' = [finder EXCEPT ![f].pc = "sleep", ![f].found = {},
                              ![f].started = @ + Cardinality(new)]
  /\ UNCHANGED <<activeDocs, lockQ, idleEvent, client>>

LEMMA ClaimStartsKeeps ==
  ASSUME EngineInv, EngineAssumption, NEW f \in Workers, FinderClaims(f),
         NEW new, new = FirstJobs(Fresh(f), Room(f)), Room(f) > 0, StartsJobs(f, new)
  PROVE  EngineInv'
<1> USE DEF EngineInv
<1> DEFINE d == finder[f].doc
           r == [finder[f] EXCEPT !.pc = "sleep", !.found = {},
                                !.started = finder[f].started + Cardinality(new)]
<1>1. finder[f].pc = "claim" /\ Holds(TheFinder(f))
      /\ UNCHANGED <<store, context, dirty, scheduling, round, bounds, history>>
  BY DEF FinderClaims
<1>2. /\ new \in SUBSET Job /\ IsFiniteSet(new) /\ Cardinality(new) \in Nat
      /\ new \cap DOMAIN running = {}
      /\ \A j \in new : j.doc = d /\ WellMade(j) /\ (j.doc \in exposed \/ Needed(j))
      /\ IsFiniteSet(DOMAIN running \cup new)
      /\ Cardinality(DOMAIN running \cup new) <= MaxParallelism
  BY <1>1, ClaimIsSound
<1>3. finder[f] \in Scans /\ d \in Docs
  BY <1>1, BusyFinder
<1>4. r \in Scans /\ r.pc = "sleep" /\ finder' = [finder EXCEPT ![f] = r]
  <2>0. finder[f].started + Cardinality(new) \in Nat
    BY <1>2, <1>3 DEF Scans
  <2>1. r \in Scans /\ r.pc = "sleep"
    BY <1>3, <2>0 DEF Scans
  <2>2. finder' = [finder EXCEPT ![f] = r]
    BY DEF StartsJobs
  <2> QED BY <2>1, <2>2
<1> HIDE DEF r, d
<1>5. /\ finder' \in [Workers -> Scans \cup {Off}] /\ finder'[f] = r
      /\ \A g \in Workers : g # f => finder'[g] = finder[g]
  BY <1>4 DEF TasksTyped
<1>6. /\ UNCHANGED <<forest, embedded, vectors, context, added, ops, faults, exposed>>
      /\ UNCHANGED <<activeDocs, idleEvent, client, dirty, scheduling, round, lockQ>>
  BY <1>1 DEF store, bounds, history, StartsJobs
<1>7. /\ DOMAIN running' = DOMAIN running \cup new
      /\ \A j \in DOMAIN running : running'[j] = running[j]
      /\ \A j \in new : running'[j] = "new"
  BY <1>2 DEF StartsJobs
<1>8. StoreTyped' /\ BoundsTyped' /\ Standing'
  BY <1>6 DEF StoreTyped, BoundsTyped, Standing
<1>9. Slots'
  BY <1>2, <1>7 DEF Slots
<1>10. TasksTyped'
  <2>1. running' \in [DOMAIN running' -> {"new", "model", "done", "failed"}]
    <3>1. \A j \in DOMAIN running : running[j] \in {"new", "model", "done", "failed"}
      BY DEF TasksTyped
    <3>2. running' \in [DOMAIN running \cup new -> {"new", "model", "done", "failed"}]
      BY <3>1 DEF StartsJobs
    <3> QED BY <1>7, <3>2
  <2>2. DOMAIN running' \subseteq Job /\ IsFiniteSet(DOMAIN running')
    BY <1>2, <1>7 DEF TasksTyped
  <2> QED BY <1>5, <1>6, <2>1, <2>2 DEF TasksTyped
<1>11. Queued'
  BY <1>1, <1>4, <1>5, <1>6, <1>7 DEF Queued, Holds
<1>12. OneOperation'
  BY <1>6 DEF OneOperation
<1>13. Claimed'
  BY <1>2, <1>6, <1>7, SameWork DEF Claimed
<1>14. Found'
  <2> SUFFICES ASSUME NEW g \in Workers, finder'[g].pc = "claim"
               PROVE  /\ IsFiniteSet(finder'[g].found) /\ Untied(finder'[g].found)
                      /\ \A j \in finder'[g].found :
                           /\ j.doc = finder'[g].doc
                           /\ WellMade(j)
                           /\ \/ j.doc \in exposed' \/ Needed(j)'
                              \/ j \in DOMAIN running' /\ running'[j] \in {"done", "failed"}
                                 /\ Ahead(lockQ', TheFinder(g), TheJob(j))
    BY DEF Found
  <2>1. finder'[g] = finder[g]
    BY <1>4, <1>5
  <2>2. /\ IsFiniteSet(finder[g].found) /\ Untied(finder[g].found)
        /\ \A j \in finder[g].found :
             /\ j.doc = finder[g].doc
             /\ WellMade(j)
             /\ \/ j.doc \in exposed \/ Needed(j)
                \/ j \in DOMAIN running /\ running[j] \in {"done", "failed"}
                   /\ Ahead(lockQ, TheFinder(g), TheJob(j))
    BY <2>1 DEF Found
  <2>3. \A j : Needed(j) => Needed(j)'
    BY <1>6, SameWork
  <2>4. \A j \in DOMAIN running : j \in DOMAIN running' /\ running'[j] = running[j]
    BY <1>7
  <2> QED BY <1>6, <2>1, <2>2, <2>3, <2>4
<1>15. Truncating'
  <2> SUFFICES ASSUME NEW c \in Clients PROVE Cancelled(c)'
    BY DEF Truncating
  <2>1. \A g \in Workers : \A e : Claiming(g, e)' => Claiming(g, e)
    BY <1>4, <1>5 DEF Claiming
  <2>2. Claiming(f, d) /\ finder[f] # Off
    BY <1>1 DEF Claiming, d, Off
  <2>3. \A e : e # d => JobsOf(e)' = JobsOf(e)
    BY <1>2, <1>7 DEF JobsOf
  <2>4. Cancelled(c)
    BY DEF Truncating
  <2>5. \A e : Deserted(e) => e # d
    BY <2>2 DEF Deserted, HasWorkLeft, Workers, d
  <2>6. finder'[f] # Off /\ finder'[f].doc = d
    BY <1>3, <1>4, <1>5 DEF r, d, Scans, Off
  <2>7. \A e : Deserted(e) => Deserted(e)'
    BY <1>5, <1>6, <2>3, <2>5, <2>6 DEF Deserted, HasWorkLeft, Workers
  <2>8. client[c].doc \notin exposed /\ client[c].pc = "drop" => client[c].doc # d
    BY <2>2, <2>4 DEF Cancelled, Waits
  <2> QED BY <1>6, <2>1, <2>3, <2>4, <2>7, <2>8, WaitGoesOn
<1> QED BY <1>8, <1>9, <1>10, <1>11, <1>12, <1>13, <1>14, <1>15

LEMMA RescanRecord ==
  ASSUME NEW r \in Scans, NEW s, s = [r EXCEPT !.pc = "scan", !.found = {}]
  PROVE  s \in Scans /\ s.pc = "scan"
BY DEF Scans

LEMMA ClaimsKeeps ==
  ASSUME EngineInv, EngineAssumption, NEW f \in Workers, FinderClaims(f)
  PROVE  EngineInv'
<1>0. TasksTyped /\ finder[f].pc = "claim"
  BY DEF EngineInv, FinderClaims
<1>1. CASE /\ \/ finder' = [finder EXCEPT ![f] = Off] /\ Leave
              \/ finder' = [finder EXCEPT ![f].pc = "scan", ![f].found = {}] /\ Rejoin(TheFinder(f))
           /\ activeDocs' \subseteq activeDocs /\ UNCHANGED running
           /\ Notify(client) \/ UNCHANGED <<idleEvent, client>>
  <2>1. ASSUME finder' = [finder EXCEPT ![f] = Off] PROVE Rests(f)
    BY <1>0, <2>1, OffRests, FinderTurns
  <2>2. ASSUME finder' = [finder EXCEPT ![f].pc = "scan", ![f].found = {}] PROVE Rests(f)
    <3>1. finder' = [finder EXCEPT ![f] = [finder[f] EXCEPT !.pc = "scan", !.found = {}]]
      BY <2>2
    <3> QED BY <1>0, <3>1, BusyFinder, RescanRecord, FinderTurns
  <2>3. Rests(f)
    BY <1>1, <2>1, <2>2
  <2>4. Moved(TheFinder(f))
    BY <1>0, <1>1, NamesAreTasks, QueueMoves DEF FinderClaims, TasksTyped
  <2>5. Stirred /\ OnlyTimePasses
    BY <1>0, <1>1, NotifyStirs DEF FinderClaims, OnlyTimePasses, TasksTyped
  <2>6. finder[f] \in Scans /\ finder[f] # Off
    BY <1>0, BusyFinder DEF Off
  <2>7. finder'[f] = Off \/ finder'[f].doc = finder[f].doc
    BY <1>0, <1>1, <2>6 DEF TasksTyped, Scans
  <2>8. StayDeserted
    BY <1>1, <2>3, <2>6, <2>7, NoNewDocument DEF FinderClaims, Rests
  <2> QED BY <1>1, <2>3, <2>4, <2>5, <2>8, FinderRests DEF FinderClaims, history
<1>2. CASE Room(f) > 0 /\ StartsJobs(f, FirstJobs(Fresh(f), Room(f)))
  BY <1>2, ClaimStartsKeeps
<1> QED BY <1>1, <1>2 DEF FinderClaims, Ends, StartsJobs

LEMMA FinderKeeps ==
  ASSUME EngineInv, EngineAssumption, NEW f \in Workers, FinderSteps(f)
  PROVE  EngineInv'
BY BeginsKeeps, ScansKeeps, ClaimsKeeps, WakesKeeps DEF FinderSteps
-----------------------------------------------------------------------------
(* Steps of a job *)

\* What j does to the store leaves the work of all other jobs as it is.
OwnWork(j) ==
  /\ StoreTyped' /\ Standing'
  /\ \A k \in Job : k # j /\ WellMade(k) /\ k.doc \notin exposed /\ Needed(k) => Needed(k)'
  /\ \A d \in Docs : LeavesOf(forest'[d]) = LeavesOf(forest[d])

\* A job that has done what it could joins the queue behind every finder that
\* may have found it.
LEMMA JobIsDone ==
  ASSUME EngineInv, NEW j \in DOMAIN running, running[j] \in {"new", "model"},
         OwnWork(j), BoundsTyped', NEW v \in {"done", "failed"},
         running' = [running EXCEPT ![j] = v], Join(TheJob(j)),
         UNCHANGED <<context, activeDocs, dirty, scheduling, round, finder, idleEvent, client, exposed>>
  PROVE  EngineInv'
<1> USE DEF EngineInv
<1>1. /\ j \in Job
      /\ DOMAIN running' = DOMAIN running /\ running'[j] \in {"done", "failed"}
      /\ \A k \in DOMAIN running : k # j => running'[k] = running[k]
      /\ running' \in [DOMAIN running' -> {"new", "model", "done", "failed"}]
  BY DEF TasksTyped
<1>2. ~Waiting(lockQ, TheJob(j))
  BY <1>1 DEF Queued
<1>3. lockQ' = Append(lockQ, TheJob(j)) /\ lockQ \in Seq(Tasks) /\ TheJob(j) \in Tasks
  BY <1>1, NamesAreTasks DEF Join, TasksTyped
<1>4. Moved(TheJob(j))
  BY <1>3, QueueMoves DEF Join
<1>5. Once(lockQ', TheJob(j)) /\ \A x : Waiting(lockQ, x) => Ahead(lockQ', x, TheJob(j))
  BY <1>2, <1>3, JoinsBehind
<1>6. TasksTyped'
  BY <1>1, <1>4 DEF TasksTyped, Moved
<1>7. Slots'
  BY <1>1 DEF Slots
<1>8. Queued'
  <2>1. ASSUME NEW g \in Workers
        PROVE  /\ finder'[g].pc = "sleep" => Holds(TheFinder(g))'
               /\ finder'[g].pc = "claim" => Waiting(lockQ', TheFinder(g))
    BY <1>4, NamesDiffer DEF Queued, Moved
  <2>2. ASSUME NEW k \in Job
        PROVE  /\ Once(lockQ', TheJob(k))
               /\ Waiting(lockQ', TheJob(k)) => k \in DOMAIN running' /\ running'[k] \in {"done", "failed"}
    <3>1. CASE k = j
      BY <1>1, <1>5, <3>1
    <3>2. CASE k # j
      BY <1>1, <1>4, <3>2, NamesDiffer DEF Queued, Moved
    <3> QED BY <3>1, <3>2
  <2>3. ASSUME NEW c \in Clients
        PROVE  /\ Once(lockQ', TheClient(c))
               /\ Waiting(lockQ', TheClient(c)) =>
                    client'[c].pc \in {"trigger", "cancel", "check", "drop"}
    BY <1>4, NamesDiffer DEF Queued, Moved
  <2> QED BY <2>1, <2>2, <2>3 DEF Queued
<1>9. OneOperation'
  BY DEF OneOperation
<1>10. Claimed'
  BY <1>1 DEF Claimed, TasksTyped, OwnWork
<1>11. Found'
  <2> SUFFICES ASSUME NEW g \in Workers, finder'[g].pc = "claim"
               PROVE  /\ IsFiniteSet(finder'[g].found) /\ Untied(finder'[g].found)
                      /\ \A k \in finder'[g].found :
                           /\ k.doc = finder'[g].doc
                           /\ WellMade(k)
                           /\ \/ k.doc \in exposed' \/ Needed(k)'
                              \/ k \in DOMAIN running' /\ running'[k] \in {"done", "failed"}
                                 /\ Ahead(lockQ', TheFinder(g), TheJob(k))
    BY DEF Found
  <2>1. finder'[g] = finder[g] /\ finder[g].pc = "claim"
    OBVIOUS
  <2>2. Waiting(lockQ, TheFinder(g)) /\ finder[g].found \in SUBSET Job
    BY <2>1, BusyFinder DEF Queued, Scans
  <2>3. \A k : Ahead(lockQ, TheFinder(g), TheJob(k)) => Ahead(lockQ', TheFinder(g), TheJob(k))
    BY <1>4, NamesDiffer DEF Moved
  <2>4. ASSUME NEW k \in finder[g].found
        PROVE  /\ k.doc = finder[g].doc
               /\ WellMade(k)
               /\ \/ k.doc \in exposed' \/ Needed(k)'
                  \/ k \in DOMAIN running' /\ running'[k] \in {"done", "failed"}
                     /\ Ahead(lockQ', TheFinder(g), TheJob(k))
    <3>1. /\ k.doc = finder[g].doc /\ WellMade(k)
          /\ \/ k.doc \in exposed \/ Needed(k)
             \/ k \in DOMAIN running /\ running[k] \in {"done", "failed"}
                /\ Ahead(lockQ, TheFinder(g), TheJob(k))
      BY <2>1 DEF Found
    <3>2. CASE k = j
      BY <1>1, <1>5, <2>2, <3>1, <3>2
    <3>3. CASE k # j
      BY <1>1, <2>2, <2>3, <3>1, <3>3 DEF OwnWork
    <3> QED BY <3>1, <3>2, <3>3
  <2>5. IsFiniteSet(finder[g].found) /\ Untied(finder[g].found)
    BY <2>1 DEF Found
  <2> QED BY <2>1, <2>4, <2>5
<1>12. Truncating'
  <2> SUFFICES ASSUME NEW c \in Clients PROVE Cancelled(c)'
    BY DEF Truncating
  <2>1. \A g \in Workers : Ahead(lockQ, TheFinder(g), TheClient(c))
                           => Ahead(lockQ', TheFinder(g), TheClient(c))
    BY <1>4, NamesDiffer DEF Moved
  <2>2. Cancelled(c) /\ \A e : JobsOf(e)' = JobsOf(e)
    BY <1>1 DEF Truncating, JobsOf
  <2>3. client[c].pc = "cancel" \/ Waits(c) => client[c].doc \in Docs
    BY TruncationDoc
  <2>4. \A e : Deserted(e) => Deserted(e)'
    BY <2>2 DEF Deserted, HasWorkLeft
  <2> QED BY <2>1, <2>2, <2>3, <2>4, WaitGoesOn DEF Claiming, OwnWork
<1> QED BY <1>6, <1>7, <1>8, <1>9, <1>10, <1>11, <1>12 DEF OwnWork

LEMMA NothingIsOwnWork ==
  ASSUME EngineInv, UNCHANGED <<store, exposed>>, NEW j
  PROVE  OwnWork(j)
<1>1. UNCHANGED <<forest, embedded, vectors>>
  BY DEF store
<1> QED BY <1>1, SameWork DEF EngineInv, OwnWork, StoreTyped, Standing

LEMMA JobStartsKeeps ==
  ASSUME EngineInv, NEW j \in DOMAIN running, JobStarts(j)
  PROVE  EngineInv'
<1> USE DEF EngineInv
<1>0. running[j] = "new" /\ UNCHANGED <<store, bounds, exposed>>
      /\ UNCHANGED <<context, activeDocs, dirty, scheduling, round, finder, idleEvent, client>>
  BY DEF JobStarts, history
<1>1. BoundsTyped'
  BY <1>0 DEF BoundsTyped, bounds
<1>2. CASE running' = [running EXCEPT ![j] = "done"] /\ Join(TheJob(j))
  BY <1>0, <1>1, <1>2, NothingIsOwnWork, JobIsDone
<1>3. CASE running' = [running EXCEPT ![j] = "model"] /\ UNCHANGED lockQ
  <2>1. /\ DOMAIN running' = DOMAIN running /\ running'[j] = "model"
        /\ \A k \in DOMAIN running : k # j => running'[k] = running[k]
        /\ running' \in [DOMAIN running' -> {"new", "model", "done", "failed"}]
    BY <1>3 DEF TasksTyped
  <2>2. UNCHANGED <<forest, embedded, vectors, lockQ>>
    BY <1>0, <1>3 DEF store
  <2>3. \A k \in DOMAIN running :
          /\ running'[k] \in {"done", "failed"} <=> running[k] \in {"done", "failed"}
          /\ running'[k] \in {"new", "model"} <=> running[k] \in {"new", "model"}
    BY <1>0, <2>1
  <2>4. StoreTyped' /\ Standing' /\ Slots' /\ OneOperation'
    BY <1>0, <2>1, <2>2 DEF StoreTyped, Standing, Slots, OneOperation
  <2>5. TasksTyped'
    BY <1>0, <2>1, <2>2 DEF TasksTyped
  <2>6. Queued'
    BY <1>0, <2>1, <2>2, <2>3 DEF Queued, Holds
  <2>7. Claimed'
    BY <1>0, <2>1, <2>2, <2>3, SameWork DEF Claimed
  <2>8. Found'
    <3>1. UNCHANGED <<finder, lockQ>> /\ \A k : Needed(k)' <=> Needed(k)
      BY <1>0, <2>2, SameWork
    <3> QED BY <1>0, <2>1, <2>3, <3>1 DEF Found
  <2>9. Truncating'
    <3>1. \A e : JobsOf(e)' = JobsOf(e)
      BY <2>1 DEF JobsOf
    <3>2. \A e : Deserted(e)' <=> Deserted(e)
      BY <1>0, <3>1 DEF Deserted, HasWorkLeft
    <3> QED BY <1>0, <2>2, <3>1, <3>2 DEF Truncating, Cancelled, Claiming, Waits
  <2> QED BY <1>1, <2>4, <2>5, <2>6, <2>7, <2>8, <2>9
<1> QED BY <1>2, <1>3 DEF JobStarts

LEMMA JobRecords ==
  ASSUME NEW j \in Job
  PROVE  /\ j.doc \in Docs /\ j.kind \in {"embed", "summary"} /\ j.at \in Coordinates
         /\ \A k \in Job : j.doc = k.doc /\ j.kind = k.kind /\ j.at = k.at => j = k
BY DEF Job, Coordinates

\* Giving a row its embedding changes the work of no other job.
LEMMA EmbeddingIsOwnWork ==
  ASSUME EngineInv, NEW j \in DOMAIN running, j.kind = "embed", UNCHANGED <<forest, exposed>>,
         \/ UNCHANGED embedded
         \/ embedded' = [embedded EXCEPT ![j.doc] = @ \cup ({j.at} \cap forest[j.doc])],
         vectors' \in [Docs -> SUBSET Coordinates]
  PROVE  OwnWork(j)
<1> USE DEF EngineInv
<1>1. j \in Job /\ WellMade(j)
  BY DEF TasksTyped, Claimed
<1>2. j.doc \in Docs /\ j.at \in Coordinates /\ j.at[1] = 0
  BY <1>1, JobRecords DEF WellMade
<1>3. /\ embedded' \in [Docs -> SUBSET Coordinates]
      /\ \A d \in Docs : d # j.doc => embedded'[d] = embedded[d]
      /\ embedded'[j.doc] \subseteq embedded[j.doc] \cup ({j.at} \cap forest[j.doc])
  BY <1>2 DEF StoreTyped
<1>4. StoreTyped'
  <2>1. ASSUME NEW d \in Docs PROVE embedded'[d] \subseteq LeavesOf(forest[d])
    <3>1. embedded[d] \subseteq LeavesOf(forest[d])
      BY DEF StoreTyped
    <3>2. {j.at} \cap forest[j.doc] \subseteq LeavesOf(forest[j.doc])
      BY <1>2 DEF LeavesOf
    <3> QED BY <1>3, <3>1, <3>2
  <2> QED BY <1>3, <2>1 DEF StoreTyped
<1>5. Standing'
  BY DEF Standing
<1>6. ASSUME NEW k \in Job, k # j, WellMade(k), Needed(k) PROVE Needed(k)'
  <2>1. StillNeeded(k)'
    BY <1>6 DEF Needed, StillNeeded
  <2>2. ASSUME k.kind = "embed" PROVE k.at \notin embedded'[k.doc]
    <3>1. k.doc \in Docs /\ (k.doc = j.doc => k.at # j.at)
      BY <1>1, <1>6, <2>2, JobRecords
    <3>2. k.at \notin embedded[k.doc]
      BY <1>6, <2>2 DEF Needed
    <3> QED BY <1>3, <3>1, <3>2
  <2> QED BY <2>1, <2>2 DEF Needed
<1> QED BY <1>4, <1>5, <1>6 DEF OwnWork

\* A summary is written over two nodes that are there, and takes the place of
\* no other job.
LEMMA SummaryIsOwnWork ==
  ASSUME EngineInv, NEW j \in DOMAIN running, running[j] = "model", WritesSummary(j),
         UNCHANGED exposed
  PROVE  OwnWork(j)
<1> USE DEF EngineInv
<1>0. j.kind = "summary" /\ UNCHANGED <<embedded, vectors>>
      /\ forest' = [forest EXCEPT ![j.doc] = Merged(@, j.at)]
  BY DEF WritesSummary
<1> DEFINE F == forest[j.doc]
<1>1. j \in Job /\ WellMade(j) /\ (j.doc \notin exposed => Needed(j))
  BY DEF TasksTyped, Claimed
<1>2. /\ j.doc \in Docs /\ j.at \in Coordinates /\ j.at[2] % 2 = 0
      /\ j.doc \notin exposed => j.at \in F /\ SiblingOf(j.at) \in F
  BY <1>0, <1>1, JobRecords DEF WellMade, Needed, StillNeeded
<1>3. F \in SUBSET Coordinates /\ IsFiniteSet(F) /\ (j.doc \notin exposed => Supported(F))
      /\ embedded[j.doc] \subseteq LeavesOf(F)
  BY <1>2 DEF StoreTyped, Standing
<1> HIDE DEF F
<1>4. /\ Merged(F, j.at) \in SUBSET Coordinates /\ IsFiniteSet(Merged(F, j.at))
      /\ j.doc \notin exposed => Supported(Merged(F, j.at))
  BY <1>2, <1>3, SummarySupports, MergedIsTyped
<1>5. LeavesOf(Merged(F, j.at)) = LeavesOf(F)
  <2>1. ParentOf(j.at)[1] # 0
    BY <1>2 DEF ParentOf, Coordinates
  <2> QED BY <2>1 DEF LeavesOf, Merged
<1>6. /\ forest'[j.doc] = Merged(F, j.at)
      /\ \A d \in Docs : d # j.doc => forest'[d] = forest[d]
      /\ forest' \in [Docs -> SUBSET Coordinates]
  BY <1>0, <1>2, <1>4 DEF StoreTyped, F
<1>7. StoreTyped' /\ Standing'
  BY <1>0, <1>2, <1>3, <1>4, <1>5, <1>6 DEF StoreTyped, Standing
<1>8. ASSUME NEW k \in Job, k # j, WellMade(k), k.doc \notin exposed, Needed(k) PROVE Needed(k)'
  <2>1. k.doc \in Docs /\ k.kind \in {"embed", "summary"} /\ k.at \in Coordinates
    BY <1>8, JobRecords
  <2>2. CASE k.doc # j.doc
    <3>1. forest'[k.doc] = forest[k.doc]
      BY <1>6, <2>1, <2>2
    <3> QED BY <1>0, <1>8, <3>1 DEF Needed, StillNeeded
  <2>3. CASE k.doc = j.doc
    <3>1. forest'[k.doc] = F \cup {ParentOf(j.at)} /\ forest[k.doc] = F
      BY <1>6, <2>3 DEF Merged, F
    <3>2. k.kind = "summary" => k.at[2] % 2 = 0 /\ k.at # j.at
      BY <1>0, <1>1, <1>8, <2>3, JobRecords DEF WellMade
    <3>3. k.kind = "summary" => ParentOf(k.at) # ParentOf(j.at)
      BY <1>2, <2>1, <3>2, SameParent
    <3> QED BY <1>0, <1>8, <2>1, <3>1, <3>3 DEF Needed, StillNeeded
  <2> QED BY <2>2, <2>3
<1> QED BY <1>5, <1>6, <1>7, <1>8 DEF OwnWork, F

LEMMA JobWritesKeeps ==
  ASSUME EngineInv, NEW j \in DOMAIN running, JobWrites(j)
  PROVE  EngineInv'
<1>0. running[j] \in {"new", "model"} /\ UNCHANGED exposed /\ BoundsTyped'
  BY DEF JobWrites, EngineInv, BoundsTyped, bounds, history
<1>1. CASE WritesEmbedding(j)
  <2>1. vectors' \in [Docs -> SUBSET Coordinates]
    <3>1. j.doc \in Docs /\ j.at \in Coordinates
      BY JobRecords DEF EngineInv, TasksTyped
    <3> QED BY <1>1, <3>1 DEF WritesEmbedding, EngineInv, StoreTyped
  <2>2. OwnWork(j)
    BY <1>0, <1>1, <2>1, EmbeddingIsOwnWork DEF WritesEmbedding
  <2> QED BY <1>0, <2>2, JobIsDone DEF JobWrites
<1>2. CASE WritesSummary(j)
  <2>1. OwnWork(j)
    BY <1>0, <1>2, SummaryIsOwnWork DEF JobWrites
  <2> QED BY <1>0, <2>1, JobIsDone DEF JobWrites
<1> QED BY <1>1, <1>2 DEF JobWrites

LEMMA JobFailsKeeps ==
  ASSUME EngineInv, EngineAssumption, NEW j \in DOMAIN running, JobFails(j)
  PROVE  EngineInv'
<1>1. BoundsTyped'
  BY DEF JobFails, EngineInv, BoundsTyped, EngineAssumption
<1>0. UNCHANGED exposed
  BY DEF JobFails, history
<1>2. OwnWork(j)
  <2>1. CASE UNCHANGED embedded
    BY <1>0, <2>1, NothingIsOwnWork DEF JobFails, store
  <2>2. CASE j.kind = "embed" /\ embedded' = [embedded EXCEPT ![j.doc] = @ \cup ({j.at} \cap forest[j.doc])]
    BY <1>0, <2>2, EmbeddingIsOwnWork DEF JobFails, EngineInv, StoreTyped
  <2> QED BY <2>1, <2>2 DEF JobFails
<1> QED BY <1>0, <1>1, <1>2, JobIsDone DEF JobFails

LEMMA JobEndsKeeps ==
  ASSUME EngineInv, NEW j \in DOMAIN running, JobEnds(j)
  PROVE  EngineInv'
<1> USE DEF EngineInv
<1>0. /\ running[j] \in {"done", "failed"} /\ Holds(TheJob(j)) /\ Leave
      /\ UNCHANGED <<forest, embedded, vectors, added, ops, faults, context, activeDocs, round, finder, exposed>>
      /\ scheduling' = TRUE /\ dirty' = dirty \cup PutUp(j)
  BY DEF JobEnds, store, bounds
<1>1. /\ j \in Job /\ j.doc \in Docs
      /\ DOMAIN running' = DOMAIN running \ {j}
      /\ \A k \in DOMAIN running : k # j => running'[k] = running[k]
  BY JobRecords DEF JobEnds, TasksTyped
<1>2. Moved(TheJob(j))
  BY <1>0, <1>1, NamesAreTasks, QueueMoves DEF TasksTyped
<1>3. /\ ~Waiting(lockQ', TheJob(j)) /\ Once(lockQ', TheJob(j))
      /\ \A y : ~Ahead(lockQ, y, TheJob(j))
  <2>1. lockQ \in Seq(Tasks) /\ TheJob(j) \in Tasks /\ Once(lockQ, TheJob(j))
    BY <1>1, NamesAreTasks DEF TasksTyped, Queued
  <2> QED BY <1>0, <2>1, LeavesQueue
<1>4. Stirred /\ idleEvent' \in BOOLEAN
  BY NotifyStirs DEF JobEnds
<1>5. StoreTyped' /\ Standing' /\ BoundsTyped'
  BY <1>0 DEF StoreTyped, Standing, BoundsTyped
<1>6. /\ running' \in [DOMAIN running' -> {"new", "model", "done", "failed"}]
      /\ DOMAIN running' \subseteq Job /\ IsFiniteSet(DOMAIN running')
      /\ Cardinality(DOMAIN running') <= MaxParallelism
  <2>1. running' = [k \in DOMAIN running \ {j} |-> running[k]]
    BY DEF JobEnds
  <2>2. \A k \in DOMAIN running : running[k] \in {"new", "model", "done", "failed"}
    BY DEF TasksTyped
  <2>3. running' \in [DOMAIN running' -> {"new", "model", "done", "failed"}]
    BY <1>1, <2>1, <2>2
  <2>4. IsFiniteSet(DOMAIN running) /\ DOMAIN running' \in SUBSET DOMAIN running
    BY <1>1 DEF TasksTyped
  <2>5. /\ IsFiniteSet(DOMAIN running') /\ Cardinality(DOMAIN running') <= Cardinality(DOMAIN running)
        /\ Cardinality(DOMAIN running') \in Nat /\ Cardinality(DOMAIN running) \in Nat
    BY <2>4, FS_Subset, FS_CardinalityType
  <2>6. Cardinality(DOMAIN running') <= MaxParallelism
    BY <2>5, EngineAssumption DEF Slots, EngineAssumption
  <2> QED BY <2>3, <2>4, <2>5, <2>6 DEF TasksTyped
<1>7. TasksTyped' /\ Slots'
  BY <1>0, <1>1, <1>2, <1>4, <1>6 DEF TasksTyped, Slots, Stirred, ClientRecords, Moved, PutUp
<1>8. Queued'
  <2>1. ASSUME NEW g \in Workers
        PROVE  /\ finder'[g].pc = "sleep" => Holds(TheFinder(g))'
               /\ finder'[g].pc = "claim" => Waiting(lockQ', TheFinder(g))
    BY <1>0, <1>2, NamesDiffer DEF Queued, Moved
  <2>2. ASSUME NEW k \in Job
        PROVE  /\ Once(lockQ', TheJob(k))
               /\ Waiting(lockQ', TheJob(k)) => k \in DOMAIN running' /\ running'[k] \in {"done", "failed"}
    <3>1. CASE k = j
      BY <1>3, <3>1
    <3>2. CASE k # j
      BY <1>1, <1>2, <3>2, NamesDiffer DEF Queued, Moved
    <3> QED BY <3>1, <3>2
  <2>3. ASSUME NEW c \in Clients
        PROVE  /\ Once(lockQ', TheClient(c))
               /\ Waiting(lockQ', TheClient(c)) =>
                    client'[c].pc \in {"trigger", "cancel", "check", "drop"}
    BY <1>2, <1>4, NamesDiffer DEF Queued, Moved, Stirred
  <2> QED BY <2>1, <2>2, <2>3 DEF Queued
<1>9. OneOperation'
  BY <1>4 DEF OneOperation, Stirred
<1>10. Claimed'
  BY <1>0, <1>1, SameWork DEF Claimed
<1>11. Found'
  <2> SUFFICES ASSUME NEW g \in Workers, finder'[g].pc = "claim"
               PROVE  /\ IsFiniteSet(finder'[g].found) /\ Untied(finder'[g].found)
                      /\ \A k \in finder'[g].found :
                           /\ k.doc = finder'[g].doc
                           /\ WellMade(k)
                           /\ \/ k.doc \in exposed' \/ Needed(k)'
                              \/ k \in DOMAIN running' /\ running'[k] \in {"done", "failed"}
                                 /\ Ahead(lockQ', TheFinder(g), TheJob(k))
    BY DEF Found
  <2>1. finder'[g] = finder[g] /\ finder[g].pc = "claim"
    BY <1>0
  <2>2. \A k : Ahead(lockQ, TheFinder(g), TheJob(k)) => Ahead(lockQ', TheFinder(g), TheJob(k)) /\ k # j
    BY <1>2, <1>3, NamesDiffer DEF Moved
  <2>3. \A k \in DOMAIN running : k # j => k \in DOMAIN running' /\ running'[k] = running[k]
    BY <1>1
  <2>4. \A k : Needed(k)' <=> Needed(k)
    BY <1>0, SameWork
  <2> QED BY <1>0, <2>1, <2>2, <2>3, <2>4 DEF Found
<1>12. Truncating'
  <2> SUFFICES ASSUME NEW c \in Clients PROVE Cancelled(c)'
    BY DEF Truncating
  <2>1. /\ client'[c].doc = client[c].doc /\ client'[c].keep = client[c].keep
        /\ client'[c].pc = client[c].pc \/ (client[c].pc = "asleep" /\ client'[c].pc = "woken")
    BY <1>4 DEF Stirred
  <2>2. \A g \in Workers : Ahead(lockQ, TheFinder(g), TheClient(c))
                           => Ahead(lockQ', TheFinder(g), TheClient(c))
    BY <1>2, NamesDiffer DEF Moved
  <2>3. Cancelled(c) /\ \A e : JobsOf(e)' \subseteq JobsOf(e)
    BY <1>1 DEF Truncating, JobsOf
  <2>4. \A e : Deserted(e) => Deserted(e)'
    <3>1. \A e : Deserted(e) => e # j.doc
      BY DEF Deserted, HasWorkLeft, JobsOf
    <3> QED BY <1>0, <2>3, <3>1 DEF Deserted, HasWorkLeft, PutUp
  <2> QED BY <1>0, <2>1, <2>2, <2>3, <2>4, WaitGoesOn DEF Claiming
<1> QED BY <1>5, <1>7, <1>8, <1>9, <1>10, <1>11, <1>12

LEMMA JobKeeps ==
  ASSUME EngineInv, EngineAssumption, NEW j \in DOMAIN running, JobSteps(j) \/ JobFails(j)
  PROVE  EngineInv'
BY JobStartsKeeps, JobWritesKeeps, JobEndsKeeps, JobFailsKeeps DEF JobSteps
-----------------------------------------------------------------------------
(* Steps of a client *)

\* The jobs that run, or that a finder may be about to start.
AtWork(k) == k \in DOMAIN running \/ \E f \in Workers : Claiming(f, k.doc)

\* The work under way is still to be done.
WorkStands ==
  \A k \in Job : WellMade(k) /\ k.doc \notin exposed' /\ Needed(k) /\ AtWork(k) => Needed(k)'

\* Client c, alone with document d, takes a step.
ClientActs(c, d) ==
  /\ client' \in [Clients -> ClientRecords]
  /\ \A e \in Clients : e # c =>
       client'[e] = client[e] /\ (client[e].pc # "idle" => client[e].doc # d)
  /\ context' \in [Docs -> {"none", "live", "cancelled"}]
  /\ \A e \in Docs : e # d => context'[e] = context[e] /\ forest'[e] = forest[e]
  /\ activeDocs' \subseteq activeDocs \cup {d} /\ idleEvent' \in BOOLEAN
  /\ finder' \in [Workers -> Scans \cup {Off}]
  /\ \A g \in Workers :
       finder'[g] = finder[g] \/ (finder'[g].pc = "begin" /\ finder'[g].doc = d)
  /\ UNCHANGED <<running, dirty, scheduling, round>>

\* What it leaves of the work, and of its own place in the queue.
ActsSoundly(c, d) ==
  /\ StoreTyped' /\ Standing' /\ BoundsTyped' /\ exposed \subseteq exposed'
  /\ WorkStands
  /\ Once(lockQ', TheClient(c))
  /\ Waiting(lockQ', TheClient(c)) => client'[c].pc \in {"trigger", "cancel", "check", "drop"}
  /\ client'[c].pc # "idle" => client'[c].doc = d
  /\ Cancelled(c)'

LEMMA ClientsKeep ==
  ASSUME EngineInv, NEW c \in Clients, NEW d \in Docs, ClientActs(c, d), ActsSoundly(c, d),
         Moved(TheClient(c))
  PROVE  EngineInv'
<1> USE DEF EngineInv
<1>0. UNCHANGED running
  BY DEF ClientActs
<1>1. TasksTyped'
  BY DEF TasksTyped, ClientActs, Moved, ClientRecords
<1>2. \A g \in Workers : finder'[g].pc \in {"sleep", "claim"} => finder'[g] = finder[g]
  BY DEF ClientActs
<1>3. Slots'
  BY <1>0 DEF Slots
<1>4. Queued'
  <2>1. ASSUME NEW g \in Workers
        PROVE  /\ finder'[g].pc = "sleep" => Holds(TheFinder(g))'
               /\ finder'[g].pc = "claim" => Waiting(lockQ', TheFinder(g))
    BY <1>2, NamesDiffer DEF Queued, Moved
  <2>2. ASSUME NEW k \in Job
        PROVE  /\ Once(lockQ', TheJob(k))
               /\ Waiting(lockQ', TheJob(k)) => k \in DOMAIN running' /\ running'[k] \in {"done", "failed"}
    BY <1>0, NamesDiffer DEF Queued, Moved
  <2>3. ASSUME NEW e \in Clients
        PROVE  /\ Once(lockQ', TheClient(e))
               /\ Waiting(lockQ', TheClient(e)) =>
                    client'[e].pc \in {"trigger", "cancel", "check", "drop"}
    <3>1. CASE e = c
      BY <3>1 DEF ActsSoundly
    <3>2. CASE e # c
      BY <3>2, NamesDiffer DEF Queued, Moved, ClientActs
    <3> QED BY <3>1, <3>2
  <2> QED BY <2>1, <2>2, <2>3 DEF Queued
<1>5. OneOperation'
  BY DEF OneOperation, ClientActs, ActsSoundly
<1>6. Claimed'
  BY <1>0 DEF Claimed, ActsSoundly, WorkStands, AtWork, TasksTyped
<1>7. Found'
  <2> SUFFICES ASSUME NEW g \in Workers, finder'[g].pc = "claim"
               PROVE  /\ IsFiniteSet(finder'[g].found) /\ Untied(finder'[g].found)
                      /\ \A k \in finder'[g].found :
                           /\ k.doc = finder'[g].doc
                           /\ WellMade(k)
                           /\ \/ k.doc \in exposed' \/ Needed(k)'
                              \/ k \in DOMAIN running' /\ running'[k] \in {"done", "failed"}
                                 /\ Ahead(lockQ', TheFinder(g), TheJob(k))
    BY DEF Found
  <2>1. finder'[g] = finder[g] /\ finder[g].pc = "claim"
    BY <1>2
  <2>2. finder[g].found \in SUBSET Job
    BY <2>1, BusyFinder DEF Scans
  <2>3. \A k : Ahead(lockQ, TheFinder(g), TheJob(k)) => Ahead(lockQ', TheFinder(g), TheJob(k))
    BY NamesDiffer DEF Moved
  <2>4. /\ IsFiniteSet(finder[g].found) /\ Untied(finder[g].found)
        /\ \A k \in finder[g].found :
             /\ k.doc = finder[g].doc
             /\ WellMade(k)
             /\ \/ k.doc \in exposed \/ Needed(k)
                \/ k \in DOMAIN running /\ running[k] \in {"done", "failed"}
                   /\ Ahead(lockQ, TheFinder(g), TheJob(k))
    BY <2>1 DEF Found
  <2>5. \A k \in finder[g].found : Needed(k) => k.doc \in exposed' \/ Needed(k)'
    BY <2>1, <2>2, <2>4 DEF ActsSoundly, WorkStands, AtWork, Claiming
  <2>6. exposed \subseteq exposed'
    BY DEF ActsSoundly
  <2> QED BY <1>0, <2>1, <2>3, <2>4, <2>5, <2>6
<1>8. Truncating'
  <2> SUFFICES ASSUME NEW e \in Clients PROVE Cancelled(e)'
    BY DEF Truncating
  <2>1. CASE e = c
    BY <2>1 DEF ActsSoundly
  <2>2. CASE e # c
    <3>1. client'[e] = client[e] /\ (client[e].pc # "idle" => client[e].doc # d)
      BY <2>2 DEF ClientActs
    <3>2. Cancelled(e) /\ exposed \subseteq exposed'
      BY DEF Truncating, ActsSoundly
    <3>3. \A g \in Workers : Ahead(lockQ, TheFinder(g), TheClient(e))
                             => Ahead(lockQ', TheFinder(g), TheClient(e))
      BY NamesDiffer DEF Moved
    <3>4. \A g \in Workers : \A x : Claiming(g, x)' => Claiming(g, x)
      BY <1>2 DEF Claiming
    <3>5. \A x : JobsOf(x)' = JobsOf(x)
      BY <1>0 DEF JobsOf
    <3>6. \A x : x # d /\ Deserted(x) => Deserted(x)'
      <4> SUFFICES ASSUME NEW x, x # d, Deserted(x) PROVE Deserted(x)'
        OBVIOUS
      <4>1. x \notin activeDocs' /\ x \notin dirty' \cup round' /\ JobsOf(x)' = {}
        BY <3>5 DEF Deserted, HasWorkLeft, ClientActs
      <4>2. \A g \in Workers : finder'[g] = Off \/ finder'[g].doc # x
        BY DEF Deserted, HasWorkLeft, ClientActs, Workers
      <4> QED BY <4>1, <4>2 DEF Deserted, HasWorkLeft, Workers
    <3>7. client[e].pc = "cancel" \/ Waits(e) =>
            /\ client[e].doc \in Docs /\ client[e].doc # d
            /\ context'[client[e].doc] = context[client[e].doc]
            /\ forest'[client[e].doc] = forest[client[e].doc]
      <4>1. client[e].pc = "cancel" \/ Waits(e) => client[e].doc \in Docs
        BY TruncationDoc
      <4>2. client[e].pc = "cancel" \/ Waits(e) => client[e].pc # "idle"
        BY DEF Waits
      <4> QED BY <3>1, <4>1, <4>2 DEF ClientActs
    <3>8. TasksTyped
      OBVIOUS
    <3> HIDE DEF EngineInv
    <3> QED BY <3>1, <3>2, <3>3, <3>4, <3>5, <3>6, <3>7, <3>8, WaitGoesOn
  <2> QED BY <2>1, <2>2
<1> QED BY <1>1, <1>3, <1>4, <1>5, <1>6, <1>7, <1>8 DEF ActsSoundly

LEMMA QueueStays ==
  ASSUME lockQ \in Seq(Tasks), UNCHANGED lockQ, NEW x
  PROVE  Moved(x)
BY DEF Moved, Holds

LEMMA TruncationRecord ==
  ASSUME TasksTyped, NEW c \in Clients,
         client[c].pc \in {"cancel", "check", "arm", "asleep", "woken", "drop"}
  PROVE  /\ client[c] \in Truncations /\ client[c].doc \in Docs /\ client[c].keep \in Nat
         /\ \A p \in {"cancel", "check", "arm", "asleep", "woken", "drop"} :
              LET r == [client[c] EXCEPT !.pc = p]
              IN  r \in ClientRecords /\ r.pc = p /\ r.doc = client[c].doc /\ r.keep = client[c].keep
<1>1. client[c] \in Truncations
  BY DEF TasksTyped, Appendings, Idle
<1>2. client[c].doc \in Docs /\ client[c].keep \in Nat
  BY <1>1 DEF Truncations
<1>3. ASSUME NEW p \in {"cancel", "check", "arm", "asleep", "woken", "drop"},
             NEW r, r = [client[c] EXCEPT !.pc = p]
      PROVE  r \in ClientRecords /\ r.pc = p /\ r.doc = client[c].doc /\ r.keep = client[c].keep
  <2>1. r \in Truncations /\ r.pc = p /\ r.doc = client[c].doc /\ r.keep = client[c].keep
    BY <1>1, <1>3 DEF Truncations
  <2> QED BY <2>1 DEF ClientRecords
<1> QED BY <1>1, <1>2, <1>3

LEMMA IdleIsARecord == Idle \in ClientRecords /\ Idle.pc = "idle"
BY DEF Idle, ClientRecords

LEMMA ClientTyped ==
  ASSUME TasksTyped, NEW c \in Clients, NEW r \in ClientRecords, client' = [client EXCEPT ![c] = r]
  PROVE  /\ client' \in [Clients -> ClientRecords] /\ client'[c] = r
         /\ \A e \in Clients : e # c => client'[e] = client[e]
BY DEF TasksTyped, ClientRecords

\* An idle client is no truncation.
LEMMA IdleIsFree ==
  ASSUME NEW c, client'[c].pc \in {"idle", "trigger"}
  PROVE  Cancelled(c)'
BY DEF Cancelled, Waits

\* Without a write the work stays, and so do the types of the store.
LEMMA NoWrite ==
  ASSUME EngineInv, UNCHANGED store, exposed \subseteq exposed'
  PROVE  /\ StoreTyped' /\ Standing' /\ WorkStands
         /\ UNCHANGED <<forest, embedded, vectors>>
<1>1. UNCHANGED <<forest, embedded, vectors>>
  BY DEF store
<1> QED BY <1>1, SameWork DEF EngineInv, StoreTyped, Standing, WorkStands

\* The other clients are busy with other documents.
LEMMA OthersElsewhere ==
  ASSUME EngineInv, NEW c \in Clients, client[c].pc # "idle"
  PROVE  \A e \in Clients : e # c /\ client[e].pc # "idle" => client[e].doc # client[c].doc
BY DEF EngineInv, OneOperation

LEMMA AppendsKeeps ==
  ASSUME EngineInv, EngineAssumption, ClientsTakeTurns,
         NEW c \in Clients, NEW d \in Docs, NEW k \in 1 .. MaxBatch, Appends(c, d, k)
  PROVE  EngineInv'
<1> DEFINE op == [pc |-> "trigger", doc |-> d]
           F == forest[d]
<1>1. /\ client[c].pc = "idle" /\ client' = [client EXCEPT ![c] = op] /\ Join(TheClient(c))
      /\ \A e \in Clients : client[e].pc # "idle" => client[e].doc # d
      /\ forest' = [forest EXCEPT ![d] = Grown(@, k)]
      /\ UNCHANGED <<context, activeDocs, running, dirty, scheduling, round, finder>>
      /\ UNCHANGED <<embedded, vectors, idleEvent, faults, exposed>>
  BY DEF Appends, Starts, engine, history, ClientsTakeTurns
<1>2. F \in SUBSET Coordinates /\ IsFiniteSet(F) /\ (d \notin exposed => Supported(F)) /\ k \in Nat
      /\ embedded[d] \subseteq LeavesOf(F)
  BY DEF EngineInv, StoreTyped, Standing
<1>3. PICK L \in SUBSET Coordinates : /\ IsFiniteSet(L) /\ \A x \in L : x[1] = 0
                                     /\ Grown(F, k) = F \cup L
  BY <1>2, GrownIsTyped
<1>4. /\ forest' \in [Docs -> SUBSET Coordinates] /\ forest'[d] = F \cup L
      /\ \A e \in Docs : e # d => forest'[e] = forest[e]
  BY <1>1, <1>2, <1>3 DEF EngineInv, StoreTyped
<1> HIDE DEF F
<1>5. StoreTyped'
  <2>1. LeavesOf(F) \subseteq LeavesOf(F \cup L)
    BY DEF LeavesOf
  <2>2. IsFiniteSet(F \cup L)
    BY <1>2, <1>3, FS_Union
  <2>3. \A e \in Docs : IsFiniteSet(forest'[e]) /\ embedded[e] \subseteq LeavesOf(forest'[e])
    BY <1>2, <1>4, <2>1, <2>2 DEF EngineInv, StoreTyped
  <2> QED BY <1>1, <1>4, <2>3 DEF EngineInv, StoreTyped
<1>6. Standing'
  <2>1. d \notin exposed => Supported(F \cup L)
    BY <1>2, <1>3, LeavesSupport
  <2>2. \A e \in Docs \ exposed : Supported(forest'[e])
    BY <1>4, <2>1 DEF EngineInv, Standing
  <2> QED BY <1>1, <2>2 DEF Standing
<1>7. BoundsTyped'
  BY <1>1 DEF EngineInv, BoundsTyped, Appends, Starts, EngineAssumption
<1>8. ASSUME NEW j \in Job, WellMade(j), Needed(j) PROVE Needed(j)'
  <2>1. j.doc \in Docs /\ j.at \in Coordinates
    BY JobRecords
  <2>2. forest[j.doc] \subseteq forest'[j.doc]
    BY <1>4, <2>1 DEF F
  <2>3. ParentOf(j.at)[1] # 0
    BY <2>1 DEF ParentOf, Coordinates
  <2>4. ParentOf(j.at) \in forest'[j.doc] => ParentOf(j.at) \in forest[j.doc]
    BY <1>3, <1>4, <2>1, <2>3 DEF F
  <2> QED BY <1>1, <1>8, <2>2, <2>4 DEF Needed, StillNeeded
<1>9. op \in ClientRecords /\ op.pc = "trigger" /\ op.doc = d
  BY DEF ClientRecords, Appendings
<1> HIDE DEF op
<1>10. TasksTyped
  BY DEF EngineInv
<1>11. /\ client' \in [Clients -> ClientRecords] /\ client'[c] = op
       /\ \A e \in Clients : e # c => client'[e] = client[e]
  BY <1>1, <1>9, <1>10, ClientTyped
<1>12. lockQ \in Seq(Tasks) /\ TheClient(c) \in Tasks /\ ~Waiting(lockQ, TheClient(c))
  BY <1>1, NamesAreTasks DEF EngineInv, TasksTyped, Queued
<1>13. Moved(TheClient(c)) /\ Once(lockQ', TheClient(c))
  BY <1>1, <1>12, QueueMoves, JoinsBehind
<1>14. ClientActs(c, d)
  BY <1>1, <1>4, <1>10, <1>11 DEF ClientActs, TasksTyped
<1>15. ActsSoundly(c, d)
  BY <1>1, <1>5, <1>6, <1>7, <1>8, <1>9, <1>11, <1>13, IdleIsFree DEF ActsSoundly, WorkStands
<1> QED BY <1>13, <1>14, <1>15, ClientsKeep

LEMMA TruncatesKeeps ==
  ASSUME EngineInv, EngineAssumption, ClientsTakeTurns,
         NEW c \in Clients, NEW d \in Docs, NEW n \in 0 .. MaxLeaves, Truncates(c, d, n)
  PROVE  EngineInv'
<1> DEFINE op == [pc |-> "cancel", doc |-> d, keep |-> n]
<1>1. /\ client[c].pc = "idle" /\ client' = [client EXCEPT ![c] = op] /\ Join(TheClient(c))
      /\ \A e \in Clients : client[e].pc # "idle" => client[e].doc # d
      /\ n <= Cardinality(LeavesOf(forest[d]))
      /\ UNCHANGED <<context, activeDocs, running, dirty, scheduling, round, finder>>
      /\ UNCHANGED <<store, idleEvent, faults, added, exposed>>
  BY DEF Truncates, Starts, engine, history, ClientsTakeTurns, store
<1>2. op \in ClientRecords /\ op.pc = "cancel" /\ op.doc = d /\ op.keep = n
  <2>1. n \in Nat
    BY DEF EngineAssumption
  <2> QED BY <2>1 DEF ClientRecords, Truncations
<1> HIDE DEF op
<1>3. BoundsTyped'
  BY <1>1 DEF EngineInv, BoundsTyped, Truncates, Starts, EngineAssumption
<1>4. TasksTyped
  BY DEF EngineInv
<1>5. /\ client' \in [Clients -> ClientRecords] /\ client'[c] = op
      /\ \A e \in Clients : e # c => client'[e] = client[e]
  BY <1>1, <1>2, <1>4, ClientTyped
<1>6. lockQ \in Seq(Tasks) /\ TheClient(c) \in Tasks /\ ~Waiting(lockQ, TheClient(c))
  BY <1>1, NamesAreTasks DEF EngineInv, TasksTyped, Queued
<1>7. Moved(TheClient(c)) /\ Once(lockQ', TheClient(c))
  BY <1>1, <1>6, QueueMoves, JoinsBehind
<1>8. StoreTyped' /\ Standing' /\ WorkStands /\ UNCHANGED <<forest, embedded, vectors>>
  BY <1>1, NoWrite
<1>9. ClientActs(c, d)
  BY <1>1, <1>4, <1>5, <1>8 DEF ClientActs, TasksTyped
<1>10. Cancelled(c)'
  BY <1>1, <1>2, <1>5, <1>8 DEF Cancelled, Waits
<1>11. ActsSoundly(c, d)
  BY <1>1, <1>2, <1>3, <1>5, <1>7, <1>8, <1>10 DEF ActsSoundly
<1> QED BY <1>7, <1>9, <1>11, ClientsKeep

LEMMA TriggersKeeps ==
  ASSUME EngineInv, NEW c \in Clients, Triggers(c)
  PROVE  EngineInv'
<1> DEFINE d == client[c].doc
           m == Min({f \in Finders : finder[f] = Off})
<1>1. /\ client[c].pc = "trigger" /\ Holds(TheClient(c)) /\ Leave
      /\ context' = [context EXCEPT ![d] = "live"]
      /\ activeDocs' = activeDocs \cup {d} /\ idleEvent' = FALSE
      /\ finder' = [finder EXCEPT ![m] = Begin(d)]
      /\ client' = [client EXCEPT ![c] = Idle]
      /\ UNCHANGED <<running, dirty, scheduling, round>>
      /\ UNCHANGED store /\ UNCHANGED <<added, ops, faults, exposed>>
  BY DEF Triggers, bounds
<1>2. TasksTyped
  BY DEF EngineInv
<1>3. d \in Docs
  BY <1>1, <1>2 DEF TasksTyped, Truncations, Appendings, Idle
<1> HIDE DEF m, d
<1>4. finder' \in [Workers -> Scans \cup {Off}]
      /\ \A g \in Workers :
           finder'[g] = finder[g] \/ (finder'[g].pc = "begin" /\ finder'[g].doc = d)
  <2>1. Begin(d) \in Scans /\ Begin(d).pc = "begin" /\ Begin(d).doc = d
    BY <1>3, BeginRecord DEF Begin
  <2> QED BY <1>1, <1>2, <2>1 DEF TasksTyped
<1>5. /\ client' \in [Clients -> ClientRecords] /\ client'[c] = Idle
      /\ \A e \in Clients : e # c => client'[e] = client[e]
  BY <1>1, <1>2, IdleIsARecord, ClientTyped
<1>6. lockQ \in Seq(Tasks) /\ TheClient(c) \in Tasks /\ Once(lockQ, TheClient(c))
  BY NamesAreTasks DEF EngineInv, TasksTyped, Queued
<1>7. Moved(TheClient(c)) /\ Once(lockQ', TheClient(c)) /\ ~Waiting(lockQ', TheClient(c))
  BY <1>1, <1>6, QueueMoves, LeavesQueue
<1>8. StoreTyped' /\ Standing' /\ WorkStands /\ UNCHANGED <<forest, embedded, vectors>>
  BY <1>1, NoWrite
<1>9. \A e \in Clients : e # c /\ client[e].pc # "idle" => client[e].doc # d
  BY <1>1, OthersElsewhere DEF d
<1>10. ClientActs(c, d)
  BY <1>1, <1>2, <1>3, <1>4, <1>5, <1>8, <1>9 DEF ClientActs, TasksTyped
<1>11. BoundsTyped'
  BY <1>1 DEF EngineInv, BoundsTyped
<1>12. ActsSoundly(c, d)
  BY <1>1, <1>5, <1>7, <1>8, <1>11, IdleIsARecord, IdleIsFree DEF ActsSoundly
<1> QED BY <1>3, <1>7, <1>10, <1>12, ClientsKeep

LEMMA CancelsKeeps ==
  ASSUME EngineInv, NEW c \in Clients, Cancels(c)
  PROVE  EngineInv'
<1>0. PICK d : d = client[c].doc
  OBVIOUS
<1> DEFINE r == [client[c] EXCEPT !.pc = "check"]
<1>1. /\ client[c].pc = "cancel" /\ Holds(TheClient(c)) /\ Rejoin(TheClient(c))
      /\ context' = [context EXCEPT ![d] = IF @ = "none" THEN @ ELSE "cancelled"]
      /\ activeDocs' = activeDocs \ {d} /\ client' = [client EXCEPT ![c] = r]
      /\ UNCHANGED <<running, dirty, scheduling, round, finder, idleEvent>>
      /\ UNCHANGED store /\ UNCHANGED <<added, ops, faults>>
      /\ exposed' = IF context[d] = "none" /\ HasWorkLeft(d) THEN exposed \cup {d} ELSE exposed
  BY <1>0 DEF Cancels, bounds
<1>2. TasksTyped /\ Cancelled(c)
  BY DEF EngineInv, Truncating
<1>3. d \in Docs /\ r \in ClientRecords /\ r.pc = "check" /\ r.doc = d /\ r.keep = client[c].keep
  BY <1>0, <1>1, <1>2, TruncationRecord
<1> HIDE DEF r
<1>4. /\ client' \in [Clients -> ClientRecords] /\ client'[c] = r
      /\ \A e \in Clients : e # c => client'[e] = client[e]
  BY <1>1, <1>2, <1>3, ClientTyped
<1>5. lockQ \in Seq(Tasks) /\ TheClient(c) \in Tasks /\ Once(lockQ, TheClient(c))
  BY NamesAreTasks DEF EngineInv, TasksTyped, Queued
<1>6. Moved(TheClient(c))
  BY <1>1, <1>5, QueueMoves
<1>7. /\ Once(lockQ', TheClient(c))
      /\ \A f : Waiting(lockQ, TheFinder(f)) => Ahead(lockQ', TheFinder(f), TheClient(c))
  BY <1>1, <1>5, RejoinsBehind, NamesDiffer
<1>8. StoreTyped' /\ Standing' /\ WorkStands /\ UNCHANGED <<forest, embedded, vectors>>
  BY <1>1, NoWrite
<1>9. /\ context' \in [Docs -> {"none", "live", "cancelled"}]
      /\ context'[d] = IF context[d] = "none" THEN "none" ELSE "cancelled"
      /\ \A e \in Docs : e # d => context'[e] = context[e]
  BY <1>1, <1>2, <1>3 DEF TasksTyped
<1>10. \A e \in Clients : e # c /\ client[e].pc # "idle" => client[e].doc # d
  BY <1>0, <1>1, OthersElsewhere
<1>11. ClientActs(c, d)
  BY <1>1, <1>2, <1>3, <1>4, <1>8, <1>9, <1>10 DEF ClientActs, TasksTyped
<1>12. Cancelled(c)'
  <2>1. \A f \in Workers : Claiming(f, d)' => Ahead(lockQ', TheFinder(f), TheClient(c))
    BY <1>1, <1>7 DEF EngineInv, Queued, Claiming
  <2>2. client[c].keep <= Cardinality(LeavesOf(forest[d]))
    BY <1>0, <1>1, <1>2 DEF Cancelled
  <2>3. ASSUME d \notin exposed', context'[d] = "none" PROVE Deserted(d)'
    <3>1. ~HasWorkLeft(d) /\ d \notin activeDocs'
      BY <1>1, <1>9, <2>3
    <3>2. HasWorkLeft(d)' <=> HasWorkLeft(d)
      BY <1>1 DEF HasWorkLeft, JobsOf
    <3> QED BY <3>1, <3>2 DEF Deserted
  <2>4. client'[c].doc = d /\ client'[c].pc = "check" /\ client'[c].keep = client[c].keep
    BY <1>3, <1>4
  <2> QED BY <1>8, <1>9, <2>1, <2>2, <2>3, <2>4 DEF Cancelled, Waits
<1>13. BoundsTyped'
  BY <1>1 DEF EngineInv, BoundsTyped
<1>14. ActsSoundly(c, d)
  BY <1>1, <1>3, <1>4, <1>7, <1>8, <1>12, <1>13 DEF ActsSoundly
<1> QED BY <1>3, <1>6, <1>11, <1>14, ClientsKeep

\* A truncation that waits: nobody may claim a job of its document any more.
LEMMA WaitKeeps ==
  ASSUME EngineInv, NEW c \in Clients, client[c].pc \in {"check", "arm", "asleep", "woken"},
         NEW p \in {"check", "arm", "asleep", "woken", "drop"},
         client' = [client EXCEPT ![c].pc = p],
         UNCHANGED <<store, engine, bounds, exposed>>, idleEvent' \in BOOLEAN,
         Moved(TheClient(c)), Once(lockQ', TheClient(c)),
         Waiting(lockQ', TheClient(c)) => p \in {"check", "drop"},
         client[c].doc \notin exposed => \A f \in Workers : ~Claiming(f, client[c].doc),
         p = "drop" => JobsOf(client[c].doc) = {}
  PROVE  EngineInv'
<1>0. PICK d : d = client[c].doc
  OBVIOUS
<1> DEFINE r == [client[c] EXCEPT !.pc = p]
<1>1. /\ client' = [client EXCEPT ![c] = r]
      /\ UNCHANGED <<context, activeDocs, running, dirty, scheduling, round, finder>>
      /\ UNCHANGED store /\ UNCHANGED <<added, ops, faults, exposed>>
  BY DEF engine, bounds
<1>2. TasksTyped /\ Cancelled(c)
  BY DEF EngineInv, Truncating
<1>3. d \in Docs /\ r \in ClientRecords /\ r.pc = p /\ r.doc = d /\ r.keep = client[c].keep
  <2>1. client[c].pc \in {"cancel", "check", "arm", "asleep", "woken", "drop"}
        /\ p \in {"cancel", "check", "arm", "asleep", "woken", "drop"}
    OBVIOUS
  <2>2. client[c].doc \in Docs
    BY <1>2, <2>1, TruncationRecord
  <2>3. r \in ClientRecords /\ r.pc = p /\ r.doc = client[c].doc /\ r.keep = client[c].keep
    BY <1>2, <2>1, TruncationRecord
  <2> HIDE DEF r
  <2> QED BY <1>0, <2>2, <2>3
<1> HIDE DEF r
<1>4. /\ client' \in [Clients -> ClientRecords] /\ client'[c] = r
      /\ \A e \in Clients : e # c => client'[e] = client[e]
  <2> QED BY <1>1, <1>2, <1>3, ClientTyped
<1>5. StoreTyped' /\ Standing' /\ WorkStands /\ UNCHANGED <<forest, embedded, vectors>>
  BY <1>1, NoWrite
<1>6. \A e \in Clients : e # c /\ client[e].pc # "idle" => client[e].doc # d
  BY <1>0, OthersElsewhere
<1>7. ClientActs(c, d)
  BY <1>1, <1>2, <1>3, <1>4, <1>5, <1>6 DEF ClientActs, TasksTyped
<1>8. Cancelled(c)'
  <2>1. /\ client[c].keep <= Cardinality(LeavesOf(forest[d]))
        /\ d \notin exposed => context[d] = "cancelled" \/ (context[d] = "none" /\ Deserted(d))
    BY <1>0, <1>2 DEF Cancelled, Waits
  <2>2. /\ JobsOf(d)' = JobsOf(d) /\ (Deserted(d) => Deserted(d)')
        /\ \A f \in Workers : Claiming(f, d)' <=> Claiming(f, d)
    BY <1>1 DEF JobsOf, Deserted, HasWorkLeft, Claiming
  <2>3. client'[c].doc = d /\ client'[c].pc = p /\ client'[c].keep = client[c].keep
    BY <1>3, <1>4
  <2> QED BY <1>0, <1>1, <1>5, <2>1, <2>2, <2>3 DEF Cancelled
<1>9. BoundsTyped'
  BY <1>1 DEF EngineInv, BoundsTyped
<1>10. ActsSoundly(c, d)
  BY <1>1, <1>3, <1>4, <1>5, <1>8, <1>9 DEF ActsSoundly
<1> QED BY <1>3, <1>7, <1>10, ClientsKeep

LEMMA ChecksKeeps ==
  ASSUME EngineInv, NEW c \in Clients, Checks(c)
  PROVE  EngineInv'
<1>0. /\ client[c].pc = "check" /\ Holds(TheClient(c)) /\ UNCHANGED <<store, engine, bounds, exposed>>
  BY DEF Checks, history
<1>1. TasksTyped /\ Cancelled(c)
  BY DEF EngineInv, Truncating
<1>2. lockQ \in Seq(Tasks) /\ TheClient(c) \in Tasks /\ Once(lockQ, TheClient(c))
  BY NamesAreTasks DEF EngineInv, TasksTyped, Queued
<1>3. client[c].doc \notin exposed => \A f \in Workers : ~Claiming(f, client[c].doc)
  <2>1. \A y : ~Ahead(lockQ, y, TheClient(c))
    BY <1>0, <1>2, HolderIsFirst
  <2> QED BY <1>0, <1>1, <2>1 DEF Cancelled, Waits
<1>4. CASE Quiet(client[c].doc)
  <2>1. /\ client' = [client EXCEPT ![c].pc = "drop"] /\ Rejoin(TheClient(c)) /\ UNCHANGED idleEvent
    BY <1>4 DEF Checks
  <2>2. Moved(TheClient(c)) /\ Once(lockQ', TheClient(c))
    BY <1>0, <1>2, <2>1, QueueMoves, RejoinsBehind
  <2>3. JobsOf(client[c].doc) = {} /\ idleEvent' \in BOOLEAN
    BY <1>1, <1>4, <2>1 DEF Quiet, TasksTyped
  <2> QED BY <1>0, <1>3, <2>1, <2>2, <2>3, WaitKeeps
<1>5. CASE ~Quiet(client[c].doc)
  <2>1. /\ client' = [client EXCEPT ![c].pc = "arm"] /\ Leave /\ idleEvent' = FALSE
    BY <1>5 DEF Checks
  <2>2. Moved(TheClient(c)) /\ Once(lockQ', TheClient(c)) /\ ~Waiting(lockQ', TheClient(c))
    BY <1>0, <1>2, <2>1, QueueMoves, LeavesQueue
  <2> QED BY <1>0, <1>3, <2>1, <2>2, WaitKeeps
<1> QED BY <1>4, <1>5

LEMMA ArmsKeeps ==
  ASSUME EngineInv, NEW c \in Clients, Arms(c)
  PROVE  EngineInv'
<1>0. /\ client[c].pc = "arm" /\ UNCHANGED <<store, engine, bounds, exposed>> /\ UNCHANGED <<lockQ, idleEvent>>
  BY DEF Arms, history
<1>1. PICK p \in {"woken", "asleep"} : client' = [client EXCEPT ![c].pc = p]
  BY DEF Arms
<1>2. TasksTyped /\ Cancelled(c) /\ lockQ \in Seq(Tasks) /\ idleEvent' \in BOOLEAN
  BY <1>0 DEF EngineInv, Truncating, TasksTyped
<1>3. Once(lockQ', TheClient(c)) /\ ~Waiting(lockQ', TheClient(c))
  BY <1>0 DEF EngineInv, Queued
<1>4. Moved(TheClient(c))
  BY <1>0, <1>2, QueueStays
<1>5. client[c].doc \notin exposed => \A f \in Workers : ~Claiming(f, client[c].doc)
  BY <1>0, <1>2 DEF Cancelled, Waits
<1> QED BY <1>0, <1>1, <1>2, <1>3, <1>4, <1>5, WaitKeeps

LEMMA RechecksKeeps ==
  ASSUME EngineInv, NEW c \in Clients, Rechecks(c)
  PROVE  EngineInv'
<1>0. /\ client[c].pc = "woken" /\ UNCHANGED <<store, engine, bounds, exposed>> /\ UNCHANGED idleEvent
      /\ client' = [client EXCEPT ![c].pc = "check"] /\ Join(TheClient(c))
  BY DEF Rechecks, history
<1>1. TasksTyped /\ Cancelled(c) /\ idleEvent' \in BOOLEAN
  BY <1>0 DEF EngineInv, Truncating, TasksTyped
<1>2. lockQ \in Seq(Tasks) /\ TheClient(c) \in Tasks /\ ~Waiting(lockQ, TheClient(c))
  BY <1>0, NamesAreTasks DEF EngineInv, TasksTyped, Queued
<1>3. Moved(TheClient(c)) /\ Once(lockQ', TheClient(c))
  BY <1>0, <1>2, QueueMoves, JoinsBehind
<1>4. client[c].doc \notin exposed => \A f \in Workers : ~Claiming(f, client[c].doc)
  BY <1>0, <1>1 DEF Cancelled, Waits
<1> QED BY <1>0, <1>1, <1>3, <1>4, WaitKeeps

LEMMA GivesUpKeeps ==
  ASSUME EngineInv, EngineAssumption, NEW c \in Clients, GivesUp(c)
  PROVE  EngineInv'
<1> DEFINE d == client[c].doc
<1>0. /\ client[c].pc = "asleep" /\ client' = [client EXCEPT ![c] = Idle] /\ UNCHANGED <<lockQ, idleEvent>>
      /\ UNCHANGED store /\ UNCHANGED exposed
      /\ UNCHANGED <<context, activeDocs, running, dirty, scheduling, round, finder>>
  BY DEF GivesUp, engine, history
<1>1. TasksTyped /\ lockQ \in Seq(Tasks)
  BY DEF EngineInv, TasksTyped
<1>2. d \in Docs
  BY <1>0, <1>1, TruncationRecord
<1> HIDE DEF d
<1>3. /\ client' \in [Clients -> ClientRecords] /\ client'[c] = Idle
      /\ \A e \in Clients : e # c => client'[e] = client[e]
  BY <1>0, <1>1, IdleIsARecord, ClientTyped
<1>4. Once(lockQ', TheClient(c)) /\ ~Waiting(lockQ', TheClient(c))
  BY <1>0 DEF EngineInv, Queued
<1>5. Moved(TheClient(c))
  BY <1>0, <1>1, QueueStays
<1>6. StoreTyped' /\ Standing' /\ WorkStands /\ UNCHANGED <<forest, embedded, vectors>>
  BY <1>0, NoWrite
<1>7. \A e \in Clients : e # c /\ client[e].pc # "idle" => client[e].doc # d
  BY <1>0, OthersElsewhere DEF d
<1>8. ClientActs(c, d)
  BY <1>0, <1>1, <1>3, <1>6, <1>7 DEF ClientActs, TasksTyped
<1>9. BoundsTyped'
  BY DEF GivesUp, EngineInv, BoundsTyped, EngineAssumption
<1>10. ActsSoundly(c, d)
  BY <1>0, <1>3, <1>4, <1>6, <1>9, IdleIsARecord, IdleIsFree DEF ActsSoundly
<1> QED BY <1>2, <1>5, <1>8, <1>10, ClientsKeep

\* A truncation deletes what nobody works on.
LEMMA LetsGoKeeps ==
  ASSUME EngineInv, NEW c \in Clients, LetsGo(c), BoundsTyped',
         forest' = [forest EXCEPT ![client[c].doc] = Cut(@, client[c].keep)],
         embedded' = [embedded EXCEPT ![client[c].doc] = @ \cap Cut(forest[client[c].doc], client[c].keep)],
         vectors' \in [Docs -> SUBSET Coordinates]
  PROVE  EngineInv'
<1> DEFINE d == client[c].doc
           n == client[c].keep
           F == forest[d]
<1>0. /\ client[c].pc = "drop" /\ client' = [client EXCEPT ![c] = Idle]
      /\ Holds(TheClient(c)) /\ Leave /\ context' = [context EXCEPT ![d] = "none"]
      /\ forest' = [forest EXCEPT ![d] = Cut(@, n)]
      /\ embedded' = [embedded EXCEPT ![d] = @ \cap Cut(F, n)]
      /\ UNCHANGED <<activeDocs, running, dirty, scheduling, round, finder, idleEvent, exposed>>
  BY DEF LetsGo
<1>1. TasksTyped /\ Cancelled(c)
  BY DEF EngineInv, Truncating
<1>2. d \in Docs /\ n \in Nat
  BY <1>0, <1>1, TruncationRecord
<1>3. d \notin exposed => JobsOf(d) = {} /\ \A f \in Workers : ~Claiming(f, d)
  BY <1>0, <1>1 DEF Cancelled, Waits
<1>4. F \in SUBSET Coordinates /\ IsFiniteSet(F) /\ (d \notin exposed => Supported(F)) /\ embedded[d] \subseteq LeavesOf(F)
  BY <1>2 DEF EngineInv, StoreTyped, Standing
<1>5. \A e \in Clients : e # c /\ client[e].pc # "idle" => client[e].doc # d
  BY <1>0, OthersElsewhere
<1> HIDE DEF d, n, F
<1>6. Cut(F, n) \in SUBSET F /\ IsFiniteSet(Cut(F, n)) /\ (Supported(F) => Supported(Cut(F, n)))
  BY <1>2, <1>4, CutIsTyped, CutIsSupported
<1>7. /\ forest' \in [Docs -> SUBSET Coordinates] /\ forest'[d] = Cut(F, n)
      /\ \A e \in Docs : e # d => forest'[e] = forest[e]
      /\ embedded' \in [Docs -> SUBSET Coordinates] /\ embedded'[d] = embedded[d] \cap Cut(F, n)
      /\ \A e \in Docs : e # d => embedded'[e] = embedded[e]
  <2>1. /\ forest \in [Docs -> SUBSET Coordinates] /\ embedded \in [Docs -> SUBSET Coordinates]
        /\ forest[d] = F
    BY DEF EngineInv, StoreTyped, F
  <2>2. forest' = [forest EXCEPT ![d] = Cut(F, n)]
    BY <1>0, <2>1
  <2> DEFINE G == Cut(F, n)
             E == embedded[d] \cap G
  <2>3. embedded' = [embedded EXCEPT ![d] = E] /\ E \in SUBSET Coordinates /\ G \in SUBSET Coordinates
    BY <1>0, <1>2, <1>4, <1>6, <2>1
  <2>4. forest' = [forest EXCEPT ![d] = G]
    BY <2>2
  <2> HIDE DEF G, E
  <2>5. /\ forest' \in [Docs -> SUBSET Coordinates] /\ forest'[d] = G
        /\ \A e \in Docs : e # d => forest'[e] = forest[e]
    BY <1>2, <2>1, <2>3, <2>4
  <2>6. /\ embedded' \in [Docs -> SUBSET Coordinates] /\ embedded'[d] = E
        /\ \A e \in Docs : e # d => embedded'[e] = embedded[e]
    BY <1>2, <2>1, <2>3
  <2> QED BY <2>5, <2>6 DEF G, E
<1>8. StoreTyped' /\ Standing'
  <2>1. embedded'[d] \subseteq LeavesOf(Cut(F, n))
    BY <1>4, <1>7 DEF LeavesOf
  <2> QED BY <1>0, <1>4, <1>6, <1>7, <2>1 DEF EngineInv, StoreTyped, Standing
<1>9. ASSUME NEW k \in Job, WellMade(k), k.doc \notin exposed', Needed(k), AtWork(k) PROVE Needed(k)'
  <2>1. k.doc # d /\ k.doc \in Docs
    BY <1>0, <1>3, <1>9, JobRecords DEF AtWork, JobsOf
  <2>2. forest'[k.doc] = forest[k.doc] /\ embedded'[k.doc] = embedded[k.doc]
    BY <1>7, <2>1
  <2> QED BY <1>9, <2>2 DEF Needed, StillNeeded
<1>10. /\ client' \in [Clients -> ClientRecords] /\ client'[c] = Idle
       /\ \A e \in Clients : e # c => client'[e] = client[e]
  BY <1>0, <1>1, IdleIsARecord, ClientTyped
<1>11. lockQ \in Seq(Tasks) /\ TheClient(c) \in Tasks /\ Once(lockQ, TheClient(c))
  BY NamesAreTasks DEF EngineInv, TasksTyped, Queued
<1>12. Moved(TheClient(c)) /\ Once(lockQ', TheClient(c)) /\ ~Waiting(lockQ', TheClient(c))
  BY <1>0, <1>11, QueueMoves, LeavesQueue
<1>13. ClientActs(c, d)
  BY <1>0, <1>1, <1>5, <1>7, <1>10 DEF ClientActs, TasksTyped
<1>14. ActsSoundly(c, d)
  BY <1>0, <1>8, <1>9, <1>10, <1>12, IdleIsARecord, IdleIsFree DEF ActsSoundly, WorkStands
<1> QED BY <1>2, <1>12, <1>13, <1>14, ClientsKeep

LEMMA DropsKeeps ==
  ASSUME EngineInv, EngineAssumption, NEW c \in Clients, Drops(c) \/ DropsRowsOnly(c)
  PROVE  EngineInv'
<1>1. LetsGo(c) /\ UNCHANGED <<added, ops>>
  BY DEF Drops, DropsRowsOnly, LetsGo
<1>2. BoundsTyped'
  BY <1>1 DEF Drops, DropsRowsOnly, EngineInv, BoundsTyped, EngineAssumption
<1>3. client[c].doc \in Docs
  BY <1>1, TruncationRecord DEF EngineInv, LetsGo
<1>4. vectors' \in [Docs -> SUBSET Coordinates]
  BY <1>3 DEF Drops, DropsRowsOnly, DeletesBeyond, DeletesBeyond_RowsOnly, EngineInv, StoreTyped
<1>5. /\ forest' = [forest EXCEPT ![client[c].doc] = Cut(@, client[c].keep)]
      /\ embedded' = [embedded EXCEPT ![client[c].doc] = @ \cap Cut(forest[client[c].doc], client[c].keep)]
  BY DEF Drops, DropsRowsOnly, DeletesBeyond, DeletesBeyond_RowsOnly
<1> QED BY <1>1, <1>2, <1>4, <1>5, LetsGoKeeps

LEMMA ClientKeeps ==
  ASSUME EngineInv, EngineAssumption, NEW c \in Clients,
         ClientSteps(c) \/ GivesUp(c) \/ DropsRowsOnly(c)
  PROVE  EngineInv'
BY TriggersKeeps, CancelsKeeps, ChecksKeeps, ArmsKeeps, RechecksKeeps, DropsKeeps, GivesUpKeeps
   DEF ClientSteps

LEMMA OperationKeeps ==
  ASSUME EngineInv, EngineAssumption, ClientsTakeTurns, Operations
  PROVE  EngineInv'
BY AppendsKeeps, TruncatesKeeps DEF Operations

-----------------------------------------------------------------------------
(* The scheduler, a restart, and the whole *)

LEMMA NextRoundKeeps ==
  ASSUME EngineInv, NextRound
  PROVE  EngineInv'
<1>1. /\ UNCHANGED <<forest, embedded, vectors, context, activeDocs, running, finder>>
      /\ UNCHANGED <<lockQ, idleEvent, client, added, ops, faults, exposed>>
  BY DEF NextRound, store, bounds, history
<1>2. TasksTyped'
  BY <1>1 DEF EngineInv, TasksTyped, NextRound
<1>3. StoreTyped' /\ BoundsTyped' /\ OneOperation' /\ Slots' /\ Standing'
  BY <1>1 DEF EngineInv, StoreTyped, BoundsTyped, OneOperation, Slots, Standing
<1>4. Queued' /\ Claimed' /\ Found'
  BY <1>1, SameWork DEF EngineInv, Queued, Holds, Claimed, Found
<1>5. Truncating'
  <2> SUFFICES ASSUME NEW c \in Clients PROVE Cancelled(c)'
    BY DEF Truncating
  <2>1. TasksTyped /\ Cancelled(c) /\ dirty' \cup round' \subseteq dirty \cup round
    BY DEF EngineInv, Truncating, NextRound
  <2>2. \A d : /\ JobsOf(d)' = JobsOf(d) /\ (Deserted(d) => Deserted(d)')
              /\ \A g \in Workers : Claiming(g, d)' <=> Claiming(g, d)
    BY <1>1, <2>1 DEF JobsOf, Deserted, HasWorkLeft, Claiming
  <2> QED BY <1>1, <2>1, <2>2, WaitGoesOn
<1> QED BY <1>2, <1>3, <1>4, <1>5 DEF EngineInv

\* What holds of the tasks when nothing runs and nobody waits.
AtRest ==
  /\ running = [j \in {} |-> "new"] /\ lockQ = <<>>
  /\ client = [c \in Clients |-> Idle]
  /\ \A f \in Workers : finder[f].pc \in {"begin", "off"}

LEMMA RestIsSound ==
  AtRest => Queued /\ OneOperation /\ Claimed /\ Found /\ Truncating /\ Slots
<1> SUFFICES ASSUME AtRest
             PROVE  Queued /\ OneOperation /\ Claimed /\ Found /\ Truncating /\ Slots
  OBVIOUS
<1>1. DOMAIN running = {} /\ \A x : ~Waiting(lockQ, x) /\ Once(lockQ, x)
  BY DEF AtRest, Waiting, Once
<1>2. \A c \in Clients : client[c].pc = "idle"
  BY DEF AtRest, Idle
<1>3. Queued /\ OneOperation /\ Claimed /\ Found
  BY <1>1, <1>2 DEF AtRest, Queued, OneOperation, Claimed, Found
<1>4. Truncating
  BY <1>2 DEF Truncating, Cancelled, Waits
<1>5. Slots
  BY <1>1, EngineAssumption, FS_EmptySet DEF Slots
<1> QED BY <1>3, <1>4, <1>5

\* What a start leaves for the tasks to do.
Restarted ==
  /\ context \in [Docs -> {"none", "live", "cancelled"}]
  /\ activeDocs \subseteq Docs /\ dirty = {} /\ round = {} /\ scheduling = FALSE
  /\ idleEvent \in BOOLEAN /\ finder \in [Workers -> Scans \cup {Off}]

LEMMA RestsTyped == AtRest /\ Restarted => TasksTyped
<1> SUFFICES ASSUME AtRest, Restarted PROVE TasksTyped
  OBVIOUS
<1>1. DOMAIN running = {} /\ IsFiniteSet(DOMAIN running)
  BY FS_EmptySet DEF AtRest
<1>2. running \in [DOMAIN running -> {"new", "model", "done", "failed"}]
  BY DEF AtRest
<1>3. client \in [Clients -> Truncations \cup Appendings \cup {Idle}]
  BY DEF AtRest
<1>4. lockQ \in Seq(Tasks)
  BY DEF AtRest
<1> QED BY <1>1, <1>2, <1>3, <1>4 DEF TasksTyped, Restarted

LEMMA EngineStart ==
  ASSUME EngineAssumption, Init
  PROVE  EngineInv
<1>1. \A d \in Docs : forest[d] = {} /\ embedded[d] = {} /\ vectors[d] = {}
  BY DEF Init
<1>2. StoreTyped
  <2>1. /\ forest \in [Docs -> SUBSET Coordinates] /\ embedded \in [Docs -> SUBSET Coordinates]
        /\ vectors \in [Docs -> SUBSET Coordinates]
    BY DEF Init
  <2> QED BY <1>1, <2>1, FS_EmptySet DEF StoreTyped, LeavesOf
<1>3. Standing
  BY <1>1 DEF Standing, Supported
<1>4. BoundsTyped
  BY DEF Init, BoundsTyped, EngineAssumption
<1>5. AtRest
  BY DEF Init, AtRest, Workers, Off
<1>6. TasksTyped
  <2>1. finder \in [Workers -> Scans \cup {Off}]
    BY DEF Init, Workers
  <2> QED BY <1>5, <2>1, RestsTyped DEF Init, Restarted
<1> QED BY <1>2, <1>3, <1>4, <1>5, <1>6, RestIsSound DEF EngineInv

\* A restart keeps the tables; every task begins anew.
LEMMA RestartsKeeps ==
  ASSUME EngineInv, EngineAssumption, Restarts
  PROVE  EngineInv'
<1>1. UNCHANGED <<forest, embedded, vectors, added, ops, exposed>>
  BY DEF Restarts, store
<1>2. StoreTyped' /\ Standing'
  BY <1>1 DEF EngineInv, StoreTyped, Standing
<1>3. BoundsTyped'
  BY <1>1 DEF Restarts, EngineInv, BoundsTyped, EngineAssumption
<1>4. PICK listed \in SUBSET Docs, task \in [Docs -> Finders] :
        /\ context' = [d \in Docs |-> IF d \in listed THEN "live" ELSE "none"]
        /\ activeDocs' = listed
        /\ finder' = [f \in Finders \cup {SCHED} |->
                        IF \E d \in listed : f = task[d]
                        THEN Begin(CHOOSE d \in Docs : f = task[d]) ELSE Off]
        /\ idleEvent' = (listed = {})
  BY DEF Restarts
<1>5. /\ finder' \in [Workers -> Scans \cup {Off}]
      /\ \A f \in Workers : finder'[f].pc \in {"begin", "off"}
  <2>1. ASSUME NEW f \in Workers
        PROVE  finder'[f] \in Scans \cup {Off} /\ finder'[f].pc \in {"begin", "off"}
    <3>1. CASE \E d \in listed : f = task[d]
      <4>1. (CHOOSE d \in Docs : f = task[d]) \in Docs
        BY <3>1
      <4>2. finder'[f] = Begin(CHOOSE d \in Docs : f = task[d])
        BY <1>4, <3>1 DEF Workers
      <4> QED BY <4>1, <4>2, BeginRecord
    <3>2. CASE ~\E d \in listed : f = task[d]
      <4>1. finder'[f] = Off
        BY <1>4, <3>2 DEF Workers
      <4> QED BY <4>1, OffRests
    <3> QED BY <3>1, <3>2
  <2>2. finder' = [f \in Workers |-> finder'[f]]
    BY <1>4 DEF Workers
  <2> QED BY <2>1, <2>2
<1>6. AtRest'
  BY <1>5 DEF Restarts, AtRest
<1>7. TasksTyped'
  <2>1. context' \in [Docs -> {"none", "live", "cancelled"}]
    BY <1>4
  <2>2. activeDocs' \subseteq Docs /\ idleEvent' \in BOOLEAN
    BY <1>4
  <2>3. dirty' = {} /\ round' = {} /\ scheduling' = FALSE
    BY DEF Restarts
  <2>4. Restarted'
    BY <1>5, <2>1, <2>2, <2>3 DEF Restarted
  <2> QED BY <1>6, <2>4, RestsTyped, PTL
<1>8. (Queued /\ OneOperation /\ Claimed /\ Found /\ Truncating /\ Slots)'
  BY <1>6, RestIsSound, PTL
<1> QED BY <1>2, <1>3, <1>7, <1>8 DEF EngineInv

LEMMA NothingHappens ==
  ASSUME EngineInv, UNCHANGED vars
  PROVE  EngineInv'
<1>1. /\ UNCHANGED <<forest, embedded, vectors, context, activeDocs, running, dirty>>
      /\ UNCHANGED <<scheduling, round, finder, lockQ, idleEvent, client, added, ops, faults, exposed>>
  BY DEF vars, store, engine, bounds, history
<1>2. TasksTyped' /\ StoreTyped' /\ BoundsTyped' /\ OneOperation' /\ Slots' /\ Standing'
  BY <1>1 DEF EngineInv, TasksTyped, StoreTyped, BoundsTyped, OneOperation, Slots, Standing
<1>3. Queued' /\ Claimed' /\ Found'
  BY <1>1, SameWork DEF EngineInv, Queued, Holds, Claimed, Found
<1>4. Truncating'
  <2> SUFFICES ASSUME NEW c \in Clients PROVE Cancelled(c)'
    BY DEF Truncating
  <2>1. TasksTyped /\ Cancelled(c)
    BY DEF EngineInv, Truncating
  <2>2. \A d : /\ JobsOf(d)' = JobsOf(d) /\ (Deserted(d) => Deserted(d)')
              /\ \A g \in Workers : Claiming(g, d)' <=> Claiming(g, d)
    BY <1>1 DEF JobsOf, Deserted, HasWorkLeft, Claiming
  <2> QED BY <1>1, <2>1, <2>2, WaitGoesOn
<1> QED BY <1>2, <1>3, <1>4 DEF EngineInv

LEMMA NextKeeps ==
  ASSUME EngineInv, EngineAssumption, ClientsTakeTurns, [Next]_vars
  PROVE  EngineInv'
<1>1. CASE Operations
  BY <1>1, OperationKeeps
<1>2. CASE \E c \in Clients : ClientSteps(c) \/ GivesUp(c) \/ DropsRowsOnly(c)
  BY <1>2, ClientKeeps
<1>3. CASE \E f \in Finders \cup {SCHED} : FinderSteps(f)
  BY <1>3, FinderKeeps DEF Workers
<1>4. CASE NextInRound \/ NextRound
  BY <1>4, NextInRoundKeeps, NextRoundKeeps
<1>5. CASE \E j \in DOMAIN running : JobSteps(j) \/ JobFails(j)
  BY <1>5, JobKeeps
<1>6. CASE Restarts
  BY <1>6, RestartsKeeps
<1>7. CASE UNCHANGED vars
  BY <1>7, NothingHappens
<1> QED BY <1>1, <1>2, <1>3, <1>4, <1>5, <1>6, <1>7 DEF Next

\* The invariant of the engine, for clients that take turns with a document.
THEOREM EngineStaysSound ==
  ASSUME ClientsTakeTurns
  PROVE  Spec => []EngineInv
<1>1. Init => EngineInv
  BY EngineAssumption, EngineStart
<1>2. EngineInv /\ [Next]_vars => EngineInv'
  BY EngineAssumption, NextKeeps
<1> QED BY <1>1, <1>2, PTL DEF Spec

\* The types of the engine's state.
THEOREM EngineIsTyped ==
  ASSUME ClientsTakeTurns
  PROVE  Spec => []TypeOK
<1>1. EngineInv => TypeOK
  BY DEF EngineInv, StoreTyped, TasksTyped, BoundsTyped, TypeOK, Coordinate, Coordinates
<1> QED BY <1>1, EngineStaysSound, PTL

\* Although a finder counts the free slots and the free work before it claims,
\* there are never more jobs than slots, and every job that has not written
\* still has its work to do (_find_and_start_jobs): nothing is embedded or
\* summarised twice, and no job works for a node that a truncation took away.
\* Jobs may fail at any point, waits be abandoned and the process stop.  The
\* only exception is a document that was truncated when it had no context to
\* cancel, but work left: from then on only the slots are promised.
THEOREM JobsStayRightlyClaimed ==
  ASSUME ClientsTakeTurns
  PROVE  Spec => []JobsAreRightlyClaimed
<1>1. EngineInv => JobsAreRightlyClaimed
  <2> SUFFICES ASSUME EngineInv PROVE JobsAreRightlyClaimed
    OBVIOUS
  <2>1. \A j \in DOMAIN running : j.kind \in {"embed", "summary"}
    BY DEF EngineInv, TasksTyped, Job
  <2> QED BY <2>1 DEF EngineInv, Claimed, Needed, Slots, JobsAreRightlyClaimed
<1> QED BY <1>1, EngineStaysSound, PTL

-----------------------------------------------------------------------------
(* What every step does to the tables *)

\* A document grows by an append.
Extends(d) ==
  /\ \E k \in 1 .. MaxBatch : forest' = [forest EXCEPT ![d] = Grown(@, k)]
  /\ UNCHANGED <<embedded, vectors, history>>

LEMMA StoreSteps ==
  ASSUME [Next]_vars
  PROVE  \/ UNCHANGED <<store, orphans>>
         \/ \E d \in Docs : Extends(d)
         \/ \E j \in DOMAIN running : JobWrites(j) \/ JobFails(j)
         \/ \E c \in Clients : Drops(c) \/ DropsRowsOnly(c)
<1>1. CASE Operations
  <2>1. PICK c \in Clients, d \in Docs : \/ \E k \in 1 .. MaxBatch : Appends(c, d, k)
                                       \/ \E n \in 0 .. MaxLeaves : Truncates(c, d, n)
    BY <1>1 DEF Operations
  <2>2. ASSUME NEW k \in 1 .. MaxBatch, Appends(c, d, k) PROVE Extends(d)
    BY <2>2 DEF Appends, Starts, Extends
  <2>3. ASSUME NEW n \in 0 .. MaxLeaves, Truncates(c, d, n) PROVE UNCHANGED <<store, orphans>>
    BY <2>3 DEF Truncates, Starts, store, history
  <2> QED BY <2>1, <2>2, <2>3
<1>2. ASSUME NEW c \in Clients, ClientSteps(c) \/ GivesUp(c)
      PROVE  UNCHANGED <<store, orphans>> \/ Drops(c)
  BY <1>2 DEF ClientSteps, Triggers, Cancels, Checks, Arms, Rechecks, GivesUp, history
<1>3. ASSUME NEW f \in Workers, FinderSteps(f) PROVE UNCHANGED <<store, orphans>>
  BY <1>3 DEF FinderSteps, FinderBegins, FinderScans, FinderClaims, FinderWakes, history
<1>4. CASE NextInRound \/ NextRound
  BY <1>4 DEF NextInRound, NextRound, history
<1>5. ASSUME NEW j \in DOMAIN running, JobSteps(j) PROVE UNCHANGED <<store, orphans>> \/ JobWrites(j)
  BY <1>5 DEF JobSteps, JobStarts, JobEnds, history
<1>6. CASE Restarts
  BY <1>6 DEF Restarts
<1>7. CASE UNCHANGED vars
  BY <1>7 DEF vars, history
<1> QED BY <1>1, <1>2, <1>3, <1>4, <1>5, <1>6, <1>7 DEF Next, Workers

\* What a document was exposed to is never forgotten.
LEMMA ExposedStay ==
  ASSUME [Next]_vars
  PROVE  exposed \subseteq exposed'
<1>1. CASE Operations
  BY <1>1 DEF Operations, Appends, Truncates, Starts, history
<1>2. ASSUME NEW c \in Clients, ClientSteps(c) \/ GivesUp(c) \/ DropsRowsOnly(c)
      PROVE  exposed \subseteq exposed'
  <2>1. CASE Cancels(c)
    BY <2>1 DEF Cancels
  <2>2. CASE Triggers(c) \/ Checks(c) \/ Arms(c) \/ Rechecks(c) \/ GivesUp(c)
    BY <2>2 DEF Triggers, Checks, Arms, Rechecks, GivesUp, history
  <2>3. CASE Drops(c) \/ DropsRowsOnly(c)
    BY <2>3 DEF Drops, DropsRowsOnly, LetsGo
  <2> QED BY <1>2, <2>1, <2>2, <2>3 DEF ClientSteps
<1>3. ASSUME NEW f \in Workers, FinderSteps(f) PROVE exposed \subseteq exposed'
  BY <1>3 DEF FinderSteps, FinderBegins, FinderScans, FinderClaims, FinderWakes, history
<1>4. CASE NextInRound \/ NextRound
  BY <1>4 DEF NextInRound, NextRound, history
<1>5. ASSUME NEW j \in DOMAIN running, JobSteps(j) \/ JobFails(j) PROVE exposed \subseteq exposed'
  BY <1>5 DEF JobSteps, JobStarts, JobWrites, JobEnds, JobFails, history
<1>6. CASE Restarts
  BY <1>6 DEF Restarts
<1>7. CASE UNCHANGED vars
  BY <1>7 DEF vars, history
<1> QED BY <1>1, <1>2, <1>3, <1>4, <1>5, <1>6, <1>7 DEF Next, Workers

\* How the forest of a document changes: it is extended to the right, the
\* parent of a ready pair is added, or it is cut.
ForestMoves(d) ==
  \/ forest'[d] = forest[d]
  \/ \E k \in 1 .. MaxBatch : forest'[d] = Grown(forest[d], k)
  \/ \E left \in ReadyPairs(forest[d]) : forest'[d] = Merged(forest[d], left)
  \/ \E n \in 0 .. Cardinality(LeavesOf(forest[d])) : forest'[d] = Cut(forest[d], n)

LEMMA SummariesMerge ==
  ASSUME EngineInv, NEW j \in DOMAIN running, JobWrites(j), WritesSummary(j),
         NEW d \in Docs \ exposed
  PROVE  ForestMoves(d)
<1>1. /\ j.kind = "summary" /\ running[j] = "model"
      /\ forest' = [forest EXCEPT ![j.doc] = Merged(@, j.at)]
  BY DEF WritesSummary, JobWrites
<1>2. j \in Job /\ WellMade(j) /\ (j.doc = d => Needed(j))
  BY <1>1 DEF EngineInv, TasksTyped, Claimed
<1>3. j.doc \in Docs /\ forest \in [Docs -> SUBSET Coordinates]
  BY <1>2, JobRecords DEF EngineInv, StoreTyped
<1>4. CASE d # j.doc
  BY <1>1, <1>3, <1>4 DEF ForestMoves
<1>5. CASE d = j.doc
  <2>1. j \in Work(d)
    BY <1>2, <1>5 DEF Work
  <2>2. j \in Candidates(d, {})
    BY <2>1, ScansFindWork DEF EngineInv
  <2>3. PICK left \in ReadyPairs(forest[d]) : j = Summary(d, left)
    <3>1. \A leaf : j # Embed(d, leaf)
      BY <1>1 DEF Embed
    <3> QED BY <2>2, <3>1 DEF Candidates
  <2>4. j.at = left
    BY <2>3 DEF Summary
  <2>5. forest'[d] = Merged(forest[d], left)
    BY <1>1, <1>3, <1>5, <2>4
  <2> QED BY <2>5 DEF ForestMoves
<1> QED BY <1>4, <1>5

LEMMA TruncationsCut ==
  ASSUME EngineInv, NEW c \in Clients, Drops(c) \/ DropsRowsOnly(c), NEW d \in Docs
  PROVE  ForestMoves(d)
<1>1. /\ client[c].pc = "drop"
      /\ forest' = [forest EXCEPT ![client[c].doc] = Cut(@, client[c].keep)]
  BY DEF Drops, DropsRowsOnly, LetsGo, DeletesBeyond, DeletesBeyond_RowsOnly
<1>2. /\ client[c].doc \in Docs /\ client[c].keep \in Nat
      /\ client[c].keep <= Cardinality(LeavesOf(forest[client[c].doc]))
  BY <1>1, TruncationRecord DEF EngineInv, Truncating, Cancelled, Waits
<1>3. forest \in [Docs -> SUBSET Coordinates]
  BY DEF EngineInv, StoreTyped
<1>4. CASE d # client[c].doc
  BY <1>1, <1>2, <1>3, <1>4 DEF ForestMoves
<1>5. CASE d = client[c].doc
  <2>1. forest'[d] = Cut(forest[d], client[c].keep)
    BY <1>1, <1>2, <1>3, <1>5
  <2>2. Cardinality(LeavesOf(forest[d])) \in Nat
    <3>1. IsFiniteSet(forest[d]) /\ LeavesOf(forest[d]) \in SUBSET forest[d]
      BY DEF EngineInv, StoreTyped, LeavesOf
    <3> QED BY <3>1, FS_Subset, FS_CardinalityType
  <2>3. client[c].keep \in 0 .. Cardinality(LeavesOf(forest[d]))
    BY <1>2, <1>5, <2>2
  <2> QED BY <2>1, <2>3 DEF ForestMoves
<1> QED BY <1>4, <1>5

LEMMA ForestsMove ==
  ASSUME EngineInv, [Next]_vars, NEW d \in Docs \ exposed
  PROVE  ForestMoves(d)
<1>1. CASE UNCHANGED forest
  BY <1>1 DEF ForestMoves
<1>2. ASSUME NEW e \in Docs, Extends(e) PROVE ForestMoves(d)
  <2>1. PICK k \in 1 .. MaxBatch : forest' = [forest EXCEPT ![e] = Grown(@, k)]
    BY <1>2 DEF Extends
  <2>2. forest \in [Docs -> SUBSET Coordinates]
    BY DEF EngineInv, StoreTyped
  <2>3. forest'[d] = forest[d] \/ forest'[d] = Grown(forest[d], k)
    BY <2>1, <2>2
  <2> QED BY <2>3 DEF ForestMoves
<1>3. ASSUME NEW j \in DOMAIN running, JobWrites(j) \/ JobFails(j) PROVE ForestMoves(d)
  BY <1>1, <1>3, SummariesMerge DEF JobWrites, JobFails, WritesEmbedding
<1>4. UNCHANGED store => UNCHANGED forest
  BY DEF store
<1> QED BY <1>1, <1>2, <1>3, <1>4, StoreSteps, TruncationsCut

Shape(d) == INSTANCE SummaryForest WITH forest <- forest[d], MaxGrowth <- MaxBatch

\* The operators of SummaryForest are those of the engine.
LEMMA SameShapes ==
  ASSUME NEW d
  PROVE  \A F : /\ \A k : Shape(d)!Grown(F, k) = Grown(F, k) /\ Shape(d)!Cut(F, k) = Cut(F, k)
                /\ \A c : Shape(d)!Merged(F, c) = Merged(F, c)
                /\ Shape(d)!ReadyPairs(F) = ReadyPairs(F)
                /\ Shape(d)!Cardinality(Shape(d)!LeavesOf(F)) = Cardinality(LeavesOf(F))
<1>1. \A S : Shape(d)!Cardinality(S) = Cardinality(S)
  BY DEF Shape!Cardinality, Cardinality
<1>2. \A F : Shape(d)!LeavesOf(F) = LeavesOf(F)
  BY DEF Shape!LeavesOf, LeavesOf
<1>3. \A c : Shape(d)!ParentOf(c) = ParentOf(c) /\ Shape(d)!SiblingOf(c) = SiblingOf(c)
  BY DEF Shape!ParentOf, ParentOf, Shape!SiblingOf, SiblingOf
<1>4. \A i : Shape(d)!Leaf(i) = Leaf(i)
  BY DEF Shape!Leaf, Leaf
<1>5. \A c : Shape(d)!PastLeaf(c) = PastLeaf(c)
  BY DEF Shape!PastLeaf, PastLeaf, Shape!Width, Width
<1>6. \A F : Shape(d)!Tops(F) = Tops(F)
  BY <1>3 DEF Shape!Tops, Tops
<1>7. \A F : Shape(d)!ReadyPairs(F) = ReadyPairs(F)
  BY <1>3, <1>6 DEF Shape!ReadyPairs, ReadyPairs
<1>8. \A F, k : Shape(d)!Grown(F, k) = Grown(F, k)
  BY <1>1, <1>2, <1>4 DEF Shape!Grown, Grown
<1>9. \A F, k : Shape(d)!Cut(F, k) = Cut(F, k)
  BY <1>5 DEF Shape!Cut, Cut
<1>10. \A F, c : Shape(d)!Merged(F, c) = Merged(F, c)
  BY <1>3 DEF Shape!Merged, Merged
<1> QED BY <1>1, <1>2, <1>7, <1>8, <1>9, <1>10

\* For each document, whatever scans, jobs, truncations, failures and restarts
\* go on, the engine does what SummaryForest says: leaves at the right end,
\* summaries over ready pairs, cuts - in every behaviour in which the document
\* is never truncated without a context to cancel, but with work left.
THEOREM EngineBuildsForests ==
  ASSUME ClientsTakeTurns, NEW d \in Docs
  PROVE  Spec /\ [](d \notin exposed) => Shape(d)!ForestSpec
<1>1. Init => Shape(d)!ForestInit
  BY DEF Init, Shape!ForestInit
<1>2. EngineInv /\ d \notin exposed /\ [Next]_vars => [Shape(d)!ForestNext]_(forest[d])
  <2> SUFFICES ASSUME EngineInv, d \notin exposed, [Next]_vars PROVE [Shape(d)!ForestNext]_(forest[d])
    OBVIOUS
  <2>1. ForestMoves(d)
    BY ForestsMove
  <2> QED BY <2>1, SameShapes DEF ForestMoves, Shape!ForestNext, Shape!Grow, Shape!Merge, Shape!CutOff
<1> QED BY <1>1, <1>2, EngineStaysSound, PTL DEF Spec, Shape!ForestSpec

-----------------------------------------------------------------------------
(* Vectors *)

VectorsStand ==
  /\ orphans \in [Docs -> SUBSET Coordinates]
  /\ \A d \in Docs \ exposed : vectors[d] \subseteq forest[d] \cup orphans[d]

\* A truncation takes the vectors of its leaves away, or leaves orphans.
LEMMA DropsTakesVectors ==
  ASSUME EngineInv, VectorsStand, NEW c \in Clients, Drops(c) \/ DropsRowsOnly(c)
  PROVE  VectorsStand'
<1>1. PICK e : e = client[c].doc
  OBVIOUS
<1> DEFINE K == Cut(forest[e], client[c].keep)
           V == vectors[e] \ (forest[e] \ K)
           O == orphans[e] \cup (forest[e] \ K)
<1>2. /\ client[c].pc = "drop" /\ UNCHANGED exposed
      /\ forest' = [forest EXCEPT ![e] = K]
      /\ \/ vectors' = [vectors EXCEPT ![e] = V] /\ UNCHANGED orphans
         \/ orphans' = [orphans EXCEPT ![e] = O] /\ UNCHANGED vectors
  BY <1>1 DEF Drops, DropsRowsOnly, LetsGo, DeletesBeyond, DeletesBeyond_RowsOnly
<1>3. e \in Docs
  BY <1>1, <1>2, TruncationRecord DEF EngineInv
<1>4. /\ forest \in [Docs -> SUBSET Coordinates] /\ vectors \in [Docs -> SUBSET Coordinates]
      /\ orphans \in [Docs -> SUBSET Coordinates]
  BY DEF EngineInv, StoreTyped, VectorsStand
<1>5. O \subseteq Coordinates /\ V \cup vectors[e] = vectors[e] /\ V \subseteq K \cup (V \ forest[e])
      /\ forest[e] \subseteq K \cup O /\ orphans[e] \subseteq O
  BY <1>3, <1>4
<1> HIDE DEF K, V, O
<1>6. orphans' \in [Docs -> SUBSET Coordinates]
  BY <1>2, <1>4, <1>5
<1>7. ASSUME NEW d \in Docs \ exposed PROVE vectors'[d] \subseteq forest'[d] \cup orphans'[d]
  <2>1. vectors[d] \subseteq forest[d] \cup orphans[d]
    BY DEF VectorsStand
  <2>2. CASE d # e
    BY <1>2, <1>4, <2>1, <2>2
  <2>3. CASE d = e /\ vectors' = [vectors EXCEPT ![e] = V] /\ UNCHANGED orphans
    <3>1. vectors'[e] = V /\ forest'[e] = K
      BY <1>2, <1>3, <1>4, <2>3
    <3> QED BY <1>5, <2>1, <2>3, <3>1
  <2>4. CASE d = e /\ orphans' = [orphans EXCEPT ![e] = O] /\ UNCHANGED vectors
    <3>1. orphans'[e] = O /\ forest'[e] = K
      BY <1>2, <1>3, <1>4, <2>4
    <3> QED BY <1>5, <2>1, <2>4, <3>1
  <2> QED BY <1>2, <2>2, <2>3, <2>4
<1> QED BY <1>2, <1>6, <1>7 DEF VectorsStand

LEMMA JobsPlaceVectors ==
  ASSUME EngineInv, VectorsStand, NEW j \in DOMAIN running, JobWrites(j)
  PROVE  VectorsStand'
<1>1. running[j] = "model" /\ j \in Job /\ (j.doc \notin exposed => Needed(j))
  BY DEF JobWrites, EngineInv, TasksTyped, Claimed
<1>2. /\ j.doc \in Docs /\ forest \in [Docs -> SUBSET Coordinates]
      /\ vectors \in [Docs -> SUBSET Coordinates] /\ UNCHANGED <<exposed, orphans>>
  BY <1>1, JobRecords DEF EngineInv, StoreTyped, JobWrites, history
<1>3. CASE WritesEmbedding(j)
  <2>1. j.doc \notin exposed => j.at \in forest[j.doc]
    BY <1>1, <1>3 DEF WritesEmbedding, Needed, StillNeeded
  <2>2. vectors' = [vectors EXCEPT ![j.doc] = vectors[j.doc] \cup {j.at}] /\ UNCHANGED forest
    BY <1>3 DEF WritesEmbedding
  <2>3. \A d \in Docs : vectors'[d] = vectors[d] \/ (d = j.doc /\ vectors'[d] = vectors[d] \cup {j.at})
    BY <1>2, <2>2
  <2> QED BY <1>2, <2>1, <2>2, <2>3 DEF VectorsStand
<1>4. CASE WritesSummary(j)
  <2>1. UNCHANGED vectors /\ forest' = [forest EXCEPT ![j.doc] = Merged(@, j.at)]
    BY <1>4 DEF WritesSummary
  <2>2. \A d \in Docs : forest[d] \subseteq forest'[d]
    BY <1>2, <2>1 DEF Merged
  <2> QED BY <1>2, <2>1, <2>2 DEF VectorsStand
<1> QED BY <1>3, <1>4 DEF JobWrites

LEMMA VectorsStay ==
  ASSUME EngineInv, VectorsStand, [Next]_vars
  PROVE  VectorsStand'
<1>0. exposed \subseteq exposed'
  BY ExposedStay
<1>1. CASE UNCHANGED <<store, orphans>>
  BY <1>0, <1>1 DEF store, VectorsStand
<1>2. ASSUME NEW d \in Docs, Extends(d) PROVE VectorsStand'
  <2>1. \A e \in Docs : forest[e] \subseteq forest'[e]
    BY <1>2 DEF Extends, Grown, EngineInv, StoreTyped
  <2> QED BY <1>2, <2>1 DEF Extends, history, VectorsStand
<1>3. ASSUME NEW j \in DOMAIN running, JobFails(j) PROVE VectorsStand'
  BY <1>3 DEF JobFails, history, VectorsStand
<1> QED BY <1>1, <1>2, <1>3, StoreSteps, JobsPlaceVectors, DropsTakesVectors

\* Every summary stands over two nodes that are there and every vector over a
\* leaf that is, however late an embedding is written (_embed_leaf, truncate),
\* but for the vectors a failing index kept of deleted leaves; not so in a
\* document truncated without a context to cancel, but with work left.
THEOREM NothingEverDangles ==
  ASSUME ClientsTakeTurns
  PROVE  Spec => []NothingDangles
<1>1. Init => VectorsStand
  BY DEF Init, VectorsStand
<1>2. EngineInv /\ VectorsStand /\ [Next]_vars => VectorsStand'
  BY VectorsStay
<1>3. EngineInv /\ VectorsStand => NothingDangles
  BY DEF EngineInv, Standing, VectorsStand, NothingDangles
<1> QED BY <1>1, <1>2, <1>3, EngineStaysSound, PTL DEF Spec

-----------------------------------------------------------------------------
(* Idle documents *)

\* What j was started for is there.
Written(j) == IF j.kind = "embed" THEN j.at \in embedded[j.doc]
                                  ELSE ParentOf(j.at) \in forest[j.doc]

DoneIsWritten ==
  \A j \in DOMAIN running : running[j] = "done" /\ j.doc \notin exposed => Written(j)

\* Job k will not have ended, or client c not have triggered, when f claims - but
\* a job that failed may have, and then f misses its work.
Outlasts(f, k) ==
  k \in DOMAIN running /\ (running[k] # "done" \/ Ahead(lockQ, TheFinder(f), TheJob(k)))
Announces(f, c) == client[c].pc = "trigger" /\ Ahead(lockQ, TheFinder(f), TheClient(c))

Excused(f, d) ==
  \/ \E k \in Job : k.doc = d /\ Outlasts(f, k)
  \/ \E c \in Clients : client[c].doc = d /\ Announces(f, c)

\* A finder that comes back with nothing has overlooked nothing but what will
\* ask for another scan; a document that is not listed as active has no work.
Rested(d) ==
  /\ \A f \in Workers : Claiming(f, d) /\ finder[f].found = {} => Work(d) = {} \/ Excused(f, d)
  /\ context[d] = "live" /\ d \notin activeDocs =>
       TriggerPending(d) \/ (Work(d) = {} /\ JobsOf(d) = {})

Settled == DoneIsWritten /\ \A d \in Docs \ (missed \cup exposed) : Rested(d)

LEMMA WrittenStays ==
  ASSUME EngineInv, [Next]_vars, NEW k \in DOMAIN running, Written(k),
         k.doc \notin exposed
  PROVE  Written(k)'
<1>1. k \in Job /\ k.doc \in Docs
  BY JobRecords DEF EngineInv, TasksTyped
<1>2. ASSUME forest[k.doc] \subseteq forest'[k.doc], embedded[k.doc] \subseteq embedded'[k.doc]
      PROVE  Written(k)'
  BY <1>2 DEF Written
<1>3. forest \in [Docs -> SUBSET Coordinates] /\ embedded \in [Docs -> SUBSET Coordinates]
  BY DEF EngineInv, StoreTyped
<1>4. CASE UNCHANGED store
  BY <1>2, <1>4 DEF store
<1>5. ASSUME NEW d \in Docs, Extends(d) PROVE Written(k)'
  BY <1>1, <1>2, <1>3, <1>5 DEF Extends, Grown
<1>6. ASSUME NEW j \in DOMAIN running, JobWrites(j) \/ JobFails(j) PROVE Written(k)'
  <2>1. CASE WritesSummary(j)
    BY <1>1, <1>2, <1>3, <2>1 DEF WritesSummary, Merged
  <2>2. CASE UNCHANGED <<forest, embedded>>
    BY <1>2, <2>2
  <2>3. CASE /\ embedded' = [embedded EXCEPT ![j.doc] = @ \cup ({j.at} \cap forest[j.doc])]
             /\ UNCHANGED forest
    BY <1>1, <1>2, <1>3, <2>3
  <2> QED BY <1>6, <2>1, <2>2, <2>3 DEF JobWrites, JobFails, WritesEmbedding
<1>7. ASSUME NEW c \in Clients, Drops(c) \/ DropsRowsOnly(c) PROVE Written(k)'
  <2> DEFINE e == client[c].doc
  <2>1. client[c].pc = "drop"
    BY <1>7 DEF Drops, DropsRowsOnly, LetsGo
  <2>2. k.doc # e
    BY <2>1 DEF EngineInv, Truncating, Cancelled, JobsOf, Waits
  <2>3. \E G, H : forest' = [forest EXCEPT ![e] = G] /\ embedded' = [embedded EXCEPT ![e] = H]
    BY <1>7 DEF Drops, DropsRowsOnly, DeletesBeyond, DeletesBeyond_RowsOnly
  <2> HIDE DEF e
  <2>4. forest'[k.doc] = forest[k.doc] /\ embedded'[k.doc] = embedded[k.doc]
    BY <1>1, <1>3, <2>2, <2>3
  <2> QED BY <1>2, <2>4
<1> QED BY <1>4, <1>5, <1>6, <1>7, StoreSteps

\* Only a write makes a job done: its work is needed when it starts.
LEMMA DoneByWriting ==
  ASSUME EngineInv, EngineAssumption, [Next]_vars, NEW k \in DOMAIN running', running'[k] = "done",
         k.doc \notin exposed
  PROVE  k \in DOMAIN running /\ (running[k] = "done" \/ JobWrites(k))
<1>1. CASE UNCHANGED running
  BY <1>1
<1>2. ASSUME NEW f \in Workers, FinderClaims(f)
      PROVE  k \in DOMAIN running /\ running[k] = "done"
  <2>1. CASE running' = [j \in DOMAIN running \cup FirstJobs(Fresh(f), Room(f)) |->
                           IF j \in FirstJobs(Fresh(f), Room(f)) THEN "new" ELSE running[j]]
    BY <2>1
  <2> QED BY <1>1, <1>2, <2>1 DEF FinderClaims
<1>3. ASSUME NEW j \in DOMAIN running, JobStarts(j)
      PROVE  k \in DOMAIN running /\ running[k] = "done"
  <2>1. k = j => StillNeeded(j)
    BY <1>3 DEF JobStarts, EngineInv, Claimed, Needed
  <2>2. \/ running' = [running EXCEPT ![j] = "model"]
        \/ running' = [running EXCEPT ![j] = "done"] /\ ~StillNeeded(j)
    BY <1>3 DEF JobStarts
  <2> QED BY <2>1, <2>2 DEF EngineInv, TasksTyped
<1>4. ASSUME NEW j \in DOMAIN running, JobWrites(j) \/ JobFails(j)
      PROVE  k \in DOMAIN running /\ (running[k] = "done" \/ (k = j /\ JobWrites(j)))
  <2>1. \/ running' = [running EXCEPT ![j] = "done"] /\ JobWrites(j)
        \/ running' = [running EXCEPT ![j] = "failed"]
    BY <1>4 DEF JobWrites, JobFails
  <2> QED BY <2>1 DEF EngineInv, TasksTyped
<1>5. ASSUME NEW j \in DOMAIN running, JobEnds(j)
      PROVE  k \in DOMAIN running /\ running[k] = "done"
  BY <1>5 DEF JobEnds
<1>6. ASSUME Restarts PROVE FALSE
  BY <1>6 DEF Restarts
<1>7. ASSUME NEW f \in Workers, FinderSteps(f) PROVE UNCHANGED running \/ FinderClaims(f)
  BY <1>7 DEF FinderSteps, FinderBegins, FinderScans, FinderWakes
<1>8. ASSUME NEW c \in Clients, ClientSteps(c) \/ GivesUp(c) \/ DropsRowsOnly(c) PROVE UNCHANGED running
  BY <1>8 DEF ClientSteps, Triggers, Cancels, Checks, Arms, Rechecks, GivesUp, Drops, DropsRowsOnly,
              LetsGo, engine
<1>9. ASSUME Operations PROVE UNCHANGED running
  BY <1>9 DEF Operations, Appends, Truncates, Starts, engine
<1>10. ASSUME NextInRound \/ NextRound PROVE UNCHANGED running
  BY <1>10 DEF NextInRound, NextRound
<1>11. UNCHANGED vars => UNCHANGED running
  BY DEF vars, engine
<1> QED BY <1>1, <1>2, <1>3, <1>4, <1>5, <1>6, <1>7, <1>8, <1>9, <1>10, <1>11
        DEF Next, Workers, JobSteps

LEMMA DoneStaysWritten ==
  ASSUME EngineInv, EngineAssumption, [Next]_vars, DoneIsWritten
  PROVE  DoneIsWritten'
<1> SUFFICES ASSUME NEW k \in DOMAIN running', running'[k] = "done", k.doc \notin exposed
             PROVE  Written(k)'
  BY ExposedStay DEF DoneIsWritten
<1>1. k \in DOMAIN running /\ (running[k] = "done" \/ JobWrites(k))
  BY DoneByWriting
<1>2. CASE running[k] = "done"
  BY <1>1, <1>2, WrittenStays DEF DoneIsWritten
<1>3. CASE JobWrites(k)
  <2>1. /\ k \in Job /\ k.doc \in Docs /\ k.kind \in {"embed", "summary"} /\ Needed(k)
        /\ forest \in [Docs -> SUBSET Coordinates] /\ embedded \in [Docs -> SUBSET Coordinates]
    BY <1>1, <1>3, JobRecords DEF JobWrites, EngineInv, TasksTyped, StoreTyped, Claimed
  <2>2. CASE WritesEmbedding(k)
    BY <2>1, <2>2 DEF WritesEmbedding, Written, Needed, StillNeeded
  <2>3. CASE WritesSummary(k)
    BY <2>1, <2>3 DEF WritesSummary, Written, Merged
  <2> QED BY <1>3, <2>2, <2>3 DEF JobWrites
<1> QED BY <1>1, <1>2, <1>3

\* Finder f waits on, and nobody overtakes it.
Continues(f) ==
  finder'[f] = finder[f] /\ \A y : Ahead(lockQ, TheFinder(f), y) => Ahead(lockQ', TheFinder(f), y)

JobContinues(k) ==
  /\ k \in DOMAIN running =>
       \/ k \in DOMAIN running' /\ (running'[k] = "done" => running[k] = "done")
       \/ running[k] = "done" /\ \A f \in Workers : ~Ahead(lockQ, TheFinder(f), TheJob(k))
  /\ k \in DOMAIN running' /\ k \notin DOMAIN running => k \in Work(k.doc)

\* A client that is to trigger d stays so, or has triggered it in its turn.
ClientContinues(c, d) ==
  \/ client'[c].pc = client[c].pc /\ client'[c].doc = client[c].doc
  \/ d \in activeDocs' /\ \A f \in Workers : ~Ahead(lockQ, TheFinder(f), TheClient(c))

\* The step leaves the work of d and whoever waits for it.
Undisturbed(d) ==
  /\ Work(d)' = Work(d)
  /\ \A f \in Workers : Claiming(f, d)' /\ finder'[f].found = {} =>
       Continues(f) \/ Work(d) = {} \/ Excused(f, d)'
  /\ \A k \in Job : k.doc = d => JobContinues(k)
  /\ \A c \in Clients : client[c].pc = "trigger" /\ client[c].doc = d => ClientContinues(c, d)
  /\ context'[d] = "live" /\ d \notin activeDocs' =>
       \/ context[d] = "live" /\ d \notin activeDocs
       \/ TriggerPending(d)
       \/ Work(d) = {} /\ JobsOf(d) = {}

LEMMA ExcusesStay ==
  ASSUME NEW d, Undisturbed(d), NEW f \in Workers, Continues(f), Excused(f, d)
  PROVE  Excused(f, d)'
<1>1. CASE \E k \in Job : k.doc = d /\ Outlasts(f, k)
  <2>1. PICK k \in Job : k.doc = d /\ Outlasts(f, k)
    BY <1>1
  <2>2. JobContinues(k)
    BY <2>1 DEF Undisturbed
  <2>3. Outlasts(f, k)'
    BY <2>1, <2>2 DEF JobContinues, Outlasts, Continues
  <2> QED BY <2>1, <2>3 DEF Excused
<1>2. CASE \E c \in Clients : client[c].doc = d /\ Announces(f, c)
  <2>1. PICK c \in Clients : client[c].doc = d /\ Announces(f, c)
    BY <1>2
  <2>2. ClientContinues(c, d)
    BY <2>1 DEF Undisturbed, Announces
  <2>3. client'[c].doc = d /\ Announces(f, c)'
    BY <2>1, <2>2 DEF ClientContinues, Announces, Continues
  <2> QED BY <2>3 DEF Excused
<1> QED BY <1>1, <1>2 DEF Excused

LEMMA StaysRested ==
  ASSUME NEW d \in Docs, Undisturbed(d), Rested(d), DOMAIN running' \subseteq Job
  PROVE  Rested(d)'
<1>1. ASSUME NEW f \in Workers, Claiming(f, d)', finder'[f].found = {}
      PROVE  Work(d)' = {} \/ Excused(f, d)'
  <2>1. CASE Continues(f)
    <3>1. Claiming(f, d) /\ finder[f].found = {}
      BY <1>1, <2>1 DEF Continues, Claiming
    <3> QED BY <2>1, <3>1, ExcusesStay DEF Rested, Undisturbed
  <2>2. CASE ~Continues(f)
    BY <1>1, <2>2 DEF Undisturbed
  <2> QED BY <2>1, <2>2
<1>2. ASSUME context'[d] = "live", d \notin activeDocs'
      PROVE  TriggerPending(d)' \/ (Work(d)' = {} /\ JobsOf(d)' = {})
  <2>1. TriggerPending(d) \/ (Work(d) = {} /\ JobsOf(d) = {})
    BY <1>2 DEF Undisturbed, Rested
  <2>2. CASE TriggerPending(d)
    <3>1. PICK c \in Clients : client[c].pc = "trigger" /\ client[c].doc = d
      BY <2>2 DEF TriggerPending
    <3>2. client'[c].pc = "trigger" /\ client'[c].doc = d
      BY <1>2, <3>1 DEF Undisturbed, ClientContinues
    <3> QED BY <3>2 DEF TriggerPending
  <2>3. CASE Work(d) = {} /\ JobsOf(d) = {}
    <3>1. ASSUME NEW k \in DOMAIN running', k.doc = d PROVE FALSE
      <4>1. k \in Job /\ k \notin DOMAIN running
        BY <2>3, <3>1 DEF JobsOf
      <4>2. k \in Work(d)
        BY <3>1, <4>1 DEF Undisturbed, JobContinues
      <4> QED BY <2>3, <4>2
    <3>2. JobsOf(d)' = {}
      BY <3>1 DEF JobsOf
    <3> QED BY <2>3, <3>2 DEF Undisturbed
  <2> QED BY <2>1, <2>2, <2>3
<1> QED BY <1>1, <1>2 DEF Rested

LEMMA WorkStays ==
  ASSUME NEW d, UNCHANGED forest[d], UNCHANGED embedded[d]
  PROVE  Work(d)' = Work(d)
BY DEF Work, Needed, StillNeeded

LEMMA JobsGoOn ==
  ASSUME UNCHANGED running, NEW k
  PROVE  JobContinues(k)
BY DEF JobContinues

LEMMA ClientsGoOn ==
  ASSUME Stirred, NEW c \in Clients, client[c].pc = "trigger", NEW d
  PROVE  ClientContinues(c, d)
BY DEF Stirred, ClientContinues

\* Finders that are not the one that moves wait on.
LEMMA FindersWait ==
  ASSUME NEW x, Moved(x), NEW f \in Workers, TheFinder(f) # x, finder'[f] = finder[f]
  PROVE  Continues(f)
BY DEF Moved, Continues

\* A finder takes a step after which it claims nothing, and starts no job.
LEMMA FinderLeaves ==
  ASSUME NEW f \in Workers, Moved(TheFinder(f)), Rests(f), Stirred, NEW d,
         UNCHANGED <<forest, embedded, context, running>>,
         context[d] = "live" /\ d \notin activeDocs' =>
           d \notin activeDocs \/ TriggerPending(d) \/ (Work(d) = {} /\ JobsOf(d) = {})
  PROVE  Undisturbed(d)
<1>1. \A g \in Workers : Claiming(g, d)' => Continues(g)
  BY FindersWait, NamesDiffer DEF Rests, Claiming
<1> QED BY <1>1, WorkStays, JobsGoOn, ClientsGoOn DEF Undisturbed

\* What a client does besides to its own document.
LEMMA ClientsLeave ==
  ASSUME EngineInv, NEW c \in Clients, Moved(TheClient(c)), NEW d,
         UNCHANGED <<forest[d], embedded[d], running>>,
         \A g \in Workers : finder'[g] = finder[g] \/ finder'[g].pc = "begin",
         \A e \in Clients : e # c => client'[e] = client[e],
         client[c].pc = "trigger" /\ client[c].doc = d => d \in activeDocs' /\ Holds(TheClient(c)),
         context'[d] = "live" /\ d \notin activeDocs' => context[d] = "live" /\ d \notin activeDocs
  PROVE  Undisturbed(d)
<1>1. \A g \in Workers : Claiming(g, d)' => Continues(g)
  BY FindersWait, NamesDiffer DEF Claiming
<1>2. ASSUME NEW e \in Clients, client[e].pc = "trigger", client[e].doc = d
      PROVE  ClientContinues(e, d)
  <2>1. CASE e # c
    BY <2>1 DEF ClientContinues
  <2>2. CASE e = c
    <3>1. \A y : ~Ahead(lockQ, y, TheClient(c))
      BY <1>2, <2>2, HolderIsFirst DEF EngineInv, TasksTyped
    <3> QED BY <1>2, <2>2, <3>1 DEF ClientContinues
  <2> QED BY <2>1, <2>2
<1> QED BY <1>1, <1>2, WorkStays, JobsGoOn DEF Undisturbed

LEMMA FindersRest ==
  ASSUME EngineInv, EngineInv', NEW f \in Workers, NEW d \in Docs, Rested(d),
         FinderBegins(f) \/ FinderWakes(f)
  PROVE  Rested(d)'
<1>0. TasksTyped /\ Queued /\ DOMAIN running' \subseteq Job
  BY DEF EngineInv, TasksTyped
<1>1. /\ finder[f].pc # "off" /\ finder' = [finder EXCEPT ![f] = [finder[f] EXCEPT !.pc = "scan"]]
      /\ Join(TheFinder(f)) \/ (Holds(TheFinder(f)) /\ Rejoin(TheFinder(f)))
      /\ UNCHANGED <<forest, embedded, context, running, activeDocs, idleEvent, client>>
  BY <1>0 DEF FinderBegins, FinderWakes, Queued, store
<1>2. Rests(f)
  BY <1>0, <1>1, BusyFinder, ScanningRecord, FinderTurns
<1>3. Moved(TheFinder(f))
  BY <1>0, <1>1, NamesAreTasks, QueueMoves DEF TasksTyped
<1>4. Undisturbed(d)
  BY <1>0, <1>1, <1>2, <1>3, ClientsStay, FinderLeaves
<1> QED BY <1>0, <1>4, StaysRested

LEMMA ScanRests ==
  ASSUME EngineInv, EngineInv', EngineAssumption, NEW f \in Workers, NEW d \in Docs,
         DoneIsWritten, Rested(d), d \notin exposed, FinderScans(f)
  PROVE  Rested(d)'
<1>0. /\ TasksTyped /\ DOMAIN running' \subseteq Job
      /\ finder[f].pc = "scan" /\ Holds(TheFinder(f))
      /\ UNCHANGED <<forest, embedded, context, running>>
  BY DEF EngineInv, TasksTyped, FinderScans, store
<1>1. CASE /\ finder' = [finder EXCEPT ![f] = Off] /\ Leave
           /\ activeDocs' = activeDocs \/ (activeDocs' = activeDocs \ {finder[f].doc}
                                            /\ context[finder[f].doc] = "cancelled")
           /\ Notify(client) \/ UNCHANGED <<idleEvent, client>>
  <2>1. Rests(f) /\ Stirred
    BY <1>0, <1>1, OffRests, FinderTurns, NotifyStirs
  <2>2. Moved(TheFinder(f))
    BY <1>0, <1>1, NamesAreTasks, QueueMoves DEF TasksTyped
  <2>3. Undisturbed(d)
    BY <1>0, <1>1, <2>1, <2>2, FinderLeaves
  <2> QED BY <1>0, <2>3, StaysRested
<1>2. CASE context[finder[f].doc] # "cancelled" /\ Room(f) > 0
  <2> DEFINE S == FirstJobs(Candidates(finder[f].doc, DOMAIN running), Room(f))
             r == [finder[f] EXCEPT !.pc = "claim", !.found = S]
  <2>1. /\ finder' = [finder EXCEPT ![f] = r]
        /\ Rejoin(TheFinder(f)) /\ UNCHANGED <<activeDocs, idleEvent, client>>
    <3>1. Room(f) \in Int
      BY <1>0, RoomIsFree
    <3>2. ~(Room(f) <= 0)
      BY <1>2, <3>1
    <3> QED BY <1>2, <3>2 DEF FinderScans
  <2>2. finder[f] \in Scans /\ r.found = S /\ r.doc = finder[f].doc
    BY <1>0, BusyFinder DEF Scans
  <2>3. S = {} => Work(finder[f].doc) \subseteq DOMAIN running
    BY <1>0, <1>2, ScanIsSound
  <2> HIDE DEF S, r
  <2>4. finder'[f] = r /\ \A g \in Workers : g # f => finder'[g] = finder[g]
    BY <1>0, <2>1 DEF TasksTyped
  <2>5. Moved(TheFinder(f)) /\ Stirred
    BY <1>0, <2>1, NamesAreTasks, QueueMoves, ClientsStay DEF TasksTyped
  <2>6. ASSUME NEW g \in Workers, Claiming(g, d)', finder'[g].found = {}
        PROVE  Continues(g) \/ Work(d) = {} \/ Excused(g, d)'
    <3>1. CASE g # f
      BY <2>4, <2>5, <3>1, FindersWait, NamesDiffer
    <3>2. CASE g = f
      <4>1. finder[f].doc = d /\ S = {}
        BY <2>2, <2>4, <2>6, <3>2 DEF Claiming
      <4>2. ASSUME NEW w \in Work(d) PROVE Excused(f, d)'
        <5>1. /\ w \in DOMAIN running /\ w \in Job /\ w.doc = d /\ Needed(w)
              /\ w.kind \in {"embed", "summary"}
          BY <2>3, <4>1, JobRecords DEF Work
        <5>2. running[w] # "done"
          BY <5>1 DEF DoneIsWritten, Written, Needed, StillNeeded
        <5>3. Outlasts(f, w)'
          BY <1>0, <5>1, <5>2 DEF Outlasts
        <5> QED BY <5>1, <5>3 DEF Excused
      <4> QED BY <3>2, <4>2
    <3> QED BY <3>1, <3>2
  <2>7. Undisturbed(d)
    BY <1>0, <2>1, <2>5, <2>6, WorkStays, JobsGoOn, ClientsGoOn DEF Undisturbed
  <2> QED BY <1>0, <2>7, StaysRested
<1> QED BY <1>1, <1>2 DEF FinderScans, Ends

\* A finder that found nothing and sees no job takes its document off the list.
LEMMA ClaimRests ==
  ASSUME EngineInv, EngineInv', EngineAssumption, NEW f \in Workers, NEW d \in Docs,
         Rested(d), d \notin exposed, FinderClaims(f)
  PROVE  Rested(d)'
<1>0. /\ TasksTyped /\ DOMAIN running' \subseteq Job
      /\ finder[f].pc = "claim" /\ Holds(TheFinder(f))
      /\ UNCHANGED <<forest, embedded, context>>
  BY DEF EngineInv, TasksTyped, FinderClaims, store
<1>1. CASE /\ \/ finder' = [finder EXCEPT ![f] = Off] /\ Leave
              \/ finder' = [finder EXCEPT ![f].pc = "scan", ![f].found = {}] /\ Rejoin(TheFinder(f))
           /\ \/ activeDocs' = activeDocs
              \/ /\ activeDocs' = activeDocs \ {finder[f].doc}
                 /\ finder[f].found = {} /\ ~HasActiveJobs(f)
           /\ UNCHANGED running
           /\ Notify(client) \/ UNCHANGED <<idleEvent, client>>
  <2>1. ASSUME finder' = [finder EXCEPT ![f] = Off] PROVE Rests(f)
    BY <1>0, <2>1, OffRests, FinderTurns
  <2>2. ASSUME finder' = [finder EXCEPT ![f].pc = "scan", ![f].found = {}] PROVE Rests(f)
    <3>1. finder' = [finder EXCEPT ![f] = [finder[f] EXCEPT !.pc = "scan", !.found = {}]]
      BY <2>2
    <3>2. TasksTyped /\ finder[f] \in Scans
      BY <1>0, BusyFinder
    <3> DEFINE r == [finder[f] EXCEPT !.pc = "scan", !.found = {}]
    <3>3. r \in Scans /\ r.pc = "scan"
      BY <3>2 DEF Scans
    <3>4. finder' = [finder EXCEPT ![f] = r]
      BY <3>1
    <3> HIDE DEF r
    <3> QED BY <3>2, <3>3, <3>4, FinderTurns
  <2>3. Rests(f) /\ Stirred
    BY <1>0, <1>1, <2>1, <2>2, NotifyStirs
  <2>4. Moved(TheFinder(f))
    BY <1>0, <1>1, NamesAreTasks, QueueMoves DEF TasksTyped
  <2>5. ASSUME d \notin activeDocs', d \in activeDocs
        PROVE  TriggerPending(d) \/ (Work(d) = {} /\ JobsOf(d) = {})
    <3>1. d = finder[f].doc /\ finder[f].found = {} /\ JobsOf(d) = {}
      BY <1>1, <2>5 DEF HasActiveJobs
    <3>2. Work(d) = {} \/ Excused(f, d)
      BY <1>0, <3>1 DEF Rested, Claiming
    <3>3. ASSUME NEW k \in Job, k.doc = d PROVE ~Outlasts(f, k)
      BY <3>1, <3>3 DEF JobsOf, Outlasts
    <3> QED BY <3>1, <3>2, <3>3 DEF Excused, Announces, TriggerPending
  <2>6. Undisturbed(d)
    BY <1>0, <1>1, <2>3, <2>4, <2>5, FinderLeaves
  <2> QED BY <1>0, <2>6, StaysRested
<1>2. CASE Room(f) > 0 /\ StartsJobs(f, FirstJobs(Fresh(f), Room(f)))
  <2> DEFINE new == FirstJobs(Fresh(f), Room(f))
  <2>1. \A k \in new : k \in Job /\ WellMade(k) /\ (k.doc = d => Needed(k))
    BY <1>0, <1>2, ClaimIsSound
  <2>2. StartsJobs(f, new)
    BY <1>2
  <2> HIDE DEF new
  <2>3. \A k \in Job : k.doc = d => JobContinues(k)
    BY <2>1, <2>2 DEF StartsJobs, JobContinues, Work
  <2>4. UNCHANGED <<activeDocs, lockQ, idleEvent, client>>
    BY <2>2 DEF StartsJobs
  <2>5. \A g \in Workers : Claiming(g, d)' => finder'[g] = finder[g]
    <3>1. finder' = [finder EXCEPT ![f] = [finder[f] EXCEPT !.pc = "sleep", !.found = {},
                                             !.started = finder[f].started + Cardinality(new)]]
      BY <2>2 DEF StartsJobs
    <3>2. finder'[f].pc = "sleep" /\ \A g \in Workers : g # f => finder'[g] = finder[g]
      BY <1>0, <3>1, BusyFinder DEF TasksTyped, Scans
    <3> QED BY <3>2 DEF Claiming
  <2>6. Undisturbed(d)
    BY <1>0, <2>3, <2>4, <2>5, WorkStays, ClientsStay, ClientsGoOn DEF Undisturbed, Continues
  <2> QED BY <1>0, <2>6, StaysRested
<1> QED BY <1>1, <1>2 DEF FinderClaims, Ends, StartsJobs

LEMMA SchedulerRests ==
  ASSUME EngineInv, EngineInv', NEW d \in Docs, Rested(d), NextInRound \/ NextRound \/ UNCHANGED vars
  PROVE  Rested(d)'
<1>0. TasksTyped /\ DOMAIN running' \subseteq Job /\ SCHED \in Workers
  BY DEF EngineInv, TasksTyped, Workers
<1>1. CASE NextInRound
  <2>1. PICK e \in round : finder' = [finder EXCEPT ![SCHED] = [Begin(e) EXCEPT !.pc = "scan"]]
    BY <1>1 DEF NextInRound
  <2>2. e \in Docs
    BY <1>0 DEF TasksTyped
  <2>3. Rests(SCHED)
    BY <1>0, <2>1, <2>2, BeginRecord, FinderTurns
  <2>4. Moved(TheFinder(SCHED)) /\ Stirred
    BY <1>0, <1>1, NamesAreTasks, QueueMoves, ClientsStay DEF NextInRound, TasksTyped
  <2>5. Undisturbed(d)
    BY <1>0, <1>1, <2>3, <2>4, FinderLeaves DEF NextInRound, store
  <2> QED BY <1>0, <2>5, StaysRested
<1>2. CASE NextRound \/ UNCHANGED vars
  <2>1. UNCHANGED <<forest, embedded, context, running, activeDocs, finder, lockQ, client, idleEvent>>
    BY <1>2 DEF NextRound, vars, store, engine
  <2>2. Undisturbed(d)
    BY <1>0, <2>1, WorkStays, JobsGoOn, ClientsStay, ClientsGoOn DEF Undisturbed, Continues
  <2> QED BY <1>0, <2>2, StaysRested
<1> QED BY <1>1, <1>2

LEMMA StartedJobRests ==
  ASSUME EngineInv, EngineInv', NEW d \in Docs, Rested(d), d \notin exposed,
         NEW j \in DOMAIN running, JobStarts(j)
  PROVE  Rested(d)'
<1>0. /\ TasksTyped /\ DOMAIN running' \subseteq Job /\ j \in Job
      /\ UNCHANGED <<forest, embedded, context, activeDocs, finder, client, idleEvent>>
  BY DEF EngineInv, TasksTyped, JobStarts, store
<1>1. j.doc = d => StillNeeded(j)
  BY DEF JobStarts, EngineInv, Claimed, Needed
<1>2. \/ running' = [running EXCEPT ![j] = "model"] /\ UNCHANGED lockQ
      \/ running' = [running EXCEPT ![j] = "done"] /\ ~StillNeeded(j) /\ Join(TheJob(j))
  BY DEF JobStarts
<1>3. \A k : k.doc = d => JobContinues(k)
  BY <1>1, <1>2 DEF JobContinues
<1>4. Moved(TheJob(j)) /\ Stirred
  BY <1>0, <1>2, NamesAreTasks, QueueMoves, QueueStays, ClientsStay DEF TasksTyped
<1>5. \A g \in Workers : Continues(g)
  BY <1>0, <1>4, FindersWait, NamesDiffer
<1>6. Undisturbed(d)
  BY <1>0, <1>3, <1>4, <1>5, WorkStays, ClientsGoOn DEF Undisturbed
<1> QED BY <1>0, <1>6, StaysRested

LEMMA EndedJobRests ==
  ASSUME EngineInv, EngineInv', NEW d \in Docs, Rested(d), d \notin missed',
         NEW j \in DOMAIN running, JobEnds(j)
  PROVE  Rested(d)'
<1>0. /\ TasksTyped /\ DOMAIN running' \subseteq Job /\ j \in Job
      /\ running[j] \in {"done", "failed"} /\ Holds(TheJob(j)) /\ Leave
      /\ UNCHANGED <<forest, embedded, context, activeDocs, finder>>
  BY DEF EngineInv, TasksTyped, JobEnds, store
<1>1. Moved(TheJob(j)) /\ Stirred
  BY <1>0, NamesAreTasks, QueueMoves, NotifyStirs DEF TasksTyped, JobEnds
<1>2. \A y : ~Ahead(lockQ, y, TheJob(j))
  BY <1>0, HolderIsFirst DEF TasksTyped
<1>3. CASE running[j] = "done" \/ j.doc # d
  <2>1. \A k : k.doc = d => JobContinues(k)
    BY <1>0, <1>2, <1>3 DEF JobEnds, JobContinues
  <2>2. \A g \in Workers : Continues(g)
    BY <1>0, <1>1, FindersWait, NamesDiffer
  <2>3. Undisturbed(d)
    BY <1>0, <1>1, <2>1, <2>2, WorkStays, ClientsGoOn DEF Undisturbed
  <2> QED BY <1>0, <2>3, StaysRested
<1>4. CASE running[j] = "failed" /\ j.doc = d
  <2>1. \A f \in Workers : ~(Claiming(f, d)' /\ finder'[f].found = {})
    BY <1>0, <1>4 DEF JobEnds, IsMissed, ClosingIn, Claiming, Workers
  <2>2. j \in JobsOf(d)
    BY <1>4 DEF JobsOf
  <2>3. context'[d] = "live" /\ d \notin activeDocs' => TriggerPending(d)'
    BY <1>0, <1>1, <2>2 DEF Rested, TriggerPending, Stirred
  <2> QED BY <2>1, <2>3 DEF Rested
<1> QED BY <1>0, <1>3, <1>4

\* A job that has written stands behind every finder that comes back with
\* nothing, and asks for another scan when it ends; so may one that failed.
LEMMA WrittenJobRests ==
  ASSUME EngineInv, EngineInv', NEW d \in Docs, Rested(d), NEW j \in DOMAIN running,
         JobWrites(j) \/ JobFails(j)
  PROVE  Rested(d)'
<1>0. /\ TasksTyped /\ DOMAIN running' \subseteq Job /\ j \in Job /\ j.doc \in Docs
      /\ running[j] = "model" /\ Join(TheJob(j))
      /\ UNCHANGED <<context, activeDocs, finder, idleEvent, client>>
      /\ running'[j] \in {"done", "failed"}
      /\ DOMAIN running' = DOMAIN running /\ \A k \in DOMAIN running : k # j => running'[k] = running[k]
      /\ forest \in [Docs -> SUBSET Coordinates] /\ embedded \in [Docs -> SUBSET Coordinates]
  BY JobRecords DEF EngineInv, TasksTyped, StoreTyped, JobWrites, JobFails
<1>1. Moved(TheJob(j)) /\ Stirred
  BY <1>0, NamesAreTasks, QueueMoves, ClientsStay DEF TasksTyped
<1>2. CASE d # j.doc
  <2>1. UNCHANGED <<forest[d], embedded[d]>>
    BY <1>0, <1>2 DEF JobWrites, JobFails, WritesEmbedding, WritesSummary
  <2>2. \A k \in Job : k.doc = d => JobContinues(k)
    BY <1>0, <1>2 DEF JobContinues
  <2>3. \A g \in Workers : Continues(g)
    BY <1>0, <1>1, FindersWait, NamesDiffer
  <2>4. Undisturbed(d)
    BY <1>0, <1>1, <2>1, <2>2, <2>3, WorkStays, ClientsGoOn DEF Undisturbed
  <2> QED BY <1>0, <2>4, StaysRested
<1>3. CASE d = j.doc
  <2>1. ASSUME NEW f \in Workers, Claiming(f, d)' PROVE Excused(f, d)'
    <3>1. Waiting(lockQ, TheFinder(f))
      BY <1>0, <2>1 DEF Claiming, EngineInv, Queued
    <3>2. ~Waiting(lockQ, TheJob(j)) /\ lockQ \in Seq(Tasks) /\ TheJob(j) \in Tasks
      BY <1>0, NamesAreTasks DEF EngineInv, Queued, TasksTyped
    <3>3. Ahead(lockQ', TheFinder(f), TheJob(j))
      BY <1>0, <3>1, <3>2, JoinsBehind
    <3>4. Outlasts(f, j)'
      BY <1>0, <3>3 DEF Outlasts
    <3> QED BY <1>0, <1>3, <3>4 DEF Excused
  <2>2. j \in JobsOf(d)
    BY <1>3 DEF JobsOf
  <2>3. context'[d] = "live" /\ d \notin activeDocs' => TriggerPending(d)'
    BY <1>0, <2>2 DEF Rested, TriggerPending
  <2> QED BY <2>1, <2>3 DEF Rested
<1> QED BY <1>2, <1>3

LEMMA RestartRests ==
  ASSUME Restarts
  PROVE  \A e \in Docs : Rested(e)'
<1>1. PICK listed \in SUBSET Docs, task \in [Docs -> Finders] :
        /\ context' = [d \in Docs |-> IF d \in listed THEN "live" ELSE "none"]
        /\ activeDocs' = listed
        /\ finder' = [f \in Finders \cup {SCHED} |->
                        IF \E d \in listed : f = task[d]
                        THEN Begin(CHOOSE d \in Docs : f = task[d]) ELSE Off]
        /\ idleEvent' = (listed = {})
  BY DEF Restarts
<1> SUFFICES ASSUME NEW e \in Docs PROVE Rested(e)'
  OBVIOUS
<1>2. \A f \in Workers : ~Claiming(f, e)'
  BY <1>1 DEF Workers, Claiming, Begin, Off
<1>3. context'[e] = "live" => e \in activeDocs'
  BY <1>1
<1> QED BY <1>2, <1>3 DEF Rested

LEMMA AppendRests ==
  ASSUME EngineInv, EngineInv', NEW d \in Docs, Rested(d),
         NEW c \in Clients, NEW e \in Docs, NEW k \in 1 .. MaxBatch, Appends(c, e, k)
  PROVE  Rested(d)'
<1>0. /\ TasksTyped /\ DOMAIN running' \subseteq Job
      /\ client[c].pc = "idle" /\ client' = [client EXCEPT ![c] = [pc |-> "trigger", doc |-> e]]
      /\ Join(TheClient(c)) /\ forest' = [forest EXCEPT ![e] = Grown(@, k)]
      /\ UNCHANGED <<embedded, context, activeDocs, running, finder, idleEvent>>
      /\ forest \in [Docs -> SUBSET Coordinates]
  BY DEF EngineInv, TasksTyped, StoreTyped, Appends, Starts, engine
<1>1. client'[c] = [pc |-> "trigger", doc |-> e] /\ \A i \in Clients : i # c => client'[i] = client[i]
  BY <1>0 DEF TasksTyped
<1>2. Moved(TheClient(c))
  BY <1>0, NamesAreTasks, QueueMoves DEF TasksTyped
<1>3. CASE d # e
  <2>1. UNCHANGED <<forest[d], embedded[d]>>
    BY <1>0, <1>3
  <2>2. Undisturbed(d)
    BY <1>0, <1>1, <1>2, <2>1, ClientsLeave
  <2> QED BY <1>0, <2>2, StaysRested
<1>4. CASE d = e
  <2>1. TriggerPending(d)'
    BY <1>1, <1>4 DEF TriggerPending
  <2>2. ASSUME NEW f \in Workers, Claiming(f, d)' PROVE Excused(f, d)'
    <3>1. Waiting(lockQ, TheFinder(f))
      BY <1>0, <2>2 DEF Claiming, EngineInv, Queued
    <3>2. ~Waiting(lockQ, TheClient(c)) /\ lockQ \in Seq(Tasks) /\ TheClient(c) \in Tasks
      BY <1>0, NamesAreTasks DEF EngineInv, Queued, TasksTyped
    <3>3. Ahead(lockQ', TheFinder(f), TheClient(c))
      BY <1>0, <3>1, <3>2, JoinsBehind
    <3>4. Announces(f, c)' /\ client'[c].doc = d
      BY <1>1, <1>4, <3>3 DEF Announces
    <3> QED BY <3>4 DEF Excused
  <2> QED BY <2>1, <2>2 DEF Rested
<1> QED BY <1>3, <1>4

\* A client asks for a truncation, cancels, waits or gives up.
LEMMA WaiterRests ==
  ASSUME EngineInv, EngineInv', NEW d \in Docs, Rested(d), NEW c \in Clients,
         \/ \E e \in Docs, n \in 0 .. MaxLeaves : Truncates(c, e, n)
         \/ Cancels(c) \/ Checks(c) \/ Arms(c) \/ Rechecks(c) \/ GivesUp(c)
  PROVE  Rested(d)'
<1>0. /\ TasksTyped /\ Truncating /\ DOMAIN running' \subseteq Job
      /\ client[c].pc # "trigger" /\ UNCHANGED <<forest, embedded, running, finder>>
  BY DEF EngineInv, TasksTyped, Truncates, Starts, Cancels, Checks, Arms, Rechecks, GivesUp,
         store, engine
<1>1. \/ Join(TheClient(c)) \/ UNCHANGED lockQ
      \/ Holds(TheClient(c)) /\ (Leave \/ Rejoin(TheClient(c)))
  BY DEF Truncates, Starts, Cancels, Checks, Arms, Rechecks, GivesUp
<1>2. Moved(TheClient(c))
  BY <1>0, <1>1, NamesAreTasks, QueueMoves, QueueStays DEF TasksTyped
<1>3. \E r : client' = [client EXCEPT ![c] = r]
  BY DEF Truncates, Starts, Cancels, Checks, Arms, Rechecks, GivesUp
<1>4. \A e \in Clients : e # c => client'[e] = client[e]
  BY <1>0, <1>3 DEF TasksTyped
<1>5. context'[d] = "live" /\ d \notin activeDocs' => context[d] = "live" /\ d \notin activeDocs
  <2>1. CASE UNCHANGED <<context, activeDocs>>
    BY <2>1
  <2>2. CASE Cancels(c)
    <3> DEFINE e == client[c].doc
    <3>1. /\ context' = [context EXCEPT ![e] = IF context[e] = "none" THEN context[e] ELSE "cancelled"]
          /\ activeDocs' = activeDocs \ {e} /\ client[c].pc = "cancel"
      BY <2>2 DEF Cancels
    <3> HIDE DEF e
    <3> QED BY <1>0, <3>1 DEF TasksTyped
  <2> QED BY <2>1, <2>2 DEF Truncates, Starts, Checks, Arms, Rechecks, GivesUp, engine
<1>6. Undisturbed(d)
  BY <1>0, <1>2, <1>4, <1>5, ClientsLeave
<1> QED BY <1>0, <1>6, StaysRested

LEMMA TriggerRests ==
  ASSUME EngineInv, EngineInv', NEW d \in Docs, d \notin missed',
         Rested(d) \/ d \in missed, NEW c \in Clients, Triggers(c)
  PROVE  Rested(d)'
<1> DEFINE e == client[c].doc
           m == Min({f \in Finders : finder[f] = Off})
<1>0. /\ TasksTyped /\ DOMAIN running' \subseteq Job
      /\ Holds(TheClient(c)) /\ Leave /\ client' = [client EXCEPT ![c] = Idle]
      /\ context' = [context EXCEPT ![e] = "live"] /\ activeDocs' = activeDocs \cup {e}
      /\ finder' = [finder EXCEPT ![m] = Begin(e)]
      /\ UNCHANGED <<forest, embedded, running>>
  BY DEF EngineInv, TasksTyped, Triggers, store
<1> HIDE DEF m
<1>1. Moved(TheClient(c))
  BY <1>0, NamesAreTasks, QueueMoves DEF TasksTyped
<1>2. \A i \in Clients : i # c => client'[i] = client[i]
  BY <1>0 DEF TasksTyped
<1>3. \A g \in Workers : finder'[g] = finder[g] \/ finder'[g].pc = "begin"
  BY <1>0 DEF TasksTyped, Begin
<1>4. context'[d] = "live" /\ d \notin activeDocs' => context[d] = "live" /\ d \notin activeDocs
  BY <1>0 DEF TasksTyped
<1>5. CASE Rested(d)
  <2>1. Undisturbed(d)
    BY <1>0, <1>1, <1>2, <1>3, <1>4, ClientsLeave
  <2> QED BY <1>0, <1>5, <2>1, StaysRested
<1>6. CASE d \in missed
  <2>1. d = e /\ ~ClosingIn(d)
    BY <1>6 DEF Triggers
  <2>2. \A f \in Workers : ~(Claiming(f, d)' /\ finder'[f].found = {})
    BY <1>3, <2>1 DEF ClosingIn, Claiming, Workers
  <2> QED BY <1>0, <2>1, <2>2 DEF Rested
<1> QED BY <1>5, <1>6

LEMMA DropRests ==
  ASSUME EngineInv, EngineInv', NEW d \in Docs, Rested(d), d \notin exposed, NEW c \in Clients,
         Drops(c) \/ DropsRowsOnly(c)
  PROVE  Rested(d)'
<1> DEFINE e == client[c].doc
<1>0. /\ TasksTyped /\ Cancelled(c) /\ DOMAIN running' \subseteq Job
      /\ client[c].pc = "drop" /\ Holds(TheClient(c)) /\ Leave /\ client' = [client EXCEPT ![c] = Idle]
      /\ context' = [context EXCEPT ![e] = "none"]
      /\ UNCHANGED <<activeDocs, finder, running>>
  BY DEF EngineInv, TasksTyped, Truncating, Drops, DropsRowsOnly, LetsGo
<1>1. \E G, H : forest' = [forest EXCEPT ![e] = G] /\ embedded' = [embedded EXCEPT ![e] = H]
  BY DEF Drops, DropsRowsOnly, DeletesBeyond, DeletesBeyond_RowsOnly
<1>2. forest \in [Docs -> SUBSET Coordinates] /\ embedded \in [Docs -> SUBSET Coordinates]
  BY DEF EngineInv, StoreTyped
<1>3. CASE d = e
  <2>1. \A f \in Workers : ~Claiming(f, d)'
    BY <1>0, <1>3 DEF Cancelled, Waits, Claiming
  <2>2. context'[d] = "none"
    BY <1>0, <1>3 DEF TasksTyped
  <2> QED BY <2>1, <2>2 DEF Rested
<1>4. CASE d # e
  <2> HIDE DEF e
  <2>1. UNCHANGED <<forest[d], embedded[d]>>
    BY <1>1, <1>2, <1>4
  <2>2. Moved(TheClient(c))
    BY <1>0, NamesAreTasks, QueueMoves DEF TasksTyped
  <2>3. \A i \in Clients : i # c => client'[i] = client[i]
    BY <1>0 DEF TasksTyped
  <2>4. Undisturbed(d)
    BY <1>0, <2>1, <2>2, <2>3, <1>4, ClientsLeave DEF TasksTyped
  <2> QED BY <1>0, <2>4, StaysRested
<1> QED BY <1>3, <1>4

\* Only a trigger and a restart find what was missed.
LEMMA MissedStay ==
  ASSUME [Next]_vars, ~Restarts, \A c \in Clients : ~Triggers(c)
  PROVE  missed \subseteq missed'
<1>1. CASE Operations
  BY <1>1 DEF Operations, Appends, Truncates, Starts, history
<1>2. ASSUME NEW c \in Clients, ClientSteps(c) \/ GivesUp(c) \/ DropsRowsOnly(c)
      PROVE  missed \subseteq missed'
  <2>1. CASE Cancels(c)
    BY <2>1 DEF Cancels
  <2>2. CASE Checks(c) \/ Arms(c) \/ Rechecks(c) \/ GivesUp(c)
    BY <2>2 DEF Checks, Arms, Rechecks, GivesUp, history
  <2>3. CASE Drops(c) \/ DropsRowsOnly(c)
    BY <2>3 DEF Drops, DropsRowsOnly, LetsGo
  <2> QED BY <1>2, <2>1, <2>2, <2>3 DEF ClientSteps
<1>3. ASSUME NEW f \in Workers, FinderSteps(f) PROVE missed \subseteq missed'
  BY <1>3 DEF FinderSteps, FinderBegins, FinderScans, FinderClaims, FinderWakes, history
<1>4. CASE NextInRound \/ NextRound
  BY <1>4 DEF NextInRound, NextRound, history
<1>5. ASSUME NEW j \in DOMAIN running, JobSteps(j) \/ JobFails(j) PROVE missed \subseteq missed'
  BY <1>5 DEF JobSteps, JobStarts, JobWrites, JobEnds, JobFails, history
<1>6. CASE UNCHANGED vars
  BY <1>6 DEF vars, history
<1> QED BY <1>1, <1>2, <1>3, <1>4, <1>5, <1>6 DEF Next, Workers

LEMMA DocumentsStayRested ==
  ASSUME EngineInv, EngineInv', EngineAssumption, Settled, [Next]_vars,
         NEW d \in Docs \ (missed' \cup exposed')
  PROVE  Rested(d)'
<1>0. DoneIsWritten /\ d \in Docs /\ d \notin exposed /\ d \notin missed' /\ (Rested(d) \/ d \in missed)
  BY ExposedStay DEF Settled
<1>1. ASSUME NEW c \in Clients, Triggers(c) PROVE Rested(d)'
  BY <1>0, <1>1, TriggerRests
<1>2. CASE Restarts
  BY <1>0, <1>2, RestartRests
<1>3. CASE ~Restarts /\ \A c \in Clients : ~Triggers(c)
  <2>0. Rested(d)
    BY <1>0, <1>3, MissedStay
  <2>1. CASE Operations
    BY <1>0, <2>0, <2>1, AppendRests, WaiterRests DEF Operations
  <2>2. ASSUME NEW c \in Clients, ClientSteps(c) \/ GivesUp(c) \/ DropsRowsOnly(c) PROVE Rested(d)'
    BY <1>0, <1>3, <2>0, <2>2, WaiterRests, DropRests DEF ClientSteps
  <2>3. ASSUME NEW f \in Workers, FinderSteps(f) PROVE Rested(d)'
    BY <1>0, <2>0, <2>3, FindersRest, ScanRests, ClaimRests DEF FinderSteps
  <2>4. CASE NextInRound \/ NextRound \/ UNCHANGED vars
    BY <1>0, <2>0, <2>4, SchedulerRests
  <2>5. ASSUME NEW j \in DOMAIN running, JobSteps(j) \/ JobFails(j) PROVE Rested(d)'
    BY <1>0, <2>0, <2>5, StartedJobRests, WrittenJobRests, EndedJobRests DEF JobSteps
  <2> QED BY <1>3, <2>1, <2>2, <2>3, <2>4, <2>5 DEF Next, Workers
<1> QED BY <1>1, <1>2, <1>3

LEMMA SettlesDown ==
  ASSUME EngineInv, EngineInv', EngineAssumption, Settled, [Next]_vars
  PROVE  Settled'
BY DoneStaysWritten, DocumentsStayRested DEF Settled

LEMMA SettledAtFirst ==
  ASSUME Init
  PROVE  Settled
<1>1. DOMAIN running = {} /\ \A d \in Docs : context[d] = "none"
  BY DEF Init
<1>2. \A f \in Workers, d \in Docs : ~Claiming(f, d)
  BY DEF Init, Workers, Claiming, Off
<1> QED BY <1>1, <1>2 DEF Settled, DoneIsWritten, Rested

LEMMA NoWorkIsIndexed ==
  ASSUME StoreTyped, NEW d \in Docs, Work(d) = {}
  PROVE  Indexed(d)
<1>1. Candidates(d, {}) = {}
  BY ScansFindWork
<1>2. LeavesOf(forest[d]) \ embedded[d] = {} /\ ReadyPairs(forest[d]) = {}
  BY <1>1 DEF Candidates
<1>3. embedded[d] \subseteq LeavesOf(forest[d])
  BY DEF StoreTyped
<1> QED BY <1>2, <1>3 DEF Indexed, Finished

\* A document that was triggered and that the engine no longer lists as active
\* is indexed completely and has no jobs left, unless an append is just about to
\* trigger it: what wait_until_idle and the idle callback report is true,
\* although the scan that ends a document's work and the look at the jobs are
\* two locked sections (_find_and_start_jobs).  What is not true is said of a
\* document with a job that failed between the two sections of a finder, until
\* it is triggered again, and of one that was truncated without a context.
THEOREM IdleMeansIndexedUnlessMissed ==
  ASSUME ClientsTakeTurns
  PROVE  Spec => []IdleMeansIndexed
<1>1. Init => Settled
  BY SettledAtFirst
<1>2. EngineInv /\ EngineInv' /\ Settled /\ [Next]_vars => Settled'
  BY EngineAssumption, SettlesDown
<1>3. EngineInv /\ Settled => IdleMeansIndexed
  <2> SUFFICES ASSUME EngineInv, Settled, NEW d \in Docs \ (missed \cup exposed), context[d] = "live",
                      d \notin activeDocs, ~TriggerPending(d)
               PROVE  Indexed(d) /\ JobsOf(d) = {}
    BY DEF IdleMeansIndexed
  <2>1. Work(d) = {} /\ JobsOf(d) = {}
    BY DEF Settled, Rested
  <2> QED BY <2>1, NoWorkIsIndexed DEF EngineInv
<1> QED BY <1>1, <1>2, <1>3, EngineStaysSound, PTL DEF Spec
=============================================================================
