------------------------ MODULE ServerLifecycleProofs ------------------------
(***************************************************************************)
(* What the run `server' checks with three daemons, proved for any number  *)
(* of them and for all timings that satisfy the two relations below.       *)
(*                                                                         *)
(* The lease alone comes first: LeaseInv is its inductive invariant.  A    *)
(* lease that a server holds outlasts the heartbeats that server may still *)
(* miss; that, and nothing about who wrote what when, is why nobody takes  *)
(* it away.  Then the daemons and their commands: every step of theirs is  *)
(* a step of the lease or leaves it alone, and FilesInv is their own       *)
(* inductive invariant.                                                    *)
(***************************************************************************)
EXTENDS ServerLifecycle, TLAPS

(***************************************************************************)
(* LeaseConfig: 60 s against heartbeats each 15 s leave room for three     *)
(* misses; 90 s of waiting against 60 s and a poll each 2 s.               *)
(***************************************************************************)
LeaseOutlastsMisses == Ttl >= Delay + (MaxMisses + 1) * (Heartbeat + Delay)
WaitOutlastsLease == AcquireTimeout >= Ttl + PollInterval + Delay + 1

-----------------------------------------------------------------------------
(* The lease *)

\* how long the row must live when s has missed k heartbeats
Reserve(k) == (MaxMisses - k) * (Heartbeat + Delay)

\* the clock was read at most Delay ago when the row is written
WritesInTime ==
  \A s \in Servers : mode[s] \in {"inserting", "stealing"} =>
    /\ timer[s] <= 0
    /\ s \notin slow => timer[s] >= 0 - Delay

OneThief ==
  \A s \in Servers : mode[s] = "stealing" =>
    /\ Expired
    /\ \A t \in Servers : mode[t] = "stealing" => t = s

LeaseLasts ==
  \A s \in Servers \ slow : Indexing(s) =>
    /\ s \in acquired /\ Holds(s)
    /\ timer[s] >= 0 - Delay
    /\ timer[s] + Delay + Reserve(misses[s]) <= row.left

OwnerInv == LeaseTypeOK /\ WritesInTime /\ OneThief /\ LeaseLasts

\* nothing stands in the way of s but a row that nobody refreshes any more
Unrivalled(s) ==
  IF row = NoLease \/ Expired
  THEN patience[s] >= timer[s] + Delay + 1
  ELSE patience[s] >= row.left + PollInterval + Delay + 1

WaitInv ==
  /\ LeaseTypeOK
  /\ \A s \in Servers : mode[s] \in {"off", "inserting", "stealing"} => timer[s] <= 0
  /\ \A s \in Servers : mode[s] = "off" => timer[s] = 0 /\ s \notin acquired
  /\ \A s \in Servers \ slow : mode[s] = "polling" =>
       /\ timer[s] >= 0 - Delay /\ timer[s] <= PollInterval
       /\ s \in contended \/ (patience[s] > 0 /\ Rivals(s)) \/ Unrivalled(s)

-----------------------------------------------------------------------------
(* Types *)

\* LeaseTypeOK, and what keeps the expiry time of a written row within it
TimedInv ==
  /\ LeaseTypeOK
  /\ \A s \in Servers : mode[s] \in {"inserting", "stealing"} => timer[s] <= 0

LEMMA Numbers ==
  /\ NoLease \notin [holder : Servers, left : Int]
  /\ Ttl \in Nat /\ AcquireTimeout \in Nat /\ Delay \in Nat /\ MaxMisses \in Nat
  /\ Heartbeat \in Nat \ {0} /\ PollInterval \in Nat \ {0}
  /\ ForUpdate \in BOOLEAN
BY LeaseConstants DEF LeaseConstants

LEMMA TimedInit == LeaseInit => TimedInv
BY Numbers DEF LeaseInit, TimedInv, LeaseTypeOK, Modes, Timers, Longest

LEMMA TimedDies ==
  ASSUME TimedInv, NEW s \in Servers, Dies(s), contended' \in SUBSET Servers
  PROVE  TimedInv'
BY Numbers DEF TimedInv, LeaseTypeOK, Modes, Timers, Longest, Dies

LEMMA TimedStep ==
  ASSUME TimedInv, NEW s \in Servers, LeaseStep(s), NoteContention
  PROVE  TimedInv'
<1>1. contended' \in SUBSET Servers
  BY DEF NoteContention
<1>2. CASE StartAcquire(s)
  BY <1>1, <1>2, Numbers DEF TimedInv, LeaseTypeOK, Modes, StartAcquire
<1>3. CASE SelectRow(s)
  BY <1>1, <1>3, Numbers
  DEF TimedInv, LeaseTypeOK, Modes, Timers, Longest, SelectRow, PollAgain, Least
<1>4. CASE InsertRow(s) \/ StealRow(s)
  <2>1. Claimed(s) \in [holder : Servers, left : -1 .. Ttl]
    BY <1>4, Numbers
    DEF TimedInv, LeaseTypeOK, Timers, InsertRow, StealRow, Claimed, AtLeast
  <2>2. row' \in {NoLease} \cup [holder : Servers, left : -1 .. Ttl]
    BY <1>4, <2>1 DEF InsertRow, StealRow
  <2> QED BY <1>1, <1>4, <2>2, Numbers
    DEF TimedInv, LeaseTypeOK, Modes, Timers, Longest, InsertRow, StealRow, Acquires
<1>5. CASE AttemptFails(s)
  BY <1>1, <1>5, Numbers
  DEF TimedInv, LeaseTypeOK, Modes, Timers, Longest, AttemptFails, PollAgain, Least
<1>6. CASE GiveUp(s) \/ Exit(s) \/ KilledWaiting(s) \/ Crash(s)
  BY <1>1, <1>6, TimedDies DEF GiveUp, Exit, KilledWaiting, Crash
<1>7. CASE StartServing(s) \/ CancelServing(s) \/ Slow(s)
  BY <1>1, <1>7 DEF TimedInv, LeaseTypeOK, Modes, StartServing, CancelServing, Slow
<1>8. CASE Beat(s)
  BY <1>1, <1>8, Numbers
  DEF TimedInv, LeaseTypeOK, Modes, Timers, Longest, Beat, Holds, Indexing
<1>9. CASE Release(s)
  BY <1>1, <1>9, Numbers
  DEF TimedInv, LeaseTypeOK, Modes, Timers, Longest, Release
<1> QED BY <1>2, <1>3, <1>4, <1>5, <1>6, <1>7, <1>8, <1>9 DEF LeaseStep

LEMMA TimedTick ==
  ASSUME TimedInv, Tick, NoteContention
  PROVE  TimedInv'
<1>1. row' \in {NoLease} \cup [holder : Servers, left : -1 .. Ttl]
  BY Numbers DEF TimedInv, LeaseTypeOK, Tick, AtLeast
<1>2. timer' \in [Servers -> Timers]
  BY Numbers DEF TimedInv, LeaseTypeOK, Timers, Longest, Tick, AtLeast, Overdue
<1>3. patience' \in [Servers -> 0 .. AcquireTimeout]
  BY Numbers DEF TimedInv, LeaseTypeOK, Tick, TimeLeft, AtLeast
<1>4. ASSUME NEW s \in Servers, mode'[s] \in {"inserting", "stealing"}
      PROVE  timer'[s] <= 0
  BY <1>4, Numbers DEF TimedInv, LeaseTypeOK, Timers, Tick, AtLeast, Overdue, Timed
<1> QED BY <1>1, <1>2, <1>3, <1>4 DEF TimedInv, LeaseTypeOK, Tick, NoteContention

LEMMA TimedNext == TimedInv /\ [LeaseNext]_leaseVars => TimedInv'
<1>1. TimedInv /\ UNCHANGED leaseVars => TimedInv'
  BY DEF TimedInv, LeaseTypeOK, leaseVars
<1> QED BY <1>1, TimedStep, TimedTick DEF LeaseNext

\* The lease is typed: with LeaseTypeOK no row outlives its time and no timer
\* runs away, whatever is suspended, fails or crashes.
THEOREM LeaseIsTyped == LeaseSpec => []LeaseTypeOK
<1>1. TimedInv => LeaseTypeOK
  BY DEF TimedInv
<1> QED BY <1>1, TimedInit, TimedNext, PTL DEF LeaseSpec

-----------------------------------------------------------------------------
(* One server indexes *)

LEMMA Reserves ==
  /\ \A k \in 0 .. MaxMisses : Reserve(k) \in Nat
  /\ \A k \in 0 .. MaxMisses : Reserve(k) <= Reserve(0)
  /\ \A k \in 0 .. MaxMisses - 1 : Reserve(k + 1) + Heartbeat + Delay = Reserve(k)
  /\ LeaseOutlastsMisses => Heartbeat + 2 * Delay + Reserve(0) <= Ttl
<1> DEFINE beat == Heartbeat + Delay
<1>1. beat \in Nat /\ MaxMisses \in Nat /\ Delay \in Nat /\ Heartbeat \in Nat /\ Ttl \in Nat
  BY Numbers
<1>2. \A k \in 0 .. MaxMisses : Reserve(k) = MaxMisses * beat - k * beat
  BY <1>1 DEF Reserve
<1>3. \A k \in 0 .. MaxMisses : k * beat \in Nat /\ k * beat <= MaxMisses * beat
  BY <1>1
<1>4. \A k \in 0 .. MaxMisses : (k + 1) * beat = k * beat + beat
  BY <1>1
<1>5. MaxMisses * beat \in Nat /\ Reserve(0) = MaxMisses * beat
  BY <1>1, <1>2, <1>3
<1>6. LeaseOutlastsMisses => Ttl >= Delay + MaxMisses * beat + beat
  BY <1>1, <1>4 DEF LeaseOutlastsMisses
<1>7. ASSUME NEW k \in 0 .. MaxMisses - 1
      PROVE  Reserve(k + 1) + Heartbeat + Delay = Reserve(k)
  <2>1. k \in 0 .. MaxMisses /\ k + 1 \in 0 .. MaxMisses
    BY <1>1
  <2>2. /\ Reserve(k) = MaxMisses * beat - k * beat
        /\ Reserve(k + 1) = MaxMisses * beat - (k * beat + beat)
    BY <1>2, <1>4, <2>1
  <2> QED BY <1>1, <1>3, <1>5, <2>1, <2>2
<1>8. ASSUME NEW k \in 0 .. MaxMisses
      PROVE  Reserve(k) \in Nat /\ Reserve(k) <= Reserve(0)
  <2>1. /\ Reserve(k) = MaxMisses * beat - k * beat
        /\ k * beat \in Nat /\ k * beat <= MaxMisses * beat
    BY <1>2, <1>3
  <2> HIDE DEF beat
  <2> QED BY <1>5, <2>1
<1> QED BY <1>1, <1>5, <1>6, <1>7, <1>8

LEMMA OwnerInit == LeaseInit => OwnerInv
BY TimedInit DEF LeaseInit, OwnerInv, TimedInv, WritesInTime, OneThief, LeaseLasts, Indexing

LEMMA OwnerDies ==
  ASSUME OwnerInv, NEW s \in Servers, Dies(s), LeaseTypeOK'
  PROVE  OwnerInv'
BY DEF OwnerInv, LeaseTypeOK, WritesInTime, OneThief, LeaseLasts, Dies, Expired, Holds, Indexing

\* A lease that may be taken over has no punctual owner.
LEMMA NobodyIndexes ==
  ASSUME OwnerInv, row = NoLease \/ Expired
  PROVE  \A s \in Servers \ slow : ~ Indexing(s)
<1> SUFFICES ASSUME NEW s \in Servers \ slow, Indexing(s) PROVE FALSE
  OBVIOUS
<1>1. /\ Holds(s) /\ timer[s] >= 0 - Delay
      /\ timer[s] + Delay + Reserve(misses[s]) <= row.left
  BY DEF OwnerInv, LeaseLasts
<1>2. misses[s] \in 0 .. MaxMisses /\ timer[s] \in Int
  BY DEF OwnerInv, LeaseTypeOK, Timers
<1>3. Reserve(misses[s]) \in Nat
  BY <1>2, Reserves
<1>4. row \in [holder : Servers, left : -1 .. Ttl] /\ row.left < 0
  BY <1>1 DEF Holds, Expired, OwnerInv, LeaseTypeOK
<1> QED BY <1>1, <1>2, <1>3, <1>4, Numbers

\* Whoever takes the lease may miss as many heartbeats as are allowed.
LEMMA OwnerAcquires ==
  ASSUME LeaseOutlastsMisses, OwnerInv, LeaseTypeOK',
         NEW s \in Servers, InsertRow(s) \/ StealRow(s)
  PROVE  OwnerInv'
<1>1. \A t \in Servers \ slow : ~ Indexing(t)
  <2>1. row = NoLease \/ Expired
    BY DEF OwnerInv, OneThief, InsertRow, StealRow
  <2> QED BY <2>1, NobodyIndexes
<1>2. WritesInTime' /\ OneThief'
  <2>1. \A t \in Servers \ {s} : mode[t] # "stealing" \/ InsertRow(s)
    BY DEF OwnerInv, OneThief, StealRow
  <2>2. InsertRow(s) => \A t \in Servers : mode[t] # "stealing"
    BY DEF OwnerInv, OneThief, InsertRow, Expired
  <2> QED BY <2>1, <2>2
    DEF OwnerInv, LeaseTypeOK, WritesInTime, OneThief, InsertRow, StealRow, Acquires, Expired
<1>3. ASSUME NEW t \in Servers \ slow', Indexing(t)'
      PROVE  /\ t \in acquired' /\ Holds(t)' /\ timer'[t] >= 0 - Delay
             /\ timer'[t] + Delay + Reserve(misses[t])' <= row'.left
  <2>1. t = s /\ s \notin slow
    BY <1>1, <1>3 DEF OwnerInv, LeaseTypeOK, InsertRow, StealRow, Acquires, Indexing
  <2>2. row' = Claimed(s) /\ Claimed(s).left >= Ttl - Delay
    <3>1. timer[s] >= 0 - Delay /\ timer[s] \in Int
      BY <2>1 DEF OwnerInv, LeaseTypeOK, Timers, WritesInTime, InsertRow, StealRow
    <3>2. row' = Claimed(s)
      BY DEF OwnerInv, OneThief, InsertRow, StealRow, Expired
    <3> QED BY <3>1, <3>2, Numbers DEF Claimed, AtLeast
  <2>3. timer'[s] = Heartbeat /\ misses'[s] = misses[s] /\ s \in acquired' /\ Holds(s)'
    <3>1. Claimed(s) \in [holder : Servers, left : Int] /\ Claimed(s).holder = s
      BY Numbers DEF OwnerInv, LeaseTypeOK, Timers, Claimed, AtLeast
    <3>2. Holds(s)'
      BY <2>2, <3>1, Numbers DEF Holds
    <3> QED BY <3>2 DEF OwnerInv, LeaseTypeOK, InsertRow, StealRow, Acquires
  <2>4. Reserve(misses'[s]) <= Reserve(0) /\ Reserve(misses'[s]) \in Nat /\ Reserve(0) \in Nat
    BY <2>3, Reserves, Numbers DEF OwnerInv, LeaseTypeOK
  <2>5. Reserve(misses[t])' = Reserve(misses'[s])
    BY <2>1 DEF Reserve
  <2>6. Claimed(s).left \in Int
    BY Numbers DEF OwnerInv, LeaseTypeOK, Timers, Claimed, AtLeast
  <2> QED BY <2>1, <2>2, <2>3, <2>4, <2>5, <2>6, Reserves, Numbers
<1> QED BY <1>2, <1>3 DEF OwnerInv, LeaseLasts

LEMMA OwnerBeat ==
  ASSUME LeaseOutlastsMisses, OwnerInv, LeaseTypeOK', NEW s \in Servers, Beat(s),
         ForUpdate
  PROVE  OwnerInv'
<1>1. WritesInTime'
  BY DEF OwnerInv, LeaseTypeOK, WritesInTime, Beat, Indexing
<1>2. OneThief'
  BY Numbers DEF OwnerInv, LeaseTypeOK, OneThief, Beat, Expired, Unlocked, Holds, Indexing
<1>3. ASSUME NEW t \in Servers \ slow', Indexing(t)'
      PROVE  /\ t \in acquired' /\ Holds(t)' /\ timer'[t] >= 0 - Delay
             /\ timer'[t] + Delay + Reserve(misses[t])' <= row'.left
  <2>1. /\ t \in Servers \ slow /\ Indexing(t)
        /\ t \in acquired /\ Holds(t) /\ timer[t] >= 0 - Delay
        /\ timer[t] + Delay + Reserve(misses[t]) <= row.left
    BY <1>3 DEF Beat, Indexing, OwnerInv, LeaseLasts
  <2>2. /\ timer[t] \in Int /\ misses[t] \in 0 .. MaxMisses
        /\ row \in [holder : Servers, left : -1 .. Ttl]
    BY <2>1 DEF OwnerInv, LeaseTypeOK, Timers, Holds
  <2>3. Reserve(misses[t])' = Reserve(misses'[t])
    BY DEF Reserve
  <2>4. CASE t # s
    <3>1. /\ timer'[t] = timer[t] /\ misses'[t] = misses[t] /\ t \in acquired'
          /\ row' = row
      BY <2>1, <2>4 DEF Beat, Holds, OwnerInv, LeaseTypeOK
    <3> QED BY <2>1, <2>3, <3>1 DEF Holds
  <2>5. CASE t = s /\ row' = [row EXCEPT !.left = Ttl] /\ timer'[s] = Heartbeat
             /\ misses'[s] = 0 /\ acquired' = acquired
    <3>1. Holds(t)' /\ row'.left = Ttl
      BY <2>1, <2>2, <2>5, Numbers DEF Holds
    <3> QED BY <2>1, <2>3, <2>5, <3>1, Reserves, Numbers
  <2>6. CASE t = s /\ row' = row /\ timer'[s] = Heartbeat /\ acquired' = acquired
             /\ misses[s] < MaxMisses /\ misses'[s] = misses[s] + 1
    <3>1. misses[s] \in 0 .. MaxMisses - 1
      BY <2>2, <2>6, Numbers
    <3>2. Reserve(misses[s] + 1) + Heartbeat + Delay = Reserve(misses[s])
      BY <3>1, Reserves
    <3>3. Reserve(misses[s] + 1) \in Nat /\ Reserve(misses[s]) \in Nat
      BY <2>2, <2>6, <3>1, Reserves, Numbers
    <3> QED BY <2>1, <2>2, <2>3, <2>6, <3>2, <3>3, Numbers DEF Holds
  <2>7. s \in Servers /\ timer \in [Servers -> Timers] /\ misses \in [Servers -> 0 .. MaxMisses]
    BY DEF OwnerInv, LeaseTypeOK
  <2>8. t = s => \/ row' = [row EXCEPT !.left = Ttl] /\ timer'[s] = Heartbeat
                    /\ misses'[s] = 0 /\ acquired' = acquired
                 \/ row' = row /\ timer'[s] = Heartbeat /\ acquired' = acquired
                    /\ misses[s] < MaxMisses /\ misses'[s] = misses[s] + 1
    BY <2>1, <2>7 DEF Beat
  <2> QED BY <2>4, <2>5, <2>6, <2>8
<1> QED BY <1>1, <1>2, <1>3 DEF OwnerInv, LeaseLasts

LEMMA OwnerStep ==
  ASSUME LeaseOutlastsMisses, ForUpdate, OwnerInv, LeaseTypeOK',
         NEW s \in Servers, LeaseStep(s)
  PROVE  OwnerInv'
<1>1. CASE StartAcquire(s) \/ StartServing(s) \/ CancelServing(s) \/ Slow(s)
  <2>1. UNCHANGED <<row, timer, misses, acquired>> /\ slow \subseteq slow'
    BY <1>1 DEF StartAcquire, StartServing, CancelServing, Slow
  <2>2. /\ \A t \in Servers : Indexing(t)' => Indexing(t)
        /\ \A t \in Servers : mode'[t] \in {"inserting", "stealing"} => mode'[t] = mode[t]
    BY <1>1 DEF OwnerInv, LeaseTypeOK, StartAcquire, StartServing, CancelServing, Slow, Indexing
  <2> QED BY <2>1, <2>2
    DEF OwnerInv, WritesInTime, OneThief, LeaseLasts, Expired, Holds, Reserve
<1>2. CASE SelectRow(s) \/ AttemptFails(s)
  <2>1. UNCHANGED <<row, misses, acquired, slow>>
    BY <1>2 DEF SelectRow, AttemptFails
  <2>2. LeaseLasts'
    <3>1. \A t \in Servers : Indexing(t)' => Indexing(t) /\ timer'[t] = timer[t]
      BY <1>2 DEF OwnerInv, LeaseTypeOK, SelectRow, AttemptFails, PollAgain, Indexing
    <3> QED BY <2>1, <3>1 DEF OwnerInv, LeaseLasts, Holds, Reserve
  <2>3. WritesInTime'
    BY <1>2, <2>1, Numbers
    DEF OwnerInv, LeaseTypeOK, WritesInTime, SelectRow, AttemptFails, PollAgain
  <2>4. OneThief'
    BY <1>2, <2>1 DEF OwnerInv, LeaseTypeOK, OneThief, SelectRow, AttemptFails, PollAgain,
                      Expired, Unlocked
  <2> QED BY <2>2, <2>3, <2>4 DEF OwnerInv
<1>3. CASE InsertRow(s) \/ StealRow(s)
  BY <1>3, OwnerAcquires
<1>4. CASE GiveUp(s) \/ Exit(s) \/ KilledWaiting(s) \/ Crash(s)
  BY <1>4, OwnerDies DEF GiveUp, Exit, KilledWaiting, Crash
<1>5. CASE Beat(s)
  BY <1>5, OwnerBeat
<1>6. CASE Release(s)
  <2>1. WritesInTime'
    BY <1>6 DEF OwnerInv, LeaseTypeOK, WritesInTime, Release
  <2>2. OneThief'
    BY <1>6 DEF OwnerInv, LeaseTypeOK, OneThief, Release, Expired, Unlocked
  <2>3. LeaseLasts'
    BY <1>6 DEF OwnerInv, LeaseTypeOK, LeaseLasts, Release, Holds, Indexing, Reserve
  <2> QED BY <2>1, <2>2, <2>3 DEF OwnerInv
<1> QED BY <1>1, <1>2, <1>3, <1>4, <1>5, <1>6 DEF LeaseStep

LEMMA OwnerTick ==
  ASSUME OwnerInv, LeaseTypeOK', Tick
  PROVE  OwnerInv'
<1>1. \A t \in Servers : timer[t] \in Int /\ misses[t] \in 0 .. MaxMisses
  BY DEF OwnerInv, LeaseTypeOK, Timers
<1>2. WritesInTime'
  BY <1>1, Numbers
  DEF OwnerInv, WritesInTime, Tick, Timed, AtLeast, Overdue
<1>3. OneThief'
  BY Numbers DEF OwnerInv, LeaseTypeOK, OneThief, Tick, Expired, AtLeast
<1>4. ASSUME NEW t \in Servers \ slow', Indexing(t)'
      PROVE  /\ t \in acquired' /\ Holds(t)' /\ timer'[t] >= 0 - Delay
             /\ timer'[t] + Delay + Reserve(misses[t])' <= row'.left
  <2>1. /\ t \in Servers \ slow /\ Indexing(t)
        /\ t \in acquired /\ Holds(t) /\ timer[t] >= 0 - Delay
        /\ timer[t] + Delay + Reserve(misses[t]) <= row.left
    BY <1>4 DEF Tick, Indexing, OwnerInv, LeaseLasts
  <2>2. timer[t] > 0 - Delay /\ timer'[t] = timer[t] - 1
    BY <1>1, <2>1, Numbers DEF Tick, Timed, AtLeast, Overdue, Indexing
  <2>3. /\ Holds(t)' /\ row'.left >= row.left - 1
        /\ row'.left \in Int /\ row.left \in Int
    BY <2>1, Numbers DEF OwnerInv, LeaseTypeOK, Tick, Holds, AtLeast
  <2>4. Reserve(misses[t])' = Reserve(misses[t]) /\ Reserve(misses[t]) \in Nat
    BY <1>1, <2>1, Reserves DEF Tick, Reserve
  <2> QED BY <1>1, <2>1, <2>2, <2>3, <2>4, Numbers DEF Tick
<1> QED BY <1>2, <1>3, <1>4 DEF OwnerInv, LeaseLasts

\* Two servers index one database at the same time only if one of them was
\* suspended or starved, however many servers start, crash and wait: for a
\* database with SELECT ... FOR UPDATE, and a lease that is longer than the
\* heartbeats that may fail in a row.
THEOREM OneServerIndexes ==
  ASSUME ForUpdate, LeaseOutlastsMisses
  PROVE  LeaseSpec => []OneIndexer
<1>1. LeaseInit => OwnerInv /\ TimedInv
  BY OwnerInit, TimedInit
<1>2. OwnerInv /\ TimedInv /\ [LeaseNext]_leaseVars => (OwnerInv /\ TimedInv)'
  <2>1. OwnerInv /\ UNCHANGED leaseVars => OwnerInv'
    BY DEF OwnerInv, LeaseTypeOK, WritesInTime, OneThief, LeaseLasts, leaseVars, Expired,
           Holds, Indexing, Reserve
  <2>2. OwnerInv /\ LeaseTypeOK' /\ LeaseNext => OwnerInv'
    BY OwnerStep, OwnerTick DEF LeaseNext
  <2> QED BY <2>1, <2>2, TimedNext DEF TimedInv
<1>3. OwnerInv => OneIndexer
  BY DEF OwnerInv, LeaseLasts, OneIndexer, Holds
<1> QED BY <1>1, <1>2, <1>3, PTL DEF LeaseSpec

-----------------------------------------------------------------------------
(* Nobody waits in vain *)

LEMMA WaitInit == LeaseInit => WaitInv
BY TimedInit DEF LeaseInit, WaitInv, TimedInv

\* WaitInv of one server t in a step of another or of its own
WaitOf(t) ==
  /\ timer[t] >= 0 - Delay /\ timer[t] <= PollInterval
  /\ t \in contended \/ (patience[t] > 0 /\ Rivals(t)) \/ Unrivalled(t)

\* A server that others keep from the row has noted it after the next step.
LEMMA NotesRivals ==
  ASSUME NoteContention, NEW t \in Servers, mode[t] = "polling", mode'[t] = "polling",
         t \in contended \/ Rivals(t)
  PROVE  t \in contended'
BY DEF NoteContention

LEMMA UnrivalledMayWait ==
  ASSUME LeaseTypeOK, NEW t \in Servers, timer[t] >= 0 - Delay, Unrivalled(t)
  PROVE  patience[t] > 0
BY Numbers DEF LeaseTypeOK, Timers, Unrivalled, Expired

LEMMA WaitStarts ==
  ASSUME WaitOutlastsLease, LeaseTypeOK, NEW t \in Servers, timer[t] = 0, StartAcquire(t)
  PROVE  WaitOf(t)'
BY Numbers DEF LeaseTypeOK, StartAcquire, WaitOf, Unrivalled, Expired, WaitOutlastsLease

\* t goes on waiting, has noted no rival and has none, when s takes a step
LEMMA WaitGoesOn ==
  ASSUME LeaseTypeOK, NEW s \in Servers, NEW t \in Servers \ slow, LeaseStep(s),
         mode[t] = "polling", mode'[t] = "polling", t \notin slow',
         timer[t] >= 0 - Delay, timer[t] <= PollInterval,
         ~ Rivals(t), Unrivalled(t)
  PROVE  WaitOf(t)'
<1>1. CASE s = t
  <2>1. /\ row' = row /\ patience'[t] = patience[t] /\ row # NoLease /\ ~ Expired
        /\ timer'[t] = Least(PollInterval, patience[t])
    BY <1>1 DEF LeaseStep, LeaseTypeOK, StartAcquire, SelectRow, InsertRow, StealRow,
                AttemptFails, PollAgain, GiveUp, Dies, StartServing, Beat, Indexing,
                CancelServing, Release, Exit, KilledWaiting, Crash, Slow, Acquires
  <2>2. patience[t] \in Nat
    BY DEF LeaseTypeOK
  <2> QED BY <2>1, <2>2, Numbers DEF WaitOf, Least, Unrivalled, Expired
<1>2. CASE s # t
  <2>1. timer'[t] = timer[t] /\ patience'[t] = patience[t]
    BY <1>2 DEF LeaseStep, LeaseTypeOK, StartAcquire, SelectRow, InsertRow, StealRow,
                AttemptFails, PollAgain, GiveUp, Dies, StartServing, Beat,
                CancelServing, Release, Exit, KilledWaiting, Crash, Slow, Acquires
  <2>2. ~ Indexing(s) /\ mode[s] # "stealing"
    BY <1>2 DEF Rivals
  <2>3. CASE InsertRow(s)
    <3>1. Rivals(t)'
      BY <1>2, <2>3 DEF LeaseTypeOK, InsertRow, Acquires, Rivals, Indexing
    <3> QED BY <2>1, <3>1, UnrivalledMayWait DEF WaitOf
  <2>4. CASE ~ InsertRow(s)
    <3>1. row' = row
      BY <2>2, <2>4 DEF LeaseStep, StartAcquire, SelectRow, StealRow, AttemptFails, GiveUp,
           Dies, StartServing, Beat, CancelServing, Release, Exit, KilledWaiting, Crash, Slow,
           Indexing
    <3> QED BY <2>1, <3>1 DEF WaitOf, Unrivalled, Expired
  <2> QED BY <2>3, <2>4
<1> QED BY <1>1, <1>2

LEMMA WaitStep ==
  ASSUME WaitOutlastsLease, WaitInv, LeaseTypeOK', NEW s \in Servers, LeaseStep(s),
         NoteContention
  PROVE  WaitInv'
<1>1. \A t \in Servers : mode'[t] \in {"off", "inserting", "stealing"} => timer'[t] <= 0
  BY DEF WaitInv, LeaseTypeOK, LeaseStep, StartAcquire, SelectRow, InsertRow, StealRow,
         AttemptFails, PollAgain, GiveUp, Dies, StartServing, Beat, Indexing,
         CancelServing, Release, Exit, KilledWaiting, Crash, Slow, Acquires
<1>2. \A t \in Servers : mode'[t] = "off" => timer'[t] = 0 /\ t \notin acquired'
  BY DEF WaitInv, LeaseTypeOK, LeaseStep, StartAcquire, SelectRow, InsertRow, StealRow,
         AttemptFails, PollAgain, GiveUp, Dies, StartServing, Beat, Indexing,
         CancelServing, Release, Exit, KilledWaiting, Crash, Slow, Acquires
<1>3. ASSUME NEW t \in Servers \ slow', mode'[t] = "polling"
      PROVE  WaitOf(t)'
  <2>1. \/ mode[t] = "off" /\ StartAcquire(t)
        \/ mode[t] \in {"inserting", "stealing"} /\ AttemptFails(t)
        \/ mode[t] = "polling" /\ t \notin slow
    BY <1>3 DEF WaitInv, LeaseTypeOK, LeaseStep, StartAcquire, SelectRow, InsertRow, StealRow,
         AttemptFails, PollAgain, GiveUp, Dies, StartServing, Beat, Indexing,
         CancelServing, Release, Exit, KilledWaiting, Crash, Slow, Acquires
  <2>2. CASE mode[t] = "off" /\ StartAcquire(t)
    BY <2>2, WaitStarts DEF WaitInv
  <2>3. CASE mode[t] \in {"inserting", "stealing"} /\ AttemptFails(t)
    <3>1. t \in contended'
      BY <1>3, <2>3 DEF NoteContention
    <3>2. timer'[t] = Least(PollInterval, patience[t]) /\ patience[t] \in Nat
      BY <2>3 DEF WaitInv, LeaseTypeOK, AttemptFails, PollAgain
    <3> QED BY <3>1, <3>2, Numbers DEF WaitOf, Least
  <2>4. CASE mode[t] = "polling" /\ t \notin slow
    <3>1. WaitOf(t)
      BY <2>4 DEF WaitInv, WaitOf
    <3>2. CASE t \in contended \/ Rivals(t)
      <4>1. t \in contended'
        BY <1>3, <2>4, <3>2, NotesRivals
      <4>2. \/ timer'[t] = timer[t]
            \/ timer'[t] = Least(PollInterval, patience[t]) /\ patience[t] \in Nat
        BY <1>3, <2>4 DEF WaitInv, LeaseTypeOK, LeaseStep, StartAcquire, SelectRow, InsertRow,
             StealRow, AttemptFails, PollAgain, GiveUp, Dies, StartServing, Beat, Indexing,
             CancelServing, Release, Exit, KilledWaiting, Crash, Slow, Acquires
      <4> QED BY <3>1, <4>1, <4>2, Numbers DEF WaitOf, Least
    <3>3. CASE ~ (t \in contended \/ Rivals(t))
      BY <1>3, <2>4, <3>1, <3>3, WaitGoesOn DEF WaitInv, WaitOf
    <3> QED BY <3>2, <3>3
  <2> QED BY <2>1, <2>2, <2>3, <2>4
<1> QED BY <1>1, <1>2, <1>3 DEF WaitInv, WaitOf

LEMMA WaitTick ==
  ASSUME WaitInv, LeaseTypeOK', Tick, NoteContention
  PROVE  WaitInv'
<1>1. mode' = mode /\ slow' = slow /\ acquired' = acquired
  BY DEF Tick
<1>2. \A t \in Servers : mode[t] \in {"off", "inserting", "stealing"} => timer'[t] <= 0
  BY Numbers DEF WaitInv, LeaseTypeOK, Timers, Tick, Timed, AtLeast, Overdue
<1>3. \A t \in Servers : mode[t] = "off" => timer'[t] = 0
  BY DEF WaitInv, Tick, Timed
<1>4. ASSUME NEW t \in Servers \ slow, mode[t] = "polling"
      PROVE  WaitOf(t)'
  <2>1. WaitOf(t) /\ timer[t] \in Int /\ patience[t] \in Nat
    BY <1>4 DEF WaitInv, WaitOf, LeaseTypeOK, Timers
  <2>2. timer[t] > 0 - Delay /\ timer'[t] = timer[t] - 1
    BY <1>4, <2>1, Numbers DEF Tick, Timed, AtLeast, Overdue
  <2>3. CASE t \in contended \/ Rivals(t)
    BY <1>1, <1>4, <2>1, <2>2, <2>3, NotesRivals, Numbers DEF WaitOf
  <2>4. CASE Unrivalled(t)
    <3>1. patience'[t] = patience[t] - 1
      BY <1>4, <2>1, <2>4, UnrivalledMayWait DEF WaitInv, WaitOf, Tick, TimeLeft, AtLeast
    <3>2. row # NoLease => /\ row.left \in -1 .. Ttl /\ row'.left = AtLeast(-1, row.left - 1)
                           /\ row' # NoLease
      BY Numbers DEF WaitInv, LeaseTypeOK, Tick, AtLeast
    <3>3. row = NoLease => row' = NoLease
      BY DEF Tick
    <3>4. Unrivalled(t)'
      BY <2>1, <2>2, <2>4, <3>1, <3>2, <3>3, Numbers
      DEF Unrivalled, Expired, AtLeast, WaitOf
    <3> QED BY <2>1, <2>2, <3>4, Numbers DEF WaitOf
  <2> QED BY <2>1, <2>3, <2>4 DEF WaitOf
<1> QED BY <1>1, <1>2, <1>3, <1>4 DEF WaitInv, WaitOf

\* A server that is not slow gives up waiting for the lease only if it had a
\* rival meanwhile: the row of a server that crashed runs out, and is polled
\* once more, before acquire does, if acquire is given a lease, a poll and a
\* delay of time.
THEOREM NobodyStarves ==
  ASSUME WaitOutlastsLease
  PROVE  LeaseSpec => []OnlyRivalsStarve
<1>1. LeaseInit => WaitInv /\ TimedInv
  BY WaitInit, TimedInit
<1>2. WaitInv /\ TimedInv /\ [LeaseNext]_leaseVars => (WaitInv /\ TimedInv)'
  <2>1. WaitInv /\ UNCHANGED leaseVars => WaitInv'
    BY DEF WaitInv, LeaseTypeOK, leaseVars, Rivals, Indexing, Unrivalled, Expired
  <2>2. WaitInv /\ LeaseTypeOK' /\ LeaseNext => WaitInv'
    BY WaitStep, WaitTick DEF LeaseNext
  <2> QED BY <2>1, <2>2, TimedNext DEF TimedInv
<1>3. WaitInv => OnlyRivalsStarve
  <2> SUFFICES ASSUME WaitInv, NEW t \in Servers \ slow, mode[t] = "polling", patience[t] = 0
               PROVE  t \in contended
    BY DEF OnlyRivalsStarve
  <2> QED BY UnrivalledMayWait DEF WaitInv
<1> QED BY <1>1, <1>2, <1>3, PTL DEF LeaseSpec

-----------------------------------------------------------------------------
(* The daemons and their commands *)

Alive(d) == Running(d) \/ d \in booting

\* of a daemon that nobody is starting or stopping the files tell the truth
Settled(d) == mode[d] = "serving" /\ pidFile = d /\ portFile

\* what holds as long as commands come one at a time and none gives up
Orderly ==
  /\ slow = {}
  /\ \A u, v \in Users : cmd[u] # NoCommand /\ cmd[v] # NoCommand => u = v
  /\ \A d, e \in Servers : Alive(d) /\ Alive(e) => d = e
  /\ \A u \in Users : cmd[u].does = "starting" => \A d \in Servers : ~ Alive(d)
  /\ \A d \in Servers : Alive(d) =>
       \/ Settled(d) /\ \A u \in Users : cmd[u] = NoCommand
       \/ \E u \in Users : cmd[u].does \in {"awaiting", "stopping"} /\ cmd[u].pid = d

FilesInv ==
  /\ LifecycleTypeOK
  /\ \A u \in Users : cmd[u].does = "nothing" => cmd[u] = NoCommand
  /\ \A u \in Users : cmd[u].does = "stopping" =>
       cmd[u].pid \in Servers /\ mode[cmd[u].pid] # "off"
  /\ \A d \in booting : mode[d] = "off"
  /\ ~ disturbed => Orderly

LifecycleSpec == LifecycleInit /\ [][LifecycleNext]_lifecycleVars

LEMMA LifecycleStepIsLeaseStep ==
  LifecycleTypeOK /\ LifecycleNext => [LeaseNext]_leaseVars
<1>1. ASSUME NEW d \in Servers, DaemonStep(d), NoteContention
      PROVE  LeaseNext
  BY <1>1 DEF DaemonStep, Daemonize, LeaseAcquired, DaemonEnds, DaemonOnly, LeaseNext, LeaseStep
<1>2. TimePasses /\ NoteContention => LeaseNext
  BY DEF TimePasses, LeaseNext
<1>3. ASSUME NEW u \in Users, CommandStep(u), LifecycleTypeOK
      PROVE  LeaseNext \/ UNCHANGED leaseVars
  <2>1. CASE StopSignals(u)
    <3>1. pidFile # NoPid
      BY <2>1 DEF StopSignals
    <3>2. pidFile \in Servers
      BY <1>3, <3>1 DEF LifecycleTypeOK
    <3> QED BY <2>1, <3>2 DEF StopSignals, LeaseNext, LeaseStep
  <2>2. CASE ~ StopSignals(u)
    BY <1>3, <2>2 DEF CommandStep, EnsureChecks, EnsureStarts, EnsureEnds, StopEnds
  <2> QED BY <2>1, <2>2
<1> QED BY <1>1, <1>2, <1>3 DEF LifecycleNext

LEMMA LifecycleTypesInit == LifecycleInit => LifecycleTypeOK
<1>1. LifecycleInit => LeaseTypeOK
  BY TimedInit DEF LifecycleInit, TimedInv
<1> DEFINE Commands == [does : {"nothing", "starting", "awaiting", "stopping"},
                        pid : Servers \cup {NoPid},
                        left : 0 .. StartupTimeout + StopTimeout]
<1>2. NoCommand \in Commands
  BY LifecycleConstants DEF NoCommand
<1>3. LifecycleInit => cmd \in [Users -> Commands]
  <2> HIDE DEF Commands
  <2> QED BY <1>2 DEF LifecycleInit
<1>4. LifecycleInit => commands \in 0 .. MaxCommands /\ booting \in SUBSET Servers
  BY LifecycleConstants DEF LifecycleInit
<1>5. LifecycleInit => disturbed \in BOOLEAN /\ portFile \in BOOLEAN
  BY DEF LifecycleInit
<1> QED BY <1>1, <1>3, <1>4, <1>5 DEF LifecycleInit, LifecycleTypeOK

LEMMA FreshDaemons ==
  \A d \in Fresh : d \in Servers /\ d \notin booting /\ mode[d] = "off"
<1> SUFFICES ASSUME NEW d \in Fresh
             PROVE  d \in Servers /\ d \notin booting /\ mode[d] = "off"
  OBVIOUS
<1>1. PICK kind \in {MaybeSlow, Servers \ MaybeSlow} :
        Unused(kind) # {} /\ d = CHOOSE e \in Unused(kind) : TRUE
  BY DEF Fresh
<1>2. d \in Unused(kind)
  BY <1>1
<1>3. kind \subseteq Servers
  BY <1>1, LeaseConstants DEF LeaseConstants
<1> QED BY <1>2, <1>3 DEF Unused

LEMMA LifecycleTypesNext ==
  ASSUME LifecycleTypeOK, LeaseTypeOK', LifecycleNext
  PROVE  LifecycleTypeOK'
<1> DEFINE Commands == [does : {"nothing", "starting", "awaiting", "stopping"},
                        pid : Servers \cup {NoPid},
                        left : 0 .. StartupTimeout + StopTimeout]
<1> USE LifecycleConstants
<1>1. ASSUME NEW d \in Servers, DaemonStep(d)
      PROVE  LifecycleTypeOK'
  BY <1>1 DEF LifecycleTypeOK, DaemonStep, Daemonize, LeaseAcquired, DaemonEnds, DaemonOnly,
              fileVars, cleanup_stale_state
<1>2. CASE TimePasses
  <2>1. \A u \in Users : [cmd[u] EXCEPT !.left = TimeLeft(@)] \in Commands
    BY DEF LifecycleTypeOK, TimeLeft, AtLeast
  <2> QED BY <1>2, <2>1 DEF LifecycleTypeOK, TimePasses, fileVars
<1>3. ASSUME NEW u \in Users, CommandStep(u)
      PROVE  LifecycleTypeOK'
  <2>1. /\ pidFile' \in Servers \cup {NoPid} /\ portFile' \in BOOLEAN
        /\ disturbed' \in BOOLEAN /\ commands' \in 0 .. MaxCommands
    <3>1. \/ UNCHANGED fileVars
          \/ cleanup_stale_state
      BY <1>3 DEF CommandStep, EnsureChecks, EnsureStarts, EnsureEnds, StopSignals, StopEnds
    <3>2. \/ Begins(u)
          \/ UNCHANGED commands /\ (disturbed' = disturbed \/ disturbed' = TRUE)
      BY <1>3 DEF CommandStep, EnsureChecks, EnsureStarts, EnsureEnds, StopSignals, StopEnds
    <3>3. disturbed' \in BOOLEAN /\ commands' \in 0 .. MaxCommands
      <4>1. commands' \in 0 .. MaxCommands
        BY <3>2 DEF LifecycleTypeOK, Begins
      <4>2. disturbed' \in BOOLEAN
        BY <3>2, Zenon DEF LifecycleTypeOK, Begins
      <4> QED BY <4>1, <4>2
    <3> QED BY <3>1, <3>3 DEF LifecycleTypeOK, fileVars, cleanup_stale_state
  <2>2. Fresh \subseteq Servers
    BY FreshDaemons
  <2>3. booting' \in SUBSET Servers
    BY <1>3, <2>2 DEF LifecycleTypeOK, CommandStep, EnsureChecks, EnsureStarts, EnsureEnds,
                      StopSignals, StopEnds
  <2>4. NoCommand \in Commands
    BY DEF NoCommand
  <2>5. cmd' \in [Users -> Commands]
    <3>1. ASSUME NEW does \in {"starting", "awaiting", "stopping"},
                 NEW d \in Servers \cup {NoPid}, NEW n \in {0, StartupTimeout, StopTimeout},
                 Becomes(u, does, d, n)
          PROVE  cmd' \in [Users -> Commands]
      BY <3>1 DEF LifecycleTypeOK, Becomes
    <3>2. CASE EnsureChecks(u)
      BY <3>1, <3>2 DEF EnsureChecks
    <3>3. CASE EnsureStarts(u)
      BY <2>2, <3>1, <3>3 DEF EnsureStarts
    <3>4. CASE EnsureEnds(u) \/ StopEnds(u)
      BY <2>4, <3>4 DEF LifecycleTypeOK, EnsureEnds, StopEnds, CommandEnds
    <3>5. CASE StopSignals(u)
      BY <3>1, <3>5 DEF LifecycleTypeOK, StopSignals
    <3> QED BY <1>3, <3>2, <3>3, <3>4, <3>5 DEF CommandStep
  <2> QED BY <2>1, <2>3, <2>5 DEF LifecycleTypeOK
<1> QED BY <1>1, <1>2, <1>3 DEF LifecycleNext

\* Whatever daemons and commands do, they do nothing to the lease but the
\* steps of IndexerLease.
THEOREM LifecycleKeepsTheLease == LifecycleSpec => LeaseSpec
<1>1. LifecycleInit => LeaseInit /\ TimedInv /\ LifecycleTypeOK
  BY TimedInit, LifecycleTypesInit DEF LifecycleInit
<1>2. TimedInv /\ LifecycleTypeOK /\ [LifecycleNext]_lifecycleVars
        => [LeaseNext]_leaseVars /\ (TimedInv /\ LifecycleTypeOK)'
  <2>1. UNCHANGED lifecycleVars /\ LifecycleTypeOK => LifecycleTypeOK' /\ UNCHANGED leaseVars
    BY DEF lifecycleVars, leaseVars, LifecycleTypeOK, LeaseTypeOK
  <2> QED BY <2>1, LifecycleStepIsLeaseStep, TimedNext, LifecycleTypesNext DEF TimedInv
<1> QED BY <1>1, <1>2, PTL DEF LifecycleSpec, LeaseSpec

LEMMA FilesInit == LifecycleInit => FilesInv
BY LifecycleTypesInit
DEF LifecycleInit, LeaseInit, FilesInv, Orderly, Alive, Running, NoCommand

LEMMA FilesDaemon ==
  ASSUME FilesInv, LifecycleTypeOK', NEW d \in Servers, DaemonStep(d)
  PROVE  FilesInv'
<1>1. cmd' = cmd /\ (disturbed' = (disturbed \/ d \in slow'))
  BY DEF DaemonStep
<1>2. \A e \in Servers \ {d} : mode'[e] = mode[e]
  BY DEF FilesInv, LifecycleTypeOK, LeaseTypeOK, DaemonStep, Daemonize, LeaseAcquired,
         DaemonEnds, DaemonOnly, StartAcquire, SelectRow, InsertRow, StealRow, AttemptFails,
         PollAgain, GiveUp, Dies, StartServing, Beat, Release, Exit, Crash, Slow, Acquires
<1>3. /\ Alive(d) /\ booting' \subseteq booting
      /\ d \in booting => d \notin booting'
  BY DEF FilesInv, DaemonStep, Daemonize, LeaseAcquired, DaemonEnds, DaemonOnly,
         SelectRow, InsertRow, StealRow, AttemptFails, GiveUp, StartServing, Beat, Indexing,
         Release, Exit, Crash, Slow, Alive, Running
<1>4. \A e \in Servers : Alive(e)' => Alive(e)
  BY <1>2, <1>3 DEF Alive, Running
<1>5. /\ \A e \in booting' : mode'[e] = "off"
      /\ mode'[d] # "off"
      /\ \A e \in Servers : mode[e] # "off" => mode'[e] # "off"
  <2>1. mode'[d] # "off"
    BY DEF FilesInv, LifecycleTypeOK, LeaseTypeOK, DaemonStep, Daemonize, LeaseAcquired,
         DaemonEnds, DaemonOnly, StartAcquire, SelectRow, InsertRow, StealRow, AttemptFails,
         PollAgain, GiveUp, Dies, StartServing, Beat, Indexing, Release, Exit, Crash, Slow,
         Acquires
  <2> QED BY <1>2, <1>3, <2>1 DEF FilesInv, LifecycleTypeOK
<1>6. Settled(d) /\ Alive(d)' /\ d \notin slow' => Settled(d)'
  BY <1>3 DEF Settled, FilesInv, LifecycleTypeOK, LeaseTypeOK, DaemonStep, Daemonize,
         LeaseAcquired, DaemonEnds, DaemonOnly, fileVars, StartAcquire, SelectRow, InsertRow,
         StealRow, AttemptFails, GiveUp, StartServing, Beat, Release, Exit, Crash, Dies, Slow,
         Alive, Running
<1>7. slow' \subseteq slow \cup {d}
  BY DEF DaemonStep, Daemonize, LeaseAcquired, DaemonEnds, DaemonOnly,
         StartAcquire, SelectRow, InsertRow, StealRow, AttemptFails, GiveUp, Dies,
         StartServing, Beat, Release, Exit, Crash, Slow, Acquires
<1>8. ASSUME ~ disturbed'
      PROVE  Orderly'
  <2>1. ~ disturbed /\ d \notin slow'
    BY <1>1, <1>8
  <2>2. slow' = {}
    BY <1>7, <2>1 DEF FilesInv, Orderly
  <2>3. \A e \in Servers : Alive(e)' => e = d
    BY <1>3, <1>4, <2>1 DEF FilesInv, Orderly
  <2> QED BY <1>1, <1>3, <1>6, <2>1, <2>2, <2>3 DEF FilesInv, Orderly
<1> QED BY <1>1, <1>5, <1>8 DEF FilesInv

\* A command that begins and disturbs nobody is alone, and the files are right.
LEMMA BeginsAlone ==
  ASSUME FilesInv, NEW u \in Users, Begins(u), ~ disturbed'
  PROVE  /\ ~ disturbed /\ Orderly
         /\ \A v \in Users : cmd[v] = NoCommand
         /\ \A d \in Servers : Alive(d) => Settled(d)
<1>1. cmd[u] = NoCommand
  BY DEF Begins
<1>2. ~ disturbed /\ \A v \in Users : cmd[v] = NoCommand
  BY <1>1 DEF Begins
<1>3. \A v \in Users : cmd[v].does = "nothing"
  BY <1>2 DEF NoCommand
<1> QED BY <1>2, <1>3 DEF FilesInv, Orderly

LEMMA FilesChecks ==
  ASSUME FilesInv, LifecycleTypeOK', NEW u \in Users, EnsureChecks(u)
  PROVE  FilesInv'
<1>1. /\ UNCHANGED <<leaseVars, fileVars, booting>>
      /\ cmd' = [cmd EXCEPT ![u] = [does |-> "starting", pid |-> NoPid, left |-> 0]]
  BY DEF EnsureChecks, Becomes
<1>2. cmd' = [v \in Users |-> IF v = u THEN [does |-> "starting", pid |-> NoPid, left |-> 0]
                             ELSE cmd[v]]
  BY <1>1 DEF FilesInv, LifecycleTypeOK
<1>3. \A d \in Servers : Alive(d)' <=> Alive(d)
  BY <1>1 DEF leaseVars, Alive, Running
<1>4. ASSUME ~ disturbed' PROVE Orderly'
  <2>1. /\ ~ disturbed /\ Orderly /\ \A v \in Users : cmd[v] = NoCommand
        /\ \A d \in Servers : Alive(d) => Settled(d)
    BY <1>4, BeginsAlone DEF EnsureChecks
  <2>2. \A d \in Servers : ~ Alive(d)
    <3> SUFFICES ASSUME NEW d \in Servers, Alive(d) PROVE FALSE
      OBVIOUS
    <3>1. Settled(d)
      BY <2>1
    <3>2. Running(d)
      BY <3>1 DEF Settled, Running
    <3>3. pidFile # NoPid
      BY <3>1, LifecycleConstants DEF Settled
    <3> QED BY <3>1, <3>2, <3>3 DEF EnsureChecks, is_server_healthy, is_pid_stale, Settled
  <2> QED BY <1>1, <1>2, <1>3, <2>1, <2>2 DEF Orderly, leaseVars
<1> QED BY <1>1, <1>2, <1>4 DEF FilesInv, leaseVars

LEMMA FilesStarts ==
  ASSUME FilesInv, LifecycleTypeOK', NEW u \in Users, EnsureStarts(u)
  PROVE  FilesInv'
<1>1. PICK d \in Fresh :
        /\ booting' = booting \cup {d}
        /\ cmd' = [cmd EXCEPT ![u] = [does |-> "awaiting", pid |-> d, left |-> StartupTimeout]]
  BY DEF EnsureStarts, Becomes
<1>2. d \in Servers /\ d \notin booting /\ mode[d] = "off"
  BY FreshDaemons
<1>3. /\ UNCHANGED <<mode, slow, disturbed>>
      /\ cmd' = [v \in Users |->
           IF v = u THEN [does |-> "awaiting", pid |-> d, left |-> StartupTimeout] ELSE cmd[v]]
  BY <1>1 DEF EnsureStarts, leaseVars, FilesInv, LifecycleTypeOK
<1>4. ASSUME ~ disturbed PROVE Orderly'
  <2>1. Orderly /\ \A e \in Servers : ~ Alive(e)
    BY <1>4 DEF FilesInv, Orderly, EnsureStarts
  <2>2. \A e \in Servers : Alive(e)' => e = d
    BY <1>1, <1>3, <2>1 DEF Alive, Running
  <2>3. \A v \in Users \ {u} : cmd[v] = NoCommand
    BY <2>1 DEF Orderly, EnsureStarts, NoCommand
  <2> QED BY <1>3, <2>1, <2>2, <2>3 DEF Orderly, NoCommand
<1> QED BY <1>1, <1>2, <1>3, <1>4 DEF FilesInv

\* A command that ends leaves no daemon behind that the files do not tell of.
LEMMA FilesEnds ==
  ASSUME FilesInv, LifecycleTypeOK', NEW u \in Users, EnsureEnds(u) \/ StopEnds(u)
  PROVE  FilesInv'
<1>1. /\ UNCHANGED <<mode, slow, booting>>
      /\ cmd' = [v \in Users |-> IF v = u THEN NoCommand ELSE cmd[v]]
  BY DEF EnsureEnds, StopEnds, CommandEnds, leaseVars, FilesInv, LifecycleTypeOK
<1>2. cmd[u].does \in {"awaiting", "stopping"}
  BY DEF EnsureEnds, StopEnds
<1>3. \A d \in Servers : Alive(d)' <=> Alive(d)
  BY <1>1 DEF Alive, Running
<1>4. ASSUME ~ disturbed' PROVE Orderly'
  <2>1. /\ ~ disturbed
        /\ \/ is_server_healthy /\ UNCHANGED fileVars /\ cmd[u].does = "awaiting"
           \/ is_pid_stale(cmd[u].pid) /\ cmd[u].does = "stopping"
    BY <1>4 DEF EnsureEnds, StopEnds
  <2>2. Orderly /\ \A v \in Users \ {u} : cmd[v] = NoCommand
    BY <1>2, <2>1 DEF FilesInv, Orderly, NoCommand
  <2>3. ASSUME NEW d \in Servers, Alive(d) PROVE Settled(d)'
    <3>1. cmd[u].pid = d
      BY <1>2, <2>2, <2>3 DEF Orderly, NoCommand
    <3>2. CASE is_server_healthy /\ UNCHANGED fileVars
      <4>1. pidFile = d
        <5>1. pidFile \in Servers /\ Alive(pidFile)
          BY <3>2 DEF is_server_healthy, is_pid_stale, Alive, FilesInv, LifecycleTypeOK
        <5> QED BY <2>2, <2>3, <5>1 DEF Orderly
      <4>2. mode[d] = "serving" /\ portFile
        <5>1. PICK e \in Servers : mode[e] = "serving"
          BY <3>2 DEF is_server_healthy
        <5>2. Alive(e)
          BY <5>1 DEF Alive, Running
        <5> QED BY <2>2, <2>3, <3>2, <5>1, <5>2 DEF Orderly, is_server_healthy
      <4> QED BY <1>1, <3>2, <4>1, <4>2 DEF Settled, fileVars
    <3>3. CASE is_pid_stale(cmd[u].pid) /\ cmd[u].does = "stopping"
      <4>1. d \in booting
        BY <2>3, <3>1, <3>3 DEF is_pid_stale, Alive
      <4> QED BY <3>1, <3>3, <4>1 DEF FilesInv
    <3> QED BY <2>1, <3>2, <3>3
  <2> QED BY <1>1, <1>3, <2>2, <2>3 DEF Orderly, NoCommand
<1> QED BY <1>1, <1>4 DEF FilesInv, NoCommand

LEMMA FilesStops ==
  ASSUME FilesInv, LifecycleTypeOK', NEW u \in Users, StopSignals(u)
  PROVE  FilesInv'
<1>1. Begins(u) /\ pidFile # NoPid /\ UNCHANGED booting
  BY DEF StopSignals
<1>2. pidFile \in Servers
  BY <1>1 DEF FilesInv, LifecycleTypeOK
<1>3. CASE is_pid_stale(pidFile)
  <2>1. UNCHANGED <<mode, slow, cmd>>
    BY <1>3 DEF StopSignals, leaseVars
  <2>2. ASSUME ~ disturbed' PROVE Orderly'
    <3>1. /\ ~ disturbed /\ Orderly /\ \A v \in Users : cmd[v] = NoCommand
          /\ \A d \in Servers : Alive(d) => Settled(d)
      BY <1>1, <2>2, BeginsAlone
    <3>2. \A d \in Servers : ~ Alive(d)
      BY <1>3, <3>1 DEF is_pid_stale, Settled, Running
    <3> QED BY <1>1, <2>1, <3>1, <3>2 DEF Orderly, Alive, Running
  <2> QED BY <1>1, <2>1, <2>2 DEF FilesInv
<1>4. CASE ~ is_pid_stale(pidFile)
  <2>1. cmd' = [v \in Users |->
           IF v = u THEN [does |-> "stopping", pid |-> pidFile, left |-> StopTimeout] ELSE cmd[v]]
    BY <1>4 DEF StopSignals, Becomes, FilesInv, LifecycleTypeOK
  <2>2. /\ \A d \in Servers \ {pidFile} : mode'[d] = mode[d]
        /\ mode[pidFile] \notin {"off", "dead"} /\ mode'[pidFile] # "off"
        /\ slow' \subseteq slow
    BY <1>2, <1>4 DEF StopSignals, KilledWaiting, Dies, CancelServing, leaseVars, is_pid_stale,
         Running, FilesInv, LifecycleTypeOK, LeaseTypeOK
  <2>3. \A d \in Servers : Alive(d)' => Alive(d)
    BY <1>1, <2>2 DEF Alive, Running
  <2>4. ASSUME ~ disturbed' PROVE Orderly'
    <3>1. /\ ~ disturbed /\ Orderly /\ \A v \in Users : cmd[v] = NoCommand
      BY <1>1, <2>4, BeginsAlone
    <3>2. \A d \in Servers : Alive(d)' => d = pidFile
      BY <1>2, <2>2, <2>3, <3>1 DEF Orderly, Alive, Running
    <3>3. slow' = {}
      BY <2>2, <3>1 DEF Orderly
    <3>4. \A v \in Users : cmd'[v].does # "starting" /\ (cmd'[v] # NoCommand => v = u)
      BY <2>1, <3>1 DEF NoCommand
    <3>5. cmd'[u].does = "stopping" /\ cmd'[u].pid = pidFile
      BY <2>1
    <3> QED BY <3>2, <3>3, <3>4, <3>5 DEF Orderly
  <2>5. \A d \in booting' : mode'[d] = "off"
    BY <1>1, <2>2 DEF FilesInv, LifecycleTypeOK
  <2>6. \A v \in Users : cmd'[v].does = "stopping" =>
          cmd'[v].pid \in Servers /\ mode'[cmd'[v].pid] # "off"
    BY <1>2, <2>1, <2>2 DEF FilesInv
  <2>7. \A v \in Users : cmd'[v].does = "nothing" => cmd'[v] = NoCommand
    BY <2>1 DEF FilesInv
  <2> QED BY <2>4, <2>5, <2>6, <2>7 DEF FilesInv
<1> QED BY <1>3, <1>4

LEMMA FilesTime ==
  ASSUME FilesInv, LifecycleTypeOK', TimePasses
  PROVE  FilesInv'
<1>1. UNCHANGED <<mode, slow, booting, disturbed, fileVars>>
  BY DEF TimePasses, Tick
<1>2. \A u \in Users : /\ cmd'[u].does = cmd[u].does /\ cmd'[u].pid = cmd[u].pid
                       /\ cmd[u] = NoCommand => cmd'[u] = NoCommand
                       /\ cmd[u] # NoCommand => cmd[u].does # "nothing"
  BY DEF TimePasses, FilesInv, LifecycleTypeOK, NoCommand, TimeLeft, AtLeast
<1>3. \A u \in Users : cmd'[u].does = "nothing" => cmd'[u] = NoCommand
  BY <1>2 DEF FilesInv
<1>4. \A u \in Users : cmd'[u] # NoCommand => cmd[u] # NoCommand
  BY <1>2
<1>5. Orderly => Orderly'
  BY <1>1, <1>2, <1>4 DEF Orderly, Alive, Running, Settled, fileVars
<1> QED BY <1>1, <1>2, <1>3, <1>5 DEF FilesInv

\* As long as commands come one at a time, none gives up waiting and no daemon
\* is slow, at most one daemon runs, whatever crashes; and when no command is
\* at work the files name the one that serves.
THEOREM FilesAreRight == LifecycleSpec => []FilesTellTheTruth
<1>1. LifecycleInit => FilesInv /\ TimedInv
  BY FilesInit, TimedInit DEF LifecycleInit
<1>2. FilesInv /\ TimedInv /\ [LifecycleNext]_lifecycleVars => (FilesInv /\ TimedInv)'
  <2>1. UNCHANGED lifecycleVars /\ FilesInv => FilesInv'
    BY DEF lifecycleVars, leaseVars, FilesInv, LifecycleTypeOK, LeaseTypeOK, Orderly, Alive,
           Running, Settled
  <2>2. FilesInv /\ TimedInv /\ [LifecycleNext]_lifecycleVars => TimedInv'
    <3>1. UNCHANGED lifecycleVars => UNCHANGED leaseVars
      BY DEF lifecycleVars, leaseVars
    <3> QED BY <3>1, TimedNext, LifecycleStepIsLeaseStep DEF FilesInv
  <2>3. FilesInv /\ LifecycleNext /\ TimedInv' => FilesInv'
    <3> SUFFICES ASSUME FilesInv, LifecycleNext, LifecycleTypeOK' PROVE FilesInv'
      BY LifecycleTypesNext DEF FilesInv, TimedInv
    <3> QED BY FilesDaemon, FilesChecks, FilesStarts, FilesEnds, FilesStops, FilesTime
        DEF LifecycleNext, CommandStep
  <2> QED BY <2>1, <2>2, <2>3
<1>3. FilesInv => FilesTellTheTruth
  BY DEF FilesInv, Orderly, FilesTellTheTruth, Alive, Settled, Running, NoCommand
<1> QED BY <1>1, <1>2, <1>3, PTL DEF LifecycleSpec
=============================================================================
