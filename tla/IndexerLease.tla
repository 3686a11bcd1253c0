---------------------------- MODULE IndexerLease ----------------------------
(***************************************************************************)
(* The lease that is to keep two indexing engines off one database         *)
(* (ragzoom/server/lease.py, ragzoom/server/app.py).                       *)
(*                                                                         *)
(* A server polls the lease row until it may insert it, or may take it     *)
(* over because it has expired; then it indexes and refreshes the row; on  *)
(* SIGTERM it finishes its work and deletes the row.  A server that finds  *)
(* that its row is gone notes that and goes on indexing.                   *)
(*                                                                         *)
(* All times are timers that Tick counts down, so no clock is needed:      *)
(* timer[s] is the time until the sleeping task of s is due, and below     *)
(* zero by how much it is overdue; of a server between its SELECT and its  *)
(* write it is minus the time since the SELECT, which is when the code     *)
(* read the clock.                                                         *)
(***************************************************************************)
EXTENDS Integers

CONSTANTS Servers,          \* processes; one process runs once
          NoLease,          \* the table is empty
          Ttl,              \* ttl_seconds
          Heartbeat,        \* heartbeat_interval
          AcquireTimeout,   \* acquire_timeout
          PollInterval,     \* acquire_poll_interval
          Delay,            \* a task of a server that is not slow runs this late at most
          MaxMisses,        \* heartbeats in a row that raise an exception
          MaybeSlow,        \* bounds the runs: servers that may be suspended or starved
          ForUpdate         \* SELECT ... FOR UPDATE (PostgreSQL), or none (SQLite)

ASSUME LeaseConstants ==
  /\ NoLease \notin [holder : Servers, left : Int]
  /\ {Ttl, AcquireTimeout, Delay, MaxMisses} \subseteq Nat
  /\ {Heartbeat, PollInterval} \subseteq Nat \ {0}
  /\ MaybeSlow \subseteq Servers
  /\ ForUpdate \in BOOLEAN

VARIABLES row,        \* the row of indexer_leases: its holder and the time until it expires
          mode,       \* what each server is doing
          timer,
          patience,   \* the time until the deadline of acquire
          misses,     \* heartbeats that failed since the last good one
          acquired,   \* _acquired: the heartbeat task of these servers runs
          slow,       \* history: running servers that were ever suspended or starved
          contended   \* history: waiting servers that had a reason to wait

leaseVars == <<row, mode, timer, patience, misses, acquired, slow, contended>>

Modes == {"off", "polling", "inserting", "stealing", "building", "serving",
          "stopping", "exiting", "dead"}

Longest == Ttl + AcquireTimeout + Heartbeat + PollInterval + Delay + 1
Timers == (0 - Longest) .. Longest

LeaseTypeOK ==
  /\ row \in {NoLease} \cup [holder : Servers, left : -1 .. Ttl]
  /\ mode \in [Servers -> Modes]
  /\ timer \in [Servers -> Timers]
  /\ patience \in [Servers -> 0 .. AcquireTimeout]
  /\ misses \in [Servers -> 0 .. MaxMisses]
  /\ acquired \in SUBSET Servers
  /\ slow \in SUBSET Servers
  /\ contended \in SUBSET Servers

AtLeast(low, n) == IF n < low THEN low ELSE n
Least(a, b) == IF a < b THEN a ELSE b

(***************************************************************************)
(* A server indexes from the moment it builds its state to the end of its  *)
(* shutdown, whatever has become of its lease.                             *)
(***************************************************************************)
Indexing(s) == mode[s] \in {"building", "serving", "stopping"}
Holds(s) == row # NoLease /\ row.holder = s
Expired_Early == row # NoLease /\ row.left <= 0            \* seeded fault
Expired_Grace == row # NoLease /\ row.left < 0 - Delay - 1 \* seeded fault
Expired == row # NoLease /\ row.left < 0

(***************************************************************************)
(* With FOR UPDATE nobody reads for update, refreshes or deletes the row   *)
(* while another transaction is between its SELECT and its UPDATE.         *)
(***************************************************************************)
Unlocked(s) == ForUpdate => \A t \in Servers \ {s} : mode[t] # "stealing"

LeaseInit ==
  /\ row = NoLease
  /\ mode = [s \in Servers |-> "off"]
  /\ timer = [s \in Servers |-> 0]
  /\ patience = [s \in Servers |-> 0]
  /\ misses = [s \in Servers |-> 0]
  /\ acquired = {}
  /\ slow = {}
  /\ contended = {}

-----------------------------------------------------------------------------
(* acquire *)

\* the process is gone; what it had in memory is reset, for it means nothing now
Dies(s) ==
  /\ mode' = [mode EXCEPT ![s] = "dead"]
  /\ timer' = [timer EXCEPT ![s] = 0]
  /\ patience' = [patience EXCEPT ![s] = 0]
  /\ misses' = [misses EXCEPT ![s] = 0]
  /\ acquired' = acquired \ {s}
  /\ slow' = slow \ {s}
  /\ UNCHANGED row

StartAcquire(s) ==
  /\ mode[s] = "off"
  /\ mode' = [mode EXCEPT ![s] = "polling"]
  /\ patience' = [patience EXCEPT ![s] = AcquireTimeout]
  /\ UNCHANGED <<row, timer, misses, acquired, slow>>

\* sleep min(poll interval, time left), then try again
PollAgain(s) ==
  /\ mode' = [mode EXCEPT ![s] = "polling"]
  /\ timer' = [timer EXCEPT ![s] = Least(PollInterval, patience[s])]

SelectRow(s) ==
  /\ mode[s] = "polling" /\ timer[s] <= 0 /\ patience[s] > 0
  /\ Unlocked(s)
  /\ \/ /\ row = NoLease
        /\ mode' = [mode EXCEPT ![s] = "inserting"]
        /\ timer' = [timer EXCEPT ![s] = 0]
     \/ /\ Expired
        /\ mode' = [mode EXCEPT ![s] = "stealing"]
        /\ timer' = [timer EXCEPT ![s] = 0]
     \/ /\ row # NoLease /\ ~ Expired
        /\ PollAgain(s)
  /\ UNCHANGED <<row, patience, misses, acquired, slow>>

\* the row as s writes it: it expires Ttl after s read the clock
Claimed(s) == [holder |-> s, left |-> AtLeast(-1, Ttl + timer[s])]

Acquires(s) ==
  /\ mode' = [mode EXCEPT ![s] = "building"]
  /\ timer' = [timer EXCEPT ![s] = Heartbeat]
  /\ patience' = [patience EXCEPT ![s] = 0]
  /\ acquired' = acquired \cup {s}
  /\ UNCHANGED <<misses, slow>>

InsertRow(s) ==
  /\ mode[s] = "inserting"
  /\ row = NoLease
  /\ row' = Claimed(s)
  /\ Acquires(s)

\* UPDATE ... WHERE id = 1, whatever the row says by now
StealRow(s) ==
  /\ mode[s] = "stealing"
  /\ row' = IF row = NoLease THEN NoLease ELSE Claimed(s)
  /\ Acquires(s)

\* the id of the row is taken, or the database raised something else
AttemptFails(s) ==
  /\ mode[s] \in {"inserting", "stealing"}
  /\ PollAgain(s)
  /\ UNCHANGED <<row, patience, misses, acquired, slow>>

GiveUp(s) ==
  /\ mode[s] = "polling" /\ timer[s] <= 0 /\ patience[s] = 0
  /\ Dies(s)

-----------------------------------------------------------------------------
(* serve, refresh, release *)

StartServing(s) ==
  /\ mode[s] = "building"
  /\ mode' = [mode EXCEPT ![s] = "serving"]
  /\ UNCHANGED <<row, timer, patience, misses, acquired, slow>>

\* one round of _heartbeat_loop: refreshed, not ours any more, or an exception
Beat(s) ==
  /\ s \in acquired /\ Indexing(s) /\ timer[s] <= 0
  /\ \/ /\ Unlocked(s) /\ Holds(s)
        /\ row' = [row EXCEPT !.left = Ttl]
        /\ timer' = [timer EXCEPT ![s] = Heartbeat]
        /\ misses' = [misses EXCEPT ![s] = 0]
        /\ UNCHANGED acquired
     \/ /\ Unlocked(s) /\ ~ Holds(s)
        /\ acquired' = acquired \ {s}
        /\ timer' = [timer EXCEPT ![s] = 0]
        /\ misses' = [misses EXCEPT ![s] = 0]
        /\ UNCHANGED row
     \/ /\ misses[s] < MaxMisses
        /\ misses' = [misses EXCEPT ![s] = @ + 1]
        /\ timer' = [timer EXCEPT ![s] = Heartbeat]
        /\ UNCHANGED <<row, acquired>>
  /\ UNCHANGED <<mode, patience, slow>>

\* SIGTERM cancels the serving task; while it finishes, the heartbeat goes on
CancelServing(s) ==
  /\ mode[s] \in {"building", "serving"}
  /\ mode' = [mode EXCEPT ![s] = "stopping"]
  /\ UNCHANGED <<row, timer, patience, misses, acquired, slow>>

\* engine.shutdown is over: end the heartbeat, then delete the row if it is still
\* ours; a failing DELETE is logged
Release(s) ==
  /\ mode[s] = "stopping"
  /\ \/ /\ s \in acquired /\ Holds(s) /\ Unlocked(s)
        /\ row' = NoLease
     \/ row' = row
  /\ acquired' = acquired \ {s}
  /\ mode' = [mode EXCEPT ![s] = "exiting"]
  /\ timer' = [timer EXCEPT ![s] = 0]
  /\ misses' = [misses EXCEPT ![s] = 0]
  /\ UNCHANGED <<patience, slow>>

Exit(s) ==
  /\ mode[s] = "exiting"
  /\ Dies(s)

\* SIGTERM before the lease is held: the daemon's own handler exits
KilledWaiting(s) ==
  /\ mode[s] = "polling"
  /\ Dies(s)

\* the process ends without any of its cleanup; its row stays
Crash(s) ==
  /\ mode[s] \notin {"off", "dead"}
  /\ Dies(s)

-----------------------------------------------------------------------------
(* time *)

\* s is suspended, or its event loop blocked, for longer than Delay
Slow(s) ==
  /\ s \in MaybeSlow /\ mode[s] \notin {"off", "dead"}
  /\ slow' = slow \cup {s}
  /\ UNCHANGED <<row, mode, timer, patience, misses, acquired>>

Timed(s) == mode[s] \in {"polling", "inserting", "stealing"} \/ s \in acquired
Overdue(s) == IF mode[s] \in {"inserting", "stealing"} THEN 0 - Ttl - 1 ELSE 0 - Delay - 1

TimeLeft(n) == AtLeast(0, n - 1)

Tick ==
  /\ \A s \in Servers \ slow : Timed(s) => timer[s] > 0 - Delay
  /\ row' = IF row = NoLease THEN row ELSE [row EXCEPT !.left = AtLeast(-1, @ - 1)]
  /\ timer' = [s \in Servers |->
                 IF Timed(s) THEN AtLeast(Overdue(s), timer[s] - 1) ELSE timer[s]]
  /\ patience' = [s \in Servers |-> TimeLeft(patience[s])]
  /\ UNCHANGED <<mode, misses, acquired, slow>>

\* what explains that s does not get the lease: a server that indexes or takes the
\* row over at the time, or an attempt that failed
Rivals(s) == \E t \in Servers \ {s} : Indexing(t) \/ mode[t] = "stealing"
NoteContention ==
  contended' = {s \in Servers :
                  /\ mode'[s] \in {"polling", "inserting", "stealing"}
                  /\ \/ s \in contended
                     \/ mode[s] = "polling" /\ Rivals(s)
                     \/ mode[s] \in {"inserting", "stealing"} /\ mode'[s] = "polling"}

LeaseStep(s) ==
  \/ StartAcquire(s) \/ SelectRow(s) \/ InsertRow(s) \/ StealRow(s)
  \/ AttemptFails(s) \/ GiveUp(s) \/ StartServing(s) \/ Beat(s)
  \/ CancelServing(s) \/ Release(s) \/ Exit(s) \/ KilledWaiting(s)
  \/ Crash(s) \/ Slow(s)

LeaseNext == (Tick \/ \E s \in Servers : LeaseStep(s)) /\ NoteContention

LeaseSpec == LeaseInit /\ [][LeaseNext]_leaseVars

-----------------------------------------------------------------------------
(***************************************************************************)
(* Two servers index at the same time only if one of them was slow: so     *)
(* long as heartbeats come within Delay and no more than MaxMisses in a    *)
(* row fail, a lease is never taken from a server that still indexes.      *)
(***************************************************************************)
OneIndexer ==
  \A s, t \in Servers : s # t /\ Indexing(s) /\ Indexing(t) => s \in slow \/ t \in slow

(***************************************************************************)
(* A server that is not slow gives up waiting only if there was a rival    *)
(* while it waited: the row of a server that crashed expires, and is       *)
(* polled once more, before the time of acquire is over.                   *)
(***************************************************************************)
OnlyRivalsStarve ==
  \A s \in Servers \ slow : mode[s] = "polling" /\ patience[s] = 0 => s \in contended

=============================================================================
