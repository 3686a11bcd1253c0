-------------------------- MODULE ServerLifecycle --------------------------
(***************************************************************************)
(* Daemons and the commands that start, stop and find them                 *)
(* (ragzoom/daemon.py; `server start', `stop' and `status' of              *)
(* ragzoom/cli.py; run_server of ragzoom/server/app.py).  Two files, with  *)
(* the pid and the port of the daemon, are all that a command knows.       *)
(*                                                                         *)
(* Every daemon waits for the lease of IndexerLease before it serves.  It  *)
(* writes its pid before that and its port after, and whoever ends removes *)
(* both files, whosever they are.                                          *)
(***************************************************************************)
EXTENDS IndexerLease

CONSTANTS Users,           \* who runs commands; one command each at a time
          NoPid,
          StartupTimeout,  \* DEFAULT_STARTUP_TIMEOUT
          StopTimeout,     \* STOP_TIMEOUT_SECONDS
          MaxCommands      \* bounds the runs

ASSUME LifecycleConstants ==
  /\ NoPid \notin Servers
  /\ {StartupTimeout, StopTimeout, MaxCommands} \subseteq Nat

VARIABLES pidFile,    \* the daemon named by daemon.pid, or NoPid
          portFile,   \* daemon.port exists
          booting,    \* daemons that were spawned and have not forked yet
          cmd,        \* the command of each user: what it does, on which daemon, time left
          commands,   \* commands begun
          disturbed   \* history: two commands overlapped, one gave up waiting, or a
                      \* daemon was slow

fileVars == <<pidFile, portFile>>
lifecycleVars == <<leaseVars, pidFile, portFile, booting, cmd, commands, disturbed>>

NoCommand == [does |-> "nothing", pid |-> NoPid, left |-> 0]
LifecycleTypeOK ==
  /\ LeaseTypeOK
  /\ pidFile \in Servers \cup {NoPid}
  /\ portFile \in BOOLEAN
  /\ booting \in SUBSET Servers
  /\ cmd \in [Users -> [does : {"nothing", "starting", "awaiting", "stopping"},
                        pid : Servers \cup {NoPid},
                        left : 0 .. StartupTimeout + StopTimeout]]
  /\ commands \in 0 .. MaxCommands
  /\ disturbed \in BOOLEAN

LifecycleInit ==
  /\ LeaseInit
  /\ pidFile = NoPid /\ portFile = FALSE
  /\ booting = {}
  /\ cmd = [u \in Users |-> NoCommand]
  /\ commands = 0
  /\ disturbed = FALSE

Running(d) == mode[d] \notin {"off", "dead"}
is_pid_stale_Signalled(d) == mode[d] \in {"off", "stopping", "exiting", "dead"}  \* seeded fault
is_pid_stale(d) == ~ Running(d)

cleanup_stale_state == pidFile' = NoPid /\ portFile' = FALSE

\* the pid file names a process that runs, there is a port file, and somebody answers
\* on the port
is_server_healthy ==
  /\ pidFile # NoPid /\ ~ is_pid_stale(pidFile)
  /\ portFile
  /\ \E d \in Servers : mode[d] = "serving"

-----------------------------------------------------------------------------
(* The daemon: every step is a step of its lease and what goes with it *)

\* fork twice, write the pid, install the handlers, then wait for the lease
Daemonize(d) ==
  /\ d \in booting
  /\ StartAcquire(d)
  /\ booting' = booting \ {d}
  /\ pidFile' = d
  /\ UNCHANGED portFile

\* acquire returns and write_port_file follows at once
LeaseAcquired(d) ==
  /\ InsertRow(d) \/ StealRow(d)
  /\ portFile' = TRUE
  /\ UNCHANGED <<pidFile, booting>>

\* sys.exit(1), the handler, or the end of run_server: the cleanup of start_server and atexit
DaemonEnds(d) ==
  /\ GiveUp(d) \/ Exit(d)
  /\ cleanup_stale_state
  /\ UNCHANGED booting

DaemonOnly(d) ==
  /\ \/ SelectRow(d) \/ AttemptFails(d) \/ StartServing(d) \/ Beat(d)
     \/ Release(d) \/ Crash(d) \/ Slow(d)
  /\ UNCHANGED <<fileVars, booting>>

DaemonStep(d) ==
  /\ Daemonize(d) \/ LeaseAcquired(d) \/ DaemonEnds(d) \/ DaemonOnly(d)
  /\ disturbed' = (disturbed \/ d \in slow')
  /\ UNCHANGED <<cmd, commands>>

-----------------------------------------------------------------------------
(* Commands *)

\* users are alike: the first idle one begins
Begins(u) ==
  /\ \E v \in Users : cmd[v] = NoCommand
  /\ u = CHOOSE v \in Users : cmd[v] = NoCommand
  /\ commands < MaxCommands
  /\ commands' = commands + 1
  /\ disturbed' = (disturbed \/ \E v \in Users \ {u} : cmd[v] # NoCommand)
Becomes(u, does, d, left) == cmd' = [cmd EXCEPT ![u] = [does |-> does, pid |-> d, left |-> left]]
CommandEnds(u) == cmd' = [cmd EXCEPT ![u] = NoCommand]

\* ensure_server_running: an unhealthy server is one to be replaced
EnsureChecks(u) ==
  /\ Begins(u)
  /\ ~ is_server_healthy
  /\ Becomes(u, "starting", NoPid, 0)
  /\ UNCHANGED <<leaseVars, fileVars, booting>>

\* processes are alike but for those that may be slow: the first unused one of either kind
Unused(kind) == {d \in kind \ booting : mode[d] = "off"}
Fresh == {CHOOSE d \in Unused(kind) : TRUE :
            kind \in {k \in {MaybeSlow, Servers \ MaybeSlow} : Unused(k) # {}}}

EnsureStarts(u) ==
  /\ cmd[u].does = "starting"
  /\ cleanup_stale_state
  /\ \E d \in Fresh :
       /\ booting' = booting \cup {d}
       /\ Becomes(u, "awaiting", d, StartupTimeout)
  /\ UNCHANGED <<leaseVars, commands, disturbed>>

\* wait_for_healthy: True, or the time is over
EnsureEnds(u) ==
  /\ cmd[u].does = "awaiting"
  /\ \/ is_server_healthy /\ UNCHANGED disturbed
     \/ ~ is_server_healthy /\ cmd[u].left = 0 /\ disturbed' = TRUE
  /\ CommandEnds(u)
  /\ UNCHANGED <<leaseVars, fileVars, booting, commands>>

\* `server stop' up to the SIGTERM
StopSignals(u) ==
  /\ Begins(u)
  /\ pidFile # NoPid
  /\ \/ /\ is_pid_stale(pidFile)
        /\ cleanup_stale_state
        /\ UNCHANGED <<leaseVars, cmd>>
     \/ /\ ~ is_pid_stale(pidFile)
        /\ Becomes(u, "stopping", pidFile, StopTimeout)
        /\ \/ /\ KilledWaiting(pidFile) /\ NoteContention
              /\ cleanup_stale_state
           \/ /\ CancelServing(pidFile) /\ NoteContention
              /\ UNCHANGED fileVars
           \/ /\ mode[pidFile] \in {"stopping", "exiting"}
              /\ UNCHANGED <<leaseVars, fileVars>>
  /\ UNCHANGED booting

\* the process has ended, or the time is over: the files go in both cases
StopEnds(u) ==
  /\ cmd[u].does = "stopping"
  /\ \/ is_pid_stale(cmd[u].pid) /\ UNCHANGED disturbed
     \/ ~ is_pid_stale(cmd[u].pid) /\ cmd[u].left = 0 /\ disturbed' = TRUE
  /\ cleanup_stale_state
  /\ CommandEnds(u)
  /\ UNCHANGED <<leaseVars, booting, commands>>

CommandStep(u) ==
  EnsureChecks(u) \/ EnsureStarts(u) \/ EnsureEnds(u) \/ StopSignals(u) \/ StopEnds(u)

TimePasses ==
  /\ Tick
  /\ cmd' = [u \in Users |-> [cmd[u] EXCEPT !.left = TimeLeft(@)]]
  /\ UNCHANGED <<fileVars, booting, commands, disturbed>>

LifecycleNext ==
  \/ (\E d \in Servers : DaemonStep(d)) /\ NoteContention
  \/ TimePasses /\ NoteContention
  \/ \E u \in Users : CommandStep(u)

-----------------------------------------------------------------------------
(***************************************************************************)
(* The two files are enough to find the server so long as commands come    *)
(* one at a time, none of them gives up waiting and no daemon is slow,     *)
(* whatever daemons crash: then no second daemon is started beside one     *)
(* that runs, and a daemon that serves is the one the files name.          *)
(***************************************************************************)
FilesTellTheTruth ==
  ~ disturbed =>
     /\ \A d, e \in Servers : (Running(d) \/ d \in booting) /\ (Running(e) \/ e \in booting) => d = e
     /\ (\A u \in Users : cmd[u] = NoCommand) =>
          \A d \in Servers : mode[d] = "serving" => pidFile = d /\ portFile
=============================================================================
