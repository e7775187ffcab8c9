-------------------------- MODULE DaemonLifecycle --------------------------
(***************************************************************************)
(* src/daemon.rs, lock.rs, ipc/unix.rs and the start and stop commands of  *)
(* bin/raemote.rs: how daemons of one data directory come up, are reached  *)
(* and go down, when commands and service managers start and stop them at  *)
(* the same time and any of them may crash.                                *)
(*                                                                         *)
(* What they share is three files: daemon.lock (an OS advisory lock),      *)
(* daemon.json (the secret a client has to show) and the IPC socket.  In a *)
(* daemon, main and the discovery engine wait on one tokio Notify for the  *)
(* shutdown; notify_one wakes the one that has waited longest, or leaves a *)
(* permit.  Scans end, and begin, whenever Discovery says they do.         *)
(***************************************************************************)
EXTENDS Naturals, Sequences

CONSTANTS
    Daemon,     \* raemoted processes; each runs once
    Command,    \* `raemote` processes; each runs once
    Nobody,
    MaxService, \* bound on the daemons a service manager starts
    MaxCrashes  \* bound on crashes

ASSUME ProcessAssumption == Nobody \notin Daemon \cup Command /\ Daemon \cap Command = {}
ASSUME BoundAssumption == MaxService \in Nat /\ MaxCrashes \in Nat

VARIABLES
    lock,       \* who holds daemon.lock
    json,       \* whose daemon.json is in place
    socket,     \* whose socket is at the socket path
    main,       \* run(), in each daemon
    ipc,        \* the task of ipc::unix::serve, in each daemon
    engine,     \* the task of DiscoveryEngine::run, in each daemon
    notify,     \* the shutdown Notify of each daemon
    saving,     \* daemons in which a request handler is saving a file
    command,    \* each command
    asked,      \* history: daemons whose Shutdown was answered with Ok
    services,   \* history: daemons a service manager started so far
    crashes     \* history: crashes so far

files == <<lock, json, socket>>
inside == <<main, ipc, engine, notify, saving>>
history == <<asked, services, crashes>>
vars == <<files, inside, command, history>>

QuietNotify == [permit |-> FALSE, waiters |-> <<>>, woken |-> {}]
NewCommand == [at |-> "idle", kind |-> "none", token |-> Nobody, peer |-> Nobody]

\* Past the instance lock, and the lock not dropped yet.
Owning == {"locked", "engine", "json", "ipc", "waiting", "woken", "unlink", "forget", "unlock"}

\* A connect() to the socket path succeeds.
Reachable == socket # Nobody /\ ipc[socket] = "listening"

----------------------------------------------------------------------------
(* tokio::sync::Notify                                                     *)

\* notify_one.
Notified(n) ==
    IF n.waiters = <<>> THEN [n EXCEPT !.permit = TRUE]
    ELSE [n EXCEPT !.woken = @ \cup {Head(n.waiters)}, !.waiters = Tail(@)]

Waiting(n, who) == [n EXCEPT !.waiters = Append(@, who)]

\* A waiter leaves the queue.  Only main and the engine wait, each once.
Without(waiters, who) ==
    IF waiters = <<>> THEN <<>>
    ELSE IF Head(waiters) = who THEN Tail(waiters) ELSE <<Head(waiters)>>

\* Variant: a notification that reached a dropped future is forgotten.
DroppedSilently(n, who) ==
    [n EXCEPT !.waiters = Without(@, who), !.woken = @ \ {who}]

\* Variant: the future of a select! that has gone on is kept.
DroppedNever(n, who) == n

\* A Notified future is dropped: a notification it got goes to the next.
Dropped(n, who) ==
    IF who \in n.woken THEN Notified([n EXCEPT !.woken = @ \ {who}])
    ELSE [n EXCEPT !.waiters = Without(@, who)]

----------------------------------------------------------------------------
(* The daemon: run()                                                       *)

\* A command, or a service manager, has spawned process p.
Spawns(p) ==
    /\ main[p] = "unborn"
    /\ main' = [main EXCEPT ![p] = "starting"]

StartByService(p) ==
    /\ services < MaxService
    /\ services' = services + 1
    /\ Spawns(p)
    /\ UNCHANGED <<files, ipc, engine, notify, saving, command, asked, crashes>>

\* lock::acquire: refuse to run beside another holder, whoever it is.
AcquireLock(p) ==
    /\ main[p] = "starting"
    /\ IF lock = Nobody
       THEN lock' = p /\ main' = [main EXCEPT ![p] = "locked"]
       ELSE main' = [main EXCEPT ![p] = "dead"] /\ UNCHANGED lock
    /\ UNCHANGED <<json, socket, ipc, engine, notify, saving, command, history>>

\* Config, key, endpoint and auth state are ready (an error in them ends
\* the process like a crash does); the engine starts with a scan.
SpawnEngine(p) ==
    /\ main[p] = "locked"
    /\ main' = [main EXCEPT ![p] = "engine"]
    /\ engine' = [engine EXCEPT ![p] = "scan"]
    /\ UNCHANGED <<files, ipc, notify, saving, command, history>>

WriteDaemonJson(p) ==
    /\ main[p] = "engine"
    /\ json' = p
    /\ main' = [main EXCEPT ![p] = "json"]
    /\ UNCHANGED <<lock, socket, ipc, engine, notify, saving, command, history>>

SpawnIpc(p) ==
    /\ main[p] = "json"
    /\ main' = [main EXCEPT ![p] = "ipc"]
    /\ ipc' = [ipc EXCEPT ![p] = "stale"]
    /\ UNCHANGED <<files, engine, notify, saving, command, history>>

\* shutdown.notified().await
AwaitShutdown(p) ==
    /\ main[p] = "ipc"
    /\ IF notify[p].permit
       THEN /\ notify' = [notify EXCEPT ![p].permit = FALSE]
            /\ main' = [main EXCEPT ![p] = "woken"]
       ELSE /\ notify' = [notify EXCEPT ![p] = Waiting(@, "main")]
            /\ main' = [main EXCEPT ![p] = "waiting"]
    /\ UNCHANGED <<files, ipc, engine, saving, command, history>>

MainWakes(p) ==
    /\ main[p] = "waiting"
    /\ "main" \in notify[p].woken
    /\ notify' = [notify EXCEPT ![p].woken = @ \ {"main"}]
    /\ main' = [main EXCEPT ![p] = "woken"]
    /\ UNCHANGED <<files, ipc, engine, saving, command, history>>

\* The listener is dropped; tasks that serve clients are not aborted.
AbortTasks(p) ==
    /\ main[p] = "woken"
    /\ ipc' = [ipc EXCEPT ![p] = "none"]
    /\ engine' = [engine EXCEPT ![p] = "none"]
    /\ notify' = [notify EXCEPT ![p] = Dropped(@, "engine")]
    /\ main' = [main EXCEPT ![p] = "unlink"]
    /\ UNCHANGED <<files, saving, command, history>>

\* Variant: the lock is dropped before daemon.json is removed.
RemoveSocketUnlocked(p) ==
    /\ main[p] = "unlink"
    /\ socket' = Nobody
    /\ lock' = Nobody
    /\ main' = [main EXCEPT ![p] = "forget"]
    /\ UNCHANGED <<json, ipc, engine, notify, saving, command, history>>

RemoveSocket(p) ==
    /\ main[p] = "unlink"
    /\ socket' = Nobody
    /\ main' = [main EXCEPT ![p] = "forget"]
    /\ UNCHANGED <<lock, json, ipc, engine, notify, saving, command, history>>

RemoveDaemonJson(p) ==
    /\ main[p] = "forget"
    /\ json' = Nobody
    /\ main' = [main EXCEPT ![p] = "unlock"]
    /\ UNCHANGED <<lock, socket, ipc, engine, notify, saving, command, history>>

\* The end of run(): its locals go, the instance lock among them.
ReleaseLock(p) ==
    /\ main[p] = "unlock"
    /\ lock' = Nobody
    /\ main' = [main EXCEPT ![p] = "exit"]
    /\ UNCHANGED <<json, socket, ipc, engine, notify, saving, command, history>>

Dies(p) ==
    /\ main' = [main EXCEPT ![p] = "dead"]
    /\ ipc' = [ipc EXCEPT ![p] = "none"]
    /\ engine' = [engine EXCEPT ![p] = "none"]
    /\ notify' = [notify EXCEPT ![p] = QuietNotify]
    /\ saving' = saving \ {p}

\* main() drops the runtime, which lets a running poll finish first.
Exit(p) ==
    /\ main[p] = "exit"
    /\ p \notin saving
    /\ Dies(p)
    /\ UNCHANGED <<files, command, history>>

\* The OS releases the lock; the files stay.
Crash(p) ==
    /\ main[p] \notin {"unborn", "dead"}
    /\ crashes < MaxCrashes
    /\ crashes' = crashes + 1
    /\ lock' = IF lock = p THEN Nobody ELSE lock
    /\ Dies(p)
    /\ UNCHANGED <<json, socket, command, asked, services>>

----------------------------------------------------------------------------
(* The daemon: its tasks                                                   *)

\* serve: unlink what a previous run left, then bind.
RemoveStaleSocket(p) ==
    /\ ipc[p] = "stale"
    /\ socket' = Nobody
    /\ ipc' = [ipc EXCEPT ![p] = "bind"]
    /\ UNCHANGED <<lock, json, main, engine, notify, saving, command, history>>

BindSocket(p) ==
    /\ ipc[p] = "bind"
    /\ IF socket = Nobody
       THEN socket' = p /\ ipc' = [ipc EXCEPT ![p] = "listening"]
       ELSE UNCHANGED socket /\ ipc' = [ipc EXCEPT ![p] = "none"]
    /\ UNCHANGED <<lock, json, main, engine, notify, saving, command, history>>

\* The engine's scan is over, and its select! polls.  (A trigger that wins
\* over a permit leaves the permit where it is: one more scan, a stutter.)
EngineSelects(p) ==
    /\ engine[p] = "scan"
    /\ \/ /\ notify[p].permit
          /\ notify' = [notify EXCEPT ![p].permit = FALSE]
          /\ engine' = [engine EXCEPT ![p] = "ended"]
       \/ /\ ~notify[p].permit
          /\ notify' = [notify EXCEPT ![p] = Waiting(@, "engine")]
          /\ engine' = [engine EXCEPT ![p] = "select"]
    /\ UNCHANGED <<files, main, ipc, saving, command, history>>

\* The timer or the trigger: the other branches' futures are dropped.
EngineScans(p) ==
    /\ engine[p] = "select"
    /\ notify' = [notify EXCEPT ![p] = Dropped(@, "engine")]
    /\ engine' = [engine EXCEPT ![p] = "scan"]
    /\ UNCHANGED <<files, main, ipc, saving, command, history>>

EngineBreaks(p) ==
    /\ engine[p] = "select"
    /\ "engine" \in notify[p].woken
    /\ notify' = [notify EXCEPT ![p].woken = @ \ {"engine"}]
    /\ engine' = [engine EXCEPT ![p] = "ended"]
    /\ UNCHANGED <<files, main, ipc, saving, command, history>>

\* A request (a revocation, a bind) is writing a file in some worker thread.
BeginSave(p) ==
    /\ ipc[p] = "listening"
    /\ p \notin saving
    /\ saving' = saving \cup {p}
    /\ UNCHANGED <<files, main, ipc, engine, notify, command, history>>

EndSave(p) ==
    /\ p \in saving
    /\ saving' = saving \ {p}
    /\ UNCHANGED <<files, main, ipc, engine, notify, command, history>>

----------------------------------------------------------------------------
(* The commands                                                            *)

Goes(c, at) == command' = [command EXCEPT ![c].at = at]

Ends(c) == command' = [command EXCEPT ![c] = [NewCommand EXCEPT !.at = "done"]]

\* `raemote stop`, `raemote start`, `raemote restart`.
BeginCommand(c, kind) ==
    /\ command[c] = NewCommand
    /\ command' = [command EXCEPT ![c].kind = kind,
                                  ![c].at = IF kind = "start" THEN "running?" ELSE "stoppable?"]
    /\ UNCHANGED <<files, inside, history>>

\* daemon_running: daemon.json can be read and its socket answers.
DaemonRunning == json # Nobody /\ Reachable

\* cmd_stop exits when nothing runs, and takes cmd_restart with it.
CheckStoppable(c) ==
    /\ command[c].at = "stoppable?"
    /\ IF DaemonRunning THEN Goes(c, "token") ELSE Ends(c)
    /\ UNCHANGED <<files, inside, history>>

\* cmd_restart goes on to start whatever became of the request.
StopEnds(c) ==
    IF command[c].kind = "restart"
    THEN command' = [command EXCEPT ![c] = [NewCommand EXCEPT !.at = "running?", !.kind = "start"]]
    ELSE Ends(c)

\* load_ipc_token
ReadToken(c) ==
    /\ command[c].at = "token"
    /\ IF json # Nobody
       THEN command' = [command EXCEPT ![c].at = "connect", ![c].token = json]
       ELSE StopEnds(c)
    /\ UNCHANGED <<files, inside, history>>

ConnectToDaemon(c) ==
    /\ command[c].at = "connect"
    /\ IF Reachable
       THEN command' = [command EXCEPT ![c].at = "request", ![c].peer = socket]
       ELSE StopEnds(c)
    /\ UNCHANGED <<files, inside, history>>

\* Hello with the token that was read, then Shutdown: notify_one, then Ok.
\* It fails if the peer is gone, is another daemon than daemon.json spoke
\* of, or drops its listener before it accepts the connection.
RequestShutdown(c) ==
    /\ command[c].at = "request"
    /\ LET p == command[c].peer IN
       \/ /\ main[p] \in Owning \cup {"exit"}
          /\ command[c].token = p
          /\ notify' = [notify EXCEPT ![p] = Notified(@)]
          /\ asked' = asked \cup {p}
       \/ /\ ~(ipc[p] = "listening" /\ command[c].token = p)
          /\ UNCHANGED <<notify, asked>>
    /\ StopEnds(c)
    /\ UNCHANGED <<files, main, ipc, engine, saving, services, crashes>>

\* cmd_start: daemon_running, then is_held.
CheckRunning(c) ==
    /\ command[c].at = "running?"
    /\ IF DaemonRunning THEN Ends(c) ELSE Goes(c, "held?")
    /\ UNCHANGED <<files, inside, history>>

\* is_held takes the lock to find out, and lets go of it a moment later.
ProbeLock(c) ==
    /\ command[c].at = "held?"
    /\ IF lock = Nobody THEN lock' = c /\ Goes(c, "probing") ELSE Ends(c) /\ UNCHANGED lock
    /\ UNCHANGED <<json, socket, inside, history>>

\* Variant: the lock that the probe took is never closed.
DropProbeNever(c) ==
    /\ command[c].at = "probing"
    /\ Goes(c, "spawn")
    /\ UNCHANGED <<files, inside, history>>

DropProbe(c) ==
    /\ command[c].at = "probing"
    /\ lock' = Nobody
    /\ Goes(c, "spawn")
    /\ UNCHANGED <<json, socket, inside, history>>

StartByCommand(c, p) ==
    /\ command[c].at = "spawn"
    /\ Spawns(p)
    /\ Ends(c)
    /\ UNCHANGED <<files, ipc, engine, notify, saving, history>>

----------------------------------------------------------------------------
Init ==
    /\ lock = Nobody
    /\ json = Nobody
    /\ socket = Nobody
    /\ main = [p \in Daemon |-> "unborn"]
    /\ ipc = [p \in Daemon |-> "none"]
    /\ engine = [p \in Daemon |-> "none"]
    /\ notify = [p \in Daemon |-> QuietNotify]
    /\ saving = {}
    /\ command = [c \in Command |-> NewCommand]
    /\ asked = {}
    /\ services = 0
    /\ crashes = 0

Main(p) ==
    \/ AcquireLock(p) \/ SpawnEngine(p) \/ WriteDaemonJson(p) \/ SpawnIpc(p)
    \/ AwaitShutdown(p) \/ MainWakes(p) \/ AbortTasks(p) \/ RemoveSocket(p)
    \/ RemoveDaemonJson(p) \/ ReleaseLock(p) \/ Exit(p)

Ipc(p) == RemoveStaleSocket(p) \/ BindSocket(p)

CommandRuns(c) ==
    \/ CheckStoppable(c) \/ ReadToken(c) \/ ConnectToDaemon(c) \/ RequestShutdown(c)
    \/ CheckRunning(c) \/ ProbeLock(c) \/ DropProbe(c)
    \/ \E p \in Daemon : StartByCommand(c, p)

Next ==
    \/ \E p \in Daemon :
          \/ StartByService(p) \/ Crash(p)
          \/ Main(p) \/ Ipc(p)
          \/ EngineSelects(p) \/ EngineScans(p) \/ EngineBreaks(p)
          \/ BeginSave(p) \/ EndSave(p)
    \/ \E c \in Command :
          \/ \E kind \in {"start", "stop", "restart"} : BeginCommand(c, kind)
          \/ CommandRuns(c)

Spec == Init /\ [][Next]_vars

\* The runtime runs every task that can go on, a command runs to its end,
\* scans and saves come to an end.  Nobody has to start, stop or crash
\* anything, and no scan has to be asked for.
Fairness ==
    /\ \A p \in Daemon : WF_vars(Main(p)) /\ WF_vars(Ipc(p)) /\ WF_vars(EndSave(p))
    /\ \A p \in Daemon : WF_vars(EngineSelects(p)) /\ WF_vars(EngineBreaks(p))
    /\ \A c \in Command : WF_vars(CommandRuns(c))

FairSpec == Spec /\ Fairness

----------------------------------------------------------------------------
(* Properties                                                              *)

\* Either side waits once at a time.
WaitList ==
    {<<>>, <<"main">>, <<"engine">>, <<"main", "engine">>, <<"engine", "main">>}

NotifyState ==
    [permit : BOOLEAN, waiters : WaitList, woken : SUBSET {"main", "engine"}]

CommandState ==
    [at : {"idle", "stoppable?", "token", "connect", "request", "running?", "held?", "probing", "spawn", "done"},
     kind : {"none", "start", "stop", "restart"},
     token : Daemon \cup {Nobody}, peer : Daemon \cup {Nobody}]

TypeOK ==
    /\ lock \in Daemon \cup Command \cup {Nobody}
    /\ json \in Daemon \cup {Nobody}
    /\ socket \in Daemon \cup {Nobody}
    /\ main \in [Daemon -> {"unborn", "starting", "exit", "dead"} \cup Owning]
    /\ ipc \in [Daemon -> {"none", "stale", "bind", "listening"}]
    /\ engine \in [Daemon -> {"none", "scan", "select", "ended"}]
    /\ notify \in [Daemon -> NotifyState]
    /\ saving \subseteq Daemon
    /\ command \in [Command -> CommandState]
    /\ asked \subseteq Daemon
    /\ services \in 0 .. MaxService
    /\ crashes \in 0 .. MaxCrashes

\* Between lock and unlock a daemon is alone, however many are started, and
\* however commands probe the lock meanwhile (lock::acquire_at, is_held).
OneDaemon == \A p \in Daemon : main[p] \in Owning => lock = p

\* A daemon that serves IPC and was not told to stop is the one that
\* daemon.json and the socket path lead to: no other daemon's startup, clean
\* up or crash takes them away (run's cleanup, serve's unlink-then-bind).
RunningIsReachable ==
    \A p \in Daemon :
       ipc[p] = "listening" /\ main[p] \in {"ipc", "waiting"} => socket = p /\ json = p

\* The daemon that commands find is the only one there is, and they find it.
DaemonIsTheOne == OneDaemon /\ RunningIsReachable

\* A shutdown answered with Ok is not lost inside the daemon: somebody will
\* see it, or the engine took it (Notify shared by run and the engine).
ShutdownIsKept ==
    \A p \in asked :
       \/ notify[p].permit \/ notify[p].woken # {}
       \/ engine[p] = "ended"
       \/ main[p] \in {"woken", "unlink", "forget", "unlock", "exit", "dead"}

\* Once somebody starts a daemon, one will be waiting for requests, unless a
\* daemon is told to stop or crashes: a start that loses the race for the
\* lock loses it to another start (cmd_start, is_held, run).
StartsLeadToDaemon ==
    (\E p \in Daemon : main[p] = "starting") ~>
       \/ \E p \in Daemon : main[p] = "waiting"
       \/ asked # {} \/ crashes > 0

\* src/ipc/mod.rs: "Shut down the daemon."
ShutdownStops == \A p \in Daemon : (p \in asked) ~> (main[p] = "dead")

\* src/lock.rs: the lock is "held for a `raemoted` process's lifetime"; the
\* process still writes files after it let go.
SavesAreLocked == \A p \in saving : lock = p
=============================================================================
