------------------------ MODULE DaemonLifecycleProofs ------------------------
(* What holds of DaemonLifecycle for any number of processes, commands,    *)
(* service managers' starts and crashes.                                   *)
EXTENDS DaemonLifecycle, SequenceTheorems, TLAPS

MainState == {"unborn", "starting", "exit", "dead"} \cup Owning
IpcState == {"none", "stale", "bind", "listening"}

\* A command that asks for a shutdown has connected to a daemon.
CommandCall == {r \in CommandState : r.at = "request" => r.peer \in Daemon}

\* The part of TypeOK that the proofs below need.
CoreTyped ==
    /\ lock \in Daemon \cup Command \cup {Nobody}
    /\ main \in [Daemon -> MainState]
    /\ ipc \in [Daemon -> IpcState]
    /\ engine \in [Daemon -> {"none", "scan", "select", "ended"}]
    /\ command \in [Command -> CommandCall]
    /\ json \in Daemon \cup {Nobody}
    /\ socket \in Daemon \cup {Nobody}
    /\ asked \subseteq Daemon

LEMMA InitCore == Init => CoreTyped
BY DEF Init, CoreTyped, MainState, IpcState, NewCommand, CommandCall, CommandState

LEMMA DiesTyped ==
    ASSUME CoreTyped, NEW p \in Daemon, Dies(p)
    PROVE  /\ main' \in [Daemon -> MainState]
           /\ ipc' \in [Daemon -> IpcState]
           /\ engine' \in [Daemon -> {"none", "scan", "select", "ended"}]
BY DEF CoreTyped, Dies, MainState, IpcState

LEMMA EndsTyped ==
    ASSUME CoreTyped, NEW c \in Command, Ends(c)
    PROVE  command' \in [Command -> CommandCall]
BY DEF CoreTyped, Ends, NewCommand, CommandCall, CommandState

LEMMA StopEndsTyped ==
    ASSUME CoreTyped, NEW c \in Command, StopEnds(c)
    PROVE  command' \in [Command -> CommandCall]
<1>1. CASE command[c].kind = "restart"
  <2>1. [NewCommand EXCEPT !.at = "running?", !.kind = "start"] \in CommandCall
      BY DEF NewCommand, CommandCall, CommandState
  <2> QED BY <1>1, <2>1 DEF CoreTyped, StopEnds
<1>2. CASE command[c].kind # "restart"
    BY <1>2, EndsTyped DEF StopEnds
<1> QED BY <1>1, <1>2

LEMMA GoesTyped ==
    ASSUME CoreTyped, NEW c \in Command,
           NEW at \in {"token", "held?", "probing", "spawn"}, Goes(c, at)
    PROVE  command' \in [Command -> CommandCall]
<1>1. [command[c] EXCEPT !.at = at] \in CommandCall
    BY DEF CoreTyped, CommandCall, CommandState
<1> QED BY <1>1 DEF CoreTyped, Goes

\* Steps of a daemon's main and ipc tasks.
LEMMA MainCore ==
    ASSUME CoreTyped, NEW p \in Daemon, Main(p) \/ Ipc(p)
    PROVE  CoreTyped'
<1>1. CASE AcquireLock(p)
    BY <1>1 DEF AcquireLock, CoreTyped, MainState, Owning, history
<1>2. CASE SpawnEngine(p)
    BY <1>2 DEF SpawnEngine, CoreTyped, MainState, Owning, history, files
<1>3. CASE WriteDaemonJson(p)
    BY <1>3 DEF WriteDaemonJson, CoreTyped, MainState, Owning, history
<1>4. CASE SpawnIpc(p)
    BY <1>4 DEF SpawnIpc, CoreTyped, MainState, IpcState, Owning, history, files
<1>5. CASE AwaitShutdown(p)
    BY <1>5 DEF AwaitShutdown, CoreTyped, MainState, Owning, history, files
<1>6. CASE MainWakes(p)
    BY <1>6 DEF MainWakes, CoreTyped, MainState, Owning, history, files
<1>7. CASE AbortTasks(p)
    BY <1>7 DEF AbortTasks, CoreTyped, MainState, IpcState, Owning, history, files
<1>8. CASE RemoveSocket(p)
    BY <1>8 DEF RemoveSocket, CoreTyped, MainState, Owning, history
<1>9. CASE RemoveDaemonJson(p)
    BY <1>9 DEF RemoveDaemonJson, CoreTyped, MainState, Owning, history
<1>10. CASE ReleaseLock(p)
    BY <1>10 DEF ReleaseLock, CoreTyped, MainState, history
<1>11. CASE Exit(p)
    BY <1>11, DiesTyped DEF Exit, CoreTyped, history, files
<1>12. CASE RemoveStaleSocket(p)
    BY <1>12 DEF RemoveStaleSocket, CoreTyped, IpcState, history
<1>13. CASE BindSocket(p)
    BY <1>13 DEF BindSocket, CoreTyped, IpcState, history
<1> QED
    BY <1>1, <1>2, <1>3, <1>4, <1>5, <1>6, <1>7, <1>8, <1>9, <1>10, <1>11, <1>12, <1>13
       DEF Main, Ipc

\* Everything else a daemon does or that happens to it.
LEMMA DaemonCore ==
    ASSUME CoreTyped, NEW p \in Daemon,
           \/ StartByService(p) \/ Crash(p)
           \/ EngineSelects(p) \/ EngineScans(p) \/ EngineBreaks(p)
           \/ BeginSave(p) \/ EndSave(p)
    PROVE  CoreTyped'
<1>1. CASE StartByService(p)
    BY <1>1 DEF StartByService, Spawns, CoreTyped, MainState, files
<1>2. CASE Crash(p)
    BY <1>2, DiesTyped DEF Crash, CoreTyped
<1>3. CASE EngineSelects(p)
    BY <1>3 DEF EngineSelects, CoreTyped, files, history
<1>4. CASE EngineScans(p)
    BY <1>4 DEF EngineScans, CoreTyped, files, history
<1>5. CASE EngineBreaks(p)
    BY <1>5 DEF EngineBreaks, CoreTyped, files, history
<1>6. CASE BeginSave(p) \/ EndSave(p)
    BY <1>6 DEF BeginSave, EndSave, CoreTyped, files, history
<1> QED BY <1>1, <1>2, <1>3, <1>4, <1>5, <1>6

LEMMA CommandCore ==
    ASSUME CoreTyped, NEW c \in Command,
           (\E kind \in {"start", "stop", "restart"} : BeginCommand(c, kind)) \/ CommandRuns(c)
    PROVE  CoreTyped'
<1> USE DEF files, inside, history
<1>0. command[c] \in CommandCall
    BY DEF CoreTyped
<1>1. ASSUME NEW kind \in {"start", "stop", "restart"}, BeginCommand(c, kind) PROVE CoreTyped'
  <2>1. PICK at \in {"running?", "stoppable?"} :
           command' = [command EXCEPT ![c].kind = kind, ![c].at = at]
      BY <1>1 DEF BeginCommand
  <2>2. [command[c] EXCEPT !.kind = kind, !.at = at] \in CommandCall
      BY <1>0 DEF CommandCall, CommandState
  <2>3. command' \in [Command -> CommandCall]
      BY <2>1, <2>2 DEF CoreTyped
  <2> QED BY <1>1, <2>3 DEF BeginCommand, CoreTyped
<1>2. CASE CheckStoppable(c)
    BY <1>2, GoesTyped, EndsTyped DEF CheckStoppable, CoreTyped
<1>3. CASE ReadToken(c)
  <2>1. json # Nobody => [command[c] EXCEPT !.at = "connect", !.token = json] \in CommandCall
      BY <1>0 DEF CommandCall, CommandState, CoreTyped
  <2>2. command' \in [Command -> CommandCall]
      BY <1>3, <2>1, StopEndsTyped DEF ReadToken, CoreTyped
  <2> QED BY <1>3, <2>2 DEF ReadToken, CoreTyped
<1>4. CASE ConnectToDaemon(c)
  <2>1. Reachable => [command[c] EXCEPT !.at = "request", !.peer = socket] \in CommandCall
      BY <1>0 DEF Reachable, CommandCall, CommandState, CoreTyped
  <2>2. command' \in [Command -> CommandCall]
      BY <1>4, <2>1, StopEndsTyped DEF ConnectToDaemon, CoreTyped
  <2> QED BY <1>4, <2>2 DEF ConnectToDaemon, CoreTyped
<1>5. CASE RequestShutdown(c)
  <2>1. command' \in [Command -> CommandCall]
      BY <1>5, StopEndsTyped DEF RequestShutdown
  <2>2. asked' \subseteq Daemon
    <3>1. command[c].peer \in Daemon
        BY <1>0, <1>5 DEF RequestShutdown, CommandCall
    <3> QED BY <1>5, <3>1 DEF RequestShutdown, CoreTyped
  <2> QED BY <1>5, <2>1, <2>2 DEF RequestShutdown, CoreTyped
<1>6. CASE CheckRunning(c)
    BY <1>6, GoesTyped, EndsTyped DEF CheckRunning, CoreTyped
<1>7. CASE ProbeLock(c)
    BY <1>7, GoesTyped, EndsTyped DEF ProbeLock, CoreTyped
<1>8. CASE DropProbe(c)
    BY <1>8, GoesTyped DEF DropProbe, CoreTyped
<1>9. ASSUME NEW p \in Daemon, StartByCommand(c, p) PROVE CoreTyped'
    BY <1>9, EndsTyped DEF StartByCommand, Spawns, CoreTyped, MainState
<1> QED
    BY <1>1, <1>2, <1>3, <1>4, <1>5, <1>6, <1>7, <1>8, <1>9 DEF CommandRuns

LEMMA NextCore == CoreTyped /\ [Next]_vars => CoreTyped'
<1>1. CoreTyped /\ UNCHANGED vars => CoreTyped'
    BY DEF CoreTyped, vars, files, inside, history
<1> QED BY <1>1, MainCore, DaemonCore, CommandCore DEF Next

----------------------------------------------------------------------------
(* The lock.  OneDaemon is inductive once it is known that a command that  *)
(* is about to close the lock file holds the lock itself, so that no       *)
(* daemon's lock is dropped for it.                                        *)

Exclusive ==
    /\ OneDaemon
    /\ \A c \in Command : command[c].at = "probing" => lock = c

LockInv == CoreTyped /\ Exclusive

\* The lock stays where it is, and nobody new relies on it.
LEMMA LockKept ==
    ASSUME Exclusive, lock' = lock,
           \A p \in Daemon : main'[p] \in Owning => main[p] \in Owning,
           \A c \in Command : command'[c].at = "probing" => command[c].at = "probing"
    PROVE  Exclusive'
BY DEF Exclusive, OneDaemon

\* p's program counter goes from one place to another.
LEMMA MainMoves ==
    ASSUME LockInv, NEW p \in Daemon, NEW at,
           main[p] \in Owning,
           main' = [main EXCEPT ![p] = at],
           UNCHANGED <<lock, command>>
    PROVE  Exclusive'
<1>1. \A q \in Daemon : main'[q] \in Owning => main[q] \in Owning
    BY DEF LockInv, CoreTyped
<1> QED BY <1>1, LockKept DEF LockInv

LEMMA MainExclusive == ASSUME LockInv, NEW p \in Daemon, Main(p) \/ Ipc(p) PROVE Exclusive'
<1> USE DEF files, history
<1>0. main \in [Daemon -> MainState]
    BY DEF LockInv, CoreTyped
<1>1. CASE AcquireLock(p)
  <2>1. CASE lock = Nobody
    <3>1. lock' = p /\ main' = [main EXCEPT ![p] = "locked"] /\ command' = command
        BY <1>1, <2>1 DEF AcquireLock
    <3>2. \A q \in Daemon : main[q] \notin Owning
        BY <2>1, ProcessAssumption DEF LockInv, Exclusive, OneDaemon
    <3>3. \A c \in Command : command[c].at # "probing"
        BY <2>1, ProcessAssumption DEF LockInv, Exclusive
    <3> QED BY <1>0, <3>1, <3>2, <3>3 DEF Exclusive, OneDaemon
  <2>2. CASE lock # Nobody
      BY <1>0, <1>1, <2>2, LockKept DEF AcquireLock, LockInv, Owning
  <2> QED BY <2>1, <2>2
<1>2. CASE SpawnEngine(p) \/ WriteDaemonJson(p) \/ SpawnIpc(p)
    BY <1>2, MainMoves DEF SpawnEngine, WriteDaemonJson, SpawnIpc, Owning
<1>3. CASE AwaitShutdown(p) \/ MainWakes(p)
    BY <1>3, MainMoves DEF AwaitShutdown, MainWakes, Owning
<1>4. CASE AbortTasks(p) \/ RemoveSocket(p) \/ RemoveDaemonJson(p)
    BY <1>4, MainMoves DEF AbortTasks, RemoveSocket, RemoveDaemonJson, Owning
<1>5. CASE ReleaseLock(p)
  <2>1. main[p] = "unlock" /\ main' = [main EXCEPT ![p] = "exit"] /\ command' = command
      BY <1>5 DEF ReleaseLock
  <2>2. lock = p
      BY <2>1 DEF LockInv, Exclusive, OneDaemon, Owning
  <2>3. \A q \in Daemon : main'[q] \notin Owning
      BY <1>0, <2>1, <2>2 DEF LockInv, Exclusive, OneDaemon, Owning
  <2>4. \A c \in Command : command'[c].at # "probing"
      BY <2>1, <2>2, ProcessAssumption DEF LockInv, Exclusive
  <2> QED BY <2>3, <2>4 DEF Exclusive, OneDaemon
<1>6. CASE Exit(p)
    BY <1>0, <1>6, LockKept DEF Exit, Dies, LockInv, Owning
<1>7. CASE Ipc(p)
    BY <1>7, LockKept DEF Ipc, RemoveStaleSocket, BindSocket, LockInv
<1> QED BY <1>1, <1>2, <1>3, <1>4, <1>5, <1>6, <1>7 DEF Main

LEMMA DaemonExclusive ==
    ASSUME LockInv, NEW p \in Daemon,
           \/ StartByService(p) \/ Crash(p)
           \/ EngineSelects(p) \/ EngineScans(p) \/ EngineBreaks(p)
           \/ BeginSave(p) \/ EndSave(p)
    PROVE  Exclusive'
<1> USE DEF files, history
<1>0. main \in [Daemon -> MainState]
    BY DEF LockInv, CoreTyped
<1>1. CASE StartByService(p)
    BY <1>0, <1>1, LockKept DEF StartByService, Spawns, LockInv, Owning
<1>2. CASE Crash(p)
  <2>1. main' = [main EXCEPT ![p] = "dead"] /\ command' = command
      BY <1>2 DEF Crash, Dies
  <2>2. \A q \in Daemon : main'[q] \in Owning => main[q] \in Owning /\ q # p
      BY <1>0, <2>1 DEF Owning
  <2>3. CASE lock = p
    <3>1. \A q \in Daemon : main'[q] \notin Owning
        BY <2>2, <2>3 DEF LockInv, Exclusive, OneDaemon
    <3>2. \A c \in Command : command'[c].at # "probing"
        BY <2>1, <2>3, ProcessAssumption DEF LockInv, Exclusive
    <3> QED BY <3>1, <3>2 DEF Exclusive, OneDaemon
  <2>4. CASE lock # p
      BY <1>2, <2>1, <2>2, <2>4, LockKept DEF Crash, LockInv
  <2> QED BY <2>3, <2>4
<1>3. CASE EngineSelects(p) \/ EngineScans(p) \/ EngineBreaks(p) \/ BeginSave(p) \/ EndSave(p)
    BY <1>3, LockKept DEF EngineSelects, EngineScans, EngineBreaks, BeginSave, EndSave, LockInv
<1> QED BY <1>1, <1>2, <1>3

\* A command's step that is not a probe leaves the lock and the probes alone.
LEMMA EndsProbesNothing ==
    ASSUME CoreTyped, NEW c \in Command, StopEnds(c) \/ Ends(c)
    PROVE  \A b \in Command : command'[b].at = "probing" => command[b].at = "probing"
BY DEF CoreTyped, StopEnds, Ends, NewCommand

LEMMA GoesProbesNothing ==
    ASSUME CoreTyped, NEW c \in Command, NEW at, at # "probing", Goes(c, at)
    PROVE  \A b \in Command : command'[b].at = "probing" => command[b].at = "probing"
<1>1. command[c] \in CommandState
    BY DEF CoreTyped, CommandCall
<1> QED BY <1>1 DEF CoreTyped, Goes, CommandState

LEMMA CommandExclusive ==
    ASSUME LockInv, NEW c \in Command,
           (\E kind \in {"start", "stop", "restart"} : BeginCommand(c, kind)) \/ CommandRuns(c)
    PROVE  Exclusive'
<1> USE DEF files, inside, history
<1>0. CoreTyped /\ Exclusive /\ command[c] \in CommandState
    BY DEF LockInv, CoreTyped, CommandCall
<1>1. ASSUME NEW kind \in {"start", "stop", "restart"}, BeginCommand(c, kind) PROVE Exclusive'
  <2>1. PICK at \in {"running?", "stoppable?"} :
           command' = [command EXCEPT ![c] = [command[c] EXCEPT !.kind = kind, !.at = at]]
      BY <1>1 DEF BeginCommand
  <2>2. [command[c] EXCEPT !.kind = kind, !.at = at].at = at
      BY <1>0 DEF CommandState
  <2>3. \A b \in Command : command'[b].at = "probing" => command[b].at = "probing"
      BY <1>0, <2>1, <2>2 DEF CoreTyped
  <2> QED BY <1>0, <1>1, <2>3, LockKept DEF BeginCommand
<1>2. CASE CheckStoppable(c) \/ CheckRunning(c)
  <2>1. \A b \in Command : command'[b].at = "probing" => command[b].at = "probing"
      BY <1>0, <1>2, GoesProbesNothing, EndsProbesNothing DEF CheckStoppable, CheckRunning
  <2> QED BY <1>0, <1>2, <2>1, LockKept DEF CheckStoppable, CheckRunning
<1>3. CASE ReadToken(c) \/ ConnectToDaemon(c)
  <2>1. CASE StopEnds(c)
      BY <1>0, <1>3, <2>1, LockKept, EndsProbesNothing DEF ReadToken, ConnectToDaemon
  <2>2. CASE ~StopEnds(c)
    <3>1. PICK r : command' = [command EXCEPT ![c] = r] /\ r.at \in {"connect", "request"}
      <4>1. CASE ReadToken(c)
        <5>1. command' = [command EXCEPT ![c] = [command[c] EXCEPT !.at = "connect", !.token = json]]
            BY <2>2, <4>1 DEF ReadToken
        <5>2. [command[c] EXCEPT !.at = "connect", !.token = json].at = "connect"
            BY <1>0 DEF CommandState
        <5> QED BY <5>1, <5>2
      <4>2. CASE ConnectToDaemon(c)
        <5>1. command' = [command EXCEPT ![c] = [command[c] EXCEPT !.at = "request", !.peer = socket]]
            BY <2>2, <4>2 DEF ConnectToDaemon
        <5>2. [command[c] EXCEPT !.at = "request", !.peer = socket].at = "request"
            BY <1>0 DEF CommandState
        <5> QED BY <5>1, <5>2
      <4> QED BY <1>3, <4>1, <4>2
    <3>2. \A b \in Command : command'[b].at = "probing" => command[b].at = "probing"
        BY <1>0, <3>1 DEF CoreTyped
    <3> QED BY <1>0, <1>3, <3>2, LockKept DEF ReadToken, ConnectToDaemon
  <2> QED BY <2>1, <2>2
<1>4. CASE RequestShutdown(c)
    BY <1>0, <1>4, LockKept, EndsProbesNothing DEF RequestShutdown
<1>5. CASE ProbeLock(c)
  <2>1. CASE lock = Nobody
    <3>1. lock' = c /\ main' = main /\ Goes(c, "probing")
        BY <1>5, <2>1 DEF ProbeLock
    <3>2. \A p \in Daemon : main'[p] \notin Owning
        BY <1>0, <2>1, <3>1, ProcessAssumption DEF Exclusive, OneDaemon
    <3>3. \A b \in Command : b # c => command'[b].at # "probing"
        BY <1>0, <2>1, <3>1, ProcessAssumption DEF Exclusive, Goes, CoreTyped
    <3> QED BY <3>1, <3>2, <3>3 DEF Exclusive, OneDaemon
  <2>2. CASE lock # Nobody
      BY <1>0, <1>5, <2>2, LockKept, EndsProbesNothing DEF ProbeLock
  <2> QED BY <2>1, <2>2
<1>6. CASE DropProbe(c)
  <2>1. lock = c /\ main' = main /\ Goes(c, "spawn")
      BY <1>0, <1>6 DEF DropProbe, Exclusive
  <2>2. \A p \in Daemon : main'[p] \notin Owning
      BY <1>0, <2>1, ProcessAssumption DEF Exclusive, OneDaemon
  <2>3. \A b \in Command : command'[b].at # "probing"
    <3>1. [command[c] EXCEPT !.at = "spawn"].at = "spawn"
        BY <1>0 DEF CommandState
    <3> QED BY <1>0, <2>1, <3>1 DEF Exclusive, Goes, CoreTyped
  <2> QED BY <2>2, <2>3 DEF Exclusive, OneDaemon
<1>7. ASSUME NEW p \in Daemon, StartByCommand(c, p) PROVE Exclusive'
  <2>1. \A q \in Daemon : main'[q] \in Owning => main[q] \in Owning
      BY <1>0, <1>7 DEF StartByCommand, Spawns, CoreTyped, Owning
  <2> QED BY <1>0, <1>7, <2>1, LockKept, EndsProbesNothing DEF StartByCommand
<1> QED BY <1>1, <1>2, <1>3, <1>4, <1>5, <1>6, <1>7 DEF CommandRuns

LEMMA NextLock == LockInv /\ [Next]_vars => LockInv'
<1>1. LockInv /\ UNCHANGED vars => Exclusive'
    BY LockKept DEF LockInv, vars, files, inside
<1>2. LockInv /\ [Next]_vars => Exclusive'
    BY <1>1, MainExclusive, DaemonExclusive, CommandExclusive DEF Next
<1> QED BY <1>2, NextCore DEF LockInv

LEMMA InitLock == Init => LockInv
BY InitCore DEF Init, LockInv, Exclusive, OneDaemon, Owning, NewCommand

\* Between taking and dropping the lock a daemon is alone, for any number
\* of processes that start, probe and crash (lock::acquire_at, is_held).
THEOREM DaemonIsAlone == Spec => []OneDaemon
<1>1. LockInv => OneDaemon
    BY DEF LockInv, Exclusive
<1> QED BY <1>1, InitLock, NextLock, PTL DEF Spec

----------------------------------------------------------------------------
(* What the paths lead to.  Files are written and removed by path, so who  *)
(* may do it matters: only a daemon that has the lock.                     *)

Announced == {"json", "ipc", "waiting", "woken", "unlink", "forget"}
Serving == {"ipc", "waiting", "woken"}

PathsLead ==
    /\ \A p \in Daemon : main[p] \in Announced => json = p
    /\ \A p \in Daemon : ipc[p] # "none" => main[p] \in Serving
    /\ \A p \in Daemon : ipc[p] = "listening" => socket = p

PathInv == LockInv /\ PathsLead

\* Two daemons past the lock are one.
LEMMA OwnersAreOne ==
    ASSUME LockInv, NEW p \in Daemon, NEW q \in Daemon, main[p] \in Owning, main[q] \in Owning
    PROVE  p = q
BY DEF LockInv, Exclusive, OneDaemon

\* Files and listeners stay, and nobody gets to where they matter.
LEMMA PathsKept ==
    ASSUME PathsLead, UNCHANGED <<json, socket, ipc>>,
           \A p \in Daemon : /\ main'[p] \in Announced => main[p] \in Announced
                             /\ main[p] \in Serving => main'[p] \in Serving
    PROVE  PathsLead'
BY DEF PathsLead

LEMMA MainPaths == ASSUME PathInv, NEW p \in Daemon, Main(p) \/ Ipc(p) PROVE PathsLead'
<1> USE DEF files, history
<1>0. /\ LockInv /\ PathsLead
      /\ main \in [Daemon -> MainState] /\ ipc \in [Daemon -> IpcState]
    BY DEF PathInv, LockInv, CoreTyped
<1>1. CASE AcquireLock(p)
    BY <1>0, <1>1, PathsKept DEF AcquireLock, Announced, Serving
<1>2. CASE SpawnEngine(p)
    BY <1>0, <1>2, PathsKept DEF SpawnEngine, Announced, Serving
<1>3. CASE WriteDaemonJson(p)
  <2>1. main[p] \in Owning /\ main[p] \notin Serving
      BY <1>3 DEF WriteDaemonJson, Owning, Serving
  <2>2. \A q \in Daemon : q # p => main[q] \notin Owning
      BY <1>0, <2>1, OwnersAreOne
  <2>3. Announced \subseteq Owning
      BY DEF Announced, Owning
  <2> QED BY <1>0, <1>3, <2>1, <2>2, <2>3 DEF WriteDaemonJson, PathsLead, Serving
<1>4. CASE SpawnIpc(p)
    BY <1>0, <1>4 DEF SpawnIpc, PathsLead, Announced, Serving
<1>5. CASE AwaitShutdown(p) \/ MainWakes(p)
    BY <1>0, <1>5, PathsKept DEF AwaitShutdown, MainWakes, Announced, Serving
<1>6. CASE AbortTasks(p)
    BY <1>0, <1>6 DEF AbortTasks, PathsLead, Announced, Serving
<1>7. CASE RemoveSocket(p)
  <2>1. main[p] \in Owning /\ main[p] \notin Serving
      BY <1>7 DEF RemoveSocket, Owning, Serving
  <2>2. Serving \subseteq Owning
      BY DEF Serving, Owning
  <2>3. \A q \in Daemon : ipc[q] = "none"
      BY <1>0, <2>1, <2>2, OwnersAreOne DEF PathsLead
  <2> QED BY <1>0, <1>7, <2>3 DEF RemoveSocket, PathsLead, Announced
<1>8. CASE RemoveDaemonJson(p)
  <2>1. main[p] \in Owning /\ main[p] \notin Serving
      BY <1>8 DEF RemoveDaemonJson, Owning, Serving
  <2>2. \A q \in Daemon : q # p => main[q] \notin Owning
      BY <1>0, <2>1, OwnersAreOne
  <2>3. Announced \subseteq Owning
      BY DEF Announced, Owning
  <2> QED BY <1>0, <1>8, <2>1, <2>2, <2>3 DEF RemoveDaemonJson, PathsLead, Announced
<1>9. CASE ReleaseLock(p)
    BY <1>0, <1>9, PathsKept DEF ReleaseLock, Announced, Serving
<1>10. CASE Exit(p)
    BY <1>0, <1>10 DEF Exit, Dies, PathsLead, Announced, Serving
<1>11. CASE RemoveStaleSocket(p)
  <2>1. main[p] \in Serving /\ Serving \subseteq Owning
      BY <1>0, <1>11 DEF RemoveStaleSocket, PathsLead, Serving, Owning
  <2>2. \A q \in Daemon : q # p => ipc[q] = "none"
      BY <1>0, <2>1, OwnersAreOne DEF PathsLead
  <2> QED BY <1>0, <1>11, <2>1, <2>2 DEF RemoveStaleSocket, PathsLead
<1>12. CASE BindSocket(p)
  <2>1. main[p] \in Serving /\ Serving \subseteq Owning
      BY <1>0, <1>12 DEF BindSocket, PathsLead, Serving, Owning
  <2>2. \A q \in Daemon : q # p => ipc[q] = "none"
      BY <1>0, <2>1, OwnersAreOne DEF PathsLead
  <2> QED BY <1>0, <1>12, <2>1, <2>2 DEF BindSocket, PathsLead
<1> QED
    BY <1>1, <1>2, <1>3, <1>4, <1>5, <1>6, <1>7, <1>8, <1>9, <1>10, <1>11, <1>12 DEF Main, Ipc

LEMMA OthersPaths ==
    ASSUME PathInv,
           \/ \E p \in Daemon :
                 \/ StartByService(p) \/ Crash(p)
                 \/ EngineSelects(p) \/ EngineScans(p) \/ EngineBreaks(p)
                 \/ BeginSave(p) \/ EndSave(p)
           \/ \E c \in Command :
                 (\E kind \in {"start", "stop", "restart"} : BeginCommand(c, kind)) \/ CommandRuns(c)
    PROVE  PathsLead'
<1> USE DEF files, inside, history
<1>0. /\ PathsLead
      /\ main \in [Daemon -> MainState] /\ ipc \in [Daemon -> IpcState]
    BY DEF PathInv, LockInv, CoreTyped
<1>1. ASSUME NEW p \in Daemon, Spawns(p), UNCHANGED <<json, socket, ipc>> PROVE PathsLead'
    BY <1>0, <1>1, PathsKept DEF Spawns, Announced, Serving
<1>2. ASSUME NEW p \in Daemon, Crash(p) PROVE PathsLead'
    BY <1>0, <1>2 DEF Crash, Dies, PathsLead, Announced, Serving
<1>3. CASE UNCHANGED <<json, socket, ipc, main>>
    BY <1>0, <1>3, PathsKept
<1>4. ASSUME NEW p \in Daemon,
             \/ StartByService(p)
             \/ EngineSelects(p) \/ EngineScans(p) \/ EngineBreaks(p)
             \/ BeginSave(p) \/ EndSave(p)
      PROVE  PathsLead'
    BY <1>1, <1>3, <1>4
       DEF StartByService, EngineSelects, EngineScans, EngineBreaks, BeginSave, EndSave
<1>5. ASSUME NEW c \in Command, NEW kind, BeginCommand(c, kind) PROVE PathsLead'
    BY <1>3, <1>5 DEF BeginCommand
<1>6. ASSUME NEW c \in Command, CommandRuns(c) PROVE PathsLead'
    BY <1>1, <1>3, <1>6
       DEF CommandRuns, CheckStoppable, ReadToken, ConnectToDaemon, RequestShutdown,
           CheckRunning, ProbeLock, DropProbe, StartByCommand
<1> QED BY <1>2, <1>4, <1>5, <1>6

LEMMA NextPaths == PathInv /\ [Next]_vars => PathInv'
<1>1. PathInv /\ UNCHANGED vars => PathsLead'
    BY PathsKept DEF PathInv, vars, files, inside
<1>2. PathInv /\ [Next]_vars => PathsLead'
    BY <1>1, MainPaths, OthersPaths DEF Next
<1> QED BY <1>2, NextLock DEF PathInv

\* A daemon that serves IPC and was not told to stop is the one that
\* daemon.json and the socket path lead to, whatever other processes start,
\* clean up or crash meanwhile (run, ipc::unix::serve).
THEOREM TheRunningIsReachable == Spec => []RunningIsReachable
<1>1. Init => PathInv
    BY InitLock DEF Init, PathInv, PathsLead, Announced
<1>2. PathInv => RunningIsReachable
    BY DEF PathInv, PathsLead, RunningIsReachable, Announced
<1> QED BY <1>1, <1>2, NextPaths, PTL DEF Spec

\* The daemon that commands find is the only one there is.
THEOREM TheDaemonIsTheOne == Spec => []DaemonIsTheOne
<1>1. OneDaemon /\ RunningIsReachable => DaemonIsTheOne
    BY DEF DaemonIsTheOne
<1> QED BY DaemonIsAlone, TheRunningIsReachable, <1>1, PTL

----------------------------------------------------------------------------
(* The Notify.  What is shown of it does not depend on who waits in which  *)
(* order: a notification becomes a permit or a wake-up, and a dropped      *)
(* future passes on what it had.                                           *)

\* A Notify, whatever its queue.
IsNotify(n) == n = [permit |-> n.permit, waiters |-> n.waiters, woken |-> n.woken]

\* There is a notification in it that somebody has yet to see.
Told(n) == n.permit = TRUE \/ n.woken # {}

Before == {"unborn", "starting", "locked"}
Past == {"woken", "unlink", "forget", "unlock", "exit", "dead"}

\* The engine is spawned once, after the lock is taken.
Kept ==
    /\ notify = [p \in Daemon |-> notify[p]]
    /\ \A p \in Daemon : IsNotify(notify[p])
    /\ \A p \in Daemon : main[p] \in Before => engine[p] = "none"
    /\ \A p \in asked : Told(notify[p]) \/ engine[p] = "ended" \/ main[p] \in Past

KeptInv == CoreTyped /\ Kept

LEMMA QueueChanges ==
    ASSUME NEW n, IsNotify(n), NEW waiters
    PROVE  /\ IsNotify([n EXCEPT !.waiters = waiters])
           /\ Told([n EXCEPT !.waiters = waiters]) <=> Told(n)
<1> DEFINE m == [permit |-> n.permit, waiters |-> n.waiters, woken |-> n.woken]
<1>1. /\ IsNotify([m EXCEPT !.waiters = waiters])
      /\ [m EXCEPT !.waiters = waiters].permit = n.permit
      /\ [m EXCEPT !.waiters = waiters].woken = n.woken
    BY DEF IsNotify
<1>2. n = m
    BY DEF IsNotify
<1> HIDE DEF m
<1>3. [n EXCEPT !.waiters = waiters] = [m EXCEPT !.waiters = waiters]
    BY <1>2, Zenon
<1> QED BY <1>1, <1>3, Zenon DEF Told

LEMMA NotifiedTells == ASSUME NEW n, IsNotify(n) PROVE IsNotify(Notified(n)) /\ Told(Notified(n))
<1> DEFINE m == [permit |-> n.permit, waiters |-> n.waiters, woken |-> n.woken]
<1>1. n = m
    BY DEF IsNotify
<1>2. CASE n.waiters = <<>>
  <2>1. Notified(n) = [permit |-> TRUE, waiters |-> n.waiters, woken |-> n.woken]
      BY <1>1, <1>2 DEF Notified
  <2> QED BY <2>1 DEF IsNotify, Told
<1>3. CASE n.waiters # <<>>
  <2>1. Notified(n) = [permit |-> n.permit, waiters |-> Tail(n.waiters),
                       woken |-> n.woken \cup {Head(n.waiters)}]
      BY <1>1, <1>3 DEF Notified
  <2> QED BY <2>1 DEF IsNotify, Told
<1> QED BY <1>2, <1>3

LEMMA WaitingKeeps ==
    ASSUME NEW n, IsNotify(n), NEW who
    PROVE  IsNotify(Waiting(n, who)) /\ (Told(Waiting(n, who)) <=> Told(n))
BY QueueChanges DEF Waiting

LEMMA DroppedKeeps ==
    ASSUME NEW n, IsNotify(n), NEW who
    PROVE  IsNotify(Dropped(n, who)) /\ (Told(n) => Told(Dropped(n, who)))
<1>1. CASE who \in n.woken
  <2> DEFINE m == [n EXCEPT !.woken = n.woken \ {who}]
  <2>1. IsNotify(m)
      BY DEF IsNotify
  <2>2. Dropped(n, who) = Notified(m)
      BY <1>1 DEF Dropped
  <2> QED BY <2>1, <2>2, NotifiedTells
<1>2. CASE who \notin n.woken
    BY <1>2, QueueChanges, Zenon DEF Dropped
<1> QED BY <1>1, <1>2

LEMMA PermitChanges ==
    ASSUME NEW n, IsNotify(n), NEW v
    PROVE  IsNotify([n EXCEPT !.permit = v]) /\ IsNotify([n EXCEPT !.woken = v])
BY DEF IsNotify

\* One daemon's step: unless that ends it, what it has to see stays.
LEMMA OneMoves ==
    ASSUME KeptInv, asked' = asked, NEW p \in Daemon, NEW n, IsNotify(n),
           notify' = [notify EXCEPT ![p] = n],
           \A q \in Daemon \ {p} : main'[q] = main[q] /\ engine'[q] = engine[q],
           main'[p] \in Before => main[p] \in Before /\ engine'[p] = engine[p],
           \/ main'[p] \in Past
           \/ engine'[p] = "ended"
           \/ /\ Told(notify[p]) => Told(n)
              /\ engine[p] # "ended"
              /\ main[p] \notin Past
    PROVE  Kept'
<1>1. \A q \in Daemon : notify'[q] = IF q = p THEN n ELSE notify[q]
    BY DEF KeptInv, Kept
<1>2. notify' = [q \in Daemon |-> notify'[q]] /\ \A q \in Daemon : IsNotify(notify'[q])
    BY <1>1 DEF KeptInv, Kept
<1>3. \A q \in Daemon : main'[q] \in Before => engine'[q] = "none"
    BY DEF KeptInv, Kept
<1>4. \A q \in asked : Told(notify'[q]) \/ engine'[q] = "ended" \/ main'[q] \in Past
    BY <1>1 DEF KeptInv, Kept, CoreTyped
<1> QED BY <1>2, <1>3, <1>4 DEF Kept

\* A step that leaves the notifications alone.
LEMMA QuietStep ==
    ASSUME KeptInv, UNCHANGED <<asked, notify>>,
           \A q \in Daemon :
              /\ main'[q] \in Before => main[q] \in Before /\ engine'[q] = engine[q]
              /\ engine[q] = "ended" => engine'[q] = "ended"
              /\ main[q] \in Past => main'[q] \in Past
    PROVE  Kept'
BY DEF KeptInv, Kept, CoreTyped

LEMMA MainKept == ASSUME KeptInv, NEW p \in Daemon, Main(p) \/ Ipc(p) PROVE Kept'
<1> USE DEF files, history
<1>0. /\ main \in [Daemon -> MainState] /\ engine \in [Daemon -> {"none", "scan", "select", "ended"}]
      /\ IsNotify(notify[p]) /\ (main[p] \in Before => engine[p] = "none")
    BY DEF KeptInv, CoreTyped, Kept
<1>1. CASE AcquireLock(p)
    BY <1>0, <1>1, QuietStep DEF AcquireLock, Before, Past
<1>2. CASE SpawnEngine(p)
    BY <1>0, <1>2, QuietStep DEF SpawnEngine, Before, Past
<1>3. CASE WriteDaemonJson(p) \/ SpawnIpc(p)
    BY <1>0, <1>3, QuietStep DEF WriteDaemonJson, SpawnIpc, Before, Past
<1>4. CASE AwaitShutdown(p)
  <2>1. CASE notify[p].permit
    <3>1. notify' = [notify EXCEPT ![p] = [notify[p] EXCEPT !.permit = FALSE]]
          /\ main' = [main EXCEPT ![p] = "woken"] /\ UNCHANGED <<engine, asked>>
        BY <1>4, <2>1 DEF AwaitShutdown
    <3>2. IsNotify([notify[p] EXCEPT !.permit = FALSE])
        BY <1>0, PermitChanges
    <3> QED BY <1>0, <3>1, <3>2, OneMoves DEF Before, Past
  <2>2. CASE ~notify[p].permit
    <3>1. notify' = [notify EXCEPT ![p] = Waiting(notify[p], "main")]
          /\ main' = [main EXCEPT ![p] = "waiting"] /\ main[p] = "ipc" /\ UNCHANGED <<engine, asked>>
        BY <1>4, <2>2 DEF AwaitShutdown
    <3>2. IsNotify(Waiting(notify[p], "main")) /\ (Told(notify[p]) => Told(Waiting(notify[p], "main")))
        BY <1>0, WaitingKeeps
    <3>3. CASE engine[p] = "ended"
        BY <1>0, <3>1, <3>2, <3>3, OneMoves DEF Before
    <3>4. CASE engine[p] # "ended"
        BY <1>0, <3>1, <3>2, <3>4, OneMoves DEF Before, Past
    <3> QED BY <3>3, <3>4
  <2> QED BY <2>1, <2>2
<1>5. CASE MainWakes(p)
  <2>1. notify' = [notify EXCEPT ![p] = [notify[p] EXCEPT !.woken = notify[p].woken \ {"main"}]]
        /\ main' = [main EXCEPT ![p] = "woken"] /\ UNCHANGED <<engine, asked>>
      BY <1>5 DEF MainWakes
  <2>2. IsNotify([notify[p] EXCEPT !.woken = notify[p].woken \ {"main"}])
      BY <1>0, PermitChanges
  <2> QED BY <1>0, <2>1, <2>2, OneMoves DEF Before, Past
<1>6. CASE AbortTasks(p)
  <2>1. notify' = [notify EXCEPT ![p] = Dropped(notify[p], "engine")]
        /\ main' = [main EXCEPT ![p] = "unlink"] /\ engine' = [engine EXCEPT ![p] = "none"]
        /\ UNCHANGED asked
      BY <1>6 DEF AbortTasks
  <2>2. IsNotify(Dropped(notify[p], "engine"))
      BY <1>0, DroppedKeeps
  <2> QED BY <1>0, <2>1, <2>2, OneMoves DEF Before, Past
<1>7. CASE RemoveSocket(p) \/ RemoveDaemonJson(p) \/ ReleaseLock(p)
    BY <1>0, <1>7, QuietStep DEF RemoveSocket, RemoveDaemonJson, ReleaseLock, Before, Past
<1>8. ASSUME Dies(p), UNCHANGED asked PROVE Kept'
  <2>1. IsNotify(QuietNotify)
      BY DEF IsNotify, QuietNotify
  <2>2. \A q \in Daemon \ {p} : main'[q] = main[q] /\ engine'[q] = engine[q]
      BY <1>0, <1>8 DEF Dies
  <2>3. main'[p] = "dead"
      BY <1>0, <1>8 DEF Dies
  <2> QED BY <1>8, <2>1, <2>2, <2>3, OneMoves DEF Dies, Before, Past
<1>9. CASE Exit(p)
    BY <1>8, <1>9 DEF Exit
<1>10. CASE Ipc(p)
    BY <1>0, <1>10, QuietStep DEF Ipc, RemoveStaleSocket, BindSocket
<1> QED BY <1>1, <1>2, <1>3, <1>4, <1>5, <1>6, <1>7, <1>9, <1>10 DEF Main

LEMMA DaemonKept ==
    ASSUME KeptInv, NEW p \in Daemon,
           \/ StartByService(p) \/ Crash(p)
           \/ EngineSelects(p) \/ EngineScans(p) \/ EngineBreaks(p)
           \/ BeginSave(p) \/ EndSave(p)
    PROVE  Kept'
<1> USE DEF files, history
<1>0. /\ main \in [Daemon -> MainState] /\ engine \in [Daemon -> {"none", "scan", "select", "ended"}]
      /\ IsNotify(notify[p]) /\ (main[p] \in Before => engine[p] = "none")
    BY DEF KeptInv, CoreTyped, Kept
<1>1. CASE StartByService(p)
    BY <1>0, <1>1, QuietStep DEF StartByService, Spawns, Before, Past
<1>2. CASE Crash(p)
  <2>1. IsNotify(QuietNotify)
      BY DEF IsNotify, QuietNotify
  <2>2. \A q \in Daemon \ {p} : main'[q] = main[q] /\ engine'[q] = engine[q]
      BY <1>0, <1>2 DEF Crash, Dies
  <2>3. main'[p] = "dead"
      BY <1>0, <1>2 DEF Crash, Dies
  <2> QED BY <1>2, <2>1, <2>2, <2>3, OneMoves DEF Crash, Dies, Before, Past
<1>3. ASSUME NEW n, IsNotify(n), NEW at \in {"scan", "select", "ended"},
             notify' = [notify EXCEPT ![p] = n],
             engine' = [engine EXCEPT ![p] = at],
             engine[p] \in {"scan", "select"},
             at = "ended" \/ (Told(notify[p]) => Told(n)),
             UNCHANGED <<main, asked>>
      PROVE  Kept'
  <2>1. main[p] \notin Before
      BY <1>0, <1>3
  <2>2. \A q \in Daemon \ {p} : main'[q] = main[q] /\ engine'[q] = engine[q]
      BY <1>0, <1>3
  <2>3. engine'[p] = at
      BY <1>0, <1>3
  <2>4. CASE at = "ended" \/ main[p] \in Past
      BY <1>3, <2>1, <2>2, <2>3, <2>4, OneMoves
  <2>5. CASE at # "ended" /\ main[p] \notin Past
      BY <1>3, <2>1, <2>2, <2>3, <2>5, OneMoves
  <2> QED BY <2>4, <2>5
<1>4. CASE EngineSelects(p)
  <2>1. CASE notify[p].permit
    <3>1. IsNotify([notify[p] EXCEPT !.permit = FALSE])
        BY <1>0, PermitChanges
    <3>2. /\ notify' = [notify EXCEPT ![p] = [notify[p] EXCEPT !.permit = FALSE]]
          /\ engine' = [engine EXCEPT ![p] = "ended"] /\ engine[p] = "scan"
          /\ UNCHANGED <<main, asked>>
        BY <1>4, <2>1 DEF EngineSelects
    <3> QED BY <1>3, <3>1, <3>2
  <2>2. CASE ~notify[p].permit
    <3>1. IsNotify(Waiting(notify[p], "engine"))
          /\ (Told(notify[p]) => Told(Waiting(notify[p], "engine")))
        BY <1>0, WaitingKeeps
    <3>2. /\ notify' = [notify EXCEPT ![p] = Waiting(notify[p], "engine")]
          /\ engine' = [engine EXCEPT ![p] = "select"] /\ engine[p] = "scan"
          /\ UNCHANGED <<main, asked>>
        BY <1>4, <2>2 DEF EngineSelects
    <3> QED BY <1>3, <3>1, <3>2
  <2> QED BY <2>1, <2>2
<1>5. CASE EngineScans(p)
  <2>1. IsNotify(Dropped(notify[p], "engine"))
        /\ (Told(notify[p]) => Told(Dropped(notify[p], "engine")))
      BY <1>0, DroppedKeeps
  <2>2. /\ notify' = [notify EXCEPT ![p] = Dropped(notify[p], "engine")]
        /\ engine' = [engine EXCEPT ![p] = "scan"] /\ engine[p] = "select"
        /\ UNCHANGED <<main, asked>>
      BY <1>5 DEF EngineScans
  <2> QED BY <1>3, <2>1, <2>2
<1>6. CASE EngineBreaks(p)
  <2>1. IsNotify([notify[p] EXCEPT !.woken = notify[p].woken \ {"engine"}])
      BY <1>0, PermitChanges
  <2>2. /\ notify' = [notify EXCEPT ![p] = [notify[p] EXCEPT !.woken = notify[p].woken \ {"engine"}]]
        /\ engine' = [engine EXCEPT ![p] = "ended"] /\ engine[p] = "select"
        /\ UNCHANGED <<main, asked>>
      BY <1>6 DEF EngineBreaks
  <2> QED BY <1>3, <2>1, <2>2
<1>7. CASE BeginSave(p) \/ EndSave(p)
    BY <1>0, <1>7, QuietStep DEF BeginSave, EndSave
<1> QED BY <1>1, <1>2, <1>4, <1>5, <1>6, <1>7

LEMMA CommandKept ==
    ASSUME KeptInv, NEW c \in Command,
           (\E kind \in {"start", "stop", "restart"} : BeginCommand(c, kind)) \/ CommandRuns(c)
    PROVE  Kept'
<1> USE DEF files, inside, history
<1>0. /\ main \in [Daemon -> MainState] /\ command[c] \in CommandCall
      /\ asked \subseteq Daemon
    BY DEF KeptInv, CoreTyped
<1>1. CASE UNCHANGED <<main, engine, notify, asked>>
    BY <1>1, QuietStep DEF KeptInv
<1>2. CASE RequestShutdown(c)
  <2> DEFINE p == command[c].peer
  <2>1. p \in Daemon
      BY <1>0, <1>2 DEF RequestShutdown, CommandCall
  <2>2. CASE UNCHANGED <<notify, asked>>
      BY <1>1, <1>2, <2>2 DEF RequestShutdown
  <2>3. CASE notify' = [notify EXCEPT ![p] = Notified(notify[p])] /\ asked' = asked \cup {p}
    <3>1. \A q \in Daemon : notify'[q] = IF q = p THEN Notified(notify[p]) ELSE notify[q]
        BY <2>3 DEF KeptInv, Kept
    <3>2. IsNotify(Notified(notify[p])) /\ Told(Notified(notify[p]))
        BY <2>1, NotifiedTells DEF KeptInv, Kept
    <3>3. main' = main /\ engine' = engine
        BY <1>2 DEF RequestShutdown
    <3>4. notify' = [q \in Daemon |-> notify'[q]]
        BY <2>3 DEF KeptInv, Kept
    <3>5. \A q \in asked' : Told(notify'[q]) \/ engine'[q] = "ended" \/ main'[q] \in Past
        BY <1>0, <2>1, <2>3, <3>1, <3>2, <3>3 DEF KeptInv, Kept
    <3>6. \A q \in Daemon : IsNotify(notify'[q])
        BY <3>1, <3>2 DEF KeptInv, Kept
    <3>7. \A q \in Daemon : main'[q] \in Before => engine'[q] = "none"
        BY <3>3 DEF KeptInv, Kept
    <3> QED BY <3>4, <3>5, <3>6, <3>7 DEF Kept
  <2> QED BY <1>2, <2>2, <2>3 DEF RequestShutdown
<1>3. ASSUME NEW kind, BeginCommand(c, kind) PROVE Kept'
    BY <1>1, <1>3 DEF BeginCommand
<1>4. CASE CheckStoppable(c) \/ ReadToken(c) \/ ConnectToDaemon(c)
    BY <1>1, <1>4 DEF CheckStoppable, ReadToken, ConnectToDaemon
<1>5. CASE CheckRunning(c) \/ ProbeLock(c) \/ DropProbe(c)
    BY <1>1, <1>5 DEF CheckRunning, ProbeLock, DropProbe
<1>6. ASSUME NEW p \in Daemon, StartByCommand(c, p) PROVE Kept'
    BY <1>0, <1>6, QuietStep DEF StartByCommand, Spawns, Before, Past
<1> QED BY <1>2, <1>3, <1>4, <1>5, <1>6 DEF CommandRuns

LEMMA NextKept == KeptInv /\ [Next]_vars => KeptInv'
<1>1. KeptInv /\ UNCHANGED vars => Kept'
    BY QuietStep DEF KeptInv, vars, inside, history
<1>2. KeptInv /\ [Next]_vars => Kept'
    BY <1>1, MainKept, DaemonKept, CommandKept DEF Next
<1> QED BY <1>2, NextCore DEF KeptInv

LEMMA InitKept == Init => KeptInv
<1>1. Init => Kept
    BY DEF Init, Kept, IsNotify, QuietNotify
<1> QED BY <1>1, InitCore DEF KeptInv

\* A shutdown that was answered with Ok is not lost in the Notify that run
\* and the engine share, in whatever order they wait, wake and drop their
\* futures: a permit or a wake-up is there, the engine took it, or the
\* daemon is on its way out (Request::Shutdown, run, DiscoveryEngine::run).
THEOREM ShutdownsAreKept == Spec => []ShutdownIsKept
<1>1. KeptInv => ShutdownIsKept
    BY DEF KeptInv, Kept, Told, Past, ShutdownIsKept
<1> QED BY <1>1, InitKept, NextKept, PTL DEF Spec

----------------------------------------------------------------------------
(* The types.  That nobody waits twice in a Notify, so that its queue is   *)
(* one of WaitList, needs that main and the engine are in it only while    *)
(* they await it, and that who was woken has left it.                      *)

WithMain == {<<"main">>, <<"main", "engine">>, <<"engine", "main">>}
WithEngine == {<<"engine">>, <<"main", "engine">>, <<"engine", "main">>}

\* A Notify of which main (the engine) may be part.
Ordered(n, mainMay, engineMay) ==
    /\ n \in NotifyState
    /\ n.waiters \in WithMain => mainMay /\ "main" \notin n.woken
    /\ n.waiters \in WithEngine => engineMay /\ "engine" \notin n.woken
    /\ "main" \in n.woken => mainMay
    /\ "engine" \in n.woken => engineMay

InOrder(p) == Ordered(notify[p], main[p] = "waiting", engine[p] = "select")

QueuesInOrder ==
    /\ notify \in [Daemon -> NotifyState]
    /\ \A p \in Daemon : InOrder(p)

Counted ==
    /\ saving \subseteq Daemon
    /\ services \in 0 .. MaxService
    /\ crashes \in 0 .. MaxCrashes

LEMMA SecondAppended ==
    ASSUME NEW x \in {"main", "engine"}, NEW y \in {"main", "engine"}
    PROVE  Append(<<x>>, y) = <<x, y>>
<1> DEFINE S == {"main", "engine"}
<1>1. <<x>> \in Seq(S) /\ <<x, y>> \in Seq(S)
    OBVIOUS
<1> HIDE DEF S
<1>2. Append(<<x>>, y) \in Seq(S) /\ Len(Append(<<x>>, y)) = 2 /\ Len(<<x>>) = 1
    BY <1>1
<1>3. Append(<<x>>, y)[1] = x /\ Append(<<x>>, y)[2] = y
    BY <1>1, <1>2
<1>4. <<x, y>>[1] = x /\ <<x, y>>[2] = y /\ Len(<<x, y>>) = 2
    OBVIOUS
<1>5. \A i \in 1 .. 2 : i = 1 \/ i = 2
    OBVIOUS
<1>6. \A i \in 1 .. Len(Append(<<x>>, y)) : Append(<<x>>, y)[i] = <<x, y>>[i]
    BY <1>2, <1>3, <1>4, <1>5
<1> QED BY <1>1, <1>2, <1>4, <1>6, SeqEqual

LEMMA QueueEnds ==
    ASSUME NEW w \in WaitList
    PROVE  /\ w # <<>> =>
              /\ Head(w) \in {"main", "engine"}
              /\ Tail(w) \in WaitList
              /\ Head(w) = "main" <=> w \in WithMain /\ Tail(w) \notin WithMain
              /\ Head(w) = "engine" <=> w \in WithEngine /\ Tail(w) \notin WithEngine
              /\ Tail(w) \in WithMain => w \in WithMain
              /\ Tail(w) \in WithEngine => w \in WithEngine
           /\ w \notin WithMain =>
              /\ Append(w, "main") \in WaitList \cap WithMain
              /\ Append(w, "main") \in WithEngine => w \in WithEngine
           /\ w \notin WithEngine =>
              /\ Append(w, "engine") \in WaitList \cap WithEngine
              /\ Append(w, "engine") \in WithMain => w \in WithMain
           /\ Without(w, "engine") \in WaitList \ WithEngine
           /\ Without(w, "engine") \in WithMain => w \in WithMain
<1>0. /\ <<>> # <<"main">> /\ <<>> # <<"engine">> /\ <<"main">> # <<"engine">>
      /\ \A x, y : <<x, y>> # <<>> /\ <<x, y>> # <<"main">> /\ <<x, y>> # <<"engine">>
      /\ <<"main", "engine">> # <<"engine", "main">>
    OBVIOUS
<1>1. CASE w = <<>>
  <2>1. Append(w, "main") = <<"main">> /\ Append(w, "engine") = <<"engine">>
      BY <1>1
  <2>2. Without(w, "engine") = <<>>
      BY <1>0, <1>1, <2>1 DEF Without
  <2> QED BY <1>0, <1>1, <2>1, <2>2 DEF WaitList, WithMain, WithEngine
<1>2. CASE w = <<"main">>
  <2>1. Head(w) = "main" /\ Tail(w) = <<>> /\ Append(w, "engine") = <<"main", "engine">>
    <3>1. Head(w) = "main" /\ Append(w, "engine") = <<"main", "engine">>
      <4>1. Append(<<"main">>, "engine") = <<"main", "engine">>
          BY SecondAppended
      <4> QED BY <1>2, <4>1
    <3>2. w \in Seq({"main", "engine"}) /\ Len(w) = 1
        BY <1>2
    <3>3. Tail(w) \in Seq({"main", "engine"}) /\ Len(Tail(w)) = 0
        BY <3>2
    <3>4. Tail(w) = <<>>
        BY <3>3, EmptySeq
    <3> QED BY <3>1, <3>4
  <2>2. Without(w, "engine") = <<"main">>
      BY <1>0, <1>2, <2>1 DEF Without
  <2> QED BY <1>0, <1>2, <2>1, <2>2 DEF WaitList, WithMain, WithEngine
<1>3. CASE w = <<"engine">>
  <2>1. Head(w) = "engine" /\ Tail(w) = <<>> /\ Append(w, "main") = <<"engine", "main">>
    <3>1. Head(w) = "engine" /\ Append(w, "main") = <<"engine", "main">>
      <4>1. Append(<<"engine">>, "main") = <<"engine", "main">>
          BY SecondAppended
      <4> QED BY <1>3, <4>1
    <3>2. w \in Seq({"main", "engine"}) /\ Len(w) = 1
        BY <1>3
    <3>3. Tail(w) \in Seq({"main", "engine"}) /\ Len(Tail(w)) = 0
        BY <3>2
    <3>4. Tail(w) = <<>>
        BY <3>3, EmptySeq
    <3> QED BY <3>1, <3>4
  <2>2. Without(w, "engine") = <<>>
      BY <1>0, <1>3, <2>1 DEF Without
  <2> QED BY <1>0, <1>3, <2>1, <2>2 DEF WaitList, WithMain, WithEngine
<1>4. CASE w = <<"main", "engine">>
  <2>1. Head(w) = "main" /\ Tail(w) = <<"engine">>
      BY <1>4
  <2>2. Without(w, "engine") = <<"main">>
      BY <1>0, <1>4, <2>1 DEF Without
  <2> QED BY <1>0, <1>4, <2>1, <2>2 DEF WaitList, WithMain, WithEngine
<1>5. CASE w = <<"engine", "main">>
  <2>1. Head(w) = "engine" /\ Tail(w) = <<"main">>
      BY <1>5
  <2>2. Without(w, "engine") = <<"main">>
      BY <1>0, <1>5, <2>1 DEF Without
  <2> QED BY <1>0, <1>5, <2>1, <2>2 DEF WaitList, WithMain, WithEngine
<1> QED BY <1>1, <1>2, <1>3, <1>4, <1>5 DEF WaitList

LEMMA NotifiedInOrder ==
    ASSUME NEW m, NEW e, NEW n, Ordered(n, m, e)
    PROVE  Ordered(Notified(n), m, e)
<1>1. n \in NotifyState /\ n.waiters \in WaitList
    BY DEF Ordered, NotifyState
<1>2. CASE n.waiters = <<>>
  <2>1. Notified(n) = [n EXCEPT !.permit = TRUE]
      BY <1>2 DEF Notified
  <2> QED BY <1>1, <2>1 DEF Ordered, NotifyState
<1>3. CASE n.waiters # <<>>
  <2> DEFINE h == Head(n.waiters)
             t == Tail(n.waiters)
             k == Notified(n)
  <2>1. /\ k \in [permit : BOOLEAN, waiters : {t}, woken : {n.woken \cup {h}}]
        /\ k.waiters = t /\ k.woken = n.woken \cup {h}
      BY <1>1, <1>3 DEF Notified, NotifyState
  <2>2. /\ h \in {"main", "engine"} /\ t \in WaitList
        /\ h = "main" <=> n.waiters \in WithMain /\ t \notin WithMain
        /\ h = "engine" <=> n.waiters \in WithEngine /\ t \notin WithEngine
        /\ t \in WithMain => n.waiters \in WithMain
        /\ t \in WithEngine => n.waiters \in WithEngine
      BY <1>1, <1>3, QueueEnds
  <2>3. k \in NotifyState
      BY <1>1, <2>1, <2>2 DEF NotifyState
  <2> HIDE DEF h, t, k
  <2>4. Ordered(k, m, e)
      BY <2>1, <2>2, <2>3 DEF Ordered
  <2> QED BY <2>4 DEF k
<1> QED BY <1>2, <1>3

LEMMA MainWaitsInOrder ==
    ASSUME NEW e, NEW n, Ordered(n, FALSE, e)
    PROVE  Ordered(Waiting(n, "main"), TRUE, e)
<1> DEFINE w == Append(n.waiters, "main")
           k == Waiting(n, "main")
<1>1. n \in NotifyState /\ n.waiters \in WaitList \ WithMain
    BY DEF Ordered, NotifyState
<1>2. w \in WaitList \cap WithMain /\ (w \in WithEngine => n.waiters \in WithEngine)
    BY <1>1, QueueEnds
<1>3. k \in NotifyState /\ k.waiters = w /\ k.woken = n.woken
    BY <1>1, <1>2 DEF Waiting, NotifyState
<1> HIDE DEF w, k
<1>4. Ordered(k, TRUE, e)
    BY <1>2, <1>3 DEF Ordered
<1> QED BY <1>4 DEF k

LEMMA EngineWaitsInOrder ==
    ASSUME NEW m, NEW n, Ordered(n, m, FALSE)
    PROVE  Ordered(Waiting(n, "engine"), m, TRUE)
<1> DEFINE w == Append(n.waiters, "engine")
           k == Waiting(n, "engine")
<1>1. n \in NotifyState /\ n.waiters \in WaitList \ WithEngine
    BY DEF Ordered, NotifyState
<1>2. w \in WaitList \cap WithEngine /\ (w \in WithMain => n.waiters \in WithMain)
    BY <1>1, QueueEnds
<1>3. k \in NotifyState /\ k.waiters = w /\ k.woken = n.woken
    BY <1>1, <1>2 DEF Waiting, NotifyState
<1> HIDE DEF w, k
<1>4. Ordered(k, m, TRUE)
    BY <1>2, <1>3 DEF Ordered
<1> QED BY <1>4 DEF k

\* Who has seen its wake-up, or gives it up, is no part of the Notify.
LEMMA WokenGoes ==
    ASSUME NEW m, NEW e, NEW n, Ordered(n, m, e)
    PROVE  /\ "main" \in n.woken => Ordered([n EXCEPT !.woken = n.woken \ {"main"}], FALSE, e)
           /\ "engine" \in n.woken => Ordered([n EXCEPT !.woken = n.woken \ {"engine"}], m, FALSE)
BY DEF Ordered, NotifyState

LEMMA PermitInOrder ==
    ASSUME NEW m, NEW e, NEW n, Ordered(n, m, e)
    PROVE  Ordered([n EXCEPT !.permit = FALSE], m, e)
BY DEF Ordered, NotifyState

LEMMA DroppedInOrder ==
    ASSUME NEW m, NEW e, NEW n, Ordered(n, m, e)
    PROVE  Ordered(Dropped(n, "engine"), m, FALSE)
<1>1. CASE "engine" \in n.woken
    BY <1>1, WokenGoes, NotifiedInOrder DEF Dropped
<1>2. CASE "engine" \notin n.woken
  <2> DEFINE w == Without(n.waiters, "engine")
             k == Dropped(n, "engine")
  <2>1. n \in NotifyState /\ n.waiters \in WaitList
      BY DEF Ordered, NotifyState
  <2>2. w \in WaitList \ WithEngine /\ (w \in WithMain => n.waiters \in WithMain)
      BY <2>1, QueueEnds
  <2>3. k \in NotifyState /\ k.waiters = w /\ k.woken = n.woken
      BY <1>2, <2>1, <2>2 DEF Dropped, NotifyState
  <2> HIDE DEF w, k
  <2>4. Ordered(k, m, FALSE)
      BY <1>2, <2>2, <2>3 DEF Ordered
  <2> QED BY <2>4 DEF k
<1> QED BY <1>1, <1>2

\* One daemon's step: its Notify fits where main and the engine now are.
LEMMA OneOrders ==
    ASSUME QueuesInOrder, NEW p \in Daemon, NEW n,
           notify' = [notify EXCEPT ![p] = n],
           NEW m, NEW e, Ordered(n, m, e),
           m => main'[p] = "waiting", e => engine'[p] = "select",
           \A q \in Daemon \ {p} : main'[q] = main[q] /\ engine'[q] = engine[q]
    PROVE  QueuesInOrder'
<1>1. n \in NotifyState
    BY DEF Ordered
<1>2. notify' \in [Daemon -> NotifyState] /\ notify'[p] = n
    BY <1>1 DEF QueuesInOrder
<1>3. InOrder(p)'
    BY <1>2 DEF InOrder, Ordered
<1>4. ASSUME NEW q \in Daemon \ {p} PROVE InOrder(q)'
  <2>1. notify'[q] = notify[q] /\ main'[q] = main[q] /\ engine'[q] = engine[q]
      BY DEF QueuesInOrder
  <2>2. Ordered(notify[q], main[q] = "waiting", engine[q] = "select")
      BY DEF QueuesInOrder, InOrder
  <2> QED BY <2>1, <2>2 DEF InOrder, Ordered
<1> QED BY <1>2, <1>3, <1>4 DEF QueuesInOrder

\* A step that leaves the Notifies and those who await them alone.
LEMMA OrderKept ==
    ASSUME QueuesInOrder, UNCHANGED notify,
           \A q \in Daemon : /\ main[q] = "waiting" => main'[q] = "waiting"
                             /\ engine[q] = "select" => engine'[q] = "select"
    PROVE  QueuesInOrder'
<1>1. ASSUME NEW q \in Daemon PROVE InOrder(q)'
  <2>1. Ordered(notify[q], main[q] = "waiting", engine[q] = "select")
      BY DEF QueuesInOrder, InOrder
  <2> QED BY <2>1 DEF InOrder, Ordered
<1> QED BY <1>1 DEF QueuesInOrder

LEMMA DiesInOrder ==
    ASSUME CoreTyped, QueuesInOrder, NEW p \in Daemon, Dies(p)
    PROVE  QueuesInOrder'
<1>1. Ordered(QuietNotify, FALSE, FALSE)
    BY DEF Ordered, NotifyState, QuietNotify, WaitList, WithMain, WithEngine
<1>2. /\ notify' = [notify EXCEPT ![p] = QuietNotify]
      /\ \A q \in Daemon \ {p} : main'[q] = main[q] /\ engine'[q] = engine[q]
    BY DEF Dies, CoreTyped
<1> QED BY <1>1, <1>2, OneOrders

LEMMA MainInOrder ==
    ASSUME KeptInv, QueuesInOrder, NEW p \in Daemon, Main(p) \/ Ipc(p)
    PROVE  QueuesInOrder'
<1> USE DEF files, history
<1> DEFINE n == notify[p]
           m == main[p] = "waiting"
           e == engine[p] = "select"
<1>0. /\ CoreTyped
      /\ main \in [Daemon -> MainState] /\ engine \in [Daemon -> {"none", "scan", "select", "ended"}]
      /\ Ordered(n, m, e)
    BY DEF KeptInv, CoreTyped, QueuesInOrder, InOrder
<1>1. CASE AcquireLock(p)
    BY <1>0, <1>1, OrderKept DEF AcquireLock
<1>2. CASE SpawnEngine(p)
  <2>1. engine[p] = "none"
      BY <1>2 DEF SpawnEngine, KeptInv, Kept, Before
  <2> QED BY <1>0, <1>2, <2>1, OrderKept DEF SpawnEngine
<1>3. CASE WriteDaemonJson(p) \/ SpawnIpc(p)
    BY <1>0, <1>3, OrderKept DEF WriteDaemonJson, SpawnIpc
<1>4. CASE AwaitShutdown(p)
  <2>1. Ordered(n, FALSE, e)
      BY <1>0, <1>4 DEF AwaitShutdown, Ordered
  <2>2. CASE n.permit
    <3>1. Ordered([n EXCEPT !.permit = FALSE], FALSE, e)
        BY <2>1, PermitInOrder
    <3> QED BY <1>0, <1>4, <2>2, <3>1, OneOrders DEF AwaitShutdown
  <2>3. CASE ~n.permit
    <3>1. Ordered(Waiting(n, "main"), TRUE, e)
        BY <2>1, MainWaitsInOrder
    <3> QED BY <1>0, <1>4, <2>3, <3>1, OneOrders DEF AwaitShutdown
  <2> QED BY <2>2, <2>3
<1>5. CASE MainWakes(p)
  <2>1. Ordered([n EXCEPT !.woken = n.woken \ {"main"}], FALSE, e)
      BY <1>0, <1>5, WokenGoes DEF MainWakes
  <2> QED BY <1>0, <1>5, <2>1, OneOrders DEF MainWakes
<1>6. CASE AbortTasks(p)
  <2>1. Ordered(Dropped(n, "engine"), m, FALSE)
      BY <1>0, DroppedInOrder
  <2>2. ~m
      BY <1>6 DEF AbortTasks
  <2> QED BY <1>0, <1>6, <2>1, <2>2, OneOrders DEF AbortTasks
<1>7. CASE RemoveSocket(p) \/ RemoveDaemonJson(p) \/ ReleaseLock(p)
    BY <1>0, <1>7, OrderKept DEF RemoveSocket, RemoveDaemonJson, ReleaseLock
<1>8. CASE Exit(p)
    BY <1>0, <1>8, DiesInOrder DEF Exit
<1>9. CASE Ipc(p)
    BY <1>9, OrderKept DEF Ipc, RemoveStaleSocket, BindSocket
<1> QED BY <1>1, <1>2, <1>3, <1>4, <1>5, <1>6, <1>7, <1>8, <1>9 DEF Main

LEMMA DaemonInOrder ==
    ASSUME KeptInv, QueuesInOrder, NEW p \in Daemon,
           \/ StartByService(p) \/ Crash(p)
           \/ EngineSelects(p) \/ EngineScans(p) \/ EngineBreaks(p)
           \/ BeginSave(p) \/ EndSave(p)
    PROVE  QueuesInOrder'
<1> USE DEF files, history
<1> DEFINE n == notify[p]
           m == main[p] = "waiting"
           e == engine[p] = "select"
<1>0. /\ CoreTyped
      /\ main \in [Daemon -> MainState] /\ engine \in [Daemon -> {"none", "scan", "select", "ended"}]
      /\ Ordered(n, m, e)
    BY DEF KeptInv, CoreTyped, QueuesInOrder, InOrder
<1>1. CASE StartByService(p)
    BY <1>0, <1>1, OrderKept DEF StartByService, Spawns
<1>2. CASE Crash(p)
    BY <1>0, <1>2, DiesInOrder DEF Crash
<1>3. CASE EngineSelects(p)
  <2>1. Ordered(n, m, FALSE)
      BY <1>0, <1>3 DEF EngineSelects, Ordered
  <2>2. CASE n.permit
    <3>1. Ordered([n EXCEPT !.permit = FALSE], m, FALSE)
        BY <2>1, PermitInOrder
    <3> QED BY <1>0, <1>3, <2>2, <3>1, OneOrders DEF EngineSelects
  <2>3. CASE ~n.permit
    <3>1. Ordered(Waiting(n, "engine"), m, TRUE)
        BY <2>1, EngineWaitsInOrder
    <3> QED BY <1>0, <1>3, <2>3, <3>1, OneOrders DEF EngineSelects
  <2> QED BY <2>2, <2>3
<1>4. CASE EngineScans(p)
  <2>1. Ordered(Dropped(n, "engine"), m, FALSE)
      BY <1>0, DroppedInOrder
  <2> QED BY <1>0, <1>4, <2>1, OneOrders DEF EngineScans
<1>5. CASE EngineBreaks(p)
  <2>1. Ordered([n EXCEPT !.woken = n.woken \ {"engine"}], m, FALSE)
      BY <1>0, <1>5, WokenGoes DEF EngineBreaks
  <2> QED BY <1>0, <1>5, <2>1, OneOrders DEF EngineBreaks
<1>6. CASE BeginSave(p) \/ EndSave(p)
    BY <1>6, OrderKept DEF BeginSave, EndSave
<1> QED BY <1>1, <1>2, <1>3, <1>4, <1>5, <1>6

LEMMA CommandInOrder ==
    ASSUME KeptInv, QueuesInOrder, NEW c \in Command,
           (\E kind \in {"start", "stop", "restart"} : BeginCommand(c, kind)) \/ CommandRuns(c)
    PROVE  QueuesInOrder'
<1> USE DEF files, inside, history
<1>0. main \in [Daemon -> MainState] /\ command[c] \in CommandCall
    BY DEF KeptInv, CoreTyped
<1>1. CASE UNCHANGED <<main, engine, notify>>
    BY <1>1, OrderKept
<1>2. CASE RequestShutdown(c)
  <2> DEFINE p == command[c].peer
  <2>1. p \in Daemon
      BY <1>0, <1>2 DEF RequestShutdown, CommandCall
  <2>2. CASE UNCHANGED notify
      BY <1>1, <1>2, <2>2 DEF RequestShutdown
  <2>3. CASE notify' = [notify EXCEPT ![p] = Notified(notify[p])]
    <3>1. Ordered(notify[p], main[p] = "waiting", engine[p] = "select")
        BY <2>1 DEF QueuesInOrder, InOrder
    <3>2. Ordered(Notified(notify[p]), main[p] = "waiting", engine[p] = "select")
        BY <3>1, NotifiedInOrder
    <3>3. main' = main /\ engine' = engine
        BY <1>2 DEF RequestShutdown
    <3> HIDE DEF p
    <3> QED BY <2>1, <2>3, <3>2, <3>3, OneOrders
  <2> QED BY <1>2, <2>2, <2>3 DEF RequestShutdown
<1>3. ASSUME NEW kind, BeginCommand(c, kind) PROVE QueuesInOrder'
    BY <1>1, <1>3 DEF BeginCommand
<1>4. CASE CheckStoppable(c) \/ ReadToken(c) \/ ConnectToDaemon(c)
    BY <1>1, <1>4 DEF CheckStoppable, ReadToken, ConnectToDaemon
<1>5. CASE CheckRunning(c) \/ ProbeLock(c) \/ DropProbe(c)
    BY <1>1, <1>5 DEF CheckRunning, ProbeLock, DropProbe
<1>6. ASSUME NEW p \in Daemon, StartByCommand(c, p) PROVE QueuesInOrder'
    BY <1>0, <1>6, OrderKept DEF StartByCommand, Spawns
<1> QED BY <1>2, <1>3, <1>4, <1>5, <1>6 DEF CommandRuns

LEMMA NextCounted == CoreTyped /\ Counted /\ [Next]_vars => Counted'
<1> USE DEF files, inside, history, Counted
<1> SUFFICES ASSUME CoreTyped, Counted, [Next]_vars PROVE Counted'
    OBVIOUS
<1>1. CASE UNCHANGED <<saving, services, crashes>>
    BY <1>1
<1>2. ASSUME NEW p \in Daemon, StartByService(p) PROVE Counted'
    BY <1>2, BoundAssumption DEF StartByService
<1>3. ASSUME NEW p \in Daemon, Crash(p) PROVE Counted'
    BY <1>3, BoundAssumption DEF Crash, Dies
<1>4. ASSUME NEW p \in Daemon, Main(p) \/ Ipc(p) PROVE Counted'
  <2>1. CASE Exit(p)
      BY <2>1 DEF Exit, Dies
  <2>2. CASE AcquireLock(p) \/ SpawnEngine(p) \/ WriteDaemonJson(p) \/ SpawnIpc(p)
      BY <1>1, <2>2 DEF AcquireLock, SpawnEngine, WriteDaemonJson, SpawnIpc
  <2>3. CASE AwaitShutdown(p) \/ MainWakes(p) \/ AbortTasks(p)
      BY <1>1, <2>3 DEF AwaitShutdown, MainWakes, AbortTasks
  <2>4. CASE RemoveSocket(p) \/ RemoveDaemonJson(p) \/ ReleaseLock(p) \/ Ipc(p)
      BY <1>1, <2>4 DEF RemoveSocket, RemoveDaemonJson, ReleaseLock, Ipc, RemoveStaleSocket, BindSocket
  <2> QED BY <1>4, <2>1, <2>2, <2>3, <2>4 DEF Main
<1>5. ASSUME NEW p \in Daemon, EngineSelects(p) \/ EngineScans(p) \/ EngineBreaks(p) PROVE Counted'
    BY <1>1, <1>5 DEF EngineSelects, EngineScans, EngineBreaks
<1>6. ASSUME NEW p \in Daemon, BeginSave(p) \/ EndSave(p) PROVE Counted'
    BY <1>6 DEF BeginSave, EndSave
<1>7. ASSUME NEW c \in Command, NEW kind, BeginCommand(c, kind) PROVE Counted'
    BY <1>1, <1>7 DEF BeginCommand
<1>8. ASSUME NEW c \in Command, CommandRuns(c) PROVE Counted'
    BY <1>1, <1>8
       DEF CommandRuns, CheckStoppable, ReadToken, ConnectToDaemon, RequestShutdown,
           CheckRunning, ProbeLock, DropProbe, StartByCommand
<1>9. CASE UNCHANGED vars
    BY <1>1, <1>9 DEF vars
<1> QED BY <1>2, <1>3, <1>4, <1>5, <1>6, <1>7, <1>8, <1>9 DEF Next

TypeInv == KeptInv /\ QueuesInOrder /\ Counted

LEMMA NextTyped == TypeInv /\ [Next]_vars => TypeInv'
<1>1. TypeInv /\ UNCHANGED vars => QueuesInOrder'
    BY OrderKept DEF TypeInv, vars, inside
<1>2. TypeInv /\ [Next]_vars => QueuesInOrder'
    BY <1>1, MainInOrder, DaemonInOrder, CommandInOrder DEF TypeInv, Next
<1> QED BY <1>2, NextKept, NextCounted DEF TypeInv, KeptInv

\* Every reachable state has the types the module declares, for any number
\* of processes and commands: main and the engine await the Notify they
\* share at most once each (run, DiscoveryEngine::run, tokio's Notify).
THEOREM LifecycleTyped == Spec => []TypeOK
<1>1. Init => TypeInv
  <2>1. Init => Ordered(QuietNotify, FALSE, FALSE) /\ QuietNotify \in NotifyState
      BY DEF Ordered, NotifyState, QuietNotify, WaitList, WithMain, WithEngine
  <2>2. Init => QueuesInOrder
      BY <2>1 DEF Init, QueuesInOrder, InOrder, Ordered
  <2>3. Init => Counted
      BY BoundAssumption DEF Init, Counted
  <2> QED BY InitKept, <2>2, <2>3 DEF TypeInv
<1>2. TypeInv => TypeOK
  <2>1. CommandCall \subseteq CommandState
      BY DEF CommandCall
  <2> QED BY <2>1 DEF TypeInv, KeptInv, CoreTyped, QueuesInOrder, Counted, TypeOK, MainState, IpcState
<1> QED BY <1>1, <1>2, NextTyped, PTL DEF Spec
=============================================================================
