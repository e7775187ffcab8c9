----------------------------- MODULE IpcSession -----------------------------
(***************************************************************************)
(* src/ipc/unix.rs and ipc/mod.rs, DaemonState::handle of daemon.rs and    *)
(* the commands of bin/raemote.rs that ask a daemon: one request of a      *)
(* command from daemon.json to its answer, while daemons stop, crash and   *)
(* start again and other commands ask too.                                 *)
(*                                                                         *)
(* A line is the body and the newline, written by two calls: if the writer *)
(* is gone between them, the body is there alone.  Each end reads a line   *)
(* through a BufReader made for that line, which is dropped with all that  *)
(* it has read beyond.  Which daemon holds the lock is the matter of       *)
(* DaemonLifecycle; here a daemon starts when none is up, and the handlers *)
(* of one that leaves may go on for a while beside the next.               *)
(***************************************************************************)
EXTENDS Naturals, Sequences

CONSTANTS
    Command,    \* `raemote` processes; each asks once
    Asks,       \* the requests that each may make
    Config,     \* contents of config.toml: records with `net` and `attempts`
    MaxStarts,  \* bound on the daemons that start
    MaxEdits,   \* bound on the edits of config.toml
    Broken      \* content that does not load or validate

ASSUME AskAssumption ==
    Asks \in [Command -> SUBSET {"Status", "GetToken", "RefreshToken", "Reload", "ListAuthorized",
                                 "RevokeAuthorized", "RenameAuthorized", "ListApps",
                                 "DiscoverNow", "DiscoverReport", "Shutdown"}]
ASSUME BoundAssumption == MaxStarts \in Nat /\ MaxEdits \in Nat
ASSUME ConfigAssumption ==
    /\ Broken \notin Config
    /\ \A v \in Config : v = [net |-> v.net, attempts |-> v.attempts]

VARIABLES
    daemon,     \* each daemon, numbered by its start; the number is its token
    json,       \* whose daemon.json is in place, 0 for nobody's
    socket,     \* whose socket is at the socket path, 0 for nobody's
    memory,     \* what each daemon holds
    file,       \* config.toml
    client,     \* each command, with what it has yet to write
    server,     \* handle_client at the other end of its connection
    up, down,   \* what is on the way between the two
    announced,  \* history: daemons that named network settings in an answer
    edits       \* history: edits of config.toml so far

world == <<daemon, json, socket, memory, file>>
wires == <<up, down>>
history == <<announced, edits>>
vars == <<world, client, server, wires, history>>

Daemon == 1..MaxStarts
EOL == [kind |-> "newline", token |-> 0]

Hello(t) == [kind |-> "Hello", token |-> t]
Request(a) == [kind |-> a, token |-> 0]
Answer(k) == [kind |-> k, token |-> 0]
Line(body) == <<body, EOL>>

\* What is on the wire after a line was written, or its body alone.
Written(wire, body) == wire \o Line(body)
Cut(wire, body) == Append(wire, body)

\* What each command makes of an answer; another one is "unexpected".
StatusKnows == {"Status"}
ReloadKnows == {"Reload"}
PairKnows == {"Token", "Error"}
ListKnows == {"Devices"}
RenameKnows == {"Ok", "Error"}
RevokeKnows == {"Ok", "Error"}
StopKnows == {"Ok"}
AppsKnows == {"Apps"}
DiscoverKnows == {"Apps", "DiscoverReport"}

Knows(a, k) ==
    \/ a = "Status" /\ k \in StatusKnows
    \/ a = "Reload" /\ k \in ReloadKnows
    \/ a \in {"GetToken", "RefreshToken"} /\ k \in PairKnows
    \/ a = "ListAuthorized" /\ k \in ListKnows
    \/ a = "RenameAuthorized" /\ k \in RenameKnows
    \/ a = "RevokeAuthorized" /\ k \in RevokeKnows
    \/ a = "Shutdown" /\ k \in StopKnows
    \/ a = "ListApps" /\ k \in AppsKnows
    \/ a \in {"DiscoverNow", "DiscoverReport"} /\ k \in DiscoverKnows

NewClient == [at |-> "idle", ask |-> "none", token |-> 0, peer |-> 0, out |-> <<>>, got |-> "none"]
NewServer == [at |-> "none", ask |-> "none", new |-> Broken, required |-> FALSE,
              out |-> <<>>, times |-> 0]

Ended(c) == client[c].at \in {"done", "failed"}
HasLine(wire) == \E i \in 1..Len(wire) : wire[i] = EOL
EndOfLine(wire) == CHOOSE i \in 1..Len(wire) : wire[i] = EOL /\ \A j \in 1..(i - 1) : wire[j] # EOL

\* The reader had what came up to the k-th piece when its line was complete:
\* what is beyond the line is lost.
Leaves(wire, k) == SubSeq(wire, k + 1, Len(wire))

----------------------------------------------------------------------------
(* Daemons come and go                                                     *)

\* run(): what is loaded for AuthState, the endpoint and the requests.
Loads(v) == [conf |-> v, limit |-> v.attempts, started |-> v.net]

StartDaemon(d) ==
    /\ daemon[d] = "unborn"
    /\ \A e \in Daemon : (e < d => daemon[e] \in {"leaving", "gone"})
    /\ file \in Config
    /\ daemon' = [daemon EXCEPT ![d] = "json"]
    /\ json' = d
    /\ memory' = [memory EXCEPT ![d] = Loads(file)]
    /\ UNCHANGED <<socket, file, client, server, wires, history>>

\* ipc::unix::serve removes what is at the path and binds.
Serve(d) ==
    /\ daemon[d] = "json"
    /\ daemon' = [daemon EXCEPT ![d] = "up"]
    /\ socket' = d
    /\ UNCHANGED <<json, memory, file, client, server, wires, history>>

\* The end of run() after its clean-up; tasks are not joined.
Leave(d) ==
    /\ daemon[d] = "asked"
    /\ daemon' = [daemon EXCEPT ![d] = "leaving"]
    /\ json' = 0
    /\ socket' = 0
    /\ UNCHANGED <<memory, file, client, server, wires, history>>

\* The process is gone, and with it its ends of the connections; of an answer
\* that it was about to write, the newline may be missing.
Ends(d) ==
    /\ daemon' = [daemon EXCEPT ![d] = "gone"]
    /\ server' = [c \in Command |->
         IF client[c].peer = d THEN [server[c] EXCEPT !.at = "closed", !.out = <<>>]
         ELSE server[c]]
    /\ \E half \in SUBSET {c \in Command : client[c].peer = d /\ server[c].out # <<>>} :
         down' = [c \in Command |-> IF c \in half THEN Cut(down[c], Head(server[c].out))
                                    ELSE down[c]]

Exit(d) ==
    /\ daemon[d] = "leaving"
    /\ Ends(d)
    /\ UNCHANGED <<json, socket, memory, file, client, up, history>>

\* daemon.json and the socket stay behind.
Crash(d) ==
    /\ daemon[d] \in {"json", "up", "asked", "leaving"}
    /\ Ends(d)
    /\ UNCHANGED <<json, socket, memory, file, client, up, history>>

\* Another command or an editor replaces config.toml.
EditFile ==
    /\ edits < MaxEdits
    /\ file' \in (Config \cup {Broken}) \ {file}
    /\ edits' = edits + 1
    /\ UNCHANGED <<daemon, json, socket, memory, client, server, wires, announced>>

----------------------------------------------------------------------------
(* The command                                                             *)

Goes(c, at) == client' = [client EXCEPT ![c].at = at]
Fails(c) == Goes(c, "failed")
Writes(c, at, body) == client' = [client EXCEPT ![c].at = at, ![c].out = <<body>>]

\* A connect() to the socket path succeeds.
Accepts == socket # 0 /\ daemon[socket] \in {"up", "asked"}

\* daemon_running: daemon.json is there and the socket accepts; the daemon reads
\* the end of that connection at once.
FindDaemon(c) ==
    /\ client[c].at = "idle"
    /\ \E a \in Asks[c] :
         client' = [client EXCEPT ![c].ask = a,
                                  ![c].at = IF json # 0 /\ Accepts THEN "loading" ELSE "failed"]
    /\ UNCHANGED <<world, server, wires, history>>

\* Variant: a file that is not there is read as an empty token.
LoadTokenOrNone(c) ==
    /\ client[c].at = "loading"
    /\ client' = [client EXCEPT ![c].at = "connecting", ![c].token = json]
    /\ UNCHANGED <<world, server, wires, history>>

\* load_ipc_token
LoadToken(c) ==
    /\ client[c].at = "loading"
    /\ IF json = 0 THEN Fails(c)
       ELSE client' = [client EXCEPT ![c].at = "connecting", ![c].token = json]
    /\ UNCHANGED <<world, server, wires, history>>

\* IpcClient::connect up to the Hello; the daemon accepts and spawns.
Connect(c) ==
    /\ client[c].at = "connecting"
    /\ IF Accepts
       THEN /\ client' = [client EXCEPT ![c].at = "hello", ![c].peer = socket,
                                        ![c].out = <<Hello(client[c].token)>>]
            /\ server' = [server EXCEPT ![c].at = "hello"]
       ELSE Fails(c) /\ UNCHANGED server
    /\ UNCHANGED <<world, wires, history>>

\* send_raw
Send(c) ==
    /\ client[c].at \in {"hello", "asking"} /\ client[c].out # <<>>
    /\ IF server[c].at = "closed"
       THEN Fails(c) /\ UNCHANGED up
       ELSE /\ client' = [client EXCEPT ![c].out = Tail(@)]
            /\ up' = [up EXCEPT ![c] = Written(@, Head(client[c].out))]
    /\ UNCHANGED <<world, server, down, history>>

\* The Hello is answered: connect returns and request writes, or both end.
Welcomed(c, k) ==
    IF k = "Ok" THEN Writes(c, "asking", Request(client[c].ask)) ELSE Fails(c)

\* The request is answered, with what the command knows, or not.
Told(c, k) ==
    client' = [client EXCEPT ![c].at = IF Knows(client[c].ask, k) THEN "done" ELSE "failed",
                             ![c].got = k]

\* Variant: a line is waited for, also when the daemon has closed.
ReceiveLine(c) ==
    /\ client[c].at \in {"hello", "asking"} /\ client[c].out = <<>>
    /\ HasLine(down[c])
    /\ \E k \in EndOfLine(down[c])..Len(down[c]) :
         /\ down' = [down EXCEPT ![c] = Leaves(@, k)]
         /\ IF client[c].at = "hello" THEN Welcomed(c, Head(down[c]).kind)
            ELSE Told(c, Head(down[c]).kind)
    /\ UNCHANGED <<world, server, up, history>>

\* read_raw: a line, or what there is when the daemon has closed.
Receive(c) ==
    /\ client[c].at \in {"hello", "asking"} /\ client[c].out = <<>>
    /\ HasLine(down[c]) \/ server[c].at = "closed"
    /\ IF down[c] = <<>> THEN Fails(c) /\ UNCHANGED down
       ELSE \E k \in 1..Len(down[c]) :
              /\ HasLine(down[c]) => k >= EndOfLine(down[c])
              /\ ~HasLine(down[c]) => k = Len(down[c])
              /\ down' = [down EXCEPT ![c] = Leaves(@, k)]
              /\ IF client[c].at = "hello" THEN Welcomed(c, Head(down[c]).kind)
                 ELSE Told(c, Head(down[c]).kind)
    /\ UNCHANGED <<world, server, up, history>>

\* The command is interrupted, maybe between the two writes of a line.
Interrupt(c) ==
    /\ client[c].at \in {"hello", "asking"}
    /\ Fails(c)
    /\ \/ UNCHANGED up
       \/ /\ client[c].out # <<>>
          /\ up' = [up EXCEPT ![c] = Cut(@, Head(client[c].out))]
    /\ UNCHANGED <<world, server, down, history>>

----------------------------------------------------------------------------
(* handle_client and DaemonState::handle                                   *)

Peer(c) == client[c].peer
Mine(c) == memory[Peer(c)]

Responds(c, at, k) ==
    server' = [server EXCEPT ![c].at = at, ![c].out = <<Answer(k)>>]

\* read_request: a line, or what there is when the client has closed.  Takes(c)
\* is the step of the reader, the body is the line's first piece.
Readable(c) == HasLine(up[c]) \/ Ended(c)
Takes(c) ==
    IF up[c] = <<>> THEN UNCHANGED up
    ELSE \E k \in 1..Len(up[c]) :
           /\ HasLine(up[c]) => k >= EndOfLine(up[c])
           /\ ~HasLine(up[c]) => k = Len(up[c])
           /\ up' = [up EXCEPT ![c] = Leaves(@, k)]

\* Variant: any token will do.
GreetAnyone(c) ==
    /\ server[c].at = "hello" /\ server[c].out = <<>>
    /\ Readable(c)
    /\ Takes(c)
    /\ IF up[c] # <<>> /\ Head(up[c]).kind = "Hello"
       THEN Responds(c, "reading", "Ok")
       ELSE Responds(c, "denied", "Denied")
    /\ UNCHANGED <<world, client, down, history>>

\* The first message must be a Hello with the token of this daemon.
Greet(c) ==
    /\ server[c].at = "hello" /\ server[c].out = <<>>
    /\ Readable(c)
    /\ Takes(c)
    /\ IF up[c] # <<>> /\ Head(up[c]) = Hello(Peer(c))
       THEN Responds(c, "reading", "Ok")
       ELSE Responds(c, "denied", "Denied")
    /\ UNCHANGED <<world, client, down, history>>

\* send_response: to a client that is gone it fails and ends the task, and so
\* does a denial.
Respond(c) ==
    /\ server[c].out # <<>>
    /\ IF Ended(c) THEN UNCHANGED down
       ELSE down' = [down EXCEPT ![c] = Written(@, Head(server[c].out))]
    /\ server' = [server EXCEPT ![c].out = <<>>,
         ![c].at = IF Ended(c) \/ @ = "denied" THEN "closed" ELSE @]
    /\ UNCHANGED <<world, client, up, history>>

\* The next request, or the end of the session.
Read(c) ==
    /\ server[c].at = "reading" /\ server[c].out = <<>>
    /\ Readable(c)
    /\ Takes(c)
    /\ server' = IF up[c] = <<>> \/ Head(up[c]) = EOL
                 THEN [server EXCEPT ![c].at = "closed"]
                 ELSE [server EXCEPT ![c].at = "handling", ![c].ask = Head(up[c]).kind,
                                     ![c].times = @ + 1]
    /\ UNCHANGED <<world, client, down, history>>

Handling(c, a) == server[c].at = "handling" /\ server[c].ask = a

\* What handle may answer.  That there is no active token, and that a device is
\* not authorized, is for AuthState to say; Discover has triggered a scan and
\* waited, as in Discovery.
StatusAnswers(a) == IF a = "Status" THEN {"Status"} ELSE {}
LinkAnswers(a) ==
    {k \in {"Token", "Error"} : a = "GetToken" \/ (a = "RefreshToken" /\ k = "Token")}
DeviceAnswers(a) ==
    {k \in {"Devices", "Ok", "Error"} :
       \/ a = "ListAuthorized" /\ k = "Devices"
       \/ a \in {"RevokeAuthorized", "RenameAuthorized"} /\ k # "Devices"}
AppsAnswers(a) ==
    {k \in {"Apps", "DiscoverReport"} :
       \/ a \in {"ListApps", "DiscoverNow"} /\ k = "Apps"
       \/ a = "DiscoverReport" /\ k = "DiscoverReport"}

\* Requests that change nothing here.
Inform(c) ==
    /\ server[c].at = "handling"
    /\ \E k \in StatusAnswers(server[c].ask) \cup LinkAnswers(server[c].ask)
                \cup DeviceAnswers(server[c].ask) \cup AppsAnswers(server[c].ask) :
         Responds(c, "reading", k)
    /\ UNCHANGED <<world, client, wires, history>>

\* The Notify of DaemonLifecycle, which may or may not stop the daemon.
Shutdown(c) ==
    /\ Handling(c, "Shutdown")
    /\ daemon' = [daemon EXCEPT ![Peer(c)] = IF @ = "up" THEN "asked" ELSE @]
    /\ Responds(c, "reading", "Ok")
    /\ UNCHANGED <<json, socket, memory, file, client, wires, history>>

\* Reload: config::reload and validate ...
ReloadFile(c) ==
    /\ Handling(c, "Reload")
    /\ IF file \in Config
       THEN server' = [server EXCEPT ![c].at = "loaded", ![c].new = file]
       ELSE Responds(c, "reading", "Error")
    /\ UNCHANGED <<world, client, wires, history>>

\* Variant: compared when the configuration is replaced already.
CompareReplaced(c) ==
    /\ server[c].at = "loaded"
    /\ server' = [server EXCEPT ![c].at = "compared", ![c].required = FALSE]
    /\ UNCHANGED <<world, client, wires, history>>

\* ... what changes and needs a restart, under a read lock of its own ...
CompareNetwork(c) ==
    /\ server[c].at = "loaded"
    /\ server' = [server EXCEPT ![c].at = "compared",
                                ![c].required = server[c].new.net # Mine(c).conf.net]
    /\ UNCHANGED <<world, client, wires, history>>

\* ... the replacement, under the write lock ...
ReplaceConfig(c) ==
    /\ server[c].at = "compared"
    /\ memory' = [memory EXCEPT ![Peer(c)].conf = server[c].new]
    /\ server' = [server EXCEPT ![c].at = "replaced"]
    /\ UNCHANGED <<daemon, json, socket, file, client, wires, history>>

\* Variant: with the value of the configuration this request has read.
SetMaxAttemptsRead(c) ==
    /\ server[c].at = "replaced"
    /\ memory' = [memory EXCEPT ![Peer(c)].limit = server[c].new.attempts]
    /\ server' = [server EXCEPT ![c].at = "applied"]
    /\ UNCHANGED <<daemon, json, socket, file, client, wires, history>>

\* ... set_max_attempts, with the configuration as it is by now: the guard of
\* the read lock is a temporary of the call and lives until it has returned ...
SetMaxAttempts(c) ==
    /\ server[c].at = "replaced"
    /\ memory' = [memory EXCEPT ![Peer(c)].limit = Mine(c).conf.attempts]
    /\ server' = [server EXCEPT ![c].at = "applied"]
    /\ UNCHANGED <<daemon, json, socket, file, client, wires, history>>

\* ... the generation and the engine's trigger (ServeHandler, Discovery), and
\* the answer.
AnswerReload(c) ==
    /\ server[c].at = "applied"
    /\ announced' = IF server[c].required THEN announced \cup {Peer(c)} ELSE announced
    /\ server' = [server EXCEPT ![c].at = "reading", ![c].out = <<Answer("Reload")>>,
                                ![c].new = Broken, ![c].required = FALSE]
    /\ UNCHANGED <<world, client, wires, edits>>

----------------------------------------------------------------------------
Init ==
    /\ daemon = [d \in Daemon |-> "unborn"]
    /\ json = 0 /\ socket = 0
    /\ memory = [d \in Daemon |-> Loads(CHOOSE v \in Config : TRUE)]
    /\ file \in Config
    /\ client = [c \in Command |-> NewClient]
    /\ server = [c \in Command |-> NewServer]
    /\ up = [c \in Command |-> <<>>] /\ down = [c \in Command |-> <<>>]
    /\ announced = {} /\ edits = 0

Runs(c) ==
    \/ FindDaemon(c) \/ LoadToken(c) \/ Connect(c)
    \/ Send(c) \/ Receive(c) \/ Interrupt(c)

Handles(c) ==
    \/ Inform(c) \/ Shutdown(c)
    \/ ReloadFile(c) \/ CompareNetwork(c) \/ ReplaceConfig(c) \/ SetMaxAttempts(c)
    \/ AnswerReload(c)

Serves(c) == Greet(c) \/ Respond(c) \/ Read(c) \/ Handles(c)

Next ==
    \/ \E c \in Command : Runs(c) \/ Serves(c)
    \/ \E d \in Daemon : \/ StartDaemon(d) \/ Serve(d) \/ Leave(d) \/ Exit(d) \/ Crash(d)
    \/ EditFile

Spec == Init /\ [][Next]_vars

\* A command that has begun goes on, the runtime polls the daemon's tasks, and
\* a process whose main has returned ends.  Nobody has to ask, be interrupted,
\* stop or start.
FairSpec ==
    /\ Spec
    /\ \A c \in Command :
         /\ WF_vars(LoadToken(c) \/ Connect(c) \/ Send(c) \/ Receive(c))
         /\ WF_vars(Serves(c))
    /\ \A d \in Daemon : WF_vars(Exit(d))

----------------------------------------------------------------------------
Ask == UNION {Asks[c] : c \in Command}
Body == {Hello(t) : t \in Daemon} \cup {Request(a) : a \in Ask}
Reply == {Answer(k) : k \in {"Ok", "Denied", "Error", "Status", "Token", "Devices", "Reload",
                              "Apps", "DiscoverReport"}}

\* Every variable has its type.
TypeOK ==
    /\ daemon \in [Daemon -> {"unborn", "json", "up", "asked", "leaving", "gone"}]
    /\ json \in 0..MaxStarts /\ socket \in 0..MaxStarts
    /\ DOMAIN memory = Daemon
    /\ \A d \in Daemon : /\ memory[d].conf \in Config
                         /\ memory[d].limit \in {v.attempts : v \in Config}
                         /\ memory[d].started \in {v.net : v \in Config}
    /\ file \in Config \cup {Broken}
    /\ client \in [Command ->
         [at : {"idle", "loading", "connecting", "hello", "asking", "done", "failed"},
          ask : Ask \cup {"none"}, token : 0..MaxStarts, peer : 0..MaxStarts,
          out : Seq(Body), got : {r.kind : r \in Reply} \cup {"none"}]]
    /\ server \in [Command ->
         [at : {"none", "hello", "denied", "reading", "handling", "loaded", "compared",
                "replaced", "applied", "closed"},
          ask : Ask \cup {"none", "Hello"}, new : Config \cup {Broken}, required : BOOLEAN,
          out : Seq(Reply), times : Nat]]
    /\ up \in [Command -> Seq(Body \cup {EOL})] /\ down \in [Command -> Seq(Reply \cup {EOL})]
    /\ announced \subseteq Daemon /\ edits \in 0..MaxEdits

\* What a daemon handles for a command is what the command asks, once, and only
\* if it is the daemon whose daemon.json the command has read; a command that
\* got an answer was served, and knows what to make of it.  (A reload that was
\* refused is reported as unexpected.)
AnswersAreOwn ==
    \A c \in Command :
        /\ server[c].times <= 1
        /\ server[c].times > 0 => /\ server[c].ask = client[c].ask
                                  /\ client[c].token = client[c].peer
        /\ client[c].got # "none" => /\ server[c].times = 1
                                     /\ \/ client[c].at = "done"
                                        \/ client[c].ask = "Reload" /\ client[c].got = "Error"

Running(d) == daemon[d] \in {"json", "up", "asked", "leaving"}
Reloading(d, at) == {c \in Command : client[c].peer = d /\ server[c].at \in at}

\* Between reloads the pairing limit is the one of the configuration in memory,
\* in whatever order overlapping reloads replaced it (daemon.rs:155).
AttemptsFollowConfig ==
    \A d \in Daemon :
        Running(d) /\ Reloading(d, {"replaced"}) = {}
            => memory[d].limit = memory[d].conf.attempts

\* If the endpoint runs with other network settings than the configuration in
\* memory says, some reload has said so or is about to (daemon.rs:140).
RestartIsAnnounced ==
    \A d \in Daemon :
        Running(d) /\ memory[d].conf.net # memory[d].started
            => \/ d \in announced
               \/ \E c \in Reloading(d, {"replaced", "applied"}) : server[c].required

\* A command that has begun ends: neither end waits for a line that the other
\* does not write, or that was lost with a reader.
CommandsEnd == \A c \in Command : client[c].at = "loading" ~> Ended(c)
=============================================================================
