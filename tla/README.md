# Verification of raemote_server

TLA+ models of `raemoted` and `raemote`, the configurations that model-check
them, and proofs about them. Every definition is translated from the Rust
source; `PROJECT.json` maps each to its lines. Where code and documentation
disagree, the model follows the code; section 3 lists where.

## 1. The system

`raemoted` runs on a machine with web apps. It listens on two iroh protocols:
one to *pair* devices (a secret from a link or an invitation is exchanged for
authorization), one to *serve* HTTP over the streams of paired devices to the
apps in a catalog. A discovery engine fills the catalog from the listening
sockets. `raemote` talks to the daemon over a Unix socket with a token from
`daemon.json`, and edits `config.toml`.

| Part (source) | State | Operations | What is hard |
|---|---|---|---|
| AuthState (`auth.rs`) | pairing token, invitations with deadlines, wrong guesses, authorized devices, names; two store files | authenticate, mints, revoke, set_device_name, set_max_attempts, load, two saves | the saves happen after the lock is dropped, through one temporary name per file; crashes between truncate, write and rename |
| BindHandler (`bind.rs`) | 50 permits, two timeouts | accept | clients that stay mute or never read; a reply lost after the decision was made |
| ServeHandler (`http.rs`) | limiter cache and its generation, permits, open streams | accept, get_or_create_limiter, serve_stream, upgrades | revocation and reload under open connections; a check-then-act on generations without a lock |
| Routes and proxy (`http.rs`) | a stream, a connection to the app, the task of a tunnel | handle, rename_self, proxy, proxy_upgrade; discover and invite | heads that arrive in parts, bytes read beyond a head, ends of one side that must reach the other; discover waits for a scan it does not own |
| Life cycle (`daemon.rs`, `lock.rs`, `ipc/unix.rs`, `bin/`) | lock file, `daemon.json`, socket, one shutdown Notify for two tasks | start, stop, restart, shutdown, clean-up by path | which task gets the notification; who owns which file when daemons start and stop together |
| Requests over IPC (`daemon.rs`, `ipc/`) | a connection and a handler task for each command | Hello, Reload, Discover, Revoke, mints, Shutdown, readers | daemons that stop, crash and are replaced between two lines; overlapping reloads; a reader made anew for each line |
| Discovery engine (`discovery/mod.rs`) | cache of verified origins, last scan's report, catalog, generation, trigger Notify | scan_once, the select! loop, discover requests | a scan reads the configuration twice, some seconds apart, while reloads and sockets change |
| Socket filter and catalog (`discovery/listener.rs`, `catalog.rs`) | none of their own: the sockets as listed, the cache, the manual apps | filter_listeners_detailed, rebuild, unique_name | sockets come from a HashSet and apps from a HashMap, in any order; names must be unique and stay |
| HTTP probe (`discovery/probe.rs`) | what one probe has read and its deadlines | probe_http, request, parse_response, is_credible | servers that stay mute, trickle, redirect for ever; reads that cut the response anywhere |
| Configuration (`config.rs`, `bin/raemote.rs`) | `config.toml`, the copy in memory | load, save, validate, reload; `config set/edit`, `apps ...` | read-modify-write by several commands through one temporary name |
| Identity (`identity.rs`) | the secret key file | load or create | written in place, once |
| Proxy resolution, logs, QR codes, service files, example client, scripts | none | | pure functions or plain I/O |

How they meet: BindHandler and the IPC requests call AuthState; ServeHandler
asks AuthState whether a device is authorized; `Reload` replaces the shared
configuration, bumps the generation that ServeHandler compares and triggers the
engine; the engine writes the catalog that ServeHandler reads, and waits for
the same shutdown Notify as `run`; the commands and the daemon share the lock,
the socket, `daemon.json` and `config.toml`.

## 2. Modules

| Module | What it models | Actors |
|---|---|---|
| `DeviceTrust` | what pairing promises, without locks, counters or files | - |
| `AuthState` | `auth.rs`; implements `DeviceTrust` | `Task`: calls in progress, which save after the lock |
| `BindHandler` | one pairing exchange, with its permit and timeouts | `Conn` and a clock |
| `ServeHandler` | connections, streams, limiters, revocations, reloads | `Conn`, `Stream`, `Reloader` |
| `DaemonLifecycle` | lock, run, shutdown, clean-up, the start and stop commands | `Daemon` (with three tasks each), `Command` |
| `Discovery` | the engine, its trigger, reloads, discover requests | the engine, `Reloader`, `Client` |
| `CatalogNames` | the filter's loop and the rebuild of the catalog with its names | one engine, any order of its inputs |
| `HttpProxy` | the requests of one stream, and the tunnel it may become | a device, the service, an app, a clock |
| `IpcSession` | a command from `daemon.json` to its answer, and Reload | `Command`, the handlers of `Daemon` |
| `Probe` | one probe after another, against a server that does what it likes | the prober, the server, a clock |
| `ConfigFile` | commands that edit the file, reloads, restarts | `Command`, `Reload` |
| `AuthStateProofs`, `ServeHandlerProofs`, `DaemonLifecycleProofs`, `BindHandlerProofs`, `IpcSessionProofs`, `HttpProxyProofs`, `DiscoveryProofs` (with Probe), `ConfigNamesProofs` (ConfigFile with CatalogNames) | theorems | - |
| `MC...` | the sets, symmetries and bounds TLC needs | - |

The granularity is the same everywhere: what happens under one mutex guard is
one step; an `await`, a system call on a shared file, or an atomic load outside
a lock begins a new one. A constant for a count that the code does not bound
(`MaxReloads`, `MaxChanges`, `MaxService`, `MaxCrashes`, `MaxHandEdits`,
`MaxStarts`) bounds the environment only, never the program. Each module has a
type invariant; definitions commented with "Variant:" are plausible mistakes
that the mutants of `PROJECT.json` put in place of the real definition, and no
specification uses them.

**AuthState.** `pending` is the pairing token with "its deadline is ahead";
`invitations`/`lapsed` the invitations and those past their deadline, which stay
in memory until an operation purges them, as in the code. The outcomes of
`authenticate` are five actions, in the order of its branches. `StartSaving` is
the copy taken under the lock; `OpenTmp`, `WriteTmp`, `RenameTmp` and
`SaveFails` are `fs::write` and `fs::rename` of the same temporary file, with
file descriptors that follow a rename (a write may land in the store file
itself) and writes at offset zero over longer contents. `Restart` is a crash at
any point and `load_at`. `ever`, `redeemed`, `gone`, `dirty`, `issued` are
history.

**BindHandler.** `accept` from the permit to the close, with `BIND_TIMEOUT`
around the exchange, `FINISH_GRACE` inside it, and a client that may do nothing
at any point. `accepted`, `lost` and `retrying` are history: exchanges that
decided OK, the devices of those that ended with the reply unread, and the
connections these opened afterwards, until a revocation. `AcceptedNotDenied`
is about the last. The clock counts ticks of five seconds, so that the deadlines are
two ticks and one, as in the code.

**ServeHandler.** `LoadGeneration`, `CompareGeneration`, `ClearCache` and
`TakeLimiter` are the four steps of `get_or_create_limiter`. A limiter is an
index into `made`, since connections keep sharing one that left the cache. A
stream is opened by the client, looked up and spawned by `accept`, takes a
permit, waits for a rate token, serves any number of requests, and may become a
tunnel. `late` and `asked` are history: opened while revoked; a request that
began while authorized.

**HttpProxy.** `service` is where `serve_stream` is in the request at hand, and
after a 101 the task that `proxy_upgrade` spawned; `up`/`down` are the stream,
`out`/`back` the connection to the app, each a queue of pieces (a request, a
status, a part of a head, a frame, an end). `ReachApp`, `RelayHead`,
`RelayBody`, `CannotReach`, `TimeOut` are `proxy`; `ConnectUpgrade`,
`AskUpgrade`, `ReadMore` with the four ways a head may end are `proxy_upgrade`;
`Handover`, `PassLeftover`, `CopyUp`, `CopyDown`, `EndTunnel` its task. A read
takes any number of the pieces that have arrived, so it may take frames with the
head. The device and the app are external: they finish, leave, stay mute or
answer anything at any moment. hyper is taken as a server that keeps requests
apart, does not read ahead of an upgrade's answer, and with `half_close(true)`
does not notice a device that leaves while a request is handled.

**IpcSession.** `client` and `server` are the two ends of one connection for
each command, `up` and `down` what is on the way, with the newline as a piece of
its own, since a line is written by two calls. `LoadToken`, `Connect`, `Greet`,
`Send`, `Receive` are the client's steps, each of which fails when the other end
is gone. A number is a daemon and its token. `Reload` is five steps
(`ReloadFile`, `CompareNetwork`, `ReplaceConfig`, `SetMaxAttempts`, the answer),
as the code takes a lock for each of the middle three. A daemon that has left
`run` lets its handlers finish until `Exit`; a crash ends them at once.

**DaemonLifecycle.** `main`, `ipc` and `engine` are the program counters of
`run`, of the IPC server's task and of the engine's task in each process;
`notify` is a tokio `Notify` with its permit, its queue and the notifications
handed out, which a dropped future passes on. Commands read `daemon.json`,
connect, ask; `is_held` takes the lock and lets it go. Files are by path: a
process removes whatever is there. An IPC handler that saves a file is in
`saving`; the runtime waits for it after the lock is dropped.

**Discovery.** The engine's record has the scan's own copies (filter,
candidates, what it still probes, manual apps). `Probe` ends probes in any
order, `WriteLastScan`, `WriteCatalog`, `BumpGeneration` are three writes that
readers see apart. `Expire` is `recheck_secs` gone by. What listens are sockets,
and `At` is the origin of each, since 0.0.0.0:P, [::]:P and 127.0.0.1:P are one
app: the first that the filter lets through makes the origin a candidate, every
other is reported as skipped, and a probe reaches any of them, an excluded one
too. So an app may be in the catalog and one of its sockets in the report; what
`ReportMatchesCatalog` says is that some socket of each app is not reported, that
no app is shown whose probe is reported to have failed, and that no socket the
scan saw is missing from both.

**CatalogNames.** A name is the sequence of its words, since `slugify` makes
words joined by single dashes: "app-2" is `<<app, 2>>`, and `unique_name` appends
the port and then a counter as words. `Filter` is one turn of the filter's loop,
for any socket that is left, with every rule in its order; `Verify` is what a
scan does to the cache; `NameNext` names one app, the least by port and host
among those left. `shown` is history: the cache that the catalog was built
from. Discovery has when these things happen, CatalogNames what comes of them.

**Probe.** A response is a sequence of pieces (status, location, blank line,
title, meta tag, end of the head, anything else); a line that a read may cut is
two pieces. The server sends piece by piece and may stop or close after any;
`Read` takes some of what has arrived. `Request`, `Connect`, `Read`, `Parse` are
the loop of `probe_http` with `request` and `parse_response` in it, with both
deadlines that `request` sets. `Credible` is `is_credible`, and `app` whether the
engine would list the origin. In Discovery a probe is one step with either end.

**ConfigFile.** A version of the file is the set of commands whose edit it has,
whether `validate` accepts it, or torn. A command is checked (`config set`,
`apps add`) or not (`apps remove`, `hide`, `unhide`), or ends without saving
(`Refuse`); up to `RenameTmp` it is a read-modify-write with the same
file-descriptor rules as AuthState. `ReadFile` and `Apply` are the two halves of
`Reload`. Of the settings one is told apart, which the environment overrides:
`Loaded` is what `load` makes of the file, for a command and for the daemon each
with its own environment, and of a file that is not there. `OpenEditor`
and `CloseEditor` are `config edit`: the editor reads the file, commands may
change it meanwhile, and what it saves is its buffer, in one step (it writes the
file its own way), or nothing. `overlapped` and `behind` are history: whether a
command worked beside another or beside the editor, and why memory need not be
what the file says.

## 3. Runs

| Run | Constants | Shows |
|---|---|---|
| `auth_serial` | 2 devices, 1 task, 2 random tokens and a fixed one, limits 1 and 2, writes may fail | one call at a time: `ImplementsTrust` (refinement), `LinkClosesAtLimit`, `RevocationDurable` |
| `auth_concurrent` | 2 devices, 2 tasks, writes succeed | overlapping saves: `StoreIsSound`, `StoreMatchesMemory` |
| `auth_revoked_returns` (violation) | as above | `RevocationDurable` fails when two saves overlap |
| `bind` | 2 connections, 2 devices, 1 permit | `AcceptedNotDenied`, `ExchangesEnd` (liveness) |
| `serve` | 1 device, 2 connections, 2 streams, 2 overlapping reloads | `LimitsAreCurrent`, `DeviceCapped`, `LateStreamsRefused` |
| `http` | 2 requests of any kind, 2 frames each way, heads of up to 2 parts with a cap of 1, a timeout of 2 ticks | `TunnelIsWhole`, `StreamsEnd` (liveness) |
| `ipc` | 2 commands of different kinds, 2 daemons one after the other, 1 edit | `AnswersAreOwn`, `AttemptsFollowConfig`, `RestartIsAnnounced`, `CommandsEnd` (liveness) |
| `lifecycle` | 3 processes, 2 commands, 1 service start, 1 crash | `DaemonIsTheOne`, `ShutdownIsKept`, `StartsLeadToDaemon` (liveness) |
| `discovery` | 3 sockets at 2 origins, two sets of them open at first, 3 configurations, 1 request, 1 reload, 1 socket change | `NothingIsForgotten`, `CatalogIsOfItsScan`, `Converges` (liveness) |
| `catalog` | 3 ports, 2 sets of sockets, 4 filters, 3 lists of manual apps, 3 titles | `OrderDecidesOwnerOnly`, `NamesAndAppsMatch`, `NamesAreStable` |
| `probe` | 8 sites, budget of 2 ticks, 3 redirects, caps of 6 and 8 pieces, reads of up to 3 | `EndsInTime`, `AnswerIsWhole`, `ProbeEnds` (liveness) |
| `config` | 3 commands, 1 reload, 1 editor, 1 restart, a file or none at first, a variable set on both sides | `MemoryFollowsFile`, `EditsAreKept` |

Each run also checks its module's type invariant: `TypeOK` (AuthState's in
`auth_concurrent`), `CatalogTypeOK` and `ProbeTypeOK`.
Some of the properties are two that belong together: `StoreIsSound` is
`DiskOnlyPaired` with `NamedAreAuthorized`, `DaemonIsTheOne` `OneDaemon` with
`RunningIsReachable`, `NothingIsForgotten` `ReloadsReachCatalog` with
`WaitersAreServed`, `CatalogIsOfItsScan` `OnlyCandidatesExposed` with
`ReportMatchesCatalog`, `NamesAndAppsMatch` `NamesAreUnique` with `ListedOnce`,
`MemoryFollowsFile` `MemoryIsValid` with `ReloadedIsSaved`.

Why these bounds are enough to be interesting:

- AuthState: two tasks suffice for every overlap of two saves, and the defects
  of overlap are pairwise (one temporary name, one order of renames); two
  devices tell "one is revoked while the other pairs". The serial run has the
  failing writes, the expiries and the guesses instead, which together with two
  tasks is out of reach. `LinkStaysOpen` keeps the concurrent run to the store;
  `NoNames` keeps the serial run to one file.
- ServeHandler: two connections of a device and two reloads that overlap give
  every order of the four steps of the check against two bumps. The proofs have
  no such bounds.
- HttpProxy: two requests, so that one follows another on a stream that has
  had an answer; two frames each way, so that one comes with the head and one
  after it, and one may overtake; a cap of one part, so that heads reach and pass
  it; a timeout of two ticks, so that it may fire or not.
- IpcSession: two commands overlap in every step and may be two reloads; a
  second daemon can have replaced the first at any line.
- DaemonLifecycle: two commands and one service start may each start a process,
  so three processes; the third is what a start can lose the lock to after a
  stop. No symmetry is used, because the run checks liveness.
- Discovery: two origins distinguish an excluded from a found app; of the two
  sockets of one of them either may come first, be excluded alone, close or
  answer otherwise than its neighbour (`Listening` bounds which sockets are open
  at first, one of the two or all); one change
  and one reload may fall between any two steps of a scan, and the scan repeats
  for ever.
- CatalogNames: one origin has two sockets, a proxy beside an app, and two
  programs at one socket; a title may read like another app's title with the
  port added, and so may a manual name; the second set of sockets and the other
  filters make apps come and go between two catalogs.
- Probe: the sites are the cases the code tells apart (a page behind a redirect,
  redirect loops, a redirect elsewhere, names by title and by meta tag, a head
  longer than the cap, errors, no HTTP), with the code's own limit on redirects;
  a budget of two ticks lets each of two requests wait.
- ConfigFile: with three commands one may overlap the first and come after the
  second; `EditsAreKept` needs three. One editor may be open beside any of them,
  or between two.

Deadlock is checked except in `lifecycle`, `config`, `ipc` and `http`, where
everybody may have ended.

### Fairness

Nobody has to start, stop, revoke, reload, crash or open anything: these
actions have no fairness in any module.

- `DaemonLifecycle`: weak fairness on each process's own tasks (the tokio
  runtime polls what can go on), on the end of a save, and on each command that
  has begun. The engine's timer has none: whether a scan starts is not needed.
- `Discovery`: weak fairness on the engine, its timer (an interval), expiry and
  the second half of a reload that has begun (no `await` on anybody else).
  Strong fairness on `Enumerate`: a failing enumeration ends the scan, and one
  that succeeds now and then is what `Converges` needs; probes end because they
  have a timeout.
- `IpcSession`: weak fairness on each command that has begun, on the handler at
  the other end, and on the exit of a daemon that has left `run`. Whether a
  command begins, is interrupted or a daemon crashes is open.
- `HttpProxy`: weak fairness on the service (the runtime polls its task), on the
  clock, and on an app that is not mute, which answers or closes some time.
  The device has none.
- `BindHandler`: time passes and the timers fire. The client has no fairness:
  it may stay mute for ever, and `ExchangesEnd` holds because of the timeouts.
- `Probe`: the prober is polled and time passes. The server has no fairness.

### Disagreements between code and documentation

1. *A revoked device returns* (run `auth_revoked_returns`): a revocation and a
   pairing that overlap write the store in either order, the save of the
   revocation reports no error, and a restart authorizes the device again
   (`docs/testing.md:67`, the test at `auth.rs:711`).

More is stated in the modules, each property with the line of the source that
promises it, and the code breaks each of these too. TLC finds them broken; no
run of `PROJECT.json` is spent on them. Three have a configuration here:

- `ShutdownStops` (`LifecycleShutdown.cfg` with `MCDaemonLifecycle`): a shutdown is
  swallowed. `run` and the engine wait on one `Notify`, and `notify_one` may wake
  the engine; the daemon answers Ok and runs on (`ipc/mod.rs:58`).
- `RequestsRechecked` (`ServeRevoked.cfg` with `MCServeHandler`): the device is
  looked up once for each stream, and a keep-alive stream serves requests after
  its revocation (`docs/threat-model.md:68`, `http.rs:235`).
- `CappedSinceReload` (`ServeCap.cfg` with `MCServeHandler`): a connection that
  stalls between loading the generation and the lock puts an older generation
  back, since the check under the lock asks for a different one, not for an
  older one; the cache is cleared once more, and a device has two limiters with
  no reload in progress (`http.rs:171`, "Re-check under the lock to avoid
  races.").

The others are checked by naming them in the `.cfg` of their module's run:

- `HeadsAreTimed` (HttpProxy): the head of an upgrade is awaited without
  `PROXY_TIMEOUT`, which `http.rs:43` calls the "Max time to wait for the local
  origin to produce a response head".
- `RefusalsFail` (HttpProxy): the answer of an app that ignores an upgrade and
  says 200 reaches the device as a 200 with an error for a body.
- `GraceIsGiven` (BindHandler): a reply late in the exchange gets less than its
  grace.
- `StreamsCapped` (ServeHandler): an upgrade gives the permit back while the
  tunnel goes on, so a device may have more streams than its cap.
- `SavesAreLocked` (DaemonLifecycle): a process saves after it dropped the lock.
- `ScanSinceRequest` (Discovery): a discover request is answered from a scan
  that began before it, since any change of the generation ends the wait.
- `SavesAreAtomic`, `ReloadsAreOrdered` (ConfigFile): overlapping saves tear the
  file; of two reloads the older content may win.
- `EnvironmentWins` (ConfigFile): `config.rs:3` says that environment variables
  take precedence, and a daemon that starts with no `config.toml` does not look
  at them.
- `OverridesStayOut` (ConfigFile): a command that edits one setting also saves
  the values that its own environment gives to others.
- `WithinBudget` (Probe): a probe may take twice its budget.
- `NameIsOfHead` (Probe): a title in the body, of a drawing, is taken for the
  page's name if one read brought it with the end of the head.
- `ErrorsAreDropped` (Probe): of a status line that is cut, a part of the number
  is taken for it.

Things that no line promises otherwise, met while modelling: `raemote reload`
reports a refused reload as an unexpected response (`cmd_reload` does not know
`Error`); `apps hide` of a manual app waits for a scan and says it is hidden; an
upgrade to a stopped app closes the stream with no response, where a plain
request gets a 502.

And a comment that holds in part: `listener.rs:340` sorts the candidates by port
"so names/catalog stay stable across scans". Origins and the order of names are
(`OrderDecidesOwnerOnly`, `NamesAreStable`), but of several programs with one
origin the order of a HashSet picks the owner, and the name of an app without a
title is its owner's.

## 4. Proofs

The proofs hold for every value of the constants that the modules' named
assumptions allow, so for any number of devices, tasks, connections, streams,
daemons, commands and reloads. TLC checked every inductive invariant or its
parts first on the instances above.

Every safety property of the passing runs is proved. The theorems of a module
and the invariants they rest on:

| Theorem | Property | Inductive invariant |
|---|---|---|
| `AuthStateProofs!TypeCorrect` | `TypeOK` | itself |
| `StoreStaysSound` (`DiskIsPaired`, `NamesAreAuthorized`), `InvitationsAreSpent` | `StoreIsSound`, `InvitationSpentOnce` | `IInv`: types; named devices are authorized; a token in use was issued and none is both outstanding and redeemed; every copy that a task is about to write names known devices |
| `Refinement` | `ImplementsTrust` | `IInv`: a token that is minted is new, and what was redeemed stays redeemed, is what lets every step map to a step of `DeviceTrust` or a stutter |
| `StoreIsMemory` | `StoreMatchesMemory` | `StoreInv`: the one clean save of a file holds in its copy, its temporary file or the store what memory holds; an overlap, a failure or a crash marks the file dirty |
| `RevocationsLast`, for one task | `RevocationDurable` | `RevokedInv`: the file of authorized devices, or the copy that the one task is saving, has no device whose revocation was saved, and what a restart loads is that file |
| `LinkIsGuarded` | `LinkClosesAtLimit` | an action property, from the types |
| `BindHandlerProofs!BindTyped` | `TypeOK` | `BindInv`: with it, an open link has guesses left. Without that a denial could count past the limit |
| `AcceptedStayAccepted` | `AcceptedNotDenied` | `RetryInv`, on `BindInv`: a device that lost an accepted reply, or whose exchange is accepted, is authorized; so the connections it opens after that are answered OK, or not at all |
| `ServeHandlerProofs!ServeTyped` | `TypeOK` | itself |
| `LimitsStayCurrent` | `LimitsAreCurrent` | `GenInv`: the generation trails the configuration, what is cached is at least as new as the generation the cache was last compared with, and each of the four steps of the check remembers enough of this for the step after it |
| `LateAreRefused` | `LateStreamsRefused` | `LateInv`: a late stream is still only opened, and its device is not authorized |
| `DevicesAreCapped` | `DeviceCapped` | `CapInv`: before a reload the cache is never cleared, so all connections of a device share the limiter in it, and the permits of a limiter bound the streams that hold one |
| `DaemonLifecycleProofs!DaemonIsAlone`, with the next `TheDaemonIsTheOne` | `OneDaemon`, with the next `DaemonIsTheOne` | `LockInv`: a command that probes holds the lock itself, and a process past `acquire` does |
| `TheRunningIsReachable` | `RunningIsReachable` | `PathInv`: at each place of `run` who may be behind `daemon.json` and the socket; needs that only the lock's owner creates or removes them |
| `ShutdownsAreKept` | `ShutdownIsKept` | `KeptInv`: a notification is a permit or a wake-up of a task that has not seen it; a dropped future that had one passes it on |
| `LifecycleTyped` | `TypeOK` | `TypeInv`: main and the engine are in the queue of their Notify only while they await it, and who was woken has left it, so nobody enters twice |
| `DiscoveryProofs!DiscoveryTyped` | `TypeOK` | itself |
| `ShownIsOfOneScan` (`ReportsMatch`, `CandidatesOnly`) | `CatalogIsOfItsScan` | `ScanInv`: from the enumeration to the catalog the cache holds candidates only; each candidate has a socket that passed and is not reported, and is cached, being probed or reported as failed (`ProbeInv`) |
| `ReloadsArrive`, with the next `NothingGetsForgotten` | `ReloadsReachCatalog`, with the next `NothingIsForgotten` | `FollowInv`: unless the engine will be told again, what the scan in progress has copied is what the settings say now |
| `WaitersGetServed` | `WaitersAreServed` | `WaitInv`: a waiting client's notification or the scan that it caused is still to come |
| `ConfigNamesProofs!CatalogTyped` | `CatalogTypeOK` | `Typed`: with it, names are counted against a finite set, and the cache changes only when all its apps are named |
| `OrderIsForgotten` | `OrderDecidesOwnerOnly` | `FilterInv`: what was kept and skipped so far, in whatever order |
| `NamesStayUnique`, with the next `NamesMatchApps` | `NamesAreUnique`, with the next `NamesAndAppsMatch` | itself, with `UniqueNameIsNew`: among one counter more than there are names one is free (pigeonhole), and the least such is found |
| `FoundAreListedOnce` | `ListedOnce` | `ListInv`: an app that was cached is yet to be named, shadowed or listed |
| `NamesStayStable` | `NamesAreStable` | `OrderInv`: each app has the name that `unique_name` makes of the manual names and the apps before it, and so far the naming agrees with the last catalog where what was found agrees |
| `DiscoveryProofs!ProbeTyped` | `ProbeTypeOK` | itself |
| `ProbesEndInTime` | `EndsInTime` | `TimeInv`: connecting ends within the budget, reading within another |
| `AnswersAreWhole` | `AnswerIsWhole` | `GivenInv`: what is given was parsed of reads that had enough; such reads contain the head, and the first title stays the first as more is read |
| `ConfigNamesProofs!ConfigTyped` | `TypeOK` | itself |
| `MemoryStaysValid`, with the last `MemoryFollows` | `MemoryIsValid`, with the last `MemoryFollowsFile` | `ValidInv`: so are the copies that handlers are about to apply |
| `SavedEditsStay` | `EditsAreKept` | `SavedInv`: with no overlap one command works at a time and none while an editor is open, whose buffer has all edits (`EditorInv`), and its copy, then its temporary file, then the file has the edits of all that are done |
| `ReloadedStaysSaved` | `ReloadedIsSaved` | `FreshInv`: memory and file differ, or the file is still open for writing, only while a command that replaced it waits for its answer |
| `IpcSessionProofs!SpecTyped` | `TypeOK` | `TalkInv` with the types: a wire holds one line at most, so a reader that takes one message leaves nothing behind |
| `SpecAnswersAreOwn` | `AnswersAreOwn` | `TalkInv`: at each place of a connection (`Connecting`, `Greeting`, `Asking`, `Answering`) which line is held, which is on its way and whether it has been handled |
| `SpecAttemptsFollowConfig`, `SpecRestartIsAnnounced` | `AttemptsFollowConfig`, `RestartIsAnnounced` | `MemoriesInv`: a reload that has compared and not yet replaced, and saw no difference, has read the started settings, or the daemon is warned about already; peers have been started |
| `HttpProxyProofs!SpecTyped` | `TypeOK` | `Inv`: what each wire may carry in which order (`HeadComes`, `HeadCame`, `Ending`, `Bodies`), and where a request is (`Plain`, `Upgraded`, `Handled`, `Waiting`) |
| `SpecTunnelIsWhole` | `TunnelIsWhole` | `Inv`, whose `Flows` says that each end has the first frames of the other and the next are on their way; `Whole` that as long as the tunnel is there the wires, with what was read and not passed on, hold all the rest; `Ended` that they do when it closed in both directions |

The assumptions are the named ones of the modules: sets that are not empty or
finite where the code counts them, positive limits and timeouts, bounds that are
naturals, manual apps with names of their own (`validate`), responses whose
headers stand above the blank line, commands that are no reloads, a daemon id
that is no command, settings that are settings. None says anything about the program's behaviour.

Each proof has one step for each action; what an action does to a record is a
lemma where more than one theorem needs it (`MovesGo`, `Begins`, `RenameMoves`,
`AnsweredTyped`, `ClosesTyped`, `EndsTyped`).

Two of the theorems are long because of what they are about. `TunnelIsWhole` is
about four queues: `Carries` (the frames of a wire are consecutive and in order)
has lemmas for what a step does to a queue, which is to append, to drop a
beginning, or to move one to another queue. `AnswersAreOwn` is about two queues
for each command; `OneConversation` reduces a step to the command whose
connection it touches, so that each action is a lemma about one conversation.

What stays with TLC: all liveness (`StartsLeadToDaemon`, `Converges`,
`ExchangesEnd`, `ProbeEnds`, `CommandsEnd`, `StreamsEnd`) is out of the prover's
reach, and so are the violations.

## 5. What is not modelled, and why

- The refill arithmetic of the rate limiter (a dependency); a wait for a token
  begins and ends at any time.
- Parsing of requests, header rewriting and URLs: data that no property here
  tells apart. Probe has where in a response a title or a meta tag stands, not
  how HTML is searched for it. HttpProxy leaves out the body of a plain request,
  frames a device sends before it has the 101, and backpressure (a write that
  waits for room), and interim answers (1xx other than 101).
- `slugify`, the denylists and the text of `/proc/net`: names are given as words,
  a filter as its sets, sockets as a set.
- In ConfigFile, values in the environment that `validate` refuses, a file that
  somebody deletes, a torn file that is opened in an editor, and whether an
  editor's own save may tear.
- In Discovery, sockets that the scan ignores without a report (other protocols,
  port 0, unattributed ones unless they are included).
- `identity.rs`: one write at the first start; its hazard is listed.
- Proxy resolution, logs, QR codes, service installation, the example client and
  the scripts: pure functions or plain I/O.
- A BindHandler permit count other than the one at start: the handler is built
  with a constant, and the code that would read it from the configuration is
  not wired up (`bind.rs:26`, `daemon.rs:309`).

## 6. Plan

Done, in this order: AuthState with DeviceTrust and its proofs; ServeHandler
with its proofs; DaemonLifecycle, Discovery, BindHandler and ConfigFile, and
the proofs of their safety properties; CatalogNames, Probe, IpcSession and
HttpProxy with theirs.

Next:

1. `restart` as a property of DaemonLifecycle (a restart that finds the lock
   still held ends with no daemon).
2. A composition of ServeHandler and AuthState over one `authorized`.
3. A composition of Discovery and CatalogNames: the catalog that a client reads
   by name while `WriteCatalog` replaces it.
4. Proofs of the safety properties of items 1 to 3.
