----------------------------- MODULE Discovery -----------------------------
(***************************************************************************)
(* src/discovery/mod.rs with the requests of src/daemon.rs and src/http.rs *)
(* that drive it: the engine scans the listening sockets of the machine,   *)
(* probes those that are new or whose verification is too old, and builds  *)
(* the catalog of apps that clients may reach; reloads change its filter   *)
(* and the manual apps at any moment, and clients ask for a scan and wait. *)
(*                                                                         *)
(* Several sockets may stand for one origin (0.0.0.0:P, [::]:P and         *)
(* 127.0.0.1:P do, Origin::local_host): the first that the filter lets     *)
(* through makes the origin a candidate, every other one is reported as    *)
(* skipped, and a probe reaches any of them.  A socket is closed, answers  *)
(* like a web app, or does not (is_credible, looks_like_error_page and     *)
(* probe_http decide which; Unreachable and NotCredible are treated alike  *)
(* by a scan).  The generation of the catalog is compared for equality     *)
(* only: what a waiter needs of it is whether it moved since it was loaded.*)
(***************************************************************************)
EXTENDS Naturals, FiniteSets

CONSTANTS
    Socket,     \* what may listen: an address and a port
    Origin,     \* what may be probed and shown
    At,         \* the origin that each socket stands for
    Listening,  \* which sockets may be open when the daemon starts: a bound
    Settings,   \* the configurations a reload may bring
    Client,     \* discover requests, over IPC or HTTP, at the same time
    Reloader,   \* reload requests at the same time
    MaxReloads, \* bound on reloads
    MaxChanges  \* bound on the sockets' changes

SettingsType == [enabled : BOOLEAN, excluded : SUBSET Socket, apps : SUBSET Origin]

ASSUME SocketAssumption == At \in [Socket -> Origin]
ASSUME ListeningAssumption == Listening \subseteq SUBSET Socket
ASSUME SettingsAssumption == Settings # {} /\ Settings \subseteq SettingsType
ASSUME BoundAssumption == MaxReloads \in Nat /\ MaxChanges \in Nat

VARIABLES
    sockets,    \* what listens at each of them: outside of the daemon
    config,     \* the settings in memory
    reloading,  \* reloads that have replaced config and not notified yet
    trigger,    \* the Notify that wakes the engine
    engine,     \* DiscoveryEngine::scan_once
    cache,      \* DiscoveryEngine.cache: when an origin was verified
    lastScan,   \* what the last scan did not let through, and what its probes refused
    catalog,    \* the apps that can be reached
    client,     \* the requests that wait for a scan
    reloads,    \* history: reloads so far
    changes     \* history: changes of the sockets so far

world == <<sockets, changes>>
settings == <<config, reloading, reloads>>
scan == <<engine, cache, lastScan, catalog>>
vars == <<world, settings, trigger, scan, client>>

Idle == [at |-> "poll", excluded |-> {}, listening |-> {}, skipped |-> {}, candidates |-> {},
         probing |-> {}, unusable |-> {}, apps |-> {}, failed |-> FALSE, since |-> {}]

QuietClient == [at |-> "idle", moved |-> FALSE, scanned |-> FALSE, timely |-> TRUE]

----------------------------------------------------------------------------
(* Outside                                                                 *)

\* A program starts, ends, or is replaced by another on the same port.
ChangeSocket(s, kind) ==
    /\ changes < MaxChanges
    /\ kind # sockets[s]
    /\ sockets' = [sockets EXCEPT ![s] = kind]
    /\ changes' = changes + 1
    /\ UNCHANGED <<settings, trigger, scan, client>>

\* recheck_secs have gone by.
Expire(o) ==
    /\ cache[o] = "fresh"
    /\ cache' = [cache EXCEPT ![o] = "expired"]
    /\ UNCHANGED <<world, settings, trigger, engine, lastScan, catalog, client>>

----------------------------------------------------------------------------
(* discovery_trigger: tokio::sync::Notify, the engine the only waiter      *)

\* Variant: notify_waiters, which leaves no permit to an engine that scans.
NotifiedIfAsleep(t) == IF engine.at = "asleep" THEN [t EXCEPT !.woken = TRUE] ELSE t

Notified(t) ==
    IF engine.at = "asleep" /\ ~t.woken
    THEN [t EXCEPT !.woken = TRUE]
    ELSE [t EXCEPT !.permit = TRUE]

----------------------------------------------------------------------------
(* Request::Reload                                                         *)

ReplaceConfig(r, new) ==
    /\ reloads < MaxReloads
    /\ r \notin reloading
    /\ config' = new
    /\ reloading' = reloading \cup {r}
    /\ reloads' = reloads + 1
    /\ UNCHANGED <<world, trigger, scan, client>>

NotifyEngine(r) ==
    /\ r \in reloading
    /\ reloading' = reloading \ {r}
    /\ trigger' = Notified(trigger)
    /\ UNCHANGED <<world, config, reloads, scan, client>>

----------------------------------------------------------------------------
(* DiscoveryEngine::run                                                    *)

\* The first poll of the select!.
Sleep ==
    /\ engine.at = "poll"
    /\ IF trigger.permit
       THEN /\ trigger' = [trigger EXCEPT !.permit = FALSE]
            /\ engine' = [engine EXCEPT !.at = "start"]
       ELSE /\ engine' = [engine EXCEPT !.at = "asleep"]
            /\ UNCHANGED trigger
    /\ UNCHANGED <<world, settings, cache, lastScan, catalog, client>>

WakeByTrigger ==
    /\ engine.at = "asleep"
    /\ trigger.woken
    /\ trigger' = [trigger EXCEPT !.woken = FALSE]
    /\ engine' = [engine EXCEPT !.at = "start"]
    /\ UNCHANGED <<world, settings, cache, lastScan, catalog, client>>

\* A notification that the dropped branch had got is passed on.
WakeByTimer ==
    /\ engine.at = "asleep"
    /\ trigger' = [permit |-> trigger.permit \/ trigger.woken, woken |-> FALSE]
    /\ engine' = [engine EXCEPT !.at = "start"]
    /\ UNCHANGED <<world, settings, cache, lastScan, catalog, client>>

----------------------------------------------------------------------------
(* DiscoveryEngine::scan_once                                              *)

\* The scan's own copy of the filter; nothing to scan if not enabled.
BeginScan ==
    /\ engine.at = "start"
    /\ engine' = [Idle EXCEPT !.at = IF config.enabled THEN "enumerate" ELSE "rebuild",
                              !.excluded = config.excluded,
                              !.since = {c \in Client : client[c].at = "wait"}]
    /\ cache' = IF config.enabled THEN cache ELSE [o \in Origin |-> "none"]
    /\ UNCHANGED <<world, settings, trigger, lastScan, catalog, client>>

Open == {s \in Socket : sockets[s] # "closed"}
Passing == Open \ engine.excluded
Passed == {At[s] : s \in Passing}

\* The sockets that come first for their origin, for any order in which the
\* system may list them.
Firsts ==
    {firsts \in SUBSET Passing :
       \A s \in Passing : \E first \in firsts : {t \in firsts : At[t] = At[s]} = {first}}

\* filter_listeners_detailed: these origins are to be probed; all other
\* sockets, duplicates among them, are reported as skipped.
Enumerated(probing) ==
    /\ engine.at = "enumerate"
    /\ \E firsts \in Firsts :
          engine' = [engine EXCEPT !.at = "probe",
                                   !.listening = Open,
                                   !.skipped = Open \ firsts,
                                   !.candidates = Passed,
                                   !.probing = probing]
    /\ UNCHANGED <<world, settings, trigger, lastScan, catalog, client>>

\* cache.retain
Retain(candidates) ==
    cache' = [o \in Origin |-> IF o \in candidates THEN cache[o] ELSE "none"]

\* Variant: entries whose socket is gone, or is excluded now, stay cached.
EnumerateKeeping ==
    /\ Enumerated({o \in Passed : cache[o] # "fresh"})
    /\ UNCHANGED cache

\* Variant: what was verified once is never probed again.
EnumerateOnce ==
    /\ Enumerated({o \in Passed : cache[o] = "none"})
    /\ Retain(Passed)

\* Variant: the sockets that the filter took out are probed too.
EnumerateUnfiltered ==
    /\ Enumerated({o \in {At[s] : s \in Open} : cache[o] # "fresh"})
    /\ Retain(Passed)

\* listener::enumerate, cache.retain, and the choice of what to probe.
Enumerate ==
    /\ Enumerated({o \in Passed : cache[o] # "fresh"})
    /\ Retain(Passed)

\* The scan ends here: no catalog, no generation.
EnumerateFails ==
    /\ engine.at = "enumerate"
    /\ engine' = [Idle EXCEPT !.failed = TRUE]
    /\ UNCHANGED <<world, settings, trigger, cache, lastScan, catalog, client>>

\* What may answer a connection to an origin: any of its sockets, also one
\* that the filter did not let through.
AnswersAt(o) == {sockets[s] : s \in {t \in Open : At[t] = o}}

\* probe_http answers, in any order, and the answer is credible or not.
Probe(o) ==
    /\ engine.at = "probe"
    /\ o \in engine.probing
    /\ \/ /\ "web" \in AnswersAt(o)
          /\ cache' = [cache EXCEPT ![o] = "fresh"]
          /\ engine' = [engine EXCEPT !.probing = @ \ {o}]
       \/ /\ AnswersAt(o) # {"web"}
          /\ cache' = [cache EXCEPT ![o] = "none"]
          /\ engine' = [engine EXCEPT !.probing = @ \ {o}, !.unusable = @ \cup {o}]
    /\ UNCHANGED <<world, settings, trigger, lastScan, catalog, client>>

WriteLastScan ==
    /\ engine.at = "probe"
    /\ engine.probing = {}
    /\ lastScan' = [skipped |-> engine.skipped, unusable |-> engine.unusable]
    /\ engine' = [engine EXCEPT !.at = "rebuild"]
    /\ UNCHANGED <<world, settings, trigger, cache, catalog, client>>

\* rebuild_catalog: the manual apps as they are configured now, then the
\* cached ones; the generation last.
ReadApps ==
    /\ engine.at = "rebuild"
    /\ engine' = [engine EXCEPT !.at = "write", !.apps = config.apps]
    /\ UNCHANGED <<world, settings, trigger, cache, lastScan, catalog, client>>

WriteCatalog ==
    /\ engine.at = "write"
    /\ catalog' = [manual |-> engine.apps, found |-> {o \in Origin : cache[o] # "none"}]
    /\ engine' = [engine EXCEPT !.at = "count"]
    /\ UNCHANGED <<world, settings, trigger, cache, lastScan, client>>

BumpGeneration ==
    /\ engine.at = "count"
    /\ engine' = Idle
    /\ client' = [c \in Client |->
                    IF client[c].at \in {"notify", "wait"}
                    THEN [client[c] EXCEPT !.moved = TRUE, !.scanned = @ \/ c \in engine.since]
                    ELSE client[c]]
    /\ UNCHANGED <<world, settings, trigger, cache, lastScan, catalog>>

----------------------------------------------------------------------------
(* Request::DiscoverNow, Request::DiscoverReport, /_hub/discover           *)

LoadGeneration(c) ==
    /\ client[c].at = "idle"
    /\ client' = [client EXCEPT ![c] = [QuietClient EXCEPT !.at = "notify"]]
    /\ UNCHANGED <<world, settings, trigger, scan>>

AskForScan(c) ==
    /\ client[c].at = "notify"
    /\ trigger' = Notified(trigger)
    /\ client' = [client EXCEPT ![c].at = "wait"]
    /\ UNCHANGED <<world, settings, scan>>

\* The generation moved, or the wait timed out; the catalog is read.
Answer(c) ==
    /\ client[c].at = "wait"
    /\ client' = [client EXCEPT ![c] = [@ EXCEPT !.at = "answered", !.timely = client[c].moved]]
    /\ UNCHANGED <<world, settings, trigger, scan>>

\* The next request takes the place of an answered one.
Forget(c) ==
    /\ client[c].at = "answered"
    /\ client' = [client EXCEPT ![c] = QuietClient]
    /\ UNCHANGED <<world, settings, trigger, scan>>

----------------------------------------------------------------------------
\* run() builds the catalog of the manual apps; the engine scans at once.
Init ==
    /\ \E open \in Listening :
          sockets = [s \in Socket |-> IF s \in open THEN "web" ELSE "closed"]
    /\ config \in Settings
    /\ reloading = {}
    /\ trigger = [permit |-> FALSE, woken |-> FALSE]
    /\ engine = [Idle EXCEPT !.at = "start"]
    /\ cache = [o \in Origin |-> "none"]
    /\ lastScan = [skipped |-> {}, unusable |-> {}]
    /\ catalog = [manual |-> config.apps, found |-> {}]
    /\ client = [c \in Client |-> QuietClient]
    /\ reloads = 0
    /\ changes = 0

\* What the engine does once it is awake.
Scans ==
    \/ BeginScan \/ Enumerate \/ EnumerateFails
    \/ \E o \in Origin : Probe(o)
    \/ WriteLastScan \/ ReadApps \/ WriteCatalog \/ BumpGeneration

Next ==
    \/ \E s \in Socket : \E kind \in {"closed", "web", "other"} : ChangeSocket(s, kind)
    \/ \E o \in Origin : Expire(o)
    \/ \E r \in Reloader : NotifyEngine(r) \/ \E new \in Settings : ReplaceConfig(r, new)
    \/ Sleep \/ WakeByTrigger \/ WakeByTimer
    \/ Scans
    \/ \E c \in Client : LoadGeneration(c) \/ AskForScan(c) \/ Answer(c) \/ Forget(c)

Spec == Init /\ [][Next]_vars

\* The timer fires, probes time out at the latest, verifications grow old,
\* a reload that began ends; enumerating the sockets does not always fail.
Fairness ==
    /\ WF_vars(Sleep) /\ WF_vars(WakeByTimer)
    /\ WF_vars(Scans) /\ SF_vars(Enumerate)
    /\ \A o \in Origin : WF_vars(Expire(o))
    /\ \A r \in Reloader : WF_vars(NotifyEngine(r))

FairSpec == Spec /\ Fairness

----------------------------------------------------------------------------
(* Properties                                                              *)

EngineState ==
    [at : {"poll", "asleep", "start", "enumerate", "probe", "rebuild", "write", "count"},
     excluded : SUBSET Socket, listening : SUBSET Socket, skipped : SUBSET Socket,
     candidates : SUBSET Origin, probing : SUBSET Origin, unusable : SUBSET Origin,
     apps : SUBSET Origin,
     failed : BOOLEAN, since : SUBSET Client]

ClientState ==
    [at : {"idle", "notify", "wait", "answered"},
     moved : BOOLEAN, scanned : BOOLEAN, timely : BOOLEAN]

\* Types; what is probed is a candidate; only a sleeping engine is woken.
TypeOK ==
    /\ sockets \in [Socket -> {"closed", "web", "other"}]
    /\ config \in Settings
    /\ reloading \subseteq Reloader
    /\ trigger \in [permit : BOOLEAN, woken : BOOLEAN]
    /\ trigger.woken => engine.at = "asleep"
    /\ engine \in EngineState
    /\ engine.probing \subseteq engine.candidates
    /\ cache \in [Origin -> {"none", "fresh", "expired"}]
    /\ lastScan \in [skipped : SUBSET Socket, unusable : SUBSET Origin]
    /\ catalog \in [manual : SUBSET Origin, found : SUBSET Origin]
    /\ client \in [Client -> ClientState]
    /\ reloads \in 0 .. MaxReloads
    /\ changes \in 0 .. MaxChanges

\* Nothing is on its way to the engine.
Quiescent == engine.at = "asleep" /\ ~trigger.woken /\ reloading = {}

\* A reload is not lost, whatever the engine is doing when it comes: once
\* the engine sleeps again, the catalog has the manual apps now configured
\* and no origin whose sockets the filter now excludes (src/daemon.rs:
\* "Rebuild catalog + rescan so manual/discovery changes apply").
ReloadsReachCatalog ==
    Quiescent /\ ~engine.failed =>
       /\ catalog.manual = config.apps
       /\ catalog.found \subseteq {At[s] : s \in Socket \ config.excluded}
       /\ ~config.enabled => catalog.found = {}

\* A scan publishes only what it enumerated itself and let through its
\* filter: not an app of an earlier scan whose socket is gone.
OnlyCandidatesExposed ==
    [][catalog' # catalog => catalog'.found \subseteq engine.candidates]_vars

\* The catalog and what `raemote discover --verbose` says was skipped fit
\* together.  Between two scans no app is shown whose probe is reported to
\* have failed, nor one all of whose sockets are reported as skipped; and
\* nothing that a scan saw is missing from both.  (An app may be shown while
\* another socket of its origin is reported: a duplicate, or one that the
\* filter excludes.)
ReportMatchesCatalog ==
    /\ engine.at \notin {"rebuild", "write"} =>
          /\ catalog.found \cap lastScan.unusable = {}
          /\ catalog.found \subseteq {At[s] : s \in Socket \ lastScan.skipped}
    /\ engine.at = "count" =>
          \A s \in engine.listening \ lastScan.skipped :
             At[s] \in catalog.found \cup lastScan.unusable

\* A request that waits for the generation to move does not have to wait for
\* the timer: the scan it asked for is running or about to run.
WaitersAreServed ==
    \A c \in Client :
       client[c].at = "wait" /\ ~client[c].moved /\ engine.at = "asleep" =>
          trigger.woken \/ engine.failed

\* What is shown is of one scan: the apps published are candidates of that
\* scan, and what it reports of the rest fits them.
CatalogIsOfItsScan ==
    [][/\ catalog' # catalog => catalog'.found \subseteq engine.candidates
       /\ ReportMatchesCatalog']_vars

\* No reload and no request is lost in the Notify they share, whatever the
\* engine is doing when they come.
NothingIsForgotten == ReloadsReachCatalog /\ WaitersAreServed

\* An app is shown if a socket of its origin passes the filter and the origin
\* answers like one.  When its sockets do not all answer alike, it may be.
CatalogIsRight ==
    /\ catalog.manual = config.apps
    /\ ~config.enabled => catalog.found = {}
    /\ config.enabled =>
          \A o \in Origin :
             LET passes == \E s \in Open \ config.excluded : At[s] = o IN
             /\ o \in catalog.found => passes /\ "web" \in AnswersAt(o)
             /\ passes /\ AnswersAt(o) = {"web"} => o \in catalog.found

\* Once sockets and settings stay as they are, the catalog gets right and
\* stays right: an app is found, and one that is gone is dropped, even if its
\* port is used again within the recheck time.
Converges == <>[]CatalogIsRight

\* src/http.rs: discover triggers "an immediate discovery scan" and waits
\* "for it to finish": the scan that it waits for begins after the request.
ScanSinceRequest ==
    \A c \in Client : client[c].at = "answered" /\ client[c].timely => client[c].scanned
=============================================================================
