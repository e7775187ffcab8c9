-------------------------- MODULE DiscoveryProofs --------------------------
(* Theorems about Discovery, for any origins, settings, clients, reloads,  *)
(* and about Probe, for any sites, budgets, caps and numbers of redirects. *)
EXTENDS Discovery, Probe, WellFoundedInduction, TLAPS

Places == {"poll", "asleep", "start", "enumerate", "probe", "rebuild", "write", "count"}
Records == [permit : BOOLEAN, woken : BOOLEAN]

Cached == {o \in Origin : cache[o] # "none"}

\* The origins that stand for one of these sockets at least.
OriginsOf(some) == {At[s] : s \in some}

LEMMA IdleTyped ==
    ASSUME NEW place \in Places
    PROVE  /\ Idle \in EngineState /\ Idle.at = "poll" /\ ~Idle.failed /\ Idle.probing = {}
           /\ [Idle EXCEPT !.at = place] \in EngineState
           /\ [Idle EXCEPT !.at = place].probing = {}
           /\ [Idle EXCEPT !.at = place].at = place
    BY DEF Idle, EngineState, Places

LEMMA NotifiedTyped ==
    ASSUME NEW t \in Records, t.woken => engine.at = "asleep"
    PROVE  /\ Notified(t) \in Records
           /\ Notified(t).woken => engine.at = "asleep"
           /\ Notified(t).permit \/ Notified(t).woken
           /\ Notified(t).permit /\ engine.at = "asleep" => Notified(t).woken \/ t.permit
           /\ t.permit => Notified(t).permit
           /\ t.woken => Notified(t).woken
<1>1. CASE engine.at = "asleep" /\ ~t.woken
  <2>1. Notified(t) = [t EXCEPT !.woken = TRUE]
      BY <1>1 DEF Notified
  <2> QED BY <1>1, <2>1 DEF Records
<1>2. CASE ~(engine.at = "asleep" /\ ~t.woken)
  <2>1. Notified(t) = [t EXCEPT !.permit = TRUE]
      BY <1>2 DEF Notified
  <2> QED BY <1>2, <2>1 DEF Records
<1> QED BY <1>1, <1>2

----------------------------------------------------------------------------
(* Types                                                                   *)

\* The parts of TypeOK that go together.
SettingsOK == config \in Settings /\ reloading \subseteq Reloader /\ reloads \in 0 .. MaxReloads
WorldOK == sockets \in [Socket -> {"closed", "web", "other"}] /\ changes \in 0 .. MaxChanges
TriggerOK == trigger \in Records /\ (trigger.woken => engine.at = "asleep")
EngineOK == engine \in EngineState /\ engine.probing \subseteq engine.candidates
CacheOK == cache \in [Origin -> {"none", "fresh", "expired"}]
ReportOK == /\ lastScan \in [skipped : SUBSET Socket, unusable : SUBSET Origin]
            /\ catalog \in [manual : SUBSET Origin, found : SUBSET Origin]
ClientOK == client \in [Client -> ClientState]

LEMMA TypeParts ==
    TypeOK <=> /\ SettingsOK /\ WorldOK /\ TriggerOK /\ EngineOK
               /\ CacheOK /\ ReportOK /\ ClientOK
    BY DEF TypeOK, SettingsOK, WorldOK, TriggerOK, Records, EngineOK, CacheOK, ReportOK, ClientOK

LEMMA ConfigTyped ==
    ASSUME SettingsOK
    PROVE  config.enabled \in BOOLEAN /\ config.excluded \subseteq Socket /\ config.apps \subseteq Origin
    BY SettingsAssumption DEF SettingsOK, SettingsType

LEMMA InitTyped == Init => TypeOK
<1> SUFFICES ASSUME Init PROVE TypeOK
    OBVIOUS
<1>1. SettingsOK /\ WorldOK
  <2>1. PICK some \in Listening : sockets = [s \in Socket |-> IF s \in some THEN "web" ELSE "closed"]
      BY DEF Init
  <2> QED BY <2>1, BoundAssumption DEF Init, SettingsOK, WorldOK
<1>2. EngineOK /\ engine.at = "start"
    BY IdleTyped DEF Init, EngineOK, Places
<1>3. TriggerOK
    BY DEF Init, TriggerOK, Records
<1>4. ReportOK
    BY <1>1, ConfigTyped DEF Init, ReportOK
<1>5. CacheOK
    BY DEF Init, CacheOK
<1>6. ClientOK
    BY DEF Init, ClientOK, ClientState, QuietClient
<1> QED BY <1>1, <1>2, <1>3, <1>4, <1>5, <1>6, TypeParts

\* The engine moves to another place.
LEMMA EngineMoves ==
    ASSUME EngineOK, NEW place \in Places
    PROVE  /\ [engine EXCEPT !.at = place] \in EngineState
           /\ [engine EXCEPT !.at = place].at = place
           /\ [engine EXCEPT !.at = place].probing = engine.probing
           /\ [engine EXCEPT !.at = place].candidates = engine.candidates
           /\ [engine EXCEPT !.at = place].excluded = engine.excluded
           /\ [engine EXCEPT !.at = place].listening = engine.listening
           /\ [engine EXCEPT !.at = place].skipped = engine.skipped
           /\ [engine EXCEPT !.at = place].unusable = engine.unusable
           /\ [engine EXCEPT !.at = place].apps = engine.apps
           /\ [engine EXCEPT !.at = place].failed = engine.failed
    BY DEF EngineOK, EngineState, Places

\* A probe that was answered.
LEMMA ProbingTyped ==
    ASSUME TypeOK, NEW o \in Origin, Probe(o)
    PROVE  /\ EngineOK' /\ CacheOK' /\ engine'.at = "probe"
           /\ engine'.candidates = engine.candidates /\ engine'.excluded = engine.excluded
           /\ engine'.listening = engine.listening /\ engine'.skipped = engine.skipped
           /\ engine'.failed = engine.failed
           /\ engine'.probing = engine.probing \ {o}
           /\ Cached' \ {o} = Cached \ {o}
           /\ \/ engine'.unusable = engine.unusable /\ o \in Cached'
              \/ engine'.unusable = engine.unusable \cup {o} /\ o \notin Cached'
<1>0. EngineOK /\ CacheOK /\ engine.at = "probe"
    BY TypeParts DEF Probe
<1>1. CASE /\ engine' = [engine EXCEPT !.probing = @ \ {o}]
           /\ cache' = [cache EXCEPT ![o] = "fresh"]
  <2>1. engine' \in EngineState
      BY <1>0, <1>1 DEF EngineOK, EngineState
  <2>2. /\ engine'.at = "probe" /\ engine'.candidates = engine.candidates
        /\ engine'.probing = engine.probing \ {o} /\ engine'.skipped = engine.skipped
        /\ engine'.listening = engine.listening /\ engine'.unusable = engine.unusable
        /\ engine'.excluded = engine.excluded /\ engine'.failed = engine.failed
      BY <1>0, <1>1 DEF EngineOK, EngineState
  <2>3. CacheOK' /\ Cached' \ {o} = Cached \ {o} /\ o \in Cached'
      BY <1>0, <1>1 DEF CacheOK, Cached
  <2> QED BY <1>0, <2>1, <2>2, <2>3 DEF EngineOK
<1>2. CASE /\ engine' = [engine EXCEPT !.probing = @ \ {o}, !.unusable = @ \cup {o}]
           /\ cache' = [cache EXCEPT ![o] = "none"]
  <2>1. engine' \in EngineState
      BY <1>0, <1>2 DEF EngineOK, EngineState
  <2>2. /\ engine'.at = "probe" /\ engine'.candidates = engine.candidates
        /\ engine'.probing = engine.probing \ {o} /\ engine'.skipped = engine.skipped
        /\ engine'.listening = engine.listening /\ engine'.unusable = engine.unusable \cup {o}
        /\ engine'.excluded = engine.excluded /\ engine'.failed = engine.failed
      BY <1>0, <1>2 DEF EngineOK, EngineState
  <2>3. CacheOK' /\ Cached' \ {o} = Cached \ {o} /\ o \notin Cached'
      BY <1>0, <1>2 DEF CacheOK, Cached
  <2> QED BY <1>0, <2>1, <2>2, <2>3 DEF EngineOK
<1> QED BY <1>1, <1>2 DEF Probe

LEMMA BeginScanTyped ==
    ASSUME TypeOK, BeginScan
    PROVE  /\ EngineOK' /\ CacheOK'
           /\ engine'.at = IF config.enabled THEN "enumerate" ELSE "rebuild"
           /\ engine'.excluded = config.excluded /\ ~engine'.failed
           /\ engine'.listening = {} /\ engine'.unusable = {}
           /\ ~config.enabled => Cached' = {}
           /\ config.enabled => cache' = cache
<1> DEFINE place == IF config.enabled THEN "enumerate" ELSE "rebuild"
           since == {c \in Client : client[c].at = "wait"}
           excluded == config.excluded
<1>1. excluded \subseteq Socket /\ since \subseteq Client /\ place \in Places
    BY TypeParts, ConfigTyped DEF Places
<1>2. engine' = [Idle EXCEPT !.at = place, !.excluded = excluded, !.since = since]
    BY DEF BeginScan
<1>3. place = IF config.enabled THEN "enumerate" ELSE "rebuild"
    OBVIOUS
<1>4. excluded = config.excluded
    OBVIOUS
<1> HIDE DEF place, since, excluded
<1>5. engine' \in EngineState
    BY <1>1, <1>2 DEF Idle, EngineState, Places
<1>6. /\ engine'.at = place /\ engine'.excluded = excluded /\ ~engine'.failed
      /\ engine'.probing = {} /\ engine'.listening = {} /\ engine'.unusable = {}
    BY <1>2 DEF Idle
<1>7. CacheOK' /\ (~config.enabled => Cached' = {}) /\ (config.enabled => cache' = cache)
    BY TypeParts DEF BeginScan, CacheOK, Cached
<1> QED BY <1>3, <1>4, <1>5, <1>6, <1>7 DEF EngineOK

\* Every origin that the filter let through has a socket that is not among
\* those reported, and no other origin has.
LEMMA FirstsCover ==
    ASSUME TypeOK, NEW firsts \in Firsts
    PROVE  /\ Passed \subseteq Origin /\ Passed = OriginsOf(Passing) /\ Passed = OriginsOf(firsts)
           /\ firsts \subseteq Open /\ Open \subseteq Socket /\ Passing \subseteq Socket \ engine.excluded
<1>1. Open \subseteq Socket /\ Passing = Open \ engine.excluded /\ firsts \subseteq Passing
    BY DEF Open, Passing, Firsts
<1>2. Passed \subseteq Origin /\ Passed = OriginsOf(Passing)
    BY <1>1, SocketAssumption DEF Passed, OriginsOf
<1>3. ASSUME NEW s \in Passing PROVE At[s] \in OriginsOf(firsts)
  <2>1. PICK first \in firsts : {t \in firsts : At[t] = At[s]} = {first}
      BY DEF Firsts
  <2>2. At[first] = At[s]
      BY <2>1
  <2> QED BY <2>2 DEF OriginsOf
<1>4. OriginsOf(Passing) \subseteq OriginsOf(firsts)
    BY <1>3 DEF OriginsOf
<1>5. OriginsOf(firsts) \subseteq OriginsOf(Passing)
    BY <1>1 DEF OriginsOf
<1> QED BY <1>1, <1>2, <1>4, <1>5

LEMMA EnumerateTyped ==
    ASSUME TypeOK, Enumerate
    PROVE  /\ EngineOK' /\ CacheOK' /\ engine'.at = "probe"
           /\ engine'.excluded = engine.excluded /\ engine'.failed = engine.failed
           /\ engine'.unusable = engine.unusable
           /\ engine'.candidates \subseteq OriginsOf(Socket \ engine.excluded)
           /\ engine'.candidates \subseteq OriginsOf(Socket \ engine'.skipped)
           /\ OriginsOf(engine'.listening \ engine'.skipped) \subseteq engine'.candidates
           /\ Cached' \subseteq engine'.candidates
           /\ engine'.candidates \subseteq Cached' \cup engine'.probing
<1> DEFINE probing == {o \in Passed : cache[o] # "fresh"}
           listening == Open
           candidates == Passed
<1>1. PICK firsts \in Firsts :
         engine' = [engine EXCEPT !.at = "probe", !.listening = Open, !.skipped = Open \ firsts,
                                  !.candidates = Passed, !.probing = probing]
    BY DEF Enumerate, Enumerated
<1> DEFINE skipped == Open \ firsts
<1>2. engine' = [engine EXCEPT !.at = "probe", !.listening = listening, !.skipped = skipped,
                               !.candidates = candidates, !.probing = probing]
    BY <1>1
<1>3. cache' = [o \in Origin |-> IF o \in candidates THEN cache[o] ELSE "none"]
    BY DEF Enumerate, Retain
<1>4. /\ candidates \subseteq Origin /\ probing \subseteq candidates
      /\ listening \subseteq Socket /\ skipped \subseteq Socket
    BY FirstsCover
<1>5. candidates \subseteq OriginsOf(Socket \ engine.excluded)
    BY FirstsCover DEF OriginsOf
<1>6. listening \ skipped = firsts /\ firsts \subseteq Socket \ skipped /\ candidates = OriginsOf(firsts)
    BY FirstsCover
<1>7. OriginsOf(firsts) \subseteq OriginsOf(Socket \ skipped)
    BY <1>6 DEF OriginsOf
<1>8. \A o \in candidates : o \in probing \/ cache[o] = "fresh"
    OBVIOUS
<1> HIDE DEF candidates, probing, listening, skipped
<1>9. engine' \in EngineState
    BY <1>2, <1>4, TypeParts DEF EngineOK, EngineState
<1>10. /\ engine'.at = "probe" /\ engine'.excluded = engine.excluded /\ engine'.skipped = skipped
       /\ engine'.listening = listening /\ engine'.candidates = candidates
       /\ engine'.probing = probing /\ engine'.unusable = engine.unusable
       /\ engine'.failed = engine.failed
    BY <1>2, TypeParts DEF EngineOK, EngineState
<1>11. CacheOK' /\ Cached' \subseteq candidates
    BY <1>3, TypeParts DEF CacheOK, Cached
<1>12. candidates \subseteq Cached' \cup probing
    BY <1>3, <1>4, <1>8 DEF Cached
<1> QED BY <1>4, <1>5, <1>6, <1>7, <1>9, <1>10, <1>11, <1>12 DEF EngineOK

LEMMA StepTyped == TypeOK /\ [Next]_vars => TypeOK'
<1> SUFFICES ASSUME TypeOK, [Next]_vars PROVE TypeOK'
    OBVIOUS
<1> USE DEF vars, world, settings, scan
<1>0. /\ SettingsOK /\ WorldOK /\ TriggerOK /\ EngineOK /\ CacheOK /\ ReportOK /\ ClientOK
      /\ UNCHANGED settings => SettingsOK'
      /\ UNCHANGED world => WorldOK'
      /\ UNCHANGED cache => CacheOK'
      /\ UNCHANGED <<lastScan, catalog>> => ReportOK'
      /\ UNCHANGED client => ClientOK'
      /\ UNCHANGED engine => EngineOK'
      /\ UNCHANGED <<trigger, engine>> => TriggerOK'
      /\ UNCHANGED trigger /\ ~trigger.woken => TriggerOK'
    BY TypeParts DEF SettingsOK, WorldOK, TriggerOK, EngineOK, CacheOK, ReportOK, ClientOK
<1>1. ASSUME SettingsOK', WorldOK', TriggerOK', EngineOK', CacheOK', ReportOK', ClientOK' PROVE TypeOK'
    BY <1>1 DEF TypeOK, SettingsOK, WorldOK, TriggerOK, Records, EngineOK, CacheOK, ReportOK, ClientOK
<1>2. engine.at # "asleep" => ~trigger.woken
    BY <1>0 DEF TriggerOK
<1>3. CASE UNCHANGED vars
    BY <1>0, <1>1, <1>3
<1>4. ASSUME NEW s \in Socket, NEW kind \in {"closed", "web", "other"}, ChangeSocket(s, kind)
      PROVE  TypeOK'
  <2>1. WorldOK'
      BY <1>0, <1>4, BoundAssumption DEF ChangeSocket, WorldOK
  <2> QED BY <1>0, <1>1, <1>4, <2>1 DEF ChangeSocket
<1>5. ASSUME NEW o \in Origin, Expire(o) PROVE TypeOK'
  <2>1. CacheOK'
      BY <1>0, <1>5 DEF Expire, CacheOK
  <2> QED BY <1>0, <1>1, <1>5, <2>1 DEF Expire
<1>6. ASSUME NEW r \in Reloader, NEW new \in Settings, ReplaceConfig(r, new) PROVE TypeOK'
  <2>1. SettingsOK'
      BY <1>0, <1>6, BoundAssumption DEF ReplaceConfig, SettingsOK
  <2> QED BY <1>0, <1>1, <1>6, <2>1 DEF ReplaceConfig
<1>7. ASSUME UNCHANGED engine, trigger' = Notified(trigger) PROVE TriggerOK'
    BY <1>0, <1>7, NotifiedTyped DEF TriggerOK
<1>8. ASSUME NEW r \in Reloader, NotifyEngine(r) PROVE TypeOK'
  <2>1. SettingsOK'
      BY <1>0, <1>8 DEF NotifyEngine, SettingsOK
  <2> QED BY <1>0, <1>1, <1>7, <1>8, <2>1 DEF NotifyEngine
<1>9. ASSUME NEW c \in Client, LoadGeneration(c) \/ Forget(c) PROVE TypeOK'
  <2>1. QuietClient \in ClientState /\ [QuietClient EXCEPT !.at = "notify"] \in ClientState
      BY DEF QuietClient, ClientState
  <2>2. ClientOK'
      BY <1>0, <1>9, <2>1 DEF LoadGeneration, Forget, ClientOK
  <2> QED BY <1>0, <1>1, <1>9, <2>2 DEF LoadGeneration, Forget
<1>10. ASSUME NEW c \in Client, AskForScan(c) PROVE TypeOK'
  <2>1. ClientOK'
    <3>1. client[c] \in ClientState
        BY <1>0 DEF ClientOK
    <3>2. [client[c] EXCEPT !.at = "wait"] \in ClientState
        BY <3>1 DEF ClientState
    <3> QED BY <1>0, <1>10, <3>2 DEF AskForScan, ClientOK
  <2> QED BY <1>0, <1>1, <1>7, <1>10, <2>1 DEF AskForScan
<1>11. ASSUME NEW c \in Client, Answer(c) PROVE TypeOK'
  <2>1. ClientOK'
    <3>1. client[c] \in ClientState /\ client[c].moved \in BOOLEAN
        BY <1>0 DEF ClientOK, ClientState
    <3>2. [client[c] EXCEPT !.at = "answered", !.timely = client[c].moved] \in ClientState
        BY <3>1 DEF ClientState
    <3> QED BY <1>0, <1>11, <3>2 DEF Answer, ClientOK
  <2> QED BY <1>0, <1>1, <1>11, <2>1 DEF Answer
<1>12. CASE Sleep
  <2>0. ~trigger.woken /\ engine.at = "poll"
      BY <1>2, <1>12 DEF Sleep
  <2>1. EngineOK' /\ TriggerOK'
    <3>1. CASE trigger.permit
      <4>1. engine' = [engine EXCEPT !.at = "start"] /\ trigger' = [trigger EXCEPT !.permit = FALSE]
          BY <1>12, <3>1 DEF Sleep
      <4>2. trigger' \in Records /\ ~trigger'.woken
          BY <1>0, <2>0, <4>1 DEF TriggerOK, Records
      <4> QED BY <1>0, <4>1, <4>2, EngineMoves DEF EngineOK, TriggerOK, Places
    <3>2. CASE ~trigger.permit
      <4>1. engine' = [engine EXCEPT !.at = "asleep"] /\ UNCHANGED trigger
          BY <1>12, <3>2 DEF Sleep
      <4> QED BY <1>0, <2>0, <4>1, EngineMoves DEF EngineOK, Places
    <3> QED BY <3>1, <3>2
  <2> QED BY <1>0, <1>1, <1>12, <2>1 DEF Sleep
<1>13. CASE WakeByTrigger \/ WakeByTimer
  <2>1. engine' = [engine EXCEPT !.at = "start"]
      BY <1>13 DEF WakeByTrigger, WakeByTimer
  <2>2. EngineOK'
      BY <1>0, <2>1, EngineMoves DEF EngineOK, Places
  <2>3. TriggerOK'
    <3>1. CASE WakeByTrigger
        BY <1>0, <3>1 DEF WakeByTrigger, TriggerOK, Records
    <3>2. CASE WakeByTimer
      <4>1. (trigger.permit \/ trigger.woken) \in BOOLEAN
          BY <1>0 DEF TriggerOK, Records
      <4> QED BY <3>2, <4>1 DEF WakeByTimer, TriggerOK, Records
    <3> QED BY <1>13, <3>1, <3>2
  <2> QED BY <1>0, <1>1, <1>13, <2>2, <2>3 DEF WakeByTrigger, WakeByTimer
<1>14. CASE BeginScan
    BY <1>0, <1>1, <1>2, <1>14, BeginScanTyped DEF BeginScan
<1>15. CASE Enumerate
    BY <1>0, <1>1, <1>2, <1>15, EnumerateTyped DEF Enumerate, Enumerated
<1>16. CASE EnumerateFails
  <2>1. [Idle EXCEPT !.failed = TRUE] \in EngineState /\ [Idle EXCEPT !.failed = TRUE].probing = {}
      BY DEF Idle, EngineState
  <2>2. EngineOK'
      BY <1>16, <2>1 DEF EnumerateFails, EngineOK
  <2> QED BY <1>0, <1>1, <1>2, <1>16, <2>2 DEF EnumerateFails
<1>17. ASSUME NEW o \in Origin, Probe(o) PROVE TypeOK'
    BY <1>0, <1>1, <1>2, <1>17, ProbingTyped DEF Probe
<1>18. CASE WriteLastScan
  <2>1. EngineOK'
      BY <1>0, <1>18, EngineMoves DEF WriteLastScan, EngineOK, Places
  <2>2. ReportOK'
      BY <1>0, <1>18 DEF WriteLastScan, ReportOK, EngineOK, EngineState
  <2> QED BY <1>0, <1>1, <1>2, <1>18, <2>1, <2>2 DEF WriteLastScan
<1>19. CASE ReadApps
  <2> DEFINE apps == config.apps
  <2>1. apps \subseteq Origin
      BY <1>0, ConfigTyped
  <2>2. engine' = [engine EXCEPT !.at = "write", !.apps = apps]
      BY <1>19 DEF ReadApps
  <2> HIDE DEF apps
  <2>3. engine' \in EngineState /\ engine'.probing = engine.probing /\ engine'.candidates = engine.candidates
      BY <1>0, <2>1, <2>2 DEF EngineOK, EngineState
  <2>4. EngineOK'
      BY <1>0, <2>3 DEF EngineOK
  <2> QED BY <1>0, <1>1, <1>2, <1>19, <2>4 DEF ReadApps
<1>20. CASE WriteCatalog
  <2>1. EngineOK'
      BY <1>0, <1>20, EngineMoves DEF WriteCatalog, EngineOK, Places
  <2>2. ReportOK'
      BY <1>0, <1>20 DEF WriteCatalog, ReportOK, EngineOK, EngineState
  <2> QED BY <1>0, <1>1, <1>2, <1>20, <2>1, <2>2 DEF WriteCatalog
<1>21. CASE BumpGeneration
  <2>1. EngineOK'
      BY <1>21, IdleTyped DEF BumpGeneration, EngineOK, Places
  <2>2. ClientOK'
    <3>1. ASSUME NEW c \in Client
          PROVE  [client[c] EXCEPT !.moved = TRUE, !.scanned = @ \/ c \in engine.since] \in ClientState
      <4> DEFINE scanned == client[c].scanned \/ c \in engine.since
      <4>1. scanned \in BOOLEAN /\ client[c] \in ClientState
          BY <1>0 DEF ClientOK, ClientState
      <4> HIDE DEF scanned
      <4>2. [client[c] EXCEPT !.moved = TRUE, !.scanned = scanned] \in ClientState
          BY <4>1 DEF ClientState
      <4> QED BY <4>2 DEF scanned
    <3> QED BY <1>0, <1>21, <3>1 DEF BumpGeneration, ClientOK
  <2> QED BY <1>0, <1>1, <1>2, <1>21, <2>1, <2>2 DEF BumpGeneration
<1> QED BY <1>3, <1>4, <1>5, <1>6, <1>8, <1>9, <1>10, <1>11, <1>12, <1>13, <1>14, <1>15, <1>16,
           <1>17, <1>18, <1>19, <1>20, <1>21 DEF Next, Scans

\* Every reachable state of Discovery has the types the module declares: in
\* particular only a sleeping engine has been woken, and what is probed is a
\* candidate (scan_once of src/discovery/mod.rs).
THEOREM DiscoveryTyped == Spec => []TypeOK
    BY InitTyped, StepTyped, PTL DEF Spec

----------------------------------------------------------------------------
(* What a scan lets through                                                *)

\* What is shown, or will be, fits the report of the last scan, and nothing
\* that the scan saw is missing from both.
Fits(shown) ==
    shown \cap lastScan.unusable = {} /\ shown \subseteq OriginsOf(Socket \ lastScan.skipped)
Accounts(shown) ==
    OriginsOf(engine.listening \ lastScan.skipped) \subseteq shown \cup lastScan.unusable

\* While probes run, each candidate has a socket that passed the filter and
\* is not reported, and is cached, being probed or found unusable.
ProbeInv ==
    /\ engine.candidates \subseteq OriginsOf(Socket \ engine.excluded)
    /\ engine.candidates \subseteq OriginsOf(Socket \ engine.skipped)
    /\ OriginsOf(engine.listening \ engine.skipped) \subseteq engine.candidates
    /\ engine.candidates \subseteq Cached \cup engine.probing \cup engine.unusable
    /\ engine.unusable \cap (Cached \cup engine.probing) = {}

\* From the enumeration to the catalog, the cache holds candidates only, and
\* what will be published fits the report of the scan.
ScanInv ==
    /\ TypeOK
    /\ engine.at \in {"probe", "rebuild", "write"} => Cached \subseteq engine.candidates
    /\ engine.at = "enumerate" => engine.unusable = {}
    /\ engine.at = "probe" => ProbeInv
    /\ IF engine.at \in {"rebuild", "write"}
       THEN Fits(Cached) /\ Accounts(Cached)
       ELSE Fits(catalog.found)
    /\ engine.at = "count" => Accounts(catalog.found)

LEMMA InitScan == Init => ScanInv
<1> SUFFICES ASSUME Init PROVE ScanInv
    OBVIOUS
<1>1. engine.at = "start"
    BY IdleTyped DEF Init, Places
<1> QED BY <1>1, InitTyped DEF Init, ScanInv, Fits

\* What an action does to the engine, for those that only move it.
Goes(place) ==
    /\ engine'.at = place
    /\ engine'.excluded = engine.excluded /\ engine'.candidates = engine.candidates
    /\ engine'.probing = engine.probing /\ engine'.skipped = engine.skipped
    /\ engine'.listening = engine.listening /\ engine'.unusable = engine.unusable
    /\ engine'.failed = engine.failed

LEMMA MovesGo ==
    ASSUME TypeOK
    PROVE  /\ Sleep => IF trigger.permit THEN Goes("start") ELSE Goes("asleep")
           /\ WakeByTrigger \/ WakeByTimer => Goes("start")
           /\ WriteLastScan => Goes("rebuild")
           /\ WriteCatalog => Goes("count")
           /\ ReadApps => Goes("write") /\ engine'.apps = config.apps
<1>0. EngineOK
    BY TypeParts
<1>1. ASSUME NEW place \in Places, engine' = [engine EXCEPT !.at = place] PROVE Goes(place)
    BY <1>0, <1>1, EngineMoves DEF Goes
<1>2. ASSUME ReadApps PROVE Goes("write") /\ engine'.apps = config.apps
    BY <1>0, <1>2 DEF ReadApps, Goes, EngineOK, EngineState
<1>3. ASSUME Sleep PROVE IF trigger.permit THEN Goes("start") ELSE Goes("asleep")
  <2>1. CASE trigger.permit
      BY <1>1, <1>3, <2>1 DEF Sleep, Places
  <2>2. CASE ~trigger.permit
      BY <1>1, <1>3, <2>2 DEF Sleep, Places
  <2> QED BY <2>1, <2>2
<1>4. ASSUME WakeByTrigger \/ WakeByTimer PROVE Goes("start")
    BY <1>1, <1>4 DEF WakeByTrigger, WakeByTimer, Places
<1>5. ASSUME WriteLastScan PROVE Goes("rebuild")
    BY <1>1, <1>5 DEF WriteLastScan, Places
<1>6. ASSUME WriteCatalog PROVE Goes("count")
    BY <1>1, <1>6 DEF WriteCatalog, Places
<1> QED BY <1>2, <1>3, <1>4, <1>5, <1>6

LEMMA ExpireKeeps == ASSUME TypeOK, NEW o \in Origin, Expire(o) PROVE Cached' = Cached
    BY TypeParts DEF Expire, Cached, CacheOK

LEMMA StepScan == ScanInv /\ [Next]_vars => ScanInv'
<1> SUFFICES ASSUME ScanInv, [Next]_vars PROVE ScanInv'
    OBVIOUS
<1>0. TypeOK /\ TypeOK'
    BY StepTyped DEF ScanInv
<1>1. ASSUME UNCHANGED <<engine, lastScan, catalog>>, Cached' = Cached PROVE ScanInv'
    BY <1>0, <1>1 DEF ScanInv, ProbeInv, Fits, Accounts
<1>2. ASSUME UNCHANGED <<engine, cache, lastScan, catalog>> PROVE ScanInv'
    BY <1>1, <1>2 DEF Cached
<1>3. CASE UNCHANGED vars
    BY <1>2, <1>3 DEF vars, scan
<1>4. CASE \E s \in Socket : \E kind \in {"closed", "web", "other"} : ChangeSocket(s, kind)
    BY <1>2, <1>4 DEF ChangeSocket, scan
<1>5. ASSUME NEW o \in Origin, Expire(o) PROVE ScanInv'
    BY <1>0, <1>1, <1>5, ExpireKeeps DEF Expire
<1>6. CASE \E r \in Reloader : NotifyEngine(r) \/ \E new \in Settings : ReplaceConfig(r, new)
    BY <1>2, <1>6 DEF NotifyEngine, ReplaceConfig, scan
<1>7. CASE \E c \in Client : LoadGeneration(c) \/ AskForScan(c) \/ Answer(c) \/ Forget(c)
    BY <1>2, <1>7 DEF LoadGeneration, AskForScan, Answer, Forget, scan
<1>8. ASSUME NEW place \in {"start", "asleep"}, Goes(place), engine.at \in {"poll", "asleep"},
             UNCHANGED <<cache, lastScan, catalog>>
      PROVE  ScanInv'
    BY <1>0, <1>8 DEF ScanInv, Goes, Fits
<1>9. CASE Sleep
    BY <1>0, <1>8, <1>9, MovesGo DEF Sleep
<1>10. CASE WakeByTrigger \/ WakeByTimer
    BY <1>0, <1>8, <1>10, MovesGo DEF WakeByTrigger, WakeByTimer
<1>11. CASE BeginScan
  <2>1. Fits(catalog.found)' /\ UNCHANGED lastScan
      BY <1>11 DEF ScanInv, Fits, BeginScan
  <2>2. CASE config.enabled
      BY <1>0, <1>11, <2>1, <2>2, BeginScanTyped DEF ScanInv
  <2>3. CASE ~config.enabled
    <3>1. engine'.at = "rebuild" /\ Cached' = {} /\ engine'.listening = {}
        BY <1>0, <1>11, <2>3, BeginScanTyped
    <3>2. Fits(Cached)' /\ Accounts(Cached)'
        BY <3>1 DEF Fits, Accounts, OriginsOf
    <3> QED BY <1>0, <3>1, <3>2 DEF ScanInv
  <2> QED BY <2>2, <2>3
<1>12. CASE Enumerate
  <2>1. Fits(catalog.found)' /\ engine.unusable = {}
      BY <1>12 DEF ScanInv, Fits, Enumerate, Enumerated
  <2>2. ProbeInv'
      BY <1>0, <1>12, <2>1, EnumerateTyped DEF ProbeInv
  <2> QED BY <1>0, <1>12, <2>1, <2>2, EnumerateTyped DEF ScanInv
<1>13. CASE EnumerateFails
  <2>1. engine'.at = "poll" /\ engine.at = "enumerate" /\ UNCHANGED <<lastScan, catalog>>
      BY <1>13 DEF EnumerateFails, Idle
  <2> QED BY <1>0, <2>1 DEF ScanInv, Fits
<1>14. ASSUME NEW o \in Origin, Probe(o) PROVE ScanInv'
  <2>1. /\ engine.at = "probe" /\ o \in engine.probing /\ UNCHANGED <<lastScan, catalog>>
        /\ engine.probing \subseteq engine.candidates /\ ProbeInv /\ Fits(catalog.found)'
      BY <1>0, <1>14 DEF Probe, TypeOK, ScanInv, Fits
  <2>2. ProbeInv'
      BY <1>0, <1>14, <2>1, ProbingTyped DEF ProbeInv
  <2>3. Cached' \subseteq engine'.candidates
      BY <1>0, <1>14, <2>1, ProbingTyped DEF ScanInv
  <2>4. engine'.at = "probe"
      BY <1>0, <1>14, ProbingTyped
  <2> QED BY <1>0, <2>1, <2>2, <2>3, <2>4 DEF ScanInv
<1>15. CASE WriteLastScan
  <2>1. /\ Goes("rebuild") /\ Cached' = Cached /\ engine.at = "probe" /\ engine.probing = {}
        /\ lastScan'.skipped = engine.skipped /\ lastScan'.unusable = engine.unusable
      BY <1>0, <1>15, MovesGo DEF WriteLastScan, Cached
  <2>2. Fits(Cached)' /\ Accounts(Cached)'
      BY <2>1 DEF ScanInv, ProbeInv, Fits, Accounts, Goes
  <2> QED BY <1>0, <2>1, <2>2 DEF ScanInv, Goes
<1>16. CASE ReadApps
  <2>1. Goes("write") /\ Cached' = Cached /\ engine.at = "rebuild" /\ UNCHANGED lastScan
      BY <1>0, <1>16, MovesGo DEF ReadApps, Cached
  <2> QED BY <1>0, <2>1 DEF ScanInv, Goes, Fits, Accounts
<1>17. CASE WriteCatalog
  <2>1. Goes("count") /\ catalog'.found = Cached /\ engine.at = "write" /\ UNCHANGED lastScan
      BY <1>0, <1>17, MovesGo DEF WriteCatalog, Cached
  <2> QED BY <1>0, <2>1 DEF ScanInv, Goes, Fits, Accounts
<1>18. CASE BumpGeneration
  <2>1. engine'.at = "poll" /\ engine.at = "count" /\ UNCHANGED <<lastScan, catalog>>
      BY <1>18 DEF BumpGeneration, Idle
  <2> QED BY <1>0, <2>1 DEF ScanInv, Fits
<1> QED BY <1>3, <1>4, <1>5, <1>6, <1>7, <1>9, <1>10, <1>11, <1>12, <1>13, <1>14, <1>15, <1>16,
           <1>17, <1>18 DEF Next, Scans

\* But for the moment between the two writes (scan_once writes last_scan,
\* rebuild_catalog the catalog) no app is shown whose probe is reported to
\* have failed, nor one whose sockets are all reported as skipped by
\* filter_listeners_detailed; and every socket that a scan saw is in its
\* report, or its origin is in the catalog.
THEOREM ReportsMatch == Spec => []ReportMatchesCatalog
<1>1. ScanInv => ReportMatchesCatalog
    BY DEF ScanInv, ReportMatchesCatalog, Fits, Accounts, OriginsOf
<1> QED BY InitScan, StepScan, <1>1, PTL DEF Spec

\* A scan publishes candidates of its own enumeration only: cache.retain
\* takes out whatever an earlier scan has left.
THEOREM CandidatesOnly == Spec => OnlyCandidatesExposed
<1> DEFINE A == catalog' # catalog => catalog'.found \subseteq engine.candidates
<1>1. ScanInv /\ [Next]_vars => [A]_vars
  <2> SUFFICES ASSUME ScanInv, [Next]_vars, catalog' # catalog
               PROVE  catalog'.found \subseteq engine.candidates
      OBVIOUS
  <2>1. WriteCatalog
      BY DEF Next, Scans, vars, scan, ChangeSocket, Expire, NotifyEngine, ReplaceConfig, Sleep,
             WakeByTrigger, WakeByTimer, BeginScan, Enumerate, Enumerated, EnumerateFails, Probe,
             WriteLastScan, ReadApps, BumpGeneration, LoadGeneration, AskForScan, Answer, Forget
  <2>2. catalog'.found = Cached /\ engine.at = "write"
      BY <2>1 DEF WriteCatalog, Cached
  <2> QED BY <2>2 DEF ScanInv
<1> QED BY InitScan, StepScan, <1>1, PTL DEF Spec, OnlyCandidatesExposed

\* What is shown is of one scan: candidates that it enumerated and let
\* through, and what it reports of the rest fits them (scan_once).
THEOREM ShownIsOfOneScan == Spec => CatalogIsOfItsScan
<1>1. ReportMatchesCatalog' /\ [catalog' # catalog => catalog'.found \subseteq engine.candidates]_vars
      => [/\ catalog' # catalog => catalog'.found \subseteq engine.candidates
          /\ ReportMatchesCatalog']_vars
    OBVIOUS
<1> QED BY ReportsMatch, CandidatesOnly, <1>1, PTL DEF CatalogIsOfItsScan, OnlyCandidatesExposed

----------------------------------------------------------------------------
(* Reloads and requests reach the engine                                   *)

Told == trigger.permit \/ trigger.woken
Pending == Told \/ reloading # {}

Follows ==
    /\ catalog.manual = config.apps
    /\ catalog.found \subseteq OriginsOf(Socket \ config.excluded)
    /\ ~config.enabled => catalog.found = {}

\* Unless the engine will be told again, the scan it is in works with the
\* settings as they are now.
FollowInv ==
    /\ ScanInv
    /\ engine.at = "asleep" /\ trigger.permit => trigger.woken
    /\ ~Pending =>
          /\ engine.at \in {"enumerate", "probe"} =>
                engine.excluded = config.excluded /\ config.enabled
          /\ engine.at \in {"rebuild", "write"} =>
                Cached \subseteq OriginsOf(Socket \ config.excluded) /\ (~config.enabled => Cached = {})
          /\ engine.at = "write" => engine.apps = config.apps
          /\ engine.at = "count" \/ (engine.at \in {"poll", "asleep"} /\ ~engine.failed) => Follows

\* A client that waits is told of, or the scan that serves it is on its way.
WaitInv ==
    /\ FollowInv
    /\ \A c \in Client :
          client[c].at = "wait" /\ ~client[c].moved /\ engine.at \in {"poll", "asleep"} =>
             Told \/ engine.failed

LEMMA InitWait == Init => WaitInv
<1> SUFFICES ASSUME Init PROVE WaitInv
    OBVIOUS
<1>1. engine.at = "start"
    BY IdleTyped DEF Init, Places
<1> QED BY <1>1, InitScan DEF Init, WaitInv, FollowInv

LEMMA StepFollow == FollowInv /\ [Next]_vars => FollowInv'
<1> SUFFICES ASSUME FollowInv, [Next]_vars PROVE FollowInv'
    OBVIOUS
<1>0. /\ ScanInv /\ ScanInv' /\ TypeOK /\ TypeOK'
      /\ engine.at # "asleep" => ~trigger.woken
    BY StepScan DEF FollowInv, ScanInv, TypeOK
<1>1. ASSUME UNCHANGED <<engine, catalog, config, reloading, trigger>>, Cached' = Cached PROVE FollowInv'
    BY <1>0, <1>1 DEF FollowInv, Pending, Told, Follows
<1>2. ASSUME UNCHANGED <<engine, cache, catalog, config, reloading, trigger>> PROVE FollowInv'
    BY <1>1, <1>2 DEF Cached
<1>3. CASE UNCHANGED vars
    BY <1>2, <1>3 DEF vars, scan, settings
<1>4. CASE \E s \in Socket : \E kind \in {"closed", "web", "other"} : ChangeSocket(s, kind)
    BY <1>2, <1>4 DEF ChangeSocket, scan, settings
<1>5. ASSUME NEW o \in Origin, Expire(o) PROVE FollowInv'
    BY <1>0, <1>1, <1>5, ExpireKeeps DEF Expire, settings
<1>6. ASSUME trigger' = Notified(trigger), UNCHANGED engine PROVE FollowInv'
  <2>1. trigger \in Records /\ (trigger.woken => engine.at = "asleep")
      BY <1>0 DEF TypeOK, Records
  <2>2. Told' /\ (engine.at = "asleep" /\ trigger'.permit => trigger'.woken)
      BY <1>6, <2>1, NotifiedTyped DEF Told, FollowInv
  <2> QED BY <1>0, <1>6, <2>2 DEF FollowInv, Pending
<1>7. ASSUME NEW r \in Reloader, NotifyEngine(r) PROVE FollowInv'
    BY <1>6, <1>7 DEF NotifyEngine, scan
<1>8. ASSUME NEW c \in Client, AskForScan(c) PROVE FollowInv'
    BY <1>6, <1>8 DEF AskForScan, scan
<1>9. ASSUME NEW r \in Reloader, NEW new \in Settings, ReplaceConfig(r, new) PROVE FollowInv'
  <2>1. Pending' /\ UNCHANGED <<engine, trigger>>
      BY <1>9 DEF ReplaceConfig, Pending, scan
  <2> QED BY <1>0, <2>1 DEF FollowInv
<1>10. CASE \E c \in Client : LoadGeneration(c) \/ Answer(c) \/ Forget(c)
    BY <1>2, <1>10 DEF LoadGeneration, Answer, Forget, scan, settings
<1>11. ASSUME engine'.at = "start" PROVE FollowInv'
    BY <1>0, <1>11 DEF FollowInv
<1>12. CASE Sleep
  <2>1. CASE trigger.permit
      BY <1>0, <1>11, <1>12, <2>1, MovesGo DEF Goes
  <2>2. CASE ~trigger.permit
    <3>1. Goes("asleep") /\ UNCHANGED <<trigger, catalog, config, reloading>> /\ engine.at = "poll"
        BY <1>0, <1>12, <2>2, MovesGo DEF Sleep, settings
    <3> QED BY <1>0, <2>2, <3>1 DEF FollowInv, Goes, Pending, Told, Follows
  <2> QED BY <2>1, <2>2
<1>13. CASE WakeByTrigger \/ WakeByTimer
    BY <1>0, <1>11, <1>13, MovesGo DEF Goes
<1>14. CASE BeginScan
    BY <1>0, <1>14, BeginScanTyped DEF BeginScan, settings, FollowInv, Pending, Told
<1>15. CASE Enumerate
  <2>1. engine.at = "enumerate" /\ UNCHANGED <<config, reloading, trigger>>
      BY <1>15 DEF Enumerate, Enumerated, settings
  <2> QED BY <1>0, <1>15, <2>1, EnumerateTyped DEF FollowInv, Pending, Told
<1>16. CASE EnumerateFails
  <2>1. engine'.at = "poll" /\ engine'.failed
      BY <1>16 DEF EnumerateFails, Idle
  <2> QED BY <1>0, <2>1 DEF FollowInv
<1>17. ASSUME NEW o \in Origin, Probe(o) PROVE FollowInv'
  <2>1. engine.at = "probe" /\ UNCHANGED <<config, reloading, trigger>>
      BY <1>17 DEF Probe, settings
  <2> QED BY <1>0, <1>17, <2>1, ProbingTyped DEF FollowInv, Pending, Told
<1>18. CASE WriteLastScan
  <2>1. /\ Goes("rebuild") /\ Cached' = Cached /\ engine.at = "probe"
        /\ UNCHANGED <<config, reloading, trigger>>
      BY <1>0, <1>18, MovesGo DEF WriteLastScan, Cached, settings
  <2>2. Cached \subseteq OriginsOf(Socket \ engine.excluded)
      BY <1>0, <2>1 DEF ScanInv, ProbeInv
  <2> QED BY <1>0, <2>1, <2>2 DEF FollowInv, Goes, Pending, Told
<1>19. CASE ReadApps
  <2>1. /\ Goes("write") /\ engine'.apps = config.apps /\ Cached' = Cached /\ engine.at = "rebuild"
        /\ UNCHANGED <<config, reloading, trigger>>
      BY <1>0, <1>19, MovesGo DEF ReadApps, Cached, settings
  <2> QED BY <1>0, <2>1 DEF FollowInv, Goes, Pending, Told
<1>20. CASE WriteCatalog
  <2>1. /\ Goes("count") /\ catalog'.found = Cached /\ catalog'.manual = engine.apps
        /\ engine.at = "write" /\ UNCHANGED <<config, reloading, trigger>>
      BY <1>0, <1>20, MovesGo DEF WriteCatalog, Cached, settings
  <2> QED BY <1>0, <2>1 DEF FollowInv, Goes, Pending, Told, Follows
<1>21. CASE BumpGeneration
  <2>1. engine'.at = "poll" /\ engine.at = "count" /\ UNCHANGED <<catalog, config, reloading, trigger>>
      BY <1>21 DEF BumpGeneration, Idle, settings
  <2> QED BY <1>0, <2>1 DEF FollowInv, Pending, Told, Follows
<1> QED BY <1>3, <1>4, <1>5, <1>7, <1>8, <1>9, <1>10, <1>12, <1>13, <1>14, <1>15, <1>16, <1>17,
           <1>18, <1>19, <1>20, <1>21 DEF Next, Scans

LEMMA StepWait == WaitInv /\ [Next]_vars => WaitInv'
<1> SUFFICES ASSUME WaitInv, [Next]_vars, NEW c \in Client, client'[c].at = "wait",
                    ~client'[c].moved, engine'.at \in {"poll", "asleep"}
             PROVE  Told' \/ engine'.failed
    BY StepFollow DEF WaitInv
<1>0. TypeOK /\ FollowInv /\ client \in [Client -> ClientState]
    BY DEF WaitInv, FollowInv, ScanInv, TypeOK
<1>1. ASSUME UNCHANGED <<engine, client, trigger>> PROVE Told' \/ engine'.failed
    BY <1>1 DEF WaitInv, Told
<1>2. CASE UNCHANGED vars
    BY <1>1, <1>2 DEF vars, scan
<1>3. CASE \E s \in Socket : \E kind \in {"closed", "web", "other"} : ChangeSocket(s, kind)
    BY <1>1, <1>3 DEF ChangeSocket, scan
<1>14. CASE \E o \in Origin : Expire(o)
    BY <1>1, <1>14 DEF Expire
<1>4. CASE \E r \in Reloader : \E new \in Settings : ReplaceConfig(r, new)
    BY <1>1, <1>4 DEF ReplaceConfig, scan
<1>5. ASSUME trigger' = Notified(trigger) PROVE Told'
  <2>1. trigger \in Records /\ (trigger.woken => engine.at = "asleep")
      BY <1>0 DEF TypeOK, Records
  <2> QED BY <1>5, <2>1, NotifiedTyped DEF Told
<1>6. CASE \E r \in Reloader : NotifyEngine(r)
    BY <1>5, <1>6 DEF NotifyEngine
<1>7. CASE \E d \in Client : AskForScan(d)
    BY <1>5, <1>7 DEF AskForScan
<1>8. ASSUME NEW d \in Client, LoadGeneration(d) \/ Answer(d) \/ Forget(d)
      PROVE  Told' \/ engine'.failed
  <2>1. c # d => client'[c] = client[c]
      BY <1>0, <1>8 DEF LoadGeneration, Answer, Forget
  <2>2. client'[d].at # "wait"
    <3>1. CASE LoadGeneration(d)
        BY <1>0, <3>1 DEF LoadGeneration, QuietClient
    <3>2. CASE Answer(d)
      <4> DEFINE timely == client[d].moved
      <4>1. client' = [client EXCEPT ![d] = [@ EXCEPT !.at = "answered", !.timely = timely]]
          BY <3>2 DEF Answer
      <4> HIDE DEF timely
      <4> QED BY <1>0, <4>1 DEF ClientState
    <3>3. CASE Forget(d)
        BY <1>0, <3>3 DEF Forget, QuietClient
    <3> QED BY <1>8, <3>1, <3>2, <3>3
  <2>3. UNCHANGED <<engine, trigger>>
      BY <1>8 DEF LoadGeneration, Answer, Forget, scan
  <2> QED BY <2>1, <2>2, <2>3 DEF WaitInv, Told
<1>9. CASE Sleep
  <2>1. CASE trigger.permit
      BY <1>0, <1>9, <2>1, MovesGo DEF Goes
  <2>2. CASE ~trigger.permit
    <3>1. Goes("asleep") /\ engine.at = "poll" /\ UNCHANGED <<trigger, client>>
        BY <1>0, <1>9, <2>2, MovesGo DEF Sleep
    <3> QED BY <3>1 DEF WaitInv, Goes, Told
  <2> QED BY <2>1, <2>2
<1>10. CASE WakeByTrigger \/ WakeByTimer \/ WriteLastScan \/ ReadApps \/ WriteCatalog
    BY <1>0, <1>10, MovesGo DEF Goes
<1>11. CASE BeginScan \/ Enumerate \/ \E o \in Origin : Probe(o)
    BY <1>0, <1>11, BeginScanTyped, EnumerateTyped, ProbingTyped
<1>12. CASE EnumerateFails
    BY <1>12 DEF EnumerateFails, Idle
<1>13. CASE BumpGeneration
  <2>1. CASE client[c].at \in {"notify", "wait"}
    <3>1. client'[c] = [client[c] EXCEPT !.moved = TRUE, !.scanned = @ \/ c \in engine.since]
        BY <1>13, <2>1 DEF BumpGeneration
    <3>2. client'[c].moved
        BY <1>0, <3>1 DEF ClientState
    <3> QED BY <3>2
  <2>2. CASE client[c].at \notin {"notify", "wait"}
      BY <1>13, <2>2 DEF BumpGeneration
  <2> QED BY <2>1, <2>2
<1> QED BY <1>2, <1>3, <1>4, <1>6, <1>7, <1>8, <1>9, <1>10, <1>11, <1>12, <1>13, <1>14
       DEF Next, Scans

LEMMA InductiveWait == Spec => []WaitInv
    BY InitWait, StepWait, PTL DEF Spec

\* A reload is not lost, whatever the engine is doing when it comes: once the
\* engine sleeps with nothing pending, the catalog follows the settings
\* (Request::Reload of src/daemon.rs notifies after it has replaced them).
THEOREM ReloadsArrive == Spec => []ReloadsReachCatalog
<1>1. WaitInv => ReloadsReachCatalog
    BY DEF WaitInv, FollowInv, ReloadsReachCatalog, Quiescent, Follows, Pending, Told, OriginsOf
<1> QED BY InductiveWait, <1>1, PTL

\* A client that waits for the generation to move is not left to the timer
\* (the request loads the generation before it notifies the engine).
THEOREM WaitersGetServed == Spec => []WaitersAreServed
<1>1. WaitInv => WaitersAreServed
    BY DEF WaitInv, FollowInv, WaitersAreServed, Told
<1> QED BY InductiveWait, <1>1, PTL

\* No reload and no request is lost in the Notify they share.
THEOREM NothingGetsForgotten == Spec => []NothingIsForgotten
<1>1. ReloadsReachCatalog /\ WaitersAreServed => NothingIsForgotten
    BY DEF NothingIsForgotten
<1> QED BY ReloadsArrive, WaitersGetServed, <1>1, PTL

----------------------------------------------------------------------------
(* A probe                                                                 *)

ResultType == [status : Nat, title : Name \cup {NoName}]

----------------------------------------------------------------------------
(* What is parsed                                                          *)

LEMMA LeastExists ==
    ASSUME NEW S \in SUBSET Nat, S # {}
    PROVE  \E n \in S : \A m \in S : n <= m
<1> DEFINE R == OpToRel(<, Nat)
<1>1. IsWellFoundedOn(R, Nat)
    BY ONLY NatLessThanWellFounded
<1>2. \A m, n \in Nat : m < n => <<m, n>> \in R
    BY DEF OpToRel
<1> HIDE DEF R
<1>3. PICK n \in S : \A m \in S : ~(<<m, n>> \in R)
    BY <1>1, WFMin
<1>4. \A m \in S : n <= m
  <2> TAKE m \in S
  <2>1. ~(m < n)
      BY <1>2, <1>3
  <2> QED BY <2>1
<1> QED BY <1>4

LEMMA GreatestExists ==
    ASSUME NEW n \in Nat, NEW S \in SUBSET (1 .. n), S # {}
    PROVE  \E i \in S : \A j \in S : j <= i
<1> DEFINE D == {n - i : i \in S}
<1>0. \A i \in S : i \in 1 .. n
    OBVIOUS
<1>1. D \in SUBSET Nat /\ D # {}
  <2>1. \A i \in S : n - i \in Nat
      BY <1>0
  <2>2. PICK i \in S : TRUE
      OBVIOUS
  <2>3. n - i \in D
      BY <2>2
  <2> QED BY <2>1, <2>3
<1>2. PICK d \in D : \A e \in D : d <= e
    BY <1>1, LeastExists
<1>3. PICK i \in S : d = n - i
    BY <1>2
<1>4. \A j \in S : j <= i
  <2> TAKE j \in S
  <2>1. n - i <= n - j
      BY <1>2, <1>3
  <2> QED BY <1>0, <2>1
<1> QED BY <1>4

\* Where there is a piece of a kind, First and Last give the value of one.
LEMMA SomePiece ==
    ASSUME NEW r, NEW n \in Nat, NEW kind, Of(r, kind, n) # {}
    PROVE  /\ \E i \in Of(r, kind, n) : First(r, kind, n) = r[i].value
           /\ \E i \in Of(r, kind, n) : Last(r, kind, n) = r[i].value
<1> DEFINE S == Of(r, kind, n)
<1>1. S \in SUBSET (1 .. n) /\ S # {}
    BY DEF Of
<1>2. \E i \in S : \A j \in S : i <= j
    BY <1>1, LeastExists
<1>3. \E i \in S : \A j \in S : j <= i
    BY <1>1, GreatestExists
<1> QED BY <1>2, <1>3 DEF First, Last

LEMMA PieceTyped ==
    ASSUME NEW r \in Seq(Piece), NEW n \in 0 .. Len(r)
    PROVE  /\ Answers(r, n) => ResultOf(r, n) \in ResultType
           /\ Answers(r, n) /\ Redirects(r, n) => Last(r, "location", n) \in Path
<1>0. n \in Nat /\ \A i \in 1 .. n : r[i] \in Piece
    OBVIOUS
<1>1. \A kind \in {"title", "meta"} :
         Of(r, kind, n) # {} => First(r, kind, n) \in Name \cup {NoName}
  <2> SUFFICES ASSUME NEW kind \in {"title", "meta"}, Of(r, kind, n) # {}
               PROVE  First(r, kind, n) \in Name \cup {NoName}
      OBVIOUS
  <2>1. PICK i \in Of(r, kind, n) : First(r, kind, n) = r[i].value
      BY <1>0, SomePiece
  <2>2. r[i] \in Piece /\ r[i].kind = kind
      BY <1>0, <2>1 DEF Of
  <2> QED BY <2>1, <2>2 DEF Piece
<1>2. Answers(r, n) => Last(r, "status", n) \in Nat
  <2> SUFFICES ASSUME Answers(r, n) PROVE Last(r, "status", n) \in Nat
      OBVIOUS
  <2>1. PICK i \in Of(r, "status", n) : Last(r, "status", n) = r[i].value
      BY <1>0, SomePiece DEF Answers
  <2>2. r[i] \in Piece /\ r[i].kind = "status"
      BY <1>0, <2>1 DEF Of
  <2> QED BY <2>1, <2>2 DEF Piece
<1>3. NameIn(r, n) \in Name \cup {NoName}
    BY <1>1 DEF NameIn, Titled
<1> QED BY <1>2, <1>3 DEF ResultOf, ResultType, Redirects

----------------------------------------------------------------------------
(* Types                                                                   *)

LEMMA NoAnswerTyped == NoAnswer \in ResultType
    BY DEF NoAnswer, ResultType

LEMMA ProbeInitTyped == ProbeInit => ProbeTypeOK
<1> SUFFICES ASSUME ProbeInit PROVE ProbeTypeOK
    OBVIOUS
<1>1. page = <<>> /\ page \in Seq(Piece) /\ Len(page) = 0
    BY DEF ProbeInit
<1>2. answer \in ResultType
    BY NoAnswerTyped DEF ProbeInit
<1>3. 0 \in 0 .. MaxRedirects + 1 /\ ~(0 > MaxRedirects) /\ 0 \in 0 .. Budget /\ 0 \in 0 .. 0
    BY LimitAssumption
<1>4. hop = 0 /\ budget = 0 /\ sent = 0 /\ got = 0 /\ by = 0 /\ now = 0
    BY DEF ProbeInit
<1>5. got \in 0 .. sent /\ sent \in 0 .. Len(page)
    BY <1>1, <1>3, <1>4
<1>6. /\ now \in Nat /\ by \in Nat /\ budget \in 0 .. Budget
      /\ hop \in 0 .. MaxRedirects + 1 /\ ~(hop > MaxRedirects)
    BY <1>3, <1>4
<1>7. at = "idle" /\ site \in Sites /\ path \in Path /\ open \in BOOLEAN /\ why = "none" /\ app \in BOOLEAN
    BY PathAssumption DEF ProbeInit
<1> QED BY <1>1, <1>2, <1>5, <1>6, <1>7 DEF ProbeTypeOK, ResultType

LEMMA ProbeStepTyped == ProbeTypeOK /\ [ProbeNext]_probeVars => ProbeTypeOK'
<1> SUFFICES ASSUME ProbeTypeOK, [ProbeNext]_probeVars PROVE ProbeTypeOK'
    OBVIOUS
<1> USE DEF timing, response, verdict, ResultType
<1>1. ASSUME GivesNothing PROVE ProbeTypeOK'
    BY <1>1, NoAnswerTyped DEF ProbeTypeOK, GivesNothing, Gives
<1>2. CASE Begin
    BY <1>2, PathAssumption, LimitAssumption DEF ProbeTypeOK, Begin
<1>3. CASE Request
  <2>1. CASE hop <= MaxRedirects /\ now < Budget /\ Sends(Budget - now)
    <3>1. Budget - now \in 0 .. Budget /\ now + (Budget - now) \in Nat
        BY <2>1, LimitAssumption DEF ProbeTypeOK
    <3> QED BY <2>1, <3>1, LimitAssumption DEF ProbeTypeOK, Sends
  <2> QED BY <1>1, <1>3, <2>1 DEF Request
<1>4. CASE ConnectFails \/ ConnectTimesOut
    BY <1>1, <1>4 DEF ConnectFails, ConnectTimesOut
<1>5. CASE Connect
  <2>1. site[path] \in Seq(Piece)
      BY SiteAssumption DEF ProbeTypeOK
  <2>2. now + budget \in Nat
      BY LimitAssumption DEF ProbeTypeOK
  <2>3. Len(page') \in Nat
      BY <1>5, <2>1 DEF Connect
  <2> QED BY <1>5, <2>1, <2>2, <2>3 DEF ProbeTypeOK, Connect
<1>6. CASE ServerSends
  <2>1. sent + 1 \in 0 .. Len(page)
      BY <1>6 DEF ProbeTypeOK, ServerSends
  <2> QED BY <1>6, <2>1 DEF ProbeTypeOK, ServerSends
<1>7. CASE ServerCloses
    BY <1>7 DEF ProbeTypeOK, ServerCloses
<1>8. CASE Read
  <2>1. PICK n \in 1 .. Chunk :
           /\ got + n <= sent /\ got' = got + n
           /\ EndsReading("enough") \/ UNCHANGED <<at, why>>
      BY <1>8 DEF Read
  <2>2. got' \in 0 .. sent
      BY <2>1, LimitAssumption DEF ProbeTypeOK
  <2> QED BY <1>8, <2>1, <2>2 DEF ProbeTypeOK, Read, EndsReading
<1>9. CASE ReadEnds \/ ReadTimesOut
    BY <1>9 DEF ProbeTypeOK, ReadEnds, ReadTimesOut, EndsReading
<1>10. CASE Parse
  <2>1. got \in 0 .. Len(page)
      BY DEF ProbeTypeOK
  <2>2. CASE Answers(page, got) /\ Redirects(page, got) /\ Follow
    <3>1. Last(page, "location", got) \in Path
        BY <2>1, <2>2, PieceTyped DEF ProbeTypeOK
    <3>2. hop + 1 \in 0 .. MaxRedirects + 1
        BY <1>10, LimitAssumption DEF ProbeTypeOK, Parse
    <3> QED BY <2>2, <3>1, <3>2 DEF ProbeTypeOK, Follow
  <2>3. CASE /\ Answers(page, got)
             /\ Gives(ResultOf(page, got), Credible(ResultOf(page, got)))
             /\ UNCHANGED <<site, now, hop, path, timing, response>>
    <3>1. ResultOf(page, got) \in ResultType
        BY <2>1, <2>3, PieceTyped DEF ProbeTypeOK
    <3>2. Credible(ResultOf(page, got)) \in BOOLEAN
        BY DEF Credible
    <3> QED BY <2>3, <3>1, <3>2 DEF ProbeTypeOK, Gives
  <2> QED BY <1>1, <1>10, <2>2, <2>3 DEF Parse
<1>11. CASE Tick
    BY <1>11 DEF ProbeTypeOK, Tick
<1>12. CASE UNCHANGED probeVars
    BY <1>12 DEF ProbeTypeOK, probeVars
<1> QED BY <1>2, <1>3, <1>4, <1>5, <1>6, <1>7, <1>8, <1>9, <1>10, <1>11, <1>12 DEF ProbeNext, Prober

\* For any sites, a probe only ever asks its own origin (redirect_path of
\* src/discovery/probe.rs), and every reachable state has its types.
THEOREM ProbeTyped == ProbeSpec => []ProbeTypeOK
    BY ProbeInitTyped, ProbeStepTyped, PTL DEF ProbeSpec

----------------------------------------------------------------------------
(* Time                                                                    *)

\* What is waited for ends within the budget while connecting, and within
\* another one while reading.
TimeInv ==
    /\ ProbeTypeOK
    /\ EndsInTime
    /\ at = "connect" => now <= by /\ by <= Budget
    /\ at = "read" => now <= by /\ by <= 2 * Budget

LEMMA InitTime == ProbeInit => TimeInv
    BY ProbeInitTyped, LimitAssumption DEF ProbeInit, TimeInv, EndsInTime

LEMMA StepTime == TimeInv /\ [ProbeNext]_probeVars => TimeInv'
<1> SUFFICES ASSUME TimeInv, [ProbeNext]_probeVars PROVE TimeInv'
    OBVIOUS
<1>0. ProbeTypeOK /\ ProbeTypeOK'
    BY ProbeStepTyped DEF TimeInv
<1> USE DEF timing, response, verdict
<1>1. ASSUME UNCHANGED now, at' \notin {"connect", "read"} \/ UNCHANGED <<at, by>> PROVE TimeInv'
    BY <1>0, <1>1 DEF TimeInv, EndsInTime
<1>2. CASE Begin
  <2>1. now' = 0 /\ at' = "request"
      BY <1>2 DEF Begin
  <2>2. now' <= 2 * Budget
      BY <2>1, LimitAssumption
  <2> QED BY <1>0, <2>1, <2>2 DEF TimeInv, EndsInTime
<1>3. CASE Request
  <2>1. CASE hop <= MaxRedirects /\ now < Budget /\ Sends(Budget - now)
    <3>1. at' = "connect" /\ now' = now /\ by' = now + (Budget - now)
        BY <2>1 DEF Sends
    <3>2. now' <= by' /\ by' <= Budget /\ now' <= 2 * Budget
        BY <1>0, <2>1, <3>1, LimitAssumption DEF ProbeTypeOK
    <3> QED BY <1>0, <3>1, <3>2 DEF TimeInv, EndsInTime
  <2> QED BY <1>1, <1>3, <2>1 DEF Request, GivesNothing, Gives
<1>4. CASE Connect
  <2>1. at' = "read" /\ now' = now /\ by' = now + budget
      BY <1>4 DEF Connect
  <2>2. now' <= by' /\ by' <= 2 * Budget /\ now' <= 2 * Budget
    <3>1. now <= Budget
        BY <1>0, <1>4, LimitAssumption DEF TimeInv, ProbeTypeOK, Connect
    <3> QED BY <1>0, <2>1, <3>1, LimitAssumption DEF ProbeTypeOK
  <2> QED BY <1>0, <2>1, <2>2 DEF TimeInv, EndsInTime
<1>5. CASE Tick
  <2>1. at \in {"connect", "read"} /\ now' = now + 1 /\ now < by /\ UNCHANGED <<at, by>>
      BY <1>5 DEF Tick
  <2>2. now' <= by' /\ by <= 2 * Budget
      BY <1>0, <2>1, LimitAssumption DEF TimeInv, ProbeTypeOK
  <2>3. now' <= 2 * Budget
      BY <1>0, <2>1, <2>2, LimitAssumption DEF ProbeTypeOK
  <2> QED BY <1>0, <2>1, <2>2, <2>3 DEF TimeInv, EndsInTime
<1>6. CASE ConnectFails \/ ConnectTimesOut \/ Parse
    BY <1>1, <1>6 DEF ConnectFails, ConnectTimesOut, Parse, GivesNothing, Gives, Follow
<1>7. CASE ServerSends \/ ServerCloses \/ Read \/ ReadEnds \/ ReadTimesOut
    BY <1>1, <1>7 DEF ServerSends, ServerCloses, Read, ReadEnds, ReadTimesOut, EndsReading
<1>8. CASE UNCHANGED probeVars
    BY <1>1, <1>8 DEF probeVars
<1> QED BY <1>2, <1>3, <1>4, <1>5, <1>6, <1>7, <1>8 DEF ProbeNext, Prober

\* Whatever the server does at each of any number of redirects, no probe
\* waits longer than twice its budget (the deadlines of request in
\* src/discovery/probe.rs).
THEOREM ProbesEndInTime == ProbeSpec => []EndsInTime
<1>1. TimeInv => EndsInTime
    BY DEF TimeInv
<1> QED BY InitTime, StepTime, <1>1, PTL DEF ProbeSpec

----------------------------------------------------------------------------
(* What a probe gives                                                      *)

\* Reads that had enough had the head.
LEMMA EnoughHasHead ==
    ASSUME ProbeTypeOK, NEW n \in 0 .. Len(page), Enough(n),
           NEW e \in 1 .. Len(page), HeadEnds(page, e)
    PROVE  e <= n
<1>1. n \in Nat /\ e \in Nat /\ Len(page) \in Nat
    BY DEF ProbeTypeOK
<1>2. CASE n >= HeadCap
    BY <1>1, <1>2, LimitAssumption DEF HeadEnds
<1>3. CASE n >= ProbeCap
    BY <1>1, <1>3, LimitAssumption DEF HeadEnds
<1>4. CASE Of(page, "headend", n) # {}
  <2>1. PICK i \in 1 .. n : page[i].kind = "headend"
      BY <1>4 DEF Of
  <2>2. ~(i \in 1 .. e - 1)
      BY <2>1 DEF HeadEnds
  <2> QED BY <1>1, <2>1, <2>2
<1> QED BY <1>2, <1>3, <1>4 DEF Enough

\* Status lines stand above the blank line, and that above the head's end.
LEMMA StatusIsWhole ==
    ASSUME ProbeTypeOK, Ordered(page), NEW n \in 0 .. Len(page),
           NEW e \in 1 .. Len(page), HeadEnds(page, e), e <= n
    PROVE  Of(page, "status", n) = Of(page, "status", Len(page))
<1>1. n \in Nat /\ e \in Nat /\ Len(page) \in Nat
    BY DEF ProbeTypeOK
<1>2. PICK b \in 1 .. e : page[b].kind = "blank"
    BY DEF HeadEnds
<1>3. ASSUME NEW j \in 1 .. Len(page), page[j].kind = "status" PROVE j \in 1 .. n
  <2>1. b \in 1 .. Len(page)
      BY <1>1, <1>2
  <2>2. j < b
      BY <1>2, <1>3, <2>1 DEF Ordered
  <2> QED BY <1>1, <1>2, <2>2
<1>4. 1 .. n \subseteq 1 .. Len(page)
    BY <1>1
<1> QED BY <1>3, <1>4 DEF Of

\* The first title stays the first as more is read.
LEMMA FirstStays ==
    ASSUME NEW r, NEW e \in Nat, NEW n \in Nat, e <= n, NEW kind, Of(r, kind, e) # {}
    PROVE  First(r, kind, n) = First(r, kind, e) /\ Of(r, kind, n) # {}
<1> DEFINE S == Of(r, kind, e)
           T == Of(r, kind, n)
<1>0. S \subseteq T /\ T \subseteq Nat /\ S # {} /\ \A i \in S : i <= e
    BY DEF Of
<1>1. PICK i \in S : \A j \in S : i <= j
  <2>1. S \in SUBSET Nat
      BY <1>0
  <2> QED BY <1>0, <2>1, LeastExists
<1>2. \A j \in T : i <= j
  <2> TAKE j \in T
  <2>1. i \in Nat /\ j \in Nat /\ i <= e
      BY <1>0, <1>1
  <2>2. CASE j <= e
    <3>1. j \in S
        BY <2>1, <2>2 DEF Of
    <3> QED BY <1>1, <3>1
  <2>3. CASE ~(j <= e)
      BY <2>1, <2>3
  <2> QED BY <2>2, <2>3
<1>3. ASSUME NEW k \in T, \A j \in T : k <= j PROVE k = i
  <2>1. k <= i /\ i <= k /\ k \in Nat /\ i \in Nat
      BY <1>0, <1>1, <1>2, <1>3
  <2> QED BY <2>1
<1>4. ASSUME NEW k \in S, \A j \in S : k <= j PROVE k = i
  <2>1. k <= i /\ i <= k /\ k \in Nat /\ i \in Nat
      BY <1>0, <1>1, <1>4
  <2> QED BY <2>1
<1>5. i \in T
    BY <1>0, <1>1
<1>6. (CHOOSE k \in S : \A j \in S : k <= j) = i
    BY <1>1, <1>4
<1>7. (CHOOSE k \in T : \A j \in T : k <= j) = i
    BY <1>2, <1>3, <1>5
<1> QED BY <1>5, <1>6, <1>7 DEF First

\* What a probe that had enough gives is what was parsed of the response.
GivenInv ==
    /\ ProbeTypeOK
    /\ Ordered(page)
    /\ at = "parse" /\ why = "enough" => Enough(got)
    /\ at = "idle" /\ why = "enough" /\ answer # NoAnswer =>
          /\ Enough(got)
          /\ answer = ResultOf(page, got) /\ app = Credible(answer)

LEMMA InitGiven == ProbeInit => GivenInv
<1> SUFFICES ASSUME ProbeInit PROVE GivenInv
    OBVIOUS
<1>1. page = <<>> /\ at = "idle" /\ why = "none"
    BY DEF ProbeInit
<1>2. Ordered(page)
    BY <1>1 DEF Ordered
<1> QED BY <1>1, <1>2, ProbeInitTyped DEF GivenInv

LEMMA StepGiven == GivenInv /\ [ProbeNext]_probeVars => GivenInv'
<1> SUFFICES ASSUME GivenInv, [ProbeNext]_probeVars PROVE GivenInv'
    OBVIOUS
<1>0. ProbeTypeOK /\ ProbeTypeOK' /\ Ordered(page)
    BY ProbeStepTyped DEF GivenInv
<1> USE DEF timing, response, verdict
<1>1. ASSUME at' \notin {"idle", "parse"}, UNCHANGED page PROVE GivenInv'
    BY <1>0, <1>1 DEF GivenInv, Ordered
<1>2. ASSUME GivesNothing PROVE GivenInv'
    BY <1>0, <1>2 DEF GivenInv, Ordered, GivesNothing, Gives
<1>3. CASE Begin \/ ServerSends \/ ServerCloses \/ Tick
    BY <1>1, <1>3 DEF Begin, ServerSends, ServerCloses, Tick
<1>4. CASE Request
    BY <1>1, <1>2, <1>4 DEF Request, Sends
<1>5. CASE ConnectFails \/ ConnectTimesOut
    BY <1>2, <1>5 DEF ConnectFails, ConnectTimesOut
<1>6. CASE Connect
  <2>1. at' = "read" /\ page' = site[path]
      BY <1>6 DEF Connect
  <2>2. Ordered(page')
      BY <1>0, <2>1, SiteAssumption DEF ProbeTypeOK
  <2>3. Ordered(page)'
      BY <2>2 DEF Ordered
  <2> QED BY <1>0, <2>1, <2>3 DEF GivenInv
<1>7. CASE Read
  <2>1. UNCHANGED page
      BY <1>7 DEF Read
  <2>2. at' = "read" \/ (at' = "parse" /\ Enough(got'))
      BY <1>7 DEF Read, EndsReading
  <2>3. Enough(got') => Enough(got)'
      BY <2>1 DEF Enough, Of
  <2> QED BY <1>0, <1>1, <2>1, <2>2, <2>3 DEF GivenInv, Ordered
<1>8. CASE ReadEnds \/ ReadTimesOut
    BY <1>0, <1>8 DEF GivenInv, Ordered, ReadEnds, ReadTimesOut, EndsReading
<1>9. CASE Parse
  <2>1. CASE Follow
      BY <1>1, <2>1 DEF Follow
  <2>2. CASE /\ Gives(ResultOf(page, got), Credible(ResultOf(page, got)))
             /\ UNCHANGED <<site, now, hop, path, timing, response>>
    <3>1. /\ at' = "idle" /\ UNCHANGED <<page, got, why>>
          /\ answer' = ResultOf(page, got) /\ app' = Credible(answer')
        BY <2>2 DEF Gives
    <3>2. why = "enough" => Enough(got)
        BY <1>9 DEF GivenInv, Parse
    <3>3. /\ Enough(got) => Enough(got)'
          /\ ResultOf(page, got)' = ResultOf(page, got)
          /\ Credible(answer)' = Credible(answer')
        BY <3>1 DEF Enough, Of, ResultOf, NameIn, Titled, First, Last, Credible
    <3>4. Ordered(page)'
        BY <1>0, <3>1 DEF Ordered
    <3> QED BY <1>0, <3>1, <3>2, <3>3, <3>4 DEF GivenInv
  <2> QED BY <1>2, <1>9, <2>1, <2>2 DEF Parse
<1>10. CASE UNCHANGED probeVars
  <2>1. UNCHANGED <<at, page, got, why, answer, app>>
      BY <1>10 DEF probeVars
  <2>2. /\ Enough(got)' = Enough(got)
        /\ ResultOf(page, got)' = ResultOf(page, got)
        /\ Credible(answer)' = Credible(answer)
      BY <2>1 DEF Enough, Of, ResultOf, NameIn, Titled, First, Last, Credible
  <2>3. Ordered(page)'
      BY <1>0, <2>1 DEF Ordered
  <2> QED BY <1>0, <2>1, <2>2, <2>3 DEF GivenInv
<1> QED BY <1>3, <1>4, <1>5, <1>6, <1>7, <1>8, <1>9, <1>10 DEF ProbeNext, Prober

\* For any response and any way the reads cut it, a probe that read until it
\* had enough gives the status of the whole response and the title in its
\* head (request and extract_name of src/discovery/probe.rs).
THEOREM AnswersAreWhole == ProbeSpec => []AnswerIsWhole
<1>1. GivenInv => AnswerIsWhole
  <2> SUFFICES ASSUME GivenInv, at = "idle", why = "enough", answer # NoAnswer,
                      NEW e \in 1 .. Len(page), HeadEnds(page, e)
               PROVE  /\ answer.status = Last(page, "status", Len(page))
                      /\ Titled(page, e) =>
                            /\ answer.title = First(page, "title", e)
                            /\ app = Credible(ResultOf(page, Len(page)))
      BY DEF AnswerIsWhole
  <2>1. /\ ProbeTypeOK /\ Ordered(page) /\ Enough(got)
        /\ answer = ResultOf(page, got) /\ app = Credible(answer)
      BY DEF GivenInv
  <2>2. got \in 0 .. Len(page) /\ got \in Nat /\ Len(page) \in Nat /\ e \in Nat
      BY <2>1 DEF ProbeTypeOK
  <2>3. e <= got /\ e <= Len(page)
      BY <2>1, <2>2, EnoughHasHead
  <2>4. Last(page, "status", got) = Last(page, "status", Len(page))
      BY <2>1, <2>2, <2>3, StatusIsWhole DEF Last
  <2>5. ASSUME Titled(page, e)
        PROVE  /\ NameIn(page, got) = First(page, "title", e)
               /\ NameIn(page, Len(page)) = First(page, "title", e)
    <3>1. /\ First(page, "title", got) = First(page, "title", e) /\ Of(page, "title", got) # {}
          /\ First(page, "title", Len(page)) = First(page, "title", e)
          /\ Of(page, "title", Len(page)) # {}
        BY <2>2, <2>3, <2>5, FirstStays DEF Titled
    <3> QED BY <2>5, <3>1 DEF NameIn, Titled
  <2> QED BY <2>1, <2>4, <2>5 DEF ResultOf
<1> QED BY InitGiven, StepGiven, <1>1, PTL DEF ProbeSpec
=============================================================================
