--------------------------- MODULE CatalogNames ---------------------------
(***************************************************************************)
(* What a scan makes of the listening sockets, and the names its apps get: *)
(* src/discovery/listener.rs filters the sockets, which come from a HashSet*)
(* in any order, and src/catalog.rs merges the manual apps with what is    *)
(* cached in a HashMap.  A client addresses an app by its name, so names   *)
(* must be unique and must not depend on either order.                     *)
(*                                                                         *)
(* A name is the sequence of its words (slugify joins them with single     *)
(* dashes): a numeral is the number it stands for, any other word a number *)
(* above the ports; <<>> is no name.  A process is its name so written.    *)
(* When scans happen and which probes are credible is Discovery's subject. *)
(***************************************************************************)
EXTENDS Naturals, Sequences, FiniteSets

CONSTANTS
    Port,       \* ports in use
    Process,    \* names of processes that can be read, never <<>>
    Title,      \* slugs of page titles, <<>> for none or one without a letter
    Filters,    \* the filters a configuration may ask for
    Manuals,    \* the lists of manual apps it may have
    Worlds,     \* what may be listening: the owners of the addresses in use
    App         \* the word "app"

Word == Nat
Name == Seq(Word)
Bind == {"wildcard", "wildcard6", "loopback", "lan", "loopback6"}

\* In the order of the strings 127.0.0.1, 192.168.0.1 and ::1.
Host == 1 .. 3
LocalHost(bind) ==
    CASE bind \in {"wildcard", "wildcard6", "localhost", "loopback"} -> 1
      [] bind = "lan" -> 2
      [] bind = "loopback6" -> 3

Address == [bind : Bind, port : Port]
Origin == [host : Host, port : Port]
OriginOf(a) == [host |-> LocalHost(a.bind), port |-> a.port]

\* A listener without an owner that can be read has process <<>>; two
\* processes of one name at one socket are one listener here.
Listener == [bind : Bind, port : Port, process : Process \cup {<<>>}]

FilterType ==
    [minPort : Nat, loopbackOnly : BOOLEAN, ports : SUBSET Port, processes : SUBSET Process,
     origins : SUBSET [bind : Bind \cup {"localhost"}, port : Port], unattributed : BOOLEAN]

ManualApp == [name : Name, port : Port]

\* validate: "duplicate app name".
ValidManual(apps) == \A a, b \in apps : a.name = b.name => a = b

ASSUME PortAssumption == Port \subseteq Nat \ {0}
ASSUME NameAssumption == Process \subseteq Name \ {<<>>} /\ Title \subseteq Name /\ App \in Word
ASSUME FilterAssumption == Filters # {} /\ Filters \subseteq FilterType
ASSUME ManualAssumption ==
    /\ Manuals # {}
    /\ \A apps \in Manuals : apps \subseteq ManualApp /\ IsFiniteSet(apps) /\ ValidManual(apps)
ASSUME WorldAssumption ==
    /\ Worlds # {}
    /\ \A w \in Worlds : DOMAIN w \subseteq Address /\ w \in [DOMAIN w -> SUBSET Process]

VARIABLES
    at,         \* where the scan is
    filter,     \* the scan's ListenerFilter
    left,       \* the listeners it has not come to
    candidates, \* FilterOutcome.candidates
    skipped,    \* FilterOutcome.skipped
    cache,      \* DiscoveryEngine.cache, without the times
    unnamed,    \* the cached apps that rebuild has not come to
    apps,       \* the apps of the catalog that it builds
    catalog,    \* the one that clients see
    shown       \* history: the cache it was built from

NothingCached == [o \in {} |-> [title |-> <<>>, process |-> <<>>]]

scanVars == <<filter, left, candidates, skipped>>
nameVars == <<unnamed, apps>>
catalogVars == <<at, scanVars, cache, nameVars, catalog, shown>>

----------------------------------------------------------------------------
(* listener.rs                                                             *)

AddressOf(l) == [bind |-> l.bind, port |-> l.port]

\* listeners::get_all sees sockets with an owner, /proc/net/tcp all of them.
Listing(w, f) ==
    {l \in Listener :
        /\ AddressOf(l) \in DOMAIN w
        /\ \/ l.process \in w[AddressOf(l)]
           \/ f.unattributed /\ l.process = <<>> /\ w[AddressOf(l)] = {}}

\* The checks in their order.
Checks == <<"below_min_port", "excluded_port", "excluded_process", "not_local_bind", "excluded_origin">>

\* parse_authority writes localhost and the wildcards as 127.0.0.1.
Excluded(f) == {OriginOf(a) : a \in f.origins}

Fails(l, f, check) ==
    CASE check = "below_min_port" -> l.port < f.minPort
      [] check = "excluded_port" -> l.port \in f.ports
      [] check = "excluded_process" -> l.process \in f.processes
      [] check = "not_local_bind" -> f.loopbackOnly /\ l.bind = "lan"
      [] check = "excluded_origin" -> OriginOf(l) \in Excluded(f)

Passes(l, f) == \A i \in DOMAIN Checks : ~Fails(l, f, Checks[i])

FirstFailed(l, f) ==
    Checks[CHOOSE i \in DOMAIN Checks :
              Fails(l, f, Checks[i]) /\ \A j \in 1 .. i - 1 : ~Fails(l, f, Checks[j])]

Seen == {OriginOf(c) : c \in candidates}

Enumerate ==
    /\ at = "idle"
    /\ \E w \in Worlds, f \in Filters :
          /\ filter' = f
          /\ left' = Listing(w, f)
    /\ candidates' = {}
    /\ skipped' = {}
    /\ at' = "filter"
    /\ UNCHANGED <<cache, nameVars, catalog, shown>>

\* Discovery is off: the cache is cleared, the manual apps are listed.
ScanDisabled ==
    /\ at = "idle"
    /\ cache' = NothingCached
    /\ at' = "rebuild"
    /\ UNCHANGED <<scanVars, nameVars, catalog, shown>>

FilterStep(l) ==
    /\ at = "filter"
    /\ l \in left
    /\ left' = left \ {l}
    /\ UNCHANGED <<at, filter, cache, nameVars, catalog, shown>>

Skip(l, reason) ==
    /\ skipped' = skipped \cup {[listener |-> l, reason |-> reason]}
    /\ UNCHANGED candidates

Keep(l) ==
    /\ candidates' = candidates \cup {l}
    /\ UNCHANGED skipped

\* Variant: an origin counts as seen although the socket that had it was
\* dropped, so that the socket of a proxy takes an app's place.
FilterSeenFirst(l) ==
    /\ FilterStep(l)
    /\ IF OriginOf(l) \in Seen \cup {OriginOf(s.listener) : s \in skipped}
       THEN Skip(l, "duplicate")
       ELSE IF Passes(l, filter) THEN Keep(l) ELSE Skip(l, FirstFailed(l, filter))

\* Variant: two sockets of one origin are two candidates.
FilterUnseen(l) ==
    /\ FilterStep(l)
    /\ IF Passes(l, filter) THEN Keep(l) ELSE Skip(l, FirstFailed(l, filter))

\* One turn of the loop of filter_listeners_detailed.
Filter(l) ==
    /\ FilterStep(l)
    /\ \/ ~Passes(l, filter) /\ Skip(l, FirstFailed(l, filter))
       \/ Passes(l, filter) /\ OriginOf(l) \in Seen /\ Skip(l, "duplicate")
       \/ Passes(l, filter) /\ OriginOf(l) \notin Seen /\ Keep(l)

----------------------------------------------------------------------------
(* DiscoveryEngine::scan_once                                              *)

Owner(o) == (CHOOSE c \in candidates : OriginOf(c) = o).process

\* Of the candidates some are cached and not due, and stay what they were;
\* the others are probed: they are dropped, or cached anew with the title
\* that the probe found and the owner that the filter kept.
Verify ==
    /\ at = "filter"
    /\ left = {}
    /\ \E fresh \in SUBSET (Seen \cap DOMAIN cache) :
          \E found \in SUBSET (Seen \ fresh) :
             \E title \in [found -> Title] :
                cache' = [o \in fresh \cup found |->
                            IF o \in fresh
                            THEN cache[o]
                            ELSE [title |-> title[o], process |-> Owner(o)]]
    /\ at' = "rebuild"
    /\ UNCHANGED <<scanVars, nameVars, catalog, shown>>

----------------------------------------------------------------------------
(* Catalog::rebuild                                                        *)

NameBase(d) ==
    CASE d.title # <<>> -> d.title
      [] d.title = <<>> /\ d.process # <<>> -> d.process
      [] OTHER -> <<App>>

Used == {a.name : a \in apps}

\* Variant: a name with the port added is taken to be unique.
UniqueUpToPort(base, port, used) ==
    IF base \notin used THEN base ELSE base \o <<port>>

UniqueName(base, port, used) ==
    IF base \notin used THEN base
    ELSE IF base \o <<port>> \notin used THEN base \o <<port>>
    ELSE base \o <<port, CHOOSE n \in 2 .. Cardinality(used) + 2 :
                            /\ base \o <<port, n>> \notin used
                            /\ \A m \in 2 .. n - 1 : base \o <<port, m>> \in used>>

Before(o, p) == o.port < p.port \/ (o.port = p.port /\ o.host < p.host)

\* The manual apps first, with the names they have.
StartRebuild ==
    /\ at = "rebuild"
    /\ \E manual \in Manuals :
          apps' = {[name |-> a.name, origin |-> [host |-> 1, port |-> a.port],
                    source |-> "manual"] : a \in manual}
    /\ unnamed' = DOMAIN cache
    /\ at' = "name"
    /\ UNCHANGED <<scanVars, cache, catalog, shown>>

Shadowed(o) == \E a \in apps : a.source = "manual" /\ a.origin = o

NameApp(o) ==
    /\ unnamed' = unnamed \ {o}
    /\ apps' = IF Shadowed(o) THEN apps
               ELSE apps \cup
                    {[name |-> UniqueName(NameBase(cache[o]), o.port, Used),
                      origin |-> o, source |-> "discovered"]}
    /\ UNCHANGED <<at, scanVars, cache, catalog, shown>>

\* Variant: in the order of the HashMap.
NameInAnyOrder(o) ==
    /\ at = "name"
    /\ o \in unnamed
    /\ NameApp(o)

\* The next of the discovered apps, sorted by port, then by host.
NameNext(o) ==
    /\ at = "name"
    /\ o \in unnamed
    /\ \A p \in unnamed \ {o} : Before(o, p)
    /\ NameApp(o)

Publish ==
    /\ at = "name"
    /\ unnamed = {}
    /\ catalog' = apps
    /\ shown' = cache
    /\ at' = "idle"
    /\ UNCHANGED <<scanVars, cache, nameVars>>

----------------------------------------------------------------------------
\* run() builds the first catalog before the engine starts.
CatalogInit ==
    /\ at = "rebuild"
    /\ filter \in Filters
    /\ left = {} /\ candidates = {} /\ skipped = {}
    /\ cache = NothingCached
    /\ unnamed = {} /\ apps = {} /\ catalog = {}
    /\ shown = cache

CatalogNext ==
    \/ Enumerate \/ ScanDisabled \/ Verify \/ StartRebuild \/ Publish
    \/ \E l \in left : Filter(l)
    \/ \E o \in unnamed : NameNext(o)

CatalogSpec == CatalogInit /\ [][CatalogNext]_catalogVars

----------------------------------------------------------------------------
(* Properties                                                              *)

Found == [title : Title, process : Process \cup {<<>>}]
CatalogApp == [name : Name, origin : Origin, source : {"manual", "discovered"}]

\* Types; between the filter and the next scan every origin has one owner.
CatalogTypeOK ==
    /\ at \in {"idle", "filter", "rebuild", "name"}
    /\ filter \in Filters
    /\ left \subseteq Listener
    /\ candidates \subseteq Listener
    /\ \A c, d \in candidates : OriginOf(c) = OriginOf(d) => c = d
    /\ \A s \in skipped : s.listener \in Listener
    /\ DOMAIN cache \subseteq Origin
    /\ cache \in [DOMAIN cache -> Found]
    /\ unnamed \subseteq DOMAIN cache
    /\ apps \subseteq CatalogApp
    /\ catalog \subseteq CatalogApp

\* The order in which the system lists the sockets decides which owner of
\* an origin is shown, and nothing else: the origins that a scan goes on with
\* are those of all sockets that pass the filter, although a socket is dropped
\* as soon as another had its origin.  The owner shown, and with it the name of
\* an app without a title, may change from scan to scan with the listing.
OrderDecidesOwnerOnly ==
    at = "filter" /\ left = {} =>
       Seen = {OriginOf(l) : l \in {k \in candidates \cup {s.listener : s \in skipped} :
                                      Passes(k, filter)}}

\* No two apps share a name, whatever titles and manual names look like: a
\* title may read like another app's title with the port added.
NamesAreUnique == \A a, b \in apps : a.name = b.name => a = b

\* Every app found is listed, and once: under its manual name or its own.
ListedOnce ==
    at = "idle" => \A o \in DOMAIN cache :
       /\ \E a \in catalog : a.origin = o
       /\ \A a, b \in catalog : a.origin = o /\ b.origin = o /\ a # b =>
             a.source = "manual" /\ b.source = "manual"

\* A name leads to one app and an app found has one name, however titles,
\* ports and manual apps collide (unique_name, rebuild).
NamesAndAppsMatch == NamesAreUnique /\ ListedOnce

ManualOf(c) == {a \in c : a.source = "manual"}

\* What was found up to o has the same base names in both caches.
SameUpTo(o, old, new) ==
    \A p \in Origin : p = o \/ Before(p, o) =>
       /\ p \in DOMAIN old <=> p \in DOMAIN new
       /\ p \in DOMAIN old => NameBase(old[p]) = NameBase(new[p])

\* From one catalog to the next a discovered app keeps its name, unless a
\* manual app or an app on a lower port came, went or was renamed (src/catalog.rs:
\* otherwise "which of two same-named apps gets the plain name" would "flip
\* between scans").
NamesAreStable ==
    [][ManualOf(catalog') = ManualOf(catalog) =>
         \A a \in catalog \ ManualOf(catalog) :
            SameUpTo(a.origin, shown, shown') => a \in catalog']_catalogVars
=============================================================================
