---------------------------- MODULE ServeHandler ----------------------------
(***************************************************************************)
(* src/http.rs, the serve side: connections of paired devices, the streams *)
(* on them, and the per-device limiter every stream passes before its      *)
(* requests are handled: a semaphore, then a wait for the rate limiter.    *)
(*                                                                         *)
(* A connection is one accept() call, a stream one spawned task.  Devices  *)
(* are paired and revoked, and the configuration reloaded, at any moment.  *)
(* Limiters are shared by reference: a connection keeps the one it fetched *)
(* when a reload empties the cache, so each has an identity, its index in  *)
(* `made`.  What a route does is AuthState's (rename, invite) and          *)
(* Discovery's (discover); here a request only begins and ends.            *)
(***************************************************************************)
EXTENDS Naturals, Sequences, FiniteSets

CONSTANTS
    Device,
    Conn,       \* connections that may be open at once
    Stream,     \* streams that may be open at once
    Reloader,   \* IPC clients that may be inside Reload at once
    NoConn,
    Cap,        \* values of serve.max_concurrent_streams
    MaxReloads  \* bound on the reloads of a behaviour

ASSUME CapAssumption == Cap \subseteq Nat \ {0} /\ Cap # {}
ASSUME ReloadAssumption == MaxReloads \in Nat
ASSUME ConnAssumption == NoConn \notin Conn
ASSUME StreamAssumption == IsFiniteSet(Stream)

VARIABLES
    authorized, \* AuthState: the devices is_authorized says yes to
    config,     \* the shared configuration: its serve limits, and how often it was replaced
    configGen,  \* config_generation
    reloading,  \* Reload handlers that replaced the configuration and did not bump yet
    limiterGen, \* limiter_generation
    limiters,   \* the cache: each device's limiter, 0 for none
    made,       \* every limiter created so far
    conn,       \* each accept() call
    stream      \* each stream task

vars == <<authorized, config, configGen, reloading, limiterGen, limiters, made, conn, stream>>

NoLimiter == 0
FreeStream == [at |-> "free", on |-> NoConn, limiter |-> NoLimiter, late |-> FALSE, asked |-> TRUE]
ClosedConn(d) == [at |-> "closed", dev |-> d, seen |-> 0, limiter |-> NoLimiter]

\* A semaphore permit is held from try_acquire to the end of serve_stream,
\* which an upgrade reaches when the tunnel takes the stream over.
Holding == {"waiting", "serving", "handling"}
Holders(l) == {s \in Stream : stream[s].limiter = l /\ stream[s].at \in Holding}

Dev(s) == conn[stream[s].on].dev
Alive(s) == stream[s].on # NoConn /\ conn[stream[s].on].at # "closed"

----------------------------------------------------------------------------
(* Devices and reloads                                                     *)

\* A stream opened in vain is an ordinary one once its device is back.
Pair(d) ==
    /\ d \notin authorized
    /\ authorized' = authorized \cup {d}
    /\ stream' = [s \in Stream |->
                    IF stream[s].late /\ Dev(s) = d THEN [stream[s] EXCEPT !.late = FALSE]
                    ELSE stream[s]]
    /\ UNCHANGED <<config, configGen, reloading, limiterGen, limiters, made, conn>>

Revoke(d) ==
    /\ d \in authorized
    /\ authorized' = authorized \ {d}
    /\ UNCHANGED <<config, configGen, reloading, limiterGen, limiters, made, conn, stream>>

\* Reload, part one: *cfg = new_cfg under the write lock.
ReplaceConfig(r, cap) ==
    /\ config.version < MaxReloads
    /\ r \notin reloading
    /\ config' = [version |-> config.version + 1, cap |-> cap]
    /\ reloading' = reloading \cup {r}
    /\ UNCHANGED <<authorized, configGen, limiterGen, limiters, made, conn, stream>>

\* Part two: config_generation.fetch_add(1).
BumpGeneration(r) ==
    /\ r \in reloading
    /\ configGen' = configGen + 1
    /\ reloading' = reloading \ {r}
    /\ UNCHANGED <<authorized, config, limiterGen, limiters, made, conn, stream>>

----------------------------------------------------------------------------
(* accept(): one connection                                                *)

\* The slot of a connection is reused when nothing refers to it any more.
Connect(c, d) ==
    /\ conn[c].at = "closed"
    /\ \A s \in Stream : stream[s].on # c
    /\ conn' = [conn EXCEPT ![c] = [ClosedConn(d) EXCEPT !.at = "arrived"]]
    /\ UNCHANGED <<authorized, config, configGen, reloading, limiterGen, limiters, made, stream>>

\* close() fails every stream that is not being served yet; a task that
\* already runs notices on its own.
Closes(c) ==
    /\ conn' = [conn EXCEPT ![c] = ClosedConn(conn[c].dev)]
    /\ stream' = [s \in Stream |->
                    IF stream[s].on = c /\ stream[s].at = "opened" THEN FreeStream ELSE stream[s]]

RefuseConnection(c) ==
    /\ conn[c].at = "arrived"
    /\ conn[c].dev \notin authorized
    /\ Closes(c)
    /\ UNCHANGED <<authorized, config, configGen, reloading, limiterGen, limiters, made>>

Admit(c) ==
    /\ conn[c].at = "arrived"
    /\ conn[c].dev \in authorized
    /\ conn' = [conn EXCEPT ![c].at = "load"]
    /\ UNCHANGED <<authorized, config, configGen, reloading, limiterGen, limiters, made, stream>>

\* get_or_create_limiter: current_gen, then last_gen, are loaded with no
\* lock held.
LoadGeneration(c) ==
    /\ conn[c].at = "load"
    /\ conn' = [conn EXCEPT ![c].at = "compare", ![c].seen = configGen]
    /\ UNCHANGED <<authorized, config, configGen, reloading, limiterGen, limiters, made, stream>>

CompareGeneration(c) ==
    /\ conn[c].at = "compare"
    /\ conn' = [conn EXCEPT ![c].at = IF conn[c].seen # limiterGen THEN "clear" ELSE "take"]
    /\ UNCHANGED <<authorized, config, configGen, reloading, limiterGen, limiters, made, stream>>

\* Variant: the generation is recorded and the cache left as it is.
RecordGeneration(c) ==
    /\ conn[c].at = "clear"
    /\ limiterGen' = conn[c].seen
    /\ conn' = [conn EXCEPT ![c].at = "take"]
    /\ UNCHANGED <<authorized, config, configGen, reloading, limiters, made, stream>>

\* Under the cache's lock, after a second look; the generation stored may
\* be older than the one another connection stored meanwhile.
ClearCache(c) ==
    /\ conn[c].at = "clear"
    /\ IF limiterGen # conn[c].seen
       THEN limiters' = [d \in Device |-> NoLimiter] /\ limiterGen' = conn[c].seen
       ELSE UNCHANGED <<limiters, limiterGen>>
    /\ conn' = [conn EXCEPT ![c].at = "take"]
    /\ UNCHANGED <<authorized, config, configGen, reloading, made, stream>>

\* Variant: one permit short.
NewLimiterOneShort == [cap |-> config.cap - 1, version |-> config.version]

NewLimiter == [cap |-> config.cap, version |-> config.version]

\* Variant: the cache's lock is let go between the lookup and the insertion,
\* so that two connections of a device may both insert.
TakeOwnLimiter(c) ==
    /\ conn[c].at = "take"
    /\ made' = Append(made, NewLimiter)
    /\ limiters' = [limiters EXCEPT ![conn[c].dev] = Len(made')]
    /\ conn' = [conn EXCEPT ![c].at = "serving", ![c].limiter = Len(made')]
    /\ UNCHANGED <<authorized, config, configGen, reloading, limiterGen, stream>>

\* entry(node).or_insert_with(..).clone(), under the configuration's read
\* lock and the cache's lock.
TakeLimiter(c) ==
    /\ conn[c].at = "take"
    /\ IF limiters[conn[c].dev] = NoLimiter
       THEN /\ made' = Append(made, NewLimiter)
            /\ limiters' = [limiters EXCEPT ![conn[c].dev] = Len(made')]
       ELSE UNCHANGED <<made, limiters>>
    /\ conn' = [conn EXCEPT ![c].at = "serving", ![c].limiter = limiters'[conn[c].dev]]
    /\ UNCHANGED <<authorized, config, configGen, reloading, limiterGen, stream>>

\* The client goes away, at any time.
Disconnect(c) ==
    /\ conn[c].at # "closed"
    /\ Closes(c)
    /\ UNCHANGED <<authorized, config, configGen, reloading, limiterGen, limiters, made>>

----------------------------------------------------------------------------
(* Streams                                                                 *)

\* The client may open streams as soon as the handshake is done.
OpenStream(c, s) ==
    /\ conn[c].at # "closed"
    /\ stream[s].at = "free"
    /\ stream' = [stream EXCEPT ![s] = [FreeStream EXCEPT
                    !.at = "opened", !.on = c, !.late = conn[c].dev \notin authorized]]
    /\ UNCHANGED <<authorized, config, configGen, reloading, limiterGen, limiters, made, conn>>

\* Variant: authorization is checked per connection only.
AcceptUnchecked(c, s) ==
    /\ conn[c].at = "serving"
    /\ stream[s].at = "opened" /\ stream[s].on = c
    /\ stream' = [stream EXCEPT ![s].at = "spawned", ![s].limiter = conn[c].limiter]
    /\ UNCHANGED <<authorized, config, configGen, reloading, limiterGen, limiters, made, conn>>

\* accept_bi() returns a stream; the device is looked up again.
AcceptStream(c, s) ==
    /\ conn[c].at = "serving"
    /\ stream[s].at = "opened" /\ stream[s].on = c
    /\ IF conn[c].dev \in authorized
       THEN /\ stream' = [stream EXCEPT ![s].at = "spawned", ![s].limiter = conn[c].limiter]
            /\ UNCHANGED conn
       ELSE Closes(c)
    /\ UNCHANGED <<authorized, config, configGen, reloading, limiterGen, limiters, made>>

\* try_acquire_concurrency: the permit is kept while the rate limiter waits.
AcquirePermit(s) ==
    /\ stream[s].at = "spawned"
    /\ LET l == stream[s].limiter IN Cardinality(Holders(l)) < made[l].cap
    /\ stream' = [stream EXCEPT ![s].at = "waiting"]
    /\ UNCHANGED <<authorized, config, configGen, reloading, limiterGen, limiters, made, conn>>

\* No permit: the stream is reset.
RejectStream(s) ==
    /\ stream[s].at = "spawned"
    /\ LET l == stream[s].limiter IN Cardinality(Holders(l)) >= made[l].cap
    /\ stream' = [stream EXCEPT ![s] = FreeStream]
    /\ UNCHANGED <<authorized, config, configGen, reloading, limiterGen, limiters, made, conn>>

\* acquire_rate_token returns, sooner or later.
GrantToken(s) ==
    /\ stream[s].at = "waiting"
    /\ stream' = [stream EXCEPT ![s].at = "serving"]
    /\ UNCHANGED <<authorized, config, configGen, reloading, limiterGen, limiters, made, conn>>

\* serve_stream: requests follow each other on a stream (keep-alive), and
\* the device is not looked up for each.
BeginRequest(s) ==
    /\ stream[s].at = "serving"
    /\ Alive(s)
    /\ stream' = [stream EXCEPT ![s].at = "handling", ![s].asked = Dev(s) \in authorized]
    /\ UNCHANGED <<authorized, config, configGen, reloading, limiterGen, limiters, made, conn>>

EndRequest(s) ==
    /\ stream[s].at = "handling"
    /\ stream' = [stream EXCEPT ![s].at = "serving", ![s].asked = TRUE]
    /\ UNCHANGED <<authorized, config, configGen, reloading, limiterGen, limiters, made, conn>>

\* proxy_upgrade answered 101: hyper hands the stream to the tunnel's task
\* and serve_stream returns.
Upgrade(s) ==
    /\ stream[s].at = "handling"
    /\ Alive(s)
    /\ stream' = [stream EXCEPT ![s].at = "tunnel", ![s].asked = TRUE]
    /\ UNCHANGED <<authorized, config, configGen, reloading, limiterGen, limiters, made, conn>>

\* The client ends the stream, or the connection under it is gone.
EndStream(s) ==
    /\ stream[s].at \in {"serving", "tunnel"} \/ (stream[s].at = "handling" /\ ~Alive(s))
    /\ stream' = [stream EXCEPT ![s] = FreeStream]
    /\ UNCHANGED <<authorized, config, configGen, reloading, limiterGen, limiters, made, conn>>

----------------------------------------------------------------------------
Init ==
    /\ authorized \in SUBSET Device
    /\ \E cap \in Cap : config = [version |-> 0, cap |-> cap]
    /\ configGen = 0
    /\ reloading = {}
    /\ limiterGen = 0
    /\ limiters = [d \in Device |-> NoLimiter]
    /\ made = <<>>
    /\ conn \in [Conn -> {ClosedConn(d) : d \in Device}]
    /\ stream = [s \in Stream |-> FreeStream]

\* What the server does with connection c without being asked.
Handshake(c) ==
    \/ RefuseConnection(c) \/ Admit(c)
    \/ LoadGeneration(c) \/ CompareGeneration(c) \/ ClearCache(c) \/ TakeLimiter(c)

Client ==
    \/ \E c \in Conn, d \in Device : Connect(c, d)
    \/ \E c \in Conn, s \in Stream : OpenStream(c, s)
    \/ \E c \in Conn : Disconnect(c)
    \/ \E s \in Stream : BeginRequest(s)

Owner ==
    \/ \E d \in Device : Pair(d) \/ Revoke(d)
    \/ \E r \in Reloader : BumpGeneration(r) \/ \E cap \in Cap : ReplaceConfig(r, cap)

Server ==
    \/ \E c \in Conn : Handshake(c)
    \/ \E c \in Conn, s \in Stream : AcceptStream(c, s)
    \/ \E s \in Stream : AcquirePermit(s) \/ RejectStream(s) \/ GrantToken(s)
    \/ \E s \in Stream : EndRequest(s) \/ Upgrade(s) \/ EndStream(s)

Next == Client \/ Owner \/ Server

Spec == Init /\ [][Next]_vars

----------------------------------------------------------------------------
(* Properties                                                              *)

ConnState ==
    [at : {"closed", "arrived", "load", "compare", "clear", "take", "serving"},
     dev : Device, seen : Nat, limiter : Nat]

StreamState ==
    [at : {"free", "opened", "spawned", "tunnel"} \cup Holding, on : Conn \cup {NoConn},
     limiter : Nat, late : BOOLEAN, asked : BOOLEAN]

TypeOK ==
    /\ authorized \subseteq Device
    /\ config \in [version : 0 .. MaxReloads, cap : Cap]
    /\ configGen \in Nat
    /\ reloading \subseteq Reloader
    /\ limiterGen \in Nat
    /\ made \in Seq([cap : Cap, version : Nat])
    /\ limiters \in [Device -> 0 .. Len(made)]
    /\ conn \in [Conn -> ConnState]
    /\ stream \in [Stream -> StreamState]

\* A connection accepted after a reload was finished works with limits at
\* least as new as that reload's, whichever connections were comparing,
\* clearing and inserting at the same time (get_or_create_limiter).
LimitsAreCurrent ==
    \A c \in Conn : conn[c].at = "serving" => made[conn[c].limiter].version >= conn[c].seen

InUse(d) == {s \in Stream : stream[s].at \in Holding /\ Dev(s) = d}

\* As long as no reload replaced the limits, all the connections of one
\* device together hold no more permits than the device may
\* (NodeLimiter is "per-node": get_or_create_limiter, try_acquire_concurrency).
DeviceCapped ==
    config.version = 0 => \A d \in Device : Cardinality(InUse(d)) <= config.cap

\* A stream that a device opens after its revocation is never let in,
\* however long the connection under it has been served (accept's second
\* check), unless the device is paired again.
LateStreamsRefused == \A s \in Stream : stream[s].late => stream[s].at = "opened"

\* docs/threat-model.md: "Authorization is re-checked on every request".
RequestsRechecked == \A s \in Stream : stream[s].asked

Open(d) == {s \in Stream : stream[s].at \in Holding \cup {"tunnel"} /\ Dev(s) = d}

\* src/config.rs: "Maximum concurrent streams per device."
StreamsCapped ==
    config.version = 0 => \A d \in Device : Cardinality(Open(d)) <= config.cap

Current(s) == conn[stream[s].on].at = "serving" /\ conn[stream[s].on].seen = configGen

\* src/http.rs:171: "Re-check under the lock to avoid races."  When no reload is
\* in progress the connections that came since the last one share a cap.  A
\* connection that stalls after it loaded the generation, past a reload, finds
\* another one recorded, clears the cache and puts its older one back; the next
\* connection clears once more, and beside those accepted between the two the
\* device has another limiter.
CappedSinceReload ==
    reloading = {} =>
       \A d \in Device : Cardinality({s \in InUse(d) : Current(s)}) <= config.cap
=============================================================================
