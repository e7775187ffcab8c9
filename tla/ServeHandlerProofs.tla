------------------------- MODULE ServeHandlerProofs -------------------------
(* What holds of ServeHandler for any devices, connections, streams, caps  *)
(* and any number of reloads.                                              *)
EXTENDS ServeHandler, FiniteSetTheorems, TLAPS

LEMMA InitTyped == Init => TypeOK
<1> SUFFICES ASSUME Init PROVE TypeOK
    OBVIOUS
<1> USE CapAssumption, ReloadAssumption, ConnAssumption DEF Init
<1>1. config \in [version : 0 .. MaxReloads, cap : Cap]
    OBVIOUS
<1>2. limiters \in [Device -> 0 .. Len(made)]
    BY DEF NoLimiter
<1>3. conn \in [Conn -> ConnState]
    BY DEF ClosedConn, ConnState, NoLimiter
<1>4. stream \in [Stream -> StreamState]
    BY DEF FreeStream, StreamState, NoLimiter
<1> QED BY <1>1, <1>2, <1>3, <1>4 DEF TypeOK

\* The parts of the state most actions leave alone.
Shared == <<config, configGen, reloading, limiterGen, limiters, made>>

LEMMA FreeTyped == FreeStream \in StreamState
BY DEF FreeStream, StreamState, NoLimiter

LEMMA ClosedTyped == ASSUME NEW d \in Device PROVE ClosedConn(d) \in ConnState
BY DEF ClosedConn, ConnState, NoLimiter

LEMMA ClosesTyped ==
    ASSUME TypeOK, NEW c \in Conn, Closes(c)
    PROVE  conn' \in [Conn -> ConnState] /\ stream' \in [Stream -> StreamState]
<1>1. conn[c].dev \in Device
    BY DEF TypeOK, ConnState
<1>2. conn' \in [Conn -> ConnState]
    BY <1>1, ClosedTyped DEF TypeOK, Closes
<1>3. stream' \in [Stream -> StreamState]
    BY FreeTyped DEF TypeOK, Closes
<1> QED BY <1>2, <1>3

\* Steps of the handshake and of the streams rewrite one record, fields of
\* which stay in their ranges.
LEMMA NextTyped == TypeOK /\ [Next]_vars => TypeOK'
<1> SUFFICES ASSUME TypeOK, [Next]_vars PROVE TypeOK'
    OBVIOUS
<1> USE CapAssumption, ReloadAssumption
<1>1. CASE UNCHANGED vars
    BY <1>1 DEF TypeOK, vars, ConnState, StreamState
<1>2. ASSUME NEW d \in Device, Pair(d) PROVE TypeOK'
  <2>1. stream' \in [Stream -> StreamState]
      BY <1>2 DEF TypeOK, Pair, StreamState
  <2> QED BY <1>2, <2>1 DEF TypeOK, Pair
<1>3. ASSUME NEW d \in Device, Revoke(d) PROVE TypeOK'
    BY <1>3 DEF TypeOK, Revoke
<1>4. ASSUME NEW r \in Reloader, NEW cap \in Cap, ReplaceConfig(r, cap) PROVE TypeOK'
  <2>1. config' \in [version : 0 .. MaxReloads, cap : Cap]
      BY <1>4 DEF TypeOK, ReplaceConfig
  <2> QED BY <1>4, <2>1 DEF TypeOK, ReplaceConfig
<1>5. ASSUME NEW r \in Reloader, BumpGeneration(r) PROVE TypeOK'
    BY <1>5 DEF TypeOK, BumpGeneration
<1>6. ASSUME NEW c \in Conn, NEW d \in Device, Connect(c, d) PROVE TypeOK'
  <2>1. conn' \in [Conn -> ConnState]
      BY <1>6 DEF TypeOK, Connect, ClosedConn, ConnState, NoLimiter
  <2> QED BY <1>6, <2>1 DEF TypeOK, Connect
<1>7. ASSUME NEW c \in Conn, RefuseConnection(c) PROVE TypeOK'
    BY <1>7, ClosesTyped DEF TypeOK, RefuseConnection
<1>8. ASSUME NEW c \in Conn, Admit(c) PROVE TypeOK'
    BY <1>8 DEF TypeOK, Admit, ConnState
<1>9. ASSUME NEW c \in Conn, LoadGeneration(c) PROVE TypeOK'
    BY <1>9 DEF TypeOK, LoadGeneration, ConnState
<1>10. ASSUME NEW c \in Conn, CompareGeneration(c) PROVE TypeOK'
    BY <1>10 DEF TypeOK, CompareGeneration, ConnState
<1>11. ASSUME NEW c \in Conn, ClearCache(c) PROVE TypeOK'
  <2>1. conn' \in [Conn -> ConnState]
      BY <1>11 DEF TypeOK, ClearCache, ConnState
  <2>2. limiters' \in [Device -> 0 .. Len(made)] /\ limiterGen' \in Nat
    <3>1. Len(made) \in Nat /\ conn[c].seen \in Nat
        BY DEF TypeOK, ConnState
    <3>2. CASE limiterGen # conn[c].seen
        BY <1>11, <3>1, <3>2 DEF TypeOK, ClearCache, NoLimiter
    <3>3. CASE limiterGen = conn[c].seen
        BY <1>11, <3>3 DEF TypeOK, ClearCache
    <3> QED BY <3>2, <3>3
  <2> QED BY <1>11, <2>1, <2>2 DEF TypeOK, ClearCache
<1>12. ASSUME NEW c \in Conn, TakeLimiter(c) PROVE TypeOK'
  <2>1. NewLimiter \in [cap : Cap, version : Nat]
      BY DEF TypeOK, NewLimiter
  <2>2. made' \in Seq([cap : Cap, version : Nat]) /\ Len(made') >= Len(made)
    <3>1. CASE limiters[conn[c].dev] = NoLimiter
      <4>1. made' = Append(made, NewLimiter)
          BY <1>12, <3>1 DEF TakeLimiter
      <4> QED BY <4>1, <2>1 DEF TypeOK
    <3>2. CASE limiters[conn[c].dev] # NoLimiter
        BY <1>12, <3>2 DEF TypeOK, TakeLimiter
    <3> QED BY <3>1, <3>2
  <2>3. limiters' \in [Device -> 0 .. Len(made')]
    <3>1. Len(made) \in Nat /\ Len(made') \in Nat
        BY <2>2 DEF TypeOK
    <3>2. limiters \in [Device -> 0 .. Len(made')]
        BY <2>2, <3>1 DEF TypeOK
    <3> QED BY <1>12, <3>1, <3>2 DEF TakeLimiter
  <2>4. conn' \in [Conn -> ConnState]
    <3>1. conn[c] \in ConnState /\ limiters'[conn[c].dev] \in Nat
        BY <2>2, <2>3 DEF TypeOK, ConnState
    <3>2. [conn[c] EXCEPT !.at = "serving", !.limiter = limiters'[conn[c].dev]] \in ConnState
        BY <3>1 DEF ConnState
    <3> QED BY <1>12, <3>2 DEF TypeOK, TakeLimiter
  <2> QED BY <1>12, <2>2, <2>3, <2>4 DEF TypeOK, TakeLimiter
<1>13. ASSUME NEW c \in Conn, Disconnect(c) PROVE TypeOK'
    BY <1>13, ClosesTyped DEF TypeOK, Disconnect
<1>14. ASSUME NEW c \in Conn, NEW s \in Stream, OpenStream(c, s) PROVE TypeOK'
  <2>1. stream' \in [Stream -> StreamState]
      BY <1>14 DEF TypeOK, OpenStream, FreeStream, StreamState, NoLimiter
  <2> QED BY <1>14, <2>1 DEF TypeOK, OpenStream
<1>15. ASSUME NEW c \in Conn, NEW s \in Stream, AcceptStream(c, s) PROVE TypeOK'
  <2>1. conn' \in [Conn -> ConnState] /\ stream' \in [Stream -> StreamState]
    <3>1. CASE conn[c].dev \in authorized
      <4>1. stream[s] \in StreamState /\ conn[c].limiter \in Nat
          BY DEF TypeOK, ConnState
      <4>2. [stream[s] EXCEPT !.at = "spawned", !.limiter = conn[c].limiter] \in StreamState
          BY <4>1 DEF StreamState
      <4> QED BY <1>15, <3>1, <4>2 DEF TypeOK, AcceptStream
    <3>2. CASE conn[c].dev \notin authorized
        BY <1>15, <3>2, ClosesTyped DEF AcceptStream
    <3> QED BY <3>1, <3>2
  <2> QED BY <1>15, <2>1 DEF TypeOK, AcceptStream
<1>16. ASSUME NEW s \in Stream, AcquirePermit(s) PROVE TypeOK'
    BY <1>16 DEF TypeOK, AcquirePermit, StreamState, Holding
<1>17. ASSUME NEW s \in Stream, RejectStream(s) PROVE TypeOK'
    BY <1>17, FreeTyped DEF TypeOK, RejectStream
<1>18. ASSUME NEW s \in Stream, GrantToken(s) PROVE TypeOK'
  <2>1. stream[s] \in StreamState
      BY DEF TypeOK
  <2>2. [stream[s] EXCEPT !.at = "serving"] \in StreamState
      BY <2>1 DEF StreamState, Holding
  <2> QED BY <1>18, <2>2 DEF TypeOK, GrantToken
<1>19. ASSUME NEW s \in Stream, BeginRequest(s) PROVE TypeOK'
  <2>1. stream[s] \in StreamState
      BY DEF TypeOK
  <2>2. ASSUME NEW b \in BOOLEAN
        PROVE  [stream[s] EXCEPT !.at = "handling", !.asked = b] \in StreamState
      BY <2>1 DEF StreamState, Holding
  <2>3. [stream[s] EXCEPT !.at = "handling", !.asked = Dev(s) \in authorized] \in StreamState
    <3>1. (Dev(s) \in authorized) \in BOOLEAN
        OBVIOUS
    <3> QED BY <2>2, <3>1, Zenon
  <2> QED BY <1>19, <2>3 DEF TypeOK, BeginRequest
<1>20. ASSUME NEW s \in Stream, EndRequest(s) PROVE TypeOK'
  <2>1. stream[s] \in StreamState
      BY DEF TypeOK
  <2>2. [stream[s] EXCEPT !.at = "serving", !.asked = TRUE] \in StreamState
      BY <2>1 DEF StreamState, Holding
  <2> QED BY <1>20, <2>2 DEF TypeOK, EndRequest
<1>21. ASSUME NEW s \in Stream, Upgrade(s) PROVE TypeOK'
  <2>1. stream[s] \in StreamState
      BY DEF TypeOK
  <2>2. [stream[s] EXCEPT !.at = "tunnel", !.asked = TRUE] \in StreamState
      BY <2>1 DEF StreamState
  <2> QED BY <1>21, <2>2 DEF TypeOK, Upgrade
<1>22. ASSUME NEW s \in Stream, EndStream(s) PROVE TypeOK'
    BY <1>22, FreeTyped DEF TypeOK, EndStream
<1> QED
    BY <1>1, <1>2, <1>3, <1>4, <1>5, <1>6, <1>7, <1>8, <1>9, <1>10, <1>11, <1>12, <1>13,
       <1>14, <1>15, <1>16, <1>17, <1>18, <1>19, <1>20, <1>21, <1>22
       DEF Next, Client, Owner, Server, Handshake

\* Every reachable state has the types ServeHandler declares.
THEOREM ServeTyped == Spec => []TypeOK
BY InitTyped, NextTyped, PTL DEF Spec

----------------------------------------------------------------------------
(* Limits after a reload.  LimitsAreCurrent alone is not inductive: it has *)
(* to be known that no generation runs ahead of the configuration, and     *)
(* that what is cached is as new as the generation stored and as any       *)
(* generation a connection past its comparison has seen.                   *)

\* A limiter in the cache is at least as new as generation g.
CachedSince(g) ==
    \A d \in Device : limiters[d] # NoLimiter => made[limiters[d]].version >= g

GenerationsTrail ==
    /\ IsFiniteSet(reloading)
    /\ config.version = configGen + Cardinality(reloading)
    /\ limiterGen <= configGen
    /\ \A c \in Conn : conn[c].seen <= configGen

CacheIsCurrent ==
    /\ CachedSince(limiterGen)
    /\ \A c \in Conn : conn[c].at = "take" => CachedSince(conn[c].seen)

HandedOut ==
    \A c \in Conn : conn[c].at = "serving" => conn[c].limiter \in 1 .. Len(made)

GenInv == TypeOK /\ GenerationsTrail /\ CacheIsCurrent /\ HandedOut /\ LimitsAreCurrent

LEMMA InitGen == Init => GenInv
<1> SUFFICES ASSUME Init PROVE GenInv
    OBVIOUS
<1>1. TypeOK
    BY InitTyped
<1>2. GenerationsTrail
    BY FS_EmptySet DEF Init, GenerationsTrail, ClosedConn
<1>3. CacheIsCurrent
    BY DEF Init, CacheIsCurrent, CachedSince, ClosedConn
<1>4. HandedOut /\ LimitsAreCurrent
    BY DEF Init, HandedOut, LimitsAreCurrent, ClosedConn
<1> QED BY <1>1, <1>2, <1>3, <1>4 DEF GenInv

\* A step that leaves the cache and the counters alone, and moves one
\* connection at most, to a state in which it has no limiter to take.
LEMMA ConnMoves ==
    ASSUME GenInv, TypeOK', UNCHANGED Shared,
           NEW c \in Conn, NEW r \in ConnState,
           conn' = [conn EXCEPT ![c] = r],
           r.seen <= configGen,
           r.at = "take" => r.seen = limiterGen,
           r.at # "serving"
    PROVE  GenInv'
<1> USE DEF Shared
<1>1. \A b \in Conn : conn'[b] = (IF b = c THEN r ELSE conn[b])
    BY DEF GenInv, TypeOK
<1>2. GenerationsTrail'
    BY <1>1 DEF GenInv, GenerationsTrail
<1>3. CacheIsCurrent'
    BY <1>1 DEF GenInv, CacheIsCurrent, CachedSince
<1>4. HandedOut' /\ LimitsAreCurrent'
    BY <1>1 DEF GenInv, HandedOut, LimitsAreCurrent
<1> QED BY <1>2, <1>3, <1>4 DEF GenInv

LEMMA ClosingKeepsGen ==
    ASSUME GenInv, TypeOK', UNCHANGED Shared, NEW c \in Conn, Closes(c)
    PROVE  GenInv'
<1>1. conn[c].dev \in Device
    BY DEF GenInv, TypeOK, ConnState
<1>2. /\ ClosedConn(conn[c].dev) \in ConnState
      /\ ClosedConn(conn[c].dev).seen <= configGen
      /\ ClosedConn(conn[c].dev).at = "closed"
    BY <1>1, ClosedTyped DEF ClosedConn, GenInv, TypeOK
<1>3. conn' = [conn EXCEPT ![c] = ClosedConn(conn[c].dev)]
    BY DEF Closes
<1> QED BY <1>2, <1>3, ConnMoves

\* A stream's step touches neither connections nor limiters.
LEMMA StreamsKeepGen == GenInv /\ TypeOK' /\ UNCHANGED <<Shared, conn>> => GenInv'
BY DEF GenInv, Shared, GenerationsTrail, CacheIsCurrent, CachedSince, HandedOut, LimitsAreCurrent

LEMMA NextGen == GenInv /\ [Next]_vars => GenInv'
<1> SUFFICES ASSUME GenInv, [Next]_vars PROVE GenInv'
    OBVIOUS
<1>0. TypeOK /\ TypeOK'
    BY NextTyped DEF GenInv
<1>1. CASE UNCHANGED <<Shared, conn>>
    BY <1>0, <1>1, StreamsKeepGen
<1>2. ASSUME NEW r \in Reloader, NEW cap \in Cap, ReplaceConfig(r, cap) PROVE GenInv'
  <2>1. IsFiniteSet(reloading') /\ Cardinality(reloading') = Cardinality(reloading) + 1
      BY <1>2, FS_AddElement DEF ReplaceConfig, GenInv, GenerationsTrail
  <2>2. Cardinality(reloading) \in Nat
      BY FS_CardinalityType DEF GenInv, GenerationsTrail
  <2>3. config.version \in Nat /\ config'.version = config.version + 1
      BY <1>0, <1>2 DEF TypeOK, ReplaceConfig
  <2>4. GenerationsTrail'
      BY <1>0, <1>2, <2>1, <2>2, <2>3 DEF ReplaceConfig, GenInv, GenerationsTrail, TypeOK
  <2>5. (CacheIsCurrent /\ HandedOut /\ LimitsAreCurrent)'
      BY <1>2 DEF ReplaceConfig, GenInv, CacheIsCurrent, CachedSince, HandedOut, LimitsAreCurrent
  <2> QED BY <1>0, <2>4, <2>5 DEF GenInv
<1>3. ASSUME NEW r \in Reloader, BumpGeneration(r) PROVE GenInv'
  <2>1. IsFiniteSet(reloading') /\ Cardinality(reloading') = Cardinality(reloading) - 1
      BY <1>3, FS_RemoveElement DEF BumpGeneration, GenInv, GenerationsTrail
  <2>2. Cardinality(reloading) \in Nat
      BY FS_CardinalityType DEF GenInv, GenerationsTrail
  <2>3. configGen \in Nat /\ configGen' = configGen + 1 /\ limiterGen \in Nat
      BY <1>0, <1>3 DEF TypeOK, BumpGeneration
  <2>4. \A c \in Conn : conn[c].seen \in Nat /\ conn[c].seen <= configGen
      BY <1>0 DEF TypeOK, ConnState, GenInv, GenerationsTrail
  <2>5. GenerationsTrail'
      BY <1>3, <2>1, <2>2, <2>3, <2>4 DEF BumpGeneration, GenInv, GenerationsTrail
  <2>6. (CacheIsCurrent /\ HandedOut /\ LimitsAreCurrent)'
      BY <1>3 DEF BumpGeneration, GenInv, CacheIsCurrent, CachedSince, HandedOut, LimitsAreCurrent
  <2> QED BY <1>0, <2>5, <2>6 DEF GenInv
<1>4. ASSUME NEW c \in Conn, NEW d \in Device, Connect(c, d) PROVE GenInv'
  <2> DEFINE r == [ClosedConn(d) EXCEPT !.at = "arrived"]
  <2>1. r \in ConnState /\ r.seen <= configGen /\ r.at = "arrived"
    <3>1. configGen >= 0
        BY <1>0 DEF TypeOK
    <3> QED BY <3>1 DEF ClosedConn, ConnState, NoLimiter
  <2>2. conn' = [conn EXCEPT ![c] = r] /\ UNCHANGED Shared
      BY <1>4 DEF Connect, Shared
  <2> QED BY <1>0, <2>1, <2>2, ConnMoves
<1>5. ASSUME NEW c \in Conn, Closes(c), UNCHANGED Shared PROVE GenInv'
    BY <1>0, <1>5, ClosingKeepsGen
<1>6. ASSUME NEW c \in Conn, Admit(c) PROVE GenInv'
  <2> DEFINE r == [conn[c] EXCEPT !.at = "load"]
  <2>1. r \in ConnState /\ r.seen <= configGen /\ r.at = "load"
      BY <1>0 DEF TypeOK, ConnState, GenInv, GenerationsTrail
  <2>2. conn' = [conn EXCEPT ![c] = r] /\ UNCHANGED Shared
      BY <1>6 DEF Admit, Shared
  <2> QED BY <1>0, <2>1, <2>2, ConnMoves
<1>7. ASSUME NEW c \in Conn, LoadGeneration(c) PROVE GenInv'
  <2> DEFINE r == [conn[c] EXCEPT !.at = "compare", !.seen = configGen]
  <2>1. r \in ConnState /\ r.seen <= configGen /\ r.at = "compare"
    <3>1. conn[c] \in ConnState /\ conn'[c] \in ConnState /\ conn'[c] = r /\ configGen \in Nat
        BY <1>0, <1>7 DEF TypeOK, LoadGeneration
    <3>2. r.seen = configGen /\ r.at = "compare"
        BY <3>1 DEF ConnState
    <3> QED BY <3>1, <3>2
  <2>2. conn' = [conn EXCEPT ![c] = r] /\ UNCHANGED Shared
      BY <1>7 DEF LoadGeneration, Shared
  <2> QED BY <1>0, <2>1, <2>2, ConnMoves
<1>8. ASSUME NEW c \in Conn, CompareGeneration(c) PROVE GenInv'
  <2> DEFINE r == [conn[c] EXCEPT !.at = IF conn[c].seen # limiterGen THEN "clear" ELSE "take"]
  <2>1. r \in ConnState /\ r.seen <= configGen /\ r.at # "serving"
      BY <1>0 DEF TypeOK, ConnState, GenInv, GenerationsTrail
  <2>2. r.at = "take" => r.seen = limiterGen
      BY <1>0 DEF TypeOK, ConnState
  <2>3. conn' = [conn EXCEPT ![c] = r] /\ UNCHANGED Shared
      BY <1>8 DEF CompareGeneration, Shared
  <2> QED BY <1>0, <2>1, <2>2, <2>3, ConnMoves
<1>9. ASSUME NEW c \in Conn, ClearCache(c) PROVE GenInv'
  <2> DEFINE r == [conn[c] EXCEPT !.at = "take"]
  <2>1. r \in ConnState /\ r.seen = conn[c].seen /\ r.seen <= configGen /\ r.at = "take"
      BY <1>0 DEF TypeOK, ConnState, GenInv, GenerationsTrail
  <2>2. conn' = [conn EXCEPT ![c] = r]
      BY <1>9 DEF ClearCache
  <2>3. CASE limiterGen = conn[c].seen
    <3>1. UNCHANGED Shared
        BY <1>9, <2>3 DEF ClearCache, Shared
    <3> QED BY <1>0, <2>1, <2>2, <2>3, <3>1, ConnMoves
  <2>4. CASE limiterGen # conn[c].seen
    <3>1. /\ limiters' = [d \in Device |-> NoLimiter]
          /\ limiterGen' = conn[c].seen
          /\ UNCHANGED <<config, configGen, reloading, made>>
        BY <1>9, <2>4 DEF ClearCache
    <3>2. \A b \in Conn : conn'[b] = (IF b = c THEN r ELSE conn[b])
        BY <1>0, <2>2 DEF TypeOK
    <3>3. GenerationsTrail'
        BY <2>1, <3>1, <3>2 DEF GenInv, GenerationsTrail
    <3>4. CacheIsCurrent'
        BY <3>1 DEF CacheIsCurrent, CachedSince
    <3>5. HandedOut' /\ LimitsAreCurrent'
        BY <2>1, <3>1, <3>2 DEF GenInv, HandedOut, LimitsAreCurrent
    <3> QED BY <1>0, <3>3, <3>4, <3>5 DEF GenInv
  <2> QED BY <2>3, <2>4
<1>10. ASSUME NEW c \in Conn, TakeLimiter(c) PROVE GenInv'
  <2> DEFINE d == conn[c].dev
             n == Len(made)
  <2>1. d \in Device /\ n \in Nat /\ conn[c].at = "take"
      BY <1>0, <1>10 DEF TypeOK, ConnState, TakeLimiter
  <2>2. /\ made \in Seq([cap : Cap, version : Nat])
        /\ limiters \in [Device -> 0 .. n]
        /\ conn \in [Conn -> ConnState]
      BY <1>0 DEF TypeOK
  <2>3. UNCHANGED <<config, configGen, reloading, limiterGen>>
      BY <1>10 DEF TakeLimiter
  <2>4. \A b \in Conn :
           conn'[b] = (IF b = c THEN [conn[c] EXCEPT !.at = "serving", !.limiter = limiters'[d]]
                       ELSE conn[b])
      BY <1>10, <2>2 DEF TakeLimiter
  <2>5. \A b \in Conn : conn'[b].seen = conn[b].seen
      BY <2>2, <2>4 DEF ConnState
  <2>6. GenerationsTrail'
      BY <2>3, <2>5 DEF GenInv, GenerationsTrail
  <2>7. /\ made' \in Seq([cap : Cap, version : Nat])
        /\ Len(made') >= n
        /\ \A i \in 1 .. n : made'[i] = made[i]
        /\ \A e \in Device :
              limiters'[e] # NoLimiter =>
                 \/ limiters'[e] \in 1 .. n /\ limiters[e] = limiters'[e]
                 \/ /\ limiters'[e] = n + 1
                    /\ Len(made') = n + 1
                    /\ made'[n + 1].version = config.version
        /\ limiters'[d] # NoLimiter
    <3>1. CASE limiters[d] = NoLimiter
      <4>1. made' = Append(made, NewLimiter) /\ limiters' = [limiters EXCEPT ![d] = Len(made')]
          BY <1>10, <3>1 DEF TakeLimiter
      <4>2. NewLimiter \in [cap : Cap, version : Nat] /\ NewLimiter.version = config.version
          BY <1>0 DEF TypeOK, NewLimiter
      <4>3. /\ made' \in Seq([cap : Cap, version : Nat])
            /\ Len(made') = n + 1
            /\ made'[n + 1] = NewLimiter
            /\ \A i \in 1 .. n : made'[i] = made[i]
          BY <2>2, <4>1, <4>2
      <4>4. \A e \in Device : limiters'[e] = (IF e = d THEN n + 1 ELSE limiters[e])
          BY <2>2, <4>1, <4>3
      <4> QED BY <2>1, <2>2, <4>2, <4>3, <4>4 DEF NoLimiter
    <3>2. CASE limiters[d] # NoLimiter
      <4>1. made' = made /\ limiters' = limiters
          BY <1>10, <3>2 DEF TakeLimiter
      <4> QED BY <2>1, <2>2, <3>2, <4>1 DEF NoLimiter
    <3> QED BY <3>1, <3>2
  <2>8. \A g \in Nat : CachedSince(g) /\ g <= config.version => CachedSince(g)'
      BY <2>7 DEF CachedSince
  <2>9. /\ configGen <= config.version
        /\ limiterGen <= config.version
        /\ limiterGen \in Nat
        /\ \A b \in Conn : conn[b].seen \in Nat /\ conn[b].seen <= config.version
    <3>1. configGen \in Nat /\ limiterGen \in Nat /\ Cardinality(reloading) \in Nat
        BY <1>0, FS_CardinalityType DEF TypeOK, GenInv, GenerationsTrail
    <3>2. \A b \in Conn : conn[b].seen \in Nat
        BY <2>2 DEF ConnState
    <3> QED BY <3>1, <3>2 DEF GenInv, GenerationsTrail
  <2>10. CacheIsCurrent'
    <3>1. CachedSince(limiterGen)'
        BY <2>3, <2>8, <2>9 DEF GenInv, CacheIsCurrent, CachedSince
    <3>2. ASSUME NEW b \in Conn, conn'[b].at = "take" PROVE CachedSince(conn[b].seen)'
      <4>1. conn[b].at = "take" /\ conn'[b] = conn[b]
          BY <2>2, <2>4, <3>2 DEF ConnState
      <4> QED BY <4>1, <2>8, <2>9 DEF GenInv, CacheIsCurrent, CachedSince
    <3> QED BY <3>1, <3>2 DEF CacheIsCurrent
  <2>11. limiters'[d] \in 1 .. Len(made') /\ made'[limiters'[d]].version >= conn[c].seen
    <3>1. CachedSince(conn[c].seen)
        BY <2>1 DEF GenInv, CacheIsCurrent
    <3>2. conn[c].seen \in Nat /\ conn[c].seen <= config.version
        BY <2>9
    <3>3. CASE limiters'[d] \in 1 .. n /\ limiters[d] = limiters'[d]
        BY <2>1, <2>7, <3>1, <3>3 DEF CachedSince
    <3>4. CASE limiters'[d] = n + 1 /\ Len(made') = n + 1 /\ made'[n + 1].version = config.version
        BY <2>1, <3>2, <3>4
    <3> QED BY <2>1, <2>7, <3>3, <3>4
  <2>12. HandedOut' /\ LimitsAreCurrent'
    <3>1. ASSUME NEW b \in Conn, conn'[b].at = "serving"
          PROVE  conn'[b].limiter \in 1 .. Len(made') /\ made'[conn'[b].limiter].version >= conn'[b].seen
      <4>1. CASE b = c
          BY <4>1, <2>2, <2>4, <2>11 DEF ConnState
      <4>2. CASE b # c
        <5>1. conn'[b] = conn[b] /\ conn[b].at = "serving"
            BY <2>4, <3>1, <4>2
        <5>2. conn[b].limiter \in 1 .. n /\ made[conn[b].limiter].version >= conn[b].seen
            BY <5>1 DEF GenInv, HandedOut, LimitsAreCurrent
        <5>3. conn[b].limiter \in 1 .. Len(made')
            BY <2>1, <2>7, <5>2
        <5> QED BY <2>7, <5>1, <5>2, <5>3
      <4> QED BY <4>1, <4>2
    <3> QED BY <3>1 DEF HandedOut, LimitsAreCurrent
  <2> QED BY <1>0, <2>6, <2>10, <2>12 DEF GenInv
<1>11. ASSUME NEW c \in Conn, NEW s \in Stream, AcceptStream(c, s) PROVE GenInv'
  <2>1. CASE conn[c].dev \in authorized
      BY <1>1, <1>11, <2>1 DEF AcceptStream, Shared
  <2>2. CASE conn[c].dev \notin authorized
      BY <1>5, <1>11, <2>2 DEF AcceptStream, Shared
  <2> QED BY <2>1, <2>2
<1>12. CASE UNCHANGED vars
    BY <1>1, <1>12 DEF vars, Shared
<1>13. ASSUME NEW c \in Conn, RefuseConnection(c) \/ Disconnect(c) PROVE GenInv'
    BY <1>5, <1>13 DEF RefuseConnection, Disconnect, Shared
<1>14. ASSUME NEW d \in Device, Pair(d) \/ Revoke(d) PROVE GenInv'
    BY <1>1, <1>14 DEF Pair, Revoke, Shared
<1>15. ASSUME NEW c \in Conn, NEW s \in Stream, OpenStream(c, s) PROVE GenInv'
    BY <1>1, <1>15 DEF OpenStream, Shared
<1>16. ASSUME NEW s \in Stream, AcquirePermit(s) \/ RejectStream(s) \/ GrantToken(s) PROVE GenInv'
    BY <1>1, <1>16 DEF AcquirePermit, RejectStream, GrantToken, Shared
<1>17. ASSUME NEW s \in Stream,
              BeginRequest(s) \/ EndRequest(s) \/ Upgrade(s) \/ EndStream(s)
       PROVE  GenInv'
    BY <1>1, <1>17 DEF BeginRequest, EndRequest, Upgrade, EndStream, Shared
<1> QED
    BY <1>2, <1>3, <1>4, <1>6, <1>7, <1>8, <1>9, <1>10, <1>11, <1>12, <1>13, <1>14, <1>15,
       <1>16, <1>17
       DEF Next, Client, Owner, Server, Handshake

\* Once a reload is finished, a connection accepted from then on is limited
\* by that configuration or a newer one, with any number of connections and
\* reloads in between (get_or_create_limiter, Reload).
THEOREM LimitsStayCurrent == Spec => []LimitsAreCurrent
<1>1. GenInv => LimitsAreCurrent
    BY DEF GenInv
<1> QED BY <1>1, InitGen, NextGen, PTL DEF Spec

----------------------------------------------------------------------------
(* Late streams.  A stream opened while its device was revoked stays where *)
(* accept's second check finds it, and its device stays revoked as long as *)
(* the stream counts as late.                                              *)

LateIsHeld ==
    \A s \in Stream :
       stream[s].late =>
          /\ stream[s].at = "opened"
          /\ stream[s].on \in Conn
          /\ Dev(s) \notin authorized

LateInv == TypeOK /\ LateIsHeld

LEMMA ClosingKeepsDevices ==
    ASSUME TypeOK, NEW c \in Conn, Closes(c)
    PROVE  \A b \in Conn : conn'[b].dev = conn[b].dev
BY DEF TypeOK, Closes, ClosedConn

\* One stream's record is replaced by one that is not late.
LEMMA NotLate ==
    ASSUME LateInv, TypeOK', NEW s \in Stream, NEW r,
           stream' = [stream EXCEPT ![s] = r],
           ~r.late,
           authorized' = authorized,
           \A b \in Conn : conn'[b].dev = conn[b].dev
    PROVE  LateInv'
BY DEF LateInv, LateIsHeld, TypeOK, Dev

LEMMA NextLate == LateInv /\ [Next]_vars => LateInv'
<1> SUFFICES ASSUME LateInv, [Next]_vars PROVE LateInv'
    OBVIOUS
<1>0. TypeOK /\ TypeOK'
    BY NextTyped DEF LateInv
<1>1. ASSUME UNCHANGED <<authorized, stream>>, \A b \in Conn : conn'[b].dev = conn[b].dev
      PROVE  LateInv'
    BY <1>0, <1>1 DEF LateInv, LateIsHeld, Dev
<1>2. ASSUME NEW c \in Conn, Closes(c), UNCHANGED authorized PROVE LateInv'
  <2>1. \A b \in Conn : conn'[b].dev = conn[b].dev
      BY <1>0, <1>2, ClosingKeepsDevices
  <2>2. \A s \in Stream : stream'[s].late => stream'[s] = stream[s]
      BY <1>2 DEF Closes, FreeStream
  <2> QED BY <1>0, <1>2, <2>1, <2>2 DEF LateInv, LateIsHeld, Dev
<1>3. ASSUME NEW d \in Device, Pair(d) PROVE LateInv'
  <2>1. \A s \in Stream : stream'[s].late => stream'[s] = stream[s] /\ Dev(s) # d
      BY <1>0, <1>3 DEF Pair, TypeOK, StreamState
  <2> QED BY <1>0, <1>3, <2>1 DEF Pair, LateInv, LateIsHeld, Dev
<1>4. ASSUME NEW d \in Device, Revoke(d) PROVE LateInv'
    BY <1>0, <1>4 DEF Revoke, LateInv, LateIsHeld, Dev
<1>5. ASSUME NEW r \in Reloader, BumpGeneration(r) PROVE LateInv'
    BY <1>1, <1>5 DEF BumpGeneration
<1>6. ASSUME NEW r \in Reloader, NEW cap \in Cap, ReplaceConfig(r, cap) PROVE LateInv'
    BY <1>1, <1>6 DEF ReplaceConfig
<1>7. ASSUME NEW c \in Conn, NEW d \in Device, Connect(c, d) PROVE LateInv'
  <2>1. \A b \in Conn : b # c => conn'[b] = conn[b]
      BY <1>0, <1>7 DEF Connect, TypeOK
  <2>2. \A s \in Stream : stream[s].on # c
      BY <1>7 DEF Connect
  <2> QED BY <1>0, <1>7, <2>1, <2>2 DEF Connect, LateInv, LateIsHeld, Dev
<1>8. ASSUME NEW c \in Conn, RefuseConnection(c) \/ Disconnect(c) PROVE LateInv'
    BY <1>2, <1>8 DEF RefuseConnection, Disconnect
<1>9. ASSUME NEW c \in Conn,
             \/ Admit(c) \/ LoadGeneration(c) \/ CompareGeneration(c)
             \/ ClearCache(c) \/ TakeLimiter(c)
      PROVE  LateInv'
  <2>1. UNCHANGED <<authorized, stream>>
      BY <1>9 DEF Admit, LoadGeneration, CompareGeneration, ClearCache, TakeLimiter
  <2>2. \A b \in Conn : conn'[b].dev = conn[b].dev
    <3>1. \A b \in Conn : conn[b] \in ConnState
        BY <1>0 DEF TypeOK
    <3>2. CASE Admit(c)
        BY <1>0, <3>1, <3>2 DEF TypeOK, ConnState, Admit
    <3>3. CASE LoadGeneration(c)
        BY <1>0, <3>1, <3>3 DEF TypeOK, ConnState, LoadGeneration
    <3>4. CASE CompareGeneration(c)
        BY <1>0, <3>1, <3>4 DEF TypeOK, ConnState, CompareGeneration
    <3>5. CASE ClearCache(c)
      <4>1. conn' = [conn EXCEPT ![c].at = "take"]
          BY <3>5 DEF ClearCache
      <4> QED BY <1>0, <3>1, <4>1 DEF TypeOK, ConnState
    <3>6. CASE TakeLimiter(c)
      <4>1. conn' = [conn EXCEPT ![c].at = "serving", ![c].limiter = limiters'[conn[c].dev]]
          BY <3>6 DEF TakeLimiter
      <4> QED BY <1>0, <3>1, <4>1 DEF TypeOK, ConnState
    <3> QED BY <1>9, <3>2, <3>3, <3>4, <3>5, <3>6
  <2> QED BY <1>1, <2>1, <2>2
<1>10. ASSUME NEW c \in Conn, NEW s \in Stream, OpenStream(c, s) PROVE LateInv'
  <2> DEFINE r == [FreeStream EXCEPT !.at = "opened", !.on = c, !.late = conn[c].dev \notin authorized]
  <2>1. r.at = "opened" /\ r.on = c
      BY DEF FreeStream
  <2>2. r.late = (conn[c].dev \notin authorized)
      BY DEF FreeStream
  <2>3. stream'[s] = r /\ \A t \in Stream : t # s => stream'[t] = stream[t]
      BY <1>0, <1>10 DEF OpenStream, TypeOK
  <2>4. authorized' = authorized /\ conn' = conn
      BY <1>10 DEF OpenStream
  <2>5. r.late => conn[c].dev \notin authorized
      BY <2>2, Zenon
  <2> HIDE DEF r
  <2> QED BY <1>0, <2>1, <2>3, <2>4, <2>5 DEF LateInv, LateIsHeld, Dev
<1>11. ASSUME NEW c \in Conn, NEW s \in Stream, AcceptStream(c, s) PROVE LateInv'
  <2>1. CASE conn[c].dev \in authorized
    <3>1. ~stream[s].late
        BY <1>11, <2>1 DEF AcceptStream, LateInv, LateIsHeld, Dev
    <3>2. stream[s] \in StreamState
        BY <1>0 DEF TypeOK
    <3>3. ~[stream[s] EXCEPT !.at = "spawned", !.limiter = conn[c].limiter].late
        BY <3>1, <3>2 DEF StreamState
    <3>4. /\ stream' = [stream EXCEPT ![s] = [stream[s] EXCEPT !.at = "spawned", !.limiter = conn[c].limiter]]
          /\ UNCHANGED <<authorized, conn>>
        BY <1>0, <1>11, <2>1 DEF AcceptStream, TypeOK
    <3> QED BY <1>0, <3>3, <3>4, NotLate
  <2>2. CASE conn[c].dev \notin authorized
      BY <1>2, <1>11, <2>2 DEF AcceptStream
  <2> QED BY <2>1, <2>2
<1>12. ASSUME NEW s \in Stream, AcquirePermit(s) \/ GrantToken(s) PROVE LateInv'
  <2>1. ~stream[s].late /\ stream[s] \in StreamState
      BY <1>0, <1>12 DEF AcquirePermit, GrantToken, LateInv, LateIsHeld, TypeOK
  <2>2. \E at \in Holding : stream' = [stream EXCEPT ![s] = [stream[s] EXCEPT !.at = at]]
      BY <1>0, <1>12 DEF AcquirePermit, GrantToken, TypeOK, Holding
  <2>3. UNCHANGED <<authorized, conn>>
      BY <1>12 DEF AcquirePermit, GrantToken
  <2>4. \A at \in Holding : ~[stream[s] EXCEPT !.at = at].late
      BY <2>1 DEF StreamState
  <2> QED BY <1>0, <2>2, <2>3, <2>4, NotLate
<1>13. ASSUME NEW s \in Stream, RejectStream(s) \/ EndStream(s) PROVE LateInv'
  <2>1. stream' = [stream EXCEPT ![s] = FreeStream] /\ UNCHANGED <<authorized, conn>>
      BY <1>13 DEF RejectStream, EndStream
  <2>2. ~FreeStream.late
      BY DEF FreeStream
  <2> QED BY <1>0, <2>1, <2>2, NotLate
<1>14. ASSUME NEW s \in Stream, BeginRequest(s) \/ EndRequest(s) \/ Upgrade(s) PROVE LateInv'
  <2>1. ~stream[s].late /\ stream[s] \in StreamState
      BY <1>0, <1>14 DEF BeginRequest, EndRequest, Upgrade, LateInv, LateIsHeld, TypeOK
  <2>2. PICK at, b :
           /\ at \in Holding \cup {"tunnel"}
           /\ stream' = [stream EXCEPT ![s] = [stream[s] EXCEPT !.at = at, !.asked = b]]
    <3>1. CASE BeginRequest(s)
      <4>1. stream' = [stream EXCEPT ![s] = [stream[s] EXCEPT !.at = "handling",
                                                             !.asked = Dev(s) \in authorized]]
          BY <3>1 DEF BeginRequest
      <4> QED BY <4>1 DEF Holding
    <3>2. CASE EndRequest(s)
        BY <3>2 DEF EndRequest, Holding
    <3>3. CASE Upgrade(s)
        BY <3>3 DEF Upgrade
    <3> QED BY <1>14, <3>1, <3>2, <3>3
  <2>3. UNCHANGED <<authorized, conn>>
      BY <1>14 DEF BeginRequest, EndRequest, Upgrade
  <2>4. ~[stream[s] EXCEPT !.at = at, !.asked = b].late
      BY <2>1 DEF StreamState
  <2> QED BY <1>0, <2>2, <2>3, <2>4, NotLate
<1>15. CASE UNCHANGED vars
    BY <1>1, <1>15 DEF vars
<1> QED
    BY <1>3, <1>4, <1>5, <1>6, <1>7, <1>8, <1>9, <1>10, <1>11, <1>12, <1>13, <1>14, <1>15
       DEF Next, Client, Owner, Server, Handshake

\* A stream that a device opens after its revocation is never let in, with
\* any number of devices, connections and streams (accept).
THEOREM LateAreRefused == Spec => []LateStreamsRefused
<1>1. Init => LateInv
    BY InitTyped DEF Init, LateInv, LateIsHeld, FreeStream
<1>2. LateInv => LateStreamsRefused
    BY DEF LateInv, LateIsHeld, LateStreamsRefused
<1> QED BY <1>1, <1>2, NextLate, PTL DEF Spec

----------------------------------------------------------------------------
(* One cap for a device.  As long as nothing was reloaded the cache is     *)
(* never emptied, so all connections and streams of a device share the     *)
(* limiter that the cache has for it, and its permits are the device's.    *)

Admitted == {"spawned"} \cup Holding

SharedLimiter ==
    config.version = 0 =>
       /\ \A l \in 1 .. Len(made) : made[l].cap = config.cap
       /\ \A c \in Conn :
             conn[c].at = "serving" =>
                conn[c].limiter = limiters[conn[c].dev] /\ conn[c].limiter # NoLimiter
       /\ \A s \in Stream :
             stream[s].at \in Admitted =>
                /\ stream[s].on \in Conn
                /\ stream[s].limiter = limiters[Dev(s)]
                /\ stream[s].limiter # NoLimiter

CapInv == GenInv /\ SharedLimiter /\ DeviceCapped

LEMMA InUseFinite == ASSUME NEW d PROVE IsFiniteSet(InUse(d))
BY StreamAssumption, FS_Subset DEF InUse

\* Before the first reload a connection never finds a newer generation.
LEMMA NothingToClear ==
    ASSUME GenInv, config.version = 0, NEW c \in Conn
    PROVE  limiterGen = conn[c].seen
<1>1. configGen \in Nat /\ limiterGen \in Nat /\ conn[c].seen \in Nat
    BY DEF GenInv, TypeOK, ConnState
<1>2. Cardinality(reloading) \in Nat
    BY FS_CardinalityType DEF GenInv, GenerationsTrail
<1>3. configGen = 0
    BY <1>1, <1>2 DEF GenInv, GenerationsTrail
<1> QED BY <1>1, <1>3 DEF GenInv, GenerationsTrail

\* No limiter is made or handed to a connection or a stream.
LEMMA KeepsSharing ==
    ASSUME SharedLimiter, UNCHANGED <<config, made, limiters>>,
           \A c \in Conn : /\ conn'[c].dev = conn[c].dev
                           /\ conn'[c].at = "serving" => conn'[c] = conn[c],
           \A s \in Stream :
              stream'[s].at \in Admitted =>
                 /\ stream[s].at \in Admitted
                 /\ stream'[s].on = stream[s].on
                 /\ stream'[s].limiter = stream[s].limiter
    PROVE  SharedLimiter'
BY DEF SharedLimiter, Dev

\* No permit is taken.
LEMMA KeepsCap ==
    ASSUME DeviceCapped, config' = config, config.cap \in Nat,
           \A d \in Device : InUse(d)' \subseteq InUse(d)
    PROVE  DeviceCapped'
<1> SUFFICES ASSUME config.version = 0, NEW d \in Device
             PROVE  Cardinality(InUse(d)') <= config.cap
    BY DEF DeviceCapped
<1>1. Cardinality(InUse(d)) <= config.cap
    BY DEF DeviceCapped
<1>2. /\ Cardinality(InUse(d)') \in Nat /\ Cardinality(InUse(d)) \in Nat
      /\ Cardinality(InUse(d)') <= Cardinality(InUse(d))
    BY InUseFinite, FS_Subset, FS_CardinalityType
<1> QED BY <1>1, <1>2

LEMMA KeepsPermits ==
    ASSUME TypeOK, \A c \in Conn : conn'[c].dev = conn[c].dev,
           \A s \in Stream :
              stream'[s].at \in Holding =>
                 stream[s].at \in Holding /\ stream'[s].on = stream[s].on /\ stream[s].on \in Conn
    PROVE  \A d \in Device : InUse(d)' \subseteq InUse(d)
BY DEF InUse, Dev

LEMMA NextCap == CapInv /\ [Next]_vars => CapInv'
<1> SUFFICES ASSUME CapInv, [Next]_vars PROVE CapInv'
    OBVIOUS
<1>0. GenInv /\ GenInv' /\ TypeOK /\ TypeOK'
    BY NextGen DEF CapInv, GenInv
<1>1. CASE config'.version # 0
    BY <1>0, <1>1 DEF CapInv, SharedLimiter, DeviceCapped
<1> SUFFICES ASSUME config'.version = 0 PROVE SharedLimiter' /\ DeviceCapped'
    BY <1>0, <1>1 DEF CapInv
<1>2. ASSUME NEW r \in Reloader, NEW cap \in Cap, ReplaceConfig(r, cap) PROVE FALSE
    BY <1>0, <1>2 DEF ReplaceConfig, TypeOK
<1>3. config' = config
    BY <1>2 DEF Next, Client, Owner, Server, Handshake, vars, Pair, Revoke, BumpGeneration, Connect,
          RefuseConnection, Admit, LoadGeneration, CompareGeneration, ClearCache, TakeLimiter,
          Disconnect, OpenStream, AcceptStream, AcquirePermit, RejectStream, GrantToken,
          BeginRequest, EndRequest, Upgrade, EndStream
<1>4. /\ \A l \in 1 .. Len(made) : made[l].cap = config.cap
      /\ \A c \in Conn :
            conn[c].at = "serving" =>
               conn[c].limiter = limiters[conn[c].dev] /\ conn[c].limiter # NoLimiter
      /\ \A s \in Stream :
            stream[s].at \in Admitted =>
               /\ stream[s].on \in Conn
               /\ stream[s].limiter = limiters[Dev(s)]
               /\ stream[s].limiter # NoLimiter
    BY <1>3 DEF CapInv, SharedLimiter
<1>5. config.cap \in Nat /\ config.version = 0
    BY <1>0, <1>3, CapAssumption DEF TypeOK
<1>6. ASSUME UNCHANGED <<made, limiters>>,
             \A c \in Conn : /\ conn'[c].dev = conn[c].dev
                             /\ conn'[c].at = "serving" => conn'[c] = conn[c],
             \A s \in Stream :
                stream'[s].at \in Admitted =>
                   /\ stream[s].at \in Admitted
                   /\ stream[s].at = "spawned" => stream'[s].at = "spawned"
                   /\ stream'[s].on = stream[s].on
                   /\ stream'[s].limiter = stream[s].limiter
      PROVE  SharedLimiter' /\ DeviceCapped'
  <2>1. SharedLimiter'
      BY <1>3, <1>6, KeepsSharing DEF CapInv
  <2>2. \A d \in Device : InUse(d)' \subseteq InUse(d)
      BY <1>0, <1>4, <1>6, KeepsPermits DEF Admitted, Holding
  <2> QED BY <1>3, <1>5, <2>1, <2>2, KeepsCap DEF CapInv
<1>7. ASSUME UNCHANGED <<made, limiters>>, NEW c \in Conn, Closes(c)
      PROVE  SharedLimiter' /\ DeviceCapped'
  <2>1. \A b \in Conn : conn'[b].dev = conn[b].dev /\ (conn'[b].at = "serving" => conn'[b] = conn[b])
      BY <1>0, <1>7 DEF Closes, ClosedConn, TypeOK
  <2>2. \A s \in Stream : stream'[s].at \in Admitted => stream'[s] = stream[s]
      BY <1>7 DEF Closes, FreeStream, Admitted, Holding
  <2> QED BY <1>6, <1>7, <2>1, <2>2
<1>8. ASSUME UNCHANGED <<made, limiters, stream>>, NEW c \in Conn, NEW r,
             conn' = [conn EXCEPT ![c] = r], r.dev = conn[c].dev, r.at # "serving"
      PROVE  SharedLimiter' /\ DeviceCapped'
  <2>1. \A b \in Conn : conn'[b].dev = conn[b].dev /\ (conn'[b].at = "serving" => conn'[b] = conn[b])
      BY <1>0, <1>8 DEF TypeOK
  <2> QED BY <1>6, <1>8, <2>1
<1>9. ASSUME UNCHANGED <<made, limiters, conn>>, NEW s \in Stream, NEW r,
             stream' = [stream EXCEPT ![s] = r],
             r.at \in Admitted =>
                /\ stream[s].at \in Holding
                /\ r.on = stream[s].on
                /\ r.limiter = stream[s].limiter
      PROVE  SharedLimiter' /\ DeviceCapped'
  <2>1. \A t \in Stream : t # s => stream'[t] = stream[t]
      BY <1>0, <1>9 DEF TypeOK
  <2>2. stream'[s] = r
      BY <1>0, <1>9 DEF TypeOK
  <2> QED BY <1>6, <1>9, <2>1, <2>2 DEF Admitted, Holding
<1>10. CASE UNCHANGED vars
    BY <1>6, <1>10 DEF vars
<1>11. ASSUME NEW d \in Device, Pair(d) PROVE SharedLimiter' /\ DeviceCapped'
  <2>1. \A s \in Stream : /\ stream'[s].at = stream[s].at
                          /\ stream'[s].on = stream[s].on
                          /\ stream'[s].limiter = stream[s].limiter
      BY <1>0, <1>11 DEF Pair, TypeOK, StreamState
  <2> QED BY <1>6, <1>11, <2>1 DEF Pair
<1>12. ASSUME NEW d \in Device, Revoke(d) PROVE SharedLimiter' /\ DeviceCapped'
    BY <1>6, <1>12 DEF Revoke
<1>13. ASSUME NEW r \in Reloader, BumpGeneration(r) PROVE SharedLimiter' /\ DeviceCapped'
    BY <1>6, <1>13 DEF BumpGeneration
<1>14. ASSUME NEW c \in Conn, NEW d \in Device, Connect(c, d) PROVE SharedLimiter' /\ DeviceCapped'
  <2>1. \A b \in Conn : b # c => conn'[b] = conn[b]
      BY <1>0, <1>14 DEF Connect, TypeOK
  <2>2. conn'[c].at = "arrived"
      BY <1>0, <1>14 DEF Connect, TypeOK, ClosedConn
  <2>3. \A s \in Stream : stream[s].on # c
      BY <1>14 DEF Connect
  <2>4. \A s \in Stream : stream[s].on \in Conn => Dev(s)' = Dev(s)
      BY <1>14, <2>1, <2>3 DEF Connect, Dev
  <2>5. SharedLimiter'
      BY <1>3, <1>4, <1>14, <2>1, <2>2, <2>4 DEF Connect, SharedLimiter
  <2>6. \A e \in Device : InUse(e)' \subseteq InUse(e)
      BY <1>4, <1>14, <2>4 DEF Connect, InUse, Admitted
  <2> QED BY <1>3, <1>5, <2>5, <2>6, KeepsCap DEF CapInv
<1>15. ASSUME NEW c \in Conn, RefuseConnection(c) \/ Disconnect(c)
       PROVE  SharedLimiter' /\ DeviceCapped'
    BY <1>7, <1>15 DEF RefuseConnection, Disconnect
<1>16. ASSUME NEW c \in Conn,
              Admit(c) \/ LoadGeneration(c) \/ CompareGeneration(c) \/ ClearCache(c)
       PROVE  SharedLimiter' /\ DeviceCapped'
  <2>1. conn[c] \in ConnState
      BY <1>0 DEF TypeOK
  <2>2. CASE Admit(c)
    <3>1. conn' = [conn EXCEPT ![c] = [conn[c] EXCEPT !.at = "load"]]
        BY <2>2 DEF Admit
    <3>2. [conn[c] EXCEPT !.at = "load"].dev = conn[c].dev /\ [conn[c] EXCEPT !.at = "load"].at = "load"
        BY <2>1 DEF ConnState
    <3> QED BY <1>8, <2>2, <3>1, <3>2 DEF Admit
  <2>3. CASE LoadGeneration(c)
    <3> DEFINE r == [conn[c] EXCEPT !.at = "compare", !.seen = configGen]
    <3>1. r.dev = conn[c].dev /\ r.at = "compare"
        BY <2>1 DEF ConnState
    <3>2. conn' = [conn EXCEPT ![c] = r] /\ UNCHANGED <<made, limiters, stream>>
        BY <2>3 DEF LoadGeneration
    <3> QED BY <1>8, <3>1, <3>2
  <2>4. CASE CompareGeneration(c)
    <3> DEFINE r == [conn[c] EXCEPT !.at = IF conn[c].seen # limiterGen THEN "clear" ELSE "take"]
    <3>1. r.dev = conn[c].dev /\ r.at # "serving"
        BY <2>1 DEF ConnState
    <3>2. conn' = [conn EXCEPT ![c] = r] /\ UNCHANGED <<made, limiters, stream>>
        BY <2>4 DEF CompareGeneration
    <3> QED BY <1>8, <3>1, <3>2
  <2>5. CASE ClearCache(c)
    <3> DEFINE r == [conn[c] EXCEPT !.at = "take"]
    <3>1. r.dev = conn[c].dev /\ r.at = "take"
        BY <2>1 DEF ConnState
    <3>2. limiterGen = conn[c].seen
        BY <1>0, <1>5, NothingToClear
    <3>3. conn' = [conn EXCEPT ![c] = r] /\ UNCHANGED <<made, limiters, stream>>
        BY <2>5, <3>2 DEF ClearCache
    <3> QED BY <1>8, <3>1, <3>3
  <2> QED BY <1>16, <2>2, <2>3, <2>4, <2>5
<1>17. ASSUME NEW c \in Conn, TakeLimiter(c) PROVE SharedLimiter' /\ DeviceCapped'
  <2> DEFINE d == conn[c].dev
             n == Len(made)
  <2>1. /\ d \in Device /\ n \in Nat
        /\ made \in Seq([cap : Cap, version : Nat])
        /\ limiters \in [Device -> 0 .. n]
        /\ conn \in [Conn -> ConnState]
        /\ conn[c] \in ConnState
      BY <1>0 DEF TypeOK, ConnState
  <2>2. conn' = [conn EXCEPT ![c] = [conn[c] EXCEPT !.at = "serving", !.limiter = limiters'[d]]]
      BY <1>17 DEF TakeLimiter
  <2>3. /\ \A b \in Conn : b # c => conn'[b] = conn[b]
        /\ conn'[c].dev = d /\ conn'[c].limiter = limiters'[d]
      BY <2>1, <2>2 DEF ConnState
  <2>4. stream' = stream
      BY <1>17 DEF TakeLimiter
  <2>5. /\ \A l \in 1 .. Len(made') : made'[l].cap = config.cap
        /\ \A e \in Device : limiters[e] # NoLimiter => limiters'[e] = limiters[e]
        /\ limiters'[d] # NoLimiter
    <3>1. CASE limiters[d] = NoLimiter
      <4>1. made' = Append(made, NewLimiter) /\ limiters' = [limiters EXCEPT ![d] = Len(made')]
          BY <1>17, <3>1 DEF TakeLimiter
      <4>2. NewLimiter \in [cap : Cap, version : Nat] /\ NewLimiter.cap = config.cap
          BY <1>0 DEF TypeOK, NewLimiter
      <4>3. Len(made') = n + 1 /\ made'[n + 1] = NewLimiter /\ \A i \in 1 .. n : made'[i] = made[i]
          BY <2>1, <4>1, <4>2
      <4> QED BY <1>4, <2>1, <3>1, <4>1, <4>2, <4>3 DEF NoLimiter
    <3>2. CASE limiters[d] # NoLimiter
        BY <1>4, <1>17, <3>2 DEF TakeLimiter
    <3> QED BY <3>1, <3>2
  <2>6. \A b \in Conn : conn[b].dev \in Device /\ conn'[b].dev = conn[b].dev
      BY <2>1, <2>3 DEF ConnState
  <2>7. \A s \in Stream : stream[s].at \in Admitted => Dev(s)' = Dev(s) /\ Dev(s) \in Device
      BY <1>4, <2>4, <2>6 DEF Dev
  <2>8. SharedLimiter'
    <3>1. ASSUME NEW b \in Conn, conn'[b].at = "serving"
          PROVE  conn'[b].limiter = limiters'[conn'[b].dev] /\ conn'[b].limiter # NoLimiter
        BY <1>4, <2>3, <2>5, <2>6, <3>1
    <3>2. ASSUME NEW s \in Stream, stream[s].at \in Admitted
          PROVE  stream[s].on \in Conn /\ stream[s].limiter = limiters'[Dev(s)'] /\ stream[s].limiter # NoLimiter
        BY <1>4, <2>5, <2>7, <3>2
    <3> QED BY <1>3, <2>4, <2>5, <3>1, <3>2 DEF SharedLimiter
  <2>9. \A e \in Device : InUse(e)' \subseteq InUse(e)
      BY <2>4, <2>7 DEF InUse, Admitted
  <2> QED BY <1>3, <1>5, <2>8, <2>9, KeepsCap DEF CapInv
<1>18. ASSUME NEW c \in Conn, NEW s \in Stream, OpenStream(c, s) PROVE SharedLimiter' /\ DeviceCapped'
  <2> DEFINE r == [FreeStream EXCEPT !.at = "opened", !.on = c, !.late = conn[c].dev \notin authorized]
  <2>1. r.at = "opened"
      BY DEF FreeStream
  <2>2. stream' = [stream EXCEPT ![s] = r] /\ UNCHANGED <<made, limiters, conn>>
      BY <1>18 DEF OpenStream
  <2> HIDE DEF r
  <2> QED BY <1>9, <2>1, <2>2 DEF Admitted, Holding
<1>19. ASSUME NEW c \in Conn, NEW s \in Stream, AcceptStream(c, s) PROVE SharedLimiter' /\ DeviceCapped'
  <2>1. CASE conn[c].dev \notin authorized
      BY <1>7, <1>19, <2>1 DEF AcceptStream
  <2>2. CASE conn[c].dev \in authorized
    <3> DEFINE r == [stream[s] EXCEPT !.at = "spawned", !.limiter = conn[c].limiter]
    <3>1. r.at = "spawned" /\ r.limiter = conn[c].limiter /\ r.on = c
        BY <1>0, <1>19 DEF AcceptStream, TypeOK, StreamState
    <3>2. stream' = [stream EXCEPT ![s] = r] /\ UNCHANGED <<made, limiters, conn>>
        BY <1>19, <2>2 DEF AcceptStream
    <3> HIDE DEF r
    <3>3. stream'[s] = r /\ \A t \in Stream : t # s => stream'[t] = stream[t]
        BY <1>0, <3>2 DEF TypeOK
    <3>4. conn[c].limiter = limiters[conn[c].dev] /\ conn[c].limiter # NoLimiter
        BY <1>4, <1>19 DEF AcceptStream
    <3>5. SharedLimiter'
      <4>1. ASSUME NEW t \in Stream, stream'[t].at \in Admitted
            PROVE  /\ stream'[t].on \in Conn
                   /\ stream'[t].limiter = limiters'[Dev(t)']
                   /\ stream'[t].limiter # NoLimiter
          BY <1>4, <3>1, <3>2, <3>3, <3>4, <4>1 DEF Dev
      <4> QED BY <1>3, <1>4, <3>2, <4>1 DEF SharedLimiter
    <3>6. \A d \in Device : InUse(d)' \subseteq InUse(d)
        BY <3>1, <3>2, <3>3 DEF InUse, Dev, Holding
    <3> QED BY <1>3, <1>5, <3>5, <3>6, KeepsCap DEF CapInv
  <2> QED BY <2>1, <2>2
<1>20. ASSUME NEW s \in Stream, AcquirePermit(s) PROVE SharedLimiter' /\ DeviceCapped'
  <2> DEFINE r == [stream[s] EXCEPT !.at = "waiting"]
             l == stream[s].limiter
  <2>1. r.at = "waiting" /\ r.limiter = l /\ r.on = stream[s].on
      BY <1>0 DEF TypeOK, StreamState
  <2>2. stream' = [stream EXCEPT ![s] = r] /\ UNCHANGED <<made, limiters, conn>>
      BY <1>20 DEF AcquirePermit
  <2> HIDE DEF r
  <2>3. stream'[s] = r /\ \A t \in Stream : t # s => stream'[t] = stream[t]
      BY <1>0, <2>2 DEF TypeOK
  <2>4. stream[s].at = "spawned" /\ Cardinality(Holders(l)) < made[l].cap
      BY <1>20 DEF AcquirePermit
  <2>5. SharedLimiter'
      BY <1>3, <2>1, <2>2, <2>3, <2>4, KeepsSharing DEF CapInv, Admitted, Holding
  <2>6. l = limiters[Dev(s)] /\ l # NoLimiter /\ Dev(s) \in Device
      BY <1>0, <1>4, <2>4 DEF Admitted, Dev, TypeOK, ConnState
  <2>7. l \in 1 .. Len(made)
      BY <1>0, <2>6 DEF TypeOK, NoLimiter
  <2>8. InUse(Dev(s)) \subseteq Holders(l)
      BY <1>4, <2>6 DEF InUse, Holders, Admitted
  <2>9. Cardinality(InUse(Dev(s))) < config.cap
    <3>1. IsFiniteSet(Holders(l))
        BY StreamAssumption, FS_Subset DEF Holders
    <3>2. /\ Cardinality(InUse(Dev(s))) \in Nat /\ Cardinality(Holders(l)) \in Nat
          /\ Cardinality(InUse(Dev(s))) <= Cardinality(Holders(l))
        BY <2>8, <3>1, FS_Subset, FS_CardinalityType
    <3> QED BY <1>4, <1>5, <2>4, <2>7, <3>2
  <2>10. ASSUME NEW d \in Device PROVE Cardinality(InUse(d)') <= config.cap
    <3>1. CASE d = Dev(s)
      <4>1. InUse(d)' = InUse(d) \cup {s}
          BY <2>1, <2>2, <2>3, <2>4, <3>1 DEF InUse, Dev, Holding
      <4>2. IsFiniteSet(InUse(d)) /\ Cardinality(InUse(d)) \in Nat
          BY InUseFinite, FS_CardinalityType
      <4>3. Cardinality(InUse(d) \cup {s}) \in {Cardinality(InUse(d)), Cardinality(InUse(d)) + 1}
          BY <4>2, FS_AddElement
      <4> QED BY <1>5, <2>9, <3>1, <4>1, <4>2, <4>3
    <3>2. CASE d # Dev(s)
      <4>1. InUse(d)' = InUse(d)
          BY <2>1, <2>2, <2>3, <2>4, <3>2 DEF InUse, Dev, Holding
      <4> QED BY <1>5, <4>1 DEF CapInv, DeviceCapped
    <3> QED BY <3>1, <3>2
  <2> QED BY <1>3, <2>5, <2>10 DEF DeviceCapped
<1>21. ASSUME NEW s \in Stream, RejectStream(s) \/ EndStream(s) PROVE SharedLimiter' /\ DeviceCapped'
  <2>1. stream' = [stream EXCEPT ![s] = FreeStream] /\ UNCHANGED <<made, limiters, conn>>
      BY <1>21 DEF RejectStream, EndStream
  <2>2. FreeStream.at = "free"
      BY DEF FreeStream
  <2> QED BY <1>9, <2>1, <2>2 DEF Admitted, Holding
<1>22. ASSUME NEW s \in Stream, GrantToken(s) \/ BeginRequest(s) \/ EndRequest(s) \/ Upgrade(s)
       PROVE  SharedLimiter' /\ DeviceCapped'
  <2>1. stream[s] \in StreamState /\ stream[s].at \in Holding /\ UNCHANGED <<made, limiters, conn>>
      BY <1>0, <1>22 DEF GrantToken, BeginRequest, EndRequest, Upgrade, TypeOK, Holding
  <2>2. CASE GrantToken(s)
    <3>1. stream' = [stream EXCEPT ![s] = [stream[s] EXCEPT !.at = "serving"]]
        BY <2>2 DEF GrantToken
    <3>2. /\ [stream[s] EXCEPT !.at = "serving"].on = stream[s].on
          /\ [stream[s] EXCEPT !.at = "serving"].limiter = stream[s].limiter
        BY <2>1 DEF StreamState
    <3> QED BY <1>9, <2>1, <3>1, <3>2
  <2>3. CASE BeginRequest(s) \/ EndRequest(s) \/ Upgrade(s)
    <3>1. PICK at, b : stream' = [stream EXCEPT ![s] = [stream[s] EXCEPT !.at = at, !.asked = b]]
      <4>1. CASE BeginRequest(s)
          BY <4>1 DEF BeginRequest
      <4>2. CASE EndRequest(s)
          BY <4>2 DEF EndRequest
      <4>3. CASE Upgrade(s)
          BY <4>3 DEF Upgrade
      <4> QED BY <2>3, <4>1, <4>2, <4>3
    <3> DEFINE r == [stream[s] EXCEPT !.at = at, !.asked = b]
    <3>2. r.on = stream[s].on /\ r.limiter = stream[s].limiter
        BY <2>1 DEF StreamState
    <3>3. stream' = [stream EXCEPT ![s] = r]
        BY <3>1
    <3> HIDE DEF r
    <3> QED BY <1>9, <2>1, <3>2, <3>3
  <2> QED BY <1>22, <2>2, <2>3
<1> QED
    BY <1>2, <1>10, <1>11, <1>12, <1>13, <1>14, <1>15, <1>16, <1>17, <1>18, <1>19, <1>20, <1>21, <1>22
       DEF Next, Client, Owner, Server, Handshake

\* Before the first reload, any number of connections of one device hold no
\* more permits together than the device may (get_or_create_limiter,
\* try_acquire_concurrency).
THEOREM DevicesAreCapped == Spec => []DeviceCapped
<1>1. Init => CapInv
  <2> SUFFICES ASSUME Init PROVE SharedLimiter /\ DeviceCapped
      BY InitGen DEF CapInv
  <2>1. SharedLimiter
      BY DEF Init, SharedLimiter, ClosedConn, FreeStream, Admitted, Holding
  <2>2. \A d \in Device : InUse(d) = {}
      BY DEF Init, InUse, FreeStream, Holding
  <2>3. config.cap \in Nat
      BY CapAssumption DEF Init
  <2> QED BY <2>1, <2>2, <2>3, FS_EmptySet DEF DeviceCapped
<1>2. CapInv => DeviceCapped
    BY DEF CapInv
<1> QED BY <1>1, <1>2, NextCap, PTL DEF Spec
=============================================================================
