-------------------------- MODULE BindHandlerProofs --------------------------
(* What holds of BindHandler for any number of connections and permits and *)
(* any lengths of its timeouts.                                            *)
EXTENDS BindHandler, FiniteSetTheorems, TLAPS

\* A reply is there once the exchange is past authenticate.
ConnRecord == {r \in ConnState : r.at \in {"replying", "grace"} => r.reply # "none"}

\* An open link has guesses left; without it `failed` could pass the limit.
BindInv == TypeOK /\ conn \in [Conn -> ConnRecord] /\ (linkOpen => failed < Limit)

Asking == {"asking", "replying", "grace"}

LEMMA NoConnTyped == NoConn \in ConnRecord /\ NoConn.at = "free"
BY DeviceAssumption, TimeAssumption DEF NoConn, ConnRecord, ConnState

LEMMA ExchangingFinite == IsFiniteSet(Exchanging) /\ Cardinality(Exchanging) \in Nat
<1>1. IsFiniteSet(Exchanging)
    BY CapAssumption, FS_Subset DEF Exchanging
<1> QED BY <1>1, FS_CardinalityType

\* Nobody takes a permit.
LEMMA NoPermitTaken ==
    ASSUME BindInv, Exchanging' \subseteq Exchanging
    PROVE  Cardinality(Exchanging') <= Cap
<1>1. /\ Cardinality(Exchanging') \in Nat
      /\ Cardinality(Exchanging') <= Cardinality(Exchanging)
    BY ExchangingFinite, FS_Subset, FS_CardinalityType
<1> QED BY <1>1, ExchangingFinite, CapAssumption DEF BindInv, TypeOK

\* Connection c gets the record r, and holds a permit only if it had one.
LEMMA ConnChanges ==
    ASSUME BindInv, NEW c \in Conn, NEW r \in ConnRecord,
           conn' = [conn EXCEPT ![c] = r],
           r.at \in Asking => conn[c].at \in Asking
    PROVE  conn' \in [Conn -> ConnRecord] /\ Cardinality(Exchanging') <= Cap
<1>1. conn' \in [Conn -> ConnRecord]
    BY DEF BindInv
<1>2. \A b \in Conn : conn'[b] = IF b = c THEN r ELSE conn[b]
    BY DEF BindInv
<1>3. Exchanging' \subseteq Exchanging
    BY <1>2 DEF Exchanging, Asking
<1> QED BY <1>1, <1>3, NoPermitTaken

LEMMA EndsTyped ==
    ASSUME BindInv, NEW c \in Conn, NEW read \in {"nothing", "OK", "DENY", "busy", "timeout"},
           Ends(c, read)
    PROVE  conn' \in [Conn -> ConnRecord] /\ Cardinality(Exchanging') <= Cap
<1> DEFINE r == [NoConn EXCEPT !.at = "ended", !.dev = conn[c].dev, !.read = read]
<1>0. conn[c] \in ConnState
    BY DEF BindInv, TypeOK
<1>1. r \in ConnRecord /\ r.at = "ended"
    BY <1>0, NoConnTyped DEF ConnRecord, ConnState
<1>2. conn' = [conn EXCEPT ![c] = r]
    BY DEF Ends
<1> HIDE DEF r
<1> QED BY <1>1, <1>2, ConnChanges DEF Asking

LEMMA RepliesTyped ==
    ASSUME BindInv, NEW c \in Conn, conn[c].at = "asking", NEW reply \in {"OK", "DENY"},
           Replies(c, reply)
    PROVE  conn' \in [Conn -> ConnRecord] /\ Cardinality(Exchanging') <= Cap
<1> DEFINE r == [conn[c] EXCEPT !.at = "replying", !.reply = reply]
<1>1. conn[c] \in ConnRecord
    BY DEF BindInv
<1>2. r \in ConnRecord
    BY <1>1 DEF ConnRecord, ConnState
<1>3. conn' = [conn EXCEPT ![c] = r]
    BY DEF Replies
<1> HIDE DEF r
<1> QED BY <1>2, <1>3, ConnChanges DEF Asking

\* A permit is taken only when one is left.
LEMMA PermitTyped ==
    ASSUME BindInv, NEW c \in Conn, AcquirePermit(c)
    PROVE  conn' \in [Conn -> ConnRecord] /\ Cardinality(Exchanging') <= Cap
<1>1. CASE Cardinality(Exchanging) < Cap
  <2> DEFINE r == [conn[c] EXCEPT !.at = "asking"]
  <2>1. conn[c] \in ConnRecord /\ r \in ConnRecord
      BY DEF BindInv, ConnRecord, ConnState
  <2>2. conn' = [conn EXCEPT ![c] = r]
      BY <1>1 DEF AcquirePermit
  <2>3. \A b \in Conn : b # c => conn'[b] = conn[b]
      BY <2>2 DEF BindInv
  <2>4. Exchanging' \subseteq Exchanging \cup {c}
      BY <2>3 DEF Exchanging
  <2>5. /\ IsFiniteSet(Exchanging \cup {c})
        /\ Cardinality(Exchanging \cup {c}) \in {Cardinality(Exchanging), Cardinality(Exchanging) + 1}
      BY ExchangingFinite, FS_AddElement
  <2>6. Cardinality(Exchanging') \in Nat /\ Cardinality(Exchanging') <= Cardinality(Exchanging \cup {c})
      BY <2>4, <2>5, FS_Subset, FS_CardinalityType
  <2>7. conn' \in [Conn -> ConnRecord]
      BY <2>1, <2>2 DEF BindInv
  <2> QED BY <1>1, <2>5, <2>6, <2>7, ExchangingFinite, CapAssumption
<1>2. CASE ~(Cardinality(Exchanging) < Cap)
    BY <1>2, EndsTyped DEF AcquirePermit
<1> QED BY <1>1, <1>2

Histories == accepted \subseteq Conn /\ retrying \subseteq Conn /\ lost \subseteq Device

LEMMA HistoryTyped ==
    ASSUME BindInv, [Next]_vars
    PROVE  Histories'
<1>0. Histories /\ \A c \in Conn : conn[c].dev \in Device
    BY DEF BindInv, TypeOK, ConnState, Histories
<1> USE DEF Histories
<1>1. CASE UNCHANGED history
    BY <1>0, <1>1 DEF history
<1>2. ASSUME NEW c \in Conn, NEW read, Ends(c, read) PROVE Histories'
    BY <1>0, <1>2 DEF Ends
<1>3. ASSUME NEW c \in Conn, NEW reply, Replies(c, reply) PROVE Histories'
    BY <1>0, <1>3 DEF Replies
<1>4. ASSUME NEW c \in Conn, Accepts(c) PROVE Histories'
  <2>1. CASE AcquirePermit(c)
      BY <1>1, <1>2, <2>1 DEF AcquirePermit
  <2>2. CASE Authenticate(c)
      BY <1>3, <2>2 DEF Authenticate, Allow, Deny
  <2>3. CASE WriteReply(c)
      BY <1>1, <2>3 DEF WriteReply
  <2>4. CASE GraceEnds(c) \/ Timeout(c)
      BY <1>2, <2>4 DEF GraceEnds, Timeout
  <2> QED BY <1>4, <2>1, <2>2, <2>3, <2>4 DEF Accepts
<1>5. ASSUME NEW c \in Conn, ExchangeFails(c) \/ ReadReply(c) \/ Retry(c) PROVE Histories'
    BY <1>0, <1>1, <1>2, <1>5 DEF ExchangeFails, ReadReply, Retry
<1>6. ASSUME NEW c \in Conn, NEW d \in Device, Connect(c, d) PROVE Histories'
    BY <1>0, <1>6 DEF Connect
<1>7. ASSUME NEW c \in Conn, NEW secret \in Secret, SendSecret(c, secret) PROVE Histories'
    BY <1>1, <1>7 DEF SendSecret
<1>8. CASE Tick \/ RefreshToken \/ LinkExpires \/ MintInvitation
    BY <1>1, <1>8 DEF Tick, RefreshToken, LinkExpires, MintInvitation
<1>9. ASSUME NEW d \in Device, Revoke(d) PROVE Histories'
    BY <1>0, <1>9 DEF Revoke
<1>10. CASE UNCHANGED vars
    BY <1>1, <1>10 DEF vars
<1> QED BY <1>4, <1>5, <1>6, <1>7, <1>8, <1>9, <1>10 DEF Next

LEMMA NextBind == BindInv /\ [Next]_vars => BindInv'
<1> SUFFICES ASSUME BindInv, [Next]_vars PROVE BindInv'
    OBVIOUS
<1> USE CapAssumption, LimitAssumption, TimeAssumption
<1>0. TypeOK /\ BindInv /\ conn \in [Conn -> ConnRecord] /\ Histories'
    BY HistoryTyped DEF BindInv, TypeOK
<1>1. ASSUME UNCHANGED pairing, conn' \in [Conn -> ConnRecord], Cardinality(Exchanging') <= Cap
      PROVE  BindInv'
  <2>1. conn' \in [Conn -> ConnState]
      BY <1>1 DEF ConnRecord
  <2> QED BY <1>0, <1>1, <2>1 DEF BindInv, TypeOK, pairing, Histories
<1>2. ASSUME UNCHANGED conn,
             authorized' \subseteq Device, linkOpen' \in BOOLEAN, invited' \in BOOLEAN,
             failed' \in 0 .. Limit, linkOpen' => failed' < Limit
      PROVE  BindInv'
  <2>1. Cardinality(Exchanging') <= Cap
      BY <1>0, <1>2, NoPermitTaken DEF Exchanging
  <2> QED BY <1>0, <1>2, <2>1 DEF BindInv, TypeOK, Histories
<1>3. CASE UNCHANGED vars
    BY <1>0, <1>3, <1>1, NoPermitTaken DEF vars, pairing, Exchanging
<1>4. ASSUME NEW c \in Conn, NEW d \in Device, Connect(c, d) PROVE BindInv'
  <2> DEFINE r == [NoConn EXCEPT !.at = "open", !.dev = d]
  <2>1. r \in ConnRecord /\ r.at = "open"
      BY NoConnTyped DEF ConnRecord, ConnState
  <2>2. conn' = [conn EXCEPT ![c] = r] /\ UNCHANGED pairing
      BY <1>4 DEF Connect, pairing
  <2> HIDE DEF r
  <2> QED BY <1>0, <1>1, <2>1, <2>2, ConnChanges DEF Asking
<1>5. ASSUME NEW c \in Conn, NEW secret \in Secret, SendSecret(c, secret) PROVE BindInv'
  <2> DEFINE r == [conn[c] EXCEPT !.sent = secret]
  <2>1. conn[c] \in ConnRecord /\ r \in ConnRecord /\ r.at = conn[c].at
      BY <1>0 DEF ConnRecord, ConnState
  <2>2. conn' = [conn EXCEPT ![c] = r] /\ UNCHANGED pairing
      BY <1>5 DEF SendSecret, pairing
  <2> HIDE DEF r
  <2> QED BY <1>0, <1>1, <2>1, <2>2, ConnChanges
<1>6. ASSUME NEW c \in Conn, ReadReply(c) PROVE BindInv'
  <2> DEFINE r == [conn[c] EXCEPT !.read = conn[c].reply]
  <2>1. conn[c] \in ConnRecord /\ r.at = conn[c].at
      BY <1>0 DEF ConnRecord, ConnState
  <2>2. conn[c].reply \in {"OK", "DENY"}
      BY <1>0, <1>6 DEF ReadReply, ConnRecord, ConnState
  <2>3. r \in ConnRecord
      BY <2>1, <2>2 DEF ConnRecord, ConnState
  <2>4. conn' = [conn EXCEPT ![c] = r] /\ UNCHANGED pairing
      BY <1>6 DEF ReadReply, pairing
  <2> HIDE DEF r
  <2> QED BY <1>0, <1>1, <2>1, <2>3, <2>4, ConnChanges
<1>7. ASSUME NEW c \in Conn, AcquirePermit(c) PROVE BindInv'
    BY <1>0, <1>1, <1>7, PermitTyped DEF AcquirePermit, pairing
<1>8. ASSUME NEW c \in Conn, Authenticate(c) PROVE BindInv'
  <2>0. conn[c].at = "asking" /\ conn[c] \in ConnRecord /\ conn[c].dev \in Device
      BY <1>0, <1>8 DEF Authenticate, ConnRecord, ConnState
  <2>1. conn' \in [Conn -> ConnRecord] /\ Cardinality(Exchanging') <= Cap
      BY <1>0, <1>8, <2>0, RepliesTyped DEF Authenticate, Allow, Deny
  <2>2. CASE UNCHANGED pairing
      BY <1>1, <2>1, <2>2
  <2> conn' \in [Conn -> ConnState]
      BY <2>1 DEF ConnRecord
  <2>3. CASE Allow(c, conn[c].sent)
    <3>1. failed' = 0 /\ linkOpen' = linkOpen /\ authorized' \subseteq Device
        BY <1>0, <2>0, <2>3 DEF Allow, TypeOK
    <3>2. invited' \in BOOLEAN
        BY <2>3 DEF Allow
    <3> QED BY <1>0, <2>1, <3>1, <3>2 DEF BindInv, TypeOK, Histories
  <2>4. CASE Deny(c)
    <3>1. failed' \in 0 .. Limit /\ (linkOpen' => failed' < Limit)
      <4>1. failed \in 0 .. Limit /\ (linkOpen => failed < Limit)
          BY DEF BindInv, TypeOK
      <4>2. CASE linkOpen
        <5>1. failed' = failed + 1 /\ (linkOpen' => failed + 1 < Limit)
            BY <2>4, <4>2 DEF Deny
        <5> QED BY <4>1, <4>2, <5>1
      <4>3. CASE ~linkOpen
        <5>1. failed' = failed /\ ~linkOpen'
            BY <2>4, <4>3 DEF Deny
        <5> QED BY <4>1, <5>1
      <4> QED BY <4>2, <4>3
    <3>2. linkOpen' \in BOOLEAN /\ UNCHANGED <<authorized, invited>>
        BY <2>4 DEF Deny
    <3> QED BY <1>0, <2>1, <3>1, <3>2 DEF BindInv, TypeOK, Histories
  <2> QED BY <1>8, <2>2, <2>3, <2>4 DEF Authenticate, pairing
<1>9. ASSUME NEW c \in Conn, WriteReply(c) PROVE BindInv'
  <2> DEFINE r == [conn[c] EXCEPT !.at = "grace"]
  <2>1. conn[c] \in ConnRecord /\ r \in ConnRecord /\ conn[c].at = "replying"
      BY <1>0, <1>9 DEF ConnRecord, ConnState, WriteReply
  <2>2. conn' = [conn EXCEPT ![c] = r] /\ UNCHANGED pairing
      BY <1>9 DEF WriteReply, pairing
  <2> HIDE DEF r
  <2> QED BY <1>0, <1>1, <2>1, <2>2, ConnChanges DEF Asking
<1>10. ASSUME NEW c \in Conn, GraceEnds(c) \/ ExchangeFails(c) \/ Timeout(c) PROVE BindInv'
  <2>1. conn[c].read \in {"nothing", "OK", "DENY", "busy", "timeout"}
      BY <1>0 DEF ConnRecord, ConnState
  <2>2. PICK read \in {"nothing", "OK", "DENY", "busy", "timeout"} : Ends(c, read)
      BY <1>10, <2>1 DEF GraceEnds, ExchangeFails, Timeout
  <2>3. UNCHANGED pairing
      BY <1>10 DEF GraceEnds, ExchangeFails, Timeout, pairing
  <2> QED BY <1>0, <1>1, <2>2, <2>3, EndsTyped
<1>11. ASSUME NEW c \in Conn, Retry(c) PROVE BindInv'
    BY <1>0, <1>1, <1>11, NoConnTyped, ConnChanges DEF Retry, pairing, Asking
<1>12. CASE Tick
  <2>1. ASSUME NEW c \in Conn PROVE conn'[c] \in ConnRecord /\ conn'[c].at = conn[c].at
    <3>0. conn[c] \in ConnRecord
        BY <1>0
    <3>1. CASE c \notin Exchanging
        BY <1>12, <3>0, <3>1 DEF Tick
    <3>2. CASE c \in Exchanging
      <4>0. conn[c].age \in 0 .. BindTimeout /\ conn[c].grace \in 0 .. FinishGrace
          BY <3>0 DEF ConnRecord, ConnState
      <4>6. conn[c].age # BindTimeout /\ (conn[c].at = "grace" => conn[c].grace # FinishGrace)
          BY <1>12, <3>2 DEF Tick, Due
      <4>1. conn[c].age + 1 \in 0 .. BindTimeout
          BY <4>0, <4>6
      <4>2. conn[c].at = "grace" => conn[c].grace + 1 \in 0 .. FinishGrace
          BY <4>0, <4>6
      <4>3. conn'[c] = [conn[c] EXCEPT !.age = conn[c].age + 1,
                          !.grace = IF conn[c].at = "grace" THEN conn[c].grace + 1 ELSE conn[c].grace]
          BY <1>12, <3>2 DEF Tick
      <4>4. CASE conn[c].at = "grace"
          BY <3>0, <4>1, <4>2, <4>3, <4>4 DEF ConnRecord, ConnState
      <4>5. CASE conn[c].at # "grace"
          BY <3>0, <4>1, <4>3, <4>5 DEF ConnRecord, ConnState
      <4> QED BY <4>4, <4>5
    <3> QED BY <3>1, <3>2
  <2>2. conn' \in [Conn -> ConnRecord]
    <3>1. conn' = [c \in Conn |-> conn'[c]]
        BY <1>12 DEF Tick
    <3> QED BY <2>1, <3>1
  <2>3. Exchanging' \subseteq Exchanging
      BY <2>1 DEF Exchanging
  <2> QED BY <1>0, <1>1, <1>12, <2>2, <2>3, NoPermitTaken DEF Tick, pairing
<1>13. CASE RefreshToken
    BY <1>0, <1>2, <1>13 DEF RefreshToken, TypeOK
<1>14. CASE LinkExpires
    BY <1>0, <1>2, <1>14 DEF LinkExpires, TypeOK
<1>15. CASE MintInvitation
    BY <1>0, <1>2, <1>15 DEF MintInvitation, BindInv, TypeOK
<1>16. ASSUME NEW d \in Device, Revoke(d) PROVE BindInv'
    BY <1>0, <1>2, <1>16 DEF Revoke, BindInv, TypeOK
<1> QED
    BY <1>3, <1>4, <1>5, <1>6, <1>7, <1>8, <1>9, <1>10, <1>11, <1>12, <1>13, <1>14, <1>15, <1>16
       DEF Next, Accepts

LEMMA InitBind == Init => BindInv
<1> SUFFICES ASSUME Init PROVE BindInv
    OBVIOUS
<1>1. conn \in [Conn -> ConnRecord]
    BY NoConnTyped DEF Init
<1>2. Exchanging = {}
    BY NoConnTyped DEF Init, Exchanging
<1>3. Cardinality(Exchanging) <= Cap
    BY <1>2, FS_EmptySet, CapAssumption
<1>4. linkOpen \in BOOLEAN /\ invited \in BOOLEAN
    BY DEF Init
<1>5. /\ failed \in 0 .. Limit /\ failed < Limit /\ authorized = {}
      /\ accepted = {} /\ retrying = {} /\ lost = {}
    BY LimitAssumption DEF Init
<1>6. conn \in [Conn -> ConnState]
    BY <1>1 DEF ConnRecord
<1> QED BY <1>1, <1>3, <1>4, <1>5, <1>6 DEF BindInv, TypeOK

\* No more exchanges than permits, no age beyond the timeouts, and no count
\* of guesses beyond the limit, for any number of connections.
THEOREM BindTyped == Spec => []TypeOK
<1>1. BindInv => TypeOK
    BY DEF BindInv
<1> QED BY <1>1, InitBind, NextBind, PTL DEF Spec

\* Whoever was accepted, has lost a reply or tries again is authorized, and
\* has not been told otherwise.
RetryInv ==
    /\ \A c \in accepted : /\ conn[c].dev \in authorized /\ conn[c].reply = "OK"
                           /\ conn[c].at \in {"replying", "grace"}
    /\ lost \subseteq authorized
    /\ \A c \in retrying : /\ conn[c].at # "ended" => conn[c].dev \in authorized
                           /\ conn[c].at # "free"
                           /\ conn[c].reply # "DENY" /\ conn[c].read # "DENY"

\* Connection c goes on with its device and its replies; it takes none back
\* that it has accepted.
LEMMA RetryGoesOn ==
    ASSUME BindInv, RetryInv, NEW c \in Conn, NEW r,
           conn' = [conn EXCEPT ![c] = r], UNCHANGED <<authorized, history>>,
           r.dev = conn[c].dev, r.reply = conn[c].reply,
           r.read \in {conn[c].read, conn[c].reply},
           r.at \notin {"free", "ended"} /\ conn[c].at # "ended",
           c \in accepted => r.at \in {"replying", "grace"}
    PROVE  RetryInv'
<1>1. \A b \in Conn : conn'[b] = IF b = c THEN r ELSE conn[b]
    BY DEF BindInv
<1>2. accepted \subseteq Conn /\ retrying \subseteq Conn
    BY DEF BindInv, TypeOK
<1> QED BY <1>1, <1>2 DEF RetryInv, history

LEMMA RetryEnds ==
    ASSUME BindInv, RetryInv, NEW c \in Conn, NEW read, Ends(c, read),
           authorized' = authorized, read = "DENY" => conn[c].read = "DENY"
    PROVE  RetryInv'
<1> DEFINE r == [NoConn EXCEPT !.at = "ended", !.dev = conn[c].dev, !.read = read]
<1>1. r.at = "ended" /\ r.reply = "none" /\ r.read = read
    BY DEF NoConn
<1>2. \A b \in Conn : conn'[b] = IF b = c THEN r ELSE conn[b]
    BY DEF BindInv, Ends
<1>3. accepted \subseteq Conn /\ retrying \subseteq Conn
    BY DEF BindInv, TypeOK
<1> HIDE DEF r
<1>4. accepted' = accepted \ {c} /\ retrying' = retrying
    BY DEF Ends
<1>5. lost' \subseteq authorized'
    BY DEF Ends, RetryInv
<1> QED BY <1>1, <1>2, <1>3, <1>4, <1>5 DEF RetryInv

\* Only a connection whose device is not authorized is denied.
LEMMA RetryReplies ==
    ASSUME BindInv, RetryInv, NEW c \in Conn, NEW reply, Replies(c, reply),
           conn[c].at = "asking", authorized \subseteq authorized',
           \/ reply = "OK" /\ conn[c].dev \in authorized'
           \/ reply = "DENY" /\ conn[c].dev \notin authorized
    PROVE  RetryInv'
<1> DEFINE r == [conn[c] EXCEPT !.at = "replying", !.reply = reply]
<1>0. conn[c] \in ConnState
    BY DEF BindInv, TypeOK
<1>1. /\ r.at = "replying" /\ r.reply = reply
      /\ r.read = conn[c].read /\ r.dev = conn[c].dev
    BY <1>0 DEF ConnState
<1>2. \A b \in Conn : conn'[b] = IF b = c THEN r ELSE conn[b]
    BY DEF BindInv, Replies
<1>3. accepted \subseteq Conn /\ retrying \subseteq Conn
    BY DEF BindInv, TypeOK
<1> HIDE DEF r
<1>4. /\ accepted' = IF reply = "OK" THEN accepted \cup {c} ELSE accepted
      /\ retrying' = retrying /\ lost' = lost
    BY DEF Replies
<1>5. c \notin accepted
    BY DEF RetryInv
<1>6. \A b \in accepted' : /\ conn'[b].dev \in authorized' /\ conn'[b].reply = "OK"
                          /\ conn'[b].at \in {"replying", "grace"}
    BY <1>1, <1>2, <1>3, <1>4, <1>5 DEF RetryInv
<1>7. c \in retrying => reply = "OK"
    BY DEF RetryInv
<1> QED BY <1>1, <1>2, <1>3, <1>4, <1>6, <1>7 DEF RetryInv

LEMMA NextRetry ==
    ASSUME BindInv, RetryInv, [Next]_vars
    PROVE  RetryInv'
<1>0. /\ conn \in [Conn -> ConnRecord] /\ \A c \in Conn : conn[c] \in ConnState
      /\ accepted \subseteq Conn /\ retrying \subseteq Conn
    BY DEF BindInv, TypeOK
<1>1. ASSUME NEW c \in Conn, AcquirePermit(c) PROVE RetryInv'
  <2> DEFINE r == [conn[c] EXCEPT !.at = "asking"]
  <2>1. CASE conn' = [conn EXCEPT ![c] = r] /\ UNCHANGED history
    <3>1. /\ r.at = "asking" /\ r.dev = conn[c].dev /\ r.reply = conn[c].reply
          /\ r.read = conn[c].read
        BY <1>0 DEF ConnState
    <3>2. conn[c].at = "open" /\ authorized' = authorized
        BY <1>1 DEF AcquirePermit, pairing
    <3>3. c \notin accepted
        BY <3>2 DEF RetryInv
    <3> HIDE DEF r
    <3> QED BY <2>1, <3>1, <3>2, <3>3, RetryGoesOn
  <2>2. CASE Ends(c, "busy")
      BY <1>1, <2>2, RetryEnds DEF AcquirePermit, pairing
  <2> QED BY <1>1, <2>1, <2>2 DEF AcquirePermit
<1>2. ASSUME NEW c \in Conn, Authenticate(c) PROVE RetryInv'
  <2>1. conn[c].at = "asking"
      BY <1>2 DEF Authenticate
  <2>2. CASE conn[c].dev \in authorized /\ Replies(c, "OK") /\ UNCHANGED pairing
      BY <2>1, <2>2, RetryReplies DEF pairing
  <2>3. CASE conn[c].dev \notin authorized /\ Allow(c, conn[c].sent)
    <3>1. authorized' = authorized \cup {conn[c].dev} /\ Replies(c, "OK")
        BY <2>3 DEF Allow
    <3> QED BY <2>1, <3>1, RetryReplies
  <2>4. CASE conn[c].dev \notin authorized /\ Deny(c)
      BY <2>1, <2>4, RetryReplies DEF Deny
  <2> QED BY <1>2, <2>2, <2>3, <2>4 DEF Authenticate
<1>3. ASSUME NEW c \in Conn, WriteReply(c) PROVE RetryInv'
  <2> DEFINE r == [conn[c] EXCEPT !.at = "grace"]
  <2>1. /\ r.at = "grace" /\ r.dev = conn[c].dev /\ r.reply = conn[c].reply
        /\ r.read = conn[c].read
      BY <1>0 DEF ConnState
  <2>2. /\ conn' = [conn EXCEPT ![c] = r] /\ conn[c].at = "replying"
        /\ UNCHANGED <<authorized, history>>
      BY <1>3 DEF WriteReply, pairing
  <2> HIDE DEF r
  <2> QED BY <2>1, <2>2, RetryGoesOn
<1>4. ASSUME NEW c \in Conn, GraceEnds(c) \/ ExchangeFails(c) \/ Timeout(c) PROVE RetryInv'
  <2>1. /\ authorized' = authorized
        /\ Ends(c, conn[c].read) \/ Ends(c, "timeout")
      BY <1>4 DEF GraceEnds, ExchangeFails, Timeout, pairing
  <2> QED BY <2>1, RetryEnds
<1>5. ASSUME NEW c \in Conn, ReadReply(c) PROVE RetryInv'
  <2> DEFINE r == [conn[c] EXCEPT !.read = conn[c].reply]
  <2>1. /\ r.at = conn[c].at /\ r.dev = conn[c].dev /\ r.reply = conn[c].reply
        /\ r.read = conn[c].reply
      BY <1>0 DEF ConnState
  <2>2. /\ conn' = [conn EXCEPT ![c] = r] /\ conn[c].at = "grace"
        /\ UNCHANGED <<authorized, history>>
      BY <1>5 DEF ReadReply, pairing
  <2> HIDE DEF r
  <2> QED BY <2>1, <2>2, RetryGoesOn
<1>6. ASSUME NEW c \in Conn, NEW secret \in Secret, SendSecret(c, secret) PROVE RetryInv'
  <2> DEFINE r == [conn[c] EXCEPT !.sent = secret]
  <2>1. /\ r.at = conn[c].at /\ r.dev = conn[c].dev /\ r.reply = conn[c].reply
        /\ r.read = conn[c].read
      BY <1>0 DEF ConnState
  <2>2. /\ conn' = [conn EXCEPT ![c] = r] /\ conn[c].at = "asking"
        /\ UNCHANGED <<authorized, history>>
      BY <1>6 DEF SendSecret, pairing
  <2>3. c \notin accepted
      BY <2>2 DEF RetryInv
  <2> HIDE DEF r
  <2> QED BY <2>1, <2>2, <2>3, RetryGoesOn
<1>7. ASSUME NEW c \in Conn, Retry(c) PROVE RetryInv'
  <2>1. /\ conn[c].at = "ended" /\ retrying' = retrying \ {c}
        /\ UNCHANGED <<authorized, accepted, lost>>
        /\ \A b \in Conn : b # c => conn'[b] = conn[b]
      BY <1>0, <1>7 DEF Retry, pairing
  <2>2. c \notin accepted
      BY <2>1 DEF RetryInv
  <2> QED BY <1>0, <2>1, <2>2 DEF RetryInv
<1>8. ASSUME NEW c \in Conn, NEW d \in Device, Connect(c, d) PROVE RetryInv'
  <2> DEFINE r == [NoConn EXCEPT !.at = "open", !.dev = d]
  <2>1. r.at = "open" /\ r.dev = d /\ r.reply = "none" /\ r.read = "nothing"
      BY DEF NoConn
  <2>2. /\ conn[c].at = "free" /\ UNCHANGED <<authorized, accepted, lost>>
        /\ retrying' = IF d \in lost THEN retrying \cup {c} ELSE retrying
        /\ \A b \in Conn : conn'[b] = IF b = c THEN r ELSE conn[b]
      BY <1>0, <1>8 DEF Connect, pairing
  <2> HIDE DEF r
  <2>3. c \notin accepted /\ c \notin retrying
      BY <2>2 DEF RetryInv
  <2> QED BY <1>0, <2>1, <2>2, <2>3 DEF RetryInv
<1>9. CASE Tick
  <2>1. /\ UNCHANGED <<authorized, history>>
        /\ \A c \in Conn : /\ conn'[c].at = conn[c].at /\ conn'[c].dev = conn[c].dev
                           /\ conn'[c].reply = conn[c].reply /\ conn'[c].read = conn[c].read
      BY <1>0, <1>9 DEF Tick, pairing, ConnState
  <2> QED BY <1>0, <2>1 DEF RetryInv, history
<1>10. CASE RefreshToken \/ LinkExpires \/ MintInvitation \/ UNCHANGED vars
    BY <1>10 DEF RefreshToken, LinkExpires, MintInvitation, vars, pairing, history, RetryInv
<1>11. ASSUME NEW d \in Device, Revoke(d) PROVE RetryInv'
    BY <1>0, <1>11 DEF Revoke, RetryInv
<1> QED
    BY <1>1, <1>2, <1>3, <1>4, <1>5, <1>6, <1>7, <1>8, <1>9, <1>10, <1>11 DEF Next, Accepts

\* A device that was accepted and did not learn of it is not denied on any
\* connection that it opens afterwards, unless it was revoked in between
\* (authenticate, whatever timeout or error ended accept).
THEOREM AcceptedStayAccepted == Spec => []AcceptedNotDenied
<1>1. Init => RetryInv
    BY DEF Init, RetryInv
<1>2. BindInv /\ RetryInv /\ [Next]_vars => RetryInv'
    BY NextRetry
<1>3. RetryInv => AcceptedNotDenied
    BY DEF RetryInv, AcceptedNotDenied
<1> QED BY <1>1, <1>2, <1>3, InitBind, NextBind, PTL DEF Spec
=============================================================================
