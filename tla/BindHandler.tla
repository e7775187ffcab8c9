---------------------------- MODULE BindHandler ----------------------------
(***************************************************************************)
(* src/bind.rs: a connection to the pairing ALPN is one accept() call: a   *)
(* permit, then an exchange (the client's secret, authenticate, the reply, *)
(* a grace for the reply to arrive) that a timeout may drop at any of its  *)
(* awaits.  What AuthState does is reduced to what an exchange can tell:   *)
(* an open pairing link, one invitation, and the count of wrong guesses.   *)
(*                                                                         *)
(* Time goes in ticks of five seconds, the unit of both timeouts; a timer  *)
(* that is due fires before the next tick, in a race with the others.      *)
(***************************************************************************)
EXTENDS Naturals, FiniteSets

CONSTANTS
    Conn,           \* pairing connections at the same time
    Device,
    Cap,            \* DEFAULT_MAX_BIND_CONNECTIONS
    Limit,          \* bind.max_failed_attempts
    BindTimeout,    \* BIND_TIMEOUT, in ticks
    FinishGrace     \* FINISH_GRACE, in ticks

ASSUME CapAssumption == Cap \in Nat \ {0} /\ IsFiniteSet(Conn)
ASSUME DeviceAssumption == Device # {}
ASSUME LimitAssumption == Limit \in Nat \ {0}
ASSUME TimeAssumption == BindTimeout \in Nat \ {0} /\ FinishGrace \in Nat \ {0}

VARIABLES
    authorized, \* AuthState: the devices that may use the server
    linkOpen,   \* AuthState: whether the pairing link is open
    invited,    \* AuthState: whether the invitation is outstanding
    failed,     \* AuthState: wrong guesses since the last mint or authorization
    conn,       \* each accept() call and what its client saw
    accepted,   \* history: exchanges that decided OK, their device not revoked since
    lost,       \* history: devices that were accepted so, and did not get to read it
    retrying    \* history: connections that such a device has opened since

pairing == <<authorized, linkOpen, invited, failed>>
history == <<accepted, lost, retrying>>
vars == <<pairing, conn, history>>

Secret == {"link", "invitation", "wrong"}

NoConn == [at |-> "free", dev |-> CHOOSE d \in Device : TRUE, sent |-> "nothing",
           reply |-> "none", read |-> "nothing", age |-> 0, grace |-> 0]

\* The connections that hold a permit.
Exchanging == {c \in Conn : conn[c].at \in {"asking", "replying", "grace"}}

----------------------------------------------------------------------------
(* The client                                                              *)

Connect(c, d) ==
    /\ conn[c].at = "free"
    /\ conn' = [conn EXCEPT ![c] = [NoConn EXCEPT !.at = "open", !.dev = d]]
    /\ retrying' = IF d \in lost THEN retrying \cup {c} ELSE retrying
    /\ UNCHANGED <<pairing, accepted, lost>>

\* It opens the stream, writes its secret and finishes.
SendSecret(c, secret) ==
    /\ conn[c].at = "asking"
    /\ conn[c].sent = "nothing"
    /\ conn' = [conn EXCEPT ![c].sent = secret]
    /\ UNCHANGED <<pairing, history>>

ReadReply(c) ==
    /\ conn[c].at = "grace"
    /\ conn[c].read = "nothing"
    /\ conn' = [conn EXCEPT ![c].read = conn[c].reply]
    /\ UNCHANGED <<pairing, history>>

----------------------------------------------------------------------------
(* BindHandler::accept                                                     *)

\* The permit and the connection are dropped; the client knows what it read.
Ends(c, read) ==
    /\ conn' = [conn EXCEPT ![c] = [NoConn EXCEPT !.at = "ended", !.dev = conn[c].dev,
                                                  !.read = read]]
    /\ accepted' = accepted \ {c}
    /\ lost' = IF c \in accepted /\ read # "OK" THEN lost \cup {conn[c].dev} ELSE lost
    /\ UNCHANGED retrying

\* Variant: the permits are counted one too many.
AcquireOneMore(c) ==
    /\ conn[c].at = "open"
    /\ IF Cardinality(Exchanging) <= Cap
       THEN conn' = [conn EXCEPT ![c].at = "asking"] /\ UNCHANGED history
       ELSE Ends(c, "busy")
    /\ UNCHANGED pairing

\* try_acquire_owned: a permit, or a close with 503.
AcquirePermit(c) ==
    /\ conn[c].at = "open"
    /\ IF Cardinality(Exchanging) < Cap
       THEN conn' = [conn EXCEPT ![c].at = "asking"] /\ UNCHANGED history
       ELSE Ends(c, "busy")
    /\ UNCHANGED pairing

Replies(c, reply) ==
    /\ conn' = [conn EXCEPT ![c].at = "replying", ![c].reply = reply]
    /\ accepted' = IF reply = "OK" THEN accepted \cup {c} ELSE accepted
    /\ UNCHANGED <<lost, retrying>>

\* authenticate, when the secret matches; an invitation is spent.
Allow(c, secret) ==
    /\ authorized' = authorized \cup {conn[c].dev}
    /\ failed' = 0
    /\ invited' = (invited /\ secret # "invitation")
    /\ UNCHANGED linkOpen
    /\ Replies(c, "OK")

\* authenticate, when it does not: only an open link counts the attempt.
Deny(c) ==
    /\ failed' = IF linkOpen THEN failed + 1 ELSE failed
    /\ linkOpen' = (linkOpen /\ failed + 1 < Limit)
    /\ UNCHANGED <<authorized, invited>>
    /\ Replies(c, "DENY")

Matches(secret) ==
    \/ secret = "link" /\ linkOpen
    \/ secret = "invitation" /\ invited

\* Variant: a device that is authorized already has to show a secret again.
AuthenticateAnew(c) ==
    /\ conn[c].at = "asking"
    /\ conn[c].sent # "nothing"
    /\ IF Matches(conn[c].sent) THEN Allow(c, conn[c].sent) ELSE Deny(c)

\* read_to_end returns, and authenticate decides in the same poll.
Authenticate(c) ==
    /\ conn[c].at = "asking"
    /\ conn[c].sent # "nothing"
    /\ \/ /\ conn[c].dev \in authorized
          /\ Replies(c, "OK")
          /\ UNCHANGED pairing
       \/ /\ conn[c].dev \notin authorized
          /\ IF Matches(conn[c].sent) THEN Allow(c, conn[c].sent) ELSE Deny(c)

\* write_all and finish; the client may be slow to take it.
WriteReply(c) ==
    /\ conn[c].at = "replying"
    /\ conn' = [conn EXCEPT ![c].at = "grace"]
    /\ UNCHANGED <<pairing, history>>

\* connection.closed(), or FINISH_GRACE has gone by.
GraceEnds(c) ==
    /\ conn[c].at = "grace"
    /\ conn[c].read # "nothing" \/ conn[c].grace = FinishGrace
    /\ Ends(c, conn[c].read)
    /\ UNCHANGED pairing

\* The connection breaks, the client closes it, or the request is too long:
\* accept_bi, read_to_end or write_all fails.
ExchangeFails(c) ==
    /\ conn[c].at \in {"asking", "replying", "grace"}
    /\ Ends(c, conn[c].read)
    /\ UNCHANGED pairing

\* Variant: the timeout covers what is read only.
TimeoutWhileAsking(c) ==
    /\ conn[c].at = "asking"
    /\ conn[c].age = BindTimeout
    /\ Ends(c, "timeout")
    /\ UNCHANGED pairing

\* BIND_TIMEOUT: the exchange is dropped wherever it waits; close with 408.
Timeout(c) ==
    /\ c \in Exchanging
    /\ conn[c].age = BindTimeout
    /\ Ends(c, IF conn[c].read = "nothing" THEN "timeout" ELSE conn[c].read)
    /\ UNCHANGED pairing

\* The client tries again, as this or another device.
Retry(c) ==
    /\ conn[c].at = "ended"
    /\ conn' = [conn EXCEPT ![c] = NoConn]
    /\ retrying' = retrying \ {c}
    /\ UNCHANGED <<pairing, accepted, lost>>

----------------------------------------------------------------------------
(* Time, and the server's owner                                            *)

Due(c) ==
    \/ conn[c].age = BindTimeout
    \/ conn[c].at = "grace" /\ conn[c].grace = FinishGrace

\* Nothing is due: five seconds go by.
Tick ==
    /\ Exchanging # {}
    /\ \A c \in Exchanging : ~Due(c)
    /\ conn' = [c \in Conn |->
                  IF c \in Exchanging
                  THEN [conn[c] EXCEPT !.age = @ + 1,
                                       !.grace = IF conn[c].at = "grace" THEN @ + 1 ELSE @]
                  ELSE conn[c]]
    /\ UNCHANGED <<pairing, history>>

RefreshToken ==
    /\ linkOpen' = TRUE
    /\ failed' = 0
    /\ UNCHANGED <<authorized, invited, conn, history>>

LinkExpires ==
    /\ linkOpen
    /\ linkOpen' = FALSE
    /\ UNCHANGED <<authorized, invited, failed, conn, history>>

MintInvitation ==
    /\ ~invited
    /\ invited' = TRUE
    /\ UNCHANGED <<authorized, linkOpen, failed, conn, history>>

Revoke(d) ==
    /\ d \in authorized
    /\ authorized' = authorized \ {d}
    /\ accepted' = {c \in accepted : conn[c].dev # d}
    /\ lost' = lost \ {d}
    /\ retrying' = {c \in retrying : conn[c].dev # d}
    /\ UNCHANGED <<linkOpen, invited, failed, conn>>

----------------------------------------------------------------------------
Init ==
    /\ authorized = {}
    /\ linkOpen = TRUE
    /\ invited = FALSE
    /\ failed = 0
    /\ conn = [c \in Conn |-> NoConn]
    /\ accepted = {}
    /\ lost = {}
    /\ retrying = {}

Accepts(c) == AcquirePermit(c) \/ Authenticate(c) \/ WriteReply(c) \/ GraceEnds(c) \/ Timeout(c)

Next ==
    \/ \E c \in Conn :
          \/ Accepts(c) \/ ExchangeFails(c) \/ ReadReply(c) \/ Retry(c)
          \/ \E d \in Device : Connect(c, d)
          \/ \E secret \in Secret : SendSecret(c, secret)
    \/ Tick \/ RefreshToken \/ LinkExpires \/ MintInvitation
    \/ \E d \in Device : Revoke(d)

Spec == Init /\ [][Next]_vars

\* Time goes by and timers fire; a client does nothing it does not want to,
\* and may take its time over the reply too.
Fairness ==
    /\ WF_vars(Tick)
    /\ \A c \in Conn : WF_vars(AcquirePermit(c)) /\ WF_vars(GraceEnds(c)) /\ WF_vars(Timeout(c))

FairSpec == Spec /\ Fairness

----------------------------------------------------------------------------
(* Properties                                                              *)

ConnState ==
    [at : {"free", "open", "asking", "replying", "grace", "ended"},
     dev : Device, sent : Secret \cup {"nothing"}, reply : {"none", "OK", "DENY"},
     read : {"nothing", "OK", "DENY", "busy", "timeout"},
     age : 0 .. BindTimeout, grace : 0 .. FinishGrace]

\* Types; and no more exchanges than permits.
TypeOK ==
    /\ authorized \subseteq Device
    /\ linkOpen \in BOOLEAN
    /\ invited \in BOOLEAN
    /\ failed \in 0 .. Limit
    /\ conn \in [Conn -> ConnState]
    /\ accepted \subseteq Conn /\ retrying \subseteq Conn /\ lost \subseteq Device
    /\ Cardinality(Exchanging) <= Cap

\* An attempt is accepted, and the timeout, a broken connection or the end of
\* the grace takes its reply away; the device opens another connection, where
\* its invitation is spent, the link may be closed and others use up guesses.
\* Unless it was revoked since its first attempt, it is not denied there,
\* whatever it shows, and never reads a denial.
AcceptedNotDenied ==
    \A c \in retrying : conn[c].reply # "DENY" /\ conn[c].read # "DENY"

\* A permit comes back whatever the client does: it may be mute, leave the
\* reply unread, and hold its connection open (BIND_TIMEOUT over all of it).
ExchangesEnd == \A c \in Conn : c \in Exchanging ~> c \notin Exchanging

\* src/bind.rs: FINISH_GRACE is how long the connection is kept up "after
\* replying, so the reply is guaranteed to reach the client".
GraceIsGiven ==
    [][\A c \in Conn :
          conn[c].reply # "none" /\ conn'[c].read = "timeout" => conn[c].grace = FinishGrace]_vars
=============================================================================
