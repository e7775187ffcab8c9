---------------------------- MODULE DeviceTrust ----------------------------
(***************************************************************************)
(* What pairing promises, without locks, counters or files: a device is    *)
(* trusted because it presented the open pairing link, because it was the  *)
(* one device to redeem an invitation, or because the server restarted and *)
(* remembered it.  A restart may forget devices and may remember one that  *)
(* was revoked meanwhile (nothing here says how good its memory is), but   *)
(* it never trusts a device that did not pair, and it forgets every link   *)
(* and every invitation.                                                   *)
(***************************************************************************)
CONSTANTS
    Device,     \* devices that may pair
    Token,      \* the values links and invitations are made of
    NoToken     \* no link is open: not a member of Token

VARIABLES
    trusted,    \* devices that may use the server now
    ever,       \* devices that paired at least once
    link,       \* the open pairing link, or NoToken
    invites,    \* invitations nobody has redeemed and that have not lapsed
    used        \* values that cannot be a new invitation any more

vars == <<trusted, ever, link, invites, used>>

Init ==
    /\ trusted = {}
    /\ ever = {}
    /\ invites = {}
    /\ used \subseteq Token
    /\ link \in used \cup {NoToken}

\* A link replaces the one before it, which may have had the same value.
OpenLink(v) ==
    /\ v \notin invites
    /\ link' = v
    /\ used' = used \cup {v}
    /\ UNCHANGED <<trusted, ever, invites>>

\* The link expires, is used up by wrong guesses, or is withdrawn.
CloseLink ==
    /\ link' = NoToken
    /\ UNCHANGED <<trusted, ever, invites, used>>

\* An invitation is always a new one.
Invite(v) ==
    /\ v \notin used
    /\ invites' = invites \cup {v}
    /\ used' = used \cup {v}
    /\ UNCHANGED <<trusted, ever, link>>

Lapse(v) ==
    /\ invites' = invites \ {v}
    /\ UNCHANGED <<trusted, ever, link, used>>

PairByLink(d) ==
    /\ link # NoToken
    /\ trusted' = trusted \cup {d}
    /\ ever' = ever \cup {d}
    /\ UNCHANGED <<link, invites, used>>

\* Redeeming consumes: no second device, and no second time.
PairByInvite(d, v) ==
    /\ v \in invites
    /\ invites' = invites \ {v}
    /\ trusted' = trusted \cup {d}
    /\ ever' = ever \cup {d}
    /\ UNCHANGED <<link, used>>

Revoke(d) ==
    /\ trusted' = trusted \ {d}
    /\ UNCHANGED <<ever, link, invites, used>>

\* The server comes back with a link of its own.
Restart(remembered, v) ==
    /\ trusted' = remembered
    /\ link' = v
    /\ invites' = {}
    /\ used' = used \cup {v}
    /\ UNCHANGED ever

Next ==
    \/ \E v \in Token : OpenLink(v) \/ Invite(v) \/ Lapse(v)
    \/ CloseLink
    \/ \E d \in Device : PairByLink(d) \/ Revoke(d)
    \/ \E d \in Device, v \in Token : PairByInvite(d, v)
    \/ \E remembered \in SUBSET ever, v \in Token : Restart(remembered, v)

Spec == Init /\ [][Next]_vars
=============================================================================
