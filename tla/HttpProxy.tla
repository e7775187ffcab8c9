----------------------------- MODULE HttpProxy -----------------------------
(***************************************************************************)
(* handle, proxy and proxy_upgrade of src/http.rs: the requests of one     *)
(* stream of a device, one after another, and what becomes of the stream   *)
(* when one of them is an upgrade.                                         *)
(*                                                                         *)
(* The device and the app are external and do what they like: the device   *)
(* may finish its side or leave at any moment, the app may stay mute, close *)
(* or be gone.  hyper keeps requests apart, hands over what it has read    *)
(* beyond an upgrade, and with half_close(true) does not notice while a    *)
(* request is handled that the device is gone.  A head is a status with    *)
(* parts before it, a body or what a tunnel carries a row of frames.  The  *)
(* permit of the stream is the matter of ServeHandler, what rename and     *)
(* invite do that of AuthState, discover that of Discovery.                *)
(***************************************************************************)
EXTENDS Naturals, Sequences, SequencesExt

CONSTANTS
    Asks,           \* kinds of requests of the device
    MaxAsks,        \* bound on its requests
    MaxFrames,      \* bound on the frames of each side
    MaxParts,       \* bound on the parts of the app's head before its status is complete
    HeadCap,        \* the 64 KiB of proxy_upgrade, in parts
    Codes,          \* what an app may answer to an upgrade, 0 if it is no number
    ProxyTimeout    \* PROXY_TIMEOUT in ticks

ASSUME AsksAssumption == Asks \subseteq {"hub", "rename", "plain", "upgrade"}
ASSUME CodesAssumption == Codes \subseteq {0, 101} \cup 200..599
ASSUME NumberAssumption ==
    /\ MaxAsks \in Nat /\ MaxFrames \in Nat /\ MaxParts \in Nat
    /\ HeadCap \in Nat \ {0} /\ ProxyTimeout \in Nat \ {0}

VARIABLES
    client,     \* the device at its end of the stream
    service,    \* serve_stream, later the task of the tunnel
    app,        \* the app at its end of the connection
    up, down,   \* the stream, to the service and back
    out, back   \* the connection, to the app and back

stream == <<up, down>>
upstream == <<out, back>>
vars == <<client, service, app, stream, upstream>>

Piece(kind, n) == [kind |-> kind, n |-> n]
Request(a) == Piece(a, 0)
Body == Piece("body", 0)
Status(code) == Piece("status", code)
Part == Piece("part", 0)
Frame(n) == Piece("frame", n)
End == Piece("end", 0)      \* a body was complete
Eof == Piece("eof", 0)      \* this side is finished

Ways == {"up", "down"}
NoApp == [conn |-> "none", ask |-> "none", parts |-> 0, code |-> 0,
          sent |-> 0, got |-> <<>>, told |-> FALSE, mute |-> FALSE]
NewService == [at |-> "idle", waited |-> 0, rest |-> <<>>, done |-> {}]

Left == client.at = "left"
Comes(wire, kind) == wire # <<>> /\ Head(wire).kind = kind

----------------------------------------------------------------------------
(* The device                                                              *)

Ask(a) ==
    /\ client.at = "open" /\ client.waits = "none" /\ ~client.tunnel
    /\ client.asks < MaxAsks
    /\ client' = [client EXCEPT !.asks = @ + 1, !.waits = IF a = "rename" THEN "body" ELSE "answer",
                                !.got = <<>>]
    /\ up' = Append(up, Request(a))
    /\ UNCHANGED <<service, app, down, upstream>>

SendBody ==
    /\ client.at = "open" /\ client.waits = "body"
    /\ client' = [client EXCEPT !.waits = "answer"]
    /\ up' = Append(up, Body)
    /\ UNCHANGED <<service, app, down, upstream>>

SendFrame ==
    /\ client.at = "open" /\ client.tunnel /\ client.sent < MaxFrames
    /\ client' = [client EXCEPT !.sent = @ + 1]
    /\ up' = Append(up, Frame(client.sent + 1))
    /\ UNCHANGED <<service, app, down, upstream>>

Finish ==
    /\ client.at = "open"
    /\ client' = [client EXCEPT !.at = "finished"]
    /\ up' = Append(up, Eof)
    /\ UNCHANGED <<service, app, down, upstream>>

\* The connection is lost, with what was on its way.
Leave ==
    /\ client.at # "left"
    /\ client' = [client EXCEPT !.at = "left"]
    /\ up' = <<>> /\ down' = <<>>
    /\ UNCHANGED <<service, app, upstream>>

Hear ==
    /\ ~Left /\ down # <<>>
    /\ LET p == Head(down) IN
       client' = [client EXCEPT !.waits = IF p \in {Status(101), End} THEN "none" ELSE @,
                                !.tunnel = @ \/ p = Status(101),
                                !.got = IF p.kind = "frame" THEN Append(@, p.n) ELSE @]
    /\ down' = Tail(down)
    /\ UNCHANGED <<service, app, up, upstream>>

----------------------------------------------------------------------------
(* The app                                                                 *)

AppReads ==
    /\ app.conn = "open" /\ out # <<>>
    /\ LET p == Head(out) IN
       app' = [app EXCEPT !.told = @ \/ p = Eof,
                          !.got = IF p.kind = "frame" THEN Append(@, p.n) ELSE @,
                          !.ask = IF p.kind \in {"frame", "eof"} THEN @ ELSE p.kind]
    /\ out' = Tail(out)
    /\ UNCHANGED <<client, service, stream, back>>

Begun == app.conn = "open" /\ app.ask # "none" /\ app.code = 0

\* A part of the head.
AppBegins ==
    /\ Begun /\ app.ask = "upgrade" /\ app.parts < MaxParts
    /\ app' = [app EXCEPT !.parts = @ + 1]
    /\ back' = Append(back, Part)
    /\ UNCHANGED <<client, service, stream, out>>

\* The rest of the head: 999 stands for a status that is no number.
AppAnswers ==
    /\ Begun
    /\ \E code \in IF app.ask = "upgrade" THEN Codes ELSE {200} :
          /\ app' = [app EXCEPT !.code = IF code = 0 THEN 999 ELSE code]
          /\ back' = Append(back, Status(code))
    /\ UNCHANGED <<client, service, stream, out>>

AppSends ==
    /\ app.conn = "open" /\ app.sent < MaxFrames
    /\ app.code = IF app.ask = "upgrade" THEN 101 ELSE 200
    /\ app' = [app EXCEPT !.sent = @ + 1]
    /\ back' = Append(back, Frame(app.sent + 1))
    /\ UNCHANGED <<client, service, stream, out>>

\* The body of a plain answer is complete, and no more comes for it.
AppEnds ==
    /\ app.conn = "open" /\ app.ask = "plain" /\ app.code = 200
    /\ app' = [app EXCEPT !.conn = "closed"]
    /\ back' = Append(back, End)
    /\ UNCHANGED <<client, service, stream, out>>

AppCloses ==
    /\ app.conn = "open"
    /\ app' = [app EXCEPT !.conn = "closed"]
    /\ back' = Append(back, Eof)
    /\ UNCHANGED <<client, service, stream, out>>

----------------------------------------------------------------------------
(* serve_stream and handle                                                 *)

Goes(at) == service' = [service EXCEPT !.at = at]

\* The connection to the app is dropped, and with it what came and was not read.
Drops ==
    /\ out' = IF app.conn = "open" THEN Append(out, Eof) ELSE out
    /\ back' = <<>>
    /\ UNCHANGED app

\* The stream ends; to a device that is there its other side is finished.
Closes ==
    /\ service' = [service EXCEPT !.at = "closed", !.rest = <<>>]
    /\ down' = IF Left THEN down ELSE Append(down, Eof)

\* A response with all of its body; to a device that is gone it fails.
Answers(code) ==
    /\ service' = [service EXCEPT !.at = IF Left THEN "closed" ELSE "idle", !.rest = <<>>]
    /\ down' = IF Left THEN down ELSE down \o <<Status(code), End>>

Takes(a) ==
    /\ service.at = "idle" /\ Comes(up, a)
    /\ up' = Tail(up)

\* Catalog, info, devices, invite, and what is no route.
HubCodes == {200, 403, 404, 405, 429}
AnswerHub ==
    /\ Takes("hub")
    /\ \E code \in HubCodes : Answers(code)
    /\ UNCHANGED <<client, app, upstream>>

\* rename_self collects the body, however long that takes ...
BeginRename ==
    /\ Takes("rename")
    /\ Goes("collecting")
    /\ UNCHANGED <<client, app, down, upstream>>

\* ... and answers; what it does is SetDeviceName of AuthState.
Rename ==
    /\ service.at = "collecting" /\ Comes(up, "body")
    /\ up' = Tail(up)
    /\ \E code \in {200, 400} : Answers(code)
    /\ UNCHANGED <<client, app, upstream>>

\* The body will not come: 400, and hyper closes.
RefuseRename ==
    /\ service.at = "collecting" /\ Comes(up, "eof")
    /\ up' = Tail(up)
    /\ service' = [service EXCEPT !.at = "closed"]
    /\ down' = down \o <<Status(400), End, Eof>>
    /\ UNCHANGED <<client, app, upstream>>

\* The catalog, read once for the request, does not have the name.
AnswerUnknownApp ==
    /\ \E a \in {"plain", "upgrade"} : Takes(a)
    /\ Answers(404)
    /\ UNCHANGED <<client, app, upstream>>

\* The origin is copied from the catalog; proxy asks whether it is an upgrade.
BeginPlain ==
    /\ Takes("plain")
    /\ service' = [service EXCEPT !.at = "requesting", !.waited = 0]
    /\ app' = [NoApp EXCEPT !.mute = app.mute]
    /\ out' = <<>> /\ back' = <<>>
    /\ UNCHANGED <<client, down>>

BeginUpgrade ==
    /\ Takes("upgrade")
    /\ service' = [service EXCEPT !.at = "connecting", !.waited = 0]
    /\ app' = [NoApp EXCEPT !.mute = app.mute]
    /\ out' = <<>> /\ back' = <<>>
    /\ UNCHANGED <<client, down>>

\* No more requests.
EndRequests ==
    /\ service.at = "idle" /\ Comes(up, "eof")
    /\ up' = Tail(up)
    /\ Closes
    /\ UNCHANGED <<client, app, upstream>>

\* Where the service reads from the device, or writes what the app sends, it
\* notices that the device is gone.
LoseClient ==
    /\ Left
    /\ service.at \in {"idle", "collecting", "relaying", "handover", "passing", "copying"}
    /\ Closes
    /\ Drops
    /\ UNCHANGED <<client, up>>

----------------------------------------------------------------------------
(* proxy                                                                   *)

\* The hyper client connects and sends the request with a head of its own.
ReachApp ==
    /\ service.at = "requesting" /\ app.conn = "none"
    /\ app' = [app EXCEPT !.conn = "open"]
    /\ out' = <<Request("plain")>>
    /\ UNCHANGED <<client, service, stream, back>>

CannotReach ==
    /\ service.at = "requesting"
    /\ app.conn = "none" \/ Comes(back, "eof")
    /\ Answers(502)
    /\ Drops
    /\ UNCHANGED <<client, up>>

TimeOut ==
    /\ service.at = "requesting" /\ service.waited = ProxyTimeout
    /\ Answers(504)
    /\ Drops
    /\ UNCHANGED <<client, up>>

\* The head is passed on without what is for one hop only, then the body.
RelayHead ==
    /\ service.at = "requesting" /\ Comes(back, "status")
    /\ IF Left
       THEN Closes /\ Drops
       ELSE /\ Goes("relaying")
            /\ down' = Append(down, Head(back))
            /\ back' = Tail(back)
            /\ UNCHANGED <<app, out>>
    /\ UNCHANGED <<client, up>>

RelayBody ==
    /\ service.at = "relaying" /\ ~Left
    /\ Comes(back, "frame") \/ Comes(back, "end")
    /\ down' = Append(down, Head(back))
    /\ back' = Tail(back)
    /\ Goes(IF Head(back) = End THEN "idle" ELSE "relaying")
    /\ UNCHANGED <<client, app, up, out>>

\* A body that ends too early ends the stream.
BreakBody ==
    /\ service.at = "relaying" /\ ~Left /\ Comes(back, "eof")
    /\ Closes
    /\ Drops
    /\ UNCHANGED <<client, up>>

----------------------------------------------------------------------------
(* proxy_upgrade                                                           *)

\* An error of connect or write_all is one of the service: no response.
ConnectUpgrade ==
    /\ service.at = "connecting"
    /\ \/ /\ Goes("asking")
          /\ app' = [app EXCEPT !.conn = "open"]
          /\ UNCHANGED <<down, upstream>>
       \/ Closes /\ Drops
    /\ UNCHANGED <<client, up>>

AskUpgrade ==
    /\ service.at = "asking"
    /\ \/ /\ Goes("reading")
          /\ out' = Append(out, Request("upgrade"))
          /\ UNCHANGED <<app, down, back>>
       \/ app.conn = "closed" /\ Closes /\ Drops
    /\ UNCHANGED <<client, up>>

\* One read of the loop gives some of what has arrived: then buf is what was
\* read in all.
Reads(buf) ==
    /\ service.at = "reading"
    /\ \E k \in 1..Len(back) :
          /\ \A i \in 1..k : back[i] # Eof
          /\ buf = service.rest \o SubSeq(back, 1, k)
          /\ back' = SubSeq(back, k + 1, Len(back))

HeadEnd(buf) == SelectInSeq(buf, LAMBDA p : p.kind = "status")

\* Variant: the number is passed on as it is.
StatusRead(n) == n

\* A status that does not parse, or is none, is a bad gateway.
StatusOf(n) == IF n \in 100..999 THEN n ELSE 502

Bufs == {service.rest \o SubSeq(back, 1, k) : k \in 1..Len(back)}

ReadMore ==
    \E buf \in Bufs :
       /\ Reads(buf)
       /\ HeadEnd(buf) = 0 /\ Len(buf) <= HeadCap
       /\ service' = [service EXCEPT !.rest = buf]
       /\ UNCHANGED <<client, app, stream, out>>

\* Drops after a read: `back` is empty whatever was read of it.
RefuseOversized ==
    /\ \E buf \in Bufs :
          /\ service.at = "reading" /\ \A i \in 1..Len(buf) : buf[i] # Eof
          /\ HeadEnd(buf) = 0 /\ Len(buf) > HeadCap
    /\ Answers(502)
    /\ Drops
    /\ UNCHANGED <<client, up>>

\* The end of what the app sends is a bad gateway; if it is an error of the
\* connection there is no response.
RefuseClosed ==
    /\ service.at = "reading" /\ Comes(back, "eof")
    /\ Answers(502) \/ Closes
    /\ Drops
    /\ UNCHANGED <<client, up>>

\* The app's status with a body of the server's own.
RefuseUpgrade ==
    /\ service.at = "reading"
    /\ \E i \in 1..Len(back) :
          /\ back[i].kind = "status" /\ StatusOf(back[i].n) # 101
          /\ Answers(StatusOf(back[i].n))
    /\ Drops
    /\ UNCHANGED <<client, up>>

\* 101 goes to the device; what was read beyond the head is kept.
SwitchProtocols ==
    /\ ~Left
    /\ \E buf \in Bufs :
          /\ Reads(buf)
          /\ HeadEnd(buf) # 0 /\ StatusOf(buf[HeadEnd(buf)].n) = 101
          /\ service' = [service EXCEPT !.at = "handover",
                                        !.rest = SubSeq(buf, HeadEnd(buf) + 1, Len(buf))]
    /\ down' = Append(down, Status(101))
    /\ UNCHANGED <<client, app, up, out>>

\* As above, and the device is gone.
SwitchTooLate ==
    /\ Left /\ service.at = "reading" /\ \E i \in 1..Len(back) : back[i] = Status(101)
    /\ Closes
    /\ Drops
    /\ UNCHANGED <<client, up>>

\* The task: client_upgrade gives the stream ...
Handover ==
    /\ service.at = "handover" /\ ~Left
    /\ Goes("passing")
    /\ UNCHANGED <<client, app, stream, upstream>>

\* Variant: it is forgotten.
PassNothing ==
    /\ service.at = "passing" /\ ~Left
    /\ service' = [service EXCEPT !.at = "copying", !.rest = <<>>]
    /\ UNCHANGED <<client, app, stream, upstream>>

\* ... what was read already goes first ...
PassLeftover ==
    /\ service.at = "passing" /\ ~Left
    /\ down' = down \o service.rest
    /\ service' = [service EXCEPT !.at = "copying", !.rest = <<>>]
    /\ UNCHANGED <<client, app, up, upstream>>

\* ... then copy_bidirectional: the end of one side is passed on, and the other
\* goes on.
Copied(way, p) == service' = [service EXCEPT !.done = IF p = Eof THEN @ \cup {way} ELSE @]

CopyDown ==
    /\ service.at = "copying" /\ ~Left /\ "down" \notin service.done /\ back # <<>>
    /\ \/ /\ Copied("down", Head(back))
          /\ down' = Append(down, Head(back))
          /\ back' = Tail(back)
          /\ UNCHANGED <<app, out>>
       \/ Head(back) = Eof /\ Closes /\ Drops
    /\ UNCHANGED <<client, up>>

\* Variant: the end of the device's side is not passed on.
CopyUpFrames ==
    /\ service.at = "copying" /\ ~Left /\ "up" \notin service.done /\ up # <<>>
    /\ \/ /\ Copied("up", Head(up))
          /\ out' = IF Head(up) = Eof THEN out ELSE Append(out, Head(up))
          /\ UNCHANGED <<app, down, back>>
       \/ app.conn = "closed" /\ Closes /\ Drops
    /\ up' = Tail(up)
    /\ UNCHANGED client

\* Writing to an app that has closed may fail, as reading may (above): that
\* ends both ways.
CopyUp ==
    /\ service.at = "copying" /\ ~Left /\ "up" \notin service.done /\ up # <<>>
    /\ \/ /\ Copied("up", Head(up))
          /\ out' = Append(out, Head(up))
          /\ UNCHANGED <<app, down, back>>
       \/ app.conn = "closed" /\ Closes /\ Drops
    /\ up' = Tail(up)
    /\ UNCHANGED client

EndTunnel ==
    /\ service.at = "copying" /\ service.done = Ways
    /\ Goes("closed")
    /\ UNCHANGED <<client, app, stream, upstream>>

----------------------------------------------------------------------------
Awaiting == {"requesting", "connecting", "asking", "reading"}

\* The timer of a plain request is due: nothing passes it.
Tick ==
    /\ service.at \in Awaiting
    /\ service.waited < IF service.at = "requesting" THEN ProxyTimeout ELSE ProxyTimeout + 1
    /\ service' = [service EXCEPT !.waited = @ + 1]
    /\ UNCHANGED <<client, app, stream, upstream>>

Init ==
    /\ client = [at |-> "open", asks |-> 0, waits |-> "none", tunnel |-> FALSE,
                 sent |-> 0, got |-> <<>>]
    /\ service = NewService
    /\ \E mute \in BOOLEAN : app = [NoApp EXCEPT !.mute = mute]
    /\ up = <<>> /\ down = <<>> /\ out = <<>> /\ back = <<>>

Device ==
    (\E a \in Asks : Ask(a)) \/ SendBody \/ SendFrame \/ Finish \/ Leave \/ Hear

App == AppReads \/ AppBegins \/ AppAnswers \/ AppSends \/ AppEnds \/ AppCloses

Serve ==
    \/ AnswerHub \/ BeginRename \/ Rename \/ RefuseRename \/ AnswerUnknownApp
    \/ BeginPlain \/ BeginUpgrade \/ EndRequests \/ LoseClient

Proxy == ReachApp \/ CannotReach \/ TimeOut \/ RelayHead \/ RelayBody \/ BreakBody

Upgrade ==
    \/ ConnectUpgrade \/ AskUpgrade \/ ReadMore \/ RefuseOversized \/ RefuseClosed
    \/ RefuseUpgrade \/ SwitchProtocols \/ SwitchTooLate

Tunnel == Handover \/ PassLeftover \/ CopyDown \/ CopyUp \/ EndTunnel

Next == Device \/ App \/ Serve \/ Proxy \/ Upgrade \/ Tunnel \/ Tick

Spec == Init /\ [][Next]_vars

\* What an app does that is not mute: it reads, answers what it was asked, and
\* closes when it is told that no more comes.
Replies == AppReads \/ AppAnswers \/ AppEnds \/ (app.told /\ AppCloses)

\* The runtime polls the service, time passes, and of the apps those that are
\* not mute go on.  The device has no fairness.
FairSpec ==
    /\ Spec
    /\ WF_vars(Serve \/ Proxy \/ Upgrade \/ Tunnel)
    /\ WF_vars(Tick)
    /\ WF_vars(~app.mute /\ Replies)

----------------------------------------------------------------------------
Wire == Seq([kind : Asks \cup {"body", "part", "frame", "end", "eof"}, n : 0..MaxFrames]
            \cup [kind : {"status"}, n : 100..999])

\* Every variable has its type; what the device gets has a status that is one.
TypeOK ==
    /\ client \in [at : {"open", "finished", "left"}, asks : 0..MaxAsks,
                   waits : {"none", "body", "answer"}, tunnel : BOOLEAN,
                   sent : 0..MaxFrames, got : Seq(1..MaxFrames)]
    /\ service.at \in {"idle", "collecting", "relaying", "handover", "passing", "copying",
                       "closed"} \cup Awaiting
    /\ service.waited \in 0..ProxyTimeout + 1 /\ service.done \subseteq Ways
    /\ app.conn \in {"none", "open", "closed"} /\ app.ask \in Asks \cup {"none"}
    /\ app.sent \in 0..MaxFrames /\ app.got \in Seq(1..MaxFrames)
    /\ up \in Wire /\ down \in Wire /\ out \in Wire

UpTo(n) == [i \in 1..n |-> i]
Frames(wire) == {i \in 1..Len(wire) : wire[i].kind = "frame"}

\* The frames on the wire are those after the a-th up to the b-th, in order.
Carries(wire, a, b) ==
    /\ {wire[i].n : i \in Frames(wire)} = a+1..b
    /\ \A i, j \in Frames(wire) : i < j => wire[i].n < wire[j].n

\* Through a tunnel each side gets what the other sent, in order and from its
\* start, also what came with the head of the app's answer; and all of it, if
\* the tunnel ended because both had finished (proxy_upgrade: "forward them
\* first").
TunnelIsWhole ==
    client.tunnel =>
       /\ IsPrefix(client.got, UpTo(app.sent)) /\ IsPrefix(app.got, UpTo(client.sent))
       /\ service.done = Ways /\ ~Left =>
             /\ Carries(down, Len(client.got), app.sent)
             /\ Carries(out, Len(app.got), client.sent)

\* When the device has finished its side, or is gone, the stream ends, unless
\* an app stays mute; and a plain request waits for no app for ever.  Nothing
\* of a tunnel stays behind: the end of one side reaches the other.
StreamsEnd ==
    /\ (client.at # "open" /\ ~app.mute) ~> service.at = "closed"
    /\ service.at = "requesting" ~> service.at # "requesting"

\* src/http.rs: PROXY_TIMEOUT is the "Max time to wait for the local origin to
\* produce a response head".  An upgrade waits without it.
HeadsAreTimed == service.at \in Awaiting => service.waited <= ProxyTimeout

\* An upgrade that the app refuses is no success for the device.  An app that
\* ignores the upgrade and answers the request is passed off as one that said
\* 200 and an error.
RefusalsFail ==
    [][service.at = "reading" /\ service'.at = "idle" =>
          \A i \in Len(down) + 1 .. Len(down') :
             down'[i].kind = "status" => down'[i].n \notin 200..299]_vars
=============================================================================
