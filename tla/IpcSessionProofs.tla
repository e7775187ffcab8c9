--------------------------- MODULE IpcSessionProofs ---------------------------
(* What holds of IpcSession for any number of commands, daemons, edits and   *)
(* contents of config.toml.                                                  *)
EXTENDS IpcSession, SequenceTheorems, TLAPS

\* At most one message, and what a line of it may be on the wire.
Single(S) == {<<>>} \cup {<<b>> : b \in S}
Pieces(S) == Single(S) \cup {Line(b) : b \in S}

Early == {"idle", "loading", "connecting"}
Busy == {"handling", "loaded", "compared", "replaced", "applied"}
Answered == {"Ok", "Denied", "Error", "Status", "Token", "Devices", "Reload", "Apps",
             "DiscoverReport"}

ClientState == [at : Early \cup {"hello", "asking", "done", "failed"},
                ask : Ask \cup {"none"}, token : 0..MaxStarts, peer : 0..MaxStarts,
                out : Single(Body), got : Answered \cup {"none"}]
ServerState == [at : {"none", "hello", "denied", "reading", "closed"} \cup Busy,
                ask : Ask \cup {"none"}, new : Config \cup {Broken}, required : BOOLEAN,
                out : Single(Reply), times : Nat]
Memory == [conf : Config, limit : {v.attempts : v \in Config},
           started : {v.net : v \in Config}]

DaemonsTyped ==
    /\ daemon \in [Daemon -> {"unborn", "json", "up", "asked", "leaving", "gone"}]
    /\ json \in 0..MaxStarts /\ socket \in 0..MaxStarts
    /\ memory \in [Daemon -> Memory]
    /\ file \in Config \cup {Broken}
    /\ announced \subseteq Daemon /\ edits \in 0..MaxEdits
EndsTyped ==
    /\ client \in [Command -> ClientState] /\ server \in [Command -> ServerState]
    /\ up \in [Command -> Pieces(Body)] /\ down \in [Command -> Pieces(Reply)]
Typed == DaemonsTyped /\ EndsTyped

----------------------------------------------------------------------------
(* Lines                                                                   *)

\* A line alone on a wire: what the two writes leave there, where it ends, and
\* that a reader takes all of it.
LEMMA LineFacts ==
    ASSUME NEW b, b.kind # "newline"
    PROVE  /\ Written(<<>>, b) = Line(b) /\ Cut(<<>>, b) = <<b>>
           /\ Head(<<b>>) = b /\ Tail(<<b>>) = <<>> /\ Head(Line(b)) = b
           /\ Len(<<b>>) = 1 /\ Len(Line(b)) = 2
           /\ ~HasLine(<<b>>) /\ HasLine(Line(b)) /\ EndOfLine(Line(b)) = 2
           /\ Leaves(<<b>>, 1) = <<>> /\ Leaves(Line(b), 2) = <<>>
<1>0. b # EOL
    BY DEF EOL
<1>1. /\ <<b>> \in Seq({b, EOL}) /\ <<b, EOL>> \in Seq({b, EOL}) /\ <<>> \in Seq({b, EOL})
      /\ Len(<<b>>) = 1 /\ Len(<<b, EOL>>) = 2
    OBVIOUS
<1>2. Written(<<>>, b) = Line(b)
    BY <1>1, ConcatEmptySeq DEF Written, Line
<1>3. Cut(<<>>, b) = <<b>>
  <2>1. /\ Append(<<>>, b) \in Seq({b, EOL}) /\ Len(Append(<<>>, b)) = 1
        /\ Append(<<>>, b)[1] = b
      BY <1>1, AppendProperties, EmptySeq
  <2> QED BY <1>1, <2>1, SeqEqual DEF Cut
<1>4. /\ Head(<<b>>) = b /\ Head(Line(b)) = b
    BY DEF Line
<1>5. Tail(<<b>>) = <<>>
    BY <1>1, HeadTailProperties, EmptySeq, SeqEqual
<1>6. HasLine(Line(b)) /\ ~HasLine(<<b>>)
    BY <1>0, <1>1 DEF HasLine, Line
<1>7. EndOfLine(Line(b)) = 2
  <2>1. \A i \in 1..2 : (<<b, EOL>>[i] = EOL) <=> (i = 2)
      BY <1>0
  <2>2. \A i \in 1..Len(Line(b)) :
           (/\ Line(b)[i] = EOL
            /\ \A j \in 1..(i - 1) : Line(b)[j] # EOL) <=> (i = 2)
      BY <1>1, <2>1 DEF Line
  <2> QED BY <1>1, <2>2 DEF EndOfLine, Line
<1>8. Leaves(<<b>>, 1) = <<>> /\ Leaves(Line(b), 2) = <<>>
    BY <1>1, SubSeqEmpty DEF Leaves, Line
<1> QED BY <1>1, <1>2, <1>3, <1>4, <1>5, <1>6, <1>7, <1>8 DEF Line

LEMMA BodyKinds ==
    /\ \A b \in Body : b.kind # "newline"
    /\ \A r \in Reply : r.kind # "newline" /\ r.kind \in Answered
    /\ "newline" \notin Ask /\ "none" \notin Ask
    /\ \A k \in Answered : Answer(k) \in Reply /\ Answer(k).kind = k
    /\ {r.kind : r \in Reply} = Answered
<1>1. Ask \subseteq {"Status", "GetToken", "RefreshToken", "Reload", "ListAuthorized",
                     "RevokeAuthorized", "RenameAuthorized", "ListApps",
                     "DiscoverNow", "DiscoverReport", "Shutdown"}
    BY AskAssumption DEF Ask
<1>2. \A b \in Body : b.kind # "newline"
    BY <1>1 DEF Body, Hello, Request
<1>3. \A r \in Reply : r.kind # "newline" /\ r.kind \in Answered
    BY DEF Reply, Answer, Answered
<1>4. \A k \in Answered : Answer(k) \in Reply /\ Answer(k).kind = k
    BY DEF Reply, Answer, Answered
<1>5. {r.kind : r \in Reply} = Answered
    BY <1>3, <1>4
<1> QED BY <1>1, <1>2, <1>3, <1>4, <1>5

\* A reader that has a line, or the last piece of one that was cut, has all
\* that was on the wire.
LEMMA ReadsAll ==
    ASSUME NEW S, \A b \in S : b.kind # "newline",
           NEW wire \in Pieces(S), wire # <<>>,
           NEW k \in 1..Len(wire),
           HasLine(wire) => k >= EndOfLine(wire), ~HasLine(wire) => k = Len(wire)
    PROVE  Leaves(wire, k) = <<>>
<1>1. PICK b \in S : wire = <<b>> \/ wire = Line(b)
    BY DEF Pieces, Single
<1>2. CASE wire = <<b>>
    BY <1>2, LineFacts
<1>3. CASE wire = Line(b)
  <2>1. k \in 1..2 /\ k >= 2
      BY <1>3, LineFacts
  <2>2. k = 2
      BY <2>1
  <2> QED BY <1>3, <2>2, LineFacts
<1> QED BY <1>1, <1>2, <1>3

LEMMA TakesAll ==
    ASSUME NEW c \in Command, up \in [Command -> Pieces(Body)], Takes(c)
    PROVE  up' = [up EXCEPT ![c] = <<>>]
<1>1. CASE up[c] = <<>>
    BY <1>1 DEF Takes
<1>2. CASE up[c] # <<>>
  <2>1. PICK k \in 1..Len(up[c]) :
          /\ HasLine(up[c]) => k >= EndOfLine(up[c])
          /\ ~HasLine(up[c]) => k = Len(up[c])
          /\ up' = [up EXCEPT ![c] = Leaves(up[c], k)]
      BY <1>2 DEF Takes
  <2>2. Leaves(up[c], k) = <<>>
      BY <1>2, <2>1, ReadsAll, BodyKinds
  <2> QED BY <2>1, <2>2
<1> QED BY <1>1, <1>2

\* The command reads all, and what it makes of it depends on the first piece.
LEMMA ReceivesAll ==
    ASSUME NEW c \in Command, down \in [Command -> Pieces(Reply)], Receive(c),
           down[c] # <<>>
    PROVE  /\ down' = [down EXCEPT ![c] = <<>>]
           /\ IF client[c].at = "hello" THEN Welcomed(c, Head(down[c]).kind)
              ELSE Told(c, Head(down[c]).kind)
<1>1. PICK k \in 1..Len(down[c]) :
        /\ HasLine(down[c]) => k >= EndOfLine(down[c])
        /\ ~HasLine(down[c]) => k = Len(down[c])
        /\ down' = [down EXCEPT ![c] = Leaves(down[c], k)]
        /\ IF client[c].at = "hello" THEN Welcomed(c, Head(down[c]).kind)
           ELSE Told(c, Head(down[c]).kind)
    BY DEF Receive
<1>2. Leaves(down[c], k) = <<>>
    BY <1>1, ReadsAll, BodyKinds
<1> QED BY <1>1, <1>2

\* The first piece is a message of its kind.
LEMMA FirstPiece ==
    ASSUME NEW S, \A b \in S : b.kind # "newline",
           NEW wire \in Pieces(S), wire # <<>>
    PROVE  /\ Head(wire) \in S
           /\ wire = <<Head(wire)>> \/ wire = Line(Head(wire))
<1>1. PICK b \in S : wire = <<b>> \/ wire = Line(b)
    BY DEF Pieces, Single
<1> QED BY <1>1, LineFacts

----------------------------------------------------------------------------
(* One conversation                                                        *)

\* What handle may answer to a request.
Given(a) ==
    StatusAnswers(a) \cup LinkAnswers(a) \cup DeviceAnswers(a) \cup AppsAnswers(a)
    \cup (IF a = "Shutdown" THEN {"Ok"} ELSE {})
    \cup (IF a = "Reload" THEN {"Reload", "Error"} ELSE {})

\* The four parts of the invariant of a conversation, between a command k and
\* the handler s of its connection, with u and w on the way.

\* Before there is a connection, and what the command knows by then.
Connecting(k, s, u, w) ==
    /\ k.at \in Early => s.at = "none" /\ k.out = <<>>
    /\ (s.at = "none") <=> (k.peer = 0)
    /\ s.at = "none" => /\ k.at \in Early \cup {"failed"}
                        /\ s.out = <<>> /\ s.times = 0 /\ u = <<>> /\ w = <<>>
    /\ k.at # "idle" => k.ask \in Ask
    /\ k.at \notin {"idle", "loading", "failed"} => k.token \in Daemon

\* The Hello goes out, alone, and whoever is past it has shown the token.
Greeting(k, s, u, w) ==
    /\ s.at = "hello" => /\ k.at \in {"hello", "failed"}
                         /\ s.out = <<>> /\ s.times = 0 /\ w = <<>>
                         /\ u \in {<<>>, <<Hello(k.token)>>, Line(Hello(k.token))}
    /\ k.at = "hello" => /\ s.times = 0
                         /\ s.at \in {"hello", "denied", "reading", "closed"}
                         /\ k.out # <<>> => /\ s.at \in {"hello", "closed"}
                                            /\ k.out = <<Hello(k.token)>>
                                            /\ u = <<>> /\ w = <<>>
                         /\ w # <<>> => u = <<>>
    /\ s.at = "denied" => /\ k.at \in {"hello", "failed"}
                          /\ s.times = 0 /\ s.out # <<>> /\ u = <<>>
    /\ s.at \in {"reading"} \cup Busy \/ s.times > 0 => k.token = k.peer

\* The request goes out, alone, once the Hello is answered.
Asking(k, s, u, w) ==
    /\ s.at = "reading" => /\ u \in {<<>>, <<Request(k.ask)>>, Line(Request(k.ask))}
                           /\ k.at = "hello" => u = <<>>
                           /\ u # <<>> => w = <<>>
    /\ k.at = "asking" => /\ s.at \in {"reading", "closed"} \cup Busy
                          /\ s.times = 0 => s.out = <<>> /\ w = <<>>
                          /\ k.out # <<>> => /\ s.times = 0 /\ u = <<>>
                                             /\ k.out = <<Request(k.ask)>>
    /\ u # <<>> => s.times = 0 /\ s.out = <<>>
    /\ s.out # <<>> => w = <<>> /\ s.at \in {"denied", "reading"}
    /\ s.at \in Busy => s.times = 1 /\ w = <<>>

\* It is handled once, and answered with what the command knows.
Answering(k, s, u, w) ==
    /\ s.times <= 1
    /\ s.at \in Busy \ {"handling"} => s.ask = "Reload" /\ s.new \in Config
    /\ s.times > 0 => /\ s.ask = k.ask
                      /\ k.at \in {"asking", "done", "failed"}
                      /\ s.out # <<>> => Head(s.out).kind \in Given(k.ask)
                      /\ k.at = "asking" /\ w # <<>> => Head(w).kind \in Given(k.ask)
    /\ k.got # "none" => /\ s.times = 1 /\ k.at \in {"done", "failed"}
                         /\ k.at = "done" \/ (k.ask = "Reload" /\ k.got = "Error")

Talk(k, s, u, w) ==
    /\ Connecting(k, s, u, w)
    /\ Greeting(k, s, u, w)
    /\ Asking(k, s, u, w)
    /\ Answering(k, s, u, w)

Talks(c) == Talk(client[c], server[c], up[c], down[c])
TalkInv == \A c \in Command : Talks(c)

\* Only the conversation of c goes on.
Only(c) ==
    /\ client' = [client EXCEPT ![c] = client'[c]]
    /\ server' = [server EXCEPT ![c] = server'[c]]
    /\ up' = [up EXCEPT ![c] = up'[c]]
    /\ down' = [down EXCEPT ![c] = down'[c]]
    /\ client'[c] \in ClientState /\ server'[c] \in ServerState
    /\ up'[c] \in Pieces(Body) /\ down'[c] \in Pieces(Reply)

LEMMA OneConversation ==
    ASSUME EndsTyped, TalkInv, NEW c \in Command, Only(c), Talks(c)'
    PROVE  EndsTyped' /\ TalkInv'
<1>1. EndsTyped'
    BY DEF EndsTyped, Only
<1>2. ASSUME NEW e \in Command, e # c
      PROVE  Talks(e)'
  <2>1. /\ client'[e] = client[e] /\ server'[e] = server[e]
        /\ up'[e] = up[e] /\ down'[e] = down[e]
      BY <1>2 DEF Only, EndsTyped
  <2>2. Talk(client[e], server[e], up[e], down[e])
      BY DEF TalkInv, Talks
  <2> QED BY <2>1, <2>2 DEF Talks
<1> QED BY <1>1, <1>2 DEF TalkInv

\* A command fails wherever it is.
LEMMA FailsTalks ==
    ASSUME Typed, TalkInv, NEW c \in Command, Fails(c), UNCHANGED <<server, up, down>>,
           client[c].at \in {"loading", "connecting", "hello", "asking"}
    PROVE  Only(c) /\ Talks(c)'
<1>0. /\ client[c] \in ClientState /\ server[c] \in ServerState
      /\ up[c] \in Pieces(Body) /\ down[c] \in Pieces(Reply)
      /\ Talk(client[c], server[c], up[c], down[c])
    BY DEF Typed, EndsTyped, TalkInv, Talks
<1>1. client'[c] = [client[c] EXCEPT !.at = "failed"]
    BY DEF Fails, Goes, Typed, EndsTyped
<1>2. client'[c] \in ClientState
    BY <1>0, <1>1 DEF ClientState
<1>3. Only(c)
    BY <1>0, <1>1, <1>2 DEF Only, Fails, Goes, Typed, EndsTyped
<1>4. Talk(client'[c], server[c], up[c], down[c])
    BY <1>0, <1>1
       DEF Talk, Connecting, Greeting, Asking, Answering, ClientState, Early, Busy
<1> QED BY <1>3, <1>4 DEF Talks

LEMMA GivenIsKnown ==
    ASSUME NEW a \in Ask, NEW k \in Given(a)
    PROVE  Knows(a, k) \/ (a = "Reload" /\ k = "Error")
<1>1. a \in {"Status", "GetToken", "RefreshToken", "Reload", "ListAuthorized",
             "RevokeAuthorized", "RenameAuthorized", "ListApps",
             "DiscoverNow", "DiscoverReport", "Shutdown"}
    BY AskAssumption DEF Ask
<1> USE DEF Given, StatusAnswers, LinkAnswers, DeviceAnswers, AppsAnswers
<1> USE DEF Knows, StatusKnows, ReloadKnows, PairKnows, ListKnows, RenameKnows, RevokeKnows,
            StopKnows, AppsKnows, DiscoverKnows
<1>2. CASE k \in StatusAnswers(a) \cup LinkAnswers(a)
    BY <1>2
<1>3. CASE k \in DeviceAnswers(a) \cup AppsAnswers(a)
    BY <1>3
<1>4. CASE a = "Shutdown" /\ k = "Ok"
    BY <1>4
<1>5. CASE a = "Reload" /\ k \in {"Reload", "Error"}
    BY <1>5
<1> QED BY <1>1, <1>2, <1>3, <1>4, <1>5

\* The steps of a command.
LEMMA RunsTalks ==
    ASSUME Typed, TalkInv, NEW c \in Command, Runs(c)
    PROVE  Only(c) /\ Talks(c)'
<1> USE DEF Early, Busy
<1>0. /\ client[c] \in ClientState /\ server[c] \in ServerState
      /\ up[c] \in Pieces(Body) /\ down[c] \in Pieces(Reply)
      /\ Talk(client[c], server[c], up[c], down[c])
    BY DEF Typed, EndsTyped, TalkInv, Talks
<1>1. CASE FindDaemon(c)
  <2>1. PICK a \in Asks[c], at \in {"loading", "failed"} :
          client' = [client EXCEPT ![c].ask = a, ![c].at = at]
      BY <1>1 DEF FindDaemon
  <2>2. client[c].at = "idle"
      BY <1>1 DEF FindDaemon
  <2>3. client'[c] = [client[c] EXCEPT !.ask = a, !.at = at]
      BY <2>1 DEF Typed, EndsTyped
  <2>4. a \in Ask
      BY DEF Ask
  <2>5. client'[c] \in ClientState
      BY <1>0, <2>3, <2>4 DEF ClientState
  <2>6. UNCHANGED <<server, up, down>>
      BY <1>1 DEF FindDaemon, wires
  <2>7. Only(c)
      BY <1>0, <2>1, <2>5, <2>6 DEF Only, Typed, EndsTyped
  <2>8. Talk(client'[c], server[c], up[c], down[c])
      BY <1>0, <2>2, <2>3, <2>4 DEF Talk, Connecting, Greeting, Asking, Answering, ClientState
  <2> QED BY <2>6, <2>7, <2>8 DEF Talks
<1>2. CASE LoadToken(c)
  <2>1. UNCHANGED <<server, up, down>> /\ client[c].at = "loading"
      BY <1>2 DEF LoadToken, wires
  <2>2. CASE json = 0
      BY <1>2, <2>1, <2>2, FailsTalks DEF LoadToken
  <2>3. CASE json # 0
    <3>1. client' = [client EXCEPT ![c].at = "connecting", ![c].token = json]
        BY <1>2, <2>3 DEF LoadToken
    <3>2. client'[c] = [client[c] EXCEPT !.at = "connecting", !.token = json]
        BY <3>1 DEF Typed, EndsTyped
    <3>3. json \in Daemon
        BY <2>3, BoundAssumption DEF Typed, DaemonsTyped, Daemon
    <3>4. client'[c] \in ClientState
        BY <1>0, <3>2 DEF ClientState, Typed, DaemonsTyped
    <3>5. Only(c)
        BY <1>0, <2>1, <3>1, <3>4 DEF Only, Typed, EndsTyped
    <3>6. Talk(client'[c], server[c], up[c], down[c])
        BY <1>0, <2>1, <3>2, <3>3
           DEF Talk, Connecting, Greeting, Asking, Answering, ClientState
    <3> QED BY <2>1, <3>5, <3>6 DEF Talks
  <2> QED BY <2>2, <2>3
<1>3. CASE Connect(c)
  <2>1. UNCHANGED <<up, down>> /\ client[c].at = "connecting"
      BY <1>3 DEF Connect, wires
  <2>2. CASE ~Accepts
      BY <1>3, <2>1, <2>2, FailsTalks DEF Connect
  <2>3. CASE Accepts
    <3>1. /\ client' = [client EXCEPT ![c].at = "hello", ![c].peer = socket,
                                      ![c].out = <<Hello(client[c].token)>>]
          /\ server' = [server EXCEPT ![c].at = "hello"]
        BY <1>3, <2>3 DEF Connect
    <3>2. /\ client'[c] = [client[c] EXCEPT !.at = "hello", !.peer = socket,
                                            !.out = <<Hello(client[c].token)>>]
          /\ server'[c] = [server[c] EXCEPT !.at = "hello"]
        BY <3>1 DEF Typed, EndsTyped
    <3>3. client[c].token \in Daemon /\ server[c].at = "none"
        BY <1>0, <2>1 DEF Talk, Connecting
    <3>4. <<Hello(client[c].token)>> \in Single(Body) /\ <<Hello(client[c].token)>> # <<>>
        BY <3>3 DEF Single, Body
    <3>5. client'[c] \in ClientState /\ server'[c] \in ServerState
        BY <1>0, <3>2, <3>4 DEF ClientState, ServerState, Typed, DaemonsTyped
    <3>6. Only(c)
        BY <1>0, <2>1, <3>1, <3>5 DEF Only, Typed, EndsTyped
    <3>7. socket # 0
        BY <2>3 DEF Accepts
    <3>8. Talk(client'[c], server'[c], up[c], down[c])
        BY <1>0, <2>1, <3>2, <3>3, <3>4, <3>7
           DEF Talk, Connecting, Greeting, Asking, Answering, ClientState, ServerState
    <3> QED BY <2>1, <3>6, <3>8 DEF Talks
  <2> QED BY <2>2, <2>3
<1>4. CASE Send(c)
  <2>1. /\ UNCHANGED <<server, down>>
        /\ client[c].at \in {"hello", "asking"} /\ client[c].out # <<>>
      BY <1>4 DEF Send
  <2>2. CASE server[c].at = "closed"
      BY <1>4, <2>1, <2>2, FailsTalks DEF Send
  <2>3. CASE server[c].at # "closed"
    <3>1. PICK b \in Body : client[c].out = <<b>>
        BY <1>0, <2>1 DEF ClientState, Single
    <3>2. b.kind # "newline"
        BY BodyKinds
    <3>3. up[c] = <<>>
        BY <1>0, <2>1 DEF Talk, Greeting, Asking
    <3>4. /\ client' = [client EXCEPT ![c].out = <<>>]
          /\ up' = [up EXCEPT ![c] = Line(b)]
        BY <1>4, <2>3, <3>1, <3>2, <3>3, LineFacts, ZenonT(30) DEF Send
    <3>5. /\ client'[c] = [client[c] EXCEPT !.out = <<>>]
          /\ up'[c] = Line(b)
        BY <3>4 DEF Typed, EndsTyped
    <3>6. client'[c] \in ClientState /\ up'[c] \in Pieces(Body)
        BY <1>0, <3>5 DEF ClientState, Single, Pieces
    <3>7. Only(c)
        BY <1>0, <2>1, <3>4, <3>6 DEF Only, Typed, EndsTyped
    <3>8. /\ client[c].at = "hello" => b = Hello(client[c].token)
          /\ client[c].at = "asking" => b = Request(client[c].ask)
        BY <1>0, <2>1, <3>1 DEF Talk, Greeting, Asking
    <3>9. Talk(client'[c], server[c], up'[c], down[c])
        BY <1>0, <2>1, <2>3, <3>1, <3>3, <3>5, <3>8
           DEF Talk, Connecting, Greeting, Asking, Answering, ClientState, ServerState
    <3> QED BY <2>1, <3>7, <3>9 DEF Talks
  <2> QED BY <2>2, <2>3
<1>5. CASE Receive(c)
  <2>1. /\ UNCHANGED <<server, up>>
        /\ client[c].at \in {"hello", "asking"} /\ client[c].out = <<>>
      BY <1>5 DEF Receive
  <2>2. CASE down[c] = <<>>
      BY <1>5, <2>1, <2>2, FailsTalks DEF Receive
  <2>3. CASE down[c] # <<>>
    <3> DEFINE kind == Head(down[c]).kind
    <3>1. /\ down' = [down EXCEPT ![c] = <<>>]
          /\ IF client[c].at = "hello" THEN Welcomed(c, kind) ELSE Told(c, kind)
        BY <1>5, <2>3, ReceivesAll DEF Typed, EndsTyped
    <3>2. down'[c] = <<>> /\ down'[c] \in Pieces(Reply)
        BY <3>1 DEF Typed, EndsTyped, Pieces, Single
    <3>3. kind \in Answered
        BY <1>0, <2>3, FirstPiece, BodyKinds
    <3> HIDE DEF kind
    <3>4. server[c].out = <<>>
        BY <1>0, <2>3 DEF Talk, Asking
    <3>5. CASE client[c].at = "hello" /\ kind # "Ok"
      <4>1. client'[c] = [client[c] EXCEPT !.at = "failed"]
          BY <3>1, <3>5 DEF Welcomed, Fails, Goes, Typed, EndsTyped
      <4>2. client'[c] \in ClientState
          BY <1>0, <4>1 DEF ClientState
      <4>3. Only(c)
          BY <1>0, <2>1, <3>1, <3>2, <3>5, <4>2
             DEF Only, Typed, EndsTyped, Welcomed, Fails, Goes
      <4>4. Talk(client'[c], server[c], up[c], <<>>)
          BY <1>0, <2>1, <2>3, <3>4, <3>5, <4>1
             DEF Talk, Connecting, Greeting, Asking, Answering, ClientState, ServerState
      <4> QED BY <2>1, <3>2, <4>3, <4>4 DEF Talks
    <3>6. CASE client[c].at = "hello" /\ kind = "Ok"
      <4> DEFINE b == Request(client[c].ask)
      <4>1. client'[c] = [client[c] EXCEPT !.at = "asking", !.out = <<b>>]
          BY <3>1, <3>6 DEF Welcomed, Writes, Typed, EndsTyped
      <4>2. <<b>> \in Single(Body) /\ <<b>> # <<>>
          BY <1>0, <3>6 DEF Single, Body, Talk, Connecting
      <4> HIDE DEF b
      <4>3. client'[c] \in ClientState
          BY <1>0, <4>1, <4>2 DEF ClientState
      <4>4. Only(c)
          BY <1>0, <2>1, <3>1, <3>2, <3>6, <4>3
             DEF Only, Typed, EndsTyped, Welcomed, Writes
      <4>5. up[c] = <<>> /\ server[c].at \in {"reading", "closed"}
          BY <1>0, <2>3, <3>4, <3>6 DEF Talk, Greeting
      <4>6. Talk(client'[c], server[c], up[c], <<>>)
          BY <1>0, <2>1, <3>4, <3>6, <4>1, <4>2, <4>5
             DEF Talk, Connecting, Greeting, Asking, Answering, ClientState, ServerState, b
      <4> QED BY <2>1, <3>2, <4>4, <4>6 DEF Talks
    <3>7. CASE client[c].at = "asking"
      <4>1. PICK at \in {"done", "failed"} :
              /\ client'[c] = [client[c] EXCEPT !.at = at, !.got = kind]
              /\ at = "done" <=> Knows(client[c].ask, kind)
          BY <3>1, <3>7 DEF Told, Typed, EndsTyped
      <4>2. client'[c] \in ClientState
          BY <1>0, <3>3, <4>1 DEF ClientState
      <4>3. Only(c)
          BY <1>0, <2>1, <3>1, <3>2, <3>7, <4>2 DEF Only, Typed, EndsTyped, Told
      <4>4. /\ server[c].times = 1
            /\ kind \in Given(client[c].ask) /\ client[c].ask \in Ask
          BY <1>0, <2>3, <3>7
             DEF Talk, Asking, Answering, Connecting, kind, ServerState
      <4>5. at = "done" \/ (client[c].ask = "Reload" /\ kind = "Error")
          BY <4>1, <4>4, GivenIsKnown
      <4>6. Talk(client'[c], server[c], up[c], <<>>)
          BY <1>0, <2>1, <3>4, <3>7, <4>1, <4>4, <4>5
             DEF Talk, Connecting, Greeting, Asking, Answering, ClientState, ServerState
      <4> QED BY <2>1, <3>2, <4>3, <4>6 DEF Talks
    <3> QED BY <2>1, <3>5, <3>6, <3>7
  <2> QED BY <2>2, <2>3
<1>6. CASE Interrupt(c)
  <2>1. /\ UNCHANGED <<server, down>> /\ Fails(c)
        /\ client[c].at \in {"hello", "asking"}
      BY <1>6 DEF Interrupt
  <2>2. CASE UNCHANGED up
      BY <2>1, <2>2, FailsTalks
  <2>3. CASE client[c].out # <<>> /\ up' = [up EXCEPT ![c] = Cut(@, Head(client[c].out))]
    <3>1. PICK b \in Body : client[c].out = <<b>>
        BY <1>0, <2>3 DEF ClientState, Single
    <3>2. b.kind # "newline"
        BY BodyKinds
    <3>3. up[c] = <<>>
        BY <1>0, <2>1, <2>3 DEF Talk, Greeting, Asking
    <3>4. up' = [up EXCEPT ![c] = <<b>>]
        BY <2>3, <3>1, <3>2, <3>3, LineFacts
    <3>5. /\ client'[c] = [client[c] EXCEPT !.at = "failed"]
          /\ up'[c] = <<b>>
        BY <2>1, <3>4 DEF Typed, EndsTyped, Fails, Goes
    <3>6. client'[c] \in ClientState /\ up'[c] \in Pieces(Body)
        BY <1>0, <3>5 DEF ClientState, Single, Pieces
    <3>7. Only(c)
        BY <1>0, <2>1, <3>4, <3>6 DEF Only, Typed, EndsTyped, Fails, Goes
    <3>8. /\ client[c].at = "hello" => b = Hello(client[c].token)
          /\ client[c].at = "asking" => b = Request(client[c].ask)
        BY <1>0, <2>1, <3>1 DEF Talk, Greeting, Asking
    <3>9. Talk(client'[c], server[c], up'[c], down[c])
        BY <1>0, <2>1, <3>1, <3>3, <3>5, <3>8
           DEF Talk, Connecting, Greeting, Asking, Answering, ClientState, ServerState
    <3> QED BY <2>1, <3>7, <3>9 DEF Talks
  <2> QED BY <1>6, <2>2, <2>3 DEF Interrupt
<1> QED BY <1>1, <1>2, <1>3, <1>4, <1>5, <1>6 DEF Runs

\* A request is being handled, and goes on so.
LEMMA BusyTalks ==
    ASSUME Typed, TalkInv, NEW c \in Command, UNCHANGED <<client, up, down>>,
           NEW s \in ServerState, server' = [server EXCEPT ![c] = s],
           server[c].at \in Busy, s.at \in Busy,
           s.ask = server[c].ask, s.times = server[c].times, s.out = server[c].out,
           s.at # "handling" => s.ask = "Reload" /\ s.new \in Config
    PROVE  Only(c) /\ Talks(c)'
<1>0. /\ client[c] \in ClientState /\ server[c] \in ServerState
      /\ up[c] \in Pieces(Body) /\ down[c] \in Pieces(Reply)
      /\ Talk(client[c], server[c], up[c], down[c])
    BY DEF Typed, EndsTyped, TalkInv, Talks
<1>1. server'[c] = s
    BY DEF Typed, EndsTyped
<1>2. Only(c)
    BY <1>0, <1>1 DEF Only, Typed, EndsTyped
<1>3. Talk(client[c], s, up[c], down[c])
    BY <1>0
       DEF Talk, Connecting, Greeting, Asking, Answering, ClientState, ServerState, Early, Busy
<1> QED BY <1>1, <1>2, <1>3 DEF Talks

\* It is answered.
LEMMA AnsweredTalks ==
    ASSUME Typed, TalkInv, NEW c \in Command, UNCHANGED <<client, up, down>>,
           NEW s \in ServerState, server' = [server EXCEPT ![c] = s],
           server[c].at \in Busy, s.at = "reading",
           s.ask = server[c].ask, s.times = server[c].times,
           NEW k \in Given(server[c].ask) \cap Answered, s.out = <<Answer(k)>>
    PROVE  Only(c) /\ Talks(c)'
<1>0. /\ client[c] \in ClientState /\ server[c] \in ServerState
      /\ up[c] \in Pieces(Body) /\ down[c] \in Pieces(Reply)
      /\ Talk(client[c], server[c], up[c], down[c])
    BY DEF Typed, EndsTyped, TalkInv, Talks
<1>1. server'[c] = s
    BY DEF Typed, EndsTyped
<1>2. Only(c)
    BY <1>0, <1>1 DEF Only, Typed, EndsTyped
<1>3. s.out # <<>> /\ Head(s.out).kind = k
    BY DEF Answer
<1>4. up[c] = <<>> /\ down[c] = <<>>
    BY <1>0 DEF Talk, Asking
<1>5. Talk(client[c], s, up[c], down[c])
    BY <1>0, <1>3, <1>4
       DEF Talk, Connecting, Greeting, Asking, Answering, ClientState, ServerState, Early, Busy
<1> QED BY <1>1, <1>2, <1>5 DEF Talks

LEMMA RespondsTyped ==
    ASSUME Typed, NEW c \in Command, NEW at \in {"denied", "reading"}, NEW k \in Answered,
           Responds(c, at, k)
    PROVE  /\ server' = [server EXCEPT ![c] = server'[c]]
           /\ server'[c] = [server[c] EXCEPT !.at = at, !.out = <<Answer(k)>>]
           /\ server'[c] \in ServerState
<1>1. server[c] \in ServerState
    BY DEF Typed, EndsTyped
<1>2. <<Answer(k)>> \in Single(Reply)
    BY BodyKinds DEF Single
<1>3. server'[c] = [server[c] EXCEPT !.at = at, !.out = <<Answer(k)>>]
    BY DEF Typed, EndsTyped, Responds
<1>4. server'[c] \in ServerState
    BY <1>1, <1>2, <1>3 DEF ServerState
<1>5. server' = [server EXCEPT ![c] = server'[c]]
    BY <1>3 DEF Responds, Typed, EndsTyped
<1> QED BY <1>3, <1>4, <1>5

\* The steps of a handler between requests.
LEMMA GreetTalks ==
    ASSUME Typed, TalkInv, NEW c \in Command, Greet(c)
    PROVE  Only(c) /\ Talks(c)'
<1>0. /\ client[c] \in ClientState /\ server[c] \in ServerState
      /\ up[c] \in Pieces(Body) /\ down[c] \in Pieces(Reply)
      /\ Talk(client[c], server[c], up[c], down[c])
    BY DEF Typed, EndsTyped, TalkInv, Talks
<1>1. /\ UNCHANGED <<client, down>>
      /\ server[c].at = "hello"
      /\ up' = [up EXCEPT ![c] = <<>>]
    BY TakesAll DEF Greet, Typed, EndsTyped
<1>2. up'[c] = <<>> /\ up'[c] \in Pieces(Body)
    BY <1>1 DEF Pieces, Single, Typed, EndsTyped
<1>3. up[c] # <<>> => Head(up[c]) = Hello(client[c].token)
    BY <1>0, <1>1, LineFacts DEF Talk, Greeting, Hello
<1>4. PICK at \in {"denied", "reading"}, k \in {"Ok", "Denied"} :
        /\ Responds(c, at, k)
        /\ at = "reading" => up[c] # <<>> /\ Head(up[c]) = Hello(Peer(c))
    BY DEF Greet
<1>5. at = "reading" => client[c].token = client[c].peer
    BY <1>3, <1>4 DEF Hello, Peer
<1>6. /\ server' = [server EXCEPT ![c] = server'[c]]
      /\ server'[c] = [server[c] EXCEPT !.at = at, !.out = <<Answer(k)>>]
      /\ server'[c] \in ServerState
    BY <1>4, RespondsTyped DEF Answered
<1>7. Only(c)
    BY <1>0, <1>1, <1>2, <1>6 DEF Only, Typed, EndsTyped
<1>8. <<Answer(k)>> # <<>>
    OBVIOUS
<1>9. client[c].out = <<>> \/ client[c].at # "hello"
  <2>1. SUFFICES ASSUME client[c].out # <<>>, client[c].at = "hello" PROVE FALSE
      OBVIOUS
  <2>2. up[c] = <<>> /\ ~Ended(c)
      BY <1>0, <2>1 DEF Talk, Greeting, Ended
  <2>3. ~HasLine(up[c])
      BY <2>2 DEF HasLine
  <2> QED BY <2>2, <2>3 DEF Greet, Readable
<1>10. Talk(client[c], server'[c], <<>>, down[c])
    BY <1>0, <1>1, <1>4, <1>5, <1>6, <1>8, <1>9
       DEF Talk, Connecting, Greeting, Asking, Answering, ClientState, ServerState, Early, Busy
<1> QED BY <1>1, <1>2, <1>7, <1>10 DEF Talks

LEMMA RespondTalks ==
    ASSUME Typed, TalkInv, NEW c \in Command, Respond(c)
    PROVE  Only(c) /\ Talks(c)'
<1>0. /\ client[c] \in ClientState /\ server[c] \in ServerState
      /\ up[c] \in Pieces(Body) /\ down[c] \in Pieces(Reply)
      /\ Talk(client[c], server[c], up[c], down[c])
    BY DEF Typed, EndsTyped, TalkInv, Talks
<1>1. UNCHANGED <<client, up>> /\ server[c].out # <<>>
    BY DEF Respond
<1>2. PICK r \in Reply : server[c].out = <<r>>
    BY <1>0, <1>1 DEF ServerState, Single
<1>3. r.kind # "newline"
    BY BodyKinds
<1>4. down[c] = <<>> /\ server[c].at \in {"denied", "reading"} /\ up[c] = <<>>
    BY <1>0, <1>1 DEF Talk, Asking
<1>5. PICK at \in {"reading", "closed"} :
        /\ server' = [server EXCEPT ![c].out = <<>>, ![c].at = at]
        /\ (at = "closed") <=> (Ended(c) \/ server[c].at = "denied")
    BY <1>4 DEF Respond, Typed, EndsTyped
<1>6. server'[c] = [server[c] EXCEPT !.out = <<>>, !.at = at]
    BY <1>5 DEF Typed, EndsTyped
<1>7. server'[c] \in ServerState
    BY <1>0, <1>6 DEF ServerState, Single
<1>8. PICK w \in {<<>>, Line(r)} :
        /\ down' = [down EXCEPT ![c] = w]
        /\ w # <<>> => ~Ended(c)
  <2>1. Head(server[c].out) = r /\ Written(down[c], r) = Line(r)
      BY <1>2, <1>3, <1>4, LineFacts
  <2>2. CASE Ended(c)
      BY <1>4, <2>2 DEF Respond, Typed, EndsTyped
  <2>3. CASE ~Ended(c)
      BY <2>1, <2>3 DEF Respond
  <2> QED BY <2>2, <2>3
<1>9. down'[c] = w /\ down'[c] \in Pieces(Reply)
    BY <1>8 DEF Pieces, Single, Typed, EndsTyped
<1>10. Only(c)
    BY <1>0, <1>1, <1>5, <1>6, <1>7, <1>8, <1>9 DEF Only, Typed, EndsTyped
<1>11. w # <<>> => Head(w).kind = Head(server[c].out).kind
    BY <1>2, <1>3, <1>8, LineFacts
<1>12. /\ at \in {"reading", "closed"} /\ at = "reading" => server[c].at = "reading"
       /\ server'[c].at = at /\ server'[c].out = <<>>
       /\ server'[c].times = server[c].times /\ server'[c].ask = server[c].ask
    BY <1>0, <1>4, <1>5, <1>6, ZenonT(30) DEF ServerState
<1>13. Connecting(client[c], server'[c], up[c], w)
    BY <1>0, <1>4, <1>12 DEF Talk, Connecting, Early
<1>14. Greeting(client[c], server'[c], up[c], w)
    BY <1>0, <1>4, <1>12 DEF Talk, Greeting, Busy
<1>15. Asking(client[c], server'[c], up[c], w)
    BY <1>0, <1>1, <1>4, <1>12 DEF Talk, Asking, Busy
<1>16. Answering(client[c], server'[c], up[c], w)
    BY <1>0, <1>1, <1>4, <1>11, <1>12 DEF Talk, Answering, Busy
<1> QED BY <1>1, <1>9, <1>10, <1>13, <1>14, <1>15, <1>16 DEF Talks, Talk

LEMMA ReadTalks ==
    ASSUME Typed, TalkInv, NEW c \in Command, Read(c)
    PROVE  Only(c) /\ Talks(c)'
<1>0. /\ client[c] \in ClientState /\ server[c] \in ServerState
      /\ up[c] \in Pieces(Body) /\ down[c] \in Pieces(Reply)
      /\ Talk(client[c], server[c], up[c], down[c])
    BY DEF Typed, EndsTyped, TalkInv, Talks
<1>1. /\ UNCHANGED <<client, down>>
      /\ server[c].at = "reading" /\ server[c].out = <<>>
      /\ up' = [up EXCEPT ![c] = <<>>]
    BY TakesAll DEF Read, Typed, EndsTyped
<1>2. up'[c] = <<>> /\ up'[c] \in Pieces(Body)
    BY <1>1 DEF Pieces, Single, Typed, EndsTyped
<1>3. CASE up[c] = <<>>
  <2>1. server' = [server EXCEPT ![c].at = "closed"]
      BY <1>3 DEF Read
  <2>2. server'[c] = [server[c] EXCEPT !.at = "closed"]
      BY <2>1 DEF Typed, EndsTyped
  <2>3. server'[c] \in ServerState
      BY <1>0, <2>2 DEF ServerState
  <2>4. Only(c)
      BY <1>0, <1>1, <1>2, <2>1, <2>3 DEF Only, Typed, EndsTyped
  <2>5. Talk(client[c], server'[c], <<>>, down[c])
      BY <1>0, <1>1, <1>3, <2>2
         DEF Talk, Connecting, Greeting, Asking, Answering, ClientState, ServerState, Early,
             Busy
  <2> QED BY <1>1, <1>2, <2>4, <2>5 DEF Talks
<1>4. CASE up[c] # <<>>
  <2>1. up[c] \in {<<Request(client[c].ask)>>, Line(Request(client[c].ask))}
      BY <1>0, <1>1, <1>4 DEF Talk, Asking
  <2>2. client[c].ask \in Ask
      BY <1>0, <1>1 DEF Talk, Connecting, Early
  <2>3. Request(client[c].ask).kind # "newline" /\ Request(client[c].ask).kind = client[c].ask
      BY <2>2, BodyKinds DEF Request
  <2>4. Head(up[c]) = Request(client[c].ask)
      BY <2>1, <2>3, LineFacts
  <2>5. Head(up[c]).kind = client[c].ask /\ Head(up[c]) # EOL
      BY <2>3, <2>4 DEF EOL
  <2>6. server' = [server EXCEPT ![c].at = "handling", ![c].ask = client[c].ask,
                                 ![c].times = @ + 1]
      BY <1>4, <2>5 DEF Read
  <2>7. server'[c] = [server[c] EXCEPT !.at = "handling", !.ask = client[c].ask,
                                       !.times = @ + 1]
      BY <2>6 DEF Typed, EndsTyped
  <2>8. server'[c] \in ServerState
    <3>1. server[c].times \in Nat /\ server[c].times + 1 \in Nat
        BY <1>0 DEF ServerState
    <3> DEFINE n == server[c].times + 1
    <3>2. server'[c] = [server[c] EXCEPT !.at = "handling", !.ask = client[c].ask, !.times = n]
        BY <1>0, <2>7 DEF ServerState
    <3> HIDE DEF n
    <3> QED BY <1>0, <2>2, <3>1, <3>2 DEF ServerState, Busy, n
  <2>9. Only(c)
      BY <1>0, <1>1, <1>2, <2>6, <2>7, <2>8 DEF Only, Typed, EndsTyped
  <2>10. server[c].times = 0 /\ client[c].at # "hello"
      BY <1>0, <1>1, <1>4 DEF Talk, Asking
  <2>11. /\ down[c] = <<>>
         /\ client[c].at = "asking" => client[c].out = <<>>
      BY <1>0, <1>1, <1>4, <2>10 DEF Talk, Asking
  <2>12. Talk(client[c], server'[c], <<>>, down[c])
      BY <1>0, <1>1, <2>2, <2>7, <2>10, <2>11
         DEF Talk, Connecting, Greeting, Asking, Answering, ClientState, ServerState, Early,
             Busy
  <2> QED BY <1>1, <1>2, <2>9, <2>12 DEF Talks
<1> QED BY <1>3, <1>4

\* What handle does for a request.
LEMMA HandlesTalks ==
    ASSUME Typed, TalkInv, NEW c \in Command, Handles(c)
    PROVE  Only(c) /\ Talks(c)'
<1> USE DEF Busy
<1>0. server[c] \in ServerState /\ Talk(client[c], server[c], up[c], down[c])
    BY DEF Typed, EndsTyped, TalkInv, Talks
\* Handling goes on.
<1>1. ASSUME NEW at \in Busy \ {"handling"}, NEW new \in Config, NEW required \in BOOLEAN,
             UNCHANGED <<client, up, down>>,
             server[c].at \in Busy, server[c].ask = "Reload",
             server' = [server EXCEPT ![c] = [server[c] EXCEPT !.at = at, !.new = new,
                                                               !.required = required]]
      PROVE  Only(c) /\ Talks(c)'
  <2> DEFINE s == [server[c] EXCEPT !.at = at, !.new = new, !.required = required]
  <2>1. s \in ServerState
      BY <1>0 DEF ServerState
  <2>2. /\ s.at = at /\ s.new = new /\ s.ask = server[c].ask
        /\ s.times = server[c].times /\ s.out = server[c].out
      BY <1>0 DEF ServerState
  <2>3. server' = [server EXCEPT ![c] = s]
      BY <1>1
  <2> HIDE DEF s
  <2> QED BY <1>1, <2>1, <2>2, <2>3, BusyTalks
\* It is answered.
<1>2. ASSUME NEW k \in Given(server[c].ask) \cap Answered,
             UNCHANGED <<client, up, down>>,
             server[c].at \in Busy, NEW new \in Config \cup {Broken},
             NEW required \in BOOLEAN,
             server' = [server EXCEPT ![c] = [server[c] EXCEPT
                          !.at = "reading", !.out = <<Answer(k)>>, !.new = new,
                          !.required = required]]
      PROVE  Only(c) /\ Talks(c)'
  <2> DEFINE s == [server[c] EXCEPT !.at = "reading", !.out = <<Answer(k)>>, !.new = new,
                                    !.required = required]
  <2>1. <<Answer(k)>> \in Single(Reply)
      BY BodyKinds DEF Single
  <2>2. s \in ServerState
      BY <1>0, <2>1 DEF ServerState
  <2>3. /\ s.at = "reading" /\ s.out = <<Answer(k)>>
        /\ s.ask = server[c].ask /\ s.times = server[c].times
      BY <1>0 DEF ServerState
  <2>4. server' = [server EXCEPT ![c] = s]
      BY <1>2
  <2> HIDE DEF s
  <2> QED BY <1>2, <2>2, <2>3, <2>4, AnsweredTalks
<1>3. ASSUME NEW k \in Given(server[c].ask) \cap Answered, Responds(c, "reading", k),
             UNCHANGED <<client, up, down>>, server[c].at \in Busy
      PROVE  Only(c) /\ Talks(c)'
  <2>1. server' = [server EXCEPT ![c] = [server[c] EXCEPT
                     !.at = "reading", !.out = <<Answer(k)>>, !.new = server[c].new,
                     !.required = server[c].required]]
      BY <1>0, <1>3 DEF Responds, ServerState, Typed, EndsTyped
  <2>2. server[c].new \in Config \cup {Broken} /\ server[c].required \in BOOLEAN
      BY <1>0 DEF ServerState
  <2> QED BY <1>2, <1>3, <2>1, <2>2
<1>4. CASE Inform(c)
  <2>1. PICK k \in StatusAnswers(server[c].ask) \cup LinkAnswers(server[c].ask)
                   \cup DeviceAnswers(server[c].ask) \cup AppsAnswers(server[c].ask) :
          Responds(c, "reading", k)
      BY <1>4 DEF Inform
  <2>2. k \in Given(server[c].ask)
      BY DEF Given
  <2>3. k \in Answered
      BY DEF StatusAnswers, LinkAnswers, DeviceAnswers, AppsAnswers, Answered
  <2>4. UNCHANGED <<client, up, down>> /\ server[c].at = "handling"
      BY <1>4 DEF Inform, wires
  <2> QED BY <1>3, <2>1, <2>2, <2>3, <2>4
<1>5. CASE Shutdown(c)
  <2>1. "Ok" \in Given(server[c].ask) \cap Answered
      BY <1>5 DEF Shutdown, Handling, Given, Answered
  <2> QED BY <1>5, <1>3, <2>1 DEF Shutdown, Handling, wires
<1>6. CASE ReloadFile(c)
  <2>1. /\ UNCHANGED <<client, up, down>>
        /\ server[c].at = "handling" /\ server[c].ask = "Reload"
      BY <1>6 DEF ReloadFile, Handling, wires
  <2>2. CASE file \in Config
    <3>1. server' = [server EXCEPT ![c].at = "loaded", ![c].new = file]
        BY <1>6, <2>2 DEF ReloadFile
    <3>2. server' = [server EXCEPT ![c] = [server[c] EXCEPT !.at = "loaded", !.new = file,
                                             !.required = server[c].required]]
        BY <1>0, <3>1 DEF ServerState, Typed, EndsTyped
    <3>3. server[c].required \in BOOLEAN
        BY <1>0 DEF ServerState
    <3> QED BY <1>1, <2>1, <2>2, <3>2, <3>3
  <2>3. CASE file \notin Config
    <3>1. "Error" \in Given(server[c].ask) \cap Answered
        BY <2>1 DEF Given, Answered
    <3> QED BY <1>6, <1>3, <2>1, <2>3, <3>1 DEF ReloadFile
  <2> QED BY <2>2, <2>3
<1>7. ASSUME server[c].at \in Busy \ {"handling"}
      PROVE  server[c].ask = "Reload" /\ server[c].new \in Config
    BY <1>0, <1>7 DEF Talk, Answering
<1>8. CASE CompareNetwork(c)
  <2> DEFINE new == server[c].new
  <2>1. /\ UNCHANGED <<client, up, down>> /\ server[c].at = "loaded"
        /\ server' = [server EXCEPT ![c].at = "compared",
                                    ![c].required = new.net # Mine(c).conf.net]
      BY <1>8 DEF CompareNetwork, wires
  <2>2. PICK r \in BOOLEAN :
          server' = [server EXCEPT ![c] = [server[c] EXCEPT !.at = "compared", !.required = r]]
      BY <2>1 DEF Typed, EndsTyped
  <2>3. new \in Config /\ server[c].ask = "Reload"
      BY <1>7, <2>1
  <2>4. server' = [server EXCEPT ![c] = [server[c] EXCEPT !.at = "compared", !.new = new,
                                           !.required = r]]
      BY <1>0, <2>2 DEF ServerState
  <2>5. "compared" \in Busy \ {"handling"} /\ server[c].at \in Busy
      BY <2>1
  <2>6. UNCHANGED <<client, up, down>>
      BY <2>1
  <2> HIDE DEF new, Busy
  <2> QED BY <1>1, <2>3, <2>4, <2>5, <2>6
<1>9. CASE ReplaceConfig(c) \/ SetMaxAttempts(c)
  <2> DEFINE new == server[c].new
             r == server[c].required
  <2>1. PICK at \in {"replaced", "applied"} :
          /\ server' = [server EXCEPT ![c].at = at]
          /\ UNCHANGED <<client, up, down>>
          /\ server[c].at \in {"compared", "replaced"}
      BY <1>9 DEF ReplaceConfig, SetMaxAttempts, wires
  <2>2. server' = [server EXCEPT ![c] = [server[c] EXCEPT !.at = at, !.new = new,
                                           !.required = r]]
      BY <1>0, <2>1 DEF ServerState, Typed, EndsTyped
  <2>3. r \in BOOLEAN
      BY <1>0 DEF ServerState
  <2>4. server[c].ask = "Reload" /\ new \in Config
      BY <1>7, <2>1
  <2>5. at \in Busy \ {"handling"} /\ server[c].at \in Busy
      BY <2>1
  <2>6. UNCHANGED <<client, up, down>>
      BY <2>1
  <2> HIDE DEF new, r, Busy
  <2> QED BY <1>1, <2>2, <2>3, <2>4, <2>5, <2>6
<1>10. CASE AnswerReload(c)
  <2>1. /\ UNCHANGED <<client, up, down>> /\ server[c].at = "applied"
        /\ server' = [server EXCEPT ![c].at = "reading", ![c].out = <<Answer("Reload")>>,
                                    ![c].new = Broken, ![c].required = FALSE]
      BY <1>10 DEF AnswerReload, wires, world
  <2>2. server' = [server EXCEPT ![c] = [server[c] EXCEPT
                     !.at = "reading", !.out = <<Answer("Reload")>>, !.new = Broken,
                     !.required = FALSE]]
      BY <1>0, <2>1 DEF ServerState, Typed, EndsTyped
  <2>3. "Reload" \in Given(server[c].ask) \cap Answered
      BY <1>7, <2>1 DEF Given, Answered
  <2> QED BY <1>2, <2>1, <2>2, <2>3
<1> QED BY <1>4, <1>5, <1>6, <1>8, <1>9, <1>10 DEF Handles

\* A daemon's process ends, with all of its handlers.
LEMMA EndsTalks ==
    ASSUME Typed, TalkInv, NEW d \in Daemon, Ends(d), UNCHANGED <<client, up>>
    PROVE  EndsTyped' /\ TalkInv'
<1>1. ASSUME NEW c \in Command
      PROVE  server'[c] \in ServerState /\ down'[c] \in Pieces(Reply) /\ Talks(c)'
  <2>0. /\ client[c] \in ClientState /\ server[c] \in ServerState
        /\ up[c] \in Pieces(Body) /\ down[c] \in Pieces(Reply)
        /\ Talk(client[c], server[c], up[c], down[c])
      BY DEF Typed, EndsTyped, TalkInv, Talks
  <2>1. CASE client[c].peer # d
    <3>1. server'[c] = server[c] /\ down'[c] = down[c]
        BY <2>1 DEF Ends
    <3> QED BY <2>0, <3>1 DEF Talks
  <2>2. CASE client[c].peer = d
    <3>1. server'[c] = [server[c] EXCEPT !.at = "closed", !.out = <<>>]
        BY <2>2 DEF Ends
    <3>2. server'[c] \in ServerState
        BY <2>0, <3>1 DEF ServerState, Single
    <3>3. /\ server'[c].at = "closed" /\ server'[c].out = <<>>
          /\ server'[c].times = server[c].times /\ server'[c].ask = server[c].ask
        BY <2>0, <3>1 DEF ServerState
    <3>4. d # 0
        BY BoundAssumption DEF Daemon
    <3>5. down'[c] = down[c] \/ (server[c].out # <<>> /\ down'[c] = Cut(down[c], Head(server[c].out)))
        BY DEF Ends
    <3>6. CASE down'[c] = down[c]
      <4>1. Talk(client[c], server'[c], up[c], down[c])
        <5>1. Connecting(client[c], server'[c], up[c], down[c])
            BY <2>0, <2>2, <3>3, <3>4 DEF Talk, Connecting, Early
        <5>2. Greeting(client[c], server'[c], up[c], down[c])
            BY <2>0, <3>3 DEF Talk, Greeting, Busy
        <5>3. Asking(client[c], server'[c], up[c], down[c])
            BY <2>0, <3>3 DEF Talk, Asking, Busy
        <5>4. Answering(client[c], server'[c], up[c], down[c])
            BY <2>0, <3>3 DEF Talk, Answering, Busy
        <5> QED BY <5>1, <5>2, <5>3, <5>4 DEF Talk
      <4> QED BY <2>0, <3>2, <3>6, <4>1 DEF Talks
    <3>7. CASE server[c].out # <<>> /\ down'[c] = Cut(down[c], Head(server[c].out))
      <4>1. PICK r \in Reply : server[c].out = <<r>>
          BY <2>0, <3>7 DEF ServerState, Single
      <4>2. down[c] = <<>> /\ up[c] = <<>> /\ server[c].at \in {"denied", "reading"}
          BY <2>0, <3>7 DEF Talk, Asking
      <4>3. Head(server[c].out) = r /\ Cut(<<>>, r) = <<r>>
          BY <4>1, BodyKinds, LineFacts
      <4>4. /\ down'[c] = <<r>> /\ <<r>> # <<>> /\ Head(<<r>>) = r
            /\ down'[c] \in Pieces(Reply)
          BY <3>7, <4>2, <4>3 DEF Pieces, Single
      <4>5. Connecting(client[c], server'[c], up[c], <<r>>)
          BY <2>0, <2>2, <3>3, <3>4 DEF Talk, Connecting, Early
      <4>6. Greeting(client[c], server'[c], up[c], <<r>>)
          BY <2>0, <3>3, <3>7, <4>2 DEF Talk, Greeting, Busy
      <4>7. Asking(client[c], server'[c], up[c], <<r>>)
          BY <2>0, <3>3, <3>7, <4>2 DEF Talk, Asking, Busy
      <4>8. Answering(client[c], server'[c], up[c], <<r>>)
          BY <2>0, <3>3, <3>7, <4>2, <4>3, <4>4 DEF Talk, Answering, Busy
      <4> QED BY <3>2, <4>4, <4>5, <4>6, <4>7, <4>8 DEF Talks, Talk
    <3> QED BY <3>5, <3>6, <3>7
  <2> QED BY <2>1, <2>2
<1>2. server' \in [Command -> ServerState]
    BY <1>1 DEF Ends
<1>3. down' \in [Command -> Pieces(Reply)]
    BY <1>1 DEF Ends
<1> QED BY <1>1, <1>2, <1>3 DEF EndsTyped, TalkInv, Typed

LEMMA PeerIsDaemon ==
    ASSUME Typed, TalkInv, NEW c \in Command, server[c].at # "none"
    PROVE  Peer(c) \in Daemon
<1>1. client[c].peer \in 0..MaxStarts /\ client[c].peer # 0
    BY DEF Typed, EndsTyped, TalkInv, Talks, Talk, Connecting, ClientState
<1> QED BY <1>1, BoundAssumption DEF Peer, Daemon

\* The types of what is not part of a conversation.
LEMMA StepDaemonsTyped ==
    ASSUME Typed, TalkInv, [Next]_vars
    PROVE  DaemonsTyped'
<1> USE DEF world, wires, history, vars
<1>0. DaemonsTyped
    BY DEF Typed
<1>1. ASSUME NEW c \in Command, Runs(c) \/ Greet(c) \/ Respond(c) \/ Read(c) \/ Inform(c)
                                \/ ReloadFile(c) \/ CompareNetwork(c)
      PROVE  DaemonsTyped'
  <2>1. UNCHANGED <<world, history>>
      BY <1>1 DEF Runs, FindDaemon, LoadToken, Connect, Send, Receive, Interrupt, Greet,
                  Respond, Read, Inform, ReloadFile, CompareNetwork
  <2> QED BY <1>0, <2>1 DEF DaemonsTyped
<1>2. ASSUME NEW c \in Command, Shutdown(c) PROVE DaemonsTyped'
    BY <1>0, <1>2 DEF DaemonsTyped, Shutdown
<1>3. ASSUME NEW c \in Command, ReplaceConfig(c) PROVE DaemonsTyped'
  <2>1. Peer(c) \in Daemon /\ server[c].new \in Config
    <3>1. Talk(client[c], server[c], up[c], down[c]) /\ server[c].at = "compared"
        BY <1>3 DEF TalkInv, Talks, ReplaceConfig
    <3> QED BY <3>1, PeerIsDaemon DEF Talk, Answering, Busy
  <2>2. [memory[Peer(c)] EXCEPT !.conf = server[c].new] \in Memory
      BY <1>0, <2>1 DEF DaemonsTyped, Memory
  <2>3. memory' \in [Daemon -> Memory]
      BY <1>0, <1>3, <2>1, <2>2 DEF DaemonsTyped, ReplaceConfig
  <2> QED BY <1>0, <1>3, <2>3 DEF DaemonsTyped, ReplaceConfig
<1>4. ASSUME NEW c \in Command, SetMaxAttempts(c) PROVE DaemonsTyped'
  <2>1. Peer(c) \in Daemon
      BY <1>4, PeerIsDaemon DEF SetMaxAttempts
  <2>2. Mine(c).conf.attempts \in {v.attempts : v \in Config}
      BY <1>0, <2>1 DEF Mine, DaemonsTyped, Memory
  <2>3. [memory[Peer(c)] EXCEPT !.limit = Mine(c).conf.attempts] \in Memory
      BY <1>0, <2>1, <2>2 DEF DaemonsTyped, Memory
  <2>4. memory' \in [Daemon -> Memory]
      BY <1>0, <1>4, <2>1, <2>3 DEF DaemonsTyped, SetMaxAttempts
  <2> QED BY <1>0, <1>4, <2>4 DEF DaemonsTyped, SetMaxAttempts
<1>5. ASSUME NEW c \in Command, AnswerReload(c) PROVE DaemonsTyped'
  <2>1. Peer(c) \in Daemon
      BY <1>5, PeerIsDaemon DEF AnswerReload
  <2> QED BY <1>0, <1>5, <2>1 DEF DaemonsTyped, AnswerReload
<1>6. ASSUME NEW d \in Daemon, StartDaemon(d) PROVE DaemonsTyped'
  <2>1. d \in 0..MaxStarts
      BY BoundAssumption DEF Daemon
  <2>2. Loads(file) \in Memory
      BY <1>6 DEF StartDaemon, Loads, Memory
  <2> QED BY <1>0, <1>6, <2>1, <2>2 DEF DaemonsTyped, StartDaemon
<1>7. ASSUME NEW d \in Daemon, Serve(d) \/ Leave(d) PROVE DaemonsTyped'
  <2>1. d \in 0..MaxStarts /\ 0 \in 0..MaxStarts
      BY BoundAssumption DEF Daemon
  <2> QED BY <1>0, <1>7, <2>1 DEF DaemonsTyped, Serve, Leave
<1>8. ASSUME NEW d \in Daemon, Exit(d) \/ Crash(d) PROVE DaemonsTyped'
    BY <1>0, <1>8 DEF DaemonsTyped, Exit, Crash, Ends
<1>9. CASE EditFile
  <2>1. edits + 1 \in 0..MaxEdits
      BY <1>0, <1>9, BoundAssumption DEF DaemonsTyped, EditFile
  <2> QED BY <1>0, <1>9, <2>1 DEF DaemonsTyped, EditFile
<1>10. CASE UNCHANGED vars
    BY <1>0, <1>10 DEF DaemonsTyped
<1> QED
    BY <1>1, <1>2, <1>3, <1>4, <1>5, <1>6, <1>7, <1>8, <1>9, <1>10 DEF Next, Serves, Handles

\* Every step, whoever takes it, keeps the types and each conversation.
LEMMA StepTalks ==
    ASSUME Typed, TalkInv, [Next]_vars
    PROVE  Typed' /\ TalkInv'
<1>1. DaemonsTyped'
    BY StepDaemonsTyped
<1>2. EndsTyped' /\ TalkInv'
  <2>1. CASE \E c \in Command : Runs(c) \/ Serves(c)
    <3>1. PICK c \in Command : Runs(c) \/ Serves(c)
        BY <2>1
    <3>2. Only(c) /\ Talks(c)'
        BY <3>1, RunsTalks, GreetTalks, RespondTalks, ReadTalks, HandlesTalks DEF Serves
    <3> QED BY <3>2, OneConversation DEF Typed
  <2>2. CASE \E d \in Daemon : Exit(d) \/ Crash(d)
      BY <2>2, EndsTalks DEF Exit, Crash
  <2>3. CASE UNCHANGED <<client, server, up, down>>
      BY <2>3 DEF Typed, EndsTyped, TalkInv, Talks
  <2>4. CASE \E d \in Daemon : StartDaemon(d) \/ Serve(d) \/ Leave(d)
      BY <2>3, <2>4 DEF StartDaemon, Serve, Leave, wires
  <2>5. CASE EditFile \/ UNCHANGED vars
      BY <2>3, <2>5 DEF EditFile, wires, vars
  <2> QED BY <2>1, <2>2, <2>4, <2>5 DEF Next
<1> QED BY <1>1, <1>2 DEF Typed

LEMMA InitTalks == Init => Typed /\ TalkInv
<1> SUFFICES ASSUME Init PROVE Typed /\ TalkInv
    OBVIOUS
<1>1. PICK v \in Config : v = CHOOSE w \in Config : TRUE
    BY DEF Init
<1>2. Loads(v) \in Memory
    BY DEF Loads, Memory
<1>3. memory \in [Daemon -> Memory]
    BY <1>1, <1>2 DEF Init
<1>4. DaemonsTyped
    BY <1>3, BoundAssumption DEF Init, DaemonsTyped
<1>5. NewClient \in ClientState /\ NewServer \in ServerState
    BY BoundAssumption DEF NewClient, NewServer, ClientState, ServerState, Single, Early
<1>6. EndsTyped
    BY <1>5 DEF Init, EndsTyped, Pieces, Single
<1>7. Talk(NewClient, NewServer, <<>>, <<>>)
    BY DEF Talk, Connecting, Greeting, Asking, Answering, NewClient, NewServer, Early, Busy
<1>8. TalkInv
    BY <1>7 DEF Init, TalkInv, Talks
<1> QED BY <1>4, <1>6, <1>8 DEF Typed

LEMMA TalkInvariant == Spec => [](Typed /\ TalkInv)
<1>1. Typed /\ TalkInv /\ [Next]_vars => (Typed /\ TalkInv)'
    BY StepTalks
<1> QED BY InitTalks, <1>1, PTL DEF Spec

LEMMA PiecesTyped ==
    ASSUME NEW S
    PROVE  /\ Single(S) \subseteq Seq(S)
           /\ Pieces(S) \subseteq Seq(S \cup {EOL})
<1>1. <<>> \in Seq(S) /\ <<>> \in Seq(S \cup {EOL})
    OBVIOUS
<1>2. ASSUME NEW b \in S
      PROVE  <<b>> \in Seq(S) /\ <<b>> \in Seq(S \cup {EOL}) /\ Line(b) \in Seq(S \cup {EOL})
    BY DEF Line
<1> QED BY <1>1, <1>2 DEF Single, Pieces

\* Every variable of the exchange between commands and daemons has its type
\* (ipc/unix.rs, ipc/mod.rs, daemon.rs:67).
THEOREM SpecTyped == Spec => []TypeOK
<1>1. ASSUME Typed, TalkInv PROVE TypeOK
  <2> USE DEF Typed
  <2>1. client \in [Command ->
          [at : {"idle", "loading", "connecting", "hello", "asking", "done", "failed"},
           ask : Ask \cup {"none"}, token : 0..MaxStarts, peer : 0..MaxStarts,
           out : Seq(Body), got : {r.kind : r \in Reply} \cup {"none"}]]
    <3>1. {r.kind : r \in Reply} = Answered
        BY BodyKinds
    <3> QED BY <1>1, <3>1, PiecesTyped DEF EndsTyped, ClientState, Early
  <2>2. server \in [Command ->
          [at : {"none", "hello", "denied", "reading", "handling", "loaded", "compared",
                 "replaced", "applied", "closed"},
           ask : Ask \cup {"none", "Hello"}, new : Config \cup {Broken}, required : BOOLEAN,
           out : Seq(Reply), times : Nat]]
      BY <1>1, PiecesTyped DEF EndsTyped, ServerState, Busy
  <2>3. /\ up \in [Command -> Seq(Body \cup {EOL})]
        /\ down \in [Command -> Seq(Reply \cup {EOL})]
      BY <1>1, PiecesTyped DEF EndsTyped
  <2>4. /\ DOMAIN memory = Daemon
        /\ \A d \in Daemon : /\ memory[d].conf \in Config
                             /\ memory[d].limit \in {v.attempts : v \in Config}
                             /\ memory[d].started \in {v.net : v \in Config}
      BY <1>1 DEF DaemonsTyped, Memory
  <2> QED BY <1>1, <2>1, <2>2, <2>3, <2>4 DEF TypeOK, DaemonsTyped
<1> QED BY <1>1, TalkInvariant, PTL

\* A daemon handles for a command what the command asks, once, and only if the
\* command has shown the token of this daemon; an answer is understood
\* (ipc/unix.rs: handle_client and IpcClient, whatever is interrupted, crashes
\* or is started again in between).
THEOREM SpecAnswersAreOwn == Spec => []AnswersAreOwn
<1>1. ASSUME Typed, TalkInv PROVE AnswersAreOwn
  <2>1. ASSUME NEW c \in Command
        PROVE  /\ server[c].times \in Nat
               /\ Greeting(client[c], server[c], up[c], down[c])
               /\ Answering(client[c], server[c], up[c], down[c])
      BY <1>1 DEF Typed, EndsTyped, ServerState, TalkInv, Talks, Talk
  <2> QED BY <2>1 DEF AnswersAreOwn, Greeting, Answering
<1> QED BY <1>1, TalkInvariant, PTL

----------------------------------------------------------------------------
(* Reloads                                                                 *)

\* Some reload has said that d has to be restarted, or is about to.
Warned(d) ==
    \/ d \in announced
    \/ \E c \in Reloading(d, {"replaced", "applied"}) : server[c].required

\* What the two properties say of a daemon that runs, and what is true of a
\* reload that has compared and not replaced: if it saw no difference, then the
\* settings it has read are the started ones or d is warned about already.
Followed(d) == Reloading(d, {"replaced"}) = {} => memory[d].limit = memory[d].conf.attempts
Differs(d) == memory[d].conf.net # memory[d].started => Warned(d)
Compared(d) ==
    \A c \in Reloading(d, {"compared"}) :
        ~server[c].required /\ server[c].new.net # memory[d].started => Warned(d)
MemoryInv(d) == Running(d) => Followed(d) /\ Differs(d) /\ Compared(d)

\* No command has a daemon that is not started as its peer.
PeersBorn == \A c \in Command : client[c].peer # 0 => daemon[client[c].peer] # "unborn"

\* A reload of d between its comparison and its answer.
Reloads(c, d) == client[c].peer = d /\ server[c].at \in {"compared", "replaced", "applied"}

\* No reload of d begins, ends or moves.
Rests(d) ==
    \A c \in Command :
        \/ ~Reloads(c, d) /\ ~Reloads(c, d)'
        \/ server'[c] = server[c] /\ client'[c].peer = client[c].peer

LEMMA RestKeeps ==
    ASSUME NEW d \in Daemon, MemoryInv(d), Rests(d), Running(d)' => Running(d),
           memory'[d] = memory[d], announced \subseteq announced'
    PROVE  MemoryInv(d)'
<1> SUFFICES ASSUME Running(d)' PROVE (Followed(d) /\ Differs(d) /\ Compared(d))'
    BY DEF MemoryInv
<1>1. Followed(d) /\ Differs(d) /\ Compared(d)
    BY DEF MemoryInv
<1>2. ASSUME NEW at \in SUBSET {"compared", "replaced", "applied"}
      PROVE  /\ Reloading(d, at)' = Reloading(d, at)
             /\ \A c \in Reloading(d, at) : server'[c] = server[c]
    BY DEF Rests, Reloads, Reloading
<1>3. Warned(d) => Warned(d)'
    BY <1>2 DEF Warned
<1>4. Followed(d)'
    BY <1>1, <1>2 DEF Followed
<1>5. Differs(d)'
    BY <1>1, <1>3 DEF Differs
<1>6. Compared(d)'
    BY <1>1, <1>2, <1>3 DEF Compared
<1> QED BY <1>4, <1>5, <1>6

\* The steps of a command, and of a handler that is not past its comparison.
LEMMA QuietRests ==
    ASSUME Typed, TalkInv, NEW c \in Command, NEW d \in Daemon,
           \/ Runs(c) \/ Greet(c) \/ Respond(c) \/ Read(c)
           \/ Inform(c) \/ Shutdown(c) \/ ReloadFile(c)
    PROVE  Rests(d)
<1>0. /\ client \in [Command -> ClientState] /\ server \in [Command -> ServerState]
      /\ Talk(client[c], server[c], up[c], down[c])
    BY DEF Typed, EndsTyped, TalkInv, Talks
<1>1. Only(c)
    BY RunsTalks, GreetTalks, RespondTalks, ReadTalks, HandlesTalks DEF Handles
<1>2. \A e \in Command : e # c => server'[e] = server[e] /\ client'[e] = client[e]
    BY <1>0, <1>1 DEF Only
<1>3. \/ ~Reloads(c, d) /\ ~Reloads(c, d)'
      \/ server'[c] = server[c] /\ client'[c].peer = client[c].peer
  <2>1. CASE Runs(c) /\ ~Connect(c)
    <3>1. server' = server
        BY <2>1 DEF Runs, FindDaemon, LoadToken, Send, Receive, Interrupt, Fails, Goes
    <3>2. client'[c].peer = client[c].peer
      <4>1. CASE FindDaemon(c)
          BY <1>0, <4>1 DEF FindDaemon, ClientState
      <4>2. CASE LoadToken(c)
          BY <1>0, <4>2 DEF LoadToken, Fails, Goes, ClientState
      <4>3. CASE Send(c)
          BY <1>0, <4>3 DEF Send, Fails, Goes, ClientState
      <4>4. CASE Receive(c)
          BY <1>0, <4>4 DEF Receive, Welcomed, Told, Writes, Fails, Goes, ClientState
      <4>5. CASE Interrupt(c)
          BY <1>0, <4>5 DEF Interrupt, Fails, Goes, ClientState
      <4> QED BY <2>1, <4>1, <4>2, <4>3, <4>4, <4>5 DEF Runs
    <3> QED BY <3>1, <3>2
  <2>2. CASE Connect(c)
    <3>1. server[c].at = "none"
        BY <1>0, <2>2 DEF Connect, Talk, Connecting, Early
    <3>2. server'[c].at \in {"none", "hello"}
        BY <1>0, <2>2, <3>1 DEF Connect, ServerState
    <3> QED BY <3>1, <3>2 DEF Reloads
  <2>3. CASE Greet(c)
    <3>1. server[c].at = "hello" /\ server'[c].at \in {"denied", "reading"}
        BY <1>0, <2>3 DEF Greet, Responds, ServerState
    <3> QED BY <3>1 DEF Reloads
  <2>4. CASE Respond(c)
    <3>1. server[c].at \in {"denied", "reading"}
        BY <1>0, <2>4 DEF Respond, Talk, Asking
    <3>2. server'[c].at \in {"denied", "reading", "closed"}
        BY <1>0, <2>4, <3>1 DEF Respond, ServerState
    <3> QED BY <3>1, <3>2 DEF Reloads
  <2>5. CASE Read(c)
    <3>1. server[c].at = "reading" /\ server'[c].at \in {"closed", "handling"}
        BY <1>0, <2>5 DEF Read, ServerState
    <3> QED BY <3>1 DEF Reloads
  <2>6. CASE Inform(c) \/ Shutdown(c)
    <3>1. server[c].at = "handling" /\ server'[c].at = "reading"
        BY <1>0, <2>6 DEF Inform, Shutdown, Handling, Responds, ServerState
    <3> QED BY <3>1 DEF Reloads
  <2>7. CASE ReloadFile(c)
    <3>1. server[c].at = "handling" /\ server'[c].at \in {"loaded", "reading"}
        BY <1>0, <2>7 DEF ReloadFile, Handling, Responds, ServerState
    <3> QED BY <3>1 DEF Reloads
  <2> QED BY <2>1, <2>2, <2>3, <2>4, <2>5, <2>6, <2>7
<1> QED BY <1>2, <1>3 DEF Rests

\* A reload that goes on leaves those of other daemons alone.
LEMMA OthersRest ==
    ASSUME Typed, NEW c \in Command, NEW d \in Daemon, d # Peer(c), UNCHANGED client,
           server' = [server EXCEPT ![c] = server'[c]]
    PROVE  Rests(d)
<1>1. \A e \in Command : e # c => server'[e] = server[e]
    BY DEF Typed, EndsTyped
<1> QED BY <1>1 DEF Rests, Reloads, Peer

LEMMA CompareKeeps ==
    ASSUME Typed, TalkInv, NEW c \in Command, CompareNetwork(c),
           NEW d \in Daemon, d = Peer(c), MemoryInv(d)
    PROVE  MemoryInv(d)'
<1>0. client \in [Command -> ClientState] /\ server \in [Command -> ServerState]
    BY DEF Typed, EndsTyped
<1>1. /\ UNCHANGED <<client, daemon, memory, announced>>
      /\ server[c].at = "loaded"
      /\ server' = [server EXCEPT ![c].at = "compared",
                                  ![c].required = server[c].new.net # memory[d].conf.net]
    BY DEF CompareNetwork, world, wires, history, Mine
<1>2. \A e \in Command : e # c => server'[e] = server[e]
    BY <1>0, <1>1
<1>3. /\ server'[c].at = "compared" /\ server'[c].new = server[c].new
      /\ ~server'[c].required => server[c].new.net = memory[d].conf.net
    BY <1>0, <1>1 DEF ServerState
<1>4. SUFFICES ASSUME Running(d)' PROVE (Followed(d) /\ Differs(d) /\ Compared(d))'
    BY DEF MemoryInv
<1>5. Followed(d) /\ Differs(d) /\ Compared(d)
    BY <1>1, <1>4 DEF MemoryInv, Running
<1>6. Reloading(d, {"replaced"})' = Reloading(d, {"replaced"})
    BY <1>1, <1>2, <1>3 DEF Reloading
<1>7. Warned(d) => Warned(d)'
    BY <1>1, <1>2 DEF Warned, Reloading
<1>8. Followed(d)' /\ Differs(d)'
    BY <1>1, <1>5, <1>6, <1>7 DEF Followed, Differs
<1>9. Compared(d)'
    BY <1>1, <1>2, <1>3, <1>5, <1>7 DEF Compared, Differs, Reloading
<1> QED BY <1>8, <1>9

LEMMA ReplaceKeeps ==
    ASSUME Typed, TalkInv, NEW c \in Command, ReplaceConfig(c),
           NEW d \in Daemon, d = Peer(c), MemoryInv(d)
    PROVE  MemoryInv(d)'
<1>0. client \in [Command -> ClientState] /\ server \in [Command -> ServerState]
    BY DEF Typed, EndsTyped
<1>1. /\ UNCHANGED <<client, daemon, announced>>
      /\ server[c].at = "compared"
      /\ server' = [server EXCEPT ![c].at = "replaced"]
      /\ memory' = [memory EXCEPT ![d].conf = server[c].new]
    BY DEF ReplaceConfig, wires, history
<1>2. \A e \in Command : e # c => server'[e] = server[e]
    BY <1>0, <1>1
<1>3. server'[c].at = "replaced" /\ server'[c].required = server[c].required
    BY <1>0, <1>1 DEF ServerState
<1>4. client[c].peer = d
    BY DEF Peer
<1>5. memory'[d].conf = server[c].new /\ memory'[d].started = memory[d].started
    BY <1>1, <1>4 DEF Typed, DaemonsTyped, Memory
<1>6. SUFFICES ASSUME Running(d)' PROVE (Followed(d) /\ Differs(d) /\ Compared(d))'
    BY DEF MemoryInv
<1>7. Followed(d) /\ Differs(d) /\ Compared(d)
    BY <1>1, <1>6 DEF MemoryInv, Running
<1>8. c \in Reloading(d, {"replaced"})' /\ c \in Reloading(d, {"replaced", "applied"})'
    BY <1>1, <1>3, <1>4 DEF Reloading
<1>9. Followed(d)'
    BY <1>8 DEF Followed
<1>10. Warned(d) => Warned(d)'
    BY <1>1, <1>2 DEF Warned, Reloading
<1>11. server[c].new.net # memory[d].started => Warned(d)'
  <2>1. CASE server[c].required
      BY <1>3, <1>8, <2>1 DEF Warned
  <2>2. CASE ~server[c].required
      BY <1>1, <1>4, <1>7, <1>10, <2>2 DEF Compared, Reloading
  <2> QED BY <2>1, <2>2
<1>12. Differs(d)'
    BY <1>5, <1>11 DEF Differs
<1>13. Compared(d)'
    BY <1>1, <1>2, <1>3, <1>5, <1>7, <1>10 DEF Compared, Reloading
<1> QED BY <1>9, <1>12, <1>13

LEMMA SetKeeps ==
    ASSUME Typed, TalkInv, NEW c \in Command, SetMaxAttempts(c),
           NEW d \in Daemon, d = Peer(c), MemoryInv(d)
    PROVE  MemoryInv(d)'
<1>0. client \in [Command -> ClientState] /\ server \in [Command -> ServerState]
    BY DEF Typed, EndsTyped
<1>1. /\ UNCHANGED <<client, daemon, announced>>
      /\ server[c].at = "replaced"
      /\ server' = [server EXCEPT ![c].at = "applied"]
      /\ memory' = [memory EXCEPT ![d].limit = memory[d].conf.attempts]
    BY DEF SetMaxAttempts, wires, history, Mine
<1>2. \A e \in Command : e # c => server'[e] = server[e]
    BY <1>0, <1>1
<1>3. server'[c].at = "applied" /\ server'[c].required = server[c].required
    BY <1>0, <1>1 DEF ServerState
<1>4. client[c].peer = d
    BY DEF Peer
<1>5. /\ memory'[d].conf = memory[d].conf /\ memory'[d].started = memory[d].started
      /\ memory'[d].limit = memory[d].conf.attempts
    BY <1>1, <1>4 DEF Typed, DaemonsTyped, Memory
<1>6. SUFFICES ASSUME Running(d)' PROVE (Followed(d) /\ Differs(d) /\ Compared(d))'
    BY DEF MemoryInv
<1>7. Differs(d) /\ Compared(d)
    BY <1>1, <1>6 DEF MemoryInv, Running
<1>8. Followed(d)'
    BY <1>5 DEF Followed
<1>9. Warned(d) => Warned(d)'
    BY <1>1, <1>2, <1>3 DEF Warned, Reloading
<1>10. Differs(d)'
    BY <1>5, <1>7, <1>9 DEF Differs
<1>11. Compared(d)'
    BY <1>1, <1>2, <1>3, <1>5, <1>7, <1>9 DEF Compared, Reloading
<1> QED BY <1>8, <1>10, <1>11

LEMMA AnswerKeeps ==
    ASSUME Typed, TalkInv, NEW c \in Command, AnswerReload(c),
           NEW d \in Daemon, d = Peer(c), MemoryInv(d)
    PROVE  MemoryInv(d)'
<1>0. client \in [Command -> ClientState] /\ server \in [Command -> ServerState]
    BY DEF Typed, EndsTyped
<1>1. /\ UNCHANGED <<client, daemon, memory>>
      /\ server[c].at = "applied"
      /\ announced' = IF server[c].required THEN announced \cup {d} ELSE announced
      /\ server' = [server EXCEPT ![c].at = "reading", ![c].out = <<Answer("Reload")>>,
                                  ![c].new = Broken, ![c].required = FALSE]
    BY DEF AnswerReload, world, wires
<1>2. \A e \in Command : e # c => server'[e] = server[e]
    BY <1>0, <1>1
<1>3. server'[c].at = "reading"
    BY <1>0, <1>1 DEF ServerState
<1>4. SUFFICES ASSUME Running(d)' PROVE (Followed(d) /\ Differs(d) /\ Compared(d))'
    BY DEF MemoryInv
<1>5. Followed(d) /\ Differs(d) /\ Compared(d)
    BY <1>1, <1>4 DEF MemoryInv, Running
<1>6. Reloading(d, {"replaced"})' = Reloading(d, {"replaced"})
    BY <1>1, <1>2, <1>3 DEF Reloading
<1>7. Warned(d) => Warned(d)'
  <2>1. CASE server[c].required
      BY <1>1, <2>1 DEF Warned
  <2>2. CASE ~server[c].required
      BY <1>1, <1>2, <2>2 DEF Warned, Reloading
  <2> QED BY <2>1, <2>2
<1>8. Followed(d)' /\ Differs(d)'
    BY <1>1, <1>5, <1>6, <1>7 DEF Followed, Differs
<1>9. Compared(d)'
    BY <1>1, <1>2, <1>3, <1>5, <1>7 DEF Compared, Reloading
<1> QED BY <1>8, <1>9

MemoriesInv == PeersBorn /\ \A d \in Daemon : MemoryInv(d)

LEMMA StepPeersBorn ==
    ASSUME Typed, TalkInv, PeersBorn, [Next]_vars
    PROVE  PeersBorn'
<1> USE DEF world, wires, history, vars
<1>0. client \in [Command -> ClientState]
    BY DEF Typed, EndsTyped
<1>1. \A d \in Daemon : daemon[d] # "unborn" => daemon'[d] # "unborn"
  <2>1. CASE daemon' = daemon
      BY <2>1
  <2>2. ASSUME NEW d \in Daemon, NEW st \in {"json", "up", "asked", "leaving", "gone"},
               daemon' = [daemon EXCEPT ![d] = st]
        PROVE  \A e \in Daemon : daemon[e] # "unborn" => daemon'[e] # "unborn"
      BY <2>2 DEF Typed, DaemonsTyped
  <2>3. ASSUME NEW c \in Command, Shutdown(c)
        PROVE  \A e \in Daemon : daemon[e] # "unborn" => daemon'[e] # "unborn"
      BY <2>3 DEF Shutdown, Typed, DaemonsTyped
  <2>4. CASE \E c \in Command : (Runs(c) \/ Serves(c)) /\ ~Shutdown(c)
      BY <2>1, <2>4
         DEF Runs, FindDaemon, LoadToken, Connect, Send, Receive, Interrupt, Serves, Greet,
             Respond, Read, Handles, Inform, ReloadFile, CompareNetwork, ReplaceConfig,
             SetMaxAttempts, AnswerReload
  <2>5. CASE \E d \in Daemon : StartDaemon(d) \/ Serve(d) \/ Leave(d) \/ Exit(d) \/ Crash(d)
      BY <2>2, <2>5 DEF StartDaemon, Serve, Leave, Exit, Crash, Ends
  <2> QED BY <2>1, <2>3, <2>4, <2>5 DEF Next, EditFile
<1>2. ASSUME NEW c \in Command, client'[c].peer # 0
      PROVE  daemon'[client'[c].peer] # "unborn"
  <2>1. CASE client'[c].peer = client[c].peer
    <3>1. client[c].peer \in Daemon
        BY <1>0, <1>2, <2>1, BoundAssumption DEF ClientState, Daemon
    <3> QED BY <1>1, <1>2, <2>1, <3>1 DEF PeersBorn
  <2>2. CASE client'[c].peer # client[c].peer
    <3>1. Connect(c) /\ Accepts
      <4>1. PICK e \in Command : Runs(e)
          BY <2>2 DEF Next, Serves, Greet, Respond, Read, Handles, Inform, Shutdown,
                      ReloadFile, CompareNetwork, ReplaceConfig, SetMaxAttempts,
                      AnswerReload, StartDaemon, Serve, Leave, Exit, Crash, EditFile
      <4>2. e = c
          BY <1>0, <2>2, <4>1, RunsTalks DEF Only
      <4>3. CASE FindDaemon(c)
          BY <1>0, <2>2, <4>3 DEF FindDaemon, ClientState
      <4>4. CASE LoadToken(c)
          BY <1>0, <2>2, <4>4 DEF LoadToken, Fails, Goes, ClientState
      <4>5. CASE Send(c)
          BY <1>0, <2>2, <4>5 DEF Send, Fails, Goes, ClientState
      <4>6. CASE Receive(c)
          BY <1>0, <2>2, <4>6 DEF Receive, Welcomed, Told, Writes, Fails, Goes, ClientState
      <4>7. CASE Interrupt(c)
          BY <1>0, <2>2, <4>7 DEF Interrupt, Fails, Goes, ClientState
      <4>8. CASE Connect(c) /\ ~Accepts
          BY <1>0, <2>2, <4>8 DEF Connect, Fails, Goes, ClientState
      <4> QED BY <4>1, <4>2, <4>3, <4>4, <4>5, <4>6, <4>7, <4>8 DEF Runs
    <3>2. client'[c].peer = socket /\ daemon[socket] # "unborn"
        BY <1>0, <3>1 DEF Connect, Accepts, ClientState
    <3>3. socket \in Daemon
        BY <3>1, BoundAssumption DEF Accepts, Typed, DaemonsTyped, Daemon
    <3> QED BY <1>1, <3>2, <3>3
  <2> QED BY <2>1, <2>2
<1> QED BY <1>2 DEF PeersBorn

LEMMA StepMemories ==
    ASSUME Typed, TalkInv, MemoriesInv, [Next]_vars, NEW d \in Daemon
    PROVE  MemoryInv(d)'
<1> USE DEF world, wires, history, vars
<1>0. /\ client \in [Command -> ClientState] /\ server \in [Command -> ServerState]
      /\ daemon \in [Daemon -> {"unborn", "json", "up", "asked", "leaving", "gone"}]
      /\ memory \in [Daemon -> Memory]
      /\ MemoryInv(d)
    BY DEF Typed, EndsTyped, DaemonsTyped, MemoriesInv
<1>1. ASSUME NEW c \in Command,
             \/ Runs(c) \/ Greet(c) \/ Respond(c) \/ Read(c)
             \/ Inform(c) \/ Shutdown(c) \/ ReloadFile(c)
      PROVE  MemoryInv(d)'
  <2>1. memory' = memory /\ announced' = announced
      BY <1>1 DEF Runs, FindDaemon, LoadToken, Connect, Send, Receive, Interrupt, Greet,
                  Respond, Read, Inform, Shutdown, ReloadFile
  <2>2. daemon' = daemon \/ Shutdown(c)
      BY <1>1 DEF Runs, FindDaemon, LoadToken, Connect, Send, Receive, Interrupt, Greet,
                  Respond, Read, Inform, ReloadFile
  <2>3. Running(d)' => Running(d)
      BY <1>0, <2>2 DEF Shutdown, Running
  <2> QED BY <1>0, <1>1, <2>1, <2>3, QuietRests, RestKeeps
<1>2. ASSUME NEW c \in Command,
             CompareNetwork(c) \/ ReplaceConfig(c) \/ SetMaxAttempts(c) \/ AnswerReload(c)
      PROVE  MemoryInv(d)'
  <2>1. CASE d = Peer(c)
      BY <1>0, <1>2, <2>1, CompareKeeps, ReplaceKeeps, SetKeeps, AnswerKeeps
  <2>2. CASE d # Peer(c)
    <3>1. Only(c)
        BY <1>2, HandlesTalks DEF Handles
    <3>2. UNCHANGED client /\ UNCHANGED daemon
        BY <1>2 DEF CompareNetwork, ReplaceConfig, SetMaxAttempts, AnswerReload
    <3>3. Rests(d)
        BY <2>2, <3>1, <3>2, OthersRest DEF Only
    <3>4. memory'[d] = memory[d] /\ announced \subseteq announced'
        BY <1>0, <1>2, <2>2 DEF CompareNetwork, ReplaceConfig, SetMaxAttempts, AnswerReload
    <3> QED BY <1>0, <3>2, <3>3, <3>4, RestKeeps DEF Running
  <2> QED BY <2>1, <2>2
<1>3. ASSUME NEW e \in Daemon, StartDaemon(e)
      PROVE  MemoryInv(d)'
  <2>1. UNCHANGED <<client, server, announced>>
      BY <1>3 DEF StartDaemon
  <2>2. CASE d = e
    <3>1. memory'[d] = Loads(file) /\ daemon[d] = "unborn"
        BY <1>0, <1>3, <2>2 DEF StartDaemon
    <3>2. \A c \in Command : client[c].peer # d
      <4>1. d # 0
          BY BoundAssumption DEF Daemon
      <4> QED BY <3>1, <4>1 DEF MemoriesInv, PeersBorn
    <3>3. Compared(d)'
        BY <2>1, <3>2 DEF Compared, Reloading
    <3> QED BY <3>1, <3>3 DEF MemoryInv, Followed, Differs, Loads
  <2>3. CASE d # e
    <3>1. memory'[d] = memory[d] /\ daemon'[d] = daemon[d]
        BY <1>0, <1>3, <2>3 DEF StartDaemon
    <3>2. Rests(d)
        BY <2>1 DEF Rests
    <3> QED BY <1>0, <2>1, <3>1, <3>2, RestKeeps DEF Running
  <2> QED BY <2>2, <2>3
<1>4. ASSUME NEW e \in Daemon, Serve(e) \/ Leave(e)
      PROVE  MemoryInv(d)'
  <2>1. /\ UNCHANGED <<client, server, memory, announced>>
        /\ Running(d)' => Running(d)
      BY <1>0, <1>4 DEF Serve, Leave, Running
  <2>2. Rests(d)
      BY <2>1 DEF Rests
  <2> QED BY <1>0, <2>1, <2>2, RestKeeps
<1>5. ASSUME NEW e \in Daemon, Exit(e) \/ Crash(e)
      PROVE  MemoryInv(d)'
  <2>1. UNCHANGED <<client, memory, announced>> /\ Ends(e)
      BY <1>5 DEF Exit, Crash
  <2>2. CASE d = e
    <3>1. ~Running(d)'
        BY <1>0, <2>1, <2>2 DEF Ends, Running
    <3> QED BY <3>1 DEF MemoryInv
  <2>3. CASE d # e
    <3>1. daemon'[d] = daemon[d]
        BY <1>0, <2>1, <2>3 DEF Ends
    <3>2. ASSUME NEW c \in Command
          PROVE  \/ ~Reloads(c, d) /\ ~Reloads(c, d)'
                 \/ server'[c] = server[c] /\ client'[c].peer = client[c].peer
      <4>1. client'[c].peer = client[c].peer
          BY <2>1
      <4>2. CASE client[c].peer = d
        <5>1. server'[c] = server[c]
            BY <2>1, <2>3, <4>2 DEF Ends
        <5> QED BY <4>1, <5>1
      <4>3. CASE client[c].peer # d
          BY <4>1, <4>3 DEF Reloads
      <4> QED BY <4>2, <4>3
    <3>3. Rests(d)
        BY <3>2 DEF Rests
    <3> QED BY <1>0, <2>1, <3>1, <3>3, RestKeeps DEF Running
  <2> QED BY <2>2, <2>3
<1>6. CASE EditFile \/ UNCHANGED vars
  <2>1. UNCHANGED <<client, server, memory, announced, daemon>>
      BY <1>6 DEF EditFile
  <2>2. Rests(d)
      BY <2>1 DEF Rests
  <2> QED BY <1>0, <2>1, <2>2, RestKeeps DEF Running
<1> QED BY <1>1, <1>2, <1>3, <1>4, <1>5, <1>6 DEF Next, Serves, Handles

LEMMA MemoriesInvariant == Spec => []MemoriesInv
<1>1. Init => MemoriesInv
    BY DEF Init, MemoriesInv, PeersBorn, MemoryInv, Running, NewClient
<1>2. Typed /\ TalkInv /\ MemoriesInv /\ [Next]_vars => MemoriesInv'
    BY StepPeersBorn, StepMemories DEF MemoriesInv
<1> QED BY TalkInvariant, <1>1, <1>2, PTL DEF Spec

\* Between reloads the pairing limit is the one of the configuration in memory,
\* in whatever order overlapping reloads replaced it (daemon.rs:155).
THEOREM SpecAttemptsFollowConfig == Spec => []AttemptsFollowConfig
<1>1. MemoriesInv => AttemptsFollowConfig
    BY DEF MemoriesInv, MemoryInv, Followed, AttemptsFollowConfig
<1> QED BY <1>1, MemoriesInvariant, PTL

\* If the endpoint runs with other network settings than the configuration in
\* memory says, some reload has said so or is about to (daemon.rs:140).
THEOREM SpecRestartIsAnnounced == Spec => []RestartIsAnnounced
<1>1. MemoriesInv => RestartIsAnnounced
    BY DEF MemoriesInv, MemoryInv, Differs, Warned, RestartIsAnnounced
<1> QED BY <1>1, MemoriesInvariant, PTL
=============================================================================
