------------------------------- MODULE Probe -------------------------------
(***************************************************************************)
(* src/discovery/probe.rs and is_credible of src/discovery/mod.rs: a probe *)
(* asks an origin for a page, follows redirects that stay on it, reads as  *)
(* much as it takes to see the head of the page, and gives the status and  *)
(* a name, from which the engine decides whether there is an app.          *)
(*                                                                         *)
(* A response is a sequence of pieces that the probe tells apart.  The     *)
(* server sends them one by one, may stop or close after any of them, and  *)
(* a read returns some of those that are there.  A status line or header   *)
(* that may be cut is two pieces of one kind: of the number 404 a probe may*)
(* have read 40.  The clock counts ticks from the beginning of the probe;  *)
(* sending the request is external and takes no time.                      *)
(***************************************************************************)
EXTENDS Integers, Sequences

CONSTANTS
    Path,           \* paths on the origin
    Root,           \* "/"
    Elsewhere,      \* a location with another host or port
    Name,           \* what a title or a meta tag may say
    NoName,         \* said by one that is empty
    ErrorTitle,     \* titles of error pages
    Sites,          \* what may answer: a response for each path
    Budget,         \* discovery.probe_timeout_ms
    MaxRedirects,
    HeadCap,        \* HEAD_READ_CAP, in pieces
    ProbeCap,       \* MAX_PROBE_BYTES
    Chunk           \* the most that one read returns

Piece ==
    [kind : {"status"}, value : Nat]
        \cup [kind : {"location"}, value : Path \cup {Elsewhere}]
        \cup [kind : {"title", "meta"}, value : Name \cup {NoName}]
        \cup [kind : {"blank", "headend", "other"}, value : {NoName}]

\* Status line and headers stand before the blank line.
Ordered(r) ==
    \A i, j \in 1 .. Len(r) :
       r[i].kind = "blank" /\ r[j].kind \in {"status", "location"} => j < i

ASSUME PathAssumption == Root \in Path /\ Elsewhere \notin Path
ASSUME NameAssumption == NoName \notin Name /\ ErrorTitle \subseteq Name
ASSUME SiteAssumption ==
    /\ Sites \subseteq [Path -> Seq(Piece)]
    /\ \A s \in Sites, p \in Path : Ordered(s[p])
ASSUME LimitAssumption ==
    /\ Budget \in Nat \ {0} /\ MaxRedirects \in Nat /\ Chunk \in Nat \ {0}
    /\ HeadCap \in Nat /\ ProbeCap \in Nat /\ HeadCap <= ProbeCap

VARIABLES
    at,         \* where the probe is
    site,       \* what answers
    now,        \* the time since the probe began
    hop, path,  \* requests made before this one; what this one asks for
    budget, by, \* its time; when what it waits for times out
    page,       \* the response that the server gives
    sent, open, \* pieces of it that it has sent; whether more may come
    got,        \* pieces read
    why,        \* history: why reading ended
    answer,     \* ProbeResult
    app         \* whether the engine caches an app

timing == <<budget, by>>
response == <<page, sent, open, got, why>>
verdict == <<answer, app>>
probeVars == <<at, site, now, hop, path, timing, response, verdict>>

NoAnswer == [status |-> 0, title |-> NoName]

----------------------------------------------------------------------------
(* parse_response, of the first n pieces of r                              *)

Of(r, kind, n) == {i \in 1 .. n : r[i].kind = kind}

First(r, kind, n) == r[CHOOSE i \in Of(r, kind, n) : \A j \in Of(r, kind, n) : i <= j].value
Last(r, kind, n) == r[CHOOSE i \in Of(r, kind, n) : \A j \in Of(r, kind, n) : j <= i].value

Answers(r, n) == Of(r, "status", n) # {}

Titled(r, n) == Of(r, "title", n) # {} /\ First(r, "title", n) # NoName

\* The first title if it says something, or what a meta tag says: the tag
\* of the first of META_KEYS that there is.
NameIn(r, n) ==
    IF Titled(r, n) THEN First(r, "title", n)
    ELSE IF Of(r, "meta", n) # {} THEN First(r, "meta", n)
    ELSE NoName

ResultOf(r, n) == [status |-> Last(r, "status", n), title |-> NameIn(r, n)]

Redirects(r, n) ==
    /\ Last(r, "status", n) \in 300 .. 399
    /\ Of(r, "location", n) # {}
    /\ Last(r, "location", n) \in Path

\* is_credible: its last condition always holds where it is reached.
Credible(result) ==
    /\ result.title \notin ErrorTitle
    /\ result.status \in {401, 403} \/ result.status < 400

----------------------------------------------------------------------------
(* probe_http                                                              *)

Begin ==
    /\ at = "idle"
    /\ at' = "request"
    /\ site' \in Sites
    /\ now' = 0 /\ hop' = 0 /\ path' = Root
    /\ UNCHANGED <<timing, response, verdict>>

Gives(result, credible) ==
    /\ at' = "idle"
    /\ answer' = result
    /\ app' = credible

GivesNothing == Gives(NoAnswer, FALSE) /\ UNCHANGED <<site, now, hop, path, timing, response>>

Sends(time) ==
    /\ at' = "connect"
    /\ budget' = time
    /\ by' = now + time
    /\ UNCHANGED <<site, now, hop, path, response, verdict>>

\* Variant: every request has the whole budget.
RequestAfresh ==
    /\ at = "request"
    /\ \/ hop > MaxRedirects /\ GivesNothing
       \/ hop <= MaxRedirects /\ Sends(Budget)

Request ==
    /\ at = "request"
    /\ \/ (hop > MaxRedirects \/ now >= Budget) /\ GivesNothing
       \/ hop <= MaxRedirects /\ now < Budget /\ Sends(Budget - now)

ConnectFails == at = "connect" /\ GivesNothing
ConnectTimesOut == at = "connect" /\ now >= by /\ GivesNothing

\* The deadline for reading is set anew, with the time that connecting had.
Connect ==
    /\ at = "connect"
    /\ at' = "read"
    /\ by' = now + budget
    /\ page' = site[path]
    /\ sent' = 0 /\ open' = TRUE /\ got' = 0 /\ why' = "none"
    /\ UNCHANGED <<site, now, hop, path, budget, verdict>>

ServerSends ==
    /\ at = "read" /\ open
    /\ sent < Len(page)
    /\ sent' = sent + 1
    /\ UNCHANGED <<at, site, now, hop, path, timing, page, open, got, why, verdict>>

ServerCloses ==
    /\ at = "read" /\ open
    /\ open' = FALSE
    /\ UNCHANGED <<at, site, now, hop, path, timing, page, sent, got, why, verdict>>

\* Variant: the headers are all it takes.
EnoughHeaders(n) == Of(page, "blank", n) # {} \/ n >= ProbeCap

\* find_ci searches all that was read, however the reads cut it.
Enough(n) ==
    \/ /\ Of(page, "blank", n) # {}
       /\ Of(page, "headend", n) # {} \/ n >= HeadCap
    \/ n >= ProbeCap

EndsReading(reason) == at' = "parse" /\ why' = reason

Read ==
    /\ at = "read"
    /\ \E n \in 1 .. Chunk :
          /\ got + n <= sent
          /\ got' = got + n
          /\ \/ Enough(got + n) /\ EndsReading("enough")
             \/ ~Enough(got + n) /\ UNCHANGED <<at, why>>
    /\ UNCHANGED <<site, now, hop, path, timing, page, sent, open, verdict>>

\* The end of the stream, or an error that discards what was not read.
ReadEnds ==
    /\ at = "read" /\ ~open
    /\ EndsReading("closed")
    /\ UNCHANGED <<site, now, hop, path, timing, page, sent, open, got, verdict>>

\* timeout_at looks for data first, then at the clock.
ReadTimesOut ==
    /\ at = "read" /\ now >= by /\ got = sent
    /\ EndsReading("late")
    /\ UNCHANGED <<site, now, hop, path, timing, page, sent, open, got, verdict>>

\* Variant: a location is followed wherever it leads.
ParseAnywhere ==
    /\ at = "parse"
    /\ Answers(page, got)
    /\ IF Of(page, "location", got) # {}
       THEN /\ at' = "request" /\ hop' = hop + 1
            /\ path' = Last(page, "location", got)
            /\ UNCHANGED verdict
       ELSE /\ Gives(ResultOf(page, got), Credible(ResultOf(page, got)))
            /\ UNCHANGED <<hop, path>>
    /\ UNCHANGED <<site, now, timing, response>>

\* Variant: redirects are not counted.
FollowUncounted ==
    /\ at' = "request"
    /\ path' = Last(page, "location", got)
    /\ UNCHANGED <<site, now, hop, timing, response, verdict>>

Follow ==
    /\ at' = "request"
    /\ hop' = hop + 1
    /\ path' = Last(page, "location", got)
    /\ UNCHANGED <<site, now, timing, response, verdict>>

Parse ==
    /\ at = "parse"
    /\ \/ ~Answers(page, got) /\ GivesNothing
       \/ Answers(page, got) /\ Redirects(page, got) /\ Follow
       \/ /\ Answers(page, got) /\ ~Redirects(page, got)
          /\ Gives(ResultOf(page, got), Credible(ResultOf(page, got)))
          /\ UNCHANGED <<site, now, hop, path, timing, response>>

Tick ==
    /\ at \in {"connect", "read"}
    /\ now < by
    /\ now' = now + 1
    /\ UNCHANGED <<at, site, hop, path, timing, response, verdict>>

----------------------------------------------------------------------------
ProbeInit ==
    /\ at = "idle"
    /\ site \in Sites
    /\ now = 0 /\ hop = 0 /\ path = Root
    /\ budget = 0 /\ by = 0
    /\ page = <<>> /\ sent = 0 /\ open = FALSE /\ got = 0 /\ why = "none"
    /\ answer = NoAnswer /\ app = FALSE

Prober == Request \/ ConnectTimesOut \/ Read \/ ReadEnds \/ ReadTimesOut \/ Parse

ProbeNext == Begin \/ Prober \/ ConnectFails \/ Connect \/ ServerSends \/ ServerCloses \/ Tick

ProbeSpec == ProbeInit /\ [][ProbeNext]_probeVars

\* The runtime polls the probe and its timers fire; the server does what it
\* likes, and nothing has to begin.
ProbeFairSpec == ProbeSpec /\ WF_probeVars(Prober) /\ WF_probeVars(Tick)

----------------------------------------------------------------------------
(* Properties                                                              *)

\* Types; a probe only ever asks its own origin.
ProbeTypeOK ==
    /\ at \in {"idle", "request", "connect", "read", "parse"}
    /\ site \in Sites
    /\ now \in Nat /\ path \in Path
    /\ hop \in 0 .. MaxRedirects + 1 /\ (hop > MaxRedirects => at \in {"request", "idle"})
    /\ budget \in 0 .. Budget /\ by \in Nat
    /\ page \in Seq(Piece) /\ sent \in 0 .. Len(page) /\ open \in BOOLEAN /\ got \in 0 .. sent
    /\ why \in {"none", "enough", "closed", "late"}
    /\ answer \in [status : Nat, title : Name \cup {NoName}]
    /\ app \in BOOLEAN

\* However slow the server is at each step of each redirect, a probe waits
\* for no longer than twice the budget: what was left when it connected, and
\* as much again.  (request: the deadline is set again after connecting.)
EndsInTime == now <= 2 * Budget

\* The head ends at e, within the cap and below the headers.
HeadEnds(r, e) ==
    /\ e \in 1 .. Len(r) /\ e <= HeadCap
    /\ r[e].kind = "headend" /\ \A i \in 1 .. e - 1 : r[i].kind # "headend"
    /\ \E b \in 1 .. e : r[b].kind = "blank"

\* What a probe gives that read until it had enough is what the server sends,
\* not what had arrived: status and verdict are those of the whole response,
\* and the name is the title in its head.  (request: the loop that reads.)
AnswerIsWhole ==
    at = "idle" /\ why = "enough" /\ answer # NoAnswer =>
       \A e \in 1 .. Len(page) : HeadEnds(page, e) =>
          /\ answer.status = Last(page, "status", Len(page))
          /\ Titled(page, e) =>
                /\ answer.title = First(page, "title", e)
                /\ app = Credible(ResultOf(page, Len(page)))

\* Every probe ends, whatever the server does: it may stay mute, trickle,
\* redirect for ever or never close.
ProbeEnds == at # "idle" ~> at = "idle"

\* src/discovery/probe.rs: "Returns None if ... the total budget elapses".
WithinBudget == now <= Budget

\* src/discovery/probe.rs: a probe "reads the whole <head>, and prefers
\* <title>" to meta tags.  A title in the body, of a drawing, counts too if it
\* was read together with the end of the head: the name of such a page depends
\* on how the reads cut it.
NameIsOfHead ==
    at = "idle" /\ why = "enough" /\ answer # NoAnswer =>
       \A e \in 1 .. Len(page) : HeadEnds(page, e) =>
          answer.title = NameIn(page, e)

\* src/discovery/mod.rs: "Dropped: error statuses".  A status line that was cut
\* gives another number.
ErrorsAreDropped ==
    at = "idle" /\ app => Last(page, "status", Len(page)) \in (0 .. 399) \cup {401, 403}
=============================================================================
