----------------------------- MODULE AuthState -----------------------------
(***************************************************************************)
(* src/auth.rs: who may use the server, how a device comes to, and what of *)
(* it survives a restart.                                                  *)
(*                                                                         *)
(* `inner` is a mutex, so what one call does under it is one step.  Saving *)
(* is not under it: authorize, revoke and rename copy what they have to    *)
(* persist, let the lock go, and only then write the file.  A task is one  *)
(* such call in progress (a bind connection, an IPC or an HTTP request).   *)
(* fs::write opens and truncates, then writes; rename follows; each is a   *)
(* step of its own, and two tasks use the same temporary name.             *)
(*                                                                         *)
(* A node file is a sequence of equally long lines, one device a line.  Of *)
(* the names file only the devices that have a name are kept.              *)
(***************************************************************************)
EXTENDS Naturals, Sequences, FiniteSets, SequencesExt

CONSTANTS
    Device,         \* endpoint ids that may try to bind
    NoDevice,
    RandomToken,    \* values rand::random() can return, each of them once
    FixedToken,     \* values of the config's bind.token
    NoToken,        \* nothing presented that was ever minted; no pending token
    Task,           \* calls in progress
    Limit,          \* values of the config's bind.max_failed_attempts
    MaxPending,     \* the config's bind.max_pending_invites
    Junk,           \* a line that parses as no endpoint id
    IoMayFail       \* whether a write to the data directory can fail

Token == RandomToken \cup FixedToken
File == {"nodes", "names"}

ASSUME TokenAssumption ==
    /\ NoToken \notin Token
    /\ RandomToken \cap FixedToken = {}
ASSUME DeviceAssumption ==
    /\ IsFiniteSet(Device)
    /\ NoDevice \notin Device
    /\ Junk \notin Device
ASSUME LimitAssumption == Limit \subseteq Nat \ {0} /\ Limit # {}
ASSUME MaxPendingAssumption == MaxPending \in Nat \ {0}
ASSUME IoAssumption == IoMayFail \in BOOLEAN

VARIABLES
    \* AuthState::inner and max_attempts
    pending,        \* the pairing token: its value and whether its deadline is ahead
    authenticated,  \* the authorized devices
    named,          \* those of them that have a display name
    invitations,    \* outstanding one-time invitations
    lapsed,         \* the ones of them whose deadline has passed
    failed,         \* failed attempts since the last mint or authorization
    maxAttempts,
    \* the process and the data directory
    task,           \* what each task still has to save
    disk,           \* each store file and its temporary file
    \* history
    issued,         \* random values used so far
    ever,           \* devices that were authorized at some time
    redeemed,       \* invitations that were redeemed
    gone,           \* devices whose revocation was saved and that did not pair again
    dirty           \* files whose last save overlapped another one or failed

memory == <<pending, authenticated, named, invitations, lapsed, failed, maxAttempts>>
history == <<issued, ever, redeemed, gone, dirty>>
vars == <<memory, task, disk, history>>

Pending == [token : Token, live : BOOLEAN]
NoPending == [token |-> NoToken, live |-> FALSE]
Presented == Token \cup {NoToken}

----------------------------------------------------------------------------
(* Saving                                                                  *)

\* The task record between calls: nothing to save.
IdleTask == [todo |-> {}, snap |-> [f \in File |-> {}], at |-> "open",
             fd |-> "none", revokes |-> NoDevice]

Idle(t) == task[t].todo = {}

\* revoke saves the nodes first, then the names.
Current(t) == IF "nodes" \in task[t].todo THEN "nodes" ELSE "names"

\* Another task holds a copy of f it has not finished saving.
Saving(f, t) == \E u \in Task \ {t} : f \in task[u].todo

\* Task t leaves the lock with a copy of the files it has to save.
StartSaving(t, copy, d) ==
    /\ task' = [task EXCEPT ![t] =
                  [todo |-> DOMAIN copy,
                   snap |-> [f \in File |-> IF f \in DOMAIN copy THEN copy[f] ELSE {}],
                   at |-> "open", fd |-> "none", revokes |-> d]]
    /\ dirty' = [f \in File |-> IF f \in DOMAIN copy THEN Saving(f, t) ELSE dirty[f]]

\* What write() at offset 0 leaves of a file that is not empty any more.
\* An empty device list is a lone newline, which breaks the first line.
OverlaidNodes(new, old) ==
    IF new = <<>> /\ old # <<>>
    THEN <<Junk>> \o Tail(old)
    ELSE new \o SubSeq(old, Len(new) + 1, Len(old))

\* Name lines differ in length: a whole number of old lines may survive
\* behind the new ones, or a fragment that makes the file unreadable.
OverlaidNames(new, old) ==
    IF new = <<>> \/ old = <<>>
    THEN {new \o old}
    ELSE {<<Junk>>} \cup {new \o SubSeq(old, k, Len(old)) : k \in 2 .. Len(old) + 1}

Overlaid(f, new, old) ==
    IF f = "nodes" THEN {OverlaidNodes(new, old)} ELSE OverlaidNames(new, old)

\* Variant: a line is trusted without being parsed.
LoadedUnparsed(f, lines) == ToSet(lines)

\* load_authorized skips the lines it cannot parse, load_names drops all of
\* a file that is not TOML (a repeated key is not).
Loaded(f, lines) ==
    IF f = "names" /\ (Junk \in ToSet(lines) \/ ~IsInjective(lines))
    THEN {}
    ELSE ToSet(lines) \cap Device

\* The open() half of fs::write: create or truncate <file>.tmp.
OpenTmp(t) ==
    /\ ~Idle(t)
    /\ task[t].at = "open"
    /\ LET f == Current(t) IN
       disk' = [disk EXCEPT ![f].tmp = <<>>, ![f].staged = TRUE]
    /\ task' = [task EXCEPT ![t].at = "write", ![t].fd = "tmp"]
    /\ UNCHANGED <<memory, history>>

\* The write() half: it goes where the open file is by now, which another
\* task's rename may have made the store file itself, or have unlinked.
WriteTmp(t) ==
    /\ ~Idle(t)
    /\ task[t].at = "write"
    /\ LET f == Current(t) IN
       \E new \in SetToSeqs(task[t].snap[f]) :
          CASE task[t].fd = "tmp" ->
                 \E lines \in Overlaid(f, new, disk[f].tmp) : disk' = [disk EXCEPT ![f].tmp = lines]
            [] task[t].fd = "main" ->
                 \E lines \in Overlaid(f, new, disk[f].main) : disk' = [disk EXCEPT ![f].main = lines]
            [] OTHER -> UNCHANGED disk
    /\ task' = [task EXCEPT ![t].at = "rename"]
    /\ UNCHANGED <<memory, history>>

\* Task t is done with its current file, and returns after the last one.
Finished(rest) == IF rest.todo = {} THEN IdleTask ELSE rest

NextFile(t) ==
    Finished([task[t] EXCEPT !.todo = @ \ {Current(t)}, !.snap[Current(t)] = {},
                             !.at = "open", !.fd = "none"])

\* The revocation task t is about has reached the store.
Persisted(t) ==
    IF Current(t) = "nodes" THEN {task[t].revokes} \cap (Device \ authenticated) ELSE {}

\* rename(<file>.tmp, <file>): open files follow their directory entry.
Renamed(f, fd) == CASE fd = "tmp" -> "main" [] fd = "main" -> "unlinked" [] OTHER -> fd

RenameTmp(t) ==
    /\ ~Idle(t)
    /\ task[t].at = "rename"
    /\ LET f == Current(t) IN
       /\ disk[f].staged
       /\ disk' = [disk EXCEPT ![f] = [main |-> disk[f].tmp, tmp |-> <<>>, staged |-> FALSE]]
       /\ task' = [u \in Task |->
                     CASE u = t -> NextFile(t)
                       [] u # t /\ ~Idle(u) /\ Current(u) = f ->
                            [task[u] EXCEPT !.fd = Renamed(f, @)]
                       [] OTHER -> task[u]]
    /\ gone' = gone \cup Persisted(t)
    /\ UNCHANGED <<memory, issued, ever, redeemed, dirty>>

\* Any of the three calls fails (rename always, once another task renamed
\* the file away): the caller warns or returns the error, and goes on.
SaveFails(t) ==
    /\ ~Idle(t)
    /\ \/ IoMayFail
       \/ task[t].at = "rename" /\ ~disk[Current(t)].staged
    /\ task' = [task EXCEPT ![t] = NextFile(t)]
    /\ dirty' = [dirty EXCEPT ![Current(t)] = TRUE]
    /\ UNCHANGED <<memory, disk, issued, ever, redeemed, gone>>

----------------------------------------------------------------------------
(* Memory: everything between lock() and the end of the guard's scope      *)

LiveInvitations == invitations \ lapsed

\* `retain`: invitations whose deadline has passed are dropped.
Purge == invitations' = LiveInvitations /\ lapsed' = {}

\* Inner's `authorize`: the caller holds the lock and saves afterwards.
Authorize(t, d) ==
    /\ authenticated' = authenticated \cup {d}
    /\ ever' = ever \cup {d}
    /\ gone' = gone \ {d}
    /\ failed' = 0
    /\ StartSaving(t, [f \in {"nodes"} |-> authenticated \cup {d}], NoDevice)

\* authenticate returns at once when the device is authorized already; all
\* of its other outcomes purge first.
Attempts(t, d) ==
    /\ Idle(t)
    /\ d \notin authenticated

\* Variant: the deadline of the link is not looked at.
BindByLinkAtAnyTime(t, d, presented) ==
    /\ Attempts(t, d)
    /\ presented = pending.token
    /\ pending # NoPending
    /\ Purge
    /\ Authorize(t, d)
    /\ UNCHANGED <<pending, named, maxAttempts, disk, issued, redeemed>>

\* The pairing token matched: multi-use, so it stays.
BindByLink(t, d, presented) ==
    /\ Attempts(t, d)
    /\ pending.live
    /\ presented = pending.token
    /\ Purge
    /\ Authorize(t, d)
    /\ UNCHANGED <<pending, named, maxAttempts, disk, issued, redeemed>>

\* An invitation matched: it is spent.
BindByInvitation(t, d, presented) ==
    /\ Attempts(t, d)
    /\ ~(pending.live /\ presented = pending.token)
    /\ presented \in LiveInvitations
    /\ invitations' = LiveInvitations \ {presented}
    /\ lapsed' = {}
    /\ redeemed' = redeemed \cup {presented}
    /\ Authorize(t, d)
    /\ UNCHANGED <<pending, named, maxAttempts, disk, issued>>

\* No match and no link: an expired one is dropped.
RefuseNoActiveToken(t, d, presented) ==
    /\ Attempts(t, d)
    /\ ~pending.live
    /\ presented \notin LiveInvitations
    /\ Purge
    /\ pending' = NoPending
    /\ UNCHANGED <<authenticated, named, failed, maxAttempts, task, disk, history>>

\* Variant: off by one at the limit.
RefuseMismatchPastLimit(t, d, presented) ==
    /\ Attempts(t, d)
    /\ pending.live
    /\ presented # pending.token
    /\ presented \notin LiveInvitations
    /\ Purge
    /\ failed' = failed + 1
    /\ pending' = IF failed + 1 > maxAttempts THEN NoPending ELSE pending
    /\ UNCHANGED <<authenticated, named, maxAttempts, task, disk, history>>

\* No match against an open link: TokenMismatch, or Revoked at the limit.
RefuseMismatch(t, d, presented) ==
    /\ Attempts(t, d)
    /\ pending.live
    /\ presented # pending.token
    /\ presented \notin LiveInvitations
    /\ Purge
    /\ failed' = failed + 1
    /\ pending' = IF failed + 1 >= maxAttempts THEN NoPending ELSE pending
    /\ UNCHANGED <<authenticated, named, maxAttempts, task, disk, history>>

Authenticate(t, d, presented) ==
    \/ BindByLink(t, d, presented)
    \/ BindByInvitation(t, d, presented)
    \/ RefuseNoActiveToken(t, d, presented)
    \/ RefuseMismatch(t, d, presented)

\* mint_token_with: a fresh value, or the configured one once more.
Mints(v) ==
    /\ v \in (RandomToken \ issued) \cup FixedToken
    /\ issued' = issued \cup ({v} \cap RandomToken)
    /\ pending' = [token |-> v, live |-> TRUE]
    /\ failed' = 0

MintToken(v) ==
    /\ Mints(v)
    /\ UNCHANGED <<authenticated, named, invitations, lapsed, maxAttempts, task, disk,
                   ever, redeemed, gone, dirty>>

\* Lapsed invitations are purged even when the answer is "too many".
MintInvitation(v) ==
    /\ v \in RandomToken \ issued
    /\ lapsed' = {}
    /\ IF Cardinality(LiveInvitations) >= MaxPending
       THEN invitations' = LiveInvitations /\ UNCHANGED issued
       ELSE invitations' = LiveInvitations \cup {v} /\ issued' = issued \cup {v}
    /\ UNCHANGED <<pending, authenticated, named, failed, maxAttempts, task, disk,
                   ever, redeemed, gone, dirty>>

\* Variant: the copy to save is taken before the device is removed.
RevokeCopiesFirst(t, d) ==
    /\ Idle(t)
    /\ d \in authenticated
    /\ authenticated' = authenticated \ {d}
    /\ named' = named \ {d}
    /\ StartSaving(t, [f \in File |-> IF f = "nodes" THEN authenticated ELSE named], d)
    /\ UNCHANGED <<pending, invitations, lapsed, failed, maxAttempts, disk,
                   issued, ever, redeemed, gone>>

Revoke(t, d) ==
    /\ Idle(t)
    /\ d \in authenticated
    /\ authenticated' = authenticated \ {d}
    /\ named' = named \ {d}
    /\ StartSaving(t, [f \in File |-> IF f = "nodes" THEN authenticated \ {d} ELSE named \ {d}], d)
    /\ UNCHANGED <<pending, invitations, lapsed, failed, maxAttempts, disk,
                   issued, ever, redeemed, gone>>

\* Variant: the copy to save is taken before the name is set.
SetDeviceNameCopiesFirst(t, d, clears) ==
    /\ Idle(t)
    /\ d \in authenticated
    /\ named' = IF clears THEN named \ {d} ELSE named \cup {d}
    /\ StartSaving(t, [f \in {"names"} |-> named], NoDevice)
    /\ UNCHANGED <<pending, authenticated, invitations, lapsed, failed, maxAttempts, disk,
                   issued, ever, redeemed, gone>>

\* A name that is empty after trimming clears the device's name.
SetDeviceName(t, d, clears) ==
    /\ Idle(t)
    /\ d \in authenticated
    /\ named' = IF clears THEN named \ {d} ELSE named \cup {d}
    /\ StartSaving(t, [f \in {"names"} |-> named'], NoDevice)
    /\ UNCHANGED <<pending, authenticated, invitations, lapsed, failed, maxAttempts, disk,
                   issued, ever, redeemed, gone>>

SetMaxAttempts(n) ==
    /\ maxAttempts' = n
    /\ UNCHANGED <<pending, authenticated, named, invitations, lapsed, failed, task, disk, history>>

\* Instant::now() passes a deadline.
LinkExpires ==
    /\ pending.live
    /\ pending' = [pending EXCEPT !.live = FALSE]
    /\ UNCHANGED <<authenticated, named, invitations, lapsed, failed, maxAttempts, task, disk, history>>

InvitationExpires(v) ==
    /\ v \in LiveInvitations
    /\ lapsed' = lapsed \cup {v}
    /\ UNCHANGED <<pending, authenticated, named, invitations, failed, maxAttempts, task, disk, history>>

----------------------------------------------------------------------------
(* The process                                                             *)

\* Variant: the names of devices that are not authorized are kept.
LoadsAllNames ==
    /\ authenticated' = Loaded("nodes", disk["nodes"].main)
    /\ named' = Loaded("names", disk["names"].main)
    /\ invitations' = {}
    /\ lapsed' = {}
    /\ maxAttempts' \in Limit

\* load_at: names are kept for authorized devices only.
Loads ==
    /\ authenticated' = Loaded("nodes", disk["nodes"].main)
    /\ named' = Loaded("names", disk["names"].main) \cap authenticated'
    /\ invitations' = {}
    /\ lapsed' = {}
    /\ maxAttempts' \in Limit

\* The daemon is stopped at any point, and started again: load, then mint.
\* A reload that had to drop a name leaves a names file unlike memory.
Restart(v) ==
    /\ Loads
    /\ Mints(v)
    /\ task' = [t \in Task |-> IdleTask]
    /\ dirty' = [f \in File |-> f = "names" /\ named' # Loaded("names", disk["names"].main)]
    /\ UNCHANGED <<disk, ever, redeemed, gone>>

\* A first start: an empty data directory, and a token minted.
Init ==
    /\ \E v \in Token :
          /\ pending = [token |-> v, live |-> TRUE]
          /\ issued = {v} \cap RandomToken
    /\ authenticated = {}
    /\ named = {}
    /\ invitations = {}
    /\ lapsed = {}
    /\ failed = 0
    /\ maxAttempts \in Limit
    /\ task = [t \in Task |-> IdleTask]
    /\ disk = [f \in File |-> [main |-> <<>>, tmp |-> <<>>, staged |-> FALSE]]
    /\ ever = {}
    /\ redeemed = {}
    /\ gone = {}
    /\ dirty = [f \in File |-> FALSE]

Next ==
    \/ \E t \in Task : OpenTmp(t) \/ WriteTmp(t) \/ RenameTmp(t) \/ SaveFails(t)
    \/ \E t \in Task, d \in Device :
          \/ \E presented \in Presented : Authenticate(t, d, presented)
          \/ Revoke(t, d)
          \/ \E clears \in BOOLEAN : SetDeviceName(t, d, clears)
    \/ \E v \in Token : MintToken(v) \/ Restart(v)
    \/ \E v \in RandomToken : MintInvitation(v) \/ InvitationExpires(v)
    \/ \E n \in Limit : SetMaxAttempts(n)
    \/ LinkExpires

Spec == Init /\ [][Next]_vars

----------------------------------------------------------------------------
(* Properties                                                              *)

Line == Device \cup {Junk}

TaskState ==
    [todo : SUBSET File, snap : [File -> SUBSET Device], at : {"open", "write", "rename"},
     fd : {"none", "tmp", "main", "unlinked"}, revokes : Device \cup {NoDevice}]

TypeOK ==
    /\ pending \in Pending \cup {NoPending}
    /\ authenticated \subseteq Device
    /\ named \subseteq Device
    /\ invitations \subseteq RandomToken
    /\ lapsed \subseteq invitations
    /\ failed \in Nat
    /\ maxAttempts \in Limit
    /\ task \in [Task -> TaskState]
    /\ disk \in [File -> [main : Seq(Line), tmp : Seq(Line), staged : BOOLEAN]]
    /\ issued \subseteq RandomToken
    /\ ever \subseteq Device
    /\ redeemed \subseteq RandomToken
    /\ gone \subseteq Device
    /\ dirty \in [File -> BOOLEAN]

\* A wrong guess that leaves the link open was below the limit in force at
\* that moment, also after max_attempts was lowered under a running count;
\* and a link that was closed is opened again by a mint only, which starts
\* a new count (authenticate, mint_token_with, set_max_attempts).
LinkClosesAtLimit ==
    [][ /\ failed' > failed => pending' = NoPending \/ failed' < maxAttempts
        /\ ~pending.live /\ pending'.live => failed' = 0 ]_vars

\* A redeemed invitation is never outstanding again, whatever expires, is
\* purged, minted or restarted in between (authenticate step 2).
InvitationSpentOnce == redeemed \cap invitations = {}

\* Whatever interleaving of truncations, writes, renames, failures and
\* crashes produced them, the store files and their temporary files name
\* no device that was not authorized at some time (save_authorized,
\* save_names, load_at).
DiskOnlyPaired ==
    \A f \in File : (ToSet(disk[f].main) \cup ToSet(disk[f].tmp)) \subseteq ever \cup {Junk}

InMemory(f) == IF f = "nodes" THEN authenticated ELSE named

\* Once nobody is saving a file, it holds what memory holds, unless its
\* last save overlapped another one, failed, or was cut short by a crash
\* between the two files of a revocation (revoke, set_device_name).
StoreMatchesMemory ==
    \A f \in File :
       ~dirty[f] /\ (\A t \in Task : f \notin task[t].todo)
       => Loaded(f, disk[f].main) = InMemory(f)

\* Display names are kept for authorized devices only, across revocations,
\* renames and reloads of two files saved one after the other (revoke,
\* set_device_name, load_at).
NamedAreAuthorized == named \subseteq authenticated

\* What restarts load is sound, whatever interleaving of two saves, a failure
\* or a crash left the files as they are: nobody in them who did not pair,
\* and in memory no name without its device.
StoreIsSound == DiskOnlyPaired /\ NamedAreAuthorized

\* A device whose revocation was saved without an error, and which did not
\* pair again, is refused, also by a daemon started afterwards (revoke;
\* docs/testing.md C3).
RevocationDurable == gone \cap authenticated = {}

Trust == INSTANCE DeviceTrust WITH
    trusted <- authenticated,
    link <- IF pending.live THEN pending.token ELSE NoToken,
    invites <- LiveInvitations,
    used <- issued \cup FixedToken

\* auth.rs keeps the promise of pairing: see DeviceTrust.
ImplementsTrust == Trust!Spec
=============================================================================
