----------------------------- MODULE ConfigFile -----------------------------
(***************************************************************************)
(* src/config.rs with the commands of src/bin/raemote.rs that edit         *)
(* config.toml and the Reload request of src/daemon.rs: commands read the  *)
(* file, change it in memory, and save all of it, with no lock between     *)
(* them, and then ask the daemon to read it again.  `raemote config edit`  *)
(* is an editor that does the same more slowly, and tells nobody.          *)
(*                                                                         *)
(* What a configuration says is the set of the commands whose edits are in *)
(* it, whether it passes validate, and where one setting comes from that a *)
(* RAEMOTE_ variable may override; a torn file does not parse.  A save is  *)
(* fs::write of a temporary file (open and truncate, then write) and a     *)
(* rename, and all commands use the same temporary name.                   *)
(***************************************************************************)
EXTENDS Naturals, FiniteSets

CONSTANTS
    Command,        \* `raemote config set`, `apps add`, `apps hide`...: one edit each
    Reload,         \* `raemote reload`, at the same time
    ShellSets,      \* whether the commands' environment sets the variable
    ServiceSets,    \* whether the daemon's does
    MaxHandEdits,   \* bound on how often an editor is opened
    MaxStarts       \* bound on the daemon's starts

ASSUME RequesterAssumption == Command \cap Reload = {}
ASSUME EnvironmentAssumption == ShellSets \in BOOLEAN /\ ServiceSets \in BOOLEAN
ASSUME BoundAssumption == MaxHandEdits \in Nat /\ MaxStarts \in Nat

VARIABLES
    disk,       \* config.toml, and its temporary file if there is one
    command,    \* each command: where it is, what it will save
    editor,     \* the editor of `raemote config edit`, and what it has in its buffer
    request,    \* each Reload request: the handler's copy of the file
    up,         \* whether the daemon runs
    memory,     \* its configuration
    overlapped, \* history: whether a command's work overlapped another's, or an editor
    behind,     \* history: why memory need not be what the file says
    handEdits,  \* history: how often an editor was opened so far
    starts      \* history: starts so far

history == <<overlapped, behind, handEdits, starts>>
vars == <<disk, command, editor, request, up, memory, history>>

Requester == Command \cup Reload

Whole == [edits : SUBSET Command, valid : BOOLEAN, torn : {FALSE},
          setting : {"file", "shell", "service"}]
Torn == [edits |-> {}, valid |-> FALSE, torn |-> TRUE, setting |-> "file"]
Default == [edits |-> {}, valid |-> TRUE, torn |-> FALSE, setting |-> "file"]
Empty == Default    \* every table has a default: an empty file parses

\* validate; a file that does not parse does not get that far.
Validates(config) == config.valid

\* load: the environment overrides a file, but not the default of no file.
\* (A value that validate refuses is not among those it sets here.)
Loaded(whose, sets) ==
    IF disk.exists /\ sets THEN [disk.main EXCEPT !.setting = whose] ELSE disk.main

ByCommand == Loaded("shell", ShellSets)
ByDaemon == Loaded("service", ServiceSets)

NewCommand == [at |-> "idle", copy |-> Default, fd |-> "none"]
NoRequest == [at |-> "none", copy |-> Default]
NoEditor == [at |-> "closed", copy |-> Default]

Working(c) == command[c].at \in {"open", "write", "rename", "ask", "wait"}
Reloading(q) == request[q].at # "none"
Quiet == (\A c \in Command : ~Working(c)) /\ (\A q \in Requester : ~Reloading(q))

----------------------------------------------------------------------------
(* A command: load, edit, validate, save                                   *)

\* A command's read-modify-write begins while another's is not over, or while
\* an editor is open.
Overlaps == overlapped' = (overlapped \/ editor.at = "open" \/ \E c \in Command : Working(c))

\* c's edit of what it read, of which validate says valid.
Edited(c, read, valid) ==
    /\ command[c].at = "idle"
    /\ ~read.torn
    /\ command' = [command EXCEPT ![c].at = "open",
                                  ![c].copy = [read EXCEPT !.edits = @ \cup {c}, !.valid = valid]]
    /\ Overlaps
    /\ UNCHANGED <<disk, request, editor, up, memory, behind, handEdits, starts>>

\* Variant: a command starts from what the daemon has, if it runs.
EditRunning(c) == Edited(c, IF up THEN memory ELSE ByCommand, TRUE)

\* `config set` and `apps add` validate what they save, whatever they read.
EditChecked(c) == Edited(c, ByCommand, TRUE)

\* `apps remove`, `hide` and `unhide` do not, but none of them makes a valid
\* file invalid; removing a duplicate does the reverse.
EditUnchecked(c) ==
    \E valid \in BOOLEAN : (Validates(ByCommand) => valid) /\ Edited(c, ByCommand, valid)

\* A command ends without saving: the file does not parse, what it names does
\* not exist or is there already, or its edit does not validate.
Refuse(c) ==
    /\ command[c].at = "idle"
    /\ command' = [command EXCEPT ![c].at = "failed"]
    /\ UNCHANGED <<disk, request, editor, up, memory, history>>

OpenTmp(c) ==
    /\ command[c].at = "open"
    /\ disk' = [disk EXCEPT !.tmp = Empty, !.staged = TRUE]
    /\ command' = [command EXCEPT ![c].at = "write", ![c].fd = "tmp"]
    /\ UNCHANGED <<request, editor, up, memory, history>>

\* What is left of a file that another command has written to: the new
\* content if it is the longer one; else the old end behind it, which
\* happens to be some [[apps]] entries, or tears the file.
Overlaid(new, old) ==
    IF old \in {Empty, new}
    THEN {new}
    ELSE {new, Torn, [new EXCEPT !.edits = @ \cup old.edits]}

WriteTmp(c) ==
    /\ command[c].at = "write"
    /\ \/ /\ command[c].fd = "tmp"
          /\ \E left \in Overlaid(command[c].copy, disk.tmp) : disk' = [disk EXCEPT !.tmp = left]
       \/ /\ command[c].fd = "main"
          /\ \E left \in Overlaid(command[c].copy, disk.main) : disk' = [disk EXCEPT !.main = left]
       \/ /\ command[c].fd = "unlinked"
          /\ UNCHANGED disk
    /\ command' = [command EXCEPT ![c].at = "rename"]
    /\ UNCHANGED <<request, editor, up, memory, history>>

\* Open files follow their directory entry; a rename whose source another
\* command renamed away is an error.
RenameTmp(c) ==
    /\ command[c].at = "rename"
    /\ IF disk.staged
       THEN /\ disk' = [main |-> disk.tmp, tmp |-> Empty, staged |-> FALSE, exists |-> TRUE]
            /\ command' = [d \in Command |->
                 CASE d = c -> [command[c] EXCEPT !.at = "ask", !.fd = "none"]
                   [] d # c /\ command[d].fd = "tmp" -> [command[d] EXCEPT !.fd = "main"]
                   [] d # c /\ command[d].fd = "main" -> [command[d] EXCEPT !.fd = "unlinked"]
                   [] OTHER -> command[d]]
       ELSE /\ command' = [command EXCEPT ![c].at = "failed", ![c].fd = "none"]
            /\ UNCHANGED disk
    /\ UNCHANGED <<request, editor, up, memory, history>>

----------------------------------------------------------------------------
(* Reload                                                                  *)

Asks(q) == request' = [request EXCEPT ![q].at = "read"]

\* Variant: the daemon is not told of the edit.
AskNobody(c) ==
    /\ command[c].at = "ask"
    /\ command' = [command EXCEPT ![c].at = "done"]
    /\ UNCHANGED <<disk, request, editor, up, memory, history>>

\* daemon_running, then Request::Reload; without a daemon all is done.
AskReload(c) ==
    /\ command[c].at = "ask"
    /\ IF up
       THEN Asks(c) /\ command' = [command EXCEPT ![c].at = "wait"]
       ELSE UNCHANGED request /\ command' = [command EXCEPT ![c].at = "done"]
    /\ UNCHANGED <<disk, editor, up, memory, history>>

\* cmd_reload checks the file itself before it asks.
AskBareReload(q) ==
    /\ up
    /\ ~Reloading(q)
    /\ Validates(ByCommand)
    /\ Asks(q)
    /\ UNCHANGED <<disk, command, editor, up, memory, history>>

\* A request is over, whatever the answer: the command says it is done.
Answered(q) ==
    /\ request' = [request EXCEPT ![q] = NoRequest]
    /\ command' = IF q \in Command THEN [command EXCEPT ![q].at = "done"] ELSE command

\* Variant: a file that does not parse is applied as far as it got.
ReadTorn(q) ==
    /\ request[q].at = "read"
    /\ request' = [request EXCEPT ![q] = [at |-> "apply", copy |-> ByDaemon]]
    /\ behind' = (behind \/ ~Validates(ByDaemon))
    /\ UNCHANGED <<disk, command, editor, up, memory, overlapped, handEdits, starts>>

\* config::reload and validate; an error leaves the configuration alone.
ReadFile(q) ==
    /\ request[q].at = "read"
    /\ IF Validates(ByDaemon)
       THEN /\ request' = [request EXCEPT ![q] = [at |-> "apply", copy |-> ByDaemon]]
            /\ UNCHANGED command
       ELSE Answered(q)
    /\ behind' = (behind \/ ~Validates(ByDaemon))
    /\ UNCHANGED <<disk, editor, up, memory, overlapped, handEdits, starts>>

\* The write guard; a request that overlapped nothing leaves memory and file
\* alike.
Apply(q) ==
    /\ request[q].at = "apply"
    /\ memory' = request[q].copy
    /\ behind' = \/ \E r \in Requester \ {q} : Reloading(r)
                 \/ \E c \in Command \ {q} : Working(c)
                 \/ request[q].copy # ByDaemon
    /\ Answered(q)
    /\ UNCHANGED <<disk, editor, up, overlapped, handEdits, starts>>

----------------------------------------------------------------------------
(* The file in an editor, and the daemon's life                            *)

\* cmd_config_edit: a file that is not there is written with the defaults;
\* the editor reads it.
OpenEditor ==
    /\ editor.at = "closed"
    /\ handEdits < MaxHandEdits
    /\ handEdits' = handEdits + 1
    /\ ~disk.main.torn
    /\ disk' = [disk EXCEPT !.exists = TRUE]
    /\ editor' = [at |-> "open", copy |-> disk.main]
    /\ overlapped' = (overlapped \/ \E c \in Command : Working(c))
    /\ behind' = (behind \/ ~disk.exists)
    /\ UNCHANGED <<command, request, up, memory, starts>>

\* What was read, with settings that no command edits changed.
Buffer(valid) == [editor.copy EXCEPT !.valid = valid]

\* Its buffer becomes the file, whatever the file says by now, or is dropped.
CloseEditor ==
    /\ editor.at = "open"
    /\ editor' = NoEditor
    /\ \/ /\ \E valid \in BOOLEAN : disk' = [disk EXCEPT !.main = Buffer(valid)]
          /\ behind' = TRUE
       \/ UNCHANGED <<disk, behind>>
    /\ UNCHANGED <<command, request, up, memory, overlapped, handEdits, starts>>

\* run(): load and validate, or fail to start.
Start ==
    /\ ~up
    /\ starts < MaxStarts
    /\ starts' = starts + 1
    /\ IF Validates(ByDaemon)
       THEN up' = TRUE /\ memory' = ByDaemon /\ behind' = ~Quiet
       ELSE UNCHANGED <<up, memory, behind>>
    /\ UNCHANGED <<disk, command, editor, request, overlapped, handEdits>>

\* Requests in progress end with the daemon; commands take that for done.
Stop ==
    /\ up
    /\ up' = FALSE
    /\ request' = [q \in Requester |-> NoRequest]
    /\ command' = [c \in Command |->
                     IF command[c].at = "wait" THEN [command[c] EXCEPT !.at = "done"] ELSE command[c]]
    /\ UNCHANGED <<disk, editor, memory, history>>

----------------------------------------------------------------------------
\* A file written by `raemote config init`, or none (load says Default).
Init ==
    /\ \E exists \in BOOLEAN :
          disk = [main |-> Default, tmp |-> Empty, staged |-> FALSE, exists |-> exists]
    /\ command = [c \in Command |-> NewCommand]
    /\ editor = NoEditor
    /\ request = [q \in Requester |-> NoRequest]
    /\ up = TRUE
    /\ memory = ByDaemon
    /\ overlapped = FALSE
    /\ behind = FALSE
    /\ handEdits = 0
    /\ starts = 0

Next ==
    \/ \E c \in Command :
          \/ EditChecked(c) \/ EditUnchecked(c) \/ Refuse(c)
          \/ OpenTmp(c) \/ WriteTmp(c) \/ RenameTmp(c) \/ AskReload(c)
    \/ \E q \in Reload : AskBareReload(q)
    \/ \E q \in Requester : ReadFile(q) \/ Apply(q)
    \/ OpenEditor \/ CloseEditor
    \/ Start \/ Stop

Spec == Init /\ [][Next]_vars

----------------------------------------------------------------------------
(* Properties                                                              *)

CommandState ==
    [at : {"idle", "open", "write", "rename", "ask", "wait", "done", "failed"},
     copy : Whole, fd : {"none", "tmp", "main", "unlinked"}]

\* Types: memory and what is saved is always a configuration that parsed.
TypeOK ==
    /\ disk \in [main : Whole \cup {Torn}, tmp : Whole \cup {Torn}, staged : BOOLEAN,
               exists : BOOLEAN]
    /\ command \in [Command -> CommandState]
    /\ editor \in [at : {"closed", "open"}, copy : Whole]
    /\ request \in [Requester -> [at : {"none", "read", "apply"}, copy : Whole]]
    /\ up \in BOOLEAN
    /\ memory \in Whole
    /\ overlapped \in BOOLEAN
    /\ behind \in BOOLEAN
    /\ handEdits \in 0 .. MaxHandEdits
    /\ starts \in 0 .. MaxStarts

\* Whatever commands do to the file, together or with an editor, the daemon
\* never works with a configuration that does not validate (Reload, run).
MemoryIsValid == Validates(memory)

\* When nothing is in progress, what the daemon works with is what the file
\* and its environment say, also if there was no file when it started, unless
\* an editor saved the file (or made it, of the defaults), a reload was
\* refused, or the last reload overlapped other work.
ReloadedIsSaved == Quiet /\ up /\ ~behind => memory = ByDaemon

\* The daemon follows the file as far as it may: it has what was saved once
\* nothing is in progress, and never what does not validate.
MemoryFollowsFile == MemoryIsValid /\ ReloadedIsSaved

\* As long as no command overlaps another or an open editor, the edit of a
\* command that said it is done stays in the file: neither the commands after
\* it nor a buffer that an editor saves, reloads and restarts among them undo
\* it.
EditsAreKept ==
    \A c \in Command :
       command[c].at = "done" /\ ~overlapped => c \in disk.main.edits

\* src/config.rs: "environment variables taking precedence".  They do not over
\* the default of a file that is not there.
EnvironmentWins == up /\ ServiceSets => memory.setting = "service"

\* A command saves what it was asked to change.  It also saves what its own
\* environment overrides, which then overrides nothing any more.
OverridesStayOut == disk.main.setting = "file"

\* src/config.rs: save works "atomically (temp file + rename)".
SavesAreAtomic == ~disk.main.torn

\* A daemon that answered a Reload works with a file at least as new.
\* (But for an old buffer that an editor saves, a newer file has more edits.)
ReloadsAreOrdered ==
    [][up /\ up' => memory.edits \subseteq memory'.edits]_vars
=============================================================================
