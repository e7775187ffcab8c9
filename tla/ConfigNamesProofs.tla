------------------------ MODULE ConfigNamesProofs ------------------------
(* Theorems about ConfigFile, for any number of commands and reloads, and  *)
(* about CatalogNames, for any sockets, filters, titles, programs and      *)
(* lists of manual apps.                                                   *)
EXTENDS ConfigFile, CatalogNames, FiniteSetTheorems, WellFoundedInduction, TLAPS

DiskState == [main : Whole \cup {Torn}, tmp : Whole \cup {Torn}, staged : BOOLEAN,
              exists : BOOLEAN]
RequestState == [at : {"none", "read", "apply"}, copy : Whole]
EditorState == [at : {"closed", "open"}, copy : Whole]

LEMMA DefaultTyped == Default \in Whole /\ Empty \in Whole /\ Validates(Default)
    BY DEF Default, Empty, Whole, Validates

LEMMA NoRequestTyped == NoRequest \in RequestState /\ NoRequest.at = "none"
    BY DefaultTyped DEF NoRequest, RequestState

LEMMA NoEditorTyped == NoEditor \in EditorState /\ NoEditor.at = "closed"
    BY DefaultTyped DEF NoEditor, EditorState

LEMMA NewCommandTyped ==
    NewCommand \in CommandState /\ NewCommand.at = "idle" /\ NewCommand.fd = "none"
    BY DefaultTyped DEF NewCommand, CommandState

LEMMA ValidIsWhole ==
    ASSUME NEW config \in Whole \cup {Torn}, Validates(config)
    PROVE  config \in Whole
    BY DEF Validates, Torn

LEMMA OverlaidTyped ==
    ASSUME NEW new \in Whole, NEW old \in Whole \cup {Torn}
    PROVE  Overlaid(new, old) \subseteq Whole \cup {Torn}
<1>1. old.edits \subseteq Command
  <2>1. CASE old \in Whole
      BY <2>1 DEF Whole
  <2>2. CASE old = Torn
      BY <2>2 DEF Torn
  <2> QED BY <2>1, <2>2
<1> DEFINE edits == new.edits \cup old.edits
<1>2. edits \in SUBSET Command
    BY <1>1 DEF Whole
<1> HIDE DEF edits
<1>3. [new EXCEPT !.edits = edits] \in Whole
    BY <1>2 DEF Whole
<1>4. Overlaid(new, old) \subseteq {new, Torn, [new EXCEPT !.edits = edits]}
    BY DEF Overlaid, edits
<1> QED BY <1>3, <1>4

Places == {"open", "write", "rename", "ask", "wait", "done", "failed"}
Files == {"none", "tmp", "main", "unlinked"}

\* A command's place and its open file change.
LEMMA RecordChanges ==
    ASSUME NEW r \in CommandState, NEW place \in Places, NEW fd \in Files
    PROVE  /\ [r EXCEPT !.at = place] \in CommandState
           /\ [r EXCEPT !.fd = fd] \in CommandState
           /\ [r EXCEPT !.at = place, !.fd = fd] \in CommandState
<1>1. [r EXCEPT !.at = place] \in CommandState
    BY DEF CommandState, Places
<1>2. [r EXCEPT !.fd = fd] \in CommandState
    BY DEF CommandState, Files
<1>3. [r EXCEPT !.at = place, !.fd = fd] \in CommandState
    BY DEF CommandState, Places, Files
<1> QED BY <1>1, <1>2, <1>3

LEMMA CommandMoves ==
    ASSUME TypeOK, NEW c \in Command, NEW place \in Places, NEW fd \in Files
    PROVE  /\ command[c] \in CommandState
           /\ [command EXCEPT ![c].at = place] \in [Command -> CommandState]
           /\ [command EXCEPT ![c].at = place, ![c].fd = fd] \in [Command -> CommandState]
<1>1. command[c] \in CommandState
    BY DEF TypeOK
<1>2. /\ [command[c] EXCEPT !.at = place] \in CommandState
      /\ [command[c] EXCEPT !.at = place, !.fd = fd] \in CommandState
    BY <1>1, RecordChanges
<1> QED BY <1>1, <1>2 DEF TypeOK

\* What the environment overrides is neither an edit nor what is torn.
LEMMA LoadedKeeps ==
    ASSUME TypeOK, NEW whose \in {"shell", "service"}, NEW sets
    PROVE  /\ Loaded(whose, sets).edits = disk.main.edits
           /\ Loaded(whose, sets).valid = disk.main.valid
           /\ Loaded(whose, sets).torn = disk.main.torn
           /\ disk.main \in Whole => Loaded(whose, sets) \in Whole
<1> DEFINE main == disk.main
<1>1. main \in Whole \/ main = Torn
    BY DEF TypeOK
<1>2. CASE main \in Whole
    BY <1>2 DEF Loaded, Whole
<1>3. CASE main = Torn
    BY <1>3 DEF Loaded, Torn, Whole
<1> QED BY <1>1, <1>2, <1>3

LEMMA ByCommandKeeps ==
    ASSUME TypeOK
    PROVE  /\ ByCommand.edits = disk.main.edits /\ ByCommand.torn = disk.main.torn
           /\ disk.main \in Whole => ByCommand \in Whole
    BY LoadedKeeps DEF ByCommand

LEMMA ByDaemonTyped ==
    ASSUME TypeOK, Validates(ByDaemon)
    PROVE  ByDaemon \in Whole
<1>1. ByDaemon.valid = disk.main.valid /\ (disk.main \in Whole => ByDaemon \in Whole)
    BY LoadedKeeps DEF ByDaemon
<1>2. Validates(disk.main)
    BY <1>1 DEF Validates
<1> QED BY <1>1, <1>2, ValidIsWhole DEF TypeOK

\* What a command loads has parsed.
LEMMA ReadIsWhole ==
    ASSUME TypeOK, NEW c \in Command, NEW valid, Edited(c, ByCommand, valid)
    PROVE  ByCommand \in Whole
<1>1. ~disk.main.torn
    BY ByCommandKeeps DEF Edited
<1> QED BY <1>1, ByCommandKeeps DEF TypeOK, Torn

----------------------------------------------------------------------------
(* Types                                                                   *)

LEMMA InitTyped == Init => TypeOK
<1> SUFFICES ASSUME Init PROVE TypeOK
    OBVIOUS
<1>1. disk \in DiskState
  <2>1. PICK exists \in BOOLEAN :
           disk = [main |-> Default, tmp |-> Empty, staged |-> FALSE, exists |-> exists]
      BY DEF Init
  <2> QED BY <2>1, DefaultTyped DEF DiskState
<1>2. command \in [Command -> CommandState] /\ request \in [Requester -> RequestState]
    BY NewCommandTyped, NoRequestTyped DEF Init
<1>3. up \in BOOLEAN /\ behind \in BOOLEAN /\ overlapped \in BOOLEAN /\ memory \in Whole
  <2>1. disk.main = Default
      BY DEF Init
  <2>2. ByDaemon \in Whole
      BY <2>1, DefaultTyped DEF ByDaemon, Loaded, Whole
  <2> QED BY <2>2 DEF Init
<1>4. handEdits \in 0 .. MaxHandEdits /\ starts \in 0 .. MaxStarts
    BY BoundAssumption DEF Init
<1>5. editor \in EditorState
    BY NoEditorTyped DEF Init
<1> QED BY <1>1, <1>2, <1>3, <1>4, <1>5 DEF EditorState, TypeOK, DiskState, RequestState

LEMMA AnsweredTyped ==
    ASSUME TypeOK, NEW q \in Requester, Answered(q)
    PROVE  command' \in [Command -> CommandState] /\ request' \in [Requester -> RequestState]
<1>1. request' \in [Requester -> RequestState]
    BY NoRequestTyped DEF Answered, TypeOK, RequestState
<1>2. CASE q \in Command
    BY <1>1, <1>2, CommandMoves DEF Answered, Places, Files
<1>3. CASE q \notin Command
    BY <1>1, <1>3 DEF Answered, TypeOK
<1> QED BY <1>2, <1>3

LEMMA EditIsEdited ==
    ASSUME NEW c \in Command, EditChecked(c) \/ EditUnchecked(c)
    PROVE  \E valid \in BOOLEAN : Edited(c, ByCommand, valid)
    BY DEF EditChecked, EditUnchecked

\* How a command begins, whether it saves or not.
LEMMA Begins ==
    ASSUME TypeOK, NEW c \in Command, EditChecked(c) \/ EditUnchecked(c) \/ Refuse(c)
    PROVE  /\ UNCHANGED <<disk, request, editor, up, memory, behind>>
           /\ command[c].at = "idle"
           /\ command'[c].fd = command[c].fd
           /\ \A d \in Command \ {c} : command'[d] = command[d]
<1>0. command[c] \in CommandState
    BY DEF TypeOK
<1>1. CASE Refuse(c)
    BY <1>0, <1>1 DEF Refuse, TypeOK, CommandState, history
<1>2. CASE EditChecked(c) \/ EditUnchecked(c)
  <2>1. PICK valid \in BOOLEAN : Edited(c, ByCommand, valid)
      BY <1>2, EditIsEdited
  <2> DEFINE copy == [ByCommand EXCEPT !.edits = @ \cup {c}, !.valid = valid]
  <2>2. command' = [command EXCEPT ![c] = [@ EXCEPT !.at = "open", !.copy = copy]]
      BY <2>1 DEF Edited
  <2> HIDE DEF copy
  <2>3. command'[c] = [command[c] EXCEPT !.at = "open", !.copy = copy]
      BY <2>2 DEF TypeOK
  <2>4. command'[c].fd = command[c].fd
      BY <1>0, <2>3 DEF CommandState
  <2> QED BY <2>1, <2>2, <2>4 DEF Edited, TypeOK
<1> QED BY <1>1, <1>2

LEMMA StepTyped == TypeOK /\ [Next]_vars => TypeOK'
<1> SUFFICES ASSUME TypeOK, [Next]_vars PROVE TypeOK'
    OBVIOUS
<1> USE DEF DiskState, RequestState, EditorState
<1>0. CASE UNCHANGED vars
    BY <1>0 DEF TypeOK, vars, history
<1>1. ASSUME NEW c \in Command, NEW valid \in BOOLEAN, Edited(c, ByCommand, valid) PROVE TypeOK'
  <2> DEFINE copy == [ByCommand EXCEPT !.edits = @ \cup {c}, !.valid = valid]
  <2>1. ByCommand \in Whole
      BY <1>1, ReadIsWhole
  <2>2. copy \in Whole
      BY <2>1 DEF Whole
  <2> HIDE DEF copy
  <2>3. command' = [command EXCEPT ![c] = [@ EXCEPT !.at = "open", !.copy = copy]]
      BY <1>1 DEF Edited, copy
  <2>4. command' \in [Command -> CommandState]
    <3>1. command[c] \in CommandState
        BY DEF TypeOK
    <3>2. [command[c] EXCEPT !.at = "open", !.copy = copy] \in CommandState
        BY <2>2, <3>1 DEF CommandState
    <3> QED BY <2>3, <3>2 DEF TypeOK
  <2>5. overlapped' \in BOOLEAN
      BY <1>1 DEF TypeOK, Edited, Overlaps
  <2> QED BY <1>1, <2>4, <2>5 DEF TypeOK, Edited
<1>12. ASSUME NEW c \in Command, EditChecked(c) \/ EditUnchecked(c) PROVE TypeOK'
    BY <1>1, <1>12, EditIsEdited
<1>13. ASSUME NEW c \in Command, Refuse(c) PROVE TypeOK'
  <2>1. command' \in [Command -> CommandState]
      BY <1>13, CommandMoves DEF Refuse, Places, Files
  <2> QED BY <1>13, <2>1 DEF TypeOK, Refuse, history
<1>2. ASSUME NEW c \in Command, OpenTmp(c) PROVE TypeOK'
  <2>1. command' \in [Command -> CommandState]
      BY <1>2, CommandMoves DEF OpenTmp, Places, Files
  <2>2. disk' \in DiskState
      BY <1>2, DefaultTyped DEF TypeOK, OpenTmp
  <2> QED BY <1>2, <2>1, <2>2 DEF TypeOK, OpenTmp, history
<1>3. ASSUME NEW c \in Command, WriteTmp(c) PROVE TypeOK'
  <2>1. command' \in [Command -> CommandState]
      BY <1>3, CommandMoves DEF WriteTmp, Places, Files
  <2>2. command[c].copy \in Whole
      BY DEF TypeOK, CommandState
  <2>3. disk' \in DiskState
      BY <1>3, <2>2, OverlaidTyped DEF TypeOK, WriteTmp
  <2> QED BY <1>3, <2>1, <2>3 DEF TypeOK, WriteTmp, history
<1>4. ASSUME NEW c \in Command, RenameTmp(c) PROVE TypeOK'
  <2>1. command' \in [Command -> CommandState]
    <3>1. \A d \in Command :
             /\ [command[d] EXCEPT !.at = "ask", !.fd = "none"] \in CommandState
             /\ [command[d] EXCEPT !.at = "failed", !.fd = "none"] \in CommandState
             /\ [command[d] EXCEPT !.fd = "main"] \in CommandState
             /\ [command[d] EXCEPT !.fd = "unlinked"] \in CommandState
             /\ command[d] \in CommandState
      <4> TAKE d \in Command
      <4>1. command[d] \in CommandState
          BY DEF TypeOK
      <4> QED BY <4>1, RecordChanges DEF Places, Files
    <3>2. CASE disk.staged
        BY <1>4, <3>1, <3>2 DEF RenameTmp
    <3>3. CASE ~disk.staged
      <4>1. command' = [command EXCEPT ![c].at = "failed", ![c].fd = "none"]
          BY <1>4, <3>3 DEF RenameTmp
      <4> QED BY <4>1, CommandMoves DEF Places, Files
    <3> QED BY <3>2, <3>3
  <2>2. disk' \in DiskState
    <3>1. CASE disk.staged
      <4>1. disk' = [main |-> disk.tmp, tmp |-> Empty, staged |-> FALSE, exists |-> TRUE]
          BY <1>4, <3>1 DEF RenameTmp
      <4> QED BY <4>1, DefaultTyped DEF TypeOK
    <3>2. CASE ~disk.staged
        BY <1>4, <3>2 DEF TypeOK, RenameTmp
    <3> QED BY <3>1, <3>2
  <2> QED BY <1>4, <2>1, <2>2 DEF TypeOK, RenameTmp, history
<1>5. ASSUME NEW c \in Command, AskReload(c) PROVE TypeOK'
  <2>1. command' \in [Command -> CommandState]
    <3>1. CASE up
      <4>1. command' = [command EXCEPT ![c].at = "wait"]
          BY <1>5, <3>1 DEF AskReload
      <4> QED BY <4>1, CommandMoves DEF Places, Files
    <3>2. CASE ~up
      <4>1. command' = [command EXCEPT ![c].at = "done"]
          BY <1>5, <3>2 DEF AskReload
      <4> QED BY <4>1, CommandMoves DEF Places, Files
    <3> QED BY <3>1, <3>2
  <2>2. request' \in [Requester -> RequestState]
      BY <1>5 DEF TypeOK, AskReload, Asks
  <2> QED BY <1>5, <2>1, <2>2 DEF TypeOK, AskReload, history
<1>6. ASSUME NEW q \in Reload, AskBareReload(q) PROVE TypeOK'
  <2>1. request' \in [Requester -> RequestState]
      BY <1>6 DEF TypeOK, AskBareReload, Asks
  <2> QED BY <1>6, <2>1 DEF TypeOK, AskBareReload, history
<1>7. ASSUME NEW q \in Requester, ReadFile(q) PROVE TypeOK'
  <2>1. command' \in [Command -> CommandState] /\ request' \in [Requester -> RequestState]
    <3>1. CASE Validates(ByDaemon)
      <4>1. ByDaemon \in Whole
          BY <3>1, ByDaemonTyped
      <4> QED BY <1>7, <3>1, <4>1 DEF TypeOK, ReadFile
    <3>2. CASE ~Validates(ByDaemon)
        BY <1>7, <3>2, AnsweredTyped DEF ReadFile
    <3> QED BY <3>1, <3>2
  <2>2. behind' \in BOOLEAN
      BY <1>7 DEF ReadFile
  <2> QED BY <1>7, <2>1, <2>2 DEF TypeOK, ReadFile
<1>8. ASSUME NEW q \in Requester, Apply(q) PROVE TypeOK'
  <2>1. memory' \in Whole
      BY <1>8 DEF TypeOK, Apply
  <2>2. behind' \in BOOLEAN
      BY <1>8 DEF Apply
  <2> QED BY <1>8, <2>1, <2>2, AnsweredTyped DEF TypeOK, Apply
<1>9. CASE OpenEditor
  <2>1. disk.main \in Whole
      BY <1>9 DEF TypeOK, OpenEditor, Torn
  <2>2. disk' \in DiskState /\ editor' \in EditorState
      BY <1>9, <2>1 DEF TypeOK, OpenEditor
  <2>3. handEdits' \in 0 .. MaxHandEdits
      BY <1>9, BoundAssumption DEF TypeOK, OpenEditor
  <2>4. overlapped' \in BOOLEAN /\ behind' \in BOOLEAN
      BY <1>9 DEF OpenEditor
  <2> QED BY <1>9, <2>2, <2>3, <2>4 DEF TypeOK, OpenEditor
<1>14. CASE CloseEditor
  <2>1. \A valid \in BOOLEAN : Buffer(valid) \in Whole
      BY DEF TypeOK, Whole, Buffer
  <2>2. disk' \in DiskState /\ behind' \in BOOLEAN
    <3>1. ASSUME NEW valid \in BOOLEAN,
                 disk' = [disk EXCEPT !.main = Buffer(valid)]
          PROVE disk' \in DiskState
        BY <2>1, <3>1 DEF TypeOK
    <3>2. CASE UNCHANGED <<disk, behind>>
        BY <3>2 DEF TypeOK
    <3> QED BY <1>14, <3>1, <3>2 DEF CloseEditor
  <2>3. editor' \in EditorState
      BY <1>14, NoEditorTyped DEF CloseEditor
  <2>4. UNCHANGED <<command, request, up, memory, overlapped, handEdits, starts>>
      BY <1>14 DEF CloseEditor
  <2> QED BY <2>2, <2>3, <2>4 DEF TypeOK
<1>10. CASE Start
  <2>1. starts' \in 0 .. MaxStarts
      BY <1>10, BoundAssumption DEF TypeOK, Start
  <2>2. up' \in BOOLEAN /\ memory' \in Whole /\ behind' \in BOOLEAN
    <3>1. CASE Validates(ByDaemon)
      <4>1. behind' \in BOOLEAN
          BY <1>10, <3>1 DEF Start
      <4> QED BY <1>10, <3>1, <4>1, ByDaemonTyped DEF TypeOK, Start
    <3>2. CASE ~Validates(ByDaemon)
        BY <1>10, <3>2 DEF TypeOK, Start
    <3> QED BY <3>1, <3>2
  <2> QED BY <1>10, <2>1, <2>2 DEF TypeOK, Start
<1>11. CASE Stop
  <2>1. command' \in [Command -> CommandState]
    <3>1. \A c \in Command : command[c] \in CommandState /\ [command[c] EXCEPT !.at = "done"] \in CommandState
        BY RecordChanges DEF TypeOK, Places, Files
    <3> QED BY <1>11, <3>1 DEF Stop
  <2>2. request' \in [Requester -> RequestState]
      BY <1>11, NoRequestTyped DEF TypeOK, Stop
  <2> QED BY <1>11, <2>1, <2>2 DEF TypeOK, Stop, history
<1> QED BY <1>0, <1>2, <1>3, <1>4, <1>5, <1>6, <1>7, <1>8, <1>9, <1>10, <1>11, <1>12, <1>13, <1>14 DEF Next

\* Every reachable state of ConfigFile has the types the module declares;
\* what is saved or applied is always a configuration that parsed (load and
\* reload of src/config.rs return an error for any other).
THEOREM ConfigTyped == Spec => []TypeOK
    BY InitTyped, StepTyped, PTL DEF Spec

----------------------------------------------------------------------------
(* What the daemon applies has been validated                              *)

ValidInv ==
    /\ TypeOK
    /\ MemoryIsValid
    /\ \A q \in Requester : request[q].at = "apply" => Validates(request[q].copy)

LEMMA InitValid == Init => ValidInv
<1> SUFFICES ASSUME Init PROVE ValidInv
    OBVIOUS
<1>1. disk.main = Default /\ memory = ByDaemon
    BY DEF Init
<1>2. ByDaemon.valid = Default.valid
    BY <1>1, InitTyped, LoadedKeeps DEF ByDaemon
<1> QED BY <1>1, <1>2, InitTyped, NoRequestTyped, DefaultTyped DEF Init, ValidInv, MemoryIsValid, Validates

LEMMA AnsweredValid ==
    ASSUME ValidInv, NEW q \in Requester, Answered(q)
    PROVE  \A r \in Requester : request'[r].at = "apply" => Validates(request'[r].copy)
    BY NoRequestTyped DEF ValidInv, TypeOK, Answered, Validates

LEMMA StepValid == ValidInv /\ [Next]_vars => ValidInv'
<1> SUFFICES ASSUME ValidInv, [Next]_vars PROVE ValidInv'
    OBVIOUS
<1>0. TypeOK /\ TypeOK'
    BY StepTyped DEF ValidInv
<1>1. ASSUME UNCHANGED <<memory, request>> PROVE ValidInv'
    BY <1>0, <1>1 DEF ValidInv, MemoryIsValid, Validates
<1>2. CASE UNCHANGED vars
    BY <1>1, <1>2 DEF vars
<1>3. ASSUME NEW c \in Command,
             \/ EditChecked(c) \/ EditUnchecked(c) \/ Refuse(c)
             \/ OpenTmp(c) \/ WriteTmp(c) \/ RenameTmp(c)
      PROVE  ValidInv'
    BY <1>0, <1>1, <1>3, Begins DEF OpenTmp, WriteTmp, RenameTmp
<1>4. ASSUME NEW q \in Requester, UNCHANGED memory, UNCHANGED request \/ Asks(q) PROVE ValidInv'
    BY <1>0, <1>4 DEF ValidInv, MemoryIsValid, Validates, Asks, TypeOK
<1>5. ASSUME NEW c \in Command, AskReload(c) PROVE ValidInv'
    BY <1>4, <1>5 DEF AskReload, Requester
<1>6. ASSUME NEW q \in Reload, AskBareReload(q) PROVE ValidInv'
    BY <1>4, <1>6 DEF AskBareReload, Requester
<1>7. ASSUME NEW q \in Requester, ReadFile(q) PROVE ValidInv'
  <2>1. CASE Validates(ByDaemon)
      BY <1>0, <1>7, <2>1 DEF ValidInv, MemoryIsValid, Validates, ReadFile, TypeOK
  <2>2. CASE ~Validates(ByDaemon)
      BY <1>0, <1>7, <2>2, AnsweredValid DEF ValidInv, MemoryIsValid, Validates, ReadFile
  <2> QED BY <2>1, <2>2
<1>8. ASSUME NEW q \in Requester, Apply(q) PROVE ValidInv'
    BY <1>0, <1>8, AnsweredValid DEF ValidInv, MemoryIsValid, Validates, Apply
<1>9. CASE OpenEditor \/ CloseEditor
    BY <1>1, <1>9 DEF OpenEditor, CloseEditor
<1>10. CASE Start
    BY <1>0, <1>10 DEF ValidInv, MemoryIsValid, Validates, Start
<1>11. CASE Stop
    BY <1>0, <1>11, NoRequestTyped DEF ValidInv, MemoryIsValid, Validates, Stop
<1> QED BY <1>2, <1>3, <1>5, <1>6, <1>7, <1>8, <1>9, <1>10, <1>11 DEF Next

\* However commands, editors, reloads and restarts interleave, the daemon
\* never works with a configuration that does not validate (Request::Reload
\* of src/daemon.rs keeps the old one).
THEOREM MemoryStaysValid == Spec => []MemoryIsValid
<1>1. ValidInv => MemoryIsValid
    BY DEF ValidInv
<1> QED BY InitValid, StepValid, <1>1, PTL DEF Spec

----------------------------------------------------------------------------
(* Where a command is, the file it has open, and its request               *)

PlaceInv ==
    /\ TypeOK
    /\ \A c \in Command : command[c].fd # "none" => command[c].at \in {"write", "rename"}
    /\ \A c \in Command : request[c].at # "none" => command[c].at = "wait"

LEMMA InitPlace == Init => PlaceInv
    BY InitTyped, NoRequestTyped, NewCommandTyped DEF Init, PlaceInv, Requester

\* A command moves on, and no request changes.
LEMMA Moves ==
    ASSUME PlaceInv, TypeOK', UNCHANGED request, NEW c \in Command, command[c].at # "wait",
           command'[c].fd # "none" => command'[c].at \in {"write", "rename"},
           \A d \in Command \ {c} :
              /\ command'[d].at = command[d].at
              /\ command'[d].fd # "none" => command[d].fd # "none"
    PROVE  PlaceInv'
    BY DEF PlaceInv

LEMMA AnsweredPlace ==
    ASSUME PlaceInv, TypeOK', NEW q \in Requester, request[q].at # "none", Answered(q)
    PROVE  PlaceInv'
<1>1. request' = [request EXCEPT ![q] = NoRequest] /\ request \in [Requester -> RequestState]
    BY DEF Answered, PlaceInv, TypeOK, RequestState
<1>2. CASE q \in Command
  <2>1. command' = [command EXCEPT ![q].at = "done"] /\ command[q].at = "wait" /\ command[q].fd = "none"
      BY <1>2 DEF Answered, PlaceInv
  <2> QED BY <1>1, <1>2, <2>1, NoRequestTyped DEF PlaceInv, TypeOK, CommandState, Requester
<1>3. CASE q \notin Command
    BY <1>1, <1>3, NoRequestTyped DEF Answered, PlaceInv, Requester
<1> QED BY <1>2, <1>3

\* A rename moves the file on, and what the others have open with it.
LEMMA RenameMoves ==
    ASSUME TypeOK, NEW c \in Command, RenameTmp(c), disk.staged
    PROVE  /\ command'[c].at = "ask" /\ command'[c].fd = "none"
           /\ \A d \in Command \ {c} :
                 /\ command'[d].at = command[d].at /\ command'[d].copy = command[d].copy
                 /\ command'[d].fd # "none" => command[d].fd # "none"
           /\ disk' = [main |-> disk.tmp, tmp |-> Empty, staged |-> FALSE, exists |-> TRUE]
<1>1. /\ command' = [d \in Command |->
                 CASE d = c -> [command[c] EXCEPT !.at = "ask", !.fd = "none"]
                   [] d # c /\ command[d].fd = "tmp" -> [command[d] EXCEPT !.fd = "main"]
                   [] d # c /\ command[d].fd = "main" -> [command[d] EXCEPT !.fd = "unlinked"]
                   [] OTHER -> command[d]]
      /\ disk' = [main |-> disk.tmp, tmp |-> Empty, staged |-> FALSE, exists |-> TRUE]
    BY DEF RenameTmp
<1>2. command'[c] = [command[c] EXCEPT !.at = "ask", !.fd = "none"] /\ command[c] \in CommandState
    BY <1>1 DEF TypeOK
<1>3. ASSUME NEW d \in Command \ {c}
      PROVE  /\ command'[d].at = command[d].at /\ command'[d].copy = command[d].copy
             /\ command'[d].fd # "none" => command[d].fd # "none"
  <2>0. command[d] \in CommandState
      BY DEF TypeOK
  <2>1. CASE command[d].fd = "tmp"
    <3>1. command'[d] = [command[d] EXCEPT !.fd = "main"]
        BY <1>1, <2>1
    <3> QED BY <2>0, <2>1, <3>1 DEF CommandState
  <2>2. CASE command[d].fd = "main"
    <3>1. command'[d] = [command[d] EXCEPT !.fd = "unlinked"]
        BY <1>1, <2>2
    <3> QED BY <2>0, <2>2, <3>1 DEF CommandState
  <2>3. CASE command[d].fd \notin {"tmp", "main"}
      BY <1>1, <2>3
  <2> QED BY <2>1, <2>2, <2>3
<1>4. command'[c].at = "ask" /\ command'[c].fd = "none"
    BY <1>2 DEF CommandState
<1> QED BY <1>1, <1>3, <1>4

LEMMA StepPlace == PlaceInv /\ [Next]_vars => PlaceInv'
<1> SUFFICES ASSUME PlaceInv, [Next]_vars PROVE PlaceInv'
    OBVIOUS
<1>0. TypeOK /\ TypeOK'
    BY StepTyped DEF PlaceInv
<1>1. ASSUME UNCHANGED <<command, request>> PROVE PlaceInv'
    BY <1>0, <1>1 DEF PlaceInv
<1>2. CASE UNCHANGED vars
    BY <1>1, <1>2 DEF vars
<1>3. ASSUME NEW c \in Command, EditChecked(c) \/ EditUnchecked(c) \/ Refuse(c) PROVE PlaceInv'
  <2>1. /\ UNCHANGED request /\ command[c].at = "idle"
        /\ command'[c].fd = command[c].fd
        /\ \A d \in Command \ {c} : command'[d] = command[d]
      BY <1>0, <1>3, Begins
  <2>2. command[c].fd = "none"
      BY <2>1 DEF PlaceInv, TypeOK, CommandState
  <2> QED BY <1>0, <2>1, <2>2, Moves
<1>4. ASSUME NEW c \in Command, OpenTmp(c) \/ WriteTmp(c) PROVE PlaceInv'
  <2>1. /\ UNCHANGED request /\ command[c].at # "wait"
        /\ command'[c].at \in {"write", "rename"}
        /\ \A d \in Command \ {c} : command'[d] = command[d]
      BY <1>0, <1>4 DEF OpenTmp, WriteTmp, TypeOK, CommandState
  <2> QED BY <1>0, <2>1, Moves
<1>5. ASSUME NEW c \in Command, RenameTmp(c) PROVE PlaceInv'
  <2>1. /\ UNCHANGED request /\ command[c].at # "wait" /\ command'[c].fd = "none"
        /\ \A d \in Command \ {c} :
              /\ command'[d].at = command[d].at
              /\ command'[d].fd # "none" => command[d].fd # "none"
    <3>1. CASE disk.staged
        BY <1>0, <1>5, <3>1, RenameMoves DEF RenameTmp
    <3>2. CASE ~disk.staged
        BY <1>0, <1>5, <3>2 DEF RenameTmp, TypeOK, CommandState
    <3> QED BY <3>1, <3>2
  <2> QED BY <1>0, <2>1, Moves
<1>6. ASSUME NEW c \in Command, AskReload(c) PROVE PlaceInv'
  <2>1. command[c].fd = "none"
      BY <1>6 DEF AskReload, PlaceInv
  <2>2. CASE up
    <3>1. /\ command' = [command EXCEPT ![c].at = "wait"]
          /\ request' = [request EXCEPT ![c].at = "read"]
        BY <1>6, <2>2 DEF AskReload, Asks
    <3>2. command'[c].at = "wait" /\ \A d \in Command \ {c} : command'[d] = command[d]
        BY <1>0, <3>1 DEF TypeOK, CommandState
    <3>3. \A d \in Command \ {c} : request'[d] = request[d]
        BY <1>0, <3>1 DEF TypeOK, Requester
    <3>4. command'[c].fd = "none"
        BY <1>0, <2>1, <3>1 DEF TypeOK, CommandState
    <3> QED BY <1>0, <3>2, <3>3, <3>4 DEF PlaceInv
  <2>3. CASE ~up
      BY <1>0, <1>6, <2>1, <2>3 DEF AskReload, PlaceInv, TypeOK, CommandState
  <2> QED BY <2>2, <2>3
<1>7. ASSUME NEW q \in Reload, AskBareReload(q) PROVE PlaceInv'
  <2>1. \A c \in Command : request'[c] = request[c]
      BY <1>0, <1>7, RequesterAssumption DEF AskBareReload, Asks, TypeOK, Requester
  <2> QED BY <1>0, <1>7, <2>1 DEF AskBareReload, PlaceInv
<1>8. ASSUME NEW q \in Requester, ReadFile(q) PROVE PlaceInv'
  <2>1. CASE Validates(ByDaemon)
    <3>1. /\ request' = [request EXCEPT ![q] = [at |-> "apply", copy |-> ByDaemon]]
          /\ command' = command /\ request[q].at = "read"
        BY <1>8, <2>1 DEF ReadFile
    <3>2. \A c \in Command : request'[c].at # "none" => request[c].at # "none"
        BY <1>0, <3>1 DEF TypeOK, Requester
    <3> QED BY <1>0, <3>1, <3>2 DEF PlaceInv
  <2>2. CASE ~Validates(ByDaemon)
      BY <1>0, <1>8, <2>2, AnsweredPlace DEF ReadFile
  <2> QED BY <2>1, <2>2
<1>9. ASSUME NEW q \in Requester, Apply(q) PROVE PlaceInv'
    BY <1>0, <1>9, AnsweredPlace DEF Apply
<1>10. CASE Start \/ OpenEditor \/ CloseEditor
    BY <1>1, <1>10 DEF Start, OpenEditor, CloseEditor
<1>11. CASE Stop
  <2>1. \A c \in Command : request'[c].at = "none"
      BY <1>11, NoRequestTyped DEF Stop, Requester
  <2>2. \A c \in Command : command'[c].fd = command[c].fd /\ (command'[c].at # command[c].at => command[c].at = "wait")
      BY <1>0, <1>11 DEF Stop, TypeOK, CommandState
  <2> QED BY <1>0, <2>1, <2>2 DEF PlaceInv
<1> QED BY <1>2, <1>3, <1>4, <1>5, <1>6, <1>7, <1>8, <1>9, <1>10, <1>11 DEF Next

----------------------------------------------------------------------------
(* Edits that were saved stay in the file                                  *)

Done == {c \in Command : command[c].at = "done"}

Holds(config, c) == Done \cup {c} \subseteq config.edits

\* What c is about to save holds its own edit and those of all that are done,
\* and nobody else has touched its files.
Ready(c) ==
    /\ command[c].at \in {"open", "write"} => Holds(command[c].copy, c)
    /\ command[c].at \in {"write", "rename"} => command[c].fd = "tmp" /\ disk.staged
    /\ command[c].at = "write" => disk.tmp = Empty
    /\ command[c].at = "rename" => Holds(disk.tmp, c)
    /\ command[c].at \in {"ask", "wait"} => c \in disk.main.edits

\* No two commands work at a time.
AloneInv ==
    /\ \A c, d \in Command : Working(c) /\ Working(d) => c = d
    /\ Done \subseteq disk.main.edits
    /\ \A c \in Command : Ready(c)

\* While an editor is open no command works, and its buffer has all edits.
EditorInv ==
    editor.at = "open" => /\ \A c \in Command : ~Working(c)
                          /\ editor.copy.edits = disk.main.edits

SavedInv == PlaceInv /\ (~overlapped => AloneInv /\ EditorInv)

LEMMA InitSaved == Init => SavedInv
<1> SUFFICES ASSUME Init PROVE SavedInv
    OBVIOUS
<1>1. \A c \in Command : command[c].at = "idle"
    BY NewCommandTyped DEF Init
<1>2. EditorInv
    BY NoEditorTyped DEF Init, EditorInv
<1> QED BY <1>1, <1>2, InitPlace DEF SavedInv, AloneInv, Ready, Working, Done

\* The one command that works moves on.
LEMMA OneMoves ==
    ASSUME AloneInv, NEW c \in Command, Working(c),
           \A d \in Command \ {c} : command'[d].at = command[d].at,
           Done' \subseteq disk'.main.edits, Ready(c)'
    PROVE  AloneInv'
<1>1. \A d \in Command \ {c} : ~Working(d) /\ ~Working(d)'
    BY DEF AloneInv, Working
<1>2. \A d \in Command \ {c} : Ready(d)'
    BY <1>1 DEF Ready, Working
<1> QED BY <1>1, <1>2 DEF AloneInv

\* Everything stays where it is, but for what the file says otherwise.
LEMMA NobodyMoves ==
    ASSUME AloneInv, UNCHANGED command, disk'.main.edits = disk.main.edits,
           disk'.tmp = disk.tmp, disk'.staged = disk.staged
    PROVE  AloneInv'
    BY DEF AloneInv, Ready, Working, Done, Holds

\* The answer to a command: it is done, and its edit was saved before.
LEMMA AnsweredAlone ==
    ASSUME PlaceInv, AloneInv, NEW q \in Requester, request[q].at # "none", Answered(q), UNCHANGED disk
    PROVE  AloneInv'
<1>1. CASE q \notin Command
    BY <1>1, NobodyMoves DEF Answered
<1>2. CASE q \in Command
  <2>1. command' = [command EXCEPT ![q].at = "done"] /\ command[q].at = "wait"
      BY <1>2 DEF Answered, PlaceInv
  <2>2. command'[q].at = "done" /\ \A d \in Command \ {q} : command'[d] = command[d]
      BY <1>2, <2>1 DEF PlaceInv, TypeOK, CommandState
  <2>3. Done' = Done \cup {q} /\ q \in disk.main.edits /\ Working(q)
      BY <1>2, <2>1, <2>2 DEF Done, AloneInv, Ready, Working
  <2>4. Ready(q)'
      BY <2>2 DEF Ready
  <2> QED BY <1>2, <2>2, <2>3, <2>4, OneMoves DEF AloneInv
<1> QED BY <1>1, <1>2

\* A request that is answered lets no command begin to work.
LEMMA AnsweredWorks ==
    ASSUME TypeOK, NEW q \in Requester, Answered(q), NEW c \in Command, ~Working(c)
    PROVE  ~Working(c)'
<1>1. CASE q \in Command
  <2>1. command' = [command EXCEPT ![q].at = "done"]
      BY <1>1 DEF Answered
  <2> QED BY <2>1 DEF TypeOK, CommandState, Working
<1>2. CASE q \notin Command
    BY <1>2 DEF Answered, Working
<1> QED BY <1>1, <1>2

\* A command that begins while an editor is open overlaps it, and so does an
\* editor that is opened while a command works.
LEMMA StepEditor ==
    ASSUME SavedInv, [Next]_vars, ~overlapped'
    PROVE  EditorInv'
<1>0. TypeOK
    BY DEF SavedInv, PlaceInv
<1>1. ASSUME ~overlapped, UNCHANGED <<editor, disk>>, \A c \in Command : ~Working(c) => ~Working(c)'
      PROVE  EditorInv'
    BY <1>1 DEF SavedInv, EditorInv
<1>2. ASSUME ~overlapped, UNCHANGED editor, NEW c \in Command, Working(c) PROVE EditorInv'
    BY <1>2 DEF SavedInv, EditorInv
<1>3. CASE UNCHANGED vars
    BY <1>1, <1>3 DEF vars, history, Working
<1>4. ASSUME NEW c \in Command, EditChecked(c) \/ EditUnchecked(c) PROVE EditorInv'
  <2>1. Overlaps /\ UNCHANGED editor
      BY <1>4 DEF EditChecked, EditUnchecked, Edited
  <2>2. editor.at # "open"
      BY <2>1 DEF Overlaps
  <2> QED BY <2>1, <2>2 DEF EditorInv
<1>5. ASSUME NEW c \in Command, Refuse(c) PROVE EditorInv'
  <2>1. \A d \in Command : ~Working(d) => ~Working(d)'
      BY <1>0, <1>5 DEF Refuse, TypeOK, CommandState, Working
  <2> QED BY <1>1, <1>5, <2>1 DEF Refuse, history
<1>6. ASSUME NEW c \in Command, OpenTmp(c) \/ WriteTmp(c) \/ RenameTmp(c) \/ AskReload(c)
      PROVE  EditorInv'
  <2>1. Working(c) /\ UNCHANGED <<editor, overlapped>>
      BY <1>6 DEF OpenTmp, WriteTmp, RenameTmp, AskReload, Working, history
  <2> QED BY <1>2, <2>1
<1>7. ASSUME UNCHANGED <<editor, disk, command, overlapped>> PROVE EditorInv'
    BY <1>1, <1>7 DEF Working
<1>8. ASSUME NEW q \in Requester, ReadFile(q) \/ Apply(q) PROVE EditorInv'
  <2>1. UNCHANGED <<editor, disk, overlapped>> /\ (UNCHANGED command \/ Answered(q))
      BY <1>8 DEF ReadFile, Apply
  <2>2. CASE UNCHANGED command
      BY <1>7, <2>1, <2>2
  <2>3. CASE Answered(q)
      BY <1>0, <1>1, <2>1, <2>3, AnsweredWorks
  <2> QED BY <2>1, <2>2, <2>3
<1>9. CASE OpenEditor
  <2>1. /\ editor'.copy = disk.main /\ disk'.main = disk.main /\ UNCHANGED command
        /\ \A c \in Command : ~Working(c)
      BY <1>0, <1>9 DEF OpenEditor, TypeOK
  <2> QED BY <2>1 DEF EditorInv, Working
<1>10. CASE CloseEditor
    BY <1>10, NoEditorTyped DEF CloseEditor, EditorInv
<1>11. CASE Start \/ \E q \in Reload : AskBareReload(q)
    BY <1>7, <1>11 DEF Start, AskBareReload, history
<1>12. CASE Stop
  <2>1. \A c \in Command : ~Working(c) => ~Working(c)'
      BY <1>0, <1>12 DEF Stop, TypeOK, CommandState, Working
  <2> QED BY <1>1, <1>12, <2>1 DEF Stop, history
<1> QED BY <1>3, <1>4, <1>5, <1>6, <1>8, <1>9, <1>10, <1>11, <1>12 DEF Next

LEMMA StepSaved == SavedInv /\ [Next]_vars => SavedInv'
<1> SUFFICES ASSUME SavedInv, [Next]_vars, ~overlapped' PROVE AloneInv'
    BY StepPlace, StepEditor DEF SavedInv
<1>0. PlaceInv /\ TypeOK
    BY DEF SavedInv, PlaceInv
<1>1. ASSUME NEW c \in Command, NEW valid \in BOOLEAN, Edited(c, ByCommand, valid) PROVE AloneInv'
  <2> DEFINE copy == [ByCommand EXCEPT !.edits = @ \cup {c}, !.valid = valid]
  <2>0. command[c] \in CommandState /\ command[c].at = "idle"
      BY <1>0, <1>1 DEF TypeOK, Edited
  <2>1. ByCommand \in Whole
      BY <1>0, <1>1, ReadIsWhole
  <2>2. copy.edits = disk.main.edits \cup {c}
      BY <1>0, <2>1, ByCommandKeeps DEF Whole
  <2> HIDE DEF copy
  <2>3. /\ command' = [command EXCEPT ![c].at = "open", ![c].copy = copy]
        /\ UNCHANGED disk /\ Overlaps
      BY <1>1 DEF Edited, copy
  <2>4. ~overlapped /\ \A d \in Command : ~Working(d)
      BY <2>3 DEF Overlaps
  <2>5. AloneInv
      BY <2>4 DEF SavedInv
  <2>6. /\ command'[c].at = "open" /\ command'[c].copy = copy
        /\ \A d \in Command \ {c} : command'[d] = command[d]
      BY <1>0, <2>0, <2>3 DEF TypeOK, CommandState
  <2>7. Done' = Done
      BY <2>0, <2>6 DEF Done
  <2>8. Ready(c)'
      BY <2>2, <2>5, <2>6, <2>7 DEF Ready, Holds, AloneInv
  <2>9. \A d \in Command \ {c} : ~Working(d)' /\ Ready(d)'
      BY <2>4, <2>6 DEF Ready, Working
  <2> QED BY <2>3, <2>5, <2>7, <2>8, <2>9 DEF AloneInv
<1>15. ASSUME NEW c \in Command, Refuse(c) PROVE AloneInv'
  <2>0. command[c] \in CommandState /\ command[c].at = "idle"
      BY <1>0, <1>15 DEF TypeOK, Refuse
  <2>1. AloneInv /\ UNCHANGED disk /\ command' = [command EXCEPT ![c].at = "failed"]
      BY <1>15 DEF Refuse, SavedInv, history
  <2>2. command'[c].at = "failed" /\ \A d \in Command \ {c} : command'[d] = command[d]
      BY <1>0, <2>1 DEF TypeOK, CommandState
  <2>3. Done' = Done /\ Ready(c)' /\ ~Working(c)'
      BY <2>0, <2>2 DEF Done, Ready, Working
  <2>4. \A d \in Command \ {c} : Ready(d)' /\ Working(d)' = Working(d)
      BY <2>1, <2>2, <2>3 DEF AloneInv, Ready, Working, Holds
  <2> QED BY <2>1, <2>3, <2>4 DEF AloneInv
<1>2. ASSUME NEW c \in Command, AloneInv, OpenTmp(c) PROVE AloneInv'
  <2>1. /\ command'[c].at = "write" /\ command'[c].fd = "tmp" /\ command'[c].copy = command[c].copy
        /\ command[c].at = "open"
        /\ \A d \in Command \ {c} : command'[d] = command[d]
      BY <1>0, <1>2 DEF OpenTmp, TypeOK, CommandState
  <2>2. disk'.main = disk.main /\ disk'.tmp = Empty /\ disk'.staged
      BY <1>0, <1>2 DEF OpenTmp, TypeOK
  <2>3. Done' = Done /\ Working(c)
      BY <2>1 DEF Done, Working
  <2>4. Ready(c)'
      BY <1>2, <2>1, <2>2, <2>3 DEF Ready, Holds, AloneInv
  <2> QED BY <1>2, <2>1, <2>2, <2>3, <2>4, OneMoves DEF AloneInv
<1>3. ASSUME NEW c \in Command, AloneInv, WriteTmp(c) PROVE AloneInv'
  <2>0. /\ command[c].at = "write" /\ command[c].fd = "tmp" /\ disk.staged
        /\ disk.tmp = Empty /\ Holds(command[c].copy, c)
      BY <1>3 DEF WriteTmp, AloneInv, Ready
  <2>1. command'[c].at = "rename" /\ command'[c].fd = "tmp"
        /\ \A d \in Command \ {c} : command'[d] = command[d]
      BY <1>0, <1>3, <2>0 DEF WriteTmp, TypeOK, CommandState
  <2>2. disk' = [disk EXCEPT !.tmp = command[c].copy]
      BY <1>3, <2>0 DEF WriteTmp, Overlaid
  <2>3. disk'.main = disk.main /\ disk'.tmp = command[c].copy /\ disk'.staged
      BY <1>0, <2>0, <2>2 DEF TypeOK
  <2>4. Done' = Done /\ Working(c)
      BY <2>0, <2>1 DEF Done, Working
  <2>5. Ready(c)'
      BY <2>0, <2>1, <2>3, <2>4 DEF Ready, Holds
  <2> QED BY <1>3, <2>1, <2>3, <2>4, <2>5, OneMoves DEF AloneInv
<1>4. ASSUME NEW c \in Command, AloneInv, RenameTmp(c) PROVE AloneInv'
  <2>0. command[c].at = "rename" /\ disk.staged /\ Holds(disk.tmp, c)
      BY <1>4 DEF RenameTmp, AloneInv, Ready
  <2>1. /\ command'[c].at = "ask" /\ \A d \in Command \ {c} : command'[d].at = command[d].at
        /\ disk'.main = disk.tmp
      BY <1>0, <1>4, <2>0, RenameMoves
  <2>2. Done' = Done /\ Working(c)
      BY <2>0, <2>1 DEF Done, Working
  <2>3. Done \cup {c} \subseteq disk'.main.edits
      BY <2>0, <2>1 DEF Holds
  <2>4. Ready(c)'
      BY <2>1, <2>3 DEF Ready
  <2> QED BY <1>4, <2>1, <2>2, <2>3, <2>4, OneMoves
<1>5. ASSUME NEW c \in Command, AloneInv, AskReload(c) PROVE AloneInv'
  <2>1. /\ command[c].at = "ask" /\ c \in disk.main.edits /\ UNCHANGED disk /\ Working(c)
      BY <1>5 DEF AskReload, AloneInv, Ready, Working
  <2>2. /\ command'[c].at \in {"wait", "done"}
        /\ \A d \in Command \ {c} : command'[d] = command[d]
    <3>1. CASE up
        BY <1>0, <1>5, <3>1 DEF AskReload, TypeOK, CommandState
    <3>2. CASE ~up
        BY <1>0, <1>5, <3>2 DEF AskReload, TypeOK, CommandState
    <3> QED BY <3>1, <3>2
  <2>3. Done' \subseteq Done \cup {c} /\ Ready(c)'
      BY <2>1, <2>2 DEF Done, Ready
  <2> QED BY <1>5, <2>1, <2>2, <2>3, OneMoves DEF AloneInv
<1>6. ASSUME AloneInv, UNCHANGED <<command, disk>> PROVE AloneInv'
    BY <1>6, NobodyMoves
<1>7. ASSUME NEW q \in Requester, AloneInv, ReadFile(q) PROVE AloneInv'
  <2>1. CASE Validates(ByDaemon)
      BY <1>6, <1>7, <2>1 DEF ReadFile
  <2>2. CASE ~Validates(ByDaemon)
      BY <1>0, <1>7, <2>2, AnsweredAlone DEF ReadFile
  <2> QED BY <2>1, <2>2
<1>8. ASSUME NEW q \in Requester, AloneInv, Apply(q) PROVE AloneInv'
    BY <1>0, <1>8, AnsweredAlone DEF Apply
<1>9. ASSUME AloneInv, OpenEditor PROVE AloneInv'
  <2>1. disk'.main = disk.main /\ disk'.tmp = disk.tmp /\ disk'.staged = disk.staged
      BY <1>0, <1>9 DEF OpenEditor, TypeOK
  <2> QED BY <1>9, <2>1, NobodyMoves DEF OpenEditor
<1>16. ASSUME AloneInv, EditorInv, CloseEditor PROVE AloneInv'
  <2>1. editor.copy.edits = disk.main.edits /\ editor.copy \in Whole
      BY <1>0, <1>16 DEF CloseEditor, EditorInv, TypeOK
  <2>2. disk'.main.edits = disk.main.edits /\ disk'.tmp = disk.tmp /\ disk'.staged = disk.staged
    <3>1. ASSUME NEW valid \in BOOLEAN, disk' = [disk EXCEPT !.main = Buffer(valid)]
          PROVE  /\ disk'.main.edits = disk.main.edits
                 /\ disk'.tmp = disk.tmp /\ disk'.staged = disk.staged
        BY <1>0, <2>1, <3>1 DEF TypeOK, Whole, Buffer
    <3> QED BY <1>16, <3>1 DEF CloseEditor
  <2> QED BY <1>16, <2>2, NobodyMoves DEF CloseEditor
<1>10. ASSUME AloneInv, Stop PROVE AloneInv'
  <2>1. \A c \in Command :
           /\ command[c].at = "wait" => command'[c].at = "done"
           /\ command[c].at # "wait" => command'[c] = command[c]
      BY <1>0, <1>10 DEF Stop, TypeOK, CommandState
  <2>2. UNCHANGED disk
      BY <1>10 DEF Stop
  <2>3. CASE \E c \in Command : command[c].at = "wait"
    <3>1. PICK c \in Command : command[c].at = "wait"
        BY <2>3
    <3>2. Working(c) /\ command'[c].at = "done" /\ c \in disk.main.edits
        BY <1>10, <2>1, <3>1 DEF AloneInv, Ready, Working
    <3>3. \A d \in Command \ {c} : command'[d] = command[d]
        BY <1>10, <2>1, <3>2 DEF AloneInv, Working
    <3>4. Done' \subseteq Done \cup {c} /\ Ready(c)'
        BY <3>2, <3>3 DEF Done, Ready
    <3> QED BY <1>10, <2>2, <3>2, <3>3, <3>4, OneMoves DEF AloneInv
  <2>4. CASE \A c \in Command : command[c].at # "wait"
    <3>1. command' = command
        BY <1>0, <2>1, <2>4, StepTyped DEF TypeOK
    <3> QED BY <1>6, <1>10, <2>2, <3>1
  <2> QED BY <2>3, <2>4
<1>11. CASE UNCHANGED vars
    BY <1>6, <1>11 DEF SavedInv, vars, history
<1>12. CASE \E c \in Command : EditChecked(c) \/ EditUnchecked(c) \/ Refuse(c)
    BY <1>1, <1>12, <1>15, EditIsEdited
<1>13. CASE \E c \in Command : OpenTmp(c) \/ WriteTmp(c) \/ RenameTmp(c) \/ AskReload(c)
  <2>1. AloneInv
      BY <1>13 DEF SavedInv, OpenTmp, WriteTmp, RenameTmp, AskReload, history
  <2> QED BY <1>2, <1>3, <1>4, <1>5, <1>13, <2>1
<1>14. CASE \/ \E q \in Reload : AskBareReload(q)
            \/ \E q \in Requester : ReadFile(q) \/ Apply(q)
            \/ OpenEditor \/ CloseEditor
            \/ Start \/ Stop
  <2>1. AloneInv /\ EditorInv
      BY <1>14 DEF SavedInv, AskBareReload, ReadFile, Apply, OpenEditor, CloseEditor, Start, Stop,
                   history
  <2> QED BY <1>6, <1>7, <1>8, <1>9, <1>10, <1>14, <1>16, <2>1 DEF AskBareReload, Start
<1> QED BY <1>11, <1>12, <1>13, <1>14 DEF Next

\* As long as no command overlaps another or an open editor, no command,
\* editor, reload or restart undoes the edit of a command that is done (save
\* of src/config.rs, and the editor of cmd_config_edit, write all of a file
\* that was read before).
THEOREM SavedEditsStay == Spec => []EditsAreKept
<1>1. SavedInv => EditsAreKept
    BY DEF SavedInv, AloneInv, EditsAreKept, Done
<1> QED BY InitSaved, StepSaved, <1>1, PTL DEF Spec

----------------------------------------------------------------------------
(* A quiet daemon works with what the file says                            *)

Telling == \E c \in Command : command[c].at \in {"ask", "wait"}

\* As long as nothing says that memory may be behind, memory and file differ,
\* or the file is still open for writing, only while a command that has
\* replaced it has not been answered.
FreshInv ==
    /\ PlaceInv
    /\ up /\ ~behind /\ ~Telling =>
          /\ memory = ByDaemon
          /\ \A c \in Command : command[c].fd # "main"

Current == memory = ByDaemon /\ \A c \in Command : command[c].fd # "main"

\* What the daemon would load depends on the file in place, and on nothing else.
LEMMA ByDaemonStays ==
    ASSUME disk'.main = disk.main, disk'.exists = disk.exists
    PROVE  ByDaemon' = ByDaemon
    BY DEF ByDaemon, Loaded

LEMMA InitFresh == Init => FreshInv
    BY InitPlace, NewCommandTyped DEF Init, FreshInv

LEMMA StepFresh == FreshInv /\ [Next]_vars => FreshInv'
<1> SUFFICES ASSUME FreshInv, [Next]_vars, up', ~behind', ~Telling' PROVE Current'
    BY StepPlace DEF FreshInv, Current
<1>0. PlaceInv /\ TypeOK
    BY DEF FreshInv, PlaceInv
<1>1. ASSUME NEW c \in Command, EditChecked(c) \/ EditUnchecked(c) \/ Refuse(c) PROVE Current'
  <2>1. UNCHANGED <<disk, up, memory, behind>> /\ command[c].at = "idle"
      BY <1>0, <1>1, Begins
  <2>2. command'[c].fd = command[c].fd /\ \A d \in Command \ {c} : command'[d] = command[d]
      BY <1>0, <1>1, Begins
  <2>3. ~Telling
      BY <2>1, <2>2 DEF Telling
  <2> QED BY <2>1, <2>2, <2>3, ByDaemonStays DEF FreshInv, Current
<1>2. ASSUME NEW c \in Command, OpenTmp(c) PROVE Current'
  <2>1. /\ UNCHANGED <<up, memory, behind>> /\ disk'.main = disk.main /\ disk'.exists = disk.exists
        /\ command[c].at = "open" /\ command'[c].fd = "tmp"
        /\ \A d \in Command \ {c} : command'[d] = command[d]
      BY <1>0, <1>2 DEF OpenTmp, TypeOK, CommandState, history
  <2>2. ~Telling
      BY <2>1 DEF Telling
  <2> QED BY <2>1, <2>2, ByDaemonStays DEF FreshInv, Current
<1>3. ASSUME NEW c \in Command, WriteTmp(c) PROVE Current'
  <2>1. /\ UNCHANGED <<up, memory, behind>>
        /\ command[c].at = "write" /\ command'[c].fd = command[c].fd
        /\ \A d \in Command \ {c} : command'[d] = command[d]
      BY <1>0, <1>3 DEF WriteTmp, TypeOK, CommandState, history
  <2>2. ~Telling
      BY <2>1 DEF Telling
  <2>3. memory = ByDaemon /\ command[c].fd # "main" /\ \A d \in Command : command[d].fd # "main"
      BY <2>1, <2>2 DEF FreshInv
  <2>4. disk'.main = disk.main /\ disk'.exists = disk.exists
      BY <1>0, <1>3, <2>3 DEF WriteTmp, TypeOK
  <2> QED BY <2>1, <2>3, <2>4, ByDaemonStays DEF Current
<1>4. ASSUME NEW c \in Command, RenameTmp(c) PROVE Current'
  <2>1. CASE disk.staged
    <3>1. command'[c].at = "ask"
        BY <1>0, <1>4, <2>1, RenameMoves
    <3> QED BY <3>1 DEF Telling
  <2>2. CASE ~disk.staged
    <3>1. /\ UNCHANGED <<disk, up, memory, behind>> /\ command[c].at = "rename"
          /\ command' = [command EXCEPT ![c].at = "failed", ![c].fd = "none"]
        BY <1>4, <2>2 DEF RenameTmp, history
    <3>2. command'[c].fd = "none" /\ \A d \in Command \ {c} : command'[d] = command[d]
        BY <1>0, <3>1 DEF TypeOK, CommandState
    <3>3. ~Telling
        BY <3>1, <3>2 DEF Telling
    <3> QED BY <3>1, <3>2, <3>3, ByDaemonStays DEF FreshInv, Current
  <2> QED BY <2>1, <2>2
<1>5. ASSUME NEW c \in Command, AskReload(c) PROVE Current'
  <2>1. CASE up
    <3>1. command' = [command EXCEPT ![c].at = "wait"]
        BY <1>5, <2>1 DEF AskReload
    <3>2. command'[c].at = "wait"
        BY <1>0, <3>1 DEF TypeOK, CommandState
    <3> QED BY <3>2 DEF Telling
  <2> QED BY <1>5, <2>1 DEF AskReload
<1>6. ASSUME UNCHANGED <<command, disk, up, memory>>, ~behind PROVE Current'
    BY <1>6, ByDaemonStays DEF FreshInv, Current, Telling
<1>7. ASSUME NEW q \in Requester, ReadFile(q) PROVE Current'
  <2>1. CASE Validates(ByDaemon)
    <3>1. UNCHANGED <<command, disk, up, memory>> /\ ~behind
        BY <1>7, <2>1 DEF ReadFile
    <3> QED BY <1>6, <3>1
  <2>2. CASE ~Validates(ByDaemon)
      BY <1>7, <2>2 DEF ReadFile
  <2> QED BY <2>1, <2>2
<1>8. ASSUME NEW q \in Requester, Apply(q) PROVE Current'
  <2>1. /\ request[q].copy = ByDaemon /\ memory' = request[q].copy /\ UNCHANGED disk
        /\ \A c \in Command \ {q} : ~Working(c)
        /\ request[q].at = "apply" /\ Answered(q)
      BY <1>8 DEF Apply
  <2>2. \A c \in Command : command[c].fd = "none"
    <3>1. ASSUME NEW c \in Command \ {q} PROVE command[c].fd = "none"
      <4>1. ~Working(c)
          BY <2>1
      <4> QED BY <1>0, <4>1 DEF PlaceInv, Working
    <3>2. CASE q \in Command
      <4>1. command[q].fd = "none"
          BY <1>0, <2>1, <3>2 DEF PlaceInv
      <4> QED BY <3>1, <4>1
    <3> QED BY <3>1, <3>2
  <2>3. \A c \in Command : command'[c].fd = command[c].fd
    <3>1. CASE q \in Command
      <4>1. command' = [command EXCEPT ![q].at = "done"]
          BY <2>1, <3>1 DEF Answered
      <4> QED BY <1>0, <4>1 DEF TypeOK, CommandState
    <3>2. CASE q \notin Command
        BY <2>1, <3>2 DEF Answered
    <3> QED BY <3>1, <3>2
  <2> QED BY <2>1, <2>2, <2>3, ByDaemonStays DEF Current
<1>9. CASE OpenEditor
  <2>1. /\ UNCHANGED <<command, up, memory>> /\ ~behind
        /\ disk'.main = disk.main /\ disk'.exists = disk.exists
      BY <1>0, <1>9 DEF OpenEditor, TypeOK
  <2> QED BY <2>1, ByDaemonStays DEF FreshInv, Current, Telling
<1>14. CASE CloseEditor
  <2>0. behind' # TRUE /\ behind \in BOOLEAN
      BY <1>0 DEF TypeOK
  <2>1. UNCHANGED <<command, disk, up, memory>> /\ behind' = behind
      BY <1>14, <2>0 DEF CloseEditor
  <2> QED BY <1>6, <2>0, <2>1
<1>10. CASE Start
  <2>1. CASE Validates(ByDaemon)
    <3>1. Quiet /\ memory' = ByDaemon /\ UNCHANGED <<disk, command>>
        BY <1>10, <2>1 DEF Start
    <3>2. ASSUME NEW c \in Command PROVE command[c].fd # "main"
      <4>1. ~Working(c)
          BY <3>1 DEF Quiet
      <4> QED BY <1>0, <4>1 DEF PlaceInv, Working
    <3> QED BY <3>1, <3>2, ByDaemonStays DEF Current
  <2>2. CASE ~Validates(ByDaemon)
      BY <1>10, <2>2 DEF Start
  <2> QED BY <2>1, <2>2
<1>11. CASE Stop
    BY <1>11 DEF Stop
<1>12. CASE UNCHANGED vars
    BY <1>6, <1>12 DEF vars, history
<1>13. CASE \E q \in Reload : AskBareReload(q)
    BY <1>6, <1>13 DEF AskBareReload, history
<1> QED BY <1>1, <1>2, <1>3, <1>4, <1>5, <1>7, <1>8, <1>9, <1>10, <1>11, <1>12, <1>13,
           <1>14 DEF Next

\* When nothing is in progress the daemon works with what the file says,
\* unless a reload was refused or overlapped, or an editor saved the file
\* (the Reload of src/daemon.rs after every command that saves).
THEOREM ReloadedStaysSaved == Spec => []ReloadedIsSaved
<1>1. FreshInv => ReloadedIsSaved
    BY DEF FreshInv, ReloadedIsSaved, Telling, Quiet, Working
<1> QED BY InitFresh, StepFresh, <1>1, PTL DEF Spec

\* The daemon follows the file as far as the file validates.
THEOREM MemoryFollows == Spec => []MemoryFollowsFile
<1>1. MemoryIsValid /\ ReloadedIsSaved => MemoryFollowsFile
    BY DEF MemoryFollowsFile
<1> QED BY MemoryStaysValid, ReloadedStaysSaved, <1>1, PTL

----------------------------------------------------------------------------
(* The names of a catalog                                                  *)

USE DEF Word

----------------------------------------------------------------------------
(* unique_name                                                             *)

\* A set of numbers that is not empty has a least one.
LEMMA LeastExists ==
    ASSUME NEW S \in SUBSET Nat, S # {}
    PROVE  \E n \in S : \A m \in S : n <= m
<1> DEFINE R == OpToRel(<, Nat)
<1>1. IsWellFoundedOn(R, Nat)
    BY ONLY NatLessThanWellFounded
<1>2. \A m, n \in Nat : m < n => <<m, n>> \in R
    BY DEF OpToRel
<1> HIDE DEF R
<1>3. PICK n \in S : \A m \in S : ~(<<m, n>> \in R)
    BY <1>1, WFMin
<1>4. \A m \in S : n <= m
  <2> TAKE m \in S
  <2>1. m \in Nat /\ n \in Nat
      OBVIOUS
  <2>2. ~(m < n)
      BY <1>2, <1>3, <2>1
  <2> QED BY <2>1, <2>2
<1> QED BY <1>4

Counted(base, port, n) == base \o <<port, n>>

\* The words of a name with a counter tell the counter.
LEMMA CountersDiffer ==
    ASSUME NEW base \in Name, NEW port \in Nat, NEW n \in Nat, NEW m \in Nat,
           Counted(base, port, n) = Counted(base, port, m)
    PROVE  n = m
<1>1. Counted(base, port, n)[Len(base) + 2] = n
    BY DEF Counted, Name
<1>2. Counted(base, port, m)[Len(base) + 2] = m
    BY DEF Counted, Name
<1> QED BY <1>1, <1>2

\* Of one counter more than there are names in use, one is free.
LEMMA FreeCounter ==
    ASSUME NEW base \in Name, NEW port \in Nat, NEW used, IsFiniteSet(used)
    PROVE  \E n \in 2 .. Cardinality(used) + 2 : Counted(base, port, n) \notin used
<1> DEFINE I == 2 .. Cardinality(used) + 2
<1> DEFINE f == [n \in I |-> Counted(base, port, n)]
<1>1. Cardinality(used) \in Nat
    BY FS_CardinalityType
<1>2. SUFFICES ASSUME \A n \in I : Counted(base, port, n) \in used
               PROVE  FALSE
    OBVIOUS
<1>3. f \in [I -> used]
    BY <1>2
<1>4. IsFiniteSet(I) /\ Cardinality(I) = Cardinality(used) + 1
    BY <1>1, FS_Interval
<1>5. PICK n \in I, m \in I : n # m /\ f[n] = f[m]
  <2> HIDE DEF f, I
  <2> QED BY <1>1, <1>3, <1>4, FS_PigeonHole
<1>6. n \in Nat /\ m \in Nat /\ Counted(base, port, n) = Counted(base, port, m)
    BY <1>1, <1>5
<1> QED BY <1>5, <1>6, CountersDiffer

IsCounter(base, port, used, n) ==
    /\ base \o <<port, n>> \notin used
    /\ \A m \in 2 .. n - 1 : base \o <<port, m>> \in used

\* The loop of unique_name ends: there is a first free counter.
LEMMA FirstFreeCounter ==
    ASSUME NEW base \in Name, NEW port \in Nat, NEW used, IsFiniteSet(used)
    PROVE  \E n \in 2 .. Cardinality(used) + 2 : IsCounter(base, port, used, n)
<1> DEFINE I == 2 .. Cardinality(used) + 2
<1> DEFINE S == {n \in I : Counted(base, port, n) \notin used}
<1>1. Cardinality(used) \in Nat
    BY FS_CardinalityType
<1>2. S # {} /\ S \in SUBSET Nat
    BY <1>1, FreeCounter
<1>3. PICK n \in S : \A m \in S : n <= m
    BY <1>2, LeastExists
<1>4. \A m \in 2 .. n - 1 : Counted(base, port, m) \in used
    BY <1>1, <1>2, <1>3
<1> QED BY <1>1, <1>3, <1>4 DEF IsCounter, Counted

\* What unique_name returns is a name that is not in use.
LEMMA UniqueNameIsNew ==
    ASSUME NEW base \in Name, NEW port \in Nat, NEW used, IsFiniteSet(used)
    PROVE  UniqueName(base, port, used) \in Name \ used
<1> DEFINE count == CHOOSE n \in 2 .. Cardinality(used) + 2 : IsCounter(base, port, used, n)
<1>1. Cardinality(used) \in Nat
    BY FS_CardinalityType
<1>2. count \in 2 .. Cardinality(used) + 2 /\ IsCounter(base, port, used, count)
    BY FirstFreeCounter
<1>3. count \in Nat
    BY <1>1, <1>2
<1>4. UniqueName(base, port, used) =
         IF base \notin used THEN base
         ELSE IF base \o <<port>> \notin used THEN base \o <<port>>
         ELSE base \o <<port, count>>
    BY DEF UniqueName, IsCounter
<1>5. base \o <<port>> \in Name /\ base \o <<port, count>> \in Name
  <2> HIDE DEF count
  <2> QED BY <1>3 DEF Name
<1>6. base \o <<port, count>> \notin used
    BY <1>2 DEF IsCounter
<1> HIDE DEF count
<1> QED BY <1>4, <1>5, <1>6

----------------------------------------------------------------------------
(* Types                                                                   *)

LEMMA LocalHostTyped ==
    ASSUME NEW bind \in Bind
    PROVE  LocalHost(bind) \in Host
    BY DEF Bind, Host, LocalHost

LEMMA OriginTyped ==
    ASSUME NEW l \in Listener
    PROVE  OriginOf(l) \in Origin
<1>1. l.bind \in Bind /\ l.port \in Port
    BY DEF Listener
<1> QED BY <1>1, LocalHostTyped DEF Origin, OriginOf

LEMMA NameBaseTyped ==
    ASSUME NEW d \in Found
    PROVE  NameBase(d) \in Name
<1>1. d.title \in Name /\ (d.process # <<>> => d.process \in Name)
    BY NameAssumption DEF Found
<1>2. <<App>> \in Name
    BY NameAssumption DEF Name
<1> QED BY <1>1, <1>2 DEF NameBase

ManualEntry(a) == [name |-> a.name, origin |-> [host |-> 1, port |-> a.port], source |-> "manual"]
ManualEntries(m) == {ManualEntry(a) : a \in m}

LEMMA ManualEntriesTyped ==
    ASSUME NEW m \in Manuals
    PROVE  ManualEntries(m) \subseteq CatalogApp
<1>1. m \subseteq ManualApp
    BY ManualAssumption
<1>2. \A a \in m : a.name \in Name /\ a.port \in Port
    BY <1>1 DEF ManualApp
<1>3. \A a \in m : [host |-> 1, port |-> a.port] \in Origin
    BY <1>2 DEF Origin, Host
<1>4. \A a \in m : ManualEntry(a) \in CatalogApp
    BY <1>2, <1>3 DEF ManualEntry, CatalogApp
<1> QED BY <1>4 DEF ManualEntries

LEMMA ManualEntriesFinite ==
    ASSUME NEW m \in Manuals
    PROVE  IsFiniteSet(ManualEntries(m))
<1> DEFINE f == [a \in m |-> ManualEntry(a)]
<1>1. IsFiniteSet(m)
    BY ManualAssumption
<1>2. f \in Surjection(m, ManualEntries(m))
    BY DEF Surjection, ManualEntries
<1> HIDE DEF f
<1> QED BY <1>1, <1>2, FS_Surjection

Entry(o) ==
    [name |-> UniqueName(NameBase(cache[o]), o.port, Used), origin |-> o, source |-> "discovered"]

\* The types, and what they rest on: names are counted against a finite
\* set, and the cache changes only when all its apps have been named.
Typed ==
    /\ CatalogTypeOK
    /\ IsFiniteSet(apps)
    /\ at # "name" => unnamed = {}

LEMMA UsedFinite ==
    ASSUME IsFiniteSet(apps)
    PROVE  IsFiniteSet(Used)
<1> DEFINE f == [a \in apps |-> a.name]
<1>1. f \in Surjection(apps, Used)
    BY DEF Surjection, Used
<1> HIDE DEF f
<1> QED BY <1>1, FS_Surjection

\* The entry that an app gets has a name no other entry has.
LEMMA EntryTyped ==
    ASSUME Typed, NEW o \in unnamed
    PROVE  Entry(o) \in CatalogApp /\ Entry(o).name \notin Used
<1>1. o \in Origin /\ cache[o] \in Found
    BY DEF Typed, CatalogTypeOK
<1>2. o.port \in Nat
    BY <1>1, PortAssumption DEF Origin
<1>3. UniqueName(NameBase(cache[o]), o.port, Used) \in Name \ Used
    BY <1>1, <1>2, NameBaseTyped, UsedFinite, UniqueNameIsNew DEF Typed
<1> QED BY <1>1, <1>3 DEF Entry, CatalogApp

LEMMA CatalogInitTyped == CatalogInit => Typed
<1> SUFFICES ASSUME CatalogInit PROVE Typed
    OBVIOUS
<1>1. DOMAIN NothingCached = {} /\ NothingCached \in [{} -> Found]
    BY DEF NothingCached
<1>2. cache = NothingCached /\ shown = NothingCached
    BY DEF CatalogInit
<1>3. IsFiniteSet(apps)
    BY FS_EmptySet DEF CatalogInit
<1> QED BY <1>1, <1>2, <1>3 DEF CatalogInit, Typed, CatalogTypeOK

LEMMA FilterTyped ==
    ASSUME Typed, NEW l \in left, Filter(l)
    PROVE  Typed'
<1>1. l \in Listener /\ at' = at /\ left' \subseteq left
    BY DEF Typed, CatalogTypeOK, Filter, FilterStep
<1>2. UNCHANGED <<filter, cache, unnamed, apps, catalog, shown>>
    BY DEF Filter, FilterStep, nameVars
<1>3. CASE UNCHANGED candidates /\ \E reason : Skip(l, reason)
  <2>1. \A s \in skipped' : s.listener \in Listener
      BY <1>1, <1>3 DEF Typed, CatalogTypeOK, Skip
  <2> QED BY <1>1, <1>2, <1>3, <2>1 DEF Typed, CatalogTypeOK
<1>4. CASE OriginOf(l) \notin Seen /\ Keep(l)
  <2>1. candidates' = candidates \cup {l} /\ skipped' = skipped
      BY <1>4 DEF Keep
  <2>2. \A c \in candidates : OriginOf(c) # OriginOf(l)
      BY <1>4 DEF Seen
  <2>3. \A c, d \in candidates' : OriginOf(c) = OriginOf(d) => c = d
      BY <2>1, <2>2 DEF Typed, CatalogTypeOK
  <2> QED BY <1>1, <1>2, <2>1, <2>3 DEF Typed, CatalogTypeOK
<1> QED BY <1>3, <1>4 DEF Filter, Skip

LEMMA VerifyTyped ==
    ASSUME Typed, Verify
    PROVE  Typed'
<1>1. PICK fresh \in SUBSET (Seen \cap DOMAIN cache) :
        \E found \in SUBSET (Seen \ fresh) :
           \E title \in [found -> Title] :
              cache' = [o \in fresh \cup found |->
                          IF o \in fresh
                          THEN cache[o]
                          ELSE [title |-> title[o], process |-> Owner(o)]]
    BY DEF Verify
<1>2. PICK found \in SUBSET (Seen \ fresh) :
        \E title \in [found -> Title] :
           cache' = [o \in fresh \cup found |->
                       IF o \in fresh
                       THEN cache[o]
                       ELSE [title |-> title[o], process |-> Owner(o)]]
    BY <1>1
<1>3. PICK title \in [found -> Title] :
        cache' = [o \in fresh \cup found |->
                    IF o \in fresh
                    THEN cache[o]
                    ELSE [title |-> title[o], process |-> Owner(o)]]
    BY <1>2
<1>4. Seen \subseteq Origin
    BY OriginTyped DEF Seen, Typed, CatalogTypeOK
<1>5. \A o \in Seen : Owner(o) \in Process \cup {<<>>}
  <2> TAKE o \in Seen
  <2>1. (CHOOSE c \in candidates : OriginOf(c) = o) \in Listener
      BY DEF Seen, Typed, CatalogTypeOK
  <2> QED BY <2>1 DEF Owner, Listener
<1>6. \A o \in fresh : cache[o] \in Found
    BY DEF Typed, CatalogTypeOK
<1>7. \A o \in found : [title |-> title[o], process |-> Owner(o)] \in Found
    BY <1>5 DEF Found
<1>8. DOMAIN cache' = fresh \cup found /\ cache' \in [fresh \cup found -> Found]
    BY <1>3, <1>6, <1>7
<1>9. unnamed = {} /\ unnamed' = unnamed
    BY DEF Verify, nameVars, Typed
<1> QED BY <1>4, <1>8, <1>9 DEF Typed, CatalogTypeOK, Verify, scanVars, nameVars

LEMMA NameNextEffect ==
    ASSUME NEW o \in unnamed, NameNext(o)
    PROVE  /\ at = "name" /\ unnamed' = unnamed \ {o}
           /\ apps' = IF Shadowed(o) THEN apps ELSE apps \cup {Entry(o)}
           /\ UNCHANGED <<at, filter, left, candidates, skipped, cache, catalog, shown>>
           /\ \A p \in unnamed \ {o} : Before(o, p)
    BY DEF NameNext, NameApp, Entry, scanVars

LEMMA NameNextTyped ==
    ASSUME Typed, NEW o \in unnamed, NameNext(o)
    PROVE  Typed'
<1>1. IsFiniteSet(apps')
    BY NameNextEffect, FS_AddElement DEF Typed
<1>2. apps' \subseteq CatalogApp
    BY NameNextEffect, EntryTyped DEF Typed, CatalogTypeOK
<1> QED BY <1>1, <1>2, NameNextEffect DEF Typed, CatalogTypeOK

LEMMA StartRebuildEffect ==
    ASSUME StartRebuild
    PROVE  /\ \E m \in Manuals : apps' = ManualEntries(m)
           /\ at = "rebuild" /\ at' = "name" /\ unnamed' = DOMAIN cache
           /\ UNCHANGED <<filter, left, candidates, skipped, cache, catalog, shown>>
    BY DEF StartRebuild, ManualEntries, ManualEntry, scanVars

LEMMA ListingTyped ==
    ASSUME NEW w, NEW f
    PROVE  Listing(w, f) \subseteq Listener
    BY DEF Listing

LEMMA CatalogStepTyped == Typed /\ [CatalogNext]_catalogVars => Typed'
<1> SUFFICES ASSUME Typed, [CatalogNext]_catalogVars PROVE Typed'
    OBVIOUS
<1>1. CASE Enumerate
  <2>1. left' \subseteq Listener /\ filter' \in Filters
      BY <1>1, ListingTyped DEF Enumerate
  <2> QED BY <1>1, <2>1 DEF Typed, CatalogTypeOK, Enumerate, nameVars
<1>2. CASE ScanDisabled
  <2>1. DOMAIN cache' = {} /\ cache' \in [{} -> Found] /\ unnamed = {}
      BY <1>2 DEF ScanDisabled, NothingCached, Typed
  <2> QED BY <1>2, <2>1 DEF Typed, CatalogTypeOK, ScanDisabled, scanVars, nameVars
<1>3. CASE Verify
    BY <1>3, VerifyTyped
<1>4. CASE StartRebuild
  <2>1. apps' \subseteq CatalogApp /\ IsFiniteSet(apps')
      BY <1>4, StartRebuildEffect, ManualEntriesTyped, ManualEntriesFinite
  <2> QED BY <1>4, <2>1, StartRebuildEffect DEF Typed, CatalogTypeOK
<1>5. CASE Publish
    BY <1>5 DEF Typed, CatalogTypeOK, Publish, scanVars, nameVars
<1>6. ASSUME NEW l \in left, Filter(l) PROVE Typed'
    BY <1>6, FilterTyped
<1>7. ASSUME NEW o \in unnamed, NameNext(o) PROVE Typed'
    BY <1>7, NameNextTyped
<1>8. CASE UNCHANGED catalogVars
    BY <1>8 DEF Typed, CatalogTypeOK, catalogVars, scanVars, nameVars
<1> QED BY <1>1, <1>2, <1>3, <1>4, <1>5, <1>6, <1>7, <1>8 DEF CatalogNext

\* The types of CatalogNames; between the filter and the next scan every
\* origin has one owner.
THEOREM CatalogTyped == CatalogSpec => []CatalogTypeOK
<1>1. Typed => CatalogTypeOK
    BY DEF Typed
<1> QED BY CatalogInitTyped, CatalogStepTyped, <1>1, PTL DEF CatalogSpec

----------------------------------------------------------------------------
(* The filter                                                              *)

\* In the loop: what is kept has passed, and what passed and was dropped
\* has an origin that is seen.
FilterInv ==
    at = "filter" =>
       /\ \A c \in candidates : Passes(c, filter)
       /\ \A s \in skipped : Passes(s.listener, filter) => OriginOf(s.listener) \in Seen

LEMMA FilterKept ==
    ASSUME FilterInv, NEW l \in left, Filter(l)
    PROVE  FilterInv'
<1>1. at = "filter" /\ at' = at /\ filter' = filter
    BY DEF Filter, FilterStep
<1>2. ASSUME NEW reason, Skip(l, reason), Passes(l, filter) => OriginOf(l) \in Seen
      PROVE  FilterInv'
  <2>1. candidates' = candidates /\ Seen' = Seen
      BY <1>2 DEF Skip, Seen
  <2>2. \A s \in skipped' : s \in skipped \/ s.listener = l
      BY <1>2 DEF Skip
  <2> QED BY <1>1, <1>2, <2>1, <2>2 DEF FilterInv
<1>3. CASE Passes(l, filter) /\ Keep(l)
  <2>1. candidates' = candidates \cup {l} /\ skipped' = skipped
      BY <1>3 DEF Keep
  <2>2. Seen \subseteq Seen'
      BY <2>1 DEF Seen
  <2> QED BY <1>1, <1>3, <2>1, <2>2 DEF FilterInv
<1> QED BY <1>2, <1>3 DEF Filter

LEMMA StepFilter == FilterInv /\ [CatalogNext]_catalogVars => FilterInv'
<1> SUFFICES ASSUME FilterInv, [CatalogNext]_catalogVars PROVE FilterInv'
    OBVIOUS
<1>1. CASE Enumerate
    BY <1>1 DEF FilterInv, Enumerate
<1>2. CASE ScanDisabled \/ Verify \/ StartRebuild \/ Publish
    BY <1>2 DEF FilterInv, ScanDisabled, Verify, StartRebuild, Publish
<1>3. ASSUME NEW l \in left, Filter(l) PROVE FilterInv'
    BY <1>3, FilterKept
<1>4. ASSUME NEW o \in unnamed, NameNext(o) PROVE FilterInv'
    BY <1>4, NameNextEffect DEF FilterInv
<1>5. CASE UNCHANGED catalogVars
    BY <1>5 DEF FilterInv, Seen, catalogVars, scanVars
<1> QED BY <1>1, <1>2, <1>3, <1>4, <1>5 DEF CatalogNext

\* The order of the listing decides which owner of an origin is shown, and
\* not which origins a scan goes on with.
THEOREM OrderIsForgotten == CatalogSpec => []OrderDecidesOwnerOnly
<1>1. CatalogInit => FilterInv
    BY DEF CatalogInit, FilterInv
<1>2. FilterInv => OrderDecidesOwnerOnly
  <2> SUFFICES ASSUME FilterInv, at = "filter" PROVE OrderDecidesOwnerOnly
      BY DEF OrderDecidesOwnerOnly
  <2> DEFINE passing == {k \in candidates \cup {s.listener : s \in skipped} : Passes(k, filter)}
  <2>1. \A c \in candidates : c \in passing
      BY DEF FilterInv
  <2>2. \A k \in passing : OriginOf(k) \in Seen
      BY DEF FilterInv, Seen
  <2>3. Seen = {OriginOf(k) : k \in passing}
    <3> HIDE DEF passing
    <3> QED BY <2>1, <2>2 DEF Seen
  <2> QED BY <2>3 DEF OrderDecidesOwnerOnly
<1> QED BY <1>1, <1>2, StepFilter, PTL DEF CatalogSpec

----------------------------------------------------------------------------
(* Names                                                                   *)

UniqueIn(c) == \A a, b \in c : a.name = b.name => a = b

LEMMA ManualNamesUnique ==
    ASSUME NEW m \in Manuals
    PROVE  UniqueIn(ManualEntries(m))
<1>1. \A a, b \in m : a.name = b.name => a = b
    BY ManualAssumption DEF ValidManual
<1>2. \A a \in m : ManualEntry(a).name = a.name
    BY DEF ManualEntry
<1> QED BY <1>1, <1>2 DEF UniqueIn, ManualEntries

LEMMA StepUnique == Typed /\ NamesAreUnique /\ [CatalogNext]_catalogVars => NamesAreUnique'
<1> SUFFICES ASSUME Typed, NamesAreUnique, [CatalogNext]_catalogVars PROVE NamesAreUnique'
    OBVIOUS
<1>1. CASE StartRebuild
    BY <1>1, StartRebuildEffect, ManualNamesUnique DEF NamesAreUnique, UniqueIn
<1>2. ASSUME NEW o \in unnamed, NameNext(o) PROVE NamesAreUnique'
  <2>1. \A a \in apps : a.name # Entry(o).name
      BY EntryTyped DEF Used
  <2> QED BY <1>2, <2>1, NameNextEffect DEF NamesAreUnique
<1>3. CASE UNCHANGED apps
    BY <1>3 DEF NamesAreUnique
<1> QED BY <1>1, <1>2, <1>3
        DEF CatalogNext, Enumerate, ScanDisabled, Verify, Publish, Filter, FilterStep, nameVars, catalogVars

\* No two apps of a catalog, finished or not, have the same name.
THEOREM NamesStayUnique == CatalogSpec => []NamesAreUnique
<1>1. CatalogInit => NamesAreUnique
    BY DEF CatalogInit, NamesAreUnique
<1> QED BY CatalogInitTyped, CatalogStepTyped, StepUnique, <1>1, PTL DEF CatalogSpec

----------------------------------------------------------------------------
(* What is listed                                                          *)

\* A catalog lists the origins in done, each once or under manual names.
Lists(c, done) ==
    /\ \A a \in c : a.source = "discovered" => a.origin \in done
    /\ \A o \in done : \E a \in c : a.origin = o
    /\ \A a, b \in c : a.origin = b.origin /\ a.source = "discovered" => a = b

Named == DOMAIN cache \ unnamed

\* The catalog lists what it was built from, the one in the making what has
\* been named; the cache is not changed before the next scan.
ListInv ==
    /\ Lists(catalog, DOMAIN shown)
    /\ at = "idle" => shown = cache
    /\ at = "name" => Lists(apps, Named)

LEMMA NameNextLists ==
    ASSUME Typed, Lists(apps, Named), NEW o \in unnamed, NameNext(o)
    PROVE  Lists(apps', Named')
<1>1. o \in DOMAIN cache /\ o \notin Named /\ Named' = Named \cup {o}
    BY NameNextEffect DEF Typed, CatalogTypeOK, Named
<1>2. CASE Shadowed(o)
  <2>1. apps' = apps /\ \E a \in apps : a.origin = o
      BY <1>2, NameNextEffect DEF Shadowed
  <2> QED BY <1>1, <2>1 DEF Lists
<1>3. CASE ~Shadowed(o)
  <2>1. apps' = apps \cup {Entry(o)} /\ Entry(o).origin = o /\ Entry(o).source = "discovered"
      BY <1>3, NameNextEffect DEF Entry
  <2>2. \A a \in apps : a.source \in {"manual", "discovered"}
      BY DEF Typed, CatalogTypeOK, CatalogApp
  <2>3. \A a \in apps : a.origin # o
      BY <1>1, <1>3, <2>2 DEF Lists, Shadowed
  <2>4. \A a \in apps' : a.source = "discovered" => a.origin \in Named'
      BY <1>1, <2>1 DEF Lists
  <2>5. \A p \in Named' : \E a \in apps' : a.origin = p
      BY <1>1, <2>1 DEF Lists
  <2>6. \A a, b \in apps' : a.origin = b.origin /\ a.source = "discovered" => a = b
      BY <2>1, <2>3 DEF Lists
  <2> QED BY <2>4, <2>5, <2>6 DEF Lists
<1> QED BY <1>2, <1>3

LEMMA StepLists == Typed /\ ListInv /\ [CatalogNext]_catalogVars => ListInv'
<1> SUFFICES ASSUME Typed, ListInv, [CatalogNext]_catalogVars PROVE ListInv'
    OBVIOUS
<1>1. CASE Enumerate \/ ScanDisabled \/ Verify
    BY <1>1 DEF ListInv, Enumerate, ScanDisabled, Verify
<1>2. CASE StartRebuild
  <2>1. \A a \in apps' : a.source = "manual"
      BY <1>2, StartRebuildEffect DEF ManualEntries, ManualEntry
  <2>2. Named' = {}
      BY <1>2, StartRebuildEffect DEF Named
  <2> QED BY <1>2, <2>1, <2>2, StartRebuildEffect DEF ListInv, Lists
<1>3. CASE Publish
  <2>1. Named = DOMAIN cache
      BY <1>3 DEF Publish, Named
  <2> QED BY <1>3, <2>1 DEF ListInv, Publish
<1>4. ASSUME NEW l \in left, Filter(l) PROVE ListInv'
    BY <1>4 DEF ListInv, Filter, FilterStep
<1>5. ASSUME NEW o \in unnamed, NameNext(o) PROVE ListInv'
    BY <1>5, NameNextLists, NameNextEffect DEF ListInv
<1>6. CASE UNCHANGED catalogVars
    BY <1>6 DEF ListInv, Named, catalogVars, scanVars, nameVars
<1> QED BY <1>1, <1>2, <1>3, <1>4, <1>5, <1>6 DEF CatalogNext

LEMMA InitLists == CatalogInit => ListInv
    BY DEF CatalogInit, ListInv, Lists, NothingCached

\* Every app found is listed, and once: under its manual name or its own.
THEOREM FoundAreListedOnce == CatalogSpec => []ListedOnce
<1>1. Typed /\ ListInv => ListedOnce
  <2> SUFFICES ASSUME Typed, ListInv, at = "idle", NEW o \in DOMAIN cache
               PROVE  /\ \E a \in catalog : a.origin = o
                      /\ \A a, b \in catalog : a.origin = o /\ b.origin = o /\ a # b =>
                            a.source = "manual" /\ b.source = "manual"
      BY DEF ListedOnce
  <2>1. Lists(catalog, DOMAIN cache)
      BY DEF ListInv
  <2>2. \A a \in catalog : a.source \in {"manual", "discovered"}
      BY DEF Typed, CatalogTypeOK, CatalogApp
  <2> QED BY <2>1, <2>2 DEF Lists
<1> QED BY CatalogInitTyped, CatalogStepTyped, InitLists, StepLists, <1>1, PTL DEF CatalogSpec

\* A name leads to one app and an app found has one name.
THEOREM NamesMatchApps == CatalogSpec => []NamesAndAppsMatch
<1>1. NamesAreUnique /\ ListedOnce => NamesAndAppsMatch
    BY DEF NamesAndAppsMatch
<1> QED BY NamesStayUnique, FoundAreListedOnce, <1>1, PTL

----------------------------------------------------------------------------
(* Stability                                                               *)

ComesBefore(a, o) == a.source = "manual" \/ Before(a.origin, o)

\* The names that are taken when the app at o is named.
Earlier(c, o) == {a.name : a \in {b \in c : ComesBefore(b, o)}}

\* Each discovered app has the name that unique_name makes, given the names
\* of the manual apps and of the apps before it.
InOrder(c, found) ==
    \A a \in c : a.source = "discovered" =>
       a.name = UniqueName(NameBase(found[a.origin]), a.origin.port, Earlier(c, a.origin))

\* As far as the naming has come, an app that nothing has changed for has the
\* entry that it has in the last catalog.
Agrees ==
    ManualOf(apps) = ManualOf(catalog) =>
       \A a \in catalog :
          a.source = "discovered" /\ a.origin \in Named /\ SameUpTo(a.origin, shown, cache)
             => a \in apps

OrderInv ==
    /\ InOrder(catalog, shown)
    /\ at = "name" =>
          /\ \A p \in Named, o \in unnamed : Before(p, o)
          /\ InOrder(apps, cache)
          /\ Agrees

LEMMA BeforeIsOrder ==
    /\ \A o \in Origin : ~Before(o, o)
    /\ \A o, p \in Origin : Before(o, p) => ~Before(p, o)
    /\ \A o, p, q \in Origin : Before(o, p) /\ Before(p, q) => Before(o, q)
<1>1. ASSUME NEW o \in Origin PROVE o.port \in Nat /\ o.host \in Nat
  <2>1. o.port \in Port /\ o.host \in 1 .. 3
      BY DEF Origin, Host
  <2>2. o.port \in Nat
      BY <2>1, PortAssumption
  <2>3. o.host \in Nat
      BY <2>1
  <2> QED BY <2>2, <2>3
<1> QED BY <1>1 DEF Before

LEMMA AppsTyped ==
    ASSUME Typed, NEW c \in {apps, catalog}, NEW a \in c
    PROVE  a.origin \in Origin /\ a.source \in {"manual", "discovered"} /\ a \in CatalogApp
    BY DEF Typed, CatalogTypeOK, CatalogApp

\* What is in use when an app is named is what comes before it.
LEMMA UsedIsEarlier ==
    ASSUME Typed, ListInv, OrderInv, at = "name", NEW o \in unnamed
    PROVE  Used = Earlier(apps, o)
<1>1. \A a \in apps : ComesBefore(a, o)
    BY AppsTyped DEF ListInv, OrderInv, Lists, ComesBefore
<1> QED BY <1>1 DEF Used, Earlier

\* An app that is added last changes nothing for those before it.
LEMMA EarlierKept ==
    ASSUME NEW c, NEW a, NEW o, ~ComesBefore(a, o)
    PROVE  Earlier(c \cup {a}, o) = Earlier(c, o)
<1>1. {b \in c \cup {a} : ComesBefore(b, o)} = {b \in c : ComesBefore(b, o)}
    OBVIOUS
<1> QED BY <1>1 DEF Earlier

LEMMA NameNextInOrder ==
    ASSUME Typed, ListInv, OrderInv, NEW o \in unnamed, NameNext(o)
    PROVE  InOrder(apps', cache')
<1>1. at = "name" /\ cache' = cache
    BY NameNextEffect
<1>2. CASE Shadowed(o)
    BY <1>1, <1>2, NameNextEffect DEF OrderInv
<1>3. CASE ~Shadowed(o)
  <2>1. apps' = apps \cup {Entry(o)}
      BY <1>3, NameNextEffect
  <2>2. o \in Origin
      BY DEF Typed, CatalogTypeOK
  <2>3. \A p \in Origin : Before(p, o) \/ p = o => ~ComesBefore(Entry(o), p)
      BY <2>2, BeforeIsOrder DEF ComesBefore, Entry
  <2>4. \A a \in apps : a.source = "discovered" => Before(a.origin, o)
      BY <1>1 DEF ListInv, Lists, OrderInv
  <2>5. ASSUME NEW a \in apps, a.source = "discovered"
        PROVE  a.name = UniqueName(NameBase(cache[a.origin]), a.origin.port,
                                   Earlier(apps', a.origin))
    <3>1. Earlier(apps', a.origin) = Earlier(apps, a.origin)
        BY <2>1, <2>3, <2>4, <2>5, AppsTyped, EarlierKept
    <3> QED BY <1>1, <2>5, <3>1 DEF OrderInv, InOrder
  <2>6. Earlier(apps', o) = Used
      BY <1>1, <2>1, <2>2, <2>3, EarlierKept, UsedIsEarlier
  <2>7. Entry(o).name = UniqueName(NameBase(cache[Entry(o).origin]), Entry(o).origin.port,
                                   Earlier(apps', Entry(o).origin))
      BY <2>6 DEF Entry
  <2> QED BY <1>1, <2>1, <2>5, <2>7 DEF InOrder
<1> QED BY <1>2, <1>3

\* If nothing has changed up to an app, the names before it are the same in
\* both catalogs.
LEMMA SameEarlier ==
    ASSUME Typed, ListInv, OrderInv, at = "name", ManualOf(apps) = ManualOf(catalog),
           NEW o \in unnamed, NameNext(o), SameUpTo(o, shown, cache)
    PROVE  Earlier(catalog, o) = Earlier(apps, o)
<1>1. o \in Origin /\ unnamed \subseteq Origin
    BY DEF Typed, CatalogTypeOK
<1>2. \A p \in Origin : Before(p, o) => SameUpTo(p, shown, cache) /\ p \notin unnamed
  <2> SUFFICES ASSUME NEW p \in Origin, Before(p, o)
               PROVE  SameUpTo(p, shown, cache) /\ p \notin unnamed
      OBVIOUS
  <2>1. SameUpTo(p, shown, cache)
      BY <1>1, BeforeIsOrder DEF SameUpTo
  <2>2. p \notin unnamed
      BY <1>1, BeforeIsOrder, NameNextEffect
  <2> QED BY <2>1, <2>2
<1>3. ASSUME NEW a \in catalog, ComesBefore(a, o) PROVE a \in apps
  <2>1. CASE a.source = "manual"
      BY <2>1 DEF ManualOf
  <2>2. CASE a.source = "discovered" /\ Before(a.origin, o)
    <3>1. a.origin \in Origin /\ a.origin \in DOMAIN shown
        BY <2>2, AppsTyped DEF ListInv, Lists
    <3>2. a.origin \in DOMAIN cache
        BY <2>2, <3>1 DEF SameUpTo
    <3> QED BY <1>2, <2>2, <3>1, <3>2 DEF OrderInv, Agrees, Named
  <2> QED BY <1>3, <2>1, <2>2, AppsTyped DEF ComesBefore
<1>4. ASSUME NEW b \in apps, ComesBefore(b, o) PROVE b \in catalog
  <2>1. CASE b.source = "manual"
      BY <2>1 DEF ManualOf
  <2>2. CASE b.source = "discovered" /\ Before(b.origin, o)
    <3>1. b.origin \in Origin /\ b.origin \in DOMAIN cache
        BY <2>2, AppsTyped DEF ListInv, Lists, Named
    <3>2. b.origin \in DOMAIN shown
        BY <2>2, <3>1 DEF SameUpTo
    <3>3. PICK a \in catalog : a.origin = b.origin
        BY <3>2 DEF ListInv, Lists
    <3>4. a \in apps
        BY <1>3, <2>2, <3>3 DEF ComesBefore
    <3> QED BY <2>2, <3>3, <3>4 DEF ListInv, Lists
  <2> QED BY <1>4, <2>1, <2>2, AppsTyped DEF ComesBefore
<1>5. {a \in catalog : ComesBefore(a, o)} = {b \in apps : ComesBefore(b, o)}
    BY <1>3, <1>4
<1> QED BY <1>5 DEF Earlier

LEMMA NameNextAgrees ==
    ASSUME Typed, ListInv, OrderInv, NEW o \in unnamed, NameNext(o)
    PROVE  Agrees'
<1>1. at = "name" /\ UNCHANGED <<cache, catalog, shown>> /\ Named' \subseteq Named \cup {o}
    BY NameNextEffect DEF Named
<1>2. apps \subseteq apps' /\ ManualOf(apps') = ManualOf(apps)
    BY NameNextEffect DEF ManualOf, Entry
<1>3. SUFFICES ASSUME ManualOf(apps) = ManualOf(catalog),
                      NEW a \in catalog, a.source = "discovered", a.origin \in Named',
                      SameUpTo(a.origin, shown, cache)
               PROVE  a \in apps'
    BY <1>1, <1>2 DEF Agrees
<1>4. CASE a.origin \in Named
    BY <1>1, <1>2, <1>3, <1>4 DEF OrderInv, Agrees
<1>5. CASE a.origin = o
  <2>1. ~Shadowed(o)
    <3>1. \A b \in apps : b.source = "manual" => b \in catalog
        BY <1>3 DEF ManualOf
    <3> QED BY <1>3, <1>5, <3>1 DEF Shadowed, ListInv, Lists
  <2>2. Entry(o) \in apps'
      BY <2>1, NameNextEffect
  <2>3. o \in DOMAIN shown /\ o \in Origin
      BY <1>3, <1>5, AppsTyped DEF ListInv, Lists
  <2>4. NameBase(shown[o]) = NameBase(cache[o])
      BY <1>3, <1>5, <2>3 DEF SameUpTo
  <2>5. Earlier(catalog, o) = Used
      BY <1>1, <1>3, <1>5, SameEarlier, UsedIsEarlier
  <2>6. a.name = Entry(o).name
      BY <1>3, <1>5, <2>4, <2>5 DEF OrderInv, InOrder, Entry
  <2>7. a = Entry(o)
    <3>1. a \in CatalogApp /\ Entry(o) \in CatalogApp
        BY AppsTyped, EntryTyped
    <3>2. a.origin = Entry(o).origin /\ a.source = Entry(o).source
        BY <1>3, <1>5 DEF Entry
    <3> QED BY <2>6, <3>1, <3>2 DEF CatalogApp
  <2> QED BY <2>2, <2>7
<1> QED BY <1>1, <1>3, <1>4, <1>5

LEMMA StepOrder == Typed /\ ListInv /\ OrderInv /\ [CatalogNext]_catalogVars => OrderInv'
<1> SUFFICES ASSUME Typed, ListInv, OrderInv, [CatalogNext]_catalogVars PROVE OrderInv'
    OBVIOUS
<1>1. CASE Enumerate \/ ScanDisabled \/ Verify
    BY <1>1 DEF OrderInv, Enumerate, ScanDisabled, Verify
<1>2. CASE StartRebuild
  <2>1. \A a \in apps' : a.source = "manual"
      BY <1>2, StartRebuildEffect DEF ManualEntries, ManualEntry
  <2>2. Named' = {}
      BY <1>2, StartRebuildEffect DEF Named
  <2>3. InOrder(apps', cache') /\ Agrees'
      BY <2>1, <2>2 DEF InOrder, Agrees
  <2> QED BY <1>2, <2>2, <2>3, StartRebuildEffect DEF OrderInv
<1>3. CASE Publish
    BY <1>3 DEF OrderInv, Publish
<1>4. ASSUME NEW l \in left, Filter(l) PROVE OrderInv'
  <2>1. at' # "name" /\ UNCHANGED <<catalog, shown>>
      BY <1>4 DEF Filter, FilterStep
  <2> QED BY <2>1 DEF OrderInv
<1>5. ASSUME NEW o \in unnamed, NameNext(o) PROVE OrderInv'
  <2>1. \A p \in Named', q \in unnamed' : Before(p, q)
      BY <1>5, NameNextEffect DEF OrderInv, Named
  <2> QED BY <1>5, <2>1, NameNextEffect, NameNextInOrder, NameNextAgrees DEF OrderInv
<1>6. CASE UNCHANGED catalogVars
    BY <1>6 DEF OrderInv, Agrees, Named, catalogVars, scanVars, nameVars
<1> QED BY <1>1, <1>2, <1>3, <1>4, <1>5, <1>6 DEF CatalogNext

KeepsNames ==
    ManualOf(catalog') = ManualOf(catalog) =>
       \A a \in catalog \ ManualOf(catalog) :
          SameUpTo(a.origin, shown, shown') => a \in catalog'

LEMMA PublishKeepsNames ==
    ASSUME Typed, ListInv, OrderInv, Publish
    PROVE  KeepsNames
<1>1. catalog' = apps /\ shown' = cache /\ at = "name" /\ Named = DOMAIN cache
    BY DEF Publish, Named
<1>2. SUFFICES ASSUME ManualOf(apps) = ManualOf(catalog),
                      NEW a \in catalog, a \notin ManualOf(catalog),
                      SameUpTo(a.origin, shown, cache)
               PROVE  a \in apps
    BY <1>1 DEF KeepsNames
<1>3. a.source = "discovered" /\ a.origin \in Origin
    BY <1>2, AppsTyped DEF ManualOf
<1>4. a.origin \in DOMAIN shown
    BY <1>3 DEF ListInv, Lists
<1>5. a.origin \in Named
    BY <1>1, <1>2, <1>3, <1>4 DEF SameUpTo
<1> QED BY <1>1, <1>2, <1>3, <1>5 DEF OrderInv, Agrees

\* From one catalog to the next a discovered app keeps its name, unless the
\* manual apps or what was found up to its origin have changed, in whatever
\* order the sockets and the cache are listed.
THEOREM NamesStayStable == CatalogSpec => NamesAreStable
<1>1. CatalogInit => OrderInv
    BY DEF CatalogInit, OrderInv, InOrder
<1>2. Typed /\ ListInv /\ OrderInv /\ [CatalogNext]_catalogVars => [KeepsNames]_catalogVars
  <2> SUFFICES ASSUME Typed, ListInv, OrderInv, CatalogNext PROVE KeepsNames
      OBVIOUS
  <2>1. CASE Publish
      BY <2>1, PublishKeepsNames
  <2>2. CASE UNCHANGED catalog
      BY <2>2 DEF KeepsNames, ManualOf
  <2>3. ASSUME NEW o \in unnamed, NameNext(o) PROVE UNCHANGED catalog
      BY <2>3, NameNextEffect
  <2> QED BY <2>1, <2>2, <2>3
          DEF CatalogNext, Enumerate, ScanDisabled, Verify, StartRebuild, Filter, FilterStep
<1>3. [][KeepsNames]_catalogVars => NamesAreStable
    BY DEF KeepsNames, NamesAreStable
<1> QED BY CatalogInitTyped, CatalogStepTyped, InitLists, StepLists, StepOrder, <1>1, <1>2, <1>3, PTL DEF CatalogSpec
=============================================================================
