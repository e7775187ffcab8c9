-------------------------- MODULE AuthStateProofs --------------------------
(***************************************************************************)
(* What the runs of AuthState show on small instances, for every set of    *)
(* devices, tokens and tasks.                                              *)
(***************************************************************************)
EXTENDS AuthState, FiniteSetTheorems, SequenceTheorems, TLAPS

(***************************************************************************)
(* Lines: what listing, overlaying and loading do to the set of lines.     *)
(***************************************************************************)

\* A listing of a finite set is a sequence of its members.
LEMMA ListingTyped ==
    ASSUME NEW S, IsFiniteSet(S), NEW s \in SetToSeqs(S)
    PROVE  s \in Seq(S)
<1>1. Cardinality(S) \in Nat
    BY FS_CardinalityType
<1>2. s \in [1 .. Cardinality(S) -> S]
    BY DEF SetToSeqs
<1> QED BY <1>1, <1>2

\* The lines of a sequence over S are in S.
LEMMA LinesOfSeq ==
    ASSUME NEW S, NEW s \in Seq(S)
    PROVE  ToSet(s) \subseteq S
BY DEF ToSet

\* Writing over a file invents no line but junk.
LEMMA OverlaidTyped ==
    ASSUME NEW S, Junk \in S, NEW f \in File, NEW new \in Seq(S), NEW old \in Seq(S),
           NEW lines \in Overlaid(f, new, old)
    PROVE  lines \in Seq(S)
<1>1. <<Junk>> \in Seq(S)
    OBVIOUS
<1>2. \A k \in Nat \ {0} : SubSeq(old, k, Len(old)) \in Seq(S)
    OBVIOUS
<1>3. \A s, t \in Seq(S) : s \o t \in Seq(S)
    OBVIOUS
<1>4. CASE f = "nodes"
    <2>1. lines = OverlaidNodes(new, old)
        BY <1>4 DEF Overlaid
    <2>2. CASE new = <<>> /\ old # <<>>
        <3>1. Tail(old) \in Seq(S)
            BY <2>2
        <3>2. lines = <<Junk>> \o Tail(old)
            BY <2>1, <2>2 DEF OverlaidNodes
        <3> QED BY <1>1, <1>3, <3>1, <3>2
    <2>3. CASE ~(new = <<>> /\ old # <<>>)
        <3>1. Len(new) + 1 \in Nat \ {0}
            OBVIOUS
        <3>2. lines = new \o SubSeq(old, Len(new) + 1, Len(old))
            BY <2>1, <2>3 DEF OverlaidNodes
        <3> QED BY <1>2, <1>3, <3>1, <3>2
    <2> QED BY <2>2, <2>3
<1>5. CASE f # "nodes"
    <2>1. lines \in OverlaidNames(new, old)
        BY <1>5 DEF Overlaid
    <2>2. CASE new = <<>> \/ old = <<>>
        BY <1>3, <2>1, <2>2 DEF OverlaidNames
    <2>3. CASE ~(new = <<>> \/ old = <<>>)
        <3>1. lines = <<Junk>> \/ \E k \in 2 .. Len(old) + 1 : lines = new \o SubSeq(old, k, Len(old))
            BY <2>1, <2>3 DEF OverlaidNames
        <3>2. \A k \in 2 .. Len(old) + 1 : k \in Nat \ {0}
            OBVIOUS
        <3> QED BY <1>1, <1>2, <1>3, <3>1, <3>2
    <2> QED BY <2>2, <2>3
<1> QED BY <1>4, <1>5

(***************************************************************************)
(* Type correctness.                                                       *)
(***************************************************************************)

\* Leaving the lock with copies to save keeps the task records typed.
LEMMA StartSavingTyped ==
    ASSUME TypeOK, NEW t \in Task, NEW copy, DOMAIN copy \subseteq File,
           \A f \in DOMAIN copy : copy[f] \subseteq Device,
           NEW d \in Device \cup {NoDevice}, StartSaving(t, copy, d)
    PROVE  /\ task' \in [Task -> TaskState]
           /\ dirty' \in [File -> BOOLEAN]
<1> DEFINE new == [todo |-> DOMAIN copy,
                   snap |-> [f \in File |-> IF f \in DOMAIN copy THEN copy[f] ELSE {}],
                   at |-> "open", fd |-> "none", revokes |-> d]
<1>1. new \in TaskState
    BY DEF TaskState
<1>2. task' = [task EXCEPT ![t] = new]
    BY DEF StartSaving
<1>3. task \in [Task -> TaskState]
    BY DEF TypeOK
<1>4. task' \in [Task -> TaskState]
    <2> HIDE DEF new
    <2> QED BY <1>1, <1>2, <1>3
<1>5. dirty' \in [File -> BOOLEAN]
    <2>1. dirty' = [f \in File |-> IF f \in DOMAIN copy THEN Saving(f, t) ELSE dirty[f]]
        BY DEF StartSaving
    <2>2. \A f \in File : Saving(f, t) \in BOOLEAN /\ dirty[f] \in BOOLEAN
        BY DEF Saving, TypeOK
    <2> QED BY <2>1, <2>2
<1> QED BY <1>4, <1>5

\* So does finishing a file.
LEMMA NextFileTyped ==
    ASSUME TypeOK, NEW t \in Task
    PROVE  NextFile(t) \in TaskState
<1>1. IdleTask \in TaskState
    BY DEF IdleTask, TaskState
<1>2. Current(t) \in File
    BY DEF Current, File
<1>3. task[t] \in TaskState
    BY DEF TypeOK
<1>4. [task[t] EXCEPT !.todo = @ \ {Current(t)}, !.snap[Current(t)] = {},
                      !.at = "open", !.fd = "none"] \in TaskState
    BY <1>2, <1>3 DEF TaskState
<1> QED BY <1>1, <1>4 DEF NextFile, Finished

\* What is loaded is a set of devices.
LEMMA LoadedTyped ==
    ASSUME NEW f, NEW lines
    PROVE  Loaded(f, lines) \subseteq Device /\ Loaded(f, lines) \subseteq ToSet(lines)
BY DEF Loaded

LEMMA InitTyped == Init => TypeOK
<1> SUFFICES ASSUME Init PROVE TypeOK
    OBVIOUS
<1> USE DEF Init
<1>1. PICK v \in Token : pending = [token |-> v, live |-> TRUE] /\ issued = {v} \cap RandomToken
    OBVIOUS
<1>2. pending \in Pending /\ issued \subseteq RandomToken
    BY <1>1 DEF Pending
<1>3. task \in [Task -> TaskState]
    BY DEF IdleTask, TaskState
<1>4. disk \in [File -> [main : Seq(Line), tmp : Seq(Line), staged : BOOLEAN]]
    OBVIOUS
<1> QED BY <1>2, <1>3, <1>4 DEF TypeOK

LEMMA StepTyped == TypeOK /\ [Next]_vars => TypeOK'
<1> SUFFICES ASSUME TypeOK, [Next]_vars
             PROVE  TypeOK'
    OBVIOUS
<1>1. ASSUME NEW t \in Task, OpenTmp(t)
      PROVE  TypeOK'
    <2>1. Current(t) \in File
        BY DEF Current, File
    <2>2. disk' \in [File -> [main : Seq(Line), tmp : Seq(Line), staged : BOOLEAN]]
        <3>1. disk' = [disk EXCEPT ![Current(t)].tmp = <<>>, ![Current(t)].staged = TRUE]
            BY <1>1 DEF OpenTmp
        <3>2. <<>> \in Seq(Line)
            OBVIOUS
        <3>3. disk \in [File -> [main : Seq(Line), tmp : Seq(Line), staged : BOOLEAN]]
            BY DEF TypeOK
        <3> QED BY <2>1, <3>1, <3>2, <3>3
    <2>3. task' \in [Task -> TaskState]
        <3>1. task' = [task EXCEPT ![t].at = "write", ![t].fd = "tmp"]
            BY <1>1 DEF OpenTmp
        <3>2. task \in [Task -> TaskState]
            BY DEF TypeOK
        <3>3. [task[t] EXCEPT !.at = "write", !.fd = "tmp"] \in TaskState
            BY <3>2 DEF TaskState
        <3> QED BY <3>1, <3>2, <3>3
    <2> QED BY <1>1, <2>2, <2>3 DEF OpenTmp, TypeOK, memory, history
<1>2. ASSUME NEW t \in Task, WriteTmp(t)
      PROVE  TypeOK'
    <2> DEFINE f == Current(t)
    <2>1. f \in File
        BY DEF Current, File
    <2>2. disk[f].main \in Seq(Line) /\ disk[f].tmp \in Seq(Line)
        BY <2>1 DEF TypeOK
    <2>3. PICK new \in SetToSeqs(task[t].snap[f]) :
             CASE task[t].fd = "tmp" ->
                    \E lines \in Overlaid(f, new, disk[f].tmp) : disk' = [disk EXCEPT ![f].tmp = lines]
               [] task[t].fd = "main" ->
                    \E lines \in Overlaid(f, new, disk[f].main) : disk' = [disk EXCEPT ![f].main = lines]
               [] OTHER -> UNCHANGED disk
        BY <1>2 DEF WriteTmp
    <2>4. new \in Seq(Line)
        <3>1. task[t].snap[f] \subseteq Device
            BY <2>1 DEF TypeOK, TaskState
        <3>2. IsFiniteSet(task[t].snap[f])
            BY <3>1, DeviceAssumption, FS_Subset
        <3>3. new \in Seq(task[t].snap[f])
            BY <3>2, ListingTyped
        <3>4. task[t].snap[f] \subseteq Line
            BY <3>1 DEF Line
        <3> QED BY <3>3, <3>4, SeqMonotonic
    <2>5. \A old \in Seq(Line) : \A lines \in Overlaid(f, new, old) : lines \in Seq(Line)
        BY <2>1, <2>4, OverlaidTyped DEF Line
    <2>6. disk' \in [File -> [main : Seq(Line), tmp : Seq(Line), staged : BOOLEAN]]
        <3> HIDE DEF f
        <3>1. CASE task[t].fd = "tmp"
            <4>1. PICK lines \in Overlaid(f, new, disk[f].tmp) : disk' = [disk EXCEPT ![f].tmp = lines]
                BY <2>3, <3>1
            <4>2. lines \in Seq(Line)
                BY <2>2, <2>5
            <4> QED BY <2>1, <4>1, <4>2 DEF TypeOK
        <3>2. CASE task[t].fd = "main"
            <4>1. PICK lines \in Overlaid(f, new, disk[f].main) : disk' = [disk EXCEPT ![f].main = lines]
                BY <2>3, <3>2
            <4>2. lines \in Seq(Line)
                BY <2>2, <2>5
            <4> QED BY <2>1, <4>1, <4>2 DEF TypeOK
        <3>3. CASE task[t].fd \notin {"tmp", "main"}
            BY <2>3, <3>3 DEF TypeOK
        <3> QED BY <3>1, <3>2, <3>3
    <2>7. task' \in [Task -> TaskState]
        <3>1. task' = [task EXCEPT ![t].at = "rename"]
            BY <1>2 DEF WriteTmp
        <3>2. task \in [Task -> TaskState]
            BY DEF TypeOK
        <3> QED BY <3>1, <3>2 DEF TaskState
    <2> QED BY <1>2, <2>6, <2>7 DEF WriteTmp, TypeOK, memory, history
<1>3. ASSUME NEW t \in Task, RenameTmp(t)
      PROVE  TypeOK'
    <2> DEFINE f == Current(t)
    <2>1. f \in File
        BY DEF Current, File
    <2>2. disk' \in [File -> [main : Seq(Line), tmp : Seq(Line), staged : BOOLEAN]]
        <3>1. disk' = [disk EXCEPT ![f] = [main |-> disk[f].tmp, tmp |-> <<>>, staged |-> FALSE]]
            BY <1>3 DEF RenameTmp
        <3>2. disk[f].tmp \in Seq(Line)
            BY <2>1 DEF TypeOK
        <3> HIDE DEF f
        <3>3. [main |-> disk[f].tmp, tmp |-> <<>>, staged |-> FALSE]
                \in [main : Seq(Line), tmp : Seq(Line), staged : BOOLEAN]
            BY <3>2
        <3> QED BY <2>1, <3>1, <3>3 DEF TypeOK
    <2>3. task' \in [Task -> TaskState]
        <3>1. task' = [u \in Task |->
                     CASE u = t -> NextFile(t)
                       [] u # t /\ ~Idle(u) /\ Current(u) = f ->
                            [task[u] EXCEPT !.fd = Renamed(f, @)]
                       [] OTHER -> task[u]]
            BY <1>3 DEF RenameTmp
        <3>2. \A u \in Task : task[u] \in TaskState
            BY DEF TypeOK
        <3>3. \A u \in Task : Renamed(f, task[u].fd) \in {"none", "tmp", "main", "unlinked"}
            BY <3>2 DEF Renamed, TaskState
        <3>4. \A u \in Task : [task[u] EXCEPT !.fd = Renamed(f, @)] \in TaskState
            BY <3>2, <3>3 DEF TaskState
        <3>5. NextFile(t) \in TaskState
            BY NextFileTyped
        <3> HIDE DEF f
        <3> QED BY <3>1, <3>2, <3>4, <3>5
    <2>4. gone' \subseteq Device
        BY <1>3 DEF RenameTmp, Persisted, TypeOK
    <2> QED BY <1>3, <2>2, <2>3, <2>4 DEF RenameTmp, TypeOK, memory
<1>4. ASSUME NEW t \in Task, SaveFails(t)
      PROVE  TypeOK'
    <2>1. Current(t) \in File
        BY DEF Current, File
    <2>2. task' \in [Task -> TaskState]
        BY <1>4, NextFileTyped DEF SaveFails, TypeOK
    <2>3. dirty' \in [File -> BOOLEAN]
        BY <1>4, <2>1 DEF SaveFails, TypeOK
    <2> QED BY <1>4, <2>2, <2>3 DEF SaveFails, TypeOK, memory
<1>5. ASSUME NEW t \in Task, NEW d \in Device, NEW presented \in Presented,
             Authenticate(t, d, presented)
      PROVE  TypeOK'
    <2>1. ASSUME Authorize(t, d)
          PROVE  /\ authenticated' \subseteq Device /\ ever' \subseteq Device
                 /\ gone' \subseteq Device /\ failed' \in Nat
                 /\ task' \in [Task -> TaskState] /\ dirty' \in [File -> BOOLEAN]
        <3> DEFINE copy == [f \in {"nodes"} |-> authenticated \cup {d}]
        <3>1. StartSaving(t, copy, NoDevice)
            BY <2>1 DEF Authorize
        <3>2. DOMAIN copy \subseteq File /\ \A f \in DOMAIN copy : copy[f] \subseteq Device
            BY DEF File, TypeOK
        <3> HIDE DEF copy
        <3>3. task' \in [Task -> TaskState] /\ dirty' \in [File -> BOOLEAN]
            BY <3>1, <3>2, StartSavingTyped
        <3> QED BY <2>1, <3>3 DEF Authorize, TypeOK
    <2>2. Purge => invitations' \subseteq RandomToken /\ lapsed' \subseteq invitations'
        BY DEF Purge, LiveInvitations, TypeOK
    <2>3. CASE BindByLink(t, d, presented)
        BY <2>1, <2>2, <2>3 DEF BindByLink, TypeOK
    <2>4. CASE BindByInvitation(t, d, presented)
        BY <2>1, <2>4 DEF BindByInvitation, LiveInvitations, TypeOK
    <2>5. CASE RefuseNoActiveToken(t, d, presented)
        BY <2>2, <2>5 DEF RefuseNoActiveToken, TypeOK, history
    <2>6. CASE RefuseMismatch(t, d, presented)
        BY <2>2, <2>6 DEF RefuseMismatch, TypeOK, history
    <2> QED BY <1>5, <2>3, <2>4, <2>5, <2>6 DEF Authenticate
<1>6. ASSUME NEW t \in Task, NEW d \in Device, Revoke(t, d)
      PROVE  TypeOK'
    <2> DEFINE copy == [f \in File |-> IF f = "nodes" THEN authenticated \ {d} ELSE named \ {d}]
    <2>1. StartSaving(t, copy, d)
        BY <1>6 DEF Revoke
    <2>2. DOMAIN copy \subseteq File /\ \A f \in DOMAIN copy : copy[f] \subseteq Device
        BY DEF TypeOK
    <2> HIDE DEF copy
    <2>3. task' \in [Task -> TaskState] /\ dirty' \in [File -> BOOLEAN]
        BY <2>1, <2>2, StartSavingTyped
    <2> QED BY <1>6, <2>3 DEF Revoke, TypeOK
<1>7. ASSUME NEW t \in Task, NEW d \in Device, NEW clears \in BOOLEAN, SetDeviceName(t, d, clears)
      PROVE  TypeOK'
    <2> DEFINE copy == [f \in {"names"} |-> named']
    <2>1. StartSaving(t, copy, NoDevice)
        BY <1>7 DEF SetDeviceName
    <2>2. named' \subseteq Device
        BY <1>7 DEF SetDeviceName, TypeOK
    <2>3. DOMAIN copy \subseteq File /\ \A f \in DOMAIN copy : copy[f] \subseteq Device
        BY <2>2 DEF File
    <2> HIDE DEF copy
    <2>4. task' \in [Task -> TaskState] /\ dirty' \in [File -> BOOLEAN]
        BY <2>1, <2>3, StartSavingTyped
    <2> QED BY <1>7, <2>2, <2>4 DEF SetDeviceName, TypeOK
<1>8. ASSUME NEW v \in Token, Mints(v)
      PROVE  issued' \subseteq RandomToken /\ pending' \in Pending /\ failed' \in Nat
    BY <1>8 DEF Mints, Pending, TypeOK
<1>9. ASSUME NEW v \in Token, MintToken(v)
      PROVE  TypeOK'
    BY <1>8, <1>9 DEF MintToken, TypeOK
<1>10. ASSUME NEW v \in Token, Restart(v)
       PROVE  TypeOK'
    <2>1. IdleTask \in TaskState
        BY DEF IdleTask, TaskState
    <2>2. task' \in [Task -> TaskState]
        BY <1>10, <2>1 DEF Restart
    <2>3. authenticated' \subseteq Device /\ named' \subseteq Device
        BY <1>10, LoadedTyped DEF Restart, Loads
    <2>4. dirty' \in [File -> BOOLEAN]
        BY <1>10 DEF Restart
    <2> QED BY <1>8, <1>10, <2>2, <2>3, <2>4 DEF Restart, Loads, TypeOK
<1>11. ASSUME NEW v \in RandomToken, MintInvitation(v)
       PROVE  TypeOK'
    BY <1>11 DEF MintInvitation, LiveInvitations, TypeOK
<1>12. ASSUME NEW v \in RandomToken, InvitationExpires(v)
       PROVE  TypeOK'
    BY <1>12 DEF InvitationExpires, LiveInvitations, TypeOK, history
<1>13. ASSUME NEW n \in Limit, SetMaxAttempts(n)
       PROVE  TypeOK'
    BY <1>13 DEF SetMaxAttempts, TypeOK, history
<1>14. CASE LinkExpires
    <2>1. pending' \in Pending \cup {NoPending}
        <3>1. pending \in Pending
            BY <1>14 DEF LinkExpires, TypeOK, NoPending
        <3>2. pending' = [pending EXCEPT !.live = FALSE]
            BY <1>14 DEF LinkExpires
        <3> QED BY <3>1, <3>2 DEF Pending
    <2> QED BY <1>14, <2>1 DEF LinkExpires, TypeOK, history
<1>15. CASE UNCHANGED vars
    BY <1>15 DEF TypeOK, vars, memory, history
<1> QED
    BY <1>1, <1>2, <1>3, <1>4, <1>5, <1>6, <1>7, <1>9, <1>10, <1>11, <1>12, <1>13, <1>14, <1>15
    DEF Next

\* Type correctness of AuthState, whatever its tasks interleave.
THEOREM TypeCorrect == Spec => []TypeOK
<1>1. Init => TypeOK
    BY InitTyped
<1>2. TypeOK /\ [Next]_vars => TypeOK'
    BY StepTyped
<1> QED BY <1>1, <1>2, PTL DEF Spec

(***************************************************************************)
(* Safety.  Names and tokens are accounted for in memory alone; that the   *)
(* files hold only devices that paired also needs that every copy a task   *)
(* carries does (KnownDevices): the files are written from the copies.     *)
(***************************************************************************)

KnownDevices ==
    /\ authenticated \subseteq ever
    /\ \A t \in Task, f \in File : task[t].snap[f] \subseteq ever

FreshTokens ==
    /\ invitations \subseteq issued
    /\ redeemed \subseteq issued \ invitations

IInv ==
    /\ TypeOK
    /\ NamedAreAuthorized
    /\ FreshTokens
    /\ KnownDevices
    /\ DiskOnlyPaired

\* Only a step that changes the trust set, the names or the tokens matters here.
LEMMA InitSafe == Init => NamedAreAuthorized /\ FreshTokens /\ KnownDevices /\ DiskOnlyPaired
<1> SUFFICES ASSUME Init
             PROVE  NamedAreAuthorized /\ FreshTokens /\ KnownDevices /\ DiskOnlyPaired
    OBVIOUS
<1>1. NamedAreAuthorized /\ FreshTokens
    BY DEF Init, NamedAreAuthorized, FreshTokens
<1>2. KnownDevices
    BY DEF Init, KnownDevices, IdleTask
<1>3. ToSet(<<>>) = {}
    BY DEF ToSet
<1>4. DiskOnlyPaired
    BY <1>3 DEF Init, DiskOnlyPaired
<1> QED BY <1>1, <1>2, <1>4

LEMMA StepNamed == TypeOK /\ NamedAreAuthorized /\ [Next]_vars => NamedAreAuthorized'
<1> SUFFICES ASSUME TypeOK, NamedAreAuthorized, [Next]_vars
             PROVE  named' \subseteq authenticated'
    BY DEF NamedAreAuthorized
<1> USE DEF NamedAreAuthorized
<1>1. ASSUME NEW t \in Task, OpenTmp(t) \/ WriteTmp(t) \/ RenameTmp(t) \/ SaveFails(t)
      PROVE  UNCHANGED <<named, authenticated>>
    BY <1>1 DEF OpenTmp, WriteTmp, RenameTmp, SaveFails, memory
<1>2. ASSUME NEW t \in Task, NEW d \in Device, NEW presented \in Presented,
             Authenticate(t, d, presented)
      PROVE  named' \subseteq authenticated'
    BY <1>2 DEF Authenticate, BindByLink, BindByInvitation, RefuseNoActiveToken, RefuseMismatch,
                Authorize
<1>3. ASSUME NEW t \in Task, NEW d \in Device,
             Revoke(t, d) \/ \E clears \in BOOLEAN : SetDeviceName(t, d, clears)
      PROVE  named' \subseteq authenticated'
    BY <1>3 DEF Revoke, SetDeviceName
<1>4. ASSUME NEW v \in Token, MintToken(v) \/ Restart(v)
      PROVE  named' \subseteq authenticated'
    BY <1>4 DEF MintToken, Restart, Loads
<1>5. ASSUME NEW v \in RandomToken, MintInvitation(v) \/ InvitationExpires(v)
      PROVE  named' \subseteq authenticated'
    BY <1>5 DEF MintInvitation, InvitationExpires
<1>6. CASE (\E n \in Limit : SetMaxAttempts(n)) \/ LinkExpires \/ UNCHANGED vars
    BY <1>6 DEF SetMaxAttempts, LinkExpires, vars, memory
<1> QED BY <1>1, <1>2, <1>3, <1>4, <1>5, <1>6 DEF Next

LEMMA StepFresh == TypeOK /\ FreshTokens /\ [Next]_vars => FreshTokens'
<1> SUFFICES ASSUME TypeOK, FreshTokens, [Next]_vars
             PROVE  FreshTokens'
    OBVIOUS
<1> USE DEF FreshTokens
<1>1. ASSUME NEW t \in Task, OpenTmp(t) \/ WriteTmp(t) \/ RenameTmp(t) \/ SaveFails(t)
      PROVE  UNCHANGED <<invitations, issued, redeemed>>
    BY <1>1 DEF OpenTmp, WriteTmp, RenameTmp, SaveFails, memory, history
<1>2. ASSUME NEW t \in Task, NEW d \in Device, NEW presented \in Presented,
             Authenticate(t, d, presented)
      PROVE  FreshTokens'
    <2>1. CASE BindByInvitation(t, d, presented)
        BY <2>1 DEF BindByInvitation, Authorize, LiveInvitations
    <2>2. CASE BindByLink(t, d, presented)
        BY <2>2 DEF BindByLink, Authorize, Purge, LiveInvitations
    <2>3. CASE RefuseNoActiveToken(t, d, presented) \/ RefuseMismatch(t, d, presented)
        BY <2>3 DEF RefuseNoActiveToken, RefuseMismatch, Purge, LiveInvitations, history
    <2> QED BY <1>2, <2>1, <2>2, <2>3 DEF Authenticate
<1>3. ASSUME NEW t \in Task, NEW d \in Device,
             Revoke(t, d) \/ \E clears \in BOOLEAN : SetDeviceName(t, d, clears)
      PROVE  FreshTokens'
    BY <1>3 DEF Revoke, SetDeviceName
<1>4. ASSUME NEW v \in Token, MintToken(v) \/ Restart(v)
      PROVE  FreshTokens'
    BY <1>4 DEF MintToken, Restart, Loads, Mints
<1>5. ASSUME NEW v \in RandomToken, MintInvitation(v) \/ InvitationExpires(v)
      PROVE  FreshTokens'
    BY <1>5 DEF MintInvitation, InvitationExpires, LiveInvitations, history
<1>6. CASE (\E n \in Limit : SetMaxAttempts(n)) \/ LinkExpires \/ UNCHANGED vars
    BY <1>6 DEF SetMaxAttempts, LinkExpires, vars, memory, history
<1> QED BY <1>1, <1>2, <1>3, <1>4, <1>5, <1>6 DEF Next

\* A task carries no copy but the one it was given under the lock.
LEMMA StartSavingCopies ==
    ASSUME TypeOK, NEW t \in Task, NEW copy, NEW d, NEW E, StartSaving(t, copy, d),
           \A f \in DOMAIN copy : copy[f] \subseteq E,
           \A u \in Task, f \in File : task[u].snap[f] \subseteq E
    PROVE  \A u \in Task, f \in File : task'[u].snap[f] \subseteq E
<1> DEFINE new == [todo |-> DOMAIN copy,
                   snap |-> [f \in File |-> IF f \in DOMAIN copy THEN copy[f] ELSE {}],
                   at |-> "open", fd |-> "none", revokes |-> d]
<1>1. task' = [task EXCEPT ![t] = new]
    BY DEF StartSaving
<1>2. \A f \in File : new.snap[f] \subseteq E
    OBVIOUS
<1>3. \A u \in Task : task'[u] = IF u = t THEN new ELSE task[u]
    <2> HIDE DEF new
    <2> QED BY <1>1 DEF TypeOK
<1> HIDE DEF new
<1> QED BY <1>2, <1>3

\* Saving moves copies to the files and drops them; it makes none.
LEMMA SaveStepCopies ==
    ASSUME TypeOK, NEW t \in Task, NEW E,
           OpenTmp(t) \/ WriteTmp(t) \/ RenameTmp(t) \/ SaveFails(t),
           \A u \in Task, f \in File : task[u].snap[f] \subseteq E
    PROVE  \A u \in Task, f \in File : task'[u].snap[f] \subseteq E
<1>1. \A u \in Task : task[u] \in TaskState
    BY DEF TypeOK
<1>2. \A f \in File : NextFile(t).snap[f] \subseteq E
    <2> DEFINE rest == [task[t] EXCEPT !.todo = @ \ {Current(t)}, !.snap[Current(t)] = {},
                                       !.at = "open", !.fd = "none"]
    <2>1. \A f \in File : IdleTask.snap[f] = {}
        BY DEF IdleTask
    <2>2. \A f \in File : rest.snap[f] \subseteq E
        BY <1>1 DEF TaskState
    <2>3. NextFile(t) = IdleTask \/ NextFile(t) = rest
        BY DEF NextFile, Finished
    <2> HIDE DEF rest
    <2> QED BY <2>1, <2>2, <2>3
<1>3. CASE OpenTmp(t)
    BY <1>1, <1>3 DEF OpenTmp, TypeOK, TaskState
<1>4. CASE WriteTmp(t)
    BY <1>1, <1>4 DEF WriteTmp, TypeOK, TaskState
<1>5. CASE RenameTmp(t)
    <2>1. \A u \in Task : \/ task'[u] = NextFile(t)
                          \/ task'[u] = [task[u] EXCEPT !.fd = Renamed(Current(t), @)]
                          \/ task'[u] = task[u]
        BY <1>5 DEF RenameTmp
    <2>2. \A u \in Task : [task[u] EXCEPT !.fd = Renamed(Current(t), @)].snap = task[u].snap
        BY <1>1 DEF TaskState
    <2> QED BY <1>2, <2>1, <2>2
<1>6. CASE SaveFails(t)
    <2>1. \A u \in Task : task'[u] = IF u = t THEN NextFile(t) ELSE task[u]
        BY <1>6 DEF SaveFails, TypeOK
    <2> QED BY <1>2, <2>1
<1> QED BY <1>3, <1>4, <1>5, <1>6

LEMMA StepKnown == IInv /\ [Next]_vars => KnownDevices'
<1> SUFFICES ASSUME IInv, [Next]_vars
             PROVE  KnownDevices'
    OBVIOUS
<1> USE DEF IInv
<1>1. ASSUME NEW t \in Task, OpenTmp(t) \/ WriteTmp(t) \/ RenameTmp(t) \/ SaveFails(t)
      PROVE  KnownDevices'
    <2>1. UNCHANGED <<authenticated, ever>>
        BY <1>1 DEF OpenTmp, WriteTmp, RenameTmp, SaveFails, memory, history
    <2>2. \A u \in Task, f \in File : task'[u].snap[f] \subseteq ever
        BY <1>1, SaveStepCopies DEF KnownDevices
    <2> QED BY <2>1, <2>2 DEF KnownDevices
<1>2. ASSUME NEW t \in Task, NEW d \in Device, NEW presented \in Presented,
             Authenticate(t, d, presented)
      PROVE  KnownDevices'
    <2>1. CASE BindByLink(t, d, presented) \/ BindByInvitation(t, d, presented)
        <3> DEFINE copy == [f \in {"nodes"} |-> authenticated \cup {d}]
        <3>1. Authorize(t, d)
            BY <2>1 DEF BindByLink, BindByInvitation
        <3>2. /\ StartSaving(t, copy, NoDevice)
              /\ authenticated' = authenticated \cup {d}
              /\ ever' = ever \cup {d}
            BY <3>1 DEF Authorize
        <3>3. /\ \A f \in DOMAIN copy : copy[f] \subseteq ever'
              /\ \A u \in Task, f \in File : task[u].snap[f] \subseteq ever'
            BY <3>2 DEF KnownDevices
        <3> HIDE DEF copy
        <3>4. \A u \in Task, f \in File : task'[u].snap[f] \subseteq ever'
            BY <3>2, <3>3, StartSavingCopies
        <3> QED BY <3>2, <3>4 DEF KnownDevices
    <2>2. CASE RefuseNoActiveToken(t, d, presented) \/ RefuseMismatch(t, d, presented)
        BY <2>2 DEF RefuseNoActiveToken, RefuseMismatch, history, KnownDevices
    <2> QED BY <1>2, <2>1, <2>2 DEF Authenticate
<1>3. ASSUME NEW t \in Task, NEW d \in Device, Revoke(t, d)
      PROVE  KnownDevices'
    <2> DEFINE copy == [f \in File |-> IF f = "nodes" THEN authenticated \ {d} ELSE named \ {d}]
    <2>1. StartSaving(t, copy, d) /\ authenticated' = authenticated \ {d} /\ ever' = ever
        BY <1>3 DEF Revoke
    <2>2. \A f \in DOMAIN copy : copy[f] \subseteq ever
        BY DEF KnownDevices, NamedAreAuthorized
    <2> HIDE DEF copy
    <2>3. \A u \in Task, f \in File : task'[u].snap[f] \subseteq ever
        BY <2>1, <2>2, StartSavingCopies DEF KnownDevices
    <2> QED BY <2>1, <2>3 DEF KnownDevices
<1>4. ASSUME NEW t \in Task, NEW d \in Device, NEW clears \in BOOLEAN, SetDeviceName(t, d, clears)
      PROVE  KnownDevices'
    <2> DEFINE copy == [f \in {"names"} |-> named']
    <2>1. StartSaving(t, copy, NoDevice) /\ UNCHANGED <<authenticated, ever>>
        BY <1>4 DEF SetDeviceName
    <2>2. \A f \in DOMAIN copy : copy[f] \subseteq ever
        BY <1>4 DEF SetDeviceName, KnownDevices, NamedAreAuthorized
    <2> HIDE DEF copy
    <2>3. \A u \in Task, f \in File : task'[u].snap[f] \subseteq ever
        BY <2>1, <2>2, StartSavingCopies DEF KnownDevices
    <2> QED BY <2>1, <2>3 DEF KnownDevices
<1>5. ASSUME NEW v \in Token, Restart(v)
      PROVE  KnownDevices'
    <2>1. authenticated' \subseteq ever
        <3>1. authenticated' \subseteq ToSet(disk["nodes"].main) /\ authenticated' \subseteq Device
            BY <1>5, LoadedTyped DEF Restart, Loads
        <3>2. ToSet(disk["nodes"].main) \subseteq ever \cup {Junk}
            BY DEF DiskOnlyPaired, File
        <3> QED BY <3>1, <3>2, DeviceAssumption
    <2>2. \A u \in Task, f \in File : task'[u].snap[f] = {}
        BY <1>5 DEF Restart, IdleTask
    <2> QED BY <1>5, <2>1, <2>2 DEF Restart, KnownDevices
<1>6. ASSUME NEW v \in Token, MintToken(v)
      PROVE  KnownDevices'
    BY <1>6 DEF MintToken, KnownDevices
<1>7. ASSUME NEW v \in RandomToken, MintInvitation(v) \/ InvitationExpires(v)
      PROVE  KnownDevices'
    BY <1>7 DEF MintInvitation, InvitationExpires, history, KnownDevices
<1>8. CASE (\E n \in Limit : SetMaxAttempts(n)) \/ LinkExpires \/ UNCHANGED vars
    BY <1>8 DEF SetMaxAttempts, LinkExpires, vars, memory, history, KnownDevices
<1> QED BY <1>1, <1>2, <1>3, <1>4, <1>5, <1>6, <1>7, <1>8 DEF Next

\* The lines of a file are in S exactly when the file is a sequence over S.
LEMMA SeqOfLines ==
    ASSUME NEW S, NEW T, NEW s \in Seq(T), ToSet(s) \subseteq S
    PROVE  s \in Seq(S)
<1>1. s \in [1 .. Len(s) -> S]
    BY DEF ToSet
<1> QED BY <1>1

LEMMA StepDisk == IInv /\ [Next]_vars => DiskOnlyPaired'
<1> SUFFICES ASSUME IInv, [Next]_vars
             PROVE  DiskOnlyPaired'
    OBVIOUS
<1> USE DEF IInv
<1> DEFINE S == ever \cup {Junk}
<1>1. \A f \in File : disk[f].main \in Seq(S) /\ disk[f].tmp \in Seq(S)
    BY SeqOfLines DEF DiskOnlyPaired, TypeOK
<1>2. ASSUME ever' = ever,
             \A f \in File : disk'[f].main \in Seq(S) /\ disk'[f].tmp \in Seq(S)
      PROVE  DiskOnlyPaired'
    <2>1. \A f \in File : ToSet(disk'[f].main) \subseteq S /\ ToSet(disk'[f].tmp) \subseteq S
        BY <1>2, LinesOfSeq
    <2> QED BY <1>2, <2>1 DEF DiskOnlyPaired
<1>3. ASSUME NEW t \in Task, OpenTmp(t)
      PROVE  DiskOnlyPaired'
    <2>1. disk' = [disk EXCEPT ![Current(t)].tmp = <<>>, ![Current(t)].staged = TRUE]
        BY <1>3 DEF OpenTmp
    <2>2. <<>> \in Seq(S)
        OBVIOUS
    <2>3. \A f \in File : disk'[f].main \in Seq(S) /\ disk'[f].tmp \in Seq(S)
        <3> HIDE DEF S
        <3> QED BY <1>1, <2>1, <2>2 DEF TypeOK
    <2> QED BY <1>2, <1>3, <2>3 DEF OpenTmp, history
<1>4. ASSUME NEW t \in Task, WriteTmp(t)
      PROVE  DiskOnlyPaired'
    <2> DEFINE f == Current(t)
    <2>1. f \in File
        BY DEF Current, File
    <2>2. PICK new \in SetToSeqs(task[t].snap[f]) :
             CASE task[t].fd = "tmp" ->
                    \E lines \in Overlaid(f, new, disk[f].tmp) : disk' = [disk EXCEPT ![f].tmp = lines]
               [] task[t].fd = "main" ->
                    \E lines \in Overlaid(f, new, disk[f].main) : disk' = [disk EXCEPT ![f].main = lines]
               [] OTHER -> UNCHANGED disk
        BY <1>4 DEF WriteTmp
    <2>3. new \in Seq(S)
        <3>1. task[t].snap[f] \subseteq Device
            BY <2>1 DEF TypeOK, TaskState
        <3>2. IsFiniteSet(task[t].snap[f])
            BY <3>1, DeviceAssumption, FS_Subset
        <3>3. new \in Seq(task[t].snap[f])
            BY <3>2, ListingTyped
        <3>4. task[t].snap[f] \subseteq S
            BY <2>1 DEF KnownDevices
        <3> QED BY <3>3, <3>4, SeqMonotonic
    <2>4. \A old \in Seq(S) : \A lines \in Overlaid(f, new, old) : lines \in Seq(S)
        BY <2>1, <2>3, OverlaidTyped
    <2>5. \A g \in File : disk'[g].main \in Seq(S) /\ disk'[g].tmp \in Seq(S)
        <3> HIDE DEF f, S
        <3>1. CASE task[t].fd = "tmp"
            <4>1. PICK lines \in Overlaid(f, new, disk[f].tmp) : disk' = [disk EXCEPT ![f].tmp = lines]
                BY <2>2, <3>1
            <4>2. lines \in Seq(S)
                BY <1>1, <2>1, <2>4
            <4> QED BY <1>1, <2>1, <4>1, <4>2 DEF TypeOK
        <3>2. CASE task[t].fd = "main"
            <4>1. PICK lines \in Overlaid(f, new, disk[f].main) : disk' = [disk EXCEPT ![f].main = lines]
                BY <2>2, <3>2
            <4>2. lines \in Seq(S)
                BY <1>1, <2>1, <2>4
            <4> QED BY <1>1, <2>1, <4>1, <4>2 DEF TypeOK
        <3>3. CASE task[t].fd \notin {"tmp", "main"}
            BY <1>1, <2>2, <3>3
        <3> QED BY <3>1, <3>2, <3>3
    <2> QED BY <1>2, <1>4, <2>5 DEF WriteTmp, history
<1>5. ASSUME NEW t \in Task, RenameTmp(t)
      PROVE  DiskOnlyPaired'
    <2> DEFINE f == Current(t)
    <2>1. f \in File
        BY DEF Current, File
    <2>2. disk' = [disk EXCEPT ![f] = [main |-> disk[f].tmp, tmp |-> <<>>, staged |-> FALSE]]
        BY <1>5 DEF RenameTmp
    <2>3. <<>> \in Seq(S)
        OBVIOUS
    <2>4. \A g \in File : disk'[g].main \in Seq(S) /\ disk'[g].tmp \in Seq(S)
        <3> HIDE DEF f, S
        <3> QED BY <1>1, <2>1, <2>2, <2>3 DEF TypeOK
    <2> QED BY <1>2, <1>5, <2>4 DEF RenameTmp
<1>6. ASSUME UNCHANGED disk, ever \subseteq ever'
      PROVE  DiskOnlyPaired'
    BY <1>6 DEF DiskOnlyPaired
<1>7. ASSUME NEW t \in Task, SaveFails(t)
      PROVE  DiskOnlyPaired'
    BY <1>6, <1>7 DEF SaveFails
<1>8. ASSUME NEW t \in Task, NEW d \in Device, NEW presented \in Presented,
             Authenticate(t, d, presented)
      PROVE  DiskOnlyPaired'
    BY <1>6, <1>8 DEF Authenticate, BindByLink, BindByInvitation, RefuseNoActiveToken,
                      RefuseMismatch, Authorize, history
<1>9. ASSUME NEW t \in Task, NEW d \in Device,
             Revoke(t, d) \/ \E clears \in BOOLEAN : SetDeviceName(t, d, clears)
      PROVE  DiskOnlyPaired'
    BY <1>6, <1>9 DEF Revoke, SetDeviceName
<1>10. ASSUME NEW v \in Token, MintToken(v) \/ Restart(v)
       PROVE  DiskOnlyPaired'
    BY <1>6, <1>10 DEF MintToken, Restart
<1>11. ASSUME NEW v \in RandomToken, MintInvitation(v) \/ InvitationExpires(v)
       PROVE  DiskOnlyPaired'
    BY <1>6, <1>11 DEF MintInvitation, InvitationExpires, history
<1>12. CASE (\E n \in Limit : SetMaxAttempts(n)) \/ LinkExpires \/ UNCHANGED vars
    BY <1>6, <1>12 DEF SetMaxAttempts, LinkExpires, vars, memory, history
<1> QED BY <1>3, <1>4, <1>5, <1>7, <1>8, <1>9, <1>10, <1>11, <1>12 DEF Next

LEMMA Inductive == Spec => []IInv
<1>1. Init => IInv
    BY InitTyped, InitSafe DEF IInv
<1>2. IInv /\ [Next]_vars => IInv'
    BY StepTyped, StepNamed, StepFresh, StepKnown, StepDisk DEF IInv
<1> QED BY <1>1, <1>2, PTL DEF Spec

\* The files name only devices that paired, whatever overlaps, fails or is
\* cut short while they are written (save_authorized, save_names).
THEOREM DiskIsPaired == Spec => []DiskOnlyPaired
<1>1. IInv => DiskOnlyPaired
    BY DEF IInv
<1> QED BY <1>1, Inductive, PTL

\* A redeemed invitation is never outstanding again (authenticate).
THEOREM InvitationsAreSpent == Spec => []InvitationSpentOnce
<1>1. IInv => InvitationSpentOnce
    BY DEF IInv, FreshTokens, InvitationSpentOnce
<1> QED BY <1>1, Inductive, PTL

\* Names belong to authorized devices (revoke, set_device_name, load_at).
THEOREM NamesAreAuthorized == Spec => []NamedAreAuthorized
<1>1. IInv => NamedAreAuthorized
    BY DEF IInv
<1> QED BY <1>1, Inductive, PTL

\* What a restart loads is sound: see StoreIsSound of AuthState.
THEOREM StoreStaysSound == Spec => []StoreIsSound
<1>1. DiskOnlyPaired /\ NamedAreAuthorized => StoreIsSound
    BY DEF StoreIsSound
<1> QED BY DiskIsPaired, NamesAreAuthorized, <1>1, PTL

(***************************************************************************)
(* Refinement: every step of auth.rs is a step of DeviceTrust or none.     *)
(***************************************************************************)

LinkNow == IF pending.live THEN pending.token ELSE NoToken

\* Nothing that DeviceTrust sees has changed.
Unseen == UNCHANGED <<authenticated, ever, LinkNow, LiveInvitations, issued>>

LEMMA UnseenIsStutter == Unseen => UNCHANGED Trust!vars
BY DEF Unseen, Trust!vars, LinkNow

LEMMA InitRefines == TypeOK /\ Init => Trust!Init
<1> SUFFICES ASSUME TypeOK, Init
             PROVE  Trust!Init
    OBVIOUS
<1>1. PICK v \in Token : pending = [token |-> v, live |-> TRUE] /\ issued = {v} \cap RandomToken
    BY DEF Init
<1>2. pending.live /\ pending.token = v
    BY <1>1
<1>3. v \in issued \cup FixedToken
    BY <1>1 DEF Token
<1>4. issued \cup FixedToken \subseteq Token
    BY DEF TypeOK, Token
<1>5. LiveInvitations = {}
    BY DEF Init, LiveInvitations
<1> QED BY <1>2, <1>3, <1>4, <1>5 DEF Init, Trust!Init

LEMMA StepRefines == IInv /\ [Next]_vars => [Trust!Next]_(Trust!vars)
<1> SUFFICES ASSUME IInv, [Next]_vars
             PROVE  Trust!Next \/ UNCHANGED Trust!vars
    OBVIOUS
<1> USE DEF IInv
<1>1. Purge => LiveInvitations' = LiveInvitations
    BY DEF Purge, LiveInvitations
<1>2. ASSUME NEW t \in Task, OpenTmp(t) \/ WriteTmp(t) \/ RenameTmp(t) \/ SaveFails(t)
      PROVE  Unseen
    BY <1>2 DEF OpenTmp, WriteTmp, RenameTmp, SaveFails, memory, history, Unseen, LinkNow,
                LiveInvitations
<1>3. ASSUME NEW t \in Task, NEW d \in Device, NEW presented \in Presented,
             Authenticate(t, d, presented)
      PROVE  Trust!Next \/ UNCHANGED Trust!vars
    <2>1. CASE BindByLink(t, d, presented)
        <3>1. pending.token # NoToken
            BY <2>1, TokenAssumption DEF BindByLink, TypeOK, Pending, NoPending
        <3>2. Trust!PairByLink(d)
            BY <1>1, <2>1, <3>1 DEF BindByLink, Authorize, Trust!PairByLink
        <3> QED BY <3>2 DEF Trust!Next
    <2>2. CASE BindByInvitation(t, d, presented)
        <3>1. LiveInvitations' = LiveInvitations \ {presented} /\ presented \in LiveInvitations
            BY <2>2 DEF BindByInvitation, LiveInvitations
        <3>2. presented \in Token
            BY <3>1 DEF LiveInvitations, TypeOK, Token
        <3>3. Trust!PairByInvite(d, presented)
            BY <2>2, <3>1 DEF BindByInvitation, Authorize, Trust!PairByInvite
        <3> QED BY <3>2, <3>3 DEF Trust!Next
    <2>3. CASE RefuseNoActiveToken(t, d, presented)
        BY <1>1, <2>3, UnseenIsStutter DEF RefuseNoActiveToken, NoPending, history, Unseen, LinkNow
    <2>4. CASE RefuseMismatch(t, d, presented)
        <3>1. CASE pending' = pending
            BY <1>1, <2>4, <3>1, UnseenIsStutter DEF RefuseMismatch, history, Unseen, LinkNow
        <3>2. CASE pending' = NoPending
            <4>1. Trust!CloseLink
                BY <1>1, <2>4, <3>2 DEF RefuseMismatch, NoPending, history, Trust!CloseLink
            <4> QED BY <4>1 DEF Trust!Next
        <3> QED BY <2>4, <3>1, <3>2 DEF RefuseMismatch
    <2> QED BY <1>3, <2>1, <2>2, <2>3, <2>4 DEF Authenticate
<1>4. ASSUME NEW t \in Task, NEW d \in Device, Revoke(t, d)
      PROVE  Trust!Next
    <2>1. Trust!Revoke(d)
        BY <1>4 DEF Revoke, LiveInvitations, Trust!Revoke
    <2> QED BY <2>1 DEF Trust!Next
<1>5. ASSUME NEW t \in Task, NEW d \in Device, NEW clears \in BOOLEAN, SetDeviceName(t, d, clears)
      PROVE  Unseen
    BY <1>5 DEF SetDeviceName, LiveInvitations, LinkNow, Unseen
<1>6. ASSUME NEW v \in Token, Mints(v)
      PROVE  /\ LinkNow' = v
             /\ (issued \cup FixedToken)' = (issued \cup FixedToken) \cup {v}
             /\ v \notin LiveInvitations
    <2>1. LinkNow' = v
        BY <1>6 DEF Mints, LinkNow
    <2>2. v \notin LiveInvitations
        BY <1>6, TokenAssumption DEF Mints, LiveInvitations, FreshTokens, TypeOK
    <2> QED BY <1>6, <2>1, <2>2 DEF Mints, Token
<1>7. ASSUME NEW v \in Token, MintToken(v)
      PROVE  Trust!Next
    <2>1. LiveInvitations' = LiveInvitations
        BY <1>7 DEF MintToken, LiveInvitations
    <2>2. Trust!OpenLink(v)
        BY <1>6, <1>7, <2>1 DEF MintToken, LinkNow, Trust!OpenLink
    <2> QED BY <2>2 DEF Trust!Next
<1>8. ASSUME NEW v \in Token, Restart(v)
      PROVE  Trust!Next
    <2>1. authenticated' \subseteq ever
        <3>1. KnownDevices' /\ ever' = ever
            BY <1>8, StepKnown DEF Restart
        <3> QED BY <3>1 DEF KnownDevices
    <2>2. LiveInvitations' = {}
        BY <1>8 DEF Restart, Loads, LiveInvitations
    <2>3. Trust!Restart(authenticated', v)
        BY <1>6, <1>8, <2>2 DEF Restart, LinkNow, Trust!Restart
    <2> QED BY <2>1, <2>3 DEF Trust!Next
<1>9. ASSUME NEW v \in RandomToken, MintInvitation(v)
      PROVE  Trust!Next \/ UNCHANGED Trust!vars
    <2>1. CASE Cardinality(LiveInvitations) >= MaxPending
        BY <1>9, <2>1, UnseenIsStutter DEF MintInvitation, LiveInvitations, Unseen, LinkNow
    <2>2. CASE ~(Cardinality(LiveInvitations) >= MaxPending)
        <3>1. LiveInvitations' = LiveInvitations \cup {v} /\ issued' = issued \cup {v}
            BY <1>9, <2>2 DEF MintInvitation, LiveInvitations
        <3>2. v \notin issued \cup FixedToken
            BY <1>9, TokenAssumption DEF MintInvitation
        <3>3. Trust!Invite(v)
            BY <1>9, <3>1, <3>2 DEF MintInvitation, Trust!Invite
        <3> QED BY <3>3 DEF Trust!Next, Token
    <2> QED BY <2>1, <2>2
<1>10. ASSUME NEW v \in RandomToken, InvitationExpires(v)
       PROVE  Trust!Next
    <2>1. LiveInvitations' = LiveInvitations \ {v}
        BY <1>10 DEF InvitationExpires, LiveInvitations
    <2>2. Trust!Lapse(v)
        BY <1>10, <2>1 DEF InvitationExpires, history, Trust!Lapse
    <2> QED BY <2>2 DEF Trust!Next, Token
<1>11. ASSUME LinkExpires
       PROVE  Trust!Next
    <2>1. pending'.live = FALSE
        BY <1>11 DEF LinkExpires, TypeOK, Pending, NoPending
    <2>2. Trust!CloseLink
        BY <1>11, <2>1 DEF LinkExpires, history, LiveInvitations, Trust!CloseLink
    <2> QED BY <2>2 DEF Trust!Next
<1>12. CASE (\E n \in Limit : SetMaxAttempts(n)) \/ UNCHANGED vars
    BY <1>12, UnseenIsStutter
    DEF SetMaxAttempts, vars, memory, history, Unseen, LinkNow, LiveInvitations
<1> QED
    BY <1>2, <1>3, <1>4, <1>5, <1>7, <1>8, <1>9, <1>10, <1>11, <1>12, UnseenIsStutter DEF Next

\* auth.rs implements DeviceTrust: whatever is presented, saved, lost or
\* restarted, a device is trusted because it paired, and an invitation
\* admits one device.
THEOREM Refinement == Spec => ImplementsTrust
<1>1. TypeOK /\ Init => Trust!Init
    BY InitRefines
<1>2. IInv /\ [Next]_vars => [Trust!Next]_(Trust!vars)
    BY StepRefines
<1> QED BY <1>1, <1>2, Inductive, TypeCorrect, PTL DEF Spec, ImplementsTrust, Trust!Spec

(***************************************************************************)
(* The store.  While no save of f overlapped or failed since the last      *)
(* clean one, at most one task saves f, it carries what memory holds, and  *)
(* the temporary file is what that task's step says it is.                 *)
(***************************************************************************)

SaverInStep(f, t) ==
    /\ task[t].snap[f] = InMemory(f)
    /\ Current(t) = f /\ task[t].at = "write" =>
         task[t].fd = "tmp" /\ disk[f].tmp = <<>>
    /\ Current(t) = f /\ task[t].at = "rename" =>
         Loaded(f, disk[f].tmp) = task[t].snap[f]

CleanFile(f) ==
    /\ \A t, u \in Task : f \in task[t].todo /\ f \in task[u].todo => t = u
    /\ \A t \in Task : f \in task[t].todo => SaverInStep(f, t)
    /\ (\A t \in Task : f \notin task[t].todo) => Loaded(f, disk[f].main) = InMemory(f)

StoreInv == \A f \in File : ~dirty[f] => CleanFile(f)

\* What is written to an empty file is what is loaded from it.
LEMMA ListingLoaded ==
    ASSUME NEW f \in File, NEW S \in SUBSET Device, NEW new \in SetToSeqs(S),
           NEW lines \in Overlaid(f, new, <<>>)
    PROVE  Loaded(f, lines) = S
<1>1. IsFiniteSet(S)
    BY DeviceAssumption, FS_Subset
<1> DEFINE n == Cardinality(S)
<1>2. n \in Nat
    BY <1>1, FS_CardinalityType
<1>3. new \in [1 .. n -> S] /\ IsInjective(new)
    BY DEF SetToSeqs, IsInjective
<1>4. new \in Seq(S)
    BY <1>1, ListingTyped
<1>5. lines = new
    <2>1. SubSeq(<<>>, Len(new) + 1, Len(<<>>)) = <<>>
        BY <1>4
    <2>2. new \o <<>> = new
        BY <1>4, ConcatEmptySeq
    <2> QED BY <2>1, <2>2 DEF Overlaid, OverlaidNodes, OverlaidNames
<1>6. new \in Surjection(1 .. n, S)
    <2>1. new \in Injection(1 .. n, S)
        BY <1>3 DEF Injection
    <2>2. Cardinality(1 .. n) = n
        BY <1>2, FS_Interval
    <2> QED BY <1>1, <2>1, <2>2, FS_Injection
<1>7. ToSet(new) = S
    BY <1>3, <1>6 DEF ToSet, Surjection
<1>8. Junk \notin S
    BY DeviceAssumption
<1> QED BY <1>3, <1>5, <1>7, <1>8 DEF Loaded

LEMMA InitStore == Init => StoreInv
<1> SUFFICES ASSUME Init, NEW f \in File
             PROVE  CleanFile(f)
    BY DEF StoreInv
<1>1. ToSet(<<>>) = {}
    BY DEF ToSet
<1>2. Loaded(f, disk[f].main) = InMemory(f)
    BY <1>1 DEF Init, Loaded, InMemory
<1> QED BY <1>2 DEF Init, CleanFile, IdleTask

\* Nothing that StoreInv looks at has changed.
LEMMA StoreKept ==
    ASSUME StoreInv, UNCHANGED <<authenticated, named, task, disk, dirty>>
    PROVE  StoreInv'
BY DEF StoreInv, CleanFile, SaverInStep, InMemory, Current

\* A task that leaves the lock carries what memory holds from then on.
LEMMA StartSavingClean ==
    ASSUME TypeOK, StoreInv, NEW t \in Task, NEW copy, NEW d, DOMAIN copy \subseteq File,
           Idle(t), StartSaving(t, copy, d), UNCHANGED disk,
           \A f \in File : InMemory(f)' = IF f \in DOMAIN copy THEN copy[f] ELSE InMemory(f)
    PROVE  StoreInv'
<1> DEFINE new == [todo |-> DOMAIN copy,
                   snap |-> [f \in File |-> IF f \in DOMAIN copy THEN copy[f] ELSE {}],
                   at |-> "open", fd |-> "none", revokes |-> d]
<1>1. /\ task' = [task EXCEPT ![t] = new]
      /\ dirty' = [f \in File |-> IF f \in DOMAIN copy THEN Saving(f, t) ELSE dirty[f]]
    BY DEF StartSaving
<1>2. /\ new.todo = DOMAIN copy
      /\ \A f \in DOMAIN copy : new.snap[f] = copy[f]
      /\ new.at = "open"
    OBVIOUS
<1>3. \A u \in Task : task'[u] = IF u = t THEN new ELSE task[u]
    <2> HIDE DEF new
    <2> QED BY <1>1 DEF TypeOK
<1> SUFFICES ASSUME NEW f \in File, ~dirty'[f]
             PROVE  CleanFile(f)'
    BY DEF StoreInv
<1> HIDE DEF new
<1>4. CASE f \in DOMAIN copy
    <2>1. \A u \in Task : f \in task'[u].todo => u = t
        BY <1>1, <1>3, <1>4 DEF Saving
    <2>2. f \in task'[t].todo /\ SaverInStep(f, t)'
        BY <1>2, <1>3, <1>4 DEF SaverInStep
    <2> QED BY <2>1, <2>2 DEF CleanFile
<1>5. CASE f \notin DOMAIN copy
    <2>1. CleanFile(f)
        BY <1>1, <1>5 DEF StoreInv
    <2>2. \A u \in Task : f \in task'[u].todo <=> f \in task[u].todo
        BY <1>2, <1>3, <1>5 DEF Idle
    <2>3. \A u \in Task : f \in task'[u].todo => task'[u] = task[u]
        BY <1>2, <1>3, <1>5
    <2>4. InMemory(f)' = InMemory(f)
        BY <1>5
    <2> QED BY <2>1, <2>2, <2>3, <2>4 DEF CleanFile, SaverInStep, Current
<1> QED BY <1>4, <1>5

\* What a task's record says after it is done with a file.
LEMMA NextFileFields ==
    ASSUME TypeOK, NEW t \in Task
    PROVE  /\ NextFile(t).todo = task[t].todo \ {Current(t)}
           /\ NextFile(t).at = "open"
           /\ \A g \in NextFile(t).todo : NextFile(t).snap[g] = task[t].snap[g]
<1> DEFINE rest == [task[t] EXCEPT !.todo = @ \ {Current(t)}, !.snap[Current(t)] = {},
                                   !.at = "open", !.fd = "none"]
<1>1. task[t] \in TaskState
    BY DEF TypeOK
<1>2. /\ rest.todo = task[t].todo \ {Current(t)}
      /\ rest.at = "open"
      /\ \A g \in rest.todo : rest.snap[g] = task[t].snap[g]
    BY <1>1 DEF TaskState
<1>3. NextFile(t) = IF rest.todo = {} THEN IdleTask ELSE rest
    BY DEF NextFile, Finished
<1>4. IdleTask.todo = {} /\ IdleTask.at = "open"
    BY DEF IdleTask
<1> HIDE DEF rest
<1> QED BY <1>2, <1>3, <1>4

\* A busy task is busy with its current file.
LEMMA CurrentIsToDo ==
    ASSUME TypeOK, NEW t \in Task, ~Idle(t)
    PROVE  Current(t) \in task[t].todo /\ Current(t) \in File
<1>1. task[t].todo \subseteq {"nodes", "names"}
    BY DEF TypeOK, TaskState, File
<1> QED BY <1>1 DEF Idle, Current, File

LEMMA OpenTmpClean ==
    ASSUME TypeOK, StoreInv, NEW t \in Task, OpenTmp(t)
    PROVE  StoreInv'
<1> DEFINE f == Current(t)
<1>1. f \in task[t].todo /\ f \in File
    BY CurrentIsToDo DEF OpenTmp
<1>2. disk' = [disk EXCEPT ![f].tmp = <<>>, ![f].staged = TRUE]
    BY DEF OpenTmp
<1>3. task' = [task EXCEPT ![t].at = "write", ![t].fd = "tmp"]
    BY DEF OpenTmp
<1>4. UNCHANGED <<authenticated, named, dirty>>
    BY DEF OpenTmp, memory, history
<1>5. \A u \in Task : task'[u].todo = task[u].todo /\ task'[u].snap = task[u].snap
    BY <1>3 DEF TypeOK, TaskState
<1>6. \A u \in Task : Current(u)' = Current(u)
    BY <1>5 DEF Current
<1>7. \A u \in Task \ {t} : task'[u] = task[u]
    BY <1>3 DEF TypeOK
<1>8. task'[t].at = "write" /\ task'[t].fd = "tmp"
    BY <1>3 DEF TypeOK, TaskState
<1>9. \A g \in File \ {f} : disk'[g] = disk[g]
    BY <1>2 DEF TypeOK
<1>10. disk'[f].tmp = <<>> /\ disk'[f].main = disk[f].main
    BY <1>1, <1>2 DEF TypeOK
<1> SUFFICES ASSUME NEW g \in File, ~dirty[g]
             PROVE  CleanFile(g)'
    BY <1>4 DEF StoreInv
<1> HIDE DEF f
<1>11. CleanFile(g)
    BY DEF StoreInv
<1>12. InMemory(g)' = InMemory(g)
    BY <1>4 DEF InMemory
<1>13. disk'[g].main = disk[g].main
    BY <1>9, <1>10
<1>14. ASSUME NEW u \in Task, g \in task[u].todo
       PROVE  SaverInStep(g, u)'
    <2>1. SaverInStep(g, u)
        BY <1>11, <1>14 DEF CleanFile
    <2>2. CASE u = t /\ g = f
        BY <1>5, <1>8, <1>10, <1>12, <2>1, <2>2 DEF SaverInStep
    <2>3. CASE u = t /\ g # f
        BY <1>5, <1>6, <1>12, <2>1, <2>3 DEF SaverInStep, f
    <2>4. CASE u # t
        <3>1. g # f
            BY <1>1, <1>11, <1>14, <2>4 DEF CleanFile
        <3> QED BY <1>6, <1>7, <1>9, <1>12, <2>1, <2>4, <3>1 DEF SaverInStep
    <2> QED BY <2>2, <2>3, <2>4
<1> QED BY <1>5, <1>11, <1>12, <1>13, <1>14 DEF CleanFile

LEMMA WriteTmpClean ==
    ASSUME TypeOK, StoreInv, NEW t \in Task, WriteTmp(t)
    PROVE  StoreInv'
<1> DEFINE f == Current(t)
<1>1. f \in task[t].todo /\ f \in File
    BY CurrentIsToDo DEF WriteTmp
<1>2. PICK new \in SetToSeqs(task[t].snap[f]) :
         CASE task[t].fd = "tmp" ->
                \E lines \in Overlaid(f, new, disk[f].tmp) : disk' = [disk EXCEPT ![f].tmp = lines]
           [] task[t].fd = "main" ->
                \E lines \in Overlaid(f, new, disk[f].main) : disk' = [disk EXCEPT ![f].main = lines]
           [] OTHER -> UNCHANGED disk
    BY DEF WriteTmp
<1>3. task' = [task EXCEPT ![t].at = "rename"] /\ task[t].at = "write"
    BY DEF WriteTmp
<1>4. UNCHANGED <<authenticated, named, dirty>>
    BY DEF WriteTmp, memory, history
<1>5. \A u \in Task : /\ task'[u].todo = task[u].todo
                      /\ task'[u].snap = task[u].snap
    BY <1>3 DEF TypeOK, TaskState
<1>6. \A u \in Task : Current(u)' = Current(u)
    BY <1>5 DEF Current
<1>7. \A u \in Task \ {t} : task'[u] = task[u]
    BY <1>3 DEF TypeOK
<1>8. task'[t].at = "rename"
    BY <1>3 DEF TypeOK, TaskState
<1>9. \A g \in File \ {f} : disk'[g] = disk[g]
    <2> HIDE DEF f
    <2> QED BY <1>1, <1>2 DEF TypeOK
<1>10. ASSUME ~dirty[f]
       PROVE  Loaded(f, disk'[f].tmp) = task[t].snap[f]
    <2>1. task[t].fd = "tmp" /\ disk[f].tmp = <<>>
        BY <1>1, <1>3, <1>10 DEF StoreInv, CleanFile, SaverInStep
    <2>2. PICK lines \in Overlaid(f, new, <<>>) : disk' = [disk EXCEPT ![f].tmp = lines]
        <3> HIDE DEF f
        <3> QED BY <1>2, <2>1
    <2>3. task[t].snap[f] \in SUBSET Device
        BY <1>1 DEF TypeOK, TaskState
    <2>4. disk'[f].tmp = lines
        BY <1>1, <2>2 DEF TypeOK
    <2> HIDE DEF f
    <2> QED BY <1>1, <2>2, <2>3, <2>4, ListingLoaded
<1> SUFFICES ASSUME NEW g \in File, ~dirty[g]
             PROVE  CleanFile(g)'
    BY <1>4 DEF StoreInv
<1>11. CleanFile(g)
    BY DEF StoreInv
<1>12. InMemory(g)' = InMemory(g)
    BY <1>4 DEF InMemory
<1>13. ASSUME \A u \in Task : g \notin task[u].todo
       PROVE  disk'[g] = disk[g]
    BY <1>1, <1>9, <1>13
<1>14. ASSUME NEW u \in Task, g \in task[u].todo
       PROVE  SaverInStep(g, u)'
    <2>1. SaverInStep(g, u)
        BY <1>11, <1>14 DEF CleanFile
    <2>2. CASE u = t /\ g = f
        BY <1>5, <1>8, <1>10, <1>12, <2>1, <2>2 DEF SaverInStep
    <2>3. CASE u = t /\ g # f
        BY <1>5, <1>6, <1>12, <2>1, <2>3 DEF SaverInStep
    <2>4. CASE u # t
        <3>1. g # f
            BY <1>1, <1>11, <1>14, <2>4 DEF CleanFile
        <3> QED BY <1>6, <1>7, <1>9, <1>12, <2>1, <2>4, <3>1 DEF SaverInStep
    <2> QED BY <2>2, <2>3, <2>4
<1> QED BY <1>5, <1>11, <1>12, <1>13, <1>14 DEF CleanFile

LEMMA RenameTmpClean ==
    ASSUME TypeOK, StoreInv, NEW t \in Task, RenameTmp(t)
    PROVE  StoreInv'
<1> DEFINE f == Current(t)
<1>1. f \in task[t].todo /\ f \in File
    BY CurrentIsToDo DEF RenameTmp
<1>2. /\ disk' = [disk EXCEPT ![f] = [main |-> disk[f].tmp, tmp |-> <<>>, staged |-> FALSE]]
      /\ task' = [u \in Task |->
                    CASE u = t -> NextFile(t)
                      [] u # t /\ ~Idle(u) /\ Current(u) = f ->
                           [task[u] EXCEPT !.fd = Renamed(f, @)]
                      [] OTHER -> task[u]]
      /\ task[t].at = "rename"
    BY DEF RenameTmp
<1>3. UNCHANGED <<authenticated, named, dirty>>
    BY DEF RenameTmp, memory
<1>4. task'[t] = NextFile(t)
    BY <1>2
<1>5. \A u \in Task \ {t} : /\ task'[u].todo = task[u].todo
                            /\ task'[u].snap = task[u].snap
                            /\ task'[u].at = task[u].at
    <2> HIDE DEF f
    <2> QED BY <1>2 DEF TypeOK, TaskState
<1>6. \A u \in Task \ {t} : ~Idle(u) /\ Current(u) # f => task'[u] = task[u]
    BY <1>2
<1>7. \A u \in Task \ {t} : Current(u)' = Current(u)
    BY <1>5 DEF Current
<1>8. \A g \in File \ {f} : disk'[g] = disk[g]
    BY <1>2 DEF TypeOK
<1>9. disk'[f].main = disk[f].tmp
    BY <1>1, <1>2 DEF TypeOK
<1> SUFFICES ASSUME NEW g \in File, ~dirty[g]
             PROVE  CleanFile(g)'
    BY <1>3 DEF StoreInv
<1>10. CleanFile(g)
    BY DEF StoreInv
<1>11. InMemory(g)' = InMemory(g)
    BY <1>3 DEF InMemory
<1>12. \A u \in Task : g \in task'[u].todo => g \in task[u].todo
    BY <1>4, <1>5, NextFileFields
<1>13. CASE g = f
    <2>1. \A u \in Task : f \notin task'[u].todo
        <3>1. f \notin task'[t].todo
            BY <1>4, NextFileFields
        <3>2. \A u \in Task \ {t} : f \notin task[u].todo
            BY <1>1, <1>10, <1>13 DEF CleanFile
        <3> QED BY <1>5, <3>1, <3>2
    <2>2. Loaded(f, disk[f].tmp) = InMemory(f)
        BY <1>1, <1>2, <1>10, <1>13 DEF CleanFile, SaverInStep
    <2>3. Loaded(g, disk'[g].main) = InMemory(g)'
        BY <1>9, <1>11, <1>13, <2>2
    <2>4. \A u \in Task : g \notin task'[u].todo
        BY <1>13, <2>1
    <2> QED BY <2>3, <2>4 DEF CleanFile
<1>14. CASE g # f
    <2>1. disk'[g] = disk[g]
        BY <1>8, <1>14
    <2>2. ASSUME NEW u \in Task, g \in task'[u].todo
          PROVE  SaverInStep(g, u)'
        <3>1. SaverInStep(g, u)
            BY <1>10, <1>12, <2>2 DEF CleanFile
        <3>2. CASE u = t
            <4>1. task'[u].snap[g] = task[u].snap[g] /\ task'[u].at = "open"
                BY <1>4, <2>2, <3>2, NextFileFields
            <4> QED BY <1>11, <3>1, <4>1 DEF SaverInStep
        <3>3. CASE u # t /\ Current(u) = g
            <4>1. task'[u] = task[u]
                BY <1>6, <1>12, <1>14, <2>2, <3>3 DEF Idle
            <4> QED BY <1>7, <1>11, <2>1, <3>1, <3>3, <4>1 DEF SaverInStep
        <3>4. CASE u # t /\ Current(u) # g
            BY <1>5, <1>7, <1>11, <3>1, <3>4 DEF SaverInStep
        <3> QED BY <3>2, <3>3, <3>4
    <2>3. \A u \in Task : g \in task[u].todo => g \in task'[u].todo
        BY <1>4, <1>5, <1>14, NextFileFields
    <2> QED BY <1>10, <1>11, <1>12, <2>1, <2>2, <2>3 DEF CleanFile
<1> QED BY <1>13, <1>14

LEMMA SaveFailsClean ==
    ASSUME TypeOK, StoreInv, NEW t \in Task, SaveFails(t)
    PROVE  StoreInv'
<1> DEFINE f == Current(t)
<1>1. f \in task[t].todo /\ f \in File
    BY CurrentIsToDo DEF SaveFails
<1>2. /\ task' = [task EXCEPT ![t] = NextFile(t)]
      /\ dirty' = [dirty EXCEPT ![f] = TRUE]
      /\ UNCHANGED <<authenticated, named, disk>>
    BY DEF SaveFails, memory
<1>3. \A u \in Task : task'[u] = IF u = t THEN NextFile(t) ELSE task[u]
    BY <1>2 DEF TypeOK
<1> SUFFICES ASSUME NEW g \in File, ~dirty'[g]
             PROVE  CleanFile(g)'
    BY DEF StoreInv
<1>4. g # f /\ ~dirty[g]
    <2> HIDE DEF f
    <2> QED BY <1>1, <1>2 DEF TypeOK
<1>5. CleanFile(g)
    BY <1>4 DEF StoreInv
<1>6. InMemory(g)' = InMemory(g)
    BY <1>2 DEF InMemory
<1>7. \A u \in Task : g \in task'[u].todo <=> g \in task[u].todo
    BY <1>3, <1>4, NextFileFields
<1>8. ASSUME NEW u \in Task, g \in task'[u].todo
      PROVE  SaverInStep(g, u)'
    <2>1. SaverInStep(g, u)
        BY <1>5, <1>7, <1>8 DEF CleanFile
    <2>2. CASE u = t
        <3>1. task'[u].snap[g] = task[u].snap[g] /\ task'[u].at = "open"
            BY <1>3, <1>8, <2>2, NextFileFields
        <3> QED BY <1>6, <2>1, <3>1 DEF SaverInStep
    <2>3. CASE u # t
        BY <1>2, <1>3, <1>6, <2>1, <2>3 DEF SaverInStep, Current
    <2> QED BY <2>2, <2>3
<1> QED BY <1>2, <1>5, <1>6, <1>7, <1>8 DEF CleanFile

LEMMA StepStore == TypeOK /\ StoreInv /\ [Next]_vars => StoreInv'
<1> SUFFICES ASSUME TypeOK, StoreInv, [Next]_vars
             PROVE  StoreInv'
    OBVIOUS
<1>1. ASSUME NEW t \in Task, OpenTmp(t) \/ WriteTmp(t) \/ RenameTmp(t) \/ SaveFails(t)
      PROVE  StoreInv'
    BY <1>1, OpenTmpClean, WriteTmpClean, RenameTmpClean, SaveFailsClean
<1>2. ASSUME NEW t \in Task, NEW d \in Device, NEW presented \in Presented,
             Authenticate(t, d, presented)
      PROVE  StoreInv'
    <2>1. CASE BindByLink(t, d, presented) \/ BindByInvitation(t, d, presented)
        <3> DEFINE copy == [f \in {"nodes"} |-> authenticated \cup {d}]
        <3>1. Idle(t) /\ StartSaving(t, copy, NoDevice) /\ UNCHANGED <<named, disk>>
              /\ authenticated' = authenticated \cup {d}
            BY <2>1 DEF BindByLink, BindByInvitation, Attempts, Authorize
        <3>2. \A f \in File : InMemory(f)' = IF f \in DOMAIN copy THEN copy[f] ELSE InMemory(f)
            BY <3>1 DEF InMemory, File
        <3>3. DOMAIN copy \subseteq File
            BY DEF File
        <3> HIDE DEF copy
        <3> QED BY <3>1, <3>2, <3>3, StartSavingClean
    <2>2. CASE RefuseNoActiveToken(t, d, presented) \/ RefuseMismatch(t, d, presented)
        BY <2>2, StoreKept DEF RefuseNoActiveToken, RefuseMismatch, history
    <2> QED BY <1>2, <2>1, <2>2 DEF Authenticate
<1>3. ASSUME NEW t \in Task, NEW d \in Device, Revoke(t, d)
      PROVE  StoreInv'
    <2> DEFINE copy == [f \in File |-> IF f = "nodes" THEN authenticated \ {d} ELSE named \ {d}]
    <2>1. Idle(t) /\ StartSaving(t, copy, d) /\ UNCHANGED disk
          /\ authenticated' = authenticated \ {d} /\ named' = named \ {d}
        BY <1>3 DEF Revoke
    <2>2. \A f \in File : InMemory(f)' = IF f \in DOMAIN copy THEN copy[f] ELSE InMemory(f)
        BY <2>1 DEF InMemory
    <2>3. DOMAIN copy \subseteq File
        OBVIOUS
    <2> HIDE DEF copy
    <2> QED BY <2>1, <2>2, <2>3, StartSavingClean
<1>4. ASSUME NEW t \in Task, NEW d \in Device, NEW clears \in BOOLEAN, SetDeviceName(t, d, clears)
      PROVE  StoreInv'
    <2> DEFINE copy == [f \in {"names"} |-> named']
    <2>1. Idle(t) /\ StartSaving(t, copy, NoDevice) /\ UNCHANGED <<authenticated, disk>>
        BY <1>4 DEF SetDeviceName
    <2>2. \A f \in File : InMemory(f)' = IF f \in DOMAIN copy THEN copy[f] ELSE InMemory(f)
        BY <2>1 DEF InMemory, File
    <2>3. DOMAIN copy \subseteq File
        BY DEF File
    <2> HIDE DEF copy
    <2> QED BY <2>1, <2>2, <2>3, StartSavingClean
<1>5. ASSUME NEW v \in Token, Restart(v)
      PROVE  StoreInv'
    <2>1. \A u \in Task : task'[u].todo = {}
        BY <1>5 DEF Restart, IdleTask
    <2>2. \A f \in File : ~dirty'[f] => Loaded(f, disk[f].main) = InMemory(f)'
        BY <1>5 DEF Restart, Loads, InMemory, File
    <2>3. disk' = disk
        BY <1>5 DEF Restart
    <2> QED BY <2>1, <2>2, <2>3 DEF StoreInv, CleanFile
<1>6. ASSUME NEW v \in Token, MintToken(v)
      PROVE  StoreInv'
    BY <1>6, StoreKept DEF MintToken
<1>7. ASSUME NEW v \in RandomToken, MintInvitation(v) \/ InvitationExpires(v)
      PROVE  StoreInv'
    BY <1>7, StoreKept DEF MintInvitation, InvitationExpires, history
<1>8. CASE (\E n \in Limit : SetMaxAttempts(n)) \/ LinkExpires \/ UNCHANGED vars
    BY <1>8, StoreKept DEF SetMaxAttempts, LinkExpires, vars, memory, history
<1> QED BY <1>1, <1>2, <1>3, <1>4, <1>5, <1>6, <1>7, <1>8 DEF Next

\* A file nobody is saving holds what memory holds, unless its last save
\* overlapped another one, failed, or a crash came between the two files of
\* a revocation: only those can lose a pairing or a revocation.
THEOREM StoreIsMemory == Spec => []StoreMatchesMemory
<1>1. Init => StoreInv
    BY InitStore
<1>2. TypeOK /\ StoreInv /\ [Next]_vars => StoreInv'
    BY StepStore
<1>3. StoreInv => StoreMatchesMemory
    BY DEF StoreInv, CleanFile, StoreMatchesMemory
<1> QED BY <1>1, <1>2, <1>3, TypeCorrect, PTL DEF Spec

(***************************************************************************)
(* Revocations, if calls do not overlap.                                   *)
(***************************************************************************)

\* Neither memory nor the store, nor a copy on its way there, has a device
\* whose revocation was saved.
RevokedInv ==
    /\ gone \cap authenticated = {}
    /\ gone \cap Loaded("nodes", disk["nodes"].main) = {}
    /\ \A t \in Task : "nodes" \in task[t].todo =>
          /\ task[t].snap["nodes"] \cap (gone \cup {task[t].revokes}) = {}
          /\ task[t].at = "write" => task[t].fd = "tmp" /\ disk["nodes"].tmp = <<>>
          /\ task[t].at = "rename" =>
                Loaded("nodes", disk["nodes"].tmp) = task[t].snap["nodes"]

LEMMA InitRevoked == Init => RevokedInv
<1> SUFFICES ASSUME Init
             PROVE  RevokedInv
    OBVIOUS
<1>1. gone = {} /\ \A t \in Task : task[t].todo = {}
    BY DEF Init, IdleTask
<1> QED BY <1>1 DEF RevokedInv

\* Only the nodes matter, and they are saved first.
LEMMA NodesFirst ==
    ASSUME NEW t \in Task, "nodes" \in task[t].todo
    PROVE  Current(t) = "nodes"
BY DEF Current

\* Nothing that RevokedInv looks at has changed.
LEMMA RevokedKept ==
    ASSUME RevokedInv, UNCHANGED <<gone, authenticated, task, disk>>
    PROVE  RevokedInv'
BY DEF RevokedInv

\* A call that had nothing to save leaves the lock: what it carries has no
\* device that is gone, and not the one that it revokes.
LEMMA StartSavingRevoked ==
    ASSUME TypeOK, RevokedInv, NEW t \in Task, \A u \in Task : u = t, NEW copy, NEW d,
           StartSaving(t, copy, d), UNCHANGED disk,
           gone' \subseteq gone, gone' \cap authenticated' = {},
           "nodes" \in DOMAIN copy => copy["nodes"] \cap (gone' \cup {d}) = {}
    PROVE  RevokedInv'
<1>1. task'[t] = [todo |-> DOMAIN copy,
                  snap |-> [f \in File |-> IF f \in DOMAIN copy THEN copy[f] ELSE {}],
                  at |-> "open", fd |-> "none", revokes |-> d]
    BY DEF StartSaving, TypeOK
<1>2. /\ task'[t].todo = DOMAIN copy /\ task'[t].at = "open" /\ task'[t].revokes = d
      /\ "nodes" \in DOMAIN copy => task'[t].snap["nodes"] = copy["nodes"]
    BY <1>1 DEF File
<1>3. gone' \cap Loaded("nodes", disk'["nodes"].main) = {}
    BY DEF RevokedInv
<1> QED BY <1>2, <1>3 DEF RevokedInv

LEMMA SaveStepRevoked ==
    ASSUME TypeOK, RevokedInv, NEW t \in Task, \A u \in Task : u = t,
           OpenTmp(t) \/ WriteTmp(t) \/ RenameTmp(t) \/ SaveFails(t)
    PROVE  RevokedInv'
<1>0. task \in [Task -> TaskState] /\ disk \in [File -> [main : Seq(Line), tmp : Seq(Line), staged : BOOLEAN]]
    BY DEF TypeOK
<1>1. CASE OpenTmp(t)
    <2>1. task' = [task EXCEPT ![t].at = "write", ![t].fd = "tmp"]
          /\ UNCHANGED <<authenticated, gone>>
          /\ disk' = [disk EXCEPT ![Current(t)].tmp = <<>>, ![Current(t)].staged = TRUE]
        BY <1>1 DEF OpenTmp, memory, history
    <2>2. /\ task'[t].todo = task[t].todo /\ task'[t].snap = task[t].snap
          /\ task'[t].revokes = task[t].revokes /\ task'[t].at = "write" /\ task'[t].fd = "tmp"
        BY <1>0, <2>1 DEF TaskState
    <2>3. disk'["nodes"].main = disk["nodes"].main
        BY <1>0, <2>1 DEF File
    <2>4. "nodes" \in task[t].todo => disk'["nodes"].tmp = <<>>
        BY <1>0, <2>1, NodesFirst DEF File
    <2> QED BY <2>1, <2>2, <2>3, <2>4 DEF RevokedInv
<1>2. CASE WriteTmp(t)
    <2>1. task' = [task EXCEPT ![t].at = "rename"] /\ task[t].at = "write"
          /\ UNCHANGED <<authenticated, gone>>
        BY <1>2 DEF WriteTmp, memory, history
    <2>2. /\ task'[t].todo = task[t].todo /\ task'[t].snap = task[t].snap
          /\ task'[t].revokes = task[t].revokes /\ task'[t].at = "rename"
        BY <1>0, <2>1 DEF TaskState
    <2>3. CASE "nodes" \in task[t].todo
        <3>1. Current(t) = "nodes"
            BY <2>3, NodesFirst
        <3>2. task[t].fd = "tmp" /\ disk["nodes"].tmp = <<>>
            BY <2>1, <2>3 DEF RevokedInv
        <3>3. PICK new \in SetToSeqs(task[t].snap["nodes"]) :
                 \E lines \in Overlaid("nodes", new, <<>>) :
                    disk' = [disk EXCEPT !["nodes"].tmp = lines]
            BY <1>2, <3>1, <3>2 DEF WriteTmp
        <3>4. PICK lines \in Overlaid("nodes", new, <<>>) :
                 disk' = [disk EXCEPT !["nodes"].tmp = lines]
            BY <3>3
        <3>5. disk'["nodes"].tmp = lines /\ disk'["nodes"].main = disk["nodes"].main
            BY <1>0, <3>4 DEF File
        <3>6. "nodes" \in File /\ task[t].snap["nodes"] \in SUBSET Device
            BY <1>0 DEF TaskState, File
        <3>7. Loaded("nodes", lines) = task[t].snap["nodes"]
            BY <3>4, <3>6, ListingLoaded
        <3> QED BY <2>1, <2>2, <3>5, <3>7 DEF RevokedInv
    <2>4. CASE "nodes" \notin task[t].todo
        <3>1. disk'["nodes"] = disk["nodes"]
            <4>1. Current(t) = "names"
                BY <2>4 DEF Current
            <4>2. \/ disk' = disk
                  \/ \E lines : disk' = [disk EXCEPT !["names"].tmp = lines]
                  \/ \E lines : disk' = [disk EXCEPT !["names"].main = lines]
                BY <1>2, <4>1 DEF WriteTmp
            <4> QED BY <1>0, <4>2 DEF File
        <3> QED BY <2>1, <2>2, <2>4, <3>1 DEF RevokedInv
    <2> QED BY <2>3, <2>4
<1>3. CASE RenameTmp(t)
    <2>1. /\ task'[t] = NextFile(t) /\ task[t].at = "rename"
          /\ disk' = [disk EXCEPT ![Current(t)] =
                        [main |-> disk[Current(t)].tmp, tmp |-> <<>>, staged |-> FALSE]]
          /\ gone' = gone \cup Persisted(t) /\ UNCHANGED authenticated
        BY <1>3 DEF RenameTmp, memory
    <2>2. gone' \cap authenticated' = {}
        BY <2>1 DEF RevokedInv, Persisted
    <2>3. "nodes" \notin task'[t].todo
        BY <2>1, NextFileFields DEF Current
    <2>4. CASE "nodes" \in task[t].todo
        <3>1. Current(t) = "nodes"
            BY <2>4, NodesFirst
        <3>2. disk'["nodes"].main = disk["nodes"].tmp
            BY <1>0, <2>1, <3>1 DEF File
        <3>3. Loaded("nodes", disk["nodes"].tmp) = task[t].snap["nodes"]
            BY <2>1, <2>4 DEF RevokedInv
        <3>4. task[t].snap["nodes"] \cap gone' = {}
            BY <2>1, <2>4 DEF RevokedInv, Persisted
        <3> QED BY <2>2, <2>3, <3>2, <3>3, <3>4 DEF RevokedInv
    <2>5. CASE "nodes" \notin task[t].todo
        <3>1. Current(t) = "names" /\ Persisted(t) = {}
            BY <2>5 DEF Current, Persisted
        <3>2. disk'["nodes"] = disk["nodes"] /\ gone' = gone
            BY <1>0, <2>1, <3>1 DEF File
        <3> QED BY <2>1, <2>2, <2>3, <3>2 DEF RevokedInv
    <2> QED BY <2>4, <2>5
<1>4. CASE SaveFails(t)
    <2>1. task'[t] = NextFile(t) /\ UNCHANGED <<authenticated, gone, disk>>
        BY <1>0, <1>4 DEF SaveFails, memory
    <2>2. "nodes" \notin task'[t].todo
        BY <2>1, NextFileFields DEF Current
    <2> QED BY <2>1, <2>2 DEF RevokedInv
<1> QED BY <1>1, <1>2, <1>3, <1>4

LEMMA StepRevoked ==
    ASSUME \A t, u \in Task : t = u
    PROVE  TypeOK /\ RevokedInv /\ [Next]_vars => RevokedInv'
<1> SUFFICES ASSUME TypeOK, RevokedInv, [Next]_vars
             PROVE  RevokedInv'
    OBVIOUS
<1>1. ASSUME NEW t \in Task, OpenTmp(t) \/ WriteTmp(t) \/ RenameTmp(t) \/ SaveFails(t)
      PROVE  RevokedInv'
    BY <1>1, SaveStepRevoked
<1>2. ASSUME NEW t \in Task, NEW d \in Device, NEW presented \in Presented,
             Authenticate(t, d, presented)
      PROVE  RevokedInv'
    <2>1. CASE BindByLink(t, d, presented) \/ BindByInvitation(t, d, presented)
        <3> DEFINE copy == [f \in {"nodes"} |-> authenticated \cup {d}]
        <3>1. /\ StartSaving(t, copy, NoDevice) /\ UNCHANGED disk
              /\ authenticated' = authenticated \cup {d} /\ gone' = gone \ {d}
            BY <2>1 DEF BindByLink, BindByInvitation, Authorize
        <3>2. copy["nodes"] \cap (gone' \cup {NoDevice}) = {} /\ gone' \cap authenticated' = {}
            BY <3>1, DeviceAssumption DEF RevokedInv, TypeOK
        <3>3. gone' \subseteq gone
            BY <3>1
        <3> HIDE DEF copy
        <3> QED BY <3>1, <3>2, <3>3, StartSavingRevoked
    <2>2. CASE RefuseNoActiveToken(t, d, presented) \/ RefuseMismatch(t, d, presented)
        BY <2>2, RevokedKept DEF RefuseNoActiveToken, RefuseMismatch, history
    <2> QED BY <1>2, <2>1, <2>2 DEF Authenticate
<1>3. ASSUME NEW t \in Task, NEW d \in Device, Revoke(t, d)
      PROVE  RevokedInv'
    <2> DEFINE copy == [f \in File |-> IF f = "nodes" THEN authenticated \ {d} ELSE named \ {d}]
    <2>1. /\ StartSaving(t, copy, d) /\ UNCHANGED <<disk, gone>>
          /\ authenticated' = authenticated \ {d}
        BY <1>3 DEF Revoke
    <2>2. copy["nodes"] \cap (gone' \cup {d}) = {} /\ gone' \cap authenticated' = {}
        BY <2>1 DEF RevokedInv, File
    <2> HIDE DEF copy
    <2> QED BY <2>1, <2>2, StartSavingRevoked
<1>4. ASSUME NEW t \in Task, NEW d \in Device, NEW clears \in BOOLEAN, SetDeviceName(t, d, clears)
      PROVE  RevokedInv'
    <2> DEFINE copy == [f \in {"names"} |-> named']
    <2>1. StartSaving(t, copy, NoDevice) /\ UNCHANGED <<authenticated, disk, gone>>
        BY <1>4 DEF SetDeviceName
    <2>2. "nodes" \notin DOMAIN copy /\ gone' \cap authenticated' = {}
        BY <2>1 DEF RevokedInv
    <2> HIDE DEF copy
    <2> QED BY <2>1, <2>2, StartSavingRevoked
<1>5. ASSUME NEW v \in Token, Restart(v)
      PROVE  RevokedInv'
    <2>1. /\ authenticated' = Loaded("nodes", disk["nodes"].main)
          /\ \A u \in Task : task'[u].todo = {}
          /\ UNCHANGED <<disk, gone>>
        BY <1>5 DEF Restart, Loads, IdleTask
    <2> QED BY <2>1 DEF RevokedInv
<1>6. ASSUME NEW v \in Token, MintToken(v)
      PROVE  RevokedInv'
    BY <1>6, RevokedKept DEF MintToken
<1>7. ASSUME NEW v \in RandomToken, MintInvitation(v) \/ InvitationExpires(v)
      PROVE  RevokedInv'
    BY <1>7, RevokedKept DEF MintInvitation, InvitationExpires, history
<1>8. CASE (\E n \in Limit : SetMaxAttempts(n)) \/ LinkExpires \/ UNCHANGED vars
    BY <1>8, RevokedKept DEF SetMaxAttempts, LinkExpires, vars, memory, history
<1> QED BY <1>1, <1>2, <1>3, <1>4, <1>5, <1>6, <1>7, <1>8 DEF Next

\* As long as no two calls overlap, a device whose revocation was saved
\* without an error stays refused until it pairs again, whatever fails or
\* crashes before and after (revoke, load_at).
THEOREM RevocationsLast ==
    ASSUME \A t, u \in Task : t = u
    PROVE  Spec => []RevocationDurable
<1>1. TypeOK /\ RevokedInv /\ [Next]_vars => RevokedInv'
    BY StepRevoked
<1>2. RevokedInv => RevocationDurable
    BY DEF RevokedInv, RevocationDurable
<1> QED BY InitRevoked, <1>1, <1>2, TypeCorrect, PTL DEF Spec

\* A wrong guess that leaves the link open was below the limit in force, and
\* only a mint opens a closed link, with a new count (authenticate step 3,
\* mint_token_with).
THEOREM LinkIsGuarded == Spec => LinkClosesAtLimit
<1> DEFINE Guarded == /\ failed' > failed => pending' = NoPending \/ failed' < maxAttempts
                      /\ ~pending.live /\ pending'.live => failed' = 0
<1>1. TypeOK /\ [Next]_vars => [Guarded]_vars
    <2> SUFFICES ASSUME TypeOK, Next
                 PROVE  Guarded
        OBVIOUS
    <2>1. failed \in Nat /\ maxAttempts \in Nat
        BY LimitAssumption DEF TypeOK
    <2>2. UNCHANGED <<pending, failed>> => Guarded
        BY <2>1
    <2>3. ASSUME NEW t \in Task, OpenTmp(t) \/ WriteTmp(t) \/ RenameTmp(t) \/ SaveFails(t)
          PROVE  Guarded
        BY <2>2, <2>3 DEF OpenTmp, WriteTmp, RenameTmp, SaveFails, memory
    <2>4. ASSUME NEW t \in Task, NEW d \in Device, NEW presented \in Presented,
                 Authenticate(t, d, presented)
          PROVE  Guarded
        <3>1. CASE BindByLink(t, d, presented) \/ BindByInvitation(t, d, presented)
            BY <2>1, <3>1 DEF BindByLink, BindByInvitation, Authorize
        <3>2. CASE RefuseNoActiveToken(t, d, presented)
            BY <2>1, <3>2 DEF RefuseNoActiveToken, NoPending
        <3>3. CASE RefuseMismatch(t, d, presented)
            <4>1. /\ failed' = failed + 1 /\ pending.live
                  /\ pending' = IF failed + 1 >= maxAttempts THEN NoPending ELSE pending
                BY <3>3 DEF RefuseMismatch
            <4>2. CASE failed + 1 >= maxAttempts
                BY <4>1, <4>2
            <4>3. CASE ~(failed + 1 >= maxAttempts)
                BY <2>1, <4>1, <4>3
            <4> QED BY <4>2, <4>3
        <3> QED BY <2>4, <3>1, <3>2, <3>3 DEF Authenticate
    <2>5. ASSUME NEW t \in Task, NEW d \in Device,
                 Revoke(t, d) \/ \E clears \in BOOLEAN : SetDeviceName(t, d, clears)
          PROVE  Guarded
        BY <2>2, <2>5 DEF Revoke, SetDeviceName
    <2>6. ASSUME NEW v \in Token, MintToken(v) \/ Restart(v)
          PROVE  Guarded
        BY <2>1, <2>6 DEF MintToken, Restart, Mints
    <2>7. ASSUME NEW v \in RandomToken, MintInvitation(v) \/ InvitationExpires(v)
          PROVE  Guarded
        BY <2>2, <2>7 DEF MintInvitation, InvitationExpires
    <2>8. CASE (\E n \in Limit : SetMaxAttempts(n)) \/ LinkExpires
        <3>1. pending'.live => pending.live
            BY <2>8 DEF SetMaxAttempts, LinkExpires
        <3>2. failed' = failed
            BY <2>8 DEF SetMaxAttempts, LinkExpires
        <3> QED BY <2>1, <3>1, <3>2
    <2> HIDE DEF Guarded
    <2> QED BY <2>3, <2>4, <2>5, <2>6, <2>7, <2>8 DEF Next
<1> QED BY <1>1, TypeCorrect, PTL DEF Spec, LinkClosesAtLimit
=============================================================================
