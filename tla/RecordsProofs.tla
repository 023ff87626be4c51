---------------------------- MODULE RecordsProofs ----------------------------
(***************************************************************************)
(* Proofs about the records that scheduled tasks keep of what others did:  *)
(* SsoUsers, and then its composition with ToolQueryLogs, for any          *)
(* constants.  What ToolQueryLogsProofs shows of the latter holds of the   *)
(* composition, since no step of one part disturbs the other.              *)
(***************************************************************************)
EXTENDS MCRecords, TLAPS

-----------------------------------------------------------------------------
(***************************************************************************)
(* Proofs about SsoUsers, for any requests, exports and deaths.            *)
(*                                                                         *)
(* InactiveForAReason is kept because whoever saves an inactive profile    *)
(* has it from a line of a listed file (LinesAreListed), or is the UPDATE  *)
(* of those who are in none of them (UnseenIsAbsent); a request has made   *)
(* the profile it saves active before (RequestsSaveActive).                *)
(***************************************************************************)
USE SyncAssumption, FilesAssumption

\* the listed files are there until they are deleted
FilesAreListed ==
    /\ sync.listed <= Len(files)
    /\ sync.done <= sync.listed
    /\ sync.pc # "idle" => sync.listed >= 1

LinesAreListed ==
    /\ call[Sync].pc # "idle" => sync.pc = "person"
    /\ sync.pc = "person" => /\ sync.done < sync.listed
                             /\ files[sync.done + 1].person = call[Sync].status

UnseenIsAbsent ==
    (sync.pc \in {"files", "person"} /\ ~sync.seen) =>
        \A n \in 1..sync.done : files[n].person = "absent"

RequestsSaveActive ==
    \A r \in Request :
        /\ call[r].status = "active"
        /\ call[r].pc = "returned" => mem[r].status = "active"

SsoInv == TypeOK /\ FilesAreListed /\ LinesAreListed /\ UnseenIsAbsent /\ RequestsSaveActive

LEMMA SsoInitInv == Init => SsoInv
<1> SUFFICES ASSUME Init PROVE SsoInv
  OBVIOUS
<1> USE DEF Init, NotCalling, NotRunning, NoRow, ProfileRow, Status, Caller
<1>1. TypeOK
  <2>1. profile \in ProfileRow /\ mem \in [Caller -> ProfileRow]
    OBVIOUS
  <2>2. sync \in [pc : {"idle", "files", "person", "delete"}, listed : 0..MaxFiles,
                 done : 0..MaxFiles, seen : BOOLEAN]
    OBVIOUS
  <2>3. call \in [Caller -> [pc : {"idle", "lookup", "create", "user_made", "profile_made",
                                  "existing", "compare", "compare_new", "returned", "failed"},
                            status : Status]]
    OBVIOUS
  <2>4. sso = "unknown" /\ files \in Seq(File) /\ Len(files) <= MaxFiles
        /\ user \in BOOLEAN /\ tools \in BOOLEAN /\ roleTask \in BOOLEAN /\ failed \in SUBSET Failure
    <3> HIDE DEF NotCalling, NotRunning, NoRow, ProfileRow, Status, Caller
    <3>1. files = <<>> /\ <<>> \in Seq(File) /\ Len(<<>>) = 0
      OBVIOUS
    <3>2. Len(files) <= MaxFiles
      BY <3>1
    <3> QED BY <3>1, <3>2
  <2> HIDE DEF Init, NotCalling, NotRunning, NoRow, ProfileRow
  <2> QED BY <2>1, <2>2, <2>3, <2>4 DEF TypeOK
<1>2. FilesAreListed /\ LinesAreListed /\ UnseenIsAbsent /\ RequestsSaveActive
  BY DEF FilesAreListed, LinesAreListed, UnseenIsAbsent, RequestsSaveActive
<1> QED BY <1>1, <1>2 DEF SsoInv

-----------------------------------------------------------------------------
\* SSO changes, and its exports come after those that are listed.
LEMMA SsoStep ==
    ASSUME SsoInv, NEW status \in Status, sso_changes(status) PROVE SsoInv'
<1> USE DEF SsoInv, sso_changes, rows, roleVars
<1>1. TypeOK'
  BY DEF TypeOK
<1>2. (FilesAreListed /\ LinesAreListed /\ UnseenIsAbsent /\ RequestsSaveActive)'
  BY DEF FilesAreListed, LinesAreListed, UnseenIsAbsent, RequestsSaveActive
<1> QED BY <1>1, <1>2

LEMMA ExportStep ==
    ASSUME SsoInv, NEW full \in BOOLEAN, NEW person \in Status \cup {"absent"},
           sso_exports(full, person)
    PROVE  SsoInv'
<1> USE DEF SsoInv
<1>1. UNCHANGED <<sso, user, profile, call, mem, sync, tools, roleTask, failed>>
      /\ files' = Append(files, [full |-> full, person |-> person]) /\ Len(files) < MaxFiles
  BY DEF sso_exports, rows, roleVars
<1>2. files \in Seq(File) /\ [full |-> full, person |-> person] \in File
      /\ sync.listed \in Nat /\ sync.done \in Nat
  BY DEF TypeOK, File
<1>3. files' \in Seq(File) /\ Len(files') = Len(files) + 1
      /\ \A n \in 1..Len(files) : files'[n] = files[n]
  BY <1>1, <1>2
<1>4. Len(files') <= MaxFiles
  BY <1>1, <1>2, <1>3
<1>5. TypeOK'
  BY <1>1, <1>3, <1>4 DEF TypeOK
<1>6. FilesAreListed' /\ RequestsSaveActive'
  BY <1>1, <1>2, <1>3 DEF FilesAreListed, RequestsSaveActive
<1>7. LinesAreListed'
  <2>1. sync.pc = "person" => sync.done + 1 \in 1..Len(files)
    BY <1>2 DEF LinesAreListed, FilesAreListed
  <2> QED BY <1>1, <1>3, <2>1 DEF LinesAreListed
<1>8. UnseenIsAbsent'
  <2>1. \A n \in 1..sync.done : n \in 1..Len(files)
    BY <1>2 DEF FilesAreListed
  <2> QED BY <1>1, <1>3, <2>1 DEF UnseenIsAbsent
<1> QED BY <1>5, <1>6, <1>7, <1>8

\* A call goes on: its caller's status stays, and a request that is back has an active profile.
LEMMA CallStep ==
    ASSUME SsoInv, NEW c \in Caller, CallNext(c), ~profile_not_there(c)
    PROVE  SsoInv'
<1> USE DEF SsoInv, At
<1>1. /\ UNCHANGED <<sso, files, sync, tools, failed>>
      /\ call' \in [Caller -> [pc : {"idle", "lookup", "create", "user_made", "profile_made",
                                      "existing", "compare", "compare_new", "returned", "failed"},
                                status : Status]]
      /\ \A d \in Caller : call'[d].status = call[d].status
      /\ \A d \in Caller \ {c} : call'[d] = call[d]
      /\ call[c].pc # "idle"
  BY DEF TypeOK, CallNext, get_user_by_sso_id, user_created, user_not_created, profile_created,
         profile_saved, profile_read, status_compared, roleVars
<1>2. user' \in BOOLEAN /\ roleTask' \in BOOLEAN
  BY DEF TypeOK, CallNext, get_user_by_sso_id, user_created, user_not_created, profile_created,
         profile_saved, profile_read, status_compared, rows, roleVars, StartsRoleTask,
         ProfileRow
<1>3. profile' \in ProfileRow /\ mem' \in [Caller -> ProfileRow]
      /\ \A d \in Caller \ {c} : mem'[d] = mem[d]
  <2>1. CASE get_user_by_sso_id(c) \/ user_created(c) \/ user_not_created(c)
    BY <2>1 DEF TypeOK, get_user_by_sso_id, user_created, user_not_created, rows
  <2>2. CASE profile_created(c)
    BY <2>2 DEF TypeOK, profile_created, NewProfile, NoRow, ProfileRow, Status
  <2>3. mem[c] \in ProfileRow /\ [mem[c] EXCEPT !.status = call[c].status] \in ProfileRow
    BY DEF TypeOK, ProfileRow
  <2>4. CASE profile_saved(c)
    BY <2>3, <2>4 DEF TypeOK, profile_saved
  <2>5. CASE profile_read(c)
    BY <2>5 DEF TypeOK, profile_read, rows
  <2>6. CASE status_compared(c)
    BY <2>3, <2>6 DEF TypeOK, status_compared, SavedIf
  <2> QED BY <2>1, <2>2, <2>4, <2>5, <2>6 DEF CallNext
<1>4. TypeOK'
  BY <1>1, <1>2, <1>3 DEF TypeOK
<1>5. (FilesAreListed /\ UnseenIsAbsent)'
  BY <1>1 DEF FilesAreListed, UnseenIsAbsent
<1>6. LinesAreListed'
  BY <1>1 DEF LinesAreListed, Caller
<1>7. RequestsSaveActive'
  <2> SUFFICES ASSUME NEW r \in Request, call'[r].pc = "returned" PROVE mem'[r].status = "active"
    BY <1>1 DEF RequestsSaveActive, Caller
  <2>1. CASE r # c
    BY <1>1, <1>3, <2>1 DEF RequestsSaveActive, Caller
  <2>2. CASE r = c
    <3>1. status_compared(c)
      BY <1>1, <2>2 DEF TypeOK, CallNext, get_user_by_sso_id, user_created, user_not_created,
         profile_created, profile_saved, profile_read
    <3>2. mem[c] \in ProfileRow /\ call[c].status = "active"
      BY <2>2 DEF TypeOK, RequestsSaveActive
    <3>3. CASE mem[c].status # call[c].status \/ call[c].pc = "compare_new"
      BY <2>2, <3>1, <3>2, <3>3 DEF status_compared, SavedIf, TypeOK, ProfileRow
    <3>4. CASE ~(mem[c].status # call[c].status \/ call[c].pc = "compare_new")
      BY <2>2, <3>1, <3>2, <3>4 DEF status_compared, SavedIf
    <3> QED BY <3>3, <3>4
  <2> QED BY <2>1, <2>2
<1> QED BY <1>4, <1>5, <1>6, <1>7

\* A user without a profile ends the call, and the synchronisation with it.
LEMMA NoProfileStep ==
    ASSUME SsoInv, NEW c \in Caller, profile_not_there(c) PROVE SsoInv'
<1> USE DEF SsoInv, profile_not_there, At, rows, roleVars, Caller
<1>1. UNCHANGED <<sso, files, user, profile, mem, tools, roleTask, failed>>
  OBVIOUS
<1>2. CASE c = Sync
  <2>1. call' = [call EXCEPT ![Sync] = NotCalling] /\ sync' = NotRunning
    BY <1>2
  <2>2. TypeOK'
    BY <1>1, <2>1 DEF TypeOK, NotCalling, NotRunning, Status
  <2>3. (FilesAreListed /\ LinesAreListed /\ UnseenIsAbsent)'
    BY <1>1, <2>1 DEF TypeOK, FilesAreListed, LinesAreListed, UnseenIsAbsent, NotCalling, NotRunning
  <2>4. RequestsSaveActive'
    BY <1>1, <2>1 DEF TypeOK, RequestsSaveActive
  <2> QED BY <2>2, <2>3, <2>4
<1>3. CASE c # Sync
  <2>1. call' = [call EXCEPT ![c].pc = "failed"] /\ sync' = sync
    BY <1>3
  <2>2. TypeOK'
    BY <1>1, <2>1 DEF TypeOK
  <2>3. (FilesAreListed /\ LinesAreListed /\ UnseenIsAbsent)'
    BY <1>1, <1>3, <2>1 DEF TypeOK, FilesAreListed, LinesAreListed, UnseenIsAbsent
  <2>4. RequestsSaveActive'
    BY <1>1, <1>3, <2>1 DEF TypeOK, RequestsSaveActive
  <2> QED BY <2>2, <2>3, <2>4
<1> QED BY <1>2, <1>3

LEMMA RequestStep ==
    ASSUME SsoInv, NEW r \in Request, authenticate(r) \/ authenticate_returns(r) PROVE SsoInv'
<1> USE DEF SsoInv, rows, roleVars, Caller
<1> DEFINE Calls == [Caller -> [pc : {"idle", "lookup", "create", "user_made", "profile_made",
                                    "existing", "compare", "compare_new", "returned", "failed"},
                              status : Status]]
<1>1. /\ UNCHANGED <<sso, files, user, sync, tools, roleTask, failed>>
      /\ \A c \in Caller \ {r} : call'[c] = call[c]
      /\ call'[r].status = "active" /\ call'[r].pc \in {"lookup", "idle"}
      /\ call' \in Calls
      /\ \A c \in Caller \ {r} : mem'[c] = mem[c]
  <2>1. call \in Calls /\ mem \in [Caller -> ProfileRow]
    BY DEF TypeOK
  <2>2. CASE authenticate(r)
    <3>1. call' = [call EXCEPT ![r] = [pc |-> "lookup", status |-> "active"]]
          /\ UNCHANGED <<sso, files, user, mem, sync, tools, roleTask, failed>>
      BY <2>2 DEF authenticate
    <3> QED BY <2>1, <3>1 DEF Status
  <2>3. CASE authenticate_returns(r)
    <3>1. call' = [call EXCEPT ![r] = NotCalling] /\ mem' = [mem EXCEPT ![r] = NoRow]
          /\ UNCHANGED <<sso, files, user, sync, tools, roleTask, failed>>
      BY <2>3 DEF authenticate_returns
    <3> QED BY <2>1, <3>1 DEF Status, NotCalling
  <2> QED BY <2>2, <2>3
<1>2. profile' \in ProfileRow /\ mem' \in [Caller -> ProfileRow]
  <2>1. /\ profile \in ProfileRow /\ mem \in [Caller -> ProfileRow] /\ NoRow \in ProfileRow
        /\ [mem[r] EXCEPT !.loggedIn = TRUE] \in ProfileRow
    BY DEF TypeOK, ProfileRow, NoRow, Status
  <2>2. CASE authenticate(r)
    BY <2>1, <2>2 DEF authenticate
  <2>3. CASE authenticate_returns(r)
    BY <2>1, <2>3 DEF authenticate_returns
  <2> QED BY <2>2, <2>3
<1>3. TypeOK'
  BY <1>1, <1>2 DEF TypeOK
<1>4. (FilesAreListed /\ LinesAreListed /\ UnseenIsAbsent)'
  BY <1>1 DEF FilesAreListed, LinesAreListed, UnseenIsAbsent
<1>5. RequestsSaveActive'
  BY <1>1 DEF RequestsSaveActive
<1> QED BY <1>3, <1>4, <1>5

LEMMA SyncStep ==
    ASSUME SsoInv, list_files \/ process_line \/ line_processed \/ mark_unseen \/ delete_objects
    PROVE  SsoInv'
<1> USE DEF SsoInv, rows, roleVars, Caller
<1>1. sync \in [pc : {"idle", "files", "person", "delete"}, listed : 0..MaxFiles,
               done : 0..MaxFiles, seen : BOOLEAN]
      /\ files \in Seq(File) /\ Len(files) \in Nat /\ Len(files) <= MaxFiles
  BY DEF TypeOK
<1>2. CASE list_files
  <2>1. UNCHANGED <<sso, files, user, profile, call, mem, tools, roleTask, failed>>
        /\ sync' = [pc |-> "files", listed |-> Len(files), done |-> 0, seen |-> FALSE]
        /\ Len(files) >= 1 /\ sync.pc = "idle"
    BY <1>1, <1>2 DEF list_files
  <2>2. TypeOK'
    BY <1>1, <2>1 DEF TypeOK
  <2>3. (FilesAreListed /\ LinesAreListed /\ UnseenIsAbsent /\ RequestsSaveActive)'
    BY <1>1, <2>1 DEF FilesAreListed, LinesAreListed, UnseenIsAbsent, RequestsSaveActive
  <2> QED BY <2>2, <2>3
<1>3. CASE process_line
  <2>1. UNCHANGED <<sso, files, user, profile, mem, tools, roleTask, failed>>
        /\ sync.pc = "files" /\ sync.done < sync.listed /\ call[Sync].pc = "idle"
        /\ sync.done + 1 \in 1..Len(files)
    BY <1>1, <1>3 DEF process_line, LinesAreListed, FilesAreListed
  <2>2. files[sync.done + 1] \in File
    BY <1>1, <2>1
  <2>3. CASE files[sync.done + 1].person = "absent"
    <3>1. sync' = [sync EXCEPT !.done = @ + 1] /\ call' = call
      BY <1>3, <2>3 DEF process_line
    <3>2. TypeOK'
      BY <1>1, <2>1, <3>1 DEF TypeOK
    <3>3. (FilesAreListed /\ LinesAreListed /\ RequestsSaveActive)'
      BY <1>1, <2>1, <3>1 DEF FilesAreListed, LinesAreListed, RequestsSaveActive
    <3>4. UnseenIsAbsent'
      BY <1>1, <2>1, <2>3, <3>1 DEF UnseenIsAbsent
    <3> QED BY <3>2, <3>3, <3>4
  <2>4. CASE files[sync.done + 1].person # "absent"
    <3>1. sync' = [sync EXCEPT !.pc = "person"]
          /\ call' = [call EXCEPT ![Sync] = [pc |-> "lookup", status |-> files[sync.done + 1].person]]
      BY <1>3, <2>4 DEF process_line
    <3>2. files[sync.done + 1].person \in Status
      BY <2>2, <2>4 DEF File
    <3>3. TypeOK'
      BY <1>1, <2>1, <3>1, <3>2 DEF TypeOK
    <3>4. (FilesAreListed /\ UnseenIsAbsent)'
      BY <1>1, <2>1, <3>1 DEF FilesAreListed, UnseenIsAbsent
    <3>5. (LinesAreListed /\ RequestsSaveActive)'
      BY <1>1, <2>1, <3>1 DEF LinesAreListed, RequestsSaveActive, TypeOK
    <3> QED BY <3>3, <3>4, <3>5
  <2> QED BY <2>3, <2>4
<1>4. CASE line_processed
  <2>1. UNCHANGED <<sso, files, user, profile, tools, roleTask, failed>>
        /\ sync.pc = "person" /\ sync.done < sync.listed
        /\ sync' = [sync EXCEPT !.pc = "files", !.done = @ + 1, !.seen = TRUE]
        /\ call' = [call EXCEPT ![Sync] = NotCalling]
        /\ mem' = [mem EXCEPT ![Sync] = NoRow]
    BY <1>4 DEF line_processed, LinesAreListed
  <2>2. sync' \in [pc : {"idle", "files", "person", "delete"}, listed : 0..MaxFiles,
                  done : 0..MaxFiles, seen : BOOLEAN]
    <3>1. sync.done + 1 \in 0..MaxFiles
      BY <1>1, <2>1
    <3>2. sync' = [pc |-> "files", listed |-> sync.listed, done |-> sync.done + 1, seen |-> TRUE]
      BY <1>1, <2>1
    <3> QED BY <1>1, <3>1, <3>2
  <2>3. TypeOK'
    BY <2>1, <2>2 DEF TypeOK, NotCalling, NoRow, ProfileRow, Status
  <2>4. (FilesAreListed /\ UnseenIsAbsent)'
    BY <1>1, <2>1 DEF FilesAreListed, UnseenIsAbsent
  <2>5. (LinesAreListed /\ RequestsSaveActive)'
    BY <1>1, <2>1 DEF LinesAreListed, RequestsSaveActive, TypeOK, NotCalling
  <2> QED BY <2>3, <2>4, <2>5
<1>5. CASE mark_unseen
  <2>1. UNCHANGED <<sso, files, user, call, mem, tools, roleTask, failed>>
        /\ sync.pc = "files" /\ sync' = [sync EXCEPT !.pc = "delete"]
        /\ profile' \in {profile, [profile EXCEPT !.status = "inactive"]}
    BY <1>5 DEF mark_unseen
  <2>2. TypeOK'
    BY <1>1, <2>1 DEF TypeOK, ProfileRow, Status
  <2>3. (FilesAreListed /\ LinesAreListed /\ UnseenIsAbsent /\ RequestsSaveActive)'
    BY <1>1, <2>1 DEF FilesAreListed, LinesAreListed, UnseenIsAbsent, RequestsSaveActive
  <2> QED BY <2>2, <2>3
<1>6. CASE delete_objects
  <2>1. UNCHANGED <<sso, user, profile, call, mem, tools, roleTask, failed>>
        /\ sync.pc = "delete" /\ sync' = NotRunning
        /\ files' = SubSeq(files, sync.listed + 1, Len(files))
    BY <1>6 DEF delete_objects
  <2>2. files' \in Seq(File) /\ Len(files') \in Nat /\ Len(files') <= MaxFiles
    <3>1. sync.listed \in Nat /\ sync.listed <= Len(files)
      BY <1>1 DEF FilesAreListed
    <3>2. \A n \in (sync.listed + 1)..Len(files) : files[n] \in File
      BY <1>1, <3>1
    <3> QED BY <1>1, <2>1, <3>1, <3>2
  <2>3. TypeOK'
    BY <2>1, <2>2 DEF TypeOK, NotRunning
  <2>4. (FilesAreListed /\ LinesAreListed /\ UnseenIsAbsent /\ RequestsSaveActive)'
    BY <2>1, <2>2 DEF FilesAreListed, LinesAreListed, UnseenIsAbsent, RequestsSaveActive, NotRunning
  <2> QED BY <2>3, <2>4
<1> QED BY <1>2, <1>3, <1>4, <1>5, <1>6

LEMMA ToolsStep ==
    ASSUME SsoInv, tools_granted \/ create_tools_access_iam_role PROVE SsoInv'
<1> USE DEF SsoInv, rows, roleVars
<1>1. UNCHANGED <<sso, files, user, call, mem, sync, failed>>
  BY DEF tools_granted, create_tools_access_iam_role
<1>2. profile' \in ProfileRow /\ tools' \in BOOLEAN /\ roleTask' \in BOOLEAN
  BY DEF TypeOK, ProfileRow, tools_granted, create_tools_access_iam_role
<1>3. TypeOK'
  BY <1>1, <1>2 DEF TypeOK
<1>4. (FilesAreListed /\ LinesAreListed /\ UnseenIsAbsent /\ RequestsSaveActive)'
  BY <1>1 DEF FilesAreListed, LinesAreListed, UnseenIsAbsent, RequestsSaveActive
<1> QED BY <1>3, <1>4

LEMMA DeathStep ==
    ASSUME SsoInv, NEW f \in Failure, worker_dies(f) PROVE SsoInv'
<1> USE DEF SsoInv, rows, roleVars, Caller, At
<1>1. UNCHANGED <<sso, files, user, profile, tools>> /\ failed' \in SUBSET Failure
      /\ roleTask' \in BOOLEAN
  BY DEF worker_dies, TypeOK
<1>2. ASSUME NEW r \in Request, call' = [call EXCEPT ![r].pc = "failed"],
             mem' = [mem EXCEPT ![r] = NoRow], sync' = sync
      PROVE  SsoInv'
  <2>1. TypeOK'
    BY <1>1, <1>2 DEF TypeOK, NoRow, ProfileRow, Status
  <2>2. (FilesAreListed /\ LinesAreListed /\ UnseenIsAbsent)'
    BY <1>1, <1>2 DEF FilesAreListed, LinesAreListed, UnseenIsAbsent
  <2>3. RequestsSaveActive'
    BY <1>2 DEF RequestsSaveActive, TypeOK
  <2> QED BY <2>1, <2>2, <2>3
<1>3. CASE /\ call' = [call EXCEPT ![Sync] = NotCalling]
           /\ mem' = [mem EXCEPT ![Sync] = NoRow] /\ sync' = NotRunning
  <2>1. TypeOK'
    BY <1>1, <1>3 DEF TypeOK, NoRow, ProfileRow, Status, NotCalling, NotRunning
  <2>2. (FilesAreListed /\ LinesAreListed /\ UnseenIsAbsent)'
    BY <1>1, <1>3 DEF FilesAreListed, LinesAreListed, UnseenIsAbsent, TypeOK, NotCalling, NotRunning
  <2>3. RequestsSaveActive'
    BY <1>3 DEF RequestsSaveActive, TypeOK
  <2> QED BY <2>1, <2>2, <2>3
<1>4. CASE UNCHANGED <<call, mem, sync>>
  BY <1>1, <1>4 DEF TypeOK, FilesAreListed, LinesAreListed, UnseenIsAbsent, RequestsSaveActive
<1> QED BY <1>2, <1>3, <1>4 DEF worker_dies

-----------------------------------------------------------------------------
LEMMA SsoInvStep == SsoInv /\ [Next]_vars => SsoInv'
<1> SUFFICES ASSUME SsoInv, [Next]_vars PROVE SsoInv'
  OBVIOUS
<1>1. CASE UNCHANGED vars
  BY <1>1 DEF vars, rows, roleVars, SsoInv, TypeOK, FilesAreListed, LinesAreListed, UnseenIsAbsent,
              RequestsSaveActive
<1>2. ASSUME NEW c \in Caller, CallNext(c) PROVE SsoInv'
  BY <1>2, CallStep, NoProfileStep
<1> QED BY <1>1, <1>2, SsoStep, ExportStep, RequestStep, SyncStep, ToolsStep, DeathStep
       DEF Next, RequestNext, SyncNext, Caller

\* The inductive invariant holds of every behaviour.
THEOREM SsoInvCorrect == Spec => []SsoInv
BY SsoInitInv, SsoInvStep, PTL DEF Spec

\* The variables keep their types.
THEOREM SsoTypeCorrect == Spec => []TypeOK
BY SsoInvCorrect, PTL DEF SsoInv

-----------------------------------------------------------------------------
(* Who becomes inactive was not active in a listed file. *)

LEMMA InactiveStep ==
    ASSUME SsoInv, [Next]_vars,
           profile.exists, profile.status = "active", profile'.status = "inactive"
    PROVE  \E n \in 1..sync.listed : files[n].person # "active"
<1>1. sync.listed \in Nat /\ sync.done \in Nat
  BY DEF SsoInv, TypeOK
<1>2. ASSUME NEW c \in Caller, CallNext(c)
      PROVE  \E n \in 1..sync.listed : files[n].person # "active"
  <2>1. call[c].status = "inactive" /\ call[c].pc # "idle"
    BY <1>2 DEF SsoInv, TypeOK, ProfileRow, CallNext, get_user_by_sso_id, user_created,
       user_not_created, profile_created, profile_saved, profile_read, profile_not_there,
       status_compared, SavedIf, rows, NewProfile, NoRow
  <2>2. c = Sync
    BY <2>1 DEF SsoInv, RequestsSaveActive, Caller
  <2>3. sync.done + 1 \in 1..sync.listed /\ files[sync.done + 1].person = "inactive"
    BY <1>1, <2>1, <2>2 DEF SsoInv, LinesAreListed
  <2> QED BY <2>3
<1>3. CASE mark_unseen
  <2>1. sync.pc = "files" /\ ~sync.seen /\ sync.done = sync.listed /\ sync.listed >= 1
    BY <1>3 DEF mark_unseen, SsoInv, FilesAreListed
  <2>2. files[1].person = "absent" /\ 1 \in 1..sync.listed
    BY <1>1, <2>1 DEF SsoInv, UnseenIsAbsent
  <2> QED BY <2>2
<1>4. ASSUME NEW r \in Request, authenticate_returns(r) PROVE FALSE
  <2>1. mem[r].status = "active" /\ mem[r] \in ProfileRow
    BY <1>4 DEF SsoInv, TypeOK, RequestsSaveActive, authenticate_returns, Caller
  <2> QED BY <1>4, <2>1 DEF authenticate_returns, ProfileRow
<1>5. ~create_tools_access_iam_role
  BY DEF create_tools_access_iam_role, SsoInv, TypeOK, ProfileRow
<1>6. profile' # profile
  OBVIOUS
<1>7. ASSUME NEW r \in Request, authenticate(r) PROVE FALSE
  BY <1>6, <1>7 DEF authenticate, rows
<1>8. ASSUME NEW f \in Failure, worker_dies(f) PROVE FALSE
  BY <1>6, <1>8 DEF worker_dies, rows
<1>9. ASSUME \/ \E status \in Status : sso_changes(status)
             \/ \E full \in BOOLEAN, person \in Status \cup {"absent"} : sso_exports(full, person)
             \/ list_files \/ process_line \/ line_processed \/ delete_objects
             \/ tools_granted \/ UNCHANGED vars
      PROVE  FALSE
  BY <1>6, <1>9 DEF sso_changes, sso_exports, list_files, process_line, line_processed,
     delete_objects, tools_granted, vars, rows
<1> QED BY <1>2, <1>3, <1>4, <1>5, <1>7, <1>8, <1>9 DEF Next, RequestNext, SyncNext, Caller

\* An active profile becomes inactive only if SSO was not active for the person in one of the
\* listed exports.
THEOREM InactiveForAReasonCorrect == Spec => InactiveForAReason
<1>1. SsoInv /\ [Next]_vars =>
        [(profile.exists /\ profile.status = "active" /\ profile'.status = "inactive") =>
            \E n \in 1..sync.listed : files[n].person # "active"]_vars
  BY InactiveStep
<1> QED BY <1>1, SsoInvCorrect, PTL DEF Spec, InactiveForAReason


-----------------------------------------------------------------------------
(***************************************************************************)
(* The composition.  LogProofs!Init and LogProofs!Next are about the same  *)
(* variables as Logs!Init and Logs!Next, and say the same.                 *)
(***************************************************************************)
LogProofs == INSTANCE ToolQueryLogsProofs WITH failed <- failures

LEMMA SameInit == Logs!Init <=> LogProofs!Init
  BY DEF Logs!Init, Logs!Idle, LogProofs!Init, LogProofs!Idle

LEMMA SameExecution ==
    ASSUME NEW e \in Execution
    PROVE  Logs!ExecutionNext(e) <=> LogProofs!ExecutionNext(e)
  BY DEF Logs!ExecutionNext, Logs!window_chosen, Logs!logs_fetched, Logs!tables_stored,
         Logs!execution_ends, Logs!line_skipped, Logs!line_stored, Logs!InWindow, Logs!Idle,
         Logs!statementVars, Logs!history,
         LogProofs!ExecutionNext, LogProofs!window_chosen, LogProofs!logs_fetched,
         LogProofs!tables_stored, LogProofs!execution_ends, LogProofs!line_skipped,
         LogProofs!line_stored, LogProofs!InWindow, LogProofs!Idle, LogProofs!statementVars,
         LogProofs!history

LEMMA SameNext == Logs!Next <=> LogProofs!Next
  BY SameExecution
     DEF Logs!Next, Logs!tick, Logs!last_run_expires, Logs!lock_expires,
         Logs!statement_executed, Logs!line_written, Logs!user_dropped, Logs!execution_dies,
         Logs!Expired, Logs!Idle, Logs!statementVars, Logs!history,
         LogProofs!Next, LogProofs!tick, LogProofs!last_run_expires, LogProofs!lock_expires,
         LogProofs!statement_executed, LogProofs!line_written, LogProofs!user_dropped,
         LogProofs!execution_dies, LogProofs!Expired, LogProofs!Idle, LogProofs!statementVars,
         LogProofs!history

\* Each part behaves in the composition as it does alone: no step of one disturbs the other.
THEOREM RecordsAreParts == RecordsSpec => Spec /\ LogProofs!Spec
<1>1. RecordsInit => Init /\ LogProofs!Init
  BY SameInit DEF RecordsInit
<1>2. [RecordsNext]_<<part, ssoVars, logVars>> => [Next]_vars /\ [LogProofs!Next]_(LogProofs!vars)
  BY SameNext DEF RecordsNext, ssoVars, logVars, LogProofs!vars, LogProofs!statementVars,
                  LogProofs!history
<1> QED
  BY <1>1, <1>2, PTL DEF RecordsSpec, Spec, LogProofs!Spec

RecordsBounded == MaxTime \in Nat \ {0} /\ Kept \in Nat

LEMMA LogsBounded == RecordsBounded => LogProofs!Bounded
  BY DEF RecordsBounded, LogProofs!Bounded

\* Every variable of either part keeps its type, whichever takes its steps.
THEOREM RecordsTypeCorrect == ASSUME RecordsBounded PROVE RecordsSpec => []RecordsTypeOK
<1>1. LogProofs!Bounded
  BY LogsBounded
\* each instance has a Cardinality of its own
<1>2. LogProofs!TypeOK => Logs!TypeOK
  BY DEF LogProofs!TypeOK, LogProofs!Cardinality, Logs!TypeOK, Logs!Cardinality
<1>3. TypeOK /\ LogProofs!TypeOK => RecordsTypeOK
  BY <1>2 DEF RecordsTypeOK
<1>4. Spec => []TypeOK
  BY SsoTypeCorrect
<1>5. LogProofs!Spec => []LogProofs!TypeOK
  BY <1>1, LogProofs!TypeCorrect
<1> QED
  BY <1>3, <1>4, <1>5, RecordsAreParts, PTL

\* Who becomes inactive was not active in a listed export, whatever the other part does.
THEOREM RecordsInactiveForAReasonCorrect == RecordsSpec => InactiveForAReason
BY RecordsAreParts, InactiveForAReasonCorrect, PTL

\* What sync_tool_query_logs leaves in the cache as the end of its window is never ahead of what
\* it stored: no line up to there is left out, but for the exceptions of the property.
THEOREM WindowsLeaveNothingCorrect ==
    ASSUME RecordsBounded PROVE RecordsSpec => []WindowsLeaveNothing
<1>1. LogProofs!Spec => []LogProofs!WindowsLeaveNothing
  BY LogsBounded, LogProofs!WindowsLeaveNothingCorrect
<1>2. LogProofs!WindowsLeaveNothing => WindowsLeaveNothing
  BY DEF LogProofs!WindowsLeaveNothing, WindowsLeaveNothing, Logs!WindowsLeaveNothing
<1> QED
  BY <1>1, <1>2, RecordsAreParts, PTL

\* A ToolQueryAuditLog is without its tables only while the execution that made it goes on, or
\* after that has died between the two.
THEOREM StoredHaveTablesCorrect ==
    ASSUME RecordsBounded PROVE RecordsSpec => []StoredHaveTables
<1>1. LogProofs!Spec => []LogProofs!StoredHaveTables
  BY LogsBounded, LogProofs!StoredHaveTablesCorrect
<1>2. LogProofs!StoredHaveTables => StoredHaveTables
  BY DEF LogProofs!StoredHaveTables, StoredHaveTables, Logs!StoredHaveTables
<1> QED
  BY <1>1, <1>2, RecordsAreParts, PTL
=============================================================================
