----------------------- MODULE ReferenceDatasetsProofs -----------------------
(***************************************************************************)
(* Proofs about ReferenceDatasets, for any requests, processes, records,   *)
(* failures and deaths, and any finite set of fields.                      *)
(*                                                                         *)
(* Each property is kept because of what a transaction holds before its    *)
(* end:                                                                    *)
(*   - FieldsHaveColumns because the draft has the column of a field that  *)
(*     is added or is back at the savepoint, with the error noted, and has *)
(*     lost that of one that is deleted (DraftFits);                       *)
(*   - ModelsAreCurrent because a model has the fields of the row at its   *)
(*     version, or those of the draft at the next one, and the draft has   *)
(*     other fields only at the next one (Versions);                       *)
(*   - RecordsAreReplicated because who synchronises has in hand what is   *)
(*     to be left in the external table, and all of it is there already,   *)
(*     unless it is overtaken (SavedIsThere): so the external table is in  *)
(*     line with what the transaction at its end sees (InLine).            *)
(***************************************************************************)
EXTENDS ReferenceDatasets, FiniteSetTheorems, TLAPS

Bounded == MaxRequests \in Nat /\ IsFiniteSet(Field)

-----------------------------------------------------------------------------
(* Types *)

Pc == {"idle", "read", "model", "query", "alter", "alter_external", "field_deleted",
       "drop_external", "write", "row", "sync", "sync_delete", "last_model", "last_query",
       "commit"}

Call == [pc : Pc, op : Op, process : Process \cup {NoProcess}, row : Row,
         subject : SUBSET (Field \cup Record), model : SUBSET Field, saved : SUBSET Record,
         overtaken : BOOLEAN]
Draft == [row : Row, fields : SUBSET Field, columns : SUBSET Columns(Field)]
External == [exists : BOOLEAN, columns : SUBSET Columns(Field), records : SUBSET Record]

TypedTables ==
    /\ row \in Row /\ fields \subseteq Field /\ columns \subseteq Columns(Field)
    /\ records \subseteq Record
    /\ rowLock = {} \/ \E r \in Request : rowLock = {r}
    /\ draft \in Draft
    /\ swallowed \subseteq late /\ late \subseteq Field /\ rolledBack \subseteq Nat
    /\ staleSave \in BOOLEAN /\ diverged \in BOOLEAN

TypedRest ==
    /\ external \in External
    /\ models \in [Process -> SUBSET Model]
    /\ begun \in 0..MaxRequests /\ failed \subseteq Failure

Typed == TypedTables /\ TypedRest /\ call \in [Request -> Call]

Subject(op) == CASE op \in {"add", "delete"} -> {{f} : f \in Field}
                 [] op \in {"save", "remove", "upload"} -> SUBSET Record
                 [] OTHER -> {{}}

\* the steps of each operation outside of its transaction, and in it
Outside(op) ==
    CASE op = "view" -> {"idle", "model", "query"}
      [] op \in {"add", "delete", "move", "remove"} -> {"idle", "read"}
      [] op = "save" -> {"idle", "model", "query", "write", "row"}
      [] op = "upload" -> {"idle", "model", "query", "write", "row", "sync", "sync_delete"}

Inside(op) ==
    CASE op = "view" -> {}
      [] op = "add" -> {"model", "query", "alter", "alter_external", "last_model", "last_query",
                        "commit"}
      [] op = "delete" -> {"model", "query", "alter", "alter_external", "field_deleted",
                           "last_model", "last_query", "commit"}
      [] op = "move" -> {"model", "query", "drop_external", "sync", "sync_delete", "commit"}
      [] op = "remove" -> {"model", "query", "sync", "sync_delete", "commit"}
      [] op = "save" -> {"sync", "sync_delete", "commit"}
      [] op = "upload" -> {"commit"}

PlacedIs(r) ==
    /\ call[r].subject \in Subject(call[r].op)
    /\ call[r].pc \in IF r \in rowLock THEN Inside(call[r].op) ELSE Outside(call[r].op)
    /\ call[r].pc # "idle" => call[r].process \in Process

Placed == \A r \in Request : PlacedIs(r)

-----------------------------------------------------------------------------
(* Columns *)

\* the field that is added
New(r) == IF call[r].op = "add" THEN call[r].subject ELSE {}

\* whether ALTER TABLE is behind r, or has failed
Altered(r) ==
    /\ call[r].op \in {"add", "delete"}
    /\ call[r].pc \in {"alter_external", "field_deleted", "last_model", "last_query", "commit"}

Added(r) ==
    /\ draft.fields = fields \cup call[r].subject
    /\ draft.columns = columns \cup Columns(call[r].subject)

\* an error was taken for a column that is there
Taken(r) ==
    /\ draft.fields = fields \ call[r].subject /\ draft.columns = columns
    /\ call[r].subject \subseteq late
    /\ call[r].subject \subseteq swallowed \/ Columns(call[r].subject) \subseteq columns

\* the column of the field that is deleted is gone, if it was its own
Removed(r) ==
    /\ draft.columns = IF Columns(call[r].subject) \cap Columns(fields \ call[r].subject) = {}
                       THEN columns \ Columns(call[r].subject) ELSE columns
    /\ draft.fields = IF call[r].pc \in {"alter_external", "field_deleted"} THEN fields
                      ELSE fields \ call[r].subject

DraftFits ==
    \A r \in rowLock :
        /\ ~Altered(r) => draft.fields = fields \cup New(r) /\ draft.columns = columns
        /\ Altered(r) /\ call[r].op = "add" =>
               Added(r) \/ (call[r].pc # "alter_external" /\ Taken(r))
        /\ Altered(r) /\ call[r].op = "delete" => Removed(r)

-----------------------------------------------------------------------------
(* Versions *)

\* a transaction saves the row as it is, or with the next version; a request outside of one
\* has the version of the row or an earlier one
DraftVersions ==
    \A r \in rowLock :
        /\ draft.row.schema \in {row.schema, row.schema + 1}
        /\ \/ call[r].row.schema = draft.row.schema
           \/ call[r].op = "add" /\ call[r].row.schema \in rolledBack
        /\ draft.row.schema = row.schema => draft.fields \cup late = fields \cup late
        /\ call[r].op = "delete" /\ call[r].pc \notin {"last_model", "last_query", "commit"} =>
               call[r].row.schema = row.schema /\ draft.row.schema = row.schema
        /\ call[r].row.external = draft.row.external
        /\ (call[r].op = "move") = (draft.row.external # row.external)

VersionsRead ==
    \A r \in Request \ rowLock : call[r].pc # "idle" => call[r].row.schema <= row.schema

ModelFits(m) ==
    \/ m.version \in rolledBack
    \/ m.version < row.schema
    \/ m.version = row.schema /\ m.fields \cup late = fields \cup late
    \/ /\ rowLock # {} /\ m.version = draft.row.schema
       /\ m.fields \cup late = draft.fields \cup late

ModelsFit == \A p \in Process : \A m \in models[p] : ModelFits(m)

Versions == ~staleSave => DraftVersions /\ VersionsRead /\ ModelsFit

-----------------------------------------------------------------------------
(* Records *)

Deleting == \E r \in Request : call[r].pc = "sync_delete"
Synced(r) ==
    call[r].pc = "commit" /\ call[r].op \in {"save", "remove", "move"} /\ call[r].row.external
Moving(r) == call[r].op = "move" /\ call[r].pc \in {"sync", "sync_delete"}

InLine ==
    ~staleSave /\ ~diverged /\ ~Deleting /\ external.exists =>
        /\ (row.external /\ \A r \in rowLock : ~Synced(r)) => external.records = records
        /\ \A r \in rowLock : Synced(r) => external.records = RecordsSeen(r)

SavedIsThere ==
    \A r \in Request : call[r].pc = "sync_delete" /\ ~call[r].overtaken =>
        IF r \in rowLock
        THEN call[r].saved = RecordsSeen(r) /\ call[r].saved \subseteq external.records
        ELSE \/ diverged \/ ~external.exists \/ call[r].saved \subseteq external.records
             \/ \E s \in rowLock : Moving(s)

Fits == DraftFits /\ FieldsHaveColumns /\ Versions /\ InLine /\ SavedIsThere
IInv == Typed /\ Placed /\ Fits
-----------------------------------------------------------------------------
(* The calls *)

\* the only call that changes is that of r, which stays with its operation, and with its row
CallOf(r) == call' \in [Request -> Call] /\ \A s \in Request \ {r} : call'[s] = call[s]
Same(r) ==
    /\ call'[r].op = call[r].op /\ call'[r].process = call[r].process
    /\ call'[r].subject = call[r].subject
    /\ call'[r].saved = call[r].saved /\ call'[r].overtaken = call[r].overtaken
SameRow(r) == call'[r].row = call[r].row

\* A call stays one, whatever becomes of it.
LEMMA IdleCall == Idle \in Call
  BY DEF Idle, Call, Pc, Op, Row

LEMMA AtCall ==
    ASSUME call \in [Request -> Call], NEW r \in Request, NEW pc \in Pc
    PROVE  /\ At(r, pc) \in [Request -> Call]
           /\ \A s \in Request \ {r} : At(r, pc)[s] = call[s]
           /\ At(r, pc)[r].pc = pc
           /\ At(r, pc)[r].op = call[r].op /\ At(r, pc)[r].process = call[r].process
           /\ At(r, pc)[r].subject = call[r].subject /\ At(r, pc)[r].row = call[r].row
           /\ At(r, pc)[r].saved = call[r].saved
           /\ At(r, pc)[r].overtaken = call[r].overtaken
<1>1. [call[r] EXCEPT !.pc = pc] \in Call
  BY DEF Call
<1> QED
  BY <1>1 DEF At, Call

LEMMA GoesTo ==
    ASSUME call \in [Request -> Call], NEW r \in Request, NEW pc \in Pc, call' = At(r, pc)
    PROVE  CallOf(r) /\ Same(r) /\ SameRow(r) /\ call'[r].pc = pc
  BY AtCall DEF CallOf, Same, SameRow

LEMMA GoesToWithRow ==
    ASSUME call \in [Request -> Call], NEW r \in Request, NEW pc \in Pc, NEW new \in Row,
           call' = [At(r, pc) EXCEPT ![r].row = new]
    PROVE  CallOf(r) /\ Same(r) /\ call'[r].row = new /\ call'[r].pc = pc
<1> DEFINE at == At(r, pc)
<1>1. at \in [Request -> Call] /\ \A s \in Request \ {r} : at[s] = call[s]
  BY AtCall
<1>2. [at[r] EXCEPT !.row = new] \in Call
  BY <1>1 DEF Call
<1>3. call' = [at EXCEPT ![r].row = new]
  OBVIOUS
<1> HIDE DEF at
<1>4. call' \in [Request -> Call] /\ \A s \in Request \ {r} : call'[s] = at[s]
  BY <1>1, <1>2, <1>3
<1>5. /\ call'[r].pc = at[r].pc /\ call'[r].op = at[r].op /\ call'[r].process = at[r].process
      /\ call'[r].subject = at[r].subject /\ call'[r].saved = at[r].saved
      /\ call'[r].overtaken = at[r].overtaken /\ call'[r].row = new
  BY <1>1, <1>3 DEF Call
<1> QED
  BY <1>1, <1>4, <1>5, AtCall DEF CallOf, Same, at

LEMMA GoesToWithSaved ==
    ASSUME call \in [Request -> Call], NEW r \in Request, NEW pc \in Pc, NEW saved \in SUBSET Record,
           call' = [At(r, pc) EXCEPT ![r].saved = saved]
    PROVE  /\ CallOf(r) /\ SameRow(r) /\ call'[r].pc = pc /\ call'[r].saved = saved
           /\ call'[r].op = call[r].op /\ call'[r].process = call[r].process
           /\ call'[r].subject = call[r].subject /\ call'[r].overtaken = call[r].overtaken
<1> DEFINE at == At(r, pc)
<1>1. at \in [Request -> Call] /\ \A s \in Request \ {r} : at[s] = call[s]
  BY AtCall
<1>2. [at[r] EXCEPT !.saved = saved] \in Call
  BY <1>1 DEF Call
<1>3. call' = [at EXCEPT ![r].saved = saved]
  OBVIOUS
<1> HIDE DEF at
<1>4. call' \in [Request -> Call] /\ \A s \in Request \ {r} : call'[s] = at[s]
  BY <1>1, <1>2, <1>3
<1>5. /\ call'[r].pc = at[r].pc /\ call'[r].op = at[r].op /\ call'[r].process = at[r].process
      /\ call'[r].subject = at[r].subject /\ call'[r].saved = saved
      /\ call'[r].overtaken = at[r].overtaken /\ call'[r].row = at[r].row
  BY <1>1, <1>3 DEF Call
<1> QED
  BY <1>1, <1>4, <1>5, AtCall DEF CallOf, SameRow, at

LEMMA GetsModel ==
    ASSUME call \in [Request -> Call], NEW r \in Request, NEW fs \in SUBSET Field, HasModel(r, fs),
           AfterModel(r) \in Pc
    PROVE  CallOf(r) /\ Same(r) /\ SameRow(r) /\ call'[r].pc = AfterModel(r)
<1> DEFINE pc == AfterModel(r)
<1>1. call' = [call EXCEPT ![r] = [call[r] EXCEPT !.model = fs, !.pc = pc]]
  BY DEF HasModel
<1> HIDE DEF pc
<1>2. [call[r] EXCEPT !.model = fs] \in Call
  BY DEF Call
<1>3. [call[r] EXCEPT !.model = fs, !.pc = pc] \in Call
  BY <1>2 DEF Call, pc
<1>4. CallOf(r)
  BY <1>1, <1>3 DEF CallOf
<1>5. call'[r] = [call[r] EXCEPT !.model = fs, !.pc = pc]
  BY <1>1
<1>6. call'[r].pc = pc /\ Same(r) /\ SameRow(r)
  BY <1>5 DEF Call, Same, SameRow
<1> QED
  BY <1>4, <1>6 DEF pc

LEMMA BecomesIdle ==
    ASSUME call \in [Request -> Call], NEW r \in Request, call' = [call EXCEPT ![r] = Idle]
    PROVE  /\ CallOf(r) /\ call'[r].pc = "idle" /\ call'[r].op = "view"
           /\ call'[r].subject = {}
<1>1. CallOf(r) /\ call'[r] = Idle
  BY IdleCall DEF CallOf
<1> QED
  BY <1>1 DEF Idle

LEMMA UploadCall ==
    ASSUME call \in [Request -> Call], NEW r \in Request, NEW record,
           call[r].op = "upload", call[r].subject \in SUBSET Record,
           call' = UploadGoesOn(r, record)
    PROVE  /\ CallOf(r) /\ SameRow(r) /\ call'[r].op = "upload"
           /\ call'[r].process = call[r].process
           /\ call'[r].subject \in SUBSET Record
           /\ call'[r].pc \in {"model", "sync", "idle"}
<1> DEFINE rest == call[r].subject \ {record}
           pc == IF rest # {} THEN "model" ELSE IF call[r].row.external THEN "sync" ELSE "idle"
<1>1. call' = [call EXCEPT ![r] = [call[r] EXCEPT !.subject = rest, !.pc = pc]]
  BY DEF UploadGoesOn
<1>2. rest \in SUBSET Record /\ pc \in {"model", "sync", "idle"}
  OBVIOUS
<1> HIDE DEF rest, pc
<1>3. [call[r] EXCEPT !.subject = rest] \in Call
  BY <1>2 DEF Call
<1>4. [call[r] EXCEPT !.subject = rest, !.pc = pc] \in Call
  BY <1>2, <1>3 DEF Call, Pc
<1>5. CallOf(r)
  BY <1>1, <1>4 DEF CallOf
<1>6. call'[r] = [call[r] EXCEPT !.subject = rest, !.pc = pc]
  BY <1>1
<1> QED
  BY <1>2, <1>5, <1>6 DEF Call, SameRow

LEMMA BeginsCall ==
    ASSUME Typed, NEW r \in Request, NEW p \in Process, NEW op \in Op,
           NEW subject \in SUBSET (Field \cup Record), begin(r, p, op, subject)
    PROVE  /\ CallOf(r) /\ call'[r].op = op /\ call'[r].row = row
           /\ call'[r].process = p /\ call'[r].subject = subject
           /\ call'[r].pc = IF op \in {"view", "save", "upload"} THEN "model" ELSE "read"
<1> DEFINE pc == IF op \in {"view", "save", "upload"} THEN "model" ELSE "read"
<1>1. call' = [call EXCEPT ![r] = [Idle EXCEPT !.pc = pc, !.op = op, !.process = p, !.row = row,
                                              !.subject = subject]]
  BY DEF begin
<1>2. pc \in Pc
  BY DEF Pc
<1> HIDE DEF pc
<1>3. [Idle EXCEPT !.pc = pc, !.op = op] \in Call
  BY <1>2, IdleCall DEF Call
<1>4. [Idle EXCEPT !.pc = pc, !.op = op, !.process = p] \in Call
  BY <1>3 DEF Call
<1>5. [Idle EXCEPT !.pc = pc, !.op = op, !.process = p, !.row = row] \in Call
  BY <1>4 DEF Call, Typed, TypedTables
<1> DEFINE new == [Idle EXCEPT !.pc = pc, !.op = op, !.process = p, !.row = row,
                               !.subject = subject]
<1>6. new \in Call
  BY <1>5 DEF Call
<1>7. /\ new.pc = pc /\ new.op = op /\ new.process = p /\ new.row = row /\ new.subject = subject
  BY DEF Idle
<1>8. call' = [call EXCEPT ![r] = new]
  BY <1>1
<1> HIDE DEF new
<1>9. CallOf(r) /\ call'[r] = new
  BY <1>6, <1>8 DEF CallOf, Typed
<1> QED
  BY <1>7, <1>9 DEF pc

-----------------------------------------------------------------------------
(* Who has the row, and what follows at once *)

LEMMA Locks == ASSUME Typed, NEW r \in rowLock PROVE r \in Request /\ rowLock = {r}
  BY DEF Typed, TypedTables

LEMMA Busy ==
    ASSUME NEW op \in Op
    PROVE  /\ {"idle", "read", "write", "row"} \cap Inside(op) = {}
           /\ Inside(op) \subseteq Pc /\ Outside(op) \subseteq Pc
  BY DEF Op, Inside, Outside, Pc

LEMMA OneElement == ASSUME NEW S, Cardinality(S) = 1, IsFiniteSet(S) PROVE \E x : S = {x}
  BY FS_Singleton

LEMMA TypeFollows == Typed => TypeOK
<1> SUFFICES ASSUME Typed PROVE TypeOK
  OBVIOUS
<1>1. Cardinality(rowLock) <= 1
  <2>1. CASE rowLock = {}
    BY <2>1, FS_EmptySet
  <2>2. CASE \E r \in Request : rowLock = {r}
    <3> PICK r \in Request : rowLock = {r}
      BY <2>2
    <3>1. Cardinality({r}) = 1
      BY FS_Singleton
    <3> QED
      BY <3>1
  <2> QED
    BY <2>1, <2>2 DEF Typed, TypedTables
<1>2. rowLock \subseteq Request
  BY DEF Typed, TypedTables
<1>3. \A r \in Request : call[r].row \in Row /\ call[r].process \in Process \cup {NoProcess}
  BY DEF Typed, Call
<1>4. DOMAIN models = Process /\ \A p \in Process : models[p] \subseteq Model
  BY DEF Typed, TypedRest
<1> QED
  BY <1>1, <1>2, <1>3, <1>4 DEF Typed, TypedTables, TypedRest, Draft, External, TypeOK

LEMMA InitInv == ASSUME Bounded PROVE Init => IInv
<1> SUFFICES ASSUME Init PROVE IInv
  OBVIOUS
<1>1. NoDraft \in Draft /\ [NoTable EXCEPT !.exists = TRUE] \in External
      /\ [NoTable EXCEPT !.exists = TRUE].records = {}
  BY DEF NoDraft, Draft, Row, NoTable, External
<1>2. Typed
  <2>1. call \in [Request -> Call] /\ models \in [Process -> SUBSET Model]
    BY IdleCall DEF Init
  <2>2. begun \in 0..MaxRequests /\ row \in Row
    BY DEF Init, Bounded, Row
  <2> QED
    BY <1>1, <2>1, <2>2 DEF Init, Typed, TypedTables, TypedRest
<1>3. Placed
  BY DEF Init, Idle, Placed, PlacedIs, Subject, Outside
<1>4. FieldsHaveColumns
  BY DEF Init, FieldsHaveColumns, Columns
<1>5. DraftFits /\ Versions
  BY DEF Init, Idle, DraftFits, Versions, DraftVersions, VersionsRead, ModelsFit
<1>6. InLine /\ SavedIsThere
  BY <1>1 DEF Init, Idle, InLine, SavedIsThere
<1> QED
  BY <1>2, <1>3, <1>4, <1>5, <1>6 DEF IInv, Fits

-----------------------------------------------------------------------------
(* Steps that change no table and no transaction *)

quiet == <<tables, tx, late, swallowed, rolledBack, staleSave, diverged>>

\* A request outside of its transaction gets on with something.
LEMMA OutsideStep ==
    ASSUME IInv, NEW r \in Request \ rowLock, CallOf(r), UNCHANGED <<quiet, external>>,
           TypedRest', ~staleSave => ModelsFit',
           call[r].pc # "sync_delete", call'[r].pc # "sync_delete",
           call'[r].pc \in Outside(call'[r].op), call'[r].subject \in Subject(call'[r].op),
           call'[r].pc # "idle" => /\ call'[r].process \in Process
                                   /\ ~staleSave => call'[r].row.schema <= row.schema
    PROVE  IInv'
<1> USE DEF quiet, tables, tx
<1>1. Typed'
  BY DEF IInv, Typed, TypedTables, CallOf
<1>2. \A s \in rowLock : s \in Request /\ call'[s] = call[s]
  BY DEF IInv, Typed, TypedTables, CallOf
<1>3. Placed'
  BY <1>2 DEF IInv, Placed, PlacedIs, CallOf
<1>4. DraftFits'
  <2> SUFFICES ASSUME NEW s \in rowLock
               PROVE  /\ ~Altered(s)' => draft.fields = fields \cup New(s)' /\ draft.columns = columns
                      /\ Altered(s)' /\ call'[s].op = "add" =>
                             Added(s)' \/ (call'[s].pc # "alter_external" /\ Taken(s)')
                      /\ Altered(s)' /\ call'[s].op = "delete" => Removed(s)'
    BY DEF DraftFits
  <2>1. call'[s] = call[s]
    BY <1>2
  <2>2. /\ Altered(s)' = Altered(s) /\ New(s)' = New(s) /\ Added(s)' = Added(s)
        /\ Taken(s)' = Taken(s) /\ Removed(s)' = Removed(s)
    BY <2>1 DEF Altered, New, Added, Taken, Removed
  <2> QED
    BY <2>1, <2>2 DEF IInv, Fits, DraftFits
<1>5. FieldsHaveColumns'
  BY DEF IInv, Fits, FieldsHaveColumns
<1>6. Versions'
  <2> SUFFICES ASSUME ~staleSave PROVE DraftVersions' /\ VersionsRead' /\ ModelsFit'
    BY DEF Versions
  <2>1. DraftVersions'
    BY <1>2 DEF IInv, Fits, Versions, DraftVersions
  <2>2. VersionsRead'
    BY DEF IInv, Fits, Versions, VersionsRead, CallOf
  <2> QED
    BY <2>1, <2>2
<1>7. Deleting' = Deleting
  BY DEF Deleting, CallOf
<1>8. \A s \in rowLock : Synced(s)' = Synced(s) /\ RecordsSeen(s)' = RecordsSeen(s)
                         /\ Moving(s)' = Moving(s)
  BY <1>2 DEF Synced, RecordsSeen, Moving
<1>9. InLine'
  BY <1>7, <1>8 DEF IInv, Fits, InLine
<1>10. SavedIsThere'
  <2> SUFFICES ASSUME NEW s \in Request, call'[s].pc = "sync_delete", ~call'[s].overtaken
               PROVE  IF s \in rowLock
                      THEN call[s].saved = RecordsSeen(s)' /\ call[s].saved \subseteq external.records
                      ELSE \/ diverged \/ ~external.exists \/ call[s].saved \subseteq external.records
                           \/ \E other \in rowLock : Moving(other)
    BY <1>8 DEF SavedIsThere, CallOf
  <2>1. call'[s] = call[s]
    BY DEF CallOf
  <2> QED
    BY <1>8, <2>1 DEF IInv, Fits, SavedIsThere
<1> QED
  BY <1>1, <1>3, <1>4, <1>5, <1>6, <1>9, <1>10 DEF IInv, Fits

\* A request in its transaction gets on with something that is neither the end of its
\* synchronisation nor in it.
LEMMA InsideStep ==
    ASSUME IInv, NEW r \in rowLock, CallOf(r), Same(r), SameRow(r), UNCHANGED quiet,
           external'.exists = external.exists, external'.records = external.records,
           TypedRest', ~staleSave => ModelsFit',
           call[r].pc \notin {"sync", "sync_delete", "commit"},
           call'[r].pc \in Inside(call[r].op) \ {"sync_delete"}, ~Synced(r)',
           DraftFits',
           call[r].op = "delete" =>
               /\ call'[r].pc \notin {"last_model", "last_query", "commit"} =>
                      call[r].pc \notin {"last_model", "last_query", "commit"}
    PROVE  IInv'
<1> USE DEF quiet, tables, tx
<1>1. r \in Request /\ rowLock = {r}
  BY Locks DEF IInv
<1>2. Typed'
  BY DEF IInv, Typed, TypedTables, CallOf
<1>3. Placed'
  <2>1. call[r].op \in Op /\ call[r].pc \in Inside(call[r].op)
    BY <1>1 DEF IInv, Typed, Call, Placed, PlacedIs
  <2>2. PlacedIs(r)'
    BY <1>1, <2>1, Busy DEF IInv, Placed, PlacedIs, Same
  <2>3. \A s \in Request \ {r} : PlacedIs(s)'
    BY DEF IInv, Placed, PlacedIs, CallOf
  <2> QED
    BY <2>2, <2>3 DEF Placed
<1>4. FieldsHaveColumns'
  BY DEF IInv, Fits, FieldsHaveColumns
<1>5. Versions'
  <2> SUFFICES ASSUME ~staleSave PROVE DraftVersions' /\ VersionsRead' /\ ModelsFit'
    BY DEF Versions
  <2>1. DraftVersions'
    BY <1>1 DEF IInv, Fits, Versions, DraftVersions, Same, SameRow
  <2>2. VersionsRead'
    BY <1>1 DEF IInv, Fits, Versions, VersionsRead, CallOf
  <2> QED
    BY <2>1, <2>2
<1>6. Deleting' = Deleting
  BY <1>1 DEF Deleting, CallOf
<1>7. InLine'
  BY <1>1, <1>6 DEF IInv, Fits, InLine, Synced
<1>8. SavedIsThere'
  <2> SUFFICES ASSUME NEW s \in Request, call'[s].pc = "sync_delete", ~call'[s].overtaken
               PROVE  \/ diverged \/ ~external.exists \/ call[s].saved \subseteq external.records
    BY <1>1 DEF SavedIsThere, CallOf
  <2>1. call'[s] = call[s] /\ s \notin rowLock /\ ~Moving(r)
    BY <1>1 DEF CallOf, Moving
  <2> QED
    BY <1>1, <2>1 DEF IInv, Fits, SavedIsThere
<1> QED
  BY <1>2, <1>3, <1>4, <1>5, <1>7, <1>8 DEF IInv, Fits

\* A request begins with the row as it is.
LEMMA BeginStep ==
    ASSUME Bounded, IInv, NEW r \in Request, NEW p \in Process, NEW op \in Op,
           NEW subject \in SUBSET (Field \cup Record), begin(r, p, op, subject)
    PROVE  IInv'
<1>1. /\ CallOf(r) /\ call'[r].op = op /\ call'[r].row = row
      /\ call'[r].process = p /\ call'[r].subject = subject
      /\ call'[r].pc = IF op \in {"view", "save", "upload"} THEN "model" ELSE "read"
  BY BeginsCall DEF IInv
<1>2. UNCHANGED <<quiet, external, models>> /\ call[r].pc = "idle"
  BY DEF begin, quiet, history
<1>3. r \notin rowLock
  BY <1>2, Busy DEF IInv, Typed, Call, Placed, PlacedIs
<1>4. subject \in Subject(op)
  <2>1. CASE op \in {"add", "delete"}
    <3>1. subject \subseteq Field /\ Cardinality(subject) = 1
      BY <2>1 DEF begin, IInv, Typed, TypedTables
    <3>2. \E f : subject = {f}
      BY <3>1, OneElement, FS_Subset DEF Bounded
    <3> QED
      BY <2>1, <3>1, <3>2 DEF Subject
  <2>2. CASE op \notin {"add", "delete"}
    BY <2>2 DEF begin, Subject, IInv, Typed, TypedTables
  <2> QED
    BY <2>1, <2>2
<1>5. call'[r].pc \in Outside(op) /\ call'[r].pc # "sync_delete"
  BY <1>1 DEF Op, Outside
<1>6. TypedRest'
  BY <1>2 DEF begin, Bounded, IInv, Typed, TypedRest
<1>7. ~staleSave => ModelsFit'
  BY <1>2 DEF quiet, tables, tx, IInv, Fits, Versions, ModelsFit, ModelFits
<1>8. row.schema \in Nat
  BY DEF IInv, Typed, TypedTables, Row
<1> QED
  BY <1>1, <1>2, <1>3, <1>4, <1>5, <1>6, <1>7, <1>8, OutsideStep

\* A request that has its model goes on where it may.
LEMMA ModelStep ==
    ASSUME IInv, NEW r \in Request, NEW fs \in SUBSET Field, HasModel(r, fs),
           call[r].pc \in {"model", "query", "last_model", "last_query"},
           UNCHANGED <<quiet, external>>, TypedRest', ~staleSave => ModelsFit'
    PROVE  IInv'
<1>1. call[r].op \in Op /\ call[r].pc \in IF r \in rowLock THEN Inside(call[r].op)
                                           ELSE Outside(call[r].op)
  BY DEF IInv, Typed, Call, Placed, PlacedIs
<1>2. CASE r \in rowLock
  <2>1. /\ call[r].op \in {"add", "delete", "move", "remove"}
        /\ AfterModel(r) \in Inside(call[r].op) \ {"sync_delete"}
        /\ call[r].pc \in {"last_model", "last_query"} => /\ call[r].op \in {"add", "delete"}
                                                          /\ AfterModel(r) = "commit"
        /\ call[r].op = "add" /\ call[r].pc \in {"model", "query"} => AfterModel(r) = "alter"
        /\ call[r].op = "delete" /\ call[r].pc \in {"model", "query"} => AfterModel(r) = "alter"
        /\ call[r].op = "remove" /\ AfterModel(r) = "commit" => ~call[r].row.external
        /\ call[r].op = "move" => AfterModel(r) = "drop_external"
    BY <1>1, <1>2 DEF Op, Inside, AfterModel
  <2>2. AfterModel(r) \in Pc
    BY <2>1, Busy, <1>1
  <2>3. CallOf(r) /\ Same(r) /\ SameRow(r) /\ call'[r].pc = AfterModel(r)
    BY <2>2, GetsModel DEF IInv, Typed
  <2>4. ~Synced(r)'
    BY <2>1, <2>3 DEF Synced, Same, SameRow
  <2>5. rowLock = {r}
    BY <1>2, Locks DEF IInv
  <2>6. Altered(r)' = Altered(r) /\ call'[r].pc # "alter_external"
        /\ (call'[r].pc # "field_deleted" /\ call[r].pc \notin {"alter_external", "field_deleted"})
    BY <1>1, <2>1, <2>3 DEF Altered, Same, Inside, Op
  <2>7. DraftFits'
    BY <1>2, <2>3, <2>5, <2>6 DEF quiet, tables, tx, IInv, Fits, DraftFits, Same, New, Added, Taken,
                           Removed
  <2>8. call[r].pc \notin {"sync", "sync_delete", "commit"}
    OBVIOUS
  <2>9. call[r].op = "delete" =>
               /\ call'[r].pc \notin {"last_model", "last_query", "commit"} =>
                      call[r].pc \notin {"last_model", "last_query", "commit"}
    BY <2>1, <2>3
  <2> QED
    BY <1>2, <2>1, <2>3, <2>4, <2>7, <2>8, <2>9, InsideStep
<1>3. CASE r \notin rowLock
  <2>1. /\ call[r].op \in {"view", "save", "upload"} /\ call[r].pc \in {"model", "query"}
        /\ AfterModel(r) \in Outside(call[r].op) \ {"sync_delete"}
    BY <1>1, <1>3 DEF Op, Outside, AfterModel
  <2>2. CallOf(r) /\ Same(r) /\ SameRow(r) /\ call'[r].pc = AfterModel(r)
    BY <1>1, <2>1, Busy, GetsModel DEF IInv, Typed
  <2>3. call'[r].process \in Process /\ call'[r].subject \in Subject(call'[r].op)
    BY <2>2 DEF Same, IInv, Placed, PlacedIs
  <2>4. ~staleSave => call'[r].row.schema <= row.schema
    BY <1>3, <2>2 DEF SameRow, IInv, Fits, Versions, VersionsRead
  <2>5. call'[r].op = call[r].op
    BY <2>2 DEF Same
  <2> QED
    BY <1>3, <2>1, <2>2, <2>3, <2>4, <2>5, OutsideStep
<1> QED
  BY <1>2, <1>3

LEMMA FitsKept == ASSUME UNCHANGED quiet, NEW m PROVE ModelFits(m)' = ModelFits(m)
  BY DEF quiet, tables, tx, ModelFits

LEMMA RegisteredStep ==
    ASSUME IInv, NEW r \in Request, model_registered(r)
    PROVE  IInv'
<1>1. UNCHANGED <<quiet, external, models, bounds>> /\ WantsModel(r)
  BY DEF model_registered, quiet, history
<1>2. call[r].process \in Process
  BY <1>1 DEF WantsModel, IInv, Placed, PlacedIs
<1>3. PICK m \in models[call[r].process] : HasModel(r, m.fields)
  BY DEF model_registered
<1>4. m.fields \in SUBSET Field
  BY <1>2 DEF IInv, Typed, TypedRest, Model
<1>5. TypedRest'
  BY <1>1 DEF IInv, Typed, TypedRest, bounds
<1>6. ~staleSave => ModelsFit'
  BY <1>1, FitsKept DEF IInv, Fits, Versions, ModelsFit
<1>7. call[r].pc \in {"model", "query", "last_model", "last_query"}
  BY <1>1 DEF WantsModel
<1> QED
  BY <1>1, <1>3, <1>4, <1>5, <1>6, <1>7, ModelStep

LEMMA ForgottenStep ==
    ASSUME IInv, NEW r \in Request, model_forgotten(r)
    PROVE  IInv'
<1> DEFINE pc == IF call[r].pc = "model" THEN "query" ELSE "last_query"
<1>1. UNCHANGED <<quiet, external, bounds>> /\ call[r].pc \in {"model", "last_model"}
      /\ models' = [models EXCEPT ![call[r].process] = {}] /\ call' = At(r, pc)
  BY DEF model_forgotten, quiet, history, WantsModel
<1>2. CallOf(r) /\ Same(r) /\ SameRow(r) /\ call'[r].pc = pc
  BY <1>1, GoesTo DEF Pc, IInv, Typed
<1>3. TypedRest'
  BY <1>1 DEF IInv, Typed, TypedRest, bounds
<1>4. \A p \in Process : models'[p] \subseteq models[p]
  BY <1>1 DEF IInv, Typed, TypedRest
<1>5. ~staleSave => ModelsFit'
  BY <1>1, <1>4, FitsKept DEF IInv, Fits, Versions, ModelsFit
<1>6. call[r].op \in Op /\ call[r].pc \in IF r \in rowLock THEN Inside(call[r].op)
                                           ELSE Outside(call[r].op)
  BY DEF IInv, Typed, Call, Placed, PlacedIs
<1>7. CASE r \in rowLock
  <2>1. pc \in Inside(call[r].op) \ {"sync_delete"}
    BY <1>1, <1>6, <1>7 DEF Op, Inside
  <2>2. rowLock = {r} /\ ~Synced(r)' /\ Altered(r)' = Altered(r)
    BY <1>1, <1>2, <1>7, Locks DEF IInv, Synced, Altered, Same
  <2>3. DraftFits'
    BY <1>1, <1>2, <1>7, <2>2 DEF quiet, tables, tx, IInv, Fits, DraftFits, Same, New, Added,
                                  Taken, Removed
  <2> QED
    BY <1>1, <1>2, <1>3, <1>5, <1>7, <2>1, <2>2, <2>3, InsideStep
<1>8. CASE r \notin rowLock
  <2>1. pc \in Outside(call[r].op)
    BY <1>1, <1>6, <1>8 DEF Op, Outside
  <2>2. call'[r].process \in Process /\ call'[r].subject \in Subject(call'[r].op)
    BY <1>1, <1>2 DEF Same, IInv, Placed, PlacedIs
  <2>3. ~staleSave => call'[r].row.schema <= row.schema
    BY <1>1, <1>2, <1>8 DEF SameRow, IInv, Fits, Versions, VersionsRead
  <2> QED
    BY <1>1, <1>2, <1>3, <1>5, <1>8, <2>1, <2>2, <2>3, OutsideStep DEF Same
<1> QED
  BY <1>7, <1>8

\* A model that is made has the fields that belong to the version it is made for, if that is
\* still the version: of the row, or of the draft if it is made in the transaction.
LEMMA MadeStep ==
    ASSUME IInv, NEW r \in Request, model_made(r)
    PROVE  IInv'
<1> DEFINE p == call[r].process
           new == [version |-> call[r].row.schema, fields |-> Visible(r)]
           m == IF models[p] = {} THEN {new} ELSE models[p]
<1>1. UNCHANGED <<quiet, external, bounds>> /\ call[r].pc \in {"query", "last_query"}
      /\ models' = [models EXCEPT ![p] = m] /\ HasModel(r, UNION {n.fields : n \in m})
  BY DEF model_made, quiet, history
<1>2. p \in Process /\ call[r].row \in Row
  BY <1>1 DEF IInv, Placed, PlacedIs, Typed, Call
<1>3. new \in Model
  BY <1>2 DEF Model, Visible, Row, IInv, Typed, TypedTables, Draft
<1>4. m \subseteq Model
  BY <1>2, <1>3 DEF IInv, Typed, TypedRest
<1>5. UNION {n.fields : n \in m} \in SUBSET Field
  BY <1>4 DEF Model
<1>6. TypedRest'
  BY <1>1, <1>2, <1>4 DEF IInv, Typed, TypedRest, bounds
<1>7. ASSUME ~staleSave PROVE ModelFits(new)
  <2>1. new.version = call[r].row.schema /\ new.fields = Visible(r)
    OBVIOUS
  <2>2. /\ row.schema \in Nat /\ call[r].row.schema \in Nat
    BY <1>2 DEF Row, IInv, Typed, TypedTables
  <2>3. CASE r \in rowLock
    BY <1>7, <2>1, <2>3 DEF Visible, ModelFits, IInv, Fits, Versions, DraftVersions
  <2>4. CASE r \notin rowLock
    <3>1. call[r].row.schema <= row.schema
      BY <1>1, <1>7, <2>4 DEF IInv, Fits, Versions, VersionsRead
    <3> QED
      BY <2>1, <2>2, <2>4, <3>1 DEF Visible, ModelFits
  <2> QED
    BY <2>3, <2>4
<1>8. ~staleSave => ModelsFit'
  <2> SUFFICES ASSUME ~staleSave, NEW q \in Process, NEW n \in models'[q] PROVE ModelFits(n)
    BY <1>1, FitsKept DEF ModelsFit
  <2>1. n = new \/ n \in models[q]
    BY <1>1, <1>2 DEF IInv, Typed, TypedRest
  <2> QED
    BY <1>7, <2>1 DEF IInv, Fits, Versions, ModelsFit
<1>9. call[r].pc \in {"model", "query", "last_model", "last_query"}
  BY <1>1
<1> QED
  BY <1>1, <1>5, <1>6, <1>8, <1>9, ModelStep

-----------------------------------------------------------------------------
(* The first save of a transaction *)

\* The draft is the row as r has it, with the tables as they are but for a field that is added.
LEMMA SaveStep ==
    ASSUME IInv, NEW r \in Request \ rowLock, NEW new \in Row, CallOf(r), Same(r),
           Saves(r, new, fields \cup New(r), columns),
           call[r].pc # "idle", call[r].pc # "sync_delete", call'[r].row = new,
           call'[r].pc \in Inside(call[r].op) \ {"sync_delete"}, ~Synced(r)', ~Altered(r)',
           new.schema = IF call[r].op = "add" THEN call[r].row.schema + 1 ELSE call[r].row.schema,
           (call[r].op = "move") = (new.external # call[r].row.external),
           UNCHANGED <<tables, external, models, bounds, late, swallowed, rolledBack, diverged>>
    PROVE  IInv'
<1> USE DEF tables
<1>1. /\ rowLock = {} /\ rowLock' = {r}
      /\ draft' = [row |-> new, fields |-> fields \cup New(r), columns |-> columns]
      /\ staleSave' = (staleSave \/ call[r].row # row)
  BY DEF Saves
<1>2. /\ draft'.row = new /\ draft'.fields = fields \cup New(r) /\ draft'.columns = columns
  BY <1>1
<1>3. New(r) \subseteq Field /\ call[r].op \in Op /\ call[r].row \in Row /\ row \in Row
  <2>1. call[r].subject \in Subject(call[r].op) /\ call[r].op \in Op /\ call[r].row \in Row
    BY DEF IInv, Typed, Call, Placed, PlacedIs
  <2>2. CASE call[r].op = "add"
    BY <2>1, <2>2 DEF New, Subject, IInv, Typed, TypedTables
  <2>3. CASE call[r].op # "add"
    BY <2>1, <2>3 DEF New, IInv, Typed, TypedTables
  <2> QED
    BY <2>2, <2>3
<1>4. Typed'
  <2>1. draft' \in Draft
    BY <1>1, <1>3 DEF Draft, IInv, Typed, TypedTables
  <2> QED
    BY <1>1, <2>1 DEF IInv, Typed, TypedTables, TypedRest, CallOf, bounds
<1>5. Placed'
  <2>1. PlacedIs(r)'
    BY <1>1 DEF IInv, Placed, PlacedIs, Same
  <2>2. \A s \in Request \ {r} : PlacedIs(s)'
    BY <1>1 DEF IInv, Placed, PlacedIs, CallOf
  <2> QED
    BY <2>1, <2>2 DEF Placed
<1>6. DraftFits'
  BY <1>1, <1>2 DEF DraftFits, New, Same
<1>7. FieldsHaveColumns'
  BY DEF IInv, Fits, FieldsHaveColumns
<1>8. Versions'
  <2> SUFFICES ASSUME ~staleSave, call[r].row = row
               PROVE  DraftVersions' /\ VersionsRead' /\ ModelsFit'
    BY <1>1, <1>3 DEF Versions
  <2>1. DraftVersions'
    <3>1. /\ new.schema \in {row.schema, row.schema + 1}
          /\ new.schema = row.schema => fields \cup New(r) \cup late = fields \cup late
      <4>1. CASE call[r].op # "add"
        BY <4>1 DEF New
      <4>2. CASE call[r].op = "add"
        BY <1>3, <4>2 DEF Row
      <4> QED
        BY <4>1, <4>2
    <3> QED
      BY <1>1, <1>2, <3>1 DEF DraftVersions, Same
  <2>2. VersionsRead'
    BY <1>1 DEF IInv, Fits, Versions, VersionsRead, CallOf
  <2>3. ModelsFit'
    BY <1>1 DEF IInv, Fits, Versions, ModelsFit, ModelFits
  <2> QED
    BY <2>1, <2>2, <2>3
<1>9. Deleting' = Deleting
  BY DEF Deleting, CallOf
<1>10. InLine'
  BY <1>1, <1>9 DEF IInv, Fits, InLine
<1>11. SavedIsThere'
  <2> SUFFICES ASSUME NEW s \in Request \ {r}, call'[s].pc = "sync_delete", ~call'[s].overtaken
               PROVE  \/ diverged \/ ~external.exists \/ call[s].saved \subseteq external.records
    BY <1>1 DEF SavedIsThere, CallOf
  <2> QED
    BY <1>1 DEF IInv, Fits, SavedIsThere, CallOf
<1> QED
  BY <1>4, <1>5, <1>6, <1>7, <1>8, <1>10, <1>11 DEF IInv, Fits

LEMMA SavedStep ==
    ASSUME IInv, NEW r \in Request,
           \/ field_saved(r) \/ parent_saved(r) \/ row_saved(r) \/ external_database_saved(r)
    PROVE  IInv'
<1> DEFINE op == call[r].op
           new == CASE field_saved(r) -> NextVersion(r)
                    [] external_database_saved(r) -> [call[r].row EXCEPT !.external = ~@]
                    [] OTHER -> call[r].row
           pc == IF row_saved(r) THEN AfterRow(r) ELSE "model"
<1>1. op \in Op /\ call[r].row \in Row
      /\ call[r].pc \in IF r \in rowLock THEN Inside(op) ELSE Outside(op)
  BY DEF IInv, Typed, Call, Placed, PlacedIs
<1>2. /\ call[r].pc \in {"read", "row"}
      /\ field_saved(r) => op = "add" /\ call[r].pc = "read"
      /\ parent_saved(r) => op = "delete" /\ call[r].pc = "read"
      /\ row_saved(r) => call[r].pc = "row" \/ op = "remove"
      /\ external_database_saved(r) => op = "move" /\ call[r].pc = "read"
  BY DEF field_saved, parent_saved, row_saved, external_database_saved
<1>3. r \notin rowLock
  BY <1>1, <1>2, Busy
<1>4. row_saved(r) => op \in {"save", "upload", "remove"}
  BY <1>1, <1>2, <1>3 DEF Op, Outside
<1>5. /\ new \in Row
      /\ new.schema = IF field_saved(r) THEN call[r].row.schema + 1 ELSE call[r].row.schema
      /\ (op = "move") = (new.external # call[r].row.external)
      /\ op = "add" => field_saved(r)
  <2>0. op = "add" => field_saved(r)
    BY <1>2, <1>4
  <2>1. CASE field_saved(r)
    BY <1>1, <1>2, <2>1 DEF NextVersion, Row
  <2>2. CASE external_database_saved(r)
    BY <1>1, <1>2, <2>2 DEF Row
  <2>3. CASE ~field_saved(r) /\ ~external_database_saved(r)
    BY <1>1, <1>2, <1>4, <2>3
  <2> QED
    BY <2>0, <2>1, <2>2, <2>3
<1>6. /\ Saves(r, new, fields \cup New(r), columns)
      /\ call' = [At(r, pc) EXCEPT ![r].row = new] \/ (call' = At(r, pc) /\ new = call[r].row)
      /\ UNCHANGED <<tables, external, models, bounds, late, swallowed, rolledBack, diverged>>
  <2>1. CASE field_saved(r)
    BY <1>2, <2>1 DEF field_saved, row_saved, New
  <2>2. CASE external_database_saved(r)
    BY <1>2, <2>2 DEF external_database_saved, row_saved, field_saved, New
  <2>3. CASE parent_saved(r)
    BY <1>2, <2>3 DEF parent_saved, New
  <2>4. CASE row_saved(r)
    BY <1>2, <1>4, <2>4 DEF row_saved, New
  <2> QED
    BY <2>1, <2>2, <2>3, <2>4
<1>7. /\ pc \in Inside(op) \ {"sync_delete"} /\ pc \in Pc
      /\ op \in {"add", "delete", "move"} => pc = "model"
      /\ pc = "commit" /\ op \in {"save", "remove", "move"} => ~call[r].row.external
  BY <1>1, <1>2, <1>4 DEF AfterRow, Inside, Pc
<1> HIDE DEF new, pc
<1>8. CallOf(r) /\ Same(r) /\ call'[r].row = new /\ call'[r].pc = pc
  BY <1>5, <1>6, <1>7, GoesTo, GoesToWithRow DEF IInv, Typed, SameRow
<1>9. ~Altered(r)' /\ ~Synced(r)'
  BY <1>5, <1>7, <1>8 DEF Altered, Synced, Same
<1> QED
  BY <1>2, <1>3, <1>5, <1>6, <1>7, <1>8, <1>9, SaveStep

-----------------------------------------------------------------------------
(* Failures outside of a transaction *)

\* Nothing is lost when a record cannot be written: the transaction has not saved the row.
LEMMA FailsOutside ==
    ASSUME IInv, NEW r \in Request \ rowLock, Fails(r), call[r].pc \in {"write", "row"}
    PROVE  IInv'
<1>1. UNCHANGED <<quiet, external, models, bounds>>
  <2>1. rowLock' = rowLock /\ draft' = draft /\ rolledBack' = rolledBack
    BY DEF Fails, RollsBack
  <2>2. diverged' = diverged
    BY DEF Fails, RollsBack, IInv, Typed, TypedTables
  <2> QED
    BY <2>1, <2>2 DEF Fails, quiet, tables, tx
<1>2. call[r].op \in {"save", "upload"} /\ call[r].subject \in SUBSET Record
      /\ call[r].process \in Process
  <2>1. call[r].op \in Op /\ PlacedIs(r)
    BY DEF IInv, Typed, Call, Placed
  <2> QED
    BY <2>1 DEF PlacedIs, Op, Outside, Subject
<1>3. TypedRest' /\ (~staleSave => ModelsFit')
  BY <1>1, FitsKept DEF IInv, Typed, TypedRest, bounds, Fits, Versions, ModelsFit
<1>4. CASE call[r].op = "upload"
  <2>1. PICK record \in call[r].subject : call' = UploadGoesOn(r, record)
    BY <1>4 DEF Fails
  <2>2. /\ CallOf(r) /\ SameRow(r) /\ call'[r].op = "upload"
        /\ call'[r].process = call[r].process /\ call'[r].subject \in SUBSET Record
        /\ call'[r].pc \in {"model", "sync", "idle"}
    BY <1>2, <1>4, <2>1, UploadCall DEF IInv, Typed
  <2>3. call'[r].pc \in Outside("upload") /\ call'[r].subject \in Subject("upload")
    BY <2>2 DEF Outside, Subject
  <2>4. ~staleSave => call'[r].row.schema <= row.schema
    BY <2>2 DEF SameRow, IInv, Fits, Versions, VersionsRead
  <2> QED
    BY <1>1, <1>2, <1>3, <2>2, <2>3, <2>4, OutsideStep
<1>5. CASE call[r].op # "upload"
  <2>1. /\ CallOf(r) /\ call'[r].pc = "idle" /\ call'[r].op = "view" /\ call'[r].subject = {}
    BY <1>5, BecomesIdle DEF Fails, IInv, Typed
  <2>2. "idle" \in Outside("view") /\ {} \in Subject("view")
    BY DEF Outside, Subject
  <2> QED
    BY <1>1, <1>3, <2>1, <2>2, OutsideStep
<1> QED
  BY <1>4, <1>5

LEMMA WrittenStep ==
    ASSUME IInv, NEW r \in Request, record_written(r)
    PROVE  IInv'
<1>1. call[r].pc = "write"
  BY DEF record_written
<1>2. call[r].op \in Op /\ PlacedIs(r)
  BY DEF IInv, Typed, Call, Placed
<1>3. r \notin rowLock
  BY <1>1, <1>2, Busy DEF PlacedIs
<1>4. CASE Fails(r)
  BY <1>1, <1>3, <1>4, FailsOutside
<1>5. CASE ~Fails(r)
  <2>1. call' = At(r, "row") /\ UNCHANGED <<quiet, external, models, bounds>>
    BY <1>5 DEF record_written, quiet, history
  <2>2. CallOf(r) /\ Same(r) /\ SameRow(r) /\ call'[r].pc = "row"
    BY <2>1, GoesTo DEF Pc, IInv, Typed
  <2>3. TypedRest' /\ (~staleSave => ModelsFit')
    BY <2>1, FitsKept DEF IInv, Typed, TypedRest, bounds, Fits, Versions, ModelsFit
  <2>4. "row" \in Outside(call[r].op)
    BY <1>1, <1>2, <1>3 DEF PlacedIs, Op, Outside
  <2>5. /\ call'[r].process \in Process /\ call'[r].subject \in Subject(call'[r].op)
        /\ call'[r].op = call[r].op
    BY <1>1, <1>2, <2>2 DEF Same, PlacedIs
  <2>6. ~staleSave => call'[r].row.schema <= row.schema
    BY <1>1, <1>3, <2>2 DEF SameRow, IInv, Fits, Versions, VersionsRead
  <2> QED
    BY <1>1, <1>3, <2>1, <2>2, <2>3, <2>4, <2>5, <2>6, OutsideStep
<1> QED
  BY <1>4, <1>5

-----------------------------------------------------------------------------
(* Failures in a transaction, and of a synchronisation *)

\* What a transaction that comes to nothing leaves: the version it may have made a model for
\* is not that of the row, and the external database may have been changed.
LEMMA RollsBackStep ==
    ASSUME IInv, NEW r \in Request, RollsBack(r), call' = [call EXCEPT ![r] = Idle],
           UNCHANGED <<tables, external, models, late, swallowed, staleSave>>, TypedRest'
    PROVE  IInv'
<1> USE DEF tables
<1>1. /\ CallOf(r) /\ call'[r].pc = "idle" /\ call'[r].op = "view" /\ call'[r].subject = {}
  BY BecomesIdle DEF IInv, Typed
<1>2. "idle" \in Outside("view") /\ {} \in Subject("view")
  BY DEF Outside, Subject
<1>3. CASE r \notin rowLock /\ call[r].pc \notin {"sync", "sync_delete"}
  <2>1. UNCHANGED <<quiet, external>>
    <3>1. rowLock' = rowLock /\ draft' = draft /\ rolledBack' = rolledBack
      BY <1>3 DEF RollsBack
    <3>2. diverged' = diverged
      BY <1>3 DEF RollsBack, IInv, Typed, TypedTables
    <3> QED
      BY <3>1, <3>2 DEF quiet, tx
  <2>2. ~staleSave => ModelsFit'
    BY <2>1, FitsKept DEF IInv, Fits, Versions, ModelsFit
  <2> QED
    BY <1>1, <1>2, <1>3, <2>1, <2>2, OutsideStep
<1>4. CASE r \in rowLock \/ call[r].pc \in {"sync", "sync_delete"}
  <2>1. diverged' = TRUE
    BY <1>4 DEF RollsBack
  <2>2. NoDraft \in Draft
    BY DEF NoDraft, Draft, Row
  <2>3. /\ r \in rowLock => /\ rowLock = {r} /\ rowLock' = {} /\ draft' = NoDraft
                            /\ rolledBack' = rolledBack \cup ({draft.row.schema} \ {row.schema})
        /\ r \notin rowLock => rowLock' = rowLock /\ draft' = draft /\ rolledBack' = rolledBack
    BY Locks DEF IInv, RollsBack
  <2>4. rowLock' \subseteq rowLock \ {r} /\ rolledBack \subseteq rolledBack' /\ rolledBack' \subseteq Nat
    <3>1. draft.row.schema \in Nat
      BY DEF IInv, Typed, TypedTables, Draft, Row
    <3> QED
      BY <2>3, <3>1 DEF IInv, Typed, TypedTables
  <2>5. Typed'
    BY <1>1, <2>1, <2>2, <2>3, <2>4 DEF IInv, Typed, TypedTables, CallOf
  <2>6. \A s \in rowLock' : s \in Request /\ call'[s] = call[s] /\ s \in rowLock /\ rowLock' = rowLock
                            /\ draft' = draft /\ rolledBack' = rolledBack
    BY <1>1, <2>3, <2>4 DEF CallOf, IInv, Typed, TypedTables
  <2>7. Placed'
    BY <1>1, <1>2, <2>3 DEF IInv, Placed, PlacedIs, CallOf
  <2>8. DraftFits'
    <3> SUFFICES ASSUME NEW s \in rowLock'
                 PROVE  /\ ~Altered(s)' => draft'.fields = fields \cup New(s)' /\ draft'.columns = columns
                        /\ Altered(s)' /\ call'[s].op = "add" =>
                               Added(s)' \/ (call'[s].pc # "alter_external" /\ Taken(s)')
                        /\ Altered(s)' /\ call'[s].op = "delete" => Removed(s)'
      BY DEF DraftFits
    <3>1. call'[s] = call[s] /\ draft' = draft /\ s \in rowLock
      BY <2>6
    <3>2. /\ Altered(s)' = Altered(s) /\ New(s)' = New(s) /\ Added(s)' = Added(s)
          /\ Taken(s)' = Taken(s) /\ Removed(s)' = Removed(s)
      BY <3>1 DEF Altered, New, Added, Taken, Removed
    <3> QED
      BY <3>1, <3>2 DEF IInv, Fits, DraftFits
  <2>9. FieldsHaveColumns'
    BY DEF IInv, Fits, FieldsHaveColumns
  <2>10. Versions'
    <3> SUFFICES ASSUME ~staleSave PROVE DraftVersions' /\ VersionsRead' /\ ModelsFit'
      BY DEF Versions
    <3>1. DraftVersions'
      BY <2>6 DEF IInv, Fits, Versions, DraftVersions
    <3>2. VersionsRead'
      BY <1>1, <2>3 DEF IInv, Fits, Versions, VersionsRead, CallOf
    <3>3. ModelsFit'
      <4> SUFFICES ASSUME NEW p \in Process, NEW m \in models[p] PROVE ModelFits(m)'
        BY DEF ModelsFit
      <4>1. ModelFits(m)
        BY DEF IInv, Fits, Versions, ModelsFit
      <4>2. CASE r \in rowLock
        <5>1. draft.row.schema = row.schema => draft.fields \cup late = fields \cup late
          BY <4>2 DEF IInv, Fits, Versions, DraftVersions
        <5> QED
          BY <2>3, <4>1, <4>2, <5>1 DEF ModelFits
      <4>3. CASE r \notin rowLock
        BY <2>3, <4>1, <4>3 DEF ModelFits
      <4> QED
        BY <4>2, <4>3
    <3> QED
      BY <3>1, <3>2, <3>3
  <2>11. InLine'
    BY <2>1 DEF InLine
  <2>12. SavedIsThere'
    <3> SUFFICES ASSUME NEW s \in rowLock', call[s].pc = "sync_delete", ~call[s].overtaken
                 PROVE  call[s].saved = RecordsSeen(s)' /\ call[s].saved \subseteq external.records
      BY <2>1, <2>6 DEF SavedIsThere
    <3>1. RecordsSeen(s)' = RecordsSeen(s)
      BY <2>6 DEF RecordsSeen
    <3> QED
      BY <2>6, <3>1 DEF IInv, Fits, SavedIsThere
  <2> QED
    BY <2>5, <2>7, <2>8, <2>9, <2>10, <2>11, <2>12 DEF IInv, Fits
<1> QED
  BY <1>3, <1>4

\* A transaction that fails, and an upload that fails in its synchronisation.
LEMMA FailsStep ==
    ASSUME IInv, NEW r \in Request, Fails(r),
           call[r].pc \in {"alter", "drop_external"} \/ call[r].pc \in {"write", "row"}
    PROVE  IInv'
<1>1. call[r].op \in Op /\ PlacedIs(r)
  BY DEF IInv, Typed, Call, Placed
<1>2. CASE call[r].pc \in {"write", "row"}
  <2>1. r \notin rowLock
    BY <1>1, <1>2, Busy DEF PlacedIs
  <2> QED
    BY <1>2, <2>1, FailsOutside
<1>3. CASE call[r].pc \in {"alter", "drop_external"}
  <2>1. /\ RollsBack(r) /\ call' = [call EXCEPT ![r] = Idle]
        /\ UNCHANGED <<tables, external, models, bounds, late, swallowed, staleSave>>
    BY <1>3 DEF Fails
  <2>2. TypedRest'
    BY <2>1 DEF IInv, Typed, TypedRest, bounds
  <2> QED
    BY <2>1, <2>2, RollsBackStep
<1> QED
  BY <1>2, <1>3

LEMMA NotRunStep ==
    ASSUME IInv, NEW r \in Request,
           \/ field_not_in_model(r) \/ column_not_removed(r) \/ external_exists(r)
    PROVE  IInv'
  BY FailsStep DEF field_not_in_model, column_not_removed, external_exists

LEMMA EndsStep ==
    ASSUME IInv, NEW r \in Request,
           \/ \E f \in {{}} \cup {{x} : x \in Failure} : sync_fails(r, f)
           \/ \E f \in Failure : server_dies(r, f)
    PROVE  IInv'
<1>1. /\ RollsBack(r) /\ call' = [call EXCEPT ![r] = Idle]
      /\ UNCHANGED <<tables, external, models, begun, late, swallowed, staleSave>>
  BY DEF sync_fails, server_dies
<1>2. \E f \in SUBSET Failure : failed' = failed \cup f
  BY DEF sync_fails, server_dies
<1>3. TypedRest'
  BY <1>1, <1>2 DEF IInv, Typed, TypedRest
<1> QED
  BY <1>1, <1>3, RollsBackStep

-----------------------------------------------------------------------------
(* Fields in their transaction *)

\* The transaction of a request that adds or deletes a field goes on.
LEMMA DraftStep ==
    ASSUME IInv, NEW r \in rowLock, CallOf(r), Same(r), TypedRest',
           UNCHANGED <<tables, models, rowLock, staleSave>>,
           external'.exists = external.exists, external'.records = external.records,
           draft' \in Draft, rolledBack \subseteq rolledBack', rolledBack' \subseteq Nat,
           late \subseteq late', late' \subseteq Field,
           swallowed \subseteq swallowed', swallowed' \subseteq late',
           diverged' \in {diverged, TRUE},
           call[r].op \in {"add", "delete"}, call'[r].pc \in Inside(call[r].op),
           DraftFits',
           ~staleSave => DraftVersions' /\ ModelsFit'
    PROVE  IInv'
<1> USE DEF tables
<1>1. r \in Request /\ rowLock = {r}
  BY Locks DEF IInv
<1>2. Typed'
  BY DEF IInv, Typed, TypedTables, CallOf
<1>3. call[r].pc \in Inside(call[r].op)
  BY <1>1 DEF IInv, Placed, PlacedIs
<1>4. call[r].pc # "sync_delete" /\ call'[r].pc # "sync_delete"
  BY <1>3 DEF Inside
<1>5. Placed'
  <2>1. call[r].op \in Op
    BY <1>1 DEF IInv, Typed, Call
  <2>2. PlacedIs(r)'
    BY <1>1, <1>3, <2>1, Busy DEF IInv, Placed, PlacedIs, Same
  <2>3. \A s \in Request \ {r} : PlacedIs(s)'
    BY DEF IInv, Placed, PlacedIs, CallOf
  <2> QED
    BY <2>2, <2>3 DEF Placed
<1>6. FieldsHaveColumns'
  <2>1. Columns(fields \ swallowed') \subseteq Columns(fields \ swallowed)
    BY DEF Columns
  <2> QED
    BY <2>1 DEF IInv, Fits, FieldsHaveColumns
<1>7. Versions'
  BY DEF IInv, Fits, Versions, VersionsRead, CallOf
<1>8. Deleting' = Deleting
  BY <1>1, <1>4 DEF Deleting, CallOf
<1>9. ~Synced(r)' /\ ~Synced(r) /\ ~Moving(r)
  BY DEF Synced, Moving, Same
<1>10. InLine'
  BY <1>1, <1>8, <1>9 DEF IInv, Fits, InLine
<1>11. SavedIsThere'
  <2> SUFFICES ASSUME NEW s \in Request, call'[s].pc = "sync_delete", ~call'[s].overtaken
               PROVE  \/ diverged' \/ ~external.exists \/ call[s].saved \subseteq external.records
    BY <1>1, <1>4 DEF SavedIsThere, CallOf
  <2>1. call'[s] = call[s] /\ s \notin rowLock
    BY <1>1, <1>4 DEF CallOf
  <2>2. diverged => diverged'
    OBVIOUS
  <2>3. rowLock = {r}
    BY <1>1
  <2>4. ~(\E other \in rowLock : Moving(other))
    BY <1>9, <2>3
  <2> QED
    BY <1>4, <2>1, <2>2, <2>4 DEF IInv, Fits, SavedIsThere
<1> QED
  BY <1>2, <1>5, <1>6, <1>7, <1>10, <1>11 DEF IInv, Fits

\* Back to the savepoint: the field is not in the draft, nor in what a model may lack.
LEMMA SwallowedStep ==
    ASSUME IInv, NEW r \in rowLock, call[r].op = "add", call[r].pc \in {"alter", "alter_external"},
           Swallowed(r), TypedRest', diverged' \in {diverged, TRUE},
           UNCHANGED <<tables, external, models, rowLock, staleSave>>
    PROVE  IInv'
<1> USE DEF tables
<1>1. r \in Request /\ rowLock = {r} /\ rowLock' = {r}
  BY Locks DEF IInv
<1>2. CallOf(r) /\ Same(r) /\ SameRow(r) /\ call'[r].pc = "last_model"
  BY <1>1, GoesTo DEF Swallowed, Pc, IInv, Typed
<1>3. call[r].subject \subseteq Field
  <2>1. call[r].subject \in Subject("add")
    BY <1>1 DEF IInv, Placed, PlacedIs
  <2> QED
    BY <2>1 DEF Subject
<1>4. draft.fields = fields \cup call[r].subject
  BY DEF IInv, Fits, DraftFits, New, Altered, Added
<1>5. PICK again \in {TRUE, records # {}} :
           /\ draft' = [row |-> IF again THEN draft.row ELSE row,
                        fields |-> draft.fields \ call[r].subject, columns |-> columns]
           /\ rolledBack' = rolledBack \cup IF again THEN {} ELSE {draft.row.schema}
  BY DEF Swallowed
<1>6. /\ draft'.row = IF again THEN draft.row ELSE row
      /\ draft'.fields = fields \ call[r].subject /\ draft'.columns = columns
  BY <1>4, <1>5
<1>7. row \in Row /\ draft.row \in Row /\ fields \subseteq Field /\ columns \subseteq Columns(Field)
      /\ swallowed \subseteq late /\ late \subseteq Field /\ rolledBack \subseteq Nat
  BY DEF IInv, Typed, TypedTables, Draft
<1>8. draft' \in Draft
  BY <1>4, <1>5, <1>7 DEF Draft
<1>9. rolledBack \subseteq rolledBack' /\ rolledBack' \subseteq Nat
  BY <1>5, <1>7 DEF Row
<1>10. late' = late \cup call[r].subject
       /\ swallowed' = IF Columns(call[r].subject) \subseteq columns THEN swallowed
                       ELSE swallowed \cup call[r].subject
  BY DEF Swallowed
<1>11. /\ late \subseteq late' /\ late' \subseteq Field
       /\ swallowed \subseteq swallowed' /\ swallowed' \subseteq late'
  BY <1>3, <1>7, <1>10
<1>12. DraftFits'
  <2>1. Taken(r)'
    BY <1>2, <1>6, <1>10 DEF Taken, Same
  <2>2. Altered(r)'
    BY <1>2 DEF Altered, Same
  <2>3. call'[r].op = "add" /\ call'[r].pc # "alter_external"
    BY <1>2 DEF Same
  <2> QED
    BY <1>1, <2>1, <2>2, <2>3 DEF DraftFits
<1>13. ASSUME ~staleSave PROVE DraftVersions'
  <2>1. DraftVersions
    BY <1>13 DEF IInv, Fits, Versions
  <2>2. draft'.row.external = draft.row.external
    BY <1>6, <2>1 DEF DraftVersions
  <2>3. draft'.fields \cup late' = fields \cup late'
    BY <1>6, <1>10
  <2>4. /\ draft'.row.schema \in {row.schema, row.schema + 1}
        /\ call[r].row.schema = draft'.row.schema \/ call[r].row.schema \in rolledBack'
    BY <1>5, <1>6, <2>1 DEF DraftVersions
  <2>5. /\ call[r].row.external = draft.row.external
        /\ draft.row.external = row.external
    BY <2>1 DEF DraftVersions
  <2> QED
    BY <1>1, <1>2, <2>2, <2>3, <2>4, <2>5 DEF DraftVersions, Same, SameRow
<1>14. ASSUME ~staleSave PROVE ModelsFit'
  <2> SUFFICES ASSUME NEW p \in Process, NEW m \in models[p] PROVE ModelFits(m)'
    BY DEF ModelsFit
  <2>1. ModelFits(m)
    BY <1>14 DEF IInv, Fits, Versions, ModelsFit
  <2>2. CASE m.fields \cup late = fields \cup late /\ m.version = row.schema
    <3>1. m.fields \cup late' = fields \cup late'
      BY <1>10, <2>2
    <3> QED
      BY <2>2, <3>1 DEF ModelFits
  <2>3. CASE m.fields \cup late = draft.fields \cup late /\ m.version = draft.row.schema
    <3>1. m.fields \cup late' = draft'.fields \cup late'
      BY <1>4, <1>6, <1>10, <2>3
    <3> QED
      BY <1>1, <1>5, <1>6, <2>3, <3>1 DEF ModelFits
  <2>4. CASE m.version < row.schema \/ m.version \in rolledBack
    BY <1>9, <2>4 DEF ModelFits
  <2> QED
    BY <2>1, <2>2, <2>3, <2>4 DEF ModelFits
<1>15. "last_model" \in Inside("add")
  BY DEF Inside
<1> QED
  BY <1>2, <1>8, <1>9, <1>11, <1>12, <1>13, <1>14, <1>15, DraftStep

LEMMA InTransaction ==
    ASSUME IInv, NEW r \in Request,
           call[r].pc \in {"alter", "alter_external", "field_deleted", "drop_external", "commit"}
    PROVE  /\ r \in rowLock /\ rowLock = {r} /\ call[r].op \in Op
           /\ call[r].pc \in {"alter", "alter_external"} => call[r].op \in {"add", "delete"}
           /\ call[r].pc = "field_deleted" => call[r].op = "delete"
           /\ call[r].pc = "drop_external" => call[r].op = "move"
<1>1. call[r].op \in Op /\ call[r].pc \in IF r \in rowLock THEN Inside(call[r].op)
                                           ELSE Outside(call[r].op)
  BY DEF IInv, Typed, Call, Placed, PlacedIs
<1>2. r \in rowLock
  BY <1>1 DEF Op, Outside
<1>3. /\ call[r].pc \in {"alter", "alter_external"} => call[r].op \in {"add", "delete"}
      /\ call[r].pc = "field_deleted" => call[r].op = "delete"
      /\ call[r].pc = "drop_external" => call[r].op = "move"
  BY <1>1, <1>2 DEF Op, Inside
<1> QED
  BY <1>1, <1>2, <1>3, Locks DEF IInv

\* The columns are altered, here or in the external database.
LEMMA ColumnStep ==
    ASSUME IInv, NEW r \in Request, NEW pc, call' = At(r, pc),
           call[r].pc \in {"alter", "alter_external"},
           pc \in {"alter_external", "field_deleted", "last_model"}, pc \in Inside(call[r].op),
           UNCHANGED <<tables, rowLock, models, bounds, history>>,
           external' \in External,
           external'.exists = external.exists, external'.records = external.records,
           draft' \in Draft, draft'.row = draft.row, draft'.fields = draft.fields,
           DraftFits'
    PROVE  IInv'
<1> USE DEF tables, history
<1>1. /\ r \in rowLock /\ rowLock = {r} /\ call[r].op \in {"add", "delete"}
  BY InTransaction
<1>2. CallOf(r) /\ Same(r) /\ SameRow(r) /\ call'[r].pc = pc
  BY GoesTo DEF Pc, IInv, Typed
<1>3. TypedRest'
  BY DEF IInv, Typed, TypedRest, bounds
<1>4. ASSUME ~staleSave PROVE DraftVersions' /\ ModelsFit'
  <2>1. DraftVersions /\ ModelsFit
    BY <1>4 DEF IInv, Fits, Versions
  <2>2. DraftVersions'
    BY <1>1, <1>2, <2>1 DEF DraftVersions, Same, SameRow
  <2>3. ModelsFit'
    BY <2>1 DEF ModelsFit, ModelFits
  <2> QED
    BY <2>2, <2>3
<1>5. /\ rolledBack \subseteq rolledBack' /\ rolledBack' \subseteq Nat
      /\ late \subseteq late' /\ late' \subseteq Field
      /\ swallowed \subseteq swallowed' /\ swallowed' \subseteq late'
      /\ diverged' \in {diverged, TRUE}
  BY DEF IInv, Typed, TypedTables
<1> QED
  BY <1>1, <1>2, <1>3, <1>4, <1>5, DraftStep

LEMMA ColumnAddedStep ==
    ASSUME IInv, NEW r \in Request, column_added(r)
    PROVE  IInv'
<1> USE DEF tables
<1>1. /\ call[r].pc = "alter" /\ call[r].op = "add"
      /\ UNCHANGED <<tables, external, rowLock, models, bounds, staleSave, diverged>>
  BY DEF column_added
<1>2. r \in rowLock /\ rowLock = {r}
  BY <1>1, InTransaction
<1>3. TypedRest'
  BY <1>1 DEF IInv, Typed, TypedRest, bounds
<1>4. CASE Columns(call[r].subject) \subseteq draft.columns
  BY <1>1, <1>2, <1>3, <1>4, SwallowedStep DEF column_added
<1>5. CASE ~(Columns(call[r].subject) \subseteq draft.columns)
  <2> DEFINE pc == IF call[r].row.external THEN "alter_external" ELSE "last_model"
  <2>1. /\ draft' = [draft EXCEPT !.columns = draft.columns \cup Columns(call[r].subject)]
        /\ call' = At(r, pc) /\ UNCHANGED <<late, swallowed, rolledBack>>
    BY <1>5 DEF column_added
  <2>2. draft \in Draft /\ call[r].subject \subseteq Field
    <3>1. call[r].subject \in Subject("add")
      BY <1>1 DEF IInv, Placed, PlacedIs
    <3> QED
      BY <3>1 DEF Subject, IInv, Typed, TypedTables
  <2>3. Columns(call[r].subject) \subseteq Columns(Field)
    BY <2>2 DEF Columns
  <2>4. /\ draft' \in Draft /\ draft'.row = draft.row /\ draft'.fields = draft.fields
        /\ draft'.columns = draft.columns \cup Columns(call[r].subject)
    BY <2>1, <2>2, <2>3 DEF Draft
  <2>5. draft.fields = fields \cup call[r].subject /\ draft.columns = columns
    BY <1>1, <1>2 DEF IInv, Fits, DraftFits, New, Altered
  <2>6. pc \in {"alter_external", "last_model"} /\ pc \in Inside("add") /\ pc \in Pc
    BY DEF Inside, Pc
  <2> HIDE DEF pc
  <2>7. CallOf(r) /\ Same(r) /\ call'[r].pc = pc
    BY <2>1, <2>6, GoesTo DEF IInv, Typed
  <2>8. DraftFits'
    <3>1. Added(r)' /\ Altered(r)' /\ call'[r].op = "add"
      BY <1>1, <2>4, <2>5, <2>6, <2>7 DEF Added, Altered, Same
    <3> QED
      BY <1>1, <1>2, <3>1 DEF DraftFits
  <2>9. external \in External
    BY DEF IInv, Typed, TypedRest
  <2> QED
    BY <1>1, <2>1, <2>4, <2>6, <2>8, <2>9, ColumnStep DEF history
<1> QED
  BY <1>4, <1>5

LEMMA ColumnRemovedStep ==
    ASSUME IInv, NEW r \in Request, column_removed(r)
    PROVE  IInv'
<1> USE DEF tables
<1>1. /\ call[r].pc = "alter" /\ call[r].op = "delete"
      /\ UNCHANGED <<tables, external, rowLock, models, bounds, history>>
  BY DEF column_removed
<1>2. r \in rowLock /\ rowLock = {r}
  BY <1>1, InTransaction
<1>3. draft \in Draft /\ external \in External
  BY DEF IInv, Typed, TypedTables, TypedRest
<1>4. draft.fields = fields /\ draft.columns = columns
  BY <1>1, <1>2 DEF IInv, Fits, DraftFits, New, Altered
<1>5. PICK pc \in {"alter_external", "field_deleted"} : call' = At(r, pc)
  BY DEF column_removed
<1>6. pc \in Inside("delete") /\ pc \in Pc
  BY DEF Inside, Pc
<1>7. CallOf(r) /\ Same(r) /\ call'[r].pc = pc
  BY <1>5, <1>6, GoesTo DEF IInv, Typed
<1>8. /\ draft' \in Draft /\ draft'.row = draft.row /\ draft'.fields = draft.fields
      /\ draft'.columns = IF Unshared(r) THEN draft.columns \ Columns(call[r].subject)
                          ELSE draft.columns
  <2>1. CASE Unshared(r)
    <3>1. draft' = [draft EXCEPT !.columns = draft.columns \ Columns(call[r].subject)]
      BY <2>1 DEF column_removed
    <3> QED
      BY <1>3, <2>1, <3>1 DEF Draft
  <2>2. CASE ~Unshared(r)
    BY <1>3, <2>2 DEF column_removed
  <2> QED
    BY <2>1, <2>2
<1>9. DraftFits'
  <2>1. draft'.columns = IF Columns(call[r].subject) \cap Columns(fields \ call[r].subject) = {}
                         THEN columns \ Columns(call[r].subject) ELSE columns
    BY <1>4, <1>8 DEF Unshared
  <2>2. Removed(r)'
    BY <1>1, <1>4, <1>5, <1>7, <1>8, <2>1 DEF Removed, Same
  <2>3. Altered(r)' /\ call'[r].op = "delete"
    BY <1>1, <1>5, <1>7 DEF Altered, Same
  <2> QED
    BY <1>1, <1>2, <2>2, <2>3 DEF DraftFits
<1> QED
  BY <1>1, <1>3, <1>5, <1>6, <1>8, <1>9, ColumnStep

LEMMA ExternalAlteredStep ==
    ASSUME IInv, NEW r \in Request, external_altered(r)
    PROVE  IInv'
<1> USE DEF tables
<1>1. call[r].pc = "alter_external" /\ UNCHANGED <<tables, tx, models, bounds, history>>
  BY DEF external_altered
<1>2. r \in rowLock /\ rowLock = {r} /\ call[r].op \in {"add", "delete"}
  BY <1>1, InTransaction
<1>3. draft \in Draft /\ external \in External /\ call[r].subject \subseteq Field
  <2>1. call[r].subject \in Subject(call[r].op)
    BY DEF IInv, Placed, PlacedIs
  <2> QED
    BY <1>2, <2>1 DEF Subject, IInv, Typed, TypedTables, TypedRest
<1>4. Columns(call[r].subject) \subseteq Columns(Field)
  BY <1>3 DEF Columns
<1> DEFINE pc == IF call[r].op = "add" THEN "last_model" ELSE "field_deleted"
<1>5. /\ call' = At(r, pc)
      /\ \E c \in SUBSET Columns(Field) : external' = [external EXCEPT !.columns = c]
  <2>1. CASE call[r].op = "add"
    <3>1. external' = [external EXCEPT !.columns = external.columns \cup Columns(call[r].subject)]
          /\ call' = At(r, pc)
      BY <2>1 DEF external_altered
    <3>2. external.columns \cup Columns(call[r].subject) \in SUBSET Columns(Field)
      BY <1>3, <1>4 DEF External
    <3> QED
      BY <3>1, <3>2
  <2>2. CASE call[r].op = "delete"
    <3>1. external' = [external EXCEPT !.columns = external.columns \ Columns(call[r].subject)]
          /\ call' = At(r, pc)
      BY <2>2 DEF external_altered
    <3>2. external.columns \ Columns(call[r].subject) \in SUBSET Columns(Field)
      BY <1>3 DEF External
    <3> QED
      BY <3>1, <3>2
  <2> QED
    BY <1>2, <2>1, <2>2
<1>6. pc \in Inside(call[r].op) /\ pc \in Pc /\ pc \in {"field_deleted", "last_model"}
  BY <1>2 DEF Inside, Pc
<1>7. /\ external' \in External /\ external'.exists = external.exists
      /\ external'.records = external.records
  BY <1>3, <1>5 DEF External
<1>8. CallOf(r) /\ Same(r) /\ call'[r].pc = pc
  BY <1>5, <1>6, GoesTo DEF IInv, Typed
<1>9. DraftFits'
  <2>1. Altered(r) /\ Altered(r)' /\ call'[r].op = call[r].op
    BY <1>1, <1>2, <1>6, <1>8 DEF Altered, Same
  <2>2. call[r].op = "add" => Added(r)'
    BY <1>1, <1>2, <1>8, <2>1 DEF IInv, Fits, DraftFits, Added, Same, tx
  <2>3. call[r].op = "delete" => Removed(r)'
    BY <1>1, <1>2, <1>8, <2>1 DEF IInv, Fits, DraftFits, Removed, Same, tx
  <2> QED
    BY <1>1, <1>2, <2>1, <2>2, <2>3 DEF DraftFits, tx
<1>10. draft' = draft /\ rowLock' = rowLock
  BY <1>1 DEF tx
<1> HIDE DEF pc
<1> QED
  BY <1>1, <1>3, <1>5, <1>6, <1>7, <1>9, <1>10, ColumnStep

LEMMA ExternalNotAlteredStep ==
    ASSUME IInv, NEW r \in Request, NEW f \in {{}} \cup {{x} : x \in Failure},
           external_not_altered(r, f)
    PROVE  IInv'
<1>1. /\ call[r].pc = "alter_external" /\ f \subseteq Failure /\ failed' = failed \cup f
      /\ UNCHANGED <<tables, external, models, begun, staleSave>>
  BY DEF external_not_altered
<1>2. r \in rowLock /\ call[r].op \in {"add", "delete"}
  BY <1>1, InTransaction
<1>3. TypedRest'
  BY <1>1 DEF IInv, Typed, TypedRest
<1>4. CASE call[r].op = "add"
  <2>1. Swallowed(r) /\ diverged' = TRUE /\ rowLock' = rowLock
    BY <1>4 DEF external_not_altered
  <2> QED
    BY <1>1, <1>2, <1>3, <1>4, <2>1, SwallowedStep
<1>5. CASE call[r].op # "add"
  <2>1. RollsBack(r) /\ call' = [call EXCEPT ![r] = Idle] /\ UNCHANGED <<late, swallowed>>
    BY <1>5 DEF external_not_altered
  <2> QED
    BY <1>1, <1>3, <2>1, RollsBackStep
<1> QED
  BY <1>4, <1>5

LEMMA DeadlockStep ==
    ASSUME IInv, NEW r \in Request, NEW s \in Request, deadlock(r, s)
    PROVE  IInv'
<1>1. call[r].pc = "alter" /\ call[s].pc = "row" /\ r \in rowLock
  BY DEF deadlock, Writers
<1>2. CASE Fails(s)
  BY <1>1, <1>2, FailsStep
<1>3. CASE Fails(r)
  BY <1>1, <1>3, FailsStep
<1>4. CASE /\ call[r].op = "add" /\ Swallowed(r)
           /\ UNCHANGED <<tables, external, rowLock, models, bounds, staleSave, diverged>>
  <2>1. TypedRest'
    BY <1>4 DEF IInv, Typed, TypedRest, bounds
  <2> QED
    BY <1>1, <1>4, <2>1, SwallowedStep
<1> QED
  BY <1>2, <1>3, <1>4 DEF deadlock

\* The row is saved with the next version when the field is gone.
LEMMA FieldDeletedStep ==
    ASSUME IInv, NEW r \in Request, field_deleted(r)
    PROVE  IInv'
<1> USE DEF tables
<1> DEFINE new == NextVersion(r)
<1>1. /\ call[r].pc = "field_deleted" /\ Saves(r, new, draft.fields \ call[r].subject, draft.columns)
      /\ call' = [At(r, "last_model") EXCEPT ![r].row = new]
      /\ UNCHANGED <<tables, external, models, bounds, late, swallowed, rolledBack, diverged>>
  BY DEF field_deleted
<1>2. r \in rowLock /\ rowLock = {r} /\ call[r].op = "delete" /\ call[r].row \in Row /\ row \in Row
  BY <1>1, InTransaction DEF IInv, Typed, TypedTables, Call
<1>3. /\ new \in Row /\ new.schema = call[r].row.schema + 1 /\ new.external = call[r].row.external
  BY <1>2 DEF NextVersion, Row
<1> HIDE DEF new
<1>4. CallOf(r) /\ Same(r) /\ call'[r].row = new /\ call'[r].pc = "last_model"
  BY <1>1, <1>3, GoesToWithRow DEF Pc, IInv, Typed
<1>5. /\ draft' = [row |-> new, fields |-> draft.fields \ call[r].subject, columns |-> draft.columns]
      /\ rowLock' = rowLock /\ staleSave' = staleSave
  BY <1>1, <1>2 DEF Saves, IInv, Typed, TypedTables
<1>6. /\ draft'.row = new /\ draft'.fields = draft.fields \ call[r].subject
      /\ draft'.columns = draft.columns
  BY <1>5
<1>7. draft' \in Draft
  BY <1>3, <1>5 DEF Draft, IInv, Typed, TypedTables
<1>8. Removed(r)
  BY <1>1, <1>2 DEF IInv, Fits, DraftFits, Altered
<1>9. DraftFits'
  <2>1. Removed(r)'
    BY <1>1, <1>4, <1>6, <1>8 DEF Removed, Same
  <2>2. Altered(r)' /\ call'[r].op = "delete"
    BY <1>2, <1>4 DEF Altered, Same
  <2> QED
    BY <1>2, <1>5, <2>1, <2>2 DEF DraftFits
<1>10. ASSUME ~staleSave
       PROVE  /\ call[r].row.schema = row.schema /\ draft.row.schema = row.schema
              /\ draft.fields \cup late = fields \cup late
              /\ call[r].row.external = draft.row.external /\ draft.row.external = row.external
  BY <1>1, <1>2, <1>10 DEF IInv, Fits, Versions, DraftVersions
<1>11. row.schema \in Nat /\ row.schema + 1 # row.schema
  BY <1>2 DEF Row
<1>12. ASSUME ~staleSave PROVE DraftVersions'
  BY <1>1, <1>2, <1>3, <1>4, <1>5, <1>6, <1>10, <1>11, <1>12 DEF DraftVersions, Same
<1>13. ASSUME ~staleSave PROVE ModelsFit'
  <2> SUFFICES ASSUME NEW p \in Process, NEW m \in models[p] PROVE ModelFits(m)'
    BY <1>1 DEF ModelsFit
  <2>1. ModelFits(m)
    BY <1>13 DEF IInv, Fits, Versions, ModelsFit
  <2> QED
    BY <1>1, <1>10, <1>13, <2>1 DEF ModelFits
<1>14. TypedRest'
  BY <1>1 DEF IInv, Typed, TypedRest, bounds
<1>15. "last_model" \in Inside("delete")
  BY DEF Inside
<1>16. /\ rolledBack \subseteq rolledBack' /\ rolledBack' \subseteq Nat
       /\ late \subseteq late' /\ late' \subseteq Field
       /\ swallowed \subseteq swallowed' /\ swallowed' \subseteq late'
       /\ diverged' \in {diverged, TRUE}
  BY <1>1 DEF IInv, Typed, TypedTables
<1> QED
  BY <1>1, <1>2, <1>4, <1>5, <1>7, <1>9, <1>12, <1>13, <1>14, <1>15, <1>16, DraftStep

-----------------------------------------------------------------------------
(* The external table *)

\* requests go on as they were, but for those whose synchronisation is overtaken
OthersSame(r) ==
    \A s \in Request \ {r} :
        /\ call'[s].pc = call[s].pc /\ call'[s].op = call[s].op
        /\ call'[s].process = call[s].process /\ call'[s].subject = call[s].subject
        /\ call'[s].row = call[s].row /\ call'[s].saved = call[s].saved
        /\ call[s].overtaken => call'[s].overtaken

\* A step that changes the external table only leaves the tables and the draft to fit.
LEMMA ExternalStep ==
    ASSUME IInv, NEW r \in Request, call' \in [Request -> Call], OthersSame(r),
           UNCHANGED <<tables, tx, models, bounds, late, swallowed, rolledBack, staleSave>>,
           external' \in External, diverged' \in BOOLEAN,
           call[r].pc # "idle", call[r].op \notin {"add", "delete"},
           \/ /\ call'[r].op = call[r].op /\ call'[r].process = call[r].process
              /\ call'[r].subject = call[r].subject /\ call'[r].row = call[r].row
              /\ call'[r].pc \in IF r \in rowLock THEN Inside(call[r].op) ELSE Outside(call[r].op)
           \/ /\ r \notin rowLock /\ call'[r].op = "view" /\ call'[r].subject = {}
              /\ call'[r].pc = "idle"
    PROVE  Typed' /\ Placed' /\ DraftFits' /\ FieldsHaveColumns' /\ Versions'
<1> USE DEF tables, tx
<1>1. Typed'
  BY DEF IInv, Typed, TypedTables, TypedRest, bounds
<1>2. "idle" \in Outside("view") /\ {} \in Subject("view")
  BY DEF Outside, Subject
<1>3. Placed'
  <2>1. PlacedIs(r)'
    BY <1>2 DEF IInv, Placed, PlacedIs
  <2>2. \A s \in Request \ {r} : PlacedIs(s)'
    BY DEF IInv, Placed, PlacedIs, OthersSame
  <2> QED
    BY <2>1, <2>2 DEF Placed
<1>4. DraftFits'
  <2> SUFFICES ASSUME NEW s \in rowLock
               PROVE  /\ ~Altered(s)' => draft.fields = fields \cup New(s)' /\ draft.columns = columns
                      /\ Altered(s)' /\ call'[s].op = "add" =>
                             Added(s)' \/ (call'[s].pc # "alter_external" /\ Taken(s)')
                      /\ Altered(s)' /\ call'[s].op = "delete" => Removed(s)'
    BY DEF DraftFits
  <2>1. s \in Request
    BY Locks DEF IInv
  <2>2. CASE s = r
    <3>1. ~Altered(s) /\ ~Altered(s)' /\ New(s) = {} /\ New(s)' = {}
      BY <2>2 DEF Altered, New
    <3> QED
      BY <3>1 DEF IInv, Fits, DraftFits
  <2>3. CASE s # r
    <3>1. /\ call'[s].pc = call[s].pc /\ call'[s].op = call[s].op
          /\ call'[s].subject = call[s].subject
      BY <2>1, <2>3 DEF OthersSame
    <3>2. /\ Altered(s)' = Altered(s) /\ New(s)' = New(s) /\ Added(s)' = Added(s)
          /\ Taken(s)' = Taken(s) /\ Removed(s)' = Removed(s)
      BY <3>1 DEF Altered, New, Added, Taken, Removed
    <3> QED
      BY <3>1, <3>2 DEF IInv, Fits, DraftFits
  <2> QED
    BY <2>2, <2>3
<1>5. FieldsHaveColumns'
  BY DEF IInv, Fits, FieldsHaveColumns
<1>6. Versions'
  <2> SUFFICES ASSUME ~staleSave PROVE DraftVersions' /\ VersionsRead' /\ ModelsFit'
    BY DEF Versions
  <2>1. DraftVersions'
    <3> SUFFICES ASSUME NEW s \in rowLock
                 PROVE  /\ call'[s].row = call[s].row /\ call'[s].op = call[s].op
                        /\ call[s].op = "delete" => call'[s].pc = call[s].pc
      BY DEF IInv, Fits, Versions, DraftVersions
    <3>1. s \in Request
      BY Locks DEF IInv
    <3> QED
      BY <3>1 DEF OthersSame
  <2>2. VersionsRead'
    BY DEF IInv, Fits, Versions, VersionsRead, OthersSame
  <2>3. ModelsFit'
    BY DEF IInv, Fits, Versions, ModelsFit, ModelFits
  <2> QED
    BY <2>1, <2>2, <2>3
<1> QED
  BY <1>1, <1>3, <1>4, <1>5, <1>6

\* where requests synchronise
LEMMA InSync ==
    ASSUME IInv, NEW r \in Request, call[r].pc \in {"sync", "sync_delete"}
    PROVE  /\ call[r].op \in {"move", "remove", "save", "upload"}
           /\ r \in rowLock <=> call[r].op # "upload"
           /\ {"sync", "sync_delete"} \subseteq IF r \in rowLock THEN Inside(call[r].op)
                                                ELSE Outside(call[r].op)
           /\ r \in rowLock => "commit" \in Inside(call[r].op)
  BY DEF IInv, Typed, Call, Placed, PlacedIs, Op, Inside, Outside

LEMMA SeenRecords == ASSUME IInv, NEW r \in Request PROVE RecordsSeen(r) \subseteq Record
<1>1. call[r].op \in Op /\ call[r].subject \in Subject(call[r].op) /\ records \subseteq Record
  BY DEF IInv, Typed, TypedTables, Call, Placed, PlacedIs
<1>2. CASE call[r].op = "save"
  BY <1>1, <1>2 DEF Subject, RecordsSeen
<1>3. CASE call[r].op = "remove"
  BY <1>1, <1>3 DEF RecordsSeen
<1>4. CASE call[r].op \notin {"save", "remove"}
  BY <1>1, <1>4 DEF RecordsSeen
<1> QED
  BY <1>2, <1>3, <1>4

\* The records that are there, and those of the transaction, are in the external table.
LEMMA SyncSavesStep ==
    ASSUME IInv, NEW r \in Request, sync_saves(r)
    PROVE  IInv'
<1> USE DEF tables, tx, history
<1> DEFINE seen == RecordsSeen(r)
<1>1. /\ call[r].pc = "sync" /\ UNCHANGED <<tables, tx, models, bounds, history>>
      /\ external' = [external EXCEPT !.records = external.records \cup seen]
      /\ call' = [At(r, "sync_delete") EXCEPT ![r].saved = seen]
  BY DEF sync_saves
<1>2. seen \in SUBSET Record /\ external \in External
  BY SeenRecords DEF IInv, Typed, TypedRest
<1>3. /\ external' \in External /\ external'.exists = external.exists
      /\ external'.records = external.records \cup seen
  BY <1>1, <1>2 DEF External
<1>4. seen = RecordsSeen(r)
  OBVIOUS
<1> HIDE DEF seen
<1>5. /\ CallOf(r) /\ SameRow(r) /\ call'[r].pc = "sync_delete" /\ call'[r].saved = seen
      /\ call'[r].op = call[r].op /\ call'[r].process = call[r].process
      /\ call'[r].subject = call[r].subject /\ call'[r].overtaken = call[r].overtaken
  BY <1>1, <1>2, GoesToWithSaved DEF Pc, IInv, Typed
<1>6. /\ call[r].op \in {"move", "remove", "save", "upload"}
      /\ "sync_delete" \in IF r \in rowLock THEN Inside(call[r].op) ELSE Outside(call[r].op)
  BY <1>1, InSync
<1>7. Typed' /\ Placed' /\ DraftFits' /\ FieldsHaveColumns' /\ Versions'
  <2>1. OthersSame(r) /\ call' \in [Request -> Call] /\ diverged' \in BOOLEAN
    BY <1>1, <1>5 DEF CallOf, OthersSame, IInv, Typed, TypedTables
  <2> QED
    BY <1>1, <1>3, <1>5, <1>6, <2>1, ExternalStep DEF SameRow
<1>8. InLine'
  BY <1>5 DEF InLine, Deleting
<1>9. \A s \in Request : RecordsSeen(s)' = RecordsSeen(s)
  BY <1>1, <1>5 DEF RecordsSeen, CallOf
<1>10. \A s \in rowLock : s \in Request /\ (Moving(s) => Moving(s)')
  BY <1>5, Locks DEF Moving, CallOf, IInv
<1>11. SavedIsThere'
  <2> SUFFICES ASSUME NEW s \in Request, call'[s].pc = "sync_delete", ~call'[s].overtaken
               PROVE  IF s \in rowLock
                      THEN /\ call'[s].saved = RecordsSeen(s)
                           /\ call'[s].saved \subseteq external'.records
                      ELSE \/ diverged \/ ~external.exists
                           \/ call'[s].saved \subseteq external'.records
                           \/ \E other \in rowLock : Moving(other)'
    BY <1>1, <1>3, <1>9 DEF SavedIsThere
  <2>1. CASE s = r
    BY <1>3, <1>4, <1>5, <2>1
  <2>2. CASE s # r
    <3>1. call'[s] = call[s]
      BY <1>5, <2>2 DEF CallOf
    <3> QED
      BY <1>3, <1>10, <3>1 DEF IInv, Fits, SavedIsThere
  <2> QED
    BY <2>1, <2>2
<1> QED
  BY <1>7, <1>8, <1>11 DEF IInv, Fits

\* What is left in the external table is what was saved, if nobody was there in between.
LEMMA SyncDeletesStep ==
    ASSUME IInv, NEW r \in Request, sync_deletes(r)
    PROVE  IInv'
<1> USE DEF tables, tx
<1>1. /\ call[r].pc = "sync_delete" /\ external.exists
      /\ external' = [external EXCEPT !.records = external.records \cap call[r].saved]
      /\ call' = [s \in Request |->
                     IF s = r
                     THEN IF call[r].op = "upload" THEN Idle ELSE [call[r] EXCEPT !.pc = "commit"]
                     ELSE [call[s] EXCEPT !.overtaken = call[s].overtaken \/ call[s].pc = "sync_delete"]]
      /\ diverged' = (\/ \E s \in Request \ {r} : call[s].pc = "sync_delete"
                      \/ call[r].overtaken
                      \/ /\ call[r].op = "upload"
                         /\ diverged \/ records # call[r].saved \/ rowLock # {})
      /\ UNCHANGED <<tables, tx, models, bounds, late, swallowed, rolledBack, staleSave>>
  BY DEF sync_deletes
<1>2. /\ external' \in External /\ external'.exists = external.exists
      /\ external'.records = external.records \cap call[r].saved
  BY <1>1 DEF External, IInv, Typed, TypedRest
<1>3. /\ call[r].op \in {"move", "remove", "save", "upload"}
      /\ r \in rowLock <=> call[r].op # "upload"
      /\ r \in rowLock => "commit" \in Inside(call[r].op)
  BY <1>1, InSync
<1>4. \A s \in Request : call[s] \in Call
  BY DEF IInv, Typed
<1>5. /\ OthersSame(r)
      /\ \A s \in Request \ {r} : /\ call'[s] \in Call
                                  /\ call[s].pc = "sync_delete" => call'[s].overtaken
  <2> SUFFICES ASSUME NEW s \in Request \ {r}
               PROVE  /\ call'[s].pc = call[s].pc /\ call'[s].op = call[s].op
                      /\ call'[s].process = call[s].process /\ call'[s].subject = call[s].subject
                      /\ call'[s].row = call[s].row /\ call'[s].saved = call[s].saved
                      /\ call[s].overtaken => call'[s].overtaken
                      /\ call'[s] \in Call
                      /\ call[s].pc = "sync_delete" => call'[s].overtaken
    BY DEF OthersSame
  <2> DEFINE over == call[s].overtaken \/ call[s].pc = "sync_delete"
  <2>1. call'[s] = [call[s] EXCEPT !.overtaken = over]
    BY <1>1
  <2>2. over \in BOOLEAN /\ (call[s].overtaken => over) /\ (call[s].pc = "sync_delete" => over)
    BY <1>4 DEF Call
  <2> HIDE DEF over
  <2> QED
    BY <1>4, <2>1, <2>2 DEF Call
<1>6. call[r].op = "upload" => /\ call'[r].pc = "idle" /\ call'[r].op = "view"
                               /\ call'[r].subject = {} /\ call'[r] \in Call
  BY <1>1, IdleCall DEF Idle
<1>7. call[r].op # "upload" =>
          /\ call'[r].pc = "commit" /\ call'[r].op = call[r].op
          /\ call'[r].process = call[r].process /\ call'[r].subject = call[r].subject
          /\ call'[r].row = call[r].row /\ call'[r] \in Call
  <2> SUFFICES ASSUME call[r].op # "upload"
               PROVE  /\ call'[r].pc = "commit" /\ call'[r].op = call[r].op
                      /\ call'[r].process = call[r].process /\ call'[r].subject = call[r].subject
                      /\ call'[r].row = call[r].row /\ call'[r] \in Call
    OBVIOUS
  <2>1. call'[r] = [call[r] EXCEPT !.pc = "commit"]
    BY <1>1
  <2> QED
    BY <1>4, <2>1 DEF Call, Pc
<1>8. call' \in [Request -> Call]
  <2>1. \A s \in Request : call'[s] \in Call
    BY <1>5, <1>6, <1>7
  <2>2. call' = [s \in Request |-> call'[s]]
    BY <1>1
  <2> QED
    BY <2>1, <2>2
<1>9. diverged' \in BOOLEAN
  BY <1>1
<1>10. Typed' /\ Placed' /\ DraftFits' /\ FieldsHaveColumns' /\ Versions'
  BY <1>1, <1>2, <1>3, <1>5, <1>6, <1>7, <1>8, <1>9, ExternalStep
<1>11. InLine'
  <2> SUFFICES ASSUME ~staleSave, ~diverged'
               PROVE  /\ (row.external /\ \A s \in rowLock : ~Synced(s)') =>
                             external'.records = records
                      /\ \A s \in rowLock : Synced(s)' => external'.records = RecordsSeen(s)'
    BY <1>1 DEF InLine
  <2>1. ~call[r].overtaken
    BY <1>1
  <2>2. CASE call[r].op = "upload"
    <3>1. ~diverged /\ records = call[r].saved /\ rowLock = {}
      BY <1>1, <2>2
    <3>2. call[r].saved \subseteq external.records
      BY <1>1, <2>1, <3>1 DEF IInv, Fits, SavedIsThere
    <3>3. external'.records = records
      BY <1>2, <3>1, <3>2
    <3> QED
      BY <3>1, <3>3
  <2>3. CASE call[r].op # "upload"
    <3>1. r \in rowLock /\ rowLock = {r}
      BY <1>3, <2>3, Locks DEF IInv
    <3>2. call[r].saved = RecordsSeen(r) /\ call[r].saved \subseteq external.records
      BY <1>1, <2>1, <3>1 DEF IInv, Fits, SavedIsThere
    <3>3. external'.records = RecordsSeen(r)
      BY <1>2, <3>2
    <3>4. RecordsSeen(r)' = RecordsSeen(r)
      BY <1>1, <1>7, <2>3 DEF RecordsSeen
    <3>5. row.external /\ ~Synced(r)' => RecordsSeen(r) = records
      <4> SUFFICES ASSUME row.external, ~Synced(r)', call[r].op # "move" PROVE FALSE
        BY <1>3, <2>3 DEF RecordsSeen
      <4>1. ~call[r].row.external
        BY <1>3, <1>7, <2>3 DEF Synced
      <4>2. call[r].row.external = draft.row.external
            /\ (call[r].op = "move") = (draft.row.external # row.external)
        BY <3>1 DEF IInv, Fits, Versions, DraftVersions
      <4> QED
        BY <4>1, <4>2
    <3> QED
      BY <3>1, <3>3, <3>4, <3>5
  <2> QED
    BY <2>2, <2>3
<1>12. SavedIsThere'
  <2>1. call'[r].pc # "sync_delete"
    BY <1>6, <1>7
  <2> QED
    BY <1>5, <2>1 DEF SavedIsThere, OthersSame
<1> QED
  BY <1>10, <1>11, <1>12 DEF IInv, Fits

\* A table that is made is empty, and nobody relies on it before it is brought in line.
LEMMA MovedStep ==
    ASSUME IInv, NEW r \in Request, external_moved(r)
    PROVE  IInv'
<1> USE DEF tables, tx, history
<1> DEFINE pc == IF call[r].row.external THEN "sync" ELSE "commit"
<1>1. /\ call[r].pc = "drop_external" /\ call' = At(r, pc)
      /\ UNCHANGED <<tables, tx, models, bounds, history>>
  BY DEF external_moved
<1>2. r \in rowLock /\ rowLock = {r} /\ call[r].op = "move"
  BY <1>1, InTransaction
<1>3. pc \in {"sync", "commit"} /\ pc \in Inside("move") /\ pc \in Pc
  BY DEF Inside, Pc
<1>4. CallOf(r) /\ Same(r) /\ SameRow(r) /\ call'[r].pc = pc
  BY <1>1, <1>3, GoesTo DEF IInv, Typed
<1>5. external' \in External
  <2>1. CASE ~call[r].row.external
    <3>1. external' = NoTable
      BY <2>1 DEF external_moved
    <3> QED
      BY <3>1 DEF NoTable, External
  <2>2. CASE call[r].row.external
    <3>1. external' = [exists |-> TRUE, columns |-> Columns(call[r].model), records |-> {}]
      BY <2>2 DEF external_moved
    <3>2. Columns(call[r].model) \subseteq Columns(Field)
      BY DEF Columns, IInv, Typed, Call
    <3> QED
      BY <2>2, <3>1, <3>2 DEF External, IInv, Typed, Call, Row
  <2> QED
    BY <2>1, <2>2
<1>6. ~call[r].row.external => ~external'.exists
  BY DEF external_moved, NoTable
<1>7. Typed' /\ Placed' /\ DraftFits' /\ FieldsHaveColumns' /\ Versions'
  <2>1. OthersSame(r) /\ call' \in [Request -> Call] /\ diverged' \in BOOLEAN
    BY <1>1, <1>4 DEF CallOf, OthersSame, IInv, Typed, TypedTables
  <2> QED
    BY <1>1, <1>2, <1>3, <1>4, <1>5, <2>1, ExternalStep DEF Same, SameRow
<1>8. InLine'
  <2> SUFFICES ASSUME ~staleSave, external'.exists
               PROVE  ~row.external /\ ~Synced(r)'
    BY <1>1, <1>2 DEF InLine
  <2>1. call[r].row.external
    BY <1>6
  <2>2. call[r].row.external = draft.row.external /\ draft.row.external # row.external
    BY <1>2 DEF IInv, Fits, Versions, DraftVersions
  <2>3. call[r].row.external \in BOOLEAN /\ row.external \in BOOLEAN
    BY DEF IInv, Typed, TypedTables, Call, Row
  <2> QED
    BY <1>4, <2>1, <2>2, <2>3 DEF Synced
<1>9. SavedIsThere'
  <2>1. ~external'.exists \/ Moving(r)'
    BY <1>2, <1>4, <1>6 DEF Moving, Same
  <2>2. call'[r].pc # "sync_delete"
    BY <1>3, <1>4
  <2> QED
    BY <1>1, <1>2, <1>4, <2>1, <2>2 DEF SavedIsThere, CallOf
<1> QED
  BY <1>7, <1>8, <1>9 DEF IInv, Fits

-----------------------------------------------------------------------------
(* The end of a transaction *)

\* Where a request is after its commit: an upload goes on with its next record.
LEMMA CommitCalls ==
    ASSUME IInv, NEW r \in Request, commit(r)
    PROVE  /\ CallOf(r) /\ call'[r].pc # "sync_delete"
           /\ call'[r].pc \in Outside(call'[r].op) /\ call'[r].subject \in Subject(call'[r].op)
           /\ call'[r].pc # "idle" => /\ call[r].op = "upload" /\ SameRow(r)
                                      /\ call'[r].process \in Process
<1>1. call[r].pc = "commit" /\ call[r].process \in Process
      /\ call[r].subject \in Subject(call[r].op)
  BY DEF commit, IInv, Placed, PlacedIs
<1>2. CASE call[r].op = "upload"
  <2>1. PICK record \in call[r].subject : call' = UploadGoesOn(r, record)
    BY <1>2 DEF commit
  <2>2. call[r].subject \in SUBSET Record
    BY <1>1, <1>2 DEF Subject
  <2>3. /\ CallOf(r) /\ SameRow(r) /\ call'[r].op = "upload"
        /\ call'[r].process = call[r].process /\ call'[r].subject \in SUBSET Record
        /\ call'[r].pc \in {"model", "sync", "idle"}
    BY <1>2, <2>1, <2>2, UploadCall DEF IInv, Typed
  <2>4. call'[r].pc \in Outside("upload") /\ call'[r].subject \in Subject("upload")
    BY <2>3 DEF Outside, Subject
  <2> QED
    BY <1>1, <1>2, <2>3, <2>4
<1>3. CASE call[r].op # "upload"
  <2>1. /\ CallOf(r) /\ call'[r].pc = "idle" /\ call'[r].op = "view" /\ call'[r].subject = {}
    BY <1>3, BecomesIdle DEF commit, IInv, Typed
  <2>2. "idle" \in Outside("view") /\ {} \in Subject("view")
    BY DEF Outside, Subject
  <2> QED
    BY <2>1, <2>2
<1> QED
  BY <1>2, <1>3

\* The columns of the fields that a commit leaves.
LEMMA CommitColumns ==
    ASSUME IInv, NEW r \in Request, commit(r)
    PROVE  /\ FieldsHaveColumns'
           /\ fields' \cup late = draft.fields \cup late
<1>1. /\ call[r].pc = "commit" /\ columns' = draft.columns /\ swallowed' = swallowed
      /\ fields' = draft.fields \cup New(r)
  BY DEF commit, New
<1>2. r \in rowLock /\ call[r].op \in Op
  BY <1>1, InTransaction
<1>3. Columns(fields \ swallowed) \subseteq columns /\ columns \subseteq Columns(fields)
      /\ swallowed \subseteq late
  BY DEF IInv, Fits, FieldsHaveColumns, Typed, TypedTables
<1>4. CASE call[r].op = "add"
  <2>1. New(r) = call[r].subject /\ (Added(r) \/ Taken(r))
    BY <1>1, <1>2, <1>4 DEF New, Altered, IInv, Fits, DraftFits
  <2>2. fields' = fields \cup call[r].subject
    BY <1>1, <2>1 DEF Added, Taken
  <2>3. CASE Added(r)
    <3>1. columns' = columns \cup Columns(call[r].subject)
      BY <1>1, <2>3 DEF Added
    <3> QED
      BY <1>1, <1>3, <2>1, <2>2, <2>3, <3>1 DEF FieldsHaveColumns, Columns, Added
  <2>4. CASE Taken(r)
    <3>1. columns' = columns /\ call[r].subject \subseteq late
          /\ (call[r].subject \subseteq swallowed \/ Columns(call[r].subject) \subseteq columns)
      BY <1>1, <2>4 DEF Taken
    <3>2. FieldsHaveColumns'
      BY <1>1, <1>3, <2>2, <3>1 DEF FieldsHaveColumns, Columns
    <3> QED
      BY <1>1, <2>1, <3>1, <3>2
  <2> QED
    BY <2>1, <2>3, <2>4
<1>5. CASE call[r].op = "delete"
  <2>1. New(r) = {} /\ Removed(r)
    BY <1>1, <1>2, <1>5 DEF New, Altered, IInv, Fits, DraftFits
  <2>2. fields' = fields \ call[r].subject
    BY <1>1, <2>1 DEF Removed
  <2>3. CASE Columns(call[r].subject) \cap Columns(fields \ call[r].subject) = {}
    <3>1. columns' = columns \ Columns(call[r].subject)
      BY <1>1, <2>1, <2>3 DEF Removed
    <3>2. Columns(fields' \ swallowed) \subseteq columns'
      <4>1. /\ Columns(fields' \ swallowed) \subseteq Columns(fields \ call[r].subject)
            /\ Columns(fields' \ swallowed) \subseteq Columns(fields \ swallowed)
        BY <2>2 DEF Columns
      <4> QED
        BY <1>3, <2>3, <3>1, <4>1
    <3>3. columns' \subseteq Columns(fields')
      BY <1>3, <2>2, <3>1 DEF Columns
    <3> QED
      BY <1>1, <2>1, <3>2, <3>3 DEF FieldsHaveColumns
  <2>4. CASE Columns(call[r].subject) \cap Columns(fields \ call[r].subject) # {}
    <3>1. columns' = columns
      BY <1>1, <2>1, <2>4 DEF Removed
    <3>2. PICK f \in Field : call[r].subject = {f}
      BY <1>5 DEF IInv, Placed, PlacedIs, Subject
    <3>3. Columns(call[r].subject) = {ColumnOf[f]}
      BY <3>2 DEF Columns
    <3>4. ColumnOf[f] \in Columns(fields')
      BY <2>2, <2>4, <3>3
    <3>5. Columns(fields) \subseteq Columns(fields')
      BY <2>2, <3>2, <3>4 DEF Columns
    <3>6. Columns(fields' \ swallowed) \subseteq Columns(fields \ swallowed)
      BY <2>2 DEF Columns
    <3> QED
      BY <1>1, <1>3, <2>1, <3>1, <3>5, <3>6 DEF FieldsHaveColumns
  <2> QED
    BY <2>3, <2>4
<1>6. CASE call[r].op \notin {"add", "delete"}
  <2>1. New(r) = {} /\ draft.fields = fields /\ draft.columns = columns
    BY <1>2, <1>6 DEF New, Altered, IInv, Fits, DraftFits
  <2> QED
    BY <1>1, <1>3, <2>1 DEF FieldsHaveColumns
<1> QED
  BY <1>4, <1>5, <1>6

\* The records that a commit leaves are those that its transaction saw.
LEMMA CommitInLine ==
    ASSUME IInv, NEW r \in Request, commit(r)
    PROVE  InLine'
<1>1. call[r].pc = "commit" /\ row' = draft.row /\ rowLock' = {}
      /\ UNCHANGED <<external, staleSave>>
  BY DEF commit
<1>2. r \in rowLock /\ rowLock = {r} /\ call[r].op \in Op
  BY <1>1, InTransaction
<1>3. CallOf(r) /\ call'[r].pc # "sync_delete"
  BY CommitCalls
<1>4. Deleting' = Deleting
  BY <1>1, <1>3 DEF Deleting, CallOf
<1> SUFFICES ASSUME ~staleSave, ~diverged', ~Deleting, external.exists, draft.row.external
             PROVE  external.records = records'
  BY <1>1, <1>4 DEF InLine
<1>5. call[r].row.external /\ (call[r].op = "move") = (draft.row.external # row.external)
  BY <1>2 DEF IInv, Fits, Versions, DraftVersions
<1>6. call[r].op # "upload"
  BY <1>5 DEF commit
<1>7. ~diverged
  BY <1>6 DEF commit
<1>8. records' = RecordsSeen(r)
  BY <1>6 DEF commit, RecordsSeen
<1>9. CASE call[r].op \in {"save", "remove", "move"}
  <2>1. Synced(r)
    BY <1>1, <1>5, <1>9 DEF Synced
  <2> QED
    BY <1>2, <1>7, <1>8, <2>1 DEF IInv, Fits, InLine
<1>10. CASE call[r].op \in {"add", "delete"}
  <2>1. ~Synced(r) /\ records' = records
    BY <1>8, <1>10 DEF Synced, RecordsSeen
  <2>2. row.external
    BY <1>5, <1>10 DEF IInv, Typed, TypedTables, Row, Draft
  <2> QED
    BY <1>2, <1>7, <2>1, <2>2 DEF IInv, Fits, InLine
<1>11. call[r].op # "view"
  BY <1>1, <1>2 DEF IInv, Placed, PlacedIs, Inside
<1> QED
  BY <1>2, <1>6, <1>9, <1>10, <1>11 DEF Op

\* The draft becomes the row and the tables, and fits them.
LEMMA CommitStep ==
    ASSUME IInv, NEW r \in Request, commit(r)
    PROVE  IInv'
<1>1. /\ call[r].pc = "commit" /\ row' = draft.row /\ columns' = draft.columns
      /\ fields' = draft.fields \cup New(r) /\ rowLock' = {} /\ draft' = NoDraft
      /\ UNCHANGED <<external, models, bounds, late, swallowed, rolledBack, staleSave>>
  BY DEF commit, New
<1>2. r \in rowLock /\ rowLock = {r} /\ call[r].op \in Op
      /\ call[r].subject \in Subject(call[r].op)
  BY <1>1, InTransaction DEF IInv, Placed, PlacedIs
<1>3. /\ CallOf(r) /\ call'[r].pc # "sync_delete"
      /\ call'[r].pc \in Outside(call'[r].op) /\ call'[r].subject \in Subject(call'[r].op)
      /\ call'[r].pc # "idle" => /\ call[r].op = "upload" /\ SameRow(r)
                                 /\ call'[r].process \in Process
  BY CommitCalls
<1>4. FieldsHaveColumns' /\ fields' \cup late = draft.fields \cup late
  BY CommitColumns
<1>5. row \in Row /\ draft \in Draft /\ draft.row \in Row
  BY DEF IInv, Typed, TypedTables, Draft
<1>6. Typed'
  <2>1. fields' \subseteq Field
    <3>1. New(r) \subseteq Field
      BY <1>2 DEF New, Subject
    <3> QED
      BY <1>1, <1>5, <3>1 DEF Draft
  <2>2. records' \subseteq Record
    <3>1. CASE call[r].op = "upload"
      BY <1>2, <3>1 DEF commit, Subject, IInv, Typed, TypedTables
    <3>2. CASE call[r].op # "upload"
      <4>1. records' = RecordsSeen(r)
        BY <3>2 DEF commit, RecordsSeen
      <4> QED
        BY <4>1, SeenRecords
    <3> QED
      BY <3>1, <3>2
  <2>3. diverged' \in BOOLEAN
    <3>1. call[r].row.external \in BOOLEAN /\ diverged \in BOOLEAN
      BY DEF IInv, Typed, TypedTables, Call, Row
    <3> QED
      BY <3>1 DEF commit
  <2>4. NoDraft \in Draft
    BY DEF NoDraft, Draft, Row
  <2>5. TypedTables'
    BY <1>1, <1>5, <2>1, <2>2, <2>3, <2>4 DEF IInv, Typed, TypedTables, Draft
  <2>6. TypedRest'
    BY <1>1 DEF IInv, Typed, TypedRest, bounds
  <2> QED
    BY <1>3, <2>5, <2>6 DEF Typed, CallOf
<1>7. Placed'
  <2>1. PlacedIs(r)'
    BY <1>1, <1>3 DEF PlacedIs
  <2>2. \A s \in Request \ {r} : PlacedIs(s)'
    BY <1>1, <1>2, <1>3 DEF IInv, Placed, PlacedIs, CallOf
  <2> QED
    BY <2>1, <2>2 DEF Placed
<1>8. Versions'
  <2> SUFFICES ASSUME ~staleSave PROVE VersionsRead' /\ ModelsFit'
    BY <1>1 DEF Versions, DraftVersions
  <2>1. /\ draft.row.schema \in {row.schema, row.schema + 1}
        /\ call[r].op # "add" => call[r].row.schema = draft.row.schema
        /\ draft.row.schema = row.schema => draft.fields \cup late = fields \cup late
    BY <1>2 DEF IInv, Fits, Versions, DraftVersions
  <2>2. row.schema \in Nat /\ draft.row.schema \in Nat
    BY <1>5 DEF Row
  <2>3. VersionsRead'
    <3> SUFFICES ASSUME NEW s \in Request, call'[s].pc # "idle"
                 PROVE  call'[s].row.schema <= draft.row.schema
      BY <1>1 DEF VersionsRead
    <3>1. CASE s = r
      BY <1>3, <2>1, <2>2, <3>1 DEF SameRow
    <3>2. CASE s # r
      <4>1. call'[s] = call[s] /\ s \notin rowLock /\ call[s].row.schema \in Nat
        BY <1>2, <1>3, <3>2 DEF CallOf, IInv, Typed, Call, Row
      <4>2. call[s].row.schema <= row.schema
        BY <4>1 DEF IInv, Fits, Versions, VersionsRead
      <4> QED
        BY <2>1, <2>2, <4>1, <4>2
    <3> QED
      BY <3>1, <3>2
  <2>4. ModelsFit'
    <3> SUFFICES ASSUME NEW p \in Process, NEW m \in models[p] PROVE ModelFits(m)'
      BY <1>1 DEF ModelsFit
    <3>1. ModelFits(m) /\ m.version \in Nat
      BY DEF IInv, Fits, Versions, ModelsFit, Typed, TypedRest, Model
    <3>2. CASE m.version \in rolledBack
      BY <1>1, <3>2 DEF ModelFits
    <3>3. CASE m.version < row.schema
      BY <1>1, <2>1, <2>2, <3>1, <3>3 DEF ModelFits
    <3>4. CASE m.version = row.schema /\ m.fields \cup late = fields \cup late
      BY <1>1, <1>4, <2>1, <2>2, <3>1, <3>4 DEF ModelFits
    <3>5. CASE m.version = draft.row.schema /\ m.fields \cup late = draft.fields \cup late
      BY <1>1, <1>4, <3>5 DEF ModelFits
    <3> QED
      BY <3>1, <3>2, <3>3, <3>4, <3>5 DEF ModelFits
  <2> QED
    BY <2>3, <2>4
<1>9. InLine'
  BY CommitInLine
<1>10. SavedIsThere'
  <2> SUFFICES ASSUME NEW s \in Request \ {r}, call[s].pc = "sync_delete", ~call[s].overtaken
               PROVE  diverged' \/ ~external.exists \/ call[s].saved \subseteq external.records
    BY <1>1, <1>3 DEF SavedIsThere, CallOf
  <2>1. ~Moving(r) /\ s \notin rowLock
    BY <1>1, <1>2 DEF Moving
  <2>2. diverged \/ ~external.exists \/ call[s].saved \subseteq external.records
    BY <1>2, <2>1 DEF IInv, Fits, SavedIsThere
  <2>3. diverged => diverged'
    BY DEF commit
  <2> QED
    BY <2>2, <2>3
<1>11. DraftFits'
  BY <1>1 DEF DraftFits
<1> QED
  BY <1>4, <1>6, <1>7, <1>8, <1>9, <1>10, <1>11 DEF IInv, Fits

-----------------------------------------------------------------------------
(* The theorems *)

LEMMA InvStep == ASSUME Bounded PROVE IInv /\ [Next]_vars => IInv'
<1> SUFFICES ASSUME IInv, [Next]_vars PROVE IInv'
  OBVIOUS
<1>1. CASE UNCHANGED vars
  <2> USE <1>1 DEF vars, tables, tx, bounds, history
  <2>1. Typed' /\ Placed'
    BY DEF IInv, Typed, TypedTables, TypedRest, Placed, PlacedIs
  <2>2. DraftFits'
    BY DEF IInv, Fits, DraftFits, Altered, New, Added, Taken, Removed
  <2>3. FieldsHaveColumns' /\ Versions'
    BY DEF IInv, Fits, FieldsHaveColumns, Versions, DraftVersions, VersionsRead, ModelsFit,
           ModelFits
  <2>4. InLine' /\ SavedIsThere'
    BY DEF IInv, Fits, InLine, Deleting, Synced, RecordsSeen, SavedIsThere, Moving
  <2> QED
    BY <2>1, <2>2, <2>3, <2>4 DEF IInv, Fits
<1>2. CASE \E r \in Request, p \in Process, op \in Op, subject \in SUBSET (Field \cup Record) :
               begin(r, p, op, subject)
  BY <1>2, BeginStep
<1>3. ASSUME NEW r \in Request, RequestNext(r) PROVE IInv'
  <2>1. CASE model_registered(r) \/ model_forgotten(r) \/ model_made(r)
    BY <2>1, RegisteredStep, ForgottenStep, MadeStep
  <2>2. CASE field_saved(r) \/ parent_saved(r) \/ row_saved(r) \/ external_database_saved(r)
    BY <2>2, SavedStep
  <2>3. CASE field_not_in_model(r) \/ column_not_removed(r) \/ external_exists(r)
    BY <2>3, NotRunStep
  <2>4. CASE column_added(r) \/ column_removed(r) \/ external_altered(r) \/ field_deleted(r)
    BY <2>4, ColumnAddedStep, ColumnRemovedStep, ExternalAlteredStep, FieldDeletedStep
  <2>5. CASE record_written(r)
    BY <2>5, WrittenStep
  <2>6. CASE sync_saves(r) \/ sync_deletes(r) \/ external_moved(r)
    BY <2>6, SyncSavesStep, SyncDeletesStep, MovedStep
  <2>7. CASE commit(r)
    BY <2>7, CommitStep
  <2> QED
    BY <1>3, <2>1, <2>2, <2>3, <2>4, <2>5, <2>6, <2>7 DEF RequestNext
<1>4. CASE \E r, s \in Request : deadlock(r, s)
  BY <1>4, DeadlockStep
<1>5. CASE \E r \in Request, f \in {{}} \cup {{x} : x \in Failure} :
               external_not_altered(r, f) \/ sync_fails(r, f)
  BY <1>5, ExternalNotAlteredStep, EndsStep
<1>6. CASE \E r \in Request, f \in Failure : server_dies(r, f)
  BY <1>6, EndsStep
<1> QED
  BY <1>1, <1>2, <1>3, <1>4, <1>5, <1>6 DEF Next

\* The inductive invariant holds of every behaviour.
THEOREM InvCorrect == ASSUME Bounded PROVE Spec => []IInv
  BY InitInv, InvStep, PTL DEF Spec

\* Type correctness: no request leaves a table, a draft or a model that is not one.
THEOREM TypeCorrect == ASSUME Bounded PROVE Spec => []TypeOK
<1>1. IInv => TypeOK
  BY TypeFollows DEF IInv
<1> QED
  BY <1>1, InvCorrect, PTL

\* The model that a process keeps under the version of the row has the fields there are, whoever
\* made it and when, for any number of requests, processes, fields, failures and deaths.
THEOREM ModelsAreCurrentCorrect == ASSUME Bounded PROVE Spec => []ModelsAreCurrent
<1>1. IInv => ModelsAreCurrent
  <2> SUFFICES ASSUME IInv, ~staleSave, row.schema \notin rolledBack,
                      NEW p \in Process, NEW m \in models[p], m.version = row.schema
               PROVE  m.fields \cup late = fields \cup late
    BY DEF ModelsAreCurrent
  <2>1. ModelFits(m) /\ DraftVersions
    BY DEF IInv, Fits, Versions, ModelsFit
  <2>2. row.schema \in Nat
    BY DEF IInv, Typed, TypedTables, Row
  <2>3. rowLock # {} /\ draft.row.schema = row.schema => draft.fields \cup late = fields \cup late
    BY <2>1 DEF DraftVersions
  <2> QED
    BY <2>1, <2>2, <2>3 DEF ModelFits
<1> QED
  BY <1>1, InvCorrect, PTL

\* Fields have their columns, and no column is left without a field, also where fields share
\* one and whatever fails on the way, but for fields that are saved again after an error.
THEOREM FieldsHaveColumnsCorrect == ASSUME Bounded PROVE Spec => []FieldsHaveColumns
<1>1. IInv => FieldsHaveColumns
  BY DEF IInv, Fits
<1> QED
  BY <1>1, InvCorrect, PTL

\* When nobody is about to, the external table has the records, unless a request came to nothing
\* half way, or an upload was overtaken, and nobody has saved a record since.
THEOREM RecordsAreReplicatedCorrect == ASSUME Bounded PROVE Spec => []RecordsAreReplicated
<1>1. IInv => RecordsAreReplicated
  <2> SUFFICES ASSUME IInv, row.external, external.exists, rowLock = {}, ~diverged, ~staleSave,
                      \A r \in Request : call[r].pc \notin {"sync", "sync_delete"}
               PROVE  external.records = records
    BY DEF RecordsAreReplicated
  <2>1. ~Deleting
    BY DEF Deleting
  <2> QED
    BY <2>1 DEF IInv, Fits, InLine
<1> QED
  BY <1>1, InvCorrect, PTL
=============================================================================
