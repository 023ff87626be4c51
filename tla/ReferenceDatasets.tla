-------------------------- MODULE ReferenceDatasets --------------------------
(***************************************************************************)
(* One reference dataset: its row, its fields, the table of its records    *)
(* in the admin database and the copy of it in an external database.       *)
(*                                                                         *)
(*   - The model class of a record is made from the fields.  A process     *)
(*     keeps it, under the schema version of the row it was made for.      *)
(*   - A request works on the row as it read it, and saves the whole of it *)
(*     whenever it changes anything.                                       *)
(*   - It changes the admin database in a transaction, and the external    *)
(*     one outside of it, a statement at a time.                           *)
(*                                                                         *)
(* A server has one process and a greenlet for each request: others run    *)
(* whenever one waits for a database.  The names and types of fields, and  *)
(* the numbers of the versions that readers see, do not change here.       *)
(***************************************************************************)
EXTENDS Naturals, FiniteSets

CONSTANTS
    Request,     \* requests that may be running
    Process,     \* the servers
    NoProcess,
    Field,       \* fields that there may be
    ColumnOf,    \* their columns: linked fields may have one in common
    Record,      \* records that there may be
    MaxRequests, \* bound on the requests that are begun
    Failure      \* failures of the external database and deaths that there may be

VARIABLES
    row,         \* the row: schema_version, and whether there is an external_database
    fields,      \* the rows of ReferenceDatasetField
    columns,     \* the columns of the table
    records,     \* the rows of the table
    external,    \* the table in the external database
    rowLock,     \* the transaction that has updated the row, as a set
    draft,       \* what it has changed
    models,      \* apps.all_models, by process
    call,        \* where the requests are
    begun, failed,
    late,        \* history: fields that were saved again after an error
    swallowed,   \* history: those of them whose column could not be added
    rolledBack,  \* history: versions for which a transaction that failed made a model
    staleSave,   \* history: a row was saved that had changed since it was read
    diverged     \* history: the external database was changed and not brought in line since

tables == <<row, fields, columns, records>>
tx == <<rowLock, draft>>
bounds == <<begun, failed>>
history == <<late, swallowed, rolledBack, staleSave, diverged>>
vars == <<tables, external, tx, models, call, bounds, history>>

Row == [schema : Nat, external : BOOLEAN]
Model == [version : Nat, fields : SUBSET Field]
Columns(fs) == {ColumnOf[f] : f \in fs}
Idle == [pc |-> "idle", op |-> "view", process |-> NoProcess,
         row |-> [schema |-> 0, external |-> FALSE], subject |-> {}, model |-> {}, saved |-> {},
         overtaken |-> FALSE]
NoDraft == [row |-> [schema |-> 0, external |-> FALSE], fields |-> {}, columns |-> {}]
NoTable == [exists |-> FALSE, columns |-> {}, records |-> {}]

TypeOK ==
    /\ row \in Row
    /\ fields \subseteq Field
    /\ columns \subseteq Columns(Field)
    /\ records \subseteq Record
    /\ external \in [exists : BOOLEAN, columns : SUBSET Columns(Field), records : SUBSET Record]
    /\ rowLock \subseteq Request /\ Cardinality(rowLock) <= 1
    /\ draft \in [row : Row, fields : SUBSET Field, columns : SUBSET Columns(Field)]
    /\ DOMAIN models = Process /\ \A p \in Process : models[p] \subseteq Model
    /\ \A r \in Request : call[r].row \in Row /\ call[r].process \in Process \cup {NoProcess}
    /\ begun \in 0..MaxRequests /\ failed \subseteq Failure
    /\ swallowed \subseteq late /\ late \subseteq Field
    /\ staleSave \in BOOLEAN /\ diverged \in BOOLEAN

Init ==
    /\ row = [schema |-> 0, external |-> TRUE]
    /\ fields = {} /\ columns = {} /\ records = {}
    /\ external = [NoTable EXCEPT !.exists = TRUE]
    /\ rowLock = {} /\ draft = NoDraft
    /\ models = [p \in Process |-> {}]
    /\ call = [r \in Request |-> Idle]
    /\ begun = 0 /\ failed = {}
    /\ late = {} /\ swallowed = {} /\ rolledBack = {} /\ staleSave = FALSE /\ diverged = FALSE

-----------------------------------------------------------------------------
(* What requests see and do *)

At(r, pc) == [call EXCEPT ![r].pc = pc]
Visible(r) == IF r \in rowLock THEN draft.fields ELSE fields

\* a request, and the row as it reads it
begin(r, p, op, subject) ==
    /\ call[r].pc = "idle" /\ begun < MaxRequests
    /\ \/ op = "view" /\ subject = {}
       \/ op = "move" /\ subject = {}
       \/ op = "add" /\ subject \subseteq Field \ fields /\ Cardinality(subject) = 1
       \/ op = "delete" /\ subject \subseteq fields /\ Cardinality(subject) = 1
       \/ op = "save" /\ subject \subseteq Record /\ Cardinality(subject) = 1
       \/ op = "remove" /\ subject \subseteq records /\ Cardinality(subject) = 1
       \/ op = "upload" /\ subject \subseteq Record /\ subject # {}
    /\ call' = [call EXCEPT ![r] = [Idle EXCEPT
           !.pc = IF op \in {"view", "save", "upload"} THEN "model" ELSE "read",
           !.op = op, !.process = p, !.row = row, !.subject = subject]]
    /\ begun' = begun + 1
    /\ UNCHANGED <<tables, external, tx, models, failed, history>>

\* the transaction of r saves the row as r has it
Saves(r, newRow, newFields, newColumns) ==
    /\ rowLock \subseteq {r}
    /\ rowLock' = {r}
    /\ draft' = [row |-> newRow, fields |-> newFields, columns |-> newColumns]
    /\ staleSave' = (staleSave \/ (rowLock = {} /\ call[r].row # row))

\* and what is left when it comes to nothing
RollsBack(r) ==
    /\ rowLock' = rowLock \ {r}
    /\ draft' = IF r \in rowLock THEN NoDraft ELSE draft
    /\ rolledBack' = rolledBack \cup IF r \in rowLock THEN {draft.row.schema} \ {row.schema} ELSE {}
    /\ diverged' = (diverged \/ r \in rowLock \/ call[r].pc \in {"sync", "sync_delete"})

\* an upload saves one record in each of its transactions, logs those that fail, and syncs
UploadGoesOn(r, record) ==
    LET rest == call[r].subject \ {record}
    IN [call EXCEPT ![r].subject = rest,
                    ![r].pc = IF rest # {} THEN "model" ELSE
                              IF call[r].row.external THEN "sync" ELSE "idle"]

Fails(r) ==
    /\ RollsBack(r)
    /\ IF call[r].op = "upload" /\ call[r].pc \in {"write", "row"}
       THEN \E record \in call[r].subject : call' = UploadGoesOn(r, record)
       ELSE call' = [call EXCEPT ![r] = Idle]
    /\ UNCHANGED <<tables, external, models, bounds, late, swallowed, staleSave>>

\* where a request goes on to when it has its model; when it asks for the same again it
\* does what a view does
AfterModel(r) ==
    CASE call[r].op = "view" -> "idle"
      [] call[r].op \in {"add", "delete"} /\ call[r].pc \in {"model", "query"} -> "alter"
      [] call[r].op = "move" -> "drop_external"
      [] call[r].op \in {"save", "upload"} -> "write"
      [] call[r].op = "remove" /\ call[r].row.external -> "sync"
      [] OTHER -> "commit"

-----------------------------------------------------------------------------
(* get_record_model_class, for the schema version in the hands of r *)

WantsModel(r) == call[r].pc \in {"model", "last_model"}

HasModel(r, fs) ==
    call' = [call EXCEPT ![r].model = fs, ![r].pc = AfterModel(r)]

model_registered(r) ==
    /\ WantsModel(r)
    /\ \E m \in models[call[r].process] : m.version = call[r].row.schema /\ HasModel(r, m.fields)
    /\ UNCHANGED <<tables, external, tx, models, bounds, history>>

\* one of another version is forgotten, and the fields are asked for
model_forgotten(r) ==
    /\ WantsModel(r)
    /\ \A m \in models[call[r].process] : m.version # call[r].row.schema
    /\ models' = [models EXCEPT ![call[r].process] = {}]
    /\ call' = At(r, IF call[r].pc = "model" THEN "query" ELSE "last_query")
    /\ UNCHANGED <<tables, external, tx, bounds, history>>

\* another request may have registered one, of whatever version
model_made(r) ==
    /\ call[r].pc \in {"query", "last_query"}
    /\ LET p == call[r].process
           m == IF models[p] = {} THEN {[version |-> call[r].row.schema, fields |-> Visible(r)]}
                ELSE models[p]
       IN models' = [models EXCEPT ![p] = m] /\ HasModel(r, UNION {n.fields : n \in m})
    /\ UNCHANGED <<tables, external, tx, bounds, history>>

-----------------------------------------------------------------------------
(* Fields: the admin site saves the row, and then adds or deletes a field *)

NextVersion(r) == [call[r].row EXCEPT !.schema = @ + 1]

\* variant: the model is asked for under the version that the field is not in
column_addedToVersion(r) ==
    /\ call[r].pc = "read" /\ call[r].op = "add"
    /\ Saves(r, call[r].row, fields \cup call[r].subject, columns)
    /\ call' = At(r, "model")
    /\ UNCHANGED <<tables, external, models, bounds, late, swallowed, rolledBack, diverged>>

\* _add_column_to_db, up to the model with the field
field_saved(r) ==
    /\ call[r].pc = "read" /\ call[r].op = "add"
    /\ Saves(r, NextVersion(r), fields \cup call[r].subject, columns)
    /\ call' = [At(r, "model") EXCEPT ![r].row = NextVersion(r)]
    /\ UNCHANGED <<tables, external, models, bounds, late, swallowed, rolledBack, diverged>>

parent_saved(r) ==
    /\ call[r].pc = "read" /\ call[r].op = "delete"
    /\ Saves(r, call[r].row, fields, columns)
    /\ call' = At(r, "model")
    /\ UNCHANGED <<tables, external, models, bounds, late, swallowed, rolledBack, diverged>>

\* ALTER TABLE waits for transactions that have written a record, and others for it
Writers(r) == {s \in Request \ {r} : call[s].pc = "row" /\ call[s].op \in {"save", "upload"}}
NotAltered == rowLock = {} \/ draft.columns = columns

\* _meta.get_field: FieldDoesNotExist
field_not_in_model(r) ==
    /\ call[r].pc = "alter" /\ ~(call[r].subject \subseteq call[r].model)
    /\ Fails(r)

\* DatabaseError, which save takes for a column that is there already: back to the
\* savepoint, before the version, the field and its column.  The row is saved once more,
\* with the version, unless the dataset is new and has no records.
Swallowed(r) ==
    /\ \E again \in {TRUE, records # {}} :
           /\ draft' = [row |-> IF again THEN draft.row ELSE row,
                        fields |-> draft.fields \ call[r].subject, columns |-> columns]
           /\ rolledBack' = rolledBack \cup IF again THEN {} ELSE {draft.row.schema}
    /\ late' = late \cup call[r].subject
    /\ swallowed' = IF Columns(call[r].subject) \subseteq columns THEN swallowed
                    ELSE swallowed \cup call[r].subject
    /\ call' = At(r, "last_model")

column_added(r) ==
    /\ call[r].pc = "alter" /\ call[r].op = "add" /\ call[r].subject \subseteq call[r].model
    /\ Writers(r) = {}
    /\ IF Columns(call[r].subject) \subseteq draft.columns
       THEN Swallowed(r)
       ELSE /\ draft' = [draft EXCEPT !.columns = @ \cup Columns(call[r].subject)]
            /\ call' = At(r, IF call[r].row.external THEN "alter_external" ELSE "last_model")
            /\ UNCHANGED <<late, swallowed, rolledBack>>
    /\ UNCHANGED <<tables, external, rowLock, models, bounds, staleSave, diverged>>

\* variant: another field may have the same column
column_removedAlways(r) ==
    /\ call[r].pc = "alter" /\ call[r].op = "delete" /\ call[r].subject \subseteq call[r].model
    /\ Writers(r) = {}
    /\ Columns(call[r].subject) \subseteq draft.columns
    /\ draft' = [draft EXCEPT !.columns = @ \ Columns(call[r].subject)]
    /\ call' = At(r, IF call[r].row.external THEN "alter_external" ELSE "field_deleted")
    /\ UNCHANGED <<tables, external, rowLock, models, bounds, history>>

\* unless other fields have the same column
Unshared(r) == Columns(call[r].subject) \cap Columns(draft.fields \ call[r].subject) = {}

column_removed(r) ==
    /\ call[r].pc = "alter" /\ call[r].op = "delete" /\ call[r].subject \subseteq call[r].model
    /\ Writers(r) = {}
    /\ IF Unshared(r)
       THEN /\ Columns(call[r].subject) \subseteq draft.columns
            /\ draft' = [draft EXCEPT !.columns = @ \ Columns(call[r].subject)]
            /\ call' = At(r, IF call[r].row.external THEN "alter_external" ELSE "field_deleted")
       ELSE call' = At(r, "field_deleted") /\ UNCHANGED draft
    /\ UNCHANGED <<tables, external, rowLock, models, bounds, history>>

\* a field that never got its column cannot be deleted
column_not_removed(r) ==
    /\ call[r].pc = "alter" /\ call[r].op = "delete" /\ call[r].subject \subseteq call[r].model
    /\ Unshared(r) /\ ~(Columns(call[r].subject) \subseteq draft.columns)
    /\ Fails(r)

\* in a transaction of its own
external_altered(r) ==
    /\ call[r].pc = "alter_external"
    /\ external.exists
    /\ LET c == Columns(call[r].subject)
       IN \/ /\ call[r].op = "add" /\ c \cap external.columns = {}
             /\ external' = [external EXCEPT !.columns = @ \cup c]
             /\ call' = At(r, "last_model")
          \/ /\ call[r].op = "delete" /\ c \subseteq external.columns
             /\ external' = [external EXCEPT !.columns = @ \ c]
             /\ call' = At(r, "field_deleted")
    /\ UNCHANGED <<tables, tx, models, bounds, history>>

\* the table or the column is not what it should be, or the database fails
external_not_altered(r, f) ==
    /\ call[r].pc = "alter_external"
    /\ \/ /\ f \subseteq Failure \ failed /\ f # {}
       \/ /\ f = {}
          /\ \/ ~external.exists
             \/ (call[r].op = "add") # (Columns(call[r].subject) \cap external.columns = {})
    /\ failed' = failed \cup f
    /\ IF call[r].op = "add"
       THEN /\ Swallowed(r)
            /\ diverged' = TRUE
            /\ UNCHANGED rowLock
       ELSE RollsBack(r) /\ call' = [call EXCEPT ![r] = Idle] /\ UNCHANGED <<late, swallowed>>
    /\ UNCHANGED <<tables, external, models, begun, staleSave>>

\* super().delete(), and then the next version
field_deleted(r) ==
    /\ call[r].pc = "field_deleted"
    /\ Saves(r, NextVersion(r), draft.fields \ call[r].subject, draft.columns)
    /\ call' = [At(r, "last_model") EXCEPT ![r].row = NextVersion(r)]
    /\ UNCHANGED <<tables, external, models, bounds, late, swallowed, rolledBack, diverged>>

\* r has the row and waits for the table, s has the table and waits for the row: Postgres
\* ends one of them
deadlock(r, s) ==
    /\ call[r].pc = "alter" /\ s \in Writers(r) /\ r \in rowLock
    /\ \/ Fails(s)
       \/ call[r].op = "delete" /\ Fails(r)
       \/ /\ call[r].op = "add" /\ Swallowed(r)
          /\ UNCHANGED <<tables, external, rowLock, models, bounds, staleSave, diverged>>

-----------------------------------------------------------------------------
(* Records *)

\* the INSERT has the columns of the model
record_written(r) ==
    /\ call[r].pc = "write"
    /\ NotAltered
    /\ IF Columns(call[r].model) \subseteq columns
       THEN /\ call' = At(r, "row")
            /\ UNCHANGED <<tables, external, tx, models, bounds, history>>
       ELSE Fails(r)

AfterRow(r) ==
    CASE call[r].op = "remove" -> "model"
      [] call[r].op = "save" /\ call[r].row.external -> "sync"
      [] OTHER -> "commit"

\* increment_minor_version, which comes before the external table is brought in line
row_saved(r) ==
    /\ call[r].pc = "row" \/ (call[r].pc = "read" /\ call[r].op = "remove")
    /\ Saves(r, call[r].row, fields, columns)
    /\ call' = At(r, AfterRow(r))
    /\ UNCHANGED <<tables, external, models, bounds, late, swallowed, rolledBack, diverged>>

\* variant: what the transaction has changed is not seen
RecordsSeenBefore(r) == records

\* the records that the transaction of r sees; those of an upload have been committed
RecordsSeen(r) ==
    CASE call[r].op = "save" -> records \cup call[r].subject
      [] call[r].op = "remove" -> records \ call[r].subject
      [] OTHER -> records

\* the tables have the columns of the model, and the model has the fields
CanSync(r) ==
    /\ external.exists
    /\ Columns(call[r].model) \subseteq columns \cap external.columns
    /\ fields \subseteq call[r].model

\* sync_to_external_database updates and inserts them one by one, and then deletes others
sync_saves(r) ==
    /\ call[r].pc = "sync"
    /\ r \in rowLock \/ NotAltered
    /\ CanSync(r)
    /\ external' = [external EXCEPT !.records = @ \cup RecordsSeen(r)]
    /\ call' = [At(r, "sync_delete") EXCEPT ![r].saved = RecordsSeen(r)]
    /\ UNCHANGED <<tables, tx, models, bounds, history>>

sync_fails(r, f) ==
    /\ call[r].pc \in {"sync", "sync_delete"}
    /\ \/ f \subseteq Failure \ failed /\ f # {}
       \/ f = {} /\ ~CanSync(r)
    /\ failed' = failed \cup f
    /\ RollsBack(r)
    /\ call' = [call EXCEPT ![r] = Idle]
    /\ UNCHANGED <<tables, external, models, begun, late, swallowed, staleSave>>

\* an upload does so outside of a transaction: others may have changed the records since
sync_deletes(r) ==
    /\ call[r].pc = "sync_delete"
    /\ external.exists
    /\ external' = [external EXCEPT !.records = @ \cap call[r].saved]
    /\ call' = [s \in Request |->
                   IF s = r
                   THEN IF call[r].op = "upload" THEN Idle ELSE [call[r] EXCEPT !.pc = "commit"]
                   ELSE [call[s] EXCEPT !.overtaken = @ \/ call[s].pc = "sync_delete"]]
    /\ diverged' = (\/ \E s \in Request \ {r} : call[s].pc = "sync_delete"
                    \/ call[r].overtaken
                    \/ /\ call[r].op = "upload"
                       /\ diverged \/ records # call[r].saved \/ rowLock # {})
    /\ UNCHANGED <<tables, tx, models, bounds, late, swallowed, rolledBack, staleSave>>

-----------------------------------------------------------------------------
(* The external database is set or unset, in the transaction of the admin site *)

external_database_saved(r) ==
    /\ call[r].pc = "read" /\ call[r].op = "move"
    /\ LET moved == [call[r].row EXCEPT !.external = ~@]
       IN Saves(r, moved, fields, columns) /\ call' = [At(r, "model") EXCEPT ![r].row = moved]
    /\ UNCHANGED <<tables, external, models, bounds, late, swallowed, rolledBack, diverged>>

\* a table that is not there is no error, one that is there already is
external_moved(r) ==
    /\ call[r].pc = "drop_external"
    /\ IF ~call[r].row.external
       THEN external' = NoTable /\ call' = At(r, "commit")
       ELSE /\ ~external.exists
            /\ external' = [exists |-> TRUE, columns |-> Columns(call[r].model), records |-> {}]
            /\ call' = At(r, "sync")
    /\ UNCHANGED <<tables, tx, models, bounds, history>>

external_exists(r) ==
    /\ call[r].pc = "drop_external" /\ call[r].row.external /\ external.exists
    /\ Fails(r)

-----------------------------------------------------------------------------
(* The end of a transaction, and deaths *)

commit(r) ==
    /\ call[r].pc = "commit"
    /\ row' = draft.row /\ columns' = draft.columns
    \* super().save() at the end: a field is saved again, also without its column
    /\ fields' = draft.fields \cup (IF call[r].op = "add" THEN call[r].subject ELSE {})
    /\ \/ /\ call[r].op = "upload"
          /\ \E record \in call[r].subject :
                 records' = records \cup {record} /\ call' = UploadGoesOn(r, record)
          /\ diverged' = (diverged \/ call[r].row.external)
       \/ /\ call[r].op # "upload"
          /\ records' = CASE call[r].op = "save" -> records \cup call[r].subject
                          [] call[r].op = "remove" -> records \ call[r].subject
                          [] OTHER -> records
          /\ call' = [call EXCEPT ![r] = Idle]
          /\ UNCHANGED diverged
    /\ rowLock' = {} /\ draft' = NoDraft
    /\ UNCHANGED <<external, models, bounds, late, swallowed, rolledBack, staleSave>>

server_dies(r, f) ==
    /\ call[r].pc # "idle" /\ f \in Failure \ failed
    /\ failed' = failed \cup {f}
    /\ RollsBack(r)
    /\ call' = [call EXCEPT ![r] = Idle]
    /\ UNCHANGED <<tables, external, models, begun, late, swallowed, staleSave>>

Op == {"view", "add", "delete", "save", "remove", "upload", "move"}

RequestNext(r) ==
    \/ model_registered(r) \/ model_forgotten(r) \/ model_made(r)
    \/ field_saved(r) \/ parent_saved(r) \/ field_not_in_model(r) \/ column_added(r)
    \/ column_removed(r) \/ column_not_removed(r) \/ external_altered(r) \/ field_deleted(r)
    \/ record_written(r) \/ row_saved(r) \/ sync_saves(r) \/ sync_deletes(r)
    \/ external_database_saved(r) \/ external_moved(r) \/ external_exists(r)
    \/ commit(r)

Next ==
    \/ \E r \in Request, p \in Process, op \in Op, subject \in SUBSET (Field \cup Record) :
           begin(r, p, op, subject)
    \/ \E r \in Request : RequestNext(r)
    \/ \E r, s \in Request : deadlock(r, s)
    \/ \E r \in Request, f \in {{}} \cup {{x} : x \in Failure} :
           external_not_altered(r, f) \/ sync_fails(r, f)
    \/ \E r \in Request, f \in Failure : server_dies(r, f)

Spec == Init /\ [][Next]_vars

-----------------------------------------------------------------------------
(* Properties *)

\* The model that a process keeps under the version of the row has the fields there are,
\* whoever made it and when, unless the number of a version was given twice: by a request
\* that saved the row as it was before, or after a transaction that failed.  Fields that are
\* saved again after an error are so after the last model was made.
ModelsAreCurrent ==
    (~staleSave /\ row.schema \notin rolledBack) =>
        \A p \in Process : \A m \in models[p] :
            m.version = row.schema => m.fields \cup late = fields \cup late

\* "On ReferenceDatasetField save update the associated table" (the docstring): fields have
\* their columns, also where several have one, and there is none without a field, unless an
\* error that was not about a column that is there already was taken for one.
FieldsHaveColumns ==
    /\ Columns(fields \ swallowed) \subseteq columns
    /\ columns \subseteq Columns(fields)

\* "Replicate the record in any linked external databases" (the docstring): when nobody is
\* about to, the external table has the records, unless a request came to nothing half way,
\* or an upload was overtaken, and nobody has saved a record since.
RecordsAreReplicated ==
    (/\ row.external /\ external.exists
     /\ rowLock = {} /\ \A r \in Request : call[r].pc \notin {"sync", "sync_delete"}
     /\ ~diverged /\ ~staleSave) => external.records = records
=============================================================================
