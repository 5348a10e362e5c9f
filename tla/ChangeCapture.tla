---------------------------- MODULE ChangeCapture ----------------------------
(***************************************************************************)
(* The archive of an application and its traced operations (k.db.esegui    *)
(* and k.db.transazione of app_runtime_v2.js, change_capture/,             *)
(* field_audit/).  Temporary triggers log every change made inside an      *)
(* operation; at the end of the outermost one the changes go to the        *)
(* history of the fields, in the same savepoint as the data, and are then  *)
(* made into blocks for the other nodes.  An operation is synchronous:     *)
(* blocks of other nodes, migrations and reloads of the archive come       *)
(* between two operations.  (Saves and crashes are those of                *)
(* NetworkWorkspace: data and history are in one file.)                    *)
(*                                                                         *)
(* A record has one field besides its id, and no column that is unique; of *)
(* the history only the last entry of each record is kept, and of its      *)
(* blocks what the last one says.                                          *)
(***************************************************************************)
EXTENDS Naturals, Sequences, SequencesExt

CONSTANTS Record,     \* records of the archive
          Late,       \* those of a table that a later migration creates
          Content,    \* what the field may hold
          MaxDepth,   \* operations inside one another (a bound)
          MaxChanges  \* writes of one operation (a bound)

ASSUME CaptureAssumption == /\ Late \subseteq Record
                            /\ {MaxDepth, MaxChanges} \subseteq Nat

VARIABLES rows,      \* the records
          schema,    \* 1 after the migration: main.schema_version
          versioni,  \* per archive object: the version aligned to, 0 when none
          triggers,  \* the records whose table has the temporary triggers
          attiva,    \* a session is open: a row in _k_sessione
          cambi,     \* _k_cambi
          open,      \* the savepoints: what each of them restores
          history,   \* the field as the last entry of _k_audit tells it
          told,      \* the record as its last block tells it
          mine       \* the field as the last local change left it (ghost)

captureVars == <<rows, schema, versioni, triggers, attiva, cambi, open, history, told,
                 mine>>

Absent == "absent"   \* no such record
Empty == "empty"     \* a record whose field is null
Unlogged == "unlogged"  \* of mine: emptied by a change that leaves no entry
RecordValues == [Record -> Content \cup {Absent, Empty}]
FieldValues == [Record -> Content \cup {Empty}]
MineValues == [Record -> Content \cup {Empty, Unlogged}]

\* The value of the field; null also where there is no record.
Field(v) == IF v = Absent THEN Empty ELSE v

ChangeEntry == [record : Record, azione : {"INSERT", "UPDATE", "DELETE"},
                prima : Content \cup {Absent, Empty}, dopo : Content \cup {Absent, Empty}]

CaptureTypeOK ==
  /\ rows \in RecordValues /\ told \in RecordValues
  /\ history \in FieldValues /\ mine \in MineValues
  /\ schema \in 1..2 /\ versioni \in 0..2
  /\ triggers \subseteq Record /\ attiva \in BOOLEAN
  /\ Len(cambi) <= MaxChanges /\ \A i \in DOMAIN cambi : cambi[i] \in ChangeEntry
  /\ Len(open) <= MaxDepth
  /\ \A i \in DOMAIN open : /\ open[i].rows \in RecordValues
                            /\ open[i].history \in FieldValues
                            /\ open[i].mine \in MineValues
                            /\ open[i].triggers \subseteq Record
                            /\ Len(open[i].cambi) <= Len(cambi)

\* The tables there are.
Stored(v) == IF v = 2 THEN Record ELSE Record \ Late

CaptureInit ==
  /\ rows = [r \in Record |-> Absent] /\ told = rows
  /\ history = [r \in Record |-> Empty] /\ mine = history
  /\ schema = 1 /\ versioni = 0 /\ triggers = {} /\ attiva = FALSE /\ cambi = <<>>
  /\ open = <<>>

-----------------------------------------------------------------------------
\* Mutant: the triggers fire for every write.
CapturedAlways(r) == r \in triggers

\* The triggers fire in an open session only.
Captured(r) == attiva /\ r \in triggers

\* allinea: nothing to do while the schema is the one of the last time.
Aligned == versioni = schema

\* One statement on one record, as the triggers see it: was is the old record.
Statement(r, v, was) ==
  /\ v # Absent \/ rows[r] # Absent
  /\ rows' = [rows EXCEPT ![r] = v]
  /\ cambi' = IF ~Captured(r) THEN cambi
              ELSE Append(cambi, [record |-> r, prima |-> was, dopo |-> v,
                                  azione |-> CASE v = Absent   -> "DELETE"
                                               [] was = Absent -> "INSERT"
                                               [] OTHER        -> "UPDATE"])

\* traccia, up to the call: only the outermost operation opens a session.
OpenOperation ==
  /\ Len(open) < MaxDepth
  /\ versioni' = schema
  /\ triggers' = IF Aligned THEN triggers ELSE Stored(schema)
  /\ open' = Append(open, [rows |-> rows, triggers |-> triggers',
                           cambi |-> cambi, history |-> history, mine |-> mine])
  /\ attiva' = (attiva \/ open = <<>>)
  /\ UNCHANGED <<rows, schema, cambi, history, told, mine>>

\* The application changes a record.
Changes(r, v, was) ==
  /\ open # <<>> /\ Len(cambi) < MaxChanges
  /\ r \in Stored(schema)
  /\ Statement(r, v, was)
  /\ mine' = [mine EXCEPT ![r] = IF v = Absent \/ Field(was) # v THEN Field(v)
                                 ELSE IF Field(rows[r]) = v THEN @ ELSE Unlogged]
  /\ UNCHANGED <<schema, versioni, triggers, attiva, open, history, told>>

\* esegui of an insert, an update, a deletion or an upsert
WriteRecord(r, v) == Changes(r, v, rows[r])

\* esegui of INSERT OR REPLACE: without recursive_triggers the record that is
\* replaced fires none, and the triggers see an insert.
ReplaceRecord(r, v) == {v, rows[r]} \cap {Absent} = {} /\ Changes(r, v, Absent)

\* vociDi: an entry for the record that goes, or for the field that changes.
Recorded(h, c) ==
  IF c.azione # "DELETE" /\ Field(c.prima) = Field(c.dopo) THEN h
  ELSE [h EXCEPT ![c.record] = Field(c.dopo)]

\* inoltra: a deletion is passed on as it is, any other change as the record is
\* now; a record that is gone is passed on by its deletion.
Forwarded(t, c) ==
  IF c.azione # "DELETE" /\ rows[c.record] = Absent THEN t
  ELSE [t EXCEPT ![c.record] = IF c.azione = "DELETE" THEN Absent ELSE rows[c.record]]

\* Mutant: an operation inside another one takes its changes at its own end.
ExtractsAtOnce(level) == TRUE

\* The changes are taken out of the log at the end of the outermost operation.
Extracts(level) == level = 1

\* traccia, when the call returns.
CloseOperation ==
  /\ open # <<>>
  /\ open' = Front(open)
  /\ IF Extracts(Len(open))
     THEN /\ history' = FoldLeft(Recorded, history, cambi)
          /\ told' = FoldLeft(Forwarded, told, cambi)
          /\ cambi' = <<>>
     ELSE UNCHANGED <<history, told, cambi>>
  /\ attiva' = (Len(open) # 1)
  /\ UNCHANGED <<rows, schema, versioni, triggers, mine>>

\* annullaPuntoDiRipristino: the temporary tables go back as well.
Restored(s) ==
  /\ rows' = s.rows /\ triggers' = s.triggers /\ history' = s.history /\ cambi' = s.cambi

\* traccia, when the call throws; the operation around it may catch the error.
FailOperation ==
  /\ open # <<>>
  /\ Restored(Last(open))
  /\ mine' = Last(open).mine
  /\ open' = Front(open)
  /\ attiva' = (Len(open) # 1)
  /\ UNCHANGED <<schema, versioni, told>>

\* A block of another node changes the table (RowReplication says which do).
RemoteWrite(r, v) ==
  /\ open = <<>> /\ r \in Stored(schema)
  /\ Len(cambi) < MaxChanges
  /\ Statement(r, v, rows[r])
  /\ told' = [told EXCEPT ![r] = v]
  /\ UNCHANGED <<schema, versioni, triggers, attiva, open, history, mine>>

\* applicaMigrazioniPendenti: the archive in use is migrated.
MigrateArchive ==
  /\ open = <<>> /\ schema = 1 /\ schema' = 2
  /\ UNCHANGED <<rows, versioni, triggers, attiva, cambi, open, history, told, mine>>

\* The archive is closed and opened again: a new object, without what was
\* temporary in the old one.
ReopenArchive ==
  /\ open = <<>>
  /\ versioni' = 0 /\ triggers' = {} /\ attiva' = FALSE /\ cambi' = <<>>
  /\ UNCHANGED <<rows, schema, open, history, told, mine>>

CaptureNext ==
  \/ OpenOperation \/ CloseOperation \/ FailOperation
  \/ \E r \in Record, v \in Content \cup {Absent, Empty} :
       WriteRecord(r, v) \/ ReplaceRecord(r, v) \/ RemoteWrite(r, v)
  \/ MigrateArchive \/ ReopenArchive

-----------------------------------------------------------------------------
\* Between operations the history of a record is the one of the changes that
\* applications made to it and that took effect: those of a failed operation
\* leave nothing, those of other nodes are not taken for changes made here,
\* whatever the nesting, the migrations and the reloads (CHANGELOG.md:37, 43).
\* The exception is a field that INSERT OR REPLACE emptied: it leaves no entry.
HistoryTellsChanges ==
  open = <<>> => \A r \in Record : mine[r] \in {history[r], Unlogged}

\* Between operations the last block of every record tells the record as it
\* is: nothing is passed on too early, twice out of order, or not at all.
BlocksTellRows == open = <<>> => told = rows

CaptureSpec == CaptureInit /\ [][CaptureNext]_captureVars
=============================================================================
