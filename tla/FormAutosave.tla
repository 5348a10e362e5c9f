----------------------------- MODULE FormAutosave -----------------------------
(***************************************************************************)
(* A form that saves by itself (sdk/v2/modulo/: k_modulo.js and its queue  *)
(* coda_salvataggio.js).  The user types and leaves fields, a timer starts *)
(* a save, the application (its onSalva) writes the record and answers, or *)
(* refuses; other callers flush the queue: a submit, which waits for it to *)
(* be empty, and the removal of the form from the page.                    *)
(*                                                                         *)
(* The application is external: it creates a record with all the values,   *)
(* and of a record that exists it updates the fields it is given.  It may  *)
(* hand the form another record at any time: nothing looks for a save      *)
(* under way, whose answer then goes to the new record (mixed).            *)
(***************************************************************************)
EXTENDS Naturals, Sequences, FiniteSets, SequencesExt

CONSTANTS Campo,        \* the fields
          Required,     \* those that may not be left empty
          Text,         \* what may be typed and is accepted
          MaxEdits,     \* edits (a bound)
          MaxOpened     \* records the form is given (a bound)

ASSUME FormAssumption == /\ Required \subseteq Campo
                         /\ MaxEdits \in Nat /\ MaxOpened \in Nat \ {0}

VARIABLES typed,     \* what the fields show
          stato,     \* the state shown at each field
          inAttesa,  \* the queue: fields to be saved
          timer,     \* it is armed
          corrente,  \* saves that have not ended, each with its fields and values
          waiting,   \* a flush waits for the save under way
          draining,  \* a submit waits for the queue to be empty
          id,        \* of the record in the form, 0 for one that is not there yet
          records,   \* of the application
          blanks,    \* forms opened for a new record
          edits,     \* so far
          opened,    \* records given to the form so far
          mixed      \* the record was given to the form during a save (ghost)

formVars == <<typed, stato, inAttesa, timer, corrente, waiting, draining, id, records,
              blanks, edits, opened, mixed>>

Blank == "blank"
Wrong == "wrong"   \* what no field accepts
Typed == [Campo -> Text \cup {Blank, Wrong}]

\* "valido" is the "ok" that valida() sets at a submit: it says that what is
\* typed is acceptable, and looks the same as the one of a save.
Stato == {"none", "ok", "valido", "errore", "salvataggio", "attesa"}

\* A save is of the record that the form had when it began, 0 for a new one.
SaveOf == [campi : SUBSET Campo, valori : Typed, record : Nat, done : BOOLEAN]

FormTypeOK ==
  /\ typed \in Typed /\ stato \in [Campo -> Stato]
  /\ inAttesa \subseteq Campo /\ corrente \subseteq SaveOf
  /\ {timer, waiting, draining, mixed} \subseteq BOOLEAN
  /\ \A v \in corrente : v.record <= Len(records)
  /\ \A i \in DOMAIN records : records[i] \in Typed
  /\ id \in 0..Len(records)
  /\ edits \in 0..MaxEdits /\ opened \in 1..MaxOpened /\ blanks \in 0..opened

FormInit ==
  /\ typed = [c \in Campo |-> Blank] /\ stato = [c \in Campo |-> "none"]
  /\ inAttesa = {} /\ timer = FALSE /\ corrente = {}
  /\ waiting = FALSE /\ draining = FALSE
  /\ id = 0 /\ records = <<>> /\ blanks = 1 /\ edits = 0 /\ opened = 1
  /\ mixed = FALSE

\* erroreCampo
Invalid(c, v) == v = Wrong \/ (v = Blank /\ c \in Required)
Errori == {c \in Campo : Invalid(c, typed[c])}

Marked(s, S, value) == [c \in Campo |-> IF c \in S THEN value ELSE s[c]]

-----------------------------------------------------------------------------
\* _salvaLotto, up to the call of onSalva: the state of the fields and the save
\* it starts, if any, from what the fields show now.
SalvaLotto(lotto, s, record) ==
  LET nomi     == lotto \cup {c \in Campo : s[c] = "attesa"}
      validi   == nomi \ Errori
      refused  == Marked(s, nomi \cap Errori, "errore")
      deferred == validi = {} \/ (record = 0 /\ Errori # {})
  IN  IF deferred THEN [stato |-> refused, saves |-> {}]
      ELSE [stato |-> Marked(refused, validi, "salvataggio"),
            saves |-> {[campi |-> validi, valori |-> typed, record |-> record,
                        done |-> FALSE]}]

\* A submit ends when nothing is left to save: valida() then shows each field as
\* what is typed in it deserves.
Validated ==
  [c \in Campo |-> CASE c \in Errori        -> "errore"
                     [] typed[c] = Blank    -> "none"
                     [] OTHER               -> "valido"]

\* Mutant: a flush does not wait for the save under way.
BusyNever(saves) == FALSE

Busy(saves) == saves # {}

\* Mutant: the answer of a save ends the flush that was waiting for it.
ResumesNever == FALSE

\* After a save the flush that was waiting goes on, and so does a submit.
Resumes == waiting \/ draining

\* svuota: what is in the queue is taken at once; when a save is under way the
\* caller waits for it first.  s, record and saves are those of the moment.
TakeQueue(s, record, saves, q, submit) ==
  IF Busy(saves)
  THEN /\ waiting' = (waiting \/ ~submit) /\ draining' = (draining \/ submit)
       /\ inAttesa' = q /\ corrente' = saves /\ stato' = s
  ELSE LET b == IF q = {} THEN [stato |-> s, saves |-> {}] ELSE SalvaLotto(q, s, record)
           drained == submit /\ b.saves = {}
       IN /\ inAttesa' = {} /\ waiting' = FALSE
          /\ corrente' = saves \cup b.saves
          /\ draining' = (submit /\ ~drained)
          /\ stato' = IF drained THEN Validated ELSE b.stato

\* _suModifica: the user types, or leaves the field, which confirms it.
EditField(c, v, confermata) ==
  /\ edits < MaxEdits /\ edits' = edits + 1
  /\ confermata \/ v # typed[c]
  /\ typed' = [typed EXCEPT ![c] = v]
  /\ IF Invalid(c, v)
     THEN /\ stato' = IF confermata THEN [stato EXCEPT ![c] = "errore"] ELSE stato
          /\ UNCHANGED <<inAttesa, timer>>
     ELSE /\ stato' = [stato EXCEPT ![c] = "attesa"]
          /\ inAttesa' = inAttesa \cup {c} /\ timer' = TRUE
  /\ UNCHANGED <<corrente, waiting, draining, id, records, blanks, opened, mixed>>

TimerFires ==
  /\ timer /\ timer' = FALSE
  /\ TakeQueue(stato, id, corrente, inAttesa, FALSE)
  /\ UNCHANGED <<typed, id, records, blanks, edits, opened, mixed>>

\* disconnectedCallback
FormRemoved ==
  /\ timer' = FALSE
  /\ TakeQueue(stato, id, corrente, inAttesa, FALSE)
  /\ UNCHANGED <<typed, id, records, blanks, edits, opened, mixed>>

\* _invia: every field is put in the queue, then attendi.
SubmitForm ==
  /\ edits < MaxEdits /\ edits' = edits + 1
  /\ timer' = Busy(corrente)
  /\ TakeQueue(stato, id, corrente, Campo, TRUE)
  /\ UNCHANGED <<typed, id, records, blanks, opened, mixed>>

\* The application writes the record.
RecordWritten(v) ==
  /\ ~v.done
  /\ corrente' = (corrente \ {v}) \cup {[v EXCEPT !.done = TRUE]}
  /\ records' = IF v.record = 0 THEN Append(records, v.valori)
                ELSE [records EXCEPT ![v.record] =
                        [c \in Campo |-> IF c \in v.campi THEN v.valori[c] ELSE @[c]]]
  /\ UNCHANGED <<typed, stato, inAttesa, timer, waiting, draining, id, blanks, edits, opened, mixed>>

\* The end of a save, and in the same turn of the event loop what waits for it:
\* attendi clears the timer when it is the one that takes the queue.
SaveEnded(v, s, record) ==
  IF Resumes
  THEN /\ TakeQueue(s, record, corrente \ {v}, inAttesa, draining)
       /\ \/ timer' = timer /\ (waiting \/ inAttesa = {})
          \/ timer' = FALSE /\ draining /\ inAttesa # {}
  ELSE /\ stato' = s /\ corrente' = corrente \ {v} /\ waiting' = FALSE
       /\ UNCHANGED <<inAttesa, timer, draining>>

\* The id of a new record goes to what the form shows by now.
SaveAnswered(v) ==
  /\ v.done
  /\ id' = IF v.record = 0 THEN Len(records) ELSE id
  /\ SaveEnded(v, Marked(stato, v.campi, "ok"), id')
  /\ UNCHANGED <<typed, records, blanks, edits, opened, mixed>>

\* onSalva throws: nothing was written.
SaveRefused(v) ==
  /\ ~v.done
  /\ SaveEnded(v, Marked(stato, v.campi, "errore"), id)
  /\ UNCHANGED <<typed, id, records, blanks, edits, opened, mixed>>

\* The form is given another record, or an empty one: it is drawn again, and
\* edits that were not saved are gone.  A save under way goes on.
SetValori(r) ==
  /\ opened < MaxOpened /\ opened' = opened + 1
  /\ id' = r
  /\ blanks' = IF r = 0 THEN blanks + 1 ELSE blanks
  /\ typed' = IF r = 0 THEN [c \in Campo |-> Blank] ELSE records[r]
  /\ stato' = [c \in Campo |-> "none"]
  /\ inAttesa' = {} /\ timer' = FALSE
  /\ mixed' = (corrente # {})
  /\ UNCHANGED <<corrente, waiting, draining, records, edits>>

SaveMoves == \E v \in corrente : RecordWritten(v) \/ SaveAnswered(v) \/ SaveRefused(v)

FormNext ==
  \/ \E c \in Campo, v \in Text \cup {Blank, Wrong}, confermata \in BOOLEAN :
       EditField(c, v, confermata)
  \/ TimerFires \/ FormRemoved \/ SubmitForm
  \/ SaveMoves
  \/ \E r \in 0..Len(records) : SetValori(r)

FormSpec == /\ FormInit /\ [][FormNext]_formVars
            /\ WF_formVars(TimerFires)
            /\ WF_formVars(SaveMoves)

-----------------------------------------------------------------------------
\* When nothing is left to save, a field that a save showed as saved, and that
\* is not being mistyped, is in the record as it is typed (docs/
\* TASK_ENTERPRISE.md:49, "salvataggi in coda senza sovrapposizioni"), unless the
\* form was given its record while another was being saved: then it shows marks,
\* and may have the id, of the other one.  With or without that, no form makes a
\* second record, however many flushes, refusals and edits there were.
QuietFormIsSaved ==
  /\ corrente = {} /\ inAttesa = {} /\ ~mixed =>
       \A c \in Campo : stato[c] = "ok" /\ ~Invalid(c, typed[c])
                          => id # 0 /\ records[id][c] = typed[c]
  /\ Len(records) <= blanks

\* An edit that waits is saved or refused, unless another field keeps the form
\* from being saved: the queue never holds an edit that nothing will take.
EditsAreSettled ==
  \A c \in Campo : []<>(stato[c] \notin {"attesa", "salvataggio"} \/ Errori # {})
=============================================================================
