-------------------------- MODULE ApplicationProofs --------------------------
(***************************************************************************)
(* Proofs about one application: its runtime (AppRuntime), for any loads   *)
(* and restarts; the form of its SDK (FormAutosave), for any fields and    *)
(* texts; the assistant that calls its tools (AssistantLoop), for any      *)
(* questions, tools and limits; its versions on the disk and in the        *)
(* registry (AppStore), for any operations, versions and attempts; and the *)
(* applications it needs (AppDependencies), for any marketplace.           *)
(*                                                                         *)
(* Runtime: what is not loaded has nothing of its own but the job of an    *)
(* activation that goes on (Forgotten).  Form: what a field shows as saved *)
(* is in the record, or is what a save under way will write (Shown, Fits), *)
(* and the records are those the form was given and those that its saves   *)
(* made (Counted).  Assistant: of every tool, the calls left and the       *)
(* calls allowed are the same number (Book).  Store: until something       *)
(* disturbs them operations come one at a time, and each finds at its      *)
(* places what it left (Phase, Sound); a busy lock has a holder, disturbed *)
(* or not.  Dependencies: the visit that makes a plan exists and puts      *)
(* every application after what it needs (VisitIs, PlanInOrder), and plans *)
(* that are carried out together keep that order (Ready, Fresh, Kept).     *)
(***************************************************************************)
EXTENDS AppRuntime, AppStore, FormAutosave, AssistantLoop, AppDependencies, Extrema,
        SequenceTheorems, FiniteSetTheorems, TLAPS

-----------------------------------------------------------------------------
\* AppRuntime

\* An application that is not loaded has nothing of its own but the jobs of an
\* activation that goes on; and no restart waits for it, unless left behind.
Forgotten ==
  ~appLoaded /\ ~residue => /\ worker = NoWorker /\ timers = 0 /\ ~granted.handlers
                            /\ job.scheduled => loads.activating > 0

RuntimeInv == /\ RuntimeTypeOK /\ loads.database + loads.activating <= MaxLoads
              /\ Live \subseteq {worker.process} /\ Forgotten

\* A process that is started is the one of the entry, and the only one.
LEMMA StartedAlone ==
  ASSUME RuntimeInv, StartWorker
  PROVE  /\ child' \in [Child -> {"none", "live", "killed"}]
         /\ worker' \in [process : Child \cup {NoChild}, restarts : 0..MaxRestarts]
         /\ Live' \subseteq {worker.process}'
<1>1. PICK c \in Child : /\ child' = [Stopped EXCEPT ![c] = "live"]
                         /\ worker' = [process |-> c, restarts |-> 0]
                         /\ c # worker.process
  BY DEF StartWorker
<1>2. Stopped \in [Child -> {"none", "live", "killed"}]
  BY DEF RuntimeInv, RuntimeTypeOK, Stopped
<1>3. \A x \in Child : Stopped[x] # "live"
  BY DEF RuntimeInv, RuntimeTypeOK, Stopped, Live
<1>4. 0 \in 0..MaxRestarts  BY RuntimeAssumption
<1> QED BY <1>1, <1>2, <1>3, <1>4 DEF Live

LEMMA ExitKeepsRuntime ==
  ASSUME RuntimeInv, NEW c \in Child, Exit(c)
  PROVE  RuntimeInv'
<1> USE DEF RuntimeInv, RuntimeTypeOK
<1>1. PICK crashed \in BOOLEAN :
        /\ timers' = IF Restarts(c, crashed) THEN timers + 1 ELSE timers
        /\ worker' = CASE Restarts(c, crashed) -> [worker EXCEPT !.restarts = @ + 1]
                       [] worker.process = c /\ ~Restarts(c, crashed) -> NoWorker
                       [] OTHER -> worker
  BY DEF Exit
<1>2. child' = [child EXCEPT ![c] = "none"] /\ timers' <= MaxTimers
      /\ UNCHANGED <<kind, appLoaded, loads, granted, job, oldRuns, residue>>
  BY DEF Exit, jobVars
<1>3. Live' = Live \ {c}
  BY <1>2 DEF Live
<1>4. CASE Restarts(c, crashed)
  <2>1. worker' = [worker EXCEPT !.restarts = @ + 1] /\ timers' = timers + 1
    BY <1>1, <1>4
  <2>2. worker.process = c /\ worker.restarts < MaxRestarts
    BY <1>4 DEF Restarts
  <2>3. /\ worker' \in [process : Child \cup {NoChild}, restarts : 0..MaxRestarts]
        /\ worker'.process = worker.process
    BY <2>1, <2>2, RuntimeAssumption
  <2>4. appLoaded \/ residue
    BY <2>2, RuntimeAssumption DEF Forgotten, NoWorker
  <2>5. timers' \in 0..MaxTimers  BY <2>1, <1>2, RuntimeAssumption
  <2> QED BY <1>2, <1>3, <2>3, <2>4, <2>5 DEF Forgotten
<1>5. CASE ~Restarts(c, crashed)
  <2>1. timers' = timers  BY <1>1, <1>5
  <2>2. worker' = IF worker.process = c THEN NoWorker ELSE worker
    BY <1>1, <1>5
  <2>3. worker' \in [process : Child \cup {NoChild}, restarts : 0..MaxRestarts]
    BY <2>2, RuntimeAssumption DEF NoWorker
  <2>4. Live' \subseteq {worker'.process}
    BY <1>3, <2>2
  <2> QED BY <1>2, <2>1, <2>2, <2>3, <2>4 DEF Forgotten
<1> QED BY <1>4, <1>5

LEMMA JobsKeepType ==
  ASSUME RuntimeInv, Schedule \/ Cancel \/ UNCHANGED jobVars
  PROVE  job' \in [scheduled : BOOLEAN, busy : BOOLEAN] /\ oldRuns' \in 0..MaxLoads
<1> USE RuntimeAssumption DEF RuntimeInv, RuntimeTypeOK
<1>1. CASE Schedule
  <2>1. oldRuns' \in Nat /\ oldRuns' <= MaxLoads  BY <1>1 DEF Schedule
  <2>2. job' = [scheduled |-> TRUE, busy |-> FALSE]  BY <1>1 DEF Schedule
  <2> QED BY <2>1, <2>2
<1>2. CASE Cancel
  <2>1. oldRuns' \in Nat /\ oldRuns' <= MaxLoads  BY <1>2 DEF Cancel
  <2>2. job' = NoJob  BY <1>2 DEF Cancel
  <2> QED BY <2>1, <2>2 DEF NoJob
<1>3. CASE UNCHANGED jobVars  BY <1>3 DEF jobVars
<1> QED BY <1>1, <1>2, <1>3

LEMMA StepKeepsRuntime == RuntimeInv /\ [RuntimeNext]_runtimeVars => RuntimeInv'
<1> SUFFICES ASSUME RuntimeInv, [RuntimeNext]_runtimeVars PROVE RuntimeInv'  OBVIOUS
<1> USE RuntimeAssumption DEF RuntimeInv, RuntimeTypeOK
<1>1. ASSUME NEW c \in Child, Exit(c) PROVE RuntimeInv'
  BY <1>1, ExitKeepsRuntime
<1>2. CASE RestartFires
  <2>1. StartWorker  BY <1>2 DEF RestartFires
  <2>2. appLoaded \/ residue  BY <1>2 DEF RestartFires, Forgotten
  <2> QED BY <1>2, <2>1, <2>2, StartedAlone DEF RestartFires, jobVars, Forgotten
<1>3. CASE Minute
  BY <1>3 DEF Minute, workerVars, Forgotten, Live
<1>4. CASE JobEnds
  <2>1. /\ job' \in [scheduled : BOOLEAN, busy : BOOLEAN] /\ job'.scheduled = job.scheduled
        /\ oldRuns' \in 0..MaxLoads
    <3>1. CASE job.busy /\ job' = [job EXCEPT !.busy = FALSE] /\ UNCHANGED oldRuns  BY <3>1
    <3>2. CASE oldRuns > 0 /\ oldRuns' = oldRuns - 1 /\ UNCHANGED job  BY <3>2
    <3> QED BY <1>4, <3>1, <3>2 DEF JobEnds
  <2>2. UNCHANGED <<kind, appLoaded, loads, child, worker, timers, granted, residue>>
    BY <1>4 DEF JobEnds, workerVars
  <2> QED BY <2>1, <2>2 DEF Forgotten, Live
<1>5. CASE Load
  <2>1. Live' = Live  BY <1>5 DEF Load, workerVars, Live
  <2>2. /\ loads' \in [database : 0..MaxLoads, activating : 0..MaxLoads]
        /\ loads'.database + loads'.activating <= MaxLoads
        /\ loads'.activating = loads.activating
    BY <1>5 DEF Load
  <2> QED BY <1>5, <2>1, <2>2 DEF Load, workerVars, jobVars, Forgotten
<1>6. CASE LoadWorker
  <2>1. StartWorker  BY <1>6 DEF LoadWorker
  <2> QED BY <1>6, <2>1, StartedAlone DEF LoadWorker, jobVars, Forgotten
<1>7. CASE Activate
  <2>1. Live' = Live  BY <1>7 DEF Activate, workerVars, Live
  <2>2. /\ job' \in [scheduled : BOOLEAN, busy : BOOLEAN]
        /\ oldRuns' \in 0..MaxLoads
    BY <1>7, JobsKeepType DEF Activate
  <2>3. /\ loads'.activating > 0 /\ loads' \in [database : 0..MaxLoads, activating : 0..MaxLoads]
        /\ loads'.database + loads'.activating <= MaxLoads
    BY <1>7 DEF Activate
  <2> QED BY <1>7, <2>1, <2>2, <2>3 DEF Activate, workerVars, Forgotten
<1>8. CASE Activated
  <2>1. Live' = Live  BY <1>8 DEF Activated, workerVars, Live
  <2>2. /\ job' \in [scheduled : BOOLEAN, busy : BOOLEAN]
        /\ oldRuns' \in 0..MaxLoads
    BY <1>8, JobsKeepType DEF Activated
  <2>3. /\ appLoaded' = TRUE /\ granted' = [granted EXCEPT !.handlers = TRUE]
        /\ UNCHANGED <<kind, child, worker, timers, residue>>
    BY <1>8 DEF Activated, workerVars
  <2>4. /\ loads' \in [database : 0..MaxLoads, activating : 0..MaxLoads]
        /\ loads'.database + loads'.activating <= MaxLoads
    BY <1>8 DEF Activated
  <2>5. RuntimeTypeOK'  BY <2>2, <2>3, <2>4
  <2>6. Forgotten'  BY <2>3 DEF Forgotten
  <2> QED BY <2>1, <2>3, <2>4, <2>5, <2>6
<1>9. CASE ActivationFails
  BY <1>9 DEF ActivationFails, workerVars, jobVars, Forgotten, Live
<1>10. CASE Unload
  <2>1. Live' = {}  BY <1>10 DEF Unload, Stopped, Live
  <2>2. /\ job' = NoJob /\ oldRuns' \in 0..MaxLoads
    BY <1>10, JobsKeepType DEF Unload, Cancel
  <2>3. child' \in [Child -> {"none", "live", "killed"}]
    BY <1>10 DEF Unload, Stopped
  <2>4. /\ worker' = NoWorker /\ granted' = [token |-> FALSE, handlers |-> FALSE]
        /\ appLoaded' = FALSE /\ residue' = (timers > 0)
        /\ UNCHANGED <<kind, loads, timers>>
    BY <1>10 DEF Unload
  <2>5. NoWorker \in [process : Child \cup {NoChild}, restarts : 0..MaxRestarts]
        /\ NoJob \in [scheduled : BOOLEAN, busy : BOOLEAN] /\ ~NoJob.scheduled
    BY DEF NoWorker, NoJob
  <2>6. RuntimeTypeOK'
    <3>1. residue' \in BOOLEAN
      <4>1. CASE timers > 0  BY ONLY <2>4, <4>1
      <4>2. CASE ~(timers > 0)  BY ONLY <2>4, <4>2
      <4> QED BY <4>1, <4>2
    <3>3. appLoaded' \in BOOLEAN /\ granted' \in [token : BOOLEAN, handlers : BOOLEAN]
      BY ONLY <2>4
    <3>2. /\ worker' \in [process : Child \cup {NoChild}, restarts : 0..MaxRestarts]
          /\ job' \in [scheduled : BOOLEAN, busy : BOOLEAN]
      BY ONLY <2>2, <2>4, <2>5
    <3> QED BY <2>2, <2>3, <2>4, <3>1, <3>2, <3>3
  <2>7. Forgotten'
    BY <2>2, <2>4, <2>5 DEF Forgotten
  <2> QED BY <2>1, <2>4, <2>6, <2>7
<1>11. CASE UNCHANGED runtimeVars
  BY <1>11 DEF runtimeVars, Forgotten, Live
<1> QED BY <1>1, <1>2, <1>3, <1>4, <1>5, <1>6, <1>7, <1>8, <1>9, <1>10, <1>11
        DEF RuntimeNext

LEMMA RuntimeHolds == RuntimeSpec => []RuntimeInv
<1>1. RuntimeInit => RuntimeInv
  <2> SUFFICES ASSUME RuntimeInit PROVE RuntimeInv  OBVIOUS
  <2>1. RuntimeTypeOK
    <3>1. child \in [Child -> {"none", "live", "killed"}]  BY DEF RuntimeInit
    <3>2. /\ worker = NoWorker /\ job = NoJob /\ timers = 0 /\ oldRuns = 0
          /\ loads = [database |-> 0, activating |-> 0]
          /\ granted = [token |-> FALSE, handlers |-> FALSE]
          /\ kind \in {"worker", "direct"} /\ appLoaded = FALSE /\ residue = FALSE
      BY DEF RuntimeInit
    <3>3. 0 \in 0..MaxLoads /\ 0 \in 0..MaxTimers /\ 0 \in 0..MaxRestarts
      BY RuntimeAssumption
    <3> QED BY <3>1, <3>2, <3>3 DEF RuntimeTypeOK, NoWorker, NoJob
  <2>2. Live = {}  BY DEF RuntimeInit, Live
  <2>3. loads.database + loads.activating <= MaxLoads /\ Forgotten
    BY RuntimeAssumption DEF RuntimeInit, Forgotten, NoWorker, NoJob
  <2> QED BY <2>1, <2>2, <2>3 DEF RuntimeInv
<1> QED BY <1>1, StepKeepsRuntime, PTL DEF RuntimeSpec

\* Every variable of AppRuntime keeps its type.
THEOREM RuntimeTypes == RuntimeSpec => []RuntimeTypeOK
<1>1. RuntimeInv => RuntimeTypeOK  BY DEF RuntimeInv
<1> QED BY <1>1, RuntimeHolds, PTL

\* An application that is neither loaded nor being loaded has left no process, no
\* handler and no job, and no process runs that the host does not know (unloadApp
\* of AppLoader.js, appWorkerHost.js): for any number of processes, of loads that
\* overlap and of restarts.
THEOREM NothingIsLeft == RuntimeSpec => []UnloadedLeavesNothing
<1>1. RuntimeInv => UnloadedLeavesNothing
  <2> SUFFICES ASSUME RuntimeInv PROVE UnloadedLeavesNothing  OBVIOUS
  <2> USE RuntimeAssumption DEF RuntimeInv, RuntimeTypeOK, Forgotten, Loading
  <2>1. ~appLoaded /\ ~residue => Live = {}
    BY DEF NoWorker, Live
  <2>2. ~Loading => loads.activating = 0
    OBVIOUS
  <2> QED BY <2>1, <2>2 DEF UnloadedLeavesNothing
<1> QED BY <1>1, RuntimeHolds, PTL

-----------------------------------------------------------------------------
\* FormAutosave

\* What a field shows as saved, and is not in the queue q, is in the record, unless
\* the record was given to the form during a save.
Shown(t, rs, s, q, record) ==
  mixed \/ \A c \in Campo : s[c] = "ok" =>
             /\ record # 0
             /\ c \notin q /\ ~Invalid(c, t[c]) => rs[record][c] = t[c]

\* A save v saves what the fields outside of the queue show; once it is done that
\* is in the record.
Fits(t, rs, v, q, record) ==
  mixed \/ /\ v.record = record
           /\ \A c \in v.campi : c \notin q /\ ~Invalid(c, t[c]) => v.valori[c] = t[c]
           /\ v.done => LET r == IF v.record = 0 THEN Len(rs) ELSE record
                        IN  r # 0 /\ \A c \in v.campi : rs[r][c] = v.valori[c]

FormGood(t, rs, s, q, saves, record) ==
  /\ s \in [Campo -> Stato] /\ q \subseteq Campo /\ saves \subseteq SaveOf
  /\ \A v, w \in saves : v = w
  /\ Shown(t, rs, s, q, record)
  /\ \A v \in saves : Fits(t, rs, v, q, record)

\* A form without a record has one less than the forms that were opened for one,
\* until its first save has made it, whatever the form shows by then.
Counted(n, opening, saves, record) ==
  /\ n <= opening
  /\ \A v \in saves : v.record <= n /\ (v.record = 0 /\ v.done => n # 0)
  /\ \A v \in saves : v.record = 0 /\ ~v.done => n < opening
  /\ record = 0 /\ (\A v \in saves : v.record = 0 => ~v.done) => n < opening

FormShape ==
  /\ typed \in Typed /\ records \in Seq(Typed) /\ id \in 0..Len(records)
  /\ {timer, waiting, draining, mixed} \subseteq BOOLEAN
  /\ edits \in 0..MaxEdits /\ opened \in 1..MaxOpened /\ blanks \in 0..opened

FormInv == /\ FormShape /\ FormGood(typed, records, stato, inAttesa, corrente, id)
           /\ Counted(Len(records), blanks, corrente, id)

-----------------------------------------------------------------------------
\* A lot that is saved: what it shows and the save it starts fit.
LEMMA LotGood ==
  ASSUME FormShape, NEW s, NEW q \in SUBSET Campo, NEW lotto \in SUBSET Campo,
         NEW record \in 0..Len(records), q \subseteq lotto,
         FormGood(typed, records, s, q, {}, record)
  PROVE  FormGood(typed, records, SalvaLotto(lotto, s, record).stato, {},
                  SalvaLotto(lotto, s, record).saves, record)
<1> DEFINE nomi     == lotto \cup {c \in Campo : s[c] = "attesa"}
           validi   == nomi \ Errori
           refused  == Marked(s, nomi \cap Errori, "errore")
           deferred == validi = {} \/ (record = 0 /\ Errori # {})
           marked   == Marked(refused, validi, "salvataggio")
           save     == [campi |-> validi, valori |-> typed, record |-> record,
                        done |-> FALSE]
           b        == SalvaLotto(lotto, s, record)
<1>1. b = IF deferred THEN [stato |-> refused, saves |-> {}]
          ELSE [stato |-> marked, saves |-> {save}]
  BY DEF SalvaLotto
<1>2. s \in [Campo -> Stato] /\ Shown(typed, records, s, q, record)  BY DEF FormGood
<1>3. refused \in [Campo -> Stato] /\ marked \in [Campo -> Stato]
  BY <1>2 DEF Marked, Stato
<1>4. \A c \in Campo : /\ refused[c] = "ok" => s[c] = "ok" /\ (c \in nomi => c \notin Errori)
                       /\ marked[c] = "ok" => refused[c] = "ok" /\ c \notin validi
  BY <1>2 DEF Marked, Stato
<1>5. \A c \in Campo : c \in Errori <=> Invalid(c, typed[c])  BY DEF Errori
<1>6. CASE deferred
  <2>1. b.stato = refused /\ b.saves = {}  BY <1>1, <1>6
  <2>2. ASSUME ~mixed, NEW c \in Campo, refused[c] = "ok"
        PROVE  record # 0 /\ (~Invalid(c, typed[c]) => records[record][c] = typed[c])
    <3>1. s[c] = "ok" /\ record # 0  BY <1>2, <1>4, <2>2 DEF Shown
    <3>2. validi = {}  BY <1>6, <3>1
    <3>3. c \in q => Invalid(c, typed[c])  BY <3>2, <1>5
    <3> QED BY <1>2, <2>2, <3>1, <3>3 DEF Shown
  <2>3. Shown(typed, records, refused, {}, record)  BY <2>2 DEF Shown
  <2> QED BY <1>3, <2>1, <2>3 DEF FormGood
<1>7. CASE ~deferred
  <2>1. b.stato = marked /\ b.saves = {save}  BY <1>1, <1>7
  <2>2. save \in SaveOf
    BY LenProperties DEF SaveOf, FormShape
  <2>3. ASSUME ~mixed, NEW c \in Campo, marked[c] = "ok"
        PROVE  record # 0 /\ (~Invalid(c, typed[c]) => records[record][c] = typed[c])
    <3>1. s[c] = "ok" /\ record # 0 /\ c \notin validi  BY <1>2, <1>4, <2>3 DEF Shown
    <3>2. c \in q => Invalid(c, typed[c])  BY <3>1, <1>5
    <3> QED BY <1>2, <2>3, <3>1, <3>2 DEF Shown
  <2>4. Shown(typed, records, marked, {}, record)  BY <2>3 DEF Shown
  <2>5. Fits(typed, records, save, {}, record)
    BY DEF Fits
  <2> HIDE DEF save, marked, b
  <2>6. /\ \A v, w \in b.saves : v = w
        /\ \A v \in b.saves : Fits(typed, records, v, {}, record)
        /\ b.saves \subseteq SaveOf
    BY <2>1, <2>2, <2>5
  <2>8. FormGood(typed, records, b.stato, {}, b.saves, record)
    BY <1>3, <2>1, <2>4, <2>6 DEF FormGood
  <2> QED BY <2>8 DEF b
<1> QED BY <1>6, <1>7

\* The queue is taken, or left to the save under way.
LEMMA QueueTaken ==
  ASSUME FormShape, NEW s, NEW record \in 0..Len(records), NEW saves, NEW submit \in BOOLEAN,
         FormGood(typed, records, s, inAttesa, saves, record),
         Counted(Len(records), blanks, saves, record),
         NEW q \in {inAttesa, Campo}, TakeQueue(s, record, saves, q, submit)
  PROVE  /\ FormGood(typed, records, stato', inAttesa', corrente', record)
         /\ Counted(Len(records), blanks, corrente', record)
         /\ waiting' \in BOOLEAN /\ draining' \in BOOLEAN
<1>1. q \subseteq Campo /\ inAttesa \subseteq q /\ inAttesa \in SUBSET Campo  BY DEF FormGood
<1>2. CASE Busy(saves)
  <2>1. /\ waiting' = (waiting \/ ~submit) /\ draining' = (draining \/ submit)
        /\ inAttesa' = q /\ corrente' = saves /\ stato' = s
    BY <1>2 DEF TakeQueue
  <2>2. FormGood(typed, records, s, q, saves, record)
    BY <1>1 DEF FormGood, Shown, Fits
  <2> QED BY <2>1, <2>2 DEF FormShape
<1>3. CASE ~Busy(saves)
  <2> DEFINE b == IF q = {} THEN [stato |-> s, saves |-> {}] ELSE SalvaLotto(q, s, record)
             drained == submit /\ b.saves = {}
  <2>1. saves = {}  BY <1>3 DEF Busy
  <2>2. /\ inAttesa' = {} /\ waiting' = FALSE
        /\ corrente' = saves \cup b.saves
        /\ draining' = (submit /\ ~drained)
        /\ stato' = IF drained THEN Validated ELSE b.stato
    BY <1>3 DEF TakeQueue
  <2>3. FormGood(typed, records, b.stato, {}, b.saves, record)
        /\ \A v \in b.saves : ~v.done /\ v.record = record
    <3>1. CASE q = {}
      <4>1. b.stato = s /\ b.saves = {} /\ inAttesa = {}  BY <3>1, <1>1
      <4> HIDE DEF b
      <4> QED BY <2>1, <4>1
    <3>2. CASE q # {}
      <4>1. b = SalvaLotto(q, s, record)  BY <3>2
      <4> HIDE DEF b
      <4>2. q \in SUBSET Campo /\ FormGood(typed, records, s, inAttesa, {}, record)  BY <1>1, <2>1
      <4>3. FormGood(typed, records, b.stato, {}, b.saves, record)
        BY <1>1, <4>1, <4>2, LotGood
      <4>4. \A v \in SalvaLotto(q, s, record).saves : ~v.done /\ v.record = record
        BY DEF SalvaLotto
      <4>5. \A v \in b.saves : ~v.done /\ v.record = record
        BY <4>1, <4>4, Zenon
      <4> QED BY <4>3, <4>5
    <3> QED BY <3>1, <3>2
  <2> HIDE DEF b
  <2>4. FormGood(typed, records, stato', {}, b.saves, record)
    <3>1. CASE drained
      <4>1. Validated \in [Campo -> Stato] /\ \A c \in Campo : Validated[c] # "ok"
        BY DEF Validated, Stato
      <4>2. stato' = Validated  BY <2>2, <3>1
      <4> QED BY <2>3, <4>1, <4>2 DEF FormGood, Shown
    <3>2. CASE ~drained  BY <2>2, <2>3, <3>2
    <3> QED BY <3>1, <3>2
  <2>5. corrente' = b.saves  BY <2>1, <2>2
  <2>6. Counted(Len(records), blanks, corrente', record)
    <3>1. Len(records) \in Nat /\ record <= Len(records)  BY LenProperties DEF FormShape
    <3> QED BY <2>1, <2>3, <2>5, <3>1 DEF Counted
  <2>7. draining' \in BOOLEAN /\ waiting' \in BOOLEAN
    BY <2>2
  <2> QED BY <2>2, <2>4, <2>5, <2>6, <2>7
<1> QED BY <1>2, <1>3

\* After a save has ended: what is shown without it fits, and what waits goes on.
LEMMA SaveEndsGood ==
  ASSUME FormInv, NEW v \in corrente, NEW s, NEW record \in 0..Len(records),
         FormGood(typed, records, s, inAttesa, {}, record),
         Counted(Len(records), blanks, {}, record), SaveEnded(v, s, record)
  PROVE  /\ FormGood(typed, records, stato', inAttesa', corrente', record)
         /\ Counted(Len(records), blanks, corrente', record)
         /\ waiting' \in BOOLEAN /\ draining' \in BOOLEAN /\ timer' \in BOOLEAN
<1>1. corrente \ {v} = {}  BY DEF FormInv, FormGood
<1>2. {timer, waiting, draining} \subseteq BOOLEAN /\ FormShape  BY DEF FormInv, FormShape
<1>3. CASE Resumes
  <2>1. TakeQueue(s, record, {}, inAttesa, draining) /\ timer' \in BOOLEAN
    <3>1. /\ TakeQueue(s, record, corrente \ {v}, inAttesa, draining)
          /\ \/ timer' = timer /\ (waiting \/ inAttesa = {})
             \/ timer' = FALSE /\ draining /\ inAttesa # {}
      BY <1>3 DEF SaveEnded
    <3>2. timer' \in BOOLEAN  BY <1>2, <3>1
    <3> QED BY <1>1, <3>1, <3>2
  <2>2. draining \in BOOLEAN /\ inAttesa \in {inAttesa, Campo}  BY <1>2
  <2> QED BY <1>2, <2>1, <2>2, QueueTaken
<1>4. CASE ~Resumes
  <2>1. /\ stato' = s /\ corrente' = {} /\ waiting' = FALSE
        /\ UNCHANGED <<inAttesa, timer, draining>>
    BY <1>1, <1>4 DEF SaveEnded
  <2> QED BY <1>2, <2>1
<1> QED BY <1>3, <1>4

-----------------------------------------------------------------------------
\* The steps

\* Where the record is not given, what is good for the form as it was is good.
LEMMA GoodKept ==
  ASSUME mixed' = mixed, FormGood(typed', records', stato', inAttesa', corrente', id')
  PROVE  FormGood(typed, records, stato, inAttesa, corrente, id)'
<1>1. CASE mixed
  <2>1. mixed'  BY <1>1
  <2> QED BY <2>1 DEF FormGood, Shown, Fits
<1>2. CASE ~mixed
  <2>1. ~mixed'  BY <1>2
  <2> QED BY <1>2, <2>1 DEF FormGood, Shown, Fits
<1> QED BY <1>1, <1>2

LEMMA EditKeepsForm ==
  ASSUME FormInv, NEW c \in Campo, NEW v \in Text \cup {Blank, Wrong},
         NEW confermata \in BOOLEAN, EditField(c, v, confermata)
  PROVE  FormInv'
<1> USE FormAssumption
<1>1. /\ edits < MaxEdits /\ edits' = edits + 1 /\ typed' = [typed EXCEPT ![c] = v]
      /\ UNCHANGED <<corrente, waiting, draining, id, records, blanks, opened, mixed>>
  BY DEF EditField
<1>2. /\ FormShape /\ FormGood(typed, records, stato, inAttesa, corrente, id)
      /\ Counted(Len(records), blanks, corrente, id)
  BY DEF FormInv
<1>3. typed' \in Typed /\ edits' \in 0..MaxEdits
  BY <1>1, <1>2 DEF Typed, FormShape
<1>4. /\ typed'[c] = v /\ \A x \in Campo : x # c => typed'[x] = typed[x]
  BY <1>1, <1>2 DEF FormShape, Typed
<1>5. CASE Invalid(c, v)
  <2>1. /\ stato' = IF confermata THEN [stato EXCEPT ![c] = "errore"] ELSE stato
        /\ UNCHANGED <<inAttesa, timer>>
    BY <1>5 DEF EditField
  <2>2. /\ stato' \in [Campo -> Stato]
        /\ \A x \in Campo : stato'[x] = "ok" => stato[x] = "ok"
    BY <1>2, <2>1 DEF FormGood, Stato
  <2>3. Shown(typed', records, stato', inAttesa, id)
    BY <1>2, <1>4, <1>5, <2>2 DEF FormGood, Shown
  <2>4. \A w \in corrente : Fits(typed', records, w, inAttesa, id)
    <3> SUFFICES ASSUME NEW w \in corrente PROVE Fits(typed', records, w, inAttesa, id)
      OBVIOUS
    <3>1. w.campi \subseteq Campo /\ Fits(typed, records, w, inAttesa, id)
      BY <1>2 DEF FormGood, SaveOf
    <3> QED BY <1>4, <1>5, <3>1 DEF Fits
  <2>5. FormGood(typed, records, stato, inAttesa, corrente, id)'
    <3>1. FormGood(typed', records', stato', inAttesa', corrente', id')
      BY <1>1, <1>2, <2>1, <2>2, <2>3, <2>4 DEF FormGood
    <3> QED BY <1>1, <3>1, GoodKept
  <2>6. FormShape'  BY <1>1, <1>2, <1>3, <2>1 DEF FormShape
  <2> QED BY <1>1, <1>2, <2>5, <2>6 DEF FormInv
<1>6. CASE ~Invalid(c, v)
  <2>1. /\ stato' = [stato EXCEPT ![c] = "attesa"]
        /\ inAttesa' = inAttesa \cup {c} /\ timer' = TRUE
    BY <1>6 DEF EditField
  <2>2. /\ stato' \in [Campo -> Stato] /\ inAttesa' \subseteq Campo
        /\ \A x \in Campo : stato'[x] = "ok" => x # c /\ stato[x] = "ok"
    BY <1>2, <2>1 DEF FormGood, Stato
  <2>3. Shown(typed', records, stato', inAttesa', id)
    BY <1>2, <1>4, <2>1, <2>2 DEF FormGood, Shown
  <2>4. \A w \in corrente : Fits(typed', records, w, inAttesa', id)
    <3> SUFFICES ASSUME NEW w \in corrente PROVE Fits(typed', records, w, inAttesa', id)
      OBVIOUS
    <3>1. w.campi \subseteq Campo /\ Fits(typed, records, w, inAttesa, id)
      BY <1>2 DEF FormGood, SaveOf
    <3> QED BY <1>4, <2>1, <3>1 DEF Fits
  <2>5. FormGood(typed, records, stato, inAttesa, corrente, id)'
    <3>1. FormGood(typed', records', stato', inAttesa', corrente', id')
      BY <1>1, <1>2, <2>2, <2>3, <2>4 DEF FormGood
    <3> QED BY <1>1, <3>1, GoodKept
  <2>6. FormShape'  BY <1>1, <1>2, <1>3, <2>1 DEF FormShape
  <2> QED BY <1>1, <1>2, <2>5, <2>6 DEF FormInv
<1> QED BY <1>5, <1>6

\* A timer, a removal or a submit takes the queue.
LEMMA TakeKeepsForm ==
  ASSUME FormInv, NEW q \in {inAttesa, Campo}, NEW submit \in BOOLEAN,
         TakeQueue(stato, id, corrente, q, submit), timer' \in BOOLEAN,
         edits' \in 0..MaxEdits, UNCHANGED <<typed, id, records, blanks, opened, mixed>>
  PROVE  FormInv'
<1>1. /\ FormShape /\ FormGood(typed, records, stato, inAttesa, corrente, id)
      /\ Counted(Len(records), blanks, corrente, id)
  BY DEF FormInv
<1>2. id \in 0..Len(records)  BY <1>1 DEF FormShape
<1>3. /\ FormGood(typed, records, stato', inAttesa', corrente', id)
      /\ Counted(Len(records), blanks, corrente', id)
      /\ waiting' \in BOOLEAN /\ draining' \in BOOLEAN
  BY <1>1, <1>2, QueueTaken
<1>4. FormShape'  BY <1>1, <1>3 DEF FormShape
<1>5. FormGood(typed', records', stato', inAttesa', corrente', id')  BY <1>3
<1>6. FormGood(typed, records, stato, inAttesa, corrente, id)'  BY <1>5, GoodKept
<1> QED BY <1>3, <1>4, <1>6 DEF FormInv

LEMMA WriteKeepsForm ==
  ASSUME FormInv, NEW v \in corrente, RecordWritten(v)
  PROVE  FormInv'
<1> DEFINE w == [v EXCEPT !.done = TRUE]
<1>1. /\ ~v.done /\ corrente' = (corrente \ {v}) \cup {w}
      /\ records' = IF v.record = 0 THEN Append(records, v.valori)
                    ELSE [records EXCEPT ![v.record] =
                            [c \in Campo |-> IF c \in v.campi THEN v.valori[c] ELSE @[c]]]
      /\ UNCHANGED <<typed, stato, inAttesa, timer, waiting, draining, id, blanks, edits, opened,
                     mixed>>
  BY DEF RecordWritten
<1>2. /\ FormShape /\ FormGood(typed, records, stato, inAttesa, corrente, id)
      /\ Counted(Len(records), blanks, corrente, id)
  BY DEF FormInv
<1>3. /\ v \in SaveOf /\ Fits(typed, records, v, inAttesa, id) /\ \A x \in corrente : x = v
  BY <1>2 DEF FormGood
<1>4. /\ w \in SaveOf /\ w.done /\ w.campi = v.campi /\ w.valori = v.valori
      /\ w.record = v.record /\ v.valori \in Typed /\ v.campi \subseteq Campo
      /\ v.record \in Nat
  BY <1>3 DEF SaveOf
<1>5. corrente' = {w}  BY <1>1, <1>3
<1> HIDE DEF w
<1>6. records \in Seq(Typed) /\ Len(records) \in Nat /\ id \in 0..Len(records) /\ blanks \in Nat
  BY <1>2, LenProperties DEF FormShape
<1>7. ASSUME v.record = 0 PROVE FormInv'
  <2>1. mixed \/ id = 0  BY <1>3, <1>7 DEF Fits
  <2>2. /\ records' = Append(records, v.valori) /\ records' \in Seq(Typed)
        /\ Len(records') = Len(records) + 1 /\ records'[Len(records) + 1] = v.valori
    BY <1>1, <1>4, <1>6, <1>7, AppendProperties
  <2>3. mixed \/ \A c \in Campo : stato[c] # "ok"  BY <1>2, <2>1 DEF FormGood, Shown
  <2>4. Fits(typed, records', w, inAttesa, id)
    BY <1>3, <1>4, <1>6, <1>7, <2>1, <2>2 DEF Fits
  <2>5. FormGood(typed, records', stato, inAttesa, corrente', id)
    BY <1>2, <1>4, <1>5, <2>3, <2>4 DEF FormGood, Shown
  <2>6. Len(records) < blanks  BY <1>1, <1>2, <1>7 DEF Counted
  <2>7. Counted(Len(records'), blanks, corrente', id)
    BY <1>4, <1>5, <1>6, <1>7, <2>2, <2>6 DEF Counted
  <2>8. FormShape'  BY <1>1, <1>2, <1>6, <2>2 DEF FormShape
  <2>9. FormGood(typed, records, stato, inAttesa, corrente, id)'
    <3>1. FormGood(typed', records', stato', inAttesa', corrente', id')  BY <1>1, <2>5
    <3> QED BY <1>1, <3>1, GoodKept
  <2> QED BY <1>1, <2>7, <2>8, <2>9 DEF FormInv
<1>8. ASSUME v.record # 0 PROVE FormInv'
  <2> DEFINE k == v.record
             new == [c \in Campo |-> IF c \in v.campi THEN v.valori[c] ELSE records[k][c]]
  <2>1. k \in 1..Len(records)  BY <1>2, <1>4, <1>6, <1>8 DEF Counted
  <2>2. new \in Typed  BY <1>4, <1>6, <2>1 DEF Typed
  <2>3. records' = [records EXCEPT ![k] = new]  BY <1>1, <1>8
  <2>4. \A c \in Campo : new[c] = IF c \in v.campi THEN v.valori[c] ELSE records[k][c]
    OBVIOUS
  <2> HIDE DEF new
  <2>5. /\ records' \in Seq(Typed) /\ Len(records') = Len(records) /\ records'[k] = new
    BY <1>6, <2>1, <2>2, <2>3, ExceptSeq
  <2>6. Shown(typed, records', stato, inAttesa, id)
    BY <1>2, <1>3, <2>1, <2>4, <2>5 DEF FormGood, Shown, Fits
  <2>7. Fits(typed, records', w, inAttesa, id)
    BY <1>3, <1>4, <1>8, <2>1, <2>4, <2>5 DEF Fits
  <2>8. FormGood(typed, records', stato, inAttesa, corrente', id)
    BY <1>2, <1>4, <1>5, <2>6, <2>7 DEF FormGood
  <2>9. Counted(Len(records'), blanks, corrente', id)
    <3>1. /\ Len(records) <= blanks
          /\ id = 0 => Len(records) < blanks
      BY <1>2, <1>3, <1>8 DEF Counted
    <3> QED BY <1>4, <1>5, <1>6, <1>8, <2>1, <2>5, <3>1 DEF Counted
  <2>10. FormShape'  BY <1>1, <1>2, <2>5 DEF FormShape
  <2>11. FormGood(typed, records, stato, inAttesa, corrente, id)'
    <3>1. FormGood(typed', records', stato', inAttesa', corrente', id')  BY <1>1, <2>8
    <3> QED BY <1>1, <3>1, GoodKept
  <2> QED BY <1>1, <2>9, <2>10, <2>11 DEF FormInv
<1> QED BY <1>4, <1>7, <1>8

LEMMA EndKeepsForm ==
  ASSUME FormInv, NEW v \in corrente, SaveAnswered(v) \/ SaveRefused(v)
  PROVE  FormInv'
<1>1. /\ FormShape /\ FormGood(typed, records, stato, inAttesa, corrente, id)
      /\ Counted(Len(records), blanks, corrente, id)
  BY DEF FormInv
<1>2. /\ v \in SaveOf /\ Fits(typed, records, v, inAttesa, id) /\ \A x \in corrente : x = v
  BY <1>1 DEF FormGood
<1>3. records \in Seq(Typed) /\ Len(records) \in Nat /\ id \in 0..Len(records)
  BY <1>1, LenProperties DEF FormShape
<1>4. /\ v.campi \subseteq Campo /\ v.record \in Nat /\ stato \in [Campo -> Stato]
      /\ Shown(typed, records, stato, inAttesa, id) /\ inAttesa \subseteq Campo
  BY <1>1, <1>2 DEF SaveOf, FormGood
<1>5. UNCHANGED <<typed, records, blanks, edits, opened, mixed>>
  BY DEF SaveAnswered, SaveRefused
\* With what is shown and the record as they are then, the rest is the same.
<1>6. ASSUME NEW s, NEW r \in 0..Len(records), r = id', SaveEnded(v, s, r),
             FormGood(typed, records, s, inAttesa, {}, r),
             Counted(Len(records), blanks, {}, r)
      PROVE  FormInv'
  <2>1. /\ FormGood(typed, records, stato', inAttesa', corrente', r)
        /\ Counted(Len(records), blanks, corrente', r)
        /\ waiting' \in BOOLEAN /\ draining' \in BOOLEAN /\ timer' \in BOOLEAN
    BY <1>6, SaveEndsGood
  <2>2. FormShape'  BY <1>1, <1>5, <1>6, <2>1 DEF FormShape
  <2>3. FormGood(typed', records', stato', inAttesa', corrente', id')  BY <1>5, <1>6, <2>1
  <2>4. FormGood(typed, records, stato, inAttesa, corrente, id)'  BY <1>5, <2>3, GoodKept
  <2> QED BY <1>5, <1>6, <2>1, <2>2, <2>4 DEF FormInv
<1>7. CASE SaveAnswered(v)
  <2> DEFINE s == Marked(stato, v.campi, "ok")
             r == IF v.record = 0 THEN Len(records) ELSE id
  <2>1. v.done /\ r = id' /\ SaveEnded(v, s, r)  BY <1>7 DEF SaveAnswered
  <2>2. /\ r \in 0..Len(records)
        /\ mixed \/ (r # 0 /\ \A c \in v.campi : records[r][c] = v.valori[c])
    BY <1>2, <1>3, <1>4, <2>1 DEF Fits
  <2>3. mixed \/ \A c \in Campo \ v.campi : stato[c] = "ok" => r = id
    BY <1>2, <1>4 DEF Shown, Fits
  <2>8. Counted(Len(records), blanks, {}, r)
    BY <1>1, <1>2, <1>3, <2>1 DEF Counted
  <2>4. /\ s \in [Campo -> Stato] /\ \A c \in Campo \ v.campi : s[c] = stato[c]
    BY <1>4 DEF Marked, Stato
  <2> HIDE DEF s, r
  <2>5. Shown(typed, records, s, inAttesa, r)
    <3> SUFFICES ASSUME ~mixed, NEW c \in Campo, s[c] = "ok", c \notin inAttesa,
                        ~Invalid(c, typed[c])
                 PROVE  records[r][c] = typed[c]
      BY <2>2 DEF Shown
    <3>1. CASE c \in v.campi  BY <1>2, <2>2, <3>1 DEF Fits
    <3>2. CASE c \notin v.campi  BY <1>4, <2>3, <2>4, <3>2 DEF Shown
    <3> QED BY <3>1, <3>2
  <2>6. FormGood(typed, records, s, inAttesa, {}, r)
    BY <1>4, <2>4, <2>5 DEF FormGood
  <2> QED BY <1>6, <2>1, <2>2, <2>6, <2>8
<1>8. CASE SaveRefused(v)
  <2> DEFINE s == Marked(stato, v.campi, "errore")
  <2>1. ~v.done /\ id = id' /\ SaveEnded(v, s, id)  BY <1>8 DEF SaveRefused
  <2>2. /\ s \in [Campo -> Stato] /\ \A c \in Campo : s[c] = "ok" => stato[c] = "ok"
    BY <1>4 DEF Marked, Stato
  <2> HIDE DEF s
  <2>3. FormGood(typed, records, s, inAttesa, {}, id)
    BY <1>4, <2>2 DEF FormGood, Shown
  <2>4. Counted(Len(records), blanks, {}, id)
    BY <1>1, <1>2, <1>3, <2>1 DEF Counted
  <2> QED BY <1>3, <1>6, <2>1, <2>3, <2>4
<1> QED BY <1>7, <1>8

LEMMA StepKeepsForm == FormInv /\ [FormNext]_formVars => FormInv'
<1> SUFFICES ASSUME FormInv, [FormNext]_formVars PROVE FormInv'  OBVIOUS
<1> USE FormAssumption
<1>1. /\ FormShape /\ FormGood(typed, records, stato, inAttesa, corrente, id)
      /\ Counted(Len(records), blanks, corrente, id)
  BY DEF FormInv
<1>2. CASE TimerFires \/ FormRemoved
  <2>1. /\ TakeQueue(stato, id, corrente, inAttesa, FALSE) /\ timer' \in BOOLEAN
        /\ UNCHANGED <<typed, id, records, blanks, edits, opened, mixed>>
    BY <1>2 DEF TimerFires, FormRemoved
  <2>2. edits' \in 0..MaxEdits  BY <1>1, <2>1 DEF FormShape
  <2> QED BY <2>1, <2>2, TakeKeepsForm
<1>3. CASE SubmitForm
  <2>1. /\ TakeQueue(stato, id, corrente, Campo, TRUE) /\ timer' = Busy(corrente)
        /\ edits < MaxEdits /\ edits' = edits + 1
        /\ UNCHANGED <<typed, id, records, blanks, opened, mixed>>
    BY <1>3 DEF SubmitForm
  <2>2. edits' \in 0..MaxEdits  BY <1>1, <2>1 DEF FormShape
  <2>3. timer' \in BOOLEAN  BY <2>1 DEF Busy
  <2> QED BY <2>1, <2>2, <2>3, TakeKeepsForm
<1>4. CASE SaveMoves
  BY <1>4, WriteKeepsForm, EndKeepsForm DEF SaveMoves
<1>5. ASSUME NEW r \in 0..Len(records), SetValori(r) PROVE FormInv'
  <2>1. /\ opened < MaxOpened /\ opened' = opened + 1 /\ mixed' = (corrente # {})
        /\ id' = r /\ blanks' = IF r = 0 THEN blanks + 1 ELSE blanks
        /\ typed' = IF r = 0 THEN [c \in Campo |-> Blank] ELSE records[r]
        /\ stato' = [c \in Campo |-> "none"]
        /\ inAttesa' = {} /\ timer' = FALSE
        /\ UNCHANGED <<corrente, waiting, draining, records, edits>>
    BY <1>5 DEF SetValori
  <2>2. typed' \in Typed
    <3>1. CASE r = 0  BY <2>1, <3>1 DEF Typed
    <3>2. CASE r # 0
      <4>1. r \in 1..Len(records) /\ records \in Seq(Typed)  BY <1>1, <3>2, LenProperties DEF FormShape
      <4>2. records[r] \in Typed  BY <4>1
      <4> QED BY <2>1, <3>2, <4>2
    <3> QED BY <3>1, <3>2
  <2>3. FormShape'
    <3>1. opened' \in 1..MaxOpened /\ blanks' \in 0..opened'
      BY <1>1, <2>1 DEF FormShape
    <3>2. id' \in 0..Len(records')  BY <2>1
    <3>3. timer' \in BOOLEAN /\ mixed' \in BOOLEAN  BY <2>1
    <3> QED BY <1>1, <2>1, <2>2, <3>1, <3>2, <3>3 DEF FormShape
  <2>4. stato' \in [Campo -> Stato] /\ \A c \in Campo : stato'[c] # "ok"
    BY <2>1 DEF Stato
  <2>5. FormGood(typed, records, stato, inAttesa, corrente, id)'
    <3>1. mixed' \/ corrente' = {}  BY <2>1
    <3>2. (\A v, w \in corrente : v = w)' /\ (inAttesa \subseteq Campo /\ corrente \subseteq SaveOf)'
      BY <1>1, <2>1 DEF FormGood
    <3> QED BY <2>4, <3>1, <3>2 DEF FormGood, Shown, Fits
  <2>6. Counted(Len(records), blanks, corrente, id)'
    <3>1. Len(records) \in Nat /\ blanks \in Nat  BY <1>1, LenProperties DEF FormShape
    <3>2. \A v \in corrente : v \in SaveOf  BY <1>1 DEF FormGood
    <3>3. \A v \in corrente : v.record \in Nat  BY <3>2 DEF SaveOf
    <3> QED BY <1>1, <2>1, <3>1, <3>3 DEF Counted
  <2> QED BY <2>3, <2>5, <2>6 DEF FormInv
<1>6. CASE UNCHANGED formVars
  BY <1>1, <1>6 DEF formVars, FormInv, FormShape, FormGood, Shown, Fits, Counted
<1> QED BY <1>2, <1>3, <1>4, <1>5, <1>6, EditKeepsForm DEF FormNext

LEMMA FormHolds == FormSpec => []FormInv
<1>1. FormInit => FormInv
  <2> SUFFICES ASSUME FormInit PROVE FormInv  OBVIOUS
  <2> USE FormAssumption DEF FormInit
  <2>1. FormShape
    <3>1. typed \in Typed  BY DEF Typed
    <3>2. records \in Seq(Typed) /\ Len(records) = 0  OBVIOUS
    <3>3. id \in 0..Len(records)  BY <3>2
    <3>4. {timer, waiting, draining, mixed} \subseteq BOOLEAN  OBVIOUS
    <3>5. edits \in 0..MaxEdits /\ opened \in 1..MaxOpened /\ blanks \in 0..opened
      OBVIOUS
    <3> QED BY <3>1, <3>2, <3>3, <3>4, <3>5 DEF FormShape
  <2>2. FormGood(typed, records, stato, inAttesa, corrente, id)
    BY DEF FormGood, Shown, Stato
  <2>3. Counted(Len(records), blanks, corrente, id)
    BY DEF Counted
  <2> QED BY <2>1, <2>2, <2>3 DEF FormInv
<1> QED BY <1>1, StepKeepsForm, PTL DEF FormSpec

\* When nothing is left to save, what a form shows as saved is in its record, and a
\* form makes one record (k_modulo.js, coda_salvataggio.js): for any fields, any
\* texts and any order of edits, flushes, submits, answers and refusals.
THEOREM QuietFormsAreSaved == FormSpec => []QuietFormIsSaved
<1>1. FormInv => QuietFormIsSaved
  BY DEF FormInv, FormGood, Shown, Counted, QuietFormIsSaved
<1> QED BY <1>1, FormHolds, PTL

\* Every variable of FormAutosave keeps its type.
THEOREM FormTypes == FormSpec => []FormTypeOK
<1>1. FormInv => FormTypeOK
  <2> SUFFICES ASSUME FormInv PROVE FormTypeOK  OBVIOUS
  <2>1. \A i \in DOMAIN records : records[i] \in Typed  BY DEF FormInv, FormShape
  <2>2. \A v \in corrente : v.record <= Len(records)  BY DEF FormInv, Counted
  <2> QED BY <2>1, <2>2 DEF FormInv, FormShape, FormGood, FormTypeOK
<1> QED BY <1>1, FormHolds, PTL

-----------------------------------------------------------------------------
\* AssistantLoop

\* The calls to t that are left in s from position k on.
CallsLeft(s, k, t) == {i \in DOMAIN s : i >= k /\ s[i] = t}

First(l) == IF l = "calling" THEN 2 ELSE 1

\* Of one question, in l, with the tools as its session knew them, the calls left
\* and the allowances: each call left to a tool that does not write is allowed,
\* and of those to one that does none but the one that is confirmed.
Book(l, names, s, a) ==
  /\ l \in {"new", "thinking"} => s = <<>>
  /\ l = "calling" => s # <<>>
  /\ l = "waiting" => s # <<>> /\ names[Head(s)] = "writes"
  /\ a \in [Tool -> Int]
  /\ \A t \in Tool : a[t] = IF names[t] = "writes" THEN 0
                            ELSE Cardinality(CallsLeft(s, First(l), t))

Books == \A q \in Question : Book(loop[q], perNome[q], coda[q], allowance[q])

\* The questions that wait for the user are those of the map, each once.
Asked == /\ \A i \in DOMAIN conferme : loop[conferme[i]] = "waiting"
         /\ \A i, j \in DOMAIN conferme : conferme[i] = conferme[j] => i = j

AssistantShape ==
  /\ tools \in [Tool -> Does] /\ perNome \in [Question -> [Tool -> Does]]
  /\ changes \in 0..MaxPublished
  /\ count \in 0..(MaxPerMinute + 1)
  /\ loop \in [Question -> {"new", "running", "thinking", "calling", "waiting", "over"}]
  /\ coda \in [Question -> Seq(Tool)] /\ \A q \in Question : Len(coda[q]) <= MaxCalls
  /\ passo \in [Question -> 0..MaxPassi]
  /\ corrected \subseteq Question /\ wrote \subseteq Question
  /\ conferme \in Seq(Question) /\ Len(conferme) <= MaxConferme
  /\ allowance \in [Question -> [Tool -> Int]]

AssistantInv == AssistantShape /\ Books /\ Asked

-----------------------------------------------------------------------------
\* What is left

LEMMA LeftFinite ==
  ASSUME NEW s \in Seq(Tool), NEW k \in Nat, NEW t
  PROVE  /\ IsFiniteSet(CallsLeft(s, k, t))
         /\ Cardinality(CallsLeft(s, k, t)) \in 0..Len(s)
<1>1. CallsLeft(s, k, t) \in SUBSET (1..Len(s))  BY DEF CallsLeft
<1>2. IsFiniteSet(1..Len(s)) /\ Cardinality(1..Len(s)) = Len(s)
  <2>1. 1 \in Int /\ Len(s) \in Nat /\ Len(s) \in Int  BY LenProperties
  <2>2. /\ IsFiniteSet(1..Len(s))
        /\ Cardinality(1..Len(s)) = IF 1 > Len(s) THEN 0 ELSE Len(s) - 1 + 1
    BY <2>1, FS_Interval
  <2> QED BY <2>1, <2>2
<1>3. /\ IsFiniteSet(CallsLeft(s, k, t))
      /\ Cardinality(CallsLeft(s, k, t)) <= Len(s)
  BY <1>1, <1>2, FS_Subset
<1>4. Cardinality(CallsLeft(s, k, t)) \in Nat  BY <1>3, FS_CardinalityType
<1> QED BY <1>3, <1>4

LEMMA NothingLeft == \A k, t : Cardinality(CallsLeft(<<>>, k, t)) = 0
<1>1. \A k, t : CallsLeft(<<>>, k, t) = {}  BY DEF CallsLeft
<1> QED BY <1>1, FS_EmptySet

\* The first call counts for its own tool only.
LEMMA FirstCounts ==
  ASSUME NEW s \in Seq(Tool), s # <<>>, NEW t
  PROVE  Cardinality(CallsLeft(s, 1, t)) =
           IF Head(s) = t THEN Cardinality(CallsLeft(s, 2, t)) + 1
           ELSE Cardinality(CallsLeft(s, 2, t))
<1>1. 1 \notin CallsLeft(s, 2, t)  BY DEF CallsLeft
<1>2. Head(s) = t => CallsLeft(s, 1, t) = CallsLeft(s, 2, t) \cup {1}
  BY DEF CallsLeft
<1>3. Head(s) # t => CallsLeft(s, 1, t) = CallsLeft(s, 2, t)
  BY DEF CallsLeft
<1>4. IsFiniteSet(CallsLeft(s, 2, t))  BY LeftFinite
<1>5. Cardinality(CallsLeft(s, 2, t) \cup {1}) = Cardinality(CallsLeft(s, 2, t)) + 1
  BY <1>1, <1>4, FS_AddElement
<1> QED BY <1>2, <1>3, <1>5

\* Without its first call the rest is what it was.
LEMMA RestLeft ==
  ASSUME NEW s \in Seq(Tool), s # <<>>, NEW t
  PROVE  Cardinality(CallsLeft(Tail(s), 1, t)) = Cardinality(CallsLeft(s, 2, t))
<1> DEFINE A == CallsLeft(Tail(s), 1, t)
           B == CallsLeft(s, 2, t)
           f == [i \in A |-> i + 1]
<1>1. Tail(s) \in Seq(Tool) /\ Len(Tail(s)) = Len(s) - 1 /\ Len(s) \in Nat
      /\ \A i \in 1..Len(Tail(s)) : Tail(s)[i] = s[i + 1]
  BY HeadTailProperties, LenProperties
<1>2. \A i : i \in A <=> i \in 1..(Len(s) - 1) /\ s[i + 1] = t
  BY <1>1 DEF CallsLeft
<1>3. \A i : i \in B <=> i \in 2..Len(s) /\ s[i] = t
  BY <1>1 DEF CallsLeft
<1>4. f \in [A -> B]
  BY <1>1, <1>2, <1>3
<1>5. \A i, j \in A : f[i] = f[j] => i = j
  BY <1>2
<1>6. \A j \in B : \E i \in A : f[i] = j
  <2> SUFFICES ASSUME NEW j \in B PROVE \E i \in A : f[i] = j  OBVIOUS
  <2>1. j - 1 \in A /\ f[j - 1] = j  BY <1>1, <1>2, <1>3
  <2> QED BY <2>1
<1>7. f \in Bijection(A, B)
  BY <1>4, <1>5, <1>6 DEF Bijection, Injection, Surjection, IsInjective
<1>8. ExistsBijection(A, B)  BY <1>7 DEF ExistsBijection
<1>9. IsFiniteSet(A)  BY <1>1, LeftFinite
<1> HIDE DEF A, B, f
<1>10. Cardinality(B) = Cardinality(A)  BY <1>8, <1>9, FS_Bijection
<1> QED BY <1>10 DEF A, B

-----------------------------------------------------------------------------
\* The steps of one question

\* A call to t, the first one, is begun.
LEMMA BookBegun ==
  ASSUME NEW l \in {"running", "waiting"}, NEW names \in [Tool -> Does],
         NEW s \in Seq(Tool), s # <<>>, NEW a, Book(l, names, s, a),
         NEW allowed \in Int, names[Head(s)] = "writes" <=> allowed = 1,
         names[Head(s)] # "writes" <=> allowed = 0
  PROVE  Book("calling", names, s, [a EXCEPT ![Head(s)] = @ + allowed - 1])
<1> DEFINE t == Head(s)
<1>1. t \in Tool  BY HeadTailProperties
<1>2. \A x \in Tool : a[x] \in Int  BY DEF Book
<1>3. \A x \in Tool : Cardinality(CallsLeft(s, 2, x)) \in Int /\ Cardinality(CallsLeft(s, 1, x)) \in Int
  BY LeftFinite
<1>4. ASSUME NEW x \in Tool
      PROVE  [a EXCEPT ![t] = @ + allowed - 1][x] =
               IF names[x] = "writes" THEN 0 ELSE Cardinality(CallsLeft(s, 2, x))
  <2>1. a[x] = IF names[x] = "writes" THEN 0 ELSE Cardinality(CallsLeft(s, 1, x))
    BY DEF Book, First
  <2>2. a \in [Tool -> Int]  BY DEF Book
  <2>3. CASE x = t
    BY <2>1, <2>2, <2>3, <1>1, <1>3, FirstCounts
  <2>4. CASE x # t
    BY <2>1, <2>2, <2>4, <1>1, FirstCounts
  <2> QED BY <2>3, <2>4
<1>5. [a EXCEPT ![t] = @ + allowed - 1] \in [Tool -> Int]
  BY <1>1 DEF Book
<1> HIDE DEF t
<1>6. First("calling") = 2  BY DEF First
<1>7. Book("calling", names, s, [a EXCEPT ![t] = @ + allowed - 1])
  BY <1>4, <1>5, <1>6 DEF Book
<1> QED BY <1>7 DEF t

\* A call to t, the first one, is given up: an error, or the user rejects it.
LEMMA BookSkipped ==
  ASSUME NEW l \in {"running", "waiting"}, NEW names \in [Tool -> Does],
         NEW s \in Seq(Tool), s # <<>>, NEW a, Book(l, names, s, a)
  PROVE  Book("running", names, Tail(s),
              IF names[Head(s)] = "writes" THEN a ELSE [a EXCEPT ![Head(s)] = @ - 1])
<1> DEFINE t == Head(s)
           b == IF names[t] = "writes" THEN a ELSE [a EXCEPT ![t] = @ - 1]
<1>1. t \in Tool  BY HeadTailProperties
<1>2. a \in [Tool -> Int]  BY DEF Book
<1>3. b \in [Tool -> Int]  BY <1>1, <1>2
<1>4. ASSUME NEW x \in Tool
      PROVE  b[x] = IF names[x] = "writes" THEN 0 ELSE Cardinality(CallsLeft(Tail(s), 1, x))
  <2>1. a[x] = IF names[x] = "writes" THEN 0 ELSE Cardinality(CallsLeft(s, 1, x))
    BY DEF Book, First
  <2>2. Cardinality(CallsLeft(s, 2, x)) \in Int  BY LeftFinite
  <2>3. Cardinality(CallsLeft(Tail(s), 1, x)) = Cardinality(CallsLeft(s, 2, x))
    BY RestLeft
  <2>4. Cardinality(CallsLeft(s, 1, x)) =
          IF t = x THEN Cardinality(CallsLeft(s, 2, x)) + 1 ELSE Cardinality(CallsLeft(s, 2, x))
    BY FirstCounts
  <2>5. b[x] = IF names[t] # "writes" /\ x = t THEN a[x] - 1 ELSE a[x]
    BY <1>1, <1>2
  <2> HIDE DEF b, t
  <2> QED BY <2>1, <2>2, <2>3, <2>4, <2>5
<1> HIDE DEF b, t
<1>5. First("running") = 1  BY DEF First
<1>6. Book("running", names, Tail(s), b)
  BY <1>3, <1>4, <1>5 DEF Book
<1> QED BY <1>6 DEF b, t

\* The first call has ended.
LEMMA BookReturned ==
  ASSUME NEW names, NEW s \in Seq(Tool), NEW a, Book("calling", names, s, a)
  PROVE  Book("running", names, Tail(s), a)
<1>1. s # <<>> /\ First("calling") = 2 /\ First("running") = 1  BY DEF Book, First
<1>2. \A x \in Tool : Cardinality(CallsLeft(Tail(s), 1, x)) = Cardinality(CallsLeft(s, 2, x))
  BY <1>1, RestLeft
<1> QED BY <1>1, <1>2 DEF Book

\* Nothing is called: the question goes on, is suspended or ends.
LEMMA BookMoved ==
  ASSUME NEW l, NEW m, l # "calling", m # "calling", NEW names, NEW s, NEW a,
         Book(l, names, s, a),
         m \in {"new", "thinking"} => s = <<>>,
         m = "waiting" => s # <<>> /\ names[Head(s)] = "writes"
  PROVE  Book(m, names, s, a)
BY DEF Book, First

-----------------------------------------------------------------------------
\* The questions that wait

\* A question that does not wait is not in the map.
LEMMA OutOfMap ==
  ASSUME AssistantInv, NEW q \in Question, loop[q] # "waiting"
  PROVE  q \notin ToSet(conferme)
BY DEF AssistantInv, Asked, ToSet

\* The map without its oldest entry, or without the one of q.
LEMMA MapTail ==
  ASSUME AssistantShape, Asked, conferme # <<>>
  PROVE  /\ Tail(conferme) \in Seq(Question) /\ Len(Tail(conferme)) < Len(conferme)
         /\ Head(conferme) \in Question /\ loop[Head(conferme)] = "waiting"
         /\ \A i \in DOMAIN Tail(conferme) : /\ Tail(conferme)[i] # Head(conferme)
                                            /\ loop[Tail(conferme)[i]] = "waiting"
         /\ \A i, j \in DOMAIN Tail(conferme) : Tail(conferme)[i] = Tail(conferme)[j] => i = j
<1>1. conferme \in Seq(Question)  BY DEF AssistantShape
<1>2. /\ Tail(conferme) \in Seq(Question) /\ Len(Tail(conferme)) = Len(conferme) - 1
      /\ Head(conferme) \in Question /\ Head(conferme) = conferme[1]
      /\ \A i \in 1..Len(Tail(conferme)) : Tail(conferme)[i] = conferme[i + 1]
      /\ Len(conferme) \in Nat /\ 1 \in DOMAIN conferme
  BY <1>1, HeadTailProperties, LenProperties
<1>3. \A i \in DOMAIN Tail(conferme) : i + 1 \in DOMAIN conferme /\ Tail(conferme)[i] = conferme[i + 1]
                                       /\ i \in Nat /\ i # 0
  BY <1>1, <1>2
<1> QED BY <1>2, <1>3 DEF Asked

LEMMA MapWithout ==
  ASSUME AssistantShape, Asked, NEW q \in ToSet(conferme)
  PROVE  /\ RemoveFirst(conferme, q) \in Seq(Question)
         /\ Len(RemoveFirst(conferme, q)) <= Len(conferme)
         /\ \A i \in DOMAIN RemoveFirst(conferme, q) :
              /\ RemoveFirst(conferme, q)[i] # q
              /\ loop[RemoveFirst(conferme, q)[i]] = "waiting"
         /\ \A i, j \in DOMAIN RemoveFirst(conferme, q) :
              RemoveFirst(conferme, q)[i] = RemoveFirst(conferme, q)[j] => i = j
<1> DEFINE n == Len(conferme)
<1>1. conferme \in Seq(Question) /\ n \in Nat /\ DOMAIN conferme = 1..n
  BY LenProperties DEF AssistantShape
<1>2. PICK k \in 1..n : conferme[k] = q
  BY <1>1 DEF ToSet
<1>3. \A i \in 1..n : conferme[i] = q <=> i = k
  BY <1>1, <1>2 DEF Asked
<1>4. RemoveFirst(conferme, q) = RemoveAt(conferme, k)
  <2>1. {i \in 1..n : conferme[i] = q} = {k}  BY <1>3
  <2>2. SelectInSeq(conferme, LAMBDA v : v = q) = k
    <3>1. Min({k}) = k  BY <1>2 DEF Min
    <3> QED BY <2>1, <3>1 DEF SelectInSeq
  <2> QED BY <1>2, <2>2 DEF RemoveFirst
<1> DEFINE A == SubSeq(conferme, 1, k - 1)
           B == SubSeq(conferme, k + 1, n)
           r == A \o B
<1>5. RemoveFirst(conferme, q) = r  BY <1>4 DEF RemoveAt
<1>6. A \in Seq(Question) /\ Len(A) = k - 1 /\ \A i \in 1..(k - 1) : A[i] = conferme[i]
  <2>1. \A i \in 1..(k - 1) : conferme[i] \in Question  BY <1>1, <1>2
  <2>2. k - 1 \in Int /\ 1 \in Int  BY <1>1, <1>2
  <2>3. /\ A \in Seq(Question) /\ Len(A) = IF 1 <= k - 1 THEN k - 1 - 1 + 1 ELSE 0
        /\ \A i \in 1..(k - 1 - 1 + 1) : A[i] = conferme[1 + i - 1]
    BY <2>1, <2>2, SubSeqProperties
  <2> HIDE DEF A
  <2> QED BY <1>1, <1>2, <2>3
<1>7. B \in Seq(Question) /\ Len(B) = n - k /\ \A i \in 1..(n - k) : B[i] = conferme[k + i]
  <2>1. \A i \in (k + 1)..n : conferme[i] \in Question  BY <1>1, <1>2
  <2>2. k + 1 \in Int /\ n \in Int  BY <1>1, <1>2
  <2>3. /\ B \in Seq(Question) /\ Len(B) = IF k + 1 <= n THEN n - (k + 1) + 1 ELSE 0
        /\ \A i \in 1..(n - (k + 1) + 1) : B[i] = conferme[k + 1 + i - 1]
    BY <2>1, <2>2, SubSeqProperties
  <2> HIDE DEF B
  <2> HIDE DEF n
  <2>4. \A i \in 1..(n - k) : i \in 1..(n - (k + 1) + 1) /\ k + 1 + i - 1 = k + i
    BY <1>1, <1>2
  <2>5. n - k = IF k + 1 <= n THEN n - (k + 1) + 1 ELSE 0  BY <1>1, <1>2
  <2>6. \A i \in 1..(n - k) : B[i] = conferme[k + i]
    BY ONLY <2>3, <2>4
  <2> QED BY ONLY <2>3, <2>5, <2>6
<1> HIDE DEF A, B
<1>8. /\ r \in Seq(Question) /\ Len(r) = Len(A) + Len(B)
      /\ \A i \in 1..(Len(A) + Len(B)) : r[i] = IF i <= Len(A) THEN A[i] ELSE B[i - Len(A)]
  BY <1>6, <1>7, ConcatProperties
<1> HIDE DEF r
<1>9. Len(r) = n - 1 /\ DOMAIN r = 1..(n - 1)
  BY <1>1, <1>2, <1>6, <1>7, <1>8
<1>10. \A i \in 1..(n - 1) : r[i] = IF i <= k - 1 THEN conferme[i] ELSE conferme[i + 1]
  <2> SUFFICES ASSUME NEW i \in 1..(n - 1)
               PROVE  r[i] = IF i <= k - 1 THEN conferme[i] ELSE conferme[i + 1]
    OBVIOUS
  <2>1. r[i] = IF i <= k - 1 THEN A[i] ELSE B[i - (k - 1)]
    BY <1>1, <1>2, <1>6, <1>7, <1>8
  <2>2. CASE i <= k - 1  BY <2>1, <2>2, <1>6
  <2>3. CASE ~(i <= k - 1)
    <3>1. i - (k - 1) \in 1..(n - k) /\ k + (i - (k - 1)) = i + 1  BY <1>1, <1>2, <2>3
    <3>2. B[i - (k - 1)] = conferme[k + (i - (k - 1))]  BY <1>7, <3>1
    <3> QED BY <2>1, <2>3, <3>1, <3>2
  <2> QED BY <2>2, <2>3
<1> DEFINE at(i) == IF i <= k - 1 THEN i ELSE i + 1
<1>11. \A i \in 1..(n - 1) : at(i) \in 1..n /\ at(i) # k /\ r[i] = conferme[at(i)]
  BY <1>1, <1>2, <1>10
<1>12. \A i, j \in 1..(n - 1) : at(i) = at(j) => i = j
  BY <1>1, <1>2
<1> HIDE DEF at, n
<1>13. \A i \in DOMAIN r : r[i] # q /\ loop[r[i]] = "waiting"
  BY <1>1, <1>3, <1>9, <1>11 DEF Asked
<1>14. \A i, j \in DOMAIN r : r[i] = r[j] => i = j
  BY <1>1, <1>9, <1>11, <1>12 DEF Asked
<1>15. n - 1 <= n  BY <1>1
<1> QED BY <1>5, <1>8, <1>9, <1>13, <1>14, <1>15 DEF n

-----------------------------------------------------------------------------
\* The steps

\* The count of the minute and what it says.
LEMMA CountKept ==
  ASSUME NEW c \in 0..(MaxPerMinute + 1)
  PROVE  /\ CountedCall(c) \in 0..(MaxPerMinute + 1)
         /\ ~WithinLimit(c) => ~WithinLimit(CountedCall(c))
         /\ 0 \in 0..(MaxPerMinute + 1)
BY AssistantAssumption DEF CountedCall, WithinLimit

\* Only q and its own entries move.
LEMMA OneMoves ==
  ASSUME AssistantInv, NEW q \in Question,
         NEW l \in {"new", "running", "thinking", "calling", "waiting", "over"},
         NEW s \in Seq(Tool), Len(s) <= MaxCalls, NEW a, Book(l, perNome[q], s, a),
         loop' = [loop EXCEPT ![q] = l], coda' = [coda EXCEPT ![q] = s],
         allowance' = [allowance EXCEPT ![q] = a], UNCHANGED perNome
  PROVE  /\ loop' \in [Question -> {"new", "running", "thinking", "calling", "waiting", "over"}]
         /\ coda' \in [Question -> Seq(Tool)] /\ \A p \in Question : Len(coda'[p]) <= MaxCalls
         /\ allowance' \in [Question -> [Tool -> Int]]
         /\ Books'
<1> USE DEF AssistantInv, AssistantShape
<1>1. ASSUME NEW p \in Question
      PROVE  Book(loop'[p], perNome'[p], coda'[p], allowance'[p])
  <2>1. CASE p = q  BY <2>1
  <2>2. CASE p # q  BY <2>2 DEF Books
  <2> QED BY <2>1, <2>2
<1>2. a \in [Tool -> Int]  BY DEF Book
<1> QED BY <1>1, <1>2 DEF Books

LEMMA PublishKeepsInv ==
  ASSUME AssistantInv, NEW t \in Tool, NEW does \in Does, Publishes(t, does)
  PROVE  AssistantInv'
<1> USE AssistantAssumption DEF AssistantInv, AssistantShape
<1>1. /\ tools' = [tools EXCEPT ![t] = does] /\ changes' = changes + 1
      /\ changes < MaxPublished
      /\ UNCHANGED <<count, loop, perNome, coda, passo, corrected, wrote, conferme, allowance>>
  BY DEF Publishes
<1> QED BY <1>1 DEF Books, Asked

LEMMA CallKeepsInv ==
  ASSUME AssistantInv, NEW q \in Question, NextCall(q)
  PROVE  AssistantInv'
<1> USE AssistantAssumption DEF AssistantInv, AssistantShape
<1> DEFINE t == Head(coda[q])
<1>1. /\ loop[q] = "running" /\ coda[q] # <<>> /\ coda[q] \in Seq(Tool) /\ Len(coda[q]) <= MaxCalls
      /\ UNCHANGED <<tools, changes, perNome, passo, corrected, wrote>>
      /\ perNome[q] \in [Tool -> Does]
      /\ Book("running", perNome[q], coda[q], allowance[q])
  BY DEF NextCall, Books
<1>2. t \in Tool /\ Tail(coda[q]) \in Seq(Tool) /\ Len(Tail(coda[q])) <= MaxCalls
  BY <1>1, HeadTailProperties, LenProperties
<1>3. q \notin ToSet(conferme)  BY <1>1, OutOfMap
<1>4. CASE NeedsConfirmation(q, t) /\ WithinLimit(count) /\ count' = CountedCall(count)
           /\ Suspended(q) /\ UNCHANGED <<coda, allowance>>
  <2> DEFINE room == IF Len(conferme) >= MaxConferme THEN Tail(conferme) ELSE conferme
  <2>1. /\ conferme' = Append(room, q)
        /\ loop' = [p \in Question |-> IF p = q THEN "waiting"
                                       ELSE IF p \in ToSet(conferme) \ ToSet(room) THEN "over"
                                       ELSE loop[p]]
    BY <1>4 DEF Suspended
  <2>2. /\ room \in Seq(Question) /\ Len(room) < MaxConferme
        /\ \A i \in DOMAIN room : loop[room[i]] = "waiting" /\ room[i] \in Question
        /\ \A i, j \in DOMAIN room : room[i] = room[j] => i = j
    <3>1. CASE Len(conferme) >= MaxConferme
      <4>1. conferme # <<>> /\ room = Tail(conferme)  BY <3>1
      <4>2. /\ room \in Seq(Question) /\ Len(room) < Len(conferme)
            /\ \A i \in DOMAIN room : loop[room[i]] = "waiting"
            /\ \A i, j \in DOMAIN room : room[i] = room[j] => i = j
        BY <4>1, MapTail
      <4> HIDE DEF room
      <4>3. \A i \in DOMAIN room : room[i] \in Question  BY <4>2
      <4>4. Len(room) \in Nat /\ Len(conferme) \in Nat  BY <4>2, LenProperties
      <4> QED BY <4>2, <4>3, <4>4
    <3>2. CASE ~(Len(conferme) >= MaxConferme)
      <4>1. room = conferme  BY <3>2
      <4>2. Len(conferme) \in Nat  BY LenProperties
      <4> QED BY <3>2, <4>1, <4>2 DEF Asked
    <3> QED BY <3>1, <3>2
  <2> HIDE DEF room
  <2>3. /\ conferme' \in Seq(Question) /\ Len(conferme') = Len(room) + 1
        /\ \A i \in 1..Len(room) : conferme'[i] = room[i]
        /\ conferme'[Len(room) + 1] = q
    BY <2>1, <2>2, AppendProperties
  <2>4. Len(room) \in Nat /\ DOMAIN room = 1..Len(room) /\ DOMAIN conferme' = 1..(Len(room) + 1)
    BY <2>2, <2>3, LenProperties
  <2>5. \A i \in DOMAIN room : room[i] # q /\ room[i] \in ToSet(room)
    BY <1>1, <2>2 DEF ToSet
  <2>6. Asked'
    <3>1. \A i \in DOMAIN room : loop'[room[i]] = "waiting"
      BY <2>1, <2>2, <2>5
    <3>2. loop'[q] = "waiting"  BY <2>1
    <3>3. ASSUME NEW i \in DOMAIN conferme' PROVE loop'[conferme'[i]] = "waiting"
      <4>1. CASE i \in DOMAIN room  BY <4>1, <2>3, <2>4, <3>1
      <4>2. CASE i = Len(room) + 1  BY <4>2, <2>3, <3>2
      <4> QED BY ONLY <4>1, <4>2, <2>4, <3>3
    <3>4. \A i, j \in DOMAIN conferme' : conferme'[i] = conferme'[j] => i = j
      <4> SUFFICES ASSUME NEW i \in DOMAIN conferme', NEW j \in DOMAIN conferme',
                          conferme'[i] = conferme'[j]
                   PROVE  i = j
        OBVIOUS
      <4>1. CASE i \in DOMAIN room /\ j \in DOMAIN room  BY <4>1, <2>2, <2>3, <2>4
      <4>2. CASE i = Len(room) + 1 /\ j \in DOMAIN room  BY <4>2, <2>3, <2>4, <2>5
      <4>3. CASE j = Len(room) + 1 /\ i \in DOMAIN room  BY <4>3, <2>3, <2>4, <2>5
      <4>4. \A x \in DOMAIN conferme' : x \in DOMAIN room \/ x = Len(room) + 1
        BY ONLY <2>4
      <4> QED BY <4>1, <4>2, <4>3, <4>4
    <3> QED BY <3>3, <3>4 DEF Asked
  <2>7. ASSUME NEW p \in Question
        PROVE  Book(loop'[p], perNome'[p], coda'[p], allowance'[p])
    <3>1. Book(loop[p], perNome[p], coda[p], allowance[p])  BY DEF Books
    <3>2. UNCHANGED <<perNome, coda, allowance>>  BY <1>1, <1>4
    <3>3. CASE p = q
      <4>1. loop'[p] = "waiting"  BY <2>1, <3>3
      <4>2. perNome[q][t] = "writes"  BY <1>4 DEF NeedsConfirmation
      <4>3. Book("waiting", perNome[q], coda[q], allowance[q])
        BY <1>1, <4>2, BookMoved
      <4> QED BY <3>2, <3>3, <4>1, <4>3
    <3>4. CASE p # q /\ p \in ToSet(conferme) \ ToSet(room)
      <4>1. loop'[p] = "over" /\ loop[p] = "waiting"  BY <2>1, <3>4 DEF Asked, ToSet
      <4>2. Book("over", perNome[p], coda[p], allowance[p])  BY <3>1, <4>1, BookMoved
      <4> QED BY <3>2, <4>1, <4>2
    <3>5. CASE p # q /\ p \notin ToSet(conferme) \ ToSet(room)
      <4>1. loop'[p] = loop[p]  BY <2>1, <3>5
      <4> QED BY <3>1, <3>2, <4>1
    <3> QED BY <3>3, <3>4, <3>5
  <2>8. Books'  BY <2>7 DEF Books
  <2>9. loop' \in [Question -> {"new", "running", "thinking", "calling", "waiting", "over"}]
    BY <2>1
  <2>10. count' \in 0..(MaxPerMinute + 1)  BY <1>4, CountKept
  <2>11. Len(conferme') <= MaxConferme  BY <2>2, <2>3, <2>4
  <2>12. AssistantShape'
    BY <1>1, <1>4, <2>3, <2>9, <2>10, <2>11
  <2> QED BY <2>6, <2>8, <2>12
\* Otherwise conferme stays, and the call is executed or given up.
<1>5. ASSUME NEW c \in 0..(MaxPerMinute + 1), NEW allowed \in {0, 1}, Executes(q, t, c, allowed),
             tools[t] # "absent" /\ WithinLimit(c) =>
               (perNome[q][t] = "writes" <=> allowed = 1),
             UNCHANGED conferme, count' = AfterExecution(t, c)
      PROVE  AssistantInv'
  <2>1. count' \in 0..(MaxPerMinute + 1)
    BY <1>5, CountKept DEF AfterExecution
  <2>2. CASE tools[t] # "absent" /\ WithinLimit(c)
    <3>1. /\ loop' = [loop EXCEPT ![q] = "calling"]
          /\ allowance' = [allowance EXCEPT ![q][t] = @ + allowed - 1]
          /\ UNCHANGED coda
      BY <1>5, <2>2 DEF Executes
    <3> DEFINE a == [allowance[q] EXCEPT ![t] = @ + allowed - 1]
    <3>2. allowance' = [allowance EXCEPT ![q] = a] /\ coda' = [coda EXCEPT ![q] = coda[q]]
      BY <3>1
    <3>3. Book("calling", perNome[q], coda[q], a)
      <4>1. /\ allowed \in Int
            /\ perNome[q][t] = "writes" <=> allowed = 1
            /\ perNome[q][t] # "writes" <=> allowed = 0
        BY <1>5, <2>2
      <4> QED BY ONLY <1>1, <4>1, BookBegun
    <3> HIDE DEF a, t
    <3>4. /\ loop' \in [Question -> {"new", "running", "thinking", "calling", "waiting", "over"}]
          /\ coda' \in [Question -> Seq(Tool)] /\ \A p \in Question : Len(coda'[p]) <= MaxCalls
          /\ allowance' \in [Question -> [Tool -> Int]] /\ Books'
      BY <1>1, <3>1, <3>2, <3>3, OneMoves
    <3>5. Asked'  BY <1>1, <1>3, <1>5, <3>1 DEF Asked, ToSet
    <3> QED BY <1>1, <1>5, <2>1, <3>4, <3>5
  <2>3. CASE ~(tools[t] # "absent" /\ WithinLimit(c))
    <3>1. /\ loop' = [loop EXCEPT ![q] = "running"]
          /\ coda' = [coda EXCEPT ![q] = Tail(coda[q])]
          /\ allowance' = IF perNome[q][t] = "writes" THEN allowance
                          ELSE [allowance EXCEPT ![q][t] = @ - 1]
      BY <1>5, <2>3 DEF Executes
    <3> DEFINE a == IF perNome[q][t] = "writes" THEN allowance[q]
                    ELSE [allowance[q] EXCEPT ![t] = @ - 1]
    <3>2. allowance' = [allowance EXCEPT ![q] = a]
      BY <3>1
    <3>3. Book("running", perNome[q], Tail(coda[q]), a)
      BY <1>1, BookSkipped
    <3> HIDE DEF a, t
    <3>4. /\ loop' \in [Question -> {"new", "running", "thinking", "calling", "waiting", "over"}]
          /\ coda' \in [Question -> Seq(Tool)] /\ \A p \in Question : Len(coda'[p]) <= MaxCalls
          /\ allowance' \in [Question -> [Tool -> Int]] /\ Books'
      BY <1>1, <1>2, <3>1, <3>2, <3>3, OneMoves
    <3>5. Asked'  BY <1>1, <1>3, <1>5, <3>1 DEF Asked, ToSet
    <3> QED BY <1>1, <1>5, <2>1, <3>4, <3>5
  <2> QED BY <2>2, <2>3
<1>6. CASE NeedsConfirmation(q, t) /\ ~WithinLimit(count) /\ UNCHANGED conferme
           /\ \E turned \in {0, 1} :
                LET found == IF turned = 1 THEN 0 ELSE CountedCall(count)
                IN  Executes(q, t, found, turned) /\ count' = AfterExecution(t, found)
  <2>1. PICK turned \in {0, 1} :
          LET found == IF turned = 1 THEN 0 ELSE CountedCall(count)
          IN  Executes(q, t, found, turned) /\ count' = AfterExecution(t, found)
    BY <1>6
  <2> DEFINE found == IF turned = 1 THEN 0 ELSE CountedCall(count)
  <2>2. Executes(q, t, found, turned) /\ count' = AfterExecution(t, found)  BY <2>1
  <2>3. found \in 0..(MaxPerMinute + 1) /\ (WithinLimit(found) => turned = 1)
    BY <1>6, CountKept
  <2>4. perNome[q][t] = "writes"  BY <1>6 DEF NeedsConfirmation
  <2> HIDE DEF found, t
  <2> QED BY <1>5, <1>6, <2>2, <2>3, <2>4
<1>7. CASE ~NeedsConfirmation(q, t) /\ Executes(q, t, count, 0)
           /\ count' = AfterExecution(t, count) /\ UNCHANGED conferme
  <2>1. tools[t] # "absent" => perNome[q][t] # "writes"  BY <1>7 DEF NeedsConfirmation
  <2> HIDE DEF t
  <2>2. count \in 0..(MaxPerMinute + 1) /\ 0 \in {0, 1} /\ 0 # 1  OBVIOUS
  <2> QED BY <1>5, <1>7, <2>1, <2>2
<1> QED BY <1>4, <1>6, <1>7 DEF NextCall

LEMMA ConfirmKeepsInv ==
  ASSUME AssistantInv, NEW q \in Question, NEW approvata \in BOOLEAN, Conferma(q, approvata)
  PROVE  AssistantInv'
<1> USE AssistantAssumption DEF AssistantInv, AssistantShape
<1> DEFINE t == Head(coda[q])
           m == RemoveFirst(conferme, q)
<1>1. /\ q \in ToSet(conferme) /\ coda[q] # <<>> /\ conferme' = m
      /\ coda[q] \in Seq(Tool) /\ Len(coda[q]) <= MaxCalls
      /\ UNCHANGED <<tools, changes, perNome, passo, corrected, wrote>>
      /\ perNome[q] \in [Tool -> Does]
  BY DEF Conferma, Withdrawn
<1>2. loop[q] = "waiting" /\ Book("waiting", perNome[q], coda[q], allowance[q])
  BY <1>1 DEF Asked, Books, ToSet
<1>3. perNome[q][t] = "writes"  BY <1>2 DEF Book
<1>4. t \in Tool /\ Tail(coda[q]) \in Seq(Tool) /\ Len(Tail(coda[q])) <= MaxCalls
  BY <1>1, HeadTailProperties, LenProperties
<1>5. /\ m \in Seq(Question) /\ Len(m) <= Len(conferme)
      /\ \A i \in DOMAIN m : m[i] # q /\ loop[m[i]] = "waiting"
      /\ \A i, j \in DOMAIN m : m[i] = m[j] => i = j
  BY <1>1, MapWithout
<1> HIDE DEF m
<1>6. conferme' \in Seq(Question) /\ Len(conferme') <= MaxConferme
  <2>1. Len(m) \in Nat /\ Len(conferme) \in Nat  BY <1>5, LenProperties
  <2> QED BY <1>1, <1>5, <2>1
<1>7. ASSUME NEW l, loop' = [loop EXCEPT ![q] = l] PROVE Asked'
  <2>1. \A i \in DOMAIN m : m[i] \in Question  BY <1>5
  <2>2. \A i \in DOMAIN m : loop'[m[i]] = "waiting"  BY <1>5, <1>7, <2>1
  <2> QED BY <1>1, <1>5, <2>2 DEF Asked
<1>8. ASSUME loop' = [loop EXCEPT ![q] = "running"],
             coda' = [coda EXCEPT ![q] = Tail(coda[q])], UNCHANGED allowance,
             count' \in 0..(MaxPerMinute + 1)
      PROVE  AssistantInv'
  <2>1. Book("running", perNome[q], Tail(coda[q]), allowance[q])
    BY <1>1, <1>2, <1>3, BookSkipped
  <2>2. allowance' = [allowance EXCEPT ![q] = allowance[q]]  BY <1>8
  <2>3. /\ loop' \in [Question -> {"new", "running", "thinking", "calling", "waiting", "over"}]
        /\ coda' \in [Question -> Seq(Tool)] /\ \A p \in Question : Len(coda'[p]) <= MaxCalls
        /\ allowance' \in [Question -> [Tool -> Int]] /\ Books'
    BY <1>1, <1>4, <1>8, <2>1, <2>2, OneMoves
  <2>4. Asked'  BY <1>7, <1>8
  <2> QED BY <1>1, <1>6, <1>8, <2>3, <2>4
<1>9. CASE approvata
  <2>1. Executes(q, t, count, 1) /\ count' = AfterExecution(t, count)
    BY <1>2, <1>9 DEF Conferma
  <2>2. count' \in 0..(MaxPerMinute + 1)  BY <2>1, CountKept DEF AfterExecution
  <2>3. CASE tools[t] # "absent" /\ WithinLimit(count)
    <3>1. /\ loop' = [loop EXCEPT ![q] = "calling"]
          /\ allowance' = [allowance EXCEPT ![q][t] = @ + 1 - 1]
          /\ UNCHANGED coda
      BY <2>1, <2>3 DEF Executes
    <3> DEFINE a == [allowance[q] EXCEPT ![t] = @ + 1 - 1]
    <3>2. allowance' = [allowance EXCEPT ![q] = a] /\ coda' = [coda EXCEPT ![q] = coda[q]]
      BY <3>1
    <3>3. Book("calling", perNome[q], coda[q], a)
      <4>1. /\ 1 \in Int
            /\ perNome[q][t] = "writes" <=> 1 = 1
            /\ perNome[q][t] # "writes" <=> 1 = 0
        BY <1>3
      <4> QED BY ONLY <1>1, <1>2, <4>1, BookBegun
    <3> HIDE DEF a, t
    <3>4. /\ loop' \in [Question -> {"new", "running", "thinking", "calling", "waiting", "over"}]
          /\ coda' \in [Question -> Seq(Tool)] /\ \A p \in Question : Len(coda'[p]) <= MaxCalls
          /\ allowance' \in [Question -> [Tool -> Int]] /\ Books'
      BY <1>1, <3>1, <3>2, <3>3, OneMoves
    <3>5. Asked'  BY <1>7, <3>1
    <3> QED BY <1>1, <1>6, <2>2, <3>4, <3>5
  <2>4. CASE ~(tools[t] # "absent" /\ WithinLimit(count))
    <3>1. /\ loop' = [loop EXCEPT ![q] = "running"]
          /\ coda' = [coda EXCEPT ![q] = Tail(coda[q])]
          /\ UNCHANGED allowance
      BY <1>3, <2>1, <2>4 DEF Executes
    <3> QED BY <1>8, <2>2, <3>1
  <2> QED BY <2>3, <2>4
<1>10. CASE ~approvata
  BY <1>8, <1>10 DEF Conferma
<1> QED BY <1>9, <1>10

LEMMA StepKeepsAssistant == AssistantInv /\ [AssistantNext]_assistantVars => AssistantInv'
<1> SUFFICES ASSUME AssistantInv, [AssistantNext]_assistantVars PROVE AssistantInv'  OBVIOUS
<1> USE AssistantAssumption DEF AssistantInv, AssistantShape
<1>1. ASSUME NEW t \in Tool, NEW does \in Does, Publishes(t, does) PROVE AssistantInv'
  BY <1>1, PublishKeepsInv
<1>2. CASE MinutePasses
  <2>1. count' \in 0..(MaxPerMinute + 1)  BY <1>2, CountKept DEF MinutePasses
  <2> QED BY <1>2, <2>1 DEF MinutePasses, Books, Asked
<1>3. CASE ConfermaExpires
  <2> DEFINE q == Head(conferme)
             m == Tail(conferme)
  <2>1. /\ conferme # <<>> /\ conferme' = m /\ loop' = [loop EXCEPT ![q] = "over"]
        /\ UNCHANGED <<tools, changes, count, perNome, coda, passo, corrected, wrote, allowance>>
    BY <1>3 DEF ConfermaExpires
  <2>2. /\ m \in Seq(Question) /\ Len(m) < Len(conferme)
        /\ q \in Question /\ loop[q] = "waiting"
        /\ \A i \in DOMAIN m : m[i] # q /\ loop[m[i]] = "waiting"
        /\ \A i, j \in DOMAIN m : m[i] = m[j] => i = j
    BY <2>1, MapTail
  <2> HIDE DEF q, m
  <2>3. Book("over", perNome[q], coda[q], allowance[q])
    <3>1. Book(loop[q], perNome[q], coda[q], allowance[q])  BY <2>2 DEF Books
    <3> QED BY <2>2, <3>1, BookMoved
  <2>4. coda' = [coda EXCEPT ![q] = coda[q]] /\ allowance' = [allowance EXCEPT ![q] = allowance[q]]
    BY <2>1
  <2>5. coda[q] \in Seq(Tool) /\ Len(coda[q]) <= MaxCalls  BY <2>2
  <2>6. /\ loop' \in [Question -> {"new", "running", "thinking", "calling", "waiting", "over"}]
        /\ coda' \in [Question -> Seq(Tool)] /\ \A p \in Question : Len(coda'[p]) <= MaxCalls
        /\ allowance' \in [Question -> [Tool -> Int]] /\ Books'
    <3>1. AssistantInv /\ q \in Question /\ loop' = [loop EXCEPT ![q] = "over"] /\ UNCHANGED perNome
      BY <2>1, <2>2
    <3>2. "over" \in {"new", "running", "thinking", "calling", "waiting", "over"}  OBVIOUS
    <3> QED BY ONLY <2>3, <2>4, <2>5, <3>1, <3>2, OneMoves
  <2>7. \A i \in DOMAIN m : m[i] \in Question  BY <2>2
  <2>8. Asked'  BY <2>1, <2>2, <2>7 DEF Asked
  <2>9. Len(conferme') \in Nat /\ Len(conferme) \in Nat  BY <2>1, <2>2, LenProperties
  <2>10. Len(conferme') <= MaxConferme /\ conferme' \in Seq(Question)
    <3>1. Len(conferme) <= MaxConferme /\ MaxConferme \in Nat  OBVIOUS
    <3> QED BY <2>1, <2>2, <2>9, <3>1
  <2> QED BY <2>1, <2>6, <2>8, <2>10
\* A question that does not wait and does not begin to moves alone.
<1>4. ASSUME NEW q \in Question, NEW l \in {"running", "thinking", "over"},
             NEW s \in Seq(Tool), Len(s) <= MaxCalls, NEW a, Book(l, perNome'[q], s, a),
             loop[q] # "waiting",
             loop' = [loop EXCEPT ![q] = l], coda' = [coda EXCEPT ![q] = s],
             allowance' = [allowance EXCEPT ![q] = a],
             perNome' \in [Question -> [Tool -> Does]],
             \A p \in Question \ {q} : perNome'[p] = perNome[p],
             passo' \in [Question -> 0..MaxPassi], corrected' \subseteq Question,
             wrote' \subseteq Question, UNCHANGED <<tools, changes, count, conferme>>
      PROVE  AssistantInv'
  <2>1. ASSUME NEW p \in Question
        PROVE  Book(loop'[p], perNome'[p], coda'[p], allowance'[p])
    <3>1. CASE p = q  BY <1>4, <3>1
    <3>2. CASE p # q  BY <1>4, <3>2 DEF Books
    <3> QED BY <3>1, <3>2
  <2>2. a \in [Tool -> Int]  BY <1>4 DEF Book
  <2>3. Asked'  BY <1>4 DEF Asked
  <2>4. /\ loop' \in [Question -> {"new", "running", "thinking", "calling", "waiting", "over"}]
        /\ coda' \in [Question -> Seq(Tool)] /\ \A p \in Question : Len(coda'[p]) <= MaxCalls
        /\ allowance' \in [Question -> [Tool -> Int]]
    BY <1>4, <2>2
  <2> QED BY <1>4, <2>1, <2>3, <2>4 DEF Books
<1>5. ASSUME NEW q \in Question,
             \/ Chiedi(q) \/ AsksModel(q) \/ ModelAnswers(q) \/ NextCall(q) \/ CallReturns(q)
             \/ \E n \in 1..MaxCalls : \E calls \in [1..n -> Tool] : ModelCalls(q, calls)
             \/ \E approvata \in BOOLEAN : Conferma(q, approvata)
      PROVE  AssistantInv'
  <2>1. /\ Book(loop[q], perNome[q], coda[q], allowance[q])
        /\ coda[q] \in Seq(Tool) /\ Len(coda[q]) <= MaxCalls
    BY DEF Books
  <2>2. /\ [coda EXCEPT ![q] = coda[q]] = coda
        /\ [allowance EXCEPT ![q] = allowance[q]] = allowance
    OBVIOUS
  <2>3. CASE Chiedi(q)
    <3>1. /\ loop[q] = "new" /\ loop' = [loop EXCEPT ![q] = "running"]
          /\ perNome' = [perNome EXCEPT ![q] = tools]
          /\ UNCHANGED <<tools, changes, count, coda, passo, corrected, wrote, conferme, allowance>>
      BY <2>3 DEF Chiedi
    <3>2. Book("running", tools, coda[q], allowance[q])
      <4>1. coda[q] = <<>>  BY <2>1, <3>1 DEF Book
      <4>2. allowance[q] \in [Tool -> Int] /\ \A t \in Tool : allowance[q][t] = 0
        BY <2>1, <3>1, <4>1, NothingLeft DEF Book
      <4>3. \A t \in Tool : Cardinality(CallsLeft(<<>>, First("running"), t)) = 0
        BY NothingLeft
      <4> QED BY <4>1, <4>2, <4>3 DEF Book
    <3>3. /\ perNome' \in [Question -> [Tool -> Does]] /\ perNome'[q] = tools
          /\ \A p \in Question \ {q} : perNome'[p] = perNome[p]
      BY <3>1
    <3>4. Book("running", perNome'[q], coda[q], allowance[q])  BY <3>2, <3>3
    <3>5. /\ coda' = [coda EXCEPT ![q] = coda[q]] /\ allowance' = [allowance EXCEPT ![q] = allowance[q]]
          /\ passo' \in [Question -> 0..MaxPassi] /\ corrected' \subseteq Question
          /\ wrote' \subseteq Question /\ loop[q] # "waiting"
      BY <2>2, <3>1
    <3> QED BY <1>4, <2>1, <3>1, <3>3, <3>4, <3>5
  <2>4. CASE AsksModel(q)
    <3>1. /\ loop[q] = "running" /\ coda[q] = <<>>
          /\ UNCHANGED <<tools, changes, count, perNome, coda, corrected, wrote, conferme, allowance>>
      BY <2>4 DEF AsksModel
    <3>2. Book("over", perNome[q], coda[q], allowance[q])
          /\ Book("thinking", perNome[q], coda[q], allowance[q])
      BY <2>1, <3>1, BookMoved
    <3>3. CASE passo[q] >= MaxPassi
      <4>1. loop' = [loop EXCEPT ![q] = "over"] /\ UNCHANGED passo  BY <2>4, <3>3 DEF AsksModel
      <4> QED BY <1>4, <2>1, <2>2, <3>1, <3>2, <4>1
    <3>4. CASE ~(passo[q] >= MaxPassi)
      <4>1. loop' = [loop EXCEPT ![q] = "thinking"] /\ passo' = [passo EXCEPT ![q] = @ + 1]
        BY <2>4, <3>4 DEF AsksModel
      <4>2. passo' \in [Question -> 0..MaxPassi]  BY <3>4, <4>1
      <4> QED BY <1>4, <2>1, <2>2, <3>1, <3>2, <4>1, <4>2
    <3> QED BY <3>3, <3>4
  <2>5. CASE ModelAnswers(q)
    <3>1. /\ loop[q] = "thinking" /\ corrected' \subseteq Question
          /\ UNCHANGED <<tools, changes, count, perNome, coda, passo, wrote, conferme, allowance>>
      BY <2>5 DEF ModelAnswers
    <3>2. Book("over", perNome[q], coda[q], allowance[q])
          /\ Book("running", perNome[q], coda[q], allowance[q])
      BY <2>1, <3>1, BookMoved
    <3>3. CASE loop' = [loop EXCEPT ![q] = "running"]
      BY <1>4, <2>1, <2>2, <3>1, <3>2, <3>3
    <3>4. CASE loop' = [loop EXCEPT ![q] = "over"]
      BY <1>4, <2>1, <2>2, <3>1, <3>2, <3>4
    <3> QED BY <2>5, <3>3, <3>4 DEF ModelAnswers
  <2>6. CASE NextCall(q)  BY <2>6, CallKeepsInv
  <2>7. CASE CallReturns(q)
    <3>1. /\ loop[q] = "calling" /\ loop' = [loop EXCEPT ![q] = "running"]
          /\ coda' = [coda EXCEPT ![q] = Tail(coda[q])] /\ wrote' \subseteq Question
          /\ UNCHANGED <<tools, changes, count, perNome, passo, corrected, conferme, allowance>>
      BY <2>7 DEF CallReturns
    <3>2. Book("running", perNome[q], Tail(coda[q]), allowance[q]) /\ coda[q] # <<>>
      <4>1. Book("calling", perNome[q], coda[q], allowance[q])  BY <2>1, <3>1
      <4>2. coda[q] # <<>>  BY <4>1 DEF Book
      <4> QED BY <2>1, <4>1, <4>2, BookReturned
    <3>3. Tail(coda[q]) \in Seq(Tool) /\ Len(Tail(coda[q])) <= MaxCalls
      BY <2>1, <3>2, HeadTailProperties, LenProperties
    <3> QED BY <1>4, <2>2, <3>1, <3>2, <3>3
  <2>8. ASSUME NEW n \in 1..MaxCalls, NEW calls \in [1..n -> Tool], ModelCalls(q, calls)
        PROVE  AssistantInv'
    <3> DEFINE a == [t \in Tool |-> IF perNome[q][t] = "writes" THEN allowance[q][t]
                       ELSE allowance[q][t] + Cardinality({i \in DOMAIN calls : calls[i] = t})]
    <3>1. /\ loop[q] = "thinking" /\ loop' = [loop EXCEPT ![q] = "running"]
          /\ coda' = [coda EXCEPT ![q] = calls]
          /\ allowance' = [allowance EXCEPT ![q] = a]
          /\ UNCHANGED <<tools, changes, count, perNome, passo, corrected, wrote, conferme>>
      BY <2>8 DEF ModelCalls
    <3>2. calls \in Seq(Tool) /\ Len(calls) <= MaxCalls
      <4>1. n \in Nat /\ n <= MaxCalls  OBVIOUS
      <4>2. calls \in Seq(Tool)  BY <4>1, IsASeq
      <4> QED BY <4>1, <4>2, LenProperties
    <3>3. coda[q] = <<>>  BY <2>1, <3>1 DEF Book
    <3>4. \A t \in Tool : allowance[q][t] = 0
      BY <2>1, <3>3, NothingLeft DEF Book
    <3>5. ASSUME NEW t \in Tool
          PROVE  /\ a[t] = IF perNome[q][t] = "writes" THEN 0 ELSE Cardinality(CallsLeft(calls, 1, t))
                 /\ a[t] \in Int
      <4>1. CallsLeft(calls, 1, t) = {i \in DOMAIN calls : calls[i] = t}
        BY <3>2 DEF CallsLeft
      <4>2. Cardinality(CallsLeft(calls, 1, t)) \in Int  BY <3>2, LeftFinite
      <4>3. a[t] = IF perNome[q][t] = "writes" THEN allowance[q][t]
                   ELSE allowance[q][t] + Cardinality({i \in DOMAIN calls : calls[i] = t})
        OBVIOUS
      <4> HIDE DEF a
      <4>4. allowance[q][t] = 0  BY <3>4
      <4>5. CASE perNome[q][t] = "writes"  BY ONLY <4>3, <4>4, <4>5
      <4>6. CASE perNome[q][t] # "writes"
        <5>1. a[t] = 0 + Cardinality(CallsLeft(calls, 1, t))
          BY ONLY <4>1, <4>3, <4>4, <4>6
        <5> QED BY ONLY <4>2, <4>6, <5>1
      <4> QED BY <4>5, <4>6
    <3>6. a \in [Tool -> Int]
      <4>1. a = [t \in Tool |-> a[t]]  OBVIOUS
      <4> HIDE DEF a
      <4> QED BY <3>5, <4>1
    <3> HIDE DEF a
    <3>7. Book("running", perNome[q], calls, a)  BY <3>5, <3>6 DEF Book, First
    <3> QED BY <1>4, <2>1, <2>2, <3>1, <3>2, <3>7
  <2>9. ASSUME NEW approvata \in BOOLEAN, Conferma(q, approvata) PROVE AssistantInv'
    BY <2>9, ConfirmKeepsInv
  <2> QED BY <1>5, <2>3, <2>4, <2>5, <2>6, <2>7, <2>8, <2>9
<1>6. CASE UNCHANGED assistantVars
  BY <1>6 DEF assistantVars, Books, Asked
<1> QED BY <1>1, <1>2, <1>3, <1>5, <1>6 DEF AssistantNext

LEMMA AssistantHolds == AssistantSpec => []AssistantInv
<1>1. AssistantInit => AssistantInv
  <2> SUFFICES ASSUME AssistantInit PROVE AssistantInv  OBVIOUS
  <2> USE AssistantAssumption DEF AssistantInit
  <2>1. \A q \in Question, t \in Tool :
          Cardinality(CallsLeft(coda[q], First(loop[q]), t)) = 0
    BY NothingLeft
  <2>2. Books
    BY <2>1 DEF Books, Book
  <2>3. \A q \in Question : coda[q] \in Seq(Tool) /\ Len(coda[q]) <= MaxCalls
    OBVIOUS
  <2>4. conferme \in Seq(Question) /\ Len(conferme) <= MaxConferme
    OBVIOUS
  <2>5. AssistantShape  BY <2>3, <2>4 DEF AssistantShape, Does
  <2>6. Asked  BY DEF Asked
  <2> QED BY <2>2, <2>5, <2>6 DEF AssistantInv
<1> QED BY <1>1, StepKeepsAssistant, PTL DEF AssistantSpec

\* A call of the model is executed at most once, and one to a tool that wrote when
\* the session began only as the user confirmed it (sessione_richiesta.js,
\* gateway_ai.js): for any questions, tools and limits.
THEOREM CallsStayAllowed == AssistantSpec => []CallsRunAsAllowed
<1>1. AssistantInv => CallsRunAsAllowed
  <2> SUFFICES ASSUME AssistantInv, NEW q \in Question, NEW t \in Tool
               PROVE  allowance[q][t] >= 0
    BY DEF CallsRunAsAllowed
  <2>1. Book(loop[q], perNome[q], coda[q], allowance[q]) /\ coda[q] \in Seq(Tool)
    BY DEF AssistantInv, Books, AssistantShape
  <2>2. First(loop[q]) \in Nat  BY DEF First
  <2>3. Cardinality(CallsLeft(coda[q], First(loop[q]), t)) \in 0..Len(coda[q])
    BY ONLY <2>1, <2>2, LeftFinite
  <2>4. Len(coda[q]) \in Nat  BY <2>1, LenProperties
  <2>5. Cardinality(CallsLeft(coda[q], First(loop[q]), t)) \in Nat
    BY ONLY <2>3, <2>4
  <2> QED BY <2>1, <2>5 DEF Book
<1> QED BY <1>1, AssistantHolds, PTL

\* Every variable of AssistantLoop keeps its type; the calls left are never more
\* than one answer of the model may make.
THEOREM AssistantTypes == AssistantSpec => []AssistantTypeOK
<1>1. AssistantInv => AssistantTypeOK
  <2> SUFFICES ASSUME AssistantInv PROVE AssistantTypeOK  OBVIOUS
  <2> USE AssistantAssumption DEF AssistantInv, AssistantShape
  <2>1. MaxCalls <= Calls /\ Calls \in Nat
    <3>1. MaxPassi \in Nat /\ MaxPassi >= 1 /\ MaxCalls \in Nat  OBVIOUS
    <3> QED BY ONLY <3>1, SMTT(30) DEF Calls
  <2>2. ASSUME NEW q \in Question, NEW t \in Tool
        PROVE  allowance[q][t] \in (-Calls)..Calls
    <3>1. /\ Book(loop[q], perNome[q], coda[q], allowance[q])
          /\ coda[q] \in Seq(Tool) /\ Len(coda[q]) <= MaxCalls
      BY DEF Books
    <3>5. First(loop[q]) \in Nat  BY DEF First
    <3>2. Cardinality(CallsLeft(coda[q], First(loop[q]), t)) \in 0..Len(coda[q])
      BY ONLY <3>1, <3>5, LeftFinite
    <3>3. Len(coda[q]) \in Nat /\ MaxCalls \in Nat  BY <3>1, LenProperties
    <3>4. allowance[q][t] \in 0..MaxCalls
      <4>1. CASE perNome[q][t] = "writes"
        <5>1. allowance[q][t] = 0  BY <3>1, <4>1 DEF Book
        <5> QED BY <3>3, <5>1
      <4>2. CASE perNome[q][t] # "writes"
        <5>1. allowance[q][t] = Cardinality(CallsLeft(coda[q], First(loop[q]), t))
          BY <3>1, <4>2 DEF Book
        <5>2. Len(coda[q]) <= MaxCalls  BY <3>1
        <5> QED BY ONLY <3>2, <3>3, <5>1, <5>2
      <4> QED BY <4>1, <4>2
    <3> QED BY <2>1, <3>3, <3>4
  <2>3. allowance \in [Question -> [Tool -> (-Calls)..Calls]]
    <3>1. \A q \in Question : allowance[q] \in [Tool -> (-Calls)..Calls]
      BY <2>2
    <3> QED BY <3>1
  <2> QED BY <2>3 DEF AssistantTypeOK
<1> QED BY <1>1, AssistantHolds, PTL

-----------------------------------------------------------------------------
\* AppStore

Tasks == [kind : Kinds, step : Steps, version : 0..MaxVersion,
          staged : 0..MaxVersion, attempt : 0..MaxAttempts]

\* An update waits for its next attempt only while one is left, and an
\* installation has a version.
Fit(t) == /\ t.step = "waiting" => t.attempt < MaxAttempts
          /\ t.kind = "install" => t.version # 0
FitTasks == {t \in Tasks : Fit(t)}
StoreShape == StoreTypeOK /\ task \in [Op -> FitTasks]

LEMMA TaskFields ==
  ASSUME StoreShape, NEW o \in Op
  PROVE  /\ task[o] \in Tasks /\ Fit(task[o])
         /\ task[o].version \in 0..MaxVersion /\ task[o].staged \in 0..MaxVersion
         /\ task[o].attempt \in 0..MaxAttempts /\ task[o].step \in Steps
         /\ task[o].kind \in Kinds
<1>1. task[o] \in Tasks /\ Fit(task[o])
  BY DEF StoreShape, FitTasks
<1> QED BY <1>1 DEF Tasks

LEMMA TaskMoved ==
  ASSUME StoreShape, NEW o \in Op, NEW t \in FitTasks, task' = [task EXCEPT ![o] = t]
  PROVE  task' \in [Op -> FitTasks]
BY DEF StoreShape

LEMMA NoOpFits ==
  ASSUME StoreAssumption
  PROVE  NoOp \in FitTasks /\ NoOp.step = "idle" /\ 0 \in 0..MaxVersion /\ 1 \in 1..MaxVersion
<1>1. /\ 0 \in 0..MaxVersion /\ 0 \in 0..MaxAttempts /\ 1 \in 1..MaxVersion
      /\ "none" \in Kinds /\ "idle" \in Steps
  BY DEF StoreAssumption, Kinds, Steps
<1> QED BY <1>1 DEF NoOp, Tasks, FitTasks, Fit

LEMMA EndFits ==
  ASSUME StoreAssumption, StoreShape, NEW o \in Op, End(o)
  PROVE  task' \in [Op -> FitTasks]
<1>1. NoOp \in FitTasks
  BY NoOpFits
<1>2. task' = [task EXCEPT ![o] = NoOp]
  BY DEF End
<1> HIDE DEF NoOp
<1> QED BY <1>1, <1>2, TaskMoved

LEMMA GotoFits ==
  ASSUME StoreShape, NEW o \in Op, NEW s \in Steps,
         s = "waiting" => task[o].attempt < MaxAttempts, Goto(o, s)
  PROVE  task' \in [Op -> FitTasks]
<1> DEFINE t == [task[o] EXCEPT !.step = s]
<1>1. task[o] \in Tasks /\ Fit(task[o])
  BY TaskFields
<1>2. /\ t \in Tasks /\ t.step = s /\ t.attempt = task[o].attempt
      /\ t.kind = task[o].kind /\ t.version = task[o].version
  BY <1>1 DEF Tasks
<1>3. task' = [task EXCEPT ![o] = t]
  BY DEF Goto
<1> HIDE DEF t
<1>4. t \in FitTasks
  BY <1>1, <1>2 DEF FitTasks, Fit
<1> QED BY <1>3, <1>4, TaskMoved

LEMMA BeginFits ==
  ASSUME StoreAssumption, StoreShape, NEW o \in Op, NEW k \in Kinds,
         NEW s \in Steps \ {"waiting"}, NEW v \in 0..MaxVersion, k = "install" => v # 0,
         BeginOp(o, k, s, v)
  PROVE  task' \in [Op -> FitTasks] /\ disturbed' \in BOOLEAN
<1> DEFINE t == [kind |-> k, step |-> s, version |-> v, staged |-> 0, attempt |-> 1]
<1>1. 0 \in 0..MaxVersion /\ 1 \in 0..MaxAttempts
  BY DEF StoreAssumption
<1>2. t \in FitTasks
  BY <1>1 DEF Tasks, FitTasks, Fit
<1>3. task' = [task EXCEPT ![o] = t]
  BY DEF BeginOp
<1> HIDE DEF t
<1>4. task' \in [Op -> FitTasks]
  BY <1>2, <1>3, TaskMoved
<1>5. disturbed' \in BOOLEAN
  BY DEF BeginOp
<1> QED BY <1>4, <1>5

LEMMA SweptFits ==
  ASSUME StoreAssumption, StoreShape, NEW o \in Op, NEW s \in Steps \ {"waiting"}, task' = Swept(o, s)
  PROVE  task' \in [Op -> FitTasks]
<1>1. 0 \in 0..MaxVersion
  BY DEF StoreAssumption
<1>2. ASSUME NEW p \in Op PROVE task'[p] \in FitTasks
  <2>1. task[p] \in Tasks /\ Fit(task[p])
    BY TaskFields
  <2>2. task'[p] = [task[p] EXCEPT !.staged = 0, !.step = IF p = o THEN s ELSE @]
    BY DEF Swept
  <2>3. task'[p] \in Tasks
    BY <1>1, <2>1, <2>2 DEF Tasks
  <2>4. /\ task'[p].step = (IF p = o THEN s ELSE task[p].step)
        /\ task'[p].attempt = task[p].attempt
        /\ task'[p].kind = task[p].kind /\ task'[p].version = task[p].version
    BY <2>1, <2>2 DEF Tasks
  <2> QED BY <2>1, <2>3, <2>4 DEF FitTasks, Fit
<1>3. task' = [p \in Op |-> task'[p]]
  BY DEF Swept
<1> QED BY <1>2, <1>3

LEMMA StoreStarts == StoreAssumption /\ StoreInit => StoreShape
<1> SUFFICES ASSUME StoreAssumption, StoreInit PROVE StoreShape
  OBVIOUS
<1>1. NoOp \in FitTasks /\ NoOp.step = "idle" /\ 0 \in 0..MaxVersion /\ 1 \in 1..MaxVersion
  BY NoOpFits
<1> HIDE DEF NoOp
<1>2. task \in [Op -> FitTasks]
  BY <1>1 DEF StoreInit
<1>3. task \in [Op -> Tasks]
  BY <1>2 DEF FitTasks
<1>4. clears \in 0..MaxClears
  BY DEF StoreInit, StoreAssumption
<1> QED BY <1>1, <1>2, <1>3, <1>4 DEF StoreInit, StoreShape, StoreTypeOK, Version, Tasks

\* The places and the lock stay what they are declared to be.
LEMMA StoreShapeStep ==
  ASSUME StoreAssumption, StoreShape, [StoreNext]_storeVars
  PROVE  StoreShape'
<1> DEFINE Places == /\ {row, folder, running, queued} \subseteq 0..MaxVersion
                     /\ market \in Version /\ archived \subseteq Version
           Locks == lock \in {"free", "busy", "shown"} /\ clears \in 0..MaxClears
<1>1. Places /\ Locks /\ disturbed \in BOOLEAN /\ Version \subseteq 0..MaxVersion /\ 0 \in 0..MaxVersion
  BY DEF StoreShape, StoreTypeOK, Version, StoreAssumption
<1>2. \A o \in Op : /\ task[o].version \in 0..MaxVersion /\ task[o].staged \in 0..MaxVersion
                    /\ task[o].attempt \in 0..MaxAttempts
  BY TaskFields
<1>3. LoadOf \in 0..MaxVersion
  BY <1>1 DEF LoadOf
<1>4. ShowUntilCleared => lock' \in {"free", "busy", "shown"} /\ clears' \in 0..MaxClears
  BY <1>1, StoreAssumption DEF ShowUntilCleared
<1>5. task' \in [Op -> FitTasks] /\ Places' /\ Locks' /\ disturbed' \in BOOLEAN => StoreShape'
  BY DEF StoreShape, StoreTypeOK, Tasks, FitTasks
<1>6. task' = task => task' \in [Op -> FitTasks]
  BY DEF StoreShape
<1> HIDE DEF Places, Locks
<1>7. ASSUME NEW o \in Hand,
             StartInstall(o) \/ StartUninstall(o) \/ StartRollback(o) \/ StartRepair(o)
      PROVE  StoreShape'
  <2>1. o \in Op /\ {"reading", "swapping", "fetching"} \subseteq Steps \ {"waiting"}
        /\ {"install", "uninstall", "rollback", "repair"} \subseteq Kinds
    BY DEF Op, Steps, Kinds
  <2>2. \E k \in Kinds, s \in Steps \ {"waiting"}, v \in 0..MaxVersion :
          BeginOp(o, k, s, v) /\ (k = "install" => v # 0)
    <3>1. CASE StartInstall(o)
      <4>1. PICK v \in {market} \cup archived : BeginOp(o, "install", "reading", v)
        BY <3>1 DEF StartInstall
      <4>2. v \in 0..MaxVersion /\ v # 0
        BY <1>1, <4>1 DEF Places, Version
      <4> QED BY <2>1, <4>1, <4>2
    <3>2. CASE StartUninstall(o)
      BY <1>1, <2>1, <3>2 DEF StartUninstall
    <3>3. CASE StartRollback(o)
      <4>1. PICK v \in archived : BeginOp(o, "rollback", "swapping", v)
        BY <3>3 DEF StartRollback
      <4>2. v \in 0..MaxVersion
        BY <1>1, <4>1 DEF Places
      <4> QED BY <2>1, <4>1, <4>2
    <3>4. CASE StartRepair(o)
      BY <1>1, <2>1, <3>4 DEF StartRepair, Places
    <3> QED BY <1>7, <3>1, <3>2, <3>3, <3>4
  <2>3. task' \in [Op -> FitTasks] /\ disturbed' \in BOOLEAN
    BY <2>1, <2>2, BeginFits
  <2>4. Places' /\ Locks'
    BY <1>1, <1>7 DEF Places, Locks, StartInstall, StartUninstall, StartRollback, StartRepair
  <2> QED BY <1>5, <2>3, <2>4
<1>8. ASSUME NEW o \in Hand, HandStep(o) PROVE StoreShape'
  <2>1. o \in Op
    BY DEF Op
  <2>2. {"fetching", "swapping", "loading", "registering", "deleting"} \subseteq Steps \ {"waiting"}
    BY DEF Steps
  <2>3. disturbed' \in BOOLEAN
    BY <1>1, <1>8 DEF HandStep, TakeLock, InstallFails, Fetched, Swap, LoadInstalled, LoadFails,
                      Register, RemoveAll, DeleteRow, RollbackFails, RollbackSwap, RollbackLoad,
                      Repair, RepairLoad
  <2>4. Locks'
    BY <1>1, <1>4, <1>8 DEF Locks, HandStep, TakeLock, InstallFails, Fetched, Swap, LoadInstalled,
                      LoadFails, Register, RemoveAll, DeleteRow, RollbackFails, RollbackSwap,
                      RollbackLoad, Repair, RepairLoad
  <2>5. task' \in [Op -> FitTasks]
    <3> DEFINE Moves == \E s \in Steps \ {"waiting"} : Goto(o, s) \/ task' = Swept(o, s)
    <3>1. CASE End(o)
      BY <2>1, <3>1, EndFits
    <3>2. CASE Moves
      BY <2>1, <3>2, SweptFits, GotoFits
    <3>3. ASSUME Fetched(o) \/ LoadInstalled(o) PROVE task' \in [Op -> FitTasks]
      <4>1. PICK t : /\ task' = [task EXCEPT ![o] = t]
                     /\ t \in FitTasks
        <5>1. task[o] \in Tasks /\ Fit(task[o])
          BY <2>1, TaskFields
        <5>2. CASE Fetched(o)
          <6> DEFINE t == [task[o] EXCEPT !.step = "swapping", !.staged = task[o].version]
          <6>1. task' = [task EXCEPT ![o] = t]
            BY <5>2 DEF Fetched
          <6>2. /\ t \in Tasks /\ t.step = "swapping"
                /\ t.kind = task[o].kind /\ t.version = task[o].version
            BY <2>2, <5>1 DEF Tasks
          <6>3. t \in FitTasks
            BY <5>1, <6>2 DEF FitTasks, Fit
          <6> QED BY <6>1, <6>3
        <5>3. CASE LoadInstalled(o)
          <6> DEFINE v == IF folder = 0 THEN task[o].version ELSE folder
                     t == [task[o] EXCEPT !.step = "registering", !.version = v]
          <6>1. task' = [task EXCEPT ![o] = t]
            BY <5>3 DEF LoadInstalled
          <6>2. v \in 0..MaxVersion /\ (v = 0 => task[o].version = 0)
            BY <1>1, <1>2, <2>1 DEF Places
          <6> HIDE DEF v
          <6>3. /\ t \in Tasks /\ t.step = "registering"
                /\ t.kind = task[o].kind /\ t.version = v
            BY <2>2, <5>1, <6>2 DEF Tasks
          <6>4. t \in FitTasks
            BY <5>1, <6>2, <6>3 DEF FitTasks, Fit
          <6> QED BY <6>1, <6>4
        <5> QED BY <3>3, <5>2, <5>3
      <4> QED BY <2>1, <4>1, TaskMoved
    <3>4. End(o) \/ Moves \/ Fetched(o) \/ LoadInstalled(o)
      BY <1>8, <2>2 DEF HandStep, TakeLock, InstallFails, Swap, LoadFails, Register, RemoveAll,
                      DeleteRow, RollbackFails, RollbackSwap, RollbackLoad, Repair, RepairLoad
    <3> QED BY <3>1, <3>2, <3>3, <3>4
  <2>6. Places'
    <3> USE DEF Places
    <3>1. CASE TakeLock(o) \/ InstallFails(o) \/ LoadFails(o) \/ RollbackFails(o)
      BY <1>1, <3>1 DEF TakeLock, InstallFails, LoadFails, RollbackFails
    <3>2. CASE Fetched(o)
      <4>1. task[o].version \in Version
        <5>1. task[o].version # 0
          BY <2>1, <3>2, TaskFields DEF Fetched, At, Fit
        <5> QED BY <1>2, <2>1, <5>1 DEF Version
      <4> QED BY <1>1, <3>2, <4>1 DEF Fetched
    <3>3. CASE Swap(o) \/ Repair(o)
      BY <1>1, <1>2, <2>1, <3>3 DEF Swap, Repair
    <3>4. CASE LoadInstalled(o) \/ RollbackLoad(o) \/ RepairLoad(o)
      BY <1>1, <1>3, <3>4 DEF LoadInstalled, RollbackLoad, RepairLoad
    <3>5. CASE Register(o) \/ RollbackSwap(o)
      BY <1>1, <1>2, <2>1, <3>5 DEF Register, RollbackSwap
    <3>6. CASE RemoveAll(o) \/ DeleteRow(o)
      BY <1>1, <3>6 DEF RemoveAll, Removed, DeleteRow
    <3> QED BY <1>8, <3>1, <3>2, <3>3, <3>4, <3>5, <3>6 DEF HandStep
  <2> QED BY <1>5, <2>3, <2>4, <2>5, <2>6
<1>9. ASSUME UpdateStep PROVE StoreShape'
  <2>1. Updater \in Op
    BY DEF Op
  <2>2. disturbed' \in BOOLEAN
    BY <1>1, <1>9 DEF UpdateStep, UpdateFetched, UpdateDeletes, UpdateRenames, UpdateFails, Retry,
                      UpdateRecords, UpdateLoads
  <2>3. Locks'
    BY <1>1, <1>4, <1>9 DEF Locks, UpdateStep, UpdateFetched, UpdateDeletes, UpdateRenames,
                      UpdateFails, Retry, UpdateRecords, UpdateLoads
  <2>4. Places'
    BY <1>1, <1>2, <1>3, <1>9, <2>1 DEF Places, UpdateStep, UpdateFetched, UpdateDeletes,
                      UpdateRenames, UpdateFails, Retry, UpdateRecords, UpdateLoads
  <2>5. task' \in [Op -> FitTasks]
    <3>0. {"swapping", "renaming", "recording", "loading", "waiting", "fetching"} \subseteq Steps
      BY DEF Steps
    <3>1. task[Updater] \in Tasks /\ Fit(task[Updater])
      BY <2>1, TaskFields
    <3>2. CASE UpdateDeletes \/ UpdateRecords
      BY <2>1, <3>0, <3>2, GotoFits DEF UpdateDeletes, UpdateRecords
    <3>3. CASE UpdateLoads
      BY <2>1, <3>3, EndFits DEF UpdateLoads
    <3>4. CASE UpdateFails
      <4>1. CASE task[Updater].attempt < MaxAttempts
        BY <2>1, <3>0, <3>4, <4>1, GotoFits DEF UpdateFails
      <4>2. CASE ~(task[Updater].attempt < MaxAttempts)
        BY <2>1, <3>4, <4>2, EndFits DEF UpdateFails
      <4> QED BY <4>1, <4>2
    <3>5. ASSUME UpdateFetched \/ UpdateRenames \/ Retry PROVE task' \in [Op -> FitTasks]
      <4>1. PICK t : /\ task' = [task EXCEPT ![Updater] = t]
                     /\ t \in Tasks /\ t.step # "waiting"
                     /\ t.kind = task[Updater].kind /\ t.version = task[Updater].version
        <5>1. CASE UpdateFetched
          <6> DEFINE t == [task[Updater] EXCEPT !.step = "swapping", !.staged = market]
          <6>1. task' = [task EXCEPT ![Updater] = t]
            BY <5>1 DEF UpdateFetched
          <6>2. market \in 0..MaxVersion
            BY <1>1 DEF Places
          <6>3. /\ t \in Tasks /\ t.step # "waiting"
                /\ t.kind = task[Updater].kind /\ t.version = task[Updater].version
            BY <3>0, <3>1, <6>2 DEF Tasks
          <6> QED BY <6>1, <6>3
        <5>2. CASE UpdateRenames
          <6> DEFINE t == [task[Updater] EXCEPT !.step = "recording", !.staged = 0]
          <6>1. task' = [task EXCEPT ![Updater] = t]
            BY <5>2 DEF UpdateRenames
          <6>2. /\ t \in Tasks /\ t.step # "waiting"
                /\ t.kind = task[Updater].kind /\ t.version = task[Updater].version
            BY <1>1, <3>0, <3>1 DEF Tasks
          <6> QED BY <6>1, <6>2
        <5>3. CASE Retry
          <6> DEFINE n == task[Updater].attempt + 1
                     t == [task[Updater] EXCEPT !.step = "fetching", !.staged = 0, !.attempt = n]
          <6>1. task' = [task EXCEPT ![Updater] = t]
            BY <5>3 DEF Retry
          <6>2. n \in 0..MaxAttempts
            BY <1>2, <2>1, <3>1, <5>3 DEF Retry, At, Fit, StoreAssumption
          <6> HIDE DEF n
          <6>3. /\ t \in Tasks /\ t.step # "waiting"
                /\ t.kind = task[Updater].kind /\ t.version = task[Updater].version
            BY <1>1, <3>0, <3>1, <6>2 DEF Tasks
          <6> QED BY <6>1, <6>3
        <5> QED BY <3>5, <5>1, <5>2, <5>3
      <4>2. t \in FitTasks
        BY <3>1, <4>1 DEF FitTasks, Fit
      <4> QED BY <2>1, <4>1, <4>2, TaskMoved
    <3> QED BY <1>9, <3>2, <3>3, <3>4, <3>5 DEF UpdateStep
  <2> QED BY <1>5, <2>2, <2>3, <2>4, <2>5
<1>10. ASSUME TakeQueued PROVE StoreShape'
  <2>1. Updater \in Op /\ "update" \in Kinds /\ "fetching" \in Steps \ {"waiting"}
        /\ queued \in 0..MaxVersion
    BY <1>1 DEF Op, Kinds, Steps, Places
  <2>2. BeginOp(Updater, "update", "fetching", queued)
    BY <1>10 DEF TakeQueued
  <2>3. task' \in [Op -> FitTasks] /\ disturbed' \in BOOLEAN
    BY <2>1, <2>2, BeginFits
  <2>4. Places' /\ Locks'
    BY <1>1, <1>10 DEF TakeQueued, Places, Locks
  <2> QED BY <1>5, <2>3, <2>4
<1>11. ASSUME RunCheck \/ ClearLock \/ RemoteUninstall \/ RemoteInstall \/ CallLoads \/ MarketMoves
       PROVE  StoreShape'
  <2>1. task' = task
    BY <1>11 DEF RunCheck, ClearLock, RemoteUninstall, RemoteInstall, CallLoads, MarketMoves
  <2>2. disturbed' \in BOOLEAN
    BY <1>1, <1>11 DEF RunCheck, ClearLock, RemoteUninstall, RemoteInstall, CallLoads, MarketMoves
  <2>3. Locks'
    BY <1>1, <1>11, StoreAssumption DEF Locks, StoreAssumption, RunCheck, ClearLock, RemoteUninstall,
                      RemoteInstall, CallLoads, MarketMoves
  <2>4. Places'
    <3>1. CASE RunCheck
      BY <1>1, <3>1 DEF Places, RunCheck
    <3>2. CASE ClearLock
      BY <1>1, <3>2 DEF Places, ClearLock
    <3>3. CASE RemoteUninstall
      BY <1>1, <3>3 DEF Places, RemoteUninstall, Removed
    <3>4. CASE RemoteInstall
      BY <1>1, <3>4 DEF Places, RemoteInstall
    <3>5. CASE CallLoads
      BY <1>1, <3>5 DEF Places, CallLoads
    <3>6. CASE MarketMoves
      <4>1. market' \in Version
        BY <1>1, <3>6 DEF Places, MarketMoves, Version, StoreAssumption
      <4> QED BY <1>1, <3>6, <4>1 DEF Places, MarketMoves
    <3> QED BY <1>11, <3>1, <3>2, <3>3, <3>4, <3>5, <3>6
  <2> QED BY <1>5, <1>6, <2>1, <2>2, <2>3, <2>4
<1>12. ASSUME OthersSweep PROVE StoreShape'
  <2>1. ASSUME NEW p \in Op PROVE task'[p] \in FitTasks
    <3>1. task[p] \in Tasks /\ Fit(task[p])
      BY TaskFields
    <3>2. task'[p] = [task[p] EXCEPT !.staged = 0]
      BY <1>12 DEF OthersSweep
    <3>3. /\ task'[p] \in Tasks /\ task'[p].step = task[p].step
          /\ task'[p].attempt = task[p].attempt
          /\ task'[p].kind = task[p].kind /\ task'[p].version = task[p].version
      BY <1>1, <3>1, <3>2 DEF Tasks
    <3> QED BY <3>1, <3>3 DEF FitTasks, Fit
  <2>2. task' = [p \in Op |-> task'[p]]
    BY <1>12 DEF OthersSweep
  <2>3. task' \in [Op -> FitTasks]
    BY <2>1, <2>2
  <2>4. Places' /\ Locks' /\ disturbed' \in BOOLEAN
    BY <1>1, <1>12 DEF Places, Locks, OthersSweep
  <2> QED BY <1>5, <2>3, <2>4
<1>13. ASSUME Restart PROVE StoreShape'
  <2>1. NoOp \in FitTasks
    BY NoOpFits
  <2> HIDE DEF NoOp
  <2>2. task' \in [Op -> FitTasks]
    BY <1>13, <2>1 DEF Restart
  <2>3. Places' /\ Locks'
    <3>1. folder' \in 0..MaxVersion
      BY <1>1, <1>13 DEF Places, Restart
    <3>2. running' \in 0..MaxVersion
      BY <1>1, <1>13, <3>1 DEF Restart
    <3>3. /\ queued' = 0 /\ lock' = "free" /\ clears' = 0
          /\ row' = row /\ market' = market /\ archived' = archived
      BY <1>13 DEF Restart
    <3>4. 0 \in 0..MaxClears
      BY DEF StoreAssumption
    <3>5. Places'
      BY <1>1, <3>1, <3>2, <3>3 DEF Places
    <3>6. Locks'
      BY <3>3, <3>4 DEF Locks
    <3> QED BY <3>5, <3>6
  <2>4. disturbed' \in BOOLEAN
    BY <1>1, <1>13 DEF Restart
  <2> QED BY <1>5, <2>2, <2>3, <2>4
<1>14. ASSUME UNCHANGED storeVars PROVE StoreShape'
  BY <1>14 DEF storeVars, StoreShape, StoreTypeOK
<1> QED BY <1>7, <1>8, <1>9, <1>10, <1>11, <1>12, <1>13, <1>14 DEF StoreNext

\* The row r, the folder f and the code g in memory are of one version.
Agreed(r, f, g) == r = f /\ g \in {0, f}

\* What an operation t finds at each of its places when nothing disturbed it.
Phase(t, r, f, g) ==
  \/ /\ t.kind = "install"
     /\ \/ t.step \in {"reading", "fetching"} /\ Agreed(r, f, g)
        \/ t.step = "swapping" /\ Agreed(r, f, g) /\ g = 0 /\ t.staged # 0
        \/ t.step = "loading" /\ f # 0 /\ g = 0
        \/ t.step = "registering" /\ f = t.version /\ g = f
  \/ /\ t.kind = "uninstall"
     /\ \/ t.step = "reading" /\ Agreed(r, f, g)
        \/ t.step = "deleting" /\ f = 0 /\ g = 0
  \/ /\ t.kind = "rollback"
     /\ \/ t.step = "swapping" /\ Agreed(r, f, g) /\ r # 0 /\ g = 0
        \/ t.step = "loading" /\ Agreed(r, f, g)
  \/ /\ t.kind = "update"
     /\ \/ t.step \in {"fetching", "waiting", "loading"} /\ Agreed(r, f, g)
        \/ t.step = "swapping" /\ Agreed(r, f, g) /\ t.staged = t.version /\ t.staged # 0
        \/ t.step = "renaming" /\ f = 0 /\ g = 0 /\ t.staged = t.version /\ t.staged # 0
        \/ t.step = "recording" /\ f = t.version /\ g = 0

\* Until something disturbs them operations come one at a time, and each finds
\* what it left.
Sound ==
  ~disturbed =>
    /\ \A o, p \in Op : ~Idle(o) /\ ~Idle(p) => o = p
    /\ Quiescent => Agreed(row, folder, running)
    /\ \A o \in Op : ~Idle(o) => Phase(task[o], row, folder, running)

StoreInv == StoreShape /\ Sound

LEMMA OneOperation ==
  ASSUME NEW o \in Op,
         \A p \in Op \ {o} : task'[p].step = "idle",
         task'[o].step = "idle" => Agreed(row', folder', running'),
         task'[o].step # "idle" => Phase(task'[o], row', folder', running')
  PROVE  Sound'
<1>1. \A p \in Op : ~Idle(p)' => p = o
  BY DEF Idle
<1>2. Quiescent' => Agreed(row', folder', running')
  BY DEF Quiescent, Idle
<1>3. \A p \in Op : ~Idle(p)' => Phase(task'[p], row', folder', running')
  BY <1>1 DEF Idle
<1> QED BY <1>1, <1>2, <1>3 DEF Sound

\* An operation that begins undisturbed begins when there is none.
LEMMA BeginKeepsSound ==
  ASSUME StoreShape, Sound, ~disturbed', NEW o \in Op, NEW k, NEW s, NEW v, BeginOp(o, k, s, v)
  PROVE  /\ Agreed(row, folder, running)
         /\ task'[o] = [kind |-> k, step |-> s, version |-> v, staged |-> 0, attempt |-> 1]
         /\ \A p \in Op \ {o} : task'[p].step = "idle"
<1>1. ~disturbed /\ Alone(o) /\ Idle(o)
  BY DEF BeginOp
<1>2. Quiescent
  BY <1>1 DEF Alone, Quiescent
<1>3. /\ task'[o] = [kind |-> k, step |-> s, version |-> v, staged |-> 0, attempt |-> 1]
      /\ \A p \in Op \ {o} : task'[p] = task[p]
  BY DEF BeginOp, StoreShape
<1> QED BY <1>1, <1>2, <1>3 DEF Sound, Alone, Idle

\* The steps of an operation under way: it is the only one.
LEMMA UnderWay ==
  ASSUME StoreShape, Sound, ~disturbed, NEW o \in Op, task[o].step # "idle"
  PROVE  /\ \A p \in Op \ {o} : task[p].step = "idle"
         /\ Phase(task[o], row, folder, running)
         /\ ~Quiescent
BY DEF Sound, Idle, Quiescent

LEMMA EndMoves ==
  ASSUME StoreShape, NEW o \in Op, End(o)
  PROVE  task'[o].step = "idle" /\ \A p \in Op \ {o} : task'[p] = task[p]
<1>1. task' = [task EXCEPT ![o] = NoOp]
  BY DEF End
<1>2. NoOp.step = "idle"
  BY DEF NoOp
<1> HIDE DEF NoOp
<1> QED BY <1>1, <1>2 DEF StoreShape

LEMMA GotoMoves ==
  ASSUME StoreShape, NEW o \in Op, NEW s, Goto(o, s)
  PROVE  /\ task'[o].step = s /\ task'[o].kind = task[o].kind
         /\ task'[o].version = task[o].version /\ task'[o].staged = task[o].staged
         /\ \A p \in Op \ {o} : task'[p] = task[p]
<1>1. task[o] \in Tasks
  BY TaskFields
<1>2. task'[o] = [task[o] EXCEPT !.step = s] /\ \A p \in Op \ {o} : task'[p] = task[p]
  BY DEF StoreShape, Goto
<1> QED BY <1>1, <1>2 DEF Tasks

LEMMA SweptMoves ==
  ASSUME StoreShape, NEW o \in Op, NEW s, task' = Swept(o, s)
  PROVE  /\ task'[o].step = s /\ task'[o].kind = task[o].kind
         /\ \A p \in Op \ {o} : task'[p].step = task[p].step
<1>1. \A p \in Op : task[p] \in Tasks
  BY TaskFields
<1>2. \A p \in Op : task'[p] = [task[p] EXCEPT !.staged = 0, !.step = IF p = o THEN s ELSE @]
  BY DEF Swept
<1> QED BY <1>1, <1>2 DEF Tasks

\* The steps of an operation started by hand.
LEMMA HandKeepsSound ==
  ASSUME StoreShape, Sound, NEW o \in Hand, HandStep(o), ~disturbed'
  PROVE  Sound'
<1>1. o \in Op /\ task[o] \in Tasks
  BY TaskFields DEF Op
<1>2. ~disturbed
  BY DEF HandStep, TakeLock, InstallFails, Fetched, Swap, LoadInstalled, LoadFails, Register,
         RemoveAll, DeleteRow, RollbackFails, RollbackSwap, RollbackLoad, Repair, RepairLoad
<1>3. task[o].step # "idle"
  BY DEF HandStep, TakeLock, InstallFails, Fetched, Swap, LoadInstalled, LoadFails, Register,
         RemoveAll, DeleteRow, RollbackFails, RollbackSwap, RollbackLoad, Repair, RepairLoad, At
<1>4. /\ \A p \in Op \ {o} : task[p].step = "idle"
      /\ Phase(task[o], row, folder, running)
  BY <1>1, <1>2, <1>3, UnderWay
<1>5. CASE TakeLock(o)
  <2>1. Goto(o, "fetching") /\ At(o, "install", "reading") /\ UNCHANGED <<row, folder, running>>
    BY <1>5 DEF TakeLock
  <2>2. Agreed(row, folder, running)
    BY <1>4, <2>1 DEF Phase, At
  <2>3. /\ task'[o].step = "fetching" /\ task'[o].kind = "install"
        /\ \A p \in Op \ {o} : task'[p].step = "idle"
    BY <1>1, <1>4, <2>1, GotoMoves DEF At
  <2>4. Phase(task'[o], row', folder', running')
    BY <2>1, <2>2, <2>3 DEF Phase
  <2> QED BY <1>1, <2>3, <2>4, OneOperation
<1>6. CASE InstallFails(o) \/ RollbackFails(o)
  <2>1. End(o) /\ UNCHANGED <<row, folder, running>>
    BY <1>6 DEF InstallFails, RollbackFails
  <2>2. Agreed(row, folder, running)
    BY <1>4, <1>6 DEF Phase, At, InstallFails, RollbackFails
  <2> QED BY <1>1, <1>4, <2>1, <2>2, EndMoves, OneOperation
<1>7. CASE Fetched(o)
  <2>1. /\ At(o, "install", "fetching") /\ running' = 0 /\ UNCHANGED <<row, folder>>
        /\ task'[o] = [task[o] EXCEPT !.step = "swapping", !.staged = task[o].version]
        /\ \A p \in Op \ {o} : task'[p] = task[p]
    BY <1>1, <1>7 DEF Fetched, StoreShape
  <2>2. Agreed(row, folder, running')
    BY <1>4, <2>1 DEF Phase, At, Agreed
  <2>3. task[o].version # 0
    BY <1>1, <2>1, TaskFields DEF Fit, At
  <2>4. task'[o].step = "swapping" /\ task'[o].kind = "install" /\ task'[o].staged # 0
    BY <1>1, <2>1, <2>3 DEF Tasks, At
  <2>5. Phase(task'[o], row', folder', running')
    BY <2>1, <2>2, <2>4 DEF Phase
  <2>6. \A p \in Op \ {o} : task'[p].step = "idle"
    BY <1>4, <2>1
  <2> QED BY <1>1, <2>4, <2>5, <2>6, OneOperation
<1>8. CASE Swap(o)
  <2>1. At(o, "install", "swapping") /\ UNCHANGED <<row, running>> /\ running = 0 /\ task[o].staged # 0
    BY <1>4, <1>8 DEF Swap, Phase, At
  <2>2. folder' = task[o].staged /\ task' = Swept(o, "loading")
    BY <1>8, <2>1 DEF Swap
  <2>3. /\ task'[o].step = "loading" /\ task'[o].kind = "install"
        /\ \A p \in Op \ {o} : task'[p].step = "idle"
    BY <1>1, <1>4, <2>1, <2>2, SweptMoves DEF At
  <2>4. Phase(task'[o], row', folder', running')
    BY <2>1, <2>2, <2>3 DEF Phase
  <2> QED BY <1>1, <2>3, <2>4, OneOperation
<1>9. CASE LoadInstalled(o)
  <2>1. /\ At(o, "install", "loading") /\ folder # 0 /\ running = 0 /\ running' = folder
        /\ UNCHANGED <<row, folder>>
        /\ task'[o] = [task[o] EXCEPT !.step = "registering", !.version = folder]
        /\ \A p \in Op \ {o} : task'[p] = task[p]
    BY <1>1, <1>4, <1>9 DEF LoadInstalled, LoadOf, StoreShape, Phase, At
  <2>2. task'[o].step = "registering" /\ task'[o].kind = "install" /\ task'[o].version = folder
    BY <1>1, <2>1 DEF Tasks, At
  <2>3. Phase(task'[o], row', folder', running')
    BY <2>1, <2>2 DEF Phase
  <2>4. \A p \in Op \ {o} : task'[p].step = "idle"
    BY <1>4, <2>1
  <2> QED BY <1>1, <2>2, <2>3, <2>4, OneOperation
<1>10. CASE LoadFails(o)
  <2>1. End(o) /\ UNCHANGED <<row, folder, running>> /\ running = 0 /\ row = folder
    BY <1>10 DEF LoadFails
  <2> QED BY <1>1, <1>4, <2>1, EndMoves, OneOperation DEF Agreed
<1>11. CASE Register(o)
  <2>1. End(o) /\ row' = folder /\ running = folder /\ UNCHANGED <<folder, running>>
    BY <1>4, <1>11 DEF Register, Phase, At
  <2> QED BY <1>1, <1>4, <2>1, EndMoves, OneOperation DEF Agreed
<1>12. CASE RemoveAll(o)
  <2>1. Goto(o, "deleting") /\ folder' = 0 /\ running' = 0 /\ task[o].kind = "uninstall"
    BY <1>12 DEF RemoveAll, Removed, At
  <2>2. /\ task'[o].step = "deleting" /\ task'[o].kind = "uninstall"
        /\ \A p \in Op \ {o} : task'[p].step = "idle"
    BY <1>1, <1>4, <2>1, GotoMoves
  <2>3. Phase(task'[o], row', folder', running')
    BY <2>1, <2>2 DEF Phase
  <2> QED BY <1>1, <2>2, <2>3, OneOperation
<1>13. CASE DeleteRow(o)
  <2>1. End(o) /\ row' = 0 /\ folder = 0 /\ running = 0 /\ UNCHANGED <<folder, running>>
    BY <1>4, <1>13 DEF DeleteRow, Phase, At
  <2> QED BY <1>1, <1>4, <2>1, EndMoves, OneOperation DEF Agreed
<1>14. CASE RollbackSwap(o)
  <2>1. /\ Goto(o, "loading") /\ task[o].kind = "rollback" /\ row # 0
        /\ folder' = task[o].version /\ row' = task[o].version /\ running' = 0
    BY <1>4, <1>14 DEF RollbackSwap, Phase, At
  <2>2. /\ task'[o].step = "loading" /\ task'[o].kind = "rollback"
        /\ \A p \in Op \ {o} : task'[p].step = "idle"
    BY <1>1, <1>4, <2>1, GotoMoves
  <2>3. Phase(task'[o], row', folder', running')
    BY <2>1, <2>2 DEF Phase, Agreed
  <2> QED BY <1>1, <2>2, <2>3, OneOperation
<1>15. CASE RollbackLoad(o)
  <2>1. End(o) /\ UNCHANGED <<row, folder>> /\ running' \in {running, LoadOf}
    BY <1>15 DEF RollbackLoad
  <2>2. Agreed(row, folder, running)
    BY <1>4, <1>15 DEF RollbackLoad, Phase, At
  <2>3. Agreed(row, folder, running')
    BY <2>1, <2>2 DEF Agreed, LoadOf
  <2> QED BY <1>1, <1>4, <2>1, <2>3, EndMoves, OneOperation
<1>16. CASE Repair(o) \/ RepairLoad(o)
  BY <1>4, <1>16 DEF Repair, RepairLoad, Phase, At
<1> QED BY <1>5, <1>6, <1>7, <1>8, <1>9, <1>10, <1>11, <1>12, <1>13, <1>14, <1>15, <1>16 DEF HandStep

\* The steps of an update.
LEMMA UpdateKeepsSound ==
  ASSUME StoreAssumption, StoreShape, Sound, UpdateStep, ~disturbed'
  PROVE  Sound'
<1> DEFINE o == Updater
<1>1. o \in Op /\ task[o] \in Tasks
  BY TaskFields DEF Op
<1>2. ~disturbed
  BY DEF UpdateStep, UpdateFetched, UpdateDeletes, UpdateRenames, UpdateFails, Retry,
         UpdateRecords, UpdateLoads
<1>3. task[o].step # "idle"
  BY DEF UpdateStep, UpdateFetched, UpdateDeletes, UpdateRenames, UpdateFails, Retry,
         UpdateRecords, UpdateLoads, At
<1> HIDE DEF o
<1>4. /\ \A p \in Op \ {o} : task[p].step = "idle"
      /\ Phase(task[o], row, folder, running)
  BY <1>1, <1>2, <1>3, UnderWay
<1> USE DEF o
<1>5. CASE UpdateFetched
  <2>1. /\ At(o, "update", "fetching") /\ UNCHANGED <<row, folder, running>>
        /\ market = task[o].version
        /\ task'[o] = [task[o] EXCEPT !.step = "swapping", !.staged = market]
        /\ \A p \in Op \ {o} : task'[p] = task[p]
    BY <1>1, <1>5 DEF UpdateFetched, StoreShape
  <2>2. Agreed(row, folder, running)
    BY <1>4, <2>1 DEF Phase, At
  <2>3. market # 0
    BY DEF StoreShape, StoreTypeOK, Version
  <2>4. /\ task'[o].step = "swapping" /\ task'[o].kind = "update"
        /\ task'[o].staged = market /\ task'[o].version = task[o].version
    BY <1>1, <2>1 DEF Tasks, At
  <2>5. Phase(task'[o], row', folder', running')
    BY <2>1, <2>2, <2>3, <2>4 DEF Phase
  <2>6. \A p \in Op \ {o} : task'[p].step = "idle"
    BY <1>4, <2>1
  <2> QED BY <1>1, <2>4, <2>5, <2>6, OneOperation
<1>6. CASE UpdateDeletes
  <2>1. /\ Goto(o, "renaming") /\ task[o].kind = "update" /\ folder' = 0 /\ running' = 0
        /\ task[o].staged = task[o].version /\ task[o].staged # 0
    BY <1>4, <1>6 DEF UpdateDeletes, Phase, At
  <2>2. /\ task'[o].step = "renaming" /\ task'[o].kind = "update"
        /\ task'[o].staged = task[o].staged /\ task'[o].version = task[o].version
        /\ \A p \in Op \ {o} : task'[p].step = "idle"
    BY <1>1, <1>4, <2>1, GotoMoves
  <2>3. Phase(task'[o], row', folder', running')
    BY <2>1, <2>2 DEF Phase
  <2> QED BY <1>1, <2>2, <2>3, OneOperation
<1>7. CASE UpdateRenames
  <2>1. /\ At(o, "update", "renaming") /\ UNCHANGED <<row, running>> /\ running = 0
        /\ folder' = task[o].version
        /\ task'[o] = [task[o] EXCEPT !.step = "recording", !.staged = 0]
        /\ \A p \in Op \ {o} : task'[p] = task[p]
    BY <1>1, <1>4, <1>7 DEF UpdateRenames, StoreShape, Phase, At
  <2>2. /\ task'[o].step = "recording" /\ task'[o].kind = "update"
        /\ task'[o].version = task[o].version
    BY <1>1, <2>1 DEF Tasks, At
  <2>3. Phase(task'[o], row', folder', running')
    BY <2>1, <2>2 DEF Phase
  <2>4. \A p \in Op \ {o} : task'[p].step = "idle"
    BY <1>4, <2>1
  <2> QED BY <1>1, <2>2, <2>3, <2>4, OneOperation
<1>8. CASE UpdateFails
  <2>1. At(o, "update", "fetching") /\ UNCHANGED <<row, folder, running>>
    BY <1>4, <1>8 DEF UpdateFails, Renamable, Phase, At
  <2>2. Agreed(row', folder', running')
    BY <1>4, <2>1 DEF Phase, At
  <2>3. CASE Goto(o, "waiting")
    <3>1. /\ task'[o].step = "waiting" /\ task'[o].kind = "update"
          /\ \A p \in Op \ {o} : task'[p].step = "idle"
      BY <1>1, <1>4, <2>1, <2>3, GotoMoves DEF At
    <3>2. Phase(task'[o], row', folder', running')
      BY <2>2, <3>1 DEF Phase
    <3> QED BY <1>1, <3>1, <3>2, OneOperation
  <2>4. CASE End(o)
    BY <1>1, <1>4, <2>2, <2>4, EndMoves, OneOperation
  <2> QED BY <1>8, <2>3, <2>4 DEF UpdateFails
<1>9. CASE Retry
  <2>1. /\ At(o, "update", "waiting") /\ UNCHANGED <<row, folder, running>>
        /\ task'[o] = [task[o] EXCEPT !.step = "fetching", !.staged = 0, !.attempt = @ + 1]
        /\ \A p \in Op \ {o} : task'[p] = task[p]
    BY <1>1, <1>9 DEF Retry, StoreShape
  <2>2. task'[o].step = "fetching" /\ task'[o].kind = "update"
    BY <1>1, <2>1 DEF Tasks, At
  <2>3. Phase(task'[o], row', folder', running')
    BY <1>4, <2>1, <2>2 DEF Phase, At
  <2>4. \A p \in Op \ {o} : task'[p].step = "idle"
    BY <1>4, <2>1
  <2> QED BY <1>1, <2>2, <2>3, <2>4, OneOperation
<1>10. CASE UpdateRecords
  <2>1. /\ Goto(o, "loading") /\ task[o].kind = "update" /\ UNCHANGED <<folder, running>>
        /\ row' = folder /\ running = 0
    BY <1>4, <1>10 DEF UpdateRecords, Phase, At
  <2>2. /\ task'[o].step = "loading" /\ task'[o].kind = "update"
        /\ \A p \in Op \ {o} : task'[p].step = "idle"
    BY <1>1, <1>4, <2>1, GotoMoves
  <2>3. Phase(task'[o], row', folder', running')
    BY <2>1, <2>2 DEF Phase, Agreed
  <2> QED BY <1>1, <2>2, <2>3, OneOperation
<1>11. CASE UpdateLoads
  <2>1. End(o) /\ UNCHANGED <<row, folder>> /\ running' \in {running, LoadOf}
    BY <1>11 DEF UpdateLoads
  <2>2. Agreed(row, folder, running)
    BY <1>4, <1>11 DEF UpdateLoads, Phase, At
  <2>3. Agreed(row', folder', running')
    BY <2>1, <2>2 DEF Agreed, LoadOf
  <2> QED BY <1>1, <1>4, <2>1, <2>3, EndMoves, OneOperation
<1> QED BY <1>5, <1>6, <1>7, <1>8, <1>9, <1>10, <1>11 DEF UpdateStep

LEMMA StoreStep == StoreAssumption /\ StoreInv /\ [StoreNext]_storeVars => StoreInv'
<1> SUFFICES ASSUME StoreAssumption, StoreInv, [StoreNext]_storeVars PROVE StoreInv'
  OBVIOUS
<1>1. StoreShape /\ StoreShape' /\ Sound
  BY StoreShapeStep DEF StoreInv
<1> SUFFICES ASSUME ~disturbed' PROVE Sound'
  BY <1>1 DEF StoreInv, Sound
<1>2. ASSUME NEW o \in Op, NEW t, task'[o] = t, t.step # "idle",
             Phase(t, row', folder', running'), \A p \in Op \ {o} : task'[p].step = "idle"
      PROVE  Sound'
  BY <1>2, OneOperation
<1>3. ASSUME NEW o \in Hand, StartInstall(o) PROVE Sound'
  <2>1. PICK v : BeginOp(o, "install", "reading", v) /\ o \in Op
    BY <1>3 DEF StartInstall, Op
  <2> DEFINE t == [kind |-> "install", step |-> "reading", version |-> v, staged |-> 0, attempt |-> 1]
  <2>2. /\ Agreed(row, folder, running) /\ task'[o] = t
        /\ \A p \in Op \ {o} : task'[p].step = "idle"
    BY <1>1, <2>1, BeginKeepsSound
  <2>3. Phase(t, row', folder', running')
    BY <1>3, <2>2 DEF Phase, StartInstall
  <2> QED BY <1>2, <2>1, <2>2, <2>3
<1>4. ASSUME NEW o \in Hand, StartUninstall(o) PROVE Sound'
  <2>1. BeginOp(o, "uninstall", "reading", 0) /\ o \in Op
    BY <1>4 DEF StartUninstall, Op
  <2> DEFINE t == [kind |-> "uninstall", step |-> "reading", version |-> 0, staged |-> 0, attempt |-> 1]
  <2>2. /\ Agreed(row, folder, running) /\ task'[o] = t
        /\ \A p \in Op \ {o} : task'[p].step = "idle"
    BY <1>1, <2>1, BeginKeepsSound
  <2>3. Phase(t, row', folder', running')
    BY <1>4, <2>2 DEF Phase, StartUninstall
  <2> QED BY <1>2, <2>1, <2>2, <2>3
<1>5. ASSUME NEW o \in Hand, StartRollback(o) PROVE Sound'
  <2>1. PICK v : BeginOp(o, "rollback", "swapping", v) /\ o \in Op
    BY <1>5 DEF StartRollback, Op
  <2> DEFINE t == [kind |-> "rollback", step |-> "swapping", version |-> v, staged |-> 0, attempt |-> 1]
  <2>2. /\ Agreed(row, folder, running) /\ task'[o] = t
        /\ \A p \in Op \ {o} : task'[p].step = "idle"
    BY <1>1, <2>1, BeginKeepsSound
  <2>3. row # 0 /\ running' = 0 /\ UNCHANGED <<row, folder>>
    BY <1>5 DEF StartRollback
  <2>4. Phase(t, row', folder', running')
    BY <2>2, <2>3 DEF Phase, Agreed
  <2> QED BY <1>2, <2>1, <2>2, <2>4
<1>6. ASSUME NEW o \in Hand, StartRepair(o) PROVE Sound'
  <2>1. BeginOp(o, "repair", "fetching", row) /\ o \in Op /\ row # 0 /\ folder = 0
    BY <1>6 DEF StartRepair, Op
  <2>2. Agreed(row, folder, running)
    BY <1>1, <2>1, BeginKeepsSound
  <2> QED BY <2>1, <2>2 DEF Agreed
<1>7. CASE TakeQueued
  <2>1. BeginOp(Updater, "update", "fetching", queued) /\ Updater \in Op
    BY <1>7 DEF TakeQueued, Op
  <2> DEFINE t == [kind |-> "update", step |-> "fetching", version |-> queued, staged |-> 0, attempt |-> 1]
  <2>2. /\ Agreed(row, folder, running) /\ task'[Updater] = t
        /\ \A p \in Op \ {Updater} : task'[p].step = "idle"
    BY <1>1, <2>1, BeginKeepsSound
  <2>3. Phase(t, row', folder', running')
    BY <1>7, <2>2 DEF Phase, TakeQueued
  <2> QED BY <1>2, <2>1, <2>2, <2>3
<1>8. CASE RunCheck \/ ClearLock \/ MarketMoves \/ UNCHANGED storeVars
  <2>1. UNCHANGED <<row, folder, running, task, disturbed>>
    BY <1>8 DEF RunCheck, ClearLock, MarketMoves, storeVars
  <2> QED BY <1>1, <2>1 DEF Sound, Idle, Quiescent
<1>9. CASE RemoteUninstall \/ CallLoads
  <2>1. ~disturbed /\ Quiescent /\ task' = task
    BY <1>9 DEF RemoteUninstall, CallLoads
  <2>2. Agreed(row', folder', running')
    BY <1>1, <1>9, <2>1 DEF Sound, Agreed, RemoteUninstall, Removed, CallLoads
  <2> QED BY <2>1, <2>2 DEF Sound, Quiescent, Idle
<1>10. CASE Restart
  <2>1. ~disturbed /\ Quiescent
    BY <1>10 DEF Restart
  <2>2. Agreed(row, folder, running)
    BY <1>1, <2>1 DEF Sound
  <2>3. Agreed(row', folder', running')
    BY <1>10, <2>2 DEF Agreed, Restart
  <2>4. \A o \in Op : task'[o].step = "idle"
    BY <1>10 DEF Restart, NoOp
  <2> QED BY <2>3, <2>4 DEF Sound, Quiescent, Idle
<1>11. CASE RemoteInstall \/ OthersSweep
  BY <1>11 DEF RemoteInstall, OthersSweep
<1>12. ASSUME NEW o \in Hand, HandStep(o) PROVE Sound'
  BY <1>1, <1>12, HandKeepsSound
<1>13. CASE UpdateStep
  BY <1>1, <1>13, UpdateKeepsSound
<1> QED BY <1>3, <1>4, <1>5, <1>6, <1>7, <1>8, <1>9, <1>10, <1>11, <1>12, <1>13 DEF StoreNext

LEMMA StoreHolds == StoreSpec => []StoreInv
<1>1. StoreAssumption /\ StoreInit => StoreInv
  <2> SUFFICES ASSUME StoreAssumption, StoreInit PROVE StoreInv
    OBVIOUS
  <2>1. StoreShape
    BY StoreStarts
  <2>2. \A o \in Op : task[o].step = "idle"
    BY DEF StoreInit, NoOp
  <2>3. Agreed(row, folder, running)
    BY DEF StoreInit, Agreed
  <2> QED BY <2>1, <2>2, <2>3 DEF StoreInv, Sound, Quiescent, Idle
<1> QED BY <1>1, StoreStep, StoreAssumption, PTL DEF StoreSpec

\* The row, the folder, the code in memory, the lock and the places of the
\* operations stay what they are declared to be (installed_apps, the folders of
\* the applications, AppUpdateManager.js).
THEOREM StoreTypes == StoreSpec => []StoreTypeOK
<1>1. StoreInv => StoreTypeOK
  BY DEF StoreInv, StoreShape
<1> QED BY <1>1, StoreHolds, PTL

\* Between operations that nothing disturbed the row, the folder and the code
\* in memory are of one version, for any number of operations, versions and
\* attempts (handlers/store.js, AppUpdateManager.js, clusterAppRollback.js).
THEOREM FilesStayAgreed == StoreSpec => []FilesAgree
<1>1. StoreInv => FilesAgree
  BY DEF StoreInv, Sound, Agreed, FilesAgree
<1> QED BY <1>1, StoreHolds, PTL

(***************************************************************************)
(* The lock.  Whoever takes it is under way, and what ends or waits leaves *)
(* the lock open; everything else leaves it to those that hold it.         *)
(***************************************************************************)

\* The lock stays, and so does every operation that holds it.
LEMMA LockKept ==
  ASSUME BusyLockIsHeld, lock' = lock, \A p \in Op : Holds(p) => Holds(p)'
  PROVE  BusyLockIsHeld'
BY DEF BusyLockIsHeld

\* It is taken by an operation that then holds it.
LEMMA LockTaken ==
  ASSUME NEW o \in Op, Holds(o)'
  PROVE  BusyLockIsHeld'
BY DEF BusyLockIsHeld

LEMMA LockOpen == lock' # "busy" => BusyLockIsHeld'
BY DEF BusyLockIsHeld

\* An operation that begins held nothing, one that moves on holds what it held
\* but where it waits for the next attempt, and one that ends disturbs no other.
LEMMA BegunHolds ==
  ASSUME StoreShape, NEW o \in Op, NEW k, NEW s, NEW v, BeginOp(o, k, s, v)
  PROVE  \A p \in Op : Holds(p) => Holds(p)'
<1>1. task[o].step = "idle" /\ \A p \in Op \ {o} : task'[p] = task[p]
  BY DEF BeginOp, Idle, StoreShape
<1> QED BY <1>1 DEF Holds, Idle

LEMMA MovedHolds ==
  ASSUME StoreShape, NEW o \in Op, NEW s \in Steps \ {"idle", "reading", "waiting"},
         Goto(o, s) \/ task' = Swept(o, s)
  PROVE  \A p \in Op : Holds(p) => Holds(p)'
<1>1. CASE Goto(o, s)
  <2>1. /\ task'[o].step = s /\ task'[o].kind = task[o].kind
        /\ \A p \in Op \ {o} : task'[p] = task[p]
    BY <1>1, GotoMoves
  <2> QED BY <2>1 DEF Holds, Idle
<1>2. CASE task' = Swept(o, s)
  <2>1. task'[o].step = s /\ task'[o].kind = task[o].kind
    BY <1>2, SweptMoves
  <2>2. ASSUME NEW p \in Op \ {o} PROVE task'[p].step = task[p].step /\ task'[p].kind = task[p].kind
    <3>1. task[p] \in Tasks
      BY TaskFields
    <3>2. task'[p] = [task[p] EXCEPT !.staged = 0, !.step = task[p].step]
      BY <1>2 DEF Swept
    <3> QED BY <3>1, <3>2 DEF Tasks
  <2> QED BY <2>1, <2>2 DEF Holds, Idle
<1> QED BY <1>1, <1>2

LEMMA EndHolds ==
  ASSUME StoreShape, NEW o \in Op, ~Holds(o), End(o)
  PROVE  \A p \in Op : Holds(p) => Holds(p)'
<1>1. \A p \in Op \ {o} : task'[p] = task[p]
  BY EndMoves
<1> QED BY <1>1 DEF Holds, Idle

LEMMA HandKeepsLock ==
  ASSUME StoreShape, BusyLockIsHeld, NEW o \in Hand, HandStep(o)
  PROVE  BusyLockIsHeld'
<1>0. o \in Op /\ {"fetching", "swapping", "loading", "registering", "deleting"} \subseteq Steps
  BY DEF Op, Steps
<1>1. CASE TakeLock(o)
  <2>1. task'[o].step = "fetching" /\ task'[o].kind = "install"
    BY <1>0, <1>1, GotoMoves DEF TakeLock, At
  <2> QED BY <1>0, <2>1, LockTaken DEF Holds, Idle
<1>2. CASE InstallFails(o) \/ LoadFails(o) \/ Register(o)
  BY <1>2, LockOpen DEF InstallFails, LoadFails, Register, ShowUntilCleared
<1>3. CASE Fetched(o)
  <2>1. task[o] \in Tasks /\ task[o].kind = "install"
    BY <1>0, <1>3, TaskFields DEF Fetched, At
  <2>2. task'[o] = [task[o] EXCEPT !.step = "swapping", !.staged = task[o].version]
    BY <1>0, <1>3 DEF Fetched, StoreShape
  <2>3. task'[o].step = "swapping" /\ task'[o].kind = "install"
    BY <2>1, <2>2 DEF Tasks
  <2> QED BY <1>0, <2>3, LockTaken DEF Holds, Idle
<1>4. CASE Swap(o)
  <2>1. \/ lock' = "shown"
        \/ lock' = lock /\ task' = Swept(o, "loading")
    <3>1. CASE task[o].staged # 0
      BY <1>4, <3>1 DEF Swap
    <3>2. CASE task[o].staged = 0
      BY <1>4, <3>2 DEF Swap, ShowUntilCleared
    <3> QED BY <3>1, <3>2
  <2>2. ASSUME lock' = lock, task' = Swept(o, "loading") PROVE BusyLockIsHeld'
    <3>1. \A p \in Op : Holds(p) => Holds(p)'
      BY <1>0, <2>2, MovedHolds
    <3> QED BY <2>2, <3>1, LockKept
  <2> QED BY <2>1, <2>2, LockOpen
<1>5. CASE LoadInstalled(o)
  <2>1. task[o] \in Tasks
    BY <1>0, TaskFields
  <2>2. PICK v : task' = [task EXCEPT ![o].step = "registering", ![o].version = v]
    BY <1>5 DEF LoadInstalled
  <2>3. /\ task'[o] = [task[o] EXCEPT !.step = "registering", !.version = v]
        /\ \A p \in Op \ {o} : task'[p] = task[p]
    BY <1>0, <2>2 DEF StoreShape
  <2>4. task'[o].step = "registering" /\ task'[o].kind = task[o].kind
    BY <2>1, <2>3 DEF Tasks
  <2>5. \A p \in Op : Holds(p) => Holds(p)'
    BY <2>3, <2>4 DEF Holds, Idle
  <2> QED BY <1>5, <2>5, LockKept DEF LoadInstalled
<1>6. CASE RemoveAll(o) \/ RollbackSwap(o)
  <2>1. lock' = lock /\ (Goto(o, "deleting") \/ Goto(o, "loading"))
    BY <1>6 DEF RemoveAll, RollbackSwap
  <2>2. \A p \in Op : Holds(p) => Holds(p)'
    BY <1>0, <2>1, MovedHolds
  <2> QED BY <2>1, <2>2, LockKept
<1>7. CASE DeleteRow(o) \/ RollbackFails(o) \/ RollbackLoad(o) \/ RepairLoad(o)
  <2>1. lock' = lock /\ End(o) /\ task[o].kind \in {"uninstall", "rollback", "repair"}
    BY <1>7 DEF DeleteRow, RollbackFails, RollbackLoad, RepairLoad, At
  <2>2. \A p \in Op : Holds(p) => Holds(p)'
    BY <1>0, <2>1, EndHolds DEF Holds
  <2> QED BY <2>1, <2>2, LockKept
<1>8. CASE Repair(o)
  <2>1. lock' = lock /\ task[o].kind = "repair" /\ (End(o) \/ task' = Swept(o, "loading"))
    BY <1>8 DEF Repair, At
  <2>2. \A p \in Op : Holds(p) => Holds(p)'
    BY <1>0, <2>1, EndHolds, MovedHolds DEF Holds
  <2> QED BY <2>1, <2>2, LockKept
<1> QED BY <1>1, <1>2, <1>3, <1>4, <1>5, <1>6, <1>7, <1>8 DEF HandStep

LEMMA UpdateKeepsLock ==
  ASSUME StoreShape, BusyLockIsHeld, UpdateStep
  PROVE  BusyLockIsHeld'
<1>0. /\ Updater \in Op /\ {"renaming", "recording", "loading"} \subseteq Steps
      /\ task[Updater] \in Tasks /\ task[Updater].kind = "update"
  <2>1. Updater \in Op /\ {"renaming", "recording", "loading"} \subseteq Steps
    BY DEF Op, Steps
  <2>2. task[Updater].kind = "update"
    BY DEF UpdateStep, UpdateFetched, UpdateDeletes, UpdateRenames, UpdateFails, Retry,
           UpdateRecords, UpdateLoads, At
  <2> QED BY <2>1, <2>2, TaskFields
<1>1. CASE UpdateFetched
  <2>1. task'[Updater] = [task[Updater] EXCEPT !.step = "swapping", !.staged = market]
    BY <1>0, <1>1 DEF UpdateFetched, StoreShape
  <2>2. task'[Updater].step = "swapping" /\ task'[Updater].kind = "update"
    BY <1>0, <2>1 DEF Tasks
  <2> QED BY <1>0, <2>2, LockTaken DEF Holds, Idle
<1>2. CASE Retry
  <2>1. PICK n : task'[Updater] = [task[Updater] EXCEPT !.step = "fetching", !.staged = 0,
                                                       !.attempt = n]
    BY <1>0, <1>2 DEF Retry, StoreShape
  <2>2. task'[Updater].step = "fetching" /\ task'[Updater].kind = "update"
    BY <1>0, <2>1 DEF Tasks
  <2> QED BY <1>0, <2>2, LockTaken DEF Holds, Idle
<1>3. CASE UpdateDeletes \/ UpdateRecords
  <2>1. lock' = lock /\ (Goto(Updater, "renaming") \/ Goto(Updater, "loading"))
    BY <1>3 DEF UpdateDeletes, UpdateRecords
  <2>2. \A p \in Op : Holds(p) => Holds(p)'
    BY <1>0, <2>1, MovedHolds
  <2> QED BY <2>1, <2>2, LockKept
<1>4. CASE UpdateRenames
  <2>1. /\ task'[Updater] = [task[Updater] EXCEPT !.step = "recording", !.staged = 0]
        /\ \A p \in Op \ {Updater} : task'[p] = task[p]
    BY <1>0, <1>4 DEF UpdateRenames, StoreShape
  <2>2. task'[Updater].step = "recording" /\ task'[Updater].kind = "update"
    BY <1>0, <2>1 DEF Tasks
  <2> QED BY <1>0, <2>2, LockTaken DEF Holds, Idle
<1>5. CASE UpdateFails \/ UpdateLoads
  BY <1>5, LockOpen DEF UpdateFails, UpdateLoads, ShowUntilCleared
<1> QED BY <1>1, <1>2, <1>3, <1>4, <1>5 DEF UpdateStep

LEMMA LockStep ==
  ASSUME StoreShape, BusyLockIsHeld, [StoreNext]_storeVars
  PROVE  BusyLockIsHeld'
<1>1. ASSUME NEW o \in Hand,
             StartInstall(o) \/ StartUninstall(o) \/ StartRollback(o) \/ StartRepair(o)
      PROVE  BusyLockIsHeld'
  <2>1. o \in Op /\ lock' = lock
    BY <1>1 DEF StartInstall, StartUninstall, StartRollback, StartRepair, Op
  <2>2. \E k, s, v : BeginOp(o, k, s, v)
    BY <1>1 DEF StartInstall, StartUninstall, StartRollback, StartRepair
  <2>3. \A p \in Op : Holds(p) => Holds(p)'
    BY <2>1, <2>2, BegunHolds
  <2> QED BY <2>1, <2>3, LockKept
<1>2. CASE TakeQueued
  <2>1. Updater \in Op /\ BeginOp(Updater, "update", "fetching", queued)
    BY <1>2 DEF TakeQueued, Op
  <2>2. task'[Updater].step = "fetching" /\ task'[Updater].kind = "update"
    BY <2>1 DEF BeginOp, StoreShape
  <2> QED BY <2>1, <2>2, LockTaken DEF Holds, Idle
<1>3. CASE RunCheck \/ ClearLock \/ Restart
  BY <1>3, LockOpen DEF RunCheck, ClearLock, Restart
<1>4. CASE RemoteUninstall \/ RemoteInstall \/ CallLoads \/ MarketMoves \/ UNCHANGED storeVars
  <2>1. lock' = lock /\ task' = task
    BY <1>4 DEF RemoteUninstall, RemoteInstall, CallLoads, MarketMoves, storeVars
  <2> QED BY <2>1, LockKept DEF Holds, Idle
<1>5. CASE OthersSweep
  <2>1. ASSUME NEW p \in Op PROVE task'[p].step = task[p].step /\ task'[p].kind = task[p].kind
    <3>1. task[p] \in Tasks
      BY TaskFields
    <3>2. task'[p] = [task[p] EXCEPT !.staged = 0]
      BY <1>5 DEF OthersSweep
    <3> QED BY <3>1, <3>2 DEF Tasks
  <2>2. lock' = lock
    BY <1>5 DEF OthersSweep
  <2> QED BY <2>1, <2>2, LockKept DEF Holds, Idle
<1>6. ASSUME NEW o \in Hand, HandStep(o) PROVE BusyLockIsHeld'
  BY <1>6, HandKeepsLock
<1>7. CASE UpdateStep
  BY <1>7, UpdateKeepsLock
<1> QED BY <1>1, <1>2, <1>3, <1>4, <1>5, <1>6, <1>7 DEF StoreNext

\* The lock refuses other operations only while one of them is under way that
\* gives it back, for any operations, failures, timers and restarts
\* (AppUpdateManager.js, installaSingola in handlers/store.js).
THEOREM BusyLocksAreHeld == StoreSpec => []BusyLockIsHeld
<1>1. StoreInit => BusyLockIsHeld
  BY DEF StoreInit, BusyLockIsHeld
<1>2. StoreShape /\ BusyLockIsHeld /\ [StoreNext]_storeVars => BusyLockIsHeld'
  BY LockStep
<1>3. StoreInv => StoreShape
  BY DEF StoreInv
<1> QED BY <1>1, <1>2, <1>3, StoreHolds, PTL DEF StoreSpec

-----------------------------------------------------------------------------
\* AppDependencies

(***************************************************************************)
(* The fold over what an application needs: its recursive function exists, *)
(* and what each step of it keeps, the whole of it keeps.                  *)
(***************************************************************************)
FoldStep(V, a, q, x, r) == V[[app |-> q[x], accepted |-> requires[<<a, q[x]>>], before |-> r]]

FoldRun(V, a, s, q, k, f) ==
  f = [T \in SUBSET (1..k) |->
         IF T = {} THEN s ELSE LET x == Max(T) IN FoldStep(V, a, q, x, f[T \ {x}])]

LEMMA MaxIs ==
  ASSUME NEW k \in Nat, NEW T \in SUBSET (1..k), k \in T
  PROVE  Max(T) = k
<1>1. k \in T /\ \A y \in T : k >= y
  OBVIOUS
<1>2. \A x \in T : (\A y \in T : x >= y) => x = k
  OBVIOUS
<1> QED BY <1>1, <1>2 DEF Max

LEMMA FoldRunExists ==
  ASSUME NEW V, NEW a, NEW s, NEW q, NEW n \in Nat
  PROVE  \E f : FoldRun(V, a, s, q, n, f)
<1> DEFINE S == {k \in Nat : \E f : FoldRun(V, a, s, q, k, f)}
<1>1. 0 \in S
  <2>1. \A T \in SUBSET (1..0) : T = {}
    <3>1. \A i : i \notin 1..0
      OBVIOUS
    <3> QED BY <3>1
  <2> DEFINE f == [T \in SUBSET (1..0) |-> s]
  <2>2. FoldRun(V, a, s, q, 0, f)
    BY <2>1 DEF FoldRun
  <2> QED BY <2>2
<1>2. ASSUME NEW k \in 0..n, k # n, k \in S PROVE k + 1 \in S
  <2>1. PICK f : FoldRun(V, a, s, q, k, f)
    BY <1>2
  <2> DEFINE m == k + 1
             g == [T \in SUBSET (1..m) |->
                     IF m \in T THEN FoldStep(V, a, q, m, f[T \ {m}]) ELSE f[T]]
             h == [T \in SUBSET (1..m) |->
                     IF T = {} THEN s
                     ELSE LET x == Max(T) IN FoldStep(V, a, q, x, g[T \ {x}])]
  <2>2. ASSUME NEW T \in SUBSET (1..k) PROVE T \in SUBSET (1..m) /\ m \notin T /\ g[T] = f[T]
    OBVIOUS
  <2>3. ASSUME NEW T \in SUBSET (1..m), m \in T PROVE g[T] = h[T]
    <3>1. Max(T) = m /\ T # {} /\ m \in Nat
      BY <2>3, MaxIs
    <3>2. T \ {m} \in SUBSET (1..k)
      OBVIOUS
    <3>3. g[T \ {m}] = f[T \ {m}]
      BY <2>2, <3>2
    <3>4. g[T] = FoldStep(V, a, q, m, f[T \ {m}])
      BY <2>3
    <3>5. h[T] = FoldStep(V, a, q, m, g[T \ {m}])
      BY <3>1
    <3> QED BY <3>3, <3>4, <3>5
  <2>4. ASSUME NEW T \in SUBSET (1..m), m \notin T PROVE g[T] = h[T]
    <3>1. T \in SUBSET (1..k)
      BY <2>4
    <3>2. g[T] = f[T]
      BY <2>2, <3>1
    <3>3. CASE T = {}
      BY <3>1, <3>2, <3>3, <2>1 DEF FoldRun
    <3>4. CASE T # {}
      <4> DEFINE x == Max(T)
      <4>1. f[T] = FoldStep(V, a, q, x, f[T \ {x}])
        BY <3>1, <3>4, <2>1 DEF FoldRun
      <4>2. g[T \ {x}] = f[T \ {x}]
        <5>1. T \ {x} \in SUBSET (1..k)
          BY <3>1
        <5> QED BY <5>1, <2>2
      <4>3. h[T] = FoldStep(V, a, q, x, g[T \ {x}])
        BY <3>4
      <4> QED BY <3>2, <4>1, <4>2, <4>3
    <3> QED BY <3>3, <3>4
  <2>5. g = h
    BY <2>3, <2>4
  <2>6. FoldRun(V, a, s, q, m, g)
    BY <2>5 DEF FoldRun
  <2> QED BY <2>6
<1>3. 0 \in Nat /\ n \in 0..n
  OBVIOUS
<1>4. n \in S
  <2> HIDE DEF S
  <2> QED BY <1>1, <1>2, <1>3, IntervalInduction
<1> QED BY <1>4

LEMMA FoldKeeps ==
  ASSUME NEW V, NEW a, NEW s, NEW n \in Nat, NEW q, q = SetToSeq(Needs(a)), DOMAIN q = 1..n, NEW I, s \in I[0],
         \A i \in 1..n : \A r \in I[i - 1] : FoldStep(V, a, q, i, r) \in I[i]
  PROVE  VisitNeeds(V, s, a) \in I[n]
<1>1. PICK f : f = (CHOOSE g : FoldRun(V, a, s, q, n, g))
  OBVIOUS
<1>2. FoldRun(V, a, s, q, n, f)
  BY <1>1, FoldRunExists
<1>3. VisitNeeds(V, s, a) = f[1..n]
  <2>1. VisitNeeds(V, s, a)
          = (CHOOSE g : g = [T \in SUBSET DOMAIN q |->
               IF T = {} THEN s
               ELSE LET x == Max(T) IN V[[app |-> q[x], accepted |-> requires[<<a, q[x]>>], before |-> g[T \ {x}]]]])[DOMAIN q]
    BY DEF VisitNeeds, FoldLeft, MapThenFoldSet
  <2> QED BY <2>1, <1>1 DEF FoldRun, FoldStep
<1> DEFINE S == {i \in 0..n : f[1..i] \in I[i]}
<1>4. 0 \in S
  <2>1. 1..0 = {}
    OBVIOUS
  <2>2. f[{}] = s
    BY <1>2 DEF FoldRun
  <2> QED BY <2>1, <2>2
<1>5. ASSUME NEW i \in 0..n, i # n, i \in S PROVE i + 1 \in S
  <2>0. PICK m \in 1..n : m = i + 1
    BY <1>5
  <2>1. m \in Nat /\ m - 1 = i
    BY <2>0
  <2>2. (1..m) \in SUBSET (1..n) /\ 1..m # {} /\ m \in 1..m /\ (1..m) \ {m} = 1..i
    <3>1. \A x \in 1..m : x \in 1..n
      BY <2>0
    <3>2. \A x : x \in (1..m) \ {m} <=> x \in 1..i
      BY <2>0, <2>1
    <3>3. m \in 1..m
      BY <2>0
    <3> QED BY <3>1, <3>2, <3>3
  <2>3. Max(1..m) = m
    BY <2>1, <2>2, MaxIs
  <2>4. f[1..m] = FoldStep(V, a, q, m, f[1..i])
    BY <1>2, <2>2, <2>3 DEF FoldRun
  <2>5. f[1..i] \in I[m - 1]
    BY <1>5, <2>1
  <2>6. f[1..m] \in I[m]
    BY <2>0, <2>4, <2>5
  <2> QED BY <2>0, <2>6
<1>6. 0 \in Nat /\ n \in 0..n
  OBVIOUS
<1>7. n \in S
  <2> HIDE DEF S
  <2> QED BY <1>4, <1>5, <1>6, IntervalInduction
<1> QED BY <1>3, <1>7

(***************************************************************************)
(* The visit: its recursive function exists, for the stack grows.          *)
(***************************************************************************)
Outcome(V, stack, call) ==
  LET a == call.app
      s == call.before
  IN  IF a \in stack THEN [s EXCEPT !.ok = FALSE]
      ELSE IF a \in s.done THEN s
      ELSE IF stack # {} /\ Present(a, call.accepted)
        THEN [s EXCEPT !.done = @ \cup {a}]
      ELSE IF offered[a] = 0 \/ (stack # {} /\ offered[a] \notin call.accepted)
        THEN [s EXCEPT !.done = @ \cup {a}, !.ok = FALSE]
      ELSE LET t == VisitNeeds(V, s, a)
           IN  [t EXCEPT !.done = @ \cup {a}, !.order = Append(@, a)]

Row(f, P) == [call \in VisitCall |-> Outcome(f[P \cup {call.app}], P, call)]

Left(P) == Cardinality(App \ P)

Level(k, f) == f = [P \in {Q \in SUBSET App : Left(Q) <= k} |-> Row(f, P)]

LEMMA LeftIs ==
  ASSUME NEW P \in SUBSET App
  PROVE  /\ Left(P) \in Nat /\ Left(P) <= Cardinality(App)
         /\ \A a \in App : a \notin P => Left(P \cup {a}) \in Nat /\ Left(P \cup {a}) < Left(P)
<1>1. IsFiniteSet(App \ P)
  BY DependencyAssumption, FS_Subset
<1>2. Left(P) \in Nat /\ Left(P) <= Cardinality(App)
  BY <1>1, FS_CardinalityType, FS_Subset, DependencyAssumption DEF Left
<1>3. ASSUME NEW a \in App, a \notin P
      PROVE  Left(P \cup {a}) \in Nat /\ Left(P \cup {a}) < Left(P)
  <2>1. App \ (P \cup {a}) = (App \ P) \ {a} /\ a \in App \ P
    BY <1>3
  <2>2. Cardinality((App \ P) \ {a}) = Cardinality(App \ P) - 1
        /\ IsFiniteSet((App \ P) \ {a})
    BY <1>1, <2>1, FS_RemoveElement
  <2>3. Cardinality((App \ P) \ {a}) \in Nat
    BY <2>2, FS_CardinalityType
  <2> QED BY <1>2, <2>1, <2>2, <2>3 DEF Left
<1> QED BY <1>2, <1>3

\* What a row says depends only on the rows of longer stacks.
LEMMA RowDepends ==
  ASSUME NEW f, NEW g, NEW P, \A a \in App : a \notin P => f[P \cup {a}] = g[P \cup {a}]
  PROVE  Row(f, P) = Row(g, P)
<1>1. ASSUME NEW call \in VisitCall
      PROVE  Outcome(f[P \cup {call.app}], P, call) = Outcome(g[P \cup {call.app}], P, call)
  <2>1. CASE call.app \in P
    BY <2>1 DEF Outcome
  <2>2. CASE call.app \notin P
    BY <2>2 DEF VisitCall
  <2> QED BY <2>1, <2>2
<1> QED BY <1>1 DEF Row

LEMMA VisitIs ==
  ASSUME NEW P \in SUBSET App
  PROVE  Visit[P] = Row(Visit, P)
<1> DEFINE N == Cardinality(App)
           S == {k \in Nat : \E f : Level(k, f)}
           D(k) == {Q \in SUBSET App : Left(Q) <= k}
<1>0. N \in Nat
  BY DependencyAssumption, FS_CardinalityType
<1>1. 0 \in S
  <2> DEFINE f == [Q \in D(0) |-> Row([R \in {} |-> R], Q)]
  <2>1. ASSUME NEW Q \in D(0) PROVE Row([R \in {} |-> R], Q) = Row(f, Q)
    <3>1. ASSUME NEW a \in App, a \notin Q PROVE FALSE
      <4>1. Left(Q) \in Nat /\ Left(Q) <= 0
        BY LeftIs
      <4>2. Left(Q \cup {a}) \in Nat /\ Left(Q \cup {a}) < Left(Q)
        BY <3>1, LeftIs
      <4> QED BY <4>1, <4>2
    <3> QED BY <3>1, RowDepends
  <2>2. Level(0, f)
    BY <2>1 DEF Level
  <2> QED BY <2>2
<1>2. ASSUME NEW k \in 0..N, k # N, k \in S PROVE k + 1 \in S
  <2>1. PICK f : Level(k, f)
    BY <1>2
  <2> DEFINE g == [Q \in D(k + 1) |-> Row(f, Q)]
  <2>2. ASSUME NEW Q \in D(k + 1) PROVE Row(f, Q) = Row(g, Q)
    <3>1. ASSUME NEW a \in App, a \notin Q PROVE f[Q \cup {a}] = g[Q \cup {a}]
      <4>1. Q \cup {a} \in D(k) /\ Q \cup {a} \in D(k + 1)
        BY <3>1, <1>2, LeftIs
      <4>2. f[Q \cup {a}] = Row(f, Q \cup {a})
        BY <2>1, <4>1 DEF Level
      <4>3. g[Q \cup {a}] = Row(f, Q \cup {a})
        BY <4>1
      <4> QED BY <4>2, <4>3
    <3> HIDE DEF g
    <3> QED BY <3>1, RowDepends
  <2>3. Level(k + 1, g)
    BY <2>2 DEF Level
  <2> QED BY <1>2, <2>3
<1>3. 0 \in Nat /\ N \in 0..N
  BY <1>0
<1>4. N \in S
  <2> HIDE DEF S, N
  <2> QED BY <1>0, <1>1, <1>2, <1>3, IntervalInduction
<1>5. D(N) = SUBSET App
  BY LeftIs
<1>6. \E f : f = [Q \in SUBSET App |-> Row(f, Q)]
  BY <1>4, <1>5 DEF Level
<1>7. Visit = CHOOSE f : f = [Q \in SUBSET App |-> Row(f, Q)]
  BY Zenon DEF Visit, Row, Outcome
<1>8. Visit = [Q \in SUBSET App |-> Row(Visit, Q)]
  BY <1>6, <1>7, Zenon
<1> QED BY <1>8, Zenon

(***************************************************************************)
(* What a visit finds: an application that is completed will be there in a *)
(* version that is enough, before whatever needs it.                       *)
(***************************************************************************)
\* Version v of b is there, and enough for all that need b where they agree.
Enough(b, v) ==
  v > 0 /\ (OneRequirement(b) => \A x \in App : b \in Needs(x) => v \in requires[<<x, b>>])

\* An order in which every application comes after what it needs.
InOrder(order) ==
  \A i \in DOMAIN order : \A b \in Needs(order[i]) :
    /\ b # order[i]
    /\ \/ Enough(b, installed[b])
       \/ Enough(b, offered[b]) /\ \E j \in 1..(i - 1) : order[j] = b

Placed(r) ==
  /\ InOrder(r.order) /\ \A i \in DOMAIN r.order : Enough(r.order[i], offered[r.order[i]])
  /\ \A d \in r.done : \/ Enough(d, installed[d])
                       \/ Enough(d, offered[d]) /\ \E j \in DOMAIN r.order : r.order[j] = d

GoodTally == {r \in Tally : r.ok => Placed(r)}

LEMMA EnoughFor ==
  ASSUME NEW b \in App, NEW x \in App, b \in Needs(x),
         NEW v, v > 0, v \in requires[<<x, b>>]
  PROVE  Enough(b, v)
  BY Zenon DEF Enough, OneRequirement

\* What SetToSeq makes of the needs of an application.
LEMMA NeedsListed ==
  ASSUME NEW a \in App
  PROVE  LET q == SetToSeq(Needs(a))
             n == Cardinality(Needs(a))
         IN  /\ n \in Nat /\ DOMAIN q = 1..n
             /\ \A i \in 1..n : q[i] \in Needs(a)
             /\ \A b \in Needs(a) : \E i \in 1..n : q[i] = b
<1> DEFINE S == Needs(a)
           n == Cardinality(S)
<1>1. IsFiniteSet(S) /\ n \in Nat
  <2>1. S \in SUBSET App
    BY DEF Needs
  <2> QED BY <2>1, FS_Subset, FS_CardinalityType, DependencyAssumption
<1>2. \E g \in [1..n -> S] : IsInjective(g)
  <2>1. ExistsBijection(1..n, S)
    BY <1>1, FS_CardinalityType
  <2> QED BY <2>1 DEF ExistsBijection, Bijection, Injection
<1>3. PICK q : q = SetToSeq(S)
  OBVIOUS
<1>4. q \in [1..n -> S] /\ IsInjective(q)
  BY <1>2, <1>3 DEF SetToSeq
<1> HIDE DEF S, n
<1>5. q \in Injection(1..n, S)
  BY <1>4 DEF Injection
<1>6. Cardinality(1..n) = n /\ IsFiniteSet(1..n)
  BY <1>1, FS_Interval
<1>7. q \in Surjection(1..n, S)
  <2>1. n = Cardinality(S)
    BY DEF n
  <2> QED BY <2>1, <1>1, <1>5, <1>6, FS_Injection
<1>8. n \in Nat /\ DOMAIN q = 1..n /\ (\A i \in 1..n : q[i] \in S)
      /\ \A b \in S : \E i \in 1..n : q[i] = b
  BY <1>1, <1>4, <1>7 DEF Surjection
<1> QED BY <1>3, <1>8 DEF S, n

CallFor(x, a, s) == [app |-> a, accepted |-> requires[<<x, a>>], before |-> s]

\* What a visit of a that began with s, with P on its stack, leaves behind.
Finds(P, s, a, r) ==
  /\ r \in GoodTally /\ s.done \subseteq r.done
  /\ r.ok => s.ok /\ a \in r.done /\ a \notin P

\* The needs of a, all of them.
LEMMA NeedsFound ==
  ASSUME NEW V, NEW P, NEW a \in App, NEW s \in GoodTally,
         \A r \in GoodTally, b \in Needs(a) : Finds(P, r, b, V[CallFor(a, b, r)])
  PROVE  LET t == VisitNeeds(V, s, a)
         IN  /\ t \in GoodTally /\ s.done \subseteq t.done
             /\ t.ok => s.ok /\ Needs(a) \subseteq t.done /\ Needs(a) \cap P = {}
<1>0. PICK q : q = SetToSeq(Needs(a))
  OBVIOUS
<1>1. PICK n \in Nat : /\ DOMAIN q = 1..n /\ \A i \in 1..n : q[i] \in Needs(a)
                       /\ \A b \in Needs(a) : \E i \in 1..n : q[i] = b
  BY <1>0, NeedsListed
<1> DEFINE I == [i \in 0..n |->
                   {r \in GoodTally : /\ s.done \subseteq r.done
                                      /\ r.ok => s.ok /\ \A j \in 1..i : q[j] \in r.done \ P}]
<1>2. s \in I[0]
  <2>1. 0 \in 0..n /\ \A j : j \notin 1..0
    OBVIOUS
  <2> QED BY <2>1
<1>3. ASSUME NEW i \in 1..n, NEW r \in I[i - 1] PROVE FoldStep(V, a, q, i, r) \in I[i]
  <2>1. i - 1 \in 0..n /\ i \in 0..n /\ \A j \in 1..i : j # i => j \in 1..(i - 1)
    OBVIOUS
  <2>2. r \in GoodTally /\ s.done \subseteq r.done
        /\ (r.ok => s.ok /\ \A j \in 1..(i - 1) : q[j] \in r.done \ P)
    BY <2>1, <1>3
  <2>3. q[i] \in Needs(a)
    BY <1>1
  <2> DEFINE u == FoldStep(V, a, q, i, r)
  <2>4. Finds(P, r, q[i], u)
    BY <2>2, <2>3 DEF FoldStep, CallFor
  <2> HIDE DEF u
  <2>5. u \in GoodTally /\ s.done \subseteq u.done
        /\ (u.ok => s.ok /\ \A j \in 1..i : q[j] \in u.done \ P)
    BY <2>1, <2>2, <2>4 DEF Finds
  <2>6. u \in I[i]
    BY <2>1, <2>5
  <2> QED BY <2>6 DEF u
<1> HIDE DEF I
<1>4. VisitNeeds(V, s, a) \in I[n]
  BY <1>0, <1>1, <1>2, <1>3, FoldKeeps
<1>5. n \in 0..n
  OBVIOUS
<1> DEFINE t == VisitNeeds(V, s, a)
<1>6. t \in GoodTally /\ s.done \subseteq t.done
      /\ (t.ok => s.ok /\ \A j \in 1..n : q[j] \in t.done \ P)
  BY <1>4, <1>5 DEF I
<1> HIDE DEF t
<1>7. t.ok => Needs(a) \subseteq t.done /\ Needs(a) \cap P = {}
  BY <1>1, <1>6
<1> QED BY <1>6, <1>7 DEF t

\* An application put after what it needs.
LEMMA PutLast ==
  ASSUME NEW a \in App, NEW t \in GoodTally, t.ok, Needs(a) \subseteq t.done, a \notin Needs(a)
  PROVE  LET order == Append(t.order, a)
         IN  /\ InOrder(order) /\ Len(order) = Len(t.order) + 1 /\ order[Len(order)] = a
             /\ DOMAIN order = 1..Len(order)
             /\ \A i \in DOMAIN t.order : i \in DOMAIN order /\ order[i] = t.order[i]
<1> DEFINE p == t.order
           n == Len(p)
           order == Append(p, a)
<1>1. t \in Tally /\ Placed(t) /\ p \in Seq(App)
  BY DEF GoodTally, Tally
<1>2. n \in Nat /\ DOMAIN p = 1..n /\ order \in Seq(App) /\ Len(order) = n + 1
      /\ DOMAIN order = 1..(n + 1) /\ order[n + 1] = a /\ \A i \in 1..n : order[i] = p[i]
  BY <1>1, AppendProperties, LenProperties
<1> HIDE DEF order, n, p
<1>3. ASSUME NEW i \in 1..n, NEW b \in Needs(order[i])
      PROVE  /\ b # order[i]
             /\ \/ Enough(b, installed[b])
                \/ Enough(b, offered[b]) /\ \E j \in 1..(i - 1) : order[j] = b
  <2>1. order[i] = p[i] /\ i \in DOMAIN p /\ \A j \in 1..(i - 1) : j \in 1..n
    BY <1>2
  <2>2. InOrder(p)
    BY <1>1 DEF Placed, p
  <2>3. /\ b # p[i]
        /\ \/ Enough(b, installed[b])
           \/ Enough(b, offered[b]) /\ \E j \in 1..(i - 1) : p[j] = b
    BY <1>3, <2>1, <2>2 DEF InOrder
  <2> QED BY <2>1, <2>3, <1>2
<1>4. ASSUME NEW b \in Needs(a)
      PROVE  \/ Enough(b, installed[b])
             \/ Enough(b, offered[b]) /\ \E j \in 1..n : order[j] = b
  <2>1. \/ Enough(b, installed[b])
        \/ Enough(b, offered[b]) /\ \E j \in DOMAIN p : p[j] = b
    BY <1>1 DEF Placed, p
  <2> QED BY <2>1, <1>2
<1>5. ASSUME NEW i \in DOMAIN order, NEW b \in Needs(order[i])
      PROVE  /\ b # order[i]
             /\ \/ Enough(b, installed[b])
                \/ Enough(b, offered[b]) /\ \E j \in 1..(i - 1) : order[j] = b
  <2>1. CASE i = n + 1
    <3>1. b \in Needs(a) /\ i - 1 = n /\ b # order[i]
      BY <1>2, <1>5, <2>1
    <3> QED BY <3>1, <1>4
  <2>2. CASE i # n + 1
    <3>1. i \in 1..n
      BY <1>2, <2>2
    <3> QED BY <1>5, <3>1, <1>3
  <2> QED BY <2>1, <2>2
<1>6. InOrder(order)
  BY <1>5 DEF InOrder
<1> QED BY <1>2, <1>6 DEF order, n, p

\* One visit, if those with a longer stack find what they should.
LEMMA VisitOnce ==
  ASSUME DependencyTypeOK, NEW P \in SUBSET App, P # {},
         NEW s \in GoodTally, NEW x \in App, NEW a \in Needs(x),
         NEW V,
         a \notin P => \A r \in GoodTally, b \in Needs(a) : Finds(P \cup {a}, r, b, V[CallFor(a, b, r)])
  PROVE  Finds(P, s, a, Outcome(V, P, CallFor(x, a, s)))
<1> DEFINE call == CallFor(x, a, s)
           r == Outcome(V, P, call)
<1>0. /\ call.app = a /\ call.before = s /\ call.accepted = requires[<<x, a>>]
      /\ a \in App /\ s \in Tally /\ offered[a] \in Nat
  BY DependencyAssumption DEF CallFor, Needs, GoodTally, DependencyTypeOK, Release
<1> HIDE DEF call
<1>1. CASE a \in P
  <2>1. r = [s EXCEPT !.ok = FALSE]
    BY <1>0, <1>1 DEF Outcome
  <2> QED BY <1>0, <2>1 DEF Finds, GoodTally, Tally, call
<1>2. CASE a \notin P /\ a \in s.done
  <2>1. r = s
    BY <1>0, <1>2 DEF Outcome
  <2> QED BY <1>0, <1>2, <2>1 DEF Finds, call
<1>3. CASE a \notin P /\ a \notin s.done /\ Present(a, call.accepted)
  <2>1. r = [s EXCEPT !.done = @ \cup {a}]
    BY <1>0, <1>3 DEF Outcome
  <2>2. Enough(a, installed[a])
    BY <1>0, <1>3, EnoughFor DEF Present
  <2>3. r \in Tally /\ r.order = s.order /\ r.done = s.done \cup {a} /\ r.ok = s.ok
    BY <1>0, <2>1 DEF Tally
  <2>4. r.ok => Placed(r)
    BY <2>2, <2>3 DEF GoodTally, Placed
  <2> HIDE DEF r
  <2>5. r \in GoodTally
    BY <2>3, <2>4 DEF GoodTally
  <2> QED BY <1>3, <2>3, <2>5 DEF Finds, call, r
<1>4. CASE /\ a \notin P /\ a \notin s.done /\ ~Present(a, call.accepted)
           /\ offered[a] = 0 \/ offered[a] \notin call.accepted
  <2>1. r = [s EXCEPT !.done = @ \cup {a}, !.ok = FALSE]
    BY <1>0, <1>4 DEF Outcome
  <2> HIDE DEF r
  <2>2. r \in Tally /\ ~r.ok /\ r.done = s.done \cup {a}
    BY <1>0, <2>1 DEF Tally
  <2>3. r \in GoodTally
    BY <2>2 DEF GoodTally
  <2> QED BY <2>2, <2>3 DEF Finds, call, r
<1>5. CASE /\ a \notin P /\ a \notin s.done /\ ~Present(a, call.accepted)
           /\ ~(offered[a] = 0 \/ offered[a] \notin call.accepted)
  <2> DEFINE t == VisitNeeds(V, s, a)
  <2>0. LET u == VisitNeeds(V, s, a)
        IN  /\ u \in GoodTally /\ s.done \subseteq u.done
            /\ u.ok => s.ok /\ Needs(a) \subseteq u.done /\ Needs(a) \cap (P \cup {a}) = {}
    <3>1. PICK Q : Q = P \cup {a}
      OBVIOUS
    <3>2. \A u \in GoodTally, b \in Needs(a) : Finds(Q, u, b, V[CallFor(a, b, u)])
      BY <1>5, <3>1
    <3>3. LET u == VisitNeeds(V, s, a)
          IN  /\ u \in GoodTally /\ s.done \subseteq u.done
              /\ u.ok => s.ok /\ Needs(a) \subseteq u.done /\ Needs(a) \cap Q = {}
      <4>1. a \in App
        BY <1>0
      <4> QED BY <3>2, <4>1, NeedsFound
    <3> QED BY <3>1, <3>3
  <2>1. t \in GoodTally /\ s.done \subseteq t.done
        /\ (t.ok => s.ok /\ Needs(a) \subseteq t.done /\ a \notin Needs(a))
    BY <2>0
  <2>2. r = [t EXCEPT !.done = @ \cup {a}, !.order = Append(@, a)]
    BY <1>0, <1>5 DEF Outcome
  <2> HIDE DEF t, r
  <2>3. /\ r \in Tally /\ r.ok = t.ok /\ r.done = t.done \cup {a}
        /\ r.order = Append(t.order, a)
    <3>1. t \in Tally /\ Append(t.order, a) \in Seq(App)
      BY <1>0, <2>1, AppendProperties DEF GoodTally, Tally
    <3> QED BY <1>0, <2>2, <3>1 DEF Tally
  <2>4. Enough(a, offered[a])
    BY <1>0, <1>5, EnoughFor
  <2>5. ASSUME r.ok PROVE Placed(r)
    <3>1. /\ InOrder(r.order) /\ r.order[Len(r.order)] = a /\ Len(r.order) \in DOMAIN r.order
          /\ \A i \in DOMAIN r.order : i = Len(r.order) \/ i \in DOMAIN t.order
          /\ \A i \in DOMAIN t.order : i \in DOMAIN r.order /\ r.order[i] = t.order[i]
      <4>1. Len(t.order) \in Nat
        BY <2>1, LenProperties DEF GoodTally, Tally
      <4>2. t.ok /\ Needs(a) \subseteq t.done /\ a \notin Needs(a)
        BY <2>1, <2>3, <2>5
      <4>3. LET order == Append(t.order, a)
            IN  /\ InOrder(order) /\ Len(order) = Len(t.order) + 1 /\ order[Len(order)] = a
                /\ DOMAIN order = 1..Len(order)
                /\ \A i \in DOMAIN t.order : i \in DOMAIN order /\ order[i] = t.order[i]
        BY <1>0, <2>1, <4>2, PutLast
      <4>4. PICK order : order = Append(t.order, a)
        OBVIOUS
      <4>5. /\ InOrder(order) /\ Len(order) = Len(t.order) + 1 /\ order[Len(order)] = a
            /\ DOMAIN order = 1..Len(order)
            /\ \A i \in DOMAIN t.order : i \in DOMAIN order /\ order[i] = t.order[i]
        BY <4>3, <4>4
      <4>6. Len(order) \in DOMAIN order
            /\ \A i \in DOMAIN order : i = Len(order) \/ i \in DOMAIN t.order
        <5>1. DOMAIN t.order = 1..Len(t.order)
          BY <2>1, LenProperties DEF GoodTally, Tally
        <5> QED BY <4>1, <4>5, <5>1
      <4> QED BY <4>4, <4>5, <4>6, <2>3
    <3>2. Placed(t)
      BY <2>1, <2>3, <2>5 DEF GoodTally
    <3>3. ASSUME NEW d \in r.done
          PROVE  \/ Enough(d, installed[d])
                 \/ Enough(d, offered[d]) /\ \E j \in DOMAIN r.order : r.order[j] = d
      <4>1. CASE d = a
        BY <4>1, <2>4, <3>1
      <4>2. CASE d # a
        BY <4>2, <2>3, <3>1, <3>2 DEF Placed
      <4> QED BY <4>1, <4>2
    <3>4. ASSUME NEW i \in DOMAIN r.order PROVE Enough(r.order[i], offered[r.order[i]])
      <4>1. CASE i = Len(r.order)
        BY <2>4, <3>1, <4>1
      <4>2. CASE i \in DOMAIN t.order
        BY <3>1, <3>2, <4>2 DEF Placed
      <4> QED BY <3>1, <4>1, <4>2
    <3> QED BY <3>1, <3>3, <3>4 DEF Placed
  <2>6. r \in GoodTally
    BY <2>3, <2>5 DEF GoodTally
  <2> QED BY <1>5, <2>1, <2>3, <2>6 DEF Finds, call, r
<1> QED BY <1>1, <1>2, <1>3, <1>4, <1>5

LEMMA VisitFinds ==
  ASSUME DependencyTypeOK, NEW P \in SUBSET App, P # {},
         NEW s \in GoodTally, NEW x \in App, NEW a \in Needs(x)
  PROVE  Finds(P, s, a, Visit[P][CallFor(x, a, s)])
<1> DEFINE N == Cardinality(App)
           Right(Q) == \A r \in GoodTally, y \in App : \A b \in Needs(y) :
                         Finds(Q, r, b, Visit[Q][CallFor(y, b, r)])
           S == {k \in Nat : \A Q \in SUBSET App : Q # {} /\ Left(Q) <= k => Right(Q)}
<1>0. N \in Nat
  BY DependencyAssumption, FS_CardinalityType
<1>1. ASSUME NEW Q \in SUBSET App, Q # {},
             \A b \in App : b \notin Q => Right(Q \cup {b})
      PROVE  Right(Q)
  <2> SUFFICES ASSUME NEW r \in GoodTally, NEW y \in App, NEW b \in Needs(y)
               PROVE  Finds(Q, r, b, Visit[Q][CallFor(y, b, r)])
    OBVIOUS
  <2>1. CallFor(y, b, r) \in VisitCall /\ b \in App /\ CallFor(y, b, r).app = b
    <3>1. b \in App /\ <<y, b>> \in Edge /\ r \in Tally
      BY DEF Needs, GoodTally
    <3>2. requires[<<y, b>>] \subseteq 1..MaxRelease
      BY <3>1, DependencyAssumption DEF DependencyTypeOK
    <3>3. requires[<<y, b>>] \in SUBSET Release
      BY <3>2, DependencyAssumption DEF Release
    <3> QED BY <3>1, <3>3 DEF CallFor, VisitCall
  <2>2. Visit[Q] = Row(Visit, Q)
    BY VisitIs
  <2>3. PICK V : V = Visit[Q \cup {b}]
    OBVIOUS
  <2>4. Visit[Q][CallFor(y, b, r)] = Outcome(V, Q, CallFor(y, b, r))
    BY <2>1, <2>2, <2>3 DEF Row
  <2>5. b \notin Q => \A u \in GoodTally, c \in Needs(b) :
                        Finds(Q \cup {b}, u, c, V[CallFor(b, c, u)])
    <3>1. b \notin Q => Right(Q \cup {b})
      BY <1>1, <2>1
    <3> QED BY <2>1, <2>3, <3>1
  <2>6. Finds(Q, r, b, Outcome(V, Q, CallFor(y, b, r)))
    BY <1>1, <2>5, VisitOnce
  <2> QED BY <2>4, <2>6
<1> HIDE DEF Right
<1>2. 0 \in S
  <2>1. ASSUME NEW Q \in SUBSET App, Q # {}, Left(Q) <= 0 PROVE Right(Q)
    <3>1. ASSUME NEW b \in App, b \notin Q PROVE FALSE
      <4>1. Left(Q) \in Nat /\ Left(Q \cup {b}) \in Nat /\ Left(Q \cup {b}) < Left(Q)
        BY <3>1, LeftIs
      <4> QED BY <4>1, <2>1
    <3> QED BY <3>1, <2>1, <1>1
  <2> QED BY <2>1
<1>3. ASSUME NEW k \in 0..N, k # N, k \in S PROVE k + 1 \in S
  <2>1. ASSUME NEW Q \in SUBSET App, Q # {}, Left(Q) <= k + 1 PROVE Right(Q)
    <3>1. ASSUME NEW b \in App, b \notin Q PROVE Right(Q \cup {b})
      <4>1. Left(Q) \in Nat /\ Left(Q \cup {b}) \in Nat /\ Left(Q \cup {b}) < Left(Q)
        BY <3>1, LeftIs
      <4>2. Left(Q \cup {b}) <= k /\ Q \cup {b} \in SUBSET App /\ Q \cup {b} # {}
        BY <4>1, <2>1, <1>3
      <4> QED BY <4>2, <1>3
    <3> QED BY <3>1, <2>1, <1>1
  <2> QED BY <2>1, <1>3
<1>4. 0 \in Nat /\ N \in 0..N
  BY <1>0
<1>5. N \in S
  <2> HIDE DEF S, N
  <2> QED BY <1>0, <1>2, <1>3, <1>4, IntervalInduction
<1>6. Left(P) <= N
  BY LeftIs
<1>7. Right(P)
  BY <1>5, <1>6
<1> QED BY <1>7 DEF Right, Needs

\* All of an order is offered, and what precedes its last application is enough.
Chosen(order) ==
  \A i \in DOMAIN order : /\ offered[order[i]] # 0
                          /\ i # Len(order) => Enough(order[i], offered[order[i]])

\* A plan without a problem puts every application after what it needs.
LEMMA PlanInOrder ==
  ASSUME DependencyTypeOK, NEW a \in App, Plan(a).ok, NEW order, order = Plan(a).order
  PROVE  order \in Seq(App) /\ InOrder(order) /\ Chosen(order)
<1> DEFINE none == [order |-> <<>>, done |-> {}, ok |-> TRUE]
           call == [app |-> a, accepted |-> Release, before |-> none]
           V == Visit[{a}]
           r == Outcome(V, {}, call)
           t == VisitNeeds(V, none, a)
<1>1. none \in GoodTally
  <2>1. none \in Tally
    BY DEF Tally
  <2>2. DOMAIN none.order = {}
    OBVIOUS
  <2>3. Placed(none)
    BY <2>2 DEF Placed, InOrder
  <2> QED BY <2>1, <2>3 DEF GoodTally
<1> HIDE DEF none
<1>2. call \in VisitCall /\ call.app = a /\ call.accepted = Release /\ call.before = none
  BY <1>1, DependencyAssumption DEF VisitCall, GoodTally, Release
<1> HIDE DEF call
<1>3. Plan(a) = r
  <2>1. Visit[{}] = Row(Visit, {})
    BY VisitIs
  <2>2. Visit[{}][call] = Outcome(Visit[{} \cup {a}], {}, call)
    BY <1>2, <2>1 DEF Row
  <2>3. {} \cup {a} = {a}
    OBVIOUS
  <2> QED BY <2>2, <2>3 DEF Plan, call, none
<1>4. a \notin none.done
  BY DEF none
<1>5. \A u \in GoodTally, b \in Needs(a) : Finds({a}, u, b, V[CallFor(a, b, u)])
  BY VisitFinds
<1>6. t \in GoodTally /\ (t.ok => Needs(a) \subseteq t.done /\ a \notin Needs(a))
  <2>1. PICK Q : Q = {a}
    OBVIOUS
  <2>2. \A u \in GoodTally, b \in Needs(a) : Finds(Q, u, b, V[CallFor(a, b, u)])
    BY <1>5, <2>1
  <2>3. LET u == VisitNeeds(V, none, a)
        IN  u \in GoodTally /\ (u.ok => Needs(a) \subseteq u.done /\ Needs(a) \cap Q = {})
    BY <1>1, <2>2, NeedsFound
  <2> QED BY <2>1, <2>3
<1> HIDE DEF t
<1>7. offered[a] # 0 /\ r = [t EXCEPT !.done = @ \cup {a}, !.order = Append(@, a)]
  <2>1. CASE offered[a] = 0
    <3>1. r = [none EXCEPT !.done = @ \cup {a}, !.ok = FALSE]
      BY <1>2, <1>4, <2>1 DEF Outcome
    <3> QED BY <3>1, <1>3 DEF none
  <2>2. CASE offered[a] # 0
    BY <1>2, <1>4, <2>2 DEF Outcome, t
  <2> QED BY <2>1, <2>2
<1> HIDE DEF r
<1>8. r.ok = t.ok /\ r.order = Append(t.order, a)
  BY <1>6, <1>7 DEF GoodTally, Tally
<1>9. Append(t.order, a) \in Seq(App)
  BY <1>6, AppendProperties DEF GoodTally, Tally
<1>10. LET p == Append(t.order, a)
       IN  /\ InOrder(p) /\ Len(p) = Len(t.order) + 1 /\ p[Len(p)] = a
           /\ DOMAIN p = 1..Len(p)
           /\ \A i \in DOMAIN t.order : i \in DOMAIN p /\ p[i] = t.order[i]
  BY <1>3, <1>6, <1>8, PutLast
<1>11. Len(t.order) \in Nat /\ DOMAIN t.order = 1..Len(t.order)
  BY <1>6, LenProperties DEF GoodTally, Tally
<1>12. \A i \in DOMAIN t.order : Enough(t.order[i], offered[t.order[i]])
  BY <1>3, <1>6, <1>8 DEF GoodTally, Placed
<1>13. order = Append(t.order, a)
  BY <1>3, <1>8
<1>14. ASSUME NEW i \in DOMAIN order
       PROVE  /\ offered[order[i]] # 0
              /\ i # Len(order) => Enough(order[i], offered[order[i]])
  <2>1. i = Len(order) \/ i \in DOMAIN t.order
    BY <1>10, <1>11, <1>13, <1>14
  <2>2. CASE i = Len(order)
    BY <1>7, <1>10, <1>13, <2>2
  <2>3. CASE i \in DOMAIN t.order
    BY <1>10, <1>12, <1>13, <2>3 DEF Enough
  <2> QED BY <2>1, <2>2, <2>3
<1>15. Chosen(order)
  BY <1>14 DEF Chosen
<1> QED BY <1>9, <1>10, <1>13, <1>15


(***************************************************************************)
(* The inductive invariant.                                                *)
(***************************************************************************)
\* What each application needs, the versions of it that are Enough, and those
\* whose requirements agree: none of these changes.
Wanted == [a \in App |-> Needs(a)]
Suits == [b \in App |-> {v \in Release : Enough(b, v)}]
Single == {b \in App : OneRequirement(b)}

\* Version v of b is what a requires of it, where the requirements of b agree.
Meets(a, b, v) == v > 0 /\ (b \in Single => v \in requires[<<a, b>>])

\* A need that was met is met, and no removal is about to end that.
Answered ==
  \A a, b \in App : <<a, b>> \in promised =>
    /\ b \in Wanted[a] /\ a # b /\ b \notin removing
    /\ installed[a] > 0 /\ Meets(a, b, installed[b])

\* What an application of a plan needs is there or comes before it, and what is
\* there only because it is needed is enough for whoever needs it.
Ready ==
  \A i \in DOMAIN plan :
    /\ plan[i].version > 0
    /\ i # Len(plan) => plan[i].version \in Suits[plan[i].app]
    /\ \A b \in Wanted[plan[i].app] :
         /\ b # plan[i].app
         /\ \/ b \in changed
            \/ installed[b] \in Suits[b]
            \/ \E j \in 1..(i - 1) : plan[j].app = b /\ plan[j].version \in Suits[b]

DependencyInv == DependencyTypeOK /\ Answered /\ Ready

LEMMA SuitsMeet ==
  ASSUME NEW a \in App, NEW b \in Wanted[a], NEW v \in Suits[b]
  PROVE  Meets(a, b, v)
<1>1. b \in App /\ b \in Needs(a)
  BY DEF Wanted, Needs
<1>2. Enough(b, v)
  BY <1>1 DEF Suits
<1> QED BY <1>1, <1>2, Zenon DEF Enough, Meets, Single

LEMMA SameNeeds ==
  ASSUME requires' = requires
  PROVE  Wanted' = Wanted /\ Suits' = Suits /\ Single' = Single
  BY DEF Wanted, Suits, Single, Enough, OneRequirement, Needs

LEMMA DependencyBegins == DependencyInit => DependencyInv
<1> SUFFICES ASSUME DependencyInit PROVE DependencyInv
  OBVIOUS
<1>1. DependencyTypeOK
  <2>1. installed \in [App -> Release]
    BY DependencyAssumption DEF DependencyInit, Release
  <2> QED BY <2>1 DEF DependencyInit, DependencyTypeOK
<1>2. DOMAIN plan = {} /\ promised = {}
  BY DEF DependencyInit
<1> QED BY <1>1, <1>2 DEF DependencyInv, Answered, Ready

\* The plan of an installation.
LEMMA PlanKeeps ==
  ASSUME DependencyInv, NEW a \in App, PlanInstall(a)
  PROVE  DependencyInv'
<1>1. PICK order : order = Plan(a).order
  OBVIOUS
<1> DEFINE items == [i \in DOMAIN order |-> [app |-> order[i], version |-> offered[order[i]]]]
<1>2. /\ plan' = items /\ Plan(a).ok
      /\ UNCHANGED <<requires, offered, installed, removing, changed, promised, moves>>
  BY <1>1 DEF PlanInstall
<1>3. DependencyTypeOK /\ order \in Seq(App) /\ InOrder(order)
  <2>1. DependencyTypeOK
    BY DEF DependencyInv
  <2> QED BY <1>1, <1>2, <2>1, PlanInOrder
<1>13. Chosen(order)
  BY <1>1, <1>2, <1>3, PlanInOrder
<1>4. Len(order) \in Nat /\ DOMAIN order = 1..Len(order)
      /\ \A i \in DOMAIN order : order[i] \in App /\ offered[order[i]] \in Release
  BY <1>3 DEF DependencyTypeOK
<1>5. DOMAIN items = DOMAIN order
      /\ \A i \in DOMAIN order : items[i].app = order[i] /\ items[i].version = offered[order[i]]
                                 /\ items[i] \in PlannedItem
  BY <1>4 DEF PlannedItem
<1>6. items \in Seq(PlannedItem) /\ Len(items) = Len(order)
  BY <1>4, <1>5
<1> HIDE DEF items
<1>7. DependencyTypeOK'
  BY <1>2, <1>3, <1>6 DEF DependencyTypeOK
<1>8. Wanted' = Wanted /\ Suits' = Suits /\ Single' = Single
  BY <1>2, SameNeeds
<1>9. Answered'
  BY <1>2, <1>8 DEF DependencyInv, Answered, Meets
<1>10. ASSUME NEW i \in DOMAIN order, NEW b \in Wanted[order[i]]
       PROVE  /\ b # order[i]
              /\ \/ installed[b] \in Suits[b]
                 \/ \E j \in 1..(i - 1) : items[j].app = b /\ items[j].version \in Suits[b]
  <2>1. b \in Needs(order[i]) /\ b \in App
    BY <1>4, <1>10 DEF Wanted, Needs
  <2>2. /\ b # order[i]
        /\ \/ Enough(b, installed[b])
           \/ Enough(b, offered[b]) /\ \E j \in 1..(i - 1) : order[j] = b
    BY <1>3, <1>10, <2>1 DEF InOrder
  <2>3. installed[b] \in Release /\ offered[b] \in Release
    BY <1>3, <2>1 DEF DependencyTypeOK
  <2>4. CASE Enough(b, installed[b])
    BY <2>1, <2>2, <2>3, <2>4 DEF Suits
  <2>5. CASE Enough(b, offered[b]) /\ \E j \in 1..(i - 1) : order[j] = b
    <3>1. PICK j \in 1..(i - 1) : order[j] = b
      BY <2>5
    <3>2. offered[b] \in Suits[b]
      BY <2>1, <2>3, <2>5 DEF Suits
    <3>3. j \in DOMAIN order
      BY <1>4, <1>10, <3>1
    <3> QED BY <1>5, <2>2, <3>1, <3>2, <3>3
  <2> QED BY <2>2, <2>4, <2>5
<1>11. ASSUME NEW i \in DOMAIN order
       PROVE  /\ items[i].version > 0
              /\ i # Len(order) => items[i].version \in Suits[items[i].app]
  <2>1. order[i] \in App /\ offered[order[i]] \in Release /\ offered[order[i]] # 0
    BY <1>4, <1>11, <1>13 DEF Chosen
  <2>2. offered[order[i]] > 0
    BY <2>1, DependencyAssumption DEF Release
  <2>3. i # Len(order) => offered[order[i]] \in Suits[order[i]]
    BY <1>11, <1>13, <2>1 DEF Suits, Chosen
  <2> QED BY <1>5, <2>2, <2>3
<1>12. Ready'
  BY <1>2, <1>5, <1>6, <1>8, <1>10, <1>11 DEF Ready
<1> QED BY <1>7, <1>9, <1>12 DEF DependencyInv

\* A step of the plan: what it installs was promised to nobody in another version,
\* and finds what it needs.
LEMMA InstallKeeps ==
  ASSUME DependencyInv, InstallNext
  PROVE  DependencyInv'
<1> DEFINE item == plan[1]
           v == item.version
           a == item.app
           rest == Tail(plan)
           met == {<<a, b>> : b \in Needs(a) \ (changed \cup removing)}
           lost == {e \in promised : e[2] = a /\ rest = <<>> /\ v \notin requires[e]}
<1>1. DependencyTypeOK /\ Answered /\ Ready /\ plan \in Seq(PlannedItem) /\ plan # <<>>
  BY DEF DependencyInv, DependencyTypeOK, InstallNext
<1>2. Head(plan) = item /\ 1 \in DOMAIN plan /\ item \in PlannedItem
      /\ Len(plan) \in Nat /\ DOMAIN plan = 1..Len(plan)
  BY <1>1
<1>3. /\ installed' = [installed EXCEPT ![a] = v] /\ plan' = rest
      /\ promised' = (promised \ lost) \cup met
      /\ changed' = IF rest = <<>> THEN {} ELSE changed
      /\ UNCHANGED <<requires, offered, removing, moves>>
  BY <1>2 DEF InstallNext, Remembers
<1>4. a \in App /\ v \in Release
  BY <1>2 DEF PlannedItem
<1>5. /\ rest \in Seq(PlannedItem) /\ Len(rest) = Len(plan) - 1
      /\ \A i \in DOMAIN rest : /\ i + 1 \in DOMAIN plan /\ i \in Nat /\ i > 0
                                /\ rest[i] = plan[i + 1]
  BY <1>1, HeadTailProperties, LenProperties
<1>6. installed' \in [App -> Release] /\ installed'[a] = v
      /\ \A b \in App : b # a => installed'[b] = installed[b]
  BY <1>1, <1>3, <1>4 DEF DependencyTypeOK
<1>7. \A b \in Needs(a) : b \in App /\ <<a, b>> \in Edge
  BY DEF Needs
<1>8. met \subseteq Edge
  BY <1>7
<1>9. Wanted' = Wanted /\ Suits' = Suits /\ Single' = Single /\ Wanted[a] = Needs(a)
  BY <1>3, <1>4, SameNeeds DEF Wanted
<1>10. \A x, b \in App : <<x, b>> \in met <=> x = a /\ b \in Wanted[a] \ (changed \cup removing)
  BY <1>9
<1>11. rest = <<>> \/ v \in Suits[a]
  <2>1. Len(plan) = 1 => rest = <<>>
    BY <1>5
  <2>2. Len(plan) # 1 => v \in Suits[a]
    BY <1>1, <1>2 DEF Ready
  <2> QED BY <2>1, <2>2
<1>12. v > 0 /\ \A b \in Wanted[a] : b # a /\ (b \in changed \/ installed[b] \in Suits[b])
  <2>1. \A j : j \notin 1..(1 - 1)
    OBVIOUS
  <2> QED BY <1>1, <1>2, <2>1 DEF Ready
<1>13. DependencyTypeOK'
  BY <1>1, <1>3, <1>5, <1>6, <1>8 DEF DependencyTypeOK
<1> HIDE DEF item, v, a, rest, met
<1>14. Answered'
  <2> SUFFICES ASSUME NEW x \in App, NEW b \in App, <<x, b>> \in promised'
               PROVE  /\ b \in Wanted[x] /\ x # b /\ b \notin removing
                      /\ installed'[x] > 0 /\ Meets(x, b, installed'[b])
    BY <1>3, <1>9 DEF Answered, Meets
  <2>1. CASE <<x, b>> \in met
    <3>1. x = a /\ b \in Wanted[a] /\ b \notin changed /\ b \notin removing
      BY <1>10, <2>1
    <3>2. b # a /\ installed[b] \in Suits[b]
      BY <1>12, <3>1
    <3>3. Meets(a, b, installed[b])
      BY <1>4, <3>1, <3>2, SuitsMeet
    <3> QED BY <1>6, <1>12, <3>1, <3>2, <3>3
  <2>2. CASE <<x, b>> \in promised \ lost
    <3>1. /\ b \in Wanted[x] /\ x # b /\ b \notin removing
          /\ installed[x] > 0 /\ Meets(x, b, installed[b])
      BY <1>1, <2>2 DEF Answered
    <3>2. installed'[x] > 0
      BY <1>6, <1>12, <3>1
    <3>3. CASE b # a
      BY <1>6, <3>1, <3>2, <3>3
    <3>4. CASE b = a /\ rest = <<>>
      <4>1. v \in requires[<<x, b>>]
        BY <2>2, <3>4
      <4> QED BY <1>6, <1>12, <3>1, <3>2, <3>4, <4>1 DEF Meets
    <3>5. CASE b = a /\ rest # <<>>
      <4>1. Meets(x, b, v)
        BY <1>11, <3>1, <3>5, SuitsMeet
      <4> QED BY <1>6, <3>1, <3>2, <3>5, <4>1
    <3> QED BY <3>3, <3>4, <3>5
  <2> QED BY <1>3, <2>1, <2>2
<1>15. Ready'
  <2> SUFFICES ASSUME NEW i \in DOMAIN rest
               PROVE  /\ rest[i].version > 0
                      /\ i # Len(rest) => rest[i].version \in Suits[rest[i].app]
                      /\ \A b \in Wanted[rest[i].app] :
                           /\ b # rest[i].app
                           /\ \/ b \in changed'
                              \/ installed'[b] \in Suits[b]
                              \/ \E j \in 1..(i - 1) : rest[j].app = b /\ rest[j].version \in Suits[b]
    BY <1>3, <1>9 DEF Ready
  <2>1. i + 1 \in DOMAIN plan /\ i \in Nat /\ i > 0 /\ rest[i] = plan[i + 1] /\ rest # <<>>
    BY <1>5
  <2>2. /\ rest[i].version > 0
        /\ i # Len(rest) => rest[i].version \in Suits[rest[i].app]
    <3>1. i # Len(rest) => i + 1 # Len(plan)
      BY <1>2, <1>5, <2>1
    <3> QED BY <1>1, <2>1, <3>1 DEF Ready
  <2>3. ASSUME NEW b \in Wanted[rest[i].app]
        PROVE  /\ b # rest[i].app
               /\ \/ b \in changed'
                  \/ installed'[b] \in Suits[b]
                  \/ \E j \in 1..(i - 1) : rest[j].app = b /\ rest[j].version \in Suits[b]
    <3>1. /\ b # rest[i].app
          /\ \/ b \in changed
             \/ installed[b] \in Suits[b]
             \/ \E j \in 1..i : plan[j].app = b /\ plan[j].version \in Suits[b]
      <4>1. (i + 1) - 1 = i
        BY <2>1
      <4>2. /\ b # plan[i + 1].app
            /\ \/ b \in changed
               \/ installed[b] \in Suits[b]
               \/ \E j \in 1..((i + 1) - 1) : plan[j].app = b /\ plan[j].version \in Suits[b]
        BY <1>1, <2>1, <2>3 DEF Ready
      <4> QED BY <2>1, <4>1, <4>2
    <3>2. b \in App
      <4>1. rest[i] \in PlannedItem
        BY <1>5
      <4>2. rest[i].app \in App
        BY <4>1 DEF PlannedItem
      <4> QED BY <2>3, <4>2 DEF Wanted, Needs
    <3>3. CASE b \in changed
      BY <1>3, <2>1, <3>1, <3>3
    <3>4. CASE b = a
      BY <1>6, <1>11, <2>1, <3>1, <3>4
    <3>5. CASE b # a /\ installed[b] \in Suits[b]
      BY <1>6, <3>1, <3>2, <3>5
    <3>6. ASSUME b # a, NEW j \in 1..i, plan[j].app = b, plan[j].version \in Suits[b]
          PROVE  \E k \in 1..(i - 1) : rest[k].app = b /\ rest[k].version \in Suits[b]
      <4>1. j # 1
        BY <3>6 DEF a, item
      <4>2. PICK k \in 1..(i - 1) : j = k + 1
        <5>1. j - 1 \in 1..(i - 1) /\ j = (j - 1) + 1
          BY <2>1, <4>1
        <5> QED BY <5>1
      <4>3. k \in DOMAIN rest
        <5>1. DOMAIN rest = 1..Len(rest) /\ Len(rest) \in Nat
          BY <1>5, LenProperties
        <5> QED BY <2>1, <4>2, <5>1
      <4>4. rest[k] = plan[j]
        BY <1>5, <4>2, <4>3
      <4> QED BY <3>6, <4>4
    <3> QED BY <3>1, <3>3, <3>4, <3>5, <3>6
  <2> QED BY <2>2, <2>3
<1> QED BY <1>13, <1>14, <1>15 DEF DependencyInv

LEMMA StopKeeps ==
  ASSUME DependencyInv, InstallStops
  PROVE  DependencyInv'
<1>1. /\ plan' = <<>> /\ changed' = {}
      /\ UNCHANGED <<requires, offered, installed, removing, promised, moves>>
  BY DEF InstallStops
<1>2. Wanted' = Wanted /\ Single' = Single
  BY <1>1, SameNeeds
<1>3. DependencyTypeOK'
  BY <1>1 DEF DependencyInv, DependencyTypeOK
<1>4. Answered'
  BY <1>1, <1>2 DEF DependencyInv, Answered, Meets
<1>5. DOMAIN plan' = {}
  BY <1>1
<1>6. Ready'
  BY <1>5 DEF Ready
<1> QED BY <1>3, <1>4, <1>6 DEF DependencyInv

\* canUninstall: nothing that is installed needs what begins to be removed.
LEMMA StartKeeps ==
  ASSUME DependencyInv, NEW a \in App, StartRemoval(a)
  PROVE  DependencyInv'
<1>1. /\ removing' = removing \cup {a}
      /\ \A x \in App \ {a} : installed[x] > 0 => a \notin Wanted[x]
      /\ UNCHANGED <<requires, offered, installed, plan, changed, promised, moves>>
  BY DEF StartRemoval, Wanted
<1>2. Wanted' = Wanted /\ Suits' = Suits /\ Single' = Single
  BY <1>1, SameNeeds
<1>3. DependencyTypeOK'
  BY <1>1 DEF DependencyInv, DependencyTypeOK
<1>4. Answered'
  BY <1>1, <1>2 DEF DependencyInv, Answered, Meets
<1>5. Ready'
  BY <1>1, <1>2 DEF DependencyInv, Ready
<1> QED BY <1>3, <1>4, <1>5 DEF DependencyInv

\* A version of a that changes without a plan: nothing is promised of it any more,
\* and a plan under way no longer counts on it.
LEMMA ChangeKeeps ==
  ASSUME DependencyInv, NEW a \in App, NEW v \in Release, NEW S \in SUBSET removing,
         installed' = [installed EXCEPT ![a] = v], removing' = S,
         promised' \subseteq promised,
         \A x, b \in App : <<x, b>> \in promised' => x # a /\ b # a,
         Remembers({a}, plan), UNCHANGED <<requires, offered, plan>>, moves' \in Nat
  PROVE  DependencyInv'
<1>1. DependencyTypeOK /\ Answered /\ Ready
  BY DEF DependencyInv
<1>2. Wanted' = Wanted /\ Suits' = Suits /\ Single' = Single
  BY SameNeeds
<1>3. installed' \in [App -> Release] /\ \A b \in App : b # a => installed'[b] = installed[b]
  BY <1>1 DEF DependencyTypeOK
<1>4. changed' = IF plan = <<>> THEN {} ELSE changed \cup {a}
  BY DEF Remembers
<1>5. changed' \in SUBSET App
  BY <1>1, <1>4 DEF DependencyTypeOK
<1>6. Answered'
  <2> SUFFICES ASSUME NEW x \in App, NEW b \in App, <<x, b>> \in promised'
               PROVE  /\ b \in Wanted[x] /\ x # b /\ b \notin removing'
                      /\ installed'[x] > 0 /\ Meets(x, b, installed'[b])
    BY <1>2 DEF Answered, Meets
  <2>1. x # a /\ b # a /\ <<x, b>> \in promised
    OBVIOUS
  <2>2. /\ b \in Wanted[x] /\ x # b /\ b \notin removing
        /\ installed[x] > 0 /\ Meets(x, b, installed[b])
    BY <1>1, <2>1 DEF Answered
  <2> QED BY <1>3, <2>1, <2>2
<1>7. Ready'
  <2>1. ASSUME NEW i \in DOMAIN plan, NEW b \in Wanted[plan[i].app]
        PROVE  /\ b # plan[i].app
               /\ \/ b \in changed'
                  \/ installed'[b] \in Suits[b]
                  \/ \E j \in 1..(i - 1) : plan[j].app = b /\ plan[j].version \in Suits[b]
    <3>1. /\ b # plan[i].app
          /\ \/ b \in changed
             \/ installed[b] \in Suits[b]
             \/ \E j \in 1..(i - 1) : plan[j].app = b /\ plan[j].version \in Suits[b]
      BY <1>1, <2>1 DEF Ready
    <3>2. plan # <<>> /\ plan[i] \in PlannedItem
      BY <1>1, <2>1 DEF DependencyTypeOK
    <3>3. b \in App
      <4>1. plan[i].app \in App
        BY <3>2 DEF PlannedItem
      <4> QED BY <2>1, <4>1 DEF Wanted, Needs
    <3>4. changed' = changed \cup {a}
      BY <1>4, <3>2
    <3>5. CASE b = a
      BY <3>1, <3>4, <3>5
    <3>6. CASE b # a
      BY <1>3, <3>1, <3>3, <3>4, <3>6
    <3> QED BY <3>5, <3>6
  <2>2. \A i \in DOMAIN plan : /\ plan[i].version > 0
                               /\ i # Len(plan) => plan[i].version \in Suits[plan[i].app]
    BY <1>1 DEF Ready
  <2> QED BY <1>2, <2>1, <2>2 DEF Ready
<1> QED BY <1>1, <1>3, <1>5, <1>6, <1>7 DEF DependencyInv, DependencyTypeOK

\* A removal ends, or somebody else changes an application.
LEMMA RemovalKeeps ==
  ASSUME DependencyInv, NEW a \in App, RemovalEnds(a)
  PROVE  DependencyInv'
<1>1. /\ a \in removing /\ installed' = [installed EXCEPT ![a] = 0]
      /\ removing' = removing \ {a} /\ Remembers({a}, plan)
      /\ promised' = {e \in promised : e[1] # a}
      /\ UNCHANGED <<requires, offered, plan, moves>>
  BY DEF RemovalEnds
<1>2. \A x, b \in App : <<x, b>> \in promised' => x # a /\ b # a
  <2> SUFFICES ASSUME NEW x \in App, NEW b \in App, <<x, b>> \in promised'
               PROVE  x # a /\ b # a
    OBVIOUS
  <2>1. <<x, b>> \in promised /\ x # a
    BY <1>1
  <2>2. b \notin removing
    BY <2>1 DEF DependencyInv, Answered
  <2> QED BY <1>1, <2>1, <2>2
<1>3. 0 \in Release /\ removing \ {a} \in SUBSET removing /\ promised' \subseteq promised
      /\ moves' \in Nat
  BY <1>1, DependencyAssumption DEF Release, DependencyInv, DependencyTypeOK
<1> QED BY <1>1, <1>2, <1>3, ChangeKeeps

LEMMA OthersKeep ==
  ASSUME DependencyInv, NEW a \in App, OthersChange(a)
  PROVE  DependencyInv'
<1>1. PICK v \in Release : installed' = [installed EXCEPT ![a] = v]
  BY DEF OthersChange
<1>2. /\ removing' = removing /\ Remembers({a}, plan)
      /\ promised' = {e \in promised : a \notin {e[1], e[2]}}
      /\ UNCHANGED <<requires, offered, plan>> /\ moves' = moves + 1
  BY DEF OthersChange
<1>3. \A x, b \in App : <<x, b>> \in promised' => x # a /\ b # a
  BY <1>2
<1>4. removing \in SUBSET removing /\ promised' \subseteq promised /\ moves' \in Nat
  BY <1>2 DEF DependencyInv, DependencyTypeOK
<1> QED BY <1>1, <1>2, <1>3, <1>4, ChangeKeeps

LEMMA OfferKeeps ==
  ASSUME DependencyInv, NEW a \in App, Offer(a)
  PROVE  DependencyInv'
<1>1. /\ UNCHANGED <<requires, installed, plan, removing, changed, promised>>
      /\ moves' = moves + 1
      /\ \E v \in Release : offered' = [offered EXCEPT ![a] = v]
  BY DEF Offer
<1>2. Wanted' = Wanted /\ Suits' = Suits /\ Single' = Single
  BY <1>1, SameNeeds
<1>3. DependencyTypeOK'
  BY <1>1 DEF DependencyInv, DependencyTypeOK
<1>4. Answered' /\ Ready'
  BY <1>1, <1>2 DEF DependencyInv, Answered, Meets, Ready
<1> QED BY <1>3, <1>4 DEF DependencyInv

LEMMA DependencyStep == DependencyInv /\ [DependencyNext]_dependencyVars => DependencyInv'
<1> SUFFICES ASSUME DependencyInv, [DependencyNext]_dependencyVars PROVE DependencyInv'
  OBVIOUS
<1>1. CASE InstallNext
  BY <1>1, InstallKeeps
<1>2. CASE InstallStops
  BY <1>2, StopKeeps
<1>3. ASSUME NEW a \in App,
             PlanInstall(a) \/ StartRemoval(a) \/ RemovalEnds(a) \/ OthersChange(a) \/ Offer(a)
      PROVE  DependencyInv'
  BY <1>3, PlanKeeps, StartKeeps, RemovalKeeps, OthersKeep, OfferKeeps
<1>4. CASE UNCHANGED dependencyVars
  <2>1. Wanted' = Wanted /\ Suits' = Suits /\ Single' = Single
    BY <1>4, SameNeeds DEF dependencyVars
  <2> QED BY <1>4, <2>1 DEF dependencyVars, DependencyInv, DependencyTypeOK, Answered,
                            Meets, Ready
<1> QED BY <1>1, <1>2, <1>3, <1>4 DEF DependencyNext

\* The plan, the removals and what is installed keep to their sets, whatever others
\* install and remove in between (DependencyResolver.js, handlers/store.js).
THEOREM DependencyTypes == DependencySpec => []DependencyTypeOK
<1>1. DependencyInv => DependencyTypeOK
  BY DEF DependencyInv
<1> QED BY <1>1, DependencyBegins, DependencyStep, PTL DEF DependencySpec

\* What an application required when a plan installed it stays installed, in a
\* version that is accepted where all requirements agree, until somebody else
\* changes one of the two: for any applications, any sets of accepted versions with
\* any cycles, any marketplace, failures in the middle of a plan, and removals
\* (pianificaInstallazione and canUninstall in DependencyResolver.js).
THEOREM NeedsStayInstalled == DependencySpec => []NeedsAreInstalled
<1>1. ASSUME DependencyInv PROVE NeedsAreInstalled
  <2> SUFFICES ASSUME NEW e \in promised
               PROVE  /\ installed[e[2]] > 0
                      /\ OneRequirement(e[2]) => installed[e[2]] \in requires[e]
    BY DEF NeedsAreInstalled
  <2>1. PICK a \in App, b \in App : e = <<a, b>>
    BY <1>1, DependencyAssumption DEF DependencyInv, DependencyTypeOK
  <2>2. Meets(a, b, installed[b])
    BY <1>1, <2>1 DEF DependencyInv, Answered
  <2>3. e[2] = b /\ (OneRequirement(b) <=> b \in Single)
    BY <2>1, Zenon DEF Single
  <2> QED BY <2>1, <2>2, <2>3, Zenon DEF Meets
<1> QED BY <1>1, DependencyBegins, DependencyStep, PTL DEF DependencySpec
=============================================================================
