----------------------------- MODULE AppRuntime -----------------------------
(***************************************************************************)
(* What keeps one application running: the loader (AppLoader.js), its      *)
(* worker process and the restarts after a crash (appWorkerHost.js), its   *)
(* token and handlers in the broker (capabilityBroker.js) and its jobs in  *)
(* the scheduler (kernel/scheduler.js).  The application is of the kind    *)
(* that runs in a worker or of the kind the main process activates.        *)
(***************************************************************************)
EXTENDS Naturals, FiniteSets

CONSTANTS Child,           \* identities of worker processes
          NoChild,         \* the absence of one
          MaxLoads,        \* calls of loadApp suspended at once (a bound)
          MaxTimers,       \* restarts waiting at once (a bound)
          MaxRestarts      \* restarts of one entry (5)

ASSUME RuntimeAssumption == /\ NoChild \notin Child
                            /\ {MaxLoads, MaxTimers, MaxRestarts} \subseteq Nat \ {0}

VARIABLES kind,       \* "worker" or "direct"
          appLoaded,  \* _loaded has the application
          loads,      \* loadApp calls that wait: [database, activating]
          child,      \* per process: "none", "live" or "killed"
          worker,     \* the entry of the worker host: [process, restarts]
          timers,     \* restarts on a timer
          granted,    \* the broker has [token, handlers] of the application
          job,        \* the scheduler's entry: [scheduled, busy]
          oldRuns,    \* runs of entries that were replaced or cancelled
          residue     \* a failed activation or a pending restart was left behind

runtimeVars == <<kind, appLoaded, loads, child, worker, timers, granted, job,
                 oldRuns, residue>>

NoWorker == [process |-> NoChild, restarts |-> 0]
NoJob == [scheduled |-> FALSE, busy |-> FALSE]

RuntimeTypeOK ==
  /\ kind \in {"worker", "direct"}
  /\ appLoaded \in BOOLEAN
  /\ loads \in [database : 0..MaxLoads, activating : 0..MaxLoads]
  /\ child \in [Child -> {"none", "live", "killed"}]
  /\ worker \in [process : Child \cup {NoChild}, restarts : 0..MaxRestarts]
  /\ timers \in 0..MaxTimers
  /\ granted \in [token : BOOLEAN, handlers : BOOLEAN]
  /\ job \in [scheduled : BOOLEAN, busy : BOOLEAN]
  /\ oldRuns \in 0..MaxLoads
  /\ residue \in BOOLEAN

RuntimeInit ==
  /\ kind \in {"worker", "direct"}
  /\ appLoaded = FALSE
  /\ loads = [database |-> 0, activating |-> 0]
  /\ child = [c \in Child |-> "none"]
  /\ worker = NoWorker
  /\ timers = 0
  /\ granted = [token |-> FALSE, handlers |-> FALSE]
  /\ job = NoJob
  /\ oldRuns = 0
  /\ residue = FALSE

workerVars == <<child, worker, timers>>
jobVars == <<job, oldRuns>>

-----------------------------------------------------------------------------
\* The worker host

\* stopWorker: the process is told to end, the entry goes.
Stopped == [c \in Child |-> IF c = worker.process /\ child[c] = "live"
                            THEN "killed" ELSE child[c]]

\* Mutant: the older process is left running.
StartBeside ==
  \E c \in {c \in Child : child[c] = "none" /\ c # worker.process} :
    /\ child' = [child EXCEPT ![c] = "live"]
    /\ worker' = [process |-> c, restarts |-> 0]

\* startWorker: an older process is stopped first; the entry is a new one.
StartWorker ==
  \E c \in {c \in Child : child[c] = "none" /\ c # worker.process} :
    /\ child' = [Stopped EXCEPT ![c] = "live"]
    /\ worker' = [process |-> c, restarts |-> 0]

\* The exit of a process restarts it after a second, or forgets it, when it is
\* still the one of the entry; the exit of an older process is ignored.
Restarts(c, crashed) == crashed /\ worker.process = c /\ worker.restarts < MaxRestarts

Exit(c) ==
  /\ child[c] # "none"
  /\ child' = [child EXCEPT ![c] = "none"]
  /\ \E crashed \in BOOLEAN :
       /\ timers' = IF Restarts(c, crashed) THEN timers + 1 ELSE timers
       /\ worker' = CASE Restarts(c, crashed) -> [worker EXCEPT !.restarts = @ + 1]
                      [] worker.process = c /\ ~Restarts(c, crashed) -> NoWorker
                      [] OTHER -> worker
  /\ timers' <= MaxTimers
  /\ UNCHANGED <<kind, appLoaded, loads, granted, jobVars, residue>>

\* Mutant: a restart that finds the entry does nothing.
RestartUnlessKnown ==
  /\ timers > 0
  /\ timers' = timers - 1
  /\ IF worker.process = NoChild THEN StartWorker ELSE UNCHANGED <<child, worker>>
  /\ UNCHANGED <<kind, appLoaded, loads, granted, jobVars, residue>>

\* The second of a restart passes; nothing asks whether the worker was stopped.
RestartFires ==
  /\ timers > 0
  /\ timers' = timers - 1
  /\ StartWorker
  /\ UNCHANGED <<kind, appLoaded, loads, granted, jobVars, residue>>

-----------------------------------------------------------------------------
\* The scheduler

\* pianifica: a job of the same name is replaced; a run of the old one goes on.
Schedule ==
  /\ job' = [scheduled |-> TRUE, busy |-> FALSE]
  /\ oldRuns' = IF job.busy THEN oldRuns + 1 ELSE oldRuns
  /\ oldRuns' <= MaxLoads

\* annulla, annullaTutti
Cancel ==
  /\ job' = NoJob
  /\ oldRuns' = IF job.busy THEN oldRuns + 1 ELSE oldRuns
  /\ oldRuns' <= MaxLoads

\* A minute that matches: a job that still runs is skipped.
Minute ==
  /\ job.scheduled /\ ~job.busy
  /\ job' = [job EXCEPT !.busy = TRUE]
  /\ UNCHANGED <<kind, appLoaded, loads, workerVars, granted, oldRuns, residue>>

JobEnds ==
  /\ \/ job.busy /\ job' = [job EXCEPT !.busy = FALSE] /\ UNCHANGED oldRuns
     \/ oldRuns > 0 /\ oldRuns' = oldRuns - 1 /\ UNCHANGED job
  /\ UNCHANGED <<kind, appLoaded, loads, workerVars, granted, residue>>

-----------------------------------------------------------------------------
\* The loader

\* loadApp returns at once when the application is loaded, or waits for its
\* database.
Load ==
  /\ ~appLoaded
  /\ loads.database + loads.activating < MaxLoads
  /\ loads' = [loads EXCEPT !.database = @ + 1]
  /\ UNCHANGED <<kind, appLoaded, workerVars, granted, jobVars, residue>>

\* The database is open: a worker is started ...
LoadWorker ==
  /\ kind = "worker" /\ loads.database > 0
  /\ loads' = [loads EXCEPT !.database = @ - 1]
  /\ StartWorker
  /\ appLoaded' = TRUE
  /\ UNCHANGED <<kind, timers, granted, jobVars, residue>>

\* ... or a token is issued and the application activates itself; on its way it
\* may schedule its job.
Activate ==
  /\ kind = "direct" /\ loads.database > 0
  /\ loads' = [database |-> loads.database - 1, activating |-> loads.activating + 1]
  /\ granted' = [granted EXCEPT !.token = TRUE]
  /\ Schedule \/ UNCHANGED jobVars
  /\ UNCHANGED <<kind, appLoaded, workerVars, residue>>

Activated ==
  /\ loads.activating > 0
  /\ loads' = [loads EXCEPT !.activating = @ - 1]
  /\ granted' = [granted EXCEPT !.handlers = TRUE]
  /\ appLoaded' = TRUE
  /\ Schedule \/ UNCHANGED jobVars
  /\ UNCHANGED <<kind, workerVars, residue>>

\* A failed activation takes nothing back.
ActivationFails ==
  /\ loads.activating > 0
  /\ loads' = [loads EXCEPT !.activating = @ - 1]
  /\ residue' = TRUE
  /\ UNCHANGED <<kind, appLoaded, workerVars, granted, jobVars>>

\* unloadApp: token, handlers, worker, entry and jobs, in one go.
Unload ==
  /\ granted' = [token |-> FALSE, handlers |-> FALSE]
  /\ child' = Stopped
  /\ worker' = NoWorker
  /\ appLoaded' = FALSE
  /\ Cancel
  /\ residue' = (timers > 0)
  /\ UNCHANGED <<kind, loads, timers>>

RuntimeNext ==
  \/ \E c \in Child : Exit(c)
  \/ RestartFires \/ Minute \/ JobEnds
  \/ Load \/ LoadWorker \/ Activate \/ Activated \/ ActivationFails \/ Unload

\* A process that was told to end ends, and a timer fires.
RuntimeFairness ==
  /\ \A c \in Child : WF_runtimeVars(child[c] = "killed" /\ Exit(c))
  /\ WF_runtimeVars(RestartFires)

RuntimeSpec == RuntimeInit /\ [][RuntimeNext]_runtimeVars /\ RuntimeFairness

-----------------------------------------------------------------------------
Live == {c \in Child : child[c] = "live"}
Loading == loads.database + loads.activating > 0

\* An application that is neither loaded nor being loaded has no process, no
\* handler and no job, in whatever order loads, unloads, crashes and restarts
\* came; the two things that escape an unload are a restart that was on its
\* timer and an activation that failed.  And no process ever runs that the
\* host does not know: a second start replaces the first.
UnloadedLeavesNothing ==
  /\ Live \subseteq {worker.process}
  /\ ~appLoaded /\ ~Loading /\ ~residue
       => Live = {} /\ ~granted.handlers /\ ~job.scheduled

\* A worker that crashed runs again, however often it crashes: the limit of
\* restarts never ends it, for each restart begins a new entry.  Only an exit
\* without error or an unload ends it, and both forget the entry.
CrashedWorkerReturns ==
  []<>(Live # {} \/ worker = NoWorker)
=============================================================================
