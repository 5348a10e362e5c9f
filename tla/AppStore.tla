------------------------------ MODULE AppStore ------------------------------
(***************************************************************************)
(* One application of the store on one node: its row in installed_apps,    *)
(* its folder, the code in memory, and what changes them: installation and *)
(* removal by hand (handlers/store.js), automatic updates with retries     *)
(* (AppUpdateManager.js), rollback to an archived version                  *)
(* (clusterAppRollback.js), repair of a missing folder                     *)
(* (clusterStateDriftDetector.js), what other nodes announce               *)
(* (clusterAppLifecycle.js), and calls that load it (capabilityBroker.js). *)
(* A version is a number; 0 stands for no row, no folder, no code.         *)
(***************************************************************************)
EXTENDS Naturals, FiniteSets

CONSTANTS Hand,          \* operations started by hand or by a timer, at once
          Updater,       \* the one operation the queue of updates runs
          MaxVersion,    \* versions of the application (a bound)
          MaxAttempts,   \* attempts of an update (3)
          MaxClears      \* locks waiting on a timer to be cleared (a bound)

ASSUME StoreAssumption == /\ Updater \notin Hand
                          /\ {MaxVersion, MaxAttempts, MaxClears} \subseteq Nat \ {0}

VARIABLES row,        \* version of the active row
          folder,     \* version of the folder
          running,    \* version of the code in memory
          market,     \* version the marketplace offers
          archived,   \* versions whose packages are kept
          lock,       \* "free", "busy" (refuses others), "shown" (refuses nobody)
          clears,     \* timers that will clear the lock
          queued,     \* version of the update in the queue, 0 if none
          task,       \* per operation: [kind, step, version, staged, attempt]
          disturbed   \* something happened that no operation undoes

storeVars == <<row, folder, running, market, archived, lock, clears, queued, task, disturbed>>

Op == Hand \cup {Updater}
Version == 1..MaxVersion
NoOp == [kind |-> "none", step |-> "idle", version |-> 0, staged |-> 0, attempt |-> 0]

Kinds == {"none", "install", "uninstall", "rollback", "repair", "update"}
Steps == {"idle", "reading", "fetching", "swapping", "renaming", "recording",
          "loading", "registering", "deleting", "waiting"}

StoreTypeOK ==
  /\ {row, folder, running, queued} \subseteq 0..MaxVersion
  /\ market \in Version /\ archived \subseteq Version
  /\ lock \in {"free", "busy", "shown"}
  /\ clears \in 0..MaxClears
  /\ task \in [Op -> [kind : Kinds, step : Steps, version : 0..MaxVersion,
                    staged : 0..MaxVersion, attempt : 0..MaxAttempts]]
  /\ disturbed \in BOOLEAN

StoreInit ==
  /\ row = 0 /\ folder = 0 /\ running = 0
  /\ market = 1 /\ archived = {}
  /\ lock = "free" /\ clears = 0 /\ queued = 0
  /\ task = [o \in Op |-> NoOp]
  /\ disturbed = FALSE

Idle(o) == task[o].step = "idle"
Alone(o) == \A p \in Op \ {o} : Idle(p)
Quiescent == \A o \in Op : Idle(o)

At(o, kind, step) == task[o].kind = kind /\ task[o].step = step
Goto(o, step) == task' = [task EXCEPT ![o].step = step]
End(o) == task' = [task EXCEPT ![o] = NoOp]

\* An operation that begins beside another one.
BeginOp(o, kind, step, v) ==
  /\ Idle(o)
  /\ task' = [task EXCEPT ![o] = [kind |-> kind, step |-> step, version |-> v,
                              staged |-> 0, attempt |-> 1]]
  /\ disturbed' = (disturbed \/ ~Alone(o))

\* endManualOperation and the failures of the queue: the outcome is shown until
\* a timer clears the lock, whoever holds it then.
ShowUntilCleared == lock' = "shown" /\ clears' = clears + 1 /\ clears' <= MaxClears

ClearLock ==
  /\ clears > 0
  /\ clears' = clears - 1 /\ lock' = "free"
  /\ UNCHANGED <<row, folder, running, market, archived, queued, task, disturbed>>

\* loadApp: nothing when it is loaded; otherwise the code of the folder.
LoadOf == IF running = 0 THEN folder ELSE running

\* pulisciStagingResidui deletes the staging folders of every operation.
Swept(o, step) == [p \in Op |-> [task[p] EXCEPT !.staged = 0,
                                              !.step = IF p = o THEN step ELSE @]]

-----------------------------------------------------------------------------
\* installaSingola: the lock is read before a wait and taken after it.

StartInstall(o) ==
  /\ lock # "busy"
  /\ \E v \in {market} \cup archived : BeginOp(o, "install", "reading", v)
  /\ UNCHANGED <<row, folder, running, market, archived, lock, clears, queued>>

TakeLock(o) ==
  /\ At(o, "install", "reading")
  /\ Goto(o, "fetching")
  /\ lock' = "busy"
  /\ UNCHANGED <<row, folder, running, market, archived, clears, queued, disturbed>>

\* Mutant: a download that fails leaves the lock.
InstallFailsLocked(o) ==
  /\ At(o, "install", "fetching")
  /\ End(o)
  /\ UNCHANGED <<row, folder, running, market, archived, lock, clears, queued, disturbed>>

InstallFails(o) ==
  /\ At(o, "install", "fetching")
  /\ End(o)
  /\ ShowUntilCleared
  /\ UNCHANGED <<row, folder, running, market, archived, queued, disturbed>>

\* The package is staged and kept, the code unloaded, the caches awaited.
Fetched(o) ==
  /\ At(o, "install", "fetching")
  /\ task' = [task EXCEPT ![o].step = "swapping", ![o].staged = task[o].version]
  /\ archived' = archived \cup {task[o].version}
  /\ lock' = "busy" /\ running' = 0
  /\ UNCHANGED <<row, folder, market, clears, queued, disturbed>>

\* The folder is deleted, then the staging folder takes its place if it is there.
Swap(o) ==
  /\ At(o, "install", "swapping")
  /\ \/ /\ task[o].staged # 0
        /\ folder' = task[o].staged
        /\ task' = Swept(o, "loading")
        /\ UNCHANGED <<lock, clears>>
     \/ /\ task[o].staged = 0
        /\ folder' = 0
        /\ End(o)
        /\ ShowUntilCleared
  /\ UNCHANGED <<row, running, market, archived, queued, disturbed>>

\* The manifest on the disk is read and loaded; its version goes into the row
\* when the load is done.
LoadInstalled(o) ==
  /\ At(o, "install", "loading") /\ LoadOf # 0
  /\ running' = LoadOf
  /\ task' = [task EXCEPT ![o].step = "registering",
                      ![o].version = IF folder = 0 THEN @ ELSE folder]
  /\ UNCHANGED <<row, folder, market, archived, lock, clears, queued, disturbed>>

LoadFails(o) ==
  /\ At(o, "install", "loading")
  /\ running = 0
  /\ End(o)
  /\ ShowUntilCleared
  /\ disturbed' = (disturbed \/ row # folder)
  /\ UNCHANGED <<row, folder, running, market, archived, queued>>

Register(o) ==
  /\ At(o, "install", "registering")
  /\ row' = task[o].version
  /\ End(o)
  /\ ShowUntilCleared
  /\ UNCHANGED <<folder, running, market, archived, queued, disturbed>>

-----------------------------------------------------------------------------
\* uninstall, and the same removal announced by another node

Removed == row' = 0 /\ folder' = 0 /\ running' = 0

StartUninstall(o) ==
  /\ lock # "busy" /\ row # 0
  /\ BeginOp(o, "uninstall", "reading", 0)
  /\ UNCHANGED <<row, folder, running, market, archived, lock, clears, queued>>

RemoveAll(o) ==
  /\ At(o, "uninstall", "reading")
  /\ Removed
  /\ Goto(o, "deleting")
  /\ UNCHANGED <<market, archived, lock, clears, queued, disturbed>>

\* After the save the row and the archive are deleted, whatever they are by then.
DeleteRow(o) ==
  /\ At(o, "uninstall", "deleting")
  /\ row' = 0 /\ archived' = {}
  /\ End(o)
  /\ UNCHANGED <<folder, running, market, lock, clears, queued, disturbed>>

RemoteUninstall ==
  /\ Removed
  /\ disturbed' = (disturbed \/ ~Quiescent)
  /\ UNCHANGED <<market, archived, lock, clears, queued, task>>

\* A version announced by another node goes into the row, not to the folder.
RemoteInstall ==
  /\ row' \in Version /\ row' # row
  /\ disturbed' = TRUE
  /\ UNCHANGED <<folder, running, market, archived, lock, clears, queued, task>>

-----------------------------------------------------------------------------
\* rollbackAppVersion: no lock

StartRollback(o) ==
  /\ row # 0
  /\ \E v \in archived : BeginOp(o, "rollback", "swapping", v)
  /\ running' = 0
  /\ UNCHANGED <<row, folder, market, archived, lock, clears, queued>>

RollbackFails(o) ==
  /\ At(o, "rollback", "swapping")
  /\ End(o)
  /\ UNCHANGED <<row, folder, running, market, archived, lock, clears, queued, disturbed>>

\* Mutant: the row keeps the version from before the rollback.
RollbackUnrecorded(o) ==
  /\ At(o, "rollback", "swapping")
  /\ folder' = task[o].version
  /\ Goto(o, "loading")
  /\ UNCHANGED <<row, running, market, archived, lock, clears, queued, disturbed>>

RollbackSwap(o) ==
  /\ At(o, "rollback", "swapping")
  /\ folder' = task[o].version
  /\ row' = IF row = 0 THEN 0 ELSE task[o].version
  /\ Goto(o, "loading")
  /\ UNCHANGED <<running, market, archived, lock, clears, queued, disturbed>>

\* The outcome of the load is not looked at.
RollbackLoad(o) ==
  /\ At(o, "rollback", "loading")
  /\ running' \in {running, LoadOf}
  /\ End(o)
  /\ UNCHANGED <<row, folder, market, archived, lock, clears, queued, disturbed>>

-----------------------------------------------------------------------------
\* checkClusterStateDrift: a missing folder is fetched again; no lock

StartRepair(o) ==
  /\ row # 0 /\ folder = 0
  /\ BeginOp(o, "repair", "fetching", row)
  /\ UNCHANGED <<row, folder, running, market, archived, lock, clears, queued>>

Repair(o) ==
  /\ At(o, "repair", "fetching")
  /\ \/ folder' = task[o].version /\ task' = Swept(o, "loading")
     \/ End(o) /\ UNCHANGED folder
  /\ UNCHANGED <<row, running, market, archived, lock, clears, queued, disturbed>>

RepairLoad(o) ==
  /\ At(o, "repair", "loading")
  /\ running' \in {running, LoadOf}
  /\ End(o)
  /\ UNCHANGED <<row, folder, market, archived, lock, clears, queued, disturbed>>

-----------------------------------------------------------------------------
\* The queue of updates

\* _runCheck: the marketplace is compared with the folder.
RunCheck ==
  /\ row # 0 /\ market > (IF folder # 0 THEN folder ELSE row)
  /\ lock # "busy" /\ queued = 0
  /\ queued' = market
  /\ lock' = "shown"
  /\ UNCHANGED <<row, folder, running, market, archived, clears, task, disturbed>>

\* _processQueue runs one update at a time.
TakeQueued ==
  /\ queued # 0
  /\ BeginOp(Updater, "update", "fetching", queued)
  /\ queued' = 0
  /\ lock' = "busy"
  /\ UNCHANGED <<row, folder, running, market, archived, clears>>

\* The package is of the version the marketplace offers by now.
UpdateFetched ==
  /\ At(Updater, "update", "fetching")
  /\ task' = [task EXCEPT ![Updater].step = "swapping", ![Updater].staged = market]
  /\ lock' = "busy"
  /\ disturbed' = (disturbed \/ market # task[Updater].version)
  /\ UNCHANGED <<row, folder, running, market, archived, clears, queued>>

UpdateDeletes ==
  /\ At(Updater, "update", "swapping")
  /\ running' = 0 /\ folder' = 0
  /\ Goto(Updater, "renaming")
  /\ UNCHANGED <<row, market, archived, lock, clears, queued, disturbed>>

\* The staging folder cannot be renamed onto a folder, nor when it is gone.
Renamable == task[Updater].staged # 0 /\ folder = 0

UpdateRenames ==
  /\ At(Updater, "update", "renaming") /\ Renamable
  /\ folder' = task[Updater].staged
  /\ task' = [task EXCEPT ![Updater].step = "recording", ![Updater].staged = 0]
  /\ UNCHANGED <<row, running, market, archived, lock, clears, queued, disturbed>>

UpdateFails ==
  /\ \/ At(Updater, "update", "fetching")
     \/ At(Updater, "update", "renaming") /\ ~Renamable
  /\ IF task[Updater].attempt < MaxAttempts
     THEN Goto(Updater, "waiting") /\ lock' = "shown" /\ UNCHANGED clears
     ELSE End(Updater) /\ ShowUntilCleared
  /\ UNCHANGED <<row, folder, running, market, archived, queued, disturbed>>

\* The lock of an update that waits refuses nobody.
Retry ==
  /\ At(Updater, "update", "waiting")
  /\ task' = [task EXCEPT ![Updater].step = "fetching", ![Updater].staged = 0,
                      ![Updater].attempt = @ + 1]
  /\ lock' = "busy"
  /\ UNCHANGED <<row, folder, running, market, archived, clears, queued, disturbed>>

\* The row takes the version of the queue and is inserted when it is missing.
UpdateRecords ==
  /\ At(Updater, "update", "recording")
  /\ row' = task[Updater].version
  /\ Goto(Updater, "loading")
  /\ UNCHANGED <<folder, running, market, archived, lock, clears, queued, disturbed>>

UpdateLoads ==
  /\ At(Updater, "update", "loading")
  /\ running' \in {running, LoadOf}
  /\ End(Updater)
  /\ lock' = "free"
  /\ UNCHANGED <<row, folder, market, archived, clears, queued, disturbed>>

-----------------------------------------------------------------------------
\* The world

\* ensureAppLoaded: a call loads the application, in the middle of anything.
CallLoads ==
  /\ running = 0 /\ folder # 0
  /\ running' = folder
  /\ disturbed' = (disturbed \/ ~Quiescent)
  /\ UNCHANGED <<row, folder, market, archived, lock, clears, queued, task>>

\* The end of an installation or of a repair of another application.
OthersSweep ==
  /\ \E o \in Op : task[o].staged # 0
  /\ task' = [o \in Op |-> [task[o] EXCEPT !.staged = 0]]
  /\ disturbed' = TRUE
  /\ UNCHANGED <<row, folder, running, market, archived, lock, clears, queued>>

MarketMoves ==
  /\ market < MaxVersion
  /\ market' = market + 1
  /\ UNCHANGED <<row, folder, running, archived, lock, clears, queued, task, disturbed>>

\* The program stops and starts: reconcileInstalledApps deletes a folder
\* without a row, loadAllInstalledApps loads what is left.
Restart ==
  /\ folder' = IF row = 0 THEN 0 ELSE folder
  /\ running' \in {0, folder'}
  /\ lock' = "free" /\ clears' = 0 /\ queued' = 0
  /\ task' = [o \in Op |-> NoOp]
  /\ disturbed' = (disturbed \/ ~Quiescent)
  /\ UNCHANGED <<row, market, archived>>

\* The steps of an operation that is under way.
HandStep(o) ==
  \/ TakeLock(o) \/ InstallFails(o) \/ Fetched(o) \/ Swap(o)
  \/ LoadInstalled(o) \/ LoadFails(o) \/ Register(o)
  \/ RemoveAll(o) \/ DeleteRow(o)
  \/ RollbackFails(o) \/ RollbackSwap(o) \/ RollbackLoad(o)
  \/ Repair(o) \/ RepairLoad(o)

UpdateStep == \/ UpdateFetched \/ UpdateDeletes \/ UpdateRenames \/ UpdateFails
              \/ Retry \/ UpdateRecords \/ UpdateLoads

StoreNext ==
  \/ \E o \in Hand : \/ StartInstall(o) \/ StartUninstall(o) \/ StartRollback(o)
                     \/ StartRepair(o) \/ HandStep(o)
  \/ RunCheck \/ TakeQueued \/ UpdateStep
  \/ ClearLock \/ RemoteUninstall \/ RemoteInstall
  \/ CallLoads \/ OthersSweep \/ MarketMoves \/ Restart

\* Downloads and saves end by their timers, and so does every wait of a retry.
StoreFairness == /\ \A o \in Hand : WF_storeVars(HandStep(o))
                 /\ WF_storeVars(UpdateStep)
                 /\ WF_storeVars(ClearLock)

StoreSpec == StoreInit /\ [][StoreNext]_storeVars /\ StoreFairness

-----------------------------------------------------------------------------
\* Between operations the row, the folder and the code in memory are of one
\* version, after any sequence of installations, updates, rollbacks, removals
\* and restarts with their failures.  What breaks it, and nothing else does:
\* two operations at once, a call, a stop or the end of an installation of
\* another application in the middle of one, a load that fails after the swap
\* of an installation, a version announced by another node, and a marketplace
\* that moves between the check and the download.
FilesAgree ==
  Quiescent /\ ~disturbed => row = folder /\ running \in {0, folder}

\* An operation between where it takes the lock and where it gives it back.
Holds(o) == ~Idle(o) /\ \/ task[o].kind = "install" /\ task[o].step # "reading"
                        \/ task[o].kind = "update" /\ task[o].step # "waiting"

\* The lock refuses other operations only while one is under way that will give it
\* back: no failure and no timer of an earlier operation, and no other operation
\* that takes the lock or clears it meanwhile, leaves it behind.
BusyLockIsHeld == lock = "busy" => \E o \in Op : Holds(o)

\* The lock that refuses other operations is given back, on every path, again
\* and again.
LocksAreReleased == []<>(lock # "busy")
=============================================================================
