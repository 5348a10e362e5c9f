# Koradest: a TLA+ development of the distributed ledger and of the encrypted workspaces

Koradest is an Electron application that keeps the data of a company on the computers
of a local network, without a server.  Every computer (a *node*) holds encrypted SQLite
databases in memory; every change of a table becomes a signed block of a DAG, and nodes
exchange blocks over WebSockets.  This directory models the two parts on which the data
depends, the block ledger and the files of the workspaces, and the services around them
that keep state of their own: peers, sign-in and quorum, the applications and their store,
replicated rows, the clock, the bus, the recovery kit, updates, the registry of the
networks, the archives of applications, the form of their SDK, the connections between
nodes and the loop of the assistant.  TLC checks them all;
TLAPS proves the safety properties of all but one of them.  Paths below are relative to the
repository; modules and definitions are in this directory, and `PROJECT.json` maps each
definition to its lines.

## 1. Inventory

| Component | State it keeps | Operations | What makes it correct | Here |
|---|---|---|---|---|
| DAG ledger (`backend/dag/{block,graph,application}`) | `event_log`, `dag_tips` | createBlock, updateTips, ingestMany, drain, getBlocksSince | tips cover the log; the log only grows; blocks apply on top of their parents; an answer to a pull misses nothing | BlockLedger |
| Sync sessions (`dag/sync`, `p2p/protocol`) | `_inFlight`, pending RPCs | syncWithPeer, fullResync, the RPC handlers and timers | every session ends; replicas converge | BlockLedger |
| Clone and import (`sync/network_cloner.js`, `p2p/sync`, `db/bundle_importer.js`) | the databases, replaced as a whole | joinNetwork, handleCloneBundle, importClonedBundle, rebuildFromLog | a clone is a replica of the same history | BlockLedger |
| GDPR erasure (`security/gdpr`, `dag/security`) | tombstones in `event_log` | eraseSubject, shredTargets | what is erased stays erased, wherever the replica that erased it goes | BlockLedger |
| Encrypted databases (`backend/db`) | databases in memory, dirty marks, timers, `.enc`, `.enc.tmp`, daily copies | loadDatabase, saveDatabase, _writeToDisk, saveAll, flushAll, closeAll, the crypto worker | no change forgotten, no older version over a newer, nothing opens empty | NetworkWorkspace |
| Network lifecycle (`networks/lifecycle`, `networks/session`) | active session, bound workspace and key | activate, deactivate, switch, quit | one network at a time, its data only | NetworkWorkspace |
| Network registry and vault (`networks/registry`, `networks/lifecycle/network_activator.js`) | `networks.vault` and its copy, the key in the keyring, the directories | create, join, activate, deactivate, remove, list, update | what was entered is found again; no failure takes an archive with it | NetworkRegistry |
| Breaker, peer states, discovery (`p2p/resilience`, `p2p/peers`, `p2p/discovery`) | breaker and state machine per peer, `_inFlight` | isAllowed, onSuccess, onFailure, transition, expiry, syncWithPeer, start and stop of the server | a half-open breaker waits for one probe; a peer that is on is synchronised again | PeerSync |
| Quorum, sign-in, limiter, step-up (`networks/quorum`, `handlers/auth.js`, `security/auth_rate_limiter.js`, `step_up_auth.js`) | `_lostSince`, the policy, the session, failed attempts, challenges | watch, setPolicy, loginUser, loginUserVerify2fa, logout, verifyCurrentUser | a session ends when the quorum stays lost, and not before its grace; guesses are limited | NetworkAccess |
| Loader, worker host, scheduler, broker of one application (`core/AppLoader.js`, `core/appWorkerHost.js`, `core/kernel`) | loaded code, process, restart timers, token, handlers, jobs | loadApp, unloadApp, startWorker, exit, pianifica, annulla, esegui | an unloaded application leaves nothing; a crashed one comes back | AppRuntime |
| Installation, update, rollback, drift of one application (`handlers/store.js`, `core/AppUpdateManager.js`, `core/clusterApp*.js`, `clusterStateDriftDetector.js`) | row, folder, code in memory, lock, queue, archived packages | install, uninstall, update with retries, rollback, repair, announcements, start | row, folder and code are of one version; the lock is given back | AppStore |
| Dependencies (`core/DependencyResolver.js`) | the plan of a call of install | plan, carry out, canUninstall; changes by others | what a plan installed keeps what it required | AppDependencies |
| Rows of replicated tables (`dag/application/{block_applier,field_crdt_merger,json_crdt,state_rebuilder}.js`) | the rows on every node | upsert, delete, receive, import | readers of the same blocks agree | RowReplication |
| Hybrid clock (`dag/application/hlc.js`) | `wallTime`, `logical` | now, update, parse, compare | a stamp comes after all that was seen | HybridClock |
| Event bus (`core/bus`) | subscribers, processed ids | publish, subscribe, mark, expiry | delivered once per id | EventBus |
| Recovery kit (`networks/recovery`) | shares | split, combine | a threshold of shares rebuilds the code, one fewer does not | SecretSharing |
| Updates of the program (`core/updaterService.js`, `lanUpdateFetcher.js`, handlers of `ipcRouter.js`) | `_isDownloading`, `_adoptingLan`, `_pendingVersion`, failures per node | adoption from a node, repository, checks | one package at a time | ProgramUpdate |
| Archives of applications (`core/app_runtime_v2.js`, `core/change_capture`, `core/field_audit`) | rows, temporary triggers, the log of changes, savepoints, `_k_audit` | esegui, transazione, migration, reload, blocks of others | history and blocks tell what took effect, once | ChangeCapture |
| Form of the SDK (`src/sdk/v2/modulo`) | values and states of the fields, queue, timer, save under way | edit, save, submit, remove, change of record | what is shown as saved is saved; one record per form; edits do not wait for ever | FormAutosave |
| Connections (`p2p/transport`, key exchange and handshake of `p2p/protocol`) | `_sockets`, `_cachedStaticKey`, the state of every socket at both ends | connectToPeer, the key exchange, the handshake, registerSocket, closeAll, start and stop of the server | both ends keep the same socket; nodes of one network read each other | PeerConnections |
| Assistant (`ai/gateway`, `ai/ollama`) | `inAttesa`, the state of a loop that is suspended, the registry of tools, the count of the minute | chiedi, conferma, esegui, sospendi, eseguiStrumento, registerTools, unregisterApp | a call is executed once, and a write as the user confirmed it | AssistantLoop |
| Gossip, WebRTC, shared files (`p2p/*`) | sockets | - | the ledger takes from them that a message may be lost | no |
| Roles, capabilities, separation of duties; keys and signatures; retention; compaction and its like; the communication gateway; observability; IPC handlers and renderer | - | - | see *Not modelled* | no |

How they interact: an IPC handler changes a table and calls `wrapMutationWithEvent`
(`backend/db.js:167`), which creates the block, asks for a debounced save of the `ledger`
domain and pushes the block to the open sockets.  Discovery calls `syncWithPeer` again and
again for every peer.  Handlers of RPC messages call the ledger synchronously.  All of it
runs on databases that the network lifecycle opens, binds to a workspace and a key, and
closes; the files are written behind, by timers and a worker thread.

What is hard: blocks arrive in any order, twice, or never; sessions, full resyncs and local
mutations interleave at every `await`; a clone replaces a replica under a session; a crash
takes a node back to an older file while its blocks live on elsewhere; a snapshot that is
being encrypted outlives the switch to another network; a rename that was refused is tried
again after newer data has been flushed.  The list with lines is under "hazards" in
`PROJECT.json`.

## 2. Modules

    CausalLedger ........ abstract: replicas of one causal history
    BlockLedger ......... the ledger, sessions, clones, erasure; implements CausalLedger
    NetworkWorkspace .... workspaces: memory, files, worker, activation and switch
    PeerSync ............ peers, breaker, discovery, attempts in flight
    NetworkAccess ....... quorum, sign-in, limiter, step-up
    AppRuntime .......... one application: loader, worker, broker, jobs
    AppStore ............ one application: installation, update, rollback, repair
    AppDependencies ..... plans of installations, refusals of removals
    RowReplication ...... one row on every node
    ChangeCapture ....... the archive of an application and its traced operations
    FormAutosave ........ the form that saves by itself
    PeerConnections ..... the sockets between two nodes
    AssistantLoop ....... questions, tool calls, confirmations
    HybridClock, EventBus, SecretSharing, ProgramUpdate, NetworkRegistry
    MCBlockLedger, MCNetworkWorkspace, MCServices ... constants for TLC; MCServices
                          also composes the services
    BlockLedgerProofs, NetworkWorkspaceProofs, NetworkRegistryProofs
    PeerSyncProofs ...... PeerSync and PeerConnections
    ServiceProofs ....... HybridClock, EventBus, ProgramUpdate, NetworkAccess
    ApplicationProofs ... AppRuntime, FormAutosave, AssistantLoop, AppStore,
                          AppDependencies
    RecordProofs ........ ChangeCapture, RowReplication
    Extrema ............. lemmas the proofs share: least and greatest elements, intervals

### BlockLedger

A block is the number of its creation; `block[x]` is its content.  SHA-256 identifiers are
taken to be distinct: the content hashed holds the author and a fresh timestamp.  Two ghost
fields, `past` (the ancestors) and `seen` (what the author stored then), are only for the
properties and for the refinement.

| Model | Code |
|---|---|
| `ledger[n].row[x]` | the row of `event_log`: absent; `cipher`, a row of one's own, stored by createBlock as the hex of the encrypted payload; `plain`, as ingestOne stores it; `shredded`, the tombstone |
| `ledger[n].applied`, `.tips` | `is_applied = 1`; `dag_tips` |
| `disk[n]` | the last `ledger.enc` on disk |
| `schema[n]` | the tables that `getDomainForTable` finds: those of an application appear with `InstallApp` |
| `net`, `session[a][b]` | RPC messages and bundles in flight; where syncWithPeer of a with b is |
| `CreateBlock`, `EraseSubject` | wrapMutationWithEvent + createBlock + live push; eraseSubject, which runs to its first await in one piece |
| `Handshake`, `PullFrom`, `ServePull`, `PullAnswered`, `PullTimeout` | the awaits of syncWithPeer and the blocks_pull handler; a timeout or an error continues with no blocks, as the `.catch(() => null)` does |
| `FullResync` ... `ImportBundle` | full_resync, clone bundle, import and rebuildFromLog |
| `Persist`, `Crash`, `Lose` | a debounced save; the end of the process; a message lost with its connection |

Three details of the code carry most of the behaviour.  `deserializeRow` parses the payload
as JSON, which fails on a row of one's own: the handler of a pull, the push back and the
full resync then fail as a whole (`Unreadable`).  The final sort of `getBlocksSince`
subtracts strings, so a batch of several chunks has no particular order (`Orders`).  And
`_canApply` asks that parents are *stored*, not applied (`Drainable`).

### NetworkWorkspace

| Model | Code |
|---|---|
| `archive[w][d]` | the directory of network w: `<d>.enc`, `<d>.enc.tmp`, which is more recent, the daily copy |
| `memory[d]`, `base`, `key`, `dirty`, `timers` | the fields of DatabaseManager; a database is its network and its number of changes |
| `queue` | requests at the crypto worker, answered in order; a time-out or the death of the thread encrypts in place, in order too |
| `stuck` | writes that wait 50 ms to rename again |
| `session`, `task[t]` | network_session; what a call of activate or deactivate waits for |
| `overlapped` | a history variable: a call began while another one was under way (`Begins`) |
| `ChangeDebounced`, `ChangeImmediate`, `TimerFires` | a handler's change with saveDB(d) or saveDB(d, true); the 600 ms timer |
| `SnapshotWritten`, `RenameAgain` | _writeToDisk after its await, in the workspace bound *by then*; its retries |
| `ActivateClosed`, `LeaveActive`, `CloseAll`, `CloseAndOpen`, `Activated` | the pieces of activate, deactivate and teardownRuntime between two waits |
| `BeforeQuit`, `Stop` | the flush of before-quit; the end of the process, with torn files |

Abstractions: one day (one daily copy, and the throttle of an hour taken to be over);
opening all domains is one step (`openAll` awaits only work that is local and short); an
error of the disk is a failed rename.  Calls of the activator may overlap, for neither
network_activator.js nor the page of the networks keeps a second one out: an activation that
finds no session binds its own network over the databases of the first.  createNetwork, joinNetwork and removeNetwork are in
NetworkRegistry, without the single files; `unlock` and `setActiveNode` are not modelled.

### The services

| Module | State and what it stands for | Actions |
|---|---|---|
| PeerSync | `breaker[p]` of circuit_breaker.js, with `cooled` for a minute that has passed; `registry[p]` and `news[p]`, the state machine and when the peer was heard of; `attempt[p]`, the call in `_inFlight` and whether it still holds the entry of the registry; `host[p]`, the other computer | the pieces of syncWithPeer between its awaits, each way it ends, discovery, pings, the expiry and the watchdog, StartServer and StopServer, the changes of the other computer |
| NetworkAccess | `lostFor` is `_lostSince` in looks of the watcher; `sign[s]`, a call of a sign-in handler, where it waits and the challenge it checks a factor for; `challenges` and `wrong`, the map of challenges with their attempts; `failed` and `age`, what the limiter counts | Tick, SetPolicy, PeersChange, LoginUser, LoginByPasskey, VerifyFactor (several at once for one challenge), StepUp, Answered (hash, save or second factor), Logout, expiries, opening and teardown of the network |
| AppRuntime | `loads`, calls of loadApp that wait; `child[c]`, the processes; `worker`, the entry of the host; `timers`, restarts to come; `granted`, `job` | Load and its continuations, Unload, StartWorker, Exit, RestartFires, Schedule, Cancel, Minute, JobEnds |
| AppStore | `row`, `folder`, `running`: the version in installed_apps, on disk, in memory; `task[o]`, an operation and the await where it is; `lock`, `clears`, `queued` of AppUpdateManager | one action per piece of installation, removal, update, rollback and repair between two awaits, with its failure; announcements of other nodes; a restart at any point |
| AppDependencies | `requires`, the versions that a requirement accepts; `installed`, `offered`; `plan`, what the call of install still has to install, in the versions of the marketplace it read; `removing`, removals that passed their check; `changed` and `promised`, ghosts | PlanInstall, InstallNext, InstallStops, StartRemoval, RemovalEnds; OthersChange (a block of another node, an update, a rollback, an archived version, a second call of install: no plan and no check); Offer, another version in the marketplace |
| RowReplication | `blocks` of the table, with their parents and what they descend from; `present`, `tips`, `applied`, `table` (one row) per node; `gapped`, the nodes that applied a block ahead of one it descends from | Upsert, Delete, WriteOther (another record), each on top of the tips; Receive (store, tips, drain of what has its direct parents), Import with the rebuild from the log |
| HybridClock | `physical`, the computer's clock; `wallTime`, `logical`; the last stamp | ClockTicks, Now, Update, ClockRestarts |
| EventBus | `subscribed`, what waits for handlers, the processed ids, `received` | Subscribe, Unsubscribe, Publish, HandlerEnds, Mark, Forget |
| SecretSharing | the field of 256 elements from its tables, `shares`, `restored` | CreateKit, Restore |
| ProgramUpdate | `adoption`, `internet` (a download of the repository), the marks of updaterService.js, `readyVersion` | adoption from a node with its failures and the fallback, checks by timer, by the user and by announcement, the events of electron-updater, restart |
| NetworkRegistry | `vault`, the file and its copy with the key each was written under; `sealing`, whether this process has the key of the keyring; `archive[n]`, the directory; `bound`, `active`, `request[c]` | CreateNetwork, JoinNetwork, ActivateNetwork, Deactivate, RemoveNetwork and what follows each await; ListNetworks, UpdateEntry; ProcessRestarts, with a write cut short |
| ChangeCapture | `rows`, `schema`; `triggers`, `attiva` and `cambi`, the temporary triggers and tables; `open`, the savepoints with what each restores; `history` and `told`, what the last entry of `_k_audit` and the last block say of a record; `mine`, a ghost | OpenOperation, WriteRecord, ReplaceRecord (INSERT OR REPLACE), CloseOperation, FailOperation (rolled back; the operation around it may go on), RemoteWrite, MigrateArchive, ReopenArchive |
| FormAutosave | `typed` and `stato` of the fields; `inAttesa`, `timer`, `corrente` of the queue; `waiting`, `draining`: a flush or a submit that waits; `records` of the application | EditField, TimerFires, FormRemoved, SubmitForm; RecordWritten, SaveAnswered, SaveRefused with what goes on after them; SetValori, at any time, also during a save (`mixed`) |
| PeerConnections | per socket: `caller`, `step` (where the attempt of the caller is), `secured`, `ends` (readyState at either end), `wire` (frames under way); per node: `organisation`, `wireKey` (`_cachedStaticKey`), `sockets` (its pool) | Dial, Connects, ConnectFails, KexInit, KexResponse, KexTimeout, Shakes, Shaken, Refuses, TooLate, HandshakeTimeout, CloseArrives, Breaks; EnterOrganisation, LeaveOrganisation (stopSyncServer) |
| AssistantLoop | `tools`, the registry; per question: `loop`, `perNome` (the tools when its session began), `coda`, `passo`; `conferme`, the map of gateway_ai.js; `count`, the executions of the minute; `allowance`, a ghost | Chiedi, AsksModel, ModelCalls, ModelAnswers, NextCall (execute or suspend), Conferma, ConfermaExpires, CallReturns, Publishes, MinutePasses |

An operation on an archive is synchronous, so blocks of others, migrations and reloads come
between two.  An application changes its tables through its migrations only, and writes
through `esegui` and `transazione`.  Its `onSalva` is external: it creates the record with all
the values, updates the fields it is given, and either writes or refuses; it gives the form
another record at any time.  What a form shows when `campi` or `onSalva` is set again, which
also draws it anew, is left out.  `valido` in FormAutosave is the "ok" that `valida()` sets
at a submit, which the page cannot tell from the one of a save: after a save that was refused,
a submit ends with every acceptable field shown as saved and `true` returned, although
docs/TASK_ENTERPRISE.md:49 has the errors of the server shown on the field.

Of PeerConnections: a frame that is sent arrives in order or is lost with its connection, of
which each end learns for itself.  Only what syncWithPeer dials is there: the sockets of a
pull, a push back or a full resynchronisation shake no hands and are never pooled.  The
session of the network ends a little after stopSyncServer; the two are one step.  Of
AssistantLoop: the model may call any tool, known or not, and answer anything; a tool reads
or writes.  Confirmations are asked for (`confermaScritture`), and the router of agents is
not there, for no configuration turns it on.

What they have in common: an `await` of the code ends an action, and what another call
does before it resumes is another action, so that every interleaving of the event loop is
in the model.  Times are what the code compares (cooled, fresh, waited), versions and
clocks are small numbers, hashes and packages have no content.

Eight things the models show that a reader of the code may not expect.  A probe that ends in
an incompatible peer or before the connection is made reports nothing to the breaker, which
stays half open and refuses that peer from then on (`Stranded` in PeerSync).  A block is never
newer than a row, for `created_at` is a text and `last_modified` a number (RowReplication):
a merge fills in what is missing and unites arrays, and overwrites nothing.  And a network
that is removed without its data comes back in the list as an orphan, under an identity that
no code can match, so that it can neither be opened nor removed (NetworkRegistry; the page
of the networks, `src/js/features/networks/network_options_modal.js:23`, says the removal
deletes the network from the computer).  Two nodes that dial each other at once may close
both sockets, so that both pools are empty and live pushes are lost until the next
synchronisation; and an answer to a handshake that arrives after the node has left its
network still puts its socket in the pool (PeerConnections).  A call over the limit of a
minute is not asked about, since its execution will refuse it; when the minute turns in
between it is executed without a confirmation, and so is a call to a tool that began to
write after the session did (AssistantLoop).  A creation empties the directory it binds after
its teardown, also when another call has opened the same network by then (`BindsEmptied` in
NetworkRegistry).  A field that `INSERT OR REPLACE` empties leaves no entry in the history
(`Unlogged` in ChangeCapture): `recursive_triggers` is off, so that only the trigger of an
insert fires.  And the plan of an installation looks at an application once: a second
requirement of it, which the first one's version may not meet, is never checked
(`DependencyResolver.js:111`), although README.md:67 says that constraints are respected.

## 3. Runs

| Run | Question | Bounds | States |
|---|---|---|---|
| Ledger_sync | creation, erasure, pushes, pulls with losses; the log only grows | 2 nodes, 3 blocks | 540 000 |
| Ledger_resync | joins, full resyncs, an application installed late | 2 nodes, 2 records | 270 000 |
| Ledger_crash | crashes to the last file, clones; tips, erasures, answers to pulls, refinement; every session ends (fair) | 2 nodes, 2 blocks, 1 crash, one session at a time | 56 000 |
| Ledger_erasure | *violated*: erasure on all nodes | 2 nodes | - |
| Ledger_convergence | *violated*: replicas converge on a good network | 2 nodes | - |
| Workspace_switch | calls end, changes reach the disk (fair) | 2 networks, 2 overlapping calls, 1 domain, 2 changes, 3 switches, 1 refused rename | WSW |
| Workspace_crash | isolation of memory, no change forgotten, saves in order, clean closes, no file opens older than its copy, with crashes or a quit | 2 networks, 2 overlapping calls, 2 domains, 1 change, 3 switches, 1 refused rename, 2 crashes, symmetric | 867 000 |
| Workspace_isolation | *violated*: archives are separate | 2 networks | - |
| Services | seven services, one at a time (fair); see below | see below | 432 000 |
| Records | eight services, one at a time; see below | see below, symmetric | 719 000 |
| Rows_rule | *violated*: the rule of a network replicates | 2 nodes, 2 writes | - |
| Connections_switch | *violated*: nodes of one network understand each other | 2 nodes, 2 networks, 3 stays | - |

Why the bounds are enough: a hole in a replica needs a block, its child and a second author
(three blocks); reordering needs two messages in flight; a stale pull needs one block
created between request and answer; a clone under a session needs one import.  Two nodes differ in more than a row in cipher text,
so that an answer to a pull has something to bring, only after a crash: with it a node lacks
blocks of its own that the other holds as foreign ones, which is why PullAnswerComplete is
in the run with a crash.  A crash
of a node matters once, between a save and what follows it, and in the workspaces a second
time, after the first has put a domain back to its copy.  There the shortest
counterexample of every mutant and of the violated claim needs two changes and two
switches, or one change and a crash; two calls show every overlap of a teardown with an
activation; the second domain is there because domains are read before and after the landing
of the rejected snapshots.  A third node, that a block reaches through another in orders its
author never saw, was checked once with CoreNeverStranded (605 000 states); that property is
proved for any nodes.  Runs say `CHECK_DEADLOCK FALSE` because the bounds on blocks,
changes, switches and crashes stop the models, not the program.

Fairness.  `FairSpec` of the ledger: messages on an open connection arrive or are lost, a
request is answered or its timer fires (setTimeout of `rpc.js`), and discovery starts
syncWithPeer again.  Nothing is assumed of losses: SessionsEnd holds because `PullTimeout`
is always enabled while a session pulls.  Only the violated claim of convergence is checked
under the stronger `GoodSpec`, whose network serves every message infinitely often, so that
the violation cannot be blamed on losses.  `FairSpec` of the workspaces: timers fire, the
worker answers or its 30 s timer rejects, five attempts to rename end, continuations run.

### The runs of the services

The services call none of each other in what is modelled, so a behaviour of `ServicesSpec`
runs one of them, named by `service`, and the state space is the sum of theirs and not the
product.  Each keeps its own initial states, actions and fairness.  The constant `Running`
names those of a run: Services has the ones whose promises need time, with connections and
assistant, and ServicesTypeOK for them; Records has the others, whose networks and requests
are symmetric, which a run with liveness may not use.  (The types of the services of Records
were checked there once and are proved, but for SecretSharing.)

| Service | Bounds | Property | Says |
|---|---|---|---|
| PeerSync | 1 peer, breaker opens at 3 | BreakerGuardsCalls | half open is one probe in flight; open is none, and a peer that does not count for the quorum |
| | | UpPeerSynchronises | a peer that stays on is synchronised again and again, except for `Stranded` |
| NetworkAccess | 2 calls at once, 1 other node, graces 0 and 1, limits 2 and 1 | GraceRespected | the watcher ends a session only after the grace in force, all of it without quorum |
| | | LostQuorumEndsSession | a quorum that stays lost ends every session, also one whose save was awaited meanwhile |
| | | AttemptsBounded | parallel calls pass the limiter, and the count of a challenge, by less than their number |
| AppRuntime | 3 processes, 2 loads and 2 timers at once, restarts 2 | UnloadedLeavesNothing | no process, handler or job of an application that is not loaded, except for `residue` |
| | | CrashedWorkerReturns | the limit on restarts never ends a worker: every restart begins a new entry |
| AppStore | 1 operation next to the queue, 2 versions, 2 attempts | FilesAgree | row, folder and code agree between operations, unless `disturbed` |
| | | BusyLockIsHeld | a lock that refuses others has a holder under way, disturbed or not |
| | | LocksAreReleased | the lock is given back on every path |
| RowReplication | 3 nodes, 1 of them writes, 2 values, 3 blocks or 2 and a clone | ReadersAgree | readers of the same blocks have the same arrays, and the same row if one node wrote it in turn and neither is `gapped` |
| EventBus | 2 handlers, 2 publications of one id | BusDeliversOnce | once per handler, unless `repeatable` |
| SecretSharing | a byte of 3 values (1, 83, 254) and noise of the same, 4 shares of one kit | SharesRestore | a threshold restores, one share fewer never does |
| ProgramUpdate | 2 versions, fallback after 2 | TransfersAlone | one package at a time, unless `unmarked` |
| HybridClock | times to 2, counter to 3, 3 nodes | ClockAdvances | a new stamp comes after all that was made or taken in |
| NetworkRegistry | 2 networks, 2 calls at once, 1 write under another key | RegistrySurvives | a process with the keyring reads what was entered and not removed, unless `strange` is 2 |
| | | ArchivesOutliveFailures | an archive goes only by a removal that asks for it, and by the cases its definition lists |
| ChangeCapture | 2 records, one of a later migration, 1 text, 2 levels, 2 writes | HistoryTellsChanges | the history tells the changes of applications that took effect, and no others, but for what is `Unlogged` |
| | | BlocksTellRows | the last block of a record tells the record as it is |
| FormAutosave | 2 fields, one required, 4 edits, 2 forms opened | QuietFormIsSaved | there are no more records than forms opened for a new one, and what is shown as saved is in the record, unless `mixed` |
| | | EditsAreSettled | an edit is saved or refused, unless an error of another field holds it |
| PeerConnections | 2 nodes, 1 network entered 3 times, 2 sockets | PoolsAgree | when nothing is under way, an open socket on which hands were shaken is the one both pools have, and no pool has a closed one |
| AppDependencies | 3 applications, 4 pairs with a cycle and a second requirement, 2 versions, 8 choices of requirements, 1 change by others or of the marketplace | NeedsAreInstalled | what a plan installs has what it requires, from that step until somebody else changes one of the two |
| AssistantLoop | 2 questions, 1 tool, 2 steps, 2 calls in an answer, 1 may wait, 1 execution a minute, 1 change of the registry | CallsRunAsAllowed | a call is executed once, one that writes only as confirmed, however often it is answered |

The words in code type are ghost variables or definitions that name what breaks the claim in
the code: `residue`, a restart that was on its timer or an activation that failed;
`disturbed`, the cases listed at `FilesAgree` (two operations at once and a marketplace that
moves among them); `promised` of AppDependencies, the needs that were there, and not being
removed, when their application was installed (nothing looks at one that others changed
after the plan was made, and a version is promised where the requirements of an application
agree); `repeatable`, two publications that overlap or an id that expired; `unmarked`, a
download whose mark was taken off while it went on; `strange`, the writes under a key that
the next start will not have; `gapped`, a node that applied a block before one it descends
from, as `_canApply` allows; `Unlogged`, a field that was emptied without an entry; `mixed`,
a record given to the form during the save of another.  They are set by the very step that
does it and by no other, so what remains is claimed of all other orders; they also say what
is *not* caught, for the failing order itself is in the model and excluded by the property.
These are real weaknesses of the code, which the hazards they come from note.

Why the bounds are enough: a late answer needs one call and one timer; two calls at once show
every race of a check before an await with what follows it; three processes are the old one,
the new one and the one of a restart; three versions (none, old, new) show a row, a folder
and a memory that disagree; a cycle of dependencies needs two applications and a chain three,
two pairs with one target show requirements that differ, and one change by others, in the
middle of a plan or after it, everything that a plan does not look at again;
a merge that depends on the order needs a block that is applied ahead of another and a reader
next to it, and that needs three blocks in a chain; two
sockets are the one that was there and the one that takes its place; with one question that
may wait the second one drops the first; an operation inside another shows what nesting
does, and two writes the orders of the log around one that is rolled back or replaces; four
edits are a save, an edit during it, and a submit; two networks and two calls show a call
that leaves, removes or opens what the other one has entered.  Checked once besides, with the
same result: three sockets (745 000 states), two executions a minute (95 000), three writes
of an archive, two changes by others (403 000), two writers and two blocks.

Fairness of the services, each stated with the variables of its own module: a breaker's
minute passes and discovery tries again (intervals), an attempt ends (timeouts of the
connection and of the request), a peer that is on announces itself; the watcher's interval
fires and a hash or a save that is awaited comes back; a process that was killed exits and a
restart's timer fires; the timer of a form fires and its save is answered; an operation of
the store goes on to its next piece or fails, and the timer that clears its lock fires.  Nothing is assumed of users, of other nodes or of
failures.

Each property of each run comes with a mutant of a mapped definition (in the modules, marked
`Mutant:`), under which the same run finds it violated.

### What the violations show

* *Erasure does not replicate.*  README.md:102 says the instruction replicates to all
  nodes.  A received SHRED is applied by `reapplyToTables`, which skips SHRED blocks:
  `shredTargets` runs only on the node that erases.
* *Replicas do not converge by synchronising.*  README.md:33.  A node's own rows cannot be
  deserialised, so it answers pulls with an error as soon as one is among them; a live push
  that was lost is never made up for.
* *Archives are not separate.*  docs/decisioni/001-modello-multi-azienda.md:78.
  `_writeToDisk` reads `basePath` after the worker has answered: a snapshot in flight during
  a switch overwrites the other network's file.  The data stay unreadable there (another
  key), which is what MemoryIsolated and its proof show; the overwritten file falls back to
  the daily copy.

* *A node that changes its network cannot be understood there.*  README.md:33.
  `_getStaticKey` derives the key of the transport once for the life of the process; in the
  next network the key exchanges are under the old one, and each side drops those of the
  other.

* *The rule of a network does not replicate.*  README.md:30 says "La regola si replica su
  tutti i nodi tramite il registro distribuito".  `mergeFieldDeltas` compares the text
  `created_at` of the block with the number `last_modified` of the row; the comparison is
  false, so a node that has the row keeps its own.

Two more behaviours show up in the workspaces and limit what can be stated: a rename tried
again after a teardown puts an old `.tmp` over a newer flush, and a snapshot that comes back
after the flush of before-quit does the same.  `SavesMoveForward` is therefore stated for
the time without a pending rename and without a quit, and `CleanCloseSaves` for a teardown
that leaves no write behind.  `NeverOlderThanCopy` is stated for every crash and quit as long
as no rename was refused (`faults = 0`): the flush of before-quit that overtakes a snapshot
whose rename was refused leaves an older `.tmp` next to the newer file it has copied, and a
start prefers the `.tmp`.  Two overlapping calls of the activator (`overlapped`) may leave
databases of one network in memory under a session of the other, and so older versions over
newer ones: the part of `MemoryIsolated` about the key, `NoChangeForgotten` and
`CleanCloseSaves` hold all the same; the rest of `MemoryIsolated`, `SavesMoveForward` and
`NeverOlderThanCopy` are stated until it happens.

## 4. Proofs

TLAPS proves, for every value of the constants that the modules' assumptions allow:

| Theorem | Says |
|---|---|
| TypeCorrect, TipsAlwaysCover, BlocksDescend | TypeOK, TipsCoverLog and AuthorsSawPast are invariants of BlockLedger |
| LogOnlyGrows | the action property LogAppendOnly |
| LedgerIsCausal | BlockLedger implements CausalLedger (ImplementsCausalLedger) |
| CoreIsDrained | CoreNeverStranded: a core block whose parents are there does not wait |
| ErasureHolds | EraserStaysErased, of every replica, file and bundle |
| AnswersAreComplete | the action property PullAnswerComplete |
| MemoryStaysIsolated, WorkspaceTypes | MemoryIsolated and TypeOK of NetworkWorkspace, for any calls at once |
| CleanClosesSave | the action property CleanCloseSaves |
| ChangesRemembered | NoChangeForgotten |
| SavesGoForward | the action property SavesMoveForward |
| NeverOpensOlder | the action property NeverOlderThanCopy |
| RegistryIsKept, RegistryTypes | RegistrySurvives and the types of NetworkRegistry |
| ArchivesOutlive | the action property ArchivesOutliveFailures |
| BreakersGuard, PeerTypes | BreakerGuardsCalls and the types of PeerSync |
| PoolsStayAgreed | PoolsAgree of PeerConnections |
| AttemptsStayBounded, AccessTypes | AttemptsBounded and the types of NetworkAccess |
| GraceIsRespected | the action property GraceRespected |
| OneTransfer, UpdateTypes | TransfersAlone and the types of ProgramUpdate |
| DeliveredOnce, BusTypes | BusDeliversOnce and the types of EventBus |
| StampsAdvance, ClockTypes | the action property ClockAdvances and the types of HybridClock |
| NothingIsLeft, RuntimeTypes | UnloadedLeavesNothing and the types of AppRuntime |
| FilesStayAgreed, BusyLocksAreHeld, StoreTypes | FilesAgree, BusyLockIsHeld and the types of AppStore |
| NeedsStayInstalled, DependencyTypes | NeedsAreInstalled and the types of AppDependencies |
| QuietFormsAreSaved, FormTypes | QuietFormIsSaved and the types of FormAutosave |
| CallsStayAllowed, AssistantTypes | CallsRunAsAllowed and the types of AssistantLoop |
| HistoryIsComplete, BlocksAreComplete, CaptureTypes | HistoryTellsChanges, BlocksTellRows and the types of ChangeCapture |
| ReadersStayAgreed, RowTypes | ReadersAgree and the types of RowReplication |

*Ledger.*  AuthorsSawPast alone is not inductive: createBlock names only the tips, so the
new block descends from all its author stores only because the tips cover the log; and that
survives ingestion in any order only because a new block that is no tip has a child that is
new too, so that a maximal one (lemmas of Extrema) is a tip above it.  A replica also moves
as a whole to a file, into a bundle and back, so the invariant is stated as a predicate
`Good(b, r)` of a history and a replica: `LedgerInv == History(block) /\ Replicas /\
Network /\ Frame`.

On `LedgerInv` rest the others.  The refinement goes step by step: creation makes a causal
block, whatever stores or imports learns from a replica that exists, the rest stutters.
`Settled` says of every replica, file and bundle that a stored block waits only when it is
of an application or misses a parent, and is never one's own; one drain of an ingestion
brings that about, whatever the order it applies in, and a schema never loses a core table.
Whether an erasure holds is a question of one replica (`Wiped`): a SHRED in cipher text is
one of its author's rows, an ingestion stores rows in clear and changes none that is there,
and a file, a bundle or an import is a whole replica, so the tombstones travel with it.
An answer to a pull misses nothing.  The recursive walk over the parents exists because a
parent is older than its child, and what it reaches from the tips of a replica without holes
is stored on that replica (in both lemmas a least counterexample would have a smaller one):
so what the answer leaves out, the asker has.

*Workspaces.*  `WorkspaceInv == Sealing /\ Binding /\ Rest`.  `Sealing`: every file and
every snapshot that opens with a key holds data of that key's network - although files land
in foreign directories.  `Binding`: what is open was opened with the bound key, and a
session is active only over a complete set of databases.  What needs that no two calls have overlapped is
under `overlapped` in the invariant (`Single` says that one call at most is under way), and
the theorems have no hypothesis about calls.

Three more invariants follow a version through the pipeline.  `LastChangesKept`: the last
change of an open database is in its dirty mark or timer, or is the latest snapshot of its
domain at the worker (`Latest`), or waits to rename, or is on the disk.  `QueueInv`: the
snapshots of a domain are at the worker in the order of their versions and none is more
recent than memory, and a call that saves before it leaves goes to another network;
`FilesForward` then says that no file is more recent than what is behind it.  `CopiesBehind`:
as long as no rename was refused nothing waits to rename, and the daily copy of a domain is
no newer than its file, its `.tmp` or what is on its way to them.

*Services.* None of the properties is inductive as it stands.  `Sane` of PeerSync relates
the breaker, the attempt and the entry of one peer (an attempt that still connects holds an
entry that is shaking hands), and is kept one peer at a time (`OnePeer`).  `PoolInv` of
PeerConnections: of the sockets on which a node has shaken hands, the only one that is open
at its end is the one in its pool, and the pool holds none that is closed.  `Charged` of
NetworkAccess counts the calls that passed the limiter and have not been told yet,
`FactorCharged` those that check a factor for a challenge, and
`Watched` says that the looks that saw the quorum missing are more than those the watcher
counts, which is what survives a policy softened and hardened again.  `Marked` of
ProgramUpdate: a transfer has its mark unless `unmarked`.  `OnceGuarded` of EventBus: unless
deliveries may repeat, one publication waits at most, and who received the event did so in
that one or has its id marked.  `NotAhead` of HybridClock: the clock is not behind any stamp
seen, so that both a stamp made and one taken in come after it.  `RegistryInv == Register
/\ World` of NetworkRegistry: `Keeps` says, for each count of writes under other keys, which
of the file and its copy holds what was entered - after a crash the copy may equal the file
or be torn, and a call may write two times or three - and `Calls` says which operation a
session that clones, or that asks for a purge, belongs to.

*Applications.*  `Forgotten` of AppRuntime: what is not loaded has nothing of its own but
the job of an activation that goes on.  `Sound` of AppStore: until something disturbs them
the operations come one at a time, and `Phase` says what each finds at each of its places,
so that its last step leaves one version; a repair never begins undisturbed, for it needs a
row without its folder.  That a busy lock has a holder needs no such hypothesis: who takes
it then holds it, and every end, wait and timer leaves it open (`LockTaken`, `LockOpen`,
`LockKept`).  `FormGood` of FormAutosave: what a field shows as saved is in the
record, or in the values that the save under way will write (`Shown`, `Fits`), unless
`mixed`; and the records are those given and those made by a save of a form that had none
(`Counted`), whatever record the form shows when the save ends.
`Book` of AssistantLoop: for each tool, the calls that are left in the answer are as many as
the ghost allows, and for a call that waits for the user the allowance is the one asked for.

*Dependencies.*  `Visit` is a recursive function over the set of applications on the stack
(`pila` of the code) and exists because the stack grows in a finite set (`VisitIs`, by a least
counterexample on what is not on the stack); what its fold over the needs of an application
keeps at each step it keeps as a whole (`FoldKeeps`).  From there, a visit that finds no problem
leaves every need of what it lists before it in the order, or installed in a version that is
accepted (`VisitFinds`, `PlanInOrder`).  `DependencyInv` carries this order through the plan as it is carried out: `Ready` says of
the rest of it that each need is installed in a version that suits, or comes before, or was
changed by others; `Answered`, that a need that was promised is met and not being removed,
for `canUninstall` sees who has it.

*Records.*  `Accounts` of ChangeCapture says, now and at every savepoint, what the log of
changes makes of the history and that its last entry of a record is the record: a failed
operation then puts back a state of which the same holds.  What a fold over the log returns
is told by the run of its steps (`FoldExists`, `FoldSteps`), by induction over an interval;
the library's induction takes an operator and cannot be used.  `Arrays` and `Plains` of
RowReplication: the row of a reader is told by the *set* of the blocks applied there.  For
the array any order will do.  For the plain field the blocks must come in the order of their
making, and they do where nothing was applied ahead of what it descends from: what is applied
is then closed (`Closed`), and a block that the writer made knowing its earlier ones comes
after them.  `Backward` says what a chain of tips makes of the parents.

Assumptions are those of the modules: `Owner \in Node`, bounds are naturals, `None` is no
network and no record, a policy's graces have a greatest one, the calls of the sign-in are
finitely many, a column has a value, and the applications of the marketplace are finitely
many.

Model-checked only: SharesRestore of SecretSharing, whose field needs bitwise operations,
which the prover does not take; ServicesTypeOK, whose module reaches them (the types of each
other service are proved on their own); and what holds only under fairness: SessionsEnd,
CallsEnd, ChangesReachDisk, UpPeerSynchronises, LostQuorumEndsSession, CrashedWorkerReturns,
LocksAreReleased (its safety part is BusyLockIsHeld), EditsAreSettled.

## 5. Not modelled

* *IPC handlers and renderer* (most lines of the repository): request routing, queries and
  rendering.  A handler is in the models as the change it makes.  This is why the mapped
  lines are a small part of all lines.
* *Roles, permissions, capabilities, separation of duties*: a check of one call against
  tables, without steps that interleave.
* *Keys, signatures, identity*: cryptography; the form of a payload is in BlockLedger.
* *Compaction, snapshots, anti-entropy, outbox, hinted handoff, communication gateway*: no
  running code path reaches them, or they require a file that does not exist.
* *Process manager* (`core/appProcessManager.js`): reached only when a worker cannot be
  forked.
* *Discovery, gossip, exchange of peers, WebRTC, shared files*: what a discovery reports is in
  PeerSync; a file goes in chunks between two sockets, without a state that outlives a call.
* *Retention, cloud copies, logs*: synchronous batches and output.  Of the *assistant*, what
  the model says, the selection of the tools it is offered, memory and learning.
* *Archives and forms*: changes of the tables by an application outside its migrations,
  statements that write through `tutti`, the columns of a record (one stands for all); forms
  with a submit of their own, the window of the history.
* A disk that refuses a write of the registry, the databases of applications at a
  rollback.

## 6. Plan

1. A composition of BlockLedger and NetworkWorkspace with one file per domain: after a crash a
   block may be marked applied while its row is lost.
2. Requirements that differ from version to version of an application, and the whole set of
   second requirements that a plan does not look at, once the resolver does.
3. The single files of a network through creation, join and import (NetworkRegistry knows a
   directory as empty or full).
