-------------------------- MODULE NetworkWorkspace --------------------------
(***************************************************************************)
(* One computer, the networks registered on it and their encrypted         *)
(* archives: backend/networks/lifecycle over backend/db.  One network is   *)
(* open at a time.  Its databases live in memory, one per domain, and are  *)
(* written to <workspace>/<domain>.enc by a debounced timer or at once:    *)
(* _writeToDisk takes a snapshot, has it encrypted by the worker thread,   *)
(* and when the answer comes back writes <domain>.enc.tmp and renames it,  *)
(* in the workspace that is bound at that moment.                          *)
(*                                                                         *)
(* Opening, closing and switching are asynchronous tasks without a mutex.  *)
(* Between two of their waits for the worker they run to completion, the   *)
(* promise continuations included: that is the grain of the actions.       *)
(***************************************************************************)
EXTENDS Integers, Sequences, SequencesExt

CONSTANTS
  Network,    \* the registered networks; each has its directory and its key
  None,
  Task,       \* concurrent calls of the network activator
  Domains,    \* number of domains, in the order of MIGRATION_MAP
  MaxChange,  \* bound: changes of the data
  MaxSwitch,  \* bound: activations and deactivations started
  MaxFault,   \* bound: renames that fail, or are refused and tried again
  MaxCrash    \* bound: ends of the process

ASSUME NoneAssumption  ==
  None \notin Network \cup [of : Network, version : Nat]
              \cup [data : [of : Network, version : Nat], key : Network \cup {None}]
ASSUME LimitAssumption == /\ Domains \in Nat \ {0}
                          /\ {MaxChange, MaxSwitch, MaxFault, MaxCrash} \subseteq Nat

VARIABLES
  archive,   \* archive[w][d]: the files of domain d in the directory of w
  memory,    \* memory[d]: the open database of a domain
  base, key, \* basePath and deviceKey of the database manager
  dirty, timers,
  queue,     \* snapshots at the crypto worker, in the order they were sent
  stuck,     \* writes between two attempts to rename
  session,   \* the active network of network_session
  task,      \* task[t]: what a call of the activator waits for
  quitting,  \* the application has been told to quit
  changes, switches, faults, crashes,
  overlapped \* history: a call began while another one was under way

bound == <<changes, switches, faults, crashes, overlapped>>
vars  == <<archive, memory, base, key, dirty, timers, queue, stuck, session, task, quitting,
           bound>>

Domain == 1..Domains

\* What a database holds: the network it belongs to and its number of changes.
Data  == [of : Network, version : 0..MaxChange]
\* An encrypted file: the data and the key; a torn file opens with no key.
Blob  == [data : Data, key : Network \cup {None}]
\* <d>.enc, <d>.enc.tmp, whether the latter is more recent, and the daily copy.
Files == [enc : Blob \cup {None}, tmp : Blob \cup {None}, newer : BOOLEAN,
          copy : Blob \cup {None}]

Fresh(w)       == [of |-> w, version |-> 0]
Encrypted(x,k) == [data |-> x, key |-> k]
Torn(blob)     == [blob EXCEPT !.key = None]
NoFiles        == [enc |-> None, tmp |-> None, newer |-> FALSE, copy |-> None]
Closed         == [d \in Domain |-> None]
Idle           == [stage |-> "idle", target |-> None]

Open == {d \in Domain : memory[d] # None}

Init ==
  /\ archive  = [w \in Network |-> [d \in Domain |-> NoFiles]]
  /\ memory   = Closed
  /\ base     = None /\ key = None
  /\ dirty    = {} /\ timers = {}
  /\ queue    = <<>>
  /\ stuck    = {}
  /\ session  = None
  /\ task     = [t \in Task |-> Idle]
  /\ quitting = FALSE
  /\ changes  = 0 /\ switches = 0 /\ faults = 0 /\ crashes = 0
  /\ overlapped = FALSE

-----------------------------------------------------------------------------
(***************************************************************************)
(* The files of a domain.                                                  *)
(***************************************************************************)
\* rotateDailyBackups, within one day: the first write of the day is copied.  (Only
\* the daily file decides: the throttle of an hour is taken to be over.)
Copied(f) == [f EXCEPT !.copy = IF @ = None THEN f.enc ELSE @]

WithTmp(f, blob) == [f EXCEPT !.tmp = blob, !.newer = TRUE]

\* renameSync: without a .tmp it fails and changes nothing.
Renamed(f) ==
  Copied(IF f.tmp = None THEN f
         ELSE [f EXCEPT !.enc = f.tmp, !.tmp = None, !.newer = FALSE])

\* flushAll writes the .enc directly.
Overwritten(f, blob) == [f EXCEPT !.enc = blob, !.newer = FALSE]

Readable(blob, w) == blob # None /\ blob.key = w

\* The more recent of the two files.
Source(f) == IF f.newer THEN f.tmp ELSE f.enc

\* Mutant: a file that cannot be decrypted is taken for a new database.
LoadedOrFresh(f, w) == IF Readable(Source(f), w) THEN Source(f).data ELSE Fresh(w)

\* Mutant: loadDatabase does not ask whose the file is.
LoadedUnchecked(f, w) == IF Source(f) = None THEN Fresh(w) ELSE Source(f).data

\* loadDatabase takes the more recent of the two files; when it cannot be
\* decrypted, the latest copy; when that cannot either, it throws.
Loaded(f, w) ==
  IF Source(f) = None THEN Fresh(w)
  ELSE IF Readable(Source(f), w) THEN Source(f).data
  ELSE IF Readable(f.copy, w) THEN f.copy.data
  ELSE None

-----------------------------------------------------------------------------
(***************************************************************************)
(* Saving.                                                                 *)
(***************************************************************************)
Write(d, mem, k, by) == [domain |-> d, blob |-> Encrypted(mem[d], k), by |-> by]

\* saveAll(true): a write of every open domain, for task `by'.
WriteAll(mem, k, by) ==
  LET open == SetToSeq({d \in Domain : mem[d] # None})
  IN  [i \in 1..Len(open) |-> Write(open[i], mem, k, by)]

\* A handler changes a table and calls saveDB(d).
ChangeDebounced(d) ==
  /\ d \in Open /\ changes < MaxChange
  /\ changes' = changes + 1
  /\ memory'  = [memory EXCEPT ![d].version = @ + 1]
  /\ dirty'   = dirty \cup {d}
  /\ timers'  = timers \cup {d}
  /\ UNCHANGED <<archive, base, key, queue, stuck, session, task, quitting,
                 switches, faults, crashes, overlapped>>

\* A handler changes a table and calls saveDB(d, true).
ChangeImmediate(d) ==
  /\ d \in Open /\ changes < MaxChange
  /\ changes' = changes + 1
  /\ memory'  = [memory EXCEPT ![d].version = @ + 1]
  /\ dirty'   = dirty \ {d}
  /\ timers'  = timers \ {d}
  /\ queue'   = Append(queue, Write(d, memory', key, None))
  /\ UNCHANGED <<archive, base, key, stuck, session, task, quitting,
                 switches, faults, crashes, overlapped>>

\* Mutant: nothing is written while another write is under way.
TimerSkips(d) ==
  /\ d \in timers
  /\ timers' = timers \ {d}
  /\ dirty'  = dirty \ {d}
  /\ queue'  = IF queue = <<>> THEN <<Write(d, memory, key, None)>> ELSE queue
  /\ UNCHANGED <<archive, memory, base, key, stuck, session, task, quitting, bound>>

TimerFires(d) ==
  /\ d \in timers
  /\ timers' = timers \ {d}
  /\ dirty'  = dirty \ {d}
  /\ queue'  = IF d \in dirty /\ d \in Open
               THEN Append(queue, Write(d, memory, key, None)) ELSE queue
  /\ UNCHANGED <<archive, memory, base, key, stuck, session, task, quitting, bound>>

\* Mutant: the worker answers the last request first.
LastAnswered == Len(queue)

\* The worker answers its requests in order; one that times out, or is rejected
\* because the thread died, is encrypted in place, in order too.
Answered == 1

\* Mutant: the answers are taken up only for the network of the session.
MayWriteInSession == queue # <<>> /\ base # None /\ session = base

MayWrite == queue # <<>> /\ base # None

\* The answer comes back: the snapshot goes to the .tmp of the bound workspace, and
\* the rename succeeds, or is refused (EBUSY, EPERM) and tried again, or fails.  (The
\* number of the fault tells two refused writes of a domain apart.)
SnapshotWritten ==
  LET h == queue[Answered]
      f == WithTmp(archive[base][h.domain], h.blob)
  IN  /\ MayWrite
      /\ queue' = RemoveAt(queue, Answered)
      /\ \/ /\ archive' = [archive EXCEPT ![base][h.domain] = Renamed(f)]
            /\ UNCHANGED <<stuck, faults>>
         \/ /\ faults < MaxFault /\ faults' = faults + 1
            /\ archive' = [archive EXCEPT ![base][h.domain] = f]
            /\ stuck' = stuck \cup {[dir |-> base, domain |-> h.domain, by |-> h.by, nth |-> faults']}
         \/ /\ faults < MaxFault /\ faults' = faults + 1
            /\ archive' = [archive EXCEPT ![base][h.domain] = Copied(f)]
            /\ UNCHANGED stuck
      /\ UNCHANGED <<memory, base, key, dirty, timers, session, task, quitting,
                     changes, switches, crashes, overlapped>>

\* The next attempt, 50 ms later: it renames whatever .tmp there is by then.  After
\* five refusals, and the refusal of a copy, the .tmp is left where it is.
RenameAgain(s) ==
  /\ s \in stuck
  /\ stuck' = stuck \ {s}
  /\ \/ /\ archive' = [archive EXCEPT ![s.dir][s.domain] = Renamed(@)]
        /\ UNCHANGED faults
     \/ /\ faults < MaxFault /\ faults' = faults + 1
        /\ archive' = [archive EXCEPT ![s.dir][s.domain] = Copied(@)]
  /\ UNCHANGED <<memory, base, key, dirty, timers, queue, session, task, quitting,
                 changes, switches, crashes, overlapped>>

-----------------------------------------------------------------------------
(***************************************************************************)
(* Opening, closing, switching.                                            *)
(***************************************************************************)
\* The opener of task t: openAll replaces the databases one after the other, up to
\* the first that cannot be opened.  When all are open seedConfig saves them and
\* waits; else the error path tears the runtime down, and so saves and waits too.
OpenInto(t, w, loaded, before, pending) ==
  LET failed == {d \in Domain : loaded[d] = None}
      mem    == [d \in Domain |-> IF \A e \in failed : d < e THEN loaded[d] ELSE before[d]]
  IN  /\ base' = w /\ key' = w
      /\ memory' = mem
      /\ queue'  = pending \o WriteAll(mem, w, t)
      /\ task'   = [task EXCEPT ![t] = IF failed = {} THEN [stage |-> "seeding", target |-> w]
                                       ELSE [stage |-> "saving", target |-> None]]

\* A call of the activator begins; nothing asks whether another one is under way.
Begins(t) ==
  /\ switches'   = switches + 1
  /\ overlapped' = (overlapped \/ \E u \in Task \ {t} : task[u] # Idle)

\* activate(w) while no network is active: bindWorkspace, then the opener.
ActivateClosed(t, w) ==
  /\ task[t] = Idle /\ session = None /\ switches < MaxSwitch
  /\ Begins(t)
  /\ OpenInto(t, w, [d \in Domain |-> Loaded(archive[w][d], w)], memory, queue)
  /\ dirty'  = dirty  \ {d \in Domain : memory'[d] # None}
  /\ timers' = timers \ {d \in Domain : memory'[d] # None}
  /\ UNCHANGED <<archive, stuck, session, quitting, changes, faults, crashes>>

\* activate(w), or deactivate() for w = None, while another network is active: the
\* teardown begins, and waits for a last save of everything.
LeaveActive(t, w) ==
  /\ task[t] = Idle /\ session \notin {None, w} /\ switches < MaxSwitch
  /\ Begins(t)
  /\ task'     = [task EXCEPT ![t] = [stage |-> "saving", target |-> w]]
  /\ queue'    = queue \o WriteAll(memory, key, t)
  /\ dirty'    = dirty \ Open
  /\ timers'   = timers \ Open
  /\ UNCHANGED <<archive, memory, base, key, stuck, session, quitting,
                 changes, faults, crashes>>

Waiting(t) == \/ \E i \in DOMAIN queue : queue[i].by = t
              \/ \E s \in stuck : s.by = t

\* Mutant: the databases are closed without the last synchronous write.
NotFlushed(a) == a

\* flushAll: every open database is written to its .enc once more.
Flushed(a) ==
  IF base = None THEN a
  ELSE [a EXCEPT ![base] = [d \in Domain |->
          IF d \in Open THEN Overwritten(@[d], Encrypted(memory[d], key)) ELSE @[d]]]

\* The snapshots still at the worker when it is closed: their promises are
\* rejected, they are encrypted in place with the key they were sent with, and
\* written one after the other in the workspace w that is bound when they go on.
Landed(a, w) ==
  LET Sent(d)       == {i \in DOMAIN queue : queue[i].domain = d}
      Written(f, i) == Renamed(WithTmp(f, queue[i].blob))
  IN  IF w = None THEN a
      ELSE [a EXCEPT ![w] = [d \in Domain |->
              IF Sent(d) = {} THEN @[d]
              ELSE Written(Written(@[d], Min(Sent(d))), Max(Sent(d)))]]

\* The end of teardownRuntime when no network is to be opened.
CloseAll(t) ==
  /\ task[t].stage = "saving" /\ task[t].target = None /\ ~Waiting(t)
  /\ archive' = Landed(Flushed(archive), base)
  /\ memory'  = Closed
  /\ key'     = None
  /\ dirty'   = {} /\ timers' = {}
  /\ queue'   = <<>>
  /\ session' = None
  /\ task'    = [task EXCEPT ![t] = Idle]
  /\ UNCHANGED <<base, stuck, quitting, bound>>

\* The end of teardownRuntime, and the opener of the next network in the same run
\* of continuations: bindWorkspace and the reading of the first domain come before
\* the rejected snapshots go on, the other domains are read after them.
CloseAndOpen(t) ==
  LET w == task[t].target
      flushed == Flushed(archive)
      landed  == Landed(flushed, w)
  IN  /\ task[t].stage = "saving" /\ w # None /\ ~Waiting(t)
      /\ archive' = landed
      /\ OpenInto(t, w,
           [d \in Domain |-> Loaded(IF d = 1 THEN flushed[w][d] ELSE landed[w][d], w)],
           Closed, <<>>)
      /\ dirty' = {} /\ timers' = {}
      /\ session' = None
      /\ UNCHANGED <<stuck, quitting, bound>>

\* seedConfig is done: the session is activated.
Activated(t) ==
  /\ task[t].stage = "seeding" /\ ~Waiting(t)
  /\ session' = task[t].target
  /\ task'    = [task EXCEPT ![t] = Idle]
  /\ UNCHANGED <<archive, memory, base, key, dirty, timers, queue, stuck, quitting, bound>>

-----------------------------------------------------------------------------
\* before-quit: what is open is flushed, then the process goes on for a while.
BeforeQuit ==
  /\ ~quitting /\ crashes < MaxCrash
  /\ quitting' = TRUE
  /\ archive'  = Flushed(archive)
  /\ dirty'    = {} /\ timers' = {}
  /\ UNCHANGED <<memory, base, key, queue, stuck, session, task, bound>>

\* The process ends; it may be in the middle of writing a .tmp, or, when it is
\* closing, in the middle of a flush, after the domains before d.
Stop ==
  /\ crashes < MaxCrash
  /\ crashes' = crashes + 1
  /\ \/ UNCHANGED archive
     \/ /\ queue # <<>> /\ base # None
        /\ LET h == Head(queue)
           IN  archive' = [archive EXCEPT ![base][h.domain] = WithTmp(@, Torn(h.blob))]
     \/ /\ quitting \/ \E t \in Task : task[t].stage = "saving" /\ ~Waiting(t)
        /\ \E d \in Open :
              archive' = [archive EXCEPT ![base] = [e \in Domain |->
                 IF e < d THEN Flushed(archive)[base][e]
                 ELSE IF e = d THEN Overwritten(@[e], Torn(Encrypted(memory[e], key)))
                 ELSE @[e]]]
  /\ memory'   = Closed
  /\ base'     = None /\ key' = None
  /\ dirty'    = {} /\ timers' = {}
  /\ queue'    = <<>>
  /\ stuck'    = {}
  /\ session'  = None
  /\ task'     = [t \in Task |-> Idle]
  /\ quitting' = FALSE
  /\ UNCHANGED <<changes, switches, faults, overlapped>>

Next ==
  \/ \E d \in Domain : ChangeDebounced(d) \/ ChangeImmediate(d) \/ TimerFires(d)
  \/ SnapshotWritten
  \/ \E s \in stuck : RenameAgain(s)
  \/ \E t \in Task :
        \/ \E w \in Network : ActivateClosed(t, w)
        \/ \E w \in Network \cup {None} : LeaveActive(t, w)
        \/ CloseAll(t) \/ CloseAndOpen(t) \/ Activated(t)
  \/ BeforeQuit
  \/ Stop

Spec == Init /\ [][Next]_vars

(***************************************************************************)
(* Timers fire, the worker answers or its 30 s timer rejects, renames are  *)
(* tried a bounded number of times and promise continuations run.          *)
(***************************************************************************)
Fairness ==
  /\ \A d \in Domain : WF_vars(TimerFires(d))
  /\ WF_vars(SnapshotWritten)
  /\ WF_vars(\E s \in stuck : RenameAgain(s))
  /\ \A t \in Task : WF_vars(CloseAll(t) \/ CloseAndOpen(t) \/ Activated(t))

FairSpec == Spec /\ Fairness

-----------------------------------------------------------------------------
TypeOK ==
  /\ archive \in [Network -> [Domain -> Files]]
  /\ memory \in [Domain -> Data \cup {None}]
  /\ base \in Network \cup {None} /\ key \in Network \cup {None}
  /\ dirty \subseteq Domain /\ timers \subseteq Domain
  /\ queue \in Seq([domain : Domain, blob : Blob, by : Task \cup {None}])
  /\ stuck \subseteq [dir : Network, domain : Domain, by : Task \cup {None}, nth : 1..MaxFault]
  /\ session \in Network \cup {None}
  /\ task \in [Task -> [stage : {"idle", "saving", "seeding"}, target : Network \cup {None}]]
  /\ quitting \in BOOLEAN
  /\ changes \in 0..MaxChange /\ switches \in 0..MaxSwitch
  /\ faults \in 0..MaxFault /\ crashes \in 0..MaxCrash
  /\ overlapped \in BOOLEAN

\* What is open is under the key of the bound workspace.  It is all data of that
\* network, and so is the active session, whatever was left in the directories: as long
\* as no call of the activator began while another one was under way, which nothing in
\* the code prevents.
MemoryIsolated ==
  /\ \A d \in Open : key = base
  /\ \/ overlapped
     \/ /\ \A d \in Open : memory[d].of = base
        /\ session # None => session = base /\ Open = Domain

\* Where the current version of an open database is, besides memory.
OnDisk(d)   == LET f == archive[base][d] IN Loaded(f, key) = memory[d]
UnderWay(d) == \/ d \in dirty /\ d \in timers
               \/ \E i \in DOMAIN queue : queue[i].domain = d /\ queue[i].blob.data = memory[d]

\* No change is forgotten: while its database is open, the last one is on disk, on
\* its way, or marked for a timer that is armed.
NoChangeForgotten == \A d \in Open : quitting \/ OnDisk(d) \/ UnderWay(d)

\* The file that would be loaded for an open domain never goes back, once no write of
\* before is left between two attempts to rename: the writes land in the order of the
\* changes, when no two calls of the activator overlapped.
SavesMoveForward ==
  [][\A d \in Domain :
        LET old == Source(archive[base][d])
            new == Source(archive'[base][d])
        IN  base # None /\ base' = base /\ d \in Open /\ memory'[d] # None
              /\ ~quitting /\ ~overlapped /\ stuck = {} /\ Readable(old, base)
            => Readable(new, base) /\ new.data.version >= old.data.version]_vars

Left(d)   == memory[d] # None /\ (memory'[d] = None \/ memory'[d].of # memory[d].of)
Entered(d) == memory'[d] # None /\ (memory[d] = None \/ memory'[d].of # memory[d].of)

\* The end of a teardown that leaves no write behind it, at the worker or between two
\* renames, leaves the last version of every domain on disk, whatever other call was
\* under way.  (An activation that finds no session replaces the databases of another
\* one without a teardown, and saves nothing of them.)
CleanCloseSaves ==
  [][\A t \in Task, d \in Domain :
        /\ task[t].stage = "saving" /\ task'[t] # task[t]
        /\ Left(d) /\ crashes' = crashes /\ queue = <<>> /\ stuck = {}
        => Loaded(archive'[base][d], base) = memory[d]]_vars

\* A domain never opens older than its daily copy, whatever happened to its file, torn
\* by a crash or overwritten by another network's, as long as every rename succeeds and
\* no two calls of the activator overlapped.
\* (One that fails when the flush of before-quit has overtaken the snapshot leaves an
\* old .tmp that is more recent than the file, and copies the newer file.)
NeverOlderThanCopy ==
  [][\A d \in Domain :
        LET copy == archive[base'][d].copy
        IN  Entered(d) /\ Readable(copy, base') /\ faults = 0 /\ ~overlapped'
              => memory'[d].version >= copy.data.version]_vars

\* A call of the activator ends: the saves it waits for are answered or rejected, and
\* the renames they wait for are given up in the end.
CallsEnd == \A t \in Task : task[t].stage # "idle" ~> task[t].stage = "idle"

\* A change reaches the disk, unless its database is closed first, or a second call
\* that overlaps the first reads it again from the files.
ChangesReachDisk ==
  \A w \in Network, d \in Domain, v \in 1..MaxChange :
    memory[d] = [of |-> w, version |-> v] /\ ~quitting ~>
      \/ memory[d] = None
      \/ memory[d].of # w
      \/ quitting \/ overlapped
      \/ LET x == Loaded(archive[w][d], w) IN x # None /\ x.version >= v

\* "archivi separati per rete" (docs/decisioni/001-modello-multi-azienda.md:79): the
\* directory of a network only ever holds data of that network.
ArchivesSeparate ==
  \A w \in Network, d \in Domain :
     archive[w][d].enc # None => archive[w][d].enc.data.of = w
=============================================================================
