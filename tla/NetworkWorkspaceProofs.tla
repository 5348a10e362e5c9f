----------------------- MODULE NetworkWorkspaceProofs -----------------------
(***************************************************************************)
(* Proofs about NetworkWorkspace, for any networks, domains and bounds.    *)
(*                                                                         *)
(* Nothing in the code keeps the files of two networks apart: a snapshot   *)
(* may land in the directory of another network (ArchivesSeparate fails).  *)
(* What protects the open databases is the key, and only as long as no two *)
(* calls of the activator overlap, which nothing in the code prevents: the *)
(* history variable overlapped remembers it.  The inductive invariant      *)
(*                                                                         *)
(*   WorkspaceInv == Sealing /\ Binding /\ Rest                            *)
(*                                                                         *)
(* says that every file and every snapshot has its type, that what is open *)
(* is under the key of the bound workspace, and, unless calls overlapped,  *)
(* that what opens with a key is data of the network of that key (Sealing) *)
(* and that one network is open, by at most one call (Binding).            *)
(*                                                                         *)
(* On it rest three more, each with the part of the pipeline it is about:  *)
(*   LastChangesKept  where the last change of an open database is;        *)
(*   QueueInv /\ FilesForward  the versions of a domain rise from its      *)
(*                    files over the worker to memory;                     *)
(*   CopiesBehind     the daily copy is no newer than any of them.         *)
(***************************************************************************)
EXTENDS NetworkWorkspace, Extrema, FiniteSets, TLAPS, SequenceTheorems, FiniteSetTheorems

\* The data, files and snapshots there can be after c changes: sealed with the key of
\* their network, unless calls have overlapped (o).
Snap(c)      == [of : Network, version : 0..c]
Sealed(c, o) == {b \in [data : Snap(c), key : Network \cup {None}] :
                   o \/ (b.key # None => b.data.of = b.key)}
Shelf(c, o)  == [enc : Sealed(c, o) \cup {None}, tmp : Sealed(c, o) \cup {None},
                 newer : BOOLEAN, copy : Sealed(c, o) \cup {None}]
Shelves(c, o) == [Network -> [Domain -> Shelf(c, o)]]
Sent(c, o)    == [domain : Domain, blob : Sealed(c, o), by : Task \cup {None}]

Sealing ==
  /\ archive \in Shelves(changes, overlapped)
  /\ queue \in Seq(Sent(changes, overlapped))

\* Databases mem that are open under the workspace and the key of w, and hold data
\* of w unless calls have overlapped.
BoundTo(mem, w, k, o) ==
  \A d \in Domain : mem[d] # None => w \in Network /\ k = w /\ (o \/ mem[d].of = w)

\* No call is under way next to that of t.
Alone(t) == \A u \in Task : u # t => task[u] = Idle

Single ==
  /\ \A t \in Task : task[t] = Idle \/ Alone(t)
  /\ session # None => session = base /\ Open = Domain
  /\ \A t \in Task : task[t].stage = "seeding" => task[t].target = base /\ Open = Domain
  /\ (\A t \in Task : task[t] = Idle) /\ session = None => Open = {}

Binding ==
  /\ memory \in [Domain -> Snap(changes) \cup {None}]
  /\ base \in Network \cup {None} /\ key \in Network \cup {None}
  /\ BoundTo(memory, base, key, overlapped)
  /\ session \in Network \cup {None}
  /\ overlapped \/ Single

Rest ==
  /\ overlapped \in BOOLEAN
  /\ dirty \subseteq Domain /\ timers \subseteq Domain
  /\ stuck \subseteq [dir : Network, domain : Domain, by : Task \cup {None}, nth : 1..MaxFault]
  /\ task \in [Task -> [stage : {"idle", "saving", "seeding"}, target : Network \cup {None}]]
  /\ quitting \in BOOLEAN
  /\ changes \in 0..MaxChange /\ switches \in 0..MaxSwitch
  /\ faults \in 0..MaxFault /\ crashes \in 0..MaxCrash

WorkspaceInv == Sealing /\ Binding /\ Rest

-----------------------------------------------------------------------------
(***************************************************************************)
(* Files.                                                                  *)
(***************************************************************************)
LEMMA Limits == /\ MaxChange \in Nat /\ MaxSwitch \in Nat /\ MaxFault \in Nat
                /\ MaxCrash \in Nat
BY LimitAssumption

\* A database is not None.
LEMMA SnapExists == ASSUME NEW c \in Nat, NEW x \in Snap(c) PROVE x # None
BY NoneAssumption DEF Snap

\* More changes allow more data, and so do calls that overlap.
LEMMA MoreChanges ==
  ASSUME NEW c \in Nat, NEW d \in {c, c + 1}, NEW o \in BOOLEAN, NEW p \in BOOLEAN, o => p
  PROVE  /\ Snap(c) \subseteq Snap(d)
         /\ Sealed(c, o) \subseteq Sealed(d, p)
         /\ Shelves(c, o) \subseteq Shelves(d, p)
         /\ Sent(c, o) \subseteq Sent(d, p)
<1>1. Snap(c) \subseteq Snap(d)
  BY DEF Snap
<1>2. Sealed(c, o) \subseteq Sealed(d, p)
  BY <1>1 DEF Sealed
<1>3. Shelf(c, o) \subseteq Shelf(d, p)
  BY <1>2 DEF Shelf
<1>4. Shelves(c, o) \subseteq Shelves(d, p)
  BY <1>3 DEF Shelves
<1>5. Sent(c, o) \subseteq Sent(d, p)
  BY <1>2 DEF Sent
<1> QED BY <1>1, <1>2, <1>4, <1>5

\* Encryption seals data of a network with its own key.
LEMMA EncryptedSealed ==
  ASSUME NEW c \in Nat, NEW o \in BOOLEAN, NEW x \in Snap(c), NEW k \in Network \cup {None},
         o \/ x.of = k
  PROVE  Encrypted(x, k) \in Sealed(c, o)
BY NoneAssumption DEF Encrypted, Sealed, Snap

\* A torn file has no key.
LEMMA TornSealed == ASSUME NEW c \in Nat, NEW o \in BOOLEAN, NEW b \in Sealed(c, o) PROVE Torn(b) \in Sealed(c, o)
BY DEF Torn, Sealed

\* Renaming and copying keep the files of a domain sealed, and so does writing.
LEMMA ShelfMoves == ASSUME NEW c \in Nat, NEW o \in BOOLEAN, NEW f \in Shelf(c, o)
  PROVE Copied(f) \in Shelf(c, o) /\ Renamed(f) \in Shelf(c, o)
<1>1. ASSUME NEW g \in Shelf(c, o) PROVE Copied(g) \in Shelf(c, o)
  BY DEF Copied, Shelf
<1>2. Renamed(f) \in Shelf(c, o)
  <2> DEFINE g == IF f.tmp = None THEN f
                  ELSE [f EXCEPT !.enc = f.tmp, !.tmp = None, !.newer = FALSE]
  <2>1. g \in Shelf(c, o)
    BY DEF Shelf
  <2> QED BY <2>1, <1>1 DEF Renamed
<1> QED BY <1>1, <1>2

LEMMA ShelfWrites == ASSUME NEW c \in Nat, NEW o \in BOOLEAN, NEW f \in Shelf(c, o), NEW b \in Sealed(c, o)
  PROVE WithTmp(f, b) \in Shelf(c, o) /\ Overwritten(f, b) \in Shelf(c, o)
BY DEF WithTmp, Overwritten, Shelf

\* loadDatabase returns data of the network whose key it was given, or fails.
LEMMA LoadedOfOwner == ASSUME NEW c \in Nat, NEW o \in BOOLEAN, NEW f \in Shelf(c, o), NEW w \in Network
  PROVE /\ Loaded(f, w) \in Snap(c) \cup {None}
        /\ Loaded(f, w) # None => o \/ Loaded(f, w).of = w
<1> DEFINE source == Source(f)
<1>1. source \in Sealed(c, o) \cup {None} /\ f.copy \in Sealed(c, o) \cup {None}
  BY DEF Shelf, Source
<1>2. ASSUME NEW b \in Sealed(c, o) \cup {None}, Readable(b, w)
      PROVE b.data \in Snap(c) /\ (o \/ b.data.of = w)
  BY <1>2, NoneAssumption DEF Readable, Sealed, Snap
<1>3. Fresh(w) \in Snap(c) /\ Fresh(w).of = w
  BY DEF Fresh, Snap
<1> QED BY <1>1, <1>2, <1>3 DEF Loaded, Source

-----------------------------------------------------------------------------
(***************************************************************************)
(* The queue of the worker.                                                *)
(***************************************************************************)
LEMMA RemoveAtType == ASSUME NEW S, NEW s \in Seq(S), NEW i \in 1..Len(s)
  PROVE RemoveAt(s, i) \in Seq(S)
BY DEF RemoveAt

\* A set of domains can be put in a sequence.
LEMMA DomainsInOrder == ASSUME NEW D, D \subseteq Domain
  PROVE SetToSeq(D) \in Seq(D)
<1>1. IsFiniteSet(D)
  <2>1. 1 \in Int /\ Domains \in Int
    BY LimitAssumption
  <2>2. IsFiniteSet(1..Domains)
    BY <2>1, FS_Interval
  <2> QED BY <2>2, FS_Subset DEF Domain
<1>2. \E f \in [1..Cardinality(D) -> D] : IsInjective(f)
  <2>1. PICK n \in Nat : ExistsBijection(1..n, D)
    BY <1>1, FS_NatBijection
  <2>2. Cardinality(D) = n
    BY <2>1, FS_CountingElements
  <2> QED BY <2>1, <2>2 DEF ExistsBijection, Bijection, Injection
<1>3. SetToSeq(D) \in [1..Cardinality(D) -> D]
  BY <1>2 DEF SetToSeq
<1>4. Cardinality(D) \in Nat
  BY <1>1, FS_CardinalityType
<1> QED BY <1>3, <1>4

\* saveAll sends only snapshots of open databases, sealed with the key.
LEMMA WriteAllType ==
  ASSUME NEW c \in Nat, NEW o \in BOOLEAN, NEW mem \in [Domain -> Snap(c) \cup {None}],
         NEW w, NEW k \in Network \cup {None}, BoundTo(mem, w, k, o), NEW t \in Task
  PROVE WriteAll(mem, k, t) \in Seq(Sent(c, o))
<1> DEFINE D    == {d \in Domain : mem[d] # None}
           open == SetToSeq(D)
<1>1. open \in Seq(D)
  BY DomainsInOrder
<1>2. ASSUME NEW d \in D PROVE Write(d, mem, k, t) \in Sent(c, o)
  <2>1. mem[d] \in Snap(c) /\ (o \/ mem[d].of = k)
    BY DEF BoundTo
  <2>2. Encrypted(mem[d], k) \in Sealed(c, o)
    BY <2>1, EncryptedSealed
  <2> QED BY <2>2 DEF Write, Sent
<1>3. \A i \in 1..Len(open) : open[i] \in D
  BY <1>1
<1> QED BY <1>1, <1>2, <1>3 DEF WriteAll

-----------------------------------------------------------------------------
(***************************************************************************)
(* The end of a teardown.                                                  *)
(***************************************************************************)
\* flushAll leaves sealed files.
LEMMA FlushedSealed == ASSUME Sealing, Binding, changes \in Nat, overlapped \in BOOLEAN
  PROVE Flushed(archive) \in Shelves(changes, overlapped)
<1>1. ASSUME base # None, NEW d \in Open
      PROVE Overwritten(archive[base][d], Encrypted(memory[d], key)) \in Shelf(changes, overlapped)
  <2>1. memory[d] \in Snap(changes) /\ (overlapped \/ memory[d].of = key) /\ key \in Network \cup {None}
    BY <1>1 DEF Binding, BoundTo, Open
  <2>2. Encrypted(memory[d], key) \in Sealed(changes, overlapped)
    BY <2>1, EncryptedSealed
  <2>3. archive[base][d] \in Shelf(changes, overlapped)
    BY <1>1 DEF Sealing, Shelves, Binding, Open
  <2> QED BY <2>2, <2>3, ShelfWrites
<1> QED BY <1>1 DEF Flushed, Sealing, Shelves, Open

\* So do the snapshots that land after the worker was closed.
LEMMA LandedSealed ==
  ASSUME Sealing, changes \in Nat, overlapped \in BOOLEAN, NEW a \in Shelves(changes, overlapped), NEW w \in Network \cup {None}
  PROVE Landed(a, w) \in Shelves(changes, overlapped)
<1> DEFINE Mine(d)       == {i \in DOMAIN queue : queue[i].domain = d}
           Written(f, i) == Renamed(WithTmp(f, queue[i].blob))
           New(d) == IF Mine(d) = {} THEN a[w][d]
                     ELSE Written(Written(a[w][d], Min(Mine(d))), Max(Mine(d)))
<1>1. ASSUME NEW f \in Shelf(changes, overlapped), NEW i \in DOMAIN queue
      PROVE Written(f, i) \in Shelf(changes, overlapped)
  <2>1. queue[i] \in Sent(changes, overlapped)
    BY DEF Sealing
  <2>2. queue[i].blob \in Sealed(changes, overlapped)
    BY <2>1 DEF Sent
  <2>3. WithTmp(f, queue[i].blob) \in Shelf(changes, overlapped)
    BY <2>2, ShelfWrites
  <2> QED BY <2>3, ShelfMoves
<1>2. ASSUME NEW d \in Domain, Mine(d) # {}
      PROVE Min(Mine(d)) \in DOMAIN queue /\ Max(Mine(d)) \in DOMAIN queue
  <2> DEFINE M == Mine(d)
  <2>1. M \in SUBSET (1..Len(queue)) /\ Len(queue) \in Nat /\ M # {}
    BY <1>2 DEF Sealing
  <2> HIDE DEF M
  <2>2. \E x \in M : \A y \in M : x <= y
    BY <2>1, MinExists
  <2>3. \E x \in M : \A y \in M : y <= x
    BY <2>1, MaxExists
  <2>4. \E x \in M : \A y \in M : x >= y
    BY <2>1, <2>3
  <2>5. Min(M) \in M /\ Max(M) \in M
    BY <2>2, <2>4 DEF Min, Max
  <2> QED BY <2>5 DEF M
<1>3. ASSUME w # None, NEW d \in Domain PROVE New(d) \in Shelf(changes, overlapped)
  <2>1. a[w][d] \in Shelf(changes, overlapped)
    BY <1>3 DEF Shelves
  <2> QED BY <1>1, <1>2, <2>1
<1>4. w # None => Landed(a, w) = [a EXCEPT ![w] = [d \in Domain |-> New(d)]]
  BY DEF Landed, Shelves
<1> QED BY <1>3, <1>4 DEF Landed, Shelves

-----------------------------------------------------------------------------
(***************************************************************************)
(* Opening.                                                                *)
(***************************************************************************)
Calls == [Task -> [stage : {"idle", "saving", "seeding"}, target : Network \cup {None}]]

\* What the opener of w leaves is bound to w; it is the only call under way, and nothing
\* was open before it, unless calls have overlapped.
LEMMA OpenedBound ==
  ASSUME changes \in Nat, UNCHANGED changes, overlapped' \in BOOLEAN, task \in Calls,
         NEW t \in Task, NEW w \in Network,
         NEW loaded \in [Domain -> Snap(changes) \cup {None}],
         \A d \in Domain : loaded[d] # None => overlapped' \/ loaded[d].of = w,
         NEW before \in [Domain -> Snap(changes) \cup {None}],
         overlapped' \/ (Alone(t) /\ \A d \in Domain : before[d] = None),
         NEW pending \in Seq(Sent(changes, overlapped')),
         OpenInto(t, w, loaded, before, pending), session' \in Network \cup {None},
         overlapped' \/ session' = None
  PROVE  /\ queue' \in Seq(Sent(changes, overlapped'))
         /\ Binding'
         /\ task' \in Calls
<1> DEFINE failed == {d \in Domain : loaded[d] = None}
           mem    == [d \in Domain |-> IF \A e \in failed : d < e THEN loaded[d] ELSE before[d]]
<1>1. /\ base' = w /\ key' = w /\ memory' = mem
      /\ queue' = pending \o WriteAll(mem, w, t)
      /\ task' = [task EXCEPT ![t] = IF failed = {} THEN [stage |-> "seeding", target |-> w]
                                     ELSE [stage |-> "saving", target |-> None]]
  BY DEF OpenInto
<1>2. mem \in [Domain -> Snap(changes) \cup {None}] /\ BoundTo(mem, w, w, overlapped')
  BY DEF BoundTo
<1>3. queue' \in Seq(Sent(changes, overlapped'))
  <2>1. WriteAll(mem, w, t) \in Seq(Sent(changes, overlapped'))
    BY <1>2, WriteAllType
  <2> QED BY <1>1, <2>1, ConcatProperties
<1>4. task' \in Calls
  BY <1>1 DEF Calls
<1>5. failed = {} => Open' = Domain
  BY <1>1 DEF Open
<1>6. ASSUME ~overlapped' PROVE Single'
  <2>1. \A u \in Task : u # t => task'[u] = Idle
    BY <1>1, <1>6 DEF Calls, Alone
  <2>2. task'[t] # Idle
    BY <1>1 DEF Calls, Idle
  <2>3. task'[t].stage = "seeding" => task'[t].target = w /\ Open' = Domain
    BY <1>1, <1>5 DEF Calls
  <2> QED BY <1>1, <1>6, <2>1, <2>2, <2>3 DEF Single, Alone, Idle
<1>7. Binding'
  BY <1>1, <1>2, <1>6 DEF Binding
<1> QED BY <1>3, <1>4, <1>7

\* A call that begins is alone, unless it overlaps another one.
LEMMA BeginsAlone ==
  ASSUME Binding, overlapped \in BOOLEAN, switches \in 0..MaxSwitch,
         NEW t \in Task, task[t] = Idle, switches < MaxSwitch, Begins(t)
  PROVE  /\ overlapped' \in BOOLEAN /\ (overlapped => overlapped')
         /\ switches' \in 0..MaxSwitch
         /\ ~overlapped' => ~overlapped /\ Single /\ \A u \in Task : task[u] = Idle
<1>1. switches' \in 0..MaxSwitch
  BY Limits DEF Begins
<1>2. overlapped' = (overlapped \/ \E u \in Task \ {t} : task[u] # Idle)
  BY DEF Begins
<1>3. overlapped' \in BOOLEAN /\ (overlapped => overlapped')
  BY <1>2, Zenon
<1>4. ASSUME ~overlapped' PROVE ~overlapped /\ \A u \in Task \ {t} : task[u] = Idle
  BY <1>2, <1>4, Zenon
<1>5. ASSUME ~overlapped' PROVE ~overlapped /\ Single /\ \A u \in Task : task[u] = Idle
  <2>1. ~overlapped /\ \A u \in Task \ {t} : task[u] = Idle
    BY <1>4, <1>5
  <2>2. Single
    BY <2>1 DEF Binding
  <2> QED BY <2>1, <2>2
<1> QED BY <1>1, <1>3, <1>5

\* The end of the call of t leaves every call idle, unless calls have overlapped.
LEMMA EndsAlone ==
  ASSUME Single, task \in Calls, NEW t \in Task, task[t].stage # "idle",
         task' = [task EXCEPT ![t] = Idle]
  PROVE  task' \in Calls /\ \A u \in Task : task'[u] = Idle
BY DEF Single, Alone, Calls, Idle

-----------------------------------------------------------------------------
LEMMA WorkspaceInit == Init => WorkspaceInv
<1> SUFFICES ASSUME Init PROVE WorkspaceInv
  OBVIOUS
<1>1. Sealing
  BY DEF Init, Sealing, Shelves, Shelf, NoFiles
<1>2. Binding
  <2>1. memory = [d \in Domain |-> None] /\ base = None /\ key = None /\ session = None
    BY DEF Init, Closed
  <2>2. Open = {}
    BY <2>1 DEF Open
  <2>3. \A t \in Task : task[t] = Idle
    BY DEF Init
  <2>4. Single
    BY <2>1, <2>2, <2>3 DEF Single, Idle
  <2> QED BY <2>1, <2>4 DEF Binding, BoundTo
<1>3. Rest
  <2>1. task \in [Task -> [stage : {"idle", "saving", "seeding"}, target : Network \cup {None}]]
    BY DEF Init, Idle
  <2>2. /\ changes \in 0..MaxChange /\ switches \in 0..MaxSwitch
        /\ faults \in 0..MaxFault /\ crashes \in 0..MaxCrash
    BY Limits DEF Init
  <2>3. dirty = {} /\ timers = {} /\ stuck = {} /\ quitting = FALSE /\ overlapped = FALSE
    BY DEF Init
  <2> QED BY <2>1, <2>2, <2>3 DEF Rest
<1> QED BY <1>1, <1>2, <1>3 DEF WorkspaceInv

LEMMA WorkspaceStep == WorkspaceInv /\ [Next]_vars => WorkspaceInv'
<1> SUFFICES ASSUME WorkspaceInv, [Next]_vars PROVE WorkspaceInv'
  OBVIOUS
<1> USE DEF WorkspaceInv
<1>c. changes \in Nat /\ changes <= MaxChange /\ overlapped \in BOOLEAN /\ task \in Calls
  BY Limits DEF Rest, Calls
<1>1. ASSUME NEW d \in Domain, ChangeDebounced(d) \/ ChangeImmediate(d) PROVE WorkspaceInv'
  <2>1. /\ memory[d] # None /\ changes' = changes + 1 /\ changes < MaxChange
        /\ memory' = [memory EXCEPT ![d].version = @ + 1]
        /\ UNCHANGED <<archive, base, key, session, task, overlapped>>
    BY <1>1 DEF ChangeDebounced, ChangeImmediate, Open
  <2>2. memory[d] \in Snap(changes) /\ base \in Network /\ key = base /\ (overlapped \/ memory[d].of = base)
    BY <2>1 DEF Binding, BoundTo
  <2>3. memory'[d] \in Snap(changes') /\ (overlapped \/ memory'[d].of = base) /\ memory'[d] # None
    <3>1. memory'[d] = [memory[d] EXCEPT !.version = @ + 1]
      BY <2>1 DEF Binding
    <3>2. memory'[d] \in Snap(changes') /\ memory'[d].of = memory[d].of
      BY <1>c, <2>1, <2>2, <3>1 DEF Snap
    <3> QED BY <1>c, <2>1, <2>2, <3>2, SnapExists
  <2>4. \A e \in Domain : e # d => memory'[e] = memory[e]
    BY <2>1 DEF Binding
  <2>5. Open' = Open
    BY <2>1, <2>3, <2>4 DEF Open
  <2>6. Binding'
    <3>1. memory' \in [Domain -> Snap(changes') \cup {None}]
      BY <1>c, <2>1, <2>3, MoreChanges DEF Binding
    <3>2. BoundTo(memory, base, key, overlapped)'
      BY <2>1, <2>2, <2>3, <2>4 DEF Binding, BoundTo
    <3> QED BY <2>1, <2>5, <3>1, <3>2 DEF Binding, Single, Alone
  <2>7. Sealing'
    <3>1. archive \in Shelves(changes', overlapped') /\ queue \in Seq(Sent(changes', overlapped'))
      BY <1>c, <2>1, MoreChanges DEF Sealing
    <3>2. CASE ChangeDebounced(d)
      BY <3>1, <3>2 DEF ChangeDebounced, Sealing
    <3>3. CASE ChangeImmediate(d)
      <4>1. Encrypted(memory'[d], key) \in Sealed(changes', overlapped')
        <5>1. changes' \in Nat /\ key \in Network \cup {None} /\ (overlapped \/ memory'[d].of = key)
          BY <1>c, <2>1, <2>2, <2>3
        <5> QED BY <1>c, <2>1, <2>3, <5>1, EncryptedSealed
      <4>2. Write(d, memory', key, None) \in Sent(changes', overlapped')
        BY <4>1 DEF Write, Sent
      <4> QED BY <3>1, <3>3, <4>2, AppendProperties DEF ChangeImmediate, Sealing
    <3> QED BY <1>1, <3>2, <3>3
  <2>8. Rest'
    <3>1. changes' \in 0..MaxChange
      BY <1>c, <2>1, Limits
    <3>2. dirty' \subseteq Domain /\ timers' \subseteq Domain
      BY <1>1 DEF ChangeDebounced, ChangeImmediate, Rest
    <3>3. UNCHANGED <<stuck, task, quitting, switches, faults, crashes, overlapped>>
      BY <1>1 DEF ChangeDebounced, ChangeImmediate
    <3> QED BY <3>1, <3>2, <3>3 DEF Rest
  <2> QED BY <2>6, <2>7, <2>8
<1>2. ASSUME NEW d \in Domain, TimerFires(d) PROVE WorkspaceInv'
  <2>1. Binding' /\ Rest'
    BY <1>2 DEF TimerFires, bound, Binding, BoundTo, Single, Alone, Open, Rest
  <2>2. d \in Open => Write(d, memory, key, None) \in Sent(changes, overlapped)
    <3>1. d \in Open => /\ memory[d] \in Snap(changes) /\ key \in Network \cup {None}
                        /\ overlapped \/ memory[d].of = key
      BY DEF Open, Binding, BoundTo
    <3>2. d \in Open => Encrypted(memory[d], key) \in Sealed(changes, overlapped)
      BY <1>c, <3>1, EncryptedSealed
    <3> QED BY <3>2 DEF Write, Sent
  <2>3. Sealing'
    BY <1>2, <2>2, AppendProperties DEF TimerFires, bound, Sealing
  <2> QED BY <2>1, <2>3
<1>3. ASSUME SnapshotWritten PROVE WorkspaceInv'
  <2> DEFINE h == queue[1]
             f == WithTmp(archive[base][h.domain], h.blob)
  <2>1. base \in Network /\ queue # <<>> /\ queue' = RemoveAt(queue, 1)
    BY <1>3 DEF SnapshotWritten, MayWrite, Answered, Binding
  <2>2. h \in Sent(changes, overlapped) /\ 1 \in 1..Len(queue)
    BY <2>1 DEF Sealing
  <2>3. queue' \in Seq(Sent(changes, overlapped))
    BY <2>1, <2>2, RemoveAtType DEF Sealing
  <2>4. h.domain \in Domain /\ h.blob \in Sealed(changes, overlapped) /\ h.by \in Task \cup {None}
    BY <2>2 DEF Sent
  <2>5. f \in Shelf(changes, overlapped) /\ Renamed(f) \in Shelf(changes, overlapped) /\ Copied(f) \in Shelf(changes, overlapped)
    <3>1. archive[base][h.domain] \in Shelf(changes, overlapped)
      BY <2>1, <2>4 DEF Sealing, Shelves
    <3>2. f \in Shelf(changes, overlapped)
      BY <1>c, <2>4, <3>1, ShelfWrites
    <3> HIDE DEF f
    <3> QED BY <1>c, <3>2, ShelfMoves
  <2>6. archive' \in Shelves(changes, overlapped)
    <3>1. \E g \in Shelf(changes, overlapped) : archive' = [archive EXCEPT ![base][h.domain] = g]
      BY <1>3, <2>5 DEF SnapshotWritten, Answered
    <3> QED BY <2>1, <2>4, <3>1 DEF Sealing, Shelves
  <2>7. Rest'
    <3>1. /\ faults' \in 0..MaxFault
          /\ stuck' # stuck => faults' \in 1..MaxFault
      BY <1>3, Limits DEF SnapshotWritten, Rest
    <3>2. stuck' \subseteq [dir : Network, domain : Domain, by : Task \cup {None}, nth : 1..MaxFault]
      <4> DEFINE s == [dir |-> base, domain |-> h.domain, by |-> h.by, nth |-> faults']
      <4>1. stuck' = stuck \/ stuck' = stuck \cup {s}
        BY <1>3 DEF SnapshotWritten, Answered
      <4>2. stuck' # stuck => s \in [dir : Network, domain : Domain, by : Task \cup {None}, nth : 1..MaxFault]
        BY <2>1, <2>4, <3>1
      <4> QED BY <4>1, <4>2 DEF Rest
    <3> QED BY <1>3, <3>1, <3>2 DEF SnapshotWritten, Rest
  <2>8. Binding' /\ UNCHANGED <<changes, overlapped>>
    BY <1>3 DEF SnapshotWritten, Binding, BoundTo, Single, Alone, Open
  <2> QED BY <2>3, <2>6, <2>7, <2>8 DEF Sealing
<1>4. ASSUME NEW s \in stuck, RenameAgain(s) PROVE WorkspaceInv'
  <2>1. s.dir \in Network /\ s.domain \in Domain
    BY DEF Rest
  <2>2. archive[s.dir][s.domain] \in Shelf(changes, overlapped)
    BY <2>1 DEF Sealing, Shelves
  <2>3. \E g \in Shelf(changes, overlapped) : archive' = [archive EXCEPT ![s.dir][s.domain] = g]
    <3>1. /\ Renamed(archive[s.dir][s.domain]) \in Shelf(changes, overlapped)
          /\ Copied(archive[s.dir][s.domain]) \in Shelf(changes, overlapped)
      BY <1>c, <2>2, ShelfMoves
    <3> QED BY <1>4, <2>1, <2>2, <3>1 DEF RenameAgain, Sealing, Shelves
  <2>4. archive' \in Shelves(changes, overlapped)
    BY <2>1, <2>3 DEF Sealing, Shelves
  <2>5. faults' \in 0..MaxFault
    BY <1>4, Limits DEF RenameAgain, Rest
  <2> QED BY <1>4, <2>4, <2>5 DEF RenameAgain, Sealing, Binding, BoundTo, Single, Alone, Open, Rest
<1>5. ASSUME NEW t \in Task, NEW w \in Network, ActivateClosed(t, w) PROVE WorkspaceInv'
  <2> DEFINE loaded == [d \in Domain |-> Loaded(archive[w][d], w)]
  <2>1. /\ task[t] = Idle /\ session = None /\ switches < MaxSwitch /\ Begins(t)
        /\ OpenInto(t, w, loaded, memory, queue)
        /\ UNCHANGED <<archive, stuck, session, quitting, changes, faults, crashes>>
    BY <1>5 DEF ActivateClosed
  <2>2. /\ overlapped' \in BOOLEAN /\ (overlapped => overlapped') /\ switches' \in 0..MaxSwitch
        /\ ~overlapped' => ~overlapped /\ Single /\ \A u \in Task : task[u] = Idle
    BY <1>c, <2>1, BeginsAlone DEF Rest
  <2>3. overlapped' \/ (Alone(t) /\ \A d \in Domain : memory[d] = None)
    BY <2>1, <2>2 DEF Single, Alone, Open
  <2>4. \A d \in Domain : archive[w][d] \in Shelf(changes, overlapped)
    BY DEF Sealing, Shelves
  <2>5. /\ loaded \in [Domain -> Snap(changes) \cup {None}]
        /\ \A d \in Domain : loaded[d] # None => overlapped' \/ loaded[d].of = w
    BY <1>c, <2>2, <2>4, LoadedOfOwner
  <2>6. /\ queue \in Seq(Sent(changes, overlapped')) /\ archive \in Shelves(changes, overlapped')
        /\ session' = None /\ changes' = changes
    BY <1>c, <2>1, <2>2, MoreChanges DEF Sealing
  <2>7. memory \in [Domain -> Snap(changes) \cup {None}]
    BY DEF Binding
  <2> HIDE DEF loaded
  <2>8. /\ queue' \in Seq(Sent(changes, overlapped'))
        /\ Binding'
        /\ task' \in Calls
    BY <1>c, <2>1, <2>2, <2>3, <2>5, <2>6, <2>7, OpenedBound
  <2>9. Sealing'
    BY <2>1, <2>6, <2>8 DEF Sealing
  <2>10. Rest'
    <3>1. dirty' \subseteq Domain /\ timers' \subseteq Domain
      BY <1>5 DEF ActivateClosed, Rest
    <3> QED BY <2>1, <2>2, <2>8, <3>1 DEF Rest, Calls
  <2> QED BY <2>8, <2>9, <2>10
<1>6. ASSUME NEW t \in Task, NEW w \in Network \cup {None}, LeaveActive(t, w)
      PROVE WorkspaceInv'
  <2>1. /\ task[t] = Idle /\ session # None /\ switches < MaxSwitch /\ Begins(t)
        /\ task' = [task EXCEPT ![t] = [stage |-> "saving", target |-> w]]
        /\ queue' = queue \o WriteAll(memory, key, t)
        /\ dirty' \subseteq Domain /\ timers' \subseteq Domain
        /\ UNCHANGED <<archive, memory, base, key, stuck, session, quitting,
                       changes, faults, crashes>>
    BY <1>6 DEF LeaveActive, Rest
  <2>2. /\ overlapped' \in BOOLEAN /\ (overlapped => overlapped') /\ switches' \in 0..MaxSwitch
        /\ ~overlapped' => ~overlapped /\ Single /\ \A u \in Task : task[u] = Idle
    BY <1>c, <2>1, BeginsAlone DEF Rest
  <2>3. WriteAll(memory, key, t) \in Seq(Sent(changes, overlapped))
    BY <1>c, WriteAllType DEF Binding
  <2>4. queue' \in Seq(Sent(changes, overlapped))
    BY <2>1, <2>3, ConcatProperties DEF Sealing
  <2>5. Sealing'
    BY <1>c, <2>1, <2>2, <2>4, MoreChanges DEF Sealing
  <2>6. task' \in Calls
    BY <1>c, <2>1 DEF Calls
  <2>7. ASSUME ~overlapped' PROVE Single'
    BY <1>c, <2>1, <2>2, <2>7 DEF Single, Alone, Open, Calls, Idle
  <2>8. Binding'
    BY <2>1, <2>2, <2>7 DEF Binding, BoundTo
  <2> QED BY <2>1, <2>2, <2>5, <2>6, <2>8 DEF Rest, Calls
<1>7. ASSUME NEW t \in Task, CloseAll(t) PROVE WorkspaceInv'
  <2>1. /\ archive' = Landed(Flushed(archive), base) /\ memory' = Closed /\ key' = None
        /\ dirty' = {} /\ timers' = {} /\ queue' = <<>> /\ session' = None
        /\ task' = [task EXCEPT ![t] = Idle]
        /\ task[t].stage = "saving"
        /\ UNCHANGED <<base, stuck, quitting, changes, switches, faults, crashes, overlapped>>
    BY <1>7 DEF CloseAll, bound
  <2>2. archive' \in Shelves(changes, overlapped)
    <3>1. base \in Network \cup {None}
      BY DEF Binding
    <3> QED BY <1>c, <2>1, <3>1, FlushedSealed, LandedSealed
  <2>3. Open' = {} /\ memory' \in [Domain -> Snap(changes) \cup {None}]
    BY <2>1 DEF Open, Closed
  <2>4. task' \in Calls
    BY <1>c, <2>1 DEF Calls, Idle
  <2>5. overlapped \/ Single'
    <3>1. overlapped \/ \A u \in Task : task'[u] = Idle
      BY <1>c, <2>1, EndsAlone DEF Binding
    <3> QED BY <2>1, <2>3, <3>1 DEF Single, Idle
  <2>6. Binding'
    BY <2>1, <2>3, <2>5 DEF Binding, BoundTo, Closed
  <2> QED BY <1>c, <2>1, <2>2, <2>4, <2>6 DEF Sealing, Rest, Calls
<1>8. ASSUME NEW t \in Task, CloseAndOpen(t) PROVE WorkspaceInv'
  <2> DEFINE w       == task[t].target
             flushed == Flushed(archive)
             landed  == Landed(flushed, w)
             loaded  == [d \in Domain |-> Loaded(IF d = 1 THEN flushed[w][d] ELSE landed[w][d], w)]
  <2>1. /\ w # None /\ archive' = landed /\ OpenInto(t, w, loaded, Closed, <<>>)
        /\ task[t].stage = "saving"
        /\ dirty' = {} /\ timers' = {} /\ session' = None
        /\ UNCHANGED <<stuck, quitting, changes, switches, faults, crashes, overlapped>>
    BY <1>8 DEF CloseAndOpen, bound
  <2>2. w \in Network
    BY <1>c, <2>1 DEF Calls
  <2>3. flushed \in Shelves(changes, overlapped) /\ landed \in Shelves(changes, overlapped)
    <3>1. flushed \in Shelves(changes, overlapped)
      BY <1>c, FlushedSealed
    <3> HIDE DEF flushed
    <3> QED BY <1>c, <2>2, <3>1, LandedSealed
  <2> HIDE DEF w, flushed, landed
  <2>4. /\ loaded \in [Domain -> Snap(changes) \cup {None}]
        /\ \A d \in Domain : loaded[d] # None => overlapped \/ loaded[d].of = w
    <3>1. \A d \in Domain : flushed[w][d] \in Shelf(changes, overlapped) /\ landed[w][d] \in Shelf(changes, overlapped)
      BY <2>2, <2>3 DEF Shelves
    <3> QED BY <1>c, <2>2, <3>1, LoadedOfOwner
  <2>5. /\ \A d \in Domain : Closed[d] = None
        /\ Closed \in [Domain -> Snap(changes) \cup {None}]
        /\ overlapped \/ Alone(t)
    BY <2>1 DEF Closed, Binding, Single, Idle
  <2>6. <<>> \in Seq(Sent(changes, overlapped)) /\ changes' = changes /\ session' = None
    BY <2>1
  <2> HIDE DEF loaded
  <2>7. /\ queue' \in Seq(Sent(changes, overlapped))
        /\ Binding'
        /\ task' \in Calls
    BY <1>c, <2>1, <2>2, <2>4, <2>5, <2>6, OpenedBound
  <2> QED BY <1>c, <2>1, <2>3, <2>7 DEF Sealing, Rest, Calls
<1>9. ASSUME NEW t \in Task, Activated(t) PROVE WorkspaceInv'
  <2>1. /\ task[t].stage = "seeding" /\ session' = task[t].target
        /\ task' = [task EXCEPT ![t] = Idle]
        /\ UNCHANGED <<archive, memory, base, key, dirty, timers, queue, stuck, quitting,
                       changes, switches, faults, crashes, overlapped>>
    BY <1>9 DEF Activated, bound
  <2>2. session' \in Network \cup {None} /\ task' \in Calls
    BY <1>c, <2>1 DEF Calls, Idle
  <2>3. ASSUME ~overlapped PROVE Single'
    <3>1. Single /\ session' = base /\ Open = Domain
      BY <2>1, <2>3 DEF Binding, Single
    <3>2. \A u \in Task : task'[u] = Idle
      BY <1>c, <2>1, <3>1, EndsAlone
    <3>3. base # None
      <4>1. 1 \in Open
        BY <3>1, LimitAssumption DEF Domain
      <4> QED BY <4>1, NoneAssumption DEF Binding, BoundTo, Open
    <3>4. Open' = Open
      BY <2>1 DEF Open
    <3> QED BY <2>1, <3>1, <3>2, <3>3, <3>4 DEF Single, Idle
  <2>4. Binding'
    BY <2>1, <2>2, <2>3 DEF Binding, BoundTo
  <2> QED BY <2>1, <2>2, <2>4 DEF Sealing, Rest, Calls
<1>10. ASSUME BeforeQuit PROVE WorkspaceInv'
  <2>1. archive' \in Shelves(changes, overlapped)
    BY <1>c, <1>10, FlushedSealed DEF BeforeQuit
  <2>2. Sealing' /\ Rest'
    BY <1>10, <2>1 DEF BeforeQuit, bound, Sealing, Rest
  <2> QED BY <1>10, <2>2 DEF BeforeQuit, bound, Binding, BoundTo, Single, Alone, Open
<1>11. ASSUME Stop PROVE WorkspaceInv'
  <2>1. /\ memory' = Closed /\ base' = None /\ key' = None /\ dirty' = {} /\ timers' = {}
        /\ queue' = <<>> /\ stuck' = {} /\ session' = None
        /\ task' = [t \in Task |-> Idle] /\ quitting' = FALSE
        /\ UNCHANGED <<changes, switches, faults, overlapped>>
    BY <1>11 DEF Stop
  <2>2. crashes' \in 0..MaxCrash
    BY <1>11, Limits DEF Stop, Rest
  <2>3. task' \in Calls /\ \A u \in Task : task'[u] = Idle
    BY <2>1 DEF Calls, Idle
  <2>4. Open' = {} /\ memory' \in [Domain -> Snap(changes) \cup {None}]
    BY <2>1 DEF Open, Closed
  <2>5. Binding'
    BY <2>1, <2>3, <2>4 DEF Binding, BoundTo, Closed, Single, Idle
  <2>6. archive' \in Shelves(changes, overlapped)
    <3>1. CASE UNCHANGED archive
      BY <3>1 DEF Sealing
    <3>2. CASE /\ queue # <<>> /\ base # None
               /\ archive' = [archive EXCEPT ![base][Head(queue).domain] =
                                WithTmp(@, Torn(Head(queue).blob))]
      <4>1. Head(queue) \in Sent(changes, overlapped) /\ base \in Network
        BY <3>2, HeadTailProperties DEF Sealing, Binding
      <4>2. Head(queue).domain \in Domain /\ Torn(Head(queue).blob) \in Sealed(changes, overlapped)
        BY <1>c, <4>1, TornSealed DEF Sent
      <4>3. archive[base][Head(queue).domain] \in Shelf(changes, overlapped)
        BY <4>1, <4>2 DEF Sealing, Shelves
      <4>4. WithTmp(archive[base][Head(queue).domain], Torn(Head(queue).blob)) \in Shelf(changes, overlapped)
        BY <1>c, <4>2, <4>3, ShelfWrites
      <4> QED BY <3>2, <4>1, <4>2, <4>4 DEF Sealing, Shelves
    <3>3. ASSUME NEW d \in Open,
                 archive' = [archive EXCEPT ![base] = [e \in Domain |->
                   IF e < d THEN Flushed(archive)[base][e]
                   ELSE IF e = d THEN Overwritten(@[e], Torn(Encrypted(memory[e], key)))
                   ELSE @[e]]]
          PROVE archive' \in Shelves(changes, overlapped)
      <4>1. /\ d \in Domain /\ memory[d] \in Snap(changes) /\ key = base
            /\ overlapped \/ memory[d].of = key
        BY DEF Open, Binding, BoundTo
      <4>2. base \in Network /\ key \in Network \cup {None}
        BY DEF Open, Binding, BoundTo
      <4>3. Torn(Encrypted(memory[d], key)) \in Sealed(changes, overlapped)
        BY <1>c, <4>1, <4>2, EncryptedSealed, TornSealed
      <4>4. archive[base][d] \in Shelf(changes, overlapped)
        BY <4>1, <4>2 DEF Sealing, Shelves
      <4>5. Overwritten(archive[base][d], Torn(Encrypted(memory[d], key))) \in Shelf(changes, overlapped)
        BY <1>c, <4>3, <4>4, ShelfWrites
      <4>6. Flushed(archive) \in Shelves(changes, overlapped)
        BY <1>c, FlushedSealed
      <4> QED BY <3>3, <4>1, <4>2, <4>5, <4>6 DEF Sealing, Shelves
    <3> QED BY <1>11, <3>1, <3>2, <3>3 DEF Stop
  <2>7. Sealing'
    BY <2>1, <2>6 DEF Sealing
  <2>8. Rest'
    BY <1>c, <2>1, <2>2, <2>3 DEF Rest, Calls
  <2> QED BY <2>5, <2>7, <2>8
<1>12. CASE UNCHANGED vars
  BY <1>12 DEF vars, bound, Sealing, Binding, BoundTo, Single, Alone, Open, Rest
<1> QED
  BY <1>1, <1>2, <1>3, <1>4, <1>5, <1>6, <1>7, <1>8, <1>9, <1>10, <1>11, <1>12 DEF Next

\* Whatever lands in which directory, every file and snapshot that a key opens holds
\* data of the network of that key, and what is open is of the network bound, unless
\* calls of the activator have overlapped; then everything still has its type.
THEOREM WorkspaceInvHolds == Spec => []WorkspaceInv
<1>1. Init => WorkspaceInv
  BY WorkspaceInit
<1>2. WorkspaceInv /\ [Next]_vars => WorkspaceInv'
  BY WorkspaceStep
<1> QED BY <1>1, <1>2, PTL DEF Spec

\* The open databases, the bound key and workspace and the active session are of one
\* network, although the directories of two networks may get mixed, as long as no two
\* calls of the activator have overlapped.
THEOREM MemoryStaysIsolated == Spec => []MemoryIsolated
<1>1. WorkspaceInv => MemoryIsolated
  BY DEF WorkspaceInv, Binding, BoundTo, Single, MemoryIsolated, Open
<1> QED BY <1>1, WorkspaceInvHolds, PTL

\* Every variable has its type.
THEOREM WorkspaceTypes == Spec => []TypeOK
<1>1. WorkspaceInv => TypeOK
  <2> SUFFICES ASSUME WorkspaceInv PROVE TypeOK
    OBVIOUS
  <2>1. changes \in Nat /\ changes <= MaxChange
    BY Limits DEF WorkspaceInv, Rest
  <2>2. Snap(changes) \subseteq Data
    BY <2>1, Limits DEF Snap, Data
  <2>3. Sealed(changes, overlapped) \subseteq Blob
    BY <2>2 DEF Sealed, Blob
  <2>4. Shelf(changes, overlapped) \subseteq Files
    BY <2>3 DEF Shelf, Files
  <2>5. archive \in [Network -> [Domain -> Files]]
    BY <2>4 DEF WorkspaceInv, Sealing, Shelves
  <2> DEFINE Request == [domain : Domain, blob : Blob, by : Task \cup {None}]
  <2>6. Sent(changes, overlapped) \subseteq Request
    BY <2>3 DEF Sent
  <2>7. queue \in Seq(Request)
    <3> HIDE DEF Request
    <3> QED BY <2>6 DEF WorkspaceInv, Sealing
  <2>8. memory \in [Domain -> Data \cup {None}]
    BY <2>2 DEF WorkspaceInv, Binding
  <2> QED BY <2>5, <2>7, <2>8 DEF WorkspaceInv, Binding, Rest, TypeOK
<1> QED BY <1>1, WorkspaceInvHolds, PTL

-----------------------------------------------------------------------------
\* A flushed file is the one that is loaded, and opens with the bound key.
LEMMA FlushedLoads == ASSUME WorkspaceInv, NEW d \in Open
  PROVE base # None /\ Loaded(Flushed(archive)[base][d], base) = memory[d]
<1> DEFINE b == Encrypted(memory[d], key)
<1>1. changes \in Nat
  BY Limits DEF WorkspaceInv, Rest
<1>2. d \in Domain /\ memory[d] \in Snap(changes) /\ base \in Network /\ key = base
  BY DEF WorkspaceInv, Binding, BoundTo, Open
<1>3. base # None
  BY <1>2, NoneAssumption
<1>4. Flushed(archive)[base][d] = Overwritten(archive[base][d], b)
  BY <1>2, <1>3 DEF Flushed, WorkspaceInv, Sealing, Shelves
<1>5. archive[base][d] \in Shelf(changes, overlapped)
  BY <1>2, <1>3 DEF WorkspaceInv, Sealing, Shelves
<1>6. /\ Overwritten(archive[base][d], b).newer = FALSE
      /\ Overwritten(archive[base][d], b).enc = b
  BY <1>5 DEF Overwritten, Shelf
<1>7. b.key = base /\ b.data = memory[d] /\ b # None
  BY <1>2, <1>3, NoneAssumption DEF Encrypted, Snap
<1> QED BY <1>3, <1>4, <1>6, <1>7 DEF Loaded, Source, Readable

\* The end of a teardown that finds no snapshot at the worker and no rename to try again
\* leaves the last version of every open database where the next opening will look for
\* it, whatever other calls are under way.
THEOREM CleanClosesSave == Spec => CleanCloseSaves
<1> DEFINE Saves == \A t \in Task, d \in Domain :
                      /\ task[t].stage = "saving" /\ task'[t] # task[t]
                      /\ Left(d) /\ crashes' = crashes /\ queue = <<>> /\ stuck = {}
                      => Loaded(archive'[base][d], base) = memory[d]
<1>1. WorkspaceInv /\ [Next]_vars => [Saves]_vars
  <2> SUFFICES ASSUME WorkspaceInv, Next, NEW t \in Task, NEW d \in Domain,
                      task[t].stage = "saving", task'[t] # task[t],
                      Left(d), crashes' = crashes, queue = <<>>
               PROVE Loaded(archive'[base][d], base) = memory[d]
    OBVIOUS
  <2>1. d \in Open
    BY DEF Left, Open
  <2>2. base # None /\ Loaded(Flushed(archive)[base][d], base) = memory[d]
    BY <2>1, FlushedLoads
  <2>3. ASSUME NEW a, NEW w \in Network \cup {None}, a \in Shelves(changes, overlapped)
        PROVE Landed(a, w) = a
    BY <2>3 DEF Landed, Shelves
  <2>4. Flushed(archive) \in Shelves(changes, overlapped)
    BY FlushedSealed, Limits DEF WorkspaceInv, Rest
  <2>5. CASE \E u \in Task : CloseAll(u) \/ CloseAndOpen(u)
    <3>1. PICK u \in Task : CloseAll(u) \/ CloseAndOpen(u)
      BY <2>5
    <3>2. task[u].target \in Network \cup {None} /\ base \in Network \cup {None}
      BY DEF WorkspaceInv, Rest, Binding
    <3>3. archive' = Flushed(archive)
      BY <2>3, <2>4, <3>1, <3>2 DEF CloseAll, CloseAndOpen
    <3> QED BY <2>2, <3>3
  <2>6. ASSUME NEW u \in Task,
               \/ \E w \in Network : ActivateClosed(u, w)
               \/ \E w \in Network \cup {None} : LeaveActive(u, w)
               \/ Activated(u)
        PROVE FALSE
    <3>1. task[u].stage # "saving"
      <4>1. task[u] = Idle \/ task[u].stage = "seeding"
        BY <2>6 DEF ActivateClosed, LeaveActive, Activated
      <4> QED BY <4>1 DEF Idle
    <3>3. \E x : task' = [task EXCEPT ![u] = x]
      <4>1. CASE \E w \in Network : ActivateClosed(u, w)
        BY <4>1 DEF ActivateClosed, OpenInto
      <4>2. CASE \E w \in Network \cup {None} : LeaveActive(u, w)
        BY <4>2 DEF LeaveActive
      <4>3. CASE Activated(u)
        BY <4>3 DEF Activated
      <4> QED BY <2>6, <4>1, <4>2, <4>3
    <3>2. task \in Calls
      BY DEF WorkspaceInv, Rest, Calls
    <3> QED BY <3>1, <3>2, <3>3 DEF Calls
  <2>7. ~Stop
    <3>1. crashes \in Nat
      BY Limits DEF WorkspaceInv, Rest
    <3> QED BY <3>1 DEF Stop
  <2>8. ASSUME \/ \E e \in Domain : ChangeDebounced(e) \/ ChangeImmediate(e) \/ TimerFires(e)
               \/ SnapshotWritten
               \/ \E s \in stuck : RenameAgain(s)
               \/ BeforeQuit
        PROVE FALSE
    BY <2>8 DEF ChangeDebounced, ChangeImmediate, TimerFires, SnapshotWritten, RenameAgain, BeforeQuit
  <2> QED BY <2>5, <2>6, <2>7, <2>8 DEF Next
<1>2. CleanCloseSaves <=> [][Saves]_vars
  BY PTL DEF CleanCloseSaves
<1> QED BY <1>1, <1>2, WorkspaceInvHolds, PTL DEF Spec

-----------------------------------------------------------------------------
(***************************************************************************)
(* The last change of an open database.  Of the snapshots of a domain at   *)
(* the worker only the last one counts, since the answers come in order    *)
(* and a later .tmp replaces an earlier one.  Hence Kept: the last change  *)
(* waits for a timer, or is the last snapshot of its domain, or there is   *)
(* no snapshot of that domain and the file holds it, renamed or not.       *)
(***************************************************************************)
NoneOf(q, d)        == \A i \in DOMAIN q : q[i].domain # d
Latest(q, d, blob)  == \E i \in DOMAIN q : /\ q[i].domain = d /\ q[i].blob = blob
                                           /\ \A j \in DOMAIN q : j > i => q[j].domain # d
Holds(f, blob)      == \/ f.tmp = None /\ ~f.newer /\ f.enc = blob
                       \/ f.newer /\ f.tmp = blob

Kept(d) == LET blob == Encrypted(memory[d], key)
           IN  \/ d \in dirty /\ d \in timers
               \/ Latest(queue, d, blob)
               \/ NoneOf(queue, d) /\ Holds(archive[base][d], blob)

LastChangesKept == quitting \/ \A d \in Open : Kept(d)

-----------------------------------------------------------------------------
\* The queue: a snapshot that is added, or taken from the front.
LEMMA LatestAppended ==
  ASSUME NEW S, NEW q \in Seq(S), NEW x \in S, NEW d, NEW b
  PROVE  /\ x.domain = d => Latest(Append(q, x), d, x.blob)
         /\ x.domain # d => /\ NoneOf(q, d) => NoneOf(Append(q, x), d)
                            /\ Latest(q, d, b) => Latest(Append(q, x), d, b)
<1> DEFINE r == Append(q, x)
<1>1. /\ DOMAIN q = 1..Len(q) /\ Len(q) \in Nat /\ DOMAIN r = 1..(Len(q) + 1)
      /\ r[Len(q) + 1] = x /\ \A i \in 1..Len(q) : r[i] = q[i]
  BY AppendProperties
<1> HIDE DEF r
<1>2. ASSUME x.domain = d PROVE Latest(r, d, x.blob)
  <2>1. Len(q) + 1 \in DOMAIN r /\ \A j \in DOMAIN r : ~(j > Len(q) + 1)
    BY <1>1
  <2> QED BY <1>1, <1>2, <2>1 DEF Latest
<1>3. ASSUME x.domain # d, NoneOf(q, d) PROVE NoneOf(r, d)
  BY <1>1, <1>3 DEF NoneOf
<1>4. ASSUME x.domain # d, Latest(q, d, b) PROVE Latest(r, d, b)
  <2>1. PICK i \in DOMAIN q : /\ q[i].domain = d /\ q[i].blob = b
                              /\ \A j \in DOMAIN q : j > i => q[j].domain # d
    BY <1>4 DEF Latest
  <2>2. i \in DOMAIN r /\ r[i] = q[i]
    BY <1>1, <2>1
  <2>3. ASSUME NEW j \in DOMAIN r, j > i PROVE r[j].domain # d
    BY <1>1, <1>4, <2>1, <2>3
  <2> QED BY <2>1, <2>2, <2>3 DEF Latest
<1> QED BY <1>2, <1>3, <1>4 DEF r

LEMMA LatestConcat ==
  ASSUME NEW S, NEW q \in Seq(S), NEW r \in Seq(S), NEW d, NEW b, Latest(r, d, b)
  PROVE  Latest(q \o r, d, b)
<1> DEFINE s == q \o r
<1>1. /\ DOMAIN r = 1..Len(r) /\ Len(q) \in Nat /\ Len(r) \in Nat
      /\ DOMAIN s = 1..(Len(q) + Len(r))
      /\ \A i \in DOMAIN s : s[i] = IF i <= Len(q) THEN q[i] ELSE r[i - Len(q)]
  BY ConcatProperties
<1> HIDE DEF s
<1>2. PICK i \in DOMAIN r : /\ r[i].domain = d /\ r[i].blob = b
                            /\ \A j \in DOMAIN r : j > i => r[j].domain # d
  BY DEF Latest
<1>3. Len(q) + i \in DOMAIN s /\ s[Len(q) + i] = r[i]
  BY <1>1
<1>4. ASSUME NEW j \in DOMAIN s, j > Len(q) + i PROVE s[j].domain # d
  <2>1. j - Len(q) \in DOMAIN r /\ j - Len(q) > i /\ s[j] = r[j - Len(q)]
    BY <1>1, <1>4
  <2> QED BY <1>2, <2>1
<1>5. Latest(s, d, b)
  BY <1>2, <1>3, <1>4 DEF Latest
<1> QED BY <1>5 DEF s

LEMMA FirstRemoved ==
  ASSUME NEW S, NEW q \in Seq(S), q # <<>>
  PROVE  /\ RemoveAt(q, 1) \in Seq(S) /\ Len(q) \in Nat \ {0}
         /\ DOMAIN RemoveAt(q, 1) = 1..(Len(q) - 1) /\ DOMAIN q = 1..Len(q)
         /\ \A i \in 1..(Len(q) - 1) : RemoveAt(q, 1)[i] = q[i + 1]
<1>1. Len(q) \in Nat \ {0} /\ DOMAIN q = 1..Len(q)
  OBVIOUS
<1>2. SubSeq(q, 1, 0) = <<>>
  OBVIOUS
<1>3. /\ SubSeq(q, 2, Len(q)) \in Seq(S) /\ Len(SubSeq(q, 2, Len(q))) = Len(q) - 1
      /\ \A i \in 1..(Len(q) - 1) : SubSeq(q, 2, Len(q))[i] = q[i + 1]
  BY <1>1
<1>4. RemoveAt(q, 1) = <<>> \o SubSeq(q, 2, Len(q))
  BY <1>2 DEF RemoveAt
<1>5. RemoveAt(q, 1) = SubSeq(q, 2, Len(q))
  BY <1>3, <1>4, ConcatEmptySeq
<1> DEFINE r == SubSeq(q, 2, Len(q))
<1>6. r \in Seq(S) /\ Len(r) = Len(q) - 1 /\ \A i \in 1..(Len(q) - 1) : r[i] = q[i + 1]
  BY <1>3
<1>7. RemoveAt(q, 1) = r
  BY <1>5
<1> HIDE DEF r
<1>8. DOMAIN r = 1..(Len(q) - 1)
  BY <1>6, LenProperties
<1> QED BY <1>1, <1>6, <1>7, <1>8

LEMMA LatestRemoved ==
  ASSUME NEW S, NEW q \in Seq(S), q # <<>>, NEW d, NEW b
  PROVE  /\ Latest(q, d, b) =>
              \/ Latest(RemoveAt(q, 1), d, b)
              \/ (q[1].domain = d /\ q[1].blob = b /\ NoneOf(RemoveAt(q, 1), d))
         /\ NoneOf(q, d) => q[1].domain # d /\ NoneOf(RemoveAt(q, 1), d)
<1> DEFINE r == RemoveAt(q, 1)
<1>1. /\ Len(q) \in Nat \ {0} /\ DOMAIN r = 1..(Len(q) - 1) /\ DOMAIN q = 1..Len(q)
      /\ \A i \in 1..(Len(q) - 1) : r[i] = q[i + 1]
  BY FirstRemoved
<1> HIDE DEF r
<1>2. ASSUME Latest(q, d, b)
      PROVE  Latest(r, d, b) \/ (q[1].domain = d /\ q[1].blob = b /\ NoneOf(r, d))
  <2>1. PICK i \in DOMAIN q : /\ q[i].domain = d /\ q[i].blob = b
                              /\ \A j \in DOMAIN q : j > i => q[j].domain # d
    BY <1>2 DEF Latest
  <2>2. ASSUME NEW j \in DOMAIN r, j + 1 > i PROVE r[j].domain # d
    BY <1>1, <2>1, <2>2
  <2>3. CASE i = 1
    BY <1>1, <2>1, <2>2, <2>3 DEF NoneOf
  <2>4. CASE i # 1
    <3>1. i - 1 \in DOMAIN r /\ r[i - 1] = q[i]
      BY <1>1, <2>1, <2>4
    <3>2. ASSUME NEW j \in DOMAIN r, j > i - 1 PROVE r[j].domain # d
      BY <1>1, <2>1, <2>2, <3>2
    <3> QED BY <2>1, <3>1, <3>2 DEF Latest
  <2> QED BY <2>3, <2>4
<1>3. ASSUME NoneOf(q, d) PROVE q[1].domain # d /\ NoneOf(r, d)
  BY <1>1, <1>3 DEF NoneOf
<1> QED BY <1>2, <1>3 DEF r

\* Putting a set of domains in a sequence leaves none out and repeats none.
LEMMA DomainsOnce ==
  ASSUME NEW D, D \subseteq Domain
  PROVE  \A d \in D : \E i \in DOMAIN SetToSeq(D) :
            /\ SetToSeq(D)[i] = d
            /\ \A j \in DOMAIN SetToSeq(D) : SetToSeq(D)[j] = d => j = i
<1> DEFINE f == SetToSeq(D)
<1>1. IsFiniteSet(D) /\ Cardinality(D) \in Nat
  <2>1. 1 \in Int /\ Domains \in Int
    BY LimitAssumption
  <2>2. IsFiniteSet(1..Domains)
    BY <2>1, FS_Interval
  <2> QED BY <2>2, FS_Subset, FS_CardinalityType DEF Domain
<1>2. \E g \in [1..Cardinality(D) -> D] : IsInjective(g)
  <2>1. PICK n \in Nat : ExistsBijection(1..n, D)
    BY <1>1, FS_NatBijection
  <2>2. Cardinality(D) = n
    BY <2>1, FS_CountingElements
  <2> QED BY <2>1, <2>2 DEF ExistsBijection, Bijection, Injection
<1>3. f \in [1..Cardinality(D) -> D] /\ IsInjective(f)
  BY <1>2 DEF SetToSeq
<1>4. f \in Injection(1..Cardinality(D), D)
  BY <1>3 DEF Injection
<1>5. Cardinality(1..Cardinality(D)) = Cardinality(D)
  BY <1>1, FS_Interval
<1> HIDE DEF f
<1>6. f \in Surjection(1..Cardinality(D), D)
  BY <1>1, <1>4, <1>5, FS_Injection
<1>7. \A d \in D : \E i \in DOMAIN f : f[i] = d
  BY <1>3, <1>6 DEF Surjection
<1>8. \A i, j \in DOMAIN f : f[i] = f[j] => i = j
  BY <1>3 DEF IsInjective
<1>9. \A d \in D : \E i \in DOMAIN f : f[i] = d /\ \A j \in DOMAIN f : f[j] = d => j = i
  BY <1>7, <1>8
<1> QED BY <1>9 DEF f

\* saveAll sends the current version of every open database, once.
LEMMA WriteAllKeeps ==
  ASSUME NEW mem, NEW k, NEW by, NEW d \in Domain, mem[d] # None
  PROVE  Latest(WriteAll(mem, k, by), d, Encrypted(mem[d], k))
<1> DEFINE D == {e \in Domain : mem[e] # None}
           f == SetToSeq(D)
           q == WriteAll(mem, k, by)
<1>1. f \in Seq(D)
  BY DomainsInOrder
<1>2. PICK i \in DOMAIN f : f[i] = d /\ \A j \in DOMAIN f : f[j] = d => j = i
  BY DomainsOnce
<1>3. DOMAIN q = DOMAIN f /\ \A j \in DOMAIN f : q[j] = Write(f[j], mem, k, by)
  BY <1>1 DEF WriteAll
<1>4. \A e : Write(e, mem, k, by).domain = e /\ Write(e, mem, k, by).blob = Encrypted(mem[e], k)
  BY DEF Write
<1> HIDE DEF f, q
<1>5. \A j \in DOMAIN q : j > i => q[j].domain # d
  <2>1. i \in Nat
    BY <1>1
  <2> QED BY <1>2, <1>3, <1>4, <2>1
<1>6. Latest(q, d, Encrypted(mem[d], k))
  BY <1>2, <1>3, <1>4, <1>5 DEF Latest
<1> QED BY <1>6 DEF q

\* The two halves of a write, and the next attempt to rename: the .tmp is kept,
\* or becomes the .enc.
LEMMA HeldByFile ==
  ASSUME NEW c \in Nat, NEW o \in BOOLEAN, NEW f \in Shelf(c, o), NEW b \in Sealed(c, o)
  PROVE  /\ Holds(WithTmp(f, b), b)
         /\ Holds(f, b) => Holds(Renamed(f), b) /\ Holds(Copied(f), b)
<1>1. b # None
  BY NoneAssumption DEF Sealed, Snap
<1>2. Holds(WithTmp(f, b), b)
  BY DEF Holds, WithTmp, Shelf
<1>3. ASSUME NEW g \in Shelf(c, o)
      PROVE /\ Copied(g).enc = g.enc /\ Copied(g).tmp = g.tmp /\ Copied(g).newer = g.newer
  BY DEF Copied, Shelf
<1>4. ASSUME Holds(f, b) PROVE Holds(Renamed(f), b)
  <2> DEFINE g == [f EXCEPT !.enc = f.tmp, !.tmp = None, !.newer = FALSE]
  <2>1. CASE f.tmp = None
    BY <1>3, <1>4, <2>1 DEF Holds, Renamed
  <2>2. CASE f.tmp # None
    <3>1. f.tmp = b
      BY <1>4, <2>2 DEF Holds
    <3>2. g \in Shelf(c, o) /\ g.enc = b /\ g.tmp = None /\ ~g.newer
      BY <3>1 DEF Shelf
    <3>3. Renamed(f) = Copied(g)
      BY <2>2 DEF Renamed
    <3> HIDE DEF g
    <3> QED BY <1>3, <3>2, <3>3 DEF Holds
  <2> QED BY <2>1, <2>2
<1>5. Holds(f, b) => Holds(Copied(f), b)
  BY <1>3 DEF Holds
<1> QED BY <1>2, <1>4, <1>5

\* An open database as the worker gets it, and the directory it is in.
LEMMA OpenFacts ==
  ASSUME WorkspaceInv, NEW d \in Open
  PROVE  /\ d \in Domain /\ changes \in Nat /\ base \in Network /\ base # None /\ key = base
         /\ Encrypted(memory[d], key) \in Sealed(changes, overlapped)
         /\ archive[base][d] \in Shelf(changes, overlapped)
         /\ memory[d] \in Snap(changes) /\ (overlapped \/ memory[d].of = base)
         /\ overlapped \in BOOLEAN
<1>1. changes \in Nat
  BY Limits DEF WorkspaceInv, Rest
<1>2. /\ d \in Domain /\ memory[d] \in Snap(changes) /\ (overlapped \/ memory[d].of = base)
      /\ key = base /\ base \in Network /\ overlapped \in BOOLEAN
  BY DEF WorkspaceInv, Binding, BoundTo, Open, Rest
<1>3. base # None
  BY <1>2, NoneAssumption
<1> QED BY <1>1, <1>2, <1>3, EncryptedSealed DEF WorkspaceInv, Sealing, Shelves

LEMMA ChangesKept ==
  ASSUME WorkspaceInv, LastChangesKept, [Next]_vars
  PROVE  LastChangesKept'
<1> SUFFICES ASSUME ~quitting', NEW d \in Open' PROVE Kept(d)'
  BY DEF LastChangesKept
<1>q. /\ queue \in Seq(Sent(changes, overlapped)) /\ changes \in Nat /\ overlapped \in BOOLEAN
      /\ memory \in [Domain -> Snap(changes) \cup {None}]
  BY Limits DEF WorkspaceInv, Sealing, Binding, Rest
<1>d. d \in Domain /\ memory'[d] # None
  BY DEF Open
<1>0. ASSUME d \in Open, ~quitting PROVE Kept(d)
  BY <1>0 DEF LastChangesKept
<1>1. ASSUME NEW e \in Domain, ChangeDebounced(e) PROVE Kept(d)'
  <2>1. /\ dirty' = dirty \cup {e} /\ timers' = timers \cup {e}
        /\ memory' = [memory EXCEPT ![e].version = @ + 1] /\ e \in Open
        /\ UNCHANGED <<archive, base, key, queue, quitting>>
    BY <1>1 DEF ChangeDebounced
  <2>2. CASE d = e
    BY <2>1, <2>2 DEF Kept
  <2>3. CASE d # e
    <3>1. memory'[d] = memory[d] /\ d \in Open
      BY <1>q, <1>d, <2>1, <2>3 DEF Open
    <3>2. Kept(d)
      BY <1>0, <2>1, <3>1
    <3> QED BY <2>1, <3>1, <3>2 DEF Kept
  <2> QED BY <2>2, <2>3
<1>2. ASSUME NEW e \in Domain, ChangeImmediate(e) PROVE Kept(d)'
  <2> DEFINE x == Write(e, memory', key, None)
  <2>1. /\ dirty' = dirty \ {e} /\ timers' = timers \ {e}
        /\ memory' = [memory EXCEPT ![e].version = @ + 1] /\ e \in Open
        /\ queue' = Append(queue, x)
        /\ UNCHANGED <<archive, base, key, quitting>>
    BY <1>2 DEF ChangeImmediate
  <2>2. x.domain = e /\ x.blob = Encrypted(memory'[e], key) /\ queue \in Seq(Sent(changes, overlapped) \cup {x})
    BY <1>q DEF Write
  <2> HIDE DEF x
  <2>3. CASE d = e
    <3>1. Latest(queue', d, Encrypted(memory'[d], key))
      BY <2>1, <2>2, <2>3, LatestAppended
    <3> QED BY <2>1, <3>1 DEF Kept
  <2>4. CASE d # e
    <3>1. memory'[d] = memory[d] /\ d \in Open
      BY <1>q, <1>d, <2>1, <2>4 DEF Open
    <3>2. Kept(d)
      BY <1>0, <2>1, <3>1
    <3>3. \A b : /\ NoneOf(queue, d) => NoneOf(queue', d)
                 /\ Latest(queue, d, b) => Latest(queue', d, b)
      BY <2>1, <2>2, <2>4, LatestAppended
    <3> QED BY <2>1, <2>4, <3>1, <3>2, <3>3 DEF Kept
  <2> QED BY <2>3, <2>4
<1>3. ASSUME NEW e \in Domain, TimerFires(e) PROVE Kept(d)'
  <2> DEFINE x == Write(e, memory, key, None)
  <2>1. /\ dirty' = dirty \ {e} /\ timers' = timers \ {e}
        /\ queue' = IF e \in dirty /\ e \in Open THEN Append(queue, x) ELSE queue
        /\ UNCHANGED <<archive, memory, base, key, quitting>>
    BY <1>3 DEF TimerFires
  <2>2. x.domain = e /\ x.blob = Encrypted(memory[e], key) /\ queue \in Seq(Sent(changes, overlapped) \cup {x})
    BY <1>q DEF Write
  <2>3. d \in Open /\ Kept(d)
    BY <1>0, <2>1 DEF Open
  <2> HIDE DEF x
  <2>4. CASE e \in dirty /\ e \in Open
    <3>1. queue' = Append(queue, x)
      BY <2>1, <2>4
    <3>2. CASE d = e
      <4>1. Latest(queue', d, Encrypted(memory[d], key))
        BY <2>2, <3>1, <3>2, LatestAppended
      <4> QED BY <2>1, <4>1 DEF Kept
    <3>3. CASE d # e
      <4>1. \A b : /\ NoneOf(queue, d) => NoneOf(queue', d)
                   /\ Latest(queue, d, b) => Latest(queue', d, b)
        BY <2>2, <3>1, <3>3, LatestAppended
      <4> QED BY <2>1, <2>3, <3>3, <4>1 DEF Kept
    <3> QED BY <3>2, <3>3
  <2>5. CASE ~(e \in dirty /\ e \in Open)
    BY <2>1, <2>3, <2>5 DEF Kept
  <2> QED BY <2>4, <2>5
<1>4. ASSUME SnapshotWritten PROVE Kept(d)'
  <2> DEFINE h == queue[1]
             f == WithTmp(archive[base][h.domain], h.blob)
             b == Encrypted(memory[d], key)
  <2>1. /\ queue # <<>> /\ base # None /\ queue' = RemoveAt(queue, 1)
        /\ \E g \in {Renamed(f), f, Copied(f)} : archive' = [archive EXCEPT ![base][h.domain] = g]
        /\ UNCHANGED <<memory, base, key, dirty, timers, quitting>>
    BY <1>4 DEF SnapshotWritten, MayWrite, Answered
  <2>2. d \in Open /\ Kept(d)
    BY <1>0, <2>1 DEF Open
  <2>3. /\ b \in Sealed(changes, overlapped) /\ archive[base][d] \in Shelf(changes, overlapped) /\ base \in Network
    BY <2>2, OpenFacts
  <2>4. h.domain # d => archive'[base][d] = archive[base][d]
    BY <2>1, <2>3 DEF WorkspaceInv, Sealing, Shelves
  <2>5. h.domain = d /\ h.blob = b => Holds(archive'[base][d], b)
    <3> SUFFICES ASSUME h.domain = d, h.blob = b PROVE Holds(archive'[base][d], b)
      OBVIOUS
    <3>1. f = WithTmp(archive[base][d], b)
      OBVIOUS
    <3>2. f \in Shelf(changes, overlapped)
      BY <1>q, <2>3, <3>1, ShelfWrites
    <3>3. Holds(f, b) /\ Holds(Renamed(f), b) /\ Holds(Copied(f), b)
      BY <1>q, <2>3, <3>1, <3>2, HeldByFile
    <3>4. PICK g \in {Renamed(f), f, Copied(f)} : archive' = [archive EXCEPT ![base][h.domain] = g]
      BY <2>1
    <3> HIDE DEF f, b
    <3>5. archive'[base][d] = g
      BY <1>d, <2>3, <3>4 DEF WorkspaceInv, Sealing, Shelves
    <3> QED BY <3>3, <3>4, <3>5
  <2> HIDE DEF h, f, b
  <2>6. /\ Latest(queue, d, b) => \/ Latest(queue', d, b)
                                 \/ (h.domain = d /\ h.blob = b /\ NoneOf(queue', d))
        /\ NoneOf(queue, d) => h.domain # d /\ NoneOf(queue', d)
    BY <1>q, <2>1, LatestRemoved DEF h
  <2>7. \/ d \in dirty' /\ d \in timers'
        \/ Latest(queue', d, b)
        \/ NoneOf(queue', d) /\ Holds(archive'[base][d], b)
    <3>1. CASE d \in dirty /\ d \in timers
      BY <2>1, <3>1
    <3>2. CASE Latest(queue, d, b)
      BY <2>5, <2>6, <3>2
    <3>3. CASE NoneOf(queue, d) /\ Holds(archive[base][d], b)
      BY <2>4, <2>6, <3>3
    <3> QED BY <2>2, <3>1, <3>2, <3>3 DEF Kept, b
  <2> QED BY <2>1, <2>7 DEF Kept, b
<1>5. ASSUME NEW s \in stuck, RenameAgain(s) PROVE Kept(d)'
  <2> DEFINE b == Encrypted(memory[d], key)
             f == archive[base][d]
  <2>1. /\ \/ archive' = [archive EXCEPT ![s.dir][s.domain] = Renamed(@)]
           \/ archive' = [archive EXCEPT ![s.dir][s.domain] = Copied(@)]
        /\ UNCHANGED <<memory, base, key, dirty, timers, queue, quitting>>
    BY <1>5 DEF RenameAgain
  <2>2. d \in Open /\ Kept(d)
    BY <1>0, <2>1 DEF Open
  <2>3. b \in Sealed(changes, overlapped) /\ f \in Shelf(changes, overlapped) /\ base \in Network
    BY <2>2, OpenFacts
  <2>4. s.dir \in Network /\ s.domain \in Domain
    BY DEF WorkspaceInv, Rest
  <2>5. archive'[base][d] \in {f, Renamed(f), Copied(f)}
    BY <1>d, <2>1, <2>3, <2>4 DEF WorkspaceInv, Sealing, Shelves
  <2> HIDE DEF b, f
  <2>6. Holds(f, b) => Holds(archive'[base][d], b)
    BY <1>q, <2>3, <2>5, HeldByFile
  <2> QED BY <2>1, <2>2, <2>6 DEF Kept, b, f
\* Opening and leaving save every open database.
<1>6. ASSUME NEW pending \in Seq(Sent(changes, TRUE)), NEW t \in Task, NEW w \in Network \cup {None}, key' = w,
             queue' = pending \o WriteAll(memory', w, t),
             memory' \in [Domain -> Snap(changes) \cup {None}], BoundTo(memory', w, w, TRUE)
      PROVE  Kept(d)'
  <2>1. w \in Network
    BY <1>6, <1>d DEF BoundTo
  <2>2. WriteAll(memory', w, t) \in Seq(Sent(changes, TRUE))
    BY <1>6, <1>q, <2>1, WriteAllType
  <2>3. Latest(WriteAll(memory', w, t), d, Encrypted(memory'[d], w))
    BY <1>d, WriteAllKeeps
  <2>4. Latest(queue', d, Encrypted(memory'[d], w))
    BY <1>6, <2>2, <2>3, LatestConcat
  <2> QED BY <1>6, <2>4 DEF Kept
<1>7. WorkspaceInv'
  BY WorkspaceStep
<1>8. /\ memory' \in [Domain -> Snap(changes') \cup {None}]
      /\ key' \in Network \cup {None} /\ BoundTo(memory', key', key', TRUE)
  BY <1>7, <1>d DEF WorkspaceInv, Binding, BoundTo
<1>s. queue \in Seq(Sent(changes, TRUE))
  <2> DEFINE S == Sent(changes, overlapped)
             T == Sent(changes, TRUE)
  <2>1. S \subseteq T
    BY <1>q, MoreChanges
  <2>2. queue \in Seq(S)
    BY <1>q
  <2> HIDE DEF S, T
  <2>3. queue \in Seq(T)
    BY <2>1, <2>2
  <2> QED BY <2>3 DEF T
<1>9. ASSUME NEW t \in Task, NEW w \in Network, ActivateClosed(t, w) PROVE Kept(d)'
  <2>1. queue' = queue \o WriteAll(memory', w, t) /\ key' = w /\ changes' = changes
    BY <1>9 DEF ActivateClosed, OpenInto
  <2> QED BY <1>6, <1>8, <1>s, <2>1
<1>10. ASSUME NEW t \in Task, NEW w \in Network \cup {None}, LeaveActive(t, w) PROVE Kept(d)'
  <2>1. queue' = queue \o WriteAll(memory', key', t) /\ changes' = changes
    BY <1>10 DEF LeaveActive
  <2> QED BY <1>6, <1>8, <1>s, <2>1
<1>11. ASSUME NEW t \in Task, CloseAndOpen(t) PROVE Kept(d)'
  <2>1. queue' = <<>> \o WriteAll(memory', key', t) /\ changes' = changes
    BY <1>11 DEF CloseAndOpen, OpenInto, bound
  <2>2. <<>> \in Seq(Sent(changes, TRUE))
    OBVIOUS
  <2> QED BY <1>6, <1>8, <2>1, <2>2
<1>12. ASSUME NEW t \in Task, Activated(t) PROVE Kept(d)'
  <2>1. UNCHANGED <<archive, memory, base, key, dirty, timers, queue, quitting>>
    BY <1>12 DEF Activated
  <2>2. d \in Open /\ Kept(d)
    BY <1>0, <2>1 DEF Open
  <2> QED BY <2>1, <2>2 DEF Kept
<1>13. ASSUME NEW t \in Task, CloseAll(t) PROVE FALSE
  BY <1>13, <1>d DEF CloseAll, Closed
<1>14. ASSUME Stop PROVE FALSE
  BY <1>14, <1>d DEF Stop, Closed
<1>15. ~BeforeQuit
  BY DEF BeforeQuit
<1>16. CASE UNCHANGED vars
  <2>1. UNCHANGED <<archive, memory, base, key, dirty, timers, queue, quitting>>
    BY <1>16 DEF vars
  <2>2. d \in Open /\ Kept(d)
    BY <1>0, <2>1 DEF Open
  <2> QED BY <2>1, <2>2 DEF Kept
<1> QED
  BY <1>1, <1>2, <1>3, <1>4, <1>5, <1>9, <1>10, <1>11, <1>12, <1>13, <1>14, <1>15, <1>16 DEF Next

\* No change is forgotten, for any number of changes, faults, crashes and switches, and
\* however the calls of the activator overlap: the last version of an open database is
\* on disk, on its way, or marked for a timer that is armed
\* (db_manager.js, saveDatabase and _writeToDisk).
THEOREM ChangesRemembered == Spec => []NoChangeForgotten
<1>1. Init => LastChangesKept
  BY DEF Init, LastChangesKept, Open, Closed
<1>2. ASSUME WorkspaceInv, LastChangesKept PROVE NoChangeForgotten
  <2> SUFFICES ASSUME NEW d \in Open, ~quitting PROVE OnDisk(d) \/ UnderWay(d)
    BY DEF NoChangeForgotten
  <2> DEFINE b == Encrypted(memory[d], key)
             f == archive[base][d]
  <2>1. b.data = memory[d] /\ b.key = key
    BY DEF Encrypted
  <2>2. b # None
    <3>1. b \in Sealed(changes, overlapped) /\ changes \in Nat
      BY <1>2, OpenFacts
    <3> QED BY <3>1, NoneAssumption DEF Sealed, Snap
  <2>3. Kept(d)
    BY <1>2 DEF LastChangesKept
  <2> HIDE DEF b, f
  <2>4. CASE Latest(queue, d, b)
    BY <2>1, <2>4 DEF Latest, UnderWay
  <2>5. CASE Holds(f, b)
    <3>1. Source(f) = b
      BY <2>5 DEF Holds, Source
    <3>2. Loaded(f, key) = memory[d]
      BY <2>1, <2>2, <3>1 DEF Loaded, Readable
    <3> QED BY <3>2 DEF OnDisk, f
  <2> QED BY <2>3, <2>4, <2>5 DEF Kept, UnderWay, b, f
<1>3. WorkspaceInv /\ LastChangesKept /\ [Next]_vars => LastChangesKept'
  BY ChangesKept
<1> QED BY <1>1, <1>2, <1>3, WorkspaceInvHolds, PTL DEF Spec

-----------------------------------------------------------------------------
(***************************************************************************)
(* The order of the writes.  The snapshots of a domain leave in the order  *)
(* of its changes and no snapshot of a network outlives the network: its   *)
(* databases are closed and the worker ended in the same run of            *)
(* continuations.  So the versions of a domain at the worker rise towards  *)
(* that in memory (InOrder), and a call that leaves a network for another  *)
(* leaves a different one.                                                 *)
(***************************************************************************)
Version(x) == x.blob.data.version

InOrder(q, mem, w) ==
  \A i \in DOMAIN q :
     /\ mem[q[i].domain] # None /\ q[i].blob.key = w
     /\ Version(q[i]) <= mem[q[i].domain].version
     /\ \A j \in DOMAIN q : i < j /\ q[j].domain = q[i].domain => Version(q[i]) <= Version(q[j])

\* No version of domain d at the worker or in memory is below n.
Above(q, mem, d, n) ==
  /\ \A i \in DOMAIN q : q[i].domain = d => n <= Version(q[i])
  /\ mem[d] # None => n <= mem[d].version

Bounded(d, n) == Above(queue, memory, d, n)

QueueInv ==
  /\ InOrder(queue, memory, base)
  /\ \A t \in Task : task[t].stage = "saving" /\ task[t].target # None => task[t].target # base

Databases(c) == [Domain -> Snap(c) \cup {None}]

LEMMA Versions ==
  ASSUME NEW c \in Nat, NEW o \in BOOLEAN
  PROVE  /\ \A x \in Snap(c) : x.version \in Nat /\ x # None
         /\ \A b \in Sealed(c, o) : b.data \in Snap(c) /\ b.data.version \in Nat /\ b # None
         /\ \A x \in Sent(c, o) : x.domain \in Domain /\ x.blob \in Sealed(c, o) /\ Version(x) \in Nat
<1>1. \A x \in Snap(c) : x.version \in Nat /\ x # None
  BY SnapExists DEF Snap
<1>2. \A b \in Sealed(c, o) : b.data \in Snap(c)
  BY DEF Sealed
<1>3. \A b \in Sealed(c, o) : b # None
  BY NoneAssumption DEF Sealed, Snap
<1>4. \A x \in Sent(c, o) : x.domain \in Domain /\ x.blob \in Sealed(c, o)
  BY DEF Sent
<1> QED BY <1>1, <1>2, <1>3, <1>4 DEF Version

LEMMA QueueElements ==
  ASSUME NEW c \in Nat, NEW o \in BOOLEAN, NEW q \in Seq(Sent(c, o))
  PROVE  /\ Len(q) \in Nat /\ DOMAIN q = 1..Len(q)
         /\ \A i \in DOMAIN q : q[i] \in Sent(c, o) /\ q[i].domain \in Domain /\ Version(q[i]) \in Nat
<1>1. Len(q) \in Nat /\ DOMAIN q = 1..Len(q) /\ \A i \in DOMAIN q : q[i] \in Sent(c, o)
  BY LenProperties, ElementOfSeq
<1> QED BY <1>1, Versions

\* Snapshots of what is in memory go behind those that are at the worker.
LEMMA AddedInOrder ==
  ASSUME NEW c \in Nat, NEW o \in BOOLEAN, NEW mem \in Databases(c), NEW w,
         NEW q \in Seq(Sent(c, o)), NEW r \in Seq(Sent(c, o)), InOrder(q, mem, w),
         \A j \in DOMAIN r : /\ mem[r[j].domain] # None
                             /\ r[j].blob = Encrypted(mem[r[j].domain], w)
  PROVE  /\ InOrder(q \o r, mem, w)
         /\ \A d \in Domain, n \in Nat : Above(q, mem, d, n) => Above(q \o r, mem, d, n)
<1> DEFINE s == q \o r
<1>1. /\ s \in Seq(Sent(c, o)) /\ DOMAIN s = 1..(Len(q) + Len(r)) /\ Len(q) \in Nat /\ Len(r) \in Nat
      /\ DOMAIN q = 1..Len(q) /\ DOMAIN r = 1..Len(r)
      /\ \A i \in DOMAIN s : s[i] = IF i <= Len(q) THEN q[i] ELSE r[i - Len(q)]
  BY ConcatProperties, QueueElements
<1> HIDE DEF s
<1>2. ASSUME NEW i \in DOMAIN s, i <= Len(q)
      PROVE  i \in DOMAIN q /\ s[i] = q[i]
  BY <1>1, <1>2
<1>3. ASSUME NEW i \in DOMAIN s, ~(i <= Len(q))
      PROVE  /\ mem[s[i].domain] # None /\ s[i].blob.key = w
             /\ Version(s[i]) = mem[s[i].domain].version
  <2>1. i - Len(q) \in DOMAIN r /\ s[i] = r[i - Len(q)]
    BY <1>1, <1>3
  <2>2. \A b : Encrypted(b, w).key = w /\ Encrypted(b, w).data = b
    BY DEF Encrypted
  <2> QED BY <2>1, <2>2 DEF Version
<1>4. \A i \in DOMAIN s : Version(s[i]) \in Nat /\ s[i].domain \in Domain
  BY <1>1, QueueElements
<1>5. \A d \in Domain : mem[d] # None => mem[d].version \in Nat
  BY Versions DEF Databases
<1>6. ASSUME NEW i \in DOMAIN s
      PROVE  /\ mem[s[i].domain] # None /\ s[i].blob.key = w
             /\ Version(s[i]) <= mem[s[i].domain].version
  <2>1. CASE i <= Len(q)
    BY <1>2, <2>1 DEF InOrder
  <2>2. CASE ~(i <= Len(q))
    BY <1>3, <1>4, <1>5, <2>2
  <2> QED BY <2>1, <2>2
<1>7. ASSUME NEW i \in DOMAIN s, NEW j \in DOMAIN s, i < j, s[j].domain = s[i].domain
      PROVE  Version(s[i]) <= Version(s[j])
  <2>1. CASE j <= Len(q)
    <3>1. i <= Len(q)
      BY <1>1, <1>7, <2>1
    <3> QED BY <1>2, <1>7, <2>1, <3>1 DEF InOrder
  <2>2. CASE ~(j <= Len(q))
    BY <1>3, <1>6, <1>7, <2>2
  <2> QED BY <2>1, <2>2
<1>8. ASSUME NEW d \in Domain, NEW n \in Nat, Above(q, mem, d, n)
      PROVE  Above(s, mem, d, n)
  <2>1. ASSUME NEW i \in DOMAIN s, s[i].domain = d PROVE n <= Version(s[i])
    <3>1. CASE i <= Len(q)
      BY <1>2, <1>8, <2>1, <3>1 DEF Above
    <3>2. CASE ~(i <= Len(q))
      BY <1>3, <1>8, <2>1, <3>2 DEF Above
    <3> QED BY <3>1, <3>2
  <2> QED BY <1>8, <2>1 DEF Above
<1>9. InOrder(s, mem, w)
  BY <1>6, <1>7 DEF InOrder
<1> QED BY <1>8, <1>9 DEF s

LEMMA FirstInOrder ==
  ASSUME NEW c \in Nat, NEW o \in BOOLEAN, NEW mem \in Databases(c), NEW w,
         NEW q \in Seq(Sent(c, o)), q # <<>>, InOrder(q, mem, w)
  PROVE  /\ InOrder(RemoveAt(q, 1), mem, w)
         /\ Above(RemoveAt(q, 1), mem, q[1].domain, Version(q[1]))
         /\ \A d \in Domain, n \in Nat : Above(q, mem, d, n) => Above(RemoveAt(q, 1), mem, d, n)
<1> DEFINE r == RemoveAt(q, 1)
<1>1. /\ Len(q) \in Nat \ {0} /\ DOMAIN r = 1..(Len(q) - 1) /\ DOMAIN q = 1..Len(q)
      /\ \A i \in 1..(Len(q) - 1) : r[i] = q[i + 1]
  BY FirstRemoved
<1> HIDE DEF r
<1>2. ASSUME NEW i \in DOMAIN r PROVE i + 1 \in DOMAIN q /\ i + 1 > 1 /\ r[i] = q[i + 1]
  BY <1>1
<1>3. InOrder(r, mem, w)
  <2>1. ASSUME NEW i \in DOMAIN r, NEW j \in DOMAIN r, i < j PROVE i + 1 < j + 1
    BY <1>1, <2>1
  <2> QED BY <1>2, <2>1 DEF InOrder
<1>4. Above(r, mem, q[1].domain, Version(q[1]))
  <2>1. 1 \in DOMAIN q
    BY <1>1
  <2> QED BY <1>2, <2>1 DEF InOrder, Above
<1>5. \A d \in Domain, n \in Nat : Above(q, mem, d, n) => Above(r, mem, d, n)
  BY <1>2 DEF Above
<1> QED BY <1>3, <1>4, <1>5 DEF r

\* A change makes no database older.
LEMMA ChangedInOrder ==
  ASSUME NEW c \in Nat, NEW o \in BOOLEAN, NEW mem \in Databases(c), NEW mem2 \in Databases(c + 1), NEW w,
         NEW q \in Seq(Sent(c, o)), InOrder(q, mem, w),
         \A d \in Domain : /\ mem[d] # None => mem2[d] # None /\ mem[d].version <= mem2[d].version
                           /\ mem2[d] # None => mem[d] # None
  PROVE  /\ InOrder(q, mem2, w)
         /\ \A d \in Domain, n \in Nat : Above(q, mem, d, n) => Above(q, mem2, d, n)
<1>1. \A i \in DOMAIN q : q[i].domain \in Domain /\ Version(q[i]) \in Nat
  BY QueueElements
<1>2. \A d \in Domain : /\ mem[d] # None => mem[d].version \in Nat
                        /\ mem2[d] # None => mem2[d].version \in Nat
  BY Versions DEF Databases
<1>3. InOrder(q, mem2, w)
  BY <1>1, <1>2 DEF InOrder
<1>4. ASSUME NEW d \in Domain, NEW n \in Nat, Above(q, mem, d, n) PROVE Above(q, mem2, d, n)
  BY <1>2, <1>4 DEF Above
<1> QED BY <1>3, <1>4

LEMMA WriteAllElements ==
  ASSUME NEW mem, NEW w, NEW t
  PROVE  \A j \in DOMAIN WriteAll(mem, w, t) :
            /\ mem[WriteAll(mem, w, t)[j].domain] # None
            /\ WriteAll(mem, w, t)[j].blob = Encrypted(mem[WriteAll(mem, w, t)[j].domain], w)
<1> DEFINE D == {e \in Domain : mem[e] # None}
           f == SetToSeq(D)
           q == WriteAll(mem, w, t)
<1>1. f \in Seq(D)
  BY DomainsInOrder
<1>2. DOMAIN q = DOMAIN f /\ \A j \in DOMAIN f : q[j] = Write(f[j], mem, w, t)
  BY <1>1 DEF WriteAll
<1>3. \A j \in DOMAIN f : f[j] \in D
  <2> HIDE DEF f, D
  <2> QED BY <1>1, LenProperties, ElementOfSeq
<1>4. \A e : Write(e, mem, w, t).domain = e /\ Write(e, mem, w, t).blob = Encrypted(mem[e], w)
  BY DEF Write
<1> HIDE DEF f, q
<1>5. \A j \in DOMAIN q : mem[q[j].domain] # None /\ q[j].blob = Encrypted(mem[q[j].domain], w)
  BY <1>2, <1>3, <1>4
<1> QED BY <1>5 DEF q

\* After an opening there is nothing older than memory at the worker.
LEMMA OpenedInOrder ==
  ASSUME NEW c \in Nat, NEW o \in BOOLEAN, NEW mem \in Databases(c), NEW w \in Network, BoundTo(mem, w, w, o),
         NEW t \in Task
  PROVE  /\ InOrder(<<>> \o WriteAll(mem, w, t), mem, w)
         /\ \A d \in Domain, n \in Nat :
               mem[d] # None /\ n <= mem[d].version => Above(<<>> \o WriteAll(mem, w, t), mem, d, n)
<1>1. <<>> \in Seq(Sent(c, o)) /\ InOrder(<<>>, mem, w)
  BY DEF InOrder
<1>2. \A d \in Domain, n \in Nat : mem[d] # None /\ n <= mem[d].version => Above(<<>>, mem, d, n)
  BY DEF Above
<1>3. WriteAll(mem, w, t) \in Seq(Sent(c, o))
  BY WriteAllType DEF Databases
<1> QED BY <1>1, <1>2, <1>3, AddedInOrder, WriteAllElements

\* A change raises the version of one database by one.
LEMMA ChangeFacts ==
  ASSUME WorkspaceInv, NEW e \in Domain, ChangeDebounced(e) \/ ChangeImmediate(e)
  PROVE  /\ changes \in Nat /\ changes' = changes + 1
         /\ memory \in Databases(changes) /\ memory' \in Databases(changes + 1)
         /\ \A d \in Domain : /\ memory[d] # None => memory'[d] # None /\ memory[d].version <= memory'[d].version
                              /\ memory'[d] # None => memory[d] # None
         /\ memory'[e] # None /\ key = base
         /\ UNCHANGED <<archive, base, key, stuck, session, task, quitting>>
<1>1. /\ memory[e] # None /\ changes' = changes + 1 /\ memory' = [memory EXCEPT ![e].version = @ + 1]
      /\ UNCHANGED <<archive, base, key, stuck, session, task, quitting>>
  BY DEF ChangeDebounced, ChangeImmediate, Open
<1>2. changes \in Nat /\ memory \in [Domain -> Snap(changes) \cup {None}] /\ key = base
  BY <1>1, Limits DEF WorkspaceInv, Binding, BoundTo, Rest
<1>3. WorkspaceInv'
  BY WorkspaceStep DEF Next
<1>4. memory' \in [Domain -> Snap(changes + 1) \cup {None}]
  BY <1>1, <1>3 DEF WorkspaceInv, Binding
<1>5. memory[e] \in Snap(changes) /\ memory'[e] = [memory[e] EXCEPT !.version = @ + 1]
  BY <1>1, <1>2
<1>6. memory'[e].version = memory[e].version + 1 /\ memory[e].version \in Nat
  BY <1>2, <1>5 DEF Snap
<1>7. memory'[e] # None
  <2>1. memory'[e].version \in 0..(changes + 1) /\ memory'[e].of \in Network
    BY <1>2, <1>5 DEF Snap
  <2>2. memory'[e] \in Snap(changes + 1)
    BY <1>2, <1>5, <2>1 DEF Snap
  <2> QED BY <1>2, <2>2, SnapExists
<1>8. \A d \in Domain : d # e => memory'[d] = memory[d]
  BY <1>1, <1>2
<1>9. \A d \in Domain : memory[d] # None => memory[d].version \in Nat
  BY <1>2, Versions
<1> QED BY <1>1, <1>2, <1>4, <1>6, <1>7, <1>8, <1>9 DEF Databases

\* The snapshot of one open database.
LEMMA OneInOrder ==
  ASSUME NEW c \in Nat, NEW o \in BOOLEAN, NEW mem \in Databases(c), NEW w, NEW q \in Seq(Sent(c, o)), InOrder(q, mem, w),
         NEW e \in Domain, mem[e] # None, Write(e, mem, w, None) \in Sent(c, o)
  PROVE  /\ InOrder(Append(q, Write(e, mem, w, None)), mem, w)
         /\ \A d \in Domain, n \in Nat : Above(q, mem, d, n) => Above(Append(q, Write(e, mem, w, None)), mem, d, n)
<1> DEFINE x == Write(e, mem, w, None)
           r == <<x>>
<1>1. x.domain = e /\ x.blob = Encrypted(mem[e], w)
  BY DEF Write
<1>2. Append(q, x) = q \o r
  BY AppendIsConcat
<1>3. r \in Seq(Sent(c, o)) /\ DOMAIN r = {1} /\ r[1] = x
  <2> HIDE DEF x
  <2> QED BY DEF x
<1>4. \A j \in DOMAIN r : mem[r[j].domain] # None /\ r[j].blob = Encrypted(mem[r[j].domain], w)
  <2> HIDE DEF x, r
  <2> QED BY <1>1, <1>3
<1> HIDE DEF x, r
<1>5. /\ InOrder(q \o r, mem, w)
      /\ \A d \in Domain, n \in Nat : Above(q, mem, d, n) => Above(q \o r, mem, d, n)
  BY <1>3, <1>4, AddedInOrder
<1> QED BY <1>2, <1>5 DEF x

\* The steps that open and close nothing: a version that none at the worker or in
\* memory is below stays so, and the snapshots stay in order.
Steady ==
  \/ \E e \in Domain : ChangeDebounced(e) \/ ChangeImmediate(e) \/ TimerFires(e)
  \/ SnapshotWritten
  \/ \E s \in stuck : RenameAgain(s)
  \/ \E t \in Task : (\E w \in Network \cup {None} : LeaveActive(t, w)) \/ Activated(t)
  \/ BeforeQuit

LEMMA SteadyInOrder ==
  ASSUME WorkspaceInv, ~overlapped, InOrder(queue, memory, base), Steady
  PROVE  /\ InOrder(queue', memory', base') /\ base' = base /\ Open' = Open
         /\ \A d \in Domain, n \in Nat : Bounded(d, n) => Bounded(d, n)'
<1> DEFINE Goal == /\ InOrder(queue', memory', base') /\ base' = base /\ Open' = Open
                   /\ \A d \in Domain, n \in Nat : Bounded(d, n) => Bounded(d, n)'
<1>0. /\ changes \in Nat /\ overlapped \in BOOLEAN /\ memory \in Databases(changes) /\ queue \in Seq(Sent(changes, overlapped))
  BY Limits DEF WorkspaceInv, Sealing, Binding, Rest, Databases
<1>1. ASSUME NEW e \in Domain, ChangeDebounced(e) \/ ChangeImmediate(e) PROVE Goal
  <2>1. /\ changes' = changes + 1
        /\ memory' \in Databases(changes + 1)
        /\ \A d \in Domain : /\ memory[d] # None => memory'[d] # None /\ memory[d].version <= memory'[d].version
                             /\ memory'[d] # None => memory[d] # None
        /\ memory'[e] # None /\ key = base /\ base' = base
    BY <1>1, ChangeFacts
  <2>2. /\ InOrder(queue, memory', base)
        /\ \A d \in Domain, n \in Nat : Above(queue, memory, d, n) => Above(queue, memory', d, n)
    BY <1>0, <2>1, ChangedInOrder
  <2>3. Open' = Open
    BY <2>1 DEF Open
  <2>4. CASE queue' = queue
    BY <2>1, <2>2, <2>3, <2>4 DEF Bounded
  <2>5. CASE queue' = Append(queue, Write(e, memory', key, None))
    <3>1. queue \in Seq(Sent(changes + 1, overlapped))
      <4>1. Sent(changes, overlapped) \subseteq Sent(changes + 1, overlapped)
        BY <1>0, MoreChanges
      <4> QED BY <1>0, <4>1
    <3>2. Write(e, memory', base, None) \in Sent(changes + 1, overlapped)
      <4>1. WorkspaceInv' /\ overlapped' = overlapped
        BY <1>1, WorkspaceStep DEF Next, ChangeDebounced, ChangeImmediate
      <4>2. memory'[e].of = base /\ memory'[e] \in Snap(changes + 1) /\ base \in Network
        BY <2>1, <4>1 DEF WorkspaceInv, Binding, BoundTo, Databases
      <4>3. Encrypted(memory'[e], base) \in Sealed(changes + 1, overlapped)
        BY <1>0, <4>2, EncryptedSealed
      <4> QED BY <4>3 DEF Write, Sent
    <3>3. changes + 1 \in Nat
      BY <1>0
    <3>4. /\ InOrder(queue', memory', base)
          /\ \A d \in Domain, n \in Nat : Above(queue, memory', d, n) => Above(queue', memory', d, n)
      BY <1>0, <2>1, <2>2, <2>5, <3>1, <3>2, <3>3, OneInOrder
    <3> QED BY <2>1, <2>2, <2>3, <3>4 DEF Bounded
  <2> QED BY <1>1, <2>4, <2>5 DEF ChangeDebounced, ChangeImmediate
<1>2. ASSUME NEW e \in Domain, TimerFires(e) PROVE Goal
  <2>1. /\ queue' = IF e \in dirty /\ e \in Open THEN Append(queue, Write(e, memory, key, None)) ELSE queue
        /\ UNCHANGED <<memory, base>>
    BY <1>2 DEF TimerFires
  <2>2. Open' = Open
    BY <2>1 DEF Open
  <2>3. CASE queue' = queue
    BY <2>1, <2>2, <2>3 DEF Bounded
  <2>4. CASE e \in Open /\ queue' = Append(queue, Write(e, memory, key, None))
    <3>1. /\ memory[e] # None /\ key = base /\ memory[e].of = base /\ memory[e] \in Snap(changes)
          /\ base \in Network
      BY <2>4 DEF WorkspaceInv, Binding, BoundTo, Open
    <3>2. Write(e, memory, base, None) \in Sent(changes, overlapped)
      <4>1. Encrypted(memory[e], base) \in Sealed(changes, overlapped)
        BY <1>0, <3>1, EncryptedSealed
      <4> QED BY <4>1 DEF Write, Sent
    <3>3. /\ InOrder(queue', memory, base)
          /\ \A d \in Domain, n \in Nat : Above(queue, memory, d, n) => Above(queue', memory, d, n)
      BY <1>0, <2>4, <3>1, <3>2, OneInOrder
    <3> QED BY <2>1, <2>2, <3>3 DEF Bounded
  <2> QED BY <2>1, <2>3, <2>4
<1>3. ASSUME SnapshotWritten PROVE Goal
  <2>1. queue # <<>> /\ queue' = RemoveAt(queue, 1) /\ UNCHANGED <<memory, base>>
    BY <1>3 DEF SnapshotWritten, MayWrite, Answered
  <2>2. Open' = Open
    BY <2>1 DEF Open
  <2>3. /\ InOrder(queue', memory, base)
        /\ \A d \in Domain, n \in Nat : Above(queue, memory, d, n) => Above(queue', memory, d, n)
    BY <1>0, <2>1, FirstInOrder
  <2> QED BY <2>1, <2>2, <2>3 DEF Bounded
<1>4. ASSUME NEW t \in Task, NEW w \in Network \cup {None}, LeaveActive(t, w) PROVE Goal
  <2>1. queue' = queue \o WriteAll(memory, key, t) /\ UNCHANGED <<memory, base>>
    BY <1>4 DEF LeaveActive
  <2>2. Open' = Open
    BY <2>1 DEF Open
  <2>3. key = base /\ base \in Network /\ BoundTo(memory, base, base, overlapped)
    <3>1. session = base /\ Open = Domain /\ base \in Network
      BY <1>4 DEF LeaveActive, WorkspaceInv, Binding, Single
    <3>2. 1 \in Open
      BY <3>1, LimitAssumption DEF Domain
    <3> QED BY <3>1, <3>2 DEF WorkspaceInv, Binding, BoundTo, Open
  <2>4. WriteAll(memory, base, t) \in Seq(Sent(changes, overlapped))
    BY <1>0, <2>3, WriteAllType DEF Databases
  <2>5. /\ InOrder(queue', memory, base)
        /\ \A d \in Domain, n \in Nat : Above(queue, memory, d, n) => Above(queue', memory, d, n)
    <3> DEFINE r == WriteAll(memory, base, t)
    <3>1. \A j \in DOMAIN r : memory[r[j].domain] # None /\ r[j].blob = Encrypted(memory[r[j].domain], base)
      BY WriteAllElements
    <3>2. r \in Seq(Sent(changes, overlapped)) /\ queue' = queue \o r
      BY <2>1, <2>3, <2>4
    <3> HIDE DEF r
    <3> QED BY <1>0, <3>1, <3>2, AddedInOrder
  <2> QED BY <2>1, <2>2, <2>5 DEF Bounded
<1>5. CASE UNCHANGED <<queue, memory, base>>
  BY <1>5 DEF Open, Bounded
<1>6. CASE (\E s \in stuck : RenameAgain(s)) \/ (\E t \in Task : Activated(t)) \/ BeforeQuit
  BY <1>5, <1>6 DEF RenameAgain, Activated, BeforeQuit
<1> QED BY <1>1, <1>2, <1>3, <1>4, <1>6 DEF Steady

\* The opener reads nothing but the files: what is open afterwards is what it loaded, and
\* nothing at the worker is older.
LEMMA OpenedFrom ==
  ASSUME changes \in Nat, task \in Calls, NEW t \in Task, Alone(t), NEW w \in Network,
         NEW loaded \in Databases(changes), \A d \in Domain : loaded[d] # None => loaded[d].of = w,
         NEW before, \A d \in Domain : before[d] = None,
         OpenInto(t, w, loaded, before, <<>>)
  PROVE  /\ base' = w /\ InOrder(queue', memory', w)
         /\ \A u \in Task : task'[u].stage = "saving" => task'[u].target = None
         /\ \A d \in Domain : memory'[d] # None =>
               /\ memory'[d] = loaded[d]
               /\ \A n \in Nat : n <= memory'[d].version => Bounded(d, n)'
<1> DEFINE failed == {d \in Domain : loaded[d] = None}
           mem    == [d \in Domain |-> IF \A e \in failed : d < e THEN loaded[d] ELSE before[d]]
<1>1. /\ base' = w /\ key' = w /\ memory' = mem
      /\ queue' = <<>> \o WriteAll(mem, w, t)
      /\ task' = [task EXCEPT ![t] = IF failed = {} THEN [stage |-> "seeding", target |-> w]
                                     ELSE [stage |-> "saving", target |-> None]]
  BY DEF OpenInto
<1>2. mem \in Databases(changes) /\ BoundTo(mem, w, w, FALSE)
  BY DEF BoundTo, Databases
<1>3. \A d \in Domain : mem[d] # None => mem[d] = loaded[d]
  OBVIOUS
<1>4. ASSUME NEW u \in Task, task'[u].stage = "saving" PROVE task'[u].target = None
  <2>1. u = t
    BY <1>1, <1>4 DEF Alone, Idle, Calls
  <2> QED BY <1>1, <1>4, <2>1 DEF Calls
<1> HIDE DEF failed, mem
<1>5. /\ InOrder(queue', mem, w)
      /\ \A d \in Domain, n \in Nat : mem[d] # None /\ n <= mem[d].version => Above(queue', mem, d, n)
  BY <1>1, <1>2, OpenedInOrder
<1> QED BY <1>1, <1>3, <1>4, <1>5 DEF Bounded

\* Nothing open, nothing at the worker.
LEMMA NothingSent ==
  ASSUME WorkspaceInv, InOrder(queue, memory, base), Open = {}
  PROVE  queue = <<>>
<1>1. queue \in Seq(Sent(changes, overlapped)) /\ changes \in Nat /\ overlapped \in BOOLEAN
  BY Limits DEF WorkspaceInv, Sealing, Rest
<1>2. Len(queue) \in Nat /\ DOMAIN queue = 1..Len(queue) /\ \A i \in DOMAIN queue : queue[i].domain \in Domain
  BY <1>1, QueueElements
<1>3. DOMAIN queue = {}
  BY <1>2 DEF InOrder, Open
<1>4. Len(queue) = 0
  BY <1>2, <1>3
<1> QED BY <1>1, <1>4, EmptySeq


LEMMA ActivationFacts ==
  ASSUME WorkspaceInv, ~overlapped, ~overlapped', InOrder(queue, memory, base),
         NEW t \in Task, NEW w \in Network, ActivateClosed(t, w)
  PROVE  /\ Open = {} /\ base' = w /\ InOrder(queue', memory', base')
         /\ \A u \in Task : task'[u].stage = "saving" => task'[u].target = None
         /\ \A d \in Domain : memory'[d] # None =>
               /\ memory'[d] = Loaded(archive[w][d], w)
               /\ \A n \in Nat : n <= memory'[d].version => Bounded(d, n)'
         /\ UNCHANGED <<archive, stuck, quitting>>
<1> DEFINE loaded == [d \in Domain |-> Loaded(archive[w][d], w)]
<1>1. changes \in Nat /\ task \in Calls /\ overlapped \in BOOLEAN
  BY Limits DEF WorkspaceInv, Rest, Calls
<1>7. session = None /\ (\A u \in Task : task[u] = Idle) /\ Single
  <2>1. Binding /\ overlapped \in BOOLEAN /\ switches \in 0..MaxSwitch
    BY DEF WorkspaceInv, Rest
  <2>2. task[t] = Idle /\ switches < MaxSwitch /\ Begins(t) /\ session = None
    BY DEF ActivateClosed
  <2> QED BY <2>1, <2>2, BeginsAlone
<1>8. Alone(t)
  BY <1>7 DEF Alone
<1>2. Open = {} /\ \A d \in Domain : memory[d] = None
  BY <1>7 DEF Single, Open
<1>3. queue = <<>>
  BY <1>2, NothingSent
<1>4. OpenInto(t, w, loaded, memory, <<>>) /\ UNCHANGED <<archive, stuck, quitting>>
  BY <1>3 DEF ActivateClosed
<1>5. loaded \in Databases(changes) /\ \A d \in Domain : loaded[d] # None => loaded[d].of = w
  BY <1>1, LoadedOfOwner DEF WorkspaceInv, Sealing, Shelves, Databases
<1>6. \A d \in Domain : loaded[d] = Loaded(archive[w][d], w)
  OBVIOUS
<1> HIDE DEF loaded
<1> QED BY <1>1, <1>2, <1>4, <1>5, <1>6, <1>8, OpenedFrom

LEMMA SwitchFacts ==
  ASSUME WorkspaceInv, ~overlapped, NEW t \in Task, CloseAndOpen(t)
  PROVE  /\ task[t].stage = "saving" /\ task[t].target \in Network
         /\ base' = task[t].target /\ InOrder(queue', memory', base')
         /\ \A u \in Task : task'[u].stage = "saving" => task'[u].target = None
         /\ archive' = Landed(Flushed(archive), base')
         /\ \A d \in Domain : memory'[d] # None =>
               /\ memory'[d] = Loaded(IF d = 1 THEN Flushed(archive)[base'][d] ELSE archive'[base'][d], base')
               /\ \A n \in Nat : n <= memory'[d].version => Bounded(d, n)'
         /\ UNCHANGED <<stuck, quitting>>
<1> DEFINE w       == task[t].target
           flushed == Flushed(archive)
           landed  == Landed(flushed, w)
           loaded  == [d \in Domain |-> Loaded(IF d = 1 THEN flushed[w][d] ELSE landed[w][d], w)]
<1>1. changes \in Nat /\ task \in Calls /\ overlapped \in BOOLEAN
  BY Limits DEF WorkspaceInv, Rest, Calls
<1>2. /\ task[t].stage = "saving" /\ w # None /\ archive' = landed /\ OpenInto(t, w, loaded, Closed, <<>>)
      /\ UNCHANGED <<stuck, quitting>>
  BY DEF CloseAndOpen
<1>3. w \in Network
  BY <1>1, <1>2 DEF Calls
<1>4. flushed \in Shelves(changes, overlapped) /\ landed \in Shelves(changes, overlapped)
  <2>1. flushed \in Shelves(changes, overlapped)
    BY <1>1, FlushedSealed DEF WorkspaceInv
  <2> HIDE DEF flushed
  <2> QED BY <1>1, <1>3, <2>1, LandedSealed DEF WorkspaceInv
<1>6. \A d \in Domain : loaded[d] = Loaded(IF d = 1 THEN flushed[w][d] ELSE landed[w][d], w)
  OBVIOUS
<1> HIDE DEF w, flushed, landed
<1>5. loaded \in Databases(changes) /\ \A d \in Domain : loaded[d] # None => loaded[d].of = w
  <2>1. \A d \in Domain : flushed[w][d] \in Shelf(changes, overlapped) /\ landed[w][d] \in Shelf(changes, overlapped)
    BY <1>3, <1>4 DEF Shelves
  <2> QED BY <1>1, <1>3, <2>1, LoadedOfOwner DEF Databases
<1>7. \A d \in Domain : Closed[d] = None
  BY DEF Closed
<1>9. Alone(t)
  BY <1>2 DEF WorkspaceInv, Binding, Single, Idle
<1> HIDE DEF loaded
<1>8. /\ base' = w /\ InOrder(queue', memory', w)
      /\ \A u \in Task : task'[u].stage = "saving" => task'[u].target = None
      /\ \A d \in Domain : memory'[d] # None =>
            /\ memory'[d] = loaded[d]
            /\ \A n \in Nat : n <= memory'[d].version => Bounded(d, n)'
  BY <1>1, <1>2, <1>3, <1>5, <1>7, <1>9, OpenedFrom
<1> QED BY <1>2, <1>3, <1>6, <1>8 DEF w, flushed, landed

\* Calls that overlapped are not forgotten.
LEMMA OverlapStays == ASSUME WorkspaceInv, [Next]_vars, ~overlapped' PROVE ~overlapped
BY DEF Next, vars, bound, ChangeDebounced, ChangeImmediate, TimerFires, SnapshotWritten, RenameAgain,
       ActivateClosed, LeaveActive, Begins, CloseAll, CloseAndOpen, Activated, BeforeQuit, Stop

LEMMA QueueStep ==
  ASSUME WorkspaceInv, ~overlapped, QueueInv, [Next]_vars, ~overlapped'
  PROVE  QueueInv'
<1>0. InOrder(queue, memory, base) /\ task \in Calls /\ Single
  BY DEF QueueInv, WorkspaceInv, Rest, Calls, Binding
<1>1. ASSUME Steady PROVE QueueInv'
  <2>1. InOrder(queue', memory', base') /\ base' = base
    BY <1>0, <1>1, SteadyInOrder
  <2>2. ASSUME NEW u \in Task, task'[u].stage = "saving", task'[u].target # None
        PROVE  task'[u].target # base
    <3>1. CASE task'[u] = task[u]
      BY <2>2, <3>1 DEF QueueInv
    <3>2. ASSUME NEW t \in Task, NEW w \in Network \cup {None}, LeaveActive(t, w)
          PROVE  task'[u].target # base
      <4>1. session \notin {None, w} /\ session = base /\ task' = [task EXCEPT ![t] = [stage |-> "saving", target |-> w]]
        BY <1>0, <3>2 DEF LeaveActive, Single
      <4>2. CASE u = t
        BY <1>0, <4>1, <4>2 DEF Calls
      <4>3. CASE u # t
        BY <1>0, <3>1, <4>1, <4>3 DEF Calls
      <4> QED BY <4>2, <4>3
    <3>3. ASSUME NEW t \in Task, Activated(t) PROVE task'[u].target # base
      <4>1. task' = [task EXCEPT ![t] = Idle]
        BY <3>3 DEF Activated
      <4> QED BY <1>0, <2>2, <3>1, <4>1 DEF Calls, Idle
    <3>4. CASE UNCHANGED task
      BY <3>1, <3>4
    <3> QED BY <1>1, <3>2, <3>3, <3>4 DEF Steady, ChangeDebounced, ChangeImmediate, TimerFires,
               SnapshotWritten, RenameAgain, BeforeQuit
  <2> QED BY <2>1, <2>2 DEF QueueInv
<1>2. ASSUME NEW t \in Task, NEW w \in Network, ActivateClosed(t, w) PROVE QueueInv'
  BY <1>0, <1>2, ActivationFacts DEF QueueInv
<1>3. ASSUME NEW t \in Task, CloseAndOpen(t) PROVE QueueInv'
  BY <1>3, SwitchFacts DEF QueueInv
<1>4. ASSUME queue' = <<>>, \A u \in Task : task'[u] = Idle PROVE QueueInv'
  BY <1>4 DEF QueueInv, InOrder, Idle
<1>5. ASSUME NEW t \in Task, CloseAll(t) PROVE QueueInv'
  <2>1. queue' = <<>> /\ \A u \in Task : task'[u] = Idle
    <3>1. task' = [task EXCEPT ![t] = Idle] /\ task[t].stage # "idle" /\ queue' = <<>>
      BY <1>5 DEF CloseAll
    <3> QED BY <1>0, <3>1, EndsAlone
  <2> QED BY <1>4, <2>1
<1>6. ASSUME Stop PROVE QueueInv'
  BY <1>4, <1>6 DEF Stop
<1>7. CASE UNCHANGED vars
  BY <1>7 DEF vars, QueueInv, InOrder
<1> QED BY <1>1, <1>2, <1>3, <1>5, <1>6, <1>7 DEF Next, Steady

-----------------------------------------------------------------------------
(***************************************************************************)
(* What the writes make of the files of a domain.                          *)
(***************************************************************************)
Copy(f) == IF f.copy = None THEN f.enc ELSE f.copy

LEMMA CopiedFile ==
  ASSUME NEW c \in Nat, NEW o \in BOOLEAN, NEW f \in Shelf(c, o)
  PROVE  /\ Copied(f).enc = f.enc /\ Copied(f).tmp = f.tmp /\ Copied(f).newer = f.newer
         /\ Copied(f).copy = Copy(f) /\ Source(Copied(f)) = Source(f)
BY DEF Copied, Copy, Source, Shelf

LEMMA RenamedFile ==
  ASSUME NEW c \in Nat, NEW o \in BOOLEAN, NEW f \in Shelf(c, o)
  PROVE  /\ f.tmp = None => Renamed(f) = Copied(f)
         /\ f.tmp # None => LET g == Renamed(f) IN
              /\ g.enc = f.tmp /\ g.tmp = None /\ ~g.newer /\ Source(g) = f.tmp
              /\ g.copy = IF f.copy = None THEN f.tmp ELSE f.copy
<1> DEFINE g == [f EXCEPT !.enc = f.tmp, !.tmp = None, !.newer = FALSE]
<1>1. g \in Shelf(c, o) /\ g.enc = f.tmp /\ g.tmp = None /\ ~g.newer /\ g.copy = f.copy
  BY DEF Shelf
<1>2. Renamed(f) = IF f.tmp = None THEN Copied(f) ELSE Copied(g)
  BY DEF Renamed
<1> HIDE DEF g
<1> QED BY <1>1, <1>2, CopiedFile DEF Copy, Source

\* A snapshot that arrives is the file that will be loaded, however the renaming goes.
LEMMA ArrivedFile ==
  ASSUME NEW c \in Nat, NEW o \in BOOLEAN, NEW f \in Shelf(c, o), NEW b \in Sealed(c, o)
  PROVE  LET r == Renamed(WithTmp(f, b)) IN
         /\ \A g \in {r, WithTmp(f, b), Copied(WithTmp(f, b))} : Source(g) = b /\ g.tmp \in {None, b}
         /\ r.enc = b /\ r.tmp = None /\ ~r.newer /\ b # None
         /\ r.copy = IF f.copy = None THEN b ELSE f.copy
         /\ r \in Shelf(c, o)
<1> DEFINE g == WithTmp(f, b)
<1>1. /\ g \in Shelf(c, o) /\ g.tmp = b /\ g.newer /\ g.copy = f.copy /\ b # None /\ Source(g) = b
  <2>1. g \in Shelf(c, o)
    BY ShelfWrites
  <2>2. b # None
    BY Versions
  <2>3. g.tmp = b /\ g.newer /\ g.copy = f.copy
    BY DEF WithTmp, Shelf
  <2> QED BY <2>1, <2>2, <2>3 DEF Source
<1> HIDE DEF g
<1>2. /\ Source(Copied(g)) = b /\ Copied(g).tmp = b
  BY <1>1, CopiedFile
<1>3. /\ Renamed(g).enc = b /\ Renamed(g).tmp = None /\ ~Renamed(g).newer /\ Source(Renamed(g)) = b
      /\ Renamed(g).copy = IF f.copy = None THEN b ELSE f.copy
  BY <1>1, RenamedFile
<1>4. Renamed(g) \in Shelf(c, o)
  BY <1>1, ShelfMoves
<1> QED BY <1>1, <1>2, <1>3, <1>4 DEF g

LEMMA FlushedFile ==
  ASSUME WorkspaceInv, NEW v \in Network, NEW d \in Domain
  PROVE  /\ ~(v = base /\ d \in Open) => Flushed(archive)[v][d] = archive[v][d]
         /\ v = base /\ d \in Open => LET g == Flushed(archive)[v][d] IN
              /\ g.enc = Encrypted(memory[d], v) /\ ~g.newer /\ Source(g) = g.enc /\ g.enc # None
              /\ g.tmp = archive[v][d].tmp /\ g.copy = archive[v][d].copy
              /\ Readable(g.enc, v) /\ g.enc.data = memory[d] /\ Loaded(g, v) = memory[d]
         /\ Flushed(archive)[v][d] \in Shelf(changes, overlapped)
<1>1. changes \in Nat /\ overlapped \in BOOLEAN /\ v # None
  BY Limits, NoneAssumption DEF WorkspaceInv, Rest
<1>2. archive \in Shelves(changes, overlapped) /\ archive[v][d] \in Shelf(changes, overlapped)
  BY DEF WorkspaceInv, Sealing, Shelves
<1>3. ~(v = base /\ d \in Open) => Flushed(archive)[v][d] = archive[v][d]
  BY <1>1, <1>2 DEF Flushed, Shelves
<1>4. ASSUME v = base, d \in Open
      PROVE  LET g == Flushed(archive)[v][d] IN
              /\ g.enc = Encrypted(memory[d], v) /\ ~g.newer /\ Source(g) = g.enc /\ g.enc # None
              /\ g.tmp = archive[v][d].tmp /\ g.copy = archive[v][d].copy
              /\ Readable(g.enc, v) /\ g.enc.data = memory[d] /\ Loaded(g, v) = memory[d]
  <2> DEFINE b == Encrypted(memory[d], key)
             g == Flushed(archive)[v][d]
  <2>1. b \in Sealed(changes, overlapped) /\ key = v
    BY <1>4, OpenFacts
  <2>2. b # None /\ b.key = v /\ b.data = memory[d]
    BY <1>1, <2>1, Versions DEF Encrypted
  <2>3. g = Overwritten(archive[v][d], b)
    BY <1>1, <1>2, <1>4 DEF Flushed, Shelves
  <2>6. b = Encrypted(memory[d], v)
    BY <2>1
  <2> HIDE DEF b, g
  <2>4. g.enc = b /\ ~g.newer /\ g.tmp = archive[v][d].tmp /\ g.copy = archive[v][d].copy
    BY <1>2, <2>3 DEF Overwritten, Shelf
  <2>5. Source(g) = b
    BY <2>4 DEF Source
  <2> QED BY <2>2, <2>4, <2>5, <2>6 DEF Readable, Loaded, g
<1>5. Flushed(archive)[v][d] \in Shelf(changes, overlapped)
  <2>1. Flushed(archive) \in Shelves(changes, overlapped)
    BY <1>1, FlushedSealed DEF WorkspaceInv
  <2> QED BY <2>1 DEF Shelves
<1> QED BY <1>3, <1>4, <1>5

\* What lands after the worker was closed: nothing, or the last snapshot of the domain,
\* and the first becomes the daily copy if there was none.
LEMMA LandedFile ==
  ASSUME changes \in Nat, overlapped \in BOOLEAN, queue \in Seq(Sent(changes, overlapped)),
         NEW a \in Shelves(changes, overlapped),
         NEW w \in Network, NEW v \in Network, NEW d \in Domain
  PROVE  LET f == a[v][d]
             g == Landed(a, w)[v][d]
         IN  \/ g = f
             \/ /\ v = w
                /\ \E i, j \in DOMAIN queue :
                     /\ queue[i].domain = d /\ queue[j].domain = d /\ i <= j
                     /\ g.enc = queue[j].blob /\ g.enc # None /\ g.tmp = None /\ ~g.newer /\ Source(g) = g.enc
                     /\ g.copy = IF f.copy = None THEN queue[i].blob ELSE f.copy
<1> DEFINE M == {i \in DOMAIN queue : queue[i].domain = d}
           W(f, i) == Renamed(WithTmp(f, queue[i].blob))
           f == a[v][d]
           g == Landed(a, w)[v][d]
<1>1. w # None
  BY NoneAssumption
<1>2. v # w => g = f
  BY <1>1 DEF Landed, Shelves
<1>3. v = w => g = IF M = {} THEN f ELSE W(W(f, Min(M)), Max(M))
  BY <1>1 DEF Landed, Shelves
<1>4. ASSUME M # {} PROVE Min(M) \in M /\ Max(M) \in M /\ Min(M) <= Max(M)
  <2>1. M \in SUBSET (1..Len(queue)) /\ Len(queue) \in Nat /\ M # {}
    BY <1>4, QueueElements
  <2> HIDE DEF M
  <2>2. \E x \in M : \A y \in M : x <= y
    BY <2>1, MinExists
  <2>3. \E x \in M : \A y \in M : y <= x
    BY <2>1, MaxExists
  <2>4. \E x \in M : \A y \in M : x >= y
    BY <2>1, <2>3
  <2>5. Min(M) \in M /\ \A y \in M : Min(M) <= y
    BY <2>2 DEF Min
  <2>6. Max(M) \in M
    BY <2>4 DEF Max
  <2> QED BY <2>5, <2>6
<1>5. f \in Shelf(changes, overlapped)
  BY DEF Shelves
<1>6. ASSUME v = w, M # {}
      PROVE \E i, j \in DOMAIN queue :
                     /\ queue[i].domain = d /\ queue[j].domain = d /\ i <= j
                     /\ g.enc = queue[j].blob /\ g.enc # None /\ g.tmp = None /\ ~g.newer /\ Source(g) = g.enc
                     /\ g.copy = IF f.copy = None THEN queue[i].blob ELSE f.copy
  <2> DEFINE i == Min(M)
             j == Max(M)
             h == W(f, i)
  <2>1. i \in DOMAIN queue /\ j \in DOMAIN queue /\ i <= j /\ queue[i].domain = d /\ queue[j].domain = d
    BY <1>4, <1>6
  <2>2. g = W(h, j)
    BY <1>3, <1>6
  <2> HIDE DEF i, j, f, g, M
  <2>3. queue[i].blob \in Sealed(changes, overlapped) /\ queue[j].blob \in Sealed(changes, overlapped)
    BY <2>1, QueueElements, Versions
  <2>4. h \in Shelf(changes, overlapped) /\ h.copy = IF f.copy = None THEN queue[i].blob ELSE f.copy
    BY <1>5, <2>3, ArrivedFile
  <2>5. queue[i].blob # None
    BY <2>3, Versions
  <2> HIDE DEF h
  <2>6. /\ g.enc = queue[j].blob /\ g.tmp = None /\ ~g.newer /\ Source(g) = queue[j].blob /\ queue[j].blob # None
        /\ g.copy = IF h.copy = None THEN queue[j].blob ELSE h.copy
    BY <2>2, <2>3, <2>4, ArrivedFile
  <2> QED BY <2>1, <2>4, <2>5, <2>6
<1> QED BY <1>2, <1>3, <1>6

-----------------------------------------------------------------------------
(***************************************************************************)
(* No write goes back.  The file that would be loaded for an open domain,  *)
(* and a .tmp whose renaming is still tried, are no newer than what comes  *)
(* after them (Bounded).  A .tmp left behind in the directory of another   *)
(* network is no newer than what that network would load.                  *)
(***************************************************************************)
Retried(w, d) == \E s \in stuck : s.dir = w /\ s.domain = d

FileForward(w, d) ==
  LET f == archive[w][d]
  IN  IF w = base /\ d \in Open
      THEN /\ Readable(Source(f), w) => Bounded(d, Source(f).data.version)
           /\ Retried(w, d) /\ Readable(f.tmp, w) => Bounded(d, f.tmp.data.version)
      ELSE Retried(w, d) /\ Readable(f.tmp, w) /\ Loaded(f, w) # None
             => f.tmp.data.version <= Loaded(f, w).version

FilesForward == quitting \/ \A w \in Network, d \in Domain : FileForward(w, d)

LEMMA ReadableFile ==
  ASSUME NEW c \in Nat, NEW o \in BOOLEAN, NEW f \in Shelf(c, o), NEW w
  PROVE  /\ Readable(Source(f), w) => Source(f).data.version \in Nat /\ Loaded(f, w) = Source(f).data
         /\ Readable(f.tmp, w) => f.tmp.data.version \in Nat
         /\ Readable(f.copy, w) => f.copy.data.version \in Nat
<1>1. Source(f) \in Sealed(c, o) \cup {None} /\ f.tmp \in Sealed(c, o) \cup {None} /\ f.copy \in Sealed(c, o) \cup {None}
  BY DEF Shelf, Source
<1>2. \A b \in Sealed(c, o) \cup {None} : Readable(b, w) => b.data.version \in Nat
  BY Versions DEF Readable
<1>3. Readable(Source(f), w) => Loaded(f, w) = Source(f).data
  BY DEF Loaded, Readable
<1> QED BY <1>1, <1>2, <1>3

LEMMA FilesForwardStep ==
  ASSUME WorkspaceInv, ~overlapped, QueueInv, FilesForward, [Next]_vars, ~overlapped'
  PROVE  FilesForward'
<1> SUFFICES ASSUME ~quitting', NEW w \in Network, NEW d \in Domain PROVE FileForward(w, d)'
  BY DEF FilesForward
<1> DEFINE f == archive[w][d]
           g == archive'[w][d]
           After(n) == Above(queue', memory', d, n)
<1>0. /\ InOrder(queue, memory, base) /\ changes \in Nat /\ overlapped \in BOOLEAN /\ queue \in Seq(Sent(changes, overlapped))
      /\ archive \in Shelves(changes, overlapped) /\ f \in Shelf(changes, overlapped)
  BY Limits DEF QueueInv, WorkspaceInv, Rest, Sealing, Shelves
<1>r. \A x, v : \A n \in Nat : Bounded(x, n) /\ memory[x] # None => n <= memory[x].version
  BY DEF Bounded, Above
<1>g. FileForward(w, d)' <=>
        IF w = base' /\ d \in Open'
        THEN /\ Readable(Source(g), w) => After(Source(g).data.version)
             /\ Retried(w, d)' /\ Readable(g.tmp, w) => After(g.tmp.data.version)
        ELSE Retried(w, d)' /\ Readable(g.tmp, w) /\ Loaded(g, w) # None
               => g.tmp.data.version <= Loaded(g, w).version
  BY DEF FileForward, Bounded
<1>h. \A n : Bounded(d, n)' <=> After(n)
  BY DEF Bounded
<1> HIDE DEF After
<1>f. ~quitting => FileForward(w, d)
  BY DEF FilesForward
\* Steps that leave the file alone and refuse no rename.
<1>1. ASSUME Steady, ~quitting, g = f, Retried(w, d)' => Retried(w, d) PROVE FileForward(w, d)'
  <2>1. base' = base /\ Open' = Open /\ \A n \in Nat : Bounded(d, n) => After(n)
    BY <1>h, <1>0, <1>1, SteadyInOrder
  <2>2. FileForward(w, d)
    BY <1>f, <1>1
  <2>3. /\ Readable(Source(f), w) => Source(f).data.version \in Nat
        /\ Readable(f.tmp, w) => f.tmp.data.version \in Nat
    BY <1>0, ReadableFile
  <2> HIDE DEF f, g
  <2>4. CASE w = base /\ d \in Open
    <3>1. /\ Readable(Source(f), w) => Bounded(d, Source(f).data.version)
          /\ Retried(w, d) /\ Readable(f.tmp, w) => Bounded(d, f.tmp.data.version)
      BY <2>2, <2>4 DEF FileForward, f
    <3>2. /\ Readable(Source(g), w) => After(Source(g).data.version)
          /\ Retried(w, d)' /\ Readable(g.tmp, w) => After(g.tmp.data.version)
      BY <1>1, <2>1, <2>3, <3>1
    <3> QED BY <1>g, <2>1, <2>4, <3>2
  <2>5. CASE ~(w = base /\ d \in Open)
    <3>1. Retried(w, d) /\ Readable(f.tmp, w) /\ Loaded(f, w) # None
             => f.tmp.data.version <= Loaded(f, w).version
      BY <2>2, <2>5 DEF FileForward, f
    <3>2. Retried(w, d)' /\ Readable(g.tmp, w) /\ Loaded(g, w) # None
             => g.tmp.data.version <= Loaded(g, w).version
      BY <1>1, <3>1
    <3> QED BY <1>g, <2>1, <2>5, <3>2
  <2> QED BY <2>4, <2>5
<1>2. ASSUME Steady, UNCHANGED <<archive, stuck, quitting>> PROVE FileForward(w, d)'
  BY <1>1, <1>2 DEF Retried
<1>3. ASSUME SnapshotWritten PROVE FileForward(w, d)'
  <2> DEFINE h == queue[1]
             a == archive[base][h.domain]
  <2>1. /\ queue # <<>> /\ base # None /\ queue' = RemoveAt(queue, 1)
        /\ \E x \in {Renamed(WithTmp(a, h.blob)), WithTmp(a, h.blob), Copied(WithTmp(a, h.blob))} :
              archive' = [archive EXCEPT ![base][h.domain] = x]
        /\ \A s \in stuck' : s \in stuck \/ (s.dir = base /\ s.domain = h.domain)
        /\ UNCHANGED <<memory, base, quitting>>
    BY <1>3 DEF SnapshotWritten, MayWrite, Answered
  <2>2. 1 \in DOMAIN queue /\ h \in Sent(changes, overlapped) /\ h.domain \in Domain /\ h.blob \in Sealed(changes, overlapped)
    <3>1. 1 \in DOMAIN queue
      BY <1>0, <2>1, FirstRemoved
    <3>2. h \in Sent(changes, overlapped)
      BY <1>0, <3>1, QueueElements
    <3> HIDE DEF h
    <3>3. h.domain \in Domain /\ h.blob \in Sealed(changes, overlapped)
      BY <3>2 DEF Sent
    <3> QED BY <3>1, <3>2, <3>3
  <2>3. h.blob.key = base /\ memory[h.domain] # None /\ base \in Network
    <3>1. h.blob.key = base /\ memory[h.domain] # None
      BY <1>0, <2>2 DEF InOrder
    <3> QED BY <2>1, <2>2, <3>1 DEF Sealed
  <2>4. CASE ~(w = base /\ d = h.domain)
    <3>1. g = f /\ (Retried(w, d)' => Retried(w, d))
      <4> HIDE DEF h, a
      <4> QED BY <1>0, <2>1, <2>2, <2>3, <2>4 DEF Shelves, Retried
    <3> QED BY <1>1, <1>3, <2>1, <3>1 DEF Steady
  <2>5. CASE w = base /\ d = h.domain
    <3>1. Source(g) = h.blob /\ g.tmp \in {None, h.blob}
      <4>1. a \in Shelf(changes, overlapped)
        BY <1>0, <2>2, <2>3 DEF Shelves
      <4> HIDE DEF h, a
      <4>2. \A x \in {Renamed(WithTmp(a, h.blob)), WithTmp(a, h.blob), Copied(WithTmp(a, h.blob))} :
               Source(x) = h.blob /\ x.tmp \in {None, h.blob}
        BY <1>0, <2>2, <4>1, ArrivedFile
      <4>3. PICK x \in {Renamed(WithTmp(a, h.blob)), WithTmp(a, h.blob), Copied(WithTmp(a, h.blob))} :
               archive' = [archive EXCEPT ![base][h.domain] = x]
        BY <2>1
      <4>4. g = x
        BY <1>0, <2>2, <2>3, <2>5, <4>3 DEF Shelves
      <4> QED BY <4>2, <4>4
    <3>2. After(h.blob.data.version)
      <4>1. Above(RemoveAt(queue, 1), memory, h.domain, Version(h))
        <5>1. memory \in Databases(changes)
          BY DEF WorkspaceInv, Binding, Databases
        <5> QED BY <1>0, <2>1, <5>1, FirstInOrder
      <4> QED BY <2>1, <2>5, <4>1 DEF After, Version
    <3>3. d \in Open'
      BY <2>1, <2>3, <2>5 DEF Open
    <3> HIDE DEF h, a, f, g
    <3>4. /\ Readable(Source(g), w) => After(Source(g).data.version)
          /\ Readable(g.tmp, w) => After(g.tmp.data.version)
      BY <3>1, <3>2 DEF Readable
    <3> QED BY <1>g, <2>1, <2>5, <3>3, <3>4
  <2> QED BY <2>4, <2>5
<1>4. ASSUME NEW s \in stuck, RenameAgain(s) PROVE FileForward(w, d)'
  <2>1. /\ \/ archive' = [archive EXCEPT ![s.dir][s.domain] = Renamed(@)]
           \/ archive' = [archive EXCEPT ![s.dir][s.domain] = Copied(@)]
        /\ stuck' \subseteq stuck
        /\ UNCHANGED <<memory, base, queue, quitting>>
    BY <1>4 DEF RenameAgain
  <2>2. s.dir \in Network /\ s.domain \in Domain
    BY DEF WorkspaceInv, Rest
  <2>3. Steady /\ (Retried(w, d)' => Retried(w, d))
    BY <1>4, <2>1 DEF Steady, Retried
  <2>4. CASE ~(w = s.dir /\ d = s.domain)
    <3>1. g = f
      BY <1>0, <2>1, <2>2, <2>4 DEF Shelves
    <3> QED BY <1>1, <2>1, <2>3, <3>1
  <2>5. CASE w = s.dir /\ d = s.domain
    <3>1. g \in {Renamed(f), Copied(f)} /\ Retried(w, d)
      BY <1>0, <2>1, <2>2, <2>5 DEF Shelves, Retried
    <3>2. FileForward(w, d)
      BY <1>f, <2>1
    <3>3. /\ Readable(Source(f), w) => Source(f).data.version \in Nat
          /\ Readable(f.tmp, w) => f.tmp.data.version \in Nat
      BY <1>0, ReadableFile
    <3>4. \A n \in Nat : Bounded(d, n) => After(n)
      BY <1>h, <1>0, <2>3, SteadyInOrder
    <3>5. base' = base /\ Open' = Open
      BY <2>1 DEF Open
    <3>6. f.copy \in Sealed(changes, overlapped) \cup {None}
      BY <1>0 DEF Shelf
    <3> HIDE DEF f, g
    <3>7. CASE g.tmp = f.tmp /\ Source(g) = Source(f) /\ g.copy = Copy(f)
      <4>1. CASE w = base /\ d \in Open
        <5>1. /\ Readable(Source(g), w) => After(Source(g).data.version)
              /\ Readable(g.tmp, w) => After(g.tmp.data.version)
          BY <3>1, <3>2, <3>3, <3>4, <3>7, <4>1 DEF FileForward, f
        <5> QED BY <1>g, <3>5, <4>1, <5>1
      <4>2. CASE ~(w = base /\ d \in Open)
        <5>1. Readable(f.tmp, w) /\ Loaded(f, w) # None => f.tmp.data.version <= Loaded(f, w).version
          BY <3>1, <3>2, <4>2 DEF FileForward, f
        <5>2. ASSUME Readable(g.tmp, w), Loaded(g, w) # None
              PROVE  Loaded(g, w) = Loaded(f, w)
          <6>1. CASE f.copy # None \/ Source(f) = None \/ Readable(Source(f), w)
            BY <3>7, <6>1 DEF Loaded, Copy
          <6>2. CASE f.copy = None /\ Source(f) # None /\ ~Readable(Source(f), w)
            BY <3>7, <5>2, <6>2 DEF Loaded, Copy, Source
          <6> QED BY <6>1, <6>2
        <5> QED BY <1>g, <3>5, <3>7, <4>2, <5>1, <5>2
      <4> QED BY <4>1, <4>2
    <3>8. CASE f.tmp # None /\ g.tmp = None /\ Source(g) = f.tmp
      <4>1. ~Readable(g.tmp, w)
        BY <3>8 DEF Readable
      <4>2. CASE w = base /\ d \in Open
        <5>1. Readable(Source(g), w) => After(Source(g).data.version)
          BY <3>1, <3>2, <3>3, <3>4, <3>8, <4>2 DEF FileForward, f
        <5> QED BY <1>g, <3>5, <4>1, <4>2, <5>1
      <4>3. CASE ~(w = base /\ d \in Open)
        BY <1>g, <3>5, <4>1, <4>3
      <4> QED BY <4>2, <4>3
    <3> QED
      <4>1. f \in Shelf(changes, overlapped)
        BY <1>0
      <4> QED BY <1>0, <3>1, <3>7, <3>8, <4>1, CopiedFile, RenamedFile
  <2> QED BY <2>4, <2>5
\* Openings.
<1>5. ASSUME NEW t \in Task, NEW v \in Network, ActivateClosed(t, v) PROVE FileForward(w, d)'
  <2>1. /\ Open = {} /\ base' = v
        /\ memory'[d] # None => /\ memory'[d] = Loaded(archive[v][d], v)
                                /\ \A n \in Nat : n <= memory'[d].version => After(n)
        /\ UNCHANGED <<archive, stuck, quitting>>
    BY <1>h, <1>0, <1>5, ActivationFacts
  <2>2. FileForward(w, d)
    BY <1>f, <2>1
  <2>3. Retried(w, d) /\ Readable(f.tmp, w) /\ Loaded(f, w) # None
             => f.tmp.data.version <= Loaded(f, w).version
    BY <2>1, <2>2 DEF FileForward
  <2>4. Retried(w, d)' = Retried(w, d) /\ g = f
    BY <2>1 DEF Retried
  <2>5. /\ Readable(Source(f), w) => Source(f).data.version \in Nat /\ Loaded(f, w) = Source(f).data
        /\ Readable(f.tmp, w) => f.tmp.data.version \in Nat
    BY <1>0, ReadableFile
  <2>6. w = v /\ memory'[d] # None => memory'[d] = Loaded(f, w)
    BY <2>1
  <2> HIDE DEF f, g
  <2>7. CASE w = v /\ memory'[d] # None
    <3>1. Readable(Source(g), w) => After(Source(g).data.version)
      BY <2>1, <2>4, <2>5, <2>6, <2>7
    <3>2. Retried(w, d)' /\ Readable(g.tmp, w) => After(g.tmp.data.version)
      BY <2>1, <2>3, <2>4, <2>5, <2>6, <2>7
    <3> QED BY <1>g, <2>1, <2>7, <3>1, <3>2 DEF Open
  <2>8. CASE ~(w = v /\ memory'[d] # None)
    BY <1>g, <2>1, <2>3, <2>4, <2>8 DEF Open
  <2> QED BY <2>7, <2>8
\* A flush, and the snapshots that land behind it.
<1>6. ASSUME NEW x \in Network, archive' = Landed(Flushed(archive), x), UNCHANGED <<stuck, quitting>>,
             x = base => memory' = Closed,
             w = base => base' # w \/ memory' = Closed,
             w # base /\ w = base' /\ memory'[d] # None =>
               /\ memory'[d] = Loaded(IF d = 1 THEN Flushed(archive)[w][d] ELSE g, w)
               /\ \A n \in Nat : n <= memory'[d].version => After(n)
      PROVE  FileForward(w, d)'
  <2> DEFINE e == Flushed(archive)[w][d]
  <2>1. Flushed(archive) \in Shelves(changes, overlapped)
    BY <1>0, FlushedSealed DEF WorkspaceInv
  <2>2. /\ ~(w = base /\ d \in Open) => e = f
        /\ w = base /\ d \in Open => e.tmp = f.tmp /\ Loaded(e, w) = memory[d]
        /\ e \in Shelf(changes, overlapped)
    BY FlushedFile
  <2>3. FileForward(w, d) /\ (Retried(w, d)' <=> Retried(w, d))
    BY <1>f, <1>6 DEF Retried
  <2>4. /\ Readable(f.tmp, w) => f.tmp.data.version \in Nat
        /\ Readable(Source(e), w) => Source(e).data.version \in Nat /\ Loaded(e, w) = Source(e).data
    BY <1>0, <2>2, ReadableFile
  <2>5. Retried(w, d) /\ Readable(e.tmp, w) /\ Loaded(e, w) # None => e.tmp.data.version <= Loaded(e, w).version
    <3> HIDE DEF e, f
    <3>1. CASE w = base /\ d \in Open
      <4>1. memory[d] # None
        BY <3>1 DEF Open
      <4>2. Retried(w, d) /\ Readable(f.tmp, w) => Bounded(d, f.tmp.data.version)
        BY <2>3, <3>1 DEF FileForward, f
      <4> QED BY <1>r, <2>2, <2>4, <3>1, <4>1, <4>2
    <3>2. CASE ~(w = base /\ d \in Open)
      BY <2>2, <2>3, <3>2 DEF FileForward, f
    <3> QED BY <3>1, <3>2
  <2>6. \/ g = e
        \/ /\ w = x /\ g.tmp = None
           /\ \E j \in DOMAIN queue : Source(g) = queue[j].blob /\ queue[j].blob.key = base
    <3> DEFINE a == Flushed(archive)
    <3>1. a \in Shelves(changes, overlapped) /\ g = Landed(a, x)[w][d] /\ e = a[w][d]
      BY <1>6, <2>1
    <3> HIDE DEF a, g, e
    <3>2. \/ g = e
          \/ /\ w = x
             /\ \E i, j \in DOMAIN queue :
                  /\ queue[i].domain = d /\ queue[j].domain = d /\ i <= j
                  /\ g.enc = queue[j].blob /\ g.enc # None /\ g.tmp = None /\ ~g.newer /\ Source(g) = g.enc
                  /\ g.copy = IF e.copy = None THEN queue[i].blob ELSE e.copy
      BY <1>0, <3>1, LandedFile
    <3>3. \A j \in DOMAIN queue : queue[j].blob.key = base
      BY <1>0 DEF InOrder
    <3> QED BY <3>2, <3>3
  <2> HIDE DEF e, f, g
  <2>7. CASE w = base' /\ memory'[d] # None
    <3>0. w # base /\ x # base
      BY <1>6, <2>7 DEF Closed
    <3>1. /\ memory'[d] = Loaded(IF d = 1 THEN e ELSE g, w)
          /\ \A n \in Nat : n <= memory'[d].version => After(n)
      BY <1>6, <2>7, <3>0 DEF e
    <3>2. CASE g = e
      <4>1. Readable(Source(g), w) => After(Source(g).data.version)
        <5>1. Readable(Source(e), w) => Source(e).data.version <= memory'[d].version
          BY <2>4, <3>1, <3>2
        <5> QED BY <2>4, <3>1, <3>2, <5>1
      <4>2. Retried(w, d)' /\ Readable(g.tmp, w) => After(g.tmp.data.version)
        <5>1. e = f
          BY <2>2, <3>0
        <5> QED BY <2>3, <2>4, <2>5, <2>7, <3>1, <3>2, <5>1
      <4> QED BY <1>g, <2>7, <4>1, <4>2 DEF Open
    <3>3. CASE g.tmp = None /\ ~Readable(Source(g), w)
      <4>1. ~Readable(g.tmp, w)
        BY <3>3 DEF Readable
      <4> QED BY <1>g, <2>7, <3>3, <4>1 DEF Open
    <3> QED BY <2>6, <3>0, <3>2, <3>3 DEF Readable
  <2>8. CASE ~(w = base' /\ memory'[d] # None)
    <3>1. Retried(w, d)' /\ Readable(g.tmp, w) /\ Loaded(g, w) # None => g.tmp.data.version <= Loaded(g, w).version
      <4>1. CASE g = e
        BY <2>3, <2>5, <4>1
      <4>2. CASE g.tmp = None
        BY <4>2 DEF Readable
      <4> QED BY <2>6, <4>1, <4>2
    <3> QED BY <1>g, <2>8, <3>1 DEF Open
  <2> QED BY <2>7, <2>8
<1>7. ASSUME NEW t \in Task, CloseAndOpen(t) PROVE FileForward(w, d)'
  <2>1. base' # base /\ base' \in Network
    BY <1>h, <1>7, SwitchFacts, NoneAssumption DEF QueueInv
  <2>2. /\ archive' = Landed(Flushed(archive), base') /\ UNCHANGED <<stuck, quitting>>
        /\ memory'[d] # None =>
               /\ memory'[d] = Loaded(IF d = 1 THEN Flushed(archive)[base'][d] ELSE archive'[base'][d], base')
               /\ \A n \in Nat : n <= memory'[d].version => After(n)
    BY <1>h, <1>7, SwitchFacts
  <2> QED BY <1>6, <2>1, <2>2
<1>8. ASSUME NEW t \in Task, CloseAll(t) PROVE FileForward(w, d)'
  <2>1. /\ archive' = Landed(Flushed(archive), base) /\ memory' = Closed
        /\ UNCHANGED <<base, stuck, quitting>>
    BY <1>8 DEF CloseAll
  <2>2. CASE base \in Network
    <3>1. memory'[d] = None
      BY <2>1 DEF Closed
    <3> QED BY <1>6, <2>1, <2>2, <3>1
  <2>3. CASE base = None
    <3>1. archive' = archive
      BY <2>1, <2>3 DEF Landed, Flushed
    <3>2. FileForward(w, d) /\ w # base /\ (Retried(w, d)' <=> Retried(w, d))
      BY <1>f, <2>1, <2>3, NoneAssumption DEF Retried
    <3> QED BY <2>1, <3>1, <3>2 DEF FileForward
  <2> QED BY <2>2, <2>3 DEF WorkspaceInv, Binding
<1>9. ASSUME Stop PROVE FileForward(w, d)'
  <2>1. stuck' = {} /\ base' = None
    BY <1>9 DEF Stop
  <2> QED BY <2>1, NoneAssumption DEF FileForward, Retried
<1>10. CASE UNCHANGED vars
  BY <1>f, <1>10 DEF vars, FileForward, Retried, Open, Bounded
<1>11. ~BeforeQuit
  BY DEF BeforeQuit
<1>12. ASSUME \/ \E e \in Domain : ChangeDebounced(e) \/ ChangeImmediate(e) \/ TimerFires(e)
              \/ \E t \in Task, v \in Network \cup {None} : LeaveActive(t, v)
              \/ \E t \in Task : Activated(t)
       PROVE FileForward(w, d)'
  BY <1>2, <1>12 DEF Steady, ChangeDebounced, ChangeImmediate, TimerFires, LeaveActive, Activated
<1> QED BY <1>3, <1>4, <1>5, <1>7, <1>8, <1>9, <1>10, <1>11, <1>12 DEF Next

\* The snapshots that leave in the order of the changes land in that order: the file of
\* an open domain, once no renaming is pending, is never replaced by an older version,
\* for any number of changes, refusals, crashes and switches, as long as no two calls of the activator have overlapped.
THEOREM SavesGoForward == Spec => SavesMoveForward
<1> DEFINE Moves == \A d \in Domain :
        LET old == Source(archive[base][d])
            new == Source(archive'[base][d])
        IN  base # None /\ base' = base /\ d \in Open /\ memory'[d] # None
              /\ ~quitting /\ ~overlapped /\ stuck = {} /\ Readable(old, base)
            => Readable(new, base) /\ new.data.version >= old.data.version
<1>1. Init => QueueInv /\ FilesForward
  <2> SUFFICES ASSUME Init PROVE QueueInv /\ FilesForward
    OBVIOUS
  <2>1. queue = <<>> /\ stuck = {} /\ (\A t \in Task : task[t].stage = "idle") /\ \A d \in Domain : memory[d] = None
    BY DEF Init, Idle, Closed
  <2>2. QueueInv
    BY <2>1 DEF QueueInv, InOrder
  <2>3. FilesForward
    BY <2>1 DEF FilesForward, FileForward, Retried, Open
  <2> QED BY <2>2, <2>3
<1> DEFINE InvF == overlapped \/ (QueueInv /\ FilesForward)
<1>2. WorkspaceInv /\ InvF /\ [Next]_vars => InvF'
  <2> SUFFICES ASSUME WorkspaceInv, InvF, [Next]_vars, ~overlapped' PROVE (QueueInv /\ FilesForward)'
    OBVIOUS
  <2>1. ~overlapped
    BY OverlapStays
  <2> QED BY <2>1, QueueStep, FilesForwardStep
<1>3. WorkspaceInv /\ InvF /\ [Next]_vars => [Moves]_vars
  <2> SUFFICES ASSUME WorkspaceInv, QueueInv, FilesForward, Next, ~overlapped, NEW d \in Domain,
                      base # None, base' = base, d \in Open, memory'[d] # None, ~quitting, stuck = {},
                      Readable(Source(archive[base][d]), base)
               PROVE  /\ Readable(Source(archive'[base][d]), base)
                      /\ Source(archive'[base][d]).data.version >= Source(archive[base][d]).data.version
    BY DEF Moves
  <2> DEFINE f == archive[base][d]
             g == archive'[base][d]
             n == Source(f).data.version
  <2>0. /\ InOrder(queue, memory, base) /\ changes \in Nat /\ overlapped \in BOOLEAN /\ queue \in Seq(Sent(changes, overlapped))
        /\ archive \in Shelves(changes, overlapped) /\ f \in Shelf(changes, overlapped) /\ base \in Network
        /\ memory[d] \in Snap(changes) /\ memory[d] # None
    BY OpenFacts, Limits DEF QueueInv, WorkspaceInv, Rest, Sealing, Shelves, Open
  <2>1. n \in Nat /\ Bounded(d, n)
    BY <2>0, ReadableFile DEF FilesForward, FileForward
  <2>2. CASE archive' = archive
    BY <2>1, <2>2
  <2>3. ASSUME SnapshotWritten PROVE Readable(Source(g), base) /\ Source(g).data.version >= n
    <3> DEFINE h == queue[1]
               a == archive[base][h.domain]
    <3>1. /\ queue # <<>>
          /\ \E x \in {Renamed(WithTmp(a, h.blob)), WithTmp(a, h.blob), Copied(WithTmp(a, h.blob))} :
                archive' = [archive EXCEPT ![base][h.domain] = x]
      BY <2>3 DEF SnapshotWritten, MayWrite, Answered
    <3>2. 1 \in DOMAIN queue
      BY <2>0, <3>1, FirstRemoved
    <3>3. h \in Sent(changes, overlapped) /\ h.blob.key = base
      BY <2>0, <3>2, QueueElements DEF InOrder
    <3> HIDE DEF h
    <3>4. h.domain \in Domain /\ h.blob \in Sealed(changes, overlapped) /\ h.blob # None /\ h.blob.data.version \in Nat
      BY <2>0, <3>3, Versions DEF Sent
    <3>5. CASE d = h.domain
      <4>1. Source(g) = h.blob
        <5>1. \A x \in {Renamed(WithTmp(a, h.blob)), WithTmp(a, h.blob), Copied(WithTmp(a, h.blob))} :
                 Source(x) = h.blob
          <6>1. a \in Shelf(changes, overlapped)
            BY <2>0, <3>4 DEF Shelves
          <6> HIDE DEF a
          <6> QED BY <2>0, <3>4, <6>1, ArrivedFile
        <5> HIDE DEF a
        <5>2. PICK x \in {Renamed(WithTmp(a, h.blob)), WithTmp(a, h.blob), Copied(WithTmp(a, h.blob))} :
                 archive' = [archive EXCEPT ![base][h.domain] = x]
          BY <3>1
        <5>3. g = x
          BY <2>0, <3>4, <3>5, <5>2 DEF Shelves
        <5> QED BY <5>1, <5>2, <5>3
      <4>2. n <= h.blob.data.version
        BY <2>1, <3>2, <3>5 DEF Bounded, Above, Version, h
      <4> HIDE DEF n, g
      <4> QED BY <2>1, <3>3, <3>4, <4>1, <4>2 DEF Readable
    <3>6. CASE d # h.domain
      <4>1. g = f
        <5> HIDE DEF a
        <5> QED BY <2>0, <3>1, <3>4, <3>6 DEF Shelves
      <4> QED BY <2>1, <4>1
    <3> QED BY <3>5, <3>6
  <2>4. ASSUME BeforeQuit PROVE Readable(Source(g), base) /\ Source(g).data.version >= n
    <3>1. archive' = Flushed(archive)
      BY <2>4 DEF BeforeQuit
    <3>2. Readable(Source(g), base) /\ Source(g).data = memory[d]
      BY <2>0, <3>1, FlushedFile
    <3>3. n <= memory[d].version /\ memory[d].version \in Nat
      BY <2>0, <2>1, Versions DEF Bounded, Above
    <3> HIDE DEF n, g
    <3> QED BY <2>1, <3>2, <3>3
  <2>5. ASSUME NEW t \in Task, NEW w \in Network, ActivateClosed(t, w) PROVE archive' = archive
    BY <2>5 DEF ActivateClosed
  <2>6. ASSUME NEW t \in Task, CloseAndOpen(t) PROVE FALSE
    BY <2>0, <2>6, SwitchFacts, NoneAssumption DEF QueueInv
  <2>7. ASSUME Stop \/ \E t \in Task : CloseAll(t) PROVE FALSE
    BY <2>7 DEF Stop, CloseAll, Closed
  <2>8. ASSUME \E s \in stuck : RenameAgain(s) PROVE FALSE
    BY <2>8
  <2>9. ASSUME \/ \E e \in Domain : ChangeDebounced(e) \/ ChangeImmediate(e) \/ TimerFires(e)
               \/ \E t \in Task, v \in Network \cup {None} : LeaveActive(t, v)
               \/ \E t \in Task : Activated(t)
        PROVE archive' = archive
    BY <2>9 DEF ChangeDebounced, ChangeImmediate, TimerFires, LeaveActive, Activated
  <2> QED BY <2>2, <2>3, <2>4, <2>5, <2>6, <2>7, <2>8, <2>9 DEF Next
<1>4. SavesMoveForward <=> [][Moves]_vars
  BY PTL DEF SavesMoveForward
<1>5. Init => InvF
  BY <1>1
<1> HIDE DEF InvF
<1> QED BY <1>2, <1>3, <1>4, <1>5, WorkspaceInvHolds, PTL DEF Spec

-----------------------------------------------------------------------------
(***************************************************************************)
(* The daily copies.  While every rename succeeds a copy is made of a file *)
(* that then stands, so it is no newer than the file and than all that     *)
(* comes after it.                                                         *)
(***************************************************************************)
CopyBehind(f, w) ==
  /\ f.copy # None => f.enc # None
  /\ f.newer => f.tmp # None
  /\ Readable(f.copy, w) /\ Readable(Source(f), w) => f.copy.data.version <= Source(f).data.version

CopyHeld(w, d) ==
  LET f == archive[w][d]
  IN  /\ CopyBehind(f, w)
      /\ w = base /\ d \in Open /\ Readable(f.copy, w) => Bounded(d, f.copy.data.version)

CopiesBehind == \/ faults > 0
                \/ stuck = {} /\ \A w \in Network, d \in Domain : CopyHeld(w, d)

\* What can be opened is no older than the copy.
LEMMA LoadedNotOlder ==
  ASSUME NEW c \in Nat, NEW o \in BOOLEAN, NEW f \in Shelf(c, o), NEW w, CopyBehind(f, w), Readable(f.copy, w), Loaded(f, w) # None
  PROVE  f.copy.data.version <= Loaded(f, w).version /\ f.copy.data.version \in Nat
<1>1. f.copy # None /\ f.copy.data.version \in Nat
  BY ReadableFile DEF Readable
<1>2. Source(f) # None
  BY <1>1 DEF CopyBehind, Source
<1> QED BY <1>1, <1>2 DEF Loaded, CopyBehind

\* Where nothing lands, the copy and what stands behind it are those of the flushed file.
LEMMA FlushedBehind ==
  ASSUME WorkspaceInv, CopiesBehind, faults = 0, NEW w \in Network, NEW d \in Domain
  PROVE  LET f == archive[w][d]
             e == Flushed(archive)[w][d]
         IN  /\ CopyBehind(e, w) /\ e.copy = f.copy /\ e \in Shelf(changes, overlapped)
             /\ ~(w = base /\ d \in Open) => e = f
<1> DEFINE f == archive[w][d]
           e == Flushed(archive)[w][d]
<1>1. /\ ~(w = base /\ d \in Open) => e = f
      /\ e \in Shelf(changes, overlapped) /\ f \in Shelf(changes, overlapped) /\ changes \in Nat
      /\ overlapped \in BOOLEAN
  BY FlushedFile, Limits DEF WorkspaceInv, Sealing, Shelves, Rest
<1>2. /\ CopyBehind(f, w)
      /\ w = base /\ d \in Open /\ Readable(f.copy, w) => Bounded(d, f.copy.data.version)
  BY DEF CopiesBehind, CopyHeld
<1>3. CASE w = base /\ d \in Open
  <2>1. e.enc # None /\ ~e.newer /\ Source(e) = e.enc /\ e.copy = f.copy /\ e.enc.data = memory[d]
    BY <1>3, FlushedFile
  <2>2. memory[d] # None
    BY <1>3 DEF Open
  <2>3. Readable(f.copy, w) => f.copy.data.version <= memory[d].version
    BY <1>2, <1>3, <2>2 DEF Bounded, Above
  <2> HIDE DEF e, f
  <2>4. CopyBehind(e, w) /\ e.copy = f.copy
    BY <2>1, <2>3 DEF CopyBehind
  <2> QED BY <1>1, <1>3, <2>4 DEF e, f
<1>4. CASE ~(w = base /\ d \in Open)
  BY <1>1, <1>2, <1>4
<1> QED BY <1>3, <1>4

LEMMA CopiesStep ==
  ASSUME WorkspaceInv, ~overlapped, QueueInv, CopiesBehind, [Next]_vars, ~overlapped'
  PROVE  CopiesBehind'
<1>0. /\ InOrder(queue, memory, base) /\ changes \in Nat /\ overlapped \in BOOLEAN /\ queue \in Seq(Sent(changes, overlapped))
      /\ archive \in Shelves(changes, overlapped) /\ faults \in Nat
  BY Limits DEF QueueInv, WorkspaceInv, Rest, Sealing
<1>1. faults' = faults \/ (faults < MaxFault /\ faults' = faults + 1)
  BY DEF Next, vars, bound, ChangeDebounced, ChangeImmediate, TimerFires, SnapshotWritten, RenameAgain,
         ActivateClosed, LeaveActive, CloseAll, CloseAndOpen, Activated, BeforeQuit, Stop
<1> SUFFICES ASSUME faults = 0, faults' = 0 PROVE CopiesBehind'
  BY <1>0, <1>1 DEF CopiesBehind
<1>s. stuck' = {}
  <2>1. stuck = {}
    BY DEF CopiesBehind
  <2>2. SnapshotWritten => stuck' = stuck
    BY DEF SnapshotWritten
  <2>3. ~SnapshotWritten => stuck' = stuck \/ stuck' = {}
    BY <2>1 DEF Next, vars, ChangeDebounced, ChangeImmediate, TimerFires, ActivateClosed, LeaveActive,
                CloseAll, CloseAndOpen, Activated, BeforeQuit, Stop
  <2> QED BY <2>1, <2>2, <2>3
<1> SUFFICES ASSUME NEW w \in Network, NEW d \in Domain PROVE CopyHeld(w, d)'
  BY <1>s DEF CopiesBehind
<1> DEFINE f == archive[w][d]
           g == archive'[w][d]
           After(n) == Above(queue', memory', d, n)
           Goal == /\ stuck' = {}
                   /\ CopyBehind(g, w)
                   /\ w = base' /\ d \in Open' /\ Readable(g.copy, w) => After(g.copy.data.version)
<1>2. /\ stuck = {} /\ CopyBehind(f, w) /\ f \in Shelf(changes, overlapped) /\ w # None
      /\ w = base /\ d \in Open /\ Readable(f.copy, w) => Bounded(d, f.copy.data.version)
      /\ Readable(f.copy, w) => f.copy.data.version \in Nat
  <2>1. f \in Shelf(changes, overlapped)
    BY <1>0 DEF Shelves
  <2>2. /\ stuck = {} /\ CopyBehind(f, w)
        /\ w = base /\ d \in Open /\ Readable(f.copy, w) => Bounded(d, f.copy.data.version)
    BY DEF CopiesBehind, CopyHeld
  <2> HIDE DEF f
  <2> QED BY <1>0, <2>1, <2>2, ReadableFile, NoneAssumption
<1>3. \A n : Bounded(d, n)' <=> After(n)
  BY DEF Bounded
<1> HIDE DEF f, g, After
<1>4. ASSUME Steady, stuck' = {}, g = f PROVE Goal
  <2>1. base' = base /\ Open' = Open /\ \A n \in Nat : Bounded(d, n) => After(n)
    BY <1>0, <1>3, <1>4, SteadyInOrder
  <2> QED BY <1>2, <1>4, <2>1
<1>5. ASSUME SnapshotWritten PROVE Goal
  <2> DEFINE h == queue[1]
             a == archive[base][h.domain]
  <2>1. /\ queue # <<>> /\ base # None /\ queue' = RemoveAt(queue, 1)
        /\ archive' = [archive EXCEPT ![base][h.domain] = Renamed(WithTmp(a, h.blob))]
        /\ stuck' = stuck /\ UNCHANGED <<memory, base>>
    BY <1>5 DEF SnapshotWritten, MayWrite, Answered
  <2>2. 1 \in DOMAIN queue
    BY <1>0, <2>1, FirstRemoved
  <2>3. h \in Sent(changes, overlapped) /\ h.blob.key = base /\ memory[h.domain] # None
    BY <1>0, <2>2, QueueElements DEF InOrder
  <2>4. Above(RemoveAt(queue, 1), memory, h.domain, Version(h))
    <3>1. memory \in Databases(changes)
      BY DEF WorkspaceInv, Binding, Databases
    <3> QED BY <1>0, <2>1, <3>1, FirstInOrder
  <2>5. Bounded(d, f.copy.data.version) /\ d = h.domain => f.copy.data.version <= h.blob.data.version
    BY <2>2 DEF Bounded, Above, Version
  <2> HIDE DEF h
  <2>6. h.domain \in Domain /\ h.blob \in Sealed(changes, overlapped) /\ base \in Network /\ h.blob # None
    BY <1>0, <2>1, <2>3, Versions DEF Sent, Sealed
  <2>7. CASE ~(w = base /\ d = h.domain)
    <3>1. g = f
      <4> HIDE DEF a
      <4> QED BY <1>0, <2>1, <2>6, <2>7 DEF Shelves, f, g
    <3> QED BY <1>2, <1>4, <1>5, <2>1, <3>1 DEF Steady
  <2>8. CASE w = base /\ d = h.domain
    <3>1. a = f /\ g = Renamed(WithTmp(a, h.blob))
      BY <1>0, <2>1, <2>6, <2>8 DEF Shelves, f, g
    <3> HIDE DEF a
    <3>2. /\ g.enc = h.blob /\ ~g.newer /\ g.copy = IF f.copy = None THEN h.blob ELSE f.copy
      BY <1>0, <1>2, <2>6, <3>1, ArrivedFile
    <3>3. Source(g) = h.blob
      BY <3>2 DEF Source
    <3>4. d \in Open /\ h.blob.data.version \in Nat
      BY <1>0, <2>3, <2>6, <2>8, Versions DEF Open
    <3>5. Readable(f.copy, w) => f.copy.data.version <= h.blob.data.version
      BY <1>2, <2>5, <2>8, <3>4
    <3>6. CopyBehind(g, w)
      BY <2>6, <3>2, <3>3, <3>4, <3>5 DEF CopyBehind
    <3>7. Steady
      BY <1>5 DEF Steady
    <3>8. \A n \in Nat : Bounded(d, n) => After(n)
      BY <1>0, <1>3, <3>7, SteadyInOrder
    <3>9. After(h.blob.data.version)
      BY <2>1, <2>4, <2>8 DEF Version, After
    <3>10. Readable(g.copy, w) => After(g.copy.data.version)
      BY <1>2, <2>8, <3>2, <3>4, <3>8, <3>9
    <3> QED BY <1>2, <2>1, <3>6, <3>10
  <2> QED BY <2>7, <2>8
<1>6. ASSUME BeforeQuit PROVE Goal
  <2>1. archive' = Flushed(archive) /\ stuck' = stuck /\ UNCHANGED <<base, memory, queue>> /\ Steady
    BY <1>6 DEF BeforeQuit, Steady
  <2>2. CopyBehind(g, w) /\ g.copy = f.copy
    BY <2>1, FlushedBehind DEF f, g
  <2>3. base' = base /\ Open' = Open /\ \A n \in Nat : Bounded(d, n) => After(n)
    BY <1>0, <1>3, <2>1, SteadyInOrder
  <2> QED BY <1>2, <2>1, <2>2, <2>3
<1>7. ASSUME NEW t \in Task, NEW v \in Network, ActivateClosed(t, v) PROVE Goal
  <2>1. /\ base' = v
        /\ memory'[d] # None => /\ memory'[d] = Loaded(archive[v][d], v)
                                /\ \A n \in Nat : n <= memory'[d].version => After(n)
        /\ UNCHANGED <<archive, stuck>>
    BY <1>0, <1>3, <1>7, ActivationFacts
  <2>2. g = f
    BY <2>1 DEF f, g
  <2>3. w = base' /\ d \in Open' => memory'[d] = Loaded(f, w) /\ memory'[d] # None
    BY <2>1 DEF Open, f
  <2>4. Readable(f.copy, w) /\ Loaded(f, w) # None => f.copy.data.version <= Loaded(f, w).version
    BY <1>0, <1>2, LoadedNotOlder
  <2> QED BY <1>2, <2>1, <2>2, <2>3, <2>4
\* A flush, and the snapshots that land behind it.
<1>8. ASSUME NEW x \in Network, archive' = Landed(Flushed(archive), x), UNCHANGED stuck,
             x = base => memory' = Closed,
             w = base => base' # w \/ memory' = Closed,
             w # base /\ w = base' /\ memory'[d] # None =>
               /\ memory'[d] = Loaded(IF d = 1 THEN Flushed(archive)[w][d] ELSE g, w)
               /\ \A n \in Nat : n <= memory'[d].version => After(n)
      PROVE  Goal
  <2> DEFINE e == Flushed(archive)[w][d]
  <2>1. CopyBehind(e, w) /\ e.copy = f.copy /\ e \in Shelf(changes, overlapped) /\ (~(w = base /\ d \in Open) => e = f)
    BY FlushedBehind DEF f
  <2>2. Flushed(archive) \in Shelves(changes, overlapped)
    BY <1>0, FlushedSealed DEF WorkspaceInv
  <2>3. g \in Shelf(changes, overlapped)
    <3>1. archive' \in Shelves(changes, overlapped)
      <4> DEFINE a == Flushed(archive)
      <4> HIDE DEF a
      <4> QED BY <1>0, <1>8, <2>2, LandedSealed DEF WorkspaceInv, a
    <3> QED BY <3>1 DEF Shelves, g
  <2>4. \/ g = e
        \/ /\ w = x
           /\ \E i, j \in DOMAIN queue :
                /\ queue[i].domain = d /\ queue[j].domain = d /\ i <= j
                /\ g.enc = queue[j].blob /\ g.enc # None /\ ~g.newer /\ Source(g) = g.enc
                /\ g.copy = IF f.copy = None THEN queue[i].blob ELSE f.copy
    <3> DEFINE a == Flushed(archive)
    <3>1. a \in Shelves(changes, overlapped) /\ g = Landed(a, x)[w][d] /\ e = a[w][d]
      BY <1>8, <2>2 DEF g
    <3> HIDE DEF a, e
    <3> QED BY <1>0, <2>1, <3>1, LandedFile
  <2> HIDE DEF e
  <2>5. CopyBehind(g, w)
    <3>1. CASE g = e
      BY <2>1, <3>1
    <3>2. ASSUME w = x, NEW i \in DOMAIN queue, NEW j \in DOMAIN queue,
                 queue[i].domain = d, queue[j].domain = d, i <= j,
                 g.enc = queue[j].blob, g.enc # None, ~g.newer, Source(g) = g.enc,
                 g.copy = IF f.copy = None THEN queue[i].blob ELSE f.copy
          PROVE  CopyBehind(g, w)
      <4>1. /\ queue[j].blob.key = base /\ memory[d] # None
            /\ Version(queue[i]) <= Version(queue[j]) /\ Version(queue[j]) \in Nat
        <5>1. i \in Nat /\ j \in Nat /\ Version(queue[i]) \in Nat /\ Version(queue[j]) \in Nat
          BY <1>0, QueueElements
        <5>2. CASE i = j
          BY <1>0, <3>2, <5>1, <5>2 DEF InOrder
        <5>3. CASE i < j
          BY <1>0, <3>2, <5>1, <5>3 DEF InOrder
        <5> QED BY <3>2, <5>1, <5>2, <5>3
      <4>2. CASE w = base
        <5>1. Readable(f.copy, w) => f.copy.data.version <= Version(queue[j])
          <6>1. d \in Open
            BY <4>1 DEF Open
          <6> QED BY <1>2, <3>2, <4>2, <6>1 DEF Bounded, Above
        <5> QED BY <3>2, <4>1, <5>1 DEF CopyBehind, Version
      <4>3. CASE w # base
        BY <3>2, <4>1, <4>3 DEF CopyBehind, Readable
      <4> QED BY <4>2, <4>3
    <3> QED BY <2>4, <3>1, <3>2
  <2>6. ASSUME w = base', d \in Open', Readable(g.copy, w) PROVE After(g.copy.data.version)
    <3>0. w # base /\ x # base /\ memory'[d] # None
      BY <1>8, <2>6 DEF Closed, Open
    <3>1. /\ memory'[d] = Loaded(IF d = 1 THEN e ELSE g, w)
          /\ \A n \in Nat : n <= memory'[d].version => After(n)
      BY <1>8, <2>6, <3>0 DEF e
    <3>2. g.copy = f.copy
      <4>1. \A i \in DOMAIN queue : queue[i].blob.key = base
        BY <1>0 DEF InOrder
      <4> QED BY <2>1, <2>4, <2>6, <3>0, <4>1 DEF Readable
    <3>3. e.copy.data.version <= memory'[d].version /\ g.copy.data.version \in Nat
      <4>1. CASE d = 1
        BY <1>0, <2>1, <2>6, <3>0, <3>1, <3>2, <4>1, LoadedNotOlder
      <4>2. CASE d # 1
        BY <1>0, <2>1, <2>3, <2>5, <2>6, <3>0, <3>1, <3>2, <4>2, LoadedNotOlder
      <4> QED BY <4>1, <4>2
    <3> QED BY <2>1, <3>1, <3>2, <3>3
  <2> QED BY <1>2, <1>8, <2>5, <2>6
<1>9. ASSUME NEW t \in Task, CloseAndOpen(t) PROVE Goal
  <2>1. base' # base /\ base' \in Network
    BY <1>9, SwitchFacts, NoneAssumption DEF QueueInv
  <2>2. /\ archive' = Landed(Flushed(archive), base') /\ UNCHANGED stuck
        /\ memory'[d] # None =>
               /\ memory'[d] = Loaded(IF d = 1 THEN Flushed(archive)[base'][d] ELSE archive'[base'][d], base')
               /\ \A n \in Nat : n <= memory'[d].version => After(n)
    BY <1>3, <1>9, SwitchFacts
  <2> QED BY <1>8, <2>1, <2>2 DEF g
<1>10. ASSUME NEW t \in Task, CloseAll(t) PROVE Goal
  <2>1. /\ archive' = Landed(Flushed(archive), base) /\ memory' = Closed
        /\ UNCHANGED <<base, stuck>>
    BY <1>10 DEF CloseAll
  <2>0. memory'[d] = None
    BY <2>1 DEF Closed
  <2>2. CASE base \in Network
    BY <1>8, <2>0, <2>1, <2>2
  <2>3. CASE base = None
    <3>1. archive' = archive
      BY <2>1, <2>3 DEF Landed, Flushed
    <3>2. g = f
      BY <3>1 DEF f, g
    <3> QED BY <1>2, <2>0, <2>1, <3>2 DEF Open
  <2> QED BY <2>2, <2>3 DEF WorkspaceInv, Binding
<1>11. ASSUME Stop PROVE Goal
  <2>1. stuck' = {} /\ base' = None
    BY <1>11 DEF Stop
  <2>2. ASSUME NEW b \in Sealed(changes, overlapped), b.key = None,
               (g = WithTmp(f, b)) \/ (g = Overwritten(f, b)) \/ (g = f)
                 \/ (g = Flushed(archive)[w][d])
        PROVE  CopyBehind(g, w)
    <3>1. b # None /\ ~Readable(b, w)
      BY <1>0, <1>2, <2>2, Versions DEF Readable
    <3>2. WithTmp(f, b).enc = f.enc /\ WithTmp(f, b).tmp = b /\ WithTmp(f, b).newer
      BY <1>2 DEF WithTmp, Shelf
    <3>3. Overwritten(f, b).enc = b /\ ~Overwritten(f, b).newer
      BY <1>2 DEF Overwritten, Shelf
    <3>4. WithTmp(f, b).copy = f.copy
      BY <1>2 DEF WithTmp, Shelf
    <3>5. CopyBehind(Flushed(archive)[w][d], w)
      BY FlushedBehind
    <3>6. CASE g = WithTmp(f, b)
      BY <1>2, <3>1, <3>2, <3>4, <3>6 DEF CopyBehind, Source
    <3>7. CASE g = Overwritten(f, b)
      BY <1>2, <3>1, <3>3, <3>7 DEF CopyBehind, Source
    <3> QED BY <1>2, <2>2, <3>5, <3>6, <3>7
  <2>3. CASE UNCHANGED archive
    BY <1>2, <2>1, <2>3, NoneAssumption DEF f, g
  <2>4. ASSUME queue # <<>>, base # None,
               archive' = [archive EXCEPT ![base][Head(queue).domain] = WithTmp(@, Torn(Head(queue).blob))]
        PROVE  Goal
    <3> DEFINE b == Torn(Head(queue).blob)
    <3>1. Head(queue) \in Sent(changes, overlapped) /\ base \in Network
      BY <1>0, <2>4, HeadTailProperties DEF WorkspaceInv, Binding
    <3>2. Head(queue).domain \in Domain /\ b \in Sealed(changes, overlapped) /\ b.key = None
      BY <1>0, <3>1, TornSealed DEF Sent, Torn, Sealed
    <3> HIDE DEF b
    <3>3. g \in {f, WithTmp(f, b)}
      BY <1>0, <2>4, <3>1, <3>2 DEF Shelves, f, g, b
    <3>4. CopyBehind(g, w)
      BY <2>2, <3>2, <3>3
    <3> QED BY <1>2, <2>1, <3>4
  <2>5. ASSUME NEW o \in Open,
               archive' = [archive EXCEPT ![base] = [e \in Domain |->
                   IF e < o THEN Flushed(archive)[base][e]
                   ELSE IF e = o THEN Overwritten(@[e], Torn(Encrypted(memory[e], key)))
                   ELSE @[e]]]
        PROVE  Goal
    <3> DEFINE b == Torn(Encrypted(memory[o], key))
    <3>1. Encrypted(memory[o], key) \in Sealed(changes, overlapped) /\ base \in Network
      BY OpenFacts
    <3>2. b \in Sealed(changes, overlapped) /\ b.key = None
      BY <1>0, <3>1, TornSealed DEF Torn, Sealed
    <3> HIDE DEF b
    <3>3. g = f \/ g = Flushed(archive)[w][d] \/ g = Overwritten(f, b)
      BY <1>0, <2>5, <3>1 DEF Shelves, f, g, b
    <3>4. CopyBehind(g, w)
      BY <2>2, <3>2, <3>3
    <3> QED BY <1>2, <2>1, <3>4
  <2> QED BY <1>11, <2>3, <2>4, <2>5 DEF Stop
<1>12. ASSUME UNCHANGED vars PROVE Goal
  <2>1. UNCHANGED <<archive, stuck, base, memory, queue>>
    BY <1>12 DEF vars
  <2>2. g = f /\ Open' = Open /\ \A n : Bounded(d, n) <=> After(n)
    BY <2>1 DEF f, g, Open, Bounded, After
  <2> QED BY <1>2, <2>1, <2>2
<1>13. ASSUME \/ \E e \in Domain : ChangeDebounced(e) \/ ChangeImmediate(e) \/ TimerFires(e)
              \/ \E t \in Task, v \in Network \cup {None} : LeaveActive(t, v)
              \/ \E t \in Task : Activated(t)
       PROVE Goal
  <2>1. UNCHANGED <<archive, stuck>> /\ Steady
    BY <1>13 DEF Steady, ChangeDebounced, ChangeImmediate, TimerFires, LeaveActive, Activated
  <2>2. g = f
    BY <2>1 DEF f, g
  <2> QED BY <1>2, <1>4, <2>1, <2>2
<1>14. ASSUME \E s \in stuck : RenameAgain(s) PROVE FALSE
  BY <1>2, <1>14
<1>15. Goal
  BY <1>5, <1>6, <1>7, <1>9, <1>10, <1>11, <1>12, <1>13, <1>14 DEF Next
<1> QED BY <1>15 DEF CopyHeld, Bounded, g, After

\* A domain never opens older than its daily copy, as long as every rename succeeds: a
\* file that is torn, or that another network wrote, leads to the copy, and a file that
\* can be read is no older than it (db_manager.js, loadDatabase; backup_manager.js); and as
\* long as no two calls of the activator have overlapped.
THEOREM NeverOpensOlder == Spec => NeverOlderThanCopy
<1> DEFINE Fresher == \A d \in Domain :
        LET copy == archive[base'][d].copy
        IN  Entered(d) /\ Readable(copy, base') /\ faults = 0 /\ ~overlapped'
              => memory'[d].version >= copy.data.version
<1>1. Init => QueueInv /\ CopiesBehind
  <2> SUFFICES ASSUME Init PROVE QueueInv /\ CopiesBehind
    OBVIOUS
  <2>1. queue = <<>> /\ stuck = {} /\ (\A t \in Task : task[t].stage = "idle") /\ \A d \in Domain : memory[d] = None
    BY DEF Init, Idle, Closed
  <2>2. \A w \in Network, d \in Domain : archive[w][d] = NoFiles
    BY DEF Init
  <2>3. QueueInv
    BY <2>1 DEF QueueInv, InOrder
  <2>4. CopiesBehind
    BY <2>1, <2>2 DEF CopiesBehind, CopyHeld, CopyBehind, NoFiles, Readable, Open
  <2> QED BY <2>3, <2>4
<1> DEFINE InvC == overlapped \/ (QueueInv /\ CopiesBehind)
<1>2. WorkspaceInv /\ InvC /\ [Next]_vars => InvC'
  <2> SUFFICES ASSUME WorkspaceInv, InvC, [Next]_vars, ~overlapped' PROVE (QueueInv /\ CopiesBehind)'
    OBVIOUS
  <2>1. ~overlapped
    BY OverlapStays
  <2> QED BY <2>1, QueueStep, CopiesStep
<1>3. WorkspaceInv /\ InvC /\ [Next]_vars => [Fresher]_vars
  <2> SUFFICES ASSUME WorkspaceInv, QueueInv, CopiesBehind, Next, NEW d \in Domain,
                      ~overlapped, ~overlapped', Entered(d), Readable(archive[base'][d].copy, base'), faults = 0
               PROVE  memory'[d].version >= archive[base'][d].copy.data.version
    BY OverlapStays DEF Fresher
  <2> DEFINE v == base'
             copy == archive[v][d].copy
  <2>0. /\ InOrder(queue, memory, base) /\ changes \in Nat /\ overlapped \in BOOLEAN /\ queue \in Seq(Sent(changes, overlapped))
        /\ archive \in Shelves(changes, overlapped) /\ WorkspaceInv'
    BY WorkspaceStep, Limits DEF QueueInv, WorkspaceInv, Rest, Sealing
  <2>1. memory'[d] # None /\ memory'[d].version \in Nat
    <3>1. memory'[d] # None
      BY DEF Entered
    <3>2. changes' \in Nat /\ memory'[d] \in Snap(changes')
      BY <2>0, <3>1, Limits DEF WorkspaceInv, Rest, Binding
    <3> QED BY <3>1, <3>2, Versions
  <2>2. v \in Network
    BY <2>0, <2>1, NoneAssumption DEF WorkspaceInv, Binding, BoundTo, Snap
  <2>3. CopyHeld(v, d) /\ stuck = {} /\ archive[v][d] \in Shelf(changes, overlapped)
    BY <2>0, <2>2 DEF CopiesBehind, Shelves
  <2>4. copy.data.version \in Nat
    BY <2>0, <2>3, ReadableFile
  <2>5. ASSUME NEW t \in Task, NEW w \in Network, ActivateClosed(t, w)
        PROVE  copy.data.version <= memory'[d].version
    <3>1. memory'[d] = Loaded(archive[v][d], v)
      BY <2>0, <2>1, <2>5, ActivationFacts
    <3>2. CopyBehind(archive[v][d], v)
      BY <2>3 DEF CopyHeld
    <3> QED BY <2>0, <2>1, <2>3, <3>1, <3>2, LoadedNotOlder
  <2>6. ASSUME NEW t \in Task, CloseAndOpen(t)
        PROVE  copy.data.version <= memory'[d].version
    <3> DEFINE e == Flushed(archive)[v][d]
               g == archive'[v][d]
    <3>1. /\ v # base /\ archive' = Landed(Flushed(archive), v)
          /\ memory'[d] = Loaded(IF d = 1 THEN e ELSE g, v)
      BY <2>1, <2>6, SwitchFacts, NoneAssumption DEF QueueInv
    <3>2. CopyBehind(e, v) /\ e.copy = copy /\ e \in Shelf(changes, overlapped)
      BY <2>2, FlushedBehind
    <3>3. g \in Shelf(changes, overlapped)
      <4>1. Flushed(archive) \in Shelves(changes, overlapped)
        BY <2>0, FlushedSealed DEF WorkspaceInv
      <4>2. archive' \in Shelves(changes, overlapped)
        <5> DEFINE a == Flushed(archive)
        <5> HIDE DEF a, v
        <5> QED BY <2>0, <2>2, <3>1, <4>1, LandedSealed DEF WorkspaceInv, a
      <4> QED BY <2>2, <4>2 DEF Shelves
    <3>4. CopyBehind(g, v) /\ g.copy = copy
      <4>1. changes' = changes /\ faults' = faults
        BY <2>6 DEF CloseAndOpen, bound
      <4>2. CopiesBehind'
        BY CopiesStep
      <4>3. \A w \in Network : CopyBehind(archive'[w][d], w)
        BY <4>1, <4>2 DEF CopiesBehind, CopyHeld
      <4>4. g.copy = copy
        <5> DEFINE a == Flushed(archive)
        <5>1. a \in Shelves(changes, overlapped) /\ g = Landed(a, v)[v][d] /\ e = a[v][d]
          BY <2>0, <3>1, FlushedSealed DEF WorkspaceInv
        <5>2. copy # None
          BY DEF Readable
        <5> HIDE DEF a, e, g, copy, v
        <5> QED BY <2>0, <2>2, <3>2, <5>1, <5>2, LandedFile
      <4> QED BY <2>2, <4>3, <4>4
    <3> HIDE DEF e, g
    <3>5. CASE d = 1
      BY <2>0, <2>1, <3>1, <3>2, <3>5, LoadedNotOlder
    <3>6. CASE d # 1
      BY <2>0, <2>1, <3>1, <3>3, <3>4, <3>6, LoadedNotOlder
    <3> QED BY <3>5, <3>6
  <2>7. ASSUME NEW e \in Domain, ChangeDebounced(e) \/ ChangeImmediate(e) PROVE FALSE
    <3>1. base' = base /\ memory[d] # None
      BY <2>1, <2>7, ChangeFacts
    <3>2. memory[d].of = base /\ memory'[d].of = base'
      BY <2>0, <2>1, <3>1 DEF WorkspaceInv, Binding, BoundTo
    <3> QED BY <3>1, <3>2 DEF Entered
  <2>8. ASSUME Stop \/ \E t \in Task : CloseAll(t) PROVE FALSE
    BY <2>1, <2>8 DEF Stop, CloseAll, Closed
  <2>9. ASSUME \/ \E e \in Domain : TimerFires(e)
               \/ SnapshotWritten
               \/ \E s \in stuck : RenameAgain(s)
               \/ \E t \in Task, w \in Network \cup {None} : LeaveActive(t, w)
               \/ \E t \in Task : Activated(t)
               \/ BeforeQuit
        PROVE FALSE
    <3>1. memory' = memory
      BY <2>9 DEF TimerFires, SnapshotWritten, RenameAgain, LeaveActive, Activated, BeforeQuit
    <3> QED BY <3>1 DEF Entered
  <2>10. copy.data.version <= memory'[d].version
    BY <2>5, <2>6, <2>7, <2>8, <2>9 DEF Next
  <2> QED BY <2>1, <2>4, <2>10
<1>4. NeverOlderThanCopy <=> [][Fresher]_vars
  BY PTL DEF NeverOlderThanCopy
<1>5. Init => InvC
  BY <1>1
<1> HIDE DEF InvC
<1> QED BY <1>2, <1>3, <1>4, <1>5, WorkspaceInvHolds, PTL DEF Spec
=============================================================================
