----------------------- MODULE NetworkRegistryProofs -----------------------
(***************************************************************************)
(* Proofs about NetworkRegistry, for any networks and any number of calls  *)
(* at once.  That the registry is still there is not inductive: a write    *)
(* spares what it replaces only as the copy, and a crash may cut it short. *)
(* Keeps says which of the two files holds what was entered, for each      *)
(* count of the writes under other keys; it is stated of a vault, a key, a *)
(* count and a set, so that the two writes of one call are two uses of the *)
(* same lemma (OneWrite).  Calls, of the sessions, is what the property of *)
(* the archives needs: only a join clones.                                 *)
(***************************************************************************)
EXTENDS NetworkRegistry, TLAPS

\* The networks of the entries E
RealOf(E) == {n \in Net : Real(n) \in E}

Vaults == [file : File, copy : File]

\* Of the networks that were entered, S: the file of a vault v holds them until
\* a process with another key writes (w counts such writes), then its copy does.
Keeps(v, k, w, S) ==
  /\ k = "kept" => v.file.key # "now" /\ v.copy.key # "now"
  /\ w = 0 => /\ v.copy.key # "now"
              /\ \/ v.file.key = "kept" /\ RealOf(v.file.entries) = S
                 \/ v.file.key = "none" /\ v.copy.key # "kept" /\ S = {}
  /\ w = 1 => /\ v.file.key \in {"now", "lost"}
              /\ \/ v.copy.key = "kept" /\ RealOf(v.copy.entries) = S
                 \/ v.copy.key # "kept" /\ S = {}

\* Only a join clones, and only a removal removes an archive with its entry.
Calls == \A c \in Request :
           /\ request[c].step \in {"cloning", "importing"} => request[c].op = "join"
           /\ request[c].how = "purge" => request[c].op = "remove"

Register == /\ vault \in Vaults /\ sealing \in {"kept", "now"}
            /\ stored \in SUBSET Net /\ strange \in 0..2
            /\ Keeps(vault, sealing, strange, stored)

Ops == {"create", "join", "open", "leave", "remove"}
Steps == {"idle", "leaving", "opening", "cloning", "importing", "failing"}
Hows == {"none", "known", "new", "purge", "keep", "wrong"}
Archives == [Net -> {"absent", "empty", "full"}]
Sessions == [op : Ops \cup {"none"}, net : Net \cup {NoNet}, step : Steps, how : Hows]
World == /\ archive \in Archives /\ active \in Net \cup {NoNet} /\ bound \in Net \cup {NoNet}
         /\ request \in [Request -> Sessions] /\ Calls

RegistryInv == Register /\ World

-----------------------------------------------------------------------------
LEMMA Typed == RegistryInv => RegistryTypeOK
<1>1. Ops \cup {"none"} = {"none", "create", "join", "open", "leave", "remove"}
  BY DEF Ops
<1> QED  BY <1>1 DEF RegistryInv, Register, World, RegistryTypeOK, Vaults, Steps, Hows,
                    Archives, Sessions

-----------------------------------------------------------------------------
\* The list has the entries that are read, and orphans.
LEMMA Listed ==
  ASSUME RegistryTypeOK
  PROVE  Read \in Entries /\ List \in Entries /\ RealOf(List) = RealOf(Read)
<1>1. Read \in Entries
  BY DEF RegistryTypeOK, Read, File, Entries
<1> DEFINE orphans == {<<n, "orphan">> : n \in {m \in Net :
                         archive[m] # "absent" /\ \A e \in Read : e[1] # m}}
<1>2. orphans \in Entries
  BY DEF Entries
<1>3. List = Read \cup orphans
  BY Zenon DEF List
<1>4. \A n \in Net : Real(n) \notin orphans
  BY DEF Real
<1>5. List \in Entries
  BY <1>1, <1>2, <1>3 DEF Entries
<1>6. RealOf(List) = RealOf(Read)
  BY <1>3, <1>4, Zenon DEF RealOf
<1> QED  BY <1>1, <1>5, <1>6

\* What this process reads is what was entered, if it has the keyring.
LEMMA ReadKept ==
  ASSUME RegistryInv, strange < 2
  PROVE  /\ sealing = "kept" => RealOf(Read) = stored
         /\ sealing = "now" /\ strange = 0 => RealOf(Read) = {}
<1>1. strange \in {0, 1} /\ Keeps(vault, sealing, strange, stored)
  BY Typed DEF RegistryInv, Register
<1>2. RealOf({}) = {}
  BY DEF RealOf
<1> QED  BY <1>1, <1>2 DEF Keeps, Read

\* One write of E, after which the networks that were entered are T.
LEMMA OneWrite ==
  ASSUME RegistryTypeOK, NEW v \in Vaults, NEW w \in 0..2, NEW S, NEW T,
         NEW E \in Entries, Keeps(v, sealing, w, S),
         sealing = "kept" /\ w < 2 => RealOf(E) = T,
         sealing = "now" /\ w = 0 => T = S
  PROVE  /\ VaultWritten(v, E) \in Vaults
         /\ StrangeAfter(w, 1) \in 0..2
         /\ Keeps(VaultWritten(v, E), sealing, StrangeAfter(w, 1), T)
<1>1. v.file \in File /\ v.copy \in File /\ sealing \in {"kept", "now"}
  BY DEF Vaults, RegistryTypeOK
<1> DEFINE new == [key |-> sealing, entries |-> E]
           u == VaultWritten(v, E)
<1>2. new \in File
  BY <1>1 DEF File
<1>3. /\ u.file = new /\ u \in Vaults
      /\ u.copy = IF v.file.key = "none" THEN v.copy ELSE v.file
  BY <1>1, <1>2 DEF VaultWritten, Vaults
<1>4. u.file.key = sealing /\ u.file.entries = E
  BY <1>3
<1>5. StrangeAfter(w, 1) \in 0..2
  BY DEF StrangeAfter
<1> HIDE DEF u, new
<1>6. ASSUME sealing = "kept" PROVE Keeps(u, sealing, StrangeAfter(w, 1), T)
  <2>1. StrangeAfter(w, 1) = (IF w = 1 THEN 0 ELSE w) /\ (w < 2 <=> w # 2)
    BY <1>6 DEF StrangeAfter
  <2>2. w \in {0, 1, 2}
    OBVIOUS
  <2>3. v.file.key # "now" /\ v.copy.key # "now"
    BY <1>6 DEF Keeps
  <2>4. u.copy.key # "now"
    BY <1>3, <2>3
  <2> QED  BY <1>4, <1>6, <2>1, <2>2, <2>4 DEF Keeps
<1>7. ASSUME sealing = "now" PROVE Keeps(u, sealing, StrangeAfter(w, 1), T)
  <2>1. CASE w = 0
    <3>1. StrangeAfter(w, 1) = 1 /\ T = S
      BY <1>7, <2>1 DEF StrangeAfter
    <3> QED  BY <1>3, <1>4, <1>7, <2>1, <3>1 DEF Keeps
  <2>2. CASE w # 0
    <3>1. StrangeAfter(w, 1) = 2
      BY <1>7, <2>2 DEF StrangeAfter
    <3> QED  BY <1>7, <3>1 DEF Keeps
  <2> QED  BY <2>1, <2>2
<1> QED  BY <1>1, <1>3, <1>5, <1>6, <1>7 DEF u

\* The writes of one call add up.
LEMMA WritesAdd ==
  ASSUME RegistryTypeOK, NEW w \in 0..2, NEW a \in 0..3, NEW b \in 0..3
  PROVE  StrangeAfter(StrangeAfter(w, a), b) = StrangeAfter(w, a + b)
BY DEF RegistryTypeOK, StrangeAfter

\* What the listing writes changes nothing of the networks that were entered.
LEMMA ListKeeps ==
  ASSUME RegistryInv
  PROVE  /\ AfterList \in Vaults /\ Listings \in 0..1
         /\ StrangeAfter(strange, Listings) \in 0..2
         /\ Keeps(AfterList, sealing, StrangeAfter(strange, Listings), stored)
<1>1. /\ RegistryTypeOK /\ vault \in Vaults /\ strange \in 0..2
      /\ Keeps(vault, sealing, strange, stored)
  BY Typed DEF RegistryInv, Register
<1>2. CASE List = Read
  <2>1. AfterList = vault /\ Listings = 0
    BY <1>2 DEF AfterList, Listings
  <2>2. StrangeAfter(strange, 0) = strange
    BY <1>1 DEF StrangeAfter
  <2> QED  BY <1>1, <2>1, <2>2
<1>3. CASE List # Read
  <2>1. AfterList = VaultWritten(vault, List) /\ Listings = 1
    BY <1>3 DEF AfterList, Listings
  <2>2. sealing = "kept" /\ strange < 2 => RealOf(List) = stored
    BY <1>1, Listed, ReadKept
  <2> QED  BY <1>1, <2>1, <2>2, Listed, OneWrite
<1> QED  BY <1>2, <1>3

LEMMA OnlyListsKeep ==
  ASSUME RegistryInv, OnlyLists, UNCHANGED <<sealing, stored>>
  PROVE  vault' \in Vaults /\ strange' \in 0..2
         /\ Keeps(vault', sealing', strange', stored')
BY ListKeeps DEF OnlyLists, Writes

\* A change of the entries, after a listing
LEMMA ChangeKeeps ==
  ASSUME RegistryInv, NEW E \in Entries, NEW T,
         sealing = "kept" /\ strange < 2 => RealOf(E) = T,
         sealing = "now" /\ strange = 0 => T = stored
  PROVE  /\ VaultWritten(AfterList, E) \in Vaults
         /\ StrangeAfter(strange, Listings + 1) \in 0..2
         /\ Keeps(VaultWritten(AfterList, E), sealing,
                  StrangeAfter(strange, Listings + 1), T)
<1> DEFINE w == StrangeAfter(strange, Listings)
<1>1. RegistryTypeOK /\ strange \in 0..2 /\ sealing \in {"kept", "now"}
  BY Typed DEF RegistryInv, Register
<1>2. /\ AfterList \in Vaults /\ Listings \in 0..1 /\ w \in 0..2
      /\ Keeps(AfterList, sealing, w, stored)
  BY ListKeeps
<1>3. /\ sealing = "kept" /\ w < 2 => strange < 2
      /\ sealing = "now" /\ w = 0 => strange = 0
  BY <1>1, <1>2 DEF StrangeAfter
<1>4. StrangeAfter(w, 1) = StrangeAfter(strange, Listings + 1)
  BY <1>1, <1>2, WritesAdd
<1> HIDE DEF w
<1>5. /\ sealing = "kept" /\ w < 2 => RealOf(E) = T
      /\ sealing = "now" /\ w = 0 => T = stored
  BY <1>3
<1> QED  BY <1>1, <1>2, <1>4, <1>5, OneWrite

LEMMA RewritesKeep ==
  ASSUME RegistryInv, NEW E \in Entries, Rewrites(E), sealing' = sealing,
         sealing = "kept" /\ strange < 2 => RealOf(E) = stored',
         sealing = "now" /\ strange = 0 => stored' = stored
  PROVE  vault' \in Vaults /\ strange' \in 0..2
         /\ Keeps(vault', sealing', strange', stored')
BY ChangeKeeps DEF Rewrites, Writes

\* An entry is written.
LEMMA EntryAdded ==
  ASSUME RegistryInv, NEW n \in Net
  PROVE  /\ List \cup {Real(n)} \in Entries
         /\ sealing = "kept" /\ strange < 2
              => RealOf(List \cup {Real(n)}) = stored \cup {n}
<1>1. RegistryTypeOK /\ List \in Entries /\ RealOf(List) = RealOf(Read)
  BY Listed, Typed
<1>2. Real(n) \in Net \X {"real", "orphan"}
  BY DEF Real
<1>3. List \cup {Real(n)} \in Entries
  BY <1>1, <1>2 DEF Entries
<1>4. \A m \in Net : Real(m) = Real(n) <=> m = n
  BY DEF Real
<1>5. RealOf(List \cup {Real(n)}) = RealOf(List) \cup {n}
  BY <1>4 DEF RealOf
<1> QED  BY <1>1, <1>3, <1>5, ReadKept

LEMMA AddsKeep ==
  ASSUME RegistryInv, NEW n \in Net, Adds(n), sealing' = sealing
  PROVE  /\ vault' \in Vaults /\ strange' \in 0..2 /\ stored' \in SUBSET Net
         /\ Keeps(vault', sealing', strange', stored')
<1>1. stored \in SUBSET Net /\ sealing \in {"kept", "now"}
  BY Typed DEF RegistryInv, Register
<1>2. /\ Rewrites(List \cup {Real(n)})
      /\ stored' = IF sealing = "kept" THEN stored \cup {n} ELSE stored
  BY DEF Adds
<1> QED  BY <1>1, <1>2, EntryAdded, RewritesKeep

LEMMA RemovesKeep ==
  ASSUME RegistryInv, NEW n \in Net \cup {NoNet}, Removes(n), sealing' = sealing
  PROVE  /\ vault' \in Vaults /\ strange' \in 0..2 /\ stored' \in SUBSET Net
         /\ Keeps(vault', sealing', strange', stored')
<1>1. stored \in SUBSET Net /\ sealing \in {"kept", "now"} /\ RegistryTypeOK
  BY Typed DEF RegistryInv, Register
<1>2. CASE Real(n) \notin List
  BY <1>1, <1>2, OnlyListsKeep DEF Removes
<1>3. CASE Real(n) \in List
  <2>1. Rewrites(List \ {Real(n)}) /\ stored' = stored \ {n}
    BY <1>3 DEF Removes
  <2>2. List \ {Real(n)} \in Entries
    BY <1>1, Listed DEF Entries
  <2>3. \A m \in Net : Real(m) = Real(n) <=> m = n
    BY DEF Real
  <2>4. RealOf(List \ {Real(n)}) = RealOf(List) \ {n}
    BY <2>3 DEF RealOf
  <2>5. sealing = "kept" /\ strange < 2 => RealOf(List \ {Real(n)}) = stored'
    BY <1>1, <2>1, <2>4, Listed, ReadKept
  <2>6. sealing = "now" /\ strange = 0 => n \notin RealOf(List)
    BY <1>1, Listed, ReadKept
  <2>7. n \in Net
    BY <1>1, <1>3, Listed DEF Entries, Real
  <2>8. ~(sealing = "now" /\ strange = 0)
    BY <1>3, <2>6, <2>7 DEF RealOf
  <2> QED  BY <1>1, <2>1, <2>2, <2>5, <2>8, RewritesKeep
<1> QED  BY <1>2, <1>3

-----------------------------------------------------------------------------
LEMMA AsksKeep ==
  ASSUME World, NEW c \in Request, NEW op \in Ops, NEW n \in Net \cup {NoNet},
         NEW how \in Hows, NEW step \in Steps, Asks(c, op, n, how, step),
         step \in {"cloning", "importing"} => op = "join", how = "purge" => op = "remove"
  PROVE  request' \in [Request -> Sessions] /\ Calls'
<1> DEFINE s == [op |-> op, net |-> n, step |-> step, how |-> how]
<1>1. s \in Sessions /\ s.op = op /\ s.step = step /\ s.how = how
  BY DEF Sessions
<1>2. request' = [request EXCEPT ![c] = s]
  BY DEF Asks
<1> HIDE DEF s
<1> QED  BY <1>1, <1>2 DEF World, Calls

LEMMA GoesKeep ==
  ASSUME World, NEW c \in Request, NEW step \in Steps, Goes(c, step),
         step \in {"cloning", "importing"} => request[c].op = "join"
  PROVE  request' \in [Request -> Sessions] /\ Calls'
<1> DEFINE s == [request[c] EXCEPT !.step = step]
<1>1. s \in Sessions /\ s.op = request[c].op /\ s.step = step /\ s.how = request[c].how
  BY DEF World, Sessions
<1>2. request' = [request EXCEPT ![c] = s]
  BY DEF Goes
<1> HIDE DEF s
<1> QED  BY <1>1, <1>2 DEF World, Calls

LEMMA EndsKeep ==
  ASSUME World, NEW c \in Request, CallEnds(c)
  PROVE  request' \in [Request -> Sessions] /\ Calls'
<1>1. NoRequest \in Sessions /\ NoRequest.step = "idle" /\ NoRequest.how = "none"
  BY DEF NoRequest, Sessions, Steps, Hows
<1> QED  BY <1>1 DEF CallEnds, World, Calls

LEMMA BindsKeep ==
  ASSUME NEW n \in Net \cup {NoNet}, NEW A \in Archives, Binds(n, A)
  PROVE  archive' \in Archives /\ bound' \in Net \cup {NoNet}
BY DEF Binds, Archives

LEMMA StartsKeep ==
  ASSUME World, NEW c \in Request, NEW op \in Ops, NEW n \in Net, NEW how \in {"known", "new"},
         NEW step \in {"opening", "cloning"}, Starts(c, op, n, how, step),
         step = "cloning" => op = "join", active' = active
  PROVE  World'
<1>1. how \in Hows /\ step \in Steps /\ "leaving" \in Steps /\ n \in Net \cup {NoNet}
  BY DEF Hows, Steps
<1>2. CASE active # NoNet
  <2>1. Asks(c, op, n, how, "leaving") /\ UNCHANGED <<archive, bound>>
    BY <1>2 DEF Starts
  <2>2. request' \in [Request -> Sessions] /\ Calls'
    BY <1>1, <2>1, AsksKeep
  <2> QED  BY <2>1, <2>2 DEF World
<1>3. CASE active = NoNet
  <2>1. Asks(c, op, n, how, step) /\ Binds(n, archive)
    BY <1>3 DEF Starts
  <2>2. request' \in [Request -> Sessions] /\ Calls'
    BY <1>1, <2>1, AsksKeep
  <2>3. archive' \in Archives /\ bound' \in Net \cup {NoNet}
    BY <2>1, BindsKeep DEF World
  <2> QED  BY <2>2, <2>3 DEF World
<1> QED  BY <1>2, <1>3

LEMMA ArchivesSaved ==
  ASSUME World
  PROVE  /\ Saved \in Archives
         /\ \A n \in Net : archive[n] = "full" => Saved[n] = "full"
         /\ \A n \in Net \cup {NoNet} :
              Purged(n) \in Archives /\ \A m \in Net : m # n => Purged(n)[m] = archive[m]
BY DEF World, Saved, Purged, Archives

-----------------------------------------------------------------------------
LEMMA RegistryStart == RegistryInit => RegistryInv
<1> SUFFICES ASSUME RegistryInit PROVE RegistryInv  OBVIOUS
<1>1. NoFile \in File /\ NoFile.key = "none"
  BY DEF NoFile, File, Entries
<1>2. vault \in Vaults /\ vault.file.key = "none" /\ vault.copy.key = "none"
  BY <1>1 DEF RegistryInit, Vaults
<1>3. Register
  BY <1>2 DEF RegistryInit, Register, Keeps
<1>4. NoRequest \in Sessions /\ NoRequest.step = "idle" /\ NoRequest.how = "none"
  BY DEF NoRequest, Sessions, Steps, Hows
<1>5. World
  BY <1>4 DEF RegistryInit, World, Archives, Calls
<1> QED  BY <1>3, <1>5 DEF RegistryInv

\* The steps that begin a call
LEMMA BeginningsKeep ==
  ASSUME RegistryInv, NEW c \in Request, NEW n \in Net,
         CreateNetwork(c, n) \/ JoinNetwork(c, n) \/ ActivateNetwork(c, n)
  PROVE  RegistryInv'
<1>1. Register /\ World
  BY DEF RegistryInv
<1>2. "create" \in Ops /\ "join" \in Ops /\ "open" \in Ops
  BY DEF Ops
<1>3. CASE CreateNetwork(c, n)
  <2> DEFINE E == List \cup {Real(n)}
             T == IF sealing = "kept" THEN stored \cup {n} ELSE stored
             v == VaultWritten(AfterList, E)
             w == StrangeAfter(strange, Listings + 1)
  <2>1. /\ vault' = VaultWritten(v, E) /\ strange' = StrangeAfter(strange, Listings + 2)
        /\ stored' = T /\ UNCHANGED <<sealing, active>>
        /\ Starts(c, "create", n, "new", "opening")
    BY <1>3, Zenon DEF CreateNetwork, Writes
  <2>2. World'
    BY <1>1, <1>2, <2>1, StartsKeep
  <2>3. sealing \in {"kept", "now"} /\ T \in SUBSET Net /\ RegistryTypeOK
    BY <1>1, Typed DEF Register
  <2>4. /\ E \in Entries /\ (sealing = "kept" /\ strange < 2 => RealOf(E) = T)
        /\ (sealing = "now" => T = stored)
    BY EntryAdded
  <2>5. Listings \in 0..1 /\ strange \in 0..2
    BY <1>1, ListKeeps DEF Register
  <2> HIDE DEF E, T
  <2>6. v \in Vaults /\ w \in 0..2 /\ Keeps(v, sealing, w, T)
    BY <2>4, ChangeKeeps
  <2>7. w < 2 /\ sealing = "kept" => strange < 2
    BY <2>3, <2>5 DEF StrangeAfter
  <2>8. StrangeAfter(w, 1) = strange'
    BY <2>1, <2>3, <2>5, WritesAdd
  <2> HIDE DEF v, w
  <2>9. /\ VaultWritten(v, E) \in Vaults /\ StrangeAfter(w, 1) \in 0..2
        /\ Keeps(VaultWritten(v, E), sealing, StrangeAfter(w, 1), T)
    BY <2>3, <2>4, <2>6, <2>7, OneWrite
  <2>10. Register'
    BY <2>1, <2>3, <2>8, <2>9 DEF Register
  <2> QED  BY <2>2, <2>10 DEF RegistryInv
<1>4. CASE JoinNetwork(c, n)
  <2>1. CASE Real(n) \in List
    <3>1. OnlyLists /\ UNCHANGED <<stored, sealing, active>>
          /\ Starts(c, "join", n, "known", "cloning")
      BY <1>4, <2>1 DEF JoinNetwork
    <3>2. Register'
      BY <1>1, <3>1, OnlyListsKeep DEF Register
    <3> QED  BY <1>1, <1>2, <3>1, <3>2, StartsKeep DEF RegistryInv
  <2>2. CASE Real(n) \notin List
    <3>1. Adds(n) /\ UNCHANGED <<sealing, active>> /\ Starts(c, "join", n, "new", "cloning")
      BY <1>4, <2>2 DEF JoinNetwork
    <3>2. Register'
      BY <1>1, <3>1, AddsKeep DEF Register
    <3> QED  BY <1>1, <1>2, <3>1, <3>2, StartsKeep DEF RegistryInv
  <2> QED  BY <2>1, <2>2
<1>5. CASE ActivateNetwork(c, n)
  <2>1. OnlyLists /\ UNCHANGED <<stored, sealing, active>>
        /\ Starts(c, "open", n, "known", "opening")
    BY <1>5 DEF ActivateNetwork
  <2>2. Register'
    BY <1>1, <2>1, OnlyListsKeep DEF Register
  <2> QED  BY <1>1, <1>2, <2>1, <2>2, StartsKeep DEF RegistryInv
<1> QED  BY <1>3, <1>4, <1>5

LEMMA DeactivateKeeps ==
  ASSUME RegistryInv, NEW c \in Request, Deactivate(c)
  PROVE  RegistryInv'
<1>1. Register /\ World
  BY DEF RegistryInv
<1>2. "leave" \in Ops /\ "none" \in Hows /\ "leaving" \in Steps
  BY DEF Ops, Hows, Steps
<1>3. Asks(c, "leave", active, "none", "leaving")
      /\ UNCHANGED <<vault, sealing, archive, active, bound, stored, strange>>
  BY DEF Deactivate
<1>4. request' \in [Request -> Sessions] /\ Calls'
  BY <1>1, <1>2, <1>3, AsksKeep DEF World
<1> QED  BY <1>1, <1>3, <1>4 DEF Register, World, RegistryInv

LEMMA RemoveNetworkKeeps ==
  ASSUME RegistryInv, NEW c \in Request, NEW n \in Net, NEW how \in {"purge", "keep", "wrong"},
         RemoveNetwork(c, n, how)
  PROVE  RegistryInv'
<1>1. Register /\ World
  BY DEF RegistryInv
<1>2. "remove" \in Ops /\ how \in Hows /\ "leaving" \in Steps
  BY DEF Ops, Hows, Steps
<1>3. UNCHANGED <<sealing, active, bound>>
  BY DEF RemoveNetwork
<1>4. CASE active = n
  <2>1. OnlyLists /\ Asks(c, "remove", n, how, "leaving") /\ UNCHANGED <<archive, stored>>
    BY <1>4 DEF RemoveNetwork
  <2>2. request' \in [Request -> Sessions] /\ Calls'
    BY <1>1, <1>2, <2>1, AsksKeep
  <2>3. Register'
    BY <1>1, <1>3, <2>1, OnlyListsKeep DEF Register
  <2> QED  BY <1>1, <1>3, <2>1, <2>2, <2>3 DEF World, RegistryInv
<1>5. CASE active # n
  <2>1. /\ IF how = "wrong" THEN OnlyLists /\ UNCHANGED stored ELSE Removes(n)
        /\ archive' = IF how = "purge" THEN Purged(n) ELSE archive
        /\ UNCHANGED request
    BY <1>5 DEF RemoveNetwork
  <2>2. Register'
    BY <1>1, <1>3, <2>1, OnlyListsKeep, RemovesKeep DEF Register
  <2>3. archive' \in Archives
    BY <1>1, <2>1, ArchivesSaved DEF World
  <2> QED  BY <1>1, <1>3, <2>1, <2>2, <2>3 DEF World, Calls, RegistryInv
<1> QED  BY <1>4, <1>5

\* The entries are written as they are listed.
LEMMA UpdatesKeep ==
  ASSUME RegistryInv, Rewrites(List) \/ OnlyLists, UNCHANGED <<sealing, stored>>
  PROVE  Register'
<1>1. RegistryTypeOK /\ Register
  BY Typed DEF RegistryInv
<1>2. List \in Entries /\ (sealing = "kept" /\ strange < 2 => RealOf(List) = stored)
  BY <1>1, Listed, ReadKept
<1> QED  BY <1>1, <1>2, OnlyListsKeep, RewritesKeep DEF Register

LEMMA LeftKeeps ==
  ASSUME RegistryInv, NEW c \in Request, Left(c)
  PROVE  RegistryInv'
<1> DEFINE n == request[c].net
           op == request[c].op
           how == request[c].how
<1>1. Register /\ World /\ n \in Net \cup {NoNet}
  BY DEF RegistryInv, World, Sessions
<1>2. Saved \in Archives /\ [Saved EXCEPT ![n] = "absent"] \in Archives
  BY <1>1, ArchivesSaved DEF Archives
<1>3. active' = NoNet /\ sealing' = sealing
  BY DEF Left
<1>4. CASE op = "leave" /\ CallEnds(c) /\ archive' = Saved
           /\ UNCHANGED <<vault, bound, stored, strange>>
  BY <1>1, <1>2, <1>3, <1>4, EndsKeep DEF RegistryInv, Register, World
<1>5. CASE /\ op = "remove" /\ CallEnds(c) /\ UNCHANGED bound
           /\ IF how = "wrong" THEN OnlyLists /\ UNCHANGED stored ELSE Removes(n)
           /\ archive' = IF how = "purge" /\ Real(n) \in List
                         THEN [Saved EXCEPT ![n] = "absent"] ELSE Saved
  <2>1. Register'
    BY <1>1, <1>3, <1>5, OnlyListsKeep, RemovesKeep DEF Register
  <2>2. World'
    BY <1>1, <1>2, <1>3, <1>5, EndsKeep DEF World
  <2> QED  BY <2>1, <2>2 DEF RegistryInv
<1>6. CASE /\ op \in {"create", "open", "join"}
           /\ IF op = "create" THEN BindsEmptied(n, Saved) ELSE Binds(n, Saved)
           /\ Goes(c, IF op = "join" THEN "cloning" ELSE "opening")
           /\ UNCHANGED <<vault, stored, strange>>
  <2>1. archive' \in Archives /\ bound' \in Net \cup {NoNet}
    <3>1. BindsEmptied(n, Saved) => archive' \in Archives /\ bound' \in Net \cup {NoNet}
      BY <1>1, <1>2 DEF BindsEmptied, Archives
    <3> QED BY <1>1, <1>2, <1>6, <3>1, BindsKeep
  <2>2. "cloning" \in Steps /\ "opening" \in Steps
    BY DEF Steps
  <2>3. request' \in [Request -> Sessions] /\ Calls'
    BY <1>1, <1>6, <2>2, GoesKeep
  <2> QED  BY <1>1, <1>3, <1>6, <2>1, <2>3 DEF RegistryInv, Register, World
<1> QED  BY <1>4, <1>5, <1>6 DEF Left

\* The steps that follow the waits of an opening or of a clone
LEMMA ContinuationsKeep ==
  ASSUME RegistryInv, NEW c \in Request,
         \/ Enters(c) \/ OpeningFails(c) \/ FailureLeft(c)
         \/ BundleArrives(c) \/ CloneFails(c) \/ ImportDone(c)
  PROVE  RegistryInv'
<1> DEFINE n == request[c].net
<1>1. Register /\ World /\ n \in Net \cup {NoNet} /\ Saved \in Archives
      /\ Purged(n) \in Archives
  BY ArchivesSaved DEF RegistryInv, World, Sessions
<1>2. "failing" \in Steps /\ "importing" \in Steps
  BY DEF Steps
<1>3. request[c].step \in {"cloning", "importing"} => request[c].op = "join"
  BY <1>1 DEF World, Calls
<1>4. CASE Enters(c)
  <2>1. /\ archive' = [archive EXCEPT ![bound] = IF @ = "absent" THEN @ ELSE "full"]
        /\ active' = n /\ CallEnds(c) /\ UNCHANGED <<sealing, bound, stored>>
        /\ Rewrites(List) \/ OnlyLists
    BY <1>4 DEF Enters
  <2>2. archive' \in Archives
    BY <1>1, <2>1 DEF World, Archives
  <2>3. Register'
    BY <2>1, UpdatesKeep
  <2>4. request' \in [Request -> Sessions] /\ Calls'
    BY <1>1, <2>1, EndsKeep
  <2> QED  BY <1>1, <2>1, <2>2, <2>3, <2>4 DEF RegistryInv, World
<1>5. CASE OpeningFails(c)
  BY <1>1, <1>2, <1>5, GoesKeep DEF OpeningFails, RegistryInv, Register, World
<1>6. CASE FailureLeft(c)
  <2>1. /\ active' = NoNet /\ CallEnds(c) /\ UNCHANGED <<sealing, bound>>
        /\ \/ Removes(n) /\ archive' = Purged(n)
           \/ archive' = Saved /\ UNCHANGED <<vault, stored, strange>>
    BY <1>6 DEF FailureLeft
  <2>2. Register'
    BY <1>1, <2>1, RemovesKeep DEF Register
  <2> QED  BY <1>1, <2>1, <2>2, EndsKeep DEF RegistryInv, World
<1>7. CASE BundleArrives(c)
  <2>1. /\ archive' = [archive EXCEPT ![bound] = "empty"] /\ Goes(c, "importing")
        /\ request[c].op = "join"
        /\ UNCHANGED <<vault, sealing, active, bound, stored, strange>>
    BY <1>3, <1>7 DEF BundleArrives
  <2>2. archive' \in Archives
    BY <1>1, <2>1 DEF World, Archives
  <2> QED  BY <1>1, <1>2, <2>1, <2>2, GoesKeep DEF RegistryInv, Register, World
<1>8. CASE CloneFails(c)
  <2>1. /\ Goes(c, "failing") /\ UNCHANGED <<sealing, active, bound>>
        /\ \/ Removes(n) /\ archive' = Purged(n)
           \/ UNCHANGED <<vault, archive, stored, strange>>
    BY <1>8 DEF CloneFails
  <2>2. Register'
    BY <1>1, <2>1, RemovesKeep DEF Register
  <2> QED  BY <1>1, <1>2, <2>1, <2>2, GoesKeep DEF RegistryInv, World
<1>9. CASE ImportDone(c)
  <2>1. /\ active' \in {n, active} /\ CallEnds(c) /\ (Rewrites(List) \/ OnlyLists)
        /\ UNCHANGED <<sealing, archive, bound, stored>>
    BY <1>9 DEF ImportDone
  <2>2. Register'
    BY <2>1, UpdatesKeep
  <2>3. request' \in [Request -> Sessions] /\ Calls'
    BY <1>1, <2>1, EndsKeep
  <2> QED  BY <1>1, <2>1, <2>2, <2>3 DEF RegistryInv, World
<1> QED  BY <1>4, <1>5, <1>6, <1>7, <1>8, <1>9

\* A restart: what a key of the last process sealed is lost, and a write that
\* was cut short spares the file.
LEMMA RestartKeeps ==
  ASSUME RegistryInv, ProcessRestarts
  PROVE  RegistryInv'
<1>1. Register /\ World
  BY DEF RegistryInv
<1>2. \A f \in File : /\ Forgotten(f) \in File /\ Forgotten(f).entries = f.entries
                      /\ Forgotten(f).key = IF f.key = "now" THEN "lost" ELSE f.key
  BY DEF Forgotten, File
<1>3. PICK cut \in {"none", "copied", "torn"}, copy \in File :
        /\ copy = CASE cut = "none"   -> vault.copy
                    [] cut = "copied" -> vault.file
                    [] cut = "torn"   -> [key |-> "torn", entries |-> {}]
        /\ vault' = [file |-> Forgotten(vault.file), copy |-> Forgotten(copy)]
        /\ strange' = IF strange = 1 /\ cut # "none" THEN 2 ELSE strange
  <2>1. [key |-> "torn", entries |-> {}] \in File
    BY DEF File, Entries
  <2>2. vault.copy \in File /\ vault.file \in File
    BY <1>1 DEF Register, Vaults
  <2> QED  BY <2>1, <2>2, Zenon DEF ProcessRestarts
<1>4. vault.file \in File /\ vault.copy \in File /\ strange \in 0..2
  BY <1>1 DEF Register, Vaults
<1>5. /\ vault'.file = Forgotten(vault.file) /\ vault'.copy = Forgotten(copy)
      /\ vault' \in Vaults
  BY <1>2, <1>3, <1>4 DEF Vaults
<1>6. sealing' \in {"kept", "now"} /\ stored' = stored /\ archive' = archive
      /\ active' = NoNet /\ bound' = NoNet /\ request' = [c \in Request |-> NoRequest]
  BY DEF ProcessRestarts
<1>7. cut # "none" => strange' # 1
  BY <1>3, <1>4
<1>8. Keeps(vault', sealing', strange', stored')
  <2>1. CASE cut = "none"
    BY <1>1, <1>2, <1>3, <1>4, <1>5, <1>6, <2>1 DEF Register, Keeps
  <2>2. CASE cut = "copied"
    BY <1>1, <1>2, <1>3, <1>4, <1>5, <1>6, <1>7, <2>2 DEF Register, Keeps
  <2>3. CASE cut = "torn"
    BY <1>1, <1>2, <1>3, <1>4, <1>5, <1>6, <1>7, <2>3 DEF Register, Keeps
  <2> QED  BY <2>1, <2>2, <2>3
<1>9. Register'
  BY <1>1, <1>3, <1>4, <1>5, <1>6, <1>8 DEF Register
<1>10. NoRequest \in Sessions /\ NoRequest.step = "idle" /\ NoRequest.how = "none"
  BY DEF NoRequest, Sessions, Steps, Hows
<1>11. World'
  BY <1>1, <1>6, <1>10 DEF World, Calls
<1> QED  BY <1>9, <1>11 DEF RegistryInv

-----------------------------------------------------------------------------
\* Every step keeps the invariant.
LEMMA RegistryStep == RegistryInv /\ [RegistryNext]_registryVars => RegistryInv'
<1> SUFFICES ASSUME RegistryInv, [RegistryNext]_registryVars PROVE RegistryInv'
  OBVIOUS
<1>1. Register /\ World
  BY DEF RegistryInv
<1>2. CASE ListNetworks
  <2>1. OnlyLists /\ UNCHANGED <<sealing, archive, active, bound, request, stored>>
    BY <1>2 DEF ListNetworks
  <2>2. Register'
    BY <2>1, UpdatesKeep
  <2> QED  BY <1>1, <2>1, <2>2 DEF World, Calls, RegistryInv
<1>3. CASE UpdateEntry
  <2>1. Rewrites(List) /\ UNCHANGED <<sealing, archive, active, bound, request, stored>>
    BY <1>3 DEF UpdateEntry
  <2>2. Register'
    BY <2>1, UpdatesKeep
  <2> QED  BY <1>1, <2>1, <2>2 DEF World, Calls, RegistryInv
<1>4. CASE ImportSaved
  BY <1>1, <1>4, ArchivesSaved DEF ImportSaved, Register, World, Calls, RegistryInv
<1>5. CASE ProcessRestarts
  BY <1>5, RestartKeeps
<1>6. CASE \E c \in Request, n \in Net :
             CreateNetwork(c, n) \/ JoinNetwork(c, n) \/ ActivateNetwork(c, n)
  BY <1>6, BeginningsKeep
<1>7. CASE \E c \in Request, n \in Net, how \in {"purge", "keep", "wrong"} :
             RemoveNetwork(c, n, how)
  BY <1>7, RemoveNetworkKeeps
<1>8. CASE \E c \in Request : Deactivate(c)
  BY <1>8, DeactivateKeeps
<1>9. CASE \E c \in Request : Left(c)
  BY <1>9, LeftKeeps
<1>10. CASE \E c \in Request :
              \/ Enters(c) \/ OpeningFails(c) \/ FailureLeft(c)
              \/ BundleArrives(c) \/ CloneFails(c) \/ ImportDone(c)
  BY <1>10, ContinuationsKeep
<1>11. CASE UNCHANGED registryVars
  BY <1>1, <1>11 DEF registryVars, Register, World, Calls, RegistryInv
<1> QED
  BY <1>2, <1>3, <1>4, <1>5, <1>6, <1>7, <1>8, <1>9, <1>10, <1>11, Zenon DEF RegistryNext

\* The file, its copy, the directories and the calls stay in their sets.
THEOREM RegistryTypes == RegistrySpec => []RegistryTypeOK
<1> QED  BY RegistryStart, RegistryStep, Typed, PTL DEF RegistrySpec

\* A process with the keyring reads what was entered and not removed, in any
\* order of calls, restarts and writes cut short, until a second write under
\* another key (write and _loadOrCreateKey of the vault).
THEOREM RegistryIsKept == RegistrySpec => []RegistrySurvives
<1>1. RegistryInv => RegistrySurvives
  BY ReadKept DEF RegistrySurvives, RealOf
<1> QED  BY <1>1, RegistryStart, RegistryStep, PTL DEF RegistrySpec

-----------------------------------------------------------------------------
\* A step that takes an archive is one of those that may.
LEMMA ArchiveStep ==
  ASSUME RegistryInv, [RegistryNext]_registryVars, NEW n \in Net,
         archive[n] = "full", archive'[n] # "full"
  PROVE  ArchiveMayGo(n)
<1>1. World
  BY DEF RegistryInv
<1>0. ASSUME NEW c \in Request
       PROVE  /\ CallEnds(c) => request'[c].step = "idle"
              /\ \A step : Goes(c, step) => request'[c].step = step
  BY <1>1, <1>0 DEF World, Sessions, CallEnds, Goes, NoRequest
<1>2. /\ Saved[n] = "full" /\ Saved \in Archives
      /\ \A m \in Net \cup {NoNet} : m # n => Purged(m)[n] = "full"
  BY <1>1, ArchivesSaved
<1>3. archive' # archive /\ archive' # Saved
  BY <1>2
<1>4. \A m \in Net \cup {NoNet}, A \in Archives : Binds(m, A) => A[n] # "full"
  BY DEF Binds, Archives
<1>5. \A c \in Request : request[c].net \in Net \cup {NoNet}
  BY <1>1 DEF World, Sessions
<1>6. \A c \in Request, m \in Net, op \in Ops, how \in Hows, step \in Steps :
        ~Starts(c, op, m, how, step)
  BY <1>1, <1>3, <1>4 DEF Starts, World
<1>7. ~(ListNetworks \/ UpdateEntry \/ ImportSaved \/ ProcessRestarts)
  BY <1>3 DEF ListNetworks, UpdateEntry, ImportSaved, ProcessRestarts
<1>8. ASSUME NEW c \in Request, NEW m \in Net,
             CreateNetwork(c, m) \/ JoinNetwork(c, m) \/ ActivateNetwork(c, m)
      PROVE  FALSE
  <2>1. /\ "create" \in Ops /\ "join" \in Ops /\ "open" \in Ops
        /\ "new" \in Hows /\ "known" \in Hows /\ "opening" \in Steps /\ "cloning" \in Steps
    BY DEF Ops, Hows, Steps
  <2>2. \/ Starts(c, "create", m, "new", "opening")
        \/ Starts(c, "join", m, "known", "cloning") \/ Starts(c, "join", m, "new", "cloning")
        \/ Starts(c, "open", m, "known", "opening")
    BY <1>8, Zenon DEF CreateNetwork, JoinNetwork, ActivateNetwork
  <2> QED  BY <1>6, <2>1, <2>2, Zenon
<1>9. ASSUME NEW c \in Request, NEW m \in Net, NEW how \in {"purge", "keep", "wrong"},
             RemoveNetwork(c, m, how)
      PROVE  ArchiveMayGo(n)
  <2>1. archive' = IF how = "purge" THEN Purged(m) ELSE archive
    BY <1>3, <1>9 DEF RemoveNetwork
  <2>2. how = "purge" /\ m = n
    BY <1>2, <1>3, <2>1
  <2> QED  BY <1>9, <2>2 DEF ArchiveMayGo
<1>10. ASSUME NEW c \in Request, Deactivate(c) \/ OpeningFails(c) \/ ImportDone(c)
       PROVE  FALSE
  BY <1>3, <1>10 DEF Deactivate, OpeningFails, ImportDone
<1>11. ASSUME NEW c \in Request, Left(c) PROVE ArchiveMayGo(n)
  <2> DEFINE m == request[c].net
  <2>1. CASE archive' = Saved
    BY <1>3, <2>1
  <2>2. CASE Binds(m, Saved)
    BY <1>2, <1>4, <1>5, <2>2
  <2>3. CASE /\ request[c].op = "remove" /\ request[c].how = "purge" /\ CallEnds(c)
             /\ archive' = [Saved EXCEPT ![m] = "absent"]
    <3>1. m = n
      BY <1>2, <2>3 DEF Archives
    <3> QED  BY <1>11, <1>0, <2>3, <3>1 DEF ArchiveMayGo, Left
  <2>4. CASE /\ request[c].op = "create" /\ Goes(c, "opening") /\ BindsEmptied(m, Saved)
    <3>1. m = n
      BY <1>2, <2>4 DEF Archives, BindsEmptied
    <3>2. request[c].step = "leaving" /\ request'[c].step = "opening"
      BY <1>11, <1>0, <2>4, Zenon DEF Left
    <3> QED  BY <2>4, <3>1, <3>2 DEF ArchiveMayGo
  <2> QED  BY <1>11, <2>1, <2>2, <2>3, <2>4 DEF Left
<1>12. ASSUME NEW c \in Request, Enters(c) PROVE FALSE
  BY <1>1, <1>12 DEF Enters, World, Archives
<1>13. ASSUME NEW c \in Request, FailureLeft(c) PROVE ArchiveMayGo(n)
  <2>1. /\ request[c].op = "create" /\ request[c].step = "failing"
        /\ archive' = Purged(request[c].net) /\ request'[c].step = "idle"
    BY <1>3, <1>13, <1>0 DEF FailureLeft
  <2>2. request[c].net = n
    BY <1>2, <1>5, <2>1
  <2> QED  BY <2>1, <2>2 DEF ArchiveMayGo
<1>14. ASSUME NEW c \in Request, BundleArrives(c) PROVE ArchiveMayGo(n)
  <2>1. /\ request[c].step = "cloning" /\ Goes(c, "importing")
        /\ archive' = [archive EXCEPT ![bound] = "empty"]
    BY <1>14 DEF BundleArrives
  <2>2. bound = n
    BY <1>1, <2>1 DEF World, Archives
  <2>3. request'[c].step = "importing"
    BY <1>1, <2>1 DEF Goes, World, Sessions
  <2> QED  BY <2>1, <2>2, <2>3 DEF ArchiveMayGo
<1>15. ASSUME NEW c \in Request, CloneFails(c) PROVE ArchiveMayGo(n)
  <2>1. /\ request[c].step \in {"cloning", "importing"} /\ request[c].how = "new"
        /\ archive' = Purged(request[c].net) /\ request'[c].step = "failing"
    BY <1>3, <1>15, <1>0 DEF CloneFails
  <2>2. request[c].net = n /\ request[c].op = "join"
    BY <1>1, <1>2, <1>5, <2>1 DEF World, Calls
  <2> QED  BY <2>1, <2>2 DEF ArchiveMayGo
<1>16. ~UNCHANGED registryVars
  BY <1>3 DEF registryVars
<1> QED
  BY <1>7, <1>8, <1>9, <1>10, <1>11, <1>12, <1>13, <1>14, <1>15, <1>16, Zenon DEF RegistryNext

\* Whatever calls overlap, and wherever one of them fails, an archive is taken
\* only by what ArchiveMayGo lists (removeNetwork, joinNetwork and createNetwork
\* of the activator, provisionEmpty, the import of a bundle), for any networks
\* and any number of calls at once.
THEOREM ArchivesOutlive == RegistrySpec => ArchivesOutliveFailures
<1>1. RegistryInv /\ [RegistryNext]_registryVars =>
        [\A n \in Net : archive[n] = "full" /\ archive'[n] # "full"
                        => ArchiveMayGo(n)]_registryVars
  BY ArchiveStep
<1> QED  BY <1>1, RegistryStart, RegistryStep, PTL DEF RegistrySpec, ArchivesOutliveFailures
=============================================================================
