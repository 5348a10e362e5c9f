--------------------------- MODULE NetworkRegistry ---------------------------
(***************************************************************************)
(* The registry of the networks of a computer (networks/registry): a list  *)
(* in one encrypted file with a copy, under a key that the keyring of the  *)
(* operating system keeps; the directories of the archives; and the calls  *)
(* that create, join, open, leave and remove a network                     *)
(* (networks/lifecycle/network_activator.js).  An entry is "real", with    *)
(* the identity its code gives, or "orphan", made from a directory that    *)
(* has no entry: its identity is shorter than that of any code, so that no *)
(* code opens or removes it.                                               *)
(***************************************************************************)
EXTENDS Naturals

CONSTANTS Net,       \* networks, each with its code and its directory
          Request,   \* calls of the handlers of the networks, at once
          NoNet

ASSUME RegistryAssumption == NoNet \notin Net

VARIABLES vault,    \* [file, copy]: networks.vault and its .bak
          sealing,  \* the key of this process: "kept" in the keyring, or "now" only
          archive,  \* per network: its directory, "absent", "empty" or "full"
          active,   \* the network of the session, or NoNet
          bound,    \* the network whose directory the databases use, or NoNet
          request,  \* per call: [op, net, step, how]
          stored,   \* networks whose entry was written under the kept key and
                    \* not removed since
          strange   \* writes under other keys since the registry was last
                    \* readable with the kept one, up to two

registryVars == <<vault, sealing, archive, active, bound, request, stored, strange>>

Entries == SUBSET (Net \X {"real", "orphan"})
File == [key : {"none", "kept", "now", "lost", "torn"}, entries : Entries]
NoFile == [key |-> "none", entries |-> {}]
NoRequest == [op |-> "none", net |-> NoNet, step |-> "idle", how |-> "none"]

RegistryTypeOK ==
  /\ vault \in [file : File, copy : File]
  /\ sealing \in {"kept", "now"}
  /\ archive \in [Net -> {"absent", "empty", "full"}]
  /\ active \in Net \cup {NoNet} /\ bound \in Net \cup {NoNet}
  /\ request \in [Request ->
       [op : {"none", "create", "join", "open", "leave", "remove"}, net : Net \cup {NoNet},
        step : {"idle", "leaving", "opening", "cloning", "importing", "failing"},
        how : {"none", "known", "new", "purge", "keep", "wrong"}]]
  /\ stored \subseteq Net /\ strange \in 0..2

RegistryInit ==
  /\ vault = [file |-> NoFile, copy |-> NoFile]
  /\ sealing \in {"kept", "now"}
  /\ archive = [n \in Net |-> "absent"]
  /\ active = NoNet /\ bound = NoNet
  /\ request = [c \in Request |-> NoRequest]
  /\ stored = {} /\ strange = 0

-----------------------------------------------------------------------------
\* The file

\* read: the copy is looked at when the file cannot be decrypted.
Read == IF vault.file.key = sealing THEN vault.file.entries
        ELSE IF vault.copy.key = sealing THEN vault.copy.entries ELSE {}

Real(n) == <<n, "real">>

\* list: a directory without an entry gets one.
List == Read \cup {<<n, "orphan">> : n \in {m \in Net :
                      archive[m] # "absent" /\ \A e \in Read : e[1] # m}}

\* Mutant: the new registry is written over the file, without a copy of the old.
VaultOverwritten(v, E) == [v EXCEPT !.file = [key |-> sealing, entries |-> E]]

\* write: the old file becomes the copy, then the new one takes its place.
VaultWritten(v, E) ==
  [file |-> [key |-> sealing, entries |-> E],
   copy |-> IF v.file.key = "none" THEN v.copy ELSE v.file]

\* list writes what it added.
AfterList == IF List = Read THEN vault ELSE VaultWritten(vault, List)

\* The count of the writes under other keys
StrangeAfter(w, count) ==
  IF sealing = "now" THEN (IF w + count < 2 THEN w + count ELSE 2)
  ELSE IF w = 1 /\ count > 0 THEN 0 ELSE w
Writes(count) == strange' = StrangeAfter(strange, count)

Listings == IF List = Read THEN 0 ELSE 1

\* The entries are listed, then written with a change.
Rewrites(E) == vault' = VaultWritten(AfterList, E) /\ Writes(Listings + 1)
OnlyLists   == vault' = AfterList /\ Writes(Listings)

Adds(n) == /\ Rewrites(List \cup {Real(n)})
           /\ stored' = IF sealing = "kept" THEN stored \cup {n} ELSE stored

\* remove with the right code, of an entry that is still there
Removes(n) == IF Real(n) \in List
              THEN Rewrites(List \ {Real(n)}) /\ stored' = stored \ {n}
              ELSE OnlyLists /\ UNCHANGED stored

Purged(n) == IF Real(n) \in List THEN [archive EXCEPT ![n] = "absent"] ELSE archive

\* networks:list, when it adds an entry
ListNetworks ==
  /\ List # Read /\ OnlyLists
  /\ UNCHANGED <<sealing, archive, active, bound, request, stored>>

\* update: rename, touch, setRole, setRememberCode, setAutoStart
UpdateEntry ==
  /\ List # {} /\ Rewrites(List)
  /\ UNCHANGED <<sealing, archive, active, bound, request, stored>>

-----------------------------------------------------------------------------
\* The calls

Asks(c, op, n, how, step) ==
  request' = [request EXCEPT ![c] = [op |-> op, net |-> n, step |-> step, how |-> how]]
Goes(c, step) == request' = [request EXCEPT ![c].step = step]
CallEnds(c) == request' = [request EXCEPT ![c] = NoRequest]

\* bindWorkspace: the databases use the directory, which is created.
Binds(n, A) == /\ bound' = n
               /\ archive' = [A EXCEPT ![n] = IF @ = "absent" THEN "empty" ELSE @]

\* provisionEmpty: what is in the directory it has bound is unlinked.
BindsEmptied(n, A) == bound' = n /\ archive' = [A EXCEPT ![n] = "empty"]

\* The first wait of a call: the teardown of the network that is open, if there
\* is one; otherwise its workspace is bound at once (that of a creation is new).
Starts(c, op, n, how, step) ==
  IF active # NoNet
  THEN Asks(c, op, n, how, "leaving") /\ UNCHANGED <<archive, bound>>
  ELSE Asks(c, op, n, how, step) /\ Binds(n, archive)

Unused(n) == /\ archive[n] = "absent"
             /\ \A k \in {"real", "orphan"} :
                  <<n, k>> \notin vault.file.entries \cup vault.copy.entries
             /\ \A c \in Request : request[c].net # n

\* createNetwork, of a new code: the entry is written and updated at once.
CreateNetwork(c, n) ==
  /\ request[c].op = "none" /\ active # n /\ Unused(n)
  /\ LET E == List \cup {Real(n)} IN vault' = VaultWritten(VaultWritten(AfterList, E), E)
  /\ Writes(Listings + 2)
  /\ stored' = IF sealing = "kept" THEN stored \cup {n} ELSE stored
  /\ Starts(c, "create", n, "new", "opening")
  /\ UNCHANGED <<sealing, active>>

\* joinNetwork: an entry that is not known is added before the node is asked.
JoinNetwork(c, n) ==
  /\ request[c].op = "none"
  /\ IF Real(n) \in List
     THEN OnlyLists /\ UNCHANGED stored /\ Starts(c, "join", n, "known", "cloning")
     ELSE Adds(n) /\ Starts(c, "join", n, "new", "cloning")
  /\ UNCHANGED <<sealing, active>>

\* activate, by the user, at the start or after a recovery
ActivateNetwork(c, n) ==
  /\ request[c].op = "none"
  /\ Real(n) \in List /\ active # n
  /\ OnlyLists
  /\ Starts(c, "open", n, "known", "opening")
  /\ UNCHANGED <<sealing, active, stored>>

Deactivate(c) ==
  /\ request[c].op = "none" /\ active # NoNet
  /\ Asks(c, "leave", active, "none", "leaving")
  /\ UNCHANGED <<vault, sealing, archive, active, bound, stored, strange>>

\* removeNetwork: the session is left before the code is looked at; what is not
\* open is removed at once.
RemoveNetwork(c, n, how) ==
  /\ request[c].op = "none" /\ Real(n) \in List
  /\ IF active = n
     THEN /\ OnlyLists /\ Asks(c, "remove", n, how, "leaving")
          /\ UNCHANGED <<archive, stored>>
     ELSE /\ IF how = "wrong" THEN OnlyLists /\ UNCHANGED stored ELSE Removes(n)
          /\ archive' = IF how = "purge" THEN Purged(n) ELSE archive
          /\ UNCHANGED request
  /\ UNCHANGED <<sealing, active, bound>>

\* What is open is saved where the databases are bound.
Saved == IF active # NoNet /\ bound # NoNet /\ archive[bound] = "empty"
         THEN [archive EXCEPT ![bound] = "full"] ELSE archive

\* The teardown has ended: what was open is saved, its session is over, and the
\* call goes on.
Left(c) ==
  /\ request[c].step = "leaving"
  /\ active' = NoNet
  /\ LET n == request[c].net
         op == request[c].op
         how == request[c].how
     IN  \/ /\ op = "leave" /\ CallEnds(c) /\ archive' = Saved
            /\ UNCHANGED <<vault, bound, stored, strange>>
         \/ /\ op = "remove" /\ CallEnds(c)
            /\ IF how = "wrong" THEN OnlyLists /\ UNCHANGED stored ELSE Removes(n)
            /\ archive' = IF how = "purge" /\ Real(n) \in List
                          THEN [Saved EXCEPT ![n] = "absent"] ELSE Saved
            /\ UNCHANGED bound
         \/ /\ op \in {"create", "open", "join"}
            /\ Goes(c, IF op = "join" THEN "cloning" ELSE "opening")
            /\ IF op = "create" THEN BindsEmptied(n, Saved) ELSE Binds(n, Saved)
            /\ UNCHANGED <<vault, stored, strange>>
  /\ UNCHANGED sealing

\* provisionEmpty and openExisting save what they open; touch then fails when
\* the entry is gone, and the session stays.
Enters(c) ==
  /\ request[c].step = "opening"
  /\ LET n == request[c].net
     IN  /\ archive' = [archive EXCEPT ![bound] = IF @ = "absent" THEN @ ELSE "full"]
         /\ active' = n
         /\ IF Real(n) \in List THEN Rewrites(List) ELSE OnlyLists
  /\ CallEnds(c)
  /\ UNCHANGED <<sealing, bound, stored>>

\* The teardown after a failure; a network that was being created is removed
\* when it has ended.
OpeningFails(c) ==
  /\ request[c].step = "opening"
  /\ Goes(c, "failing")
  /\ UNCHANGED <<vault, sealing, archive, active, bound, stored, strange>>

FailureLeft(c) ==
  /\ request[c].step = "failing"
  /\ active' = NoNet /\ CallEnds(c)
  /\ IF request[c].op = "create"
     THEN Removes(request[c].net) /\ archive' = Purged(request[c].net)
     ELSE archive' = Saved /\ UNCHANGED <<vault, stored, strange>>
  /\ UNCHANGED <<sealing, bound>>

\* The bundle has come: the files of the directory that is bound by now are
\* unlinked, or the directory is made again, before it is imported.
BundleArrives(c) ==
  /\ request[c].step = "cloning"
  /\ Goes(c, "importing")
  /\ archive' = [archive EXCEPT ![bound] = "empty"]
  /\ UNCHANGED <<vault, sealing, active, bound, stored, strange>>

\* Mutant: a join that fails removes the network, known or not.
CloneFailsAlike(c) ==
  /\ request[c].step \in {"cloning", "importing"}
  /\ Goes(c, "failing")
  /\ Removes(request[c].net) /\ archive' = Purged(request[c].net)
  /\ UNCHANGED <<sealing, active, bound>>

\* The node cannot be reached, or the import fails: an entry that the call added
\* is removed with its directory, whatever was in it before.
CloneFails(c) ==
  /\ request[c].step \in {"cloning", "importing"}
  /\ Goes(c, "failing")
  /\ IF request[c].how = "new"
     THEN Removes(request[c].net) /\ archive' = Purged(request[c].net)
     ELSE UNCHANGED <<vault, archive, stored, strange>>
  /\ UNCHANGED <<sealing, active, bound>>

\* The session begins, unless the renaming fails first because the entry is gone.
ImportDone(c) ==
  /\ request[c].step = "importing"
  /\ LET n == request[c].net
     IN  \/ Real(n) \in List /\ active' = n /\ Rewrites(List)
         \/ Real(n) \notin List /\ active' \in {n, active} /\ OnlyLists
  /\ CallEnds(c)
  /\ UNCHANGED <<sealing, archive, bound, stored>>

\* The debounced save of what was imported
ImportSaved ==
  /\ archive # Saved /\ archive' = Saved
  /\ UNCHANGED <<vault, sealing, active, bound, request, stored, strange>>

-----------------------------------------------------------------------------
\* The process ends and starts again, with the keyring or without.  A write that
\* was cut short leaves the file, and a copy that is new or torn.
Forgotten(f) == [f EXCEPT !.key = IF @ = "now" THEN "lost" ELSE @]

ProcessRestarts ==
  /\ sealing' \in {"kept", "now"}
  /\ \E cut \in {"none", "copied", "torn"} :
       /\ LET copy == CASE cut = "none"   -> vault.copy
                        [] cut = "copied" -> vault.file
                        [] cut = "torn"   -> [key |-> "torn", entries |-> {}]
          IN vault' = [file |-> Forgotten(vault.file), copy |-> Forgotten(copy)]
       /\ strange' = IF strange = 1 /\ cut # "none" THEN 2 ELSE strange
  /\ active' = NoNet /\ bound' = NoNet
  /\ request' = [c \in Request |-> NoRequest]
  /\ UNCHANGED <<archive, stored>>

RegistryNext ==
  \/ ListNetworks \/ UpdateEntry \/ ImportSaved \/ ProcessRestarts
  \/ \E c \in Request :
       \/ \E n \in Net : \/ CreateNetwork(c, n) \/ JoinNetwork(c, n) \/ ActivateNetwork(c, n)
                         \/ \E how \in {"purge", "keep", "wrong"} : RemoveNetwork(c, n, how)
       \/ Deactivate(c) \/ Left(c) \/ Enters(c) \/ OpeningFails(c) \/ FailureLeft(c)
       \/ BundleArrives(c) \/ CloneFails(c) \/ ImportDone(c)

RegistrySpec == RegistryInit /\ [][RegistryNext]_registryVars

-----------------------------------------------------------------------------
\* A process with the keyring reads exactly the networks that were entered and
\* not removed since, whatever writes a crash cut short and even after a process
\* without the keyring has written over the file once: the copy holds what it
\* could not read.  A second write, also one that a crash cuts short, is what
\* loses the registry.
RegistrySurvives ==
  sealing = "kept" /\ strange < 2 => stored = {n \in Net : Real(n) \in Read}

\* What may take the archive of n: a removal that asks for it, with the right
\* code; the failure of a join of a network that the registry did not list; a
\* creation whose teardown ends, before it opens the network or after it failed;
\* and a bundle, which empties what is bound.
ArchiveMayGo(n) ==
  \/ \E c \in Request : RemoveNetwork(c, n, "purge")
  \/ \E c \in Request :
       \/ /\ request[c].net = n /\ request'[c].step # request[c].step
          /\ \/ request[c].op = "remove" /\ request[c].how = "purge"
             \/ request[c].op = "join" /\ request[c].how = "new"
             \/ request[c].op = "create" /\ request[c].step \in {"leaving", "failing"}
       \/ bound = n /\ request[c].step = "cloning" /\ request'[c].step = "importing"

\* An archive that is there goes only by a removal that asks for it with the
\* right code, by a bundle, which empties the directory that is bound when it
\* comes, by the failure of a join of a network that the registry did not list,
\* or, when another call has opened the network that is being created, by the
\* creation: as it empties the directory after its teardown, or at the end of
\* the teardown of its failure.  It goes by no other failure, in any order of
\* the calls.
ArchivesOutliveFailures ==
  [][\A n \in Net : archive[n] = "full" /\ archive'[n] # "full" => ArchiveMayGo(n)]_registryVars
=============================================================================
