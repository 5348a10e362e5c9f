--------------------------- MODULE ProgramUpdate ---------------------------
(***************************************************************************)
(* The updates of the program itself: packages taken from another node of  *)
(* the network (maybeAdoptLanUpdate in core/updaterService.js,             *)
(* core/lanUpdateFetcher.js) or from the repository by electron-updater,   *)
(* and the checks that start them (core/ipcRouter.js).  The version that   *)
(* runs is 0 and every other version is newer.  The mode of the updates    *)
(* and the back-off after a failure say who may start an adoption and      *)
(* when; the user may at any time, so the model lets it begin at any time. *)
(***************************************************************************)
EXTENDS Naturals, FiniteSets

CONSTANTS MaxProgram,     \* versions (a bound)
          FallbackAfter   \* failed transfers before the repository is tried (2)

ASSUME ProgramAssumption == {MaxProgram, FallbackAfter} \subseteq Nat \ {0}

VARIABLES readyVersion,  \* _pendingVersion: the update to be installed, or 0
          downloading,   \* _isDownloading
          adopting,      \* _adoptingLan
          adoption,      \* the call of maybeAdoptLanUpdate: [step, version]
          failures,      \* failed transfers per version
          asking,        \* a check by the user waits for the answers of the nodes
          checking,      \* electron-updater looks into the repository
          found,         \* the version of its last answer, or 0
          internet,      \* the version it downloads, or 0
          published,     \* the version in the repository
          packages,      \* versions whose package is in the folder of the updates
          unmarked       \* the mark of a download was taken off while it went on

updateVars == <<readyVersion, downloading, adopting, adoption, failures, asking, checking,
                found, internet, published, packages, unmarked>>
repositoryVars == <<checking, found, internet, published>>

Program == 1..MaxProgram
NoAdoption == [step |-> "none", version |-> 0]

UpdateTypeOK ==
  /\ readyVersion \in 0..MaxProgram /\ found \in 0..MaxProgram
  /\ internet \in 0..MaxProgram /\ published \in Program
  /\ downloading \in BOOLEAN /\ adopting \in BOOLEAN /\ asking \in BOOLEAN
  /\ checking \in BOOLEAN /\ unmarked \in BOOLEAN
  /\ adoption \in [step : {"none", "info", "verify", "transfer"}, version : 0..MaxProgram]
  /\ failures \in [Program -> 0..FallbackAfter]
  /\ packages \subseteq Program

UpdateInit ==
  /\ readyVersion = 0 /\ downloading = FALSE /\ adopting = FALSE
  /\ adoption = NoAdoption /\ failures = [v \in Program |-> 0]
  /\ asking = FALSE /\ checking = FALSE /\ found = 0 /\ internet = 0
  /\ published = 1 /\ packages = {} /\ unmarked = FALSE

\* Mutant: an adoption is not seen before it downloads.
DownloadInProgress == downloading \/ readyVersion # 0

\* isUpdateInProgress
InProgress == downloading \/ adopting \/ readyVersion # 0

-----------------------------------------------------------------------------
\* Adoption of a package of another node

Adopts(v) ==
  /\ adopting' = TRUE
  /\ adoption' = [step |-> "info", version |-> v]

\* A handshake, a ping, an announcement or the user names a node and a version.
Adopt(v) ==
  /\ ~InProgress /\ adoption = NoAdoption
  /\ Adopts(v)
  /\ UNCHANGED <<readyVersion, downloading, failures, asking, repositoryVars, packages,
                 unmarked>>

\* finally: whatever started, both marks go.
AdoptionOver == adopting' = FALSE /\ downloading' = FALSE /\ adoption' = NoAdoption

Fails(v) == failures' = [failures EXCEPT ![v] = IF @ < FallbackAfter THEN @ + 1 ELSE @]
Succeeds(v) == failures' = [failures EXCEPT ![v] = 0] /\ readyVersion' = v

\* The node tells the version it has: that one is fetched, if it is newer.
NodeTells ==
  /\ adoption.step = "info"
  /\ \/ /\ \E v \in Program : adoption' = [step |-> "verify", version |-> v]
        /\ UNCHANGED <<adopting, downloading>>
     \/ AdoptionOver
  /\ UNCHANGED <<readyVersion, failures, asking, repositoryVars, packages, unmarked>>

AlreadyThere ==
  /\ adoption.step = "verify" /\ adoption.version \in packages
  /\ Succeeds(adoption.version)
  /\ AdoptionOver
  /\ UNCHANGED <<asking, repositoryVars, packages, unmarked>>

BeginTransfer ==
  /\ adoption.step = "verify"
  /\ adoption' = [adoption EXCEPT !.step = "transfer"]
  /\ downloading' = TRUE
  /\ UNCHANGED <<readyVersion, adopting, failures, asking, repositoryVars, packages, unmarked>>

\* The package is renamed into its place when its checksum is right.
TransferDone ==
  /\ adoption.step = "transfer"
  /\ packages' = packages \cup {adoption.version}
  /\ Succeeds(adoption.version)
  /\ AdoptionOver
  /\ UNCHANGED <<asking, repositoryVars, unmarked>>

\* _ripiegaSuRepository starts a download and marks it; the mark goes at once.
\* electron-updater has nothing to download before its first answer, and a
\* second call joins the download that goes on.
TransferFails ==
  /\ adoption.step = "transfer"
  /\ Fails(adoption.version)
  /\ AdoptionOver
  /\ LET fallback == failures'[adoption.version] >= FallbackAfter /\ found # 0
     IN  /\ internet' = IF fallback /\ internet = 0 THEN found ELSE internet
         /\ unmarked' = (unmarked \/ fallback)
  /\ UNCHANGED <<readyVersion, asking, checking, found, published, packages>>

\* An error nothing foresaw counts for the version that was asked for, which
\* need not be the one the node told.
AdoptionThrows ==
  /\ adoption.step \in {"verify", "transfer"}
  /\ \E v \in Program : Fails(v)
  /\ AdoptionOver
  /\ UNCHANGED <<readyVersion, asking, repositoryVars, packages, unmarked>>

-----------------------------------------------------------------------------
\* The repository

\* The check of every few hours
PeriodicCheck ==
  /\ ~InProgress
  /\ checking' = TRUE
  /\ UNCHANGED <<readyVersion, downloading, adopting, adoption, failures, asking, found,
                 internet, published, packages, unmarked>>

\* checkForUpdates of the user: nothing when an update is under way or a package
\* is in the folder already; otherwise every node is asked first.
UserChecks ==
  /\ ~InProgress /\ packages = {}
  /\ asking' = TRUE
  /\ UNCHANGED <<readyVersion, downloading, adopting, adoption, failures, repositoryVars,
                 packages, unmarked>>

\* The nodes have answered: one of them has a newer version, or the repository
\* is looked into, whatever is under way by then.
NodesAnswered ==
  /\ asking /\ asking' = FALSE
  /\ \/ \E v \in Program : ~InProgress /\ Adopts(v) /\ UNCHANGED checking
     \/ InProgress /\ UNCHANGED <<adopting, adoption, checking>>
     \/ checking' = TRUE /\ UNCHANGED <<adopting, adoption>>
  /\ UNCHANGED <<readyVersion, downloading, failures, found, internet, published, packages,
                 unmarked>>

\* update-available: from a node that has it, or from the repository, unless an
\* update is under way or must be started by hand.
UpdateAvailable ==
  /\ checking /\ checking' = FALSE
  /\ found' = published
  /\ \/ /\ ~InProgress
        /\ downloading' = TRUE
        /\ internet' = IF internet = 0 THEN published ELSE internet
        /\ UNCHANGED <<adopting, adoption>>
     \/ ~InProgress /\ Adopts(published) /\ UNCHANGED <<downloading, internet>>
     \/ UNCHANGED <<adopting, adoption, downloading, internet>>
  /\ UNCHANGED <<readyVersion, failures, asking, published, packages, unmarked>>

\* update-not-available and error: the mark of a download goes, also of one that
\* is going on.
NothingAvailable ==
  /\ checking /\ checking' = FALSE
  /\ downloading' = FALSE
  /\ unmarked' = (unmarked \/ internet # 0)
  /\ UNCHANGED <<readyVersion, adopting, adoption, failures, asking, found, internet,
                 published, packages>>

DownloadFails ==
  /\ internet # 0 /\ internet' = 0
  /\ downloading' = FALSE
  /\ UNCHANGED <<readyVersion, adopting, adoption, failures, asking, checking, found,
                 published, packages, unmarked>>

\* update-downloaded: ready at once; the copy into the folder may fail later.
DownloadDone ==
  /\ internet # 0 /\ internet' = 0
  /\ downloading' = FALSE
  /\ readyVersion' = internet
  /\ packages' \in {packages, packages \cup {internet}}
  /\ UNCHANGED <<adopting, adoption, failures, asking, checking, found, published, unmarked>>

Published ==
  /\ published < MaxProgram /\ published' = published + 1
  /\ UNCHANGED <<readyVersion, downloading, adopting, adoption, failures, asking, checking,
                 found, internet, packages, unmarked>>

\* The program stops and starts, or the installer did not replace it.
ProgramRestarts ==
  /\ readyVersion' = 0 /\ downloading' = FALSE /\ adopting' = FALSE
  /\ adoption' = NoAdoption /\ failures' = [v \in Program |-> 0]
  /\ asking' = FALSE /\ checking' = FALSE /\ found' = 0 /\ internet' = 0
  /\ unmarked' = FALSE
  /\ UNCHANGED <<published, packages>>

UpdateNext ==
  \/ \E v \in Program : Adopt(v)
  \/ NodeTells \/ AlreadyThere \/ BeginTransfer \/ TransferDone \/ TransferFails
  \/ AdoptionThrows \/ PeriodicCheck \/ UserChecks \/ NodesAnswered
  \/ UpdateAvailable \/ NothingAvailable \/ DownloadFails \/ DownloadDone
  \/ Published \/ ProgramRestarts

UpdateSpec == UpdateInit /\ [][UpdateNext]_updateVars

-----------------------------------------------------------------------------
Transfers == (IF adoption # NoAdoption THEN 1 ELSE 0) + (IF internet # 0 THEN 1 ELSE 0)

\* One package is fetched at a time, and none once an update is ready, whatever
\* checks, announcements and failures interleave.  What breaks it, and nothing
\* else does: a download whose mark was taken off while it went on, by the end
\* of the adoption that fell back to it or by a check that began before it.
TransfersAlone ==
  unmarked \/ Transfers + (IF readyVersion # 0 THEN 1 ELSE 0) <= 1
=============================================================================
