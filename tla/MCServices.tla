----------------------------- MODULE MCServices -----------------------------
(***************************************************************************)
(* The services of a node besides its ledger and its networks: each of     *)
(* them keeps its own state and calls none of the others in what is        *)
(* modelled here, so a behaviour runs one of them, and the others stay as  *)
(* they began.  A run checks the services of Running in one state space.   *)
(***************************************************************************)
EXTENDS PeerSync, NetworkAccess, AppRuntime, AppStore, RowReplication,
        EventBus, SecretSharing, ProgramUpdate, HybridClock, NetworkRegistry,
        ChangeCapture, FormAutosave, PeerConnections, AssistantLoop,
        AppDependencies

CONSTANTS Running,                   \* the services a run checks
          viaggi, alunni, docenti    \* applications, as model values

VARIABLE service   \* the one that runs

serviceVars == <<service, peerVars, accessVars, runtimeVars, storeVars,
                  rowVars, busVars, sharingVars, updateVars, clockVars,
                  registryVars, captureVars, formVars, connectionVars,
                  assistantVars, dependencyVars>>

\* An application that needs the two others, of which one needs the other, and a
\* need that would close a cycle; two requirements of one application may differ.
MCEdge == {<<viaggi, alunni>>, <<viaggi, docenti>>, <<alunni, docenti>>, <<docenti, viaggi>>}

MCDeclared ==
  {r \in [MCEdge -> SUBSET (1..MaxRelease)] :
     /\ r[<<viaggi, alunni>>] = {2}
     /\ r[<<alunni, docenti>>] \in {{1}, {2}}
     /\ r[<<viaggi, docenti>>] \in {{}, {1}}
     /\ r[<<docenti, viaggi>>] \in {{}, 1..2}}

\* Networks and requests may change their names.
Renamings == Permutations(Net) \cup Permutations(Request)

\* What a service chooses at its start is chosen only where it runs.
ServicesInit ==
  /\ service \in Running
  /\ PeerInit /\ StoreInit /\ BusInit /\ UpdateInit /\ CaptureInit /\ FormInit
  /\ ConnectionInit
  /\ AssistantInit /\ (service # "assistant" => \A t \in Tool : tools[t] = "absent")
  /\ RuntimeInit /\ (service # "runtime" => kind = "worker")
  /\ RowInit /\ (service # "rows" => ~preset)
  /\ SharingInit /\ (service # "sharing" => code = 1 /\ threshold = 2)
  /\ ClockInit /\ (service # "clock" => physical = 0)
  /\ RegistryInit /\ (service # "registry" => sealing = "kept")
  /\ AccessInit /\ (service # "access" => factor /\ policy = CHOOSE p \in Policies : TRUE)
  /\ DependencyInit
  /\ service # "dependencies" => /\ requires = CHOOSE r \in Declared : TRUE
                                 /\ offered = [x \in App |-> 0]

Peers        == service = "peers" /\ UNCHANGED <<service, accessVars,
                  runtimeVars, storeVars, rowVars, busVars, sharingVars,
                  updateVars, clockVars, registryVars, captureVars, formVars,
                  connectionVars, assistantVars, dependencyVars>>
Access       == service = "access" /\ UNCHANGED <<service, peerVars,
                  runtimeVars, storeVars, rowVars, busVars, sharingVars,
                  updateVars, clockVars, registryVars, captureVars, formVars,
                  connectionVars, assistantVars, dependencyVars>>
Runtime      == service = "runtime" /\ UNCHANGED <<service, peerVars,
                  accessVars, storeVars, rowVars, busVars, sharingVars,
                  updateVars, clockVars, registryVars, captureVars, formVars,
                  connectionVars, assistantVars, dependencyVars>>
Store        == service = "store" /\ UNCHANGED <<service, peerVars,
                  accessVars, runtimeVars, rowVars, busVars, sharingVars,
                  updateVars, clockVars, registryVars, captureVars, formVars,
                  connectionVars, assistantVars, dependencyVars>>
Replication  == service = "rows" /\ UNCHANGED <<service, peerVars, accessVars,
                  runtimeVars, storeVars, busVars, sharingVars, updateVars,
                  clockVars, registryVars, captureVars, formVars,
                  connectionVars, assistantVars, dependencyVars>>
Bus          == service = "bus" /\ UNCHANGED <<service, peerVars, accessVars,
                  runtimeVars, storeVars, rowVars, sharingVars, updateVars,
                  clockVars, registryVars, captureVars, formVars,
                  connectionVars, assistantVars, dependencyVars>>
Sharing      == service = "sharing" /\ UNCHANGED <<service, peerVars,
                  accessVars, runtimeVars, storeVars, rowVars, busVars,
                  updateVars, clockVars, registryVars, captureVars, formVars,
                  connectionVars, assistantVars, dependencyVars>>
Updates      == service = "updates" /\ UNCHANGED <<service, peerVars,
                  accessVars, runtimeVars, storeVars, rowVars, busVars,
                  sharingVars, clockVars, registryVars, captureVars, formVars,
                  connectionVars, assistantVars, dependencyVars>>
Clock        == service = "clock" /\ UNCHANGED <<service, peerVars,
                  accessVars, runtimeVars, storeVars, rowVars, busVars,
                  sharingVars, updateVars, registryVars, captureVars,
                  formVars, connectionVars, assistantVars, dependencyVars>>
Registry     == service = "registry" /\ UNCHANGED <<service, peerVars,
                  accessVars, runtimeVars, storeVars, rowVars, busVars,
                  sharingVars, updateVars, clockVars, captureVars, formVars,
                  connectionVars, assistantVars, dependencyVars>>
Capture      == service = "capture" /\ UNCHANGED <<service, peerVars,
                  accessVars, runtimeVars, storeVars, rowVars, busVars,
                  sharingVars, updateVars, clockVars, registryVars, formVars,
                  connectionVars, assistantVars, dependencyVars>>
Forms        == service = "form" /\ UNCHANGED <<service, peerVars, accessVars,
                  runtimeVars, storeVars, rowVars, busVars, sharingVars,
                  updateVars, clockVars, registryVars, captureVars,
                  connectionVars, assistantVars, dependencyVars>>
Connections  == service = "connections" /\ UNCHANGED <<service, peerVars,
                  accessVars, runtimeVars, storeVars, rowVars, busVars,
                  sharingVars, updateVars, clockVars, registryVars,
                  captureVars, formVars, assistantVars, dependencyVars>>
Assistant    == service = "assistant" /\ UNCHANGED <<service, peerVars,
                  accessVars, runtimeVars, storeVars, rowVars, busVars,
                  sharingVars, updateVars, clockVars, registryVars,
                  captureVars, formVars, connectionVars, dependencyVars>>
Dependencies == service = "dependencies" /\ UNCHANGED <<service, peerVars,
                  accessVars, runtimeVars, storeVars, rowVars, busVars,
                  sharingVars, updateVars, clockVars, registryVars,
                  captureVars, formVars, connectionVars, assistantVars>>

ServicesNext ==
  \/ Peers /\ PeerNext
  \/ Access /\ AccessNext
  \/ Runtime /\ RuntimeNext
  \/ Store /\ StoreNext
  \/ Replication /\ RowNext
  \/ Bus /\ BusNext
  \/ Sharing /\ SharingNext
  \/ Updates /\ UpdateNext
  \/ Clock /\ ClockNext
  \/ Registry /\ RegistryNext
  \/ Capture /\ CaptureNext
  \/ Forms /\ FormNext
  \/ Connections /\ ConnectionNext
  \/ Assistant /\ AssistantNext
  \/ Dependencies /\ DependencyNext

\* The fairness of each service, where it runs.
ServicesFairness ==
  /\ \A p \in Peer : /\ WF_peerVars(service = "peers" /\ Cool(p))
                     /\ WF_peerVars(service = "peers" /\ SyncWithPeer(p))
                     /\ WF_peerVars(service = "peers" /\ AttemptStep(p))
                     /\ WF_peerVars(service = "peers" /\ host[p] = "up" /\ Discovered(p))
  /\ WF_accessVars(service = "access" /\ Tick)
  /\ \A s \in Slot : WF_accessVars(service = "access" /\ Answered(s))
  /\ \A c \in Child : WF_runtimeVars(service = "runtime" /\ child[c] = "killed" /\ Exit(c))
  /\ WF_runtimeVars(service = "runtime" /\ RestartFires)
  /\ \A o \in Hand : WF_storeVars(service = "store" /\ HandStep(o))
  /\ WF_storeVars(service = "store" /\ UpdateStep)
  /\ WF_storeVars(service = "store" /\ ClearLock)
  /\ WF_formVars(service = "form" /\ TimerFires)
  /\ WF_formVars(service = "form" /\ SaveMoves)

ServicesSpec == ServicesInit /\ [][ServicesNext]_serviceVars /\ ServicesFairness

-----------------------------------------------------------------------------
\* Every service keeps its state in the sets its module names, whatever order
\* its callers, its timers and its failures come in (the others stay as they began).
ServicesTypeOK ==
  /\ service = "peers" => PeerTypeOK
  /\ service = "access" => AccessTypeOK
  /\ service = "runtime" => RuntimeTypeOK
  /\ service = "store" => StoreTypeOK
  /\ service = "rows" => RowTypeOK
  /\ service = "bus" => BusTypeOK
  /\ service = "sharing" => SharingTypeOK
  /\ service = "updates" => UpdateTypeOK
  /\ service = "clock" => ClockTypeOK
  /\ service = "registry" => RegistryTypeOK
  /\ service = "capture" => CaptureTypeOK
  /\ service = "form" => FormTypeOK
  /\ service = "connections" => ConnectionTypeOK
  /\ service = "assistant" => AssistantTypeOK
  /\ service = "dependencies" => DependencyTypeOK
=============================================================================
