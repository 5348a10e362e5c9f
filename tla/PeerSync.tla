------------------------------ MODULE PeerSync ------------------------------
(***************************************************************************)
(* The peers a node synchronises with: the registry and its state machine, *)
(* the circuit breaker, the attempts in flight and what triggers them      *)
(* (sync_coordinator.js, circuit_breaker.js, peer_fsm.js,                  *)
(* peer_registry.js, p2p/index.js).  Times are abstracted to what the code *)
(* compares: whether an open breaker has waited its minute, and whether a  *)
(* peer was heard of in fifteen seconds, in five minutes, or longer ago.   *)
(***************************************************************************)
EXTENDS Naturals, FiniteSets

CONSTANTS Peer,             \* addresses of other nodes
          FailureThreshold  \* failures that open a breaker

ASSUME ThresholdAssumption == FailureThreshold \in Nat \ {0}

VARIABLES breaker,   \* per peer: [state, failures, probing, cooled]
          registry,  \* per peer: the state of its machine, or "ABSENT"
          news,      \* per peer: last heard of, "fresh" (15 s), "recent" (5 min), "old"
          attempt,   \* per peer: [step, attached], the call in flight
          pending,   \* peers with a call of syncWithPeer on a timer
          host,      \* per peer: "up", "down" or "fork" (incompatible)
          serving    \* the network is open and the server listens

peerVars == <<breaker, registry, news, attempt, pending, host, serving>>

\* The transition table; a transition it does not list changes nothing.
Transitions ==
  [UNKNOWN      |-> {"DISCOVERED"},
   DISCOVERED   |-> {"CONNECTING", "DISCONNECTED"},
   CONNECTING   |-> {"CONNECTING", "HANDSHAKING", "DEGRADED", "DISCONNECTED"},
   HANDSHAKING  |-> {"SYNCED", "DEGRADED", "DISCONNECTED"},
   SYNCED       |-> {"SYNCED", "CONNECTING", "DEGRADED", "DISCONNECTED"},
   DEGRADED     |-> {"CONNECTING", "SYNCED", "DISCONNECTED"},
   DISCONNECTED |-> {"DISCOVERED", "CONNECTING"}]

States == DOMAIN Transitions

Move(from, to) == IF to \in Transitions[from] THEN to ELSE from

Closed == [state |-> "CLOSED", failures |-> 0, probing |-> FALSE, cooled |-> FALSE]
NoCall == [step |-> "idle", attached |-> FALSE]

\* The peers whose synchronisation counts for the quorum.
Connected == {p \in Peer : registry[p] = "SYNCED" /\ news[p] = "fresh"}

PeerTypeOK ==
  /\ breaker \in [Peer -> [state : {"CLOSED", "OPEN", "HALF_OPEN"},
                           failures : 0..FailureThreshold,
                           probing : BOOLEAN, cooled : BOOLEAN]]
  /\ registry \in [Peer -> States \cup {"ABSENT"}]
  /\ news \in [Peer -> {"fresh", "recent", "old"}]
  /\ attempt \in [Peer -> [step : {"idle", "connecting", "exchange"},
                           attached : BOOLEAN]]
  /\ pending \subseteq Peer
  /\ host \in [Peer -> {"up", "down", "fork"}]
  /\ serving \in BOOLEAN

PeerInit ==
  /\ breaker = [p \in Peer |-> Closed]
  /\ registry = [p \in Peer |-> "ABSENT"]
  /\ news = [p \in Peer |-> "old"]
  /\ attempt = [p \in Peer |-> NoCall]
  /\ pending = {}
  /\ host = [p \in Peer |-> "up"]
  /\ serving = FALSE

-----------------------------------------------------------------------------
\* The circuit breaker

\* isAllowed: whether a call may go, and the breaker after the question.
Allowed(b) == \/ b.state = "CLOSED"
              \/ b.state = "OPEN" /\ b.cooled
              \/ b.state = "HALF_OPEN" /\ ~b.probing

AfterAllowed(b) ==
  IF b.state = "CLOSED" THEN b
  ELSE [b EXCEPT !.state = "HALF_OPEN", !.probing = TRUE, !.cooled = FALSE]

\* onFailure; the count is only compared with the threshold and saturates there.
AfterFailure(b) ==
  LET n == IF b.failures < FailureThreshold THEN b.failures + 1 ELSE b.failures
      opens == b.state = "HALF_OPEN" \/ n >= FailureThreshold
  IN  [state    |-> IF opens THEN "OPEN" ELSE b.state,
       failures |-> n, probing |-> FALSE,
       cooled   |-> IF opens THEN FALSE ELSE b.cooled]

\* onSuccess: every field starts again ("cooled" is of an open breaker).
AfterSuccess(b) == Closed

\* The minute of an open breaker passes.
Cool(p) ==
  /\ breaker[p].state = "OPEN" /\ ~breaker[p].cooled
  /\ breaker' = [breaker EXCEPT ![p].cooled = TRUE]
  /\ UNCHANGED <<registry, news, attempt, pending, host, serving>>

-----------------------------------------------------------------------------
\* The registry

\* An attempt moves the machine it captured, which may have left the registry.
Drive(p, to) == IF attempt[p].attached
                THEN [registry EXCEPT ![p] = Move(@, to)]
                ELSE registry

\* Removal detaches the attempt in flight from the entry it had captured.
Deregister(S) ==
  /\ registry' = [p \in Peer |-> IF p \in S THEN "ABSENT" ELSE registry[p]]
  /\ news' = [p \in Peer |-> IF p \in S THEN "old" ELSE news[p]]

Detached(S) == [p \in Peer |-> IF p \in S THEN [attempt[p] EXCEPT !.attached = FALSE]
                                          ELSE attempt[p]]

\* Mutant: a peer that is known already is refreshed and not synchronised.
DiscoveredOnce(p) ==
  /\ serving
  /\ registry' = [registry EXCEPT ![p] =
                    IF @ = "ABSENT" THEN Move("UNKNOWN", "DISCOVERED") ELSE @]
  /\ news' = [news EXCEPT ![p] = "fresh"]
  /\ pending' = IF registry[p] = "ABSENT" THEN pending \cup {p} ELSE pending
  /\ UNCHANGED <<breaker, attempt, host, serving>>

\* peer:discovered: an entry is created or refreshed, a call goes on a timer.
Discovered(p) ==
  /\ serving
  /\ registry' = [registry EXCEPT ![p] =
                    IF @ = "ABSENT" THEN Move("UNKNOWN", "DISCOVERED") ELSE @]
  /\ news' = [news EXCEPT ![p] = "fresh"]
  /\ pending' = pending \cup {p}
  /\ UNCHANGED <<breaker, attempt, host, serving>>

\* /ping from a peer refreshes the entry there is.
Pinged(p) ==
  /\ serving /\ host[p] # "down" /\ registry[p] # "ABSENT"
  /\ news' = [news EXCEPT ![p] = "fresh"]
  /\ UNCHANGED <<breaker, registry, attempt, pending, host, serving>>

\* Time passes without news of a peer; the discovery of every minute finds one
\* that is up before five minutes have gone.
Silent(p) ==
  /\ news[p] = "fresh" \/ (news[p] = "recent" /\ host[p] # "up")
  /\ news' = [news EXCEPT ![p] = IF @ = "fresh" THEN "recent" ELSE "old"]
  /\ UNCHANGED <<breaker, registry, attempt, pending, host, serving>>

\* The sweep deletes an entry not heard of for five minutes.
Expire(p) ==
  /\ registry[p] # "ABSENT" /\ news[p] = "old"
  /\ Deregister({p})
  /\ attempt' = Detached({p})
  /\ UNCHANGED <<breaker, pending, host, serving>>

\* The watchdog calls syncWithPeer on the peers it knows of.
WatchdogStale ==
  /\ serving
  /\ pending' = pending \cup {p \in Peer : registry[p] # "ABSENT"}
  /\ UNCHANGED <<breaker, registry, news, attempt, host, serving>>

\* startSyncServer reads the cached peers, which are not yet heard of.
StartServer ==
  /\ ~serving
  /\ serving' = TRUE
  /\ \E cached \in SUBSET Peer :
       registry' = [p \in Peer |-> IF p \in cached /\ registry[p] = "ABSENT"
                                   THEN Move("UNKNOWN", "DISCOVERED") ELSE registry[p]]
  /\ UNCHANGED <<breaker, news, attempt, pending, host>>

\* stopSyncServer clears the registry, not the breakers nor the timers.
StopServer ==
  /\ serving
  /\ serving' = FALSE
  /\ Deregister(Peer)
  /\ attempt' = Detached(Peer)
  /\ UNCHANGED <<breaker, pending, host>>

-----------------------------------------------------------------------------
\* One synchronisation: the breaker is asked first, then the set in flight.

Refused(p) ==
  /\ ~Allowed(breaker[p])
  /\ UNCHANGED <<breaker, registry, attempt>>

AlreadyInFlight(p) ==
  /\ Allowed(breaker[p]) /\ attempt[p].step # "idle"
  /\ breaker' = [breaker EXCEPT ![p] = AfterAllowed(@)]
  /\ UNCHANGED <<registry, attempt>>

\* Mutant: a call begins whatever the breaker says.
BeginUnasked(p) ==
  /\ attempt[p].step = "idle" /\ serving
  /\ attempt' = [attempt EXCEPT ![p] = [step |-> "connecting",
                                        attached |-> registry[p] # "ABSENT"]]
  /\ registry' = [registry EXCEPT ![p] =
       IF @ = "ABSENT" THEN @ ELSE Move(Move(@, "CONNECTING"), "HANDSHAKING")]
  /\ UNCHANGED breaker

\* Reading the tips fails when the network is closed: nothing is reported.
Begin(p) ==
  /\ Allowed(breaker[p]) /\ attempt[p].step = "idle"
  /\ breaker' = [breaker EXCEPT ![p] = AfterAllowed(@)]
  /\ IF serving
     THEN /\ attempt' = [attempt EXCEPT ![p] = [step |-> "connecting",
                                                attached |-> registry[p] # "ABSENT"]]
          /\ registry' = [registry EXCEPT ![p] =
               IF @ = "ABSENT" THEN @ ELSE Move(Move(@, "CONNECTING"), "HANDSHAKING")]
     ELSE UNCHANGED <<attempt, registry>>

SyncWithPeer(p) ==
  /\ p \in pending
  /\ pending' = pending \ {p}
  /\ Refused(p) \/ AlreadyInFlight(p) \/ Begin(p)
  /\ UNCHANGED <<news, host, serving>>

Ends(p) == attempt' = [attempt EXCEPT ![p] = NoCall]

\* A refused or timed-out connection, or a closed network: reported to nobody.
EndsUnreported(p) ==
  /\ \/ attempt[p].step = "connecting" /\ (host[p] = "down" \/ ~serving)
     \/ attempt[p].step = "exchange" /\ ~serving
  /\ Ends(p)
  /\ UNCHANGED <<breaker, registry, news, pending, host, serving>>

\* Any other error of the connection, or a handshake that answers nothing.
HandshakeFails(p) ==
  /\ attempt[p].step = "connecting" /\ (host[p] = "down" \/ ~serving)
  /\ Ends(p)
  /\ registry' = Drive(p, "DEGRADED")
  /\ breaker' = [breaker EXCEPT ![p] = AfterFailure(@)]
  /\ UNCHANGED <<news, pending, host, serving>>

\* An incompatible peer leaves the registry; the breaker hears nothing.
HandshakeIncompatible(p) ==
  /\ attempt[p].step = "connecting" /\ host[p] = "fork"
  /\ Ends(p)
  /\ Deregister({p})
  /\ UNCHANGED <<breaker, pending, host, serving>>

HandshakeDone(p) ==
  /\ attempt[p].step = "connecting" /\ host[p] = "up" /\ serving
  /\ attempt' = [attempt EXCEPT ![p].step = "exchange"]
  /\ registry' = Drive(p, "SYNCED")
  /\ news' = [news EXCEPT ![p] = IF registry[p] = "ABSENT" THEN @ ELSE "fresh"]
  /\ UNCHANGED <<breaker, pending, host, serving>>

\* Errors of the pull, the push and the exchange of peers are swallowed.
ExchangeDone(p) ==
  /\ attempt[p].step = "exchange"
  /\ Ends(p)
  /\ breaker' = [breaker EXCEPT ![p] = AfterSuccess(@)]
  /\ UNCHANGED <<registry, news, pending, host, serving>>

\* The world: a peer is switched off, on, or comes back with another protocol.
HostChanges(p) ==
  /\ \E h \in {"up", "down", "fork"} \ {host[p]} : host' = [host EXCEPT ![p] = h]
  /\ UNCHANGED <<breaker, registry, news, attempt, pending, serving>>

AttemptStep(p) == \/ EndsUnreported(p) \/ HandshakeFails(p) \/ HandshakeIncompatible(p)
                  \/ HandshakeDone(p) \/ ExchangeDone(p)

PeerStep(p) == \/ Discovered(p) \/ Pinged(p) \/ Silent(p) \/ Expire(p) \/ Cool(p)
               \/ SyncWithPeer(p) \/ AttemptStep(p) \/ HostChanges(p)

PeerNext == \/ StartServer \/ StopServer \/ WatchdogStale
            \/ \E p \in Peer : PeerStep(p)

\* Timers fire, connections end by their timers, discovery comes back every
\* minute while a peer answers.
PeerFairness ==
  \A p \in Peer : /\ WF_peerVars(Cool(p))
                  /\ WF_peerVars(SyncWithPeer(p))
                  /\ WF_peerVars(AttemptStep(p))
                  /\ WF_peerVars(host[p] = "up" /\ Discovered(p))

PeerSpec == PeerInit /\ [][PeerNext]_peerVars /\ PeerFairness

-----------------------------------------------------------------------------
\* A breaker that is half open with no call in flight: nothing reports to it.
Stranded(p) == breaker[p].state = "HALF_OPEN" /\ attempt[p].step = "idle"

\* A half-open breaker always waits for the answer of its one probe, so the
\* branch of isAllowed that starts another probe is never taken.  An open
\* breaker has no call in flight, whose late answer would close it, and its
\* peer does not count for the quorum, whatever entry of the registry the
\* failed calls had captured.
BreakerGuardsCalls ==
  \A p \in Peer : /\ breaker[p].state = "HALF_OPEN" <=> breaker[p].probing
                  /\ breaker[p].state = "OPEN" => /\ attempt[p].step = "idle"
                                                 /\ registry[p] # "SYNCED"

\* A peer that stays on, in a network that stays open, is synchronised again
\* and again, unless a probe ended unreported and left its breaker half open.
UpPeerSynchronises ==
  \A p \in Peer : <>[](host[p] = "up" /\ serving)
                    => []<>(p \in Connected) \/ <>[]Stranded(p)
=============================================================================
