--------------------------- MODULE PeerSyncProofs ---------------------------
(***************************************************************************)
(* Proofs about PeerSync, for any peers and any threshold.  A call and the *)
(* breaker of its peer know nothing of each other but what Begin and the   *)
(* end of the call do to both.  That an open breaker has a peer that does  *)
(* not count for the quorum needs more: a call that may fail holds its     *)
(* entry of the registry in the state it put it in, or the entry is gone   *)
(* and what came in its place has never been synchronised (Held).          *)
(*                                                                         *)
(* The second part is about PeerConnections: the pools of the two nodes.   *)
(***************************************************************************)
EXTENDS PeerSync, PeerConnections, SequenceTheorems, TLAPS

Breakers == [state : {"CLOSED", "OPEN", "HALF_OPEN"}, failures : 0..FailureThreshold,
             probing : BOOLEAN, cooled : BOOLEAN]
Calls == [step : {"idle", "connecting", "exchange"}, attached : BOOLEAN]

\* The breaker of a peer, its call in flight and its entry of the registry.
Guards(b, a, r) ==
  /\ b.state = "HALF_OPEN" <=> b.probing
  /\ b.state = "OPEN" => a.step = "idle" /\ r # "SYNCED"

Held(a, r) ==
  /\ r # "UNKNOWN"
  /\ a.step = "connecting" => IF a.attached THEN r = "HANDSHAKING"
                              ELSE r \in {"ABSENT", "DISCOVERED"}

Sane(b, a, r) ==
  /\ b \in Breakers /\ a \in Calls /\ r \in States \cup {"ABSENT"}
  /\ Guards(b, a, r) /\ Held(a, r)

Peers == \A p \in Peer : Sane(breaker[p], attempt[p], registry[p])

PeerInv == PeerTypeOK /\ Peers

-----------------------------------------------------------------------------
\* The breaker

LEMMA AskedBreaker ==
  ASSUME NEW b \in Breakers, Allowed(b), b.state = "HALF_OPEN" <=> b.probing
  PROVE  LET c == AfterAllowed(b)
         IN  /\ c \in Breakers /\ c.state # "OPEN"
             /\ c.state = "HALF_OPEN" <=> c.probing
<1>1. CASE b.state = "CLOSED"  BY <1>1 DEF AfterAllowed, Breakers
<1>2. CASE b.state # "CLOSED"
  <2>1. AfterAllowed(b) = [b EXCEPT !.state = "HALF_OPEN", !.probing = TRUE, !.cooled = FALSE]
    BY <1>2 DEF AfterAllowed
  <2> QED  BY <2>1 DEF Breakers
<1> QED  BY <1>1, <1>2

LEMMA MadeBreaker ==
  ASSUME NEW s \in {"CLOSED", "OPEN", "HALF_OPEN"}, NEW n \in 0..FailureThreshold,
         NEW p \in BOOLEAN, NEW c \in BOOLEAN
  PROVE  [state |-> s, failures |-> n, probing |-> p, cooled |-> c] \in Breakers
BY DEF Breakers

LEMMA FailedBreaker ==
  ASSUME NEW b \in Breakers, b.state # "OPEN", b.state = "HALF_OPEN" <=> b.probing
  PROVE  LET c == AfterFailure(b)
         IN  c \in Breakers /\ c.state # "HALF_OPEN" /\ ~c.probing
<1> DEFINE n == IF b.failures < FailureThreshold THEN b.failures + 1 ELSE b.failures
           opens == b.state = "HALF_OPEN" \/ n >= FailureThreshold
<1>1. n \in 0..FailureThreshold  BY ThresholdAssumption DEF Breakers
<1>2. AfterFailure(b) = [state    |-> IF opens THEN "OPEN" ELSE b.state,
                         failures |-> n, probing |-> FALSE,
                         cooled   |-> IF opens THEN FALSE ELSE b.cooled]
  BY DEF AfterFailure
<1> HIDE DEF n
<1>3. /\ (IF opens THEN "OPEN" ELSE b.state) \in {"CLOSED", "OPEN", "HALF_OPEN"}
      /\ (IF opens THEN "OPEN" ELSE b.state) # "HALF_OPEN"
  BY DEF Breakers
<1>4. (IF opens THEN FALSE ELSE b.cooled) \in BOOLEAN
  BY DEF Breakers
<1> HIDE DEF opens
<1>5. FALSE \in BOOLEAN  OBVIOUS
<1>6. AfterFailure(b) \in Breakers
  BY <1>1, <1>2, <1>3, <1>4, <1>5, MadeBreaker, Zenon
<1>7. AfterFailure(b).state # "HALF_OPEN" /\ ~AfterFailure(b).probing
  BY <1>2, <1>3
<1> QED  BY <1>6, <1>7

LEMMA ClosedBreaker == Closed \in Breakers /\ Closed.state = "CLOSED" /\ ~Closed.probing
BY ThresholdAssumption DEF Closed, Breakers

\* The machine of a peer: a call that begins leaves the entry in the handshake.
LEMMA BegunEntry ==
  ASSUME NEW r \in States, r # "UNKNOWN"
  PROVE  Move(Move(r, "CONNECTING"), "HANDSHAKING") = "HANDSHAKING"
BY DEF Move, States, Transitions

LEMMA DrivenEntry ==
  /\ Move("UNKNOWN", "DISCOVERED") = "DISCOVERED"
  /\ Move("HANDSHAKING", "DEGRADED") = "DEGRADED"
  /\ Move("HANDSHAKING", "SYNCED") = "SYNCED"
  /\ {"DISCOVERED", "HANDSHAKING", "DEGRADED", "SYNCED", "UNKNOWN"} \subseteq States
BY DEF Move, States, Transitions

-----------------------------------------------------------------------------
LEMMA PeerStart == PeerInit => PeerInv
<1> SUFFICES ASSUME PeerInit PROVE PeerInv  OBVIOUS
<1>1. Closed \in Breakers /\ Closed.state = "CLOSED" /\ ~Closed.probing
  BY ClosedBreaker
<1>2. NoCall \in Calls /\ NoCall.step = "idle"  BY DEF NoCall, Calls
<1>3. serving \in BOOLEAN  BY Zenon DEF PeerInit
<1>4. PeerTypeOK  BY <1>1, <1>2, <1>3 DEF PeerInit, PeerTypeOK, Breakers, Calls
<1>5. Sane(Closed, NoCall, "ABSENT")  BY <1>1, <1>2 DEF Sane, Guards, Held
<1>6. Peers  BY <1>5 DEF PeerInit, Peers
<1> QED  BY <1>4, <1>6 DEF PeerInv

-----------------------------------------------------------------------------
\* A step that touches one peer keeps the invariant when it leaves that peer
\* sane, and its other variables in their sets.
World ==
  /\ news \in [Peer -> {"fresh", "recent", "old"}]
  /\ pending \subseteq Peer
  /\ host \in [Peer -> {"up", "down", "fork"}]
  /\ serving \in BOOLEAN

Settles(p, b, a, r) ==
  /\ breaker' = [breaker EXCEPT ![p] = b]
  /\ attempt' = [attempt EXCEPT ![p] = a]
  /\ registry' = [registry EXCEPT ![p] = r]

LEMMA OnePeer ==
  ASSUME PeerInv, NEW p \in Peer, NEW b, NEW a, NEW r, Settles(p, b, a, r), Sane(b, a, r), World'
  PROVE  PeerInv'
<1>1. PeerTypeOK'
  BY DEF PeerInv, PeerTypeOK, World, Settles, Sane, Breakers, Calls
<1>2. \A q \in Peer : /\ breaker'[q] = IF q = p THEN b ELSE breaker[q]
                      /\ attempt'[q] = IF q = p THEN a ELSE attempt[q]
                      /\ registry'[q] = IF q = p THEN r ELSE registry[q]
  BY DEF PeerInv, PeerTypeOK, Settles
<1>3. Peers'  BY <1>2 DEF PeerInv, Peers
<1> QED  BY <1>1, <1>3 DEF PeerInv

\* What is left alone is set to what it was.
LEMMA Kept ==
  ASSUME PeerInv, NEW p \in Peer
  PROVE  /\ breaker = [breaker EXCEPT ![p] = breaker[p]]
         /\ attempt = [attempt EXCEPT ![p] = attempt[p]]
         /\ registry = [registry EXCEPT ![p] = registry[p]]
         /\ World /\ Sane(breaker[p], attempt[p], registry[p])
BY DEF PeerInv, PeerTypeOK, Peers, World

\* An entry that leaves the registry, and the call that had captured it.
LEMMA DetachedPeer ==
  ASSUME NEW b, NEW a, NEW r, Sane(b, a, r)
  PROVE  Sane(b, [a EXCEPT !.attached = FALSE], "ABSENT")
<1>1. [a EXCEPT !.attached = FALSE] \in Calls
      /\ [a EXCEPT !.attached = FALSE].step = a.step /\ ~[a EXCEPT !.attached = FALSE].attached
  BY DEF Sane, Calls
<1> QED  BY <1>1 DEF Sane, Guards, Held

\* A new entry of a peer that had none.
LEMMA EnteredPeer ==
  ASSUME NEW b, NEW a, Sane(b, a, "ABSENT")
  PROVE  Sane(b, a, "DISCOVERED")
<1>1. "DISCOVERED" \in States  BY DrivenEntry
<1>2. a.step = "connecting" => ~a.attached  BY DEF Sane, Held
<1> QED  BY <1>1, <1>2 DEF Sane, Guards, Held

-----------------------------------------------------------------------------
\* The registry

LEMMA DiscoveredKeeps ==
  ASSUME PeerInv, NEW p \in Peer, Discovered(p)
  PROVE  PeerInv'
<1> DEFINE r == IF registry[p] = "ABSENT" THEN "DISCOVERED" ELSE registry[p]
<1>1. Settles(p, breaker[p], attempt[p], r)
  BY Kept, DrivenEntry DEF Discovered, Settles
<1>2. Sane(breaker[p], attempt[p], r)  BY Kept, EnteredPeer
<1>3. World'  BY Kept DEF World, Discovered
<1> QED  BY <1>1, <1>2, <1>3, OnePeer

LEMMA CoolKeeps ==
  ASSUME PeerInv, NEW p \in Peer, Cool(p)
  PROVE  PeerInv'
<1> DEFINE b == [breaker[p] EXCEPT !.cooled = TRUE]
<1>1. Sane(breaker[p], attempt[p], registry[p])  BY Kept
<1>2. b \in Breakers /\ b.state = breaker[p].state /\ b.probing = breaker[p].probing
  BY <1>1 DEF Sane, Breakers
<1>3. Sane(b, attempt[p], registry[p])  BY <1>1, <1>2 DEF Sane, Guards
<1>4. Settles(p, b, attempt[p], registry[p])  BY Kept DEF Cool, Settles
<1>5. World'  BY Kept DEF World, Cool
<1> QED  BY <1>3, <1>4, <1>5, OnePeer

LEMMA ExpireKeeps ==
  ASSUME PeerInv, NEW p \in Peer, Expire(p)
  PROVE  PeerInv'
<1> DEFINE a == [attempt[p] EXCEPT !.attached = FALSE]
<1>1. Sane(breaker[p], a, "ABSENT")  BY Kept, DetachedPeer
<1>2. Settles(p, breaker[p], a, "ABSENT")
  BY Kept DEF Expire, Settles, Deregister, Detached, PeerInv, PeerTypeOK
<1>3. World'  BY Kept DEF World, Expire, Deregister
<1> QED  BY <1>1, <1>2, <1>3, OnePeer

LEMMA StopKeeps ==
  ASSUME PeerInv, StopServer
  PROVE  PeerInv'
<1>1. \A p \in Peer : /\ breaker'[p] = breaker[p] /\ registry'[p] = "ABSENT"
                      /\ attempt'[p] = [attempt[p] EXCEPT !.attached = FALSE]
  BY DEF StopServer, Deregister, Detached
<1>2. ASSUME NEW p \in Peer PROVE Sane(breaker'[p], attempt'[p], registry'[p])
  <2>1. Sane(breaker[p], attempt[p], registry[p])  BY DEF PeerInv, Peers
  <2>2. Sane(breaker[p], [attempt[p] EXCEPT !.attached = FALSE], "ABSENT")
    BY <2>1, DetachedPeer
  <2> QED  BY <1>1, <2>2
<1>3. Peers'  BY <1>2 DEF Peers
<1>4. serving' \in BOOLEAN  BY Zenon DEF StopServer
<1>5. PeerTypeOK'
  BY <1>4, <1>2 DEF PeerInv, PeerTypeOK, StopServer, Deregister, Detached, Sane, Calls
<1> QED  BY <1>3, <1>5 DEF PeerInv

LEMMA StartKeeps ==
  ASSUME PeerInv, StartServer
  PROVE  PeerInv'
<1>1. \A p \in Peer : /\ breaker'[p] = breaker[p] /\ attempt'[p] = attempt[p]
                      /\ \/ registry'[p] = registry[p]
                         \/ registry[p] = "ABSENT" /\ registry'[p] = "DISCOVERED"
  BY DrivenEntry DEF StartServer
<1>2. \A p \in Peer : Sane(breaker'[p], attempt'[p], registry'[p])
  BY <1>1, EnteredPeer DEF PeerInv, Peers
<1>3. Peers'  BY <1>2 DEF Peers
<1>4. registry' \in [Peer -> States \cup {"ABSENT"}]
  <2>1. \A p \in Peer : registry'[p] \in States \cup {"ABSENT"}  BY <1>2 DEF Sane
  <2>2. PICK cached \in SUBSET Peer :
          registry' = [p \in Peer |-> IF p \in cached /\ registry[p] = "ABSENT"
                                      THEN Move("UNKNOWN", "DISCOVERED") ELSE registry[p]]
    BY DEF StartServer
  <2> QED  BY <2>1, <2>2
<1>5. PeerTypeOK'
  BY <1>4 DEF PeerInv, PeerTypeOK, StartServer
<1> QED  BY <1>3, <1>5 DEF PeerInv

-----------------------------------------------------------------------------
\* One synchronisation

LEMMA SyncKeeps ==
  ASSUME PeerInv, NEW p \in Peer, SyncWithPeer(p)
  PROVE  PeerInv'
<1> DEFINE b == breaker[p]
           a == attempt[p]
           r == registry[p]
<1>1. Sane(b, a, r) /\ World'
  BY Kept DEF SyncWithPeer, World
<1>2. b \in Breakers /\ (b.state = "HALF_OPEN" <=> b.probing)  BY <1>1 DEF Sane, Guards
<1>3. CASE Refused(p)
  BY <1>1, <1>3, Kept, OnePeer DEF Refused, Settles
<1>4. CASE AlreadyInFlight(p)
  <2>1. Sane(AfterAllowed(b), a, r)
    BY <1>1, <1>2, <1>4, AskedBreaker DEF AlreadyInFlight, Sane, Guards
  <2>2. Settles(p, AfterAllowed(b), a, r)
    BY <1>4, Kept DEF AlreadyInFlight, Settles
  <2> QED  BY <1>1, <2>1, <2>2, OnePeer
<1>5. CASE Begin(p)
  <2> DEFINE c == AfterAllowed(b)
  <2>1. c \in Breakers /\ c.state # "OPEN" /\ (c.state = "HALF_OPEN" <=> c.probing)
    BY <1>2, <1>5, AskedBreaker DEF Begin
  <2> HIDE DEF c
  <2>2. CASE ~serving
    <3>1. Sane(c, a, r)  BY <1>1, <2>1 DEF Sane, Guards
    <3>2. Settles(p, c, a, r)  BY <1>5, <2>2, Kept DEF Begin, Settles, c
    <3> QED  BY <1>1, <3>1, <3>2, OnePeer
  <2>3. CASE serving
    <3> DEFINE d == [step |-> "connecting", attached |-> r # "ABSENT"]
               t == IF r = "ABSENT" THEN r ELSE Move(Move(r, "CONNECTING"), "HANDSHAKING")
    <3>1. t = IF r = "ABSENT" THEN r ELSE "HANDSHAKING"
      BY <1>1, BegunEntry DEF Sane, Held
    <3>2. d \in Calls /\ d.step = "connecting" /\ (d.attached <=> r # "ABSENT")
      BY DEF Calls
    <3>3. t \in States \cup {"ABSENT"}  BY <3>1, DrivenEntry
    <3>4. Settles(p, c, d, t)  BY <1>5, <2>3, Kept DEF Begin, Settles, c
    <3> HIDE DEF d, t
    <3>5. Sane(c, d, t)  BY <2>1, <3>1, <3>2, <3>3 DEF Sane, Guards, Held
    <3> QED  BY <1>1, <3>4, <3>5, OnePeer
  <2> QED  BY <2>2, <2>3
<1> QED  BY <1>3, <1>4, <1>5 DEF SyncWithPeer

LEMMA CallKeeps ==
  ASSUME PeerInv, NEW p \in Peer, AttemptStep(p)
  PROVE  PeerInv'
<1> DEFINE b == breaker[p]
           a == attempt[p]
           r == registry[p]
<1>1. Sane(b, a, r) /\ a.step # "idle"
  BY Kept DEF AttemptStep, EndsUnreported, HandshakeFails, HandshakeIncompatible, HandshakeDone,
              ExchangeDone
<1>2. /\ b \in Breakers /\ (b.state = "HALF_OPEN" <=> b.probing) /\ b.state # "OPEN"
      /\ a \in Calls /\ r \in States \cup {"ABSENT"} /\ Held(a, r)
  BY <1>1 DEF Sane, Guards
<1>3. NoCall \in Calls /\ NoCall.step = "idle"  BY DEF NoCall, Calls
<1>4. CASE EndsUnreported(p)
  <2>1. Sane(b, NoCall, r)  BY <1>2, <1>3 DEF Sane, Guards, Held
  <2>2. Settles(p, b, NoCall, r) /\ World'
    BY <1>4, Kept DEF EndsUnreported, Ends, Settles, World
  <2> QED  BY <2>1, <2>2, OnePeer
<1>5. CASE HandshakeFails(p)
  <2> DEFINE t == IF a.attached THEN Move(r, "DEGRADED") ELSE r
  <2>1. t = IF a.attached THEN "DEGRADED" ELSE r
    BY <1>2, <1>5, DrivenEntry DEF HandshakeFails, Held
  <2>2. t # "SYNCED" /\ t # "UNKNOWN" /\ t \in States \cup {"ABSENT"}
    BY <1>2, <1>5, <2>1, DrivenEntry DEF HandshakeFails, Held
  <2>3. Sane(AfterFailure(b), NoCall, t)
    <3> HIDE DEF t
    <3> QED  BY <1>2, <1>3, <2>2, FailedBreaker DEF Sane, Guards, Held
  <2>4. Settles(p, AfterFailure(b), NoCall, t) /\ World'
    BY <1>5, Kept DEF HandshakeFails, Ends, Drive, Settles, World
  <2> QED  BY <2>3, <2>4, OnePeer
<1>6. CASE HandshakeIncompatible(p)
  <2>1. Sane(b, NoCall, "ABSENT")  BY <1>2, <1>3 DEF Sane, Guards, Held
  <2>2. Settles(p, b, NoCall, "ABSENT") /\ World'
    BY <1>6, Kept DEF HandshakeIncompatible, Ends, Deregister, Settles, World, PeerInv, PeerTypeOK
  <2> QED  BY <2>1, <2>2, OnePeer
<1>7. CASE HandshakeDone(p)
  <2> DEFINE t == IF a.attached THEN Move(r, "SYNCED") ELSE r
             d == [a EXCEPT !.step = "exchange"]
  <2>1. t = IF a.attached THEN "SYNCED" ELSE r
    BY <1>2, <1>7, DrivenEntry DEF HandshakeDone, Held
  <2>2. t # "UNKNOWN" /\ t \in States \cup {"ABSENT"}
    BY <1>2, <2>1, DrivenEntry DEF Held
  <2>3. d \in Calls /\ d.step = "exchange"  BY <1>2 DEF Calls
  <2>4. Settles(p, b, d, t) /\ World'
    BY <1>7, Kept DEF HandshakeDone, Drive, Settles, World
  <2> HIDE DEF t, d
  <2>5. Sane(b, d, t)  BY <1>2, <2>2, <2>3 DEF Sane, Guards, Held
  <2> QED  BY <2>4, <2>5, OnePeer
<1>8. CASE ExchangeDone(p)
  <2>1. Sane(Closed, NoCall, r)
    BY <1>2, <1>3, ClosedBreaker DEF Sane, Guards, Held
  <2>2. Settles(p, Closed, NoCall, r) /\ World'
    BY <1>8, Kept DEF ExchangeDone, Ends, AfterSuccess, Settles, World
  <2> QED  BY <2>1, <2>2, OnePeer
<1> QED  BY <1>4, <1>5, <1>6, <1>7, <1>8 DEF AttemptStep

\* Steps that leave the breakers, the calls and the entries alone.
LEMMA QuietKeeps ==
  ASSUME PeerInv, UNCHANGED <<breaker, registry, attempt>>, World'
  PROVE  PeerInv'
BY DEF PeerInv, PeerTypeOK, Peers, World

LEMMA PeersKeep == PeerInv /\ [PeerNext]_peerVars => PeerInv'
<1> SUFFICES ASSUME PeerInv, [PeerNext]_peerVars PROVE PeerInv'  OBVIOUS
<1>1. World  BY DEF PeerInv, PeerTypeOK, World
<1>2. ASSUME NEW p \in Peer, Pinged(p) \/ Silent(p) \/ HostChanges(p) PROVE PeerInv'
  <2>1. CASE Pinged(p)  BY <1>1, <2>1, QuietKeeps DEF Pinged, World
  <2>2. CASE Silent(p)  BY <1>1, <2>2, QuietKeeps DEF Silent, World
  <2>3. CASE HostChanges(p)  BY <1>1, <2>3, QuietKeeps DEF HostChanges, World
  <2> QED  BY <1>2, <2>1, <2>2, <2>3
<1>3. CASE WatchdogStale  BY <1>1, <1>3, QuietKeeps DEF WatchdogStale, World
<1>4. CASE UNCHANGED peerVars  BY <1>1, <1>4, QuietKeeps DEF peerVars, World
<1>5. ASSUME NEW p \in Peer, PeerStep(p) PROVE PeerInv'
  BY <1>2, <1>5, DiscoveredKeeps, CoolKeeps, ExpireKeeps, SyncKeeps, CallKeeps DEF PeerStep
<1> QED  BY <1>3, <1>4, <1>5, StartKeeps, StopKeeps DEF PeerNext

\* The breakers, the registry and the calls stay in their sets, the count of
\* failures at or below the threshold.
THEOREM PeerTypes == PeerSpec => []PeerTypeOK
<1>1. PeerInv => PeerTypeOK  BY DEF PeerInv
<1> QED  BY <1>1, PeerStart, PeersKeep, PTL DEF PeerSpec

\* A half-open breaker waits for the answer of one probe; an open one has no
\* call in flight, and its peer does not count for the quorum: for any number
\* of peers and any threshold (circuit_breaker.js, sync_coordinator.js).
THEOREM BreakersGuard == PeerSpec => []BreakerGuardsCalls
<1>1. PeerInv => BreakerGuardsCalls
  BY DEF PeerInv, Peers, Sane, Guards, BreakerGuardsCalls
<1> QED  BY <1>1, PeerStart, PeersKeep, PTL DEF PeerSpec

-----------------------------------------------------------------------------
(***************************************************************************)
(* Connections: the pools of the two nodes.  A node registers a socket     *)
(* when it answers a handshake, or takes the answer to its own, and then   *)
(* closes the open socket it had.  Hence PoolInv: of the sockets on which  *)
(* a node shook hands only the one in its pool is open at its end.         *)
(***************************************************************************)
Steps == {"connecting", "exchanging", "asking", "handshaken", "given up"}
ReadyStates == {"none", "open", "closing", "closed"}
Wires == [Dialled -> [Party -> Seq(Frame)]]

ConnectionTypes ==
  /\ organisation \in [Party -> Organisation \cup {NoOrganisation}]
  /\ wireKey \in [Party -> Organisation \cup {NoOrganisation}]
  /\ caller \in Seq(Party)
  /\ step \in [Dialled -> Steps]
  /\ ends \in [Dialled -> [Party -> ReadyStates]]
  /\ wire \in Wires
  /\ sockets \in [Party -> Dialled \cup {0}]

HasAnswer(q) == \E i \in DOMAIN q : q[i].type = "answer"

\* The end that answers has registered the socket, and the caller has, or may still.
Registered(s) == step[s] = "handshaken" \/ HasAnswer(wire[s][caller[s]])

PoolInv ==
  /\ \A s \in Dialled :
        /\ step[s] = "connecting" => /\ ~HasAnswer(wire[s][caller[s]])
                                     /\ \A n \in Party : ends[s][n] = "none"
        /\ step[s] = "handshaken" /\ ends[s][caller[s]] = "open" => sockets[caller[s]] = s
        /\ Registered(s) /\ ends[s][Callee(s)] = "open" => sockets[Callee(s)] = s
  /\ \A n \in Party : sockets[n] # 0 => ends[sockets[n]][n] \in {"open", "closing"}

ConnectionInv == ConnectionTypes /\ PoolInv

LEMMA TwoParties ==
  /\ \A n \in Party : Other(n) \in Party /\ Other(n) # n
  /\ \A n, m \in Party : m = n \/ m = Other(n)
  BY ConnectionAssumption DEF Other

LEMMA Numbered ==
  ASSUME ConnectionTypes
  PROVE  /\ Dialled = 1..Len(caller) /\ Len(caller) \in Nat /\ 0 \notin Dialled
         /\ \A s \in Dialled : caller[s] \in Party /\ Callee(s) \in Party /\ Callee(s) # caller[s]
  BY TwoParties DEF ConnectionTypes, Dialled, Callee

\* A list with one entry for each socket that gets an entry for a new one.
LEMMA OneMore ==
  ASSUME NEW N \in Nat, NEW S, NEW f \in [1..N -> S], NEW x \in S
  PROVE  /\ Append(f, x) \in [1..(N + 1) -> S]
         /\ Append(f, x)[N + 1] = x
         /\ \A i \in 1..N : Append(f, x)[i] = f[i]
<1>1. f \in Seq(S) /\ Len(f) = N /\ DOMAIN f = 1..N
  OBVIOUS
<1>2. /\ Append(f, x) \in Seq(S) /\ Len(Append(f, x)) = N + 1
      /\ \A i \in 1..N : Append(f, x)[i] = f[i]
      /\ Append(f, x)[N + 1] = x
  BY <1>1, AppendProperties
<1>3. Append(f, x) \in [1..Len(Append(f, x)) -> S]
  BY <1>2, LenProperties
<1> QED BY <1>2, <1>3

-----------------------------------------------------------------------------
(***************************************************************************)
(* What travels.  Only the answer of Shakes brings an answer to a caller.  *)
(***************************************************************************)
LEMMA AnswersInQueue ==
  ASSUME NEW q \in Seq(Frame)
  PROVE  /\ q # <<>> => Tail(q) \in Seq(Frame) /\ (HasAnswer(Tail(q)) => HasAnswer(q))
         /\ q # <<>> /\ Head(q).type = "answer" => HasAnswer(q)
         /\ \A f \in Frame : /\ Append(q, f) \in Seq(Frame)
                             /\ HasAnswer(Append(q, f)) => HasAnswer(q) \/ f.type = "answer"
  BY DEF HasAnswer

LEMMA NoAnswer == ~HasAnswer(<<>>)
  BY DEF HasAnswer

\* The lists w hold no answer that the lists v do not hold.
NoMore(w, v) == \A s \in Dialled, n \in Party : HasAnswer(w[s][n]) => HasAnswer(v[s][n])

LEMMA RestTravels ==
  ASSUME ConnectionTypes, NEW s \in Dialled, NEW n \in Party, wire[s][n] # <<>>
  PROVE  Rest(s, n) \in Wires /\ NoMore(Rest(s, n), wire)
<1>1. wire[s][n] \in Seq(Frame)
  BY DEF ConnectionTypes, Wires
<1>2. Tail(wire[s][n]) \in Seq(Frame) /\ (HasAnswer(Tail(wire[s][n])) => HasAnswer(wire[s][n]))
  BY <1>1, AnswersInQueue
<1> QED BY <1>2 DEF Rest, ConnectionTypes, Wires, NoMore

LEMMA SentTravels ==
  ASSUME ConnectionTypes, NEW w \in Wires, NEW s \in Dialled, NEW n \in Party, NEW f \in Frame
  PROVE  /\ Sent(w, s, n, f) \in Wires
         /\ f.type # "answer" => NoMore(Sent(w, s, n, f), w)
         /\ \A t \in Dialled, m \in Party :
               HasAnswer(Sent(w, s, n, f)[t][m]) => HasAnswer(w[t][m]) \/ (t = s /\ m = n)
<1>1. w[s][n] \in Seq(Frame)
  BY DEF Wires
<1>2. /\ Append(w[s][n], f) \in Seq(Frame)
      /\ HasAnswer(Append(w[s][n], f)) => HasAnswer(w[s][n]) \/ f.type = "answer"
  BY <1>1, AnswersInQueue
<1> QED BY <1>2 DEF Sent, Wires, NoMore

LEMMA ClosingTravels ==
  ASSUME ConnectionTypes, NEW w \in Wires, NEW n \in Party, NEW closing
  PROVE  WireClosing(w, n, closing) \in Wires /\ NoMore(WireClosing(w, n, closing), w)
<1> DEFINE f == [type |-> "close"]
<1>1. f \in Frame /\ f.type # "answer"
  BY DEF Frame
<1>2. ASSUME NEW t \in Dialled, NEW m \in Party
      PROVE  /\ w[t][m] \in Seq(Frame) /\ Append(w[t][m], f) \in Seq(Frame)
             /\ HasAnswer(Append(w[t][m], f)) => HasAnswer(w[t][m])
  <2>1. w[t][m] \in Seq(Frame)
    BY DEF Wires
  <2> HIDE DEF f
  <2> QED BY <1>1, <2>1, AnswersInQueue
<1>3. Other(n) \in Party
  BY TwoParties
<1> HIDE DEF f
<1>4. WireClosing(w, n, closing) =
        [t \in Dialled |-> IF t \in closing /\ ends[t][Other(n)] # "closed"
                           THEN [w[t] EXCEPT ![Other(n)] = Append(@, f)] ELSE w[t]]
  BY DEF WireClosing, f
<1> QED BY <1>2, <1>3, <1>4 DEF Wires, NoMore

LEMMA NoMoreChain ==
  ASSUME NEW u, NEW v, NEW w, NoMore(u, v), NoMore(v, w)
  PROVE  NoMore(u, w)
  BY DEF NoMore

LEMMA EndsClosingFacts ==
  ASSUME ConnectionTypes, NEW n \in Party, NEW closing
  PROVE  /\ EndsClosing(n, closing) \in [Dialled -> [Party -> ReadyStates]]
         /\ \A t \in Dialled, m \in Party :
               EndsClosing(n, closing)[t][m] =
                 IF t \in closing /\ m = n THEN "closing" ELSE ends[t][m]
  BY DEF EndsClosing, ConnectionTypes, ReadyStates

-----------------------------------------------------------------------------
(***************************************************************************)
(* The two kinds of steps: those that register no socket, and those that   *)
(* do.                                                                     *)
(***************************************************************************)
LEMMA QuietKeepsPools ==
  ASSUME ConnectionTypes, PoolInv, UNCHANGED caller,
         \A s \in Dialled :
            /\ step'[s] = "connecting" => step[s] = "connecting" /\ ends'[s] = ends[s]
            /\ step'[s] = "handshaken" => step[s] = "handshaken"
            /\ HasAnswer(wire'[s][caller[s]]) => HasAnswer(wire[s][caller[s]])
            /\ \A n \in Party : ends'[s][n] = "open" =>
                  \/ (ends[s][n] = "open" /\ (sockets[n] = s => sockets'[n] = s))
                  \/ ~Registered(s)
         ,
         \A n \in Party : sockets'[n] # 0 => ends'[sockets'[n]][n] \in {"open", "closing"}
  PROVE  PoolInv'
  BY Numbered DEF PoolInv, Registered, Dialled, Callee

LEMMA RegistrationKeepsPools ==
  ASSUME ConnectionTypes, PoolInv, UNCHANGED caller, NEW s \in Dialled, NEW n \in Party,
         ends[s][n] \in {"open", "closing"}, ends' = EndsClosing(n, Superseded(n)),
         sockets' = [sockets EXCEPT ![n] = s],
         \A t \in Dialled :
            /\ step'[t] = "connecting" => step[t] = "connecting" /\ t # s
            /\ step'[t] = "handshaken" => \/ step[t] = "handshaken"
                                           \/ (t = s /\ n = caller[s] /\ Registered(s))
            /\ HasAnswer(wire'[t][caller[t]]) =>
                 HasAnswer(wire[t][caller[t]]) \/ (t = s /\ n = Callee(s))
  PROVE  PoolInv'
<1> USE DEF ConnectionTypes
<1>1. \A t \in Dialled, m \in Party :
         ends'[t][m] = IF t \in Superseded(n) /\ m = n THEN "closing" ELSE ends[t][m]
  BY EndsClosingFacts
<1>2. \A m \in Party : sockets'[m] = IF m = n THEN s ELSE sockets[m]
  OBVIOUS
<1>3. \A t \in Dialled : caller[t] \in Party /\ Callee(t) \in Party /\ Callee(t) # caller[t]
  BY Numbered
<1>4. \A t \in Dialled : sockets[n] = t /\ ends[t][n] = "open" => t \in Superseded(n)
  BY DEF Superseded, Pooled
<1>5. ASSUME NEW t \in Dialled, Registered(t)', t # s PROVE Registered(t)
  BY <1>5 DEF Registered
<1>6. ASSUME NEW t \in Dialled, step'[t] = "handshaken", ends'[t][caller[t]] = "open"
      PROVE  sockets'[caller[t]] = t
  <2>1. CASE t = s /\ n = caller[s]
    BY <2>1, <1>2
  <2>2. CASE ~(t = s /\ n = caller[s])
    <3>1. step[t] = "handshaken" /\ ends[t][caller[t]] = "open" /\ sockets[caller[t]] = t
      BY <1>1, <1>3, <1>6, <2>2 DEF PoolInv
    <3>2. caller[t] # n
      BY <3>1, <1>1, <1>3, <1>4, <1>6
    <3> QED BY <3>1, <3>2, <1>2, <1>3
  <2> QED BY <2>1, <2>2
<1>7. ASSUME NEW t \in Dialled, Registered(t)', ends'[t][Callee(t)] = "open"
      PROVE  sockets'[Callee(t)] = t
  <2>1. CASE t = s /\ n = Callee(s)
    BY <2>1, <1>2
  <2>2. CASE ~(t = s /\ n = Callee(s))
    <3>1. Registered(t)
      BY <1>5, <1>7, <2>2 DEF Registered
    <3>2. ends[t][Callee(t)] = "open" /\ sockets[Callee(t)] = t
      BY <1>1, <1>3, <1>7, <3>1 DEF PoolInv
    <3>3. Callee(t) # n
      BY <3>2, <1>1, <1>3, <1>4, <1>7
    <3> QED BY <3>2, <3>3, <1>2, <1>3
  <2> QED BY <2>1, <2>2
<1>8. ASSUME NEW m \in Party, sockets'[m] # 0 PROVE ends'[sockets'[m]][m] \in {"open", "closing"}
  BY <1>1, <1>2, <1>8 DEF PoolInv
<1>9. ASSUME NEW t \in Dialled, step'[t] = "connecting"
      PROVE /\ ~HasAnswer(wire'[t][caller[t]])
             /\ \A m \in Party : ends'[t][m] = "none"
  BY <1>1, <1>9 DEF PoolInv, Superseded, Pooled
<1> QED BY <1>6, <1>7, <1>8, <1>9 DEF PoolInv, Dialled, Callee

LEMMA InitPools == ConnectionInit => ConnectionInv
<1> SUFFICES ASSUME ConnectionInit PROVE ConnectionInv
  OBVIOUS
<1>1. Dialled = {} /\ caller \in Seq(Party)
  BY DEF ConnectionInit, Dialled
<1>2. ConnectionTypes
  BY <1>1 DEF ConnectionInit, ConnectionTypes, Wires
<1> QED BY <1>1, <1>2 DEF ConnectionInit, ConnectionInv, PoolInv

\* The new socket is no one's yet, and nothing travels on it.
LEMMA DialKeepsPools ==
  ASSUME ConnectionInv, NEW n \in Party, Dial(n)
  PROVE  ConnectionInv'
<1> DEFINE N == Len(caller)
<1> USE DEF ConnectionInv
<1>1. Dialled = 1..N /\ N \in Nat /\ 0 \notin Dialled
  BY Numbered
<1>2. /\ caller' \in [1..(N + 1) -> Party] /\ caller'[N + 1] = n
      /\ \A s \in 1..N : caller'[s] = caller[s]
  <2>1. caller' = Append(caller, n)
    BY DEF Dial
  <2>2. N \in Nat /\ caller \in [1..N -> Party]
    BY <1>1 DEF ConnectionTypes
  <2> HIDE DEF N
  <2> QED BY <2>1, <2>2, OneMore
<1>3. /\ step' \in [1..(N + 1) -> Steps] /\ step'[N + 1] = "connecting"
      /\ \A s \in 1..N : step'[s] = step[s]
  <2>1. step' = Append(step, "connecting")
    BY DEF Dial
  <2>2. N \in Nat /\ step \in [1..N -> Steps] /\ "connecting" \in Steps
    BY <1>1 DEF ConnectionTypes, Steps
  <2> HIDE DEF N
  <2> QED BY <2>1, <2>2, OneMore
<1>4. /\ ends' \in [1..(N + 1) -> [Party -> ReadyStates]] /\ ends'[N + 1] = [m \in Party |-> "none"]
      /\ \A s \in 1..N : ends'[s] = ends[s]
  <2> DEFINE new == [m \in Party |-> "none"]
  <2> DEFINE S == [Party -> ReadyStates]
  <2>1. ends' = Append(ends, new)
    BY DEF Dial
  <2>2. N \in Nat /\ ends \in [1..N -> S] /\ new \in S
    BY <1>1 DEF ConnectionTypes, ReadyStates
  <2> HIDE DEF N, new, S
  <2>3. /\ ends' \in [1..(N + 1) -> S] /\ ends'[N + 1] = new
        /\ \A s \in 1..N : ends'[s] = ends[s]
    BY <2>1, <2>2, OneMore
  <2> QED BY <2>3 DEF new, S
<1>5. /\ wire' \in [1..(N + 1) -> [Party -> Seq(Frame)]] /\ wire'[N + 1] = [m \in Party |-> <<>>]
      /\ \A s \in 1..N : wire'[s] = wire[s]
  <2> DEFINE new == [m \in Party |-> <<>>]
  <2> DEFINE S == [Party -> Seq(Frame)]
  <2>1. wire' = Append(wire, new)
    BY DEF Dial
  <2>2. N \in Nat /\ wire \in [1..N -> S] /\ new \in S
    BY <1>1 DEF ConnectionTypes, Wires
  <2> HIDE DEF N, new, S
  <2>3. /\ wire' \in [1..(N + 1) -> S] /\ wire'[N + 1] = new
        /\ \A s \in 1..N : wire'[s] = wire[s]
    BY <2>1, <2>2, OneMore
  <2> QED BY <2>3 DEF new, S
<1> HIDE DEF N
<1>6. caller' \in Seq(Party) /\ Dialled' = 1..(N + 1) /\ Dialled' = Dialled \cup {N + 1}
  BY <1>1, <1>2 DEF Dialled
<1>7. ConnectionTypes'
  BY <1>2, <1>3, <1>4, <1>5, <1>6 DEF Dial, ConnectionTypes, Wires
<1>8. N + 1 \notin Dialled
  BY <1>1
<1>9. ASSUME NEW s \in Dialled
      PROVE  /\ caller'[s] = caller[s] /\ step'[s] = step[s]
             /\ ends'[s] = ends[s] /\ wire'[s] = wire[s]
             /\ Callee(s)' = Callee(s)
  BY <1>1, <1>2, <1>3, <1>4, <1>5 DEF Callee
<1>10. sockets' = sockets
  BY DEF Dial
<1>11. ASSUME NEW s \in Dialled'
       PROVE  /\ step'[s] = "connecting" => /\ ~HasAnswer(wire'[s][caller'[s]])
                                            /\ \A m \in Party : ends'[s][m] = "none"
              /\ step'[s] = "handshaken" /\ ends'[s][caller'[s]] = "open" => sockets'[caller'[s]] = s
              /\ Registered(s)' /\ ends'[s][Callee(s)'] = "open" => sockets'[Callee(s)'] = s
  <2>1. CASE s \in Dialled
    BY <2>1, <1>9, <1>10 DEF PoolInv, Registered
  <2>2. CASE s = N + 1
    <3>1. caller'[s] \in Party
      BY <1>2, <2>2
    <3>2. wire'[s][caller'[s]] = <<>>
      BY <3>1, <1>5, <2>2
    <3>3. ~HasAnswer(wire'[s][caller'[s]])
      BY <3>2, NoAnswer
    <3> QED BY <3>3, <1>3, <1>4, <2>2 DEF Registered
  <2> QED BY <2>1, <2>2, <1>6
<1>12. ASSUME NEW m \in Party, sockets'[m] # 0
       PROVE  ends'[sockets'[m]][m] \in {"open", "closing"}
  <2>1. sockets[m] \in Dialled
    BY <1>10, <1>12 DEF ConnectionTypes
  <2> QED BY <2>1, <1>9, <1>10, <1>12 DEF PoolInv
<1> QED BY <1>7, <1>11, <1>12 DEF PoolInv

\* What the end of n that is gone leaves behind.
LEMMA TerminatedFacts ==
  ASSUME ConnectionTypes, NEW s \in Dialled, NEW n \in Party, Terminated(s, n)
  PROVE  /\ ends' \in [Dialled -> [Party -> ReadyStates]] /\ wire' \in Wires
         /\ sockets' \in [Party -> Dialled \cup {0}]
         /\ NoMore(wire', wire)
         /\ \A t \in Dialled, m \in Party :
               ends'[t][m] = IF t = s /\ m = n THEN "closed" ELSE ends[t][m]
         /\ \A m \in Party :
               sockets'[m] = IF m = n /\ sockets[n] = s THEN 0 ELSE sockets[m]
<1> USE DEF ConnectionTypes, Terminated
<1>1. /\ ends' \in [Dialled -> [Party -> ReadyStates]]
      /\ \A t \in Dialled, m \in Party :
            ends'[t][m] = IF t = s /\ m = n THEN "closed" ELSE ends[t][m]
  BY DEF ReadyStates
<1>2. wire' \in Wires
  BY DEF Wires
<1>3. NoMore(wire', wire)
  BY NoAnswer DEF Wires, NoMore
<1> QED BY <1>1, <1>2, <1>3

LEMMA TerminatedKeepsPools ==
  ASSUME ConnectionInv, NEW s \in Dialled, NEW n \in Party, Terminated(s, n),
         UNCHANGED caller, step[s] # "connecting",
         step' \in {step, [step EXCEPT ![s] = "given up"]}
  PROVE  PoolInv'
<1> ConnectionTypes /\ PoolInv
  BY DEF ConnectionInv
<1>1. ASSUME NEW t \in Dialled
      PROVE  /\ step'[t] = "connecting" => step[t] = "connecting" /\ ends'[t] = ends[t]
             /\ step'[t] = "handshaken" => step[t] = "handshaken"
  <2>1. t # s => ends'[t] = ends[t]
    BY DEF Terminated, ConnectionTypes
  <2>2. CASE step' = step
    BY <2>1, <2>2
  <2>3. CASE step' = [step EXCEPT ![s] = "given up"]
    BY <2>1, <2>3 DEF ConnectionTypes
  <2> QED BY <2>2, <2>3
<1>2. \A t \in Dialled : caller[t] \in Party
  BY Numbered
<1>3. /\ NoMore(wire', wire)
      /\ \A t \in Dialled, m \in Party :
            ends'[t][m] = IF t = s /\ m = n THEN "closed" ELSE ends[t][m]
      /\ \A m \in Party : sockets'[m] = IF m = n /\ sockets[n] = s THEN 0 ELSE sockets[m]
  <2>1. NoMore(wire', wire)
    BY ONLY ConnectionTypes, s \in Dialled, n \in Party, Terminated(s, n), TerminatedFacts
  <2>2. \A t \in Dialled, m \in Party :
            ends'[t][m] = IF t = s /\ m = n THEN "closed" ELSE ends[t][m]
    BY ONLY ConnectionTypes, s \in Dialled, n \in Party, Terminated(s, n), TerminatedFacts
  <2>3. \A m \in Party : sockets'[m] = IF m = n /\ sockets[n] = s THEN 0 ELSE sockets[m]
    BY ONLY ConnectionTypes, s \in Dialled, n \in Party, Terminated(s, n), TerminatedFacts
  <2> QED BY <2>1, <2>2, <2>3
<1>4. ASSUME NEW t \in Dialled
      PROVE  /\ HasAnswer(wire'[t][caller[t]]) => HasAnswer(wire[t][caller[t]])
             /\ \A m \in Party : ends'[t][m] = "open" =>
                   ends[t][m] = "open" /\ (sockets[m] = t => sockets'[m] = t)
  BY <1>2, <1>3 DEF NoMore
<1>5. ASSUME NEW m \in Party, sockets'[m] # 0
      PROVE  ends'[sockets'[m]][m] \in {"open", "closing"}
  <2>1. sockets'[m] = sockets[m] /\ sockets[m] \in Dialled /\ ~(m = n /\ sockets[m] = s)
    BY <1>3, <1>5 DEF ConnectionTypes
  <2>2. ends'[sockets[m]][m] = ends[sockets[m]][m]
    BY <1>3, <2>1
  <2> QED BY <2>1, <2>2, <1>5 DEF PoolInv
<1> QED BY <1>1, <1>4, <1>5, QuietKeepsPools

\* A step that only says something, or forgets.
LEMMA TalkKeepsPools ==
  ASSUME ConnectionInv, UNCHANGED <<caller, ends, sockets>>, NoMore(wire', wire),
         \A s \in Dialled : /\ step'[s] = "connecting" => step[s] = "connecting"
                            /\ step'[s] = "handshaken" => step[s] = "handshaken"
  PROVE  PoolInv'
<1> ConnectionTypes /\ PoolInv
  BY DEF ConnectionInv
<1>1. \A t \in Dialled : caller[t] \in Party
  BY Numbered
<1> QED BY <1>1, QuietKeepsPools DEF NoMore, PoolInv, ConnectionTypes

LEMMA ArrivalFacts ==
  ASSUME ConnectionTypes, NEW s \in Dialled, NEW n \in Party, NEW types, Arrives(s, n, types)
  PROVE  /\ Rest(s, n) \in Wires /\ NoMore(Rest(s, n), wire)
         /\ Head(wire[s][n]) \in Frame
         /\ Head(wire[s][n]).type = "answer" => HasAnswer(wire[s][n])
<1>1. wire[s][n] \in Seq(Frame) /\ wire[s][n] # <<>>
  BY DEF ConnectionTypes, Wires, Arrives
<1> QED BY <1>1, RestTravels, AnswersInQueue

LEMMA Keys ==
  ASSUME ConnectionTypes, NEW n \in Party
  PROVE  StaticKey(n) \in Organisation \cup {NoOrganisation}
  BY DEF ConnectionTypes, StaticKey

LEMMA ConnectsKeepsPools ==
  ASSUME ConnectionInv, NEW s \in Dialled, Connects(s)
  PROVE  ConnectionInv'
<1> DEFINE key == StaticKey(caller[s])
           frame == [type |-> "kex_init", of |-> key]
<1> ConnectionTypes /\ PoolInv
  BY DEF ConnectionInv
<1>1. /\ \A t \in Dialled : caller[t] \in Party /\ Callee(t) \in Party
      /\ Dialled' = Dialled /\ 0 \notin Dialled
  BY Numbered DEF Connects, Dialled
<1>2. key \in Organisation \cup {NoOrganisation} /\ frame \in Frame /\ frame.type # "answer"
  BY <1>1, Keys DEF Frame
<1> HIDE DEF key, frame
<1>3. wire' \in Wires /\ NoMore(wire', wire)
  <2>1. CASE wire' = wire
    BY <2>1 DEF ConnectionTypes, NoMore
  <2>2. CASE wire' = Sent(wire, s, Callee(s), frame)
    BY <2>2, <1>1, <1>2, SentTravels DEF ConnectionTypes
  <2> QED BY <2>1, <2>2 DEF Connects, key, frame
<1>4. /\ step' \in [Dialled -> Steps] /\ step'[s] \in {"given up", "exchanging"}
      /\ \A t \in Dialled : t # s => step'[t] = step[t]
  BY DEF Connects, ConnectionTypes, Steps
<1>5. ends' \in [Dialled -> [Party -> ReadyStates]] /\ \A t \in Dialled : t # s => ends'[t] = ends[t]
  <2>1. /\ [ends[s] EXCEPT ![caller[s]] = "closed", ![Callee(s)] = "open"] \in [Party -> ReadyStates]
        /\ [n \in Party |-> "open"] \in [Party -> ReadyStates]
    BY <1>1 DEF ConnectionTypes, ReadyStates
  <2>2. \/ ends' = [ends EXCEPT ![s] = [ends[s] EXCEPT ![caller[s]] = "closed", ![Callee(s)] = "open"]]
        \/ ends' = [ends EXCEPT ![s] = [n \in Party |-> "open"]]
    BY DEF Connects, ConnectionTypes
  <2> QED BY <2>1, <2>2 DEF ConnectionTypes
<1>6. wireKey' \in [Party -> Organisation \cup {NoOrganisation}]
  BY <1>1, <1>2 DEF Connects, ConnectionTypes, key
<1>7. ConnectionTypes'
  BY <1>1, <1>3, <1>4, <1>5, <1>6 DEF Connects, ConnectionTypes, Wires
<1>8. UNCHANGED <<caller, sockets>>
  BY DEF Connects
<1>9. ~Registered(s) /\ \A n \in Party : sockets[n] # s
  <2>1. step[s] = "connecting" /\ s # 0
    BY <1>1 DEF Connects
  <2>2. ~Registered(s)
    BY <2>1 DEF PoolInv, Registered
  <2>3. \A n \in Party : ends[s][n] = "none"
    BY <2>1 DEF PoolInv
  <2> QED BY <2>1, <2>2, <2>3 DEF PoolInv
<1>10. ASSUME NEW t \in Dialled
       PROVE  /\ step'[t] = "connecting" => step[t] = "connecting" /\ ends'[t] = ends[t]
              /\ step'[t] = "handshaken" => step[t] = "handshaken"
              /\ HasAnswer(wire'[t][caller[t]]) => HasAnswer(wire[t][caller[t]])
              /\ \A n \in Party : ends'[t][n] = "open" =>
                    \/ (ends[t][n] = "open" /\ (sockets[n] = t => sockets'[n] = t))
                    \/ ~Registered(t)
  BY <1>1, <1>3, <1>4, <1>5, <1>8, <1>9 DEF NoMore
<1>11. ASSUME NEW n \in Party, sockets'[n] # 0
       PROVE  ends'[sockets'[n]][n] \in {"open", "closing"}
  BY <1>5, <1>8, <1>9, <1>11 DEF PoolInv, ConnectionTypes
<1> QED BY <1>7, <1>8, <1>10, <1>11, QuietKeepsPools DEF ConnectionInv

\* The handshake at the end that answers.
LEMMA ShakesKeepsPools ==
  ASSUME ConnectionInv, NEW s \in Dialled, Shakes(s)
  PROVE  ConnectionInv'
<1> DEFINE n == Callee(s)
           fits == Head(wire[s][n]).of = organisation[n]
           frame == [type |-> IF fits THEN "answer" ELSE "refusal"]
           answered == IF ends[s][n] # "open" THEN Rest(s, n)
                       ELSE Sent(Rest(s, n), s, caller[s], frame)
<1> ConnectionTypes /\ PoolInv
  BY DEF ConnectionInv
<1>1. /\ \A t \in Dialled : caller[t] \in Party /\ Callee(t) \in Party /\ Callee(t) # caller[t]
      /\ Dialled' = Dialled /\ n \in Party
  BY Numbered DEF Shakes, Dialled
<1>2. Arrives(s, n, {"handshake"}) /\ UNCHANGED <<organisation, wireKey, caller, step>>
  BY DEF Shakes
<1>3. /\ fits => /\ ends' = EndsClosing(n, Superseded(n))
                /\ wire' = WireClosing(answered, n, Superseded(n))
                /\ sockets' = [sockets EXCEPT ![n] = s]
      /\ ~fits => wire' = answered /\ UNCHANGED <<ends, sockets>>
  BY DEF Shakes
<1>4. frame \in Frame /\ (~fits => frame.type # "answer")
  BY DEF Frame
<1> HIDE DEF n, fits, frame, answered
<1>5. Rest(s, n) \in Wires /\ NoMore(Rest(s, n), wire)
  BY <1>1, <1>2, ArrivalFacts
<1>6. /\ answered \in Wires
      /\ ~fits => NoMore(answered, wire)
      /\ \A t \in Dialled, m \in Party :
            HasAnswer(answered[t][m]) => HasAnswer(wire[t][m]) \/ (t = s /\ m = caller[s])
  <2>1. CASE ends[s][n] # "open"
    BY <2>1, <1>5 DEF answered, NoMore
  <2>2. CASE ends[s][n] = "open"
    <3>1. answered = Sent(Rest(s, n), s, caller[s], frame)
      BY <2>2 DEF answered
    <3>2. /\ answered \in Wires
          /\ ~fits => NoMore(answered, Rest(s, n))
          /\ \A t \in Dialled, m \in Party :
                HasAnswer(answered[t][m]) => HasAnswer(Rest(s, n)[t][m]) \/ (t = s /\ m = caller[s])
      BY <3>1, <1>1, <1>4, <1>5, SentTravels
    <3> QED BY <3>2, <1>5 DEF NoMore
  <2> QED BY <2>1, <2>2
<1>7. CASE ~fits
  <2>1. ConnectionTypes'
    BY <1>1, <1>2, <1>3, <1>6, <1>7 DEF ConnectionTypes, Wires
  <2> QED BY <2>1, <1>2, <1>3, <1>6, <1>7, TalkKeepsPools DEF ConnectionInv
<1>8. CASE fits
  <2>1. wire' \in Wires /\ NoMore(wire', answered)
    BY <1>1, <1>3, <1>6, <1>8, ClosingTravels
  <2>2. ends' \in [Dialled -> [Party -> ReadyStates]]
    BY <1>1, <1>3, <1>8, EndsClosingFacts
  <2>3. ConnectionTypes'
    <3>1. sockets' \in [Party -> Dialled \cup {0}]
      BY <1>1, <1>3, <1>8 DEF ConnectionTypes
    <3> QED BY <1>1, <1>2, <2>1, <2>2, <3>1 DEF ConnectionTypes, Wires
  <2>4. ends[s][n] \in {"open", "closing"} /\ step[s] # "connecting"
    BY <1>1, <1>2 DEF Arrives, PoolInv
  <2>5. ASSUME NEW t \in Dialled
        PROVE  /\ step'[t] = "connecting" => step[t] = "connecting" /\ t # s
               /\ step'[t] = "handshaken" => step[t] = "handshaken"
               /\ HasAnswer(wire'[t][caller[t]]) =>
                    HasAnswer(wire[t][caller[t]]) \/ (t = s /\ n = Callee(s))
    BY <1>1, <1>2, <1>6, <2>1, <2>4 DEF NoMore, n
  <2> QED BY <1>1, <1>2, <1>3, <1>8, <2>3, <2>4, <2>5, RegistrationKeepsPools DEF ConnectionInv
<1> QED BY <1>7, <1>8

\* The answer at the end that called.
LEMMA ShakenKeepsPools ==
  ASSUME ConnectionInv, NEW s \in Dialled, Shaken(s)
  PROVE  ConnectionInv'
<1> DEFINE n == caller[s]
<1> ConnectionTypes /\ PoolInv
  BY DEF ConnectionInv
<1>1. /\ \A t \in Dialled : caller[t] \in Party
      /\ Dialled' = Dialled /\ n \in Party
  BY Numbered DEF Shaken, Dialled
<1>2. Rest(s, n) \in Wires /\ NoMore(Rest(s, n), wire) /\ Registered(s)
  BY <1>1, ArrivalFacts DEF Shaken, Registered, Arrives
<1>3. wire' \in Wires /\ NoMore(wire', wire)
  BY <1>1, <1>2, ClosingTravels, NoMoreChain DEF Shaken
<1>4. ends' \in [Dialled -> [Party -> ReadyStates]]
  BY <1>1, EndsClosingFacts DEF Shaken
<1>5. ConnectionTypes'
  BY <1>1, <1>3, <1>4 DEF Shaken, ConnectionTypes, Wires, Steps
<1>6. ends[s][n] \in {"open", "closing"} /\ step[s] # "connecting"
  BY <1>1 DEF Shaken, Arrives
<1>7. ASSUME NEW t \in Dialled
      PROVE  /\ step'[t] = "connecting" => step[t] = "connecting" /\ t # s
             /\ step'[t] = "handshaken" => \/ step[t] = "handshaken"
                                           \/ (t = s /\ n = caller[s] /\ Registered(s))
             /\ HasAnswer(wire'[t][caller[t]]) => HasAnswer(wire[t][caller[t]])
  BY <1>1, <1>2, <1>3 DEF Shaken, ConnectionTypes, NoMore
<1> QED BY <1>1, <1>5, <1>6, <1>7, RegistrationKeepsPools DEF Shaken, ConnectionInv

\* A node that closes an end of its own, with nothing new to register.
LEMMA ClosesKeepsPools ==
  ASSUME ConnectionInv, NEW s \in Dialled, NEW n \in Party, CloseArrives(s, n)
  PROVE  ConnectionInv'
<1> ConnectionTypes /\ PoolInv
  BY DEF ConnectionInv
<1>1. \A t \in Dialled : caller[t] \in Party
  BY Numbered
<1>2. Rest(s, n) \in Wires /\ NoMore(Rest(s, n), wire) /\ ends[s][n] \in {"open", "closing"}
  BY ArrivalFacts DEF CloseArrives, Arrives
<1>3. CASE ends[s][n] = "open"
  <2>1. wire' \in Wires /\ NoMore(wire', wire)
    BY <1>2, <1>3, ClosingTravels, NoMoreChain DEF CloseArrives
  <2>2. /\ ends' \in [Dialled -> [Party -> ReadyStates]]
        /\ \A t \in Dialled, m \in Party :
              ends'[t][m] = IF t \in {s} /\ m = n THEN "closing" ELSE ends[t][m]
    BY <1>3, EndsClosingFacts DEF CloseArrives
  <2>3. /\ Dialled' = Dialled
        /\ UNCHANGED <<organisation, wireKey, caller, step, sockets>>
    BY DEF CloseArrives, Dialled
  <2>4. ConnectionTypes'
    BY <2>1, <2>2, <2>3 DEF ConnectionTypes, Wires
  <2>5. ASSUME NEW t \in Dialled
        PROVE  /\ step'[t] = "connecting" => step[t] = "connecting" /\ ends'[t] = ends[t]
               /\ step'[t] = "handshaken" => step[t] = "handshaken"
               /\ HasAnswer(wire'[t][caller[t]]) => HasAnswer(wire[t][caller[t]])
               /\ \A m \in Party : ends'[t][m] = "open" =>
                     ends[t][m] = "open" /\ (sockets[m] = t => sockets'[m] = t)
    <3>1. step[s] # "connecting"
      BY <1>3 DEF PoolInv
    <3>2. t # s => ends'[t] = ends[t]
      BY <1>3 DEF CloseArrives, EndsClosing
    <3> QED BY <1>1, <2>1, <2>2, <2>3, <3>1, <3>2 DEF NoMore
  <2>6. ASSUME NEW m \in Party, sockets'[m] # 0
        PROVE  ends'[sockets'[m]][m] \in {"open", "closing"}
    <3>1. sockets'[m] = sockets[m] /\ sockets[m] \in Dialled
      BY <2>3, <2>6 DEF ConnectionTypes
    <3> QED BY <2>2, <2>6, <3>1 DEF PoolInv
  <2> QED BY <2>3, <2>4, <2>5, <2>6, QuietKeepsPools DEF ConnectionInv
<1>4. CASE ends[s][n] # "open"
  <2>1. /\ wire' = Rest(s, n) /\ Dialled' = Dialled
        /\ UNCHANGED <<organisation, wireKey, caller, step, ends, sockets>>
    BY <1>4 DEF CloseArrives, Dialled
  <2>2. ConnectionTypes'
    BY <1>2, <2>1 DEF ConnectionTypes, Wires
  <2> QED BY <1>2, <2>1, <2>2, TalkKeepsPools DEF ConnectionInv
<1> QED BY <1>3, <1>4

\* A node that leaves: its pool is empty, and the end of it that was there closes.
LEMMA LeavingKeepsPools ==
  ASSUME ConnectionInv, NEW n \in Party, LeaveOrganisation(n)
  PROVE  ConnectionInv'
<1> DEFINE accepted == {s \in Dialled : Callee(s) = n /\ ends[s][n] \in {"open", "closing"}}
           said     == WireClosing(wire, n, Pooled(n))
<1> ConnectionTypes /\ PoolInv
  BY DEF ConnectionInv
<1>1. \A t \in Dialled : caller[t] \in Party
  BY Numbered
<1>2. /\ Dialled' = Dialled /\ UNCHANGED <<wireKey, caller, step>>
      /\ organisation' = [organisation EXCEPT ![n] = NoOrganisation]
      /\ sockets' = [sockets EXCEPT ![n] = 0]
      /\ ends' = [s \in Dialled |-> IF s \in accepted THEN [ends[s] EXCEPT ![n] = "closed"]
                                   ELSE EndsClosing(n, Pooled(n))[s]]
      /\ wire' = [s \in Dialled |-> IF s \in accepted THEN [said[s] EXCEPT ![n] = <<>>]
                                   ELSE said[s]]
  BY DEF LeaveOrganisation, Dialled
<1>3. said \in Wires /\ NoMore(said, wire)
  BY ClosingTravels DEF ConnectionTypes
<1>4. /\ EndsClosing(n, Pooled(n)) \in [Dialled -> [Party -> ReadyStates]]
      /\ \A t \in Dialled, m \in Party :
            EndsClosing(n, Pooled(n))[t][m] =
              IF t \in Pooled(n) /\ m = n THEN "closing" ELSE ends[t][m]
  BY EndsClosingFacts
<1> HIDE DEF accepted, said
<1>5. wire' \in Wires /\ NoMore(wire', wire)
  <2>1. \A s \in Dialled, m \in Party : wire'[s][m] \in {said[s][m], <<>>}
    BY <1>2, <1>3 DEF Wires
  <2>2. wire' \in Wires
    BY <1>2, <1>3 DEF Wires
  <2> QED BY <1>3, <2>1, <2>2, NoAnswer DEF NoMore
<1>6. /\ ends' \in [Dialled -> [Party -> ReadyStates]]
      /\ \A t \in Dialled, m \in Party :
            /\ m # n => ends'[t][m] = ends[t][m]
            /\ ends'[t][n] \in {"closed", "closing", ends[t][n]}
            /\ ends'[t][n] = "open" => ends[t][n] = "open" /\ t \notin Pooled(n)
  <2>1. ASSUME NEW t \in Dialled, t \in accepted
        PROVE  /\ ends'[t] \in [Party -> ReadyStates] /\ ends'[t][n] = "closed"
               /\ \A m \in Party : m # n => ends'[t][m] = ends[t][m]
    BY <2>1, <1>2 DEF ConnectionTypes, ReadyStates
  <2>2. ASSUME NEW t \in Dialled, t \notin accepted
        PROVE  ends'[t] = EndsClosing(n, Pooled(n))[t]
    BY <2>2, <1>2
  <2>3. ends' \in [Dialled -> [Party -> ReadyStates]]
    BY <1>2, <1>4, <2>1, <2>2
  <2> QED BY <1>4, <2>1, <2>2, <2>3
<1>7. ConnectionTypes'
  BY <1>2, <1>5, <1>6 DEF ConnectionTypes, Wires
<1>8. ASSUME NEW t \in Dialled
      PROVE  /\ step'[t] = "connecting" => step[t] = "connecting" /\ ends'[t] = ends[t]
             /\ step'[t] = "handshaken" => step[t] = "handshaken"
             /\ HasAnswer(wire'[t][caller[t]]) => HasAnswer(wire[t][caller[t]])
             /\ \A m \in Party : ends'[t][m] = "open" =>
                   ends[t][m] = "open" /\ (sockets[m] = t => sockets'[m] = t)
  <2>1. step[t] = "connecting" => ends'[t] = ends[t]
    <3> SUFFICES ASSUME step[t] = "connecting" PROVE ends'[t] = ends[t]
      OBVIOUS
    <3>1. \A m \in Party : ends[t][m] = "none"
      BY DEF PoolInv
    <3>2. t \notin accepted /\ t \notin Pooled(n)
      BY <3>1 DEF accepted, Pooled
    <3> QED BY <3>2, <1>2 DEF EndsClosing
  <2>2. \A m \in Party : ends'[t][m] = "open" =>
                   ends[t][m] = "open" /\ (sockets[m] = t => sockets'[m] = t)
    BY <1>2, <1>6 DEF Pooled, ConnectionTypes
  <2> QED BY <1>1, <1>2, <1>5, <2>1, <2>2 DEF NoMore
<1>9. ASSUME NEW m \in Party, sockets'[m] # 0
      PROVE  ends'[sockets'[m]][m] \in {"open", "closing"}
  <2>1. m # n /\ sockets'[m] = sockets[m] /\ sockets[m] \in Dialled
    BY <1>2, <1>9 DEF ConnectionTypes
  <2>2. ends'[sockets[m]][m] = ends[sockets[m]][m]
    BY <1>6, <2>1
  <2> QED BY <2>1, <2>2, <1>9 DEF PoolInv
<1> QED BY <1>2, <1>7, <1>8, <1>9, QuietKeepsPools DEF ConnectionInv

\* An answer of the key exchange or of the handshake that the attempt takes or
\* drops, and the timers: no socket is registered and none closes.
LEMMA TalkIsQuiet ==
  ASSUME ConnectionInv, NEW s \in Dialled,
         ConnectFails(s) \/ KexInit(s) \/ KexResponse(s) \/ Refuses(s) \/ TooLate(s)
           \/ HandshakeTimeout(s)
  PROVE  ConnectionInv'
<1> ConnectionTypes /\ PoolInv
  BY DEF ConnectionInv
<1> DEFINE init == [type |-> "kex_response", of |-> StaticKey(Callee(s))]
           hands == [type |-> "handshake", of |-> organisation[caller[s]]]
<1>1. caller[s] \in Party /\ Callee(s) \in Party
  BY Numbered
<1>2. /\ StaticKey(Callee(s)) \in Organisation \cup {NoOrganisation}
      /\ organisation[caller[s]] \in Organisation \cup {NoOrganisation}
  BY <1>1, Keys DEF ConnectionTypes
<1>3. /\ init \in Frame /\ init.type # "answer"
      /\ hands \in Frame /\ hands.type # "answer"
  BY <1>2 DEF Frame
<1> HIDE DEF init, hands
<1>4. ASSUME NEW n \in Party, NEW types, Arrives(s, n, types)
      PROVE  /\ Rest(s, n) \in Wires /\ NoMore(Rest(s, n), wire)
             /\ \A m \in Party :
                  /\ Sent(Rest(s, n), s, m, init) \in Wires
                  /\ Sent(Rest(s, n), s, m, hands) \in Wires
                  /\ NoMore(Sent(Rest(s, n), s, m, init), wire)
                  /\ NoMore(Sent(Rest(s, n), s, m, hands), wire)
  <2>1. Rest(s, n) \in Wires /\ NoMore(Rest(s, n), wire)
    BY <1>4, ArrivalFacts
  <2>2. ASSUME NEW m \in Party, NEW f \in Frame, f.type # "answer"
        PROVE  Sent(Rest(s, n), s, m, f) \in Wires /\ NoMore(Sent(Rest(s, n), s, m, f), wire)
    <3>1. Sent(Rest(s, n), s, m, f) \in Wires /\ NoMore(Sent(Rest(s, n), s, m, f), Rest(s, n))
      BY <2>1, <2>2, SentTravels
    <3> QED BY <2>1, <3>1 DEF NoMore
  <2> QED BY <2>1, <2>2, <1>3
<1>5. UNCHANGED <<organisation, caller, ends, sockets>> /\ Dialled' = Dialled
  BY DEF ConnectFails, KexInit, KexResponse, Refuses, TooLate, HandshakeTimeout, Dialled
<1>6. wire' \in Wires /\ NoMore(wire', wire)
  <2>1. CASE ConnectFails(s) \/ HandshakeTimeout(s)
    BY <2>1 DEF ConnectFails, HandshakeTimeout, ConnectionTypes, NoMore
  <2>2. CASE KexInit(s)
    BY <2>2, <1>1, <1>4 DEF KexInit, init
  <2>3. CASE KexResponse(s)
    BY <2>3, <1>1, <1>4 DEF KexResponse, hands
  <2>4. CASE Refuses(s)
    BY <2>4, <1>1, <1>4 DEF Refuses
  <2>5. CASE TooLate(s)
    BY <2>5, <1>1, <1>4 DEF TooLate
  <2> QED BY <2>1, <2>2, <2>3, <2>4, <2>5
<1>7. /\ step' \in [Dialled -> Steps]
      /\ \A t \in Dialled : step'[t] \in {"given up", "asking", step[t]}
  BY DEF ConnectFails, KexInit, KexResponse, Refuses, TooLate, HandshakeTimeout, ConnectionTypes, Steps
<1>8. wireKey' \in [Party -> Organisation \cup {NoOrganisation}]
  BY <1>1, <1>2 DEF ConnectFails, KexInit, KexResponse, Refuses, TooLate, HandshakeTimeout, ConnectionTypes
<1>9. ConnectionTypes'
  BY <1>5, <1>6, <1>7, <1>8 DEF ConnectionTypes, Wires
<1>10. PoolInv'
  BY <1>5, <1>6, <1>7, TalkKeepsPools
<1> QED BY <1>9, <1>10 DEF ConnectionInv

LEMMA EndIsGone ==
  ASSUME ConnectionInv, NEW s \in Dialled, NEW n \in Party, KexTimeout(s, n) \/ Breaks(s, n)
  PROVE  ConnectionInv'
<1> ConnectionTypes /\ PoolInv
  BY DEF ConnectionInv
<1>1. Terminated(s, n) /\ UNCHANGED <<organisation, wireKey, caller>> /\ Dialled' = Dialled
  BY DEF KexTimeout, Breaks, Dialled
<1>2. step' \in {step, [step EXCEPT ![s] = "given up"]} /\ step' \in [Dialled -> Steps]
  BY DEF KexTimeout, Breaks, ConnectionTypes, Steps
<1>3. /\ ends' \in [Dialled -> [Party -> ReadyStates]] /\ wire' \in Wires
      /\ sockets' \in [Party -> Dialled \cup {0}]
  BY <1>1, TerminatedFacts
<1>4. ConnectionTypes'
  BY <1>1, <1>2, <1>3 DEF ConnectionTypes, Wires
<1>5. step[s] # "connecting"
  BY DEF KexTimeout, Breaks, PoolInv
<1>6. PoolInv'
  BY <1>1, <1>2, <1>5, TerminatedKeepsPools
<1> QED BY <1>4, <1>6 DEF ConnectionInv

LEMMA ConnectionStep == ConnectionInv /\ [ConnectionNext]_connectionVars => ConnectionInv'
<1> SUFFICES ASSUME ConnectionInv, [ConnectionNext]_connectionVars PROVE ConnectionInv'
  OBVIOUS
<1>1. ASSUME NEW n \in Party, Dial(n) PROVE ConnectionInv'
  BY <1>1, DialKeepsPools
<1>2. ASSUME NEW n \in Party, LeaveOrganisation(n) PROVE ConnectionInv'
  BY <1>2, LeavingKeepsPools
<1>3. ASSUME NEW n \in Party, NEW o \in Organisation, EnterOrganisation(n, o) PROVE ConnectionInv'
  <2>1. /\ organisation' \in [Party -> Organisation \cup {NoOrganisation}]
        /\ UNCHANGED <<wireKey, caller, step, ends, wire, sockets>> /\ Dialled' = Dialled
    BY <1>3 DEF EnterOrganisation, ConnectionInv, ConnectionTypes, Dialled
  <2>2. ConnectionTypes'
    BY <2>1 DEF ConnectionInv, ConnectionTypes, Wires
  <2>3. PoolInv'
    BY <2>1, TalkKeepsPools DEF NoMore
  <2> QED BY <2>2, <2>3 DEF ConnectionInv
<1>4. ASSUME NEW s \in Dialled, Connects(s) PROVE ConnectionInv'
  BY <1>4, ConnectsKeepsPools
<1>5. ASSUME NEW s \in Dialled,
             ConnectFails(s) \/ KexInit(s) \/ KexResponse(s) \/ Refuses(s) \/ TooLate(s)
               \/ HandshakeTimeout(s)
      PROVE ConnectionInv'
  BY <1>5, TalkIsQuiet
<1>6. ASSUME NEW s \in Dialled, Shakes(s) PROVE ConnectionInv'
  BY <1>6, ShakesKeepsPools
<1>7. ASSUME NEW s \in Dialled, Shaken(s) PROVE ConnectionInv'
  BY <1>7, ShakenKeepsPools
<1>8. ASSUME NEW s \in Dialled, NEW n \in Party, KexTimeout(s, n) \/ Breaks(s, n)
      PROVE ConnectionInv'
  BY <1>8, EndIsGone
<1>9. ASSUME NEW s \in Dialled, NEW n \in Party, CloseArrives(s, n) PROVE ConnectionInv'
  BY <1>9, ClosesKeepsPools
<1>10. CASE UNCHANGED connectionVars
  <2>1. UNCHANGED <<organisation, wireKey, caller, step, ends, wire, sockets>> /\ Dialled' = Dialled
    BY <1>10 DEF connectionVars, Dialled
  <2> QED BY <2>1 DEF ConnectionInv, ConnectionTypes, PoolInv, Registered, Callee, Wires
<1> QED BY <1>1, <1>2, <1>3, <1>4, <1>5, <1>6, <1>7, <1>8, <1>9, <1>10 DEF ConnectionNext

\* When nothing is under way the pools of the two nodes agree on the socket on
\* which hands were shaken, and hold no closed one (connection_pool.js:4,
\* registerSocket; handshake.js): whatever both dialled, replaced and closed at
\* the same time, over any number of sockets and of stays in networks.
THEOREM PoolsStayAgreed == ConnectionSpec => []PoolsAgree
<1>1. ASSUME ConnectionInv, Settled
      PROVE  /\ \A s \in Dialled : step[s] = "handshaken" /\ ends[s][caller[s]] = "open"
                                    => \A n \in Party : sockets[n] = s
             /\ \A n \in Party : sockets[n] # 0 => ends[sockets[n]][n] = "open"
  <2> ConnectionTypes /\ PoolInv
    BY <1>1 DEF ConnectionInv
  <2>1. ASSUME NEW s \in Dialled, step[s] = "handshaken", ends[s][caller[s]] = "open",
               NEW n \in Party
        PROVE  sockets[n] = s
    <3>1. ends[s][Callee(s)] = "open"
      BY <1>1, <2>1 DEF Settled
    <3>2. sockets[caller[s]] = s /\ sockets[Callee(s)] = s
      BY <2>1, <3>1 DEF PoolInv, Registered
    <3>3. caller[s] \in Party
      BY Numbered
    <3> QED BY <3>2, <3>3, TwoParties DEF Callee
  <2>2. ASSUME NEW n \in Party, sockets[n] # 0
        PROVE  ends[sockets[n]][n] = "open"
    <3>1. sockets[n] \in Dialled
      BY <2>2 DEF ConnectionTypes
    <3> QED BY <1>1, <2>2, <3>1 DEF PoolInv, Settled
  <2> QED BY <2>1, <2>2
<1>2. ConnectionInv => PoolsAgree
  BY <1>1 DEF PoolsAgree
<1> QED BY <1>2, InitPools, ConnectionStep, PTL DEF ConnectionSpec
=============================================================================
