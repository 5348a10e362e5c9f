--------------------------- MODULE PeerConnections ---------------------------
(***************************************************************************)
(* The connections between two nodes (p2p/transport/, the key exchange and *)
(* the handshake of p2p/protocol/).  Every synchronisation dials a socket  *)
(* of its own; the two ends exchange keys, under the static key of their   *)
(* network, and shake hands; each end then keeps the socket in its pool,   *)
(* one per node, and closes the one it had there.  Both nodes dial, answer *)
(* and replace at the same time, close events and answers are under way    *)
(* meanwhile, timers fire, connections break, and a node leaves its        *)
(* network and enters another.                                             *)
(*                                                                         *)
(* Of a connection lost in between, each end learns for itself.  Sockets   *)
(* that a pull, a push or a full resynchronisation dials are never pooled  *)
(* and shake no hands: they are not here.                                  *)
(***************************************************************************)
EXTENDS Naturals, Sequences

CONSTANTS Party,           \* the two nodes
          Organisation,    \* networks
          NoOrganisation,  \* none
          MaxDials,        \* sockets ever dialled (a bound)
          MaxStays         \* networks ever entered, over both nodes (a bound)

ASSUME ConnectionAssumption == /\ \E n, m \in Party : n # m /\ Party = {n, m}
                               /\ NoOrganisation \notin Organisation
                               /\ {MaxDials, MaxStays} \subseteq Nat

VARIABLES organisation,  \* the network a node is in: its session and its server
          wireKey,       \* _cachedStaticKey
          stays,         \* networks entered so far
          caller,        \* who dialled each socket
          step,          \* the attempt of the caller
          secured,       \* the end that answers has the key of the session
          ends,          \* readyState of the socket at either end
          wire,          \* what is under way to either end
          sockets        \* _sockets: what the pool has for the other node, or 0

connectionVars == <<organisation, wireKey, stays, caller, step, secured, ends, wire, sockets>>

Socket == 1..MaxDials
Dialled == DOMAIN caller
Other(n) == CHOOSE m \in Party : m # n
Callee(s) == Other(caller[s])

Frame == [type : {"kex_init", "kex_response", "handshake"},
          of : Organisation \cup {NoOrganisation}] \cup
         [type : {"answer", "refusal", "close"}]

ConnectionTypeOK ==
  /\ {organisation, wireKey} \subseteq [Party -> Organisation \cup {NoOrganisation}]
  /\ stays \in 0..MaxStays
  /\ caller \in Seq(Party) /\ Len(caller) <= MaxDials
  /\ step \in [Dialled -> {"connecting", "exchanging", "asking", "handshaken", "given up"}]
  /\ secured \subseteq Dialled
  /\ ends \in [Dialled -> [Party -> {"none", "open", "closing", "closed"}]]
  /\ \A s \in Dialled, n \in Party :
       /\ wire[s][n] \in Seq(Frame) /\ Len(wire[s][n]) <= 3
       /\ wire[s][n] # <<>> => ends[s][n] \in {"open", "closing"}
  /\ sockets \in [Party -> Dialled \cup {0}]

ConnectionInit ==
  /\ organisation = [n \in Party |-> NoOrganisation]
  /\ wireKey = organisation /\ stays = 0
  /\ caller = <<>> /\ step = <<>> /\ secured = {} /\ ends = <<>> /\ wire = <<>>
  /\ sockets = [n \in Party |-> 0]

-----------------------------------------------------------------------------
\* _getStaticKey: derived once, from the network that is open then, and kept.
StaticKey(n) == IF wireKey[n] # NoOrganisation THEN wireKey[n] ELSE organisation[n]

\* What is sent to n, unless its end no longer receives.
Sent(w, s, n, frame) ==
  IF ends[s][n] = "closed" THEN w ELSE [w EXCEPT ![s][n] = Append(@, frame)]

\* The end of n is gone at once, with what was under way to it: terminate, a
\* connection that breaks, and the close event, which takes out of the pool the
\* socket that closed and no other.
Terminated(s, n) ==
  /\ ends' = [ends EXCEPT ![s][n] = "closed"]
  /\ wire' = [wire EXCEPT ![s][n] = <<>>]
  /\ sockets' = IF sockets[n] = s THEN [sockets EXCEPT ![n] = 0] ELSE sockets

\* What the pool has, unless it closes already.
Pooled(n) == {t \in Dialled : sockets[n] = t /\ ends[t][n] = "open"}

\* Mutant: the socket that was there stays open.
LeftOpen(n) == {}

\* registerSocket: the open socket that is there is closed.
Superseded(n) == Pooled(n)

\* The ends of n that close of their own, and the frames that say so.
EndsClosing(n, closing) ==
  [t \in Dialled |-> IF t \in closing THEN [ends[t] EXCEPT ![n] = "closing"] ELSE ends[t]]
WireClosing(w, n, closing) ==
  [t \in Dialled |-> IF t \in closing /\ ends[t][Other(n)] # "closed"
                     THEN [w[t] EXCEPT ![Other(n)] = Append(@, [type |-> "close"])]
                     ELSE w[t]]

-----------------------------------------------------------------------------
\* syncWithPeer dials the other node: one attempt at a time.
Dial(n) ==
  /\ organisation[n] # NoOrganisation
  /\ Len(caller) < MaxDials
  /\ \A s \in Dialled : caller[s] = n => step[s] \in {"handshaken", "given up"}
  /\ LET idle == [m \in Party |-> <<>>]
     IN  /\ caller' = Append(caller, n)
         /\ step' = Append(step, "connecting")
         /\ ends' = Append(ends, [m \in Party |-> "none"])
         /\ wire' = Append(wire, idle)
  /\ UNCHANGED <<organisation, wireKey, stays, secured, sockets>>

\* The socket is open at both ends, and the caller starts the key exchange; a
\* caller that has left its network, and never derived a key, has none to use.
Connects(s) ==
  /\ step[s] = "connecting" /\ organisation[Callee(s)] # NoOrganisation
  /\ LET key == StaticKey(caller[s])
     IN  IF key = NoOrganisation
         THEN /\ step' = [step EXCEPT ![s] = "given up"]
              /\ ends' = [ends EXCEPT ![s] = [@ EXCEPT ![caller[s]] = "closed",
                                                       ![Callee(s)] = "open"]]
              /\ UNCHANGED <<wireKey, wire>>
         ELSE /\ step' = [step EXCEPT ![s] = "exchanging"]
              /\ ends' = [ends EXCEPT ![s] = [n \in Party |-> "open"]]
              /\ wireKey' = [wireKey EXCEPT ![caller[s]] = key]
              /\ wire' = Sent(wire, s, Callee(s), [type |-> "kex_init", of |-> key])
  /\ UNCHANGED <<organisation, stays, caller, secured, sockets>>

\* Refused, or 5 s without an answer.
ConnectFails(s) ==
  /\ step[s] = "connecting" /\ step' = [step EXCEPT ![s] = "given up"]
  /\ UNCHANGED <<organisation, wireKey, stays, caller, secured, ends, wire, sockets>>

\* The next frame to n on s; an end that is closing still takes what comes.
Arrives(s, n, types) ==
  /\ ends[s][n] \in {"open", "closing"}
  /\ wire[s][n] # <<>> /\ Head(wire[s][n]).type \in types

Rest(s, n) == [wire EXCEPT ![s][n] = Tail(@)]

\* awaitKeyExchange: an init under another key is dropped.
KexInit(s) ==
  LET n == Callee(s) IN
  /\ Arrives(s, n, {"kex_init"})
  /\ wireKey' = [wireKey EXCEPT ![n] = StaticKey(n)]
  /\ IF Head(wire[s][n]).of = StaticKey(n)
     THEN /\ secured' = secured \cup {s}
          /\ wire' = Sent(Rest(s, n), s, caller[s], [type |-> "kex_response", of |-> StaticKey(n)])
     ELSE wire' = Rest(s, n) /\ UNCHANGED secured
  /\ UNCHANGED <<organisation, stays, caller, step, ends, sockets>>

\* initiateKeyExchange ends, and performHandshake asks.
KexResponse(s) ==
  LET n == caller[s] IN
  /\ Arrives(s, n, {"kex_response"}) /\ step[s] = "exchanging"
  /\ step' = [step EXCEPT ![s] = "asking"]
  /\ wire' = Sent(Rest(s, n), s, Callee(s), [type |-> "handshake", of |-> organisation[n]])
  /\ UNCHANGED <<organisation, wireKey, stays, caller, secured, ends, sockets>>

\* 8 s without the key of the other: either end gives the socket up.
KexTimeout(s, n) ==
  /\ IF n = caller[s]
     THEN step[s] = "exchanging" /\ step' = [step EXCEPT ![s] = "given up"]
     ELSE ends[s][n] = "open" /\ s \notin secured /\ UNCHANGED step
  /\ Terminated(s, n)
  /\ UNCHANGED <<organisation, wireKey, stays, caller, secured>>

\* The handshake handler: a caller of the same network is registered, and
\* answered, if the end of the socket is still open.
Shakes(s) ==
  LET n        == Callee(s)
      fits     == Head(wire[s][n]).of = organisation[n]
      answered == IF ends[s][n] # "open" THEN Rest(s, n)
                  ELSE Sent(Rest(s, n), s, caller[s],
                            [type |-> IF fits THEN "answer" ELSE "refusal"])
  IN  /\ Arrives(s, n, {"handshake"})
      /\ IF fits
         THEN /\ ends' = EndsClosing(n, Superseded(n))
              /\ wire' = WireClosing(answered, n, Superseded(n))
              /\ sockets' = [sockets EXCEPT ![n] = s]
         ELSE wire' = answered /\ UNCHANGED <<ends, sockets>>
      /\ UNCHANGED <<organisation, wireKey, stays, caller, step, secured>>

\* The answer: the caller registers the socket, whatever became of its network
\* since it asked.
Shaken(s) ==
  LET n == caller[s] IN
  /\ Arrives(s, n, {"answer"}) /\ step[s] = "asking"
  /\ step' = [step EXCEPT ![s] = "handshaken"]
  /\ ends' = EndsClosing(n, Superseded(n))
  /\ wire' = WireClosing(Rest(s, n), n, Superseded(n))
  /\ sockets' = [sockets EXCEPT ![n] = s]
  /\ UNCHANGED <<organisation, wireKey, stays, caller, secured>>

Refuses(s) ==
  LET n == caller[s] IN
  /\ Arrives(s, n, {"refusal"}) /\ step[s] = "asking"
  /\ step' = [step EXCEPT ![s] = "given up"] /\ wire' = Rest(s, n)
  /\ UNCHANGED <<organisation, wireKey, stays, caller, secured, ends, sockets>>

\* An answer after the timer finds no request waiting.
TooLate(s) ==
  LET n == caller[s] IN
  /\ Arrives(s, n, {"kex_response", "answer", "refusal"}) /\ step[s] = "given up"
  /\ wire' = Rest(s, n)
  /\ UNCHANGED <<organisation, wireKey, stays, caller, step, secured, ends, sockets>>

\* 15 s without the answer: the attempt is over, the socket stays as it is.
HandshakeTimeout(s) ==
  /\ step[s] = "asking" /\ step' = [step EXCEPT ![s] = "given up"]
  /\ UNCHANGED <<organisation, wireKey, stays, caller, secured, ends, wire, sockets>>

\* A close frame: an open end answers with one.
CloseArrives(s, n) ==
  /\ Arrives(s, n, {"close"})
  /\ IF ends[s][n] = "open"
     THEN /\ ends' = EndsClosing(n, {s}) /\ wire' = WireClosing(Rest(s, n), n, {s})
     ELSE wire' = Rest(s, n) /\ UNCHANGED ends
  /\ UNCHANGED <<organisation, wireKey, stays, caller, step, secured, sockets>>

\* The socket of n is down: after the frames of both ends, 30 s after its own,
\* or because the connection broke.
Breaks(s, n) ==
  /\ ends[s][n] \in {"open", "closing"}
  /\ Terminated(s, n)
  /\ UNCHANGED <<organisation, wireKey, stays, caller, step, secured>>

-----------------------------------------------------------------------------
EnterOrganisation(n, o) ==
  /\ organisation[n] = NoOrganisation /\ stays < MaxStays
  /\ organisation' = [organisation EXCEPT ![n] = o] /\ stays' = stays + 1
  /\ UNCHANGED <<wireKey, caller, step, secured, ends, wire, sockets>>

\* stopSyncServer: what is in the pool closes, what was accepted is terminated,
\* what was dialled and is not in the pool goes on.
LeaveOrganisation(n) ==
  /\ organisation[n] # NoOrganisation
  /\ organisation' = [organisation EXCEPT ![n] = NoOrganisation]
  /\ LET accepted == {s \in Dialled : Callee(s) = n /\ ends[s][n] \in {"open", "closing"}}
         pooled   == Pooled(n)
         said     == WireClosing(wire, n, pooled)
     IN  /\ ends' = [s \in Dialled |-> IF s \in accepted THEN [ends[s] EXCEPT ![n] = "closed"]
                                       ELSE EndsClosing(n, pooled)[s]]
         /\ wire' = [s \in Dialled |-> IF s \in accepted THEN [said[s] EXCEPT ![n] = <<>>]
                                       ELSE said[s]]
  /\ sockets' = [sockets EXCEPT ![n] = 0]
  /\ UNCHANGED <<wireKey, stays, caller, step, secured>>

ConnectionNext ==
  \/ \E n \in Party : Dial(n) \/ LeaveOrganisation(n)
  \/ \E n \in Party, o \in Organisation : EnterOrganisation(n, o)
  \/ \E s \in Dialled :
       \/ Connects(s) \/ ConnectFails(s) \/ KexInit(s) \/ KexResponse(s)
       \/ Shakes(s) \/ Shaken(s) \/ Refuses(s) \/ TooLate(s) \/ HandshakeTimeout(s)
       \/ \E n \in Party : KexTimeout(s, n) \/ CloseArrives(s, n) \/ Breaks(s, n)

ConnectionSpec == ConnectionInit /\ [][ConnectionNext]_connectionVars

-----------------------------------------------------------------------------
\* Nothing is under way, and the two ends of every socket know the same of it.
Settled ==
  \A s \in Dialled : /\ \A n \in Party : wire[s][n] = <<>> /\ ends[s][n] # "closing"
                     /\ ends[s][caller[s]] = "open" <=> ends[s][Callee(s)] = "open"

\* When nothing is under way, a socket on which the hands were shaken and that
\* is open is the one that both nodes have in their pool, so there is one at
\* most, and a pool holds no socket that is closed: whatever both nodes dialled,
\* replaced and closed at the same time, messages for a node do not go to a
\* socket of which it knows nothing (connection_pool.js:4).
PoolsAgree ==
  Settled =>
    /\ \A s \in Dialled : step[s] = "handshaken" /\ ends[s][caller[s]] = "open"
                            => \A n \in Party : sockets[n] = s
    /\ \A n \in Party : sockets[n] # 0 => ends[sockets[n]][n] = "open"

\* Two nodes that are in the same network understand one another (README.md:33:
\* nodes of a network find each other and synchronise): what one encrypts to
\* start a key exchange the other can read.
NetworkUnderstands ==
  \A n, m \in Party : organisation[n] = organisation[m] /\ organisation[n] # NoOrganisation
                        => StaticKey(n) = StaticKey(m)
=============================================================================
