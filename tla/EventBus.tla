------------------------------ MODULE EventBus ------------------------------
(***************************************************************************)
(* The bus between applications (core/bus): the publication of an event    *)
(* with a given id (UniversalEventBus.js), the subscribers of its topic    *)
(* (TopicRouter.js) and the ids already processed (IdempotencyStore.js).   *)
(* One event is followed; every subscriber subscribes to its topic.        *)
(***************************************************************************)
EXTENDS Naturals, FiniteSets

CONSTANTS Subscriber,   \* handlers that may subscribe
          Publication   \* calls of publish with the id of the event, at once

VARIABLES subscribed,   \* the handlers the router finds for the topic
          publishing,   \* per call: "idle", or "waiting" for the handlers
          handling,     \* per call: the handlers it still waits for
          processed,    \* the store has the id, and its five minutes last
          received,     \* per handler: deliveries of the event, up to two
          repeatable    \* calls overlapped, or the five minutes have passed

busVars == <<subscribed, publishing, handling, processed, received, repeatable>>

BusTypeOK ==
  /\ subscribed \subseteq Subscriber
  /\ publishing \in [Publication -> {"idle", "waiting"}]
  /\ handling \in [Publication -> SUBSET Subscriber]
  /\ received \in [Subscriber -> 0..2]
  /\ processed \in BOOLEAN /\ repeatable \in BOOLEAN

BusInit ==
  /\ subscribed = {}
  /\ publishing = [p \in Publication |-> "idle"]
  /\ handling = [p \in Publication |-> {}]
  /\ processed = FALSE
  /\ received = [s \in Subscriber |-> 0]
  /\ repeatable = FALSE

\* subscribe and the function it returns
Subscribe(s) ==
  /\ s \notin subscribed
  /\ subscribed' = subscribed \cup {s}
  /\ UNCHANGED <<publishing, handling, processed, received, repeatable>>

Unsubscribe(s) ==
  /\ s \in subscribed
  /\ subscribed' = subscribed \ {s}
  /\ UNCHANGED <<publishing, handling, processed, received, repeatable>>

\* publish: an id that was processed is answered from the store; otherwise every
\* handler is called before the first wait.
Publish(p) ==
  /\ publishing[p] = "idle" /\ ~processed
  /\ publishing' = [publishing EXCEPT ![p] = "waiting"]
  /\ handling' = [handling EXCEPT ![p] = subscribed]
  /\ received' = [s \in Subscriber |-> IF s \in subscribed /\ received[s] < 2
                                       THEN received[s] + 1 ELSE received[s]]
  /\ repeatable' = (repeatable \/ \E q \in Publication : publishing[q] = "waiting")
  /\ UNCHANGED <<subscribed, processed>>

\* A handler returns or throws: both are results.
HandlerEnds(p, s) ==
  /\ s \in handling[p]
  /\ handling' = [handling EXCEPT ![p] = @ \ {s}]
  /\ UNCHANGED <<subscribed, publishing, processed, received, repeatable>>

\* Mutant: the id is not kept.
MarkNothing(p) ==
  /\ publishing[p] = "waiting" /\ handling[p] = {}
  /\ publishing' = [publishing EXCEPT ![p] = "idle"]
  /\ UNCHANGED <<subscribed, handling, processed, received, repeatable>>

\* The id is marked when the last handler has ended, the failed ones included.
Mark(p) ==
  /\ publishing[p] = "waiting" /\ handling[p] = {}
  /\ publishing' = [publishing EXCEPT ![p] = "idle"]
  /\ processed' = TRUE
  /\ UNCHANGED <<subscribed, handling, received, repeatable>>

\* has and cleanupExpired forget an id after its five minutes.
Forget ==
  /\ processed /\ processed' = FALSE
  /\ repeatable' = TRUE
  /\ UNCHANGED <<subscribed, publishing, handling, received>>

BusNext ==
  \/ \E s \in Subscriber : Subscribe(s) \/ Unsubscribe(s)
  \/ \E p \in Publication : \/ Publish(p) \/ Mark(p)
                            \/ \E s \in Subscriber : HandlerEnds(p, s)
  \/ Forget

BusSpec == BusInit /\ [][BusNext]_busVars

-----------------------------------------------------------------------------
\* A handler receives an event once, however often it is published again and
\* whatever handlers fail, unless two publications overlapped (the id is marked
\* when the handlers have ended, not when they are called) or five minutes have
\* passed.
BusDeliversOnce == repeatable \/ \A s \in Subscriber : received[s] <= 1
=============================================================================
