---------------------------- MODULE ServiceProofs ----------------------------
(***************************************************************************)
(* Proofs about HybridClock, for any readings of the computer's clock and  *)
(* any largest counter; EventBus, for any handlers and any calls of        *)
(* publish; ProgramUpdate, for any number of versions and of failures      *)
(* before the repository is tried; and NetworkAccess, for any number of    *)
(* calls at once, any limits and any graces.                               *)
(*                                                                         *)
(* Clock: that a stamp comes after everything the node saw does not follow *)
(* from the last stamp alone; what was seen, read back, never lies ahead   *)
(* of the clock (NotAhead).                                                *)
(*                                                                         *)
(* Bus: that a handler receives the event once rests on the calls: while   *)
(* one waits, no other does, nothing was received before it that another   *)
(* call did not mark, and a handler that received the event before is      *)
(* received by a call that waits still or has marked it (OnceGuarded).     *)
(*                                                                         *)
(* Updates: the marks are what keeps transfers apart; while no mark was    *)
(* taken off a download that goes on, a package that is fetched has its    *)
(* mark (Marked), so whatever asks before it starts finds it.              *)
(*                                                                         *)
(* Access: the limiter is asked before a hash is awaited and told after,   *)
(* so the count alone is not bounded by its limit; the count and the calls *)
(* that may still add to it are (Charged).  That a session ends only after *)
(* its grace needs the looks counted: each look that ages a loss saw the   *)
(* quorum missing (Watched).                                               *)
(***************************************************************************)
EXTENDS HybridClock, EventBus, ProgramUpdate, NetworkAccess, FiniteSetTheorems, TLAPS

-----------------------------------------------------------------------------
\* The clock

\* A stamp that was read back lies at or before the reading w with counter c.
NotAhead(s, w, c) ==
  LET p == Parse(s) IN p.wall < w \/ (p.wall = w /\ p.logical <= c)

ClockInv == ClockTypeOK /\ NotAhead(seen, wallTime, logical)

-----------------------------------------------------------------------------
\* A stamp read back is a stamp of the sets of the module, with a counter of
\* four digits; or it is the oldest one.
LEMMA Parsed ==
  ASSUME NEW s \in Stamp \cup {NoStamp}
  PROVE  /\ Parse(s).wall \in Nat /\ Parse(s).logical \in Nat /\ Parse(s).node \in Nat
         /\ Parse(s).wall \in Time /\ Parse(s).logical \in 0..MaxCounter
<1> USE ClockAssumption DEF Parse, NoStamp, Stamp, Time
<1>1. CASE s = NoStamp  BY <1>1
<1>2. CASE s \in Stamp
  <2>1. /\ s.wall \in Time /\ s.logical \in 0..MaxCounter + 1 /\ s.node \in NodeId
    BY <1>2
  <2>2. s.node \in Nat
    <3>1. s.node \in NodeId /\ NodeId \subseteq Nat  BY <2>1
    <3> HIDE DEF Stamp
    <3> QED  BY <3>1
  <2>3. s.wall \in Nat /\ s.logical \in Nat  BY <2>1
  <2> QED  BY <2>1, <2>2, <2>3
<1> QED  BY <1>1, <1>2

\* The stamp of a clock that went on, the text of its toString.
LEMMA NewStamp ==
  ASSUME NEW w \in Time, NEW c \in 0..MaxCounter + 1
  PROVE  LET s == [wall |-> w, logical |-> c, node |-> Self]
         IN  s \in Stamp /\ NotAhead(s, w, c)
BY ClockAssumption DEF Stamp, NotAhead, Parse, NoStamp, Time

\* A clock that went on is ahead of all that was not ahead of it before.
LEMMA StaysBehind ==
  ASSUME NEW s \in Stamp \cup {NoStamp},
         NEW w \in Nat, NEW c \in Nat, NEW v \in Nat, NEW d \in Nat,
         NotAhead(s, w, c), v > w \/ (v = w /\ d > c)
  PROVE  /\ NotAhead(s, v, d)
         /\ d <= MaxCounter => Before(s, [wall |-> v, logical |-> d, node |-> Self])
<1> DEFINE p == Parse(s)
           t == [wall |-> v, logical |-> d, node |-> Self]
<1>1. p.wall \in Nat /\ p.logical \in Nat  BY Parsed
<1>2. p.wall < v \/ (p.wall = v /\ p.logical < d)
  BY <1>1 DEF NotAhead
<1>3. NotAhead(s, v, d)  BY <1>1, <1>2 DEF NotAhead
<1>4. ASSUME d <= MaxCounter PROVE Before(s, t)
  <2>1. Parse(t) = t  BY <1>4 DEF Parse
  <2> QED  BY <1>2, <2>1 DEF Before
<1> QED  BY <1>3, <1>4

\* Of two stamps the later is one of the two.
LEMMA OneOfTwo ==
  ASSUME NEW a, NEW b
  PROVE  Later(a, b) \in {a, b}
BY DEF Later

-----------------------------------------------------------------------------
\* A step that stamps: what the clock saw was behind it, and whether it saw a
\* remote stamp too, all of it is behind the stamp.
LEMMA NowAdvances ==
  ASSUME ClockInv, Now
  PROVE  /\ ClockInv'
         /\ logical' <= MaxCounter => Before(seen, stamp') /\ seen' = stamp'
<1> USE ClockAssumption
<1>1. /\ wallTime \in Time /\ physical \in Time /\ logical \in 0..MaxCounter + 1
      /\ seen \in Stamp \cup {NoStamp} /\ NotAhead(seen, wallTime, logical)
  BY DEF ClockInv, ClockTypeOK
<1>2. wallTime' \in Time /\ logical' \in 0..MaxCounter + 1 /\ physical' = physical
  BY <1>1 DEF Now, Advanced, Time
<1>3. wallTime' > wallTime \/ (wallTime' = wallTime /\ logical' > logical)
  BY <1>1 DEF Now, Advanced, Time
<1>4. stamp' = [wall |-> wallTime', logical |-> logical', node |-> Self]
  BY DEF Now, Stamped
<1>5. stamp' \in Stamp /\ NotAhead(stamp', wallTime', logical')
  BY <1>2, <1>4, NewStamp
<1>6. /\ NotAhead(seen, wallTime', logical')
      /\ logical' <= MaxCounter => Before(seen, stamp')
  BY <1>1, <1>2, <1>3, <1>4, StaysBehind DEF Time
<1>7. seen' = Later(seen, stamp')  BY DEF Now
<1>8. seen' \in {seen, stamp'}  BY <1>7, OneOfTwo
<1>9. NotAhead(seen, wallTime, logical)'
  BY <1>5, <1>6, <1>8 DEF NotAhead
<1> QED  BY <1>1, <1>2, <1>5, <1>6, <1>7, <1>8, <1>9 DEF ClockInv, ClockTypeOK, Later

LEMMA UpdateAdvances ==
  ASSUME ClockInv, NEW remote \in Stamp, Update(remote)
  PROVE  /\ ClockInv'
         /\ logical' <= MaxCounter => Before(seen, stamp') /\ seen' = stamp'
<1> USE ClockAssumption
<1> DEFINE r == Parse(remote)
<1>1. /\ wallTime \in Time /\ physical \in Time /\ logical \in 0..MaxCounter + 1
      /\ seen \in Stamp \cup {NoStamp} /\ NotAhead(seen, wallTime, logical)
  BY DEF ClockInv, ClockTypeOK
<1>2. r.wall \in Time /\ r.logical \in 0..MaxCounter /\ r \in Stamp \cup {NoStamp}
      /\ Parse(r) = r
  BY Parsed DEF Parse, NoStamp
<1>3. /\ wallTime' \in {wallTime, r.wall, physical}
      /\ wallTime' >= wallTime /\ wallTime' >= r.wall
      /\ logical' = IF wallTime' = r.wall /\ r.logical > logical
                    THEN r.logical + 1 ELSE logical + 1
      /\ logical' <= MaxCounter + 1
      /\ seen' = Later(Later(seen, r), stamp') /\ physical' = physical
  BY DEF Update
<1>4. wallTime' \in Time /\ logical' \in 0..MaxCounter + 1
  BY <1>1, <1>2, <1>3 DEF Time
<1>5. wallTime' > wallTime \/ (wallTime' = wallTime /\ logical' > logical)
  BY <1>1, <1>2, <1>3 DEF Time
<1>6. stamp' = [wall |-> wallTime', logical |-> logical', node |-> Self]
  BY DEF Update, Stamped
<1>7. stamp' \in Stamp /\ NotAhead(stamp', wallTime', logical')
  BY <1>4, <1>6, NewStamp
<1>8. /\ NotAhead(seen, wallTime', logical')
      /\ logical' <= MaxCounter => Before(seen, stamp')
  BY <1>1, <1>4, <1>5, <1>6, StaysBehind DEF Time
<1>9. r.wall < wallTime' \/ (r.wall = wallTime' /\ r.logical < logical')
  BY <1>1, <1>2, <1>3, <1>4 DEF Time
<1>10. NotAhead(r, wallTime', logical')
  BY <1>2, <1>4, <1>9 DEF NotAhead, Time
<1>11. logical' <= MaxCounter => Before(r, stamp')
  BY <1>2, <1>6, <1>9 DEF Before, Parse
<1>12. Later(seen, r) \in {seen, r}  BY OneOfTwo
<1>13. seen' \in {seen, r, stamp'}  BY <1>3, <1>12, OneOfTwo
<1>14. NotAhead(seen, wallTime, logical)'
  BY <1>7, <1>8, <1>10, <1>13 DEF NotAhead
<1>15. logical' <= MaxCounter => Before(Later(seen, r), stamp')
  BY <1>8, <1>11, <1>12
<1>16. ClockInv'
  BY <1>1, <1>2, <1>3, <1>4, <1>7, <1>13, <1>14 DEF ClockInv, ClockTypeOK
<1> QED  BY <1>3, <1>8, <1>15, <1>16 DEF Later

LEMMA ClockStart == ClockInit => ClockInv
BY ClockAssumption DEF ClockInit, ClockInv, ClockTypeOK, NotAhead, Parse, NoStamp, Time

\* A step of the computer's clock and a restart keep the invariant and stamp
\* nothing.
LEMMA ClockQuiet ==
  ASSUME ClockInv, ClockTicks \/ ClockRestarts \/ UNCHANGED clockVars
  PROVE  ClockInv' /\ (stamp' = stamp \/ stamp' = NoStamp)
<1> USE ClockAssumption
<1>1. CASE ClockTicks
  BY <1>1 DEF ClockTicks, ClockInv, ClockTypeOK, NotAhead, Time
<1>2. CASE ClockRestarts
  BY <1>2 DEF ClockRestarts, ClockInv, ClockTypeOK, NotAhead, Parse, NoStamp, Time
<1>3. CASE UNCHANGED clockVars
  BY <1>3 DEF clockVars, ClockInv, ClockTypeOK, NotAhead
<1> QED  BY <1>1, <1>2, <1>3

LEMMA ClockStep == ClockInv /\ [ClockNext]_clockVars => ClockInv'
BY NowAdvances, UpdateAdvances, ClockQuiet DEF ClockNext

\* The clock, its stamps and what it saw stay in their sets: the counter is
\* never more than one past its four digits when a stamp is made.
THEOREM ClockTypes == ClockSpec => []ClockTypeOK
<1>1. ClockInv => ClockTypeOK  BY DEF ClockInv
<1> QED  BY <1>1, ClockStart, ClockStep, PTL DEF ClockSpec

\* A stamp that can be read back comes after every stamp the node made or took
\* in since it started (now and update of hlc.js), for any clock of the
\* computer and any mixture of remote stamps.
THEOREM StampsAdvance == ClockSpec => ClockAdvances
<1>1. ClockInv /\ [ClockNext]_clockVars
        => [stamp' # stamp /\ stamp' # NoStamp /\ logical' <= MaxCounter
              => Before(seen, stamp') /\ seen' = stamp']_clockVars
  BY NowAdvances, UpdateAdvances, ClockQuiet DEF ClockNext
<1> QED  BY <1>1, ClockStart, ClockStep, PTL DEF ClockSpec, ClockAdvances

-----------------------------------------------------------------------------
\* The bus

\* Unless deliveries may repeat: one call waits at most, and a handler that has
\* received the event did so once, in a call that waits or that has marked it.
OnceGuarded ==
  repeatable \/ /\ \A p, q \in Publication :
                     publishing[p] = "waiting" /\ publishing[q] = "waiting" => p = q
                /\ \A s \in Subscriber :
                     /\ received[s] <= 1
                     /\ received[s] = 1 => \/ processed
                                           \/ \E p \in Publication : publishing[p] = "waiting"

BusInv == BusTypeOK /\ OnceGuarded

-----------------------------------------------------------------------------
LEMMA BusStart == BusInit => BusInv
<1> SUFFICES ASSUME BusInit PROVE BusInv  OBVIOUS
<1>1. processed \in BOOLEAN /\ repeatable \in BOOLEAN  BY Zenon DEF BusInit
<1>2. \A s \in Subscriber : received[s] = 0  BY DEF BusInit
<1>3. \A p \in Publication : publishing[p] = "idle"  BY DEF BusInit
<1>4. OnceGuarded  BY <1>2, <1>3 DEF OnceGuarded
<1>5. BusTypeOK  BY <1>1 DEF BusInit, BusTypeOK
<1> QED  BY <1>4, <1>5 DEF BusInv

\* A call begins: unless another waits, nobody has received the event yet.
LEMMA PublishKeeps ==
  ASSUME BusInv, NEW p \in Publication, Publish(p)
  PROVE  BusInv'
<1> USE DEF BusInv, BusTypeOK
<1>1. BusTypeOK'  BY DEF Publish
<1>2. OnceGuarded'
  <2> SUFFICES ASSUME ~repeatable'  PROVE OnceGuarded'  BY DEF OnceGuarded
  <2>1. ~repeatable /\ \A q \in Publication : publishing[q] # "waiting"
    BY DEF Publish
  <2>2. \A s \in Subscriber : received[s] = 0
    BY <2>1 DEF OnceGuarded, Publish
  <2>3. \A s \in Subscriber : received'[s] \in 0..1
    BY <2>2 DEF Publish
  <2>4. publishing'[p] = "waiting"
        /\ \A q \in Publication : publishing'[q] = "waiting" => q = p
    BY <2>1 DEF Publish
  <2> QED  BY <2>3, <2>4 DEF OnceGuarded
<1> QED  BY <1>1, <1>2

\* A call ends: what was received in it is marked.
LEMMA MarkKeeps ==
  ASSUME BusInv, NEW p \in Publication, Mark(p)
  PROVE  BusInv'
<1> USE DEF BusInv, BusTypeOK, Mark
<1>1. BusTypeOK'  OBVIOUS
<1>2. \A q \in Publication : publishing'[q] = "waiting" => publishing[q] = "waiting"
  OBVIOUS
<1>3. processed' /\ received' = received /\ repeatable' = repeatable  OBVIOUS
<1>4. OnceGuarded'  BY <1>2, <1>3 DEF OnceGuarded
<1> QED  BY <1>1, <1>4

LEMMA BusStep == BusInv /\ [BusNext]_busVars => BusInv'
<1> SUFFICES ASSUME BusInv, [BusNext]_busVars PROVE BusInv'  OBVIOUS
<1> USE DEF BusInv, BusTypeOK, OnceGuarded
<1>1. ASSUME NEW s \in Subscriber, Subscribe(s) \/ Unsubscribe(s) PROVE BusInv'
  BY <1>1 DEF Subscribe, Unsubscribe
<1>2. ASSUME NEW p \in Publication, Publish(p) PROVE BusInv'
  BY <1>2, PublishKeeps
<1>3. ASSUME NEW p \in Publication, Mark(p) PROVE BusInv'
  BY <1>3, MarkKeeps
<1>4. ASSUME NEW p \in Publication, NEW s \in Subscriber, HandlerEnds(p, s) PROVE BusInv'
  BY <1>4 DEF HandlerEnds
<1>5. CASE Forget  BY <1>5 DEF Forget
<1>6. CASE UNCHANGED busVars  BY <1>6 DEF busVars
<1> QED  BY <1>1, <1>2, <1>3, <1>4, <1>5, <1>6 DEF BusNext

\* The state of the bus and of its calls stays in its sets.
THEOREM BusTypes == BusSpec => []BusTypeOK
<1>1. BusInv => BusTypeOK  BY DEF BusInv
<1> QED  BY <1>1, BusStart, BusStep, PTL DEF BusSpec

\* A handler receives an event once, for any number of handlers and of calls of
\* publish, unless two calls overlapped or the five minutes of the id passed.
THEOREM DeliveredOnce == BusSpec => []BusDeliversOnce
<1>1. BusInv => BusDeliversOnce  BY DEF BusInv, OnceGuarded, BusDeliversOnce
<1> QED  BY <1>1, BusStart, BusStep, PTL DEF BusSpec

-----------------------------------------------------------------------------
\* The updates of the program

\* An adoption is of a version, and marked.
AdoptionMarked ==
  adoption # NoAdoption => /\ adoption.version \in Program /\ adoption.step # "none"
                           /\ adopting

\* Unless a mark was taken off: what is fetched is marked and is alone.
Marked ==
  unmarked \/ /\ internet # 0 => downloading /\ adoption = NoAdoption /\ readyVersion = 0
              /\ adoption # NoAdoption => readyVersion = 0

UpdateInv == UpdateTypeOK /\ AdoptionMarked /\ Marked

-----------------------------------------------------------------------------
LEMMA Bounds == MaxProgram \in Nat \ {0} /\ FallbackAfter \in Nat \ {0}
BY ProgramAssumption

\* The counts of failures stay below their limit.
LEMMA FailuresCounted ==
  ASSUME failures \in [Program -> 0..FallbackAfter], NEW v,
         Fails(v) \/ Succeeds(v)
  PROVE  failures' \in [Program -> 0..FallbackAfter]
<1> DEFINE more == IF failures[v] < FallbackAfter THEN failures[v] + 1 ELSE failures[v]
<1>1. CASE v \in Program
  <2>1. failures[v] \in 0..FallbackAfter  BY <1>1
  <2>2. more \in 0..FallbackAfter  BY <2>1, Bounds
  <2>3. 0 \in 0..FallbackAfter  BY Bounds
  <2>4. failures' = [failures EXCEPT ![v] = more] \/ failures' = [failures EXCEPT ![v] = 0]
    BY DEF Fails, Succeeds
  <2> HIDE DEF more
  <2> QED  BY <2>2, <2>3, <2>4
<1>2. CASE v \notin Program
  BY <1>2 DEF Fails, Succeeds
<1> QED  BY <1>1, <1>2

LEMMA UpdateStart == UpdateInit => UpdateInv
<1> SUFFICES ASSUME UpdateInit PROVE UpdateInv  OBVIOUS
<1> USE Bounds DEF UpdateInit
<1>1. /\ downloading \in BOOLEAN /\ adopting \in BOOLEAN /\ asking \in BOOLEAN
      /\ checking \in BOOLEAN /\ unmarked \in BOOLEAN
  BY Zenon
<1>2. UpdateTypeOK  BY <1>1 DEF UpdateTypeOK, Program, NoAdoption
<1>3. AdoptionMarked /\ Marked  BY DEF AdoptionMarked, Marked
<1> QED  BY <1>2, <1>3 DEF UpdateInv

\* What ends an adoption leaves nothing in flight.
LEMMA OverKeeps ==
  ASSUME UpdateInv, adoption # NoAdoption, AdoptionOver, UNCHANGED <<internet, unmarked>>
  PROVE  AdoptionMarked' /\ Marked'
<1>1. adoption' = NoAdoption  BY DEF AdoptionOver
<1>2. unmarked \/ internet = 0  BY DEF UpdateInv, Marked
<1> QED  BY <1>1, <1>2 DEF AdoptionMarked, Marked

LEMMA AdoptionEnds ==
  ASSUME UpdateInv, NodeTells \/ AlreadyThere \/ TransferDone \/ AdoptionThrows
  PROVE  UpdateInv'
<1> USE Bounds DEF UpdateInv
<1>1. adoption # NoAdoption
  BY DEF NodeTells, AlreadyThere, TransferDone, AdoptionThrows, NoAdoption
<1>2. adoption.version \in Program  BY <1>1 DEF AdoptionMarked
<1>3. CASE NodeTells
  <2> AdoptionOver => downloading' \in BOOLEAN /\ adopting' \in BOOLEAN
    BY Zenon DEF AdoptionOver
  <2>1. UpdateTypeOK'
    BY <1>3, <1>2 DEF NodeTells, UpdateTypeOK, AdoptionOver, NoAdoption, Program, repositoryVars
  <2>2. CASE AdoptionOver
    BY <1>1, <1>3, <2>1, <2>2, OverKeeps DEF NodeTells, repositoryVars
  <2>3. CASE /\ \E v \in Program : adoption' = [step |-> "verify", version |-> v]
             /\ UNCHANGED <<adopting, downloading>>
    <3>1. adoption' # NoAdoption /\ adoption'.version \in Program /\ adoption'.step # "none"
      BY <2>3 DEF NoAdoption
    <3> QED  BY <1>1, <1>3, <2>1, <2>3, <3>1
             DEF NodeTells, AdoptionMarked, Marked, repositoryVars
  <2> QED  BY <1>3, <2>2, <2>3 DEF NodeTells
<1>4. CASE AlreadyThere
  <2>1. UpdateTypeOK'
    <3> downloading' \in BOOLEAN /\ adopting' \in BOOLEAN
      BY <1>4, Zenon DEF AlreadyThere, AdoptionOver
    <3>1. failures' \in [Program -> 0..FallbackAfter]
      BY <1>4, FailuresCounted DEF AlreadyThere, UpdateTypeOK
    <3> QED  BY <1>4, <1>2, <3>1 DEF AlreadyThere, Succeeds, UpdateTypeOK, AdoptionOver,
                                     NoAdoption, Program, repositoryVars
  <2> QED  BY <1>1, <1>4, <2>1, OverKeeps DEF AlreadyThere, repositoryVars
<1>5. CASE TransferDone
  <2>1. UpdateTypeOK'
    <3> downloading' \in BOOLEAN /\ adopting' \in BOOLEAN
      BY <1>5, Zenon DEF TransferDone, AdoptionOver
    <3>1. failures' \in [Program -> 0..FallbackAfter]
      BY <1>5, FailuresCounted DEF TransferDone, UpdateTypeOK
    <3>2. packages' \subseteq Program
      BY <1>5, <1>2 DEF TransferDone, UpdateTypeOK
    <3>3. readyVersion' \in 0..MaxProgram
      BY <1>5, <1>2 DEF TransferDone, Succeeds, Program
    <3>4. UNCHANGED <<asking, checking, found, internet, published, unmarked>>
      BY <1>5 DEF TransferDone, repositoryVars
    <3> QED  BY <1>5, <3>1, <3>2, <3>3, <3>4 DEF TransferDone, UpdateTypeOK, AdoptionOver,
                                     NoAdoption, Program, repositoryVars
  <2> QED  BY <1>1, <1>5, <2>1, OverKeeps DEF TransferDone, repositoryVars
<1>6. CASE AdoptionThrows
  <2>1. UpdateTypeOK'
    <3> downloading' \in BOOLEAN /\ adopting' \in BOOLEAN
      BY <1>6, Zenon DEF AdoptionThrows, AdoptionOver
    <3>1. failures' \in [Program -> 0..FallbackAfter]
      BY <1>6, FailuresCounted DEF AdoptionThrows, UpdateTypeOK
    <3> QED  BY <1>6, <3>1 DEF AdoptionThrows, UpdateTypeOK, AdoptionOver, NoAdoption,
                               repositoryVars
  <2> QED  BY <1>1, <1>6, <2>1, OverKeeps DEF AdoptionThrows, repositoryVars
<1> QED  BY <1>3, <1>4, <1>5, <1>6

\* A transfer that fails may fall back to the repository: the mark of what it
\* starts is taken off at once.
LEMMA FailureKeeps == UpdateInv /\ TransferFails => UpdateInv'
<1> SUFFICES ASSUME UpdateInv, TransferFails PROVE UpdateInv'  OBVIOUS
<1> USE Bounds DEF UpdateInv
<1> DEFINE fallback == failures'[adoption.version] >= FallbackAfter /\ found # 0
<1>1. /\ internet' = IF fallback /\ internet = 0 THEN found ELSE internet
      /\ unmarked' = (unmarked \/ fallback)
      /\ AdoptionOver
  BY DEF TransferFails
<1> HIDE DEF fallback
<1>2. unmarked' \in BOOLEAN /\ internet' \in 0..MaxProgram
  BY <1>1 DEF UpdateTypeOK
<1>3. failures' \in [Program -> 0..FallbackAfter]
  BY FailuresCounted DEF TransferFails, UpdateTypeOK
<1> downloading' \in BOOLEAN /\ adopting' \in BOOLEAN
  BY <1>1, Zenon DEF AdoptionOver
<1>4. UpdateTypeOK'
  BY <1>1, <1>2, <1>3 DEF TransferFails, UpdateTypeOK, AdoptionOver, NoAdoption
<1>5. unmarked \/ internet = 0
  BY DEF TransferFails, NoAdoption, Marked
<1>6. AdoptionMarked' /\ Marked'
  BY <1>1, <1>5 DEF AdoptionOver, AdoptionMarked, Marked
<1> QED  BY <1>4, <1>6

\* Whatever begins an adoption has asked whether an update is under way.
LEMMA AdoptsKeeps ==
  ASSUME UpdateInv, ~InProgress, NEW v \in Program, Adopts(v),
         UNCHANGED <<readyVersion, downloading, internet, unmarked>>
  PROVE  /\ AdoptionMarked' /\ Marked'
         /\ adopting' \in BOOLEAN
         /\ adoption' \in [step : {"none", "info", "verify", "transfer"},
                           version : 0..MaxProgram]
<1> USE Bounds
<1>1. adoption' = [step |-> "info", version |-> v] /\ adopting' = TRUE  BY DEF Adopts
<1>2. unmarked \/ internet = 0  BY DEF UpdateInv, Marked, InProgress
<1>3. readyVersion = 0  BY DEF InProgress
<1>4. AdoptionMarked'  BY <1>1 DEF AdoptionMarked
<1>5. Marked'  BY <1>1, <1>2, <1>3 DEF Marked, NoAdoption
<1> QED  BY <1>1, <1>4, <1>5 DEF Program

LEMMA RepositoryAnswers ==
  ASSUME UpdateInv, NodesAnswered \/ UpdateAvailable \/ NothingAvailable
  PROVE  UpdateInv'
<1> USE Bounds DEF UpdateInv
<1>1. CASE NodesAnswered
  <2>1. CASE \E v \in Program : ~InProgress /\ Adopts(v) /\ UNCHANGED checking
    BY <1>1, <2>1, AdoptsKeeps DEF NodesAnswered, UpdateTypeOK
  <2>2. CASE UNCHANGED <<adopting, adoption>> /\ checking' \in BOOLEAN
    BY <1>1, <2>2 DEF NodesAnswered, UpdateTypeOK, AdoptionMarked, Marked
  <2> QED  BY <1>1, <2>1, <2>2 DEF NodesAnswered, UpdateTypeOK
<1>2. CASE UpdateAvailable
  <2>1. published \in Program /\ found' \in 0..MaxProgram
    BY <1>2 DEF UpdateAvailable, UpdateTypeOK, Program
  <2> checking' \in BOOLEAN
    BY <1>2, Zenon DEF UpdateAvailable
  <2>2. CASE ~InProgress /\ Adopts(published) /\ UNCHANGED <<downloading, internet>>
    BY <1>2, <2>1, <2>2, AdoptsKeeps DEF UpdateAvailable, UpdateTypeOK
  <2>3. CASE UNCHANGED <<adopting, adoption, downloading, internet>>
    BY <1>2, <2>1, <2>3 DEF UpdateAvailable, UpdateTypeOK, AdoptionMarked, Marked
  <2>4. CASE /\ ~InProgress /\ downloading' = TRUE
             /\ internet' = IF internet = 0 THEN published ELSE internet
             /\ UNCHANGED <<adopting, adoption>>
    <3>1. adoption = NoAdoption /\ readyVersion = 0
      BY <2>4 DEF InProgress, AdoptionMarked
    <3> QED  BY <1>2, <2>1, <2>4, <3>1
             DEF UpdateAvailable, UpdateTypeOK, AdoptionMarked, Marked, Program
  <2> QED  BY <1>2, <2>2, <2>3, <2>4 DEF UpdateAvailable
<1>3. CASE NothingAvailable
  <2>1. unmarked' \in BOOLEAN /\ checking' \in BOOLEAN /\ downloading' \in BOOLEAN
    BY <1>3 DEF NothingAvailable
  <2>2. UpdateTypeOK'  BY <1>3, <2>1 DEF NothingAvailable, UpdateTypeOK
  <2>3. AdoptionMarked' /\ Marked'
    BY <1>3 DEF NothingAvailable, AdoptionMarked, Marked
  <2> QED  BY <2>2, <2>3
<1> QED  BY <1>1, <1>2, <1>3

LEMMA UpdateKeeps == UpdateInv /\ [UpdateNext]_updateVars => UpdateInv'
<1> SUFFICES ASSUME UpdateInv, [UpdateNext]_updateVars PROVE UpdateInv'  OBVIOUS
<1> USE Bounds DEF UpdateInv, UpdateTypeOK, AdoptionMarked, Marked
<1>1. ASSUME NEW v \in Program, Adopt(v) PROVE UpdateInv'
  BY <1>1, AdoptsKeeps DEF Adopt, repositoryVars
<1>2. CASE BeginTransfer
  BY <1>2 DEF BeginTransfer, repositoryVars, NoAdoption, Program
<1>3. CASE PeriodicCheck  BY <1>3 DEF PeriodicCheck
<1>4. CASE UserChecks  BY <1>4 DEF UserChecks, repositoryVars
<1>5. CASE DownloadFails
  <2>1. downloading' \in BOOLEAN  BY <1>5, Zenon DEF DownloadFails
  <2> QED  BY <1>5, <2>1 DEF DownloadFails
<1>6. CASE DownloadDone
  <2>1. downloading' \in BOOLEAN  BY <1>6, Zenon DEF DownloadDone
  <2>2. packages' \subseteq Program  BY <1>6 DEF DownloadDone, Program
  <2> QED  BY <1>6, <2>1, <2>2 DEF DownloadDone
<1>7. CASE Published  BY <1>7 DEF Published, Program
<1>8. CASE ProgramRestarts
  <2>1. /\ downloading' \in BOOLEAN /\ adopting' \in BOOLEAN /\ asking' \in BOOLEAN
        /\ checking' \in BOOLEAN /\ unmarked' \in BOOLEAN
    BY <1>8, Zenon DEF ProgramRestarts
  <2>2. /\ failures' \in [Program -> 0..FallbackAfter]
        /\ adoption' \in [step : {"none", "info", "verify", "transfer"},
                          version : 0..MaxProgram]
    BY <1>8 DEF ProgramRestarts, NoAdoption
  <2> QED  BY <1>8, <2>1, <2>2 DEF ProgramRestarts
<1>9. CASE UNCHANGED updateVars  BY <1>9 DEF updateVars
<1> QED
  BY <1>1, <1>2, <1>3, <1>4, <1>5, <1>6, <1>7, <1>8, <1>9, AdoptionEnds, FailureKeeps,
     RepositoryAnswers DEF UpdateNext

\* The state of the updates stays in its sets, the versions that are fetched and
\* kept among the versions there are.
THEOREM UpdateTypes == UpdateSpec => []UpdateTypeOK
<1>1. UpdateInv => UpdateTypeOK  BY DEF UpdateInv
<1> QED  BY <1>1, UpdateStart, UpdateKeeps, PTL DEF UpdateSpec

\* One package is fetched at a time, from a node or from the repository, and
\* none once an update is ready, for any number of versions, unless the mark of
\* a download was taken off while it went on.
THEOREM OneTransfer == UpdateSpec => []TransfersAlone
<1>1. UpdateInv => TransfersAlone
  <2> SUFFICES ASSUME UpdateInv, ~unmarked PROVE TransfersAlone  BY DEF TransfersAlone
  <2>1. CASE internet # 0
    BY <2>1 DEF UpdateInv, Marked, TransfersAlone, Transfers
  <2>2. CASE internet = 0
    BY <2>2 DEF UpdateInv, Marked, TransfersAlone, Transfers
  <2> QED  BY <2>1, <2>2
<1> QED  BY <1>1, UpdateStart, UpdateKeeps, PTL DEF UpdateSpec

-----------------------------------------------------------------------------
\* Sign-in and quorum

\* The calls whose answer may count as a failure.
Checking == {s \in Slot : sign[s].step \in {"verifying", "confirming"}}

Charged == failed + Cardinality(Checking) <= MaxLoginAttempts + Cardinality(Slot) - 1
Watched == lostFor # NotLost => missing > lostFor

\* The calls whose wrong answer counts for the challenge c.
Trying(c) == {s \in Slot : sign[s].on = c}
FactorCharged ==
  \A c \in Challenge :
    wrong[c] + Cardinality(Trying(c)) <= MaxFactorAttempts + Cardinality(Slot) - 1

Steps == {"idle", "verifying", "checking", "finalizing", "confirming"}
Calls == [step : Steps, on : Challenge \cup {NoChallenge}]

Factors ==
  /\ challenges \subseteq Challenge
  /\ wrong \in [Challenge -> Nat]
  /\ FactorCharged

Limits ==
  /\ sign \in [Slot -> Calls]
  /\ failed \in Nat /\ age \in {"new", "waited", "expired"}
  /\ Charged

Quorum ==
  /\ network \in {"closed", "starting", "open", "closing"}
  /\ near \in 0..Others
  /\ policy \in Policies
  /\ lostFor \in 0..NotLost /\ missing \in 0..Longest
  /\ Watched

AccessInv == Quorum /\ Limits /\ Factors /\ session \in BOOLEAN /\ factor \in BOOLEAN

-----------------------------------------------------------------------------
LEMMA LongestGrace == /\ MaxGrace \in Graces /\ \A h \in Graces : h <= MaxGrace
                  /\ MaxGrace \in Nat
<1>1. \E g \in Graces : \A h \in Graces : h <= g  BY AccessAssumption
<1>2. MaxGrace \in Graces /\ \A h \in Graces : h <= MaxGrace
  BY <1>1, Zenon DEF MaxGrace
<1> QED  BY <1>2, AccessAssumption

LEMMA Attempts == /\ MaxLoginAttempts \in Nat \ {0} /\ MaxFactorAttempts \in Nat \ {0}
                  /\ Others \in Nat \ {0} /\ IsFiniteSet(Slot) /\ Cardinality(Slot) \in Nat \ {0}
<1>1. Cardinality(Slot) \in Nat /\ Cardinality(Slot) # 0
  BY AccessAssumption, FS_CardinalityType, FS_EmptySet
<1> QED  BY <1>1, AccessAssumption

\* Of the slots some check.
LEMMA SomeCheck ==
  ASSUME NEW T \in SUBSET Slot
  PROVE  IsFiniteSet(T) /\ Cardinality(T) \in 0..Cardinality(Slot)
<1>1. IsFiniteSet(T) /\ Cardinality(T) <= Cardinality(Slot)
  BY Attempts, FS_Subset
<1>2. Cardinality(T) \in Nat  BY <1>1, FS_CardinalityType
<1> QED  BY <1>1, <1>2, Attempts

LEMMA FewerCheck ==
  ASSUME NEW T \in SUBSET Slot, NEW s \in T
  PROVE  /\ Cardinality(T \ {s}) = Cardinality(T) - 1
         /\ Cardinality(T) \in Nat \ {0} /\ Cardinality(T) <= Cardinality(Slot)
<1>1. IsFiniteSet(T) /\ Cardinality(T) \in 0..Cardinality(Slot)  BY SomeCheck
<1>2. Cardinality(T \ {s}) = Cardinality(T) - 1  BY <1>1, FS_RemoveElement
<1>3. T # {}  OBVIOUS
<1>4. Cardinality(T) # 0  BY <1>1, <1>3, FS_EmptySet
<1> QED  BY <1>1, <1>2, <1>4, Attempts

-----------------------------------------------------------------------------
\* A slot of which one call changes.
LEMMA OneCall ==
  ASSUME AccessInv, NEW s \in Slot, NEW c \in Calls, sign' = [sign EXCEPT ![s] = c]
  PROVE  /\ sign' \in [Slot -> Calls]
         /\ Checking' = IF c.step \in {"verifying", "confirming"}
                        THEN Checking \cup {s} ELSE Checking \ {s}
         /\ \A d \in Challenge : Trying(d)' = IF c.on = d THEN Trying(d) \cup {s}
                                                          ELSE Trying(d) \ {s}
BY DEF AccessInv, Limits, Trying, Checking

LEMMA NoSignIsCall ==
  /\ NoSign \in Calls /\ NoSign.step = "idle" /\ NoSign.on = NoChallenge
  /\ \A d \in Challenge : d # NoChallenge
BY AccessAssumption DEF NoSign, Calls, Steps

LEMMA StepOfCall ==
  ASSUME AccessInv, NEW s \in Slot, NEW t \in Steps
  PROVE  /\ [sign[s] EXCEPT !.step = t] \in Calls
         /\ [sign[s] EXCEPT !.step = t].step = t
         /\ [sign[s] EXCEPT !.step = t].on = sign[s].on
BY DEF AccessInv, Limits, Calls

\* A call that moves on tries for the challenge it tried for.
LEMMA Moved ==
  ASSUME AccessInv, NEW s \in Slot, NEW t \in Steps, Becomes(s, t)
  PROVE  /\ sign' \in [Slot -> Calls]
         /\ t \notin {"verifying", "confirming"} => Checking' = Checking \ {s}
         /\ \A d \in Challenge : Trying(d)' \subseteq Trying(d)
<1> DEFINE c == [sign[s] EXCEPT !.step = t]
<1>1. c \in Calls /\ c.step = t /\ c.on = sign[s].on  BY StepOfCall
<1>2. sign' = [sign EXCEPT ![s] = c]  BY DEF Becomes, AccessInv, Limits, Calls
<1>3. \A d \in Challenge : c.on = d => s \in Trying(d)  BY <1>1 DEF Trying
<1> HIDE DEF c
<1>4. /\ sign' \in [Slot -> Calls]
      /\ Checking' = IF t \in {"verifying", "confirming"}
                     THEN Checking \cup {s} ELSE Checking \ {s}
      /\ \A d \in Challenge : Trying(d)' = IF c.on = d THEN Trying(d) \cup {s}
                                                       ELSE Trying(d) \ {s}
  BY <1>1, <1>2, OneCall
<1>5. \A d \in Challenge : Trying(d)' \subseteq Trying(d)
  <2> SUFFICES ASSUME NEW d \in Challenge PROVE Trying(d)' \subseteq Trying(d)  OBVIOUS
  <2>1. CASE c.on = d  BY <1>3, <1>4, <2>1
  <2>2. CASE c.on # d  BY <1>4, <2>2
  <2> QED  BY <2>1, <2>2
<1> QED  BY <1>4, <1>5

\* A call that is over tries for none.
LEMMA IsOver ==
  ASSUME AccessInv, NEW s \in Slot, Over(s)
  PROVE  /\ sign' \in [Slot -> Calls]
         /\ Checking' = Checking \ {s}
         /\ \A d \in Challenge : Trying(d)' = Trying(d) \ {s}
BY NoSignIsCall, OneCall DEF Over

\* The calls whose challenge is deleted go on.
LEMMA IsDetached ==
  ASSUME AccessInv, NEW c \in Challenge \cup {NoChallenge}
  PROVE  /\ CutOff(c) \in [Slot -> Calls]
         /\ \A s \in Slot : /\ CutOff(c)[s].step = sign[s].step
                            /\ CutOff(c)[s].on # NoChallenge
                                => CutOff(c)[s].on = sign[s].on
BY AccessAssumption DEF CutOff, AccessInv, Limits, Calls

\* A call that was not locked out starts from a count below the limit.
LEMMA AskedCount ==
  ASSUME AccessInv, Asked, ~Locked
  PROVE  /\ failed' \in Nat /\ failed' <= MaxLoginAttempts - 1
         /\ age' \in {"new", "waited", "expired"}
<1>1. Counted \in Nat  BY DEF AccessInv, Limits, Counted
<1>2. Counted < MaxLoginAttempts  BY <1>1, Attempts DEF Locked
<1> QED  BY <1>1, <1>2, Attempts DEF Asked, AccessInv, Limits

\* A call that begins: whatever others check, the limit holds.
LEMMA BeginKeeps ==
  ASSUME AccessInv, sign' \in [Slot -> Calls], Asked, ~Locked
  PROVE  Limits'
<1>1. Cardinality(Checking') <= Cardinality(Slot) /\ Cardinality(Checking') \in Nat
  BY SomeCheck, Attempts DEF Checking
<1>2. /\ failed' \in Nat /\ failed' <= MaxLoginAttempts - 1
      /\ age' \in {"new", "waited", "expired"}
  BY AskedCount
<1>3. Charged'  BY <1>1, <1>2, Attempts DEF Charged
<1> QED  BY <1>2, <1>3 DEF Limits

\* Fewer slots, no more of them.
LEMMA SmallerSet ==
  ASSUME NEW T \in SUBSET Slot, NEW U \in SUBSET T
  PROVE  Cardinality(U) \in Nat /\ Cardinality(T) \in Nat /\ Cardinality(U) <= Cardinality(T)
<1>1. IsFiniteSet(T) /\ Cardinality(T) \in 0..Cardinality(Slot)  BY SomeCheck
<1>2. IsFiniteSet(U) /\ Cardinality(U) \in 0..Cardinality(Slot)  BY SomeCheck
<1>3. Cardinality(U) <= Cardinality(T)  BY <1>1, FS_Subset
<1> QED  BY <1>1, <1>2, <1>3, Attempts

\* Calls that end their check or move on check no more than before.
LEMMA MovesKeeps ==
  ASSUME AccessInv, sign' \in [Slot -> Calls], Checking' \subseteq Checking,
         \/ UNCHANGED <<failed, age>>
         \/ Success
         \/ Failure /\ \E s \in Checking : s \notin Checking'
  PROVE  Limits'
<1>1. /\ failed \in Nat /\ age \in {"new", "waited", "expired"}
      /\ failed + Cardinality(Checking) <= MaxLoginAttempts + Cardinality(Slot) - 1
  BY DEF AccessInv, Limits, Charged
<1>2. Checking \in SUBSET Slot /\ Checking' \in SUBSET Checking  BY DEF Checking
<1>3. Cardinality(Checking') \in Nat /\ Cardinality(Checking) \in Nat
      /\ Cardinality(Checking') <= Cardinality(Checking)
  BY <1>2, SmallerSet
<1>4. CASE UNCHANGED <<failed, age>>
  <2>1. Charged'  BY <1>1, <1>3, <1>4, Attempts DEF Charged
  <2> QED  BY <1>1, <1>4, <2>1 DEF Limits
<1>5. CASE Success
  <2>1. Cardinality(Checking') \in 0..Cardinality(Slot)  BY <1>2, SomeCheck
  <2>2. Charged'  BY <2>1, <1>5, Attempts DEF Charged, Success
  <2> QED  BY <1>5, <2>2 DEF Limits, Success
<1>6. CASE Failure /\ \E s \in Checking : s \notin Checking'
  <2>1. PICK s \in Checking : s \notin Checking'  BY <1>6
  <2>2. Checking' \in SUBSET (Checking \ {s}) /\ Checking \ {s} \in SUBSET Slot
    BY <1>2, <2>1
  <2>3. Cardinality(Checking') <= Cardinality(Checking \ {s})  BY <2>2, SmallerSet
  <2>4. Cardinality(Checking \ {s}) = Cardinality(Checking) - 1
    BY <1>2, <2>1, FewerCheck
  <2>5. Charged'  BY <1>1, <1>3, <1>6, <2>3, <2>4, Attempts DEF Charged, Failure
  <2> QED  BY <1>1, <1>6, <2>5 DEF Limits, Failure
<1> QED  BY <1>4, <1>5, <1>6

-----------------------------------------------------------------------------
\* Calls that try for no new challenge leave the counts within their bound.
LEMMA FactorsKept ==
  ASSUME Factors, challenges' \subseteq Challenge, UNCHANGED wrong,
         \A d \in Challenge : Trying(d)' \subseteq Trying(d)
  PROVE  Factors'
<1>1. ASSUME NEW d \in Challenge
      PROVE  wrong'[d] + Cardinality(Trying(d)') <= MaxFactorAttempts + Cardinality(Slot) - 1
  <2>1. Trying(d) \in SUBSET Slot /\ Trying(d)' \in SUBSET Trying(d)  BY DEF Trying
  <2>2. Cardinality(Trying(d)') \in Nat /\ Cardinality(Trying(d)) \in Nat
        /\ Cardinality(Trying(d)') <= Cardinality(Trying(d))
    BY <2>1, SmallerSet
  <2>3. wrong[d] \in Nat /\ wrong'[d] = wrong[d]
        /\ wrong[d] + Cardinality(Trying(d)) <= MaxFactorAttempts + Cardinality(Slot) - 1
    BY DEF Factors, FactorCharged
  <2> QED  BY <2>2, <2>3, Attempts
<1> QED  BY <1>1 DEF Factors, FactorCharged

\* A deleted challenge takes its count with it.
LEMMA DeletedKeeps ==
  ASSUME Factors, NEW c \in Challenge \cup {NoChallenge}, Deleted(c),
         \A d \in Challenge \ {c} : Trying(d)' \subseteq Trying(d)
  PROVE  Factors'
<1>1. challenges' \subseteq Challenge /\ wrong' \in [Challenge -> Nat]
  BY DEF Factors, Deleted
<1>2. ASSUME NEW d \in Challenge
      PROVE  wrong'[d] + Cardinality(Trying(d)') <= MaxFactorAttempts + Cardinality(Slot) - 1
  <2>1. Trying(d) \in SUBSET Slot /\ Trying(d)' \in SUBSET Slot  BY DEF Trying
  <2>2. CASE d = c
    <3>1. wrong'[d] = 0  BY <2>2 DEF Deleted
    <3>2. Cardinality(Trying(d)') \in 0..Cardinality(Slot)  BY <2>1, SomeCheck
    <3> QED  BY <3>1, <3>2, Attempts
  <2>3. CASE d # c
    <3>1. Trying(d)' \in SUBSET Trying(d)  BY <2>3
    <3>2. Cardinality(Trying(d)') \in Nat /\ Cardinality(Trying(d)) \in Nat
          /\ Cardinality(Trying(d)') <= Cardinality(Trying(d))
      BY <2>1, <3>1, SmallerSet
    <3>3. wrong[d] \in Nat /\ wrong'[d] = wrong[d]
          /\ wrong[d] + Cardinality(Trying(d)) <= MaxFactorAttempts + Cardinality(Slot) - 1
      BY <2>3 DEF Factors, FactorCharged, Deleted
    <3> QED  BY <3>2, <3>3, Attempts
  <2> QED  BY <2>2, <2>3
<1> QED  BY <1>1, <1>2 DEF Factors, FactorCharged

\* A call over, whatever became of the count.
LEMMA SignOverKeeps ==
  ASSUME AccessInv, NEW s \in Slot, Over(s),
         \/ UNCHANGED <<failed, age>>
         \/ Success
         \/ Failure /\ sign[s].step \in {"verifying", "confirming"}
  PROVE  /\ Limits'
         /\ challenges' \subseteq Challenge /\ UNCHANGED wrong => Factors'
<1>1. /\ sign' \in [Slot -> Calls] /\ Checking' = Checking \ {s}
      /\ \A d \in Challenge : Trying(d)' = Trying(d) \ {s}
  BY IsOver
<1>2. sign[s].step \in {"verifying", "confirming"} => s \in Checking  BY DEF Checking
<1>3. Limits'  BY <1>1, <1>2, MovesKeeps
<1> QED  BY <1>1, <1>3, FactorsKept DEF AccessInv

LEMMA FinalizeKeeps ==
  ASSUME AccessInv, NEW s \in Slot, Finalize(s), UNCHANGED <<failed, age>>, UNCHANGED factorVars
  PROVE  Limits' /\ Factors'
<1>1. challenges' \subseteq Challenge /\ UNCHANGED wrong  BY DEF factorVars, AccessInv, Factors
<1>2. CASE Over(s)  BY <1>1, <1>2, SignOverKeeps
<1>3. CASE Becomes(s, "finalizing")
  <2>1. /\ sign' \in [Slot -> Calls] /\ Checking' = Checking \ {s}
        /\ \A d \in Challenge : Trying(d)' \subseteq Trying(d)
    BY <1>3, Moved DEF Steps
  <2> QED  BY <1>1, <2>1, MovesKeeps, FactorsKept DEF AccessInv
<1> QED  BY <1>2, <1>3 DEF Finalize

\* A challenge is deleted, and the calls that try for it go on; one of them may move.
LEMMA DetachedKeeps ==
  ASSUME AccessInv, NEW c \in Challenge \cup {NoChallenge}, Deleted(c),
         UNCHANGED <<failed, age>>,
         \/ sign' = CutOff(c)
         \/ \E s \in Slot, t \in {"finalizing", "idle"} :
              sign' = [CutOff(c) EXCEPT ![s] = [step |-> t, on |-> NoChallenge]]
  PROVE  Limits' /\ Factors'
<1> DEFINE D == CutOff(c)
<1>1. /\ D \in [Slot -> Calls]
      /\ \A r \in Slot : /\ D[r].step = sign[r].step
                         /\ D[r].on # NoChallenge => D[r].on = sign[r].on
  BY IsDetached
<1>2. /\ sign' \in [Slot -> Calls]
      /\ \A r \in Slot : /\ sign'[r].step \in {sign[r].step, "finalizing", "idle"}
                         /\ sign'[r].on # NoChallenge => sign'[r].on = sign[r].on
  <2>1. \/ sign' = D
        \/ \E s \in Slot, t \in {"finalizing", "idle"} :
             sign' = [D EXCEPT ![s] = [step |-> t, on |-> NoChallenge]]
    OBVIOUS
  <2> HIDE DEF D
  <2>2. CASE sign' = D  BY <1>1, <2>2
  <2>3. ASSUME NEW s \in Slot, NEW t \in {"finalizing", "idle"},
               sign' = [D EXCEPT ![s] = [step |-> t, on |-> NoChallenge]]
        PROVE  /\ sign' \in [Slot -> Calls]
               /\ \A r \in Slot :
                    /\ sign'[r].step \in {sign[r].step, "finalizing", "idle"}
                    /\ sign'[r].on # NoChallenge => sign'[r].on = sign[r].on
    <3>1. [step |-> t, on |-> NoChallenge] \in Calls  BY DEF Calls, Steps
    <3>2. /\ sign' \in [Slot -> Calls]
          /\ sign'[s].step = t /\ sign'[s].on = NoChallenge
          /\ \A r \in Slot \ {s} : sign'[r] = D[r]
      BY <1>1, <2>3, <3>1
    <3> QED  BY <1>1, <3>2
  <2> QED  BY <2>1, <2>2, <2>3
<1>3. Checking' \subseteq Checking  BY <1>2 DEF Checking
<1>4. \A d \in Challenge : Trying(d)' \subseteq Trying(d)
  BY <1>2, NoSignIsCall DEF Trying
<1> QED  BY <1>2, <1>3, <1>4, MovesKeeps, DeletedKeeps DEF AccessInv

-----------------------------------------------------------------------------
LEMMA AccessStart == AccessInit => AccessInv
<1> SUFFICES ASSUME AccessInit PROVE AccessInv  OBVIOUS
<1>1. session \in BOOLEAN /\ factor \in BOOLEAN  BY Zenon DEF AccessInit
<1>2. Quorum
  BY LongestGrace, Attempts DEF AccessInit, Quorum, Watched, NotLost, Longest
<1>3. sign \in [Slot -> Calls]  BY NoSignIsCall DEF AccessInit
<1>4. Cardinality(Checking) \in 0..Cardinality(Slot)  BY SomeCheck DEF Checking
<1>5. Charged  BY <1>4, Attempts DEF AccessInit, Charged
<1>6. \A d \in Challenge : wrong[d] = 0 /\ Cardinality(Trying(d)) \in 0..Cardinality(Slot)
  BY SomeCheck DEF AccessInit, Trying
<1>7. FactorCharged  BY <1>6, Attempts DEF FactorCharged
<1>8. Factors  BY <1>7 DEF AccessInit, Factors
<1> QED  BY <1>1, <1>2, <1>3, <1>5, <1>8 DEF AccessInit, AccessInv, Limits

\* A look of the watcher: what it ages, it has counted.
LEMMA TickKeeps ==
  ASSUME Quorum, Tick
  PROVE  /\ Quorum'
         /\ lostFor # NotLost /\ Aged >= policy.grace /\ ~Satisfied
              => missing' > policy.grace
<1>1. /\ lostFor \in 0..NotLost /\ missing \in 0..Longest /\ policy \in Policies
      /\ policy.grace \in Graces /\ policy.grace \in Nat /\ policy.grace <= MaxGrace
      /\ NotLost = MaxGrace + 1 /\ Longest = MaxGrace + 1 /\ MaxGrace \in Nat
  BY LongestGrace, AccessAssumption DEF Quorum, Policies, NotLost, Longest
<1>2. missing' = IF Satisfied THEN 0 ELSE IF missing < Longest THEN missing + 1 ELSE missing
  BY DEF Tick
<1>3. \/ lostFor' = NotLost
      \/ ~Satisfied /\ lostFor # NotLost /\ lostFor' = Aged
      \/ ~Satisfied /\ lostFor' = 0
  BY DEF Tick, Loss
<1>4. lostFor # NotLost => missing > lostFor /\ Aged \in 0..MaxGrace
                           /\ (~Satisfied => missing' > Aged)
  BY <1>1, <1>2 DEF Quorum, Watched, Aged
<1>5. missing' \in 0..Longest /\ lostFor' \in 0..NotLost
  BY <1>1, <1>2, <1>3, <1>4
<1>6. ~Satisfied => missing' > 0  BY <1>1, <1>2
<1>7. lostFor' # NotLost => missing' > lostFor'
  BY <1>1, <1>3, <1>4, <1>6
<1>8. Quorum'
  BY <1>5, <1>7 DEF Tick, Quorum, Watched, NotLost, Longest, MaxGrace, Policies
<1>9. lostFor # NotLost /\ Aged >= policy.grace /\ ~Satisfied => missing' > policy.grace
  <2> SUFFICES ASSUME lostFor # NotLost, Aged >= policy.grace, ~Satisfied
               PROVE  missing' > policy.grace
    OBVIOUS
  <2>1. missing' > Aged /\ Aged \in Nat /\ missing' \in Nat  BY <1>1, <1>4, <1>5
  <2> QED  BY <1>1, <2>1
<1> QED  BY <1>8, <1>9

\* The other steps of the quorum reset the looks together, or leave them.
LEMMA QuorumKeeps ==
  ASSUME Quorum,
         Opened \/ WatcherStarts \/ Teardown \/ Closes \/ PeersChange \/ SetPolicy
           \/ UNCHANGED quorumVars
  PROVE  Quorum'
<1>1. MaxGrace \in Nat /\ NotLost = MaxGrace + 1 /\ Longest = MaxGrace + 1
  BY LongestGrace DEF NotLost, Longest
<1>2. NotLost \in 0..NotLost /\ 0 \in 0..Longest /\ 0 \in 0..Others
  BY <1>1, Attempts
<1> USE DEF Quorum, Watched
<1>3. CASE Opened  BY <1>3 DEF Opened
<1>4. CASE WatcherStarts  BY <1>2, <1>4 DEF WatcherStarts
<1>5. CASE Teardown  BY <1>2, <1>5 DEF Teardown
<1>6. CASE Closes  BY <1>2, <1>6 DEF Closes
<1>7. CASE PeersChange  BY <1>7 DEF PeersChange
<1>8. CASE SetPolicy  BY <1>8 DEF SetPolicy
<1>9. CASE UNCHANGED quorumVars  BY <1>9 DEF quorumVars
<1> QED  BY <1>3, <1>4, <1>5, <1>6, <1>7, <1>8, <1>9

\* Steps that leave the calls and the count alone.
LEMMA LimitsKept ==
  ASSUME Limits, Factors, UNCHANGED <<sign, failed, factorVars>>,
         age' \in {"new", "waited", "expired"}
  PROVE  Limits' /\ Factors'
<1>1. Checking' = Checking /\ \A d \in Challenge : Trying(d)' = Trying(d)
  BY DEF Checking, Trying
<1>2. UNCHANGED wrong /\ challenges' \subseteq Challenge  BY DEF factorVars, Factors
<1>3. Limits'  BY <1>1 DEF Limits, Charged
<1> QED  BY <1>1, <1>2, <1>3, FactorsKept

LEMMA CallsKeep ==
  ASSUME AccessInv,
         \/ \E s \in Slot : \/ LoginUser(s) \/ LoginByPasskey(s) \/ StepUp(s) \/ Answered(s)
                           \/ \E c \in Challenge : VerifyFactor(s, c)
         \/ \E c \in Challenge : ChallengeExpires(c)
  PROVE  /\ AccessInv' /\ UNCHANGED quorumVars
         /\ session => session'
<1>1. session \in BOOLEAN /\ Quorum /\ Limits /\ Factors  BY DEF AccessInv
<1>2. /\ UNCHANGED <<quorumVars, factor>>
      /\ session' = session \/ session' = TRUE
  BY DEF LoginUser, LoginByPasskey, VerifyFactor, ChallengeExpires, StepUp, Answered, WrongCredential,
         RightCredential, FactorWrong, FactorRight, Finalized, SteppedUp
<1>3. session' \in BOOLEAN  BY <1>1, <1>2
<1>4. Quorum' /\ factor' \in BOOLEAN  BY <1>2, QuorumKeeps DEF AccessInv
<1>5. UNCHANGED factorVars => challenges' \subseteq Challenge /\ UNCHANGED wrong
  BY <1>1 DEF factorVars, Factors
<1>6. ASSUME NEW s \in Slot, LoginUser(s) \/ StepUp(s) PROVE Limits' /\ Factors'
  <2>1. PICK t \in {"verifying", "confirming"} : Becomes(s, t)
    BY <1>6 DEF LoginUser, StepUp
  <2>2. sign' \in [Slot -> Calls] /\ \A d \in Challenge : Trying(d)' \subseteq Trying(d)
    BY <2>1, Moved DEF Steps
  <2>3. Asked /\ ~Locked /\ UNCHANGED factorVars  BY <1>6 DEF LoginUser, StepUp
  <2> QED  BY <1>1, <1>5, <2>2, <2>3, BeginKeeps, FactorsKept
<1>7. ASSUME NEW s \in Slot, WrongCredential(s) \/ Finalized(s) \/ SteppedUp(s)
      PROVE  Limits' /\ Factors'
  <2>1. Over(s) /\ UNCHANGED factorVars
    BY <1>7 DEF WrongCredential, Finalized, SteppedUp
  <2>2. \/ UNCHANGED <<failed, age>>
        \/ Success
        \/ Failure /\ sign[s].step \in {"verifying", "confirming"}
    BY <1>7 DEF WrongCredential, Finalized, SteppedUp
  <2> QED  BY <1>5, <2>1, <2>2, SignOverKeeps
<1>8. ASSUME NEW s \in Slot, RightCredential(s) PROVE Limits' /\ Factors'
  <2>1. CASE ~factor /\ Finalize(s) /\ UNCHANGED factorVars
    BY <1>8, <2>1, FinalizeKeeps DEF RightCredential
  <2>2. CASE factor
    <3>1. challenges' \subseteq Challenge /\ UNCHANGED wrong /\ Over(s)
      BY <1>1, <1>8, <2>2 DEF RightCredential, ChallengeOpened, Factors
    <3> QED  BY <1>8, <3>1, SignOverKeeps DEF RightCredential
  <2> QED  BY <1>8, <2>1, <2>2 DEF RightCredential
<1>9. ASSUME NEW s \in Slot, NEW c \in Challenge, VerifyFactor(s, c) PROVE Limits' /\ Factors'
  <2>1. UNCHANGED <<failed, age>>  BY <1>9 DEF VerifyFactor
  <2>2. CASE Deleted(c) /\ sign' = CutOff(c)  BY <2>1, <2>2, DetachedKeeps
  <2>3. CASE /\ wrong[c] < MaxFactorAttempts /\ UNCHANGED factorVars
             /\ sign' = [sign EXCEPT ![s] = [step |-> "checking", on |-> c]]
    <3> DEFINE k == [step |-> "checking", on |-> c]
    <3>1. k \in Calls /\ k.step = "checking" /\ k.on = c  BY DEF Calls, Steps
    <3>2. /\ sign' \in [Slot -> Calls] /\ Checking' = Checking \ {s}
          /\ \A d \in Challenge : d # c => Trying(d)' = Trying(d) \ {s}
      <4>1. sign' = [sign EXCEPT ![s] = k]  BY <2>3
      <4> HIDE DEF k
      <4> QED  BY <3>1, <4>1, OneCall
    <3>3. Limits'  BY <2>1, <3>2, MovesKeeps
    <3>4. wrong' = wrong /\ wrong \in [Challenge -> Nat]  BY <1>1, <2>3 DEF factorVars, Factors
    <3>5. ASSUME NEW d \in Challenge
          PROVE  wrong'[d] + Cardinality(Trying(d)')
                   <= MaxFactorAttempts + Cardinality(Slot) - 1
      <4>1. CASE d = c
        <5>1. Cardinality(Trying(d)') \in 0..Cardinality(Slot)  BY SomeCheck DEF Trying
        <5> QED  BY <2>3, <3>4, <4>1, <5>1, Attempts
      <4>2. CASE d # c
        <5>1. Trying(d)' \in SUBSET Trying(d) /\ Trying(d) \in SUBSET Slot
          BY <3>2, <4>2 DEF Trying
        <5>2. Cardinality(Trying(d)') \in Nat /\ Cardinality(Trying(d)) \in Nat
              /\ Cardinality(Trying(d)') <= Cardinality(Trying(d))
          BY <5>1, SmallerSet
        <5>3. wrong[d] + Cardinality(Trying(d)) <= MaxFactorAttempts + Cardinality(Slot) - 1
          BY <1>1 DEF Factors, FactorCharged
        <5> QED  BY <3>4, <5>2, <5>3, Attempts
      <4> QED  BY <4>1, <4>2
    <3>6. Factors'  BY <1>5, <2>3, <3>4, <3>5 DEF Factors, FactorCharged
    <3> QED  BY <3>3, <3>6
  <2> QED  BY <1>9, <2>2, <2>3 DEF VerifyFactor
<1>10. ASSUME NEW s \in Slot, FactorWrong(s) PROVE Limits' /\ Factors'
  <2>1. Over(s) /\ UNCHANGED <<failed, age, challenges>>  BY <1>10 DEF FactorWrong
  <2>2. Limits'  BY <2>1, SignOverKeeps
  <2>3. \A d \in Challenge : Trying(d)' = Trying(d) \ {s}  BY <2>1, IsOver
  <2>4. sign[s].on \in Challenge \cup {NoChallenge}  BY <1>1 DEF Limits, Calls
  <2>5. wrong \in [Challenge -> Nat] /\ NoChallenge \notin Challenge
    BY <1>1, AccessAssumption DEF Factors
  <2>6. CASE sign[s].on = NoChallenge
    BY <1>1, <1>10, <2>1, <2>2, <2>3, <2>6, FactorsKept DEF FactorWrong, Factors
  <2>7. CASE sign[s].on \in Challenge
    <3>1. wrong' = [wrong EXCEPT ![sign[s].on] = @ + 1]
      BY <1>10, <2>5, <2>7 DEF FactorWrong
    <3>2. wrong' \in [Challenge -> Nat]  BY <2>5, <2>7, <3>1
    <3>3. ASSUME NEW d \in Challenge
          PROVE  wrong'[d] + Cardinality(Trying(d)')
                   <= MaxFactorAttempts + Cardinality(Slot) - 1
      <4>1. /\ Trying(d) \in SUBSET Slot /\ Trying(d)' \in SUBSET Trying(d)
            /\ Trying(d)' = Trying(d) \ {s}
        BY <2>3 DEF Trying
      <4>2. Cardinality(Trying(d)') \in Nat /\ Cardinality(Trying(d)) \in Nat
            /\ Cardinality(Trying(d)') <= Cardinality(Trying(d))
        BY <4>1, SmallerSet
      <4>3. wrong[d] + Cardinality(Trying(d)) <= MaxFactorAttempts + Cardinality(Slot) - 1
        BY <1>1 DEF Factors, FactorCharged
      <4>4. CASE sign[s].on = d
        <5>1. s \in Trying(d)  BY <4>4 DEF Trying
        <5>2. Cardinality(Trying(d)') = Cardinality(Trying(d)) - 1
          BY <4>1, <5>1, FewerCheck
        <5>3. wrong'[d] = wrong[d] + 1 /\ wrong[d] \in Nat  BY <2>5, <3>1, <4>4
        <5> QED  BY <4>2, <4>3, <5>2, <5>3, Attempts
      <4>5. CASE sign[s].on # d
        <5>1. wrong'[d] = wrong[d] /\ wrong[d] \in Nat  BY <2>5, <3>1, <4>5
        <5> QED  BY <4>2, <4>3, <5>1, Attempts
      <4> QED  BY <4>4, <4>5
    <3>4. Factors'  BY <1>1, <2>1, <3>2, <3>3 DEF Factors, FactorCharged
    <3> QED  BY <2>2, <3>4
  <2> QED  BY <2>4, <2>6, <2>7
<1>11. ASSUME NEW s \in Slot, FactorRight(s) PROVE Limits' /\ Factors'
  <2> DEFINE t == IF Gate THEN "finalizing" ELSE "idle"
  <2>1. /\ Deleted(sign[s].on) /\ UNCHANGED <<failed, age>>
        /\ sign' = [CutOff(sign[s].on) EXCEPT ![s] = [step |-> t, on |-> NoChallenge]]
    BY <1>11 DEF FactorRight
  <2>2. t \in {"finalizing", "idle"}  OBVIOUS
  <2>3. sign[s].on \in Challenge \cup {NoChallenge}  BY <1>1 DEF Limits, Calls
  <2> HIDE DEF t
  <2> QED  BY <2>1, <2>2, <2>3, DetachedKeeps
<1>12. ASSUME NEW c \in Challenge, ChallengeExpires(c) PROVE Limits' /\ Factors'
  BY <1>12, DetachedKeeps DEF ChallengeExpires
<1>13. ASSUME NEW s \in Slot, LoginByPasskey(s) PROVE Limits' /\ Factors'
  <2>1. /\ UNCHANGED sign /\ Checking' = Checking /\ s \notin Checking
        /\ \A d \in Challenge : Trying(d)' = Trying(d)
    BY <1>13 DEF LoginByPasskey, Checking, Trying
  <2>2. challenges' \subseteq Challenge /\ UNCHANGED wrong
    BY <1>1, <1>5, <1>13 DEF LoginByPasskey, ChallengeOpened, Factors
  <2>3. Factors'  BY <1>1, <2>1, <2>2, FactorsKept
  <2>4. CASE Asked
    BY <1>1, <1>13, <2>1, <2>3, <2>4, BeginKeeps DEF LoginByPasskey, Limits
  <2>5. CASE failed' = Counted + 1 /\ age' = "new"
    <3>1. Counted \in Nat /\ Counted <= MaxLoginAttempts - 1
      <4>1. Counted \in Nat  BY <1>1 DEF Limits, Counted
      <4> QED  BY <1>13, <4>1, Attempts DEF LoginByPasskey, Locked
    <3>2. Cardinality(Checking) \in Nat /\ Cardinality(Checking) <= Cardinality(Slot) - 1
      <4>1. Checking \in SUBSET (Slot \ {s}) /\ Slot \ {s} \in SUBSET Slot
        BY <2>1 DEF Checking
      <4>2. Cardinality(Checking) \in Nat /\ Cardinality(Checking) <= Cardinality(Slot \ {s})
        BY <4>1, SmallerSet
      <4>3. Slot \in SUBSET Slot /\ s \in Slot  OBVIOUS
      <4>4. Cardinality(Slot \ {s}) = Cardinality(Slot) - 1  BY <4>3, FewerCheck
      <4> QED  BY <4>2, <4>4
    <3>3. Charged'  BY <2>1, <2>5, <3>1, <3>2, Attempts DEF Charged
    <3> QED  BY <1>1, <2>1, <2>3, <2>5, <3>1, <3>3 DEF Limits
  <2> QED  BY <1>13, <2>4, <2>5 DEF LoginByPasskey
<1>14. Limits' /\ Factors'
  BY <1>6, <1>7, <1>8, <1>9, <1>10, <1>11, <1>12, <1>13 DEF Answered
<1> QED  BY <1>2, <1>3, <1>4, <1>14 DEF AccessInv

\* The steps besides the calls.
LEMMA QuietKeeps ==
  ASSUME AccessInv,
         Tick \/ Opened \/ WatcherStarts \/ Teardown \/ Closes \/ PeersChange \/ SetPolicy
           \/ TimePasses \/ Logout \/ UNCHANGED accessVars
  PROVE  AccessInv'
<1>1. Quorum'
  BY TickKeeps, QuorumKeeps DEF AccessInv, TimePasses, Logout, accessVars, quorumVars
<1>2. /\ UNCHANGED <<sign, failed, factor, factorVars>>
      /\ UNCHANGED age \/ TimePasses
  BY DEF Tick, Opened, WatcherStarts, Teardown, Closes, PeersChange, SetPolicy, TimePasses,
         Logout, accessVars, factorVars
<1>3. age' \in {"new", "waited", "expired"}
  BY <1>2 DEF AccessInv, Limits, TimePasses
<1>4. Limits' /\ Factors'  BY <1>2, <1>3, LimitsKept DEF AccessInv
<1>5. session' \in BOOLEAN
  <2>1. CASE Tick
    <3>1. PICK over : session' = (session /\ over)  BY <2>1, Zenon DEF Tick
    <3> QED  BY <3>1
  <2>2. CASE session' = FALSE  BY <2>2, Zenon
  <2>3. CASE session' = session  BY <2>3 DEF AccessInv
  <2> QED
    BY <2>1, <2>2, <2>3 DEF Opened, WatcherStarts, Teardown, Closes, PeersChange, SetPolicy,
                            TimePasses, Logout, accessVars
<1> QED  BY <1>1, <1>2, <1>4, <1>5 DEF AccessInv

LEMMA AccessKeeps == AccessInv /\ [AccessNext]_accessVars => AccessInv'
BY CallsKeep, QuietKeeps DEF AccessNext

-----------------------------------------------------------------------------
LEMMA TypesFollow == AccessInv => AccessTypeOK /\ AttemptsBounded
<1> SUFFICES ASSUME AccessInv PROVE AccessTypeOK /\ AttemptsBounded  OBVIOUS
<1>1. Cardinality(Checking) \in Nat  BY SomeCheck, Attempts DEF Checking
<1>2. failed \in Nat /\ failed <= MaxLoginAttempts + Cardinality(Slot) - 1
  BY <1>1, Attempts DEF AccessInv, Limits, Charged
<1>3. failed \in 0..MaxLoginAttempts + Cardinality(Slot)  BY <1>2, Attempts
<1>4. ASSUME NEW c \in Challenge
      PROVE  /\ wrong[c] \in 0..MaxFactorAttempts + Cardinality(Slot)
             /\ wrong[c] <= MaxFactorAttempts + Cardinality(Slot) - 1
  <2>1. Cardinality(Trying(c)) \in 0..Cardinality(Slot)  BY SomeCheck DEF Trying
  <2>2. /\ wrong[c] \in Nat
        /\ wrong[c] + Cardinality(Trying(c)) <= MaxFactorAttempts + Cardinality(Slot) - 1
    BY DEF AccessInv, Factors, FactorCharged
  <2> QED  BY <2>1, <2>2, Attempts
<1>5. AttemptsBounded  BY <1>2, <1>4 DEF AccessInv, Factors, AttemptsBounded
<1>6. /\ challenges \subseteq Challenge
      /\ wrong \in [Challenge -> 0..MaxFactorAttempts + Cardinality(Slot)]
  BY <1>4 DEF AccessInv, Factors
<1> QED  BY <1>3, <1>5, <1>6 DEF AccessInv, Quorum, Limits, Calls, Steps, AccessTypeOK

\* The quorum, its policy, the calls and the count of the limiter stay in their
\* sets.
THEOREM AccessTypes == AccessSpec => []AccessTypeOK
BY TypesFollow, AccessStart, AccessKeeps, PTL DEF AccessSpec

\* However many calls pass the limiter together, or the look at the count of one
\* challenge, the failed attempts exceed the limit by less than their number: for any
\* limits, any number of calls and of challenges (auth_rate_limiter.js, handlers/auth.js).
THEOREM AttemptsStayBounded == AccessSpec => []AttemptsBounded
BY TypesFollow, AccessStart, AccessKeeps, PTL DEF AccessSpec

\* The watcher ends a session only under a hard policy, and after the looks of
\* the grace that is in force have all found the quorum missing
\* (quorum_watcher.js): for any set of graces.
THEOREM GraceIsRespected == AccessSpec => GraceRespected
<1>1. ASSUME AccessInv, [AccessNext]_accessVars
      PROVE  [session /\ ~session' /\ network' = network
                /\ lostFor # NotLost /\ lostFor' = NotLost
                => Hard /\ missing' > policy.grace]_accessVars
  <2> SUFFICES ASSUME session, ~session', network' = network, lostFor # NotLost,
                      lostFor' = NotLost, AccessNext
               PROVE  Hard /\ missing' > policy.grace
    BY <1>1 DEF accessVars
  <2>1. Quorum  BY <1>1 DEF AccessInv
  <2>2. Tick
    BY <1>1, CallsKeep DEF AccessNext, Opened, WatcherStarts, Teardown, Closes, PeersChange,
       SetPolicy, TimePasses, Logout, quorumVars
  <2>3. Missing /\ Aged >= policy.grace  BY <2>2 DEF Tick
  <2> QED  BY <2>1, <2>2, <2>3, TickKeeps DEF Missing
<1> QED  BY <1>1, AccessStart, AccessKeeps, PTL DEF AccessSpec, GraceRespected
==============================================================================
