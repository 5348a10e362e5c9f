--------------------------- MODULE NetworkAccess ---------------------------
(***************************************************************************)
(* Who may be signed in on a node, and for how long: the quorum of         *)
(* connected nodes and its policy (quorum_evaluator.js, quorum_policy.js), *)
(* the watcher that ends the session when the quorum is lost               *)
(* (quorum_watcher.js), the sign-in of one user (handlers/auth.js), the    *)
(* limit on failed attempts (auth_rate_limiter.js) and the confirmation of *)
(* a sensitive action (step_up_auth.js).  The unit of time of a grace is a *)
(* look of the watcher (five seconds); the age of the last failed attempt  *)
(* is abstracted to what the limiter compares.                             *)
(***************************************************************************)
EXTENDS Naturals, FiniteSets

CONSTANTS Slot,              \* calls of the sign-in handlers at once
          Others,            \* nodes that may be connected, at most (a bound)
          Graces,            \* graces an administrator may choose, in looks
          FreeAttempts,      \* failures that cost no wait (2)
          MaxLoginAttempts,  \* failures that lock the user out (10)
          MaxFactorAttempts, \* wrong second factors per challenge (5)
          Challenge,         \* challenges for a second factor at once, at most (a bound)
          NoChallenge

ASSUME AccessAssumption ==
  /\ Others \in Nat \ {0}
  /\ Graces \subseteq Nat /\ \E g \in Graces : \A h \in Graces : h <= g
  /\ IsFiniteSet(Slot) /\ Slot # {}
  /\ NoChallenge \notin Challenge
  /\ FreeAttempts \in Nat /\ {MaxLoginAttempts, MaxFactorAttempts} \subseteq Nat \ {0}

VARIABLES network,   \* "closed", "starting" (not watched yet), "open", "closing"
          near,      \* connected nodes other than this one
          policy,    \* [enforcement, grace, minNodes]
          lostFor,   \* _lostSince: looks since the quorum was seen lost, or NotLost
          missing,   \* looks in a row that saw the quorum missing
          session,   \* the user is signed in
          factor,    \* the user has a second factor
          sign,      \* per slot: [step, on], a call of the sign-in handlers, and the
                     \* challenge it checks a factor for, while that one is there
          challenges, \* the challenges that wait for a second factor
          wrong,     \* wrong answers counted per challenge
          failed,    \* failed attempts the limiter counts
          age        \* of the last one: "new", "waited" (back-off), "expired" (15 min)

accessVars == <<network, near, policy, lostFor, missing, session, factor, sign,
                challenges, wrong, failed, age>>
factorVars == <<challenges, wrong>>
quorumVars == <<network, near, policy, lostFor, missing>>

MaxGrace == CHOOSE g \in Graces : \A h \in Graces : h <= g
NotLost == MaxGrace + 1
Longest == MaxGrace + 1
NoSign == [step |-> "idle", on |-> NoChallenge]
\* "soft" stands for "off" too: they differ only in what is shown.
Policies == [enforcement : {"soft", "hard"}, grace : Graces, minNodes : 1..Others + 1]

AccessTypeOK ==
  /\ network \in {"closed", "starting", "open", "closing"}
  /\ near \in 0..Others
  /\ policy \in Policies
  /\ lostFor \in 0..NotLost
  /\ missing \in 0..Longest
  /\ session \in BOOLEAN /\ factor \in BOOLEAN
  /\ sign \in [Slot -> [step : {"idle", "verifying", "checking", "finalizing", "confirming"},
                        on : Challenge \cup {NoChallenge}]]
  /\ challenges \subseteq Challenge
  /\ wrong \in [Challenge -> 0..MaxFactorAttempts + Cardinality(Slot)]
  /\ failed \in 0..MaxLoginAttempts + Cardinality(Slot)
  /\ age \in {"new", "waited", "expired"}

AccessInit ==
  /\ network = "closed" /\ near = 0
  /\ policy \in Policies
  /\ lostFor = NotLost /\ missing = 0
  /\ session = FALSE /\ factor \in BOOLEAN
  /\ sign = [s \in Slot |-> NoSign]
  /\ challenges = {} /\ wrong = [c \in Challenge |-> 0]
  /\ failed = 0 /\ age = "expired"

Active == network # "closed"
Satisfied == near + 1 >= policy.minNodes
Hard == policy.enforcement = "hard"
Missing == ~Satisfied /\ Hard
Aged == IF lostFor < MaxGrace THEN lostFor + 1 ELSE MaxGrace

-----------------------------------------------------------------------------
\* The quorum watcher

\* Mutant: the time of the loss is kept when the quorum is back.
LossKept(over) ==
  IF over THEN NotLost
  ELSE IF lostFor # NotLost THEN Aged
  ELSE IF Missing THEN 0 ELSE NotLost

\* What a look leaves of the time of the loss; enforcement other than hard
\* leaves it as it is.
Loss(over) ==
  IF Satisfied \/ over THEN NotLost
  ELSE IF lostFor # NotLost THEN Aged
  ELSE IF Hard THEN 0 ELSE NotLost

Tick ==
  /\ network = "open"
  /\ LET over == Missing /\ lostFor # NotLost /\ Aged >= policy.grace
     IN lostFor' = Loss(over) /\ session' = (session /\ ~over)
  /\ missing' = IF Satisfied THEN 0 ELSE IF missing < Longest THEN missing + 1 ELSE missing
  /\ UNCHANGED <<network, near, policy, factor, sign, factorVars, failed, age>>

\* start: the services of an opened network; the quorum watcher comes last.
Opened ==
  /\ network = "closed" /\ network' = "starting"
  /\ UNCHANGED <<near, policy, lostFor, missing, session, factor, sign, factorVars, failed, age>>

WatcherStarts ==
  /\ network = "starting" /\ network' = "open"
  /\ lostFor' = NotLost /\ missing' = 0
  /\ UNCHANGED <<near, policy, session, factor, sign, factorVars, failed, age>>

\* The teardown stops the watcher and ends the session before it waits for the
\* applications and the saves; the network is closed only then.
Teardown ==
  /\ network = "open" /\ network' = "closing"
  /\ lostFor' = NotLost /\ missing' = 0
  /\ session' = FALSE
  /\ UNCHANGED <<near, policy, factor, sign, factorVars, failed, age>>

Closes ==
  /\ network = "closing" /\ network' = "closed"
  /\ near' = 0
  /\ UNCHANGED <<policy, lostFor, missing, session, factor, sign, factorVars, failed, age>>

PeersChange ==
  /\ Active
  /\ near' \in 0..Others /\ near' # near
  /\ UNCHANGED <<network, policy, lostFor, missing, session, factor, sign, factorVars,
                 failed, age>>

\* setPolicy, by an administrator who is signed in
SetPolicy ==
  /\ session /\ Active
  /\ policy' \in Policies /\ policy' # policy
  /\ UNCHANGED <<network, near, lostFor, missing, session, factor, sign, factorVars,
                 failed, age>>

-----------------------------------------------------------------------------
\* The limiter

\* isLoginLocked forgets an expired count, then looks at the rest.
Counted == IF age = "expired" THEN 0 ELSE failed
\* Mutant: only the wait after a failure is looked at.
LockedByWait == Counted > FreeAttempts /\ age = "new"

Locked == \/ Counted >= MaxLoginAttempts
          \/ Counted > FreeAttempts /\ age = "new"

Asked == failed' = Counted /\ UNCHANGED age
Failure == failed' = failed + 1 /\ age' = "new"
Success == failed' = 0 /\ age' = "expired"

TimePasses ==
  /\ age # "expired"
  /\ age' = IF age = "new" THEN "waited" ELSE "expired"
  /\ UNCHANGED <<quorumVars, session, factor, sign, factorVars, failed>>

-----------------------------------------------------------------------------
\* Signing in: the gate and the limiter are asked before the hash is awaited.

\* Mutant: the gate does not ask for the quorum.
GateUnguarded == Active

Gate == Active /\ ~Missing

Becomes(s, step) == sign' = [sign EXCEPT ![s].step = step]
Over(s) == sign' = [sign EXCEPT ![s] = NoSign]

LoginUser(s) ==
  /\ sign[s].step = "idle"
  /\ Gate /\ Asked
  /\ ~Locked
  /\ Becomes(s, "verifying")
  /\ UNCHANGED <<quorumVars, session, factor, factorVars>>

ChallengeOpened == /\ \E c \in Challenge \ challenges : challenges' = challenges \cup {c}
                   /\ UNCHANGED wrong

\* With a passkey nothing is awaited: a user who has one is answered with a
\* challenge, one who has none (or a code for a second factor) has failed.
LoginByPasskey(s) ==
  /\ sign[s].step = "idle"
  /\ Gate /\ ~Locked
  /\ \/ factor /\ Asked /\ ChallengeOpened
     \/ failed' = Counted + 1 /\ age' = "new" /\ UNCHANGED factorVars
  /\ UNCHANGED <<quorumVars, session, factor, sign>>

WrongCredential(s) ==
  /\ sign[s].step = "verifying"
  /\ Over(s) /\ Failure
  /\ UNCHANGED <<quorumVars, session, factor, factorVars>>

\* The gate is asked again before the last save is awaited, not after it.
Finalize(s) == IF Gate THEN Becomes(s, "finalizing") ELSE Over(s)

\* A user with a second factor is answered with a challenge.
RightCredential(s) ==
  /\ sign[s].step = "verifying"
  /\ \/ factor /\ ChallengeOpened /\ Over(s)
     \/ ~factor /\ Finalize(s) /\ UNCHANGED factorVars
  /\ UNCHANGED <<quorumVars, session, factor, failed, age>>

\* deleteChallenge: its count goes with it, the calls that check a factor for it go on
\* without it.
Deleted(c) ==
  /\ challenges' = challenges \ {c}
  /\ wrong' = [d \in Challenge |-> IF d = c THEN 0 ELSE wrong[d]]

CutOff(c) ==
  [s \in Slot |-> IF sign[s].on = c THEN [sign[s] EXCEPT !.on = NoChallenge] ELSE sign[s]]

\* loginUserVerify2fa: the count is looked at before the check is awaited; a challenge
\* with too many wrong answers is deleted.
VerifyFactor(s, c) ==
  /\ sign[s].step = "idle" /\ c \in challenges
  /\ \/ /\ wrong[c] < MaxFactorAttempts
        /\ sign' = [sign EXCEPT ![s] = [step |-> "checking", on |-> c]]
        /\ UNCHANGED factorVars
     \/ /\ wrong[c] >= MaxFactorAttempts
        /\ Deleted(c) /\ sign' = CutOff(c)
  /\ UNCHANGED <<quorumVars, session, factor, failed, age>>

\* The check is answered: the wrong answer is counted now, the right one deletes the
\* challenge.
FactorWrong(s) ==
  /\ sign[s].step = "checking"
  /\ wrong' = IF sign[s].on = NoChallenge THEN wrong ELSE [wrong EXCEPT ![sign[s].on] = @ + 1]
  /\ Over(s)
  /\ UNCHANGED <<quorumVars, session, factor, challenges, failed, age>>

FactorRight(s) ==
  /\ sign[s].step = "checking"
  /\ Deleted(sign[s].on)
  /\ sign' = [CutOff(sign[s].on) EXCEPT ![s] =
                [step |-> IF Gate THEN "finalizing" ELSE "idle", on |-> NoChallenge]]
  /\ UNCHANGED <<quorumVars, session, factor, failed, age>>

ChallengeExpires(c) ==
  /\ c \in challenges
  /\ Deleted(c) /\ sign' = CutOff(c)
  /\ UNCHANGED <<quorumVars, session, factor, failed, age>>

\* The save is done: the session begins, whatever the quorum or the network is
\* by then; or it failed.
Finalized(s) ==
  /\ sign[s].step = "finalizing"
  /\ Over(s)
  /\ \/ Success /\ session' = TRUE
     \/ UNCHANGED <<session, failed, age>>
  /\ UNCHANGED <<quorumVars, factor, factorVars>>

\* verifyCurrentUser shares the count of the sign-in.
StepUp(s) ==
  /\ sign[s].step = "idle"
  /\ session /\ Asked /\ ~Locked
  /\ Becomes(s, "confirming")
  /\ UNCHANGED <<quorumVars, session, factor, factorVars>>

SteppedUp(s) ==
  /\ sign[s].step = "confirming"
  /\ Over(s)
  /\ Success \/ Failure
  /\ UNCHANGED <<quorumVars, session, factor, factorVars>>

\* logoutUser, or the last window closed
Logout ==
  /\ session /\ session' = FALSE
  /\ UNCHANGED <<quorumVars, factor, sign, factorVars, failed, age>>

\* What ends by itself: the hash, the check of a factor and the save.
Answered(s) == \/ WrongCredential(s) \/ RightCredential(s) \/ FactorWrong(s)
               \/ FactorRight(s) \/ Finalized(s) \/ SteppedUp(s)

AccessNext ==
  \/ Tick \/ Opened \/ WatcherStarts \/ Teardown \/ Closes \/ PeersChange \/ SetPolicy
  \/ TimePasses \/ Logout
  \/ \E s \in Slot : \/ LoginUser(s) \/ LoginByPasskey(s) \/ StepUp(s) \/ Answered(s)
                     \/ \E c \in Challenge : VerifyFactor(s, c)
  \/ \E c \in Challenge : ChallengeExpires(c)

\* The interval of the watcher keeps firing; what is awaited is answered.
AccessFairness == /\ WF_accessVars(Tick)
                  /\ \A s \in Slot : WF_accessVars(Answered(s))

AccessSpec == AccessInit /\ [][AccessNext]_accessVars /\ AccessFairness

-----------------------------------------------------------------------------
\* The watcher ends a session only when the policy is hard and every look since
\* the grace before has found the quorum missing, whatever became of the policy
\* and of the peers in between.
GraceRespected ==
  [][session /\ ~session' /\ network' = network /\ lostFor # NotLost /\ lostFor' = NotLost
       => Hard /\ missing' > policy.grace]_accessVars

\* A quorum that stays lost under a hard policy ends every session for good,
\* those of the calls that had passed the gate before the loss included.
LostQuorumEndsSession ==
  <>[](network = "open" /\ Hard /\ ~Satisfied) => <>[](~session)

\* The limiter is asked before the hash is awaited and told after, and so is the count
\* of a challenge before and after the check of a factor: calls in parallel may pass
\* either together, by no more than their number.
AttemptsBounded ==
  /\ failed <= MaxLoginAttempts + Cardinality(Slot) - 1
  /\ \A c \in challenges : wrong[c] <= MaxFactorAttempts + Cardinality(Slot) - 1
=============================================================================
