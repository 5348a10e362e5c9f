---------------------------- MODULE HybridClock ----------------------------
(***************************************************************************)
(* The hybrid clock of a node (dag/application/hlc.js): the stamps that    *)
(* blocks carry as created_at.  A stamp is written as text, its counter in *)
(* four hexadecimal digits; a counter that needs a fifth is written with   *)
(* five and cannot be read back.  The clock of the computer goes forward   *)
(* and is set back at will; the clock itself is new after a restart.       *)
(***************************************************************************)
EXTENDS Naturals

CONSTANTS MaxTime,     \* readings of the computer's clock (a bound)
          MaxCounter,  \* the largest counter of four digits (65535)
          NodeId,      \* the nodes, as numbers: compared when all else is equal
          Self         \* this node

ASSUME ClockAssumption ==
  MaxTime \in Nat /\ MaxCounter \in Nat /\ NodeId \subseteq Nat \ {0} /\ Self \in NodeId

VARIABLES physical,  \* Date.now()
          wallTime,  \* of the clock
          logical,   \* its counter
          stamp,     \* the stamp it made last
          seen       \* the latest stamp made or taken in since the start

clockVars == <<physical, wallTime, logical, stamp, seen>>

Time == 0..MaxTime
NoStamp == [wall |-> 0, logical |-> 0, node |-> 0]
Stamp == [wall : Time, logical : 0..MaxCounter + 1, node : NodeId]

ClockTypeOK ==
  /\ {physical, wallTime} \subseteq Time
  /\ logical \in 0..MaxCounter + 1
  /\ {stamp, seen} \subseteq Stamp \cup {NoStamp}

\* parse: what cannot be read is the oldest stamp of all.
Parse(s) == IF s.logical <= MaxCounter THEN s ELSE NoStamp

\* compare: whether a comes before b.
Before(a, b) ==
  LET x == Parse(a)
      y == Parse(b)
  IN  \/ x.wall < y.wall
      \/ x.wall = y.wall /\ x.logical < y.logical
      \/ x.wall = y.wall /\ x.logical = y.logical /\ x.node < y.node

Later(a, b) == IF Before(a, b) THEN b ELSE a

ClockInit ==
  /\ physical \in Time /\ wallTime = physical /\ logical = 0
  /\ stamp = NoStamp /\ seen = NoStamp

ClockTicks ==
  /\ physical' \in Time \ {physical}
  /\ UNCHANGED <<wallTime, logical, stamp, seen>>

\* toString
Stamped == stamp' = [wall |-> wallTime', logical |-> logical', node |-> Self]

\* Mutant: a reading equal to the last one starts the counter again.
AdvancedAgain ==
  IF physical >= wallTime THEN wallTime' = physical /\ logical' = 0
                          ELSE logical' = logical + 1 /\ UNCHANGED wallTime

\* now
Advanced ==
  IF physical > wallTime THEN wallTime' = physical /\ logical' = 0
                         ELSE logical' = logical + 1 /\ UNCHANGED wallTime

Now ==
  /\ Advanced /\ logical' <= MaxCounter + 1
  /\ Stamped /\ seen' = Later(seen, stamp')
  /\ UNCHANGED physical

\* update: the comparisons of the code look at the new wall time, so its counter
\* is never set back here.
Update(remote) ==
  /\ LET r == Parse(remote)
         latest == {wallTime, r.wall, physical}
     IN  /\ wallTime' \in latest /\ \A t \in latest : t <= wallTime'
         /\ logical' = IF wallTime' = r.wall /\ r.logical > logical
                       THEN r.logical + 1 ELSE logical + 1
         /\ logical' <= MaxCounter + 1
         /\ Stamped
         /\ seen' = Later(Later(seen, r), stamp')
  /\ UNCHANGED physical

ClockRestarts ==
  /\ wallTime' = physical /\ logical' = 0
  /\ stamp' = NoStamp /\ seen' = NoStamp
  /\ UNCHANGED physical

ClockNext == \/ ClockTicks \/ Now \/ ClockRestarts
             \/ \E remote \in Stamp : Update(remote)

ClockSpec == ClockInit /\ [][ClockNext]_clockVars

-----------------------------------------------------------------------------
\* A stamp that can be read back comes after every stamp the node made or took
\* in since it started, whatever its computer's clock did and however stamps of
\* nodes ahead of it or behind it are mixed with its own.
ClockAdvances ==
  [][stamp' # stamp /\ stamp' # NoStamp /\ logical' <= MaxCounter
       => Before(seen, stamp') /\ seen' = stamp']_clockVars
=============================================================================
