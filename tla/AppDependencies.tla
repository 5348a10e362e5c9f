-------------------------- MODULE AppDependencies --------------------------
(***************************************************************************)
(* The dependencies between the applications of the store: the plan of an  *)
(* installation (pianificaInstallazione in core/DependencyResolver.js),    *)
(* carried out one application after the other (install in                 *)
(* handlers/store.js), and the check that refuses a removal                *)
(* (canUninstall).  Whatever else installs, replaces or removes an         *)
(* application asks neither of them: blocks of other nodes, updates,       *)
(* rollbacks, an archived version, a second call of install.  A            *)
(* requirement is the set of versions it accepts, none where nothing is    *)
(* required, and is the same in every version of an application.  Core     *)
(* modules, which the resolver skips, are left out.                        *)
(***************************************************************************)
EXTENDS Naturals, FiniteSets, Sequences, SequencesExt

CONSTANTS App,         \* applications of the marketplace
          Edge,        \* pairs in which the first may require the second (a bound)
          MaxRelease,  \* versions (a bound)
          Declared,    \* what the manifests may require, pair by pair (a bound)
          MaxMoves     \* changes by others and of the marketplace (a bound)

ASSUME DependencyAssumption ==
  /\ IsFiniteSet(App) /\ Edge \subseteq App \X App /\ MaxRelease \in Nat \ {0}
  /\ Declared \subseteq [Edge -> SUBSET (1..MaxRelease)]

VARIABLES requires,    \* per pair: the versions that satisfy the requirement
          offered,     \* per application: the version in the marketplace, or 0
          installed,   \* per application: the version installed, or 0
          plan,        \* what the call of install still has to install
          removing,    \* the applications whose removal has passed its checks
          changed,     \* removed, or changed by others, since the plan was made
          promised,    \* needs that were met when their application was installed
          moves        \* changes by others and of the marketplace so far

dependencyVars == <<requires, offered, installed, plan, removing, changed, promised, moves>>

Release == 0..MaxRelease

\* An application of a plan, in the version of the marketplace the call has read.
PlannedItem == [app : App, version : Release]

DependencyTypeOK ==
  /\ requires \in Declared
  /\ offered \in [App -> Release] /\ installed \in [App -> Release]
  /\ plan \in Seq(PlannedItem) /\ removing \in SUBSET App
  /\ changed \in SUBSET App /\ promised \in SUBSET Edge /\ moves \in Nat

DependencyInit ==
  /\ requires \in Declared
  /\ offered \in [App -> Release]
  /\ installed = [a \in App |-> 0]
  /\ plan = <<>> /\ removing = {} /\ changed = {} /\ promised = {} /\ moves = 0

Needs(a) == {b \in App : <<a, b>> \in Edge /\ requires[<<a, b>>] # {}}

-----------------------------------------------------------------------------
\* What a visit has found so far: the order, the applications completed and
\* whether it met no problem.
Tally == [order : Seq(App), done : SUBSET App, ok : BOOLEAN]

\* A call of visita: an application, the versions accepted, what was found before.
VisitCall == [app : App, accepted : SUBSET Release, before : Tally]

\* The needs of a, one after the other, by the visit that has a on its stack.
VisitNeeds(visit, s, a) ==
  FoldLeft(LAMBDA r, b : visit[[app |-> b, accepted |-> requires[<<a, b>>], before |-> r]],
           s, SetToSeq(Needs(a)))

\* Mutant: what is installed is taken as it is, in whatever version.
PresentInstalled(a, accepted) == installed[a] > 0

\* A dependency is there already, in a version that is accepted (soddisfaVersione).
Present(a, accepted) == installed[a] > 0 /\ installed[a] \in accepted

\* visita, by the applications on its stack.  An application that is completed is
\* not looked at again, even if this requirement is another one; what the user
\* asked for, with an empty stack, is installed whatever is there.
Visit[stack \in SUBSET App] ==
  [call \in VisitCall |->
     LET a == call.app
         s == call.before
     IN  IF a \in stack THEN [s EXCEPT !.ok = FALSE]
         ELSE IF a \in s.done THEN s
         ELSE IF stack # {} /\ Present(a, call.accepted)
           THEN [s EXCEPT !.done = @ \cup {a}]
         ELSE IF offered[a] = 0 \/ (stack # {} /\ offered[a] \notin call.accepted)
           THEN [s EXCEPT !.done = @ \cup {a}, !.ok = FALSE]
         ELSE LET t == VisitNeeds(Visit[stack \cup {a}], s, a)
              IN  [t EXCEPT !.done = @ \cup {a}, !.order = Append(@, a)]]

\* pianificaInstallazione
Plan(a) ==
  Visit[{}][[app |-> a, accepted |-> Release,
             before |-> [order |-> <<>>, done |-> {}, ok |-> TRUE]]]

\* install: a plan with a problem is refused, another is carried out.
PlanInstall(a) ==
  /\ plan = <<>> /\ Plan(a).ok
  /\ LET order == Plan(a).order
     IN  plan' = [i \in DOMAIN order |-> [app |-> order[i], version |-> offered[order[i]]]]
  /\ UNCHANGED <<requires, offered, installed, removing, changed, promised, moves>>

\* What has changed is forgotten with the plan it was changed under.
Remembers(A, p) == changed' = IF p = <<>> THEN {} ELSE changed \cup A

\* installaSingola, for the next application of the plan.  The last one is what
\* the user asked for: those that need it have no say in its version.
InstallNext ==
  /\ plan # <<>>
  /\ LET item == Head(plan)
         a    == item.app
         lost == {e \in promised : /\ e[2] = a /\ Tail(plan) = <<>>
                                   /\ item.version \notin requires[e]}
     IN  /\ installed' = [installed EXCEPT ![a] = item.version]
         /\ promised' = (promised \ lost)
                          \cup {<<a, b>> : b \in Needs(a) \ (changed \cup removing)}
  /\ plan' = Tail(plan) /\ Remembers({}, Tail(plan))
  /\ UNCHANGED <<requires, offered, removing, moves>>

\* What was installed before a failure stays.
InstallStops ==
  /\ plan # <<>> /\ plan' = <<>> /\ changed' = {}
  /\ UNCHANGED <<requires, offered, installed, removing, promised, moves>>

\* uninstall asks canUninstall, then waits for the removal.
StartRemoval(a) ==
  /\ installed[a] > 0
  /\ \A b \in App \ {a} : installed[b] > 0 => a \notin Needs(b)
  /\ removing' = removing \cup {a}
  /\ UNCHANGED <<requires, offered, installed, plan, changed, promised, moves>>

RemovalEnds(a) ==
  /\ a \in removing
  /\ installed' = [installed EXCEPT ![a] = 0]
  /\ removing' = removing \ {a}
  /\ Remembers({a}, plan)
  /\ promised' = {e \in promised : e[1] # a}
  /\ UNCHANGED <<requires, offered, plan, moves>>

\* A block of another node, an update, a rollback, an archived version or a
\* second call of install: no plan of this call, and no canUninstall.
OthersChange(a) ==
  /\ moves < MaxMoves /\ moves' = moves + 1
  /\ \E v \in Release \ {installed[a]} : installed' = [installed EXCEPT ![a] = v]
  /\ Remembers({a}, plan)
  /\ promised' = {e \in promised : a \notin {e[1], e[2]}}
  /\ UNCHANGED <<requires, offered, plan, removing>>

\* Another version comes to the marketplace, or a repository goes.
Offer(a) ==
  /\ moves < MaxMoves /\ moves' = moves + 1
  /\ \E v \in Release \ {offered[a]} : offered' = [offered EXCEPT ![a] = v]
  /\ UNCHANGED <<requires, installed, plan, removing, changed, promised>>

DependencyNext ==
  \/ InstallNext \/ InstallStops
  \/ \E a \in App : \/ PlanInstall(a) \/ StartRemoval(a) \/ RemovalEnds(a)
                    \/ OthersChange(a) \/ Offer(a)

DependencySpec == DependencyInit /\ [][DependencyNext]_dependencyVars

-----------------------------------------------------------------------------
\* Whoever requires b accepts the same versions of it.
OneRequirement(b) ==
  \A x, y \in {z \in App : b \in Needs(z)} : requires[<<x, b>>] = requires[<<y, b>>]

\* An application that a plan has installed finds what it requires, from that step
\* on, also in the middle of a plan and after one that stopped: it is installed,
\* and stays in a version that is accepted where all requirements of it are the
\* same, through later plans and removals, until somebody else changes one of the
\* two.  A need that others changed after the plan was made, or whose removal was
\* under way, is not promised (nothing looks again), nor is the version of an
\* application that the user asks for itself.
NeedsAreInstalled ==
  \A e \in promised : LET b == e[2] IN
    installed[b] > 0 /\ (OneRequirement(b) => installed[b] \in requires[e])
=============================================================================
