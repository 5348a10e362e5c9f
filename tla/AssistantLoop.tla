---------------------------- MODULE AssistantLoop ----------------------------
(***************************************************************************)
(* The assistant (ai/gateway/): for every question a loop asks the model,  *)
(* executes the tools it calls and asks again, up to passiMassimi times; a *)
(* call to a tool that writes is suspended until the user confirms it, and *)
(* other questions run meanwhile.  The applications publish their tools    *)
(* when they are loaded and take them back when they are unloaded, while   *)
(* questions are under way; every look at a tool counts against the limit  *)
(* of the user for the minute.                                             *)
(*                                                                         *)
(* One user, whose configuration asks for confirmations.  The text of      *)
(* questions, answers and results, and the choice of the tools offered,    *)
(* are left to the model: it may call any tool.                            *)
(***************************************************************************)
EXTENDS Integers, Sequences, SequencesExt, FiniteSets

CONSTANTS Question,     \* questions of the user
          Tool,         \* names of tools
          MaxPassi,     \* passiMassimi
          MaxCalls,     \* calls in one answer of the model (a bound)
          MaxConferme,  \* MASSIMO_CONFERME
          MaxPerMinute, \* maxExecutionsPerMinute
          MaxPublished  \* changes of the registry (a bound)

ASSUME AssistantAssumption ==
  /\ {MaxPassi, MaxCalls, MaxConferme} \subseteq Nat \ {0}
  /\ {MaxPerMinute, MaxPublished} \subseteq Nat

VARIABLES tools,       \* the registry: what each tool does, or that there is none
          changes,     \* how often it has changed
          count,       \* executionCounts of the user
          loop,        \* where the loop of each question is
          perNome,     \* the tools of its session, as they were at its start
          coda,        \* the calls left
          passo,       \* how often the model was asked
          corrected,   \* correzioni
          wrote,       \* a writing tool has succeeded: riuscite of the check
          conferme,    \* the questions that wait for the user, oldest first
          allowance    \* executions still allowed by the calls of the model and by the user (ghost)

assistantVars == <<tools, changes, count, loop, perNome, coda, passo, corrected, wrote,
                   conferme, allowance>>

Does == {"reads", "writes", "absent"}
Calls == MaxPassi * MaxCalls

AssistantTypeOK ==
  /\ tools \in [Tool -> Does] /\ perNome \in [Question -> [Tool -> Does]]
  /\ changes \in 0..MaxPublished
  /\ count \in 0..(MaxPerMinute + 1)
  /\ loop \in [Question -> {"new", "running", "thinking", "calling", "waiting", "over"}]
  /\ \A q \in Question : coda[q] \in Seq(Tool) /\ Len(coda[q]) <= MaxCalls
  /\ passo \in [Question -> 0..MaxPassi]
  /\ corrected \subseteq Question /\ wrote \subseteq Question
  /\ conferme \in Seq(Question) /\ Len(conferme) <= MaxConferme
  /\ allowance \in [Question -> [Tool -> (-Calls)..Calls]]

AssistantInit ==
  /\ tools \in [Tool -> Does] /\ changes = 0 /\ count = 0
  /\ loop = [q \in Question |-> "new"]
  /\ perNome = [q \in Question |-> [t \in Tool |-> "absent"]]
  /\ coda = [q \in Question |-> <<>>]
  /\ passo = [q \in Question |-> 0]
  /\ corrected = {} /\ wrote = {} /\ conferme = <<>>
  /\ allowance = [q \in Question |-> [t \in Tool |-> 0]]

-----------------------------------------------------------------------------
\* _checkRateLimit: what was refused counts as well (more than one too many
\* is one too many).
CountedCall(c) == IF c > MaxPerMinute THEN c ELSE c + 1
WithinLimit(c) == CountedCall(c) <= MaxPerMinute

\* registerTools and unregisterApp, when an application is loaded or unloaded.
Publishes(t, does) ==
  /\ changes < MaxPublished /\ tools[t] # does
  /\ tools' = [tools EXCEPT ![t] = does] /\ changes' = changes + 1
  /\ UNCHANGED <<count, loop, perNome, coda, passo, corrected, wrote, conferme,
                 allowance>>

\* The minute of the limit is over.
MinutePasses ==
  /\ count # 0 /\ count' = 0
  /\ UNCHANGED <<tools, changes, loop, perNome, coda, passo, corrected, wrote, conferme,
                 allowance>>

\* chiedi: a session on the tools there are.
Chiedi(q) ==
  /\ loop[q] = "new" /\ loop' = [loop EXCEPT ![q] = "running"]
  /\ perNome' = [perNome EXCEPT ![q] = tools]
  /\ UNCHANGED <<tools, changes, count, coda, passo, corrected, wrote, conferme,
                 allowance>>

\* No call is left: the model is asked, or the steps are used up.
AsksModel(q) ==
  /\ loop[q] = "running" /\ coda[q] = <<>>
  /\ IF passo[q] >= MaxPassi
     THEN loop' = [loop EXCEPT ![q] = "over"] /\ UNCHANGED passo
     ELSE /\ loop' = [loop EXCEPT ![q] = "thinking"]
          /\ passo' = [passo EXCEPT ![q] = @ + 1]
  /\ UNCHANGED <<tools, changes, count, perNome, coda, corrected, wrote, conferme,
                 allowance>>

\* The model calls tools: each call may be executed once, if it reads.
ModelCalls(q, calls) ==
  /\ loop[q] = "thinking" /\ loop' = [loop EXCEPT ![q] = "running"]
  /\ coda' = [coda EXCEPT ![q] = calls]
  /\ allowance' = [allowance EXCEPT ![q] = [t \in Tool |->
                    IF perNome[q][t] = "writes" THEN @[t]
                    ELSE @[t] + Cardinality({i \in DOMAIN calls : calls[i] = t})]]
  /\ UNCHANGED <<tools, changes, count, perNome, passo, corrected, wrote, conferme>>

\* The model answers: a first answer that claims a write that did not happen is
\* sent back, any other one ends the loop, as an error of the provider does.
ModelAnswers(q) ==
  /\ loop[q] = "thinking"
  /\ \/ /\ q \notin corrected \cup wrote
        /\ corrected' = corrected \cup {q}
        /\ loop' = [loop EXCEPT ![q] = "running"]
     \/ loop' = [loop EXCEPT ![q] = "over"] /\ UNCHANGED corrected
  /\ UNCHANGED <<tools, changes, count, perNome, coda, passo, wrote, conferme,
                 allowance>>

\* richiedeConferma looks at a tool that wrote when the session began.
NeedsConfirmation(q, t) == perNome[q][t] = "writes" /\ tools[t] # "absent"

\* eseguiStrumento, with the count it finds and what the user has allowed: an
\* unknown tool and one over the limit leave an error in the conversation,
\* another one is called.
Executes(q, t, c, allowed) ==
  IF tools[t] # "absent" /\ WithinLimit(c)
  THEN /\ loop' = [loop EXCEPT ![q] = "calling"]
       /\ allowance' = [allowance EXCEPT ![q][t] = @ + allowed - 1]
       /\ UNCHANGED coda
  ELSE /\ loop' = [loop EXCEPT ![q] = "running"]
       /\ coda' = [coda EXCEPT ![q] = Tail(@)]
       /\ allowance' = IF perNome[q][t] = "writes" THEN allowance
                       ELSE [allowance EXCEPT ![q][t] = @ - 1]

AfterExecution(t, c) == IF tools[t] = "absent" THEN c ELSE CountedCall(c)

\* sospendi: when too many wait, the oldest are dropped.
Suspended(q) ==
  LET room == IF Len(conferme) >= MaxConferme THEN Tail(conferme) ELSE conferme
  IN  /\ conferme' = Append(room, q)
      /\ loop' = [p \in Question |-> IF p = q THEN "waiting"
                                     ELSE IF p \in ToSet(conferme) \ ToSet(room) THEN "over"
                                     ELSE loop[p]]

\* The next call: suspended, or executed.  The limit is asked about a tool that
\* writes before the user is, and again by the execution; one over the limit is
\* not asked about, since the execution will refuse it, unless the minute turns
\* in between.
NextCall(q) ==
  LET t == Head(coda[q]) IN
  /\ loop[q] = "running" /\ coda[q] # <<>>
  /\ \/ /\ NeedsConfirmation(q, t) /\ WithinLimit(count)
        /\ count' = CountedCall(count)
        /\ Suspended(q)
        /\ UNCHANGED <<coda, allowance>>
     \/ /\ NeedsConfirmation(q, t) /\ ~WithinLimit(count)
        /\ \E turned \in {0, 1} :
             LET found == IF turned = 1 THEN 0 ELSE CountedCall(count)
             IN  Executes(q, t, found, turned) /\ count' = AfterExecution(t, found)
        /\ UNCHANGED conferme
     \/ /\ ~NeedsConfirmation(q, t)
        /\ Executes(q, t, count, 0) /\ count' = AfterExecution(t, count)
        /\ UNCHANGED conferme
  /\ UNCHANGED <<tools, changes, perNome, passo, corrected, wrote>>

\* Mutant: the entry stays while the loop goes on.
LeftWaiting(q) == conferme

\* The entry is taken out before anything is awaited.
Withdrawn(q) == RemoveFirst(conferme, q)

\* conferma, of a question that waits: the call is executed or annulled.  The
\* user may answer again; the answer counts once.
Conferma(q, approvata) ==
  LET t == Head(coda[q]) IN
  /\ q \in ToSet(conferme) /\ coda[q] # <<>>
  /\ conferme' = Withdrawn(q)
  /\ IF approvata
     THEN /\ Executes(q, t, count, IF loop[q] = "waiting" THEN 1 ELSE 0)
          /\ count' = AfterExecution(t, count)
     ELSE /\ loop' = [loop EXCEPT ![q] = "running"]
          /\ coda' = [coda EXCEPT ![q] = Tail(@)]
          /\ UNCHANGED <<count, allowance>>
  /\ UNCHANGED <<tools, changes, perNome, passo, corrected, wrote>>

\* Ten minutes without an answer: the oldest goes first.
ConfermaExpires ==
  /\ conferme # <<>> /\ conferme' = Tail(conferme)
  /\ loop' = [loop EXCEPT ![Head(conferme)] = "over"]
  /\ UNCHANGED <<tools, changes, count, perNome, coda, passo, corrected, wrote,
                 allowance>>

\* The application answers the call, or fails.
CallReturns(q) ==
  LET t == Head(coda[q]) IN
  /\ loop[q] = "calling" /\ loop' = [loop EXCEPT ![q] = "running"]
  /\ coda' = [coda EXCEPT ![q] = Tail(@)]
  /\ \/ UNCHANGED wrote
     \/ perNome[q][t] = "writes" /\ wrote' = wrote \cup {q}
  /\ UNCHANGED <<tools, changes, count, perNome, passo, corrected, conferme,
                 allowance>>

AssistantNext ==
  \/ \E t \in Tool, does \in Does : Publishes(t, does)
  \/ MinutePasses \/ ConfermaExpires
  \/ \E q \in Question :
       \/ Chiedi(q) \/ AsksModel(q) \/ ModelAnswers(q) \/ NextCall(q) \/ CallReturns(q)
       \/ \E n \in 1..MaxCalls : \E calls \in [1..n -> Tool] : ModelCalls(q, calls)
       \/ \E approvata \in BOOLEAN : Conferma(q, approvata)

AssistantSpec == AssistantInit /\ [][AssistantNext]_assistantVars

-----------------------------------------------------------------------------
\* A call of the model is executed once at most, and one to a tool that wrote
\* when the session began only if the user confirmed it, for that call: never for
\* one that was rejected, dropped or expired, whatever is answered twice, while
\* other questions wait and the registry changes.  The exception is a call over
\* the limit of one minute whose execution falls into the next
\* (sessione_richiesta.js:81).
CallsRunAsAllowed == \A q \in Question, t \in Tool : allowance[q][t] >= 0
=============================================================================
