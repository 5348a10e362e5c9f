---------------------------- MODULE CausalLedger ----------------------------
(***************************************************************************)
(* What the block ledger promises, whatever it does to get there: replicas *)
(* of one causal history.  A replica adds a block on top of everything it  *)
(* knows; it learns, in any order, blocks that were made; it saves what it *)
(* knows, and it forgets only when the whole of it goes back to what it    *)
(* saved (a crash) or becomes the copy another replica offered (a clone).  *)
(***************************************************************************)
EXTENDS Integers, Sequences

CONSTANT Node    \* the replicas

VARIABLES
  past,     \* past[i]: the ancestors of the i-th block made
  known,    \* known[n]: the blocks that replica n knows
  saved,    \* saved[n]: what n knew when it last saved
  offered   \* copies of replicas on their way to another one

vars == <<past, known, saved, offered>>

Made == 1..Len(past)

Init ==
  /\ past    = <<>>
  /\ known   = [n \in Node |-> {}]
  /\ saved   = [n \in Node |-> {}]
  /\ offered = {}

Make(n) ==
  /\ \E ancestors \in SUBSET Made :
        /\ known[n] \subseteq ancestors
        /\ \A x \in ancestors : past[x] \subseteq ancestors
        /\ past' = Append(past, ancestors)
  /\ known' = [known EXCEPT ![n] = @ \cup {Len(past) + 1}]
  /\ UNCHANGED <<saved, offered>>

Learn(n) ==
  /\ \E found \in SUBSET Made : known' = [known EXCEPT ![n] = @ \cup found]
  /\ UNCHANGED <<past, saved, offered>>

Save(n) ==
  /\ saved' = [saved EXCEPT ![n] = known[n]]
  /\ UNCHANGED <<past, known, offered>>

Offer(n) ==
  /\ offered' = offered \cup {known[n]}
  /\ UNCHANGED <<past, known, saved>>

\* Copies on their way may be lost at any time.
Withdraw == offered' \in SUBSET offered

Restore(n) ==
  /\ known' = [known EXCEPT ![n] = saved[n]]
  /\ Withdraw
  /\ UNCHANGED <<past, saved>>

Adopt(n) ==
  /\ \E copy \in offered : known' = [known EXCEPT ![n] = copy]
  /\ saved' = [saved EXCEPT ![n] = {}]
  /\ Withdraw
  /\ UNCHANGED past

Next ==
  \/ \E n \in Node : Make(n) \/ Learn(n) \/ Save(n) \/ Offer(n) \/ Restore(n) \/ Adopt(n)
  \/ Withdraw /\ UNCHANGED <<past, known, saved>>

Spec == Init /\ [][Next]_vars
=============================================================================
