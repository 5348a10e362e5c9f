------------------------- MODULE BlockLedgerProofs -------------------------
(***************************************************************************)
(* Proofs about BlockLedger, for every number of nodes, blocks, crashes    *)
(* and imports.  The inductive invariant is                                *)
(*                                                                         *)
(*   LedgerInv == History(block) /\ Replicas /\ Network /\ Frame            *)
(*                                                                         *)
(* which is TypeOK, TipsCoverLog and AuthorsSawPast, regrouped.            *)
(* TipsCoverLog is what makes it inductive: createBlock names only the     *)
(* tips, so that the ancestors of a new block contain all that its author  *)
(* stores only because the tips cover it, and they go on covering it under *)
(* any order of ingestion.  A replica is moved as a whole between memory,  *)
(* disk and clone bundles, so its part of the invariant is the predicate   *)
(* Good(b, r) of a history b and a replica r, and the lemmas are about it. *)
(***************************************************************************)
EXTENDS BlockLedger, Extrema, SequenceTheorems, TLAPS

\* A history of blocks: the part of the invariant that is about `block'.
History(b) ==
  /\ b \in Seq(Content) /\ Len(b) <= MaxBlock
  /\ \A x \in DOMAIN b :
        /\ b[x].parents \cup b[x].past \subseteq 0..(x - 1)
        /\ b[x].parents \ {Genesis} \subseteq b[x].past
        /\ \A y \in b[x].past : b[y].past \subseteq b[x].past
        /\ b[x].seen \subseteq b[x].past

\* A replica of that history: the part that is about one replica.
Good(b, r) ==
  /\ r \in Replica
  /\ Stored(r) \subseteq DOMAIN b
  /\ r.tips \subseteq Stored(r) \cup {Genesis}
  /\ \A x \in Stored(r) : \E t \in r.tips \ {Genesis} : x = t \/ x \in b[t].past

Shipped(b, carried) ==
  /\ DOMAIN carried \subseteq DOMAIN b
  /\ \A x \in DOMAIN carried : carried[x] \in {"plain", "shredded"}

Travels(b, m) ==
  \/ m.kind = "push"  /\ m.to \in Node /\ Shipped(b, m.blocks)
  \/ m.kind = "pull"  /\ {m.from, m.to} \subseteq Node
                      /\ m.tips \subseteq BlockId \cup {Genesis}
  \/ m.kind \in {"reply", "all"} /\ {m.from, m.to} \subseteq Node /\ Shipped(b, m.blocks)
  \/ m.kind \in {"full_resync", "clone"} /\ {m.from, m.to} \subseteq Node
  \/ m.kind = "bundle" /\ {m.from, m.to} \subseteq Node /\ m.schema \subseteq Record
                       /\ Good(b, m.replica)

Replicas ==
  /\ ledger \in [Node -> Replica] /\ disk \in [Node -> Replica]
  /\ \A n \in Node : Good(block, ledger[n]) /\ Good(block, disk[n])

Network == \A m \in net : Travels(block, m)

Sessions == [Node -> [Node -> [stage : {"idle", "shaken", "pulling"},
                               peerTips : SUBSET (BlockId \cup {Genesis})]]]

Frame ==
  /\ joined \subseteq Node
  /\ schema \in [Node -> SUBSET Record]
  /\ session \in Sessions
  /\ crashes \in 0..MaxCrash /\ imports \in 0..MaxImport

LedgerInv == History(block) /\ Replicas /\ Network /\ Frame

-----------------------------------------------------------------------------
(***************************************************************************)
(* The history grows.                                                      *)
(***************************************************************************)
LEMMA HistoryDomain ==
  ASSUME NEW b, History(b)
  PROVE  /\ DOMAIN b = 1..Len(b) /\ Len(b) \in Nat /\ DOMAIN b \subseteq BlockId
         /\ \A x \in DOMAIN b : b[x] \in Content /\ b[x].past \subseteq DOMAIN b
<1>1. DOMAIN b = 1..Len(b) /\ Len(b) \in Nat /\ \A x \in DOMAIN b : b[x] \in Content
  BY DEF History
<1>2. DOMAIN b \subseteq BlockId
  BY <1>1, BoundAssumption DEF History, BlockId
<1>3. ASSUME NEW x \in DOMAIN b, NEW y \in b[x].past PROVE y \in DOMAIN b
  <2>1. y \in BlockId
    BY <1>1 DEF Content
  <2>2. y \in 0..(x - 1)
    BY DEF History
  <2> QED BY <1>1, <2>1, <2>2 DEF BlockId
<1> QED BY <1>1, <1>2, <1>3

LEMMA AppendFacts ==
  ASSUME NEW b, History(b), NEW c \in Content
  PROVE  /\ Append(b, c) \in Seq(Content) /\ Len(Append(b, c)) = Len(b) + 1
         /\ DOMAIN Append(b, c) = DOMAIN b \cup {Len(b) + 1}
         /\ Append(b, c)[Len(b) + 1] = c
         /\ \A x \in DOMAIN b : Append(b, c)[x] = b[x]
  BY HistoryDomain DEF History

\* The block that createBlock makes on replica r.
On(b, r, n, type, record) ==
  [author |-> n, parents |-> r.tips,
   past   |-> (r.tips \ {Genesis}) \cup UNION {b[t].past : t \in r.tips \ {Genesis}},
   seen   |-> Stored(r), type |-> type, record |-> record]

LEMMA NewBlockOn ==
  ASSUME NEW b, History(b), NEW r, Good(b, r), NEW n \in Node,
         NEW type \in {"MUTATION", "SHRED"}, NEW record \in Record
  PROVE  LET c == On(b, r, n, type, record)
         IN  /\ c \in Content
             /\ c.seen \subseteq c.past
             /\ c.parents \subseteq 0..Len(b) /\ c.past \subseteq DOMAIN b
             /\ c.parents \ {Genesis} \subseteq c.past
             /\ \A y \in c.past : b[y].past \subseteq c.past
<1> DEFINE c == On(b, r, n, type, record)
           tips == r.tips \ {Genesis}
<1>1. tips \subseteq DOMAIN b
  BY DEF Good
<1>2. c.past = tips \cup UNION {b[t].past : t \in tips} /\ c.parents = r.tips
      /\ c.seen = Stored(r)
  BY DEF On
<1>3. c.past \subseteq DOMAIN b
  BY <1>1, <1>2, HistoryDomain
<1>4. c \in Content
  <2>1. r.tips \subseteq BlockId \cup {Genesis} /\ Stored(r) \subseteq BlockId
    BY DEF Good, Replica, Stored
  <2>2. c.past \subseteq BlockId
    BY <1>3, HistoryDomain
  <2> QED BY <2>1, <2>2, <1>2 DEF On, Content
<1>5. c.seen \subseteq c.past
  BY <1>2 DEF Good
<1>6. c.parents \subseteq 0..Len(b)
  BY <1>1, <1>2, HistoryDomain DEF Genesis
<1>7. ASSUME NEW y \in c.past PROVE b[y].past \subseteq c.past
  <2>1. CASE y \in tips
    BY <2>1, <1>2
  <2>2. CASE \E t \in tips : y \in b[t].past
    <3>1. PICK t \in tips : y \in b[t].past
      BY <2>2
    <3>2. b[y].past \subseteq b[t].past
      BY <3>1, <1>1 DEF History
    <3> QED BY <3>2, <1>2
  <2> QED BY <2>1, <2>2, <1>2
<1> QED BY <1>2, <1>3, <1>4, <1>5, <1>6, <1>7

LEMMA HistoryAppend ==
  ASSUME NEW b, History(b), Len(b) < MaxBlock, NEW r, Good(b, r), NEW n \in Node,
         NEW type \in {"MUTATION", "SHRED"}, NEW record \in Record
  PROVE  History(Append(b, On(b, r, n, type, record)))
<1> DEFINE c == On(b, r, n, type, record)
           a == Append(b, c)
<1>1. /\ c \in Content
      /\ c.seen \subseteq c.past
      /\ c.parents \subseteq 0..Len(b) /\ c.past \subseteq DOMAIN b
      /\ c.parents \ {Genesis} \subseteq c.past
      /\ \A y \in c.past : b[y].past \subseteq c.past
  BY NewBlockOn
<1> HIDE DEF c
<1>2. /\ a \in Seq(Content) /\ Len(a) = Len(b) + 1
      /\ DOMAIN a = DOMAIN b \cup {Len(b) + 1}
      /\ a[Len(b) + 1] = c
      /\ \A x \in DOMAIN b : a[x] = b[x]
  BY <1>1, AppendFacts
<1>3. DOMAIN b = 1..Len(b) /\ Len(b) \in Nat /\ \A x \in DOMAIN b : b[x].past \subseteq DOMAIN b
  BY HistoryDomain
<1> HIDE DEF a
<1>4. Len(a) <= MaxBlock
  BY <1>2, <1>3, BoundAssumption
<1>5. ASSUME NEW x \in DOMAIN a
      PROVE  /\ a[x].parents \cup a[x].past \subseteq 0..(x - 1)
             /\ a[x].parents \ {Genesis} \subseteq a[x].past
             /\ \A y \in a[x].past : a[y].past \subseteq a[x].past
             /\ a[x].seen \subseteq a[x].past
  <2>1. CASE x \in DOMAIN b
    <3>1. a[x] = b[x] /\ \A y \in b[x].past : a[y] = b[y]
      BY <2>1, <1>2, <1>3
    <3> QED BY <2>1, <3>1 DEF History
  <2>2. CASE x = Len(b) + 1
    <3>1. a[x] = c /\ \A y \in c.past : a[y] = b[y]
      BY <2>2, <1>1, <1>2
    <3>2. c.parents \cup c.past \subseteq 0..(x - 1)
      BY <2>2, <1>1, <1>3
    <3> QED BY <1>1, <3>1, <3>2
  <2> QED BY <2>1, <2>2, <1>2
<1>6. History(a)
  BY <1>2, <1>4, <1>5 DEF History
<1> QED BY <1>6 DEF a, c

-----------------------------------------------------------------------------
(***************************************************************************)
(* What is done to a replica keeps it covered by its tips.                 *)
(***************************************************************************)
LEMMA EmptyReplicaGood ==
  ASSUME NEW b
  PROVE  Good(b, EmptyReplica)
<1>1. EmptyReplica \in Replica /\ EmptyReplica.tips = {Genesis}
  BY DEF EmptyReplica, Replica, Form
<1>2. Stored(EmptyReplica) = {}
  BY DEF EmptyReplica, Stored
<1> QED BY <1>1, <1>2 DEF Good

LEMMA GoodInLonger ==
  ASSUME NEW b, History(b), NEW r, Good(b, r), NEW c \in Content
  PROVE  Good(Append(b, c), r)
<1>1. DOMAIN b \subseteq DOMAIN Append(b, c) /\ \A x \in DOMAIN b : Append(b, c)[x] = b[x]
  BY AppendFacts
<1>2. Genesis \notin BlockId
  BY DEF Genesis, BlockId
<1> QED BY <1>1, <1>2 DEF Good

\* Rows that go on being stored, or not, as before.
LEMMA SameRowsGood ==
  ASSUME NEW b, NEW r, Good(b, r), NEW s \in Replica,
         Stored(s) = Stored(r), s.tips = r.tips
  PROVE  Good(b, s)
  BY DEF Good

LEMMA OwnBlockGood ==
  ASSUME NEW b, History(b), Len(b) < MaxBlock, NEW r, Good(b, r), NEW c \in Content,
         c.past \subseteq DOMAIN b, Stored(r) \subseteq c.past
  PROVE  Good(Append(b, c), WithOwnBlock(r, Len(b) + 1))
<1> DEFINE x == Len(b) + 1
           a == Append(b, c)
           s == WithOwnBlock(r, x)
<1>1. DOMAIN a = DOMAIN b \cup {x} /\ a[x] = c
  BY AppendFacts
<1>2. x \in BlockId
  BY HistoryDomain, BoundAssumption DEF BlockId
<1>3. s \in Replica /\ s.tips = {x}
  BY <1>2 DEF WithOwnBlock, Good, Replica, Form
<1>4. Stored(s) = Stored(r) \cup {x}
  BY <1>2 DEF WithOwnBlock, Stored, Good, Replica
<1>5. x # Genesis
  BY HistoryDomain DEF Genesis
<1> HIDE DEF a, s
<1>6. Stored(s) \subseteq DOMAIN a
  BY <1>1, <1>4 DEF Good
<1>7. ASSUME NEW y \in Stored(s) PROVE y = x \/ y \in a[x].past
  BY <1>1, <1>4
<1>8. Good(a, s)
  BY <1>3, <1>4, <1>5, <1>6, <1>7 DEF Good
<1> QED BY <1>8 DEF a, s

\* Ingestion, whatever the order: among the old tips and the new blocks that are
\* x or descend from it, the youngest is still a tip afterwards.
LEMMA IngestedGood ==
  ASSUME History(block), NEW r, Good(block, r), NEW c, CarriedOK(c),
         NEW order, NEW tables
  PROVE  Good(block, Ingested(r, c, order, tables))
<1> DEFINE new == {x \in DOMAIN c : r.row[x] = "absent"}
           row == [x \in BlockId |-> IF x \in new THEN c[x] ELSE r.row[x]]
           s == [row |-> row, applied |-> r.applied \cup Drainable(row, r.applied, tables),
                 tips |-> TipsAfter(r.tips, new, order)]
<1>1. CASE DOMAIN c = {}
  BY <1>1 DEF Ingested
<1>2. CASE DOMAIN c # {}
  <2>1. Ingested(r, c, order, tables) = s
    BY <1>2 DEF Ingested
  <2>2. new \subseteq DOMAIN block /\ DOMAIN block \subseteq BlockId
    BY HistoryDomain DEF CarriedOK, Made
  <2>3. row \in [BlockId -> Form] /\ \A x \in new : row[x] # "absent"
    <3>1. ASSUME NEW x \in new PROVE c[x] \in {"plain", "shredded"}
      BY DEF CarriedOK
    <3>2. ASSUME NEW x \in BlockId PROVE r.row[x] \in Form
      BY DEF Good, Replica
    <3> QED BY <2>2, <3>1, <3>2 DEF Form
  <2>4. TipsAfter(r.tips, new, order) \subseteq r.tips \cup new
    BY DEF TipsAfter
  <2>5. s \in Replica
    <3>1. r.tips \subseteq BlockId \cup {Genesis} /\ r.applied \subseteq BlockId
      BY DEF Good, Replica
    <3>2. Drainable(row, r.applied, tables) \subseteq BlockId
      BY DEF Drainable
    <3> HIDE DEF row, new
    <3> QED BY <2>2, <2>3, <2>4, <3>1, <3>2 DEF Replica
  <2>6. Stored(s) = Stored(r) \cup new
    BY <2>2, <2>3 DEF Stored
  <2>7. ASSUME NEW x \in Stored(s)
        PROVE  \E t \in s.tips \ {Genesis} : x = t \/ x \in block[t].past
    <3> DEFINE above == {t \in (r.tips \ {Genesis}) \cup new : x = t \/ x \in block[t].past}
    <3>1. above \subseteq 1..Len(block)
      BY <2>2, HistoryDomain DEF Good
    <3>2. above # {}
      BY <2>6 DEF Good
    <3>3. PICK t \in above : \A u \in above : u <= t
      BY <3>1, <3>2, MaxExists, HistoryDomain
    <3>4. ASSUME NEW d \in new, t \in Parents(d) PROVE FALSE
      <4>1. d \in DOMAIN block /\ t # Genesis
        BY <2>2, <3>1 DEF Genesis
      <4>2. t \in block[d].past /\ block[t].past \subseteq block[d].past /\ t \in 0..(d - 1)
        BY <3>4, <4>1 DEF History, Parents
      <4>3. d \in above
        BY <4>2
      <4>4. d \in Nat /\ t < d
        BY <4>1, <4>2, HistoryDomain
      <4> QED BY <3>1, <3>3, <4>3, <4>4
    <3>5. t \in TipsAfter(r.tips, new, order)
      BY <3>4 DEF TipsAfter
    <3>6. t # Genesis
      BY <3>1 DEF Genesis
    <3> QED BY <3>5, <3>6
  <2>8. s.tips \subseteq Stored(s) \cup {Genesis} /\ Stored(s) \subseteq DOMAIN block
    BY <2>2, <2>4, <2>6 DEF Good
  <2> HIDE DEF s
  <2>9. Good(block, s)
    BY <2>5, <2>7, <2>8 DEF Good
  <2> QED BY <2>1, <2>9
<1> QED BY <1>1, <1>2

LEMMA ShreddedGood ==
  ASSUME NEW b, NEW r, Good(b, r), NEW record
  PROVE  /\ Good(b, ShredTargets(r, record))
         /\ ShredTargets(r, record).tips = r.tips
         /\ Stored(ShredTargets(r, record)) = Stored(r)
<1>1. ShredTargets(r, record) \in Replica
  BY DEF ShredTargets, Good, Replica, Form
<1>2. Stored(ShredTargets(r, record)) = Stored(r) /\ ShredTargets(r, record).tips = r.tips
  BY DEF ShredTargets, Stored, Good, Replica
<1> QED BY <1>1, <1>2, SameRowsGood

LEMMA RebuiltGood ==
  ASSUME NEW b, NEW r, Good(b, r), NEW tables
  PROVE  Good(b, Rebuilt(r, tables))
<1>1. Rebuilt(r, tables) \in Replica
  BY DEF Rebuilt, Good, Replica, Stored
<1>2. Stored(Rebuilt(r, tables)) = Stored(r) /\ Rebuilt(r, tables).tips = r.tips
  BY DEF Rebuilt, Stored, Good, Replica
<1> QED BY <1>1, <1>2, SameRowsGood

-----------------------------------------------------------------------------
(***************************************************************************)
(* The invariant holds initially and is kept by every action.              *)
(***************************************************************************)
LEMMA InvInit == Init => LedgerInv
<1> SUFFICES ASSUME Init PROVE LedgerInv
  OBVIOUS
<1>1. block = <<>> /\ Len(block) = 0 /\ DOMAIN block = {} /\ MaxBlock \in Nat
  BY BoundAssumption DEF Init
<1>2. History(block)
  BY <1>1 DEF History
<1>3. Good(block, EmptyReplica)
  BY EmptyReplicaGood
<1>4. Replicas
  BY <1>3 DEF Init, Replicas, Good
<1>5. Network
  BY DEF Init, Network
<1>6. Frame
  BY OwnerAssumption, RecordAssumption, BoundAssumption DEF Init, Frame, Sessions, Idle
<1> QED BY <1>2, <1>4, <1>5, <1>6 DEF LedgerInv

\* A step that creates a block on a replica s with the rows and tips of ledger[n].
LEMMA CreationKeepsInv ==
  ASSUME LedgerInv, Len(block) < MaxBlock,
         NEW n \in Node, NEW type \in {"MUTATION", "SHRED"}, NEW record \in Record,
         NEW s, Good(block, s), s.tips = ledger[n].tips, Stored(s) = Stored(ledger[n]),
         NEW connected \in SUBSET joined,
         block'  = Append(block, NewBlock(n, type, record)),
         ledger' = [ledger EXCEPT ![n] = WithOwnBlock(s, Len(block) + 1)],
         LivePush(n, Len(block) + 1, connected),
         UNCHANGED <<disk, joined, schema, session, crashes, imports>>
  PROVE  LedgerInv'
<1> DEFINE c == On(block, s, n, type, record)
           x == Len(block) + 1
<1> USE DEF LedgerInv
<1>1. NewBlock(n, type, record) = c
  BY DEF NewBlock, On, Past
<1>2. History(block')
  BY <1>1, HistoryAppend
<1>3. c \in Content /\ c.past \subseteq DOMAIN block /\ c.seen \subseteq c.past /\ c.seen = Stored(s)
  BY NewBlockOn DEF On
<1> HIDE DEF c
<1>4. Good(block', WithOwnBlock(s, x))
  BY <1>1, <1>3, OwnBlockGood
<1>5. ASSUME NEW r, Good(block, r) PROVE Good(block', r)
  BY <1>1, <1>3, <1>5, GoodInLonger
<1>6. Replicas'
  <2>1. ledger' \in [Node -> Replica]
    BY <1>4 DEF Replicas, Good
  <2>2. ASSUME NEW m \in Node PROVE Good(block', ledger'[m])
    BY <1>4, <1>5 DEF Replicas
  <2> QED BY <2>1, <2>2, <1>5 DEF Replicas
<1>7. DOMAIN block' = DOMAIN block \cup {x}
  BY <1>1, <1>3, AppendFacts
<1>8. Network'
  <2>1. ASSUME NEW m \in net PROVE Travels(block', m)
    BY <1>5, <1>7 DEF Network, Travels, Shipped
  <2>2. ASSUME NEW m \in connected PROVE Travels(block', Push(m, [y \in {x} |-> "plain"]))
    BY <1>7 DEF Travels, Shipped, Push, Frame
  <2> QED BY <2>1, <2>2 DEF Network, LivePush
<1>9. Frame'
  BY DEF Frame
<1> QED BY <1>2, <1>6, <1>8, <1>9

\* A step that ingests a batch into the ledger of n.
LEMMA IngestKeepsReplicas ==
  ASSUME LedgerInv, NEW n \in Node, NEW carried, Shipped(block, carried),
         IngestMany(n, carried), UNCHANGED <<block, disk>>
  PROVE  Replicas'
<1> PICK order : ledger' = [ledger EXCEPT ![n] = Ingested(ledger[n], carried, order, schema[n])]
  BY DEF IngestMany
<1>1. Good(block, Ingested(ledger[n], carried, order, schema[n]))
  BY IngestedGood DEF LedgerInv, Replicas, Shipped, CarriedOK, Made
<1>2. ledger' \in [Node -> Replica] /\ \A m \in Node : Good(block, ledger'[m])
  BY <1>1 DEF LedgerInv, Replicas, Good
<1> QED BY <1>2 DEF LedgerInv, Replicas

\* What a replica ships when its rows can be deserialised.
LEMMA CarryShipped ==
  ASSUME NEW r, Good(block, r), NEW S \in SUBSET Stored(r), ~Unreadable(r, S)
  PROVE  Shipped(block, Carry(r, S))
  BY DEF Good, Replica, Form, Stored, Unreadable, Carry, Shipped

LEMMA BackPushTravels ==
  ASSUME NEW r, Good(block, r), NEW a \in Node, NEW b \in Node
  PROVE  \A m \in PushedBack(r, a, b) : Travels(block, m)
<1> DEFINE missing == BlocksSince(r, session[a][b].peerTips)
<1>1. missing \in SUBSET Stored(r)
  BY DEF BlocksSince
<1>2. CASE missing = {} \/ Unreadable(r, missing)
  BY <1>2 DEF PushedBack
<1>3. CASE ~(missing = {} \/ Unreadable(r, missing))
  <2> HIDE DEF missing
  <2>1. Travels(block, Push(b, Carry(r, missing)))
    BY <1>1, <1>3, CarryShipped DEF Travels, Push
  <2>2. PushedBack(r, a, b) = {Push(b, Carry(r, missing))}
    BY <1>3 DEF PushedBack, missing
  <2> QED BY <2>1, <2>2
<1> QED BY <1>2, <1>3

LEMMA FinishKeepsInv ==
  ASSUME LedgerInv, Replicas', UNCHANGED <<block, joined, schema, crashes, imports>>,
         NEW a \in Node, NEW b \in Node, NEW msgs, FinishSync(a, b, msgs)
  PROVE  LedgerInv'
<1>1. Good(block, ledger'[a])
  BY DEF Replicas
<1>2. Network'
  BY <1>1, BackPushTravels DEF FinishSync, LedgerInv, Network
<1>3. session' \in Sessions
  BY DEF FinishSync, LedgerInv, Frame, Sessions, Idle
<1> QED BY <1>2, <1>3 DEF LedgerInv, Frame

\* A step that leaves the replicas alone and sends at most one message m.
LEMMA SendKeepsNetwork ==
  ASSUME LedgerInv, UNCHANGED block, NEW m, Travels(block, m), net' \subseteq net \cup {m}
  PROVE  Network'
  BY DEF LedgerInv, Network

LEMMA StepKeepsInv ==
  ASSUME LedgerInv, [Next]_vars
  PROVE  LedgerInv'
<1> USE DEF LedgerInv
<1>1. ASSUME NEW n \in Node, NEW record \in Record, NEW connected \in SUBSET joined,
             CreateBlock(n, record, connected)
      PROVE  LedgerInv'
  <2>1. Good(block, ledger[n])
    BY DEF Replicas
  <2> QED BY <1>1, <2>1, CreationKeepsInv DEF CreateBlock
<1>2. ASSUME NEW n \in Node, NEW record \in Record, NEW connected \in SUBSET joined,
             EraseSubject(n, record, connected)
      PROVE  LedgerInv'
  <2> DEFINE s == ShredTargets(ledger[n], record)
  <2>1. Good(block, s) /\ s.tips = ledger[n].tips /\ Stored(s) = Stored(ledger[n])
    BY ShreddedGood DEF Replicas
  <2> HIDE DEF s
  <2>2. ledger' = [ledger EXCEPT ![n] = WithOwnBlock(s, Len(block) + 1)]
    BY <1>2 DEF EraseSubject, s
  <2> QED BY <1>2, <2>1, <2>2, CreationKeepsInv DEF EraseSubject
<1>3. ASSUME NEW n \in Node, InstallApp(n) PROVE LedgerInv'
  BY <1>3 DEF InstallApp, Replicas, Network, Frame
<1>4. ASSUME NEW m \in net, DeliverPush(m) PROVE LedgerInv'
  <2>1. m.to \in Node /\ Shipped(block, m.blocks)
    BY <1>4 DEF DeliverPush, Network, Travels
  <2>2. Replicas'
    BY <1>4, <2>1, IngestKeepsReplicas DEF DeliverPush
  <2> QED BY <1>4, <2>2 DEF DeliverPush, Network, Frame
<1>5. ASSUME NEW a \in Node, NEW b \in Node, Handshake(a, b) PROVE LedgerInv'
  <2>1. ledger[b].tips \subseteq BlockId \cup {Genesis}
    BY DEF Replicas, Replica
  <2>2. session' \in Sessions
    BY <1>5, <2>1 DEF Handshake, Frame, Sessions
  <2> QED BY <1>5, <2>2 DEF Handshake, Replicas, Network, Frame
<1>6. ASSUME NEW a \in Node, NEW b \in Node, PullFrom(a, b) PROVE LedgerInv'
  <2>1. ledger[a].tips \subseteq BlockId \cup {Genesis}
    BY DEF Replicas, Replica
  <2>2. Travels(block, Pull(a, b, ledger[a].tips))
    BY <2>1 DEF Travels, Pull
  <2>3. Network'
    BY <1>6, <2>2, SendKeepsNetwork DEF PullFrom
  <2>4. session' \in Sessions
    <3> DEFINE Session == [stage : {"idle", "shaken", "pulling"},
                           peerTips : SUBSET (BlockId \cup {Genesis})]
    <3>1. session[a][b] \in Session /\ session \in [Node -> [Node -> Session]]
      BY DEF Frame, Sessions
    <3>2. [session[a][b] EXCEPT !.stage = "pulling"] \in Session
      BY <3>1
    <3>3. session' = [session EXCEPT ![a] = [session[a] EXCEPT ![b] =
                        [session[a][b] EXCEPT !.stage = "pulling"]]]
      BY <1>6 DEF PullFrom
    <3> HIDE DEF Session
    <3>4. session' \in [Node -> [Node -> Session]]
      BY <3>1, <3>2, <3>3
    <3> QED BY <3>4 DEF Sessions, Session
  <2> QED BY <1>6, <2>3, <2>4 DEF PullFrom, Replicas, Frame
<1>7. ASSUME NEW m \in net, ServePull(m) PROVE LedgerInv'
  <2> DEFINE r == ledger[m.to]
             missing == BlocksSince(r, m.tips)
             carried == IF Unreadable(r, missing) THEN NoBlocks ELSE Carry(r, missing)
  <2>1. {m.from, m.to} \subseteq Node
    BY <1>7 DEF ServePull, Network, Travels
  <2>2. Good(block, r) /\ missing \in SUBSET Stored(r)
    BY <2>1 DEF Replicas, BlocksSince
  <2>3. Shipped(block, NoBlocks)
    BY DEF Shipped, NoBlocks
  <2>4. Shipped(block, carried)
    <3> HIDE DEF r, missing
    <3>1. CASE Unreadable(r, missing)
      BY <3>1, <2>3
    <3>2. CASE ~Unreadable(r, missing)
      BY <3>2, <2>2, CarryShipped
    <3> QED BY <3>1, <3>2
  <2>5. net' = (net \ {m}) \cup {Reply(m.to, m.from, carried)}
    BY <1>7 DEF ServePull
  <2> HIDE DEF carried
  <2>6. Travels(block, Reply(m.to, m.from, carried))
    BY <2>1, <2>4 DEF Travels, Reply
  <2>7. Network'
    BY <1>7, <2>5, <2>6 DEF ServePull, Network
  <2> QED BY <1>7, <2>7 DEF ServePull, Replicas, Frame
<1>8. ASSUME NEW m \in net, PullAnswered(m) PROVE LedgerInv'
  <2>1. {m.from, m.to} \subseteq Node /\ Shipped(block, m.blocks)
    BY <1>8 DEF PullAnswered, Network, Travels
  <2>2. Replicas'
    BY <1>8, <2>1, IngestKeepsReplicas DEF PullAnswered
  <2> QED BY <1>8, <2>1, <2>2, FinishKeepsInv DEF PullAnswered
<1>9. ASSUME NEW a \in Node, NEW b \in Node, PullTimeout(a, b) PROVE LedgerInv'
  <2>1. Replicas'
    BY <1>9 DEF PullTimeout, Replicas
  <2> QED BY <1>9, <2>1, FinishKeepsInv DEF PullTimeout
<1>10. ASSUME NEW n \in Node, NEW m \in Node, JoinNetwork(n, m) PROVE LedgerInv'
  <2>1. Travels(block, AskClone(n, m))
    BY DEF Travels, AskClone
  <2>2. Network'
    BY <1>10, <2>1, SendKeepsNetwork DEF JoinNetwork
  <2>3. imports' \in 0..MaxImport
    BY <1>10, BoundAssumption DEF JoinNetwork, Frame
  <2> QED BY <1>10, <2>2, <2>3 DEF JoinNetwork, Replicas, Frame
<1>11. ASSUME NEW n \in Node, NEW m \in Node, FullResync(n, m) PROVE LedgerInv'
  <2>1. Travels(block, AskAll(n, m))
    BY DEF Travels, AskAll
  <2>2. Network'
    BY <1>11, <2>1, SendKeepsNetwork DEF FullResync
  <2>3. imports' \in 0..MaxImport
    BY <1>11, BoundAssumption DEF FullResync, Frame
  <2> QED BY <1>11, <2>2, <2>3 DEF FullResync, Replicas, Frame
<1>12. ASSUME NEW m \in net, ServeAll(m) PROVE LedgerInv'
  <2> DEFINE r == ledger[m.to]
  <2>1. {m.from, m.to} \subseteq Node
    BY <1>12 DEF ServeAll, Network, Travels
  <2>2. Good(block, r)
    BY <2>1 DEF Replicas
  <2>3. ~Unreadable(r, Stored(r)) => Travels(block, All(m.to, m.from, Carry(r, Stored(r))))
    BY <2>1, <2>2, CarryShipped DEF Travels, All
  <2>4. Network'
    BY <1>12, <2>3 DEF ServeAll, Network
  <2> QED BY <1>12, <2>4 DEF ServeAll, Replicas, Frame
<1>13. ASSUME NEW m \in net, AllAnswered(m) PROVE LedgerInv'
  <2>1. {m.from, m.to} \subseteq Node /\ Shipped(block, m.blocks)
    BY <1>13 DEF AllAnswered, Network, Travels
  <2>2. Replicas'
    BY <1>13, <2>1, IngestKeepsReplicas DEF AllAnswered
  <2>3. Travels(block, AskClone(m.to, m.from))
    BY <2>1 DEF Travels, AskClone
  <2>4. Network'
    BY <1>13, <2>3, SendKeepsNetwork DEF AllAnswered
  <2> QED BY <1>13, <2>2, <2>4 DEF AllAnswered, Frame
<1>14. ASSUME NEW m \in net, ServeClone(m) PROVE LedgerInv'
  <2>1. {m.from, m.to} \subseteq Node
    BY <1>14 DEF ServeClone, Network, Travels
  <2>2. Good(block, ledger[m.to]) /\ schema[m.to] \subseteq Record
    BY <2>1 DEF Replicas, Frame
  <2>3. Travels(block, Bundle(m.to, m.from, ledger[m.to], schema[m.to]))
    BY <2>1, <2>2 DEF Travels, Bundle
  <2>4. Network'
    BY <1>14, <2>3, SendKeepsNetwork DEF ServeClone
  <2> QED BY <1>14, <2>4 DEF ServeClone, Replicas, Frame
<1>15. ASSUME NEW m \in net, ImportBundle(m) PROVE LedgerInv'
  <2>1. m.to \in Node /\ m.schema \subseteq Record /\ Good(block, m.replica)
    BY <1>15 DEF ImportBundle, Network, Travels
  <2>2. Good(block, Rebuilt(m.replica, m.schema)) /\ Good(block, EmptyReplica)
    BY <2>1, RebuiltGood, EmptyReplicaGood
  <2>3. Rebuilt(m.replica, m.schema) \in Replica /\ EmptyReplica \in Replica
    BY <2>2 DEF Good
  <2>4. Replicas'
    BY <1>15, <2>1, <2>2, <2>3 DEF ImportBundle, Replicas
  <2> QED BY <1>15, <2>1, <2>4 DEF ImportBundle, Network, Frame
<1>16. ASSUME NEW m \in net, Lose(m) PROVE LedgerInv'
  BY <1>16 DEF Lose, Replicas, Network, Frame
<1>17. ASSUME NEW n \in Node, Persist(n) PROVE LedgerInv'
  BY <1>17 DEF Persist, Replicas, Network, Frame
<1>18. ASSUME NEW n \in Node, Crash(n) PROVE LedgerInv'
  <2>1. Replicas'
    BY <1>18 DEF Crash, Replicas
  <2>2. session' \in Sessions
    BY <1>18 DEF Crash, Frame, Sessions, Idle
  <2>3. crashes' \in 0..MaxCrash
    BY <1>18, BoundAssumption DEF Crash, Frame
  <2> QED BY <1>18, <2>1, <2>2, <2>3 DEF Crash, Network, Frame
<1>19. CASE UNCHANGED vars
  BY <1>19 DEF vars, Replicas, Network, Frame
<1> QED
  BY <1>1, <1>2, <1>3, <1>4, <1>5, <1>6, <1>7, <1>8, <1>9, <1>10, <1>11, <1>12, <1>13,
     <1>14, <1>15, <1>16, <1>17, <1>18, <1>19 DEF Next

\* LedgerInv holds of every state of the ledger: creation (block_factory.js),
\* ingestion and its tips (dag_tips.js), the protocol, files and crashes keep it.
THEOREM InvHolds == Spec => []LedgerInv
<1>1. Init => LedgerInv
  BY InvInit
<1>2. LedgerInv /\ [Next]_vars => LedgerInv'
  BY StepKeepsInv
<1> QED BY <1>1, <1>2, PTL DEF Spec

-----------------------------------------------------------------------------
\* On every node, in memory, on disk and in transit, only blocks that were made
\* are stored and named, and every variable has its type.
THEOREM TypeCorrect == Spec => []TypeOK
<1>1. LedgerInv => TypeOK
  <2> SUFFICES ASSUME LedgerInv PROVE TypeOK
    OBVIOUS
  <2>1. /\ block \in Seq(Content) /\ Len(block) <= MaxBlock
        /\ \A x \in Made : /\ Parents(x) \cup Past(x) \subseteq 0..(x - 1)
                           /\ Parents(x) \ {Genesis} \subseteq Past(x)
                           /\ \A y \in Past(x) : Past(y) \subseteq Past(x)
    BY DEF LedgerInv, History, Made, Parents, Past
  <2>2. /\ ledger \in [Node -> Replica] /\ \A n \in Node : Stored(ledger[n]) \subseteq Made
        /\ disk   \in [Node -> Replica] /\ \A n \in Node : Stored(disk[n])   \subseteq Made
    BY DEF LedgerInv, Replicas, Good, Made
  <2>3. \A m \in net : MessageOK(m)
    BY DEF LedgerInv, Network, Travels, Shipped, Good, MessageOK, CarriedOK, Made
  <2> QED BY <2>1, <2>2, <2>3 DEF LedgerInv, Frame, Sessions, TypeOK
<1> QED BY <1>1, InvHolds, PTL

\* updateTips keeps dag_tips a cover of event_log on every node, whatever order
\* blocks are ingested in, across crashes, clones and full resynchronisations.
THEOREM TipsAlwaysCover == Spec => []TipsCoverLog
<1>1. LedgerInv => TipsCoverLog
  BY DEF LedgerInv, Replicas, Network, Travels, Good, TipsCoverLog, Covered, Past
<1> QED BY <1>1, InvHolds, PTL

\* createBlock, which names its node's tips only, makes a descendant of all that
\* its author stores: the log is a causal history.
THEOREM BlocksDescend == Spec => []AuthorsSawPast
<1>1. LedgerInv => AuthorsSawPast
  BY DEF LedgerInv, History, AuthorsSawPast, Made, Past
<1> QED BY <1>1, InvHolds, PTL

-----------------------------------------------------------------------------
(***************************************************************************)
(* Rows only become tombstones, unless the replica is replaced.            *)
(***************************************************************************)
Kept(r, s) ==
  \A x \in BlockId : r.row[x] = "absent" \/ s.row[x] \in {r.row[x], "shredded"}

LEMMA ShreddedKept ==
  ASSUME NEW r \in Replica, NEW record
  PROVE  Kept(r, ShredTargets(r, record))
  BY DEF Kept, ShredTargets, Replica

LEMMA OwnBlockKept ==
  ASSUME NEW b, History(b), NEW r, Good(b, r), NEW s \in Replica, Kept(r, s)
  PROVE  Kept(r, WithOwnBlock(s, Len(b) + 1))
<1>1. Len(b) + 1 \notin Stored(r)
  BY HistoryDomain DEF Good
<1>2. ASSUME NEW x \in BlockId, r.row[x] # "absent"
      PROVE  WithOwnBlock(s, Len(b) + 1).row[x] = s.row[x]
  BY <1>1, <1>2 DEF WithOwnBlock, Replica, Stored
<1> QED BY <1>2 DEF Kept

LEMMA IngestedKept ==
  ASSUME NEW r, NEW carried, NEW order, NEW tables
  PROVE  Kept(r, Ingested(r, carried, order, tables))
  BY DEF Kept, Ingested

LEMMA IngestKeeps ==
  ASSUME LedgerInv, NEW n \in Node, NEW carried, IngestMany(n, carried)
  PROVE  \A m \in Node : Kept(ledger[m], ledger'[m])
<1> PICK order : ledger' = [ledger EXCEPT ![n] = Ingested(ledger[n], carried, order, schema[n])]
  BY DEF IngestMany
<1>1. Kept(ledger[n], Ingested(ledger[n], carried, order, schema[n]))
  BY IngestedKept
<1>2. ASSUME NEW r PROVE Kept(r, r)
  BY DEF Kept
<1> QED BY <1>1, <1>2 DEF LedgerInv, Replicas

\* No step takes a stored row away or changes it but into its tombstone, except
\* a crash and the import of a bundle, which replace the replica of one node.
LEMMA StepKeepsRows ==
  ASSUME LedgerInv, [Next]_vars
  PROVE  \A n \in Node : Replaced(n) \/ Kept(ledger[n], ledger'[n])
<1> DEFINE Goal == \A n \in Node : Replaced(n) \/ Kept(ledger[n], ledger'[n])
<1> USE DEF LedgerInv, Replicas
<1>0. ASSUME NEW r PROVE Kept(r, r)
  BY DEF Kept
<1>1. ASSUME NEW n \in Node, NEW record \in Record, NEW connected \in SUBSET joined,
             CreateBlock(n, record, connected)
      PROVE  Goal
  <2>1. Kept(ledger[n], WithOwnBlock(ledger[n], Len(block) + 1))
    BY <1>0, OwnBlockKept
  <2>2. ledger' = [ledger EXCEPT ![n] = WithOwnBlock(ledger[n], Len(block) + 1)]
    BY <1>1 DEF CreateBlock
  <2> QED BY <1>0, <2>1, <2>2
<1>2. ASSUME NEW n \in Node, NEW record \in Record, NEW connected \in SUBSET joined,
             EraseSubject(n, record, connected)
      PROVE  Goal
  <2> DEFINE s == ShredTargets(ledger[n], record)
  <2>1. Good(block, s) /\ Kept(ledger[n], s)
    BY ShreddedGood, ShreddedKept
  <2>2. ledger' = [ledger EXCEPT ![n] = WithOwnBlock(s, Len(block) + 1)]
    BY <1>2 DEF EraseSubject
  <2> HIDE DEF s
  <2>3. Kept(ledger[n], WithOwnBlock(s, Len(block) + 1))
    BY <2>1, OwnBlockKept DEF Good
  <2> QED BY <1>0, <2>2, <2>3
<1>3. ASSUME NEW m \in net, DeliverPush(m) \/ PullAnswered(m) \/ AllAnswered(m) PROVE Goal
  <2>1. m.to \in Node /\ IngestMany(m.to, m.blocks)
    BY <1>3 DEF DeliverPush, PullAnswered, AllAnswered, Network, Travels
  <2> QED BY <2>1, IngestKeeps
<1>4. ASSUME NEW m \in net, ImportBundle(m) PROVE Goal
  BY <1>0, <1>4 DEF ImportBundle, Replaced
<1>5. ASSUME NEW n \in Node, Crash(n) PROVE Goal
  BY <1>0, <1>5 DEF Crash, Replaced
<1>6. CASE UNCHANGED ledger
  BY <1>0, <1>6
<1> QED
  BY <1>1, <1>2, <1>3, <1>4, <1>5, <1>6
     DEF Next, vars, InstallApp, Handshake, PullFrom, ServePull, PullTimeout, JoinNetwork,
         FullResync, ServeAll, ServeClone, Lose, Persist

\* The log is append-only: an echo, a late push or an answer in any order never
\* removes a stored row and never brings back a payload that was erased.
THEOREM LogOnlyGrows == Spec => LogAppendOnly
<1>1. LedgerInv /\ [Next]_vars
        => [\A n \in Node, x \in BlockId :
              \/ Replaced(n)
              \/ ledger[n].row[x] = "absent"
              \/ ledger'[n].row[x] \in {ledger[n].row[x], "shredded"}]_vars
  BY StepKeepsRows DEF Kept
<1> QED BY <1>1, InvHolds, PTL DEF Spec, LogAppendOnly

-----------------------------------------------------------------------------
(***************************************************************************)
(* The refinement: the replicas are replicas of one causal history.        *)
(***************************************************************************)
PastOf(b)  == [i \in DOMAIN b |-> b[i].past]
Known      == [n \in Node |-> Stored(ledger[n])]
Saved      == [n \in Node |-> Stored(disk[n])]
Bundles(S) == {m \in S : m.kind = "bundle"}
Offered    == {Stored(m.replica) : m \in Bundles(net)}

CausalStep == [Causal!Next]_(Causal!vars)

LEMMA PastOfSeq ==
  ASSUME NEW b, History(b)
  PROVE  PastOf(b) \in Seq(SUBSET BlockId) /\ Len(PastOf(b)) = Len(b)
<1>1. DOMAIN b = 1..Len(b) /\ Len(b) \in Nat /\ \A x \in DOMAIN b : b[x] \in Content
  BY HistoryDomain
<1>2. \A x \in DOMAIN b : b[x].past \in SUBSET BlockId
  BY <1>1 DEF Content
<1>3. PastOf(b) \in [1..Len(b) -> SUBSET BlockId]
  BY <1>1, <1>2 DEF PastOf
<1> QED BY <1>1, <1>3

LEMMA PastOfAppend ==
  ASSUME NEW b, History(b), NEW c \in Content, History(Append(b, c))
  PROVE  PastOf(Append(b, c)) = Append(PastOf(b), c.past)
<1> DEFINE a == Append(b, c)
           p == PastOf(b)
           q == Append(p, c.past)
<1>1. p \in Seq(SUBSET BlockId) /\ Len(p) = Len(b)
      /\ PastOf(a) \in Seq(SUBSET BlockId) /\ Len(PastOf(a)) = Len(a)
  BY PastOfSeq
<1>2. /\ Len(a) = Len(b) + 1 /\ DOMAIN a = DOMAIN b \cup {Len(b) + 1} /\ a[Len(b) + 1] = c
      /\ \A x \in DOMAIN b : a[x] = b[x]
  BY AppendFacts
<1>3. DOMAIN b = 1..Len(b) /\ Len(b) \in Nat
  BY HistoryDomain
<1>4. c.past \in SUBSET BlockId
  BY DEF Content
<1>5. \A x \in DOMAIN b : p[x] = b[x].past
  BY DEF PastOf
<1>6. \A x \in DOMAIN a : PastOf(a)[x] = a[x].past
  BY DEF PastOf
<1> HIDE DEF a, p
<1>7. q \in Seq(SUBSET BlockId) /\ Len(q) = Len(b) + 1 /\ q[Len(b) + 1] = c.past
      /\ \A x \in 1..Len(b) : q[x] = p[x]
  BY <1>1, <1>3, <1>4
<1> HIDE DEF q
<1>8. \A x \in 1..(Len(b) + 1) : PastOf(a)[x] = q[x]
  BY <1>2, <1>3, <1>5, <1>6, <1>7
<1>9. PastOf(a) = q
  BY <1>1, <1>2, <1>3, <1>7, <1>8, SeqEqual
<1> QED BY <1>9 DEF a, p, q

LEMMA BundlesGrow ==
  ASSUME NEW S, NEW m, m.kind # "bundle"
  PROVE  Bundles(S \cup {m}) = Bundles(S)
  BY DEF Bundles

LEMMA CausalInit == Init => Causal!Init
<1> SUFFICES ASSUME Init PROVE Causal!Init
  OBVIOUS
<1>1. block = <<>> /\ DOMAIN block = {} /\ net = {}
  BY DEF Init
<1>2. Stored(EmptyReplica) = {}
  BY DEF EmptyReplica, Stored
<1>3. [i \in DOMAIN block |-> block[i].past] = <<>>
  BY <1>1
<1>4. \A n \in Node : Stored(ledger[n]) = {} /\ Stored(disk[n]) = {}
  BY <1>2 DEF Init
<1> QED BY <1>1, <1>3, <1>4 DEF Causal!Init

\* Nothing that the abstraction shows has moved, but for bundles that are gone.
LEMMA CausalStutter ==
  ASSUME UNCHANGED <<block, disk>>, Bundles(net') \subseteq Bundles(net),
         \A n \in Node : Stored(ledger'[n]) = Stored(ledger[n])
  PROVE  CausalStep
<1>1. Known' = Known /\ Saved' = Saved /\ PastOf(block)' = PastOf(block)
  BY DEF Known, Saved, PastOf
<1>2. Offered' \in SUBSET Offered
  BY DEF Offered
<1> QED
  BY <1>1, <1>2 DEF CausalStep, Causal!Next, Causal!Withdraw, PastOf, Known, Saved, Offered, Bundles

LEMMA CausalMake ==
  ASSUME LedgerInv, LedgerInv', Len(block) < MaxBlock,
         NEW n \in Node, NEW type \in {"MUTATION", "SHRED"}, NEW record \in Record,
         NEW s, Good(block, s), s.tips = ledger[n].tips, Stored(s) = Stored(ledger[n]),
         NEW connected \in SUBSET joined,
         block'  = Append(block, NewBlock(n, type, record)),
         ledger' = [ledger EXCEPT ![n] = WithOwnBlock(s, Len(block) + 1)],
         LivePush(n, Len(block) + 1, connected),
         UNCHANGED disk
  PROVE  CausalStep
<1> DEFINE c == On(block, s, n, type, record)
           x == Len(block) + 1
<1>1. History(block) /\ History(block') /\ Good(block, ledger[n]) /\ ledger \in [Node -> Replica]
  BY DEF LedgerInv, Replicas
<1>2. NewBlock(n, type, record) = c
  BY DEF NewBlock, On, Past
<1>3. /\ c \in Content /\ c.past \subseteq DOMAIN block
      /\ c.seen \subseteq c.past /\ c.seen = Stored(s)
      /\ \A y \in c.past : block[y].past \subseteq c.past
  <2>1. c.seen = Stored(s)
    BY DEF On
  <2> QED BY <1>1, <2>1, NewBlockOn
<1> HIDE DEF c
<1>4. PastOf(block') = Append(PastOf(block), c.past)
  BY <1>1, <1>2, <1>3, PastOfAppend
<1>5. Len(PastOf(block)) = Len(block) /\ DOMAIN block = 1..Len(block)
  BY <1>1, PastOfSeq, HistoryDomain
<1>6. c.past \in SUBSET (1..Len(PastOf(block))) /\ Known[n] \subseteq c.past
  BY <1>3, <1>5 DEF Known
<1>7. \A y \in c.past : PastOf(block)[y] \subseteq c.past
  BY <1>3 DEF PastOf
<1>8. Stored(WithOwnBlock(s, x)) = Stored(s) \cup {x}
  <2>1. x \in BlockId
    BY <1>1, HistoryDomain, BoundAssumption DEF BlockId
  <2> QED BY <2>1 DEF WithOwnBlock, Stored, Good, Replica
<1>9. Known' = [Known EXCEPT ![n] = @ \cup {Len(PastOf(block)) + 1}]
  BY <1>1, <1>5, <1>8 DEF Known
<1>10. Saved' = Saved
  BY DEF Saved
<1>11. Bundles(net') = Bundles(net)
  BY DEF LivePush, Bundles, Push
<1>12. Offered' = Offered
  BY <1>11 DEF Offered
<1>13. Causal!Make(n)
  BY <1>4, <1>6, <1>7, <1>9, <1>10, <1>12
     DEF Causal!Make, Causal!Made, PastOf, Known, Saved, Offered, Bundles
<1> QED BY <1>13 DEF CausalStep, Causal!Next

LEMMA CausalLearn ==
  ASSUME LedgerInv, NEW n \in Node, NEW carried, Shipped(block, carried),
         IngestMany(n, carried), UNCHANGED <<block, disk>>, Bundles(net') = Bundles(net)
  PROVE  CausalStep
<1> PICK order : ledger' = [ledger EXCEPT ![n] = Ingested(ledger[n], carried, order, schema[n])]
  BY DEF IngestMany
<1> DEFINE found == {x \in DOMAIN carried : ledger[n].row[x] = "absent"}
           s == Ingested(ledger[n], carried, order, schema[n])
<1>1. ledger \in [Node -> Replica] /\ DOMAIN block \subseteq BlockId /\ History(block)
  BY HistoryDomain DEF LedgerInv, Replicas
<1>2. Stored(s) = Stored(ledger[n]) \cup found
  <2>1. CASE DOMAIN carried = {}
    BY <2>1 DEF Ingested
  <2>2. CASE DOMAIN carried # {}
    BY <2>2, <1>1 DEF Ingested, Stored, Shipped
  <2> QED BY <2>1, <2>2
<1> HIDE DEF s
<1>3. Known' = [Known EXCEPT ![n] = @ \cup found]
  BY <1>1, <1>2 DEF Known, s
<1>4. found \in SUBSET (1..Len(PastOf(block)))
  BY <1>1, PastOfSeq, HistoryDomain DEF Shipped
<1>5. Saved' = Saved /\ Offered' = Offered /\ PastOf(block)' = PastOf(block)
  BY DEF Saved, Offered, PastOf
<1> HIDE DEF found
<1>6. Causal!Learn(n)
  BY <1>3, <1>4, <1>5 DEF Causal!Learn, Causal!Made, PastOf, Known, Saved, Offered, Bundles
<1> QED BY <1>6 DEF CausalStep, Causal!Next

LEMMA PushedBackBundles ==
  ASSUME NEW r, NEW a, NEW b, NEW S
  PROVE  Bundles(S \cup PushedBack(r, a, b)) = Bundles(S)
  BY DEF Bundles, PushedBack, Push

LEMMA StepIsCausal ==
  ASSUME LedgerInv, LedgerInv', [Next]_vars
  PROVE  CausalStep
<1> USE DEF LedgerInv, Replicas
<1>1. ASSUME NEW n \in Node, NEW record \in Record, NEW connected \in SUBSET joined,
             CreateBlock(n, record, connected)
      PROVE  CausalStep
  BY <1>1, CausalMake DEF CreateBlock
<1>2. ASSUME NEW n \in Node, NEW record \in Record, NEW connected \in SUBSET joined,
             EraseSubject(n, record, connected)
      PROVE  CausalStep
  <2> DEFINE s == ShredTargets(ledger[n], record)
  <2>1. Good(block, s) /\ s.tips = ledger[n].tips /\ Stored(s) = Stored(ledger[n])
    BY ShreddedGood
  <2> HIDE DEF s
  <2>2. ledger' = [ledger EXCEPT ![n] = WithOwnBlock(s, Len(block) + 1)]
    BY <1>2 DEF EraseSubject, s
  <2> QED BY <1>2, <2>1, <2>2, CausalMake DEF EraseSubject
<1>3. ASSUME NEW m \in net, DeliverPush(m) PROVE CausalStep
  <2>1. m.to \in Node /\ Shipped(block, m.blocks) /\ m.kind = "push"
    BY <1>3 DEF DeliverPush, Network, Travels
  <2>2. Bundles(net') = Bundles(net)
    BY <1>3, <2>1 DEF DeliverPush, Bundles
  <2> QED BY <1>3, <2>1, <2>2, CausalLearn DEF DeliverPush
<1>4. ASSUME NEW m \in net, PullAnswered(m) PROVE CausalStep
  <2>1. m.to \in Node /\ Shipped(block, m.blocks) /\ m.kind = "reply"
    BY <1>4 DEF PullAnswered, Network, Travels
  <2>2. net' = (net \ {m}) \cup PushedBack(ledger'[m.to], m.to, m.from)
    BY <1>4 DEF PullAnswered, FinishSync
  <2>3. Bundles(net \ {m}) = Bundles(net)
    BY <2>1 DEF Bundles
  <2>4. Bundles(net') = Bundles(net)
    BY <2>2, <2>3, PushedBackBundles
  <2> QED BY <1>4, <2>1, <2>4, CausalLearn DEF PullAnswered
<1>5. ASSUME NEW m \in net, AllAnswered(m) PROVE CausalStep
  <2>1. m.to \in Node /\ Shipped(block, m.blocks) /\ m.kind = "all"
    BY <1>5 DEF AllAnswered, Network, Travels
  <2>2. Bundles(net') = Bundles(net)
    BY <1>5, <2>1 DEF AllAnswered, Bundles, AskClone
  <2> QED BY <1>5, <2>1, <2>2, CausalLearn DEF AllAnswered
<1>6. ASSUME NEW a \in Node, NEW b \in Node, PullTimeout(a, b) PROVE CausalStep
  <2> DEFINE S == {m \in net : \/ m.kind = "pull"  /\ m.from = a /\ m.to = b
                               \/ m.kind = "reply" /\ m.to = a /\ m.from = b}
  <2>1. net' = (net \ S) \cup PushedBack(ledger'[a], a, b)
    BY <1>6 DEF PullTimeout, FinishSync
  <2>2. Bundles(net \ S) \subseteq Bundles(net)
    BY DEF Bundles
  <2> HIDE DEF S
  <2>3. Bundles(net') \subseteq Bundles(net)
    BY <2>1, <2>2, PushedBackBundles
  <2> QED BY <1>6, <2>3, CausalStutter DEF PullTimeout
<1>7. ASSUME NEW m \in net, ServeClone(m) PROVE CausalStep
  <2>1. m.to \in Node /\ m.kind = "clone"
    BY <1>7 DEF ServeClone, Network, Travels
  <2>2. Bundles(net') = Bundles(net) \cup {Bundle(m.to, m.from, ledger[m.to], schema[m.to])}
    BY <1>7, <2>1 DEF ServeClone, Bundles, Bundle
  <2>3. Bundle(m.to, m.from, ledger[m.to], schema[m.to]).replica = ledger[m.to]
    BY DEF Bundle
  <2>4. Offered' = Offered \cup {Known[m.to]}
    BY <2>1, <2>2, <2>3, <1>7 DEF Offered, Known, ServeClone
  <2>5. Known' = Known /\ Saved' = Saved /\ PastOf(block)' = PastOf(block)
    BY <1>7 DEF ServeClone, Known, Saved, PastOf
  <2>6. Causal!Offer(m.to)
    BY <2>4, <2>5 DEF Causal!Offer, PastOf, Known, Saved, Offered, Bundles
  <2> QED BY <2>1, <2>6 DEF CausalStep, Causal!Next
<1>8. ASSUME NEW m \in net, ImportBundle(m) PROVE CausalStep
  <2>1. m.to \in Node /\ m \in Bundles(net) /\ Good(block, m.replica)
    BY <1>8 DEF ImportBundle, Network, Travels, Bundles
  <2>2. Stored(Rebuilt(m.replica, m.schema)) = Stored(m.replica) /\ Stored(EmptyReplica) = {}
    BY <2>1 DEF Rebuilt, EmptyReplica, Stored, Good, Replica
  <2>3. Known' = [Known EXCEPT ![m.to] = Stored(m.replica)] /\ Saved' = [Saved EXCEPT ![m.to] = {}]
    BY <1>8, <2>1, <2>2 DEF ImportBundle, Known, Saved
  <2>4. Stored(m.replica) \in Offered /\ Offered' \in SUBSET Offered
    BY <1>8, <2>1 DEF ImportBundle, Offered, Bundles
  <2>5. PastOf(block)' = PastOf(block)
    BY <1>8 DEF ImportBundle, PastOf
  <2>6. Causal!Adopt(m.to)
    BY <2>3, <2>4, <2>5
       DEF Causal!Adopt, Causal!Withdraw, PastOf, Known, Saved, Offered, Bundles
  <2> QED BY <2>1, <2>6 DEF CausalStep, Causal!Next
<1>9. ASSUME NEW n \in Node, Persist(n) PROVE CausalStep
  <2>1. Saved' = [Saved EXCEPT ![n] = Known[n]]
    BY <1>9 DEF Persist, Known, Saved
  <2>2. Known' = Known /\ Offered' = Offered /\ PastOf(block)' = PastOf(block)
    BY <1>9 DEF Persist, Known, Offered, PastOf
  <2>3. Causal!Save(n)
    BY <2>1, <2>2 DEF Causal!Save, PastOf, Known, Saved, Offered, Bundles
  <2> QED BY <2>3 DEF CausalStep, Causal!Next
<1>10. ASSUME NEW n \in Node, Crash(n) PROVE CausalStep
  <2>1. Known' = [Known EXCEPT ![n] = Saved[n]]
    BY <1>10 DEF Crash, Known, Saved
  <2>2. Offered' \in SUBSET Offered
    BY <1>10 DEF Crash, Offered, Bundles
  <2>3. Saved' = Saved /\ PastOf(block)' = PastOf(block)
    BY <1>10 DEF Crash, Saved, PastOf
  <2>4. Causal!Restore(n)
    BY <2>1, <2>2, <2>3
       DEF Causal!Restore, Causal!Withdraw, PastOf, Known, Saved, Offered, Bundles
  <2> QED BY <2>4 DEF CausalStep, Causal!Next
<1>11. ASSUME NEW m \in net, ServePull(m) \/ ServeAll(m) \/ Lose(m) PROVE CausalStep
  <2>1. Bundles(net') \subseteq Bundles(net)
    BY <1>11 DEF ServePull, ServeAll, Lose, Bundles, Reply, All
  <2> QED BY <1>11, <2>1, CausalStutter DEF ServePull, ServeAll, Lose
<1>12. ASSUME NEW a \in Node, NEW b \in Node,
              \/ Handshake(a, b) \/ PullFrom(a, b) \/ JoinNetwork(a, b) \/ FullResync(a, b)
       PROVE  CausalStep
  <2>1. Bundles(net') \subseteq Bundles(net)
    BY <1>12 DEF Handshake, PullFrom, JoinNetwork, FullResync, Bundles, Pull, AskClone, AskAll
  <2> QED BY <1>12, <2>1, CausalStutter DEF Handshake, PullFrom, JoinNetwork, FullResync
<1>13. ASSUME NEW n \in Node, InstallApp(n) PROVE CausalStep
  BY <1>13, CausalStutter DEF InstallApp
<1>14. CASE UNCHANGED vars
  BY <1>14, CausalStutter DEF vars
<1> QED
  BY <1>1, <1>2, <1>3, <1>4, <1>5, <1>6, <1>7, <1>8, <1>9, <1>10, <1>11, <1>12, <1>13, <1>14
     DEF Next

\* Whatever is lost, reordered, cloned or crashed, the nodes are replicas of one
\* causal history: each step of the ledger is a step of CausalLedger, or none.
THEOREM LedgerIsCausal == Spec => ImplementsCausalLedger
<1>1. Init => Causal!Init
  BY CausalInit
<1>2. LedgerInv /\ LedgerInv' /\ [Next]_vars => [Causal!Next]_(Causal!vars)
  BY StepIsCausal DEF CausalStep
<1> QED BY <1>1, <1>2, InvHolds, PTL DEF Spec, Causal!Spec, ImplementsCausalLedger

-----------------------------------------------------------------------------
(***************************************************************************)
(* projector.drain leaves no block of a core table behind.  CoreInv is     *)
(* what is inductive: a row that is still encrypted is applied (its author *)
(* changed the table first), a block that waits belongs to an application  *)
(* or misses a parent, and no replica ever lacks the core tables.          *)
(***************************************************************************)
CoreTables == Record \ AppRecord

Settled(b, r) ==
  \A x \in Stored(r) :
     \/ x \in r.applied
     \/ /\ r.row[x] # "cipher"
        /\ \/ b[x].record \in AppRecord
           \/ \E p \in b[x].parents \ {Genesis} : p \notin Stored(r)

CoreInv ==
  /\ \A n \in Node : /\ Settled(block, ledger[n]) /\ Settled(block, disk[n])
                     /\ CoreTables \subseteq schema[n]
  /\ \A m \in net : m.kind = "bundle" =>
        Settled(block, m.replica) /\ CoreTables \subseteq m.schema

LEMMA OwnBlockSettled ==
  ASSUME NEW b, History(b), Len(b) < MaxBlock, NEW r, Good(b, r), Settled(b, r), NEW c \in Content
  PROVE  Settled(Append(b, c), WithOwnBlock(r, Len(b) + 1))
<1> DEFINE x == Len(b) + 1
           a == Append(b, c)
           s == WithOwnBlock(r, x)
<1>1. x \in BlockId /\ x \notin DOMAIN b
  BY HistoryDomain, BoundAssumption DEF BlockId
<1>2. /\ Stored(s) = Stored(r) \cup {x} /\ s.applied = r.applied \cup {x}
      /\ \A y \in Stored(r) : s.row[y] = r.row[y]
  BY <1>1 DEF WithOwnBlock, Stored, Good, Replica
<1>3. \A y \in DOMAIN b : a[y] = b[y]
  BY AppendFacts
<1>4. ASSUME NEW y \in Stored(r) PROVE y \in DOMAIN b /\ x \notin b[y].parents
  <2>1. y \in DOMAIN b
    BY DEF Good
  <2>2. b[y].parents \subseteq 0..(y - 1) /\ y \in 1..Len(b) /\ Len(b) \in Nat
    BY <2>1, HistoryDomain DEF History
  <2> QED BY <2>1, <2>2
<1> HIDE DEF a, s, x
<1>5. Settled(a, s)
  BY <1>2, <1>3, <1>4 DEF Settled
<1> QED BY <1>5 DEF a, s, x

LEMMA LongerSettled ==
  ASSUME NEW b, History(b), NEW r, Good(b, r), Settled(b, r), NEW c \in Content
  PROVE  Settled(Append(b, c), r)
  BY AppendFacts DEF Settled, Good

LEMMA ShreddedSettled ==
  ASSUME NEW b, NEW r, Good(b, r), Settled(b, r), NEW record
  PROVE  Settled(b, ShredTargets(r, record))
<1>1. Stored(ShredTargets(r, record)) = Stored(r)
  BY ShreddedGood
<1>2. /\ ShredTargets(r, record).applied = r.applied
      /\ \A x \in BlockId : ShredTargets(r, record).row[x] \in {r.row[x], "shredded"}
  BY DEF ShredTargets, Good, Replica
<1> QED BY <1>1, <1>2 DEF Settled, Stored

LEMMA IngestedSettled ==
  ASSUME History(block), NEW r, Good(block, r), Settled(block, r), NEW c, Shipped(block, c),
         NEW order, NEW tables, CoreTables \subseteq tables
  PROVE  Settled(block, Ingested(r, c, order, tables))
<1> DEFINE new == {x \in DOMAIN c : r.row[x] = "absent"}
           row == [x \in BlockId |-> IF x \in new THEN c[x] ELSE r.row[x]]
           s == Ingested(r, c, order, tables)
<1>1. CASE DOMAIN c = {}
  BY <1>1 DEF Ingested
<1>2. CASE DOMAIN c # {}
  <2>1. s.row = row /\ s.applied = r.applied \cup Drainable(row, r.applied, tables)
    BY <1>2 DEF Ingested
  <2>2. new \subseteq DOMAIN block /\ \A x \in new : c[x] \in {"plain", "shredded"}
    BY DEF Shipped
  <2> HIDE DEF new, s
  <2>3. ASSUME NEW x \in Stored(s), x \notin s.applied
        PROVE  /\ s.row[x] # "cipher"
               /\ \/ block[x].record \in AppRecord
                  \/ \E p \in block[x].parents \ {Genesis} : p \notin Stored(s)
    <3>1. x \in BlockId /\ row[x] # "absent" /\ x \notin r.applied
      BY <2>1, <2>3 DEF Stored
    <3>2. row[x] # "cipher"
      <4>1. CASE x \in new
        BY <4>1, <3>1, <2>2
      <4>2. CASE x \notin new
        BY <4>2, <3>1 DEF Settled, Stored
      <4> QED BY <4>1, <4>2
    <3>3. x \in DOMAIN block /\ block[x].record \in Record
      <4>1. x \in DOMAIN block
        BY <3>1, <2>2 DEF Good, Stored
      <4> QED BY <4>1, HistoryDomain DEF Content
    <3>4. \/ ~Appliable(row[x], x, tables)
          \/ \E p \in block[x].parents : p # Genesis /\ row[p] = "absent"
      BY <2>1, <2>3, <3>1, <3>2 DEF Drainable, Parents
    <3>5. ~Appliable(row[x], x, tables) => block[x].record \in AppRecord
      BY <3>3 DEF Appliable, CoreTables
    <3> HIDE DEF row
    <3> QED BY <2>1, <3>2, <3>4, <3>5 DEF Stored
  <2>4. Settled(block, s)
    BY <2>3 DEF Settled
  <2> QED BY <2>4 DEF s
<1> QED BY <1>1, <1>2

LEMMA RebuiltSettled ==
  ASSUME History(block), NEW r, Good(block, r), Settled(block, r), NEW tables, CoreTables \subseteq tables
  PROVE  Settled(block, Rebuilt(r, tables))
<1> DEFINE s == Rebuilt(r, tables)
<1>1. CASE Unreadable(r, Stored(r))
  BY <1>1 DEF Rebuilt
<1>2. CASE ~Unreadable(r, Stored(r))
  <2>1. s.row = r.row /\ s.applied = {x \in Stored(r) : Appliable(r.row[x], x, tables)}
    BY <1>2 DEF Rebuilt, Good, Replica
  <2>2. Stored(s) = Stored(r)
    BY <2>1 DEF Stored
  <2>3. ASSUME NEW x \in Stored(r) PROVE r.row[x] # "cipher" /\ block[x].record \in Record
    <3>1. x \in DOMAIN block
      BY DEF Good
    <3> QED BY <3>1, <1>2, HistoryDomain DEF Unreadable, Content
  <2> HIDE DEF s
  <2>4. Settled(block, s)
    BY <2>1, <2>2, <2>3 DEF Settled, Appliable, CoreTables
  <2> QED BY <2>4 DEF s
<1> QED BY <1>1, <1>2

LEMMA EmptySettled ==
  ASSUME NEW b
  PROVE  Settled(b, EmptyReplica)
  BY DEF Settled, EmptyReplica, Stored

LEMMA CreationKeepsCore ==
  ASSUME LedgerInv, CoreInv, Len(block) < MaxBlock,
         NEW n \in Node, NEW type \in {"MUTATION", "SHRED"}, NEW record \in Record,
         NEW s, Good(block, s), s.tips = ledger[n].tips, Stored(s) = Stored(ledger[n]),
         Settled(block, s),
         NEW connected \in SUBSET joined,
         block'  = Append(block, NewBlock(n, type, record)),
         ledger' = [ledger EXCEPT ![n] = WithOwnBlock(s, Len(block) + 1)],
         LivePush(n, Len(block) + 1, connected),
         UNCHANGED <<disk, schema>>
  PROVE  CoreInv'
<1> DEFINE c == On(block, s, n, type, record)
<1> USE DEF LedgerInv, Replicas
<1>1. NewBlock(n, type, record) = c
  BY DEF NewBlock, On, Past
<1>2. c \in Content
  BY NewBlockOn
<1> HIDE DEF c
<1>3. Settled(block', WithOwnBlock(s, Len(block) + 1))
  BY <1>1, <1>2, OwnBlockSettled
<1>4. ASSUME NEW r, Good(block, r), Settled(block, r) PROVE Settled(block', r)
  BY <1>1, <1>2, <1>4, LongerSettled
<1>5. ASSUME NEW m \in Node
      PROVE  Settled(block', ledger'[m]) /\ Settled(block', disk'[m]) /\ CoreTables \subseteq schema'[m]
  BY <1>3, <1>4 DEF CoreInv
<1>6. ASSUME NEW m \in net', m.kind = "bundle"
      PROVE  Settled(block', m.replica) /\ CoreTables \subseteq m.schema
  <2>1. m \in net
    BY <1>6 DEF LivePush, Push
  <2>2. Good(block, m.replica)
    BY <2>1, <1>6 DEF Network, Travels
  <2> QED BY <2>1, <2>2, <1>4, <1>6 DEF CoreInv
<1> QED BY <1>5, <1>6 DEF CoreInv

LEMMA IngestKeepsCore ==
  ASSUME LedgerInv, CoreInv, NEW n \in Node, NEW carried, Shipped(block, carried),
         IngestMany(n, carried), UNCHANGED <<block, disk, schema>>,
         Bundles(net') \subseteq Bundles(net)
  PROVE  CoreInv'
<1> USE DEF LedgerInv, Replicas
<1> PICK order : ledger' = [ledger EXCEPT ![n] = Ingested(ledger[n], carried, order, schema[n])]
  BY DEF IngestMany
<1>1. Settled(block, Ingested(ledger[n], carried, order, schema[n]))
  BY IngestedSettled DEF CoreInv
<1>2. \A m \in Node : Settled(block, ledger'[m])
  BY <1>1 DEF CoreInv
<1> QED BY <1>2 DEF CoreInv, Bundles

\* A step that leaves the replicas alone and sends no bundle.
LEMMA QuietKeepsCore ==
  ASSUME CoreInv, UNCHANGED <<block, ledger, disk, schema>>, Bundles(net') \subseteq Bundles(net)
  PROVE  CoreInv'
  BY DEF CoreInv, Bundles

LEMMA StepKeepsCore ==
  ASSUME LedgerInv, CoreInv, [Next]_vars
  PROVE  CoreInv'
<1> USE DEF LedgerInv, Replicas
<1>1. ASSUME NEW n \in Node, NEW record \in Record, NEW connected \in SUBSET joined,
             CreateBlock(n, record, connected)
      PROVE  CoreInv'
  <2>1. Settled(block, ledger[n])
    BY DEF CoreInv
  <2> QED BY <1>1, <2>1, CreationKeepsCore DEF CreateBlock
<1>2. ASSUME NEW n \in Node, NEW record \in Record, NEW connected \in SUBSET joined,
             EraseSubject(n, record, connected)
      PROVE  CoreInv'
  <2> DEFINE s == ShredTargets(ledger[n], record)
  <2>1. Good(block, s) /\ s.tips = ledger[n].tips /\ Stored(s) = Stored(ledger[n])
    BY ShreddedGood
  <2>2. Settled(block, s)
    BY ShreddedSettled DEF CoreInv
  <2> HIDE DEF s
  <2>3. ledger' = [ledger EXCEPT ![n] = WithOwnBlock(s, Len(block) + 1)]
    BY <1>2 DEF EraseSubject, s
  <2> QED BY <1>2, <2>1, <2>2, <2>3, CreationKeepsCore DEF EraseSubject
<1>3. ASSUME NEW m \in net, DeliverPush(m) \/ PullAnswered(m) \/ AllAnswered(m) PROVE CoreInv'
  <2>1. /\ m.to \in Node /\ Shipped(block, m.blocks) /\ IngestMany(m.to, m.blocks)
        /\ UNCHANGED <<block, disk, schema>>
    BY <1>3 DEF DeliverPush, PullAnswered, AllAnswered, Network, Travels
  <2>2. Bundles(net') \subseteq Bundles(net)
    BY <1>3 DEF DeliverPush, PullAnswered, AllAnswered, FinishSync, PushedBack, Push, AskClone, Bundles
  <2> QED BY <2>1, <2>2, IngestKeepsCore
<1>4. ASSUME NEW m \in net, ServeClone(m) PROVE CoreInv'
  <2>1. m.to \in Node
    BY <1>4 DEF ServeClone, Network, Travels
  <2>2. Bundle(m.to, m.from, ledger[m.to], schema[m.to]).replica = ledger[m.to]
        /\ Bundle(m.to, m.from, ledger[m.to], schema[m.to]).schema = schema[m.to]
    BY DEF Bundle
  <2> QED BY <1>4, <2>1, <2>2 DEF ServeClone, CoreInv
<1>5. ASSUME NEW m \in net, ImportBundle(m) PROVE CoreInv'
  <2>1. m.to \in Node /\ Good(block, m.replica) /\ m.kind = "bundle"
    BY <1>5 DEF ImportBundle, Network, Travels
  <2>2. Settled(block, m.replica) /\ CoreTables \subseteq m.schema
    BY <2>1 DEF CoreInv
  <2>3. Settled(block, Rebuilt(m.replica, m.schema)) /\ Settled(block, EmptyReplica)
    BY <2>1, <2>2, RebuiltSettled, EmptySettled
  <2> QED BY <1>5, <2>1, <2>2, <2>3 DEF ImportBundle, CoreInv, Frame
<1>6. ASSUME NEW n \in Node, Persist(n) \/ Crash(n) PROVE CoreInv'
  BY <1>6 DEF Persist, Crash, CoreInv
<1>7. ASSUME NEW n \in Node, InstallApp(n) PROVE CoreInv'
  BY <1>7 DEF InstallApp, CoreInv, CoreTables, Frame
<1>8. ASSUME NEW m \in net, ServePull(m) \/ ServeAll(m) \/ Lose(m) PROVE CoreInv'
  <2>1. Bundles(net') \subseteq Bundles(net)
    BY <1>8 DEF ServePull, ServeAll, Lose, Bundles, Reply, All
  <2> QED BY <1>8, <2>1, QuietKeepsCore DEF ServePull, ServeAll, Lose
<1>9. ASSUME NEW a \in Node, NEW b \in Node,
             \/ Handshake(a, b) \/ PullFrom(a, b) \/ PullTimeout(a, b)
             \/ JoinNetwork(a, b) \/ FullResync(a, b)
      PROVE  CoreInv'
  <2>1. Bundles(net') \subseteq Bundles(net)
    BY <1>9 DEF Handshake, PullFrom, PullTimeout, JoinNetwork, FullResync, FinishSync, PushedBack,
                Push, Bundles, Pull, AskClone, AskAll
  <2> QED BY <1>9, <2>1, QuietKeepsCore DEF Handshake, PullFrom, PullTimeout, JoinNetwork, FullResync
<1>10. CASE UNCHANGED vars
  BY <1>10 DEF vars, CoreInv
<1> QED
  BY <1>1, <1>2, <1>3, <1>4, <1>5, <1>6, <1>7, <1>8, <1>9, <1>10 DEF Next

\* A block of a core table that is stored and not applied misses a parent, on
\* every node, through ingestion in any order, crashes, joins and resynchronisations.
THEOREM CoreIsDrained == Spec => []CoreNeverStranded
<1>1. Init => CoreInv
  BY EmptySettled, RecordAssumption DEF Init, CoreInv, CoreTables
<1>2. LedgerInv /\ CoreInv /\ [Next]_vars => CoreInv'
  BY StepKeepsCore
<1>3. CoreInv => CoreNeverStranded
  BY DEF CoreInv, CoreNeverStranded, Settled, Parents
<1> QED BY <1>1, <1>2, <1>3, InvHolds, PTL DEF Spec

-----------------------------------------------------------------------------
(***************************************************************************)
(* What a node has erased stays erased wherever its replica goes.  Wiped   *)
(* is about one replica: an ingestion brings no row in cipher text and     *)
(* changes no row that is there, and every copy is one of a whole replica. *)
(***************************************************************************)
\* Replica r has only tombstones about the record.
Erased(b, r, record) ==
  \A y \in Stored(r) : b[y].type = "MUTATION" /\ b[y].record = record => r.row[y] = "shredded"

LEMMA SeenIsMade ==
  ASSUME NEW b, History(b), NEW x \in DOMAIN b
  PROVE  b[x] \in Content /\ b[x].seen \subseteq DOMAIN b
  BY HistoryDomain DEF History

LEMMA OwnBlockWiped ==
  ASSUME NEW b, History(b), Len(b) < MaxBlock, NEW r, Good(b, r), Wiped(b, r),
         NEW c \in Content, c.seen = Stored(r), c.type = "SHRED" => Erased(b, r, c.record)
  PROVE  Wiped(Append(b, c), WithOwnBlock(r, Len(b) + 1))
<1> DEFINE x == Len(b) + 1
           a == Append(b, c)
           s == WithOwnBlock(r, x)
<1>1. x \in BlockId /\ x \notin DOMAIN b
  BY HistoryDomain, BoundAssumption DEF BlockId
<1>2. /\ Stored(s) = Stored(r) \cup {x}
      /\ \A y \in Stored(r) : s.row[y] = r.row[y]
  BY <1>1 DEF WithOwnBlock, Stored, Good, Replica
<1>3. a[x] = c /\ \A y \in DOMAIN b : a[y] = b[y]
  BY AppendFacts
<1>4. Stored(r) \subseteq DOMAIN b
  BY DEF Good
<1> HIDE DEF a, s, x
<1>5. ASSUME NEW z \in Stored(r), a[z].type = "SHRED", s.row[z] = "cipher",
             NEW y \in a[z].seen, a[y].type = "MUTATION", a[y].record = a[z].record
      PROVE  s.row[y] = "shredded"
  <2>1. z \in DOMAIN b /\ y \in DOMAIN b
    BY <1>3, <1>4, <1>5, SeenIsMade
  <2>2. r.row[y] = "shredded" /\ y \in BlockId
    BY <2>1, <1>2, <1>3, <1>5, HistoryDomain DEF Wiped
  <2> QED BY <2>2, <1>2 DEF Stored
<1>6. ASSUME a[x].type = "SHRED",
             NEW y \in a[x].seen, a[y].type = "MUTATION", a[y].record = a[x].record
      PROVE  s.row[y] = "shredded"
  <2>1. y \in Stored(r) /\ y \in DOMAIN b
    BY <1>3, <1>4, <1>6
  <2> QED BY <2>1, <1>2, <1>3, <1>6 DEF Erased
<1>7. Wiped(a, s)
  BY <1>2, <1>5, <1>6 DEF Wiped
<1> QED BY <1>7 DEF a, s, x

LEMMA LongerWiped ==
  ASSUME NEW b, History(b), NEW r, Good(b, r), Wiped(b, r), NEW c \in Content
  PROVE  Wiped(Append(b, c), r)
<1> DEFINE a == Append(b, c)
<1>1. \A y \in DOMAIN b : a[y] = b[y]
  BY AppendFacts
<1> HIDE DEF a
<1>2. ASSUME NEW z \in Stored(r), a[z].type = "SHRED", r.row[z] = "cipher",
             NEW y \in a[z].seen, a[y].type = "MUTATION", a[y].record = a[z].record
      PROVE  r.row[y] = "shredded"
  <2>1. z \in DOMAIN b
    BY DEF Good
  <2>2. y \in DOMAIN b
    BY <2>1, <1>1, <1>2, SeenIsMade
  <2> QED BY <2>1, <2>2, <1>1, <1>2 DEF Wiped
<1>3. Wiped(a, r)
  BY <1>2 DEF Wiped
<1> QED BY <1>3 DEF a

LEMMA ShreddedWiped ==
  ASSUME NEW b, History(b), b = block, NEW r, Good(b, r), Wiped(b, r), NEW record
  PROVE  /\ Wiped(b, ShredTargets(r, record))
         /\ Erased(b, ShredTargets(r, record), record)
<1> DEFINE s == ShredTargets(r, record)
<1>1. Stored(s) = Stored(r)
  BY ShreddedGood
<1>2. \A x \in BlockId : s.row[x] = IF r.row[x] # "absent" /\ b[x].type = "MUTATION" /\ b[x].record = record
                                    THEN "shredded" ELSE r.row[x]
  BY DEF ShredTargets, Good, Replica
<1> HIDE DEF s
<1>3. Erased(b, s, record)
  BY <1>1, <1>2 DEF Erased, Stored
<1>4. ASSUME NEW z \in Stored(s), b[z].type = "SHRED", s.row[z] = "cipher",
             NEW y \in b[z].seen, b[y].type = "MUTATION", b[y].record = b[z].record
      PROVE  s.row[y] = "shredded"
  <2>1. z \in Stored(r) /\ z \in BlockId /\ z \in DOMAIN b
    BY <1>1 DEF Good, Stored
  <2>2. r.row[y] = "shredded"
    BY <2>1, <1>2, <1>4 DEF Wiped
  <2>3. y \in BlockId
    BY <2>1, <1>4, SeenIsMade, HistoryDomain
  <2> QED BY <2>2, <2>3, <1>2
<1>5. Wiped(b, s)
  BY <1>4 DEF Wiped
<1> QED BY <1>3, <1>5 DEF s

LEMMA IngestedWiped ==
  ASSUME History(block), NEW r, Good(block, r), Wiped(block, r), NEW c, Shipped(block, c),
         NEW order, NEW tables
  PROVE  Wiped(block, Ingested(r, c, order, tables))
<1> DEFINE new == {x \in DOMAIN c : r.row[x] = "absent"}
           s == Ingested(r, c, order, tables)
<1>1. CASE DOMAIN c = {}
  BY <1>1 DEF Ingested
<1>2. CASE DOMAIN c # {}
  <2>1. \A x \in BlockId : s.row[x] = IF x \in new THEN c[x] ELSE r.row[x]
    BY <1>2 DEF Ingested
  <2>2. \A x \in new : c[x] \in {"plain", "shredded"} /\ r.row[x] = "absent"
    BY DEF Shipped
  <2>3. Stored(s) \subseteq BlockId
    BY DEF Stored
  <2> HIDE DEF new, s
  <2>4. ASSUME NEW z \in Stored(s), block[z].type = "SHRED", s.row[z] = "cipher",
               NEW y \in block[z].seen, block[y].type = "MUTATION", block[y].record = block[z].record
        PROVE  s.row[y] = "shredded"
    <3>1. z \in BlockId /\ z \notin new /\ r.row[z] = "cipher"
      BY <2>1, <2>2, <2>3, <2>4
    <3>2. z \in Stored(r)
      BY <3>1 DEF Stored
    <3>3. r.row[y] = "shredded" /\ z \in DOMAIN block
      BY <3>1, <3>2, <2>4 DEF Wiped, Good
    <3>4. y \in BlockId
      BY <3>3, <2>4, SeenIsMade, HistoryDomain
    <3> QED BY <3>3, <3>4, <2>1, <2>2
  <2>5. Wiped(block, s)
    BY <2>4 DEF Wiped
  <2> QED BY <2>5 DEF s
<1> QED BY <1>1, <1>2

LEMMA RebuiltWiped ==
  ASSUME NEW r, Good(block, r), Wiped(block, r), NEW tables
  PROVE  Wiped(block, Rebuilt(r, tables)) /\ Wiped(block, EmptyReplica)
<1>1. Rebuilt(r, tables).row = r.row
  BY DEF Rebuilt, Good, Replica
<1>2. Wiped(block, Rebuilt(r, tables))
  BY <1>1 DEF Wiped, Stored
<1>3. Wiped(block, EmptyReplica)
  BY DEF Wiped, EmptyReplica, Stored
<1> QED BY <1>2, <1>3

LEMMA CreationKeepsErasure ==
  ASSUME LedgerInv, EraserStaysErased, Len(block) < MaxBlock,
         NEW n \in Node, NEW type \in {"MUTATION", "SHRED"}, NEW record \in Record,
         NEW s, Good(block, s), s.tips = ledger[n].tips, Stored(s) = Stored(ledger[n]),
         Wiped(block, s), type = "SHRED" => Erased(block, s, record),
         NEW connected \in SUBSET joined,
         block'  = Append(block, NewBlock(n, type, record)),
         ledger' = [ledger EXCEPT ![n] = WithOwnBlock(s, Len(block) + 1)],
         LivePush(n, Len(block) + 1, connected),
         UNCHANGED disk
  PROVE  EraserStaysErased'
<1> DEFINE c == On(block, s, n, type, record)
<1> USE DEF LedgerInv, Replicas
<1>1. NewBlock(n, type, record) = c
  BY DEF NewBlock, On, Past
<1>2. c \in Content
  BY NewBlockOn
<1>3. c.seen = Stored(s) /\ c.type = type /\ c.record = record
  BY DEF On
<1> HIDE DEF c
<1>4. Wiped(block', WithOwnBlock(s, Len(block) + 1))
  BY <1>1, <1>2, <1>3, OwnBlockWiped
<1>5. ASSUME NEW r, Good(block, r), Wiped(block, r) PROVE Wiped(block', r)
  BY <1>1, <1>2, <1>5, LongerWiped
<1>6. ASSUME NEW m \in Node PROVE Wiped(block', ledger'[m]) /\ Wiped(block', disk'[m])
  BY <1>4, <1>5 DEF EraserStaysErased
<1>7. ASSUME NEW m \in net', m.kind = "bundle" PROVE Wiped(block', m.replica)
  <2>1. m \in net
    BY <1>7 DEF LivePush, Push
  <2>2. Good(block, m.replica)
    BY <2>1, <1>7 DEF Network, Travels
  <2> QED BY <2>1, <2>2, <1>5, <1>7 DEF EraserStaysErased
<1> QED BY <1>6, <1>7 DEF EraserStaysErased

LEMMA IngestKeepsErasure ==
  ASSUME LedgerInv, EraserStaysErased, NEW n \in Node, NEW carried, Shipped(block, carried),
         IngestMany(n, carried), UNCHANGED <<block, disk>>, Bundles(net') \subseteq Bundles(net)
  PROVE  EraserStaysErased'
<1> USE DEF LedgerInv, Replicas
<1> PICK order : ledger' = [ledger EXCEPT ![n] = Ingested(ledger[n], carried, order, schema[n])]
  BY DEF IngestMany
<1>1. Wiped(block, Ingested(ledger[n], carried, order, schema[n]))
  BY IngestedWiped DEF EraserStaysErased
<1>2. \A m \in Node : Wiped(block, ledger'[m])
  BY <1>1 DEF EraserStaysErased
<1> QED BY <1>2 DEF EraserStaysErased, Bundles

\* A step that leaves the replicas alone and sends no bundle.
LEMMA QuietKeepsErasure ==
  ASSUME EraserStaysErased, UNCHANGED <<block, ledger, disk>>, Bundles(net') \subseteq Bundles(net)
  PROVE  EraserStaysErased'
  BY DEF EraserStaysErased, Bundles

LEMMA StepKeepsErasure ==
  ASSUME LedgerInv, EraserStaysErased, [Next]_vars
  PROVE  EraserStaysErased'
<1> USE DEF LedgerInv, Replicas
<1>1. ASSUME NEW n \in Node, NEW record \in Record, NEW connected \in SUBSET joined,
             CreateBlock(n, record, connected)
      PROVE  EraserStaysErased'
  <2>1. Wiped(block, ledger[n])
    BY DEF EraserStaysErased
  <2> QED BY <1>1, <2>1, CreationKeepsErasure DEF CreateBlock
<1>2. ASSUME NEW n \in Node, NEW record \in Record, NEW connected \in SUBSET joined,
             EraseSubject(n, record, connected)
      PROVE  EraserStaysErased'
  <2> DEFINE s == ShredTargets(ledger[n], record)
  <2>1. Good(block, s) /\ s.tips = ledger[n].tips /\ Stored(s) = Stored(ledger[n])
    BY ShreddedGood
  <2>2. Wiped(block, s) /\ Erased(block, s, record)
    BY ShreddedWiped DEF EraserStaysErased
  <2> HIDE DEF s
  <2>3. ledger' = [ledger EXCEPT ![n] = WithOwnBlock(s, Len(block) + 1)]
    BY <1>2 DEF EraseSubject, s
  <2> QED BY <1>2, <2>1, <2>2, <2>3, CreationKeepsErasure DEF EraseSubject
<1>3. ASSUME NEW m \in net, DeliverPush(m) \/ PullAnswered(m) \/ AllAnswered(m)
      PROVE  EraserStaysErased'
  <2>1. /\ m.to \in Node /\ Shipped(block, m.blocks) /\ IngestMany(m.to, m.blocks)
        /\ UNCHANGED <<block, disk>>
    BY <1>3 DEF DeliverPush, PullAnswered, AllAnswered, Network, Travels
  <2>2. Bundles(net') \subseteq Bundles(net)
    BY <1>3 DEF DeliverPush, PullAnswered, AllAnswered, FinishSync, PushedBack, Push, AskClone, Bundles
  <2> QED BY <2>1, <2>2, IngestKeepsErasure
<1>4. ASSUME NEW m \in net, ServeClone(m) PROVE EraserStaysErased'
  <2>1. m.to \in Node
    BY <1>4 DEF ServeClone, Network, Travels
  <2>2. Bundle(m.to, m.from, ledger[m.to], schema[m.to]).replica = ledger[m.to]
    BY DEF Bundle
  <2> QED BY <1>4, <2>1, <2>2 DEF ServeClone, EraserStaysErased
<1>5. ASSUME NEW m \in net, ImportBundle(m) PROVE EraserStaysErased'
  <2>1. m.to \in Node /\ Good(block, m.replica) /\ m.kind = "bundle"
    BY <1>5 DEF ImportBundle, Network, Travels
  <2>2. Wiped(block, m.replica)
    BY <2>1 DEF EraserStaysErased
  <2>3. Wiped(block, Rebuilt(m.replica, m.schema)) /\ Wiped(block, EmptyReplica)
    BY <2>1, <2>2, RebuiltWiped
  <2> QED BY <1>5, <2>1, <2>3 DEF ImportBundle, EraserStaysErased
<1>6. ASSUME NEW n \in Node, Persist(n) \/ Crash(n) PROVE EraserStaysErased'
  BY <1>6 DEF Persist, Crash, EraserStaysErased
<1>7. ASSUME NEW m \in net, ServePull(m) \/ ServeAll(m) \/ Lose(m) PROVE EraserStaysErased'
  <2>1. Bundles(net') \subseteq Bundles(net)
    BY <1>7 DEF ServePull, ServeAll, Lose, Bundles, Reply, All
  <2> QED BY <1>7, <2>1, QuietKeepsErasure DEF ServePull, ServeAll, Lose
<1>8. ASSUME NEW a \in Node, NEW b \in Node,
             \/ Handshake(a, b) \/ PullFrom(a, b) \/ PullTimeout(a, b)
             \/ JoinNetwork(a, b) \/ FullResync(a, b)
      PROVE  EraserStaysErased'
  <2>1. Bundles(net') \subseteq Bundles(net)
    BY <1>8 DEF Handshake, PullFrom, PullTimeout, JoinNetwork, FullResync, FinishSync, PushedBack,
                Push, Pull, AskClone, AskAll, Bundles
  <2> QED BY <1>8, <2>1, QuietKeepsErasure
          DEF Handshake, PullFrom, PullTimeout, JoinNetwork, FullResync
<1>9. ASSUME NEW n \in Node, InstallApp(n) PROVE EraserStaysErased'
  BY <1>9 DEF InstallApp, EraserStaysErased
<1>10. CASE UNCHANGED vars
  BY <1>10 DEF vars, EraserStaysErased
<1> QED
  BY <1>1, <1>2, <1>3, <1>4, <1>5, <1>6, <1>7, <1>8, <1>9, <1>10 DEF Next

\* No push, answer, batch, restart or clone, in whatever order, gives a payload about
\* an erased subject back to its eraser, or to a copy of its replica.
THEOREM ErasureHolds == Spec => []EraserStaysErased
<1>1. Init => EraserStaysErased
  BY DEF Init, EraserStaysErased, Wiped, EmptyReplica, Stored
<1>2. LedgerInv /\ EraserStaysErased /\ [Next]_vars => EraserStaysErased'
  BY StepKeepsErasure
<1> QED BY <1>1, <1>2, InvHolds, PTL DEF Spec

-----------------------------------------------------------------------------
(***************************************************************************)
(* The walk of getBlocksSince.  Its recursive function exists because a    *)
(* parent is older than its child, and what it reaches from the tips of a  *)
(* replica without holes is stored on that replica: in both lemmas a least *)
(* counterexample (MinExists) leads to a smaller one.                      *)
(***************************************************************************)
From(r, f, x) ==
  IF x = Genesis THEN {}
  ELSE {x} \cup (IF r.row[x] = "absent" THEN {} ELSE UNION {f[p] : p \in Parents(x)})

Walk(r, f, k) == f = [x \in 0..k |-> From(r, f, x)]

LEMMA ParentsOlder ==
  ASSUME History(block), NEW r, Good(block, r), NEW x \in Stored(r)
  PROVE  x \in Nat /\ Parents(x) \subseteq 0..(x - 1)
  BY HistoryDomain DEF History, Good, Parents

LEMMA WalkExists ==
  ASSUME History(block), NEW r, Good(block, r)
  PROVE  \E f : Walk(r, f, MaxBlock)
<1> DEFINE Bad == {k \in 0..MaxBlock : \A f : ~Walk(r, f, k)}
<1>1. SUFFICES ASSUME Bad # {} PROVE FALSE
  BY BoundAssumption
<1>2. PICK k \in Bad : \A j \in Bad : k <= j
  <2>1. Bad \in SUBSET Nat
    BY BoundAssumption
  <2> HIDE DEF Bad
  <2> QED BY <1>1, <2>1, MinExists
<1>3. k \in 0..MaxBlock /\ \A f : ~Walk(r, f, k)
  BY <1>2
<1>4. CASE k = 0
  <2> DEFINE f == [x \in 0..0 |-> {}]
  <2>1. \A x \in 0..0 : From(r, f, x) = {}
    BY DEF From, Genesis
  <2>2. Walk(r, f, 0)
    BY <2>1 DEF Walk
  <2> QED BY <1>3, <1>4, <2>2
<1>5. CASE k # 0
  <2>1. k - 1 \in 0..MaxBlock /\ k - 1 \notin Bad
    BY <1>2, <1>3, <1>5, BoundAssumption
  <2>2. PICK f : Walk(r, f, k - 1)
    BY <2>1
  <2> DEFINE g == [x \in 0..k |-> IF x < k THEN f[x] ELSE From(r, f, k)]
  <2>3. \A x \in 0..(k - 1) : f[x] = From(r, f, x)
    BY <2>2 DEF Walk
  <2>4. ASSUME NEW x \in 0..k PROVE From(r, g, x) = From(r, f, x)
    <3>1. CASE x = Genesis \/ r.row[x] = "absent"
      BY <3>1 DEF From
    <3>2. CASE x # Genesis /\ r.row[x] # "absent"
      <4>1. x \in Stored(r)
        BY <3>2, <1>3, BoundAssumption DEF Stored, BlockId, Genesis
      <4>2. \A p \in Parents(x) : p \in 0..k /\ p < k
        BY <4>1, <1>3, ParentsOlder
      <4>3. \A p \in Parents(x) : g[p] = f[p]
        BY <4>2
      <4> HIDE DEF g
      <4> QED BY <4>3 DEF From
    <3> QED BY <3>1, <3>2
  <2>5. \A x \in 0..k : g[x] = From(r, f, x)
    BY <1>3, <2>3
  <2>6. Walk(r, g, k)
    BY <2>4, <2>5 DEF Walk
  <2> QED BY <1>3, <2>6
<1> QED BY <1>4, <1>5

LEMMA WalkKnown ==
  ASSUME History(block), NEW r, Good(block, r), NEW tips
  PROVE  \E f : Walk(r, f, MaxBlock) /\ KnownFrom(r, tips) = UNION {f[t] : t \in tips}
<1> DEFINE f == CHOOSE g : Walk(r, g, MaxBlock)
<1>1. Walk(r, f, MaxBlock)
  BY WalkExists
<1>2. KnownFrom(r, tips) = UNION {f[t] : t \in tips}
  BY DEF KnownFrom, Walk, From
<1> QED BY <1>1, <1>2

\* A walk of the parents known to b from a tip of a replica a without holes
\* reaches only blocks that a stores.
LEMMA WalkStays ==
  ASSUME History(block), NEW b, Good(block, b), NEW a, Good(block, a), Closed(a),
         NEW f, Walk(b, f, MaxBlock), NEW t \in Stored(a) \cup {Genesis}
  PROVE  f[t] \subseteq Stored(a)
<1> DEFINE Bad == {x \in 0..MaxBlock : x \in Stored(a) \cup {Genesis} /\ ~(f[x] \subseteq Stored(a))}
<1>0. t \in 0..MaxBlock
  BY BoundAssumption DEF Stored, BlockId, Genesis
<1>1. SUFFICES ASSUME Bad # {} PROVE FALSE
  BY <1>0
<1>2. PICK x \in Bad : \A y \in Bad : x <= y
  <2>1. Bad \in SUBSET Nat
    BY BoundAssumption
  <2> HIDE DEF Bad
  <2> QED BY <1>1, <2>1, MinExists
<1>3. x \in 0..MaxBlock /\ x \in Stored(a) \cup {Genesis} /\ ~(f[x] \subseteq Stored(a))
  BY <1>2
<1>4. f[x] = From(b, f, x)
  BY <1>3 DEF Walk
<1>5. x # Genesis /\ x \in Stored(a) /\ b.row[x] # "absent"
  BY <1>3, <1>4 DEF From
<1>6. x \in Stored(b)
  BY <1>3, <1>5 DEF Stored
<1>7. ASSUME NEW p \in Parents(x) PROVE f[p] \subseteq Stored(a)
  <2>1. p \in Stored(a) \cup {Genesis}
    BY <1>5 DEF Closed
  <2>2. p \in 0..MaxBlock /\ p < x
    BY <1>3, <1>6, ParentsOlder, BoundAssumption
  <2>3. p \notin Bad
    BY <1>2, <1>3, <2>2
  <2> QED BY <2>1, <2>2, <2>3
<1>8. f[x] \subseteq Stored(a)
  BY <1>4, <1>5, <1>7 DEF From
<1> QED BY <1>3, <1>8

LEMMA KnownIsStored ==
  ASSUME History(block), NEW b, Good(block, b), NEW a, Good(block, a), Closed(a),
         NEW tips \in SUBSET (Stored(a) \cup {Genesis})
  PROVE  Stored(b) \subseteq Stored(a) \cup BlocksSince(b, tips)
<1>1. PICK f : Walk(b, f, MaxBlock) /\ KnownFrom(b, tips) = UNION {f[t] : t \in tips}
  BY WalkKnown
<1>2. \A t \in tips : f[t] \subseteq Stored(a)
  BY <1>1, WalkStays
<1> QED BY <1>1, <1>2 DEF BlocksSince

\* Only the handler of a pull and the timer of its sender take it off the net, and
\* only the handler sends a reply.
LEMMA PullTaken ==
  ASSUME LedgerInv, [Next]_vars, NEW m \in net, m.kind = "pull", m \notin net',
         NEW reply \in net' \ net, reply.kind = "reply"
  PROVE  ServePull(m)
<1>1. ASSUME NEW k \in net, ServePull(k) PROVE ServePull(m)
  <2>1. net' = (net \ {k}) \cup (net' \ net)
    BY <1>1 DEF ServePull
  <2>2. m = k
    BY <2>1
  <2> QED BY <1>1, <2>2
<1>2. ASSUME NEW k \in net,
             \/ DeliverPush(k) \/ PullAnswered(k) \/ ServeAll(k) \/ AllAnswered(k)
             \/ ServeClone(k) \/ ImportBundle(k) \/ Lose(k)
      PROVE  FALSE
  BY <1>2 DEF DeliverPush, PullAnswered, ServeAll, AllAnswered, ServeClone, ImportBundle, Lose,
              FinishSync, PushedBack, Push, All, AskClone, Bundle
<1>3. ASSUME NEW n \in Node, NEW record \in Record, NEW connected \in SUBSET joined,
             CreateBlock(n, record, connected) \/ EraseSubject(n, record, connected)
      PROVE  FALSE
  BY <1>3 DEF CreateBlock, EraseSubject, LivePush
<1>4. ASSUME NEW a \in Node, NEW b \in Node,
             \/ Handshake(a, b) \/ PullFrom(a, b) \/ PullTimeout(a, b)
             \/ JoinNetwork(a, b) \/ FullResync(a, b)
      PROVE  FALSE
  BY <1>4 DEF Handshake, PullFrom, PullTimeout, JoinNetwork, FullResync, FinishSync, PushedBack, Push
<1>5. ASSUME NEW n \in Node, InstallApp(n) \/ Persist(n) \/ Crash(n) PROVE FALSE
  BY <1>5 DEF InstallApp, Persist, Crash
<1>6. CASE UNCHANGED vars
  BY <1>6 DEF vars
<1> QED BY <1>1, <1>2, <1>3, <1>4, <1>5, <1>6 DEF Next

LEMMA AnswerOmitsNothing ==
  ASSUME LedgerInv, NEW m \in net, ServePull(m), Closed(ledger[m.from]),
         m.tips \subseteq Stored(ledger[m.from]) \cup {Genesis},
         NEW reply \in net' \ net
  PROVE  \/ DOMAIN reply.blocks = {} /\ Unreadable(ledger[m.to], Stored(ledger[m.to]))
         \/ Stored(ledger[m.to]) \subseteq Stored(ledger[m.from]) \cup DOMAIN reply.blocks
<1> DEFINE r == ledger[m.to]
           missing == BlocksSince(r, m.tips)
<1>1. {m.from, m.to} \subseteq Node /\ History(block)
  BY DEF ServePull, LedgerInv, Network, Travels
<1>2. Good(block, r) /\ Good(block, ledger[m.from])
  BY <1>1 DEF LedgerInv, Replicas
<1>3. Stored(r) \subseteq Stored(ledger[m.from]) \cup missing
  BY <1>1, <1>2, KnownIsStored
<1>4. reply = Reply(m.to, m.from, IF Unreadable(r, missing) THEN NoBlocks ELSE Carry(r, missing))
  BY DEF ServePull
<1> HIDE DEF missing, r
<1>5. reply.blocks = IF Unreadable(r, missing) THEN NoBlocks ELSE Carry(r, missing)
  BY <1>4 DEF Reply
<1>6. CASE Unreadable(r, missing)
  <2>1. missing \subseteq Stored(r)
    BY DEF missing, BlocksSince
  <2>2. DOMAIN reply.blocks = {} /\ Unreadable(r, Stored(r))
    BY <1>5, <1>6, <2>1 DEF NoBlocks, Unreadable
  <2> QED BY <2>2 DEF r
<1>7. CASE ~Unreadable(r, missing)
  <2>1. DOMAIN reply.blocks = missing
    BY <1>5, <1>7 DEF Carry
  <2> QED BY <1>3, <2>1 DEF r
<1> QED BY <1>6, <1>7

\* When neither side has a hole and the requester still holds the tips it sent, the
\* answer carries all that it lacks, unless the peer holds rows it cannot deserialise:
\* getBlocksSince omits nothing.
THEOREM AnswersAreComplete == Spec => PullAnswerComplete
<1>1. LedgerInv /\ [Next]_vars
        => [\A m \in net :
              LET a == ledger[m.from]
                  b == ledger[m.to]
              IN  m.kind = "pull" /\ m \notin net' /\ Closed(a) /\ Closed(b)
                      /\ m.tips \subseteq Stored(a) \cup {Genesis} =>
                    \A reply \in net' \ net : reply.kind = "reply" =>
                      \/ DOMAIN reply.blocks = {} /\ Unreadable(b, Stored(b))
                      \/ Stored(b) \subseteq Stored(a) \cup DOMAIN reply.blocks]_vars
  BY PullTaken, AnswerOmitsNothing
<1> QED BY <1>1, InvHolds, PTL DEF Spec, PullAnswerComplete
=============================================================================
