---------------------------- MODULE BlockLedger ----------------------------
(***************************************************************************)
(* The distributed block ledger of backend/dag: every node keeps an        *)
(* event_log table of blocks and a dag_tips table, creates blocks for its  *)
(* local mutations, pushes them live to the nodes it is connected to,      *)
(* pulls what it misses from a peer, ingests what arrives in any order     *)
(* and drains its pending blocks into the data tables.  GDPR erasure       *)
(* overwrites payloads by tombstones.  A node joins by cloning the         *)
(* databases of a member and may be resynchronised in the same way.        *)
(*                                                                         *)
(* A block is identified by its position in `block', the history of all    *)
(* blocks ever created: block_id is a SHA-256 of the block's content, and  *)
(* the content carries a fresh hybrid timestamp and the author.            *)
(***************************************************************************)
EXTENDS Integers, Sequences, FiniteSets

CONSTANTS
  Node,        \* the computers of one network
  Owner,       \* the node that created the network
  Record,      \* (table, record_id) pairs that mutations touch
  AppRecord,   \* those of an application's tables, missing until it is installed
  MaxBlock,    \* bound: blocks ever created
  MaxCrash,    \* bound: crashes, over all nodes
  MaxImport,   \* bound: joins and full resynchronisations started, over all nodes
  MaxFlight,   \* bound: messages in flight for an operation to be started
  MaxSession   \* bound: synchronisations in progress at once

ASSUME OwnerAssumption  == Owner \in Node
ASSUME RecordAssumption == AppRecord \subseteq Record
ASSUME BoundAssumption  == {MaxBlock, MaxCrash, MaxImport, MaxFlight, MaxSession} \subseteq Nat

VARIABLES
  block,    \* Seq of contents: the history of created blocks
  ledger,   \* ledger[n]: event_log and dag_tips of n, in memory
  disk,     \* disk[n]: the last ledger.enc written for n
  joined,   \* nodes whose workspace holds this network
  schema,   \* schema[n]: records whose table exists in a database of n
  net,      \* RPC messages and clone bundles in flight
  session,  \* session[a][b]: progress of syncWithPeer(b) at a
  crashes, imports

vars == <<block, ledger, disk, joined, schema, net, session, crashes, imports>>

Genesis == 0
BlockId == 1..MaxBlock
Made    == DOMAIN block
Form    == {"absent", "cipher", "plain", "shredded"}

\* past (the ancestors) and seen (what the author stored then) are ghosts.
Content == [author : Node, parents : SUBSET (BlockId \cup {Genesis}),
            past : SUBSET BlockId, seen : SUBSET BlockId,
            type : {"MUTATION", "SHRED"}, record : Record]
Replica == [row : [BlockId -> Form], applied : SUBSET BlockId,
            tips : SUBSET (BlockId \cup {Genesis})]

Parents(x) == block[x].parents
Past(x)    == block[x].past

\* The migration of the ledger database creates the tables and seeds dag_tips.
EmptyReplica == [row |-> [x \in BlockId |-> "absent"], applied |-> {}, tips |-> {Genesis}]

Stored(r) == {x \in BlockId : r.row[x] # "absent"}

Unreadable(r, S) == \E x \in S : r.row[x] = "cipher"

-----------------------------------------------------------------------------
(***************************************************************************)
(* What a node answers with: getBlocksSince.  From the requester's tips it *)
(* walks its own parent map, and returns every other block it stores.  The *)
(* rows are deserialised with JSON.parse, which throws on a row written by *)
(* createBlock: such a row holds the hex of the encrypted payload.         *)
(***************************************************************************)
KnownFrom(r, tips) ==
  LET reach[x \in 0..MaxBlock] ==
        IF x = Genesis THEN {}
        ELSE {x} \cup (IF r.row[x] = "absent" THEN {}
                       ELSE UNION {reach[p] : p \in Parents(x)})
  IN  UNION {reach[t] : t \in tips}

\* Mutant: the blocks newer than every tip, as by a timestamp.
BlocksAfter(r, tips) == {x \in Stored(r) : \A t \in tips : x > t}

BlocksSince(r, tips) == Stored(r) \ KnownFrom(r, tips)

\* The blocks S of a replica as they travel: a payload in clear or a tombstone.
Carry(r, S) == [x \in S |-> r.row[x]]

-----------------------------------------------------------------------------
(***************************************************************************)
(* Ingestion of a batch, in some order: a known block is a duplicate, a    *)
(* new one is stored with is_applied = 0 and updateTips removes its        *)
(* parents and adds it.  `order' numbers the new blocks: a batch is made   *)
(* of chunks of 900 rows, each in the order of the hybrid clocks of its    *)
(* authors, and the final sort subtracts two timestamps that are strings,  *)
(* which is NaN and moves nothing.  So a child may precede its parent.     *)
(***************************************************************************)
Orders(S) == {o \in [S -> 1..Cardinality(S)] : \A x, y \in S : o[x] = o[y] => x = y}

\* Mutant: updateTips deletes the parents and does not insert the block.
TipsNotInserted(tips, new, order) == tips \ UNION {Parents(c) : c \in new}

TipsAfter(tips, new, order) ==
  {t \in tips \cup new :
     \A c \in new : t \in Parents(c) => t \in new /\ order[c] < order[t]}

\* reapplyToTables succeeds: a tombstone and a SHRED are skipped with success,
\* any other block needs its table.
Appliable(form, x, tables) ==
  \/ form = "shredded"
  \/ block[x].type = "SHRED"
  \/ block[x].record \in tables

\* Mutant: a single pass of drain, that also waits for the parents to be applied.
DrainableOnce(row, applied, tables) ==
  {x \in BlockId \ applied :
     /\ row[x] \notin {"absent", "cipher"}
     /\ Parents(x) \subseteq applied \cup {Genesis}
     /\ Appliable(row[x], x, tables)}

\* projector.drain, run to its fixpoint: every pending block whose parents are
\* all stored (applied or not) and whose table accepts it.
Drainable(row, applied, tables) ==
  {x \in BlockId \ applied :
     /\ row[x] \notin {"absent", "cipher"}
     /\ \A p \in Parents(x) : p = Genesis \/ row[p] # "absent"
     /\ Appliable(row[x], x, tables)}

\* Mutant: INSERT OR REPLACE where the code ignores a known block.
IngestedReplacing(r, carried, order, tables) ==
  LET row == [x \in BlockId |-> IF x \in DOMAIN carried THEN carried[x] ELSE r.row[x]]
  IN  [row     |-> row,
       applied |-> r.applied \cup Drainable(row, r.applied, tables),
       tips    |-> TipsAfter(r.tips, {x \in DOMAIN carried : r.row[x] = "absent"}, order)]

Ingested(r, carried, order, tables) ==
  LET new == {x \in DOMAIN carried : r.row[x] = "absent"}
      row == [x \in BlockId |-> IF x \in new THEN carried[x] ELSE r.row[x]]
  IN  IF DOMAIN carried = {} THEN r
      ELSE [row     |-> row,
            applied |-> r.applied \cup Drainable(row, r.applied, tables),
            tips    |-> TipsAfter(r.tips, new, order)]

IngestMany(n, carried) ==
  \E order \in Orders({x \in DOMAIN carried : ledger[n].row[x] = "absent"}) :
     ledger' = [ledger EXCEPT ![n] = Ingested(ledger[n], carried, order, schema[n])]

-----------------------------------------------------------------------------
Push(to, carried)         == [kind |-> "push",  to |-> to, blocks |-> carried]
Pull(from, to, tips)      == [kind |-> "pull",  from |-> from, to |-> to, tips |-> tips]
Reply(from, to, carried)  == [kind |-> "reply", from |-> from, to |-> to, blocks |-> carried]
AskAll(from, to)          == [kind |-> "full_resync", from |-> from, to |-> to]
All(from, to, carried)    == [kind |-> "all", from |-> from, to |-> to, blocks |-> carried]
AskClone(from, to)        == [kind |-> "clone", from |-> from, to |-> to]
Bundle(from, to, r, tables) ==
  [kind |-> "bundle", from |-> from, to |-> to, replica |-> r, schema |-> tables]

Request    == {"pull", "full_resync", "clone"}
Idle       == [stage |-> "idle", peerTips |-> {}]
NoBlocks   == [x \in {} |-> "plain"]

Init ==
  /\ block   = <<>>
  /\ ledger  = [n \in Node |-> EmptyReplica]
  /\ disk    = [n \in Node |-> EmptyReplica]
  /\ joined  = {Owner}
  /\ schema  = [n \in Node |-> Record \ AppRecord]
  /\ net     = {}
  /\ session = [a \in Node |-> [b \in Node |-> Idle]]
  /\ crashes = 0
  /\ imports = 0

\* Mutant: the block names one of the tips only.
NewBlockOneParent(n, type, record) ==
  LET tip == CHOOSE t \in ledger[n].tips : TRUE
  IN  [author |-> n, parents |-> {tip},
       past   |-> IF tip = Genesis THEN {} ELSE {tip} \cup Past(tip),
       seen   |-> Stored(ledger[n]),
       type   |-> type, record |-> record]

(***************************************************************************)
(* createBlock, with the live push of wrapMutationWithEvent: the parents   *)
(* are all current tips, the own row is stored encrypted and already       *)
(* applied (the handler has changed the table first), and the block goes,  *)
(* with its payload in clear, to the nodes whose socket is open.           *)
(***************************************************************************)
NewBlock(n, type, record) ==
  LET tips == ledger[n].tips
  IN  [author |-> n, parents |-> tips,
       past   |-> (tips \ {Genesis}) \cup UNION {Past(t) : t \in tips \ {Genesis}},
       seen   |-> Stored(ledger[n]),
       type   |-> type, record |-> record]

WithOwnBlock(r, x) ==
  [row     |-> [r.row EXCEPT ![x] = "cipher"],
   applied |-> r.applied \cup {x},
   tips    |-> {x}]

Quiet == Cardinality(net) < MaxFlight

LivePush(n, x, connected) ==
  net' = net \cup {Push(m, [y \in {x} |-> "plain"]) : m \in connected}

CreateBlock(n, record, connected) ==
  LET x == Len(block) + 1
  IN  /\ n \in joined
      /\ Len(block) < MaxBlock /\ Quiet
      /\ record \in schema[n]
      /\ block'  = Append(block, NewBlock(n, "MUTATION", record))
      /\ ledger' = [ledger EXCEPT ![n] = WithOwnBlock(ledger[n], x)]
      /\ LivePush(n, x, connected)
      /\ UNCHANGED <<disk, joined, schema, session, crashes, imports>>

\* Mutant: only the rows received in clear get a tombstone.
ShredReceived(r, record) ==
  [r EXCEPT !.row = [x \in BlockId |->
     IF r.row[x] = "plain" /\ block[x].type = "MUTATION" /\ block[x].record = record
     THEN "shredded" ELSE r.row[x]]]

(***************************************************************************)
(* eraseSubject: a SHRED block that lists the targets is created and       *)
(* pushed like any other, then shredTargets replaces the payload of every  *)
(* stored block about the record by a tombstone.  All of it runs before    *)
(* the first await.  The planner refuses a subject without a row in the    *)
(* tables: one that no applied block is about.                             *)
(***************************************************************************)
ShredTargets(r, record) ==
  [r EXCEPT !.row = [x \in BlockId |->
     IF r.row[x] # "absent" /\ block[x].type = "MUTATION" /\ block[x].record = record
     THEN "shredded" ELSE r.row[x]]]

EraseSubject(n, record, connected) ==
  LET x == Len(block) + 1
  IN  /\ n \in joined
      /\ Len(block) < MaxBlock /\ Quiet
      /\ \E y \in ledger[n].applied :
            /\ block[y].type = "MUTATION"
            /\ block[y].record = record
      /\ block'  = Append(block, NewBlock(n, "SHRED", record))
      /\ ledger' = [ledger EXCEPT
                      ![n] = WithOwnBlock(ShredTargets(ledger[n], record), x)]
      /\ LivePush(n, x, connected)
      /\ UNCHANGED <<disk, joined, schema, session, crashes, imports>>

\* The application is installed on n: its tables exist.  Nothing drains.
InstallApp(n) ==
  /\ n \in joined
  /\ schema[n] # Record
  /\ schema' = [schema EXCEPT ![n] = Record]
  /\ UNCHANGED <<block, ledger, disk, joined, net, session, crashes, imports>>

\* The blocks_push handler: the batch is ingested, the answer carries no state.
DeliverPush(m) ==
  /\ m \in net /\ m.kind = "push"
  /\ IngestMany(m.to, m.blocks)
  /\ net' = net \ {m}
  /\ UNCHANGED <<block, disk, joined, schema, session, crashes, imports>>

-----------------------------------------------------------------------------
(***************************************************************************)
(* syncWithPeer(b) at a: the handshake answers with the tips of b; then a  *)
(* sends blocks_pull with its own tips, ingests the answer (or none, on an *)
(* error or a timeout) and pushes what b lacked at the handshake.          *)
(***************************************************************************)
Handshake(a, b) ==
  /\ a # b /\ {a, b} \subseteq joined
  /\ session[a][b].stage = "idle"
  /\ Cardinality({s \in Node \X Node : session[s[1]][s[2]].stage # "idle"}) < MaxSession
  /\ session' = [session EXCEPT ![a][b] = [stage |-> "shaken", peerTips |-> ledger[b].tips]]
  /\ UNCHANGED <<block, ledger, disk, joined, schema, net, crashes, imports>>

PullFrom(a, b) ==
  /\ session[a][b].stage = "shaken" /\ Quiet
  /\ session' = [session EXCEPT ![a][b].stage = "pulling"]
  /\ net' = net \cup {Pull(a, b, ledger[a].tips)}
  /\ UNCHANGED <<block, ledger, disk, joined, schema, crashes, imports>>

\* The blocks_pull handler.  When a row cannot be deserialised the handler
\* throws, the RPC answers with an error and the caller goes on with no blocks.
ServePull(m) ==
  LET missing == BlocksSince(ledger[m.to], m.tips)
  IN  /\ m \in net /\ m.kind = "pull"
      /\ net' = (net \ {m}) \cup
           {Reply(m.to, m.from, IF Unreadable(ledger[m.to], missing) THEN NoBlocks
                                ELSE Carry(ledger[m.to], missing))}
      /\ UNCHANGED <<block, ledger, disk, joined, schema, session, crashes, imports>>

\* pushTo, with the tips the peer had at the handshake; it throws, and is
\* ignored, when a row to send cannot be deserialised.
PushedBack(r, a, b) ==
  LET missing == BlocksSince(r, session[a][b].peerTips)
  IN  IF missing = {} \/ Unreadable(r, missing) THEN {} ELSE {Push(b, Carry(r, missing))}

\* Mutant: the peer stays marked in flight when no answer came.
FinishSyncAnswered(a, b, msgs) ==
  /\ session' = [session EXCEPT ![a][b] = IF \E m \in msgs : m.kind = "reply" THEN Idle ELSE @]
  /\ net' = (net \ msgs) \cup PushedBack(ledger'[a], a, b)

FinishSync(a, b, msgs) ==
  /\ session' = [session EXCEPT ![a][b] = Idle]
  /\ net' = (net \ msgs) \cup PushedBack(ledger'[a], a, b)

PullAnswered(m) ==
  /\ m \in net /\ m.kind = "reply"
  /\ session[m.to][m.from].stage = "pulling"
  /\ IngestMany(m.to, m.blocks)
  /\ FinishSync(m.to, m.from, {m})
  /\ UNCHANGED <<block, disk, joined, schema, crashes, imports>>

\* The request, its answer, or too much time was lost: the RPC entry is gone,
\* a late answer finds nobody waiting.
PullTimeout(a, b) ==
  /\ session[a][b].stage = "pulling"
  /\ UNCHANGED ledger
  /\ FinishSync(a, b, {m \in net : \/ m.kind = "pull"  /\ m.from = a /\ m.to = b
                                   \/ m.kind = "reply" /\ m.to = a /\ m.from = b})
  /\ UNCHANGED <<block, disk, joined, schema, crashes, imports>>

-----------------------------------------------------------------------------
(***************************************************************************)
(* joinNetwork: a node that does not have the network asks a member for a  *)
(* clone bundle.  fullResync: every block of m is asked for and ingested,  *)
(* then the clone bundle of m is asked for and imported too.               *)
(***************************************************************************)
JoinNetwork(n, m) ==
  /\ n \notin joined /\ m \in joined
  /\ imports < MaxImport /\ Quiet
  /\ imports' = imports + 1
  /\ net' = net \cup {AskClone(n, m)}
  /\ UNCHANGED <<block, ledger, disk, joined, schema, session, crashes>>

FullResync(n, m) ==
  /\ n # m /\ {n, m} \subseteq joined
  /\ imports < MaxImport /\ Quiet
  /\ imports' = imports + 1
  /\ net' = net \cup {AskAll(n, m)}
  /\ UNCHANGED <<block, ledger, disk, joined, schema, session, crashes>>

\* The full_resync handler fails as a whole when one row cannot be deserialised:
\* the caller gives up before it asks for the bundle.
ServeAll(m) ==
  LET r == ledger[m.to]
  IN  /\ m \in net /\ m.kind = "full_resync"
      /\ net' = (net \ {m}) \cup
           (IF Unreadable(r, Stored(r)) THEN {} ELSE {All(m.to, m.from, Carry(r, Stored(r)))})
      /\ UNCHANGED <<block, ledger, disk, joined, schema, session, crashes, imports>>

AllAnswered(m) ==
  /\ m \in net /\ m.kind = "all"
  /\ IngestMany(m.to, m.blocks)
  /\ net' = (net \ {m}) \cup {AskClone(m.to, m.from)}
  /\ UNCHANGED <<block, disk, joined, schema, session, crashes, imports>>

\* handleCloneBundle exports the databases it has in memory, rows as they are.
ServeClone(m) ==
  /\ m \in net /\ m.kind = "clone"
  /\ net' = (net \ {m}) \cup {Bundle(m.to, m.from, ledger[m.to], schema[m.to])}
  /\ UNCHANGED <<block, ledger, disk, joined, schema, session, crashes, imports>>

(***************************************************************************)
(* importClonedBundle: the databases of the bundle replace those of the    *)
(* node, its files are unlinked first and written again only by debounced  *)
(* saves, then rebuildFromLog resets is_applied and applies again every    *)
(* block its tables accept, without asking for its parents.  The rebuild   *)
(* gives up before changing anything when a row cannot be deserialised.    *)
(***************************************************************************)
Rebuilt(r, tables) ==
  IF Unreadable(r, Stored(r)) THEN r
  ELSE [r EXCEPT !.applied = {x \in Stored(r) : Appliable(r.row[x], x, tables)}]

ImportBundle(m) ==
  /\ m \in net /\ m.kind = "bundle"
  /\ ledger' = [ledger EXCEPT ![m.to] = Rebuilt(m.replica, m.schema)]
  /\ disk'   = [disk EXCEPT ![m.to] = EmptyReplica]
  /\ schema' = [schema EXCEPT ![m.to] = m.schema]
  /\ joined' = joined \cup {m.to}
  /\ net'    = net \ {m}
  /\ UNCHANGED <<block, session, crashes, imports>>

\* A connection breaks, or a request is given up before its answer comes: what
\* it carried is not retransmitted.  (A blocks_pull is given up by PullTimeout.)
Lose(m) ==
  /\ m \in net /\ m.kind \notin {"pull", "reply"}
  /\ net' = net \ {m}
  /\ UNCHANGED <<block, ledger, disk, joined, schema, session, crashes, imports>>

-----------------------------------------------------------------------------
\* A debounced save of the ledger domain completes.  Only a crash reads the
\* file, so it is followed while a crash is left in the bound.
Persist(n) ==
  /\ n \in joined
  /\ crashes < MaxCrash
  /\ disk[n] # ledger[n]
  /\ disk' = [disk EXCEPT ![n] = ledger[n]]
  /\ UNCHANGED <<block, ledger, joined, schema, net, session, crashes, imports>>

\* The process dies and starts again from its last file; its sockets, and
\* what travelled on them towards it, are gone.
Crash(n) ==
  /\ n \in joined
  /\ crashes < MaxCrash
  /\ crashes' = crashes + 1
  /\ ledger'  = [ledger EXCEPT ![n] = disk[n]]
  /\ session' = [session EXCEPT ![n] = [b \in Node |-> Idle]]
  /\ net' = {m \in net : m.to # n /\ ~(m.kind \in Request /\ m.from = n)}
  /\ UNCHANGED <<block, disk, joined, schema, imports>>

Next ==
  \/ \E n \in Node, record \in Record, connected \in SUBSET joined :
        /\ n \notin connected
        /\ \/ CreateBlock(n, record, connected)
           \/ EraseSubject(n, record, connected)
  \/ \E m \in net :
        \/ DeliverPush(m) \/ ServePull(m) \/ PullAnswered(m)
        \/ ServeAll(m) \/ AllAnswered(m) \/ ServeClone(m) \/ ImportBundle(m)
        \/ Lose(m)
  \/ \E a, b \in Node :
        \/ Handshake(a, b) \/ PullFrom(a, b) \/ PullTimeout(a, b)
        \/ JoinNetwork(a, b) \/ FullResync(a, b)
  \/ \E n \in Node : InstallApp(n) \/ Persist(n) \/ Crash(n)

Spec == Init /\ [][Next]_vars

(***************************************************************************)
(* What the runtime goes on doing: messages on an open connection arrive,  *)
(* a request is answered or its timer fires, and the discovery of a peer   *)
(* starts syncWithPeer again and again.                                    *)
(***************************************************************************)
AnswerArrives(a, b) == \E m \in net : PullAnswered(m) /\ m.to = a /\ m.from = b

Fairness ==
  /\ WF_vars(\E m \in net : DeliverPush(m) \/ ServePull(m))
  /\ WF_vars(\E m \in net : ServeAll(m) \/ AllAnswered(m) \/ ServeClone(m) \/ ImportBundle(m))
  /\ \A a, b \in Node :
        /\ WF_vars(Handshake(a, b))
        /\ WF_vars(PullFrom(a, b))
        /\ WF_vars(PullTimeout(a, b) \/ AnswerArrives(a, b))

FairSpec == Spec /\ Fairness

\* A network that also serves every push and pull in time, again and again.
GoodNetwork ==
  /\ SF_vars(\E m \in net : DeliverPush(m))
  /\ \A a, b \in Node :
        /\ SF_vars(\E m \in net : ServePull(m) /\ m.from = a /\ m.to = b)
        /\ SF_vars(AnswerArrives(a, b))

GoodSpec == FairSpec /\ GoodNetwork

-----------------------------------------------------------------------------
CarriedOK(carried) ==
  /\ DOMAIN carried \subseteq Made
  /\ \A x \in DOMAIN carried : carried[x] \in {"plain", "shredded"}

MessageOK(m) ==
  \/ m.kind = "push"  /\ m.to \in Node /\ CarriedOK(m.blocks)
  \/ m.kind = "pull"  /\ {m.from, m.to} \subseteq Node
                      /\ m.tips \subseteq BlockId \cup {Genesis}
  \/ m.kind \in {"reply", "all"} /\ {m.from, m.to} \subseteq Node /\ CarriedOK(m.blocks)
  \/ m.kind \in {"full_resync", "clone"} /\ {m.from, m.to} \subseteq Node
  \/ m.kind = "bundle" /\ {m.from, m.to} \subseteq Node /\ m.schema \subseteq Record
                       /\ m.replica \in Replica /\ Stored(m.replica) \subseteq Made

\* The variables have their types; only blocks that were created are stored,
\* shipped or named as parents, a parent is older than its child, and the ghost of
\* the ancestors is closed.
TypeOK ==
  /\ block \in Seq(Content) /\ Len(block) <= MaxBlock
  /\ \A x \in Made : /\ Parents(x) \cup Past(x) \subseteq 0..(x - 1)
                     /\ Parents(x) \ {Genesis} \subseteq Past(x)
                     /\ \A y \in Past(x) : Past(y) \subseteq Past(x)
  /\ ledger \in [Node -> Replica] /\ \A n \in Node : Stored(ledger[n]) \subseteq Made
  /\ disk   \in [Node -> Replica] /\ \A n \in Node : Stored(disk[n])   \subseteq Made
  /\ joined \subseteq Node
  /\ schema \in [Node -> SUBSET Record]
  /\ \A m \in net : MessageOK(m)
  /\ session \in [Node -> [Node -> [stage : {"idle", "shaken", "pulling"},
                                    peerTips : SUBSET (BlockId \cup {Genesis})]]]
  /\ crashes \in 0..MaxCrash /\ imports \in 0..MaxImport

\* Every stored block is a tip or an ancestor of a tip, and tips are stored.
Covered(r) ==
  /\ r.tips \subseteq Stored(r) \cup {Genesis}
  /\ \A x \in Stored(r) : \E t \in r.tips \ {Genesis} : x = t \/ x \in Past(t)

\* dag_tips covers event_log on every node, in memory, on disk and in a clone
\* bundle, in whatever order blocks were ingested (updateTips deletes parents it
\* may not have, and may delete a child's parent before the child arrives).
TipsCoverLog ==
  /\ \A n \in Node : Covered(ledger[n]) /\ Covered(disk[n])
  /\ \A m \in net : m.kind = "bundle" => Covered(m.replica)

\* A new block descends from everything its author stored when it created it,
\* although createBlock only names the tips: the log is a causal history.
AuthorsSawPast == \A x \in Made : block[x].seen \subseteq Past(x)

\* The in-memory databases of n are replaced as a whole.
Replaced(n) == Crash(n) \/ \E m \in net : m.to = n /\ ImportBundle(m)

\* The log is append-only: unless the whole replica is replaced a stored row is
\* never removed and changes only into its tombstone, and a tombstone never
\* changes back, whatever echo, late push or answer comes in.
LogAppendOnly ==
  [][\A n \in Node, x \in BlockId :
        \/ Replaced(n)
        \/ ledger[n].row[x] = "absent"
        \/ ledger'[n].row[x] \in {ledger[n].row[x], "shredded"}]_vars

\* projector.drain leaves no block of a core table behind: one that is stored
\* and not applied misses a parent.  (Blocks of an application's tables wait
\* for its installation and for a later ingestion.)
CoreNeverStranded ==
  \A n \in Node : \A x \in Stored(ledger[n]) \ ledger[n].applied :
     \/ block[x].record \in AppRecord
     \/ \E p \in Parents(x) \ {Genesis} : p \notin Stored(ledger[n])

\* Where an erasure was carried out: a replica holds a SHRED as its author wrote it,
\* in cipher text, only if it is the author's or comes from a file or a copy of it.
\* There every block about the subject that the SHRED saw is a tombstone.
Wiped(b, r) ==
  \A s \in Stored(r) : b[s].type = "SHRED" /\ r.row[s] = "cipher" =>
    \A y \in b[s].seen :
       b[y].type = "MUTATION" /\ b[y].record = b[s].record => r.row[y] = "shredded"

\* What a node has erased stays erased wherever its replica goes: no late push, echo
\* or answer brings a payload back, and neither a restart from ledger.enc nor a clone
\* bundle holds the SHRED without the tombstones it stands for.
EraserStaysErased ==
  /\ \A n \in Node : Wiped(block, ledger[n]) /\ Wiped(block, disk[n])
  /\ \A m \in net : m.kind = "bundle" => Wiped(block, m.replica)

\* A replica holds the parents of every block it stores.
Closed(r) == \A x \in Stored(r) : Parents(x) \ {Genesis} \subseteq Stored(r)

\* getBlocksSince omits nothing the requester lacks, when neither side has a hole
\* and the requester still has the tips it sent (a crash or an import in between
\* takes them away): with the answer it has all that the peer stored, or the answer
\* is the empty one of a peer that holds rows it cannot deserialise.
PullAnswerComplete ==
  [][\A m \in net :
       LET a == ledger[m.from]
           b == ledger[m.to]
       IN  m.kind = "pull" /\ m \notin net' /\ Closed(a) /\ Closed(b)
               /\ m.tips \subseteq Stored(a) \cup {Genesis} =>
             \A reply \in net' \ net : reply.kind = "reply" =>
               \/ DOMAIN reply.blocks = {} /\ Unreadable(b, Stored(b))
               \/ Stored(b) \subseteq Stored(a) \cup DOMAIN reply.blocks]_vars

\* syncWithPeer ends: the answer, an error or the 20 s timer releases the
\* in-flight mark of the peer.
SessionsEnd == \A a, b \in Node : session[a][b].stage # "idle" ~> session[a][b].stage = "idle"

-----------------------------------------------------------------------------
(***************************************************************************)
(* The ledger implements replicas of one causal history.                   *)
(***************************************************************************)
Causal == INSTANCE CausalLedger WITH
            past    <- [i \in DOMAIN block |-> block[i].past],
            known   <- [n \in Node |-> Stored(ledger[n])],
            saved   <- [n \in Node |-> Stored(disk[n])],
            offered <- {Stored(m.replica) : m \in {b \in net : b.kind = "bundle"}}

\* Every step of every node is a step of the causal history, or none: no block is
\* stored that was not made, none vanishes but with the whole replica, and a new
\* one descends from all that its author stored.
ImplementsCausalLedger == Causal!Spec

-----------------------------------------------------------------------------
\* What the documentation says of erasure: "L'istruzione si replica su tutti i
\* nodi" (README.md:102).  A node that has stored and applied the SHRED holds no
\* readable payload about the subject among the blocks the SHRED has seen.
ErasureReplicates ==
  \A n \in Node, s \in Made :
     block[s].type = "SHRED" /\ s \in ledger[n].applied =>
       \A y \in block[s].seen \cap Stored(ledger[n]) :
          block[y].type = "MUTATION" /\ block[y].record = block[s].record
            => ledger[n].row[y] = "shredded"

\* "I nodi si scoprono da soli sulla rete locale e sincronizzano il registro fra
\* loro" (README.md:33): in the end all members store the same blocks.
Convergence ==
  <>[](\A a, b \in joined : Stored(ledger[a]) = Stored(ledger[b]))
=============================================================================
