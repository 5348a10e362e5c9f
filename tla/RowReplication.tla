--------------------------- MODULE RowReplication ---------------------------
(***************************************************************************)
(* What the blocks of one row do to that row on every node: the local      *)
(* write and the block made of it (db.js, block_factory.js, dag_tips.js),  *)
(* the projector (projector.js), the application of a block to a table     *)
(* (block_applier.js) with the merge field by field (field_crdt_merger.js, *)
(* json_crdt.js), and the rebuild of a table from the log                  *)
(* (state_rebuilder.js).  A row has one plain field and one field with a   *)
(* JSON array, of which only the set of its items matters here.            *)
(*                                                                         *)
(* The blocks of the other records of the table stand between those of the *)
(* row: a block names as its parents the tips of the whole log, and it is  *)
(* applied once those are stored, whether or not they were.                *)
(*                                                                         *)
(* A block carries the time of the hybrid clock, a string; a row carries   *)
(* last_modified, a number.  Comparing the two is never true, so a block   *)
(* is never the newer one, and nothing it would overwrite or delete is     *)
(* overwritten or deleted.                                                 *)
(***************************************************************************)
EXTENDS Naturals, FiniteSets, Sequences, SequencesExt

CONSTANTS Node,       \* nodes of the network
          Writer,     \* those where records are written
          Value,      \* values of the plain field
          Null,       \* its absence
          Item,       \* items of the JSON array
          MaxWrites,  \* blocks of the table and clones, together (a bound)
          MaxImports  \* clones of a network taken (a bound)

ASSUME RowsAssumption == /\ Writer \subseteq Node /\ Null \notin Value /\ Value # {}
                         /\ MaxWrites \in Nat \ {0} /\ MaxImports \in Nat

VARIABLES blocks,   \* the blocks of the table, in the order they were made
          present,  \* per node: the blocks in its event_log
          tips,     \* per node: its dag_tips (none: GENESIS)
          applied,  \* per node: those with is_applied = 1
          table,    \* per node: the row, or NoRow
          preset,   \* every database is created with the row in it
          imports,  \* clones taken
          sealed,   \* per node: its rows of event_log with an encrypted payload
          gapped    \* nodes that applied a block ahead of one it descends from

rowVars == <<blocks, present, tips, applied, table, preset, imports, sealed, gapped>>

Rows == [plain : Value \cup {Null}, array : SUBSET Item]
NoRow == [plain |-> Null, array |-> {}, absent |-> TRUE]
Default == [plain |-> CHOOSE v \in Value : TRUE, array |-> {}]

\* past: the blocks that one descends from (what parent_ids lead back to).
Ids == 1..MaxWrites
Block == [writer : Writer, kind : {"UPSERT"}, payload : Rows,
          parents : SUBSET Ids, past : SUBSET Ids]
         \cup [writer : Writer, kind : {"DELETE", "OTHER"},
               parents : SUBSET Ids, past : SUBSET Ids]

RowTypeOK ==
  /\ blocks \in Seq(Block) /\ Len(blocks) <= MaxWrites
  /\ present \in [Node -> SUBSET (1..Len(blocks))]
  /\ tips \in [Node -> SUBSET (1..Len(blocks))]
  /\ applied \in [Node -> SUBSET (1..Len(blocks))]
  /\ table \in [Node -> Rows \cup {NoRow}]
  /\ imports \in 0..MaxImports
  /\ preset \in BOOLEAN
  /\ sealed \in [Node -> SUBSET (1..Len(blocks))]
  /\ gapped \subseteq Node

RowInit ==
  /\ blocks = <<>>
  /\ present = [n \in Node |-> {}] /\ tips = [n \in Node |-> {}]
  /\ applied = [n \in Node |-> {}] /\ sealed = [n \in Node |-> {}]
  /\ preset \in BOOLEAN /\ imports = 0 /\ gapped = {}
  /\ table = [n \in Node |-> IF preset THEN Default ELSE NoRow]

-----------------------------------------------------------------------------
\* Mutant: an array is replaced by the one of the block.
MergeReplacing(row, payload) ==
  [plain |-> IF row.plain = Null THEN payload.plain ELSE row.plain,
   array |-> payload.array]

\* mergeFieldDeltas, for a block that is not newer: a field that is empty is
\* filled, an array takes the items it lacks, the rest stays.
MergeFieldDeltas(row, payload) ==
  [plain |-> IF row.plain = Null THEN payload.plain ELSE row.plain,
   array |-> row.array \cup payload.array]

\* _applyToTable: a deletion is never newer than the row it finds, and the
\* block of another record leaves this row alone.
ApplyToTable(row, b) ==
  CASE b.kind # "UPSERT"                -> row
    [] b.kind = "UPSERT" /\ row = NoRow -> b.payload
    [] OTHER                            -> MergeFieldDeltas(row, b.payload)

\* What the next block of a node descends from: its tips, and what they do.
Past(n) == tips[n] \cup UNION {blocks[i].past : i \in tips[n]}

\* A local write and createBlock: the row is written as it is, the block names
\* the tips and becomes the only one; it is born applied and kept encrypted.
WriteRow(n, b, row) ==
  /\ Len(blocks) + imports < MaxWrites
  /\ LET new == Len(blocks) + 1
     IN /\ blocks' = Append(blocks, b)
        /\ present' = [present EXCEPT ![n] = @ \cup {new}]
        /\ tips' = [tips EXCEPT ![n] = {new}]
        /\ applied' = [applied EXCEPT ![n] = @ \cup {new}]
        /\ sealed' = [sealed EXCEPT ![n] = @ \cup {new}]
        /\ table' = [table EXCEPT ![n] = row]
  /\ UNCHANGED <<preset, imports, gapped>>

Upsert(n) ==
  \E row \in Rows :
    WriteRow(n, [writer |-> n, kind |-> "UPSERT", payload |-> row,
                 parents |-> tips[n], past |-> Past(n)], row)

Delete(n) ==
  /\ table[n] # NoRow
  /\ WriteRow(n, [writer |-> n, kind |-> "DELETE",
                  parents |-> tips[n], past |-> Past(n)], NoRow)

\* Another record of the table is written.
WriteOther(n) ==
  WriteRow(n, [writer |-> n, kind |-> "OTHER",
               parents |-> tips[n], past |-> Past(n)], table[n])

\* The blocks of S applied one after the other.
ApplyAll(row, q) == FoldLeft(LAMBDA r, i : ApplyToTable(r, blocks[i]), row, q)

Arranged(S, Before(_, _)) ==
  {q \in [1..Cardinality(S) -> S] :
     \A i, j \in DOMAIN q : i < j => q[i] # q[j] /\ ~Before(q[j], q[i])}

\* By created_at: the order of making only for the blocks of one node.
TimeOrders(S) == Arranged(S, LAMBDA i, j : i < j /\ blocks[i].writer = blocks[j].writer)

\* topologicalSort: any order that puts the parents first.
CausalOrders(S) == Arranged(S, LAMBDA i, j : i \in blocks[j].parents)

\* updateTips for each block of S in the order it arrives: a parent that comes
\* after its child stays a tip.
MoreTips(S) ==
  LET ends == {i \in S : \A j \in S : i \notin blocks[j].parents}
  IN {ends \cup late : late \in SUBSET (S \ ends)}
TipsAfter(old, S) ==
  {(old \ UNION {blocks[i].parents : i \in S}) \cup new : new \in MoreTips(S)}

\* _canApply: the parents are in the log.
CanApply(i, all) == blocks[i].parents \subseteq all

\* ingestMany and drain: blocks arrive from a node that has them, before or
\* after their parents; those whose parents are present are applied.
Receive(n, m) ==
  \E S \in SUBSET (present[m] \ present[n]) :
    LET all == present[n] \cup S
        waiting == {i \in all \ applied[n] : CanApply(i, all)}
    IN /\ S # {}
       /\ present' = [present EXCEPT ![n] = all]
       /\ \E left \in TipsAfter(tips[n], S) : tips' = [tips EXCEPT ![n] = left]
       /\ applied' = [applied EXCEPT ![n] = @ \cup waiting]
       /\ \E q \in TimeOrders(waiting) :
            table' = [table EXCEPT ![n] = ApplyAll(@, q)]
       /\ gapped' = IF \E i \in waiting : ~(blocks[i].past \subseteq all)
                    THEN gapped \cup {n} ELSE gapped
       /\ UNCHANGED <<blocks, preset, imports, sealed>>

\* importClonedBundle: the databases of another node replace those of this one.
\* rebuildFromLog then empties the table and applies every block to it again,
\* also one whose parents are missing; it gives up at its first step when a row
\* has its payload encrypted, and leaves the databases as they came.
Import(n, m) ==
  /\ n # m
  /\ imports < MaxImports /\ Len(blocks) + imports < MaxWrites
  /\ imports' = imports + 1
  /\ present' = [present EXCEPT ![n] = present[m]]
  /\ tips' = [tips EXCEPT ![n] = tips[m]]
  /\ sealed' = [sealed EXCEPT ![n] = sealed[m]]
  /\ IF sealed[m] # {} \/ present[m] = {}
     THEN /\ table' = [table EXCEPT ![n] = table[m]]
          /\ applied' = [applied EXCEPT ![n] = applied[m]]
          /\ gapped' = IF m \in gapped THEN gapped \cup {n} ELSE gapped \ {n}
     ELSE /\ \E q \in CausalOrders(present[m]) :
               table' = [table EXCEPT ![n] = ApplyAll(NoRow, q)]
          /\ applied' = [applied EXCEPT ![n] = present[m]]
          /\ gapped' = IF \E i \in present[m] : ~(blocks[i].past \subseteq present[m])
                       THEN gapped \cup {n} ELSE gapped \ {n}
  /\ UNCHANGED <<blocks, preset>>

RowNext ==
  \/ \E n \in Writer : Upsert(n) \/ Delete(n) \/ WriteOther(n)
  \/ \E n, m \in Node : Receive(n, m) \/ Import(n, m)

RowSpec == RowInit /\ [][RowNext]_rowVars

-----------------------------------------------------------------------------
\* The blocks that write the row, who made them, and the nodes that only
\* received what they have.
Upserts == {i \in 1..Len(blocks) : blocks[i].kind = "UPSERT"}
Written == {blocks[i].writer : i \in Upserts}
InTurn == \A i, j \in Upserts : i < j => i \in blocks[j].past
Readers == {n \in Node : sealed[n] = {}}

\* Two nodes that only received blocks agree on the array of the row once they
\* applied the same ones, whatever the order in which they did, whatever was
\* missing then, and whichever of them was cloned.  They agree on all of the
\* row when one node wrote it, each time knowing what it had written, no
\* database was created with the row, and neither applied a block ahead of one
\* it descends from.
ReadersAgree ==
  \A n, m \in Readers :
    applied[n] = applied[m] =>
      /\ table[n].array = table[m].array
      /\ ~preset /\ {n, m} \cap gapped = {} /\ InTurn /\ Cardinality(Written) = 1
           => table[n] = table[m]

\* A row written on one node is, once its blocks are applied everywhere, the
\* same on every node: the rule of the quorum replicates to all of them.
RuleReplicates ==
  (Cardinality(Written) = 1 /\ \A n \in Node : applied[n] = 1..Len(blocks))
    => \A n, m \in Node : table[n] = table[m]
=============================================================================
