--------------------------- MODULE MCBlockLedger ---------------------------
(***************************************************************************)
(* Constants of the ledger for TLC: the owner and a member, a record of a  *)
(* core table and one of an application's.                                 *)
(***************************************************************************)
EXTENDS BlockLedger

CONSTANTS n1, n2, person, note

MCNode2   == {n1, n2}
MCRecord  == {person}
MCRecords == {person, note}
MCApp     == {note}
NoApp     == {}
=============================================================================
