--------------------------- MODULE MCEvidenceScripts ---------------------------
(***************************************************************************)
(* Two runs of the scripts, one after the other or at once, or one of the  *)
(* holdings proof, after work that has left a candidate in the queue and   *)
(* reports that say passed.                                                *)
(***************************************************************************)
EXTENDS EvidenceScripts, TLC

CONSTANTS d1, d2

BothDates == {d1, d2}
OneLeftover == {[by |-> 0, relation |-> "SUPPLY_CHAIN"]}

AllScripts   == Scripts
HoldingsOnly == {"holdings"}
DateSymmetry == Permutations(BothDates)
=============================================================================
