-------------------------- MODULE MCCatalogInstall --------------------------
(***************************************************************************)
(* Three snapshots: the one installed, the one it replaced and one more a   *)
(* rollback could wrongly go to.                                            *)
(***************************************************************************)
EXTENDS CatalogReaders, TLC

CONSTANTS a, b, c      \* snapshots

MCSnapshots == {a, b, c}

\* Snapshots are interchangeable; every property is a safety property.
MCSymmetry == Permutations(MCSnapshots)
=============================================================================
