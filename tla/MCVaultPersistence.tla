------------------------- MODULE MCVaultPersistence -------------------------
(***************************************************************************)
(* Two sessions, two creates that race for one vault, a save of each kind,  *)
(* and the program's own three backups.  A write that fails after its       *)
(* rotation rotates too, so the backups fill up and the oldest is dropped.  *)
(***************************************************************************)
EXTENDS VaultPersistence, TLC

CONSTANTS s1, s2,            \* sessions
          c1, c2,            \* creates
          a1,                \* a save with an audit event
          u1                 \* a save without an audit event

MCSessions == {s1, s2}
MCMutations == {c1, c2, a1, u1}
MCCreations == {c1, c2}
MCAudited == {a1}
=============================================================================
