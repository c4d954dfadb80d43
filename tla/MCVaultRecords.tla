--------------------------- MODULE MCVaultRecords ---------------------------
(***************************************************************************)
(* Three cards of two offerings over two instants and one before the year   *)
(* 2000: enough for two cards that compete for one successor, for a chain   *)
(* and for a cycle.  The limits are small enough to be reached.             *)
(***************************************************************************)
EXTENDS VaultRecords, TLC

CONSTANTS x, y, z,         \* cards
          o1, o2,          \* offerings
          active, closed, upgraded,
          r1

MCCardIds == {x, y, z}
MCOfferings == {o1, o2}
MCRetiring == {closed}
MCOtherStates == {upgraded}
MCRecordIds == {r1}

\* What a state has beside cards that open alone: records of cards, values that
\* are too long, and a clock or times before the year 2000.
MCExtras ==
  LET early == {r \in TimedRecords : r.created < Year2000 \/ r.updated < Year2000}
  IN Cardinality(children) + Cardinality(aggregates) + Cardinality(attempts)
     + Cardinality({c \in DOMAIN cards : ~cards[c].fits})
     + (IF early = {} /\ now >= Year2000 THEN 0 ELSE 1)

\* Bound: one of these at a time, with two cards at most.  A step from such a
\* state is taken, and checked, even if it leads beyond the bound.
MCConstraint == MCExtras <= (IF Cardinality(DOMAIN cards) <= 2 THEN 1 ELSE 0)

\* Cards are interchangeable, and so are offerings; every property is a safety
\* property.
MCSymmetry == Permutations(MCCardIds) \cup Permutations(MCOfferings)
=============================================================================
