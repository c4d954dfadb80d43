---------------------------- MODULE PrivateImport ----------------------------
(***************************************************************************)
(* Importing cards from private source files (private_import.py with        *)
(* VaultSession.reconcile_cards): a preview shows a plan, its approval is    *)
(* applied under the import lock, and a journal says whether an apply that   *)
(* died has to be made again.                                               *)
(*                                                                          *)
(* A digest is what it is taken of: a plan is the contents of the sources    *)
(* and the revision of the vault.  The identity of an imported card is the   *)
(* contents it came from with its number, as the code's hash is of both.     *)
(***************************************************************************)
EXTENDS Integers, FiniteSets

CONSTANTS
  Runs,          \* importer processes
  Contents,      \* what the source files may hold: sets of observations
  CardIds,       \* ids of the vault's cards
  Pans,          \* card numbers
  Lifecycles, Offerings, Notes, Unsaid,
  MaxVaultRev    \* bound of the saves made to the vault

Observation == [pan : Pans, lifecycle : Lifecycles, offering : Offerings \cup {Unsaid},
                note : Notes \cup {Unsaid}]
ASSUME ContentsAssumption == \A s \in Contents : s # {} /\ s \subseteq Observation
ASSUME ImportBound == MaxVaultRev \in Nat
ASSUME ImportNone == Unsaid \notin Contents \cup Offerings \cup Notes \cup (Contents \X Pans)

VARIABLES
  sources,     \* the contents of the source files
  vaultRev,    \* the vault file's revision
  cards,       \* the cards in it
  journal,     \* the import journal, or Unsaid
  importer,    \* each run: where it is and what it knows
  lockedBy,    \* the run that holds the import lock, or Unsaid
  byHand,      \* history: cards added by hand
  written      \* history: contents whose cards a run has found in the vault or put there

importVars == <<sources, vaultRev, cards, journal, importer, lockedBy,
                byHand, written>>
vaultFile == <<vaultRev, cards>>
history == <<byHand, written>>

Plan == [src : Contents, rev : 0 .. MaxVaultRev]
ImportActions == {"consolidate_apply", "consolidate_recover"}
ImportPlaces == {"idle", "previewed", "parsed", "locked", "checked", "pending",
                 "consumed", "reconciled", "committed"}

Card == [pan : Pans, lifecycle : Lifecycles, note : Notes \cup {Unsaid},
         source : (Contents \X Pans) \cup {Unsaid},
         offering : Offerings \cup (Contents \X Pans)]
VaultCards == UNION {[D -> Card] : D \in SUBSET CardIds}
NoCards == [c \in {} |-> Unsaid]

\* A run's session has the revision and the cards of the vault when it was
\* opened; they are seen until they are reconciled.
Run == [at : ImportPlaces, src : Contents \cup {Unsaid}, rev : 0 .. MaxVaultRev,
        seen : VaultCards,
        approved : Plan \cup {Unsaid}, action : ImportActions \cup {Unsaid}]
IdleRun == [at |-> "idle", src |-> Unsaid, rev |-> 0, seen |-> NoCards,
            approved |-> Unsaid, action |-> Unsaid]

ImportTypeOK ==
  /\ sources \in Contents
  /\ vaultRev \in 0 .. MaxVaultRev
  /\ DOMAIN cards \subseteq CardIds /\ cards \in [DOMAIN cards -> Card]
  /\ journal \in [state : {"preview", "pending", "committed"}, plan : Plan,
                  binding : Contents, rev : 0 .. MaxVaultRev] \cup {Unsaid}
  /\ importer \in [Runs -> Run]
  /\ lockedBy \in Runs \cup {Unsaid}
  /\ byHand \subseteq DOMAIN cards
  /\ written \subseteq Contents

ImportInit ==
  /\ sources \in Contents
  /\ vaultRev = 0 /\ cards = NoCards
  /\ journal = Unsaid
  /\ importer = [p \in Runs |-> IdleRun]
  /\ lockedBy = Unsaid
  /\ byHand = {} /\ written = {}

-----------------------------------------------------------------------------
(* From observations to cards *)

\* Two observations of one card differ where both say something.
Disagree(a, b) ==
  \/ a.lifecycle # b.lifecycle
  \/ Unsaid \notin {a.offering, b.offering} /\ a.offering # b.offering
  \/ Unsaid \notin {a.note, b.note} /\ a.note # b.note

Said(values) == IF values \ {Unsaid} = {} THEN Unsaid ELSE CHOOSE v \in values \ {Unsaid} : TRUE

\* _cards: the observations of one number become one card; numbers about
\* which they disagree are left for review.
CardsOf(src) ==
  LET of(pan) == {o \in src : o.pan = pan}
      agreed == {pan \in {o.pan : o \in src} :
                   \A a, b \in of(pan) : ~Disagree(a, b)}
  IN {[pan |-> pan, source |-> <<src, pan>>,
       lifecycle |-> (CHOOSE o \in of(pan) : TRUE).lifecycle,
       offering |-> Said({o.offering : o \in of(pan)}),
       note |-> Said({o.note : o \in of(pan)})] : pan \in agreed}

-----------------------------------------------------------------------------
(* reconcile_cards *)

BySource(cs, i) == {c \in DOMAIN cs : cs[c].source = i.source}
ByPan(cs, i) == {c \in DOMAIN cs : cs[c].pan = i.pan}

\* Variant: a card is found again by its source alone.
MatchesSourceOnly(cs, i) == BySource(cs, i)

Matches(cs, i) == IF BySource(cs, i) # {} THEN BySource(cs, i) ELSE ByPan(cs, i)

\* The vault can be told apart by source and by number.
Unambiguous(cs) ==
  \A c, d \in DOMAIN cs : c # d =>
    cs[c].pan # cs[d].pan /\ (cs[c].source # Unsaid => cs[c].source # cs[d].source)

\* Variant: a stored note gives way to the imported one.
CompatibleButNote(card, i) ==
  /\ card.pan = i.pan /\ card.lifecycle = i.lifecycle
  /\ card.source \in {Unsaid, i.source}
  /\ i.offering # Unsaid => i.offering = card.offering

\* Nothing stored would have to change.
Compatible(card, i) ==
  /\ card.pan = i.pan /\ card.lifecycle = i.lifecycle
  /\ card.source \in {Unsaid, i.source}
  /\ i.offering # Unsaid => i.offering = card.offering
  /\ Unsaid \notin {card.note, i.note} => card.note = i.note

Reconcilable(cs, incoming) ==
  /\ Unambiguous(cs)
  /\ \A i \in incoming : \A c \in Matches(cs, i) : Compatible(cs[c], i)

Merged(card, i) ==
  [card EXCEPT !.source = i.source, !.note = IF i.note = Unsaid THEN card.note ELSE i.note]

NewCard(i) ==
  [pan |-> i.pan, lifecycle |-> i.lifecycle, note |-> i.note, source |-> i.source,
   offering |-> IF i.offering = Unsaid THEN i.source ELSE i.offering]

\* The vault's cards after a batch; ids gives every new card its id.
Reconciled(cs, incoming, ids) ==
  LET new == {i \in incoming : Matches(cs, i) = {}}
      bound(c) == {i \in incoming : c \in Matches(cs, i)}
  IN [c \in DOMAIN cs \cup {ids[i] : i \in new} |->
        IF c \notin DOMAIN cs THEN NewCard(CHOOSE i \in new : ids[i] = c)
        ELSE IF bound(c) = {} THEN cs[c]
        ELSE Merged(cs[c], CHOOSE i \in bound(c) : TRUE)]

\* Fresh ids for the new cards, one way (a renaming of ids changes nothing).
FreshIds(cs, incoming) ==
  LET new == {i \in incoming : Matches(cs, i) = {}}
      free == CardIds \ DOMAIN cs
  IN {f \in [new -> free] : \A i, j \in new : f[i] = f[j] => i = j}

-----------------------------------------------------------------------------
(* Surroundings *)

SourcesChange ==
  /\ sources' \in Contents \ {sources}
  /\ UNCHANGED <<vaultFile, journal, importer, lockedBy, history>>

\* A card is added in the browser, with any number and without a source.
AddByHand(c) ==
  /\ vaultRev < MaxVaultRev /\ c \in CardIds \ DOMAIN cards
  /\ \E o \in Observation :
       /\ o.offering # Unsaid
       /\ cards' = [d \in DOMAIN cards \cup {c} |->
            IF d = c THEN [pan |-> o.pan, lifecycle |-> o.lifecycle, note |-> o.note,
                           source |-> Unsaid, offering |-> o.offering]
            ELSE cards[d]]
  /\ vaultRev' = vaultRev + 1
  /\ byHand' = byHand \cup {c}
  /\ UNCHANGED <<sources, journal, importer, lockedBy, written>>

-----------------------------------------------------------------------------
(* Preview *)

Step(p, at) == importer' = [importer EXCEPT ![p].at = at]
End(p) == importer' = [importer EXCEPT ![p] = IdleRun]

\* A preview keeps the journal of an apply that died after its vault write:
\* that one is pending, for an older revision.
MayJournalPreview(rev) ==
  journal # Unsaid /\ journal.state = "pending" => journal.rev = rev

\* run without apply; the import lock is not taken.
Preview(p) ==
  /\ importer[p].at = "idle"
  /\ CardsOf(sources) # {}
  /\ importer' = [importer EXCEPT ![p] =
       IF MayJournalPreview(vaultRev)
       THEN [IdleRun EXCEPT !.at = "previewed", !.src = sources, !.rev = vaultRev]
       ELSE IdleRun]
  /\ UNCHANGED <<sources, vaultFile, journal, lockedBy, history>>

JournalEntry(state, plan, binding, rev) ==
  [state |-> state, plan |-> plan, binding |-> binding, rev |-> rev]

\* _write_journal, which replaces the current journal in one rename.
JournalPreview(p) ==
  LET r == importer[p] IN
  /\ r.at = "previewed"
  /\ journal' = JournalEntry("preview", [src |-> r.src, rev |-> r.rev], r.src, r.rev)
  /\ End(p)
  /\ UNCHANGED <<sources, vaultFile, lockedBy, history>>

-----------------------------------------------------------------------------
(* Apply *)

\* Plans a preview may have shown by now.
ShownPlans == [src : Contents, rev : 0 .. vaultRev]

PendingPlan == IF journal # Unsaid /\ journal.state = "pending" THEN {journal.plan} ELSE {}

\* The session is opened, the sources are read for the first time, and the
\* approval of a plan has given an authorization on this revision.
BeginApply(p, approved, action) ==
  /\ importer[p].at = "idle"
  /\ CardsOf(sources) # {}
  /\ importer' = [importer EXCEPT ![p] =
       [at |-> "parsed", src |-> sources, rev |-> vaultRev, seen |-> cards,
        approved |-> approved, action |-> action]]
  /\ UNCHANGED <<sources, vaultFile, journal, lockedBy, history>>

AcquireImport(p) ==
  /\ importer[p].at = "parsed"
  /\ lockedBy = Unsaid
  /\ lockedBy' = p
  /\ Step(p, "locked")
  /\ UNCHANGED <<sources, vaultFile, journal, history>>

\* Variant: the plan is compared with the first reading of the sources alone.
ApprovedBeforeLock(p) ==
  LET r == importer[p] IN
  IF PendingPlan # {}
  THEN journal.plan = r.approved /\ journal.binding = sources
  ELSE r.approved = [src |-> r.src, rev |-> r.rev]

\* The sources, read again, are the approved ones; or the approved plan is
\* the pending one and the sources are its own.
Approved(p) ==
  LET r == importer[p] IN
  IF PendingPlan # {}
  THEN journal.plan = r.approved /\ journal.binding = sources
  ELSE r.approved = [src |-> r.src, rev |-> r.rev] /\ sources = r.src

\* The action the authorization must name is settled here too.
CheckApply(p) ==
  /\ importer[p].at = "locked"
  /\ Approved(p)
  /\ importer' = [importer EXCEPT ![p].at = "checked", ![p].src = sources,
       ![p].action = IF @ = (IF PendingPlan # {} THEN "consolidate_recover"
                             ELSE "consolidate_apply") THEN @ ELSE Unsaid]
  /\ UNCHANGED <<sources, vaultFile, journal, lockedBy, history>>

\* Durable intent, before the vault is touched.
JournalPending(p) ==
  LET r == importer[p] IN
  /\ r.at = "checked"
  /\ journal' = JournalEntry("pending", r.approved, r.src, r.rev)
  /\ Step(p, "pending")
  /\ UNCHANGED <<sources, vaultFile, lockedBy, history>>

\* consume_consolidation: for this plan, this action, this revision.
ConsumeConsolidation(p) ==
  /\ importer[p].at = "pending"
  /\ importer[p].action # Unsaid
  /\ Step(p, "consumed")
  /\ UNCHANGED <<sources, vaultFile, journal, lockedBy, history>>

\* _persist: the file must be the one the session was opened on.
SaveCards(p, result) ==
  /\ vaultRev = importer[p].rev /\ vaultRev < MaxVaultRev
  /\ cards' = result
  /\ vaultRev' = vaultRev + 1

\* reconcile_cards goes by the session's cards and saves at once, unless they
\* need no change: then it returns without a look at the file, whatever that
\* has become.  A save that fails after its rename ends the run with the vault
\* written.
ReconcileCards(p, acknowledged) ==
  LET r == importer[p]
      incoming == CardsOf(r.src)
  IN
  /\ r.at = "consumed"
  /\ Reconcilable(r.seen, incoming)
  /\ \E ids \in FreshIds(r.seen, incoming) :
       LET result == Reconciled(r.seen, incoming, ids)
       IN IF result = r.seen THEN acknowledged /\ UNCHANGED vaultFile ELSE SaveCards(p, result)
  /\ written' = written \cup {r.src}
  /\ IF acknowledged
     THEN /\ importer' = [importer EXCEPT ![p].at = "reconciled", ![p].seen = NoCards,
                            ![p].rev = IF cards' = cards THEN @ ELSE vaultRev']
          /\ UNCHANGED lockedBy
     ELSE /\ End(p)
          /\ lockedBy' = Unsaid
  /\ UNCHANGED <<sources, journal, byHand>>

JournalCommitted(p) ==
  LET r == importer[p] IN
  /\ r.at = "reconciled"
  /\ journal' = JournalEntry("committed", r.approved, r.src, r.rev)
  /\ Step(p, "committed")
  /\ UNCHANGED <<sources, vaultFile, lockedBy, history>>

\* The run ends: with its receipt, refused at any place, or dead.  The
\* operating system frees the lock.
EndRun(p) ==
  /\ importer[p].at # "idle"
  /\ End(p)
  /\ lockedBy' = IF lockedBy = p THEN Unsaid ELSE lockedBy
  /\ UNCHANGED <<sources, vaultFile, journal, history>>

-----------------------------------------------------------------------------
ImportNext ==
  \/ SourcesChange
  \/ \E c \in CardIds : AddByHand(c)
  \/ \E p \in Runs :
       \/ Preview(p) \/ JournalPreview(p)
       \/ \E approved \in ShownPlans, action \in ImportActions : BeginApply(p, approved, action)
       \/ AcquireImport(p) \/ CheckApply(p) \/ JournalPending(p) \/ ConsumeConsolidation(p)
       \/ \E acknowledged \in BOOLEAN : ReconcileCards(p, acknowledged)
       \/ JournalCommitted(p) \/ EndRun(p)

ImportSpec == ImportInit /\ [][ImportNext]_importVars

-----------------------------------------------------------------------------
(* Properties *)

\* However often a plan is applied, dies and is applied again, and whatever is
\* added by hand meanwhile, no card is imported twice, and a journal that says
\* "committed" tells the truth about the vault.
ImportsUnique ==
  /\ \A c, d \in DOMAIN cards : c # d =>
       /\ cards[c].source # Unsaid => cards[c].source # cards[d].source
       /\ cards[c].pan = cards[d].pan => {c, d} \cap byHand # {}
  /\ journal # Unsaid /\ journal.state = "committed" => journal.binding \in written

\* An import adds: no card loses its number, lifecycle, offering or note, nor
\* the source it is bound to.
ImportAddsOnly ==
  [][\A c \in DOMAIN cards :
       /\ c \in DOMAIN cards'
       /\ cards'[c] = cards[c] \/
          (/\ cards[c].source = Unsaid
           /\ cards'[c].note = cards[c].note \/ cards[c].note = Unsaid
           /\ cards'[c] = [cards[c] EXCEPT !.source = cards'[c].source,
                                           !.note = cards'[c].note])]_importVars

\* What is reconciled is what was approved: the contents of the approved plan.
\* A run whose session the file has left behind writes nothing; one that writes
\* does so onto the revision the plan was made for, unless an earlier try of
\* the plan is pending.
AppliedAsApproved ==
  [][\A p \in Runs, acknowledged \in BOOLEAN :
       ReconcileCards(p, acknowledged) =>
         /\ importer[p].approved.src = importer[p].src
         /\ cards' # cards =>
              /\ importer[p].seen = cards
              /\ vaultRev = importer[p].approved.rev \/ importer[p].action = "consolidate_recover"
     ]_importVars

=============================================================================
