---------------------------- MODULE VaultRecords ----------------------------
(***************************************************************************)
(* The private records of one vault and the mutators of vault/core.py that  *)
(* change them: cards with their replacement links, and what belongs to a   *)
(* card (child records, manual aggregates, private attempts).               *)
(*                                                                          *)
(* How a mutation reaches the file is VaultPersistence's subject; here each *)
(* mutator is one step that either takes effect or, when a check refuses    *)
(* it, is not possible.  What the model keeps of a file is whether it could *)
(* be opened again: writing checks only sizes, opening checks everything.   *)
(***************************************************************************)
EXTENDS Integers, FiniteSets

CONSTANTS
  CardIds,       \* private card ids, each drawn once
  Offerings,     \* catalogue offerings
  Active,        \* CardLifecycle.ACTIVE
  Retiring,      \* the lifecycles replace_card accepts for the old card
  OtherStates,   \* the remaining lifecycles
  RecordIds,     \* ids of child records and attempts, rules of aggregates
  None,          \* no replacement
  MaxCards,      \* _MAX_RECORDS
  MaxChildren,   \* _MAX_CHILD_RECORDS
  MaxPersonal,   \* MAX_PERSONAL_STATE_RECORDS
  Year2000,      \* the first time opening accepts
  MaxTime        \* bound of the clock

ASSUME NoneAssumption == None \notin CardIds
ASSUME LifecycleAssumption ==
  /\ Active \notin Retiring \cup OtherStates
  /\ Retiring \cap OtherStates = {}
ASSUME TimeAssumption == MaxTime \in Nat /\ Year2000 \in Nat
ASSUME LimitsAssumption ==
  MaxCards \in Nat /\ MaxChildren \in Nat /\ MaxPersonal \in Nat

VARIABLES
  cards,        \* _records: the cards by id
  children,     \* _child_records
  aggregates,   \* _manual_aggregates
  attempts,     \* _attempts
  now,          \* the wall clock, in whole seconds
  stepped,      \* history: the clock was set back at least once
  drawn,        \* history: ids drawn so far
  purged        \* history: cards removed by purge_card

vars == <<cards, children, aggregates, attempts, now, stepped, drawn, purged>>
owned == <<children, aggregates, attempts>>
clock == <<now, stepped>>

Lifecycles == {Active} \cup Retiring \cup OtherStates
Times == 0 .. MaxTime
\* Of the encrypted values only whether opening would accept their lengths.
Card == [offering : Offerings, lifecycle : Lifecycles,
         created : Times, updated : Times, successor : CardIds \cup {None},
         fits : BOOLEAN]
OwnedRecord == [id : RecordIds, card : CardIds, created : Times, updated : Times]

\* Each conjunct is the type of one variable; ids are drawn before use.
TypeOK ==
  /\ DOMAIN cards \subseteq drawn
  /\ cards \in [DOMAIN cards -> Card]
  /\ children \in SUBSET OwnedRecord
  /\ aggregates \in SUBSET OwnedRecord
  /\ attempts \in SUBSET OwnedRecord
  /\ now \in Times
  /\ stepped \in BOOLEAN
  /\ drawn \in SUBSET CardIds
  /\ purged \in SUBSET drawn

-----------------------------------------------------------------------------
(* Validation *)

\* _validate_timestamp of both times, and their order.
TimesValid(r) == r.created >= Year2000 /\ r.updated >= r.created

\* Two cards are never replaced by the same card.
OnePredecessor(cs) ==
  \A c, d \in DOMAIN cs :
    cs[c].successor = cs[d].successor /\ cs[c].successor # None => c = d

\* A walk along the links revisits no card: no set of cards is closed under
\* them.
Acyclic(cs) ==
  \A S \in SUBSET DOMAIN cs :
    S # {} => \E c \in S : cs[c].successor \notin S

LinkValid(cs, c) ==
  cs[c].successor # None =>
    /\ cs[c].successor \in DOMAIN cs \ {c}
    /\ cs[c].lifecycle # Active
    /\ cs[cs[c].successor].offering = cs[c].offering
    /\ cs[cs[c].successor].created >= cs[c].created

\* Variant: nothing counts the cards a card replaces.
GraphValidButShared(cs) ==
  /\ \A c \in DOMAIN cs : TimesValid(cs[c]) /\ LinkValid(cs, c)
  /\ Acyclic(cs)

GraphValid(cs) ==
  /\ \A c \in DOMAIN cs : TimesValid(cs[c]) /\ LinkValid(cs, c)
  /\ OnePredecessor(cs)
  /\ Acyclic(cs)

Owners(records) == {r.card : r \in records}

\* The sizes that both writing and opening check.
WithinBounds(cs, ch, ag, at) ==
  /\ Cardinality(DOMAIN cs) <= MaxCards
  /\ Cardinality(ch) <= MaxChildren
  /\ Cardinality(ag) + Cardinality(at) <= MaxPersonal

\* What opening asks of records that belong to cards; their number is in
\* WithinBounds.
OwnedParse(records) ==
  Owners(records) \subseteq DOMAIN cards /\ \A r \in records : TimesValid(r)

PrivateStateParses == OwnedParse(aggregates) /\ OwnedParse(attempts)

\* What opening the vault demands of the records in it.
Openable ==
  /\ WithinBounds(cards, children, aggregates, attempts)
  /\ GraphValid(cards)
  /\ \A c \in DOMAIN cards : cards[c].fits
  /\ OwnedParse(children)
  /\ PrivateStateParses

Init ==
  /\ cards = [c \in {} |-> None]
  /\ children = {}
  /\ aggregates = {}
  /\ attempts = {}
  /\ now \in Times
  /\ stepped = FALSE
  /\ drawn = {}
  /\ purged = {}

-----------------------------------------------------------------------------
(* Cards *)

\* Variant: the second is rounded up.
TimestampRoundedUp == now + 1

Timestamp == now

\* The wall clock may jump, forwards or back: nothing in the code compares it
\* with the times the records carry.
Tick(time) ==
  /\ time # now
  /\ now' = time
  /\ stepped' = (stepped \/ time < now)
  /\ UNCHANGED <<cards, owned, drawn, purged>>

\* _persist refuses a vault that is too large, and checks nothing else.
Persist ==
  /\ WithinBounds(cards', children', aggregates', attempts')
  /\ UNCHANGED clock

\* A function with one more, or one changed, entry.
With(cs, c, card) == [d \in DOMAIN cs \cup {c} |-> IF d = c THEN card ELSE cs[d]]
Without(cs, c) == [d \in DOMAIN cs \ {c} |-> cs[d]]

\* The values of a new card are validated before it is made.
NewCard(offering, lifecycle) ==
  [offering |-> offering, lifecycle |-> lifecycle,
   created |-> Timestamp, updated |-> Timestamp, successor |-> None, fits |-> TRUE]

\* The offering and lifecycle of each card of a batch.
Kinds(batch) == [batch -> Offerings \X Lifecycles]

\* New cards and changes to cards that are there become one revision.
Enter(touched, kind) ==
  /\ touched \cup DOMAIN kind # {}
  /\ DOMAIN kind \cap drawn = {}
  /\ cards' = [c \in DOMAIN cards \cup DOMAIN kind |->
                 IF c \in DOMAIN kind THEN NewCard(kind[c][1], kind[c][2])
                 ELSE IF c \in touched THEN [cards[c] EXCEPT !.updated = Timestamp]
                 ELSE cards[c]]
  /\ drawn' = drawn \cup DOMAIN kind
  /\ UNCHANGED <<owned, purged>>
  /\ Persist

\* add_card, and add_cards for a batch.
AddCards(kind) == Enter({}, kind)

\* reconcile_cards: missing values are added to some cards, which must fit
\* together, and the remaining sources become cards of their own.
ReconcileCards(touched, kind) ==
  /\ touched \subseteq {c \in DOMAIN cards : cards[c].fits}
  /\ Enter(touched, kind)

ReplaceCard(c, new, lifecycle) ==
  /\ c \in DOMAIN cards
  /\ new \notin drawn
  /\ lifecycle \in Retiring
  /\ cards[c].successor = None
  /\ cards' = With(With(cards, new, NewCard(cards[c].offering, Active)), c,
                   [cards[c] EXCEPT !.lifecycle = lifecycle,
                                    !.successor = new, !.updated = Timestamp])
  /\ drawn' = drawn \cup {new}
  /\ UNCHANGED <<owned, purged>>
  /\ Persist

Rewrite(c, card) ==
  /\ cards' = With(cards, c, card)
  /\ UNCHANGED <<owned, drawn, purged>>
  /\ Persist

\* The changed values are validated.
EditCard(c) ==
  /\ c \in DOMAIN cards
  /\ Rewrite(c, [cards[c] EXCEPT !.updated = Timestamp, !.fits = TRUE])

\* Two values less, and no validation: what was too long may fit now, or not.
EraseCvvPin(c) ==
  /\ c \in DOMAIN cards
  /\ \E fits \in {cards[c].fits, TRUE} :
       Rewrite(c, [cards[c] EXCEPT !.updated = Timestamp, !.fits = fits])

\* Variant: a card brought back to use forgets its replacement.
TransitionUnlinks(c, lifecycle) ==
  /\ c \in DOMAIN cards
  /\ Rewrite(c, [cards[c] EXCEPT !.lifecycle = lifecycle, !.updated = Timestamp,
                   !.successor = IF lifecycle = Active THEN None ELSE @])

TransitionCard(c, lifecycle) ==
  /\ c \in DOMAIN cards
  /\ Rewrite(c, [cards[c] EXCEPT !.lifecycle = lifecycle, !.updated = Timestamp])

\* What an authorised reconciliation proposal makes of a card.  Its metadata
\* replaces what the card had: up to 8192 characters of it are accepted and not
\* validated with the other values, so the card may fit afterwards or not.
Reconciled(c, offering, lifecycle, successor, fits) ==
  [cards[c] EXCEPT !.offering = offering, !.lifecycle = lifecycle,
     !.successor = successor, !.fits = fits,
     !.updated = IF successor = cards[c].successor THEN @ ELSE Timestamp]

\* Variant: the resulting lineage is not validated.
ReconcileUnchecked(c, offering, lifecycle, successor) ==
  /\ c \in DOMAIN cards
  /\ \E fits \in BOOLEAN :
       Rewrite(c, Reconciled(c, offering, lifecycle, successor, fits))

\* apply_reconciliation_metadata, the only mutator that validates the lineage.
Reconcile(c, offering, lifecycle, successor) ==
  /\ c \in DOMAIN cards
  /\ \E fits \in BOOLEAN :
       LET card == Reconciled(c, offering, lifecycle, successor, fits)
       IN GraphValid(With(cards, c, card)) /\ Rewrite(c, card)

NotOf(records, c) == {r \in records : r.card # c}

\* Variant: the private attempts stay.
DeleteCardKeepsAttempts(c) ==
  /\ c \in DOMAIN cards
  /\ cards' = Without(cards, c)
  /\ children' = NotOf(children, c)
  /\ aggregates' = NotOf(aggregates, c)
  /\ UNCHANGED <<attempts, drawn, purged>>
  /\ Persist

DeleteCard(c) ==
  /\ c \in DOMAIN cards
  /\ cards' = Without(cards, c)
  /\ children' = NotOf(children, c)
  /\ aggregates' = NotOf(aggregates, c)
  /\ attempts' = NotOf(attempts, c)
  /\ UNCHANGED <<drawn, purged>>
  /\ Persist

\* Aggregates and attempts of the card are not touched.
PurgeCard(c) ==
  /\ c \in DOMAIN cards
  /\ cards' = Without(cards, c)
  /\ children' = NotOf(children, c)
  /\ purged' = purged \cup {c}
  /\ UNCHANGED <<aggregates, attempts, drawn>>
  /\ Persist

-----------------------------------------------------------------------------
(* What belongs to a card *)

NewRecord(id, c) == [id |-> id, card |-> c, created |-> Timestamp, updated |-> Timestamp]

\* A record keeps the time it was made.
Restamped(records, r) == (records \ {r}) \cup {[r EXCEPT !.updated = Timestamp]}

AddChildRecord(id, c) ==
  /\ c \in DOMAIN cards
  /\ \A other \in children : other.id # id
  /\ children' = children \cup {NewRecord(id, c)}
  /\ UNCHANGED <<cards, aggregates, attempts, drawn, purged>>
  /\ Persist

\* The one aggregate of a card and rule.
Current(id, c) == {r \in aggregates : r.id = id /\ r.card = c}

\* A second aggregate for the card and rule replaces the first one.
UpsertManualAggregate(id, c) ==
  /\ c \in DOMAIN cards
  /\ \/ Current(id, c) = {} /\ aggregates' = aggregates \cup {NewRecord(id, c)}
     \/ \E r \in Current(id, c) : aggregates' = Restamped(aggregates, r)
  /\ UNCHANGED <<cards, children, attempts, drawn, purged>>
  /\ Persist

ClearManualAggregate(id, c) ==
  /\ c \in DOMAIN cards
  /\ aggregates' = aggregates \ Current(id, c)
  /\ UNCHANGED <<cards, children, attempts, drawn, purged>>
  /\ Persist

AddPrivateAttempt(id, c) ==
  /\ c \in DOMAIN cards
  /\ \A other \in attempts : other.id # id
  /\ attempts' = attempts \cup {NewRecord(id, c)}
  /\ UNCHANGED <<cards, children, aggregates, drawn, purged>>
  /\ Persist

\* Neither this nor the next asks whether the card is still there.
UpdatePrivateAttempt(r) ==
  /\ r \in attempts
  /\ attempts' = Restamped(attempts, r)
  /\ UNCHANGED <<cards, children, aggregates, drawn, purged>>
  /\ Persist

DeletePrivateAttempt(r) ==
  /\ r \in attempts
  /\ attempts' = attempts \ {r}
  /\ UNCHANGED <<cards, children, aggregates, drawn, purged>>
  /\ Persist

-----------------------------------------------------------------------------
CardStep(c) ==
  \/ EditCard(c) \/ EraseCvvPin(c) \/ DeleteCard(c) \/ PurgeCard(c)
  \/ \E l \in Lifecycles : TransitionCard(c, l)
  \/ \E new \in CardIds \ drawn, l \in Lifecycles : ReplaceCard(c, new, l)
  \/ \E o \in Offerings, l \in Lifecycles, s \in CardIds \cup {None} :
       Reconcile(c, o, l, s)

OwnedStep(id, c) ==
  \/ AddChildRecord(id, c)
  \/ UpsertManualAggregate(id, c) \/ ClearManualAggregate(id, c)
  \/ AddPrivateAttempt(id, c)

AttemptStep(r) == UpdatePrivateAttempt(r) \/ DeletePrivateAttempt(r)

BatchStep(batch) ==
  \E kind \in Kinds(batch) :
    AddCards(kind) \/ \E touched \in SUBSET DOMAIN cards : ReconcileCards(touched, kind)

Next ==
  \/ \E time \in Times : Tick(time)
  \/ \E batch \in SUBSET (CardIds \ drawn) : BatchStep(batch)
  \/ \E c \in CardIds : CardStep(c)
  \/ \E id \in RecordIds, c \in CardIds : OwnedStep(id, c)
  \/ \E r \in attempts : AttemptStep(r)

Spec == Init /\ [][Next]_vars

-----------------------------------------------------------------------------
(* Properties *)

(* Every link whose successor is still there leads to a card of the same   *)
(* offering that no other card is replaced by, and the links make no cycle  *)
(* - although replace_card builds links without validating them,            *)
(* transition_card ignores them and reconciliation may rewrite them.  While *)
(* the clock was never set back, no link leads to an older card.            *)
LinksSound ==
  /\ \A c \in DOMAIN cards : cards[c].successor \in DOMAIN cards =>
       /\ cards[cards[c].successor].offering = cards[c].offering
       /\ ~stepped => cards[cards[c].successor].created >= cards[c].created
  /\ OnePredecessor(cards)
  /\ Acyclic(cards)

(* Records of a card never outlive it, except aggregates and attempts of a  *)
(* purged card: no sequence of removals leaves anything else behind.        *)
OwnedRecordsHaveOwners ==
  /\ Owners(children) \subseteq DOMAIN cards
  /\ Owners(aggregates) \cup Owners(attempts) \subseteq DOMAIN cards \cup purged

(* A card that is replaced.                                                 *)
Linked(c) == c \in DOMAIN cards /\ cards[c].successor # None

(* Everything that carries the times it was made and changed.               *)
TimedRecords == {cards[c] : c \in DOMAIN cards} \cup children \cup aggregates \cup attempts

(* The step stamps a record with a time before the record was made, or       *)
(* before the year 2000: the clock was set back, or is not set yet.         *)
StampsTooEarly ==
  \E r \in TimedRecords' \ TimedRecords :
    r.updated = now /\ (now < r.created \/ now < Year2000)

(* The only steps that turn a vault that opens into one that does not:      *)
(* removing a card another one is replaced by, purging a card with private  *)
(* state, giving a replaced card the active lifecycle, reconciling a card   *)
(* with metadata longer than a value may be, and stamping a card, aggregate *)
(* or attempt while the clock shows a time before it was made, or anything  *)
(* before the year 2000.  Every other mutator may be called in any order.   *)
OnlyFiveKindsCloseVault ==
  [][Openable /\ ~Openable' =>
       \/ StampsTooEarly
       \/ \E c \in DOMAIN cards :
            \/ c \notin DOMAIN cards' /\ \E d \in DOMAIN cards : cards[d].successor = c
            \/ c \in purged' \ purged /\ c \in Owners(aggregates) \cup Owners(attempts)
            \/ Linked(c) /\ c \in DOMAIN cards' /\ cards'[c].successor = cards[c].successor
               /\ cards'[c].lifecycle = Active
            \/ cards[c].fits /\ c \in DOMAIN cards' /\ ~cards'[c].fits]_vars

(* A card keeps its replacement link as long as it exists, unless the owner *)
(* confirms another lineage in a reconciliation of that very card: changing *)
(* its lifecycle, editing it or removing other cards never loses it.        *)
LineageKept ==
  [][\A c \in DOMAIN cards :
       Linked(c) /\ c \in DOMAIN cards' /\ cards'[c].successor # cards[c].successor
         => Reconcile(c, cards'[c].offering, cards'[c].lifecycle,
                      cards'[c].successor)]_vars

-----------------------------------------------------------------------------
(* What the documents say and the code does not do *)


(* TASKS.md:296, MC-031 "history survives expiry, loss, or reissue" and     *)
(* docs/USER-GUIDE.md:98 "replace a record, or delete/purge a record":      *)
(* removing a card does not close the vault.                                *)
RemovalKeepsVaultOpenable ==
  [][Openable /\ DOMAIN cards \ DOMAIN cards' # {} => Openable']_vars
=============================================================================
