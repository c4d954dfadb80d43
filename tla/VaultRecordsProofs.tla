-------------------------- MODULE VaultRecordsProofs --------------------------
(***************************************************************************)
(* Proofs about VaultRecords, for any cards, records, limits and clock.     *)
(***************************************************************************)
EXTENDS VaultRecords, TLAPS

\* Links lead to cards that exist or existed, never to an id yet to be drawn;
\* and what was purged does not come back.
DrawnInv ==
  /\ \A c \in DOMAIN cards : cards[c].successor \in drawn \cup {None}
  /\ purged \cap DOMAIN cards = {}

\* No card is newer than the clock, unless the clock was set back.
ClockInv == ~stepped => \A c \in DOMAIN cards : cards[c].created <= now

IInv ==
  /\ TypeOK
  /\ DrawnInv
  /\ ClockInv
  /\ LinksSound
  /\ OwnedRecordsHaveOwners

USE NoneAssumption, LifecycleAssumption, TimeAssumption
    DEF vars, owned, clock, Lifecycles, Times, Card, OwnedRecord, Timestamp, Owners, NotOf,
        NewRecord, Restamped, Current

-----------------------------------------------------------------------------
(* Lineages without a cycle *)

\* Cards whose links do not change keep being acyclic, and so does any part of
\* them: removing cards, or changing anything but links, makes no cycle.
LEMMA AcyclicPart ==
  ASSUME NEW cs, NEW ds, Acyclic(cs), DOMAIN ds \subseteq DOMAIN cs,
         \A d \in DOMAIN ds : ds[d].successor = cs[d].successor
  PROVE  Acyclic(ds)
<1> SUFFICES ASSUME NEW S \in SUBSET DOMAIN ds, S # {}
             PROVE  \E c \in S : ds[c].successor \notin S
  BY DEF Acyclic
<1>1. PICK c \in S : cs[c].successor \notin S
  BY DEF Acyclic
<1>2. QED
  BY <1>1

\* New cards have no successor, so they make no cycle, whatever is linked to
\* them.
LEMMA AcyclicGrown ==
  ASSUME NEW cs, NEW ds, NEW New, Acyclic(cs), DOMAIN ds = DOMAIN cs \cup New,
         None \notin DOMAIN ds,
         \A d \in New : ds[d].successor = None,
         \A d \in DOMAIN cs \ New :
           ds[d].successor = cs[d].successor \/ ds[d].successor \in New
  PROVE  Acyclic(ds)
<1> SUFFICES ASSUME NEW S \in SUBSET DOMAIN ds, S # {}
             PROVE  \E c \in S : ds[c].successor \notin S
  BY DEF Acyclic
<1>1. CASE S \cap New # {}
  BY <1>1
<1>2. CASE S \cap New = {}
  <2>1. PICK c \in S : cs[c].successor \notin S
    BY <1>2 DEF Acyclic
  <2>2. QED
    BY <1>2, <2>1
<1>3. QED
  BY <1>1, <1>2

-----------------------------------------------------------------------------
(* The steps keep the invariant. *)

\* Steps that change no card leave the lineage alone.
LEMMA CardsAlone ==
  ASSUME IInv, UNCHANGED <<cards, drawn, purged>>, now' \in Times,
         stepped' \in BOOLEAN, ~stepped' => ~stepped /\ now <= now',
         children' \in SUBSET OwnedRecord, aggregates' \in SUBSET OwnedRecord,
         attempts' \in SUBSET OwnedRecord,
         Owners(children') \subseteq DOMAIN cards,
         Owners(aggregates') \cup Owners(attempts') \subseteq DOMAIN cards \cup purged
  PROVE  IInv'
<1>1. TypeOK'
  BY DEF IInv, TypeOK
<1>2. DrawnInv' /\ ClockInv'
  BY DEF IInv, TypeOK, DrawnInv, ClockInv
<1>3. LinksSound'
  BY DEF IInv, LinksSound, OnePredecessor, Acyclic
<1>4. OwnedRecordsHaveOwners'
  BY DEF OwnedRecordsHaveOwners
<1>5. QED
  BY <1>1, <1>2, <1>3, <1>4 DEF IInv

\* The clock goes forward, or what the invariant says of it is waived.
LEMMA TickStep ==
  ASSUME IInv, NEW time \in Times, Tick(time)
  PROVE  IInv'
<1>1. /\ now' \in Times /\ stepped' \in BOOLEAN
      /\ UNCHANGED <<cards, owned, drawn, purged>>
  BY DEF Tick, IInv, TypeOK
<1>2. ~stepped' => ~stepped /\ now <= now'
  <2>1. /\ now \in Int /\ time \in Int
        /\ now' = time /\ stepped' = (stepped \/ time < now)
    BY DEF Tick, IInv, TypeOK
  <2>2. time < now \/ now <= time
    BY <2>1
  <2>3. QED
    BY <2>1, <2>2
<1>3. QED
  BY <1>1, <1>2, CardsAlone DEF IInv, TypeOK, OwnedRecordsHaveOwners

\* A record is only added to a card that is there, and keeps its card.
LEMMA OwnedStepStep ==
  ASSUME IInv, NEW id \in RecordIds, NEW c \in CardIds, OwnedStep(id, c)
  PROVE  IInv'
<1>1. /\ UNCHANGED <<cards, drawn, purged, now, stepped>>
      /\ now \in Times /\ stepped \in BOOLEAN
      /\ c \in DOMAIN cards
      /\ NewRecord(id, c) \in OwnedRecord
  BY DEF OwnedStep, AddChildRecord, UpsertManualAggregate, ClearManualAggregate,
         AddPrivateAttempt, Persist, IInv, TypeOK
<1>2. \A r \in aggregates : r \in OwnedRecord /\ [r EXCEPT !.updated = now] \in OwnedRecord
                             /\ [r EXCEPT !.updated = now].card = r.card
  BY <1>1 DEF IInv, TypeOK
<1>3. /\ children' \in SUBSET OwnedRecord
      /\ aggregates' \in SUBSET OwnedRecord
      /\ attempts' \in SUBSET OwnedRecord
  BY <1>1, <1>2 DEF OwnedStep, AddChildRecord, UpsertManualAggregate,
         ClearManualAggregate, AddPrivateAttempt, IInv, TypeOK
<1>4. /\ Owners(children') \subseteq DOMAIN cards
      /\ Owners(aggregates') \cup Owners(attempts') \subseteq DOMAIN cards \cup purged
  BY <1>1, <1>2 DEF OwnedStep, AddChildRecord, UpsertManualAggregate,
         ClearManualAggregate, AddPrivateAttempt, IInv, OwnedRecordsHaveOwners
<1>5. QED
  BY <1>1, <1>3, <1>4, CardsAlone

\* The same for what is done to an attempt.
LEMMA AttemptStepStep ==
  ASSUME IInv, NEW r \in attempts, AttemptStep(r)
  PROVE  IInv'
<1>1. /\ UNCHANGED <<cards, children, aggregates, drawn, purged, now, stepped>>
      /\ now \in Times /\ stepped \in BOOLEAN
  BY DEF AttemptStep, UpdatePrivateAttempt, DeletePrivateAttempt, Persist, IInv, TypeOK
<1>2. r \in OwnedRecord /\ [r EXCEPT !.updated = now] \in OwnedRecord
      /\ [r EXCEPT !.updated = now].card = r.card
  BY <1>1 DEF IInv, TypeOK
<1>3. attempts' \in SUBSET OwnedRecord
  BY <1>2 DEF AttemptStep, UpdatePrivateAttempt, DeletePrivateAttempt, IInv, TypeOK
<1>4. Owners(attempts') \subseteq Owners(attempts)
  BY <1>2 DEF AttemptStep, UpdatePrivateAttempt, DeletePrivateAttempt
<1>5. QED
  BY <1>1, <1>3, <1>4, CardsAlone DEF IInv, TypeOK, OwnedRecordsHaveOwners

\* What a batch of new cards and changes leaves.
LEMMA EnterFrame ==
  ASSUME IInv, NEW batch \in SUBSET (CardIds \ drawn), NEW kind \in Kinds(batch),
         NEW touched \in SUBSET DOMAIN cards, Enter(touched, kind)
  PROVE  /\ DOMAIN cards' = DOMAIN cards \cup batch
         /\ DOMAIN cards \cap batch = {}
         /\ \A c \in batch : /\ cards'[c] \in Card
                             /\ cards'[c].successor = None /\ cards'[c].fits
                             /\ cards'[c].created = now /\ cards'[c].updated = now
         /\ \A c \in DOMAIN cards : /\ cards'[c] \in Card
                                    /\ cards'[c].successor = cards[c].successor
                                    /\ cards'[c].offering = cards[c].offering
                                    /\ cards'[c].lifecycle = cards[c].lifecycle
                                    /\ cards'[c].created = cards[c].created
                                    /\ cards'[c].fits = cards[c].fits
                                    /\ cards'[c].updated \in {cards[c].updated, now}
         /\ cards' = [c \in DOMAIN cards' |-> cards'[c]]
         /\ drawn' = drawn \cup batch
         /\ UNCHANGED <<owned, purged, now, stepped>>
         /\ WithinBounds(cards', children', aggregates', attempts')
<1>1. DOMAIN kind = batch
  BY DEF Kinds
<1>2. \A c \in batch : kind[c][1] \in Offerings /\ kind[c][2] \in Lifecycles
  BY DEF Kinds
<1>3. DOMAIN cards \cap batch = {}
  BY DEF IInv, TypeOK
<1>4. cards' = [c \in DOMAIN cards \cup batch |->
                 IF c \in batch THEN NewCard(kind[c][1], kind[c][2])
                 ELSE IF c \in touched THEN [cards[c] EXCEPT !.updated = now]
                 ELSE cards[c]]
  BY <1>1 DEF Enter
<1>5. /\ drawn' = drawn \cup batch
      /\ UNCHANGED <<owned, purged, now, stepped>>
      /\ WithinBounds(cards', children', aggregates', attempts')
  BY <1>1 DEF Enter, Persist
<1>6. ASSUME NEW c \in batch
      PROVE  /\ cards'[c] \in Card
             /\ cards'[c].successor = None /\ cards'[c].fits
             /\ cards'[c].created = now /\ cards'[c].updated = now
  <2>1. cards'[c] = NewCard(kind[c][1], kind[c][2])
    BY <1>4
  <2>2. QED
    BY <1>2, <2>1 DEF NewCard, IInv, TypeOK
<1>7. ASSUME NEW c \in DOMAIN cards
      PROVE  /\ cards'[c] \in Card
             /\ cards'[c].successor = cards[c].successor
             /\ cards'[c].offering = cards[c].offering
             /\ cards'[c].lifecycle = cards[c].lifecycle
             /\ cards'[c].created = cards[c].created
             /\ cards'[c].fits = cards[c].fits
             /\ cards'[c].updated \in {cards[c].updated, now}
  <2>1. cards'[c] = cards[c] \/ cards'[c] = [cards[c] EXCEPT !.updated = now]
    BY <1>3, <1>4
  <2>2. cards[c] \in Card /\ now \in Times
    BY DEF IInv, TypeOK
  <2>3. QED
    BY <2>1, <2>2
<1>8. DOMAIN cards' = DOMAIN cards \cup batch /\ cards' = [c \in DOMAIN cards' |-> cards'[c]]
  BY <1>4
<1>9. QED
  BY <1>3, <1>5, <1>6, <1>7, <1>8

\* New cards are drawn afresh, so no link already leads to one.
LEMMA EnterStep ==
  ASSUME IInv, NEW batch \in SUBSET (CardIds \ drawn), NEW kind \in Kinds(batch),
         NEW touched \in SUBSET DOMAIN cards, Enter(touched, kind)
  PROVE  IInv'
<1>1. /\ DOMAIN cards' = DOMAIN cards \cup batch
      /\ DOMAIN cards \cap batch = {}
      /\ cards' = [c \in DOMAIN cards' |-> cards'[c]]
      /\ drawn' = drawn \cup batch
      /\ UNCHANGED <<owned, purged, now, stepped>>
  BY EnterFrame
<1>2. ASSUME NEW c \in batch
      PROVE  /\ cards'[c] \in Card /\ cards'[c].successor = None
             /\ cards'[c].created = now
  BY EnterFrame
<1>3. ASSUME NEW c \in DOMAIN cards
      PROVE  /\ cards'[c] \in Card
             /\ cards'[c].successor = cards[c].successor
             /\ cards'[c].offering = cards[c].offering
             /\ cards'[c].created = cards[c].created
  BY EnterFrame
<1>4. TypeOK'
  <2>1. cards' \in [DOMAIN cards' -> Card]
    BY <1>1, <1>2, <1>3
  <2>2. QED
    BY <1>1, <2>1 DEF IInv, TypeOK
<1>5. DrawnInv' /\ ClockInv'
  BY <1>1, <1>2, <1>3 DEF IInv, TypeOK, DrawnInv, ClockInv
<1>6. LinksSound'
  <2>1. \A c \in DOMAIN cards' : cards'[c].successor \in DOMAIN cards' =>
          c \in DOMAIN cards /\ cards[c].successor \in DOMAIN cards
    BY <1>1, <1>2, <1>3 DEF IInv, TypeOK, DrawnInv
  <2>2. OnePredecessor(cards')
    BY <1>1, <1>2, <1>3 DEF IInv, LinksSound, OnePredecessor
  <2>3. Acyclic(cards')
    <3>1. Acyclic(cards) /\ None \notin DOMAIN cards'
      BY <1>1 DEF IInv, TypeOK, LinksSound
    <3>2. \A d \in batch : cards'[d].successor = None
      BY <1>2
    <3>3. \A d \in DOMAIN cards \ batch :
            cards'[d].successor = cards[d].successor \/ cards'[d].successor \in batch
      BY <1>3
    <3>4. QED
      BY <1>1, <3>1, <3>2, <3>3, AcyclicGrown
  <2>4. QED
    BY <1>1, <1>3, <2>1, <2>2, <2>3 DEF IInv, LinksSound
<1>7. OwnedRecordsHaveOwners'
  BY <1>1 DEF IInv, OwnedRecordsHaveOwners
<1>8. QED
  BY <1>4, <1>5, <1>6, <1>7 DEF IInv

\* Cards added by hand or imported.
LEMMA BatchStepStep ==
  ASSUME IInv, NEW batch \in SUBSET (CardIds \ drawn), BatchStep(batch)
  PROVE  IInv'
BY EnterStep DEF BatchStep, AddCards, ReconcileCards

\* The new card is drawn afresh and, by a clock never set back, not older than
\* the one it replaces.
LEMMA ReplaceCardStep ==
  ASSUME IInv, NEW c \in CardIds, NEW new \in CardIds \ drawn,
         NEW l \in Lifecycles, ReplaceCard(c, new, l)
  PROVE  IInv'
<1> DEFINE fresh == NewCard(cards[c].offering, Active)
           old == [cards[c] EXCEPT !.lifecycle = l, !.successor = new,
                                   !.updated = Timestamp]
<1>1. /\ c \in DOMAIN cards /\ new \notin DOMAIN cards /\ c # new
      /\ cards[c] \in Card
      /\ drawn' = drawn \cup {new}
      /\ UNCHANGED <<owned, purged, now, stepped>>
  BY DEF ReplaceCard, Persist, IInv, TypeOK
<1>2. cards' = With(With(cards, new, fresh), c, old)
  BY DEF ReplaceCard
<1>3. /\ DOMAIN cards' = DOMAIN cards \cup {new}
      /\ cards'[c] = old
      /\ cards'[new] = fresh
      /\ \A d \in DOMAIN cards \ {c} : cards'[d] = cards[d]
      /\ cards' = [d \in DOMAIN cards' |-> cards'[d]]
  BY <1>1, <1>2 DEF With
<1>4. /\ old \in Card /\ old.successor = new
      /\ old.offering = cards[c].offering /\ old.created = cards[c].created
      /\ fresh \in Card /\ fresh.successor = None
      /\ fresh.offering = cards[c].offering /\ fresh.created = now
  BY <1>1 DEF NewCard, IInv, TypeOK
<1> HIDE DEF fresh, old
<1>5. TypeOK'
  <2>1. cards' \in [DOMAIN cards' -> Card]
    BY <1>1, <1>3, <1>4 DEF IInv, TypeOK
  <2>2. QED
    BY <1>1, <1>3, <2>1 DEF IInv, TypeOK
<1>6. DrawnInv' /\ ClockInv'
  BY <1>1, <1>3, <1>4 DEF IInv, TypeOK, DrawnInv, ClockInv
<1>7. LinksSound'
  <2>1. ASSUME NEW d \in DOMAIN cards', cards'[d].successor \in DOMAIN cards'
        PROVE  /\ cards'[cards'[d].successor].offering = cards'[d].offering
               /\ ~stepped => cards'[cards'[d].successor].created >= cards'[d].created
    <3>1. CASE d = c
      BY <1>1, <1>3, <1>4, <3>1 DEF IInv, TypeOK, ClockInv
    <3>2. CASE d = new
      BY <1>1, <1>3, <1>4, <2>1, <3>2 DEF IInv, TypeOK
    <3>3. CASE d \in DOMAIN cards \ {c}
      <4>1. cards[d].successor \in DOMAIN cards
        BY <1>1, <1>3, <2>1, <3>3 DEF IInv, TypeOK, DrawnInv
      <4>2. /\ cards'[cards[d].successor].offering = cards[cards[d].successor].offering
            /\ cards'[cards[d].successor].created = cards[cards[d].successor].created
        BY <1>1, <1>3, <1>4, <4>1
      <4>3. QED
        BY <1>3, <3>3, <4>1, <4>2 DEF IInv, LinksSound
    <3>4. QED
      BY <1>3, <3>1, <3>2, <3>3
  <2>2. OnePredecessor(cards')
    BY <1>1, <1>3, <1>4 DEF IInv, LinksSound, OnePredecessor, DrawnInv
  <2>3. Acyclic(cards')
    <3>1. Acyclic(cards) /\ None \notin DOMAIN cards'
      BY <1>3 DEF IInv, TypeOK, LinksSound
    <3>2. \A d \in {new} : cards'[d].successor = None
      BY <1>3, <1>4
    <3>3. \A d \in DOMAIN cards \ {new} :
            cards'[d].successor = cards[d].successor \/ cards'[d].successor \in {new}
      BY <1>3, <1>4
    <3>4. QED
      BY <1>3, <3>1, <3>2, <3>3, AcyclicGrown
  <2>4. QED
    BY <1>1, <2>1, <2>2, <2>3 DEF LinksSound
<1>8. OwnedRecordsHaveOwners'
  BY <1>1, <1>3 DEF IInv, OwnedRecordsHaveOwners
<1>9. QED
  BY <1>5, <1>6, <1>7, <1>8 DEF IInv

\* Rewriting one card keeps everything but the lineage whatever is written.
LEMMA RewriteFrame ==
  ASSUME IInv, NEW c \in DOMAIN cards, NEW card \in Card, Rewrite(c, card),
         card.created = cards[c].created,
         card.successor \in drawn \cup {None}
  PROVE  /\ TypeOK' /\ DrawnInv' /\ ClockInv' /\ OwnedRecordsHaveOwners'
         /\ DOMAIN cards' = DOMAIN cards
         /\ cards'[c] = card
         /\ \A d \in DOMAIN cards \ {c} : cards'[d] = cards[d]
         /\ UNCHANGED stepped
<1>1. /\ DOMAIN cards' = DOMAIN cards
      /\ cards'[c] = card
      /\ \A d \in DOMAIN cards \ {c} : cards'[d] = cards[d]
      /\ cards' = [d \in DOMAIN cards' |-> cards'[d]]
      /\ UNCHANGED <<owned, drawn, purged, now, stepped>>
  BY DEF Rewrite, With, Persist
<1>2. TypeOK'
  <2>1. cards' \in [DOMAIN cards' -> Card]
    BY <1>1 DEF IInv, TypeOK
  <2>2. QED
    BY <1>1, <2>1 DEF IInv, TypeOK
<1>3. DrawnInv' /\ ClockInv'
  BY <1>1 DEF IInv, DrawnInv, ClockInv
<1>4. OwnedRecordsHaveOwners'
  BY <1>1 DEF IInv, OwnedRecordsHaveOwners
<1>5. QED
  BY <1>1, <1>2, <1>3, <1>4

\* EditCard, EraseCvvPin and TransitionCard keep link, offering and creation.
LEMMA RewriteKeepsLinks ==
  ASSUME IInv, NEW c \in DOMAIN cards, NEW card \in Card, Rewrite(c, card),
         card.created = cards[c].created, card.offering = cards[c].offering,
         card.successor = cards[c].successor
  PROVE  IInv'
<1>1. card.successor \in drawn \cup {None}
  BY DEF IInv, DrawnInv
<1>2. /\ TypeOK' /\ DrawnInv' /\ ClockInv' /\ OwnedRecordsHaveOwners'
      /\ DOMAIN cards' = DOMAIN cards
      /\ cards'[c] = card
      /\ \A d \in DOMAIN cards \ {c} : cards'[d] = cards[d]
      /\ UNCHANGED stepped
  BY <1>1, RewriteFrame
<1>3. \A d \in DOMAIN cards : /\ cards'[d].successor = cards[d].successor
                              /\ cards'[d].offering = cards[d].offering
                              /\ cards'[d].created = cards[d].created
  BY <1>2
<1>4. OnePredecessor(cards')
  BY <1>2, <1>3 DEF IInv, LinksSound, OnePredecessor
<1>5. Acyclic(cards')
  BY <1>2, <1>3, AcyclicPart DEF IInv, LinksSound
<1>6. LinksSound'
  BY <1>2, <1>3, <1>4, <1>5 DEF IInv, LinksSound
<1>7. QED
  BY <1>2, <1>6 DEF IInv

\* Reconciliation validates the lineage it would leave.
LEMMA ReconcileStep ==
  ASSUME IInv, NEW c \in CardIds, NEW o \in Offerings, NEW l \in Lifecycles,
         NEW s \in CardIds \cup {None}, Reconcile(c, o, l, s)
  PROVE  IInv'
<1>1. PICK fits \in BOOLEAN :
        /\ c \in DOMAIN cards /\ cards[c] \in Card
        /\ Rewrite(c, Reconciled(c, o, l, s, fits))
        /\ cards' = With(cards, c, Reconciled(c, o, l, s, fits))
        /\ GraphValid(cards')
  BY DEF Reconcile, Rewrite, IInv, TypeOK
<1>2. /\ Reconciled(c, o, l, s, fits) \in Card
      /\ Reconciled(c, o, l, s, fits).created = cards[c].created
      /\ Reconciled(c, o, l, s, fits).successor = s
  BY <1>1 DEF Reconciled, IInv, TypeOK
<1>3. DOMAIN cards' = DOMAIN cards /\ cards'[c].successor = s
  BY <1>1, <1>2 DEF With
<1>4. s \in drawn \cup {None}
  BY <1>1, <1>3 DEF GraphValid, LinkValid, IInv, TypeOK
<1>5. TypeOK' /\ DrawnInv' /\ ClockInv' /\ OwnedRecordsHaveOwners'
  BY <1>1, <1>2, <1>4, RewriteFrame
<1>6. LinksSound'
  <2>1. None \notin DOMAIN cards'
    BY <1>3 DEF IInv, TypeOK
  <2>2. QED
    BY <1>1, <2>1 DEF GraphValid, LinkValid, LinksSound
<1>7. QED
  BY <1>5, <1>6 DEF IInv

\* Removing a card leaves at most a link that leads nowhere.
LEMMA RemovalStep ==
  ASSUME IInv, NEW c \in CardIds, DeleteCard(c) \/ PurgeCard(c)
  PROVE  IInv'
<1>1. /\ c \in DOMAIN cards
      /\ DOMAIN cards' = DOMAIN cards \ {c}
      /\ \A d \in DOMAIN cards' : cards'[d] = cards[d]
      /\ cards' = [d \in DOMAIN cards' |-> cards'[d]]
      /\ UNCHANGED <<drawn, now, stepped>>
  BY DEF DeleteCard, PurgeCard, Without, Persist
<1>2. TypeOK'
  <2>1. cards' \in [DOMAIN cards' -> Card]
    BY <1>1 DEF IInv, TypeOK
  <2>2. /\ children' \in SUBSET OwnedRecord
        /\ aggregates' \in SUBSET OwnedRecord
        /\ attempts' \in SUBSET OwnedRecord
        /\ purged' \in SUBSET drawn
    BY DEF DeleteCard, PurgeCard, IInv, TypeOK
  <2>3. QED
    BY <1>1, <2>1, <2>2 DEF IInv, TypeOK
<1>3. DrawnInv' /\ ClockInv'
  <2>1. purged' \subseteq purged \cup {c}
    BY DEF DeleteCard, PurgeCard
  <2>2. QED
    BY <1>1, <2>1 DEF IInv, DrawnInv, ClockInv
<1>4. LinksSound'
  <2>1. OnePredecessor(cards')
    BY <1>1 DEF IInv, LinksSound, OnePredecessor
  <2>2. Acyclic(cards')
    BY <1>1, AcyclicPart DEF IInv, LinksSound
  <2>3. QED
    BY <1>1, <2>1, <2>2 DEF IInv, LinksSound
<1>5. OwnedRecordsHaveOwners'
  BY <1>1 DEF DeleteCard, PurgeCard, IInv, OwnedRecordsHaveOwners
<1>6. QED
  BY <1>2, <1>3, <1>4, <1>5 DEF IInv

\* The mutators of one card.
LEMMA CardStepStep ==
  ASSUME IInv, NEW c \in CardIds, CardStep(c)
  PROVE  IInv'
<1>1. CASE EditCard(c) \/ EraseCvvPin(c)
  <2>1. PICK fits \in BOOLEAN :
          Rewrite(c, [cards[c] EXCEPT !.updated = Timestamp, !.fits = fits])
    BY <1>1 DEF EditCard, EraseCvvPin, IInv, TypeOK
  <2> DEFINE card == [cards[c] EXCEPT !.updated = Timestamp, !.fits = fits]
  <2>2. c \in DOMAIN cards /\ cards[c] \in Card /\ Rewrite(c, card)
    BY <1>1, <2>1 DEF EditCard, EraseCvvPin, IInv, TypeOK
  <2>3. /\ card \in Card /\ card.created = cards[c].created
        /\ card.offering = cards[c].offering /\ card.successor = cards[c].successor
    BY <2>2 DEF IInv, TypeOK
  <2> HIDE DEF card
  <2>4. QED
    BY <2>2, <2>3, RewriteKeepsLinks
<1>2. ASSUME NEW l \in Lifecycles, TransitionCard(c, l)
      PROVE  IInv'
  <2> DEFINE card == [cards[c] EXCEPT !.lifecycle = l, !.updated = Timestamp]
  <2>1. c \in DOMAIN cards /\ cards[c] \in Card /\ Rewrite(c, card)
    BY <1>2 DEF TransitionCard, IInv, TypeOK
  <2>2. /\ card \in Card /\ card.created = cards[c].created
        /\ card.offering = cards[c].offering /\ card.successor = cards[c].successor
    BY <2>1 DEF IInv, TypeOK
  <2> HIDE DEF card
  <2>3. QED
    BY <2>1, <2>2, RewriteKeepsLinks
<1>3. CASE DeleteCard(c) \/ PurgeCard(c)
  BY <1>3, RemovalStep
<1>4. QED
  BY <1>1, <1>2, <1>3, ReplaceCardStep, ReconcileStep DEF CardStep

\* Every mutator, in whatever order they are called.
LEMMA NextIInv == IInv /\ [Next]_vars => IInv'
<1> SUFFICES ASSUME IInv, [Next]_vars PROVE IInv'
  OBVIOUS
<1>1. CASE UNCHANGED vars
  <2>1. now' \in Times /\ stepped' \in BOOLEAN /\ (~stepped' => ~stepped /\ now <= now')
    BY <1>1 DEF IInv, TypeOK
  <2>2. QED
    BY <1>1, <2>1, CardsAlone DEF IInv, TypeOK, OwnedRecordsHaveOwners
<1>2. QED
  BY <1>1, TickStep, BatchStepStep, CardStepStep, OwnedStepStep, AttemptStepStep DEF Next

\* An empty vault.
LEMMA InitIInv == Init => IInv
<1> SUFFICES ASSUME Init PROVE IInv
  OBVIOUS
<1>1. DOMAIN cards = {} /\ cards \in [DOMAIN cards -> Card]
  BY DEF Init
<1>2. TypeOK
  <2>1. now \in Times
    BY DEF Init
  <2>2. stepped \in BOOLEAN
    BY DEF Init
  <2>3. QED
    BY <1>1, <2>1, <2>2 DEF Init, TypeOK
<1>3. DrawnInv /\ ClockInv /\ OwnedRecordsHaveOwners
  BY <1>1 DEF Init, DrawnInv, ClockInv, OwnedRecordsHaveOwners
<1>4. LinksSound
  BY <1>1 DEF LinksSound, OnePredecessor, Acyclic
<1>5. QED
  BY <1>2, <1>3, <1>4 DEF IInv

(* The invariant the theorems below rest on: no link leads to an id that is *)
(* still to be drawn, no card is newer than a clock that was never set back, *)
(* the lineage is sound.                                                    *)
THEOREM Inductive == Spec => []IInv
BY InitIInv, NextIInv, PTL DEF Spec

(* Every mutator leaves records of the shape the file format has.           *)
THEOREM TypeCorrect == Spec => []TypeOK
<1>1. IInv => TypeOK
  BY DEF IInv
<1>2. QED
  BY <1>1, Inductive, PTL

(* No order of calls makes a cycle, a shared successor, or a link to a card *)
(* of another offering; nor one to an older card while the clock was never  *)
(* set back.                                                                *)
THEOREM LineageIsSound == Spec => []LinksSound
<1>1. IInv => LinksSound
  BY DEF IInv
<1>2. QED
  BY <1>1, Inductive, PTL

(* No order of calls leaves a record whose card is gone, but for aggregates *)
(* and attempts of a purged card.                                           *)
THEOREM OwnersAreThere == Spec => []OwnedRecordsHaveOwners
<1>1. IInv => OwnedRecordsHaveOwners
  BY DEF IInv
<1>2. QED
  BY <1>1, Inductive, PTL

-----------------------------------------------------------------------------
(* What a step may do to a link *)

\* A step that changes one card only to a given one.
LEMMA RewriteAt ==
  ASSUME NEW c \in DOMAIN cards, NEW card, Rewrite(c, card)
  PROVE  /\ DOMAIN cards' = DOMAIN cards
         /\ cards'[c] = card
         /\ \A d \in DOMAIN cards \ {c} : cards'[d] = cards[d]
         /\ WithinBounds(cards', children', aggregates', attempts')
         /\ UNCHANGED <<owned, purged>>
BY DEF Rewrite, With, Persist

\* Only a reconciliation of a card changes or drops the card's link.
LEMMA StepKeepsLineage ==
  ASSUME IInv, Next, NEW c \in DOMAIN cards, Linked(c), c \in DOMAIN cards',
         cards'[c].successor # cards[c].successor
  PROVE  Reconcile(c, cards'[c].offering, cards'[c].lifecycle, cards'[c].successor)
<1>1. cards[c] \in Card
  BY DEF IInv, TypeOK
<1>2. CASE \/ \E time \in Times : Tick(time)
           \/ \E id \in RecordIds, d \in CardIds : OwnedStep(id, d)
           \/ \E r \in attempts : AttemptStep(r)
  BY <1>2 DEF Tick, OwnedStep, AddChildRecord, UpsertManualAggregate,
              ClearManualAggregate, AddPrivateAttempt, AttemptStep,
              UpdatePrivateAttempt, DeletePrivateAttempt
<1>3. ASSUME NEW batch \in SUBSET (CardIds \ drawn), BatchStep(batch)
      PROVE  FALSE
  <2>1. PICK kind \in Kinds(batch), touched \in SUBSET DOMAIN cards :
          Enter(touched, kind)
    BY <1>3 DEF BatchStep, AddCards, ReconcileCards
  <2>2. QED
    BY <2>1, EnterFrame
<1>4. ASSUME NEW d \in CardIds, CardStep(d)
      PROVE  Reconcile(c, cards'[c].offering, cards'[c].lifecycle, cards'[c].successor)
  <2>1. CASE EditCard(d) \/ EraseCvvPin(d)
    <3>1. PICK fits \in BOOLEAN :
            Rewrite(d, [cards[d] EXCEPT !.updated = now, !.fits = fits])
      BY <2>1 DEF EditCard, EraseCvvPin, IInv, TypeOK
    <3>2. QED
      BY <1>1, <3>1 DEF Rewrite, With
  <2>2. ASSUME NEW l \in Lifecycles, TransitionCard(d, l)
        PROVE  FALSE
    BY <1>1, <2>2 DEF TransitionCard, Rewrite, With
  <2>3. CASE DeleteCard(d) \/ PurgeCard(d)
    BY <2>3 DEF DeleteCard, PurgeCard, Without
  <2>4. ASSUME NEW new \in CardIds \ drawn, NEW l \in Lifecycles,
               ReplaceCard(d, new, l)
        PROVE  FALSE
    <3>1. c # d /\ c # new /\ cards'[c] = cards[c]
      BY <2>4 DEF ReplaceCard, With, Linked, IInv, TypeOK
    <3>2. QED
      BY <3>1
  <2>5. ASSUME NEW o \in Offerings, NEW l \in Lifecycles,
               NEW s \in CardIds \cup {None}, Reconcile(d, o, l, s)
        PROVE  Reconcile(c, cards'[c].offering, cards'[c].lifecycle, cards'[c].successor)
    <3>1. PICK fits \in BOOLEAN : Rewrite(d, Reconciled(d, o, l, s, fits))
      BY <2>5 DEF Reconcile
    <3>2. /\ d \in DOMAIN cards
          /\ cards'[d] = Reconciled(d, o, l, s, fits)
          /\ \A e \in DOMAIN cards \ {d} : cards'[e] = cards[e]
      BY <2>5, <3>1, RewriteAt DEF Reconcile
    <3>3. c = d
      BY <3>2
    <3>4. /\ cards'[c].offering = o
          /\ cards'[c].lifecycle = l
          /\ cards'[c].successor = s
      BY <1>1, <3>2, <3>3 DEF Reconciled
    <3>5. QED
      BY <2>5, <3>3, <3>4
  <2>6. QED
    BY <1>4, <2>1, <2>2, <2>3, <2>4, <2>5 DEF CardStep
<1>5. QED
  BY <1>2, <1>3, <1>4 DEF Next

(* A replaced card keeps its link, whatever is called, until the owner      *)
(* confirms another lineage for that card.                                  *)
THEOREM LineageIsKept == Spec => LineageKept
<1>1. IInv /\ [Next]_vars =>
        [\A c \in DOMAIN cards :
           Linked(c) /\ c \in DOMAIN cards' /\ cards'[c].successor # cards[c].successor
             => Reconcile(c, cards'[c].offering, cards'[c].lifecycle,
                          cards'[c].successor)]_vars
  BY StepKeepsLineage
<1>2. QED
  BY <1>1, Inductive, PTL DEF Spec, LineageKept

-----------------------------------------------------------------------------
(* Which steps can close the vault *)

\* A vault whose links and values opening would accept opens if the times, the
\* sizes and the owners are right.
LEMMA SoundOpens ==
  ASSUME IInv', WithinBounds(cards', children', aggregates', attempts'),
         \A c \in DOMAIN cards' : LinkValid(cards', c) /\ cards'[c].fits,
         \A r \in TimedRecords' : TimesValid(r),
         Owners(children') \cup Owners(aggregates') \cup Owners(attempts')
           \subseteq DOMAIN cards'
  PROVE  Openable'
<1>1. OnePredecessor(cards') /\ Acyclic(cards')
  BY DEF IInv, LinksSound
<1>2. \A c \in DOMAIN cards' : TimesValid(cards'[c])
  BY DEF TimedRecords
<1>3. GraphValid(cards')
  BY <1>1, <1>2 DEF GraphValid
<1>4. OwnedParse(children)' /\ OwnedParse(aggregates)' /\ OwnedParse(attempts)'
  BY DEF OwnedParse, TimedRecords
<1>5. QED
  BY <1>3, <1>4 DEF Openable, PrivateStateParses

\* What is known of a vault that opens.
LEMMA OpenFacts ==
  ASSUME Openable
  PROVE  /\ \A c \in DOMAIN cards : LinkValid(cards, c) /\ cards[c].fits
         /\ \A r \in TimedRecords : TimesValid(r)
         /\ Owners(children) \subseteq DOMAIN cards
         /\ Owners(aggregates) \subseteq DOMAIN cards
         /\ Owners(attempts) \subseteq DOMAIN cards
BY DEF Openable, PrivateStateParses, OwnedParse, GraphValid, TimedRecords

\* Where the times of a record come from: from what was there, or the clock.
Dated(r) ==
  \/ \E q \in TimedRecords : r.created = q.created /\ r.updated = q.updated
  \/ /\ r.updated = now
     /\ r.created = now \/ \E q \in TimedRecords : r.created = q.created

\* A step that keeps times, or stamps with the clock when that is late enough,
\* leaves times that opening accepts.
LEMMA DatedValid ==
  ASSUME IInv, Openable, ~ StampsTooEarly, NEW r \in TimedRecords', Dated(r)
  PROVE  TimesValid(r)
<1>1. \A q \in TimedRecords : TimesValid(q)
  BY OpenFacts
<1>2. CASE \E q \in TimedRecords : r.created = q.created /\ r.updated = q.updated
  BY <1>1, <1>2 DEF TimesValid
<1>3. CASE r \in TimedRecords
  BY <1>1, <1>3
<1>4. CASE /\ r \notin TimedRecords /\ r.updated = now
           /\ r.created = now \/ \E q \in TimedRecords : r.created = q.created
  <2>1. ~ (now < r.created) /\ ~ (now < Year2000)
    BY <1>4 DEF StampsTooEarly
  <2>2. now \in Int /\ Year2000 \in Int
    BY DEF IInv, TypeOK
  <2>3. \A q \in TimedRecords : q.created \in Int
    BY DEF TimedRecords, IInv, TypeOK
  <2>4. CASE r.created = now
    BY <1>4, <2>1, <2>2, <2>4 DEF TimesValid
  <2>5. CASE \E q \in TimedRecords : r.created = q.created
    BY <1>1, <1>4, <2>1, <2>2, <2>3, <2>5 DEF TimesValid
  <2>6. QED
    BY <1>4, <2>4, <2>5
<1>5. QED
  BY <1>2, <1>3, <1>4 DEF Dated

\* Records of a card that is there close the vault only by their times.
LEMMA OwnedStepOpen ==
  ASSUME IInv, Openable, ~ StampsTooEarly,
         NEW id \in RecordIds, NEW c \in CardIds, OwnedStep(id, c)
  PROVE  Openable'
<1>1. IInv'
  BY OwnedStepStep
<1>2. /\ UNCHANGED cards /\ c \in DOMAIN cards
      /\ WithinBounds(cards', children', aggregates', attempts')
  BY DEF OwnedStep, AddChildRecord, UpsertManualAggregate, ClearManualAggregate,
         AddPrivateAttempt, Persist
<1>3. ASSUME NEW r \in children' \cup aggregates' \cup attempts'
      PROVE  \/ r \in children \cup aggregates \cup attempts
             \/ r = NewRecord(id, c)
             \/ \E q \in aggregates : r = [q EXCEPT !.updated = now]
  BY DEF OwnedStep, AddChildRecord, UpsertManualAggregate, ClearManualAggregate,
         AddPrivateAttempt
<1>4. ASSUME NEW r \in children' \cup aggregates' \cup attempts'
      PROVE  Dated(r) /\ r.card \in DOMAIN cards
  <2>1. CASE r \in children \cup aggregates \cup attempts
    BY <2>1, OpenFacts DEF Dated, TimedRecords
  <2>2. CASE r = NewRecord(id, c)
    BY <1>2, <2>2 DEF Dated
  <2>3. ASSUME NEW q \in aggregates, r = [q EXCEPT !.updated = now]
        PROVE  Dated(r) /\ r.card \in DOMAIN cards
    <3>1. q \in OwnedRecord /\ q \in TimedRecords
      BY DEF IInv, TypeOK, TimedRecords
    <3>2. r.updated = now /\ r.created = q.created /\ r.card = q.card
      BY <2>3, <3>1
    <3>3. QED
      BY <3>1, <3>2, OpenFacts DEF Dated
  <2>4. QED
    BY <1>3, <2>1, <2>2, <2>3
<1>5. \A r \in TimedRecords' : Dated(r)
  BY <1>2, <1>4 DEF TimedRecords, Dated
<1>6. \A d \in DOMAIN cards' : LinkValid(cards', d) /\ cards'[d].fits
  BY <1>2, OpenFacts
<1>7. QED
  BY <1>1, <1>2, <1>4, <1>5, <1>6, DatedValid, SoundOpens

\* The same of an attempt that is changed or deleted.
LEMMA AttemptStepOpen ==
  ASSUME IInv, Openable, ~ StampsTooEarly, NEW q \in attempts, AttemptStep(q)
  PROVE  Openable'
<1>1. IInv'
  BY AttemptStepStep
<1>2. /\ UNCHANGED <<cards, children, aggregates>>
      /\ WithinBounds(cards', children', aggregates', attempts')
  BY DEF AttemptStep, UpdatePrivateAttempt, DeletePrivateAttempt, Persist
<1>3. q \in OwnedRecord /\ q \in TimedRecords
  BY DEF IInv, TypeOK, TimedRecords
<1>4. ASSUME NEW r \in attempts'
      PROVE  Dated(r) /\ r.card \in DOMAIN cards
  <2>1. r \in attempts \/ r = [q EXCEPT !.updated = now]
    BY DEF AttemptStep, UpdatePrivateAttempt, DeletePrivateAttempt
  <2>2. CASE r \in attempts
    BY <2>2, OpenFacts DEF Dated, TimedRecords
  <2>3. CASE r = [q EXCEPT !.updated = now]
    <3>1. r.updated = now /\ r.created = q.created /\ r.card = q.card
      BY <1>3, <2>3
    <3>2. QED
      BY <1>3, <3>1, OpenFacts DEF Dated
  <2>4. QED
    BY <2>1, <2>2, <2>3
<1>5. \A r \in TimedRecords' : Dated(r)
  BY <1>2, <1>4 DEF TimedRecords, Dated
<1>6. \A d \in DOMAIN cards' : LinkValid(cards', d) /\ cards'[d].fits
  BY <1>2, OpenFacts
<1>7. Owners(children') \cup Owners(aggregates') \cup Owners(attempts')
        \subseteq DOMAIN cards'
  BY <1>2, <1>4, OpenFacts
<1>8. QED
  BY <1>1, <1>2, <1>5, <1>6, <1>7, DatedValid, SoundOpens

\* Nothing of the vault changes but the clock.
LEMMA TickOpen ==
  ASSUME Openable, NEW time \in Times, Tick(time)
  PROVE  Openable'
BY DEF Tick, Openable, PrivateStateParses, OwnedParse, WithinBounds, GraphValid,
       LinkValid, OnePredecessor, Acyclic, TimesValid

\* Steps that change cards and no record of one: what is left to show is that
\* the links and values are accepted and the times come from somewhere.
LEMMA CardsOpen ==
  ASSUME IInv, Openable, ~ StampsTooEarly, IInv',
         WithinBounds(cards', children', aggregates', attempts'), UNCHANGED owned,
         DOMAIN cards \subseteq DOMAIN cards',
         \A c \in DOMAIN cards' :
           LinkValid(cards', c) /\ cards'[c].fits /\ Dated(cards'[c])
  PROVE  Openable'
<1>1. \A r \in TimedRecords' : Dated(r)
  BY DEF TimedRecords, Dated
<1>2. Owners(children') \cup Owners(aggregates') \cup Owners(attempts')
        \subseteq DOMAIN cards'
  BY OpenFacts
<1>3. QED
  BY <1>1, <1>2, DatedValid, SoundOpens

\* Cards without links do not close the vault, nor do values added to others ...
LEMMA EnterOpen ==
  ASSUME IInv, Openable, ~ StampsTooEarly,
         NEW batch \in SUBSET (CardIds \ drawn), NEW kind \in Kinds(batch),
         NEW touched \in SUBSET DOMAIN cards, Enter(touched, kind)
  PROVE  Openable'
<1>1. IInv'
  BY EnterStep
<1>2. /\ DOMAIN cards' = DOMAIN cards \cup batch
      /\ DOMAIN cards \cap batch = {}
      /\ UNCHANGED owned
      /\ WithinBounds(cards', children', aggregates', attempts')
  BY EnterFrame
<1>3. ASSUME NEW c \in DOMAIN cards
      PROVE  /\ cards'[c].successor = cards[c].successor
             /\ cards'[c].offering = cards[c].offering
             /\ cards'[c].lifecycle = cards[c].lifecycle
             /\ cards'[c].created = cards[c].created
             /\ cards'[c].fits = cards[c].fits
             /\ cards'[c].updated \in {cards[c].updated, now}
  BY EnterFrame
<1>4. ASSUME NEW c \in batch
      PROVE  /\ cards'[c].successor = None /\ cards'[c].fits
             /\ cards'[c].created = now /\ cards'[c].updated = now
  BY EnterFrame
<1>5. ASSUME NEW c \in DOMAIN cards'
      PROVE  LinkValid(cards', c) /\ cards'[c].fits /\ Dated(cards'[c])
  <2>1. CASE c \in batch
    BY <1>4, <2>1 DEF LinkValid, Dated
  <2>2. CASE c \in DOMAIN cards
    <3>1. LinkValid(cards, c) /\ cards[c].fits /\ cards[c] \in TimedRecords
      BY <2>2, OpenFacts DEF TimedRecords
    <3>2. LinkValid(cards', c)
      BY <1>2, <1>3, <2>2, <3>1 DEF LinkValid
    <3>3. QED
      BY <1>3, <2>2, <3>1, <3>2 DEF Dated
  <2>3. QED
    BY <1>2, <2>1, <2>2
<1>6. QED
  BY <1>1, <1>2, <1>5, CardsOpen

\* ... nor does a replacement, although it is not validated, if the clock is not
\* behind: the new card is not older than the one it replaces ...
LEMMA ReplaceCardOpen ==
  ASSUME IInv, Openable, ~ StampsTooEarly, NEW c \in CardIds,
         NEW new \in CardIds \ drawn, NEW l \in Lifecycles, ReplaceCard(c, new, l)
  PROVE  Openable'
<1> DEFINE fresh == NewCard(cards[c].offering, Active)
           old == [cards[c] EXCEPT !.lifecycle = l, !.successor = new,
                                   !.updated = Timestamp]
<1>1. IInv'
  BY ReplaceCardStep
<1>2. /\ c \in DOMAIN cards /\ new \notin DOMAIN cards /\ c # new
      /\ cards[c] \in Card /\ l # Active /\ cards[c] \in TimedRecords
      /\ cards[c].successor = None
      /\ UNCHANGED owned
      /\ WithinBounds(cards', children', aggregates', attempts')
  BY DEF ReplaceCard, Persist, IInv, TypeOK, TimedRecords
<1>3. cards' = With(With(cards, new, fresh), c, old)
  BY DEF ReplaceCard
<1>4. /\ DOMAIN cards' = DOMAIN cards \cup {new}
      /\ cards'[c] = old
      /\ cards'[new] = fresh
      /\ \A d \in DOMAIN cards \ {c} : cards'[d] = cards[d]
  BY <1>2, <1>3 DEF With
<1>5. /\ old.successor = new /\ old.lifecycle = l /\ old.updated = now
      /\ old.offering = cards[c].offering /\ old.created = cards[c].created
      /\ old.fits = cards[c].fits
      /\ fresh.successor = None /\ fresh.offering = cards[c].offering
      /\ fresh.created = now /\ fresh.updated = now /\ fresh.fits
  BY <1>2 DEF NewCard, IInv, TypeOK
<1> HIDE DEF fresh, old
<1>6. new \in CardIds
  OBVIOUS
<1>7. old \notin TimedRecords
  <2>1. ASSUME NEW d \in DOMAIN cards, cards[d] = old
        PROVE  FALSE
    <3>1. cards[d].successor \in drawn \cup {None}
      BY DEF IInv, DrawnInv
    <3>2. QED
      BY <1>5, <1>6, <2>1, <3>1
  <2>2. ASSUME NEW r \in OwnedRecord, r = old
        PROVE  FALSE
    <3>1. DOMAIN r = {"id", "card", "created", "updated"}
      OBVIOUS
    <3>2. DOMAIN old = {"offering", "lifecycle", "created", "updated", "successor", "fits"}
      BY <1>2 DEF old
    <3>3. QED
      BY <2>2, <3>1, <3>2
  <2>3. QED
    BY <2>1, <2>2 DEF TimedRecords, IInv, TypeOK
<1>8. now >= cards[c].created
  <2>1. old \in TimedRecords'
    BY <1>2, <1>4 DEF TimedRecords
  <2>2. ~ (now < old.created)
    BY <1>5, <1>7, <2>1 DEF StampsTooEarly
  <2>3. QED
    BY <1>2, <1>5, <2>2 DEF IInv, TypeOK
<1>9. ASSUME NEW d \in DOMAIN cards'
      PROVE  LinkValid(cards', d) /\ cards'[d].fits /\ Dated(cards'[d])
  <2>1. CASE d = c
    <3>1. LinkValid(cards', d)
      BY <1>2, <1>4, <1>5, <1>8, <2>1 DEF LinkValid
    <3>2. cards[c].fits
      BY <1>2, OpenFacts
    <3>3. Dated(cards'[d])
      BY <1>2, <1>4, <1>5, <2>1 DEF Dated
    <3>4. QED
      BY <1>4, <1>5, <2>1, <3>1, <3>2, <3>3
  <2>2. CASE d = new
    BY <1>4, <1>5, <2>2 DEF LinkValid, Dated
  <2>3. CASE d \in DOMAIN cards \ {c}
    <3>1. LinkValid(cards, d) /\ cards[d].fits
      BY <2>3, OpenFacts
    <3>2. cards'[d] = cards[d]
      BY <1>4, <2>3
    <3>3. ASSUME NEW e \in DOMAIN cards
          PROVE  /\ cards'[e].offering = cards[e].offering
                 /\ cards'[e].created = cards[e].created
      BY <1>4, <1>5
    <3>4. LinkValid(cards', d)
      BY <1>4, <3>1, <3>2, <3>3 DEF LinkValid
    <3>5. Dated(cards'[d])
      BY <2>3, <3>2 DEF Dated, TimedRecords
    <3>6. QED
      BY <3>1, <3>2, <3>4, <3>5
  <2>4. QED
    BY <1>4, <2>1, <2>2, <2>3
<1>10. QED
  BY <1>1, <1>2, <1>4, <1>9, CardsOpen

\* Touching a card, or giving it a lifecycle its link allows.
LEMMA RewriteOpen ==
  ASSUME IInv, Openable, ~ StampsTooEarly, NEW c \in DOMAIN cards, NEW card \in Card,
         Rewrite(c, card),
         card.created = cards[c].created, card.offering = cards[c].offering,
         card.successor = cards[c].successor, card.fits,
         card.updated = now,
         card.lifecycle = Active => card.successor = None \/ cards[c].lifecycle = Active
  PROVE  Openable'
<1>1. IInv'
  BY RewriteKeepsLinks
<1>2. /\ DOMAIN cards' = DOMAIN cards
      /\ cards'[c] = card
      /\ \A d \in DOMAIN cards \ {c} : cards'[d] = cards[d]
      /\ WithinBounds(cards', children', aggregates', attempts')
      /\ UNCHANGED owned
  BY RewriteAt
<1>3. ASSUME NEW d \in DOMAIN cards
      PROVE  /\ cards'[d].offering = cards[d].offering
             /\ cards'[d].created = cards[d].created
             /\ cards'[d].successor = cards[d].successor
             /\ cards'[d].fits
             /\ Dated(cards'[d])
  BY <1>2, OpenFacts DEF Dated, TimedRecords
<1>4. ASSUME NEW d \in DOMAIN cards
      PROVE  LinkValid(cards', d)
  <2>1. LinkValid(cards, d)
    BY OpenFacts
  <2>2. cards[d].successor # None => cards'[d].lifecycle # Active
    BY <1>2, <2>1 DEF LinkValid
  <2>3. QED
    BY <1>2, <1>3, <2>1, <2>2 DEF LinkValid
<1>5. QED
  BY <1>1, <1>2, <1>3, <1>4, CardsOpen

\* ... nor a reconciliation whose metadata is not too long, because the lineage
\* is validated.
LEMMA ReconcileOpen ==
  ASSUME IInv, Openable, ~ StampsTooEarly, NEW c \in CardIds, NEW o \in Offerings,
         NEW l \in Lifecycles, NEW s \in CardIds \cup {None}, Reconcile(c, o, l, s),
         cards'[c].fits
  PROVE  Openable'
<1>1. PICK fits \in BOOLEAN :
        /\ c \in DOMAIN cards
        /\ Rewrite(c, Reconciled(c, o, l, s, fits))
        /\ GraphValid(cards')
  BY DEF Reconcile, Rewrite
<1>2. /\ DOMAIN cards' = DOMAIN cards
      /\ \A d \in DOMAIN cards \ {c} : cards'[d] = cards[d]
      /\ WithinBounds(cards', children', aggregates', attempts')
      /\ UNCHANGED owned
  BY <1>1, RewriteAt
<1>3. \A d \in DOMAIN cards' : cards'[d].fits
  BY <1>2, OpenFacts
<1>4. OwnedParse(children)' /\ OwnedParse(aggregates)' /\ OwnedParse(attempts)'
  BY <1>2 DEF Openable, PrivateStateParses, OwnedParse, TimesValid
<1>5. QED
  BY <1>1, <1>2, <1>3, <1>4 DEF Openable, PrivateStateParses

\* A card to which no other card is linked, and a purge only of a card without
\* private state.
LEMMA RemovalOpen ==
  ASSUME IInv, Openable, NEW c \in CardIds, DeleteCard(c) \/ PurgeCard(c),
         \A d \in DOMAIN cards : cards[d].successor # c,
         PurgeCard(c) => c \notin Owners(aggregates) \cup Owners(attempts)
  PROVE  Openable'
<1>1. IInv'
  BY RemovalStep
<1>2. /\ DOMAIN cards' = DOMAIN cards \ {c}
      /\ \A d \in DOMAIN cards' : cards'[d] = cards[d]
      /\ WithinBounds(cards', children', aggregates', attempts')
  BY DEF DeleteCard, PurgeCard, Without, Persist
<1>3. Owners(children') \cup Owners(aggregates') \cup Owners(attempts')
        \subseteq DOMAIN cards'
  BY <1>2, OpenFacts DEF DeleteCard, PurgeCard
<1>4. ASSUME NEW d \in DOMAIN cards'
      PROVE  LinkValid(cards', d) /\ cards'[d].fits
  <2>1. LinkValid(cards, d) /\ cards[d].fits
    BY <1>2, OpenFacts
  <2>2. QED
    BY <1>2, <2>1 DEF LinkValid
<1>5. TimedRecords' \subseteq TimedRecords
  BY <1>2 DEF TimedRecords, DeleteCard, PurgeCard
<1>6. QED
  BY <1>1, <1>2, <1>3, <1>4, <1>5, OpenFacts, SoundOpens

\* A card some step removes, purges, reactivates or gives too long metadata, as
\* the theorem lists them.
Culprit(c) ==
  \/ c \notin DOMAIN cards' /\ \E d \in DOMAIN cards : cards[d].successor = c
  \/ c \in purged' \ purged /\ c \in Owners(aggregates) \cup Owners(attempts)
  \/ Linked(c) /\ c \in DOMAIN cards' /\ cards'[c].successor = cards[c].successor
     /\ cards'[c].lifecycle = Active
  \/ cards[c].fits /\ c \in DOMAIN cards' /\ ~cards'[c].fits

\* A step of one card that closes the vault has a culprit, or stamps too early.
LEMMA CardStepOpen ==
  ASSUME IInv, Openable, ~ StampsTooEarly, NEW c \in CardIds, CardStep(c),
         \A d \in DOMAIN cards : ~ Culprit(d)
  PROVE  Openable'
<1>1. CASE EditCard(c) \/ EraseCvvPin(c)
  <2> DEFINE card == [cards[c] EXCEPT !.updated = Timestamp, !.fits = TRUE]
  <2>1. c \in DOMAIN cards /\ cards[c] \in Card /\ cards[c].fits
    BY <1>1, OpenFacts DEF EditCard, EraseCvvPin, IInv, TypeOK
  <2>2. Rewrite(c, card)
    BY <1>1, <2>1 DEF EditCard, EraseCvvPin
  <2>3. /\ card \in Card /\ card.created = cards[c].created
        /\ card.offering = cards[c].offering /\ card.successor = cards[c].successor
        /\ card.updated = now /\ card.lifecycle = cards[c].lifecycle /\ card.fits
    BY <2>1 DEF IInv, TypeOK
  <2> HIDE DEF card
  <2>4. QED
    BY <2>1, <2>2, <2>3, RewriteOpen
<1>2. ASSUME NEW l \in Lifecycles, TransitionCard(c, l)
      PROVE  Openable'
  <2> DEFINE card == [cards[c] EXCEPT !.lifecycle = l, !.updated = Timestamp]
  <2>1. /\ c \in DOMAIN cards /\ cards[c] \in Card /\ cards[c].fits
        /\ Rewrite(c, card)
    BY <1>2, OpenFacts DEF TransitionCard, IInv, TypeOK
  <2>2. /\ card \in Card /\ card.created = cards[c].created
        /\ card.offering = cards[c].offering /\ card.successor = cards[c].successor
        /\ card.updated = now /\ card.lifecycle = l /\ card.fits
    BY <2>1 DEF IInv, TypeOK
  <2> HIDE DEF card
  <2>3. card.lifecycle = Active => card.successor = None
    BY <2>1, <2>2, RewriteAt DEF Culprit, Linked
  <2>4. QED
    BY <2>1, <2>2, <2>3, RewriteOpen
<1>3. CASE DeleteCard(c) \/ PurgeCard(c)
  <2>1. c \in DOMAIN cards /\ DOMAIN cards' = DOMAIN cards \ {c}
    BY <1>3 DEF DeleteCard, PurgeCard, Without
  <2>2. \A d \in DOMAIN cards : cards[d].successor # c
    BY <2>1 DEF Culprit
  <2>3. PurgeCard(c) => c \in purged' \ purged
    BY <2>1 DEF PurgeCard, IInv, DrawnInv
  <2>4. PurgeCard(c) => c \notin Owners(aggregates) \cup Owners(attempts)
    BY <2>1, <2>3 DEF Culprit
  <2>5. QED
    BY <1>3, <2>2, <2>4, RemovalOpen
<1>4. ASSUME NEW o \in Offerings, NEW l \in Lifecycles,
             NEW s \in CardIds \cup {None}, Reconcile(c, o, l, s)
      PROVE  Openable'
  <2>1. c \in DOMAIN cards /\ c \in DOMAIN cards'
    BY <1>4 DEF Reconcile, Rewrite, With
  <2>2. cards'[c].fits
    BY <2>1, OpenFacts DEF Culprit
  <2>3. QED
    BY <1>4, <2>2, ReconcileOpen
<1>5. QED
  BY <1>1, <1>2, <1>3, <1>4, ReplaceCardOpen DEF CardStep

\* A step that closes the vault stamps too early or has a culprit.
LEMMA StepKeepsOpen ==
  ASSUME IInv, Next, Openable, ~ Openable'
  PROVE  StampsTooEarly \/ \E c \in DOMAIN cards : Culprit(c)
<1>1. ASSUME NEW batch \in SUBSET (CardIds \ drawn), BatchStep(batch), ~ StampsTooEarly
      PROVE  Openable'
  BY <1>1, EnterOpen DEF BatchStep, AddCards, ReconcileCards
<1>2. QED
  BY <1>1, TickOpen, CardStepOpen, OwnedStepOpen, AttemptStepOpen DEF Next

(* Whatever is called in whatever order, and whatever the clock does, a     *)
(* vault that opens stays one that opens, except by the five kinds of step  *)
(* the property names.                                                      *)
THEOREM OnlyFiveKinds == Spec => OnlyFiveKindsCloseVault
<1>1. IInv /\ [Next]_vars =>
        [Openable /\ ~ Openable' =>
           \/ StampsTooEarly
           \/ \E c \in DOMAIN cards :
                \/ c \notin DOMAIN cards' /\ \E d \in DOMAIN cards : cards[d].successor = c
                \/ c \in purged' \ purged /\ c \in Owners(aggregates) \cup Owners(attempts)
                \/ Linked(c) /\ c \in DOMAIN cards' /\ cards'[c].successor = cards[c].successor
                   /\ cards'[c].lifecycle = Active
                \/ cards[c].fits /\ c \in DOMAIN cards' /\ ~cards'[c].fits]_vars
  BY StepKeepsOpen DEF Culprit
<1>2. QED
  BY <1>1, Inductive, PTL DEF Spec, OnlyFiveKindsCloseVault
=============================================================================
