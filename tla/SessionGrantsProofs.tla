-------------------------- MODULE SessionGrantsProofs --------------------------
(***************************************************************************)
(* Proofs about SessionGrants, for any number of keys, attempts, cards,      *)
(* nonces and saves, and any limits.                                         *)
(***************************************************************************)
EXTENDS SessionGrants, FiniteSetTheorems, TLAPS

\* The snapshot is an earlier state of the file, or the file itself.
SnapshotInv ==
  /\ snap.rev <= disk.rev
  /\ snap.rev = disk.rev => snap = disk

\* A contract is about a change that reached the file, at the save that its
\* receipt names; every such change was made on a revision the file has left.
ContractInv ==
  /\ IsFiniteSet(DOMAIN contracts)
  /\ \A k \in DOMAIN contracts :
       /\ contracts[k].receipt.op = contracts[k].op
       /\ [key |-> k, exp |-> contracts[k].exp, rev |-> contracts[k].receipt.rev] \in applied
  /\ \A a \in applied : a.exp < disk.rev

\* A nonce for a reconciliation is about a card as the snapshot had it at the
\* revision it names; lock leaves none behind.
PermitInv ==
  /\ ~unlocked => DOMAIN permits = {}
  /\ \A n \in DOMAIN permits : permits[n].kind = "reconcile" =>
       /\ permits[n].rev <= snap.rev
       /\ permits[n].rev = snap.rev => snap.cards[permits[n].card] = permits[n].old

GrantsInv == GrantsTypeOK /\ SnapshotInv /\ ContractInv /\ PermitInv /\ KeyedOnce

-----------------------------------------------------------------------------
USE GrantLimits, GrantAbsent DEF grantVars, Revisions, Verdicts, Nothing

\* The types of the file and its snapshot, of the contracts, of the nonces and
\* of what was answered and made.
FileTypes ==
  /\ DOMAIN disk.attempts \cup DOMAIN snap.attempts \subseteq drawn
  /\ disk \in FileContents(DOMAIN disk.attempts)
  /\ snap \in FileContents(DOMAIN snap.attempts)

Contract == [op : Ops, exp : Revisions, receipt : Receipt]
ContractTypes ==
  /\ DOMAIN contracts \subseteq IdempotencyKeys
  /\ contracts \in [DOMAIN contracts -> Contract]
  /\ Cardinality(DOMAIN contracts) <= MaxContracts

PermitTypes ==
  /\ DOMAIN permits \subseteq drawn \cap Nonces
  /\ permits \in [DOMAIN permits -> Permit]
HistoryTypes ==
  /\ unlocked \in BOOLEAN
  /\ reply \in [key : IdempotencyKeys, op : Ops, exp : Revisions, receipt : Receipt] \cup {NoGrant}
  /\ applied \subseteq [key : IdempotencyKeys, exp : Revisions, rev : Revisions]

\* A function with one more argument.
LEMMA WithOne ==
  ASSUME NEW D, NEW S, NEW f \in [D -> S], NEW x, NEW v \in S
  PROVE  With(f, x, v) \in [D \cup {x} -> S]
BY DEF With

\* A function with fewer arguments.
LEMMA WithoutSome ==
  ASSUME NEW D, NEW S, NEW f \in [D -> S], NEW T
  PROVE  Without(f, T) \in [D \ T -> S]
BY DEF Without

\* What a change of an attempt makes of the snapshot is contents of a file, with
\* no attempt but those of the snapshot and the one created.
LEMMA ChangedType ==
  ASSUME GrantsTypeOK, NEW op \in Ops, NEW id \in AttemptIds \cup {NoGrant}, Possible(op, id)
  PROVE  /\ Changed(op, id) \in FileContents(DOMAIN Changed(op, id).attempts)
         /\ DOMAIN Changed(op, id).attempts \subseteq drawn \cup ({id} \ {NoGrant})
         /\ Changed(op, id).rev = snap.rev
<1> USE DEF FileContents
<1>1. /\ snap \in FileContents(DOMAIN snap.attempts) /\ DOMAIN snap.attempts \subseteq drawn
      /\ snap.attempts \in [DOMAIN snap.attempts -> Outcomes]
  BY DEF GrantsTypeOK
<1>2. ASSUME NEW a, a \in [DOMAIN a -> Outcomes], Changed(op, id) = [snap EXCEPT !.attempts = a]
      PROVE  /\ Changed(op, id) \in FileContents(DOMAIN Changed(op, id).attempts)
             /\ Changed(op, id).attempts = a
             /\ Changed(op, id).rev = snap.rev
  BY <1>1, <1>2
<1>3. CASE op.action = "attempt.create"
  <2> DEFINE a == With(snap.attempts, id, op.outcome)
  <2>1. op.outcome \in Outcomes /\ id \in AttemptIds
    BY <1>3 DEF Ops, Possible
  <2>2. a \in [DOMAIN snap.attempts \cup {id} -> Outcomes]
    BY <1>1, <2>1, WithOne
  <2>3. Changed(op, id) = [snap EXCEPT !.attempts = a]
    BY <1>3 DEF Changed
  <2> HIDE DEF a
  <2>4. QED
    BY <1>1, <1>2, <2>1, <2>2, <2>3
<1>4. CASE op.action = "attempt.update"
  <2> DEFINE a == With(snap.attempts, op.attempt, op.outcome)
  <2>1. op.outcome \in Outcomes /\ op.attempt \in DOMAIN snap.attempts
    BY <1>4 DEF Ops, Possible
  <2>2. a \in [DOMAIN snap.attempts \cup {op.attempt} -> Outcomes]
    BY <1>1, <2>1, WithOne
  <2>3. Changed(op, id) = [snap EXCEPT !.attempts = a]
    BY <1>4 DEF Changed
  <2> HIDE DEF a
  <2>4. QED
    BY <1>1, <1>2, <2>1, <2>2, <2>3
<1>5. CASE op.action = "attempt.delete"
  <2> DEFINE a == Without(snap.attempts, {op.attempt})
  <2>1. a \in [DOMAIN snap.attempts \ {op.attempt} -> Outcomes]
    BY <1>1, WithoutSome
  <2>2. Changed(op, id) = [snap EXCEPT !.attempts = a]
    BY <1>5 DEF Changed
  <2> HIDE DEF a
  <2>3. QED
    BY <1>1, <1>2, <2>1, <2>2
<1>6. QED
  BY <1>3, <1>4, <1>5 DEF Ops

\* A save is of the contents given, one revision on.
LEMMA PersistedType ==
  ASSUME GrantsTypeOK, NEW new, new \in FileContents(DOMAIN new.attempts),
         NEW acknowledged \in BOOLEAN,
         Persisted(new, acknowledged)
  PROVE  /\ disk' \in FileContents(DOMAIN disk'.attempts)
         /\ disk'.attempts = new.attempts /\ disk'.rev = disk.rev + 1
         /\ snap' = disk' \/ snap' = snap
<1> USE DEF FileContents
<1>1. disk.rev + 1 \in Revisions
  BY DEF Persisted, GrantsTypeOK
<1>2. QED
  BY <1>1 DEF Persisted

\* Every step keeps the types of the file and of the snapshot.
LEMMA FileTypesStep ==
  ASSUME GrantsTypeOK, GrantsNext
  PROVE  FileTypes'
<1> USE DEF FileTypes
<1>1. FileTypes
  BY DEF GrantsTypeOK
<1>2. ASSUME UNCHANGED <<disk, snap>>, drawn \subseteq drawn'
      PROVE  FileTypes'
  BY <1>1, <1>2
<1>3. ASSUME NEW new, new \in FileContents(DOMAIN new.attempts), DOMAIN new.attempts \subseteq drawn',
             drawn \subseteq drawn', NEW acknowledged \in BOOLEAN, Persisted(new, acknowledged)
      PROVE  FileTypes'
  BY <1>1, <1>3, PersistedType
<1>4. CASE OpenGrants
  BY <1>1, <1>4 DEF OpenGrants
<1>5. CASE SavedElsewhere
  <2>1. PICK c \in Cards, v \in States :
          disk' = [[disk EXCEPT !.rev = @ + 1] EXCEPT !.cards = [@ EXCEPT ![c] = v]]
    BY <1>5 DEF SavedElsewhere
  <2>2. disk.rev + 1 \in Revisions /\ [disk.cards EXCEPT ![c] = v] \in [Cards -> States]
    BY <1>1, <1>5 DEF SavedElsewhere, FileContents
  <2>3. disk' \in FileContents(DOMAIN disk.attempts) /\ disk'.attempts = disk.attempts
    BY <1>1, <2>1, <2>2 DEF FileContents
  <2>4. QED
    BY <1>1, <1>5, <2>3 DEF SavedElsewhere
<1>6. ASSUME NEW op \in Ops, NEW id \in AttemptIds \cup {NoGrant}, Possible(op, id),
             drawn' = drawn \cup ({id} \ {NoGrant}), NEW acknowledged \in BOOLEAN,
             Persisted(Changed(op, id), acknowledged)
      PROVE  FileTypes'
  BY <1>3, <1>6, ChangedType
<1>7. ASSUME NEW op \in Ops, NEW id \in AttemptIds \cup {NoGrant}, UnkeyedChange(op, id)
      PROVE  FileTypes'
  BY <1>6, <1>7 DEF UnkeyedChange
<1>8. ASSUME NEW k \in IdempotencyKeys, NEW op \in Ops, NEW exp \in Revisions,
             NEW id \in AttemptIds \cup {NoGrant}, NEW acknowledged \in BOOLEAN,
             KeyedChange(k, op, exp, id, acknowledged)
      PROVE  FileTypes'
  BY <1>6, <1>8 DEF KeyedChange
<1>9. ASSUME NEW n \in Nonces, NEW acknowledged \in BOOLEAN, ApplyReconciliation(n, acknowledged)
      PROVE  FileTypes'
  <2> DEFINE new == Verdict(permits[n])
  <2>1. permits[n] \in Permit /\ permits[n].kind = "reconcile"
    BY <1>9 DEF ApplyReconciliation, Consume, BoundTo, GrantsTypeOK
  <2>2. permits[n].card \in Cards /\ permits[n].new \in States
    BY <2>1 DEF Permit
  <2>3. new \in FileContents(DOMAIN snap.attempts) /\ new.attempts = snap.attempts
    <3>1. CASE permits[n].verdict \in {"defer", "reject"}
      <4>1. new = [snap EXCEPT !.events = @ + 1] /\ snap.events < MaxEvents
        BY <1>9, <3>1 DEF ApplyReconciliation, Verdict
      <4>2. QED
        BY <1>1, <4>1 DEF FileContents
    <3>2. CASE permits[n].verdict \notin {"defer", "reject"}
      <4> DEFINE cards == [snap.cards EXCEPT ![permits[n].card] = permits[n].new]
      <4>1. new = [snap EXCEPT !.cards = cards]
        BY <3>2 DEF Verdict
      <4>2. cards \in [Cards -> States]
        BY <1>1, <2>2 DEF FileContents
      <4> HIDE DEF cards
      <4>3. QED
        BY <1>1, <4>1, <4>2 DEF FileContents
    <3>3. QED
      BY <3>1, <3>2
  <2>4. Persisted(new, acknowledged) /\ drawn' = drawn
    BY <1>9 DEF ApplyReconciliation, Consume
  <2> HIDE DEF new
  <2>5. QED
    BY <1>1, <1>3, <2>3, <2>4
<1>10. QED
  BY <1>2, <1>4, <1>5, <1>7, <1>8, <1>9 DEF GrantsNext, LockGrants, ReplayedChange, ContractExpires,
     AuthorizeAction, AuthorizeReconciliation, Grant, ConsumeAction, Consume

\* Every step keeps the types of the contracts and their limit.
LEMMA ContractTypesStep ==
  ASSUME GrantsTypeOK, IsFiniteSet(DOMAIN contracts), GrantsNext
  PROVE  ContractTypes' /\ IsFiniteSet(DOMAIN contracts')
<1>1. ContractTypes
  BY DEF GrantsTypeOK, ContractTypes, Contract
<1>2. CASE UNCHANGED contracts
  BY <1>1, <1>2 DEF ContractTypes
<1>3. CASE contracts' = Nothing
  <2>1. DOMAIN contracts' = {} /\ contracts' \in [{} -> Contract]
    BY <1>3
  <2>2. Cardinality({}) = 0 /\ IsFiniteSet({})
    BY FS_EmptySet
  <2>3. QED
    BY <2>1, <2>2 DEF ContractTypes
<1>4. ASSUME NEW k \in DOMAIN contracts, contracts' = Without(contracts, {k})
      PROVE  ContractTypes' /\ IsFiniteSet(DOMAIN contracts')
  <2>1. contracts' \in [DOMAIN contracts \ {k} -> Contract]
    BY <1>1, <1>4, WithoutSome DEF ContractTypes
  <2>2. /\ IsFiniteSet(DOMAIN contracts \ {k})
        /\ Cardinality(DOMAIN contracts \ {k}) = Cardinality(DOMAIN contracts) - 1
        /\ Cardinality(DOMAIN contracts) \in Nat
    BY FS_RemoveElement, FS_CardinalityType
  <2>3. QED
    BY <1>1, <2>1, <2>2 DEF ContractTypes
<1>5. ASSUME NEW k \in IdempotencyKeys, NEW op \in Ops, NEW exp \in Revisions,
             NEW id \in AttemptIds \cup {NoGrant}, NEW acknowledged \in BOOLEAN,
             KeyedChange(k, op, exp, id, acknowledged), contracts' # contracts
      PROVE  ContractTypes' /\ IsFiniteSet(DOMAIN contracts')
  <2> DEFINE receipt == [op |-> op, rev |-> disk'.rev]
  <2>1. contracts' = With(contracts, k, [op |-> op, exp |-> exp, receipt |-> receipt])
    BY <1>5 DEF KeyedChange
  <2>2. disk'.rev \in Revisions
    BY <1>5, FileTypesStep DEF FileTypes, FileContents
  <2>3. contracts' \in [DOMAIN contracts \cup {k} -> Contract]
    BY <1>1, <2>1, <2>2, WithOne DEF ContractTypes, Contract, Receipt
  <2>4. k \notin DOMAIN contracts /\ Cardinality(DOMAIN contracts) < MaxContracts
    BY <1>5 DEF KeyedChange, Prepares
  <2>5. /\ IsFiniteSet(DOMAIN contracts \cup {k})
        /\ Cardinality(DOMAIN contracts \cup {k}) = Cardinality(DOMAIN contracts) + 1
        /\ Cardinality(DOMAIN contracts) \in Nat
    BY <2>4, FS_AddElement, FS_CardinalityType
  <2>6. QED
    BY <1>1, <2>3, <2>4, <2>5 DEF ContractTypes
<1>6. QED
  BY <1>2, <1>3, <1>4, <1>5 DEF GrantsNext, OpenGrants, LockGrants, SavedElsewhere, UnkeyedChange,
     ReplayedChange, ContractExpires, AuthorizeAction, AuthorizeReconciliation, Grant,
     ConsumeAction, ApplyReconciliation, Consume

\* Every step keeps the types of the nonces.
LEMMA PermitTypesStep ==
  ASSUME GrantsTypeOK, GrantsNext
  PROVE  PermitTypes'
<1>1. PermitTypes
  BY DEF GrantsTypeOK, PermitTypes
<1>2. ASSUME permits' = permits, drawn \subseteq drawn'
      PROVE  PermitTypes'
  BY <1>1, <1>2 DEF PermitTypes
<1>3. CASE LockGrants
  <2>1. DOMAIN permits' = {} /\ permits' \in [{} -> Permit]
    BY <1>3 DEF LockGrants
  <2>2. QED
    BY <2>1 DEF PermitTypes
<1>4. ASSUME NEW n \in Nonces, NEW permit \in Permit, Grant(n, permit)
      PROVE  PermitTypes'
  <2>1. permits' \in [DOMAIN permits \cup {n} -> Permit]
    BY <1>1, <1>4, WithOne DEF Grant, PermitTypes
  <2>2. QED
    BY <1>1, <1>4, <2>1 DEF Grant, PermitTypes
<1>5. ASSUME NEW n \in Nonces, NEW c \in Cards, NEW kind \in {"reveal", "copy"},
             AuthorizeAction(n, c, kind)
      PROVE  PermitTypes'
  BY <1>4, <1>5 DEF AuthorizeAction, Permit
<1>6. ASSUME NEW n \in Nonces, NEW c \in Cards, NEW verdict \in Verdicts, NEW new \in States,
             AuthorizeReconciliation(n, c, verdict, new)
      PROVE  PermitTypes'
  <2>1. snap.cards[c] \in States /\ snap.rev \in Revisions
    BY DEF GrantsTypeOK, FileContents
  <2>2. QED
    BY <1>4, <1>6, <2>1 DEF AuthorizeReconciliation, Permit
<1>7. ASSUME NEW n \in Nonces, Consume(n)
      PROVE  PermitTypes'
  <2>1. permits' \in [DOMAIN permits \ {n} -> Permit]
    BY <1>1, <1>7, WithoutSome DEF Consume, PermitTypes
  <2>2. QED
    BY <1>1, <1>7, <2>1 DEF Consume, PermitTypes
<1>8. QED
  BY <1>2, <1>3, <1>5, <1>6, <1>7 DEF GrantsNext, OpenGrants, SavedElsewhere, UnkeyedChange,
     ReplayedChange, KeyedChange, ContractExpires, ConsumeAction, ApplyReconciliation

\* Every step keeps the types of the answer and of the changes made.
LEMMA HistoryTypesStep ==
  ASSUME GrantsTypeOK, GrantsNext
  PROVE  HistoryTypes'
<1>1. HistoryTypes
  BY DEF GrantsTypeOK, HistoryTypes
<1>2. ASSUME reply' \in {reply, NoGrant}, applied' = applied, unlocked' \in BOOLEAN
      PROVE  HistoryTypes'
  BY <1>1, <1>2 DEF HistoryTypes
<1>3. ASSUME NEW k \in IdempotencyKeys, NEW op \in Ops, NEW exp \in Revisions,
             ReplayedChange(k, op, exp)
      PROVE  HistoryTypes'
  <2>1. contracts[k].receipt \in Receipt
    BY <1>3 DEF ReplayedChange, Replays, GrantsTypeOK
  <2>2. QED
    BY <1>1, <1>3, <2>1 DEF ReplayedChange, HistoryTypes
<1>4. ASSUME NEW k \in IdempotencyKeys, NEW op \in Ops, NEW exp \in Revisions,
             NEW id \in AttemptIds \cup {NoGrant}, NEW acknowledged \in BOOLEAN,
             KeyedChange(k, op, exp, id, acknowledged)
      PROVE  HistoryTypes'
  <2>1. disk'.rev \in Revisions
    BY FileTypesStep DEF FileTypes, FileContents
  <2>2. [op |-> op, rev |-> disk'.rev] \in Receipt
    BY <2>1 DEF Receipt
  <2>3. applied' \subseteq [key : IdempotencyKeys, exp : Revisions, rev : Revisions]
    BY <1>1, <1>4, <2>1 DEF KeyedChange, HistoryTypes
  <2>4. reply' \in [key : IdempotencyKeys, op : Ops, exp : Revisions, receipt : Receipt] \cup {NoGrant}
    BY <1>4, <2>2 DEF KeyedChange
  <2>5. unlocked' \in BOOLEAN
    BY <1>1, <1>4 DEF KeyedChange, HistoryTypes
  <2>6. QED
    BY <2>3, <2>4, <2>5 DEF HistoryTypes
<1>5. CASE OpenGrants \/ LockGrants
  BY <1>2, <1>5 DEF OpenGrants, LockGrants
<1>6. CASE UNCHANGED <<unlocked, applied>> /\ reply' = NoGrant
  BY <1>1, <1>2, <1>6 DEF HistoryTypes
<1>7. QED
  BY <1>3, <1>4, <1>5, <1>6 DEF GrantsNext, SavedElsewhere, UnkeyedChange, ContractExpires,
     AuthorizeAction, AuthorizeReconciliation, Grant, ConsumeAction, ApplyReconciliation, Consume

\* Every step keeps the types and the limits.
LEMMA GrantsTypeOKStep ==
  ASSUME GrantsTypeOK, IsFiniteSet(DOMAIN contracts), GrantsNext
  PROVE  GrantsTypeOK'
BY FileTypesStep, ContractTypesStep, PermitTypesStep, HistoryTypesStep
   DEF GrantsTypeOK, FileTypes, ContractTypes, Contract, PermitTypes, HistoryTypes

\* The snapshot falls behind the file and never ahead of it.
LEMMA SnapshotInvStep ==
  ASSUME GrantsTypeOK, SnapshotInv, GrantsNext
  PROVE  SnapshotInv'
<1> USE DEF SnapshotInv
<1>1. disk.rev \in Nat /\ snap.rev \in Nat
  BY DEF GrantsTypeOK, FileContents
<1>2. CASE OpenGrants
  BY <1>1, <1>2 DEF OpenGrants
<1>3. CASE SavedElsewhere
  <2>1. disk'.rev = disk.rev + 1 /\ snap' = snap
    BY <1>3 DEF SavedElsewhere, GrantsTypeOK, FileContents
  <2>2. QED
    BY <1>1, <2>1
<1>4. ASSUME NEW new, NEW acknowledged, Persisted(new, acknowledged)
      PROVE  SnapshotInv'
  BY <1>1, <1>4 DEF Persisted
<1>5. CASE UNCHANGED <<disk, snap>>
  BY <1>5
<1>6. QED
  BY <1>2, <1>3, <1>4, <1>5 DEF GrantsNext, LockGrants, UnkeyedChange,
     ReplayedChange, KeyedChange, ContractExpires, AuthorizeAction, AuthorizeReconciliation,
     Grant, ConsumeAction, ApplyReconciliation, Consume

\* A change that is remembered has reached the file, on a revision left by now.
LEMMA ContractInvStep ==
  ASSUME GrantsTypeOK, ContractInv, GrantsNext
  PROVE  ContractInv'
<1> USE DEF ContractInv
<1>1. /\ disk.rev \in Nat /\ disk'.rev \in Nat /\ disk.rev <= disk'.rev
      /\ \A a \in applied : a.exp \in Nat
  <2>1. disk.rev \in Nat /\ disk'.rev \in Nat /\ \A a \in applied : a.exp \in Nat
    BY FileTypesStep DEF GrantsTypeOK, FileTypes, FileContents
  <2>2. ASSUME NEW new, NEW acknowledged, Persisted(new, acknowledged)
        PROVE  disk.rev <= disk'.rev
    <3>1. disk' = [new EXCEPT !.rev = disk.rev + 1] /\ disk' \in FileContents(DOMAIN disk'.attempts)
      BY <2>2, FileTypesStep DEF Persisted, FileTypes
    <3>2. disk'.rev = disk.rev + 1
      BY <3>1 DEF FileContents
    <3>3. QED
      BY <2>1, <3>2
  <2>3. CASE SavedElsewhere
    BY <2>1, <2>3 DEF SavedElsewhere, GrantsTypeOK, FileContents
  <2>4. CASE UNCHANGED disk
    BY <2>1, <2>4
  <2>5. \/ UNCHANGED disk \/ SavedElsewhere
        \/ \E new, acknowledged : Persisted(new, acknowledged)
    <3>1. ASSUME NEW n \in Nonces, ConsumeAction(n) \/ \E a \in BOOLEAN : ApplyReconciliation(n, a)
          PROVE  UNCHANGED disk \/ \E new, acknowledged : Persisted(new, acknowledged)
      BY <3>1 DEF ConsumeAction, ApplyReconciliation
    <3>2. ASSUME NEW op \in Ops, NEW id, UnkeyedChange(op, id)
          PROVE  \E new, acknowledged : Persisted(new, acknowledged)
      BY <3>2 DEF UnkeyedChange
    <3>3. ASSUME NEW k, NEW op, NEW exp, NEW id, NEW a, KeyedChange(k, op, exp, id, a)
          PROVE  \E new, acknowledged : Persisted(new, acknowledged)
      BY <3>3 DEF KeyedChange
    <3>4. ASSUME NEW n, NEW c, NEW kind, NEW verdict, NEW new,
                 AuthorizeAction(n, c, kind) \/ AuthorizeReconciliation(n, c, verdict, new)
          PROVE  UNCHANGED disk
      BY <3>4 DEF AuthorizeAction, AuthorizeReconciliation, Grant
    <3>5. ASSUME NEW k, NEW op, NEW exp, ReplayedChange(k, op, exp) \/ ContractExpires(k)
          PROVE  UNCHANGED disk
      BY <3>5 DEF ReplayedChange, ContractExpires
    <3>6. OpenGrants \/ LockGrants => UNCHANGED disk
      BY DEF OpenGrants, LockGrants
    <3>7. QED
      BY <3>1, <3>2, <3>3, <3>4, <3>5, <3>6 DEF GrantsNext
  <2>6. CASE \E new, acknowledged : Persisted(new, acknowledged)
    <3>1. PICK new, acknowledged : Persisted(new, acknowledged)
      BY <2>6
    <3>2. disk.rev <= disk'.rev
      BY <2>2, <3>1
    <3>3. QED
      BY <2>1, <3>2
  <2>7. QED
    BY <2>3, <2>4, <2>5, <2>6
<1>2. ASSUME applied' = applied, contracts' \in {contracts, Nothing}
      PROVE  ContractInv'
  <2>1. DOMAIN Nothing = {}
    OBVIOUS
  <2>2. CASE contracts' = contracts
    BY <1>1, <1>2, <2>2, ContractTypesStep
  <2>3. CASE contracts' = Nothing
    BY <1>1, <1>2, <2>1, <2>3, ContractTypesStep
  <2>4. QED
    BY <1>2, <2>2, <2>3
<1>3. ASSUME NEW k \in IdempotencyKeys, NEW op \in Ops, NEW exp \in Revisions,
             NEW id \in AttemptIds \cup {NoGrant}, NEW acknowledged \in BOOLEAN,
             KeyedChange(k, op, exp, id, acknowledged)
      PROVE  ContractInv'
  <2>1. disk.rev = exp /\ disk'.rev = disk.rev + 1
    BY <1>3 DEF KeyedChange, Prepares, Persisted, GrantsTypeOK, FileContents
  <2>2. applied' = applied \cup {[key |-> k, exp |-> exp, rev |-> disk'.rev]}
    BY <1>3 DEF KeyedChange
  <2>3. \A a \in applied' : a.exp < disk'.rev
    BY <1>1, <2>1, <2>2
  <2>4. CASE contracts' = contracts
    BY <2>2, <2>3, <2>4, ContractTypesStep
  <2>5. CASE contracts' = With(contracts, k, [op |-> op, exp |-> exp,
                                             receipt |-> [op |-> op, rev |-> disk'.rev]])
    BY <2>2, <2>3, <2>5, ContractTypesStep DEF With
  <2>6. QED
    BY <1>3, <2>4, <2>5 DEF KeyedChange
<1>4. ASSUME NEW k \in IdempotencyKeys, ContractExpires(k)
      PROVE  ContractInv'
  BY <1>4, ContractTypesStep DEF ContractExpires, Without
<1>5. QED
  BY <1>2, <1>3, <1>4 DEF GrantsNext, OpenGrants, LockGrants, SavedElsewhere, UnkeyedChange,
     ReplayedChange, AuthorizeAction, AuthorizeReconciliation, Grant, ConsumeAction,
     ApplyReconciliation, Consume

\* A nonce is issued on the snapshot of the moment.
LEMMA PermitInvStep ==
  ASSUME GrantsTypeOK, SnapshotInv, PermitInv, GrantsNext
  PROVE  PermitInv'
<1> USE DEF PermitInv
<1>1. disk.rev \in Nat /\ snap.rev \in Nat /\ \A n \in DOMAIN permits :
        permits[n].kind = "reconcile" => permits[n].rev \in Nat
  BY DEF GrantsTypeOK, FileContents, Permit
<1>2. CASE OpenGrants \/ LockGrants
  BY <1>2 DEF OpenGrants, LockGrants
<1>3. ASSUME NEW new, NEW acknowledged, Persisted(new, acknowledged),
             DOMAIN permits' \subseteq DOMAIN permits, unlocked' = unlocked,
             \A n \in DOMAIN permits' : permits'[n] = permits[n]
      PROVE  PermitInv'
  <2>1. CASE snap' = snap
    BY <1>3, <2>1
  <2>2. CASE snap' # snap
    <3>1. snap' = disk' /\ disk.rev = snap.rev /\ disk' = [new EXCEPT !.rev = disk.rev + 1]
          /\ disk' \in FileContents(DOMAIN disk'.attempts)
      BY <1>3, <2>2, FileTypesStep DEF Persisted, FileTypes
    <3>2. snap'.rev = snap.rev + 1
      BY <3>1 DEF FileContents
    <3>3. \A n \in DOMAIN permits' : permits'[n].kind = "reconcile" =>
            permits'[n].rev <= snap.rev /\ permits'[n].rev \in Nat
      BY <1>1, <1>3
    <3>4. \A n \in DOMAIN permits' : permits'[n].kind = "reconcile" =>
            permits'[n].rev <= snap'.rev /\ permits'[n].rev # snap'.rev
      BY <1>1, <3>2, <3>3
    <3>5. ~unlocked' => DOMAIN permits' = {}
      BY <1>3
    <3>6. QED
      BY <3>4, <3>5
  <2>3. QED
    BY <2>1, <2>2
<1>4. ASSUME NEW n \in Nonces, NEW permit, Grant(n, permit), snap' = snap,
             permit.kind = "reconcile" =>
               permit.rev = snap.rev /\ snap.cards[permit.card] = permit.old
      PROVE  PermitInv'
  BY <1>1, <1>4 DEF Grant, With
<1>5. ASSUME NEW n \in Nonces, Consume(n), snap' = snap
      PROVE  PermitInv'
  BY <1>5 DEF Consume, Without
<1>6. ASSUME NEW n \in Nonces, NEW acknowledged \in BOOLEAN, ApplyReconciliation(n, acknowledged)
      PROVE  PermitInv'
  BY <1>3, <1>6 DEF ApplyReconciliation, Consume, Without
<1>7. ASSUME NEW n \in Nonces, NEW c \in Cards, NEW kind \in {"reveal", "copy"},
             AuthorizeAction(n, c, kind)
      PROVE  PermitInv'
  BY <1>4, <1>7 DEF AuthorizeAction, Grant
<1>8. ASSUME NEW n \in Nonces, NEW c \in Cards, NEW verdict \in Verdicts, NEW new \in States,
             AuthorizeReconciliation(n, c, verdict, new)
      PROVE  PermitInv'
  BY <1>4, <1>8 DEF AuthorizeReconciliation, Grant
<1>9. ASSUME NEW new, NEW acknowledged, Persisted(new, acknowledged), UNCHANGED <<permits, unlocked>>
      PROVE  PermitInv'
  BY <1>3, <1>9
<1>10. CASE UNCHANGED <<snap, unlocked, permits>>
  BY <1>10
<1>11. ASSUME NEW op, NEW id, UnkeyedChange(op, id)
       PROVE  PermitInv'
  BY <1>9, <1>11 DEF UnkeyedChange
<1>12. ASSUME NEW k, NEW op, NEW exp, NEW id, NEW a, KeyedChange(k, op, exp, id, a)
       PROVE  PermitInv'
  BY <1>9, <1>12 DEF KeyedChange
<1>13. ASSUME NEW k, NEW op, NEW exp, ReplayedChange(k, op, exp) \/ ContractExpires(k)
       PROVE  PermitInv'
  BY <1>10, <1>13 DEF ReplayedChange, ContractExpires
<1>14. ASSUME NEW n \in Nonces, ConsumeAction(n)
       PROVE  PermitInv'
  BY <1>5, <1>14 DEF ConsumeAction
<1>15. SavedElsewhere => PermitInv'
  BY <1>10 DEF SavedElsewhere
<1>16. QED
  BY <1>2, <1>6, <1>7, <1>8, <1>11, <1>12, <1>13, <1>14, <1>15 DEF GrantsNext

\* No two changes share a key and a revision, and answers are about theirs.
LEMMA KeyedOnceStep ==
  ASSUME GrantsTypeOK, ContractInv, KeyedOnce, GrantsNext
  PROVE  KeyedOnce'
<1> USE DEF KeyedOnce
<1>1. ASSUME NEW k \in IdempotencyKeys, NEW op \in Ops, NEW exp \in Revisions,
             ReplayedChange(k, op, exp)
      PROVE  KeyedOnce'
  BY <1>1 DEF ReplayedChange, Replays, ContractInv
<1>2. ASSUME NEW k \in IdempotencyKeys, NEW op \in Ops, NEW exp \in Revisions,
             NEW id \in AttemptIds \cup {NoGrant}, NEW acknowledged \in BOOLEAN,
             KeyedChange(k, op, exp, id, acknowledged)
      PROVE  KeyedOnce'
  <2>1. disk.rev = exp /\ disk.rev \in Nat
    BY <1>2 DEF KeyedChange, Prepares, Persisted, GrantsTypeOK, FileContents
  <2>2. \A a \in applied : a.exp # exp
    BY <2>1 DEF ContractInv
  <2>3. QED
    BY <1>2, <2>2 DEF KeyedChange
<1>3. CASE applied' = applied /\ reply' = NoGrant
  BY <1>3
<1>4. ASSUME NEW n, NEW c, NEW kind, NEW verdict, NEW new,
             AuthorizeAction(n, c, kind) \/ AuthorizeReconciliation(n, c, verdict, new)
      PROVE  KeyedOnce'
  BY <1>3, <1>4 DEF AuthorizeAction, AuthorizeReconciliation, Grant
<1>5. ASSUME NEW n, NEW a, ConsumeAction(n) \/ ApplyReconciliation(n, a)
      PROVE  KeyedOnce'
  BY <1>3, <1>5 DEF ConsumeAction, ApplyReconciliation, Consume
<1>6. ASSUME NEW op, NEW id, UnkeyedChange(op, id)
      PROVE  KeyedOnce'
  BY <1>3, <1>6 DEF UnkeyedChange
<1>7. ASSUME NEW k, ContractExpires(k)
      PROVE  KeyedOnce'
  BY <1>3, <1>7 DEF ContractExpires
<1>8. OpenGrants \/ LockGrants \/ SavedElsewhere => KeyedOnce'
  BY <1>3 DEF OpenGrants, LockGrants, SavedElsewhere
<1>9. QED
  BY <1>1, <1>2, <1>4, <1>5, <1>6, <1>7, <1>8 DEF GrantsNext

\* The invariant holds of every behaviour of the session.
THEOREM GrantsInductive == GrantsSpec => []GrantsInv
<1>1. GrantsInit => GrantsInv
  <2>1. Cardinality({}) = 0 /\ IsFiniteSet({})
    BY FS_EmptySet
  <2>2. ASSUME GrantsInit
        PROVE  GrantsTypeOK
    <3>1. PICK cards \in [Cards -> States] :
            disk = [rev |-> 0, attempts |-> Nothing, cards |-> cards, events |-> 0]
      BY <2>2 DEF GrantsInit
    <3>2. \A S : Nothing \in [{} -> S]
      OBVIOUS
    <3>3. snap = disk /\ disk.attempts = Nothing /\ disk \in FileContents({})
      BY <2>2, <3>1, <3>2 DEF GrantsInit, FileContents
    <3>4. FileTypes
      BY <3>2, <3>3 DEF FileTypes
    <3>5. ContractTypes
      BY <2>1, <2>2, <3>2 DEF GrantsInit, ContractTypes
    <3>6. PermitTypes /\ HistoryTypes
      BY <2>2, <3>2 DEF GrantsInit, PermitTypes, HistoryTypes
    <3>7. QED
      BY <3>4, <3>5, <3>6
         DEF GrantsTypeOK, FileTypes, ContractTypes, Contract, PermitTypes, HistoryTypes
  <2>3. DOMAIN Nothing = {}
    OBVIOUS
  <2>4. ASSUME GrantsInit
        PROVE  SnapshotInv /\ ContractInv /\ PermitInv /\ KeyedOnce
    <3>1. snap = disk /\ disk.rev = 0 /\ DOMAIN contracts = {} /\ DOMAIN permits = {}
          /\ applied = {} /\ reply = NoGrant
      BY <2>3, <2>4 DEF GrantsInit
    <3>2. QED
      BY <2>1, <3>1 DEF SnapshotInv, ContractInv, PermitInv, KeyedOnce
  <2>5. QED
    BY <2>2, <2>4 DEF GrantsInv
<1>2. GrantsInv /\ [GrantsNext]_grantVars => GrantsInv'
  <2>1. ASSUME GrantsInv, GrantsNext
        PROVE  GrantsInv'
    BY <2>1, GrantsTypeOKStep, SnapshotInvStep, ContractInvStep, PermitInvStep, KeyedOnceStep
       DEF GrantsInv, ContractInv
  <2>2. ASSUME GrantsInv, UNCHANGED grantVars
        PROVE  GrantsInv'
    BY <2>2 DEF GrantsInv, GrantsTypeOK, SnapshotInv, ContractInv, PermitInv, KeyedOnce
  <2>3. QED
    BY <2>1, <2>2
<1>3. QED
  BY <1>1, <1>2, PTL DEF GrantsSpec

-----------------------------------------------------------------------------
\* The types, with the limits on contracts and on reconciliation events: no
\* sequence of calls, expiries and failed saves exceeds them.
THEOREM GrantsTypes == GrantsSpec => []GrantsTypeOK
<1>1. GrantsInv => GrantsTypeOK
  BY DEF GrantsInv
<1>2. QED
  BY <1>1, GrantsInductive, PTL

\* A keyed change is made once however often it is retried, and its answers are
\* about it.
THEOREM KeyedChangesOnce == GrantsSpec => []KeyedOnce
<1>1. GrantsInv => KeyedOnce
  BY DEF GrantsInv
<1>2. QED
  BY <1>1, GrantsInductive, PTL

\* A reconciliation changes the file only as long as it is the one that the
\* proposal was authorized on.
THEOREM ReconciledAsAuthorized == GrantsSpec => AppliedAsAuthorized
<1>1. ASSUME GrantsInv, NEW n \in Nonces, NEW acknowledged \in BOOLEAN,
             ApplyReconciliation(n, acknowledged)
      PROVE  disk.rev = permits[n].rev /\ disk.cards[permits[n].card] = permits[n].old
  <2>1. /\ n \in DOMAIN permits /\ permits[n].kind = "reconcile"
        /\ permits[n].rev = snap.rev /\ disk.rev = snap.rev
    BY <1>1 DEF ApplyReconciliation, Consume, BoundTo, Persisted
  <2>2. QED
    BY <1>1, <2>1 DEF GrantsInv, SnapshotInv, PermitInv
<1>2. GrantsInv =>
        [\A n \in Nonces, acknowledged \in BOOLEAN :
           ApplyReconciliation(n, acknowledged) =>
             disk.rev = permits[n].rev /\ disk.cards[permits[n].card] = permits[n].old]_grantVars
  BY <1>1
<1>3. QED
  BY <1>2, GrantsInductive, PTL DEF GrantsSpec, AppliedAsAuthorized

=============================================================================
