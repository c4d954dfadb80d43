---------------------------- MODULE SessionGrants ----------------------------
(***************************************************************************)
(* What one unlocked session of vault/core.py grants for a limited time: an *)
(* idempotency contract per keyed change of an attempt, so that a retry is   *)
(* answered and not applied, and nonces that allow one reveal, one copy or   *)
(* one reconciliation of a card.  Other sessions save to the same file, and  *)
(* a save may fail after the file was renamed.                              *)
(*                                                                          *)
(* Time only ever takes grants away, and an expired grant is refused like   *)
(* one that never was; so expiry is a step that may drop a grant any time.   *)
(***************************************************************************)
EXTENDS Integers, FiniteSets

CONSTANTS
  IdempotencyKeys, \* keys the callers choose
  AttemptIds,      \* ids of attempts, each drawn once
  Outcomes,        \* AttemptOutcome
  Cards,           \* cards of the vault
  States,          \* states of a card a reconciliation tells apart
  Nonces,          \* nonces, each drawn once
  NoGrant,
  MaxRevision,     \* bound of the saves made
  MaxContracts,    \* _MAX_ATTEMPT_CONTRACTS
  MaxEvents        \* the limit on reconciliation events

ASSUME GrantLimits ==
  MaxRevision \in Nat /\ MaxContracts \in Nat /\ MaxEvents \in Nat
ASSUME GrantAbsent == NoGrant \notin AttemptIds \cup Outcomes \cup States

VARIABLES
  disk,        \* the file: [rev, attempts, cards, events]
  snap,        \* the session's snapshot of it
  unlocked,    \* is the session open
  contracts,   \* _attempt_mutation_contracts
  permits,     \* _reveal_authorizations and _reconciliation_authorizations
  reply,       \* the last answer to a keyed change, or NoGrant
  drawn,       \* history: ids and nonces drawn
  applied      \* history: the keyed changes that reached the file

grantVars == <<disk, snap, unlocked, contracts, permits, reply, drawn, applied>>

Ops == [action : {"attempt.create"}, attempt : {NoGrant}, outcome : Outcomes]
       \cup [action : {"attempt.update"}, attempt : AttemptIds, outcome : Outcomes]
       \cup [action : {"attempt.delete"}, attempt : AttemptIds, outcome : {NoGrant}]
Verdicts == {"confirm", "correct", "defer", "reject"}
Revisions == 0 .. MaxRevision

FileContents(D) == [rev : Revisions, attempts : [D -> Outcomes], cards : [Cards -> States],
                events : 0 .. MaxEvents]
Receipt == [op : Ops, rev : Revisions]
Permit == [kind : {"reveal", "copy"}, card : Cards]
          \cup [kind : {"reconcile"}, card : Cards, verdict : Verdicts, new : States,
                old : States, rev : Revisions]

\* The type of each variable; the limits on contracts and events are kept.
GrantsTypeOK ==
  /\ DOMAIN disk.attempts \cup DOMAIN snap.attempts \subseteq drawn
  /\ disk \in FileContents(DOMAIN disk.attempts)
  /\ snap \in FileContents(DOMAIN snap.attempts)
  /\ unlocked \in BOOLEAN
  /\ DOMAIN contracts \subseteq IdempotencyKeys
  /\ contracts \in [DOMAIN contracts -> [op : Ops, exp : Revisions, receipt : Receipt]]
  /\ Cardinality(DOMAIN contracts) <= MaxContracts
  /\ DOMAIN permits \subseteq drawn \cap Nonces
  /\ permits \in [DOMAIN permits -> Permit]
  /\ reply \in [key : IdempotencyKeys, op : Ops, exp : Revisions, receipt : Receipt] \cup {NoGrant}
  /\ applied \subseteq [key : IdempotencyKeys, exp : Revisions, rev : Revisions]

Nothing == [x \in {} |-> NoGrant]
Without(f, S) == [x \in DOMAIN f \ S |-> f[x]]
With(f, x, v) == [y \in DOMAIN f \cup {x} |-> IF y = x THEN v ELSE f[y]]

GrantsInit ==
  /\ \E cards \in [Cards -> States] :
       disk = [rev |-> 0, attempts |-> Nothing, cards |-> cards, events |-> 0]
  /\ snap = disk
  /\ unlocked = FALSE
  /\ contracts = Nothing /\ permits = Nothing
  /\ reply = NoGrant
  /\ drawn = {} /\ applied = {}

-----------------------------------------------------------------------------
(* The session and its file *)

OpenGrants ==
  /\ ~unlocked
  /\ unlocked' = TRUE
  /\ snap' = disk
  /\ reply' = NoGrant
  /\ UNCHANGED <<disk, contracts, permits, drawn, applied>>

\* lock clears every grant.
LockGrants ==
  /\ unlocked
  /\ unlocked' = FALSE
  /\ contracts' = Nothing /\ permits' = Nothing
  /\ reply' = NoGrant
  /\ UNCHANGED <<disk, snap, drawn, applied>>

\* Another session saves.
SavedElsewhere ==
  /\ disk.rev < MaxRevision
  /\ \E c \in Cards, v \in States :
       disk' = [disk EXCEPT !.rev = @ + 1, !.cards[c] = v]
  /\ reply' = NoGrant
  /\ UNCHANGED <<snap, unlocked, contracts, permits, drawn, applied>>

\* _persist: refused if the file has moved on.  A save that fails after the
\* rename leaves the new file and the old snapshot.
Persisted(new, acknowledged) ==
  /\ disk.rev = snap.rev /\ disk.rev < MaxRevision
  /\ disk' = [new EXCEPT !.rev = disk.rev + 1]
  /\ snap' = IF acknowledged THEN disk' ELSE snap

-----------------------------------------------------------------------------
(* Attempts *)

\* What the three mutators make of the snapshot; id is drawn for a creation.
Changed(op, id) ==
  CASE op.action = "attempt.create" ->
         [snap EXCEPT !.attempts = With(snap.attempts, id, op.outcome)]
    [] op.action = "attempt.update" ->
         [snap EXCEPT !.attempts = With(snap.attempts, op.attempt, op.outcome)]
    [] OTHER ->
         [snap EXCEPT !.attempts = Without(snap.attempts, {op.attempt})]

Possible(op, id) ==
  IF op.action = "attempt.create" THEN id \in AttemptIds \ drawn
  ELSE id = NoGrant /\ op.attempt \in DOMAIN snap.attempts

\* A change without a key takes effect as often as it is called.
UnkeyedChange(op, id) ==
  /\ unlocked /\ Possible(op, id)
  /\ Persisted(Changed(op, id), TRUE)
  /\ drawn' = drawn \cup ({id} \ {NoGrant})
  /\ reply' = NoGrant
  /\ UNCHANGED <<unlocked, contracts, permits, applied>>

\* The key is remembered for exactly this operation on this revision.
Replays(k, op, exp) ==
  k \in DOMAIN contracts /\ contracts[k].op = op /\ contracts[k].exp = exp

\* _replay_attempt_contract, whatever happened to the vault since.
ReplayedChange(k, op, exp) ==
  /\ unlocked
  /\ Replays(k, op, exp)
  /\ reply' = [key |-> k, op |-> op, exp |-> exp, receipt |-> contracts[k].receipt]
  /\ UNCHANGED <<disk, snap, unlocked, contracts, permits, drawn, applied>>

\* Variant: the expected revision is for finding the contract only.
PreparesAnyRevision(k, exp) ==
  /\ k \notin DOMAIN contracts
  /\ Cardinality(DOMAIN contracts) < MaxContracts

\* _prepare_new_attempt_contract.
Prepares(k, exp) ==
  /\ k \notin DOMAIN contracts
  /\ snap.rev = exp
  /\ Cardinality(DOMAIN contracts) < MaxContracts

\* A keyed change: saved, then remembered.  If the save fails after the
\* rename, the caller is told of a failure and nothing is remembered.
KeyedChange(k, op, exp, id, acknowledged) ==
  /\ unlocked /\ Prepares(k, exp) /\ Possible(op, id)
  /\ Persisted(Changed(op, id), acknowledged)
  /\ drawn' = drawn \cup ({id} \ {NoGrant})
  /\ applied' = applied \cup {[key |-> k, exp |-> exp, rev |-> disk'.rev]}
  /\ IF acknowledged
     THEN LET receipt == [op |-> op, rev |-> disk'.rev] IN
          /\ contracts' = With(contracts, k, [op |-> op, exp |-> exp, receipt |-> receipt])
          /\ reply' = [key |-> k, op |-> op, exp |-> exp, receipt |-> receipt]
     ELSE reply' = NoGrant /\ UNCHANGED contracts
  /\ UNCHANGED <<unlocked, permits>>

\* _prune_attempt_mutation_contracts.
ContractExpires(k) ==
  /\ k \in DOMAIN contracts
  /\ contracts' = Without(contracts, {k})
  /\ reply' = NoGrant
  /\ UNCHANGED <<disk, snap, unlocked, permits, drawn, applied>>

-----------------------------------------------------------------------------
(* Nonces *)

Grant(n, permit) ==
  /\ unlocked
  /\ n \in Nonces \ drawn
  /\ permits' = With(permits, n, permit)
  /\ drawn' = drawn \cup {n}
  /\ reply' = NoGrant
  /\ UNCHANGED <<disk, snap, unlocked, contracts, applied>>

\* authorize_reveal, and authorize_action for reveal and copy.
AuthorizeAction(n, c, kind) == Grant(n, [kind |-> kind, card |-> c])

\* authorize_reconciliation: the proposal must describe the card and name the
\* revision of the snapshot.
AuthorizeReconciliation(n, c, verdict, new) ==
  Grant(n, [kind |-> "reconcile", card |-> c, verdict |-> verdict, new |-> new,
            old |-> snap.cards[c], rev |-> snap.rev])

\* A nonce is taken out before anything else is looked at, so an attempt that
\* is refused, or whose audit fails, has used it up.
Consume(n) ==
  /\ unlocked
  /\ n \in DOMAIN permits
  /\ permits' = Without(permits, {n})
  /\ reply' = NoGrant
  /\ UNCHANGED <<unlocked, contracts, drawn, applied>>

\* consume_action, consume_reveal; or a refusal, or the expiry of any nonce.
ConsumeAction(n) == Consume(n) /\ UNCHANGED <<disk, snap>>

\* What the verdict does to the vault: a metadata change of the card, or one
\* more event.
Verdict(p) ==
  IF p.verdict \in {"defer", "reject"}
  THEN [snap EXCEPT !.events = @ + 1]
  ELSE [snap EXCEPT !.cards[p.card] = p.new]

\* Variant: the revision bound to the nonce is not compared.
BoundToAnything(p) == p.kind = "reconcile"

BoundTo(p) == p.kind = "reconcile" /\ p.rev = snap.rev

\* apply_reconciliation_metadata.
ApplyReconciliation(n, acknowledged) ==
  /\ Consume(n)
  /\ BoundTo(permits[n])
  /\ permits[n].verdict \in {"defer", "reject"} => snap.events < MaxEvents
  /\ Persisted(Verdict(permits[n]), acknowledged)

-----------------------------------------------------------------------------
GrantsNext ==
  \/ OpenGrants \/ LockGrants \/ SavedElsewhere
  \/ \E op \in Ops, id \in AttemptIds \cup {NoGrant} : UnkeyedChange(op, id)
  \/ \E k \in IdempotencyKeys, op \in Ops, exp \in Revisions :
       \/ ReplayedChange(k, op, exp)
       \/ \E id \in AttemptIds \cup {NoGrant}, acknowledged \in BOOLEAN :
            KeyedChange(k, op, exp, id, acknowledged)
  \/ \E k \in IdempotencyKeys : ContractExpires(k)
  \/ \E n \in Nonces, c \in Cards :
       \/ \E kind \in {"reveal", "copy"} : AuthorizeAction(n, c, kind)
       \/ \E verdict \in Verdicts, new \in States :
            AuthorizeReconciliation(n, c, verdict, new)
  \/ \E n \in Nonces :
       \/ ConsumeAction(n)
       \/ \E acknowledged \in BOOLEAN : ApplyReconciliation(n, acknowledged)

GrantsSpec == GrantsInit /\ [][GrantsNext]_grantVars

-----------------------------------------------------------------------------
(* Properties *)

\* A keyed change that reached the file is never made a second time by its
\* retries: not after its contract expired, not after a lock, not when the
\* first call ended in an error.  An answer to it is about that change and about
\* the save that made it, also when it is given again after others.
KeyedOnce ==
  /\ \A a, b \in applied : a.key = b.key /\ a.exp = b.exp => a = b
  /\ reply # NoGrant =>
       /\ reply.receipt.op = reply.op
       /\ [key |-> reply.key, exp |-> reply.exp, rev |-> reply.receipt.rev] \in applied

\* A reconciliation changes the vault only as long as the file is the one its
\* proposal was authorized on, card and all.
AppliedAsAuthorized ==
  [][\A n \in Nonces, acknowledged \in BOOLEAN :
       ApplyReconciliation(n, acknowledged) =>
         disk.rev = permits[n].rev /\ disk.cards[permits[n].card] = permits[n].old]_grantVars

=============================================================================
