# A verification development of MyCard Benefits

MyCard Benefits is a local, single-owner web application: a public catalog of
card benefits (JSON files, an SQLite index built from them) is matched with the
owner's cards, which live encrypted in one file, the vault. Nothing leaves the
machine. What must not go wrong is therefore what happens to those two bodies
of data on one disk: several processes write them (the server, the command
line, an importer, an installer), any of them can fail or die at any point, and
there is no server-side copy to fall back to.

The modules here model the code that protects that data. Each is read off the
source (paths below are under `src/mycard_benefits/`) and checked by TLC on a small
instance, and almost every invariant and action property is proved by TLAPS for
every value of the constants (section 4 says which are not). `PROJECT.json` lists
runs, mutants, the line map, hazards and theorems.

## 1. Inventory

Part | State it keeps | Operations | Interacts with | Hard part
--- | --- | --- | --- | ---
Vault file (`vault/core.py`: `VaultStore`, `_persist`, `_atomic_write`, `_rotate_backups`, `_exclusive_lock`) | `vault.json`, `vault.json.bak.1..3`, the lock file; per session a decrypted snapshot and the digest it came from | create, open, lock, save | audit log (called under the file lock), every mutator | lost updates, partial failure and its undo, death inside the rotation, lock time-out
Vault records (`vault/core.py` mutators, `vault/personal_state.py`) | cards with replacement links, child records, manual aggregates, private attempts | add, replace, edit, transition, delete, purge, reconcile, ... | vault file (each mutator ends in `_persist`), opening (`_parse_*`) | writing checks sizes only, opening checks the whole lineage: an order of legal calls can save what cannot be opened
Attempt contracts (`core.py` 938-1081) | at most 128 idempotency contracts per session | replay, prepare, remember, prune | attempts' mutators, vault revision | a retry after the revision moved, expiry, the limit
Authorizations (`core.py` 1733-1970) | nonces bound to session, card, action, revision, expiry | authorize, consume | reveal and reconciliation endpoints, importer | use once, stale binding
Catalog installation (`release.py`) | the active tree, `.verified` store, `.active` pointer, `.previous` tree, journal | install, rollback, load (each recovers first) | request handlers read the tree without the lock | death between renames, recovery of a recovery, damaged trees
Catalog loading (`catalog/loader.py`) | none | load, effective state on a date, cycle detection | everything that reads the catalog | graph and date edges
Catalog index (`catalog/index.py`) | `derived/catalog.sqlite3` with a fingerprint of its source | build, query | installation changes its source meanwhile | stale reads
Discovery cursors (`catalog/router.py`) | bounded, expiring map of cursors | issue, consume | catalog and ownership revisions | eviction, staleness, single use
Private import (`private_import.py`, `vault/importer.py`) | journal, artifacts, receipt | preview, apply, recover | vault (`reconcile_cards`, consolidation authorization) | death between vault write and journal
Migration (`vault/migration.py`) | SQLite database, journal, last-known-good copy | migrate, recover | audit log, vault, backups | death around the commit, audit failing after it
Audit log and backups (`vault/protected.py`) | append-only log, rotated backups, restore leases | record, purge, create, restore | vault file, migration | undoing an append, pruning
Unlock manager (`vault/router.py`, `vault/keyring_store.py`) | browser sessions, attempts, detail lockout, device key | bootstrap, unlock, get, lock | vault sessions, keyring | expiry against a running request, parallel attempts
Reconciliation (`vault/reconciliation*.py`) | none of its own | propose, apply | authorizations, vault records | proposal against a moving revision
Optimizer, reminders, quantities, allowance periods, evidence graph, destination workflow | mostly pure; reminders and the workflow keep one file | rank, due dates, classify, review | catalog, private state | date and period edges
Identity, data location, config, ports, app, exports, diagnostics, browser client, proxy, scripts | little or none | wiring, I/O, rendering | - | not the subject here

What makes each of them correct, in a sentence: a save is all or nothing and
truthfully answered (vault file); what is saved can be opened (records); what a
call installed stays in force and can be undone (catalog); a retry does
nothing twice (contracts, import); a permission is used once, for what it was
given (authorizations, cursors); whichever side of a commit a process dies on,
the restart can tell (migration, import); a limit is a limit under concurrency
(unlock manager, cursors).

`PROJECT.json` lists the hazards of this code at their lines, with the
properties that would notice them, or the reason why none does.

## 2. Modules

Module | What it models | Properties
--- | --- | ---
`VaultRegister` | What the vault file promises: a call is acknowledged and stays stored, or rejected and never stored, or ends without a reliable answer | the abstract specification
`VaultPersistence` | The protocol of `core.py` that keeps the promise | section 3, `persist`
`VaultRecords` | The records of a vault and the mutators that relink, add and remove them | `records`
`CatalogInstall` | `release.py`: install, rollback, load and recovery | `catalog`
`CatalogReaders` | The load every handler of the catalog API makes, against the installer | `LoadsMixOnlyOverMoves`
`BrowserSessions` | The request handlers of `vault/router.py` around one vault file, and `keyring_store.py` | `service`
`SessionGrants` | What an unlocked session grants for a time: idempotency contracts and one-use authorizations | `KeyedOnce`, `AppliedAsAuthorized`
`PrivateImport` | `private_import.py` with `reconcile_cards` | `ImportsUnique`, `ImportAddsOnly`, `AppliedAsApproved`
`Migration` | `vault/migration.py` with the audit event it ends in | `OneTrueEvent`, `JournalTellsState`
`AuditLog` | Audited actions and the purge of the log (`vault/protected.py`) | `AuditTrail`
`BackupRestore` | Backups, their rotation, recovery exports, restores and their leases | `RestoreVerified`
`AttachmentFiles` | The two files of an encrypted attachment | `AttachmentsWhole`
`CatalogRules` | `catalog/loader.py`: gates, cross checks, the cycle walk, what a loaded catalog answers | `CatalogSound`
`CatalogIndex` | Build and query of the derived index against edits of its source | `QueryCurrent`
`DiscoveryCursors` | Paged discovery with one-use cursors (`catalog/router.py`) | `PagesContinue`
`RouteValue` | How the components of a purchase route share amount, caps and groups | `RouteValueSound`
`AllowancePeriods` | The window an allowance is counted in and the day it resets | `PeriodsTile`
`EvidenceGraph` | Which evidence graphs are accepted, what may be promoted and exported | `EvidenceSound`
`VaultPersistenceProofs`, `VaultRecordsProofs`, `CatalogInstallProofs`, `BrowserSessionsProofs`, `SessionGrantsProofs` | Theorems about the module of that name (`CatalogInstallProofs`: and about `CatalogReaders`) | section 4
`JournalProofs` | Theorems about `Migration` and `PrivateImport`, which go by a journal | section 4
`CatalogReadProofs` | Theorems about `CatalogRules`, `EvidenceGraph`, `AllowancePeriods`, `RouteValue`, `CatalogIndex`, `DiscoveryCursors` | section 4
`ProtectedProofs` | Theorems about `AttachmentFiles`, `BackupRestore`, `AuditLog`, all of `protected.py` | section 4
`MC...` | Instances for TLC; `MCComponents` is the one of the last twelve components |

`VaultPersistence` says how a save reaches the disk; the modules above it take a
save as one step with the outcomes that it proves possible (made, refused
because the file moved on, or failed after the rename), and say what is in it.

### VaultPersistence

A file is the set of mutations whose effect it holds; every write encrypts anew,
so equal digests are equal sets. `live` is `vault.json`, `bak[i]` is
`vault.json.bak.i`. A save goes through the places `wait` (polling for the
lock), `held` (digest compared), `stage`, `aside`, `shift` (the three parts of
`_rotate_backups`, one rename a step), `replace`, `renamed`, `audit`,
`rollback`/`refuse`, `done`, `return`; `pc[s]` says where session `s` is. Every
point at which the code can raise has an action that does what its handler
does (`Busy`, `Conflict`, `AlreadyExists`, `WriteFails`, `RotationFails`,
`FailsAfterRename`, `AuditFails`, `RollbackFails`), and `Crash` ends a session
anywhere. `status` records what the caller was told: `acked`, `rejected` (raised
with nothing changed), `failed` (raised after a rename), `uncertain` (died).

Abstracted: encryption, permissions, path checks, the contents of records (that
is `VaultRecords`), temporaries nothing reads back. Failures are single: the
handler of a failing rotation and its renames are one step (`OldBackup` finds
each backup wherever the rotation had got to). A failure in the last part of
the rotation, after the copy became `bak.1`, ends in the same state as one
just before it, since the handler removes what is under the numbers and puts
the old backups back; so it needs no action of its own. A failure to open the
lock file is like `Busy`: nothing changed. An interrupt from the keyboard is a
`Crash`.

### VaultRecords

Each mutator is one step: it computes the candidate records, checks what the
code checks, and is written if `WithinBounds` (`_validate_write_bounds`) allows.
How that write reaches the disk is `VaultPersistence`'s subject, which is why a
mutator is atomic here: a session works on its snapshot under its own lock, and
a save from an overtaken snapshot is refused (`SnapshotCurrent`). `Openable` is
what `_parse_records`, `_parse_child_records`, `_parse_private_state` and
`_validate_replacement_graph` demand: of numbers, owners and links, of the times
of every record (`TimesValid`: none before the year 2000, none updated before it was
made), and of a card's values their length (`fits`), since a reconciliation accepts
metadata of up to 8192 characters and opening takes 4096. Lifecycles are three
kinds: active, those `replace_card` accepts, the others; no code here tells more
apart.

The code stamps cards, aggregates and attempts with the wall clock and compares
it with nothing, so the clock begins anywhere and `Tick` sets it to any time, before
or after. A second upsert of an aggregate and an update of an attempt keep the time
the record was made (`Restamped`). `stepped` remembers that the clock was set back:
until then links are in order of creation, afterwards they need not be, and any
stamp on a record that is newer than the clock saves a vault that does not open.
`reconcile_cards` is here by what it does to any vault: some cards are stamped, some
are new (which ones is `PrivateImport`'s subject). Left out: values, nicknames and
notes but for whether they fit; the detail credential (`BrowserSessions`), the
reconciliation events (`SessionGrants`) and `export_rewrapped`.

### CatalogInstall

One call at a time holds the install lock, which is taken as given (an exclusive
lock of the operating system, released when its holder dies; a waiting call
gives up after ten seconds, having changed nothing). Each rename of a tree or
of the pointer is a step, each check of a tree a guard. Trees are snapshots
(their contents), `Bad` (does not verify) or `None`. `Fail` is an exception
anywhere, with the recovery the install's handler runs; `Crash` is death
anywhere; `Damage` is a file lost or edited from outside, at most `MaxDamage`
times, between calls (during a call it is either found by the check of the copy,
which `Fail` stands for, or is no different from damage after it). The initial
states include a catalog from before there was a store. Left out: the journal,
which is written and never read, temporaries, and trees put aside.

Which of several verified snapshots a recovery takes when neither pointer nor
active tree decides depends on the order of content hashes; the model leaves it
open.

`CatalogReaders` composes it with the load that every catalog handler makes of the
active tree (`load_catalog`), without the install lock. The tree is read in four
parts, each from whatever is active at that moment; two of them may be absent, and
of a tree that is not there those two read as empty, which is what `_read_many`
makes of a directory that does not exist. The history `load.moved` records whether
the active tree was moved while the load was reading. One load at a time: loads
share nothing.

### BrowserSessions

Handlers run in a pool of threads. `req[r].at` says where request `r` is between
two accesses to something shared: a manager method under its lock, a method of a
vault session under that session's lock, one read or write of the key or of the
vault. `registered` and `closed` are the manager's map and the sessions that were
locked; `own` marks a session a request opened for itself and must lock.
`keyring`, `fallback` and `support` are the stored keys and whether the keyring
answers. Idle and absolute expiry, the ageing of attempts and the end of a lockout
are steps that may come at any time (`Reap`, `AutoLock`, `AttemptAges`,
`LockoutEnds`): every actual timing is among these behaviours. The lockout of the
detail code is read before a code is checked, and the result recorded after, with no
lock held between: requests in that stretch are `Checking`, and the history `late`
counts the wrong codes recorded while a lockout is in force. Requests stand for the
server's worker threads, of which there are finitely many (`ThreadsAssumption`). `Restart` forgets
all but the disk and the keyring. Headers, CSRF and bodies appear as refusals
without effect (`EntryRefused`, `Refuse`, `TurnAway`).

### SessionGrants

One unlocked session, the file, and other sessions that save to it. A contract or
nonce expires by a step that may come at any time. A save that fails after its
rename leaves the new file with an old snapshot, as in `VaultPersistence`.
Attempts' contents are their outcomes; a card is its state as a reconciliation
describes it.

### PrivateImport

Two runs over changing sources; the plan, its approval, the import lock, the
pending journal, the vault write, the committed journal, and the recovery, each a
step, with death or failure after any of them. A digest is what it is taken of,
so a plan is the contents of the sources with the vault's revision.
`ReconcileCards` is the whole of `reconcile_cards`: matching by source and by
number, refusal of what is ambiguous or incompatible, merging, new cards. It goes by
the cards the run's session has (`seen`), which may have left the file behind or been
left behind by it: only a save compares revisions, so a session in whose cards nothing
has to change ends well without a look at the file, and its journal says "committed".
`written` therefore holds the contents whose cards a run found in the vault or put
there. By hand cards are only added; what removing or editing one after its import
does to the next import is not modelled.

### Migration

The journal, the staged database, the commit, the copy to last-known-good, the
event, and each part of taking them back. Other writers are excluded until the
commit and no longer, as in the code. `stray` holds the events that a failed
append could not take back, which `OneTrueEvent` excepts.

### AuditLog, BackupRestore, AttachmentFiles

`AuditLog`: actors wait for the lock of the log (which dies with its holder),
append, act, and take back if the action fails; a take-back may fail, an actor may
die. A line may be cut short anywhere: a part of an event is `Torn`, which no one can
parse; an event without its newline (`unended`) still parses, is found by a retry, and
takes the next event onto its line, after which neither can be read (`glued`). An id
may be presented again for the same or for another kind of action. A purge drops what
is past its retention and records its own event in a second transaction. Bodies of audited actions either
take effect as a whole or not at all.

`BackupRestore`: content is a version with the passphrase that opens it. The
restore's destination is the vault itself, there is one restorer at a time, and
another program may replace the file or write into it while the lease is held.
A backup's modification time is any: the clock may have been set back, or not have
moved as far as the file system can tell. The rotation keeps the first `Keep` of the
backups by that time, with ties in whatever order the directory lists them, and may
die between two removals.

`AttachmentFiles`: an add writes ciphertext and then metadata, a purge removes
them in turn, under the directory's lock; either may fail before or after the
rename or die, and the clean-up of a failed add is a step of its own because it
runs after the lock is released. A purge wants both files there, so one that ended
between its removals is not done again: `halved` remembers those.

### CatalogRules, CatalogIndex, DiscoveryCursors

`CatalogRules` takes a tree apart as `load_catalog` does: gates per record, checks
across records, then `_detect_cycle` node by node with its colours and stack, over
the entries of the adjacency lists (`Edges`); the order of a list, and of the nodes
it starts from, is left open. Its properties compare the result with a definition of
a cycle that walks nothing (a set whose members are each pointed to from within) and
with what
`benefits_for`, `consumer_visible_benefits_for`, `historical_benefits_for` and
`conflicts_for` then answer.

`CatalogIndex`: a source of two parts that are read one after the other; builder
and reader walk it while it is edited. Contents never return to what they were,
an assumption: a source that does so between two looks deceives any fingerprint.
One builder runs at a time.

`DiscoveryCursors`: two threads, one browser (the store is keyed by browser; two
browsers share the limit only, which eviction covers), releases and changes of
the cards between any two steps.

### RouteValue, AllowancePeriods, EvidenceGraph

Pure code as small state machines: one component, one day or one call per step,
over the inputs listed in `MCComponents`. Money is a whole number of the finest
unit; rounding is half to even, as in the code. A route is accepted or not by all its
components at once, and then valued one component per step; the totals are checked
after each, against what the caps leave of the components so far (`ClassWorth`).
Dates are triples; three years with a leap year in the middle.

## 3. Runs

Run | Instance | Shows
--- | --- | ---
`persist` | 2 sessions; 2 creates, 1 audited and 1 plain save; 3 backups, the program's own number | the nine properties below, none of which needs more sessions to fail: an overtaken snapshot, a lock held by another, a dirty read and a racing create each take two
`persist_failed` | the same | a write that raises may have changed the file (finding)
`records` | 3 card ids, 2 offerings, one lifecycle of each kind, 1 record id, limits of 3 cards, 1 child and 1 personal record, a clock that goes back and forth between two values and one before the year 2000 | three cards are the least for a chain, a shared successor and a cycle through a third; the limits on what belongs to cards are reached (three ids can fill, not exceed, the limit on cards)
`records_restore`, `records_removal` | the same | a vault that was saved and does not open (findings)
`catalog` | 3 snapshots, 2 damages, one reader | three snapshots tell "the one replaced" from "any other"; two damages can spoil the active tree and its copy
`catalog_recovery` | 3 snapshots, no damage | an interrupted migration of the replaced tree is never repaired (finding)
`catalog_load` | 3 snapshots, no damage, one reader | a load that meets a switch is answered with parts of two catalogs (finding)
`service` | 2 requests, 2 sessions, 2 device keys, 1 attempt a minute, 2 failures to a lockout | races need two requests; each limit is reached; three scenes (`MCConstraint`) keep opening, card details and the attempt limit apart, because they share no state but the session
`service_bootstrap` | the same | the key of a freshly created vault can be lost (finding)
`components` | see below | the sixteen properties of the twelve components
`migration_rollback` | the migration of `components` | a failed audit replaces the live database by an older one (finding)

`components` holds the twelve components that share no state with each other. The
variable `focus` picks one per behaviour and the others stand still, so their
states add up instead of multiplying; every component is checked alone, exactly
as its own specification moves. Two keys, two attempts, one card with two states
and three revisions (`grants`); two runs, two contents, three card ids, two vault
writes (`import`); two writes by others and three event ids (`migration`); two
edits (`index`); two threads, one cursor at a time, two searches
(`discovery`); routes of up to three of ten components (`route`); 24576 graphs
of which the valid ones start (`evidence`); trees of three rules in every shape,
and all graphs of up to three renames on four offerings and all on three
(`loading`); every day of 2023 to 2025 and four anniversaries (`period`); two
actors, two caller ids, a log of two lines (`audit`); two versions, two
backups, one other write (`restore`); two attachments, three days
(`attachments`). `MCConstraint` bounds four of them further: `FewImports` (one
card by hand, and only the runs whose approved plan is theirs or the journal's),
`FewReleases`, `FewActions`, `FewSaves`, each with its comment. Each is large
enough for a mutant of the component to break its property, and small enough for
minutes.

Bounds: each mutation is made once and each card id drawn once (identities, not
a restriction on behaviour); `MaxTime`, `MaxCards`, `MaxChildren`, `MaxPersonal`
stand for the clock and the code's limits; the other `Max...` constants bound
counters of identities, revisions and days; `MCConstraint` keeps the `records`
instances small: one record of a card, value that is too long, or time before the year
2000 at once, and with two cards at most (a step out of that is still checked); `MaxDamage`. Deadlock says nothing here: in most
instances all identities can be used up or a walk ends, and in those of the catalog a
reader can always begin again.

Properties of `persist`. `AckedDurable`: what a call acknowledged stays.
`RejectedNotKept`: what was refused is in no copy a restore could bring back.
`AuditedBeforeAcked`. `SnapshotCurrent`: past the digest check nobody overtakes.
`BackupsTrail`: backup *i* is at most *i* writes behind and the numbers are in
order, even in the middle of a rotation. `RotationAllOrNothing`.
`ImplementsRegister`: refinement. `WaitEnds`: polling ends.
Properties of `records`. `LinksSound`, `OwnedRecordsHaveOwners`, `LineageKept`,
and `OnlyFiveKindsCloseVault`: a vault that opens stops opening only by removing a
successor, purging a card with private state, making a replaced card active,
reconciling a card with metadata longer than a value may be, or stamping a card,
aggregate or attempt while the clock shows a time before it was made, or anything
before the year 2000.
Properties of `catalog`. `ReturnedStaysActive`, `ActiveIsStored`,
`RollbackUndoesInstall`, and `SwitchAtPointer`: which snapshot a restart
would bring back is always settled and changes at the publication of the pointer
only. `LoadsMixOnlyOverMoves`: a load mixes nothing unless the active tree was moved
while it read, whatever state a dead installer left the disk in.

Properties of `service`. `OpenSessionsAccounted`: an open session, and with it the key
in memory, belongs to the manager or to a request that will lock it, on every
path of failure. `AfterLockNothing`: a lock or an expiry takes effect on requests
that are already running. `LockoutHolds`: a lockout lets through only the requests that
were past its check when it began, so fewer wrong codes than there are requests at
once. `CreatedOnce`.

Properties of `components`. `KeyedOnce`: a retry never makes a change again, and its
answer is that of the save that made it. `AppliedAsAuthorized`. `ImportsUnique`,
`ImportAddsOnly`, `AppliedAsApproved`: an import that dies and is repeated adds each
card once, takes nothing away, and writes what was approved, on the cards it has
seen. `OneTrueEvent`,
`JournalTellsState`: from journal, database, copy and log a restart can tell what
happened. `AuditTrail`: the log and the effects agree but for what a crash or a
failed take-back leaves, and those are marked, with the events that share their lines.
`RestoreVerified`: the session opened is on the bytes verified, and a rotation leaves
as many backups as it is to keep, the one just made among them if it is the latest.
`AttachmentsWhole`. `QueryCurrent`: an answer is the catalog as it was at
one moment of the query. `PagesContinue`: pages of a search are slices of one list.
`RouteValueSound`: no limit is exceeded by more than one rounding, and where all
amounts are whole units the order of components changes no total.
`EvidenceSound`, `CatalogSound`, `PeriodsTile`: what is promoted, exported, in force
or counted agrees between the functions that decide it.

Each of these has a mutant in `PROJECT.json`: a plausible slip in the code
(defined as "Variant" beside the action) under which TLC refutes it.

Fairness is assumed once: `WF_vars(Acquire(s) \/ Busy(s))`. `_retry_lock` polls
with a deadline of five seconds of monotonic time, so a waiting session gets
either the lock or an error whatever the holder does. Nothing is assumed of a
session that holds the lock (its disk may hang), and no liveness is claimed for
it. No other module states liveness: the handlers, importers and installers of
this program run because an owner calls them, nothing in the code retries or
finishes them by itself, so there is no fairness to assume.

### Findings

1. `_atomic_write` renames and then secures and syncs; a failure there is
   reported as a failed save although the file has changed, and the session's
   next save is a conflict.
2. `transition_card` can make a replaced card active with its link intact; such
   a vault does not open.
3. `delete_card`/`purge_card` leave dangling links, and `purge_card` leaves
   aggregates and attempts behind; such a vault does not open.
4. `_recover_install` copies `.previous` into the store in place; an interrupted
   copy blocks every later recovery.
5. `_open_or_bootstrap_device_session` stores a new device key before it creates
   the vault, under no lock; two first requests can leave a key that does not
   open the vault.
6. `_rollback_committed_migration` restores the last-known-good file, which is
   older than the database it replaces if anything was written since.
7. The switch to a new catalog is two renames, and readers take no lock: a load that
   meets one is answered with a catalog without its benefits and relationships, or
   with parts of two, where `release.py:433` promises "an atomic switch-over".

### Observed while reading, without a property

- `revalidate_candidate` compares a count that is always equal, so it always raises;
  theorem `NothingRevalidated` says that it never succeeds on any graph.
- A backup is restored over its destination before anything tries whether the
  passphrase opens the vault in it, and creating one does not try either; a restore
  that is refused then has already replaced the vault.
- A line of the audit log that was cut short, with its take-back failed too (a
  full disk), makes every later audited action fail until the file is repaired. If
  only its newline is missing, the next action is appended to the same line and
  answered, and then neither event can be found and the log not be read
  (`protected.py` 375-384, 465-468; `glued` in `AuditLog`).
- An attachment whose add died after the first file leaves ciphertext that no
  purge will find (`leftover` in `AttachmentFiles`). A purge that ended after its
  first removal leaves metadata that no purge takes, for it demands that both files
  are there (`protected.py` 803; `halved`), though both unlinks allow a missing file.
- A wall clock set back makes the vault unopenable with the next change to a card,
  aggregate or attempt that is newer than the clock, and so does a clock that is not
  set yet (the fifth kind of `OnlyFiveKindsCloseVault`); the same change at a later
  time mends it, while the order of a replacement stays wrong.
- `_normalize_reconciliation_mutation` accepts metadata of 8192 characters
  (`core.py` 3025), which is stored among values that may have 4096 when the vault is
  opened.
- A wall clock set back, or two backups within the resolution of modification times,
  may make the rotation remove the backup that was just made (`protected.py` 614;
  `fresh` in `BackupRestore`).
- An import whose session was overtaken, and has nothing to change, is recorded as
  committed without a look at the file.
- Two index builders at once may put back the older index; a query that asks the
  index twice (`best_for_category`) may be answered from two; the index does not
  look at `inheritance.applies`.
- A benefit rescued as "verified" that kept the status "superseded" is shown to
  consumers without the review gate, which only active rules pass.
- `conflict_references_for` takes the release date in its own zone,
  `default_as_of` in UTC.
- A later "reject" does not undo an earlier approval of a candidate.
- Saving reminder preferences uses one fixed temporary name, created exclusively:
  a save that dies makes every later one fail.

## 4. Proofs

All theorems are of the specifications as TLC runs them, for arbitrary constants
under the named assumptions of the modules. These say three kinds of thing: that a
marker for "nothing" is none of the values (`NoneAssumption`, `NotAJournal`,
`NoIndexIsNone`, `CorruptIsNoFile`, `ImportNone`, `GrantAbsent`, `AuditActors`,
`KeysAssumption`, ...); that bounds and limits are numbers, positive where the code
has a positive literal (`BackupCountAssumption`, `ServiceLimits`, `DiscoveryLimits`,
`AuditBounds`, ...); and what the inputs are (`KindsAssumption`,
`LifecycleAssumption`, `ContentsAssumption`, `TreesAreRead`: files are finitely many;
`ThreadsAssumption`: so are the server's threads;
`MoneyOfRoutes`: amounts are not negative and components are well formed;
`YearsAreYears`, `AnniversariesAreDays`). None bounds how many sessions, requests,
records, files, runs or days there are. The type invariant of every module is a
theorem as well, and each follows from the inductive invariant of its module.

No property is inductive by itself, since each speaks of what is visible at the end
and says nothing of the middle of a call. The invariants below add the middle; TLC
checked each before it was proved.

*VaultPersistence.* `IInv` adds who is inside the critical section (the lock's
holder); what each place of a call implies for its pending mutation (not in the file
before the rename, in it after), for `previous` (the file as it was at the check,
while an undo is possible), and for the rotation's copies, which never hold a
mutation that is still undecided; and that a session's snapshot holds no undecided
mutation of anybody but the holder. The refinement maps `live` to `stored` and shows
each action to be a register step or a stutter: the rename is `Apply`, the undo
`Withdraw`, and the answers are what they say.

`TrailInv` adds to it what a rotation has done so far: which backups are aside and
which are in place (`StageInv`), and, since `BackupsTrail` counts the writes between a
backup and the file, that what is counted is finite and that after a rotation every
backup has room for one more write (`RoomInv`). That room is why the rename that
follows keeps backup *i* within *i* writes, and why the rotation must come before it.
`RotationAllOrNothing` is a case analysis under `StageInv`.

*VaultRecords.* `IInv` is the types, ids drawn before use, times of cards not after a
clock that was never set back, `LinksSound` and `OwnedRecordsHaveOwners`. Acyclicity is stated as "no
set of cards is closed under the links" rather than with a walk, which is what
makes it provable without recursion: a new successor is a fresh id without a
link, so no closed set can contain it. `OnlyFiveKinds` follows from `IInv`
and a case analysis over all mutators; that a stamp which is not too early gives
times that opening accepts is one lemma (`DatedValid`) that all of them share.

*CatalogInstall.* `IInv` says for every place of a call what it knows of the disk:
there that a store exists, that the selected snapshot is good, that active tree
and pointer agree (`CallInv`); that without damage the pointer names a good
snapshot or at most one good snapshot exists, and that a recovery under way has
selected the one a restart would select (`SettledInv`); that the snapshot a
returned call made active is stored, and while a later call moves trees, where
it is (`LastInv`); and that `.previous` keeps the snapshot that call replaced
(`UndoInv`). `SwitchesAtPointer` is then a case analysis of the steps.
With readers, a behaviour is one of the installer's (`ReadersAside`), so all of this
holds under `LoadSpec` too. `LoadInv` says that what a load has read so far is the
active tree as long as it was not moved, and that the required first part was read
from a tree that is there; `MixedOnlyOverMoves` follows.

*BrowserSessions.* `BrowserInv`: a request that opened a session for itself has it
alone, open and unknown to the manager; any other session a request holds is the
manager's or was closed under it (`RequestsInv`). A closed session is locked and not
registered, and every session whose snapshot is the file as it is knows whether there
is a code (`SessionsInv`): it is this that leaves only one of several racing calls to
choose the code, since the others' saves are conflicts. `LockoutKept` counts: a wrong
code takes its request out of `Checking` as it adds one to `late`; the request whose
failure began the lockout is not in `Checking`; and only `BeforeAttempt`, which the
lockout stops, adds to `Checking`. So the sum stays below the number of requests
until the lockout ends.

*SessionGrants.* A contract is of a change that reached the file, made on a revision
the file has left (`ContractInv`), so neither its replay nor its loss lets the change
be made again; an unused authorization for a reconciliation describes the card as it is
at the snapshot's revision, if that is still its revision (`PermitInv`); and a
snapshot is the file or older (`SnapshotInv`).

*Migration* (`JournalProofs`). What each place of a run implies for database, journal
and copy (`PlaceInv`, `LkgInv`); what a journal says of the image it was made for
(`IntentInv`); and that only the journal's event can be in the log, after the commit
(`EventInv`). `OneTrueEvent` follows for any number of deaths, since a restart finds
the event's id in the journal.

*PrivateImport* (`JournalProofs`). What a run goes by at each place (`RunsInv`), that the
journal has the sources of its plan (`JournalInv`), that a session's cards are the
file's while their revisions agree (`SessionsInv`), and that a card bound to a source
still has the number and the note it had there (`BoundCardsInv`), without which a
second import could match a card by source and another by number. The step that
matters is `ReconcileCards`, whose lemmas treat the cards merged, the cards added and
the cards untouched.

*CatalogRules* (`CatalogReadProofs`). The walk is proved to be right: it ends in "cycle"
only on a tree with a cycle, and ends otherwise only on one without. The stack holds
nodes not yet visited as well, so "the path from the start" has to be read off it: an
entry is `Visited` if its node is gray and no later entry is the same node; each
entry was pushed by the last visited one below it (`PushedInv`), which makes the
visited entries from a gray node up a cycle when it is met again; what a visited
node leads to has been left or is still above it (`AheadInv`); and what has been left
leads only to what has been left and never in a circle (`BlackInv`). The other parts of
`CatalogSound` follow from what the load has checked (`LoadingInv`).

*EvidenceGraph, AllowancePeriods* (`CatalogReadProofs`). The graph held is always one
the constructor accepts; with that, the two functions that decide are compared, and
a revalidation is seen never to succeed (`NothingRevalidated`).
The date is always a day of the calendar (`PeriodInv`, over Gregorian leap years);
that windows tile is then arithmetic on months, quarters and clamped anniversaries.

*RouteValue* (`CatalogReadProofs`). What a class and a group have left is what their
components have not counted, and a group is overdrawn by half a minor unit at most
(`LeftInv`): rounding is monotone and changes nothing that is whole. In whole units a
class has counted what its components are worth or all of the purchase, and until then
so has each of its groups (`ExactInv`). The sums over the components are recursive
functions; what one more or one changed amount does to them (`SumNext`, `SumPoint`) is
shown by taking the first place at which it would not hold (`UpTo`), and so is that a
finite set of numbers has a least (`MinIs`). Only groups of the route are ever opened
(`GroupsOpened`), the rest of its type invariant.

*CatalogIndex* (`CatalogReadProofs`). A build reads the source six times while it
changes. `BuilderInv` orders its reads, and says when it is already certain that the
fingerprints will differ (`Doomed`), or else that the source was, during the query
under way, what the build will call it; `IndexInv` says that of the index in place;
`ReaderInv` says what each check of a query has established.

*DiscoveryCursors* (`CatalogReadProofs`). A search goes on in one place, a cursor or a
request being answered (`OnePlace`), with the list of its pages and after them
(`PlaceFits`). The store never holds more cursors than its limit (`CursorsBounded`),
since what is issued evicts first.

*AttachmentFiles, BackupRestore, AuditLog* (`ProtectedProofs`). Which of its two files the
holder of the attachments' lock has made or removed (`FilerInv`) and what is owed to a
call that returned (`KeptInv`); what a lease has verified (`LeaseInv`) and how many
backups there are at each place of a rotation, the last one among them if it is later
than the others (`RotationInv`); what the holder of the log's lock has added to it
(`HolderInv`), and that the log without the open transaction accounts for all that was
answered and done, and lacks its last newline, or has events glued, only after
something was left behind (`BaseInv`). What a purge leaves of the log is a
recursive function of it (`Remaining`); what it contains is proved by taking the
first place at which it would not.

### Left to TLC

- `WaitEnds` is liveness under fairness, which this prover does not do.
- The seven refuted properties are counterexamples, not theorems.

## 5. Not modelled, and the plan

Not modelled: cryptography, permissions, parsing and formatting; the command line
(`cli.py`, `vault_cli.py`), which calls what is modelled; the ordering of routes,
fees and links in the optimizer; quantities, conditions, owners and earning
rules of the catalog; reconciliation previews; offerings and lineage of the
evidence graph; reminders; identity, data location and ports; the browser
client's rendering, the proxy, and the maintenance scripts. The consolidation
authorization is taken within one call and is part of `PrivateImport`. Time is a
choice everywhere but in `VaultRecords`, `AuditLog`, `AttachmentFiles` and
`AllowancePeriods`, where its order matters.

Next, if this development is extended: reconciliation previews (they read the vault
before they authorize), an index built and queried across an installation, and more
than one browser on the discovery store's limit.
