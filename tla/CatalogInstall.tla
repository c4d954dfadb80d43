---------------------------- MODULE CatalogInstall ----------------------------
(***************************************************************************)
(* How release.py installs, rolls back and recovers the public catalog.     *)
(*                                                                          *)
(* The catalog lives in one active tree.  Beside it are the store of        *)
(* verified snapshots (directories named by content), a pointer to the one  *)
(* installed last, and the tree the last install replaced.  Every call      *)
(* holds the operating system's install lock from its first look at the     *)
(* trees to its end, so at most one call is in progress; it may fail or its *)
(* process may die between any two renames, and the next call then repairs  *)
(* what it finds.                                                           *)
(*                                                                          *)
(* Left out: the temporary trees (each is made anew, checked, and renamed   *)
(* into place; what an interrupted call left of one is put aside before it  *)
(* is used), the trees put aside, which nothing reads again, and the        *)
(* journal, which is written and removed but never read.                    *)
(***************************************************************************)
EXTENDS Integers, FiniteSets

CONSTANTS
  Snapshots,   \* contents of a catalog that verify
  Bad,         \* a tree that does not verify
  None,        \* no tree, no pointer
  MaxDamage    \* bound: how often a tree is damaged from outside

ASSUME TreesAssumption == Bad \notin Snapshots /\ None \notin Snapshots /\ Bad # None
ASSUME DamageAssumption == MaxDamage \in Nat

VARIABLES
  active,      \* the catalog directory itself
  previous,    \* .previous: the tree the last install replaced
  store,       \* .verified: what is under each snapshot's name
  root,        \* whether the directory .verified exists
  pointer,     \* .active: the snapshot installed last
  pc,          \* where the call that holds the install lock is
  op,          \* which call it is
  target,      \* the snapshot it makes active
  selected,    \* the snapshot its recovery decided on
  damage,      \* bound: damage done so far
  last,        \* history: the snapshot the last call made active, if it returned
  undo         \* history: the snapshot that was active before that call

trees == <<active, previous, store, root, pointer>>
call == <<op, target, selected>>
history == <<last, undo>>
vars == <<trees, pc, call, damage, history>>

Trees == Snapshots \cup {Bad, None}
Recovering == {"select", "migrate", "reinstate", "putback", "repoint"}
Guarded == {"store", "supersede", "shelve", "switch", "publish", "finish"}
Places == {"free", "locked", "prepare", "choose", "retire", "answer"}
            \cup Recovering \cup Guarded

\* Each conjunct is the type of one variable.
TypeOK ==
  /\ active \in Trees
  /\ previous \in Trees
  /\ store \in [Snapshots -> {"absent", "bad", "good"}]
  /\ root \in BOOLEAN
  /\ pointer \in Snapshots \cup {None}
  /\ pc \in Places
  /\ op \in {"install", "rollback", "load", "abort"}
  /\ target \in Snapshots \cup {None}
  /\ selected \in Snapshots \cup {None}
  /\ damage \in 0 .. MaxDamage
  /\ last \in Snapshots \cup {None}
  /\ undo \in Snapshots \cup {None}

\* _verified_snapshots
Good == {s \in Snapshots : store[s] = "good"}

\* The snapshots a recovery may select: the pointer decides, then the active
\* tree, then the order of the names, which the model leaves open.
Selectable ==
  IF pointer \in Good THEN {pointer}
  ELSE IF active \in Good THEN {active}
  ELSE Good

\* Nothing, or a catalog from before there was a store: an active tree, and
\* perhaps the one it replaced; a switch interrupted then may have left only
\* the latter.
Init ==
  /\ active \in Trees
  /\ previous \in Snapshots \cup {None}
  /\ store = [s \in Snapshots |-> "absent"]
  /\ root = FALSE
  /\ pointer = None
  /\ pc = "free"
  /\ op = "load"
  /\ target = None
  /\ selected = None
  /\ damage = 0
  /\ last = None
  /\ undo = None

-----------------------------------------------------------------------------
(* The call that holds the install lock *)

Goto(place) == pc' = place

\* Another process gets nothing until the lock is free: it polls for ten
\* seconds and gives up, having changed nothing.
Begin(o, t) ==
  /\ pc = "free"
  /\ op' = o
  /\ target' = t
  /\ selected' = None
  /\ Goto("locked")
  /\ UNCHANGED <<trees, damage, history>>

\* Only the first install of all does without a recovery.
Enter ==
  /\ pc = "locked"
  /\ Goto(IF op = "install" /\ active = None /\ ~ root THEN "prepare" ELSE "select")
  /\ UNCHANGED <<trees, call, damage, history>>

\* A call that does not return leaves it open which snapshot is installed.
Forget ==
  IF op = "load"
    THEN UNCHANGED history
    ELSE last' = None /\ undo' = None

\* An exception.  An install that had already moved the active tree away runs
\* the recovery before it raises.
Fail ==
  /\ pc # "free"
  /\ IF op = "install" /\ pc \in Guarded /\ active = None
       THEN op' = "abort" /\ Goto("select")
       ELSE Goto("free") /\ UNCHANGED op
  /\ Forget
  /\ UNCHANGED <<trees, target, selected, damage>>

\* The process dies; the operating system releases its lock.
Crash ==
  /\ pc # "free"
  /\ Goto("free")
  /\ Forget
  /\ UNCHANGED <<trees, call, damage>>

-----------------------------------------------------------------------------
(* _recover_install *)

\* Variant: the active tree decides before the pointer does.
SelectActiveFirst ==
  /\ pc = "select"
  /\ Selectable # {}
  /\ selected' \in IF active \in Good THEN {active} ELSE Selectable
  /\ Goto(IF active = selected' THEN "repoint" ELSE "reinstate")
  /\ UNCHANGED <<trees, op, target, damage, history>>

Select ==
  /\ pc = "select"
  /\ Selectable # {}
  /\ selected' \in Selectable
  /\ Goto(IF active = selected' THEN "repoint" ELSE "reinstate")
  /\ UNCHANGED <<trees, op, target, damage, history>>

\* Variant: the replaced tree is put back without a copy in the store.
MigrateUnstored ==
  /\ pc = "select"
  /\ Selectable = {}
  /\ active \notin Snapshots
  /\ previous \in Snapshots
  /\ root' = TRUE
  /\ selected' = previous
  /\ Goto("putback")
  /\ UNCHANGED <<active, previous, store, pointer, op, target, damage, history>>

\* The replaced tree is all there is: it is copied into the store, in place.
Migrate ==
  /\ pc = "select"
  /\ Selectable = {}
  /\ active \notin Snapshots
  /\ previous \in Snapshots
  /\ root' = TRUE
  /\ selected' = previous
  /\ IF store[previous] = "absent"
       THEN /\ store' = [store EXCEPT ![previous] = "bad"]
            /\ Goto("migrate")
       ELSE /\ Goto("reinstate")
            /\ UNCHANGED store
  /\ UNCHANGED <<active, previous, pointer, op, target, damage, history>>

Migrated ==
  /\ pc = "migrate"
  /\ previous = selected
  /\ store' = [store EXCEPT ![selected] = "good"]
  /\ Goto("reinstate")
  /\ UNCHANGED <<active, previous, root, pointer, call, damage, history>>

\* The copy of the selected snapshot is checked, the active tree put aside ...
Reinstate ==
  /\ pc = "reinstate"
  /\ store[selected] = "good"
  /\ active' = None
  /\ Goto("putback")
  /\ UNCHANGED <<previous, store, root, pointer, call, damage, history>>

\* ... and the copy renamed into its place.
PutBack ==
  /\ pc = "putback"
  /\ active' = selected
  /\ Goto("repoint")
  /\ UNCHANGED <<previous, store, root, pointer, call, damage, history>>

\* The pointer is corrected, and the call goes on with what it came for.
Repoint ==
  /\ pc = "repoint"
  /\ pointer' = selected
  /\ Goto(CASE op = "install" -> "prepare"
            [] op = "rollback" -> "choose"
            [] op = "load" -> "answer"
            [] op = "abort" -> "free")
  /\ UNCHANGED <<active, previous, store, root, call, damage, history>>

\* load_catalog_with_fallback reads the active tree, or the pointer's snapshot.
Answer ==
  /\ pc = "answer"
  /\ active \in Snapshots \/ pointer \in Good
  /\ Goto("free")
  /\ UNCHANGED <<trees, call, damage, history>>

-----------------------------------------------------------------------------
(* install_snapshot *)

Prepare ==
  /\ pc = "prepare"
  /\ root' = TRUE
  /\ Goto("store")
  /\ UNCHANGED <<active, previous, store, pointer, call, damage, history>>

\* The checked copy is renamed into the store, unless it is there already.
Store ==
  /\ pc = "store"
  /\ store[target] # "bad"
  /\ store' = [store EXCEPT ![target] = "good"]
  /\ Goto("supersede")
  /\ UNCHANGED <<active, previous, root, pointer, call, damage, history>>

\* A second copy is made to become active; the tree replaced last time goes.
Supersede ==
  /\ pc = "supersede"
  /\ store[target] = "good"
  /\ IF active = None
       THEN Goto("switch") /\ UNCHANGED previous
       ELSE Goto("shelve") /\ previous' = None
  /\ UNCHANGED <<active, store, root, pointer, call, damage, history>>

\* The active tree becomes the previous one, if it verifies.
Shelve ==
  /\ pc = "shelve"
  /\ previous' = IF active \in Snapshots THEN active ELSE previous
  /\ active' = None
  /\ Goto("switch")
  /\ UNCHANGED <<store, root, pointer, call, damage, history>>

Switch ==
  /\ pc = "switch"
  /\ active' = target
  /\ Goto("publish")
  /\ UNCHANGED <<previous, store, root, pointer, call, damage, history>>

\* Variant: the pointer keeps naming the snapshot that was replaced.
PublishForgotten ==
  /\ pc = "publish"
  /\ Goto("finish")
  /\ UNCHANGED <<trees, call, damage, history>>

Publish ==
  /\ pc = "publish"
  /\ pointer' = target
  /\ Goto("finish")
  /\ UNCHANGED <<active, previous, store, root, call, damage, history>>

Finish ==
  /\ pc = "finish"
  /\ Goto("free")
  /\ last' = target
  /\ undo' = IF op = "install" /\ last # target THEN last ELSE None
  /\ UNCHANGED <<trees, call, damage>>

-----------------------------------------------------------------------------
(* rollback_catalog *)

\* Variant: any other snapshot will do.
ChooseAny ==
  /\ pc = "choose"
  /\ target' \in Good \ {pointer}
  /\ Goto("retire")
  /\ UNCHANGED <<trees, op, selected, damage, history>>

\* The tree replaced last, if the store has it; else any other snapshot.
Choose ==
  /\ pc = "choose"
  /\ target' \in IF previous \in Good \ {pointer} THEN {previous} ELSE Good \ {pointer}
  /\ Goto("retire")
  /\ UNCHANGED <<trees, op, selected, damage, history>>

Retire ==
  /\ pc = "retire"
  /\ store[target] = "good"
  /\ active' = None
  /\ Goto("switch")
  /\ UNCHANGED <<previous, store, root, pointer, call, damage, history>>

-----------------------------------------------------------------------------
(* A file of a tree is edited or lost, by something else than release.py.   *)
(* During a call, that is found by the checks of the copies, which Fail and  *)
(* the guards on the store stand for, or comes to the same as after it.     *)
Damage ==
  /\ pc = "free"
  /\ damage < MaxDamage
  /\ damage' = damage + 1
  /\ \/ active \in Snapshots /\ active' = Bad /\ UNCHANGED <<previous, store>>
     \/ previous \in Snapshots /\ previous' = Bad /\ UNCHANGED <<active, store>>
     \/ \E s \in Good :
          store' = [store EXCEPT ![s] = "bad"] /\ UNCHANGED <<active, previous>>
  /\ last' = None
  /\ undo' = None
  /\ UNCHANGED <<root, pointer, pc, call>>

Call ==
  \/ \E s \in Snapshots : Begin("install", s)
  \/ Begin("rollback", None)
  \/ Begin("load", None)

Recovery == Select \/ Migrate \/ Migrated \/ Reinstate \/ PutBack \/ Repoint
Install == Prepare \/ Store \/ Supersede \/ Shelve \/ Switch \/ Publish \/ Finish
Rollback == Choose \/ Retire

Next ==
  \/ Call \/ Enter \/ Recovery \/ Answer \/ Install \/ Rollback
  \/ Fail \/ Crash \/ Damage

Spec == Init /\ [][Next]_vars

-----------------------------------------------------------------------------
(* Properties *)

(* What an install or a rollback that returned made active stays active,    *)
(* stored and pointed to, while loads recover, fail and die, until the next *)
(* install or rollback.                                                     *)
ReturnedStaysActive ==
  last # None /\ (pc = "free" \/ op = "load") =>
    active = last /\ pointer = last /\ last \in Good

(* Which snapshot a restart would bring back is settled at every moment,    *)
(* and what settles it anew is the publication of the pointer alone: an     *)
(* install or rollback interrupted before that is undone, one interrupted   *)
(* after it is completed.  Before the first snapshot there is none.         *)
SwitchAtPointer ==
  [][damage' = 0 =>
       /\ Cardinality(Selectable') <= 1
       /\ Selectable' # Selectable =>
            \/ Selectable = {}
            \/ pc = "publish" /\ Selectable' = {target}]_vars

(* Once there is a store, the active tree is one of the snapshots in it     *)
(* whenever no call is moving it: no interruption leaves a tree active that *)
(* could not be restored.                                                   *)
ActiveIsStored ==
  damage = 0 /\ root /\ active # Bad /\ active # None => active \in Good

(* A rollback right after an install goes back to what that install         *)
(* replaced, although the store may hold other snapshots and loads may have *)
(* run recoveries in between.                                               *)
RollbackUndoesInstall ==
  [][op = "rollback" /\ pc = "finish" /\ last' # None /\ undo # None =>
       active = undo]_vars

(* docs/CATALOG-RELEASES.md:9-10 "quarantines incomplete/corrupt trees, and  *)
(* fails closed if no verified snapshot remains": a recovery that finds a   *)
(* replaced tree that verifies, and no active one, can use it.  It cannot   *)
(* when an earlier recovery died while copying that very tree.              *)
PreviousRecoverable ==
  pc = "free" /\ active \notin Snapshots /\ previous \in Snapshots =>
    Good # {} \/ store[previous] = "absent"
=============================================================================
