------------------------ MODULE CatalogInstallProofs ------------------------
(***************************************************************************)
(* Proofs about CatalogInstall and CatalogReaders, for any snapshots and    *)
(* any amount of damage.                                                    *)
(***************************************************************************)
EXTENDS CatalogReaders, FiniteSetTheorems, TLAPS

\* Without the directory nothing is in the store.
StoreInv == root \/ \A s \in Snapshots : store[s] = "absent"

\* Which call is where, and what it knows there.
CallInv ==
  /\ op = "install" => target \in Snapshots
  /\ pc \in {"prepare", "store", "supersede", "shelve"} => op = "install"
  /\ pc \in {"choose", "retire"} => op = "rollback"
  /\ pc = "answer" => op = "load"
  /\ pc \in {"switch", "publish", "finish"} => op \in {"install", "rollback"}
  /\ pc \in {"migrate", "reinstate"} => selected \in Snapshots
  /\ pc \in {"migrate", "reinstate", "putback", "repoint", "store"} => root
  /\ pc \in {"putback", "repoint"} => selected \in Good
  /\ pc = "repoint" => active = selected
  /\ pc \in {"choose", "answer"} => active \in Good /\ active = pointer
  /\ pc \in {"prepare", "store"} =>
       \/ active \in Good /\ active = pointer
       \/ active = None /\ Good = {}
  /\ pc \in {"supersede", "shelve", "retire", "switch", "publish", "finish"}
       => target \in Good
  /\ pc = "switch" => active = None
  /\ pc \in {"publish", "finish"} => active = target
  /\ pc = "finish" => pointer = target

\* Without damage, no two snapshots are ever left without a pointer to one.
SettledInv ==
  damage = 0 =>
    /\ pointer \in Good \/ Good = {} \/ \E s \in Snapshots : Good = {s}
    /\ pc \in {"reinstate", "putback", "repoint"} /\ selected \in Good
         => Selectable = {selected}
    /\ pc = "migrate" => Good = {}
    /\ pc = "reinstate" /\ selected \notin Good => Good = {}

\* Where the snapshot made active last is while a call goes on.
LastInv ==
  last # None =>
    /\ last \in Good
    /\ pc \notin {"migrate", "reinstate", "putback"}
    /\ op # "abort"
    /\ pc \notin {"retire", "switch", "publish", "finish"} =>
         active = last /\ pointer = last
    /\ pc = "retire" => pointer = last
    /\ pc \in {"switch", "publish", "finish"} /\ op = "install" => previous = last

\* Where the snapshot a rollback would go back to is.
UndoInv ==
  undo # None =>
    /\ last # None
    /\ undo \in Good
    /\ undo # last
    /\ op # "install" \/ pc = "free" => previous = undo
    /\ op = "rollback" /\ pc \in {"retire", "switch", "publish", "finish"} =>
         target = undo

IInv ==
  /\ TypeOK
  /\ StoreInv
  /\ CallInv
  /\ SettledInv
  /\ ActiveIsStored
  /\ LastInv
  /\ UndoInv

USE TreesAssumption, DamageAssumption
    DEF trees, call, history, vars, Trees, Recovering, Guarded, Places, Good, Goto,
        Forget

-----------------------------------------------------------------------------
(* One lemma for each part of the invariant; a step at a time.              *)

\* Every step keeps the types.
LEMMA TypeOKStep ==
  ASSUME TypeOK, Next
  PROVE  TypeOK'
<1>1. ASSUME NEW o \in {"install", "rollback", "load"},
             NEW t \in Snapshots \cup {None},
             o = "install" => t \in Snapshots, Begin(o, t)
      PROVE  TypeOK'
  BY <1>1 DEF Begin, TypeOK
<1>2. CASE Enter
  BY <1>2 DEF Enter, TypeOK
<1>3. CASE Fail
  BY <1>3 DEF Fail, TypeOK
<1>4. CASE Crash
  BY <1>4 DEF Crash, TypeOK
<1>5. CASE Select
  BY <1>5 DEF Select, TypeOK, Selectable
<1>6. CASE Migrate
  BY <1>6 DEF Migrate, TypeOK, Selectable
<1>7. CASE Migrated
  BY <1>7 DEF Migrated, TypeOK
<1>8. CASE Reinstate
  BY <1>8 DEF Reinstate, TypeOK
<1>9. CASE PutBack
  BY <1>9 DEF PutBack, TypeOK
<1>10. CASE Repoint
  BY <1>10 DEF Repoint, TypeOK
<1>11. CASE Answer
  BY <1>11 DEF Answer, TypeOK
<1>12. CASE Prepare
  BY <1>12 DEF Prepare, TypeOK
<1>13. CASE Store
  BY <1>13 DEF Store, TypeOK
<1>14. CASE Supersede
  BY <1>14 DEF Supersede, TypeOK
<1>15. CASE Shelve
  BY <1>15 DEF Shelve, TypeOK
<1>16. CASE Switch
  BY <1>16 DEF Switch, TypeOK
<1>17. CASE Publish
  BY <1>17 DEF Publish, TypeOK
<1>18. CASE Finish
  BY <1>18 DEF Finish, TypeOK
<1>19. CASE Choose
  BY <1>19 DEF Choose, TypeOK
<1>20. CASE Retire
  BY <1>20 DEF Retire, TypeOK
<1>21. CASE Damage
  BY <1>21 DEF Damage, TypeOK
<1>22. QED
  BY <1>1, <1>2, <1>3, <1>4, <1>5, <1>6, <1>7, <1>8, <1>9, <1>10, <1>11,
         <1>12, <1>13, <1>14, <1>15, <1>16, <1>17, <1>18, <1>19, <1>20, <1>21
         DEF Next, Call, Recovery, Install, Rollback

\* The directory is made before anything is put into it, and stays.
LEMMA StoreInvStep ==
  ASSUME CallInv, StoreInv, Next
  PROVE  StoreInv'
<1>1. ASSUME NEW o \in {"install", "rollback", "load"},
             NEW t \in Snapshots \cup {None},
             o = "install" => t \in Snapshots, Begin(o, t)
      PROVE  StoreInv'
  BY <1>1 DEF Begin, StoreInv
<1>2. CASE Enter
  BY <1>2 DEF Enter, StoreInv
<1>3. CASE Fail
  BY <1>3 DEF Fail, StoreInv
<1>4. CASE Crash
  BY <1>4 DEF Crash, StoreInv
<1>5. CASE Select
  BY <1>5 DEF Select, StoreInv, Selectable
<1>6. CASE Migrate
  BY <1>6 DEF Migrate, StoreInv, Selectable
<1>7. CASE Migrated
  BY <1>7 DEF Migrated, CallInv, StoreInv
<1>8. CASE Reinstate
  BY <1>8 DEF Reinstate, StoreInv
<1>9. CASE PutBack
  BY <1>9 DEF PutBack, StoreInv
<1>10. CASE Repoint
  BY <1>10 DEF Repoint, StoreInv
<1>11. CASE Answer
  BY <1>11 DEF Answer, StoreInv
<1>12. CASE Prepare
  BY <1>12 DEF Prepare, StoreInv
<1>13. CASE Store
  BY <1>13 DEF Store, CallInv, StoreInv
<1>14. CASE Supersede
  BY <1>14 DEF Supersede, StoreInv
<1>15. CASE Shelve
  BY <1>15 DEF Shelve, StoreInv
<1>16. CASE Switch
  BY <1>16 DEF Switch, StoreInv
<1>17. CASE Publish
  BY <1>17 DEF Publish, StoreInv
<1>18. CASE Finish
  BY <1>18 DEF Finish, StoreInv
<1>19. CASE Choose
  BY <1>19 DEF Choose, StoreInv
<1>20. CASE Retire
  BY <1>20 DEF Retire, StoreInv
<1>21. CASE Damage
  BY <1>21 DEF Damage, StoreInv
<1>22. QED
  BY <1>1, <1>2, <1>3, <1>4, <1>5, <1>6, <1>7, <1>8, <1>9, <1>10, <1>11,
         <1>12, <1>13, <1>14, <1>15, <1>16, <1>17, <1>18, <1>19, <1>20, <1>21
         DEF Next, Call, Recovery, Install, Rollback

\* Each place is reached only from where its facts hold, and only the call
\* itself moves trees.
LEMMA CallInvStep ==
  ASSUME TypeOK, StoreInv, CallInv, Next
  PROVE  CallInv'
<1>1. ASSUME NEW o \in {"install", "rollback", "load"},
             NEW t \in Snapshots \cup {None},
             o = "install" => t \in Snapshots, Begin(o, t)
      PROVE  CallInv'
  BY <1>1 DEF Begin, CallInv
<1>2. CASE Enter
  BY <1>2 DEF Enter, StoreInv, CallInv
<1>3. CASE Fail
  BY <1>3 DEF Fail, CallInv
<1>4. CASE Crash
  BY <1>4 DEF Crash, CallInv
<1>5. CASE Select
  BY <1>5 DEF Select, StoreInv, CallInv, Selectable
<1>6. CASE Migrate
  BY <1>6 DEF Migrate, CallInv, Selectable
<1>7. CASE Migrated
  BY <1>7 DEF Migrated, CallInv
<1>8. CASE Reinstate
  BY <1>8 DEF Reinstate, CallInv
<1>9. CASE PutBack
  BY <1>9 DEF PutBack, CallInv
<1>10. CASE Repoint
  BY <1>10 DEF Repoint, TypeOK, CallInv
<1>11. CASE Answer
  BY <1>11 DEF Answer, CallInv
<1>12. CASE Prepare
  BY <1>12 DEF Prepare, CallInv
<1>13. CASE Store
  BY <1>13 DEF Store, TypeOK, CallInv
<1>14. CASE Supersede
  BY <1>14 DEF Supersede, CallInv
<1>15. CASE Shelve
  BY <1>15 DEF Shelve, CallInv
<1>16. CASE Switch
  BY <1>16 DEF Switch, CallInv
<1>17. CASE Publish
  BY <1>17 DEF Publish, CallInv
<1>18. CASE Finish
  BY <1>18 DEF Finish, CallInv
<1>19. CASE Choose
  BY <1>19 DEF Choose, CallInv
<1>20. CASE Retire
  BY <1>20 DEF Retire, CallInv
<1>21. CASE Damage
  BY <1>21 DEF Damage, CallInv
<1>22. QED
  BY <1>1, <1>2, <1>3, <1>4, <1>5, <1>6, <1>7, <1>8, <1>9, <1>10, <1>11,
         <1>12, <1>13, <1>14, <1>15, <1>16, <1>17, <1>18, <1>19, <1>20, <1>21
         DEF Next, Call, Recovery, Install, Rollback

\* The second snapshot is stored only after the pointer names the first.
LEMMA SettledInvStep ==
  ASSUME TypeOK, CallInv, SettledInv, Next
  PROVE  SettledInv'
<1>1. ASSUME NEW o \in {"install", "rollback", "load"},
             NEW t \in Snapshots \cup {None},
             o = "install" => t \in Snapshots, Begin(o, t)
      PROVE  SettledInv'
  BY <1>1 DEF Begin, SettledInv, Selectable
<1>2. CASE Enter
  BY <1>2 DEF Enter, SettledInv, Selectable
<1>3. CASE Fail
  BY <1>3 DEF Fail, SettledInv, Selectable
<1>4. CASE Crash
  BY <1>4 DEF Crash, SettledInv, Selectable
<1>5. CASE Select
  BY <1>5 DEF Select, SettledInv, Selectable
<1>6. CASE Migrate
  BY <1>6 DEF Migrate, TypeOK, SettledInv, Selectable
<1>7. CASE Migrated
  BY <1>7 DEF Migrated, SettledInv, Selectable
<1>8. CASE Reinstate
  BY <1>8 DEF Reinstate, SettledInv, Selectable
<1>9. CASE PutBack
  BY <1>9 DEF PutBack, SettledInv, Selectable
<1>10. CASE Repoint
  BY <1>10 DEF Repoint, TypeOK, CallInv, SettledInv, Selectable
<1>11. CASE Answer
  BY <1>11 DEF Answer, SettledInv, Selectable
<1>12. CASE Prepare
  BY <1>12 DEF Prepare, SettledInv, Selectable
<1>13. CASE Store
  BY <1>13 DEF Store, CallInv, SettledInv, Selectable
<1>14. CASE Supersede
  BY <1>14 DEF Supersede, SettledInv, Selectable
<1>15. CASE Shelve
  BY <1>15 DEF Shelve, SettledInv, Selectable
<1>16. CASE Switch
  BY <1>16 DEF Switch, SettledInv, Selectable
<1>17. CASE Publish
  BY <1>17 DEF Publish, CallInv, SettledInv, Selectable
<1>18. CASE Finish
  BY <1>18 DEF Finish, SettledInv, Selectable
<1>19. CASE Choose
  BY <1>19 DEF Choose, SettledInv, Selectable
<1>20. CASE Retire
  BY <1>20 DEF Retire, SettledInv, Selectable
<1>21. CASE Damage
  BY <1>21 DEF Damage, TypeOK, SettledInv, Selectable
<1>22. QED
  BY <1>1, <1>2, <1>3, <1>4, <1>5, <1>6, <1>7, <1>8, <1>9, <1>10, <1>11,
         <1>12, <1>13, <1>14, <1>15, <1>16, <1>17, <1>18, <1>19, <1>20, <1>21
         DEF Next, Call, Recovery, Install, Rollback

\* What becomes active was stored before.
LEMMA ActiveIsStoredStep ==
  ASSUME TypeOK, CallInv, ActiveIsStored, Next
  PROVE  ActiveIsStored'
<1>1. ASSUME NEW o \in {"install", "rollback", "load"},
             NEW t \in Snapshots \cup {None},
             o = "install" => t \in Snapshots, Begin(o, t)
      PROVE  ActiveIsStored'
  BY <1>1 DEF Begin, ActiveIsStored
<1>2. CASE Enter
  BY <1>2 DEF Enter, ActiveIsStored
<1>3. CASE Fail
  BY <1>3 DEF Fail, ActiveIsStored
<1>4. CASE Crash
  BY <1>4 DEF Crash, ActiveIsStored
<1>5. CASE Select
  BY <1>5 DEF Select, ActiveIsStored, Selectable
<1>6. CASE Migrate
  BY <1>6 DEF Migrate, TypeOK, ActiveIsStored, Selectable
<1>7. CASE Migrated
  BY <1>7 DEF Migrated, ActiveIsStored
<1>8. CASE Reinstate
  BY <1>8 DEF Reinstate, ActiveIsStored
<1>9. CASE PutBack
  BY <1>9 DEF PutBack, CallInv, ActiveIsStored
<1>10. CASE Repoint
  BY <1>10 DEF Repoint, ActiveIsStored
<1>11. CASE Answer
  BY <1>11 DEF Answer, ActiveIsStored
<1>12. CASE Prepare
  BY <1>12 DEF Prepare, CallInv, ActiveIsStored
<1>13. CASE Store
  BY <1>13 DEF Store, ActiveIsStored
<1>14. CASE Supersede
  BY <1>14 DEF Supersede, ActiveIsStored
<1>15. CASE Shelve
  BY <1>15 DEF Shelve, ActiveIsStored
<1>16. CASE Switch
  BY <1>16 DEF Switch, CallInv, ActiveIsStored
<1>17. CASE Publish
  BY <1>17 DEF Publish, ActiveIsStored
<1>18. CASE Finish
  BY <1>18 DEF Finish, ActiveIsStored
<1>19. CASE Choose
  BY <1>19 DEF Choose, ActiveIsStored
<1>20. CASE Retire
  BY <1>20 DEF Retire, ActiveIsStored
<1>21. CASE Damage
  BY <1>21 DEF Damage, TypeOK, ActiveIsStored
<1>22. QED
  BY <1>1, <1>2, <1>3, <1>4, <1>5, <1>6, <1>7, <1>8, <1>9, <1>10, <1>11,
         <1>12, <1>13, <1>14, <1>15, <1>16, <1>17, <1>18, <1>19, <1>20, <1>21
         DEF Next, Call, Recovery, Install, Rollback

\* Recovery finds nothing to do as long as nothing was interrupted.
LEMMA LastInvStep ==
  ASSUME TypeOK, CallInv, LastInv, Next
  PROVE  LastInv'
<1>1. ASSUME NEW o \in {"install", "rollback", "load"},
             NEW t \in Snapshots \cup {None},
             o = "install" => t \in Snapshots, Begin(o, t)
      PROVE  LastInv'
  BY <1>1 DEF Begin, LastInv
<1>2. CASE Enter
  BY <1>2 DEF Enter, LastInv
<1>3. CASE Fail
  BY <1>3 DEF Fail, CallInv, LastInv
<1>4. CASE Crash
  BY <1>4 DEF Crash, CallInv, LastInv
<1>5. CASE Select
  BY <1>5 DEF Select, LastInv, Selectable
<1>6. CASE Migrate
  BY <1>6 DEF Migrate, LastInv, Selectable
<1>7. CASE Migrated
  BY <1>7 DEF Migrated, LastInv
<1>8. CASE Reinstate
  BY <1>8 DEF Reinstate, LastInv
<1>9. CASE PutBack
  BY <1>9 DEF PutBack, LastInv
<1>10. CASE Repoint
  BY <1>10 DEF Repoint, TypeOK, CallInv, LastInv
<1>11. CASE Answer
  BY <1>11 DEF Answer, LastInv
<1>12. CASE Prepare
  BY <1>12 DEF Prepare, LastInv
<1>13. CASE Store
  BY <1>13 DEF Store, LastInv
<1>14. CASE Supersede
  BY <1>14 DEF Supersede, LastInv
<1>15. CASE Shelve
  BY <1>15 DEF Shelve, LastInv
<1>16. CASE Switch
  BY <1>16 DEF Switch, LastInv
<1>17. CASE Publish
  BY <1>17 DEF Publish, LastInv
<1>18. CASE Finish
  BY <1>18 DEF Finish, CallInv, LastInv
<1>19. CASE Choose
  BY <1>19 DEF Choose, LastInv
<1>20. CASE Retire
  BY <1>20 DEF Retire, CallInv, LastInv
<1>21. CASE Damage
  BY <1>21 DEF Damage, LastInv
<1>22. QED
  BY <1>1, <1>2, <1>3, <1>4, <1>5, <1>6, <1>7, <1>8, <1>9, <1>10, <1>11,
         <1>12, <1>13, <1>14, <1>15, <1>16, <1>17, <1>18, <1>19, <1>20, <1>21
         DEF Next, Call, Recovery, Install, Rollback

\* Loads leave the replaced tree alone, and a rollback prefers it.
LEMMA UndoInvStep ==
  ASSUME CallInv, LastInv, UndoInv, Next
  PROVE  UndoInv'
<1>1. ASSUME NEW o \in {"install", "rollback", "load"},
             NEW t \in Snapshots \cup {None},
             o = "install" => t \in Snapshots, Begin(o, t)
      PROVE  UndoInv'
  BY <1>1 DEF Begin, UndoInv
<1>2. CASE Enter
  BY <1>2 DEF Enter, UndoInv
<1>3. CASE Fail
  BY <1>3 DEF Fail, UndoInv
<1>4. CASE Crash
  BY <1>4 DEF Crash, UndoInv
<1>5. CASE Select
  BY <1>5 DEF Select, UndoInv, Selectable
<1>6. CASE Migrate
  BY <1>6 DEF Migrate, UndoInv, Selectable
<1>7. CASE Migrated
  BY <1>7 DEF Migrated, UndoInv
<1>8. CASE Reinstate
  BY <1>8 DEF Reinstate, UndoInv
<1>9. CASE PutBack
  BY <1>9 DEF PutBack, UndoInv
<1>10. CASE Repoint
  BY <1>10 DEF Repoint, UndoInv
<1>11. CASE Answer
  BY <1>11 DEF Answer, CallInv, UndoInv
<1>12. CASE Prepare
  BY <1>12 DEF Prepare, UndoInv
<1>13. CASE Store
  BY <1>13 DEF Store, UndoInv
<1>14. CASE Supersede
  BY <1>14 DEF Supersede, CallInv, UndoInv
<1>15. CASE Shelve
  BY <1>15 DEF Shelve, CallInv, UndoInv
<1>16. CASE Switch
  BY <1>16 DEF Switch, UndoInv
<1>17. CASE Publish
  BY <1>17 DEF Publish, UndoInv
<1>18. CASE Finish
  BY <1>18 DEF Finish, CallInv, LastInv, UndoInv
<1>19. CASE Choose
  BY <1>19 DEF Choose, LastInv, UndoInv
<1>20. CASE Retire
  BY <1>20 DEF Retire, UndoInv
<1>21. CASE Damage
  BY <1>21 DEF Damage, UndoInv
<1>22. QED
  BY <1>1, <1>2, <1>3, <1>4, <1>5, <1>6, <1>7, <1>8, <1>9, <1>10, <1>11,
         <1>12, <1>13, <1>14, <1>15, <1>16, <1>17, <1>18, <1>19, <1>20, <1>21
         DEF Next, Call, Recovery, Install, Rollback

-----------------------------------------------------------------------------
(* The inductive invariant *)

\* An empty store, or none, with nothing in progress.
LEMMA InitIInv == Init => IInv
<1> SUFFICES ASSUME Init PROVE IInv
  OBVIOUS
<1>1. Good = {}
  BY DEF Init
<1>2. TypeOK
  <2>1. store \in [Snapshots -> {"absent", "bad", "good"}] /\ root \in BOOLEAN
    BY DEF Init
  <2>2. damage \in 0 .. MaxDamage
    BY DEF Init
  <2>3. QED
    BY <2>1, <2>2 DEF Init, TypeOK
<1>3. CallInv /\ SettledInv
  BY <1>1 DEF Init, CallInv, SettledInv
<1>4. StoreInv /\ ActiveIsStored /\ LastInv /\ UndoInv
  BY DEF Init, StoreInv, ActiveIsStored, LastInv, UndoInv
<1>5. QED
  BY <1>2, <1>3, <1>4 DEF IInv

\* Every step of every call keeps every part of the invariant.
LEMMA NextIInv == IInv /\ [Next]_vars => IInv'
<1> SUFFICES ASSUME IInv, [Next]_vars PROVE IInv'
  OBVIOUS
<1>1. CASE Next
  BY <1>1, TypeOKStep, StoreInvStep, CallInvStep, SettledInvStep,
     ActiveIsStoredStep, LastInvStep, UndoInvStep DEF IInv
<1>2. CASE UNCHANGED vars
  BY <1>2 DEF IInv, TypeOK, StoreInv, CallInv, SettledInv, Selectable,
              ActiveIsStored, LastInv, UndoInv
<1>3. QED
  BY <1>1, <1>2

(* The invariant the theorems below rest on: what each place of a call knows *)
(* about the trees, and where the last snapshots are meanwhile.             *)
THEOREM Inductive == Spec => []IInv
BY InitIInv, NextIInv, PTL DEF Spec

(* No call leaves a tree, a name in the store or a pointer the code has no  *)
(* case for.                                                                *)
THEOREM TypeCorrect == Spec => []TypeOK
<1>1. IInv => TypeOK
  BY DEF IInv
<1>2. QED
  BY <1>1, Inductive, PTL

(* What install_snapshot or rollback_catalog returned with stays active.    *)
THEOREM ReturnedIsActive == Spec => []ReturnedStaysActive
<1>1. IInv => ReturnedStaysActive
  BY DEF IInv, TypeOK, CallInv, LastInv, ReturnedStaysActive
<1>2. QED
  BY <1>1, Inductive, PTL

(* Whatever is active could be restored from the store.                     *)
THEOREM ActiveStored == Spec => []ActiveIsStored
<1>1. IInv => ActiveIsStored
  BY DEF IInv
<1>2. QED
  BY <1>1, Inductive, PTL

(* A rollback right after an install undoes that install.                   *)
THEOREM RollbackUndoes == Spec => RollbackUndoesInstall
<1>1. IInv /\ [Next]_vars =>
        [op = "rollback" /\ pc = "finish" /\ last' # None /\ undo # None =>
           active = undo]_vars
  BY DEF IInv, UndoInv, CallInv
<1>2. QED
  BY <1>1, Inductive, PTL DEF Spec, RollbackUndoesInstall

-----------------------------------------------------------------------------
(* What a restart would bring back *)

\* At most one snapshot can be selected when the store is settled.
LEMMA OneSelectable ==
  ASSUME IInv, damage = 0
  PROVE  Cardinality(Selectable) <= 1
<1>1. Selectable = {} \/ \E s \in Snapshots : Selectable = {s}
  BY DEF IInv, SettledInv, Selectable
<1>2. CASE Selectable = {}
  BY <1>2, FS_EmptySet
<1>3. ASSUME NEW s \in Snapshots, Selectable = {s}
      PROVE  Cardinality(Selectable) <= 1
  <2>1. Cardinality({s}) = 1
    BY FS_Singleton
  <2>2. QED
    BY <1>3, <2>1
<1>4. QED
  BY <1>1, <1>2, <1>3

\* Only Publish, and the first snapshot's arrival in the store, change it.
LEMMA SelectionStep ==
  ASSUME IInv, Next, damage' = 0, Selectable' # Selectable, Selectable # {}
  PROVE  pc = "publish" /\ Selectable' = {target}
<1>1. damage = 0
  BY DEF IInv, TypeOK, Next, Call, Begin, Enter, Recovery, Select, Migrate, Migrated,
         Reinstate, PutBack, Repoint, Answer, Install, Prepare, Store, Supersede,
         Shelve, Switch, Publish, Finish, Rollback, Choose, Retire, Fail, Crash,
         Damage
<1>2. CASE Publish
  BY <1>2 DEF Publish, Selectable, IInv, CallInv
<1>3. CASE Call \/ Enter \/ Select \/ Answer \/ Prepare \/ Supersede \/ Finish
             \/ Choose \/ Fail \/ Crash
  BY <1>3 DEF Call, Begin, Enter, Select, Answer, Prepare, Supersede, Finish,
              Choose, Fail, Crash, Selectable
<1>4. CASE Migrate \/ Migrated
  BY <1>1, <1>4 DEF Migrate, Migrated, Selectable, IInv, SettledInv
<1>5. CASE Reinstate \/ PutBack \/ Repoint
  BY <1>1, <1>5 DEF Reinstate, PutBack, Repoint, Selectable, IInv, TypeOK, CallInv,
                    SettledInv
<1>6. CASE Store
  BY <1>6 DEF Store, Selectable, IInv, TypeOK, CallInv
<1>7. CASE Shelve \/ Retire \/ Switch
  BY <1>1, <1>7 DEF Shelve, Retire, Switch, Selectable, IInv, TypeOK, CallInv,
                    SettledInv
<1>8. ~ Damage
  BY DEF Damage, IInv, TypeOK
<1>9. QED
  BY <1>2, <1>3, <1>4, <1>5, <1>6, <1>7, <1>8 DEF Next, Recovery, Install, Rollback

(* The publication of the pointer is the moment an install or a rollback    *)
(* takes effect, and a recovery never has a choice.                         *)
THEOREM SwitchesAtPointer == Spec => SwitchAtPointer
<1>1. IInv /\ IInv' /\ [Next]_vars =>
        [damage' = 0 =>
           /\ Cardinality(Selectable') <= 1
           /\ Selectable' # Selectable =>
                \/ Selectable = {}
                \/ pc = "publish" /\ Selectable' = {target}]_vars
  <2> SUFFICES ASSUME IInv, IInv', Next, damage' = 0
               PROVE  /\ Cardinality(Selectable') <= 1
                      /\ Selectable' # Selectable =>
                           \/ Selectable = {}
                           \/ pc = "publish" /\ Selectable' = {target}
    OBVIOUS
  <2>1. (IInv /\ damage = 0 => Cardinality(Selectable) <= 1)'
    BY OneSelectable, PTL
  <2>2. QED
    BY <2>1, SelectionStep
<1>2. QED
  BY <1>1, Inductive, PTL DEF Spec, SwitchAtPointer

-----------------------------------------------------------------------------
(* Readers *)

\* Whatever the readers do, release.py behaves as it does alone: every theorem
\* about Spec is one about LoadSpec.
THEOREM ReadersAside == LoadSpec => Spec
<1>1. LoadInit => Init
  BY DEF LoadInit
<1>2. [LoadNext]_<<vars, load>> => [Next]_vars
  BY DEF LoadNext, BeginLoad, ReadPart, LoadReturns, LoadFails, InstallStep
<1>3. QED
  BY <1>1, <1>2, PTL DEF LoadSpec, Spec

\* What a load under way has read is the active tree, until that is moved; what
\* one that returned has read is all of a catalog, its first parts there.
LoadInv ==
  /\ LoadTypeOK
  /\ \A i \in DOMAIN load.parts : i <= 2 => load.parts[i] # None
  /\ load.at = "reading" /\ ~load.moved => \A i \in DOMAIN load.parts : load.parts[i] = active
  /\ load.at = "loaded" =>
       /\ Len(load.parts) = 4
       /\ ~load.moved => \A i \in DOMAIN load.parts : load.parts[i] = load.parts[1]

\* A load knows nothing of the install lock, and yet holds these facts.
THEOREM LoadInductive == LoadSpec => []LoadInv
<1> USE DEF LoadTypeOK, NoLoad
<1>0. Len(Parts) = 4 /\ Parts[1] = "release" /\ Parts[2] = "offerings"
  BY DEF Parts
<1>1. LoadInit => LoadInv
  BY <1>0 DEF LoadInit, LoadInv
<1>2. LoadInv /\ TypeOK /\ [LoadNext]_<<vars, load>> => LoadInv'
  <2> SUFFICES ASSUME LoadInv, TypeOK, [LoadNext]_<<vars, load>>
               PROVE  LoadInv'
    OBVIOUS
  <2>1. LoadTypeOK /\ load.parts \in Seq(Trees) /\ active \in Trees
    BY DEF LoadInv, TypeOK
  <2>2. CASE UNCHANGED <<vars, load>>
    BY <2>2 DEF LoadInv, vars, trees
  <2>3. CASE BeginLoad
    <3>1. load' = [at |-> "reading", parts |-> <<>>, moved |-> FALSE]
      BY <2>3 DEF BeginLoad
    <3>2. <<>> \in Seq(Trees) /\ Len(<<>>) = 0
      OBVIOUS
    <3>3. LoadTypeOK'
      BY <1>0, <3>1, <3>2
    <3>4. QED
      BY <3>1, <3>3 DEF LoadInv
  <2>4. CASE ReadPart
    <3> DEFINE n == Len(load.parts) + 1
    <3>1. /\ load' = [load EXCEPT !.parts = Append(load.parts, active)]
          /\ load.at = "reading" /\ n <= 4 /\ UNCHANGED active
          /\ active # None \/ Parts[n] \in Optional
      BY <1>0, <2>1, <2>4 DEF ReadPart, vars, trees
    <3>2. /\ load'.parts = Append(load.parts, active)
          /\ load'.at = "reading" /\ load'.moved = load.moved
      BY <2>1, <3>1
    <3>3. /\ Append(load.parts, active) \in Seq(Trees) /\ Len(Append(load.parts, active)) = n
          /\ \A i \in DOMAIN Append(load.parts, active) :
               \/ i = n /\ Append(load.parts, active)[i] = active
               \/ i \in DOMAIN load.parts /\ Append(load.parts, active)[i] = load.parts[i]
      BY <2>1
    <3>4. n <= 2 => active # None
      <4>1. n \in Nat /\ n >= 1
        BY <2>1
      <4>2. n <= 2 => n = 1 \/ n = 2
        BY <4>1
      <4>3. QED
        BY <1>0, <3>1, <4>2 DEF Optional
    <3>5. LoadTypeOK'
      BY <1>0, <2>1, <3>1, <3>2, <3>3
    <3> HIDE DEF n
    <3>6. \A i \in DOMAIN load'.parts : i <= 2 => load'.parts[i] # None
      BY <3>2, <3>3, <3>4 DEF LoadInv
    <3>7. ~load.moved => \A i \in DOMAIN load'.parts : load'.parts[i] = active
      BY <3>1, <3>2, <3>3 DEF LoadInv
    <3>8. QED
      BY <3>1, <3>2, <3>5, <3>6, <3>7 DEF LoadInv
  <2>5. CASE LoadReturns
    <3>1. /\ load' = [load EXCEPT !.at = "loaded"]
          /\ load.at = "reading" /\ Len(load.parts) = 4
      BY <1>0, <2>5 DEF LoadReturns
    <3>2. load'.parts = load.parts /\ load'.at = "loaded" /\ load'.moved = load.moved
      BY <2>1, <3>1
    <3>3. LoadTypeOK'
      BY <2>1, <3>1
    <3>4. 1 \in DOMAIN load.parts
      BY <2>1, <3>1
    <3>5. QED
      BY <3>1, <3>2, <3>3, <3>4 DEF LoadInv
  <2>6. CASE LoadFails
    BY <1>0, <2>6 DEF LoadFails, LoadInv
  <2>7. CASE InstallStep
    <3> DEFINE m == load.moved \/ (load.at = "reading" /\ active' # active)
    <3>1. load' = [load EXCEPT !.moved = m] /\ m \in BOOLEAN
      BY <2>7 DEF InstallStep
    <3>2. /\ load'.parts = load.parts /\ load'.at = load.at /\ load'.moved = m
          /\ LoadTypeOK'
      BY <2>1, <3>1
    <3>3. ~m => ~load.moved /\ (load.at = "reading" => active' = active)
      OBVIOUS
    <3> HIDE DEF m
    <3>4. QED
      BY <3>2, <3>3 DEF LoadInv
  <2>8. QED
    BY <2>2, <2>3, <2>4, <2>5, <2>6, <2>7 DEF LoadNext
<1>3. QED
  BY <1>1, <1>2, ReadersAside, TypeCorrect, PTL DEF LoadSpec

\* A load that returned one tree's parts and another's, or lacks a part, met a
\* move of the active tree.
THEOREM MixedOnlyOverMoves == LoadSpec => []LoadsMixOnlyOverMoves
<1>1. LoadInv => LoadsMixOnlyOverMoves
  <2> SUFFICES ASSUME LoadInv, load.at = "loaded", ~load.moved
               PROVE  Whole(load.parts)
    BY DEF LoadsMixOnlyOverMoves
  <2>1. /\ load.parts \in Seq(Trees) /\ Len(load.parts) = 4
        /\ \A i \in DOMAIN load.parts : load.parts[i] = load.parts[1]
    BY DEF LoadInv, LoadTypeOK
  <2>2. 1 \in DOMAIN load.parts
    BY <2>1
  <2>3. load.parts[1] \in Trees \ {None}
    BY <2>1, <2>2 DEF LoadInv
  <2>4. QED
    BY <2>1, <2>3 DEF Whole
<1>2. QED
  BY <1>1, LoadInductive, PTL

=============================================================================
