--------------------------- MODULE BrowserSessions ---------------------------
(***************************************************************************)
(* The request handlers of vault/router.py around one vault file: browser   *)
(* sessions that lock and expire, sessions a request opens for itself, the  *)
(* device key between keyring and local file, the limits on unlocking and   *)
(* on the code for card details.                                            *)
(*                                                                          *)
(* Handlers run in a pool of threads, so every access to a shared object (a *)
(* manager method under its lock, a session method under the session's, a   *)
(* read or a write of key or vault) is a step, and steps of other requests  *)
(* come between.  What a session holds is VaultRecords' subject, how it is   *)
(* saved VaultPersistence's; here a session is current with the file or not. *)
(***************************************************************************)
EXTENDS Integers, FiniteSets

CONSTANTS
  Requests,       \* handlers that may run at once
  Sessions,       \* VaultSession objects, also the browser tokens
  DeviceKeys,     \* keys the service generates for the vault
  Passphrase,     \* the owner's passphrase
  None,
  Unreadable,     \* the outcome of reading a key when the keyring fails
  MaxAttempts,    \* setups and unlocks allowed a minute (5 in the code)
  MaxFailures,    \* _DETAIL_MAX_FAILURES
  MaxBootstraps   \* bound of the bootstrap tokens handed out and not used

ASSUME KeysAssumption ==
  /\ Passphrase \notin DeviceKeys
  /\ None \notin DeviceKeys \cup {Passphrase} \cup Sessions
  /\ Unreadable \notin DeviceKeys \cup {Passphrase, None}
ASSUME ServiceLimits ==
  MaxAttempts \in Nat \ {0} /\ MaxFailures \in Nat \ {0} /\ MaxBootstraps \in Nat
ASSUME ThreadsAssumption == IsFiniteSet(Requests)   \* the server's worker threads

VARIABLES
  vault,        \* the key vault.json was created with, or None
  code,         \* the file's detail credential, named for its creator, or None
  current,      \* sessions whose snapshot is the file
  knows,        \* sessions whose snapshot holds the detail credential
  keyring,      \* the key in the operating system's keyring, or None
  fallback,     \* the key in the local file, or None
  support,      \* the keyring: "up", "missing" or "failing"
  sess,         \* each session: "unused", "open" or "locked"
  registered,   \* the tokens in _sessions
  attempts,     \* _attempts of the last minute
  bootstraps,   \* number of _bootstrap_tokens
  failures,     \* _detail_attempts.failures
  lockedOut,    \* is _detail_attempts.locked_until in the future
  late,         \* history: wrong codes recorded during the present lockout
  req,          \* where each request is
  closed        \* history: sessions the manager locked for good

files == <<vault, code>>
keys == <<keyring, fallback, support>>
limits == <<attempts, bootstraps, failures, lockedOut, late>>
snapshots == <<current, knows>>
vars == <<files, keys, registered, limits, snapshots, sess, req, closed>>

Keys == DeviceKeys \cup {Passphrase}
Purposes == {"setup", "unlock", "list", "act", "private", "read", "reveal"}
Places == {"idle", "body", "remember", "first", "look", "key", "store", "make",
           "again", "have", "peek", "detail", "created", "delay", "right", "wrong"}
Request == [at : Places, purpose : Purposes \cup {None}, session : Sessions \cup {None},
            own : BOOLEAN, key : Keys \cup {None}, made : Keys \cup {None}, saw : BOOLEAN]
Rest == [at |-> "idle", purpose |-> None, session |-> None, own |-> FALSE,
         key |-> None, made |-> None, saw |-> FALSE]

\* The type of every variable; a session in use by the manager is one that
\* was opened.
TypeOK ==
  /\ vault \in Keys \cup {None}
  /\ code \in Sessions \cup {None}
  /\ current \subseteq Sessions /\ knows \subseteq Sessions
  /\ keyring \in Keys \cup {None} /\ fallback \in Keys \cup {None}
  /\ support \in {"up", "missing", "failing"}
  /\ sess \in [Sessions -> {"unused", "open", "locked"}]
  /\ registered \cup closed \subseteq {s \in Sessions : sess[s] # "unused"}
  /\ attempts \in 0 .. MaxAttempts
  /\ bootstraps \in 0 .. MaxBootstraps
  /\ failures \in 0 .. MaxFailures
  /\ lockedOut \in BOOLEAN /\ late \in Nat
  /\ req \in [Requests -> Request]

Init ==
  /\ vault = None /\ code = None
  /\ keyring = None /\ fallback = None /\ support \in {"up", "missing", "failing"}
  /\ sess = [s \in Sessions |-> "unused"]
  /\ current = {} /\ knows = {}
  /\ registered = {} /\ closed = {}
  /\ attempts = 0 /\ bootstraps = 0 /\ failures = 0
  /\ lockedOut = FALSE /\ late = 0
  /\ req = [r \in Requests |-> Rest]

-----------------------------------------------------------------------------
(* The device key *)

\* get_device_key: the keyring, then the local file.
DeviceKey ==
  IF support = "up" /\ keyring # None THEN keyring
  ELSE IF support = "failing" /\ fallback = None THEN Unreadable
  ELSE fallback

\* The local file is created, or holds this very key already.
WriteLocalDeviceKey(k) == fallback \in {None, k} /\ fallback' = k

\* set_device_key: the keyring's entry is overwritten, the local file is not.
SetDeviceKey(k) ==
  /\ \/ support = "up" /\ keyring' = k /\ UNCHANGED fallback
     \/ support # "up" /\ WriteLocalDeviceKey(k) /\ UNCHANGED keyring
  /\ UNCHANGED support

\* The keyring starts to work, or ceases to.
SupportChanges ==
  /\ support' \in {"up", "missing", "failing"} \ {support}
  /\ UNCHANGED <<files, keyring, fallback, registered, limits, snapshots, sess, req, closed>>

\* A key nobody holds: the generator draws it anew.
Unheld(k) ==
  /\ k \notin {keyring, fallback, vault}
  /\ \A r \in Requests : k \notin {req[r].key, req[r].made}

-----------------------------------------------------------------------------
(* Sessions *)

\* _ensure_unlocked, for a session not due to lock itself.
Usable(s) == sess[s] = "open"

Fresh(s) == sess[s] = "unused"

\* A session opened now: its snapshot is the file.
OpenSession(s) ==
  /\ Fresh(s)
  /\ sess' = [sess EXCEPT ![s] = "open"]
  /\ current' = current \cup {s}
  /\ knows' = IF code # None THEN knows \cup {s} ELSE knows

LockSession(s) ==
  /\ sess' = [sess EXCEPT ![s] = "locked"]
  /\ current' = current \ {s}
  /\ knows' = knows \ {s}

\* Variant: the handler does not lock the session it opened.
FinishLeavingOpen(r) ==
  /\ req' = [req EXCEPT ![r] = Rest]
  /\ UNCHANGED <<sess, snapshots>>

\* The request's answer; a session it opened for itself is locked and let go.
Finish(r) ==
  LET s == req[r].session IN
  /\ req' = [req EXCEPT ![r] = Rest]
  /\ IF req[r].own
     THEN /\ sess' = [sess EXCEPT ![s] = "unused"]
          /\ current' = current \ {s} /\ knows' = knows \ {s}
     ELSE UNCHANGED <<sess, snapshots>>

-----------------------------------------------------------------------------
(* The manager *)

\* The token of a browser whose session can be used.
Live(t) == t \in registered /\ sess[t] = "open"

\* A handler that finds a live session: get returns it, without a copy, and
\* the handler reads what it needs before it goes on: the device key for a
\* protected action, whether there is a code for a reveal.
Borrow(r, t, purpose) ==
  /\ req[r].at = "idle"
  /\ Live(t)
  /\ purpose = "act" => DeviceKey \in Keys
  /\ purpose = "reveal" => Usable(t)
  /\ req' = [req EXCEPT ![r] =
       [Rest EXCEPT !.at = IF purpose = "reveal" THEN "detail" ELSE "have",
                    !.purpose = purpose, !.session = t,
                    !.key = IF purpose = "act" THEN DeviceKey ELSE None,
                    !.saw = (purpose = "reveal" /\ t \in knows)]]
  /\ UNCHANGED <<files, keys, registered, limits, snapshots, sess, closed>>

\* get for any other token: a session past its limits, which the manager
\* learns by looking at the clock here, is locked and forgotten.  None is a
\* request without a cookie.
Reap(t) ==
  IF t \in registered
  THEN /\ LockSession(t)
       /\ registered' = registered \ {t}
       /\ closed' = closed \cup {t}
  ELSE UNCHANGED <<sess, snapshots, registered, closed>>

\* Variant: the token is forgotten, its session stays open.
LockForgetsSession(t) ==
  /\ t \in registered
  /\ registered' = registered \ {t}
  /\ closed' = closed \cup {t}
  /\ UNCHANGED <<files, keys, limits, snapshots, sess, req>>

\* POST /lock, whatever other requests are doing with the session.
Lock(t) ==
  /\ t \in registered
  /\ LockSession(t)
  /\ registered' = registered \ {t}
  /\ closed' = closed \cup {t}
  /\ UNCHANGED <<files, keys, limits, req>>

\* _auto_lock_if_idle: a request comes to use a session past its own limits.
AutoLock(s) ==
  /\ Usable(s)
  /\ \E r \in Requests : req[r].session = s /\ ~req[r].own
  /\ LockSession(s)
  /\ UNCHANGED <<files, keys, registered, limits, req, closed>>

-----------------------------------------------------------------------------
(* Setting up and unlocking with the passphrase *)

BootstrapToken ==
  /\ bootstraps < MaxBootstraps
  /\ bootstraps' = bootstraps + 1
  /\ UNCHANGED <<files, keys, registered, attempts, failures, lockedOut, late, snapshots,
                 sess, req, closed>>

\* Variant: one attempt too many.
AdmitOneMore(r, how) ==
  /\ req[r].at = "idle"
  /\ bootstraps > 0
  /\ bootstraps' = bootstraps - 1
  /\ attempts <= MaxAttempts
  /\ attempts' = attempts + 1
  /\ req' = [req EXCEPT ![r] = [Rest EXCEPT !.at = "body", !.purpose = how]]
  /\ UNCHANGED <<files, keys, registered, failures, lockedOut, late, snapshots,
                 sess, closed>>

\* The handler up to its first await: token, limit and record in one go.
Admit(r, how) ==
  /\ req[r].at = "idle"
  /\ bootstraps > 0
  /\ bootstraps' = bootstraps - 1
  /\ IF attempts < MaxAttempts
     THEN /\ attempts' = attempts + 1
          /\ req' = [req EXCEPT ![r] = [Rest EXCEPT !.at = "body", !.purpose = how]]
     ELSE UNCHANGED <<attempts, req>>
  /\ UNCHANGED <<files, keys, registered, failures, lockedOut, late, snapshots,
                 sess, closed>>

\* A minute after the oldest attempt.
AttemptAges ==
  /\ attempts > 0
  /\ attempts' = attempts - 1
  /\ UNCHANGED <<files, keys, registered, bootstraps, failures, lockedOut, late, snapshots,
                 sess, req, closed>>

\* Variant: no look at whether there is a vault already.
CreateVaultAnyway(k, s) ==
  /\ vault' = k /\ code' = None
  /\ Fresh(s)
  /\ sess' = [sess EXCEPT ![s] = "open"]
  /\ current' = {s}
  /\ knows' = {}

\* VaultStore.create, which holds the file lock and never overwrites.
CreateVault(k, s) ==
  /\ vault = None
  /\ vault' = k /\ code' = None
  /\ OpenSession(s)

Register(s) == registered' = registered \cup {s}

\* setup or unlock goes through: the session is registered under its token,
\* and the passphrase may be remembered.
EnterByPassphrase(r, s, remember) ==
  /\ req[r].at = "body"
  /\ \/ req[r].purpose = "setup" /\ CreateVault(Passphrase, s)
     \/ /\ req[r].purpose = "unlock" /\ vault = Passphrase
        /\ OpenSession(s)
        /\ UNCHANGED files
  /\ Register(s)
  /\ req' = [req EXCEPT ![r] = IF remember THEN [Rest EXCEPT !.at = "remember"] ELSE Rest]
  /\ UNCHANGED <<keys, limits, closed>>

\* The body is malformed, the passphrase wrong, or there is a vault already.
EntryRefused(r) ==
  /\ req[r].at = "body"
  /\ req' = [req EXCEPT ![r] = Rest]
  /\ UNCHANGED <<files, keys, registered, limits, snapshots, sess, closed>>

\* _remember_passphrase: a keyring that fails is a warning.
Remember(r) ==
  /\ req[r].at = "remember"
  /\ keyring' = IF support = "up" THEN Passphrase ELSE keyring
  /\ req' = [req EXCEPT ![r] = Rest]
  /\ UNCHANGED <<files, fallback, support, registered, limits, snapshots, sess, closed>>

-----------------------------------------------------------------------------
(* Opening with the device key, or creating the vault with a new one *)

At(r, place) == req[r].at = place
GoTo(r, place) == req' = [req EXCEPT ![r].at = place]

\* A handler without a live session goes for the device key: a list or an
\* action in a browser, or a read that never uses the browser's session.
BeginDevice(r, t, purpose) ==
  /\ At(r, "idle")
  /\ t \in Sessions => sess[t] # "unused"
  /\ Reap(t)
  /\ req' = [req EXCEPT ![r] = [Rest EXCEPT !.at = "first", !.purpose = purpose]]
  /\ UNCHANGED <<files, keys, limits>>

BeginRead(r) ==
  /\ At(r, "idle")
  /\ req' = [req EXCEPT ![r] = [Rest EXCEPT !.at = "look", !.purpose = "read"]]
  /\ UNCHANGED <<files, keys, registered, limits, snapshots, sess, closed>>

\* A handler that requires a live session answers 401.
TurnAway(t) ==
  /\ t \in registered
  /\ Reap(t)
  /\ UNCHANGED <<files, keys, limits, req>>

\* A protected action with the owner's passphrase.
BeginPassphrase(r, s) ==
  /\ At(r, "idle")
  /\ vault = Passphrase
  /\ OpenSession(s)
  /\ req' = [req EXCEPT ![r] = [Rest EXCEPT !.at = "have", !.purpose = "act", !.session = s,
                                            !.own = TRUE, !.key = Passphrase]]
  /\ UNCHANGED <<files, keys, registered, limits, closed>>

FirstKey(r) ==
  /\ At(r, "first")
  /\ req' = [req EXCEPT ![r].at = "look",
                        ![r].key = IF DeviceKey \in Keys THEN DeviceKey ELSE None]
  /\ UNCHANGED <<files, keys, registered, limits, snapshots, sess, closed>>

Look(r) ==
  /\ At(r, "look")
  /\ req' = [req EXCEPT ![r].at = "key", ![r].saw = (vault # None)]
  /\ UNCHANGED <<files, keys, registered, limits, snapshots, sess, closed>>

\* The session is the request's own until it ends or registers it.  A key
\* not read at first is read again.
Own(r, s) ==
  req' = [req EXCEPT ![r].session = s, ![r].own = TRUE,
                     ![r].at = IF req[r].purpose # "read" /\ req[r].key = None
                               THEN "again" ELSE "have"]

\* There is a vault and the key opens it.
OpenByKey(r, s) ==
  /\ At(r, "key") /\ req[r].saw
  /\ DeviceKey = vault
  /\ OpenSession(s)
  /\ Own(r, s)
  /\ UNCHANGED <<files, keys, registered, limits, closed>>

\* There was neither vault nor readable key.
NothingYet(r) ==
  /\ At(r, "key") /\ ~req[r].saw
  /\ DeviceKey \in {None, Unreadable}
  /\ GoTo(r, "store")
  /\ UNCHANGED <<files, keys, registered, limits, snapshots, sess, closed>>

StoreKey(r, k) ==
  /\ At(r, "store")
  /\ Unheld(k)
  /\ SetDeviceKey(k)
  /\ req' = [req EXCEPT ![r].at = "make", ![r].made = k]
  /\ UNCHANGED <<files, registered, limits, snapshots, sess, closed>>

MakeVault(r, s) ==
  /\ At(r, "make")
  /\ CreateVault(req[r].made, s)
  /\ Own(r, s)
  /\ UNCHANGED <<keys, registered, limits, closed>>

AgainKey(r) ==
  /\ At(r, "again")
  /\ DeviceKey \in Keys
  /\ req' = [req EXCEPT ![r].at = "have", ![r].key = DeviceKey]
  /\ UNCHANGED <<files, keys, registered, limits, snapshots, sess, closed>>

\* Why opening fails at each place.
CannotOpen(r) ==
  \/ At(r, "key") /\ req[r].saw /\ DeviceKey # vault
  \/ At(r, "key") /\ ~req[r].saw /\ DeviceKey \in Keys      \* wrong_data_dir
  \/ At(r, "store") /\ support # "up" /\ fallback # None
  \/ At(r, "make") /\ vault # None
  \/ At(r, "again") /\ DeviceKey \notin Keys

\* A list is tried once more as a plain read; everything else is answered 503.
OpenFails(r) ==
  /\ CannotOpen(r)
  /\ IF req[r].purpose = "list"
     THEN /\ sess' = [s \in Sessions |-> IF s = req[r].session THEN "unused" ELSE sess[s]]
          /\ current' = current \ {req[r].session} /\ knows' = knows \ {req[r].session}
          /\ req' = [req EXCEPT ![r] = [Rest EXCEPT !.at = "look", !.purpose = "read"]]
     ELSE Finish(r)
  /\ UNCHANGED <<files, keys, registered, limits, closed>>

\* Expiry signals and reminder inputs: the key, then the vault; no bootstrap.
Peek(r) ==
  /\ At(r, "idle")
  /\ DeviceKey \in Keys
  /\ req' = [req EXCEPT ![r] = [Rest EXCEPT !.at = "peek", !.purpose = "read",
                                            !.key = DeviceKey]]
  /\ UNCHANGED <<files, keys, registered, limits, snapshots, sess, closed>>

PeekOpens(r, s) ==
  /\ At(r, "peek")
  /\ vault = req[r].key
  /\ OpenSession(s)
  /\ req' = [req EXCEPT ![r].at = "have", ![r].session = s, ![r].own = TRUE]
  /\ UNCHANGED <<files, keys, registered, limits, closed>>

PeekFails(r) ==
  /\ At(r, "peek")
  /\ vault # req[r].key
  /\ Finish(r)
  /\ UNCHANGED <<files, keys, registered, limits, closed>>

-----------------------------------------------------------------------------
(* What a request does with its session *)

\* A list registers the session it opened, under a new token.
RegisterOwn(r) ==
  /\ At(r, "have") /\ req[r].purpose = "list" /\ req[r].own
  /\ Register(req[r].session)
  /\ req' = [req EXCEPT ![r].own = FALSE]
  /\ UNCHANGED <<files, keys, limits, snapshots, sess, closed>>

\* The answer carries what the session holds: cards and personal state of the
\* browser's session, or what a request read with a session of its own.
ShowBrowser(r) ==
  /\ At(r, "have") /\ req[r].purpose \in {"list", "private"} /\ ~req[r].own
  /\ Usable(req[r].session)
  /\ Finish(r)
  /\ UNCHANGED <<files, keys, registered, limits, closed>>

ShowRead(r) ==
  /\ At(r, "have") /\ req[r].purpose = "read"
  /\ Finish(r)
  /\ UNCHANGED <<files, keys, registered, limits, closed>>

\* A save is refused when the session's snapshot is not the file.  After it
\* no other snapshot is.
Save(r, s) ==
  /\ Usable(s) /\ s \in current
  /\ req' = [req EXCEPT ![r] = Rest]
  /\ IF req[r].own
     THEN sess' = [sess EXCEPT ![s] = "unused"] /\ current' = {} /\ knows' = knows \ {s}
     ELSE current' = {s} /\ UNCHANGED <<sess, knows>>
  /\ UNCHANGED <<files, keys, registered, limits, closed>>

\* The card actions, which check the key again.
ProtectedAction(r) ==
  /\ At(r, "have") /\ req[r].purpose = "act" /\ req[r].key = vault
  /\ Save(r, req[r].session)

\* Aggregates and attempts.
PersonalAction(r) ==
  /\ At(r, "have") /\ req[r].purpose = "private"
  /\ Save(r, req[r].session)

\* Any other end: refused by the session, by the save, or by the record.
Refuse(r) ==
  /\ At(r, "have") /\ (req[r].purpose = "list" => ~req[r].own)
  /\ Finish(r)
  /\ UNCHANGED <<files, keys, registered, limits, closed>>

-----------------------------------------------------------------------------
(* Card details and their code *)

UpTo(n) == IF n < MaxFailures THEN n + 1 ELSE n

\* create_detail_credential: the vault has one code, and it is never replaced.
CreateCode(r) ==
  LET s == req[r].session IN
  /\ At(r, "detail") /\ ~req[r].saw
  /\ Usable(s) /\ s \notin knows /\ s \in current
  /\ code' = s
  /\ current' = {s}
  /\ knows' = knows \cup {s}
  /\ GoTo(r, "created")
  /\ UNCHANGED <<vault, keys, registered, limits, sess, closed>>

\* detail_success.
Success(r) ==
  /\ failures' = 0 /\ lockedOut' = FALSE /\ late' = 0
  /\ Finish(r)
  /\ UNCHANGED <<files, keys, registered, attempts, bootstraps, closed>>

RevealCreated(r) ==
  /\ At(r, "created") /\ Usable(req[r].session)
  /\ Success(r)

\* The browser's cookie stands for the code it once gave.
RevealByCookie(r) ==
  /\ At(r, "detail") /\ Usable(req[r].session) /\ req[r].session \in knows
  /\ Finish(r)
  /\ UNCHANGED <<files, keys, registered, limits, closed>>

\* There is nothing to show, or no permission; a lockout answers at once.
DetailRefused(r) ==
  /\ req[r].at \in {"detail", "created"}
  /\ Finish(r)
  /\ UNCHANGED <<files, keys, registered, limits, closed>>

\* Variant: the lockout is not looked at.
BeforeAttemptAnyway(r) ==
  /\ At(r, "detail") /\ req[r].saw
  /\ GoTo(r, "delay")
  /\ UNCHANGED <<files, keys, registered, limits, snapshots, sess, closed>>

\* detail_before_attempt, outside a lockout: wait for a moment, then try.
BeforeAttempt(r) ==
  /\ At(r, "detail") /\ req[r].saw /\ ~lockedOut
  /\ GoTo(r, "delay")
  /\ UNCHANGED <<files, keys, registered, limits, snapshots, sess, closed>>

\* The code given is right or not, and the card has a number stored or not;
\* the handler treats every refusal alike.
Accepts(r, right, stored) ==
  Usable(req[r].session) /\ req[r].session \in knows /\ right /\ stored

Verify(r, right, stored) ==
  /\ At(r, "delay")
  /\ GoTo(r, IF Accepts(r, right, stored) THEN "right" ELSE "wrong")
  /\ UNCHANGED <<files, keys, registered, limits, snapshots, sess, closed>>

CodeAccepted(r) == At(r, "right") /\ Success(r)

\* detail_failure.
CodeRefused(r) ==
  /\ At(r, "wrong")
  /\ failures' = UpTo(failures)
  /\ lockedOut' = (lockedOut \/ failures' = MaxFailures)
  /\ late' = IF lockedOut THEN late + 1 ELSE 0
  /\ Finish(r)
  /\ UNCHANGED <<files, keys, registered, attempts, bootstraps, closed>>

LockoutEnds ==
  /\ lockedOut
  /\ lockedOut' = FALSE /\ late' = 0
  /\ UNCHANGED <<files, keys, registered, attempts, bootstraps, failures,
                 snapshots, sess, req, closed>>

\* The server process ends; another is started on the same data.
Restart ==
  /\ sess' = [s \in Sessions |-> "unused"]
  /\ current' = {} /\ knows' = {}
  /\ registered' = {} /\ closed' = {}
  /\ attempts' = 0 /\ bootstraps' = 0 /\ failures' = 0
  /\ lockedOut' = FALSE /\ late' = 0
  /\ req' = [r \in Requests |-> Rest]
  /\ UNCHANGED <<files, keys>>

-----------------------------------------------------------------------------
Opening(r) ==
  \/ FirstKey(r) \/ Look(r) \/ NothingYet(r) \/ AgainKey(r) \/ OpenFails(r)
  \/ Peek(r) \/ PeekFails(r)
  \/ \E k \in DeviceKeys : StoreKey(r, k)
  \/ \E s \in Sessions : OpenByKey(r, s) \/ MakeVault(r, s) \/ PeekOpens(r, s)

Detail(r) ==
  \/ CreateCode(r) \/ RevealCreated(r) \/ RevealByCookie(r) \/ DetailRefused(r)
  \/ BeforeAttempt(r) \/ CodeAccepted(r) \/ CodeRefused(r)
  \/ \E right, stored \in BOOLEAN : Verify(r, right, stored)

Handle(r) ==
  \/ \E how \in {"setup", "unlock"} : Admit(r, how)
  \/ \E s \in Sessions, remember \in BOOLEAN : EnterByPassphrase(r, s, remember)
  \/ EntryRefused(r) \/ Remember(r)
  \/ \E t \in Sessions, p \in {"list", "act", "private", "reveal"} : Borrow(r, t, p)
  \/ \E t \in Sessions \cup {None}, p \in {"list", "act"} : BeginDevice(r, t, p)
  \/ BeginRead(r)
  \/ \E s \in Sessions : BeginPassphrase(r, s)
  \/ RegisterOwn(r) \/ ShowBrowser(r) \/ ShowRead(r)
  \/ ProtectedAction(r) \/ PersonalAction(r) \/ Refuse(r)

Surroundings ==
  \/ BootstrapToken \/ AttemptAges \/ SupportChanges \/ LockoutEnds \/ Restart
  \/ \E t \in Sessions : Lock(t) \/ AutoLock(t) \/ TurnAway(t)

Next ==
  \/ \E r \in Requests : Handle(r) \/ Opening(r) \/ Detail(r)
  \/ Surroundings

Spec == Init /\ [][Next]_vars

-----------------------------------------------------------------------------
(* Properties *)

\* An open session, and with it the key of the vault in memory, is always in
\* the manager's hands or in those of one request that will lock it.
OpenSessionsAccounted ==
  \A s \in Sessions : sess[s] = "open" =>
    \/ s \in registered
    \/ \E r \in Requests : req[r].own /\ req[r].session = s

\* Once a session was locked, by its browser or as expired, a request that
\* had got hold of it before neither shows nor writes anything more with it.
AfterLockNothing ==
  [][\A r \in Requests :
       (\/ ShowBrowser(r) \/ ProtectedAction(r) \/ PersonalAction(r)
        \/ RevealCreated(r) \/ RevealByCookie(r) \/ CreateCode(r))
         => req[r].session \notin closed]_vars

\* However setups and first reads race: the vault is created once, and the
\* code for card details is chosen once; neither is replaced later.
CreatedOnce ==
  [][/\ vault # None => vault' = vault
     /\ code # None => code' = code]_vars

\* Requests that were let through to try a code and have not recorded how it went.
Checking == {r \in Requests : req[r].at \in {"delay", "right", "wrong"}}

\* The lockout is read before a code is checked and the result recorded after, so
\* it does not stop the requests that are past the reading.  It stops all others:
\* the wrong codes recorded since it began and those still to be recorded are
\* fewer than the requests that run at once, whatever they do meanwhile.
LockoutHolds ==
  lockedOut => late + Cardinality(Checking) < Cardinality(Requests)

\* A vault the service created with a key of its own opens without a prompt:
\* while no request is under way, a key that can be read is that key.
DeviceVaultOpens ==
  vault \in DeviceKeys /\ (\A r \in Requests : req[r] = Rest) =>
    DeviceKey \in {vault, None, Unreadable}

=============================================================================
