------------------------- MODULE BrowserSessionsProofs -------------------------
(***************************************************************************)
(* Proofs about BrowserSessions, for any number of requests, sessions, keys   *)
(* and attempts.                                                             *)
(***************************************************************************)
EXTENDS BrowserSessions, FiniteSetTheorems, TLAPS

\* What a request has at each place: no session before it opened or found one,
\* and a key where it goes on with one.
Shape(x) ==
  /\ x.at \in {"idle", "body", "remember", "first", "look", "key", "store", "make", "peek"} =>
       x.session = None /\ ~x.own
  /\ x.at \in {"again", "have", "detail", "created", "delay", "right", "wrong"} =>
       x.session \in Sessions
  /\ x.at = "again" => x.own
  /\ x.at \in {"detail", "created", "delay", "right", "wrong"} => ~x.own
  /\ x.at = "peek" => x.key \in Keys
  /\ x.at = "make" => x.made \in Keys

\* A session that a request opened for itself is open, and neither the manager
\* nor another request has it; any other a request has is or was the manager's.
RequestsInv ==
  /\ \A r \in Requests : Shape(req[r])
  /\ \A r \in Requests : req[r].own =>
       /\ sess[req[r].session] = "open"
       /\ req[r].session \notin registered \cup closed
       /\ \A q \in Requests \ {r} : req[q].session # req[r].session
  /\ \A r \in Requests : ~req[r].own /\ req[r].session # None =>
       req[r].session \in registered \cup closed
  /\ \A r \in Requests : req[r].at = "key" /\ req[r].saw => vault # None

\* A session the manager closed is locked for good.  Snapshots are of open
\* sessions, and those of the file as it is have its code.
SessionsInv ==
  /\ \A s \in closed : sess[s] = "locked" /\ s \notin registered
  /\ \A s \in current \cup knows : sess[s] = "open"
  /\ \A s \in Sessions : sess[s] # "unused" => vault # None
  /\ vault = None => code = None
  /\ code # None => current \subseteq knows

BrowserInv == TypeOK /\ RequestsInv /\ SessionsInv /\ OpenSessionsAccounted

USE KeysAssumption, ServiceLimits DEF vars, files, keys, limits, snapshots

\* The types of the sessions and the requests, and of the rest.
SessionTypes ==
  /\ vault \in Keys \cup {None} /\ code \in Sessions \cup {None}
  /\ current \subseteq Sessions /\ knows \subseteq Sessions
  /\ sess \in [Sessions -> {"unused", "open", "locked"}]
  /\ registered \cup closed \subseteq {s \in Sessions : sess[s] # "unused"}
  /\ req \in [Requests -> Request]
LimitTypes ==
  /\ keyring \in Keys \cup {None} /\ fallback \in Keys \cup {None}
  /\ support \in {"up", "missing", "failing"}
  /\ attempts \in 0 .. MaxAttempts /\ bootstraps \in 0 .. MaxBootstraps
  /\ failures \in 0 .. MaxFailures /\ lockedOut \in BOOLEAN /\ late \in Nat

CoreInv == SessionTypes /\ RequestsInv /\ SessionsInv /\ OpenSessionsAccounted

\* The invariant, in the two parts that steps keep for different reasons.
LEMMA InvParts == BrowserInv <=> CoreInv /\ LimitTypes
BY DEF BrowserInv, CoreInv, TypeOK, SessionTypes, LimitTypes

\* What a request has before it found or opened a session.
LEMMA RequestAt ==
  ASSUME CoreInv, NEW r \in Requests
  PROVE  /\ req \in [Requests -> Request] /\ req[r] \in Request /\ Shape(req[r])
         /\ req[r].at = "idle" => req[r].session = None /\ ~req[r].own
BY DEF CoreInv, SessionTypes, RequestsInv, Shape

\* The state of one request, and nothing of a session, changes.
LEMMA RequestMoves ==
  ASSUME CoreInv, NEW r \in Requests, NEW x \in Request, req' = [req EXCEPT ![r] = x],
         Shape(x), x.own = req[r].own, x.session = req[r].session,
         x.at = "key" /\ x.saw => vault # None,
         UNCHANGED <<files, registered, sess, snapshots, closed>>
  PROVE  CoreInv'
<1>1. SessionTypes' /\ SessionsInv'
  BY DEF CoreInv, SessionTypes, SessionsInv
<1>2. \A q \in Requests : req'[q].own = req[q].own /\ req'[q].session = req[q].session
  BY DEF CoreInv, SessionTypes
<1>3. OpenSessionsAccounted'
  BY <1>2 DEF CoreInv, OpenSessionsAccounted
<1>4. RequestsInv'
  <2>1. \A q \in Requests : req'[q] = req[q] \/ (q = r /\ req'[q] = x)
    BY DEF CoreInv, SessionTypes
  <2>2. \A q \in Requests : Shape(req'[q]) /\ (req'[q].at = "key" /\ req'[q].saw => vault # None)
    BY <2>1 DEF CoreInv, RequestsInv
  <2>3. QED
    BY <1>2, <2>2 DEF CoreInv, RequestsInv
<1>5. QED
  BY <1>1, <1>3, <1>4 DEF CoreInv

\* A request answers, and lets go of a session of its own.
LEMMA Finished ==
  ASSUME CoreInv, NEW r \in Requests, Finish(r), UNCHANGED <<files, registered, closed>>
  PROVE  CoreInv'
BY DEF CoreInv, SessionTypes, RequestsInv, SessionsInv, OpenSessionsAccounted, Finish, Shape,
   Request, Places, Rest

\* A request that has no session opens one of its own.
LEMMA OpensOwn ==
  ASSUME CoreInv, NEW r \in Requests, NEW s \in Sessions, OpenSession(s),
         NEW x \in Request, req' = [req EXCEPT ![r] = x], Shape(x), req[r].session = None,
         ~req[r].own, x.own, x.session = s, x.at # "key",
         vault # None, UNCHANGED <<files, registered, closed>>
  PROVE  CoreInv'
BY DEF CoreInv, SessionTypes, RequestsInv, SessionsInv, OpenSessionsAccounted, OpenSession, Fresh, Shape

\* A session of a request's own is let go when the request goes on without one.
LEMMA Frees ==
  ASSUME CoreInv, NEW r \in Requests, req[r].own, req[r].session \in Sessions,
         NEW x \in Request, Shape(x), ~x.own, x.session = None, x.at # "key",
         req' = [req EXCEPT ![r] = x],
         sess' = [sess EXCEPT ![req[r].session] = "unused"],
         current' = current \ {req[r].session}, knows' = knows \ {req[r].session},
         UNCHANGED <<files, registered, closed>>
  PROVE  CoreInv'
<1>1. /\ req[r].session \notin registered \cup closed
      /\ \A q \in Requests \ {r} : req[q].session # req[r].session
  BY DEF CoreInv, RequestsInv
<1>2. \A q \in Requests : IF q = r THEN req'[q] = x ELSE req'[q] = req[q]
  BY DEF CoreInv, SessionTypes
<1>3. \A s \in Sessions : sess'[s] = IF s = req[r].session THEN "unused" ELSE sess[s]
  BY DEF CoreInv, SessionTypes
<1>4. SessionTypes' /\ SessionsInv'
  BY <1>1, <1>3 DEF CoreInv, SessionTypes, SessionsInv
<1>5. RequestsInv'
  <2>1. \A q \in Requests : Shape(req'[q]) /\ (req'[q].at = "key" /\ req'[q].saw => vault' # None)
    BY <1>2 DEF CoreInv, RequestsInv
  <2>2. ASSUME NEW q \in Requests, req'[q].own
        PROVE  /\ sess'[req'[q].session] = "open" /\ req'[q].session \notin registered' \cup closed'
               /\ \A p \in Requests \ {q} : req'[p].session # req'[q].session
    <3>1. q # r /\ req'[q] = req[q] /\ req[q].own
      BY <2>2, <1>2
    <3>2. /\ sess[req[q].session] = "open" /\ req[q].session \notin registered \cup closed
          /\ \A p \in Requests \ {q} : req[p].session # req[q].session
      BY <3>1 DEF CoreInv, RequestsInv
    <3>3. req[q].session \in Sessions
      BY <3>1 DEF CoreInv, RequestsInv, Shape, SessionTypes, Request, Places
    <3>4. QED
      BY <3>1, <3>2, <3>3, <1>1, <1>2, <1>3
  <2>3. \A q \in Requests : ~req'[q].own /\ req'[q].session # None =>
          req'[q].session \in registered' \cup closed'
    BY <1>2 DEF CoreInv, RequestsInv
  <2>4. QED
    BY <2>1, <2>2, <2>3 DEF RequestsInv
<1>6. OpenSessionsAccounted'
  <2>1. ASSUME NEW s \in Sessions, sess'[s] = "open", s \notin registered
        PROVE  \E q \in Requests : req'[q].own /\ req'[q].session = s
    BY <2>1, <1>2, <1>3 DEF CoreInv, OpenSessionsAccounted
  <2>2. QED
    BY <2>1 DEF OpenSessionsAccounted
<1>7. QED
  BY <1>4, <1>5, <1>6 DEF CoreInv

\* A session of a request's own becomes the manager's.
LEMMA Registers ==
  ASSUME CoreInv, NEW r \in Requests, req[r].own, NEW s \in Sessions, req[r].session = s,
         NEW x \in Request, Shape(x), ~x.own, x.session = s, x.at # "key",
         req' = [req EXCEPT ![r] = x], registered' = registered \cup {s},
         UNCHANGED <<files, snapshots, sess, closed>>
  PROVE  CoreInv'
BY DEF CoreInv, SessionTypes, RequestsInv, SessionsInv, OpenSessionsAccounted

\* The manager, or the session itself, locks it.
LEMMA Locks ==
  ASSUME CoreInv, NEW t \in Sessions, LockSession(t), UNCHANGED <<files, req>>,
         \/ t \in registered /\ registered' = registered \ {t} /\ closed' = closed \cup {t}
         \/ /\ \E q \in Requests : req[q].session = t /\ ~req[q].own
            /\ UNCHANGED <<registered, closed>>
  PROVE  CoreInv'
BY DEF CoreInv, SessionTypes, RequestsInv, SessionsInv, OpenSessionsAccounted, LockSession

\* The steps of opening with the device key keep what is known of sessions.
LEMMA OpeningStep ==
  ASSUME CoreInv, NEW r \in Requests, Opening(r)
  PROVE  CoreInv'
<1>1. ASSUME FirstKey(r)
      PROVE  CoreInv'
  <2> DEFINE x == [req[r] EXCEPT !.at = "look", !.key = IF DeviceKey \in Keys THEN DeviceKey ELSE None]
  <2>1. x \in Request /\ x.own = req[r].own /\ x.session = req[r].session /\ x.at # "key"
    BY <1>1, RequestAt DEF FirstKey, At, Request, Places, Keys
  <2>2. Shape(x)
    BY <1>1, RequestAt DEF FirstKey, At, Shape, Request, Keys
  <2>3. req' = [req EXCEPT ![r] = x] /\ UNCHANGED <<files, registered, sess, snapshots, closed>>
    BY <1>1, RequestAt DEF FirstKey
  <2> HIDE DEF x
  <2>4. QED
    BY <2>1, <2>2, <2>3, RequestMoves
<1>2. ASSUME Look(r)
      PROVE  CoreInv'
  <2> DEFINE x == [req[r] EXCEPT !.at = "key", !.saw = (vault # None)]
  <2>1. x \in Request /\ Shape(x) /\ x.own = req[r].own /\ x.session = req[r].session
        /\ x.saw = (vault # None)
    BY <1>2, RequestAt DEF Look, At, Shape, Request, Places
  <2>2. req' = [req EXCEPT ![r] = x] /\ UNCHANGED <<files, registered, sess, snapshots, closed>>
    BY <1>2, RequestAt DEF Look
  <2> HIDE DEF x
  <2>3. QED
    BY <2>1, <2>2, RequestMoves
<1>3. ASSUME NothingYet(r)
      PROVE  CoreInv'
  BY <1>3 DEF CoreInv, SessionTypes, RequestsInv, SessionsInv, OpenSessionsAccounted,
     Request, Places, Shape, Purposes, Rest, At, GoTo, NothingYet
<1>4. ASSUME AgainKey(r)
      PROVE  CoreInv'
  <2> DEFINE x == [req[r] EXCEPT !.at = "have", !.key = DeviceKey]
  <2>1. x \in Request /\ x.own = req[r].own /\ x.session = req[r].session /\ x.at # "key"
    BY <1>4, RequestAt DEF AgainKey, At, Request, Places, Keys
  <2>2. Shape(x)
    BY <1>4, RequestAt DEF AgainKey, At, Shape, Request, Keys
  <2>3. req' = [req EXCEPT ![r] = x] /\ UNCHANGED <<files, registered, sess, snapshots, closed>>
    BY <1>4, RequestAt DEF AgainKey
  <2> HIDE DEF x
  <2>4. QED
    BY <2>1, <2>2, <2>3, RequestMoves
<1>5. ASSUME OpenFails(r)
      PROVE  CoreInv'
  <2>1. CASE req[r].purpose = "list"
    <3> DEFINE x == [Rest EXCEPT !.at = "look", !.purpose = "read"]
    <3>1. \/ req[r].session = None /\ ~req[r].own
          \/ req[r].session \in Sessions /\ req[r].own
      BY <1>5, RequestAt DEF OpenFails, CannotOpen, At, Shape
    <3>2. /\ sess' = [s \in Sessions |-> IF s = req[r].session THEN "unused" ELSE sess[s]]
          /\ current' = current \ {req[r].session} /\ knows' = knows \ {req[r].session}
          /\ req' = [req EXCEPT ![r] = x] /\ UNCHANGED <<files, registered, closed>>
      BY <1>5, <2>1 DEF OpenFails
    <3>3. x \in Request /\ Shape(x) /\ ~x.own /\ x.session = None /\ x.at = "look"
      BY DEF Rest, Request, Places, Purposes, Shape
    <3> HIDE DEF x
    <3>4. CASE req[r].session \in Sessions /\ req[r].own
      <4>1. sess' = [sess EXCEPT ![req[r].session] = "unused"]
        BY <3>2 DEF CoreInv, SessionTypes
      <4>2. QED
        BY <3>2, <3>3, <3>4, <4>1, Frees
    <3>5. CASE req[r].session = None /\ ~req[r].own
      <4>1. UNCHANGED <<sess, current, knows>>
        BY <3>2, <3>5 DEF CoreInv, SessionTypes
      <4>2. x.own = req[r].own
        BY <3>3, <3>5, RequestAt DEF Request
      <4>3. QED
        BY <3>2, <3>3, <3>5, <4>1, <4>2, RequestMoves
    <3>6. QED
      BY <3>1, <3>4, <3>5
  <2>2. CASE req[r].purpose # "list"
    BY <1>5, <2>2, Finished DEF OpenFails
  <2>3. QED
    BY <2>1, <2>2
<1>6. ASSUME Peek(r)
      PROVE  CoreInv'
  <2> DEFINE x == [Rest EXCEPT !.at = "peek", !.purpose = "read", !.key = DeviceKey]
  <2>1. x \in Request /\ Shape(x) /\ x.own = req[r].own /\ x.session = req[r].session
        /\ x.at = "peek"
    BY <1>6, RequestAt DEF Peek, At, Shape, Rest, Request, Places, Purposes, Keys
  <2>2. req' = [req EXCEPT ![r] = x] /\ UNCHANGED <<files, registered, sess, snapshots, closed>>
    BY <1>6 DEF Peek
  <2> HIDE DEF x
  <2>3. QED
    BY <2>1, <2>2, RequestMoves
<1>7. ASSUME PeekFails(r)
      PROVE  CoreInv'
  BY <1>7, Finished DEF PeekFails
<1>8. ASSUME NEW k \in DeviceKeys, StoreKey(r, k)
      PROVE  CoreInv'
  <2> DEFINE x == [req[r] EXCEPT !.at = "make", !.made = k]
  <2>1. x \in Request /\ x.own = req[r].own /\ x.session = req[r].session /\ x.at # "key"
    BY <1>8, RequestAt DEF StoreKey, At, Request, Places, Keys
  <2>2. Shape(x)
    BY <1>8, RequestAt DEF StoreKey, At, Shape, Request, Keys
  <2>3. req' = [req EXCEPT ![r] = x] /\ UNCHANGED <<files, registered, sess, snapshots, closed>>
    BY <1>8, RequestAt DEF StoreKey
  <2> HIDE DEF x
  <2>4. QED
    BY <2>1, <2>2, <2>3, RequestMoves
<1>9. ASSUME NEW s \in Sessions, OpenByKey(r, s)
      PROVE  CoreInv'
  BY <1>9 DEF CoreInv, SessionTypes, RequestsInv, SessionsInv, OpenSessionsAccounted,
     Request, Places, Shape, Purposes, Rest, At, GoTo, OpenByKey, Own, OpenSession, Fresh
<1>10. ASSUME NEW s \in Sessions, MakeVault(r, s)
      PROVE  CoreInv'
  BY <1>10 DEF CoreInv, SessionTypes, RequestsInv, SessionsInv, OpenSessionsAccounted,
     Request, Places, Shape, Purposes, Rest, At, GoTo, MakeVault, CreateVault, Own, OpenSession, Fresh
<1>11. ASSUME NEW s \in Sessions, PeekOpens(r, s)
      PROVE  CoreInv'
  BY <1>11 DEF CoreInv, SessionTypes, RequestsInv, SessionsInv, OpenSessionsAccounted,
     Request, Places, Shape, Purposes, Rest, At, GoTo, PeekOpens, OpenSession, Fresh
<1>12. QED
  BY <1>1, <1>2, <1>3, <1>4, <1>5, <1>6, <1>7, <1>8, <1>9, <1>10, <1>11 DEF Opening

\* The steps about card details keep what is known of sessions.
LEMMA DetailStep ==
  ASSUME CoreInv, NEW r \in Requests, Detail(r)
  PROVE  CoreInv'
<1>1. ASSUME CreateCode(r)
      PROVE  CoreInv'
  BY <1>1 DEF CoreInv, SessionTypes, RequestsInv, SessionsInv, OpenSessionsAccounted,
     Request, Places, Shape, Purposes, Rest, At, GoTo, CreateCode, Usable
<1>2. ASSUME RevealCreated(r)
      PROVE  CoreInv'
  BY <1>2, Finished DEF RevealCreated, Success
<1>3. ASSUME RevealByCookie(r)
      PROVE  CoreInv'
  BY <1>3, Finished DEF RevealByCookie
<1>4. ASSUME DetailRefused(r)
      PROVE  CoreInv'
  BY <1>4, Finished DEF DetailRefused
<1>5. ASSUME BeforeAttempt(r)
      PROVE  CoreInv'
  BY <1>5 DEF CoreInv, SessionTypes, RequestsInv, SessionsInv, OpenSessionsAccounted,
     Request, Places, Shape, Purposes, Rest, At, GoTo, BeforeAttempt
<1>6. ASSUME CodeAccepted(r)
      PROVE  CoreInv'
  BY <1>6, Finished DEF CodeAccepted, Success
<1>7. ASSUME CodeRefused(r)
      PROVE  CoreInv'
  BY <1>7, Finished DEF CodeRefused
<1>8. ASSUME NEW right \in BOOLEAN, NEW stored \in BOOLEAN, Verify(r, right, stored)
      PROVE  CoreInv'
  BY <1>8 DEF CoreInv, SessionTypes, RequestsInv, SessionsInv, OpenSessionsAccounted,
     Request, Places, Shape, Purposes, Rest, At, GoTo, Verify
<1>9. QED
  BY <1>1, <1>2, <1>3, <1>4, <1>5, <1>6, <1>7, <1>8 DEF Detail

\* The other steps of a request keep what is known of sessions.
LEMMA HandleStep ==
  ASSUME CoreInv, NEW r \in Requests, Handle(r)
  PROVE  CoreInv'
<1>1. ASSUME NEW how \in {"setup", "unlock"}, Admit(r, how)
      PROVE  CoreInv'
  <2> DEFINE x == [Rest EXCEPT !.at = "body", !.purpose = how]
  <2>1. x \in Request /\ Shape(x) /\ x.own = req[r].own /\ x.session = req[r].session
        /\ x.at = "body"
    BY <1>1, RequestAt DEF Admit, At, Shape, Rest, Request, Places, Purposes
  <2>2. UNCHANGED <<files, registered, sess, snapshots, closed>>
        /\ (req' = [req EXCEPT ![r] = x] \/ req' = req)
    BY <1>1 DEF Admit
  <2>3. CASE req' = req
    BY <2>2, <2>3 DEF CoreInv, SessionTypes, RequestsInv, SessionsInv, OpenSessionsAccounted,
       Request, Places, Shape, Purposes, Rest, At, GoTo
  <2> HIDE DEF x
  <2>4. QED
    BY <2>1, <2>2, <2>3, RequestMoves
<1>2. ASSUME NEW s \in Sessions, NEW remember \in BOOLEAN, EnterByPassphrase(r, s, remember)
      PROVE  CoreInv'
  <2> DEFINE x == IF remember THEN [Rest EXCEPT !.at = "remember"] ELSE Rest
  <2>1. x \in Request /\ Shape(x) /\ ~req[r].own /\ req[r].session = None /\ ~x.own
        /\ x.session = None /\ x.at # "key"
    BY <1>2, RequestAt DEF EnterByPassphrase, At, Shape, Rest, Request, Places, Purposes
  <2>2. req' = [req EXCEPT ![r] = x] /\ OpenSession(s) /\ registered' = registered \cup {s}
        /\ closed' = closed
    BY <1>2 DEF EnterByPassphrase, CreateVault, Register
  <2>3. /\ vault' # None /\ vault' \in Keys
        /\ \/ vault = None /\ code' = None
           \/ vault' = vault /\ code' = code
    <3> HIDE DEF x
    <3>1. CASE CreateVault(Passphrase, s)
      <4>1. vault = None /\ vault' = Passphrase /\ code' = None
        BY <3>1 DEF CreateVault
      <4>2. QED
        BY <4>1 DEF Keys
    <3>2. CASE vault = Passphrase /\ UNCHANGED files
      BY <3>2 DEF Keys
    <3>3. QED
      BY <1>2, <3>1, <3>2 DEF EnterByPassphrase
  <2> HIDE DEF x
  <2>4. QED
    BY <2>1, <2>2, <2>3 DEF CoreInv, SessionTypes, RequestsInv, SessionsInv, OpenSessionsAccounted,
       Request, Places, Shape, Purposes, Rest, At, GoTo, OpenSession, Fresh
<1>3. ASSUME EntryRefused(r)
      PROVE  CoreInv'
  BY <1>3 DEF CoreInv, SessionTypes, RequestsInv, SessionsInv, OpenSessionsAccounted,
     Request, Places, Shape, Purposes, Rest, At, GoTo, EntryRefused
<1>4. ASSUME Remember(r)
      PROVE  CoreInv'
  BY <1>4 DEF CoreInv, SessionTypes, RequestsInv, SessionsInv, OpenSessionsAccounted,
     Request, Places, Shape, Purposes, Rest, At, GoTo, Remember, Keys
<1>5. ASSUME NEW t \in Sessions, NEW p \in {"list", "act", "private", "reveal"}, Borrow(r, t, p)
      PROVE  CoreInv'
  <2> DEFINE x == [Rest EXCEPT !.at = IF p = "reveal" THEN "detail" ELSE "have",
                               !.purpose = p, !.session = t,
                               !.key = IF p = "act" THEN DeviceKey ELSE None,
                               !.saw = (p = "reveal" /\ t \in knows)]
  <2>1. ~req[r].own /\ req[r].session = None /\ ~x.own /\ x.session = t /\ x.at # "key"
        /\ x.at \in {"detail", "have"}
    BY <1>5, RequestAt DEF Borrow, Rest
  <2>4. x \in Request
    <3>1. x.key \in Keys \cup {None} /\ x.saw \in BOOLEAN /\ x.purpose \in Purposes
      BY <1>5 DEF Borrow, Rest, Purposes
    <3>2. QED
      BY <2>1, <3>1 DEF Rest, Request, Places
  <2>5. Shape(x)
    BY <2>1 DEF Shape
  <2>2. req' = [req EXCEPT ![r] = x] /\ t \in registered
        /\ UNCHANGED <<files, registered, sess, snapshots, closed>>
    BY <1>5 DEF Borrow, Live
  <2> HIDE DEF x
  <2>3. QED
    BY <2>1, <2>2, <2>4, <2>5 DEF CoreInv, SessionTypes, RequestsInv, SessionsInv, OpenSessionsAccounted,
       Request, Places, Shape, Purposes, Rest, At, GoTo
<1>6. ASSUME NEW t \in Sessions \cup {None}, NEW p \in {"list", "act"}, BeginDevice(r, t, p)
      PROVE  CoreInv'
  <2> DEFINE x == [Rest EXCEPT !.at = "first", !.purpose = p]
  <2>1. x \in Request /\ Shape(x) /\ ~req[r].own /\ req[r].session = None /\ x.own = req[r].own
        /\ x.session = None /\ x.at # "key"
    BY <1>6, RequestAt DEF BeginDevice, At, Shape, Rest, Request, Places, Purposes
  <2>2. req' = [req EXCEPT ![r] = x] /\ UNCHANGED files
    BY <1>6 DEF BeginDevice
  <2>3. CASE UNCHANGED <<sess, snapshots, registered, closed>>
    <3> HIDE DEF x
    <3>1. QED
      BY <2>1, <2>2, <2>3, RequestMoves
  <2>4. CASE /\ t \in registered /\ LockSession(t)
             /\ registered' = registered \ {t} /\ closed' = closed \cup {t}
    <3> HIDE DEF x
    <3>1. QED
      BY <2>1, <2>2, <2>4 DEF CoreInv, SessionTypes, RequestsInv, SessionsInv, OpenSessionsAccounted,
       Request, Places, Shape, Purposes, Rest, At, GoTo, LockSession
  <2>5. QED
    BY <1>6, <2>3, <2>4 DEF BeginDevice, Reap
<1>7. ASSUME BeginRead(r)
      PROVE  CoreInv'
  <2> DEFINE x == [Rest EXCEPT !.at = "look", !.purpose = "read"]
  <2>1. x \in Request /\ Shape(x) /\ x.own = req[r].own /\ x.session = req[r].session
        /\ x.at = "look"
    BY <1>7, RequestAt DEF BeginRead, At, Shape, Rest, Request, Places, Purposes
  <2>2. req' = [req EXCEPT ![r] = x] /\ UNCHANGED <<files, registered, sess, snapshots, closed>>
    BY <1>7 DEF BeginRead
  <2> HIDE DEF x
  <2>3. QED
    BY <2>1, <2>2, RequestMoves
<1>8. ASSUME NEW s \in Sessions, BeginPassphrase(r, s)
      PROVE  CoreInv'
  <2> DEFINE x == [Rest EXCEPT !.at = "have", !.purpose = "act", !.session = s,
                               !.own = TRUE, !.key = Passphrase]
  <2>1. x \in Request /\ Shape(x) /\ req[r].session = None /\ ~req[r].own /\ x.own
        /\ x.session = s /\ x.at # "key"
    BY <1>8, RequestAt DEF BeginPassphrase, At, Shape, Rest, Request, Places, Purposes, Keys
  <2>2. req' = [req EXCEPT ![r] = x] /\ OpenSession(s)
        /\ vault # None /\ UNCHANGED <<files, registered, closed>>
    BY <1>8 DEF BeginPassphrase
  <2> HIDE DEF x
  <2>3. QED
    BY <2>1, <2>2, OpensOwn
<1>9. ASSUME RegisterOwn(r)
      PROVE  CoreInv'
  <2> DEFINE s == req[r].session
  <2>1. s \in Sessions /\ sess[s] = "open" /\ s \notin registered \cup closed /\ req[r].own
    BY <1>9, RequestAt DEF RegisterOwn, At, Shape, CoreInv, RequestsInv
  <2>2. req' = [req EXCEPT ![r].own = FALSE] /\ registered' = registered \cup {s}
        /\ UNCHANGED <<files, snapshots, sess, closed>> /\ req[r].at = "have"
    BY <1>9 DEF RegisterOwn, Register, At
  <2> DEFINE x == [req[r] EXCEPT !.own = FALSE]
  <2>3. x \in Request /\ Shape(x) /\ ~x.own /\ x.session = s /\ x.at = "have"
    BY <2>1, <2>2, RequestAt DEF Request, Shape
  <2>4. req' = [req EXCEPT ![r] = x]
    BY <2>2, RequestAt
  <2>5. req[r].session = s
    OBVIOUS
  <2> HIDE DEF x, s
  <2>6. QED
    BY <2>1, <2>2, <2>3, <2>4, <2>5, Registers
<1>10. ASSUME ShowBrowser(r)
      PROVE  CoreInv'
  BY <1>10, Finished DEF ShowBrowser
<1>11. ASSUME ShowRead(r)
      PROVE  CoreInv'
  BY <1>11, Finished DEF ShowRead
<1>12. ASSUME ProtectedAction(r)
      PROVE  CoreInv'
  BY <1>12 DEF CoreInv, SessionTypes, RequestsInv, SessionsInv, OpenSessionsAccounted,
     Request, Places, Shape, Purposes, Rest, At, GoTo, ProtectedAction, Save, Usable
<1>13. ASSUME PersonalAction(r)
      PROVE  CoreInv'
  BY <1>13 DEF CoreInv, SessionTypes, RequestsInv, SessionsInv, OpenSessionsAccounted,
     Request, Places, Shape, Purposes, Rest, At, GoTo, PersonalAction, Save, Usable
<1>14. ASSUME Refuse(r)
      PROVE  CoreInv'
  BY <1>14, Finished DEF Refuse
<1>15. QED
  BY <1>1, <1>2, <1>3, <1>4, <1>5, <1>6, <1>7, <1>8, <1>9, <1>10, <1>11, <1>12, <1>13, <1>14 DEF Handle

\* What happens around the requests keeps what is known of sessions.
LEMMA SurroundingsStep ==
  ASSUME CoreInv, Surroundings
  PROVE  CoreInv'
<1>1. ASSUME BootstrapToken
      PROVE  CoreInv'
  BY <1>1 DEF CoreInv, SessionTypes, RequestsInv, SessionsInv, OpenSessionsAccounted,
     Request, Places, Shape, Purposes, Rest, At, GoTo, BootstrapToken
<1>2. ASSUME AttemptAges
      PROVE  CoreInv'
  BY <1>2 DEF CoreInv, SessionTypes, RequestsInv, SessionsInv, OpenSessionsAccounted,
     Request, Places, Shape, Purposes, Rest, At, GoTo, AttemptAges
<1>3. ASSUME SupportChanges
      PROVE  CoreInv'
  BY <1>3 DEF CoreInv, SessionTypes, RequestsInv, SessionsInv, OpenSessionsAccounted,
     Request, Places, Shape, Purposes, Rest, At, GoTo, SupportChanges
<1>4. ASSUME LockoutEnds
      PROVE  CoreInv'
  BY <1>4 DEF CoreInv, SessionTypes, RequestsInv, SessionsInv, OpenSessionsAccounted,
     Request, Places, Shape, Purposes, Rest, At, GoTo, LockoutEnds
<1>5. ASSUME Restart
      PROVE  CoreInv'
  <2>1. Rest \in Request /\ Shape(Rest) /\ ~Rest.own /\ Rest.session = None /\ Rest.at # "key"
    BY DEF Rest, Request, Places, Purposes, Shape
  <2> HIDE DEF Rest
  <2>2. /\ sess' = [s \in Sessions |-> "unused"] /\ current' = {} /\ knows' = {}
        /\ registered' = {} /\ closed' = {} /\ req' = [q \in Requests |-> Rest]
        /\ UNCHANGED files
    BY <1>5 DEF Restart
  <2>3. QED
    BY <2>1, <2>2 DEF CoreInv, SessionTypes, RequestsInv, SessionsInv, OpenSessionsAccounted
<1>6. ASSUME NEW t \in Sessions, Lock(t)
      PROVE  CoreInv'
  BY <1>6, Locks DEF Lock
<1>7. ASSUME NEW t \in Sessions, AutoLock(t)
      PROVE  CoreInv'
  BY <1>7, Locks DEF AutoLock
<1>8. ASSUME NEW t \in Sessions, TurnAway(t)
      PROVE  CoreInv'
  BY <1>8, Locks DEF TurnAway, Reap
<1>9. QED
  BY <1>1, <1>2, <1>3, <1>4, <1>5, <1>6, <1>7, <1>8 DEF Surroundings

\* The keyring, the local file and the limits keep their types.
LEMMA LimitTypesStep ==
  ASSUME CoreInv, LimitTypes, Next
  PROVE  LimitTypes'
<1>1. ASSUME NEW r \in Requests, Handle(r)
      PROVE  LimitTypes'
  <2>1. ASSUME NEW how \in {"setup", "unlock"}, Admit(r, how)
        PROVE  LimitTypes'
    BY <2>1 DEF Admit, LimitTypes
  <2>2. CASE Remember(r)
    BY <2>2 DEF Remember, LimitTypes, Keys
  <2>3. ASSUME UNCHANGED <<keys, limits>>
        PROVE  LimitTypes'
    BY <2>3 DEF LimitTypes
  <2>4. QED
    BY <1>1, <2>1, <2>2, <2>3 DEF Handle, EnterByPassphrase, EntryRefused, Borrow, BeginDevice,
       BeginRead, BeginPassphrase, RegisterOwn, ShowBrowser, ShowRead, ProtectedAction,
       PersonalAction, Save, Refuse
<1>2. ASSUME NEW r \in Requests, Opening(r)
      PROVE  LimitTypes'
  <2>1. ASSUME NEW k \in DeviceKeys, StoreKey(r, k)
        PROVE  LimitTypes'
    BY <2>1 DEF StoreKey, SetDeviceKey, WriteLocalDeviceKey, LimitTypes, Keys
  <2>2. ASSUME UNCHANGED <<keys, limits>>
        PROVE  LimitTypes'
    BY <2>2 DEF LimitTypes
  <2>3. QED
    BY <1>2, <2>1, <2>2 DEF Opening, FirstKey, Look, NothingYet, AgainKey, OpenFails, Peek,
       PeekFails, OpenByKey, MakeVault, PeekOpens
<1>3. ASSUME NEW r \in Requests, Detail(r)
      PROVE  LimitTypes'
  <2>1. CASE RevealCreated(r) \/ CodeAccepted(r)
    <3>1. failures' = 0 /\ lockedOut' = FALSE /\ late' = 0 /\ UNCHANGED <<keys, attempts, bootstraps>>
      BY <2>1 DEF RevealCreated, CodeAccepted, Success
    <3>2. 0 \in 0 .. MaxFailures
      OBVIOUS
    <3>3. QED
      BY <3>1, <3>2 DEF LimitTypes
  <2>2. CASE CodeRefused(r)
    BY <2>2 DEF CodeRefused, UpTo, LimitTypes
  <2>3. ASSUME UNCHANGED <<keys, limits>>
        PROVE  LimitTypes'
    BY <2>3 DEF LimitTypes
  <2>4. QED
    BY <1>3, <2>1, <2>2, <2>3 DEF Detail, CreateCode, RevealByCookie, DetailRefused,
       BeforeAttempt, Verify
<1>4. CASE Surroundings
  <2>1. CASE BootstrapToken \/ AttemptAges
    BY <2>1 DEF BootstrapToken, AttemptAges, LimitTypes
  <2>2. CASE SupportChanges
    BY <2>2 DEF SupportChanges, LimitTypes
  <2>3. CASE LockoutEnds
    BY <2>3 DEF LockoutEnds, LimitTypes
  <2>4. CASE Restart
    <3>1. /\ attempts' = 0 /\ bootstraps' = 0 /\ failures' = 0 /\ lockedOut' = FALSE
          /\ late' = 0 /\ UNCHANGED keys
      BY <2>4 DEF Restart
    <3>2. 0 \in 0 .. MaxAttempts /\ 0 \in 0 .. MaxBootstraps /\ 0 \in 0 .. MaxFailures
      OBVIOUS
    <3>3. QED
      BY <3>1, <3>2 DEF LimitTypes
  <2>5. ASSUME NEW t \in Sessions, Lock(t) \/ AutoLock(t) \/ TurnAway(t)
        PROVE  LimitTypes'
    BY <2>5 DEF Lock, AutoLock, TurnAway, LimitTypes
  <2>6. QED
    BY <1>4, <2>1, <2>2, <2>3, <2>4, <2>5 DEF Surroundings
<1>5. QED
  BY <1>1, <1>2, <1>3, <1>4 DEF Next

\* What is known of sessions, requests and limits holds at the start and is kept.
THEOREM BrowserInductive == Spec => []BrowserInv
<1>1. Init => BrowserInv
  <2>1. Rest \in Request /\ Shape(Rest) /\ ~Rest.own /\ Rest.session = None /\ Rest.at = "idle"
    BY DEF Rest, Request, Places, Shape
  <2> HIDE DEF Rest
  <2>2. ASSUME Init
        PROVE  TypeOK
    <3>1. LimitTypes
      <4>1. 0 \in 0 .. MaxAttempts /\ 0 \in 0 .. MaxBootstraps /\ 0 \in 0 .. MaxFailures
        OBVIOUS
      <4>2. QED
        BY <2>2, <4>1 DEF Init, LimitTypes
    <3>2. SessionTypes
      BY <2>1, <2>2 DEF Init, SessionTypes
    <3>3. QED
      BY <3>1, <3>2 DEF TypeOK, LimitTypes, SessionTypes
  <2>3. ASSUME Init
        PROVE  RequestsInv
    BY <2>1, <2>3 DEF Init, RequestsInv
  <2>4. ASSUME Init
        PROVE  SessionsInv /\ OpenSessionsAccounted
    BY <2>4 DEF Init, SessionsInv, OpenSessionsAccounted
  <2>5. QED
    BY <2>2, <2>3, <2>4 DEF BrowserInv
<1>2. BrowserInv /\ [Next]_vars => BrowserInv'
  <2> SUFFICES ASSUME CoreInv, LimitTypes, [Next]_vars
               PROVE  CoreInv' /\ LimitTypes'
    <3>1. BrowserInv' <=> CoreInv' /\ LimitTypes'
      BY DEF BrowserInv, CoreInv, TypeOK, SessionTypes, LimitTypes
    <3>2. QED
      BY <3>1, InvParts
  <2>1. CASE UNCHANGED vars
    BY <2>1 DEF CoreInv, SessionTypes, RequestsInv, SessionsInv, OpenSessionsAccounted, LimitTypes
  <2>2. CASE Next
    <3>1. CoreInv'
      BY <2>2, OpeningStep, DetailStep, HandleStep, SurroundingsStep DEF Next
    <3>2. QED
      BY <2>2, <3>1, LimitTypesStep
  <2>3. QED
    BY <2>1, <2>2
<1>3. QED
  BY <1>1, <1>2, PTL DEF Spec

-----------------------------------------------------------------------------
(* The lockout *)

\* Fewer requests that check a code make less of the bound, not more.
LEMMA FewerChecking ==
  ASSUME LimitTypes, LockoutHolds, Checking' \subseteq Checking,
         lockedOut' => lockedOut /\ late' = late
  PROVE  LockoutHolds'
<1>1. IsFiniteSet(Checking) /\ Checking \subseteq Requests
  BY ThreadsAssumption, FS_Subset DEF Checking
<1>2. /\ Cardinality(Checking') <= Cardinality(Checking)
      /\ Cardinality(Checking') \in Nat /\ Cardinality(Checking) \in Nat
  BY <1>1, FS_Subset, FS_CardinalityType
<1>3. Cardinality(Requests) \in Nat /\ late \in Nat
  BY ThreadsAssumption, FS_CardinalityType DEF LimitTypes
<1>4. QED
  BY <1>2, <1>3 DEF LockoutHolds

\* A wrong code leaves one request fewer to be recorded; the one that brings the
\* lockout on is not counted, and is not checking any more.
LEMMA RefusedStep ==
  ASSUME LimitTypes, req \in [Requests -> Request], LockoutHolds,
         NEW r \in Requests, CodeRefused(r)
  PROVE  LockoutHolds'
<1>1. r \in Checking /\ Checking' = Checking \ {r}
  BY DEF CodeRefused, At, Finish, Rest, Checking
<1>2. /\ IsFiniteSet(Checking) /\ IsFiniteSet(Requests)
      /\ Checking' \subseteq Requests \ {r}
  BY <1>1, ThreadsAssumption, FS_Subset DEF Checking
<1>3. /\ Cardinality(Checking') = Cardinality(Checking) - 1
      /\ Cardinality(Requests \ {r}) = Cardinality(Requests) - 1
      /\ IsFiniteSet(Requests \ {r})
  BY <1>1, <1>2, FS_RemoveElement
<1>4. Cardinality(Checking') <= Cardinality(Requests \ {r})
  BY <1>2, <1>3, FS_Subset
<1>5. /\ Cardinality(Checking) \in Nat /\ Cardinality(Requests) \in Nat
      /\ late \in Nat
  BY <1>2, FS_CardinalityType DEF LimitTypes
<1>6. CASE lockedOut
  <2>1. late' = late + 1
    BY <1>6 DEF CodeRefused
  <2>2. QED
    BY <1>3, <1>5, <1>6, <2>1 DEF LockoutHolds
<1>7. CASE ~lockedOut
  <2>1. late' = 0
    BY <1>7 DEF CodeRefused
  <2>2. QED
    BY <1>3, <1>4, <1>5, <2>1 DEF LockoutHolds
<1>8. QED
  BY <1>6, <1>7

\* A request that changes place, to one where no code is checked.
Elsewhere(r) ==
  /\ \A q \in Requests \ {r} : req'[q] = req[q]
  /\ req'[r].at \notin {"delay", "right", "wrong"}

\* Such a step brings no request to where a code is checked.
LEMMA ElsewhereChecking ==
  ASSUME NEW r \in Requests, Elsewhere(r)
  PROVE  Checking' \subseteq Checking
BY DEF Elsewhere, Checking

\* Nor does the end of a request.
LEMMA FinishElsewhere ==
  ASSUME req \in [Requests -> Request], NEW r \in Requests, Finish(r)
  PROVE  Elsewhere(r)
BY DEF Finish, Rest, Elsewhere

\* Nor does going on to any other place.
LEMMA GoToElsewhere ==
  ASSUME req \in [Requests -> Request], NEW r \in Requests, NEW place, GoTo(r, place),
         place \notin {"delay", "right", "wrong"}
  PROVE  Elsewhere(r)
BY DEF GoTo, Elsewhere, Request

\* Every other step of a request: only the reading of the lockout lets one through.
LEMMA DetailLockout ==
  ASSUME LimitTypes, req \in [Requests -> Request], LockoutHolds,
         NEW r \in Requests, Detail(r)
  PROVE  LockoutHolds'
<1>1. CASE CodeRefused(r)
  BY <1>1, RefusedStep
<1>2. CASE BeforeAttempt(r)
  BY <1>2 DEF BeforeAttempt, LockoutHolds
<1>3. CASE RevealCreated(r) \/ CodeAccepted(r)
  BY <1>3 DEF RevealCreated, CodeAccepted, Success, LockoutHolds
<1>4. ASSUME CreateCode(r) \/ RevealByCookie(r) \/ DetailRefused(r)
      PROVE  Checking' \subseteq Checking /\ UNCHANGED limits
  BY <1>4, FinishElsewhere, GoToElsewhere, ElsewhereChecking
     DEF CreateCode, RevealByCookie, DetailRefused
<1>5. ASSUME NEW right \in BOOLEAN, NEW stored \in BOOLEAN, Verify(r, right, stored)
      PROVE  Checking' \subseteq Checking /\ UNCHANGED limits
  BY <1>5 DEF Verify, At, GoTo, Checking
<1>6. ASSUME Checking' \subseteq Checking, UNCHANGED limits
      PROVE  LockoutHolds'
  BY <1>6, FewerChecking
<1>7. QED
  BY <1>1, <1>2, <1>3, <1>4, <1>5, <1>6 DEF Detail

\* Opening, saving, reading and locking let no request through.
LEMMA OtherLockout ==
  ASSUME LimitTypes, req \in [Requests -> Request], LockoutHolds, Next,
         \A r \in Requests : ~Detail(r)
  PROVE  LockoutHolds'
<1>1. ASSUME NEW r \in Requests, Handle(r)
      PROVE  Checking' \subseteq Checking /\ UNCHANGED <<lockedOut, late>>
  <2>1. ASSUME NEW how \in {"setup", "unlock"}, Admit(r, how)
        PROVE  UNCHANGED req \/ Elsewhere(r)
    BY <2>1 DEF Admit, Rest, Elsewhere
  <2>2. ASSUME NEW s \in Sessions, NEW remember \in BOOLEAN, EnterByPassphrase(r, s, remember)
        PROVE  Elsewhere(r)
    BY <2>2 DEF EnterByPassphrase, Rest, Elsewhere
  <2>3. ASSUME EntryRefused(r) \/ Remember(r) \/ BeginRead(r) PROVE Elsewhere(r)
    <3>1. CASE EntryRefused(r) \/ Remember(r)
      BY <3>1 DEF EntryRefused, Remember, Rest, Elsewhere
    <3>2. CASE BeginRead(r)
      <4> DEFINE x == [Rest EXCEPT !.at = "look", !.purpose = "read"]
      <4>1. x.at = "look"
        BY DEF Rest
      <4>2. req' = [req EXCEPT ![r] = x]
        BY <3>2 DEF BeginRead
      <4> HIDE DEF x
      <4>3. QED
        BY <4>1, <4>2 DEF Elsewhere
    <3>3. QED
      BY <2>3, <3>1, <3>2
  <2>4. ASSUME NEW t, NEW p, Borrow(r, t, p) \/ BeginDevice(r, t, p)
        PROVE  Elsewhere(r)
    BY <2>4 DEF Borrow, BeginDevice, Rest, Elsewhere
  <2>5. ASSUME NEW s \in Sessions, BeginPassphrase(r, s)
        PROVE  Elsewhere(r)
    BY <2>5 DEF BeginPassphrase, Rest, Elsewhere
  <2>6. ASSUME RegisterOwn(r) PROVE Elsewhere(r)
    BY <2>6 DEF RegisterOwn, At, Elsewhere, Request
  <2>7. ASSUME ShowBrowser(r) \/ ShowRead(r) \/ Refuse(r) PROVE Elsewhere(r)
    BY <2>7, FinishElsewhere DEF ShowBrowser, ShowRead, Refuse
  <2>8. ASSUME ProtectedAction(r) \/ PersonalAction(r) PROVE Elsewhere(r)
    BY <2>8 DEF ProtectedAction, PersonalAction, Save, Rest, Elsewhere
  <2>9. UNCHANGED req \/ Elsewhere(r)
    BY <1>1, <2>1, <2>2, <2>3, <2>4, <2>5, <2>6, <2>7, <2>8 DEF Handle
  <2>10. Checking' \subseteq Checking
    BY <2>9, ElsewhereChecking DEF Checking
  <2>11. UNCHANGED <<lockedOut, late>>
    BY <1>1 DEF Handle, Admit, EnterByPassphrase, EntryRefused, Remember, Borrow, BeginDevice,
       BeginRead, BeginPassphrase, RegisterOwn, ShowBrowser, ShowRead, ProtectedAction,
       PersonalAction, Save, Refuse
  <2>12. QED
    BY <2>10, <2>11
<1>2. ASSUME NEW r \in Requests, Opening(r)
      PROVE  Checking' \subseteq Checking /\ UNCHANGED <<lockedOut, late>>
  <2>1. ASSUME FirstKey(r) \/ Look(r) \/ AgainKey(r) PROVE Elsewhere(r)
    BY <2>1 DEF FirstKey, Look, AgainKey, Elsewhere, Request
  <2>2. ASSUME NothingYet(r) PROVE Elsewhere(r)
    BY <2>2, GoToElsewhere DEF NothingYet
  <2>3. ASSUME OpenFails(r) \/ PeekFails(r) PROVE Elsewhere(r)
    BY <2>3, FinishElsewhere DEF OpenFails, PeekFails, Rest, Elsewhere
  <2>4. ASSUME Peek(r) PROVE Elsewhere(r)
    BY <2>4 DEF Peek, Rest, Elsewhere
  <2>5. ASSUME NEW k \in DeviceKeys, StoreKey(r, k)
        PROVE  Elsewhere(r)
    BY <2>5 DEF StoreKey, Elsewhere, Request
  <2>6. ASSUME NEW s \in Sessions, OpenByKey(r, s) \/ MakeVault(r, s)
        PROVE  Elsewhere(r)
    <3>1. Own(r, s)
      BY <2>6 DEF OpenByKey, MakeVault
    <3>2. QED
      BY <3>1 DEF Own, Elsewhere, Request
  <2>7. ASSUME NEW s \in Sessions, PeekOpens(r, s)
        PROVE  Elsewhere(r)
    BY <2>7 DEF PeekOpens, Elsewhere, Request
  <2>8. Checking' \subseteq Checking
    BY <1>2, <2>1, <2>2, <2>3, <2>4, <2>5, <2>6, <2>7, ElsewhereChecking DEF Opening
  <2>9. UNCHANGED <<lockedOut, late>>
    BY <1>2 DEF Opening, FirstKey, Look, NothingYet, AgainKey, OpenFails, Peek, PeekFails,
       StoreKey, OpenByKey, MakeVault, PeekOpens
  <2>10. QED
    BY <2>8, <2>9
<1>3. CASE LockoutEnds \/ Restart
  BY <1>3 DEF LockoutEnds, Restart, LockoutHolds
<1>4. ASSUME \/ BootstrapToken \/ AttemptAges \/ SupportChanges
             \/ \E t \in Sessions : Lock(t) \/ AutoLock(t) \/ TurnAway(t)
      PROVE  UNCHANGED <<req, lockedOut, late>>
  BY <1>4 DEF BootstrapToken, AttemptAges, SupportChanges, Lock, AutoLock, TurnAway
<1>5. ASSUME Checking' \subseteq Checking, UNCHANGED <<lockedOut, late>>
      PROVE  LockoutHolds'
  BY <1>5, FewerChecking
<1>6. ASSUME UNCHANGED <<req, lockedOut, late>>
      PROVE  LockoutHolds'
  BY <1>6, <1>5 DEF Checking
<1>7. QED
  BY <1>1, <1>2, <1>3, <1>4, <1>5, <1>6 DEF Next, Surroundings

\* However many requests try codes at once: once the limit of wrong codes is
\* reached, each request that was past the reading has one more, and no request
\* gets another before the lockout is over.
THEOREM LockoutKept == Spec => []LockoutHolds
<1>1. Init => LockoutHolds
  BY DEF Init, LockoutHolds
<1>2. BrowserInv /\ LockoutHolds /\ [Next]_vars => LockoutHolds'
  <2> SUFFICES ASSUME BrowserInv, LockoutHolds, [Next]_vars
               PROVE  LockoutHolds'
    OBVIOUS
  <2>1. LimitTypes /\ req \in [Requests -> Request]
    BY DEF BrowserInv, TypeOK, LimitTypes
  <2>2. CASE UNCHANGED vars
    BY <2>1, <2>2, FewerChecking DEF Checking
  <2>3. CASE Next
    BY <2>1, <2>3, DetailLockout, OtherLockout
  <2>4. QED
    BY <2>2, <2>3
<1>3. QED
  BY <1>1, <1>2, BrowserInductive, PTL DEF Spec

-----------------------------------------------------------------------------
(* What the runs check *)

\* Everything the handlers share keeps its type.
THEOREM TypesKept == Spec => []TypeOK
<1>1. BrowserInv => TypeOK
  BY DEF BrowserInv
<1>2. QED
  BY <1>1, BrowserInductive, PTL

\* No handler leaves an open session, and the vault's key with it, behind: the
\* manager has it or a request that locks it.
THEOREM SessionsAccounted == Spec => []OpenSessionsAccounted
<1>1. BrowserInv => OpenSessionsAccounted
  BY DEF BrowserInv
<1>2. QED
  BY <1>1, BrowserInductive, PTL

\* A request that borrowed a session does nothing with it once the manager
\* locked it, whichever step of the request comes next.
THEOREM LockedIsOver == Spec => AfterLockNothing
<1>1. ASSUME BrowserInv, NEW r \in Requests,
             \/ ShowBrowser(r) \/ ProtectedAction(r) \/ PersonalAction(r)
             \/ RevealCreated(r) \/ RevealByCookie(r) \/ CreateCode(r)
      PROVE  req[r].session \notin closed
  <2>1. sess[req[r].session] = "open"
    BY <1>1 DEF ShowBrowser, ProtectedAction, PersonalAction, Save, RevealCreated,
       RevealByCookie, CreateCode, Usable
  <2>2. QED
    BY <1>1, <2>1 DEF BrowserInv, SessionsInv
<1>2. BrowserInv =>
        [\A r \in Requests :
           (\/ ShowBrowser(r) \/ ProtectedAction(r) \/ PersonalAction(r)
            \/ RevealCreated(r) \/ RevealByCookie(r) \/ CreateCode(r))
             => req[r].session \notin closed]_vars
  BY <1>1
<1>3. QED
  BY <1>2, BrowserInductive, PTL DEF AfterLockNothing

\* Of setups, first reads and first codes that race, one writes: the vault and
\* its code for card details are there once and stay.
THEOREM WrittenOnce == Spec => CreatedOnce
<1>1. ASSUME BrowserInv, Next
      PROVE  /\ vault # None => vault' = vault
             /\ code # None => code' = code
  <2>1. ASSUME NEW r \in Requests, Handle(r)
        PROVE  \/ vault = None
               \/ UNCHANGED files
    BY <2>1 DEF Handle, Admit, EnterByPassphrase, CreateVault, EntryRefused, Remember, Borrow,
       BeginDevice, BeginRead, BeginPassphrase, RegisterOwn, ShowBrowser, ShowRead,
       ProtectedAction, PersonalAction, Save, Refuse
  <2>2. ASSUME NEW r \in Requests, Opening(r)
        PROVE  \/ vault = None
               \/ UNCHANGED files
    BY <2>2 DEF Opening, FirstKey, Look, NothingYet, AgainKey, OpenFails, Peek, PeekFails,
       StoreKey, OpenByKey, MakeVault, CreateVault, PeekOpens
  <2>3. ASSUME NEW r \in Requests, Detail(r)
        PROVE  \/ code = None /\ vault' = vault
               \/ UNCHANGED files
    <3>1. CASE CreateCode(r)
      BY <1>1, <3>1 DEF CreateCode, BrowserInv, SessionsInv
    <3>2. CASE ~CreateCode(r)
      BY <2>3, <3>2 DEF Detail, RevealCreated, RevealByCookie, DetailRefused, BeforeAttempt,
         CodeAccepted, CodeRefused, Success, Verify
    <3>3. QED
      BY <3>1, <3>2
  <2>4. CASE Surroundings
    BY <2>4 DEF Surroundings, BootstrapToken, AttemptAges, SupportChanges, LockoutEnds, Restart,
       Lock, AutoLock, TurnAway
  <2>5. vault = None => code = None
    BY <1>1 DEF BrowserInv, SessionsInv
  <2>6. QED
    BY <1>1, <2>1, <2>2, <2>3, <2>4, <2>5 DEF Next
<1>2. BrowserInv => [Next => /\ vault # None => vault' = vault
                             /\ code # None => code' = code]_vars
  BY <1>1
<1>3. QED
  BY <1>2, BrowserInductive, PTL DEF Spec, CreatedOnce

=============================================================================
