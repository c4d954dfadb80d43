------------------------------- MODULE AuditLog -------------------------------
(***************************************************************************)
(* The audit log (vault/protected.py, AuditLog): an action runs inside a      *)
(* transaction that appends its event first and takes it back when the action *)
(* fails; a purge drops what is past its retention and then records itself.   *)
(* Every access holds the lock of the file, which dies with its holder.       *)
(*                                                                          *)
(* An event has the id of its action, what the action is (with its record     *)
(* and success) and the time read before the lock was waited for.  An absent  *)
(* file is an empty log.                                                    *)
(***************************************************************************)
EXTENDS Integers, Sequences, SequencesExt

CONSTANTS
  Actors,         \* threads and processes that use the log
  Kinds,          \* actions that callers record
  CallerIds,      \* bound of the event ids callers retry with
  MaxPurges,      \* bound of the purges that drop an event
  Retention,      \* days an event is kept
  LastAuditDay,   \* bound of the days that pass
  LogCapacity,    \* events the file holds
  NoActor

ASSUME AuditBounds ==
  CallerIds \in Nat /\ MaxPurges \in Nat /\ Retention \in Nat \ {0}
  /\ LastAuditDay \in Nat /\ LogCapacity \in Nat
ASSUME AuditActors == NoActor \notin Actors

VARIABLES
  log,       \* the events in the file, in order; Torn is one cut short
  unended,   \* whether the last line has no newline
  glued,     \* ids of the events that share a line with another
  logLock,   \* who holds the lock of the file
  actor,     \* what everyone is at
  auditDay,
  purges,    \* purges that dropped an event
  effects,   \* history: [id, kind] of the actions done
  answered,  \* history: [id, kind] of the transactions that returned
  dropped,   \* history: events purged
  cut        \* history: ids that a crash or a failed rollback left behind

logFile == <<log, unended, glued>>
auditHistory == <<effects, answered, dropped, cut>>
auditVars == <<logFile, logLock, actor, auditDay, purges, auditHistory>>

AuditIds == 1 .. CallerIds + MaxPurges
AuditKinds == Kinds \cup {"purge"}
AuditDays == 0 .. LastAuditDay
AuditEvents == [id : AuditIds, kind : AuditKinds, at : AuditDays]
Torn == [id |-> 0, kind |-> "torn", at |-> 0]
\* The file as it was when one got the lock: its events, and whether it was unended.
Resting == [at |-> "idle", event |-> Torn, previous |-> <<>>, open |-> FALSE]

AuditTypeOK ==
  /\ log \in Seq(AuditEvents \cup {Torn}) /\ Len(log) <= LogCapacity
  /\ unended \in BOOLEAN /\ glued \subseteq AuditIds \cup {Torn.id}
  /\ logLock \in Actors \cup {NoActor}
  /\ \A p \in Actors :
       /\ actor[p].at \in {"idle", "waiting", "open", "done", "failed", "purging"}
       /\ actor[p].event \in [id : AuditIds \cup {0}, kind : AuditKinds \cup {"torn"}, at : AuditDays]
       /\ actor[p].previous \in Seq(AuditEvents \cup {Torn}) /\ actor[p].open \in BOOLEAN
  /\ auditDay \in AuditDays /\ purges \in 0 .. MaxPurges
  /\ effects \cup answered \subseteq [id : AuditIds, kind : AuditKinds]
  /\ dropped \subseteq AuditEvents /\ cut \subseteq AuditIds

AuditInit ==
  /\ log = <<>> /\ unended = FALSE /\ glued = {} /\ logLock = NoActor
  /\ actor = [p \in Actors |-> Resting]
  /\ auditDay = 0 /\ purges = 0
  /\ effects = {} /\ answered = {} /\ dropped = {} /\ cut = {}

Deed(event) == [id |-> event.id, kind |-> event.kind]

\* Every line is one event: neither a part of one nor two.
Readable == Torn \notin ToSet(log) /\ glued = {}

\* None or one event: the first with the id on a line of its own.
ExistingEvent(l, id) ==
  LET found == {i \in DOMAIN l : l[i].id = id /\ id \notin glued}
  IN {l[i] : i \in {j \in found : \A k \in found : j <= k}}
HasEvent(id, kind) == \E e \in ExistingEvent(log, id) : e.kind = kind

-----------------------------------------------------------------------------
(* A transaction *)

AuditDayPasses ==
  /\ auditDay < LastAuditDay
  /\ auditDay' = auditDay + 1
  /\ UNCHANGED <<logFile, logLock, actor, purges, auditHistory>>

\* The event is made, and its time read, before the lock is had.
BeginAction(p, id, kind) ==
  /\ actor[p].at = "idle"
  /\ actor' = [actor EXCEPT ![p] =
       [Resting EXCEPT !.at = "waiting", !.event = [id |-> id, kind |-> kind, at |-> auditDay]]]
  /\ UNCHANGED <<logFile, logLock, auditDay, purges, auditHistory>>

Gets(p, at) ==
  /\ actor[p].at = "waiting" /\ logLock = NoActor
  /\ logLock' = p
  /\ actor' = [actor EXCEPT ![p].at = at, ![p].previous = log, ![p].open = unended]
  /\ UNCHANGED <<auditDay, purges, auditHistory>>

Replayed(event) == \E e \in ExistingEvent(log, event.id) : Deed(e) = Deed(event)
Appendable(event) ==
  ExistingEvent(log, event.id) = {} /\ Readable /\ Len(log) < LogCapacity

\* An attempt whose event is in the log runs again without another event: the
\* lines are parsed up to it.
ReplayAction(p) ==
  /\ Replayed(actor[p].event)
  /\ Gets(p, "open")
  /\ UNCHANGED logFile

\* What is appended to a line without its end shares that line.
Written(event) ==
  /\ log' = Append(log, event)
  /\ glued' = IF unended THEN {Last(log).id, event.id} ELSE glued

AppendAction(p) ==
  /\ Appendable(actor[p].event)
  /\ Gets(p, "open")
  /\ Written(actor[p].event) /\ unended' = FALSE

\* The append fails with part of the line written: of the event, or all of it
\* and not the newline.
TearAction(p, whole) ==
  /\ Appendable(actor[p].event)
  /\ Gets(p, "failed")
  /\ Written(IF whole THEN actor[p].event ELSE Torn) /\ unended' = TRUE

\* Not a log, another action under this id, or no room: nothing is changed.
RefuseAction(p) ==
  /\ actor[p].at = "waiting" /\ logLock = NoActor
  /\ ~Replayed(actor[p].event) /\ ~Appendable(actor[p].event)
  /\ actor' = [actor EXCEPT ![p] = Resting]
  /\ UNCHANGED <<logFile, logLock, auditDay, purges, auditHistory>>

\* The body of the transaction; a purge has nothing left to do in its own.
Act(p) ==
  /\ actor[p].at = "open"
  /\ effects' = effects \cup {Deed(actor[p].event)}
  /\ actor' = [actor EXCEPT ![p].at = "done"]
  /\ UNCHANGED <<logFile, logLock, auditDay, purges, answered, dropped, cut>>

ActFails(p) ==
  /\ actor[p].at = "open" /\ actor[p].event.kind # "purge"
  /\ actor' = [actor EXCEPT ![p].at = "failed"]
  /\ UNCHANGED <<logFile, logLock, auditDay, purges, auditHistory>>

LetGo(p) == logLock' = NoActor /\ actor' = [actor EXCEPT ![p] = Resting]

Answer(p) ==
  /\ actor[p].at = "done"
  /\ answered' = answered \cup {Deed(actor[p].event)}
  /\ LetGo(p)
  /\ UNCHANGED <<logFile, auditDay, purges, effects, dropped, cut>>

\* Variant: a failed action keeps its event.
KeepEvent(p) ==
  /\ actor[p].at = "failed"
  /\ LetGo(p)
  /\ UNCHANGED <<logFile, auditDay, purges, auditHistory>>

\* The bytes before the append, by way of a file of their own.
TakeBack(p) ==
  /\ actor[p].at = "failed"
  /\ log' = actor[p].previous /\ unended' = actor[p].open
  /\ glued' = IF log' = log THEN glued ELSE {}
  /\ LetGo(p)
  /\ UNCHANGED <<auditDay, purges, auditHistory>>

\* "audit log unavailable"; or the process dies where it stands.
LeftBehind(p) ==
  /\ actor[p].at # "idle"
  /\ cut' = IF logLock = p THEN cut \cup {actor[p].event.id} ELSE cut
  /\ logLock' = IF logLock = p THEN NoActor ELSE logLock
  /\ actor' = [actor EXCEPT ![p] = Resting]
  /\ UNCHANGED <<logFile, auditDay, purges, effects, answered, dropped>>

-----------------------------------------------------------------------------
(* The purge *)

\* The authorizer agrees; the day is read before the lock is had.
BeginPurge(p) ==
  /\ actor[p].at = "idle" /\ purges < MaxPurges
  /\ actor' = [actor EXCEPT ![p] = [Resting EXCEPT !.at = "purging", !.event.at = auditDay]]
  /\ UNCHANGED <<logFile, logLock, auditDay, purges, auditHistory>>

Expired(event, now) == event.at < now - Retention

\* The events of l that are not gone, in their order.
Remaining(l, gone) ==
  LET upTo[i \in 0 .. Len(l)] ==
        IF i = 0 THEN <<>>
        ELSE IF l[i] \in gone THEN upTo[i - 1] ELSE Append(upTo[i - 1], l[i])
  IN upTo[Len(l)]

\* The event of the purge is a transaction of its own, after the lock was let go.
PurgeLog(p) ==
  LET gone == {e \in ToSet(log) : Expired(e, actor[p].event.at)}
  IN /\ actor[p].at = "purging" /\ logLock = NoActor /\ Readable
     /\ log' = Remaining(log, gone) /\ unended' = FALSE
     /\ dropped' = dropped \cup gone
     /\ IF gone = {} THEN actor' = [actor EXCEPT ![p] = Resting] /\ UNCHANGED purges
        ELSE /\ purges < MaxPurges /\ purges' = purges + 1
             /\ actor' = [actor EXCEPT ![p] =
                  [Resting EXCEPT !.at = "waiting",
                     !.event = [id |-> CallerIds + purges', kind |-> "purge", at |-> auditDay]]]
     /\ UNCHANGED <<glued, logLock, auditDay, effects, answered, cut>>

PurgeRefused(p) ==
  /\ actor[p].at = "purging" /\ logLock = NoActor /\ ~Readable
  /\ actor' = [actor EXCEPT ![p] = Resting]
  /\ UNCHANGED <<logFile, logLock, auditDay, purges, auditHistory>>

-----------------------------------------------------------------------------
AuditNext ==
  \/ AuditDayPasses
  \/ \E p \in Actors :
       \/ \E id \in 1 .. CallerIds, kind \in Kinds : BeginAction(p, id, kind)
       \/ ReplayAction(p) \/ AppendAction(p) \/ RefuseAction(p)
       \/ \E whole \in BOOLEAN : TearAction(p, whole)
       \/ Act(p) \/ ActFails(p) \/ Answer(p) \/ TakeBack(p) \/ LeftBehind(p)
       \/ BeginPurge(p) \/ PurgeLog(p) \/ PurgeRefused(p)

AuditSpec == AuditInit /\ [][AuditNext]_auditVars

-----------------------------------------------------------------------------
(* Properties *)

Underway(id) == \E p \in Actors : actor[p].at # "idle" /\ actor[p].event.id = id

\* Through retries, failures and crashes an id names one action and one event.
\* What was answered can be found in the log until it is old enough to be
\* dropped, unless it shares a line with an event that was left without its
\* newline; what is in the log was done, is being done, or was left by a crash
\* or a rollback that failed, and only those make a log that no one can read.
AuditTrail ==
  /\ \A i, j \in DOMAIN log : i # j => log[i].id # log[j].id
  /\ \A a \in answered : HasEvent(a.id, a.kind) \/ a.id \in glued \/ \E e \in dropped : Deed(e) = a
  /\ \A e \in ToSet(log) \ {Torn} : Deed(e) \in effects \/ Underway(e.id) \/ e.id \in cut
  /\ \A e \in dropped : Expired(e, auditDay)
  /\ Readable \/ logLock # NoActor \/ cut # {}
  /\ glued # {} => glued \cap cut # {}

=============================================================================
