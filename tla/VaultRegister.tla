--------------------------- MODULE VaultRegister ---------------------------
(***************************************************************************)
(* What the encrypted vault promises to whoever calls it, without files,   *)
(* locks or sessions: a register holding a set of mutations.  A call either *)
(* is acknowledged (the mutation is stored and stays stored), is rejected   *)
(* (the mutation is not stored and never will be), or ends without an       *)
(* answer the caller can rely on.  VaultPersistence implements this.        *)
(***************************************************************************)

CONSTANT Mutations    \* identities of the mutating calls ever made

VARIABLES stored,     \* the mutations the stored vault contains
          status      \* what became of each call

vars == <<stored, status>>

Outcomes == {"unused", "pending", "acked", "rejected", "failed", "uncertain"}

TypeOK ==
  /\ stored \in SUBSET Mutations
  /\ status \in [Mutations -> Outcomes]

Init ==
  /\ stored = {}
  /\ status = [m \in Mutations |-> "unused"]

Start(m) ==
  /\ status[m] = "unused"
  /\ status' = [status EXCEPT ![m] = "pending"]
  /\ UNCHANGED stored

\* The stored vault may take a pending mutation in ...
Apply(m) ==
  /\ status[m] = "pending"
  /\ m \notin stored
  /\ stored' = stored \cup {m}
  /\ UNCHANGED status

\* ... and give it back, as long as nobody was told about it.
Withdraw(m) ==
  /\ status[m] = "pending"
  /\ m \in stored
  /\ stored' = stored \ {m}
  /\ UNCHANGED status

Acknowledge(m) ==
  /\ status[m] = "pending"
  /\ m \in stored
  /\ status' = [status EXCEPT ![m] = "acked"]
  /\ UNCHANGED stored

Reject(m) ==
  /\ status[m] = "pending"
  /\ m \notin stored
  /\ status' = [status EXCEPT ![m] = "rejected"]
  /\ UNCHANGED stored

\* The call raises after it touched the file ("failed") or its process dies.
Abandon(m) ==
  /\ status[m] = "pending"
  /\ \E outcome \in {"failed", "uncertain"} :
       status' = [status EXCEPT ![m] = outcome]
  /\ UNCHANGED stored

Next ==
  \E m \in Mutations :
    \/ Start(m)
    \/ Apply(m)
    \/ Withdraw(m)
    \/ Acknowledge(m)
    \/ Reject(m)
    \/ Abandon(m)

Spec == Init /\ [][Next]_vars

-----------------------------------------------------------------------------
(* A mutation the caller was told is saved is in the stored vault, whatever *)
(* other sessions, failed audits and crashes did since.                     *)
AckedStaysStored == \A m \in Mutations : status[m] = "acked" => m \in stored

(* A mutation the caller was told is not saved is not in the stored vault.  *)
RejectedStaysOut == \A m \in Mutations : status[m] = "rejected" => m \notin stored
=============================================================================
