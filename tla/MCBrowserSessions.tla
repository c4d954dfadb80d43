-------------------------- MODULE MCBrowserSessions --------------------------
(* An instance of BrowserSessions in three scenes: opening and creating,      *)
(* everything about card details, and the limit on setups and unlocks.       *)
EXTENDS BrowserSessions, TLC

CONSTANTS r1, r2, s1, s2, k1, k2

MCSymmetry == Permutations({r1, r2}) \cup Permutations({s1, s2}) \cup Permutations({k1, k2})

\* No code yet, and at most one setup or unlock prepared or just attempted.
OpeningScene ==
  /\ code = None /\ failures = 0
  /\ attempts + bootstraps <= 1

\* Sessions are open; the keyring works and only lists and reveals are made.
DetailScene ==
  /\ attempts = 0 /\ bootstraps = 0
  /\ support = "up" /\ fallback = None /\ keyring = vault
  /\ \A r \in Requests : req[r].at = "have" => req[r].purpose \in {"list", "private"}
  /\ \A r \in Requests : req[r].at \in {"idle", "have", "detail", "created", "delay",
                                        "right", "wrong"}

\* Setups and unlocks meet their limit.
LimitScene ==
  /\ vault = None /\ keyring = None /\ fallback = None
  /\ \A r \in Requests : req[r].at \in {"idle", "body"}

MCConstraint == OpeningScene \/ DetailScene \/ LimitScene

=============================================================================
