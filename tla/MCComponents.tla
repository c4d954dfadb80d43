---------------------------- MODULE MCComponents ----------------------------
(* Small instances of the components that share no state with each other.  A  *)
(* behaviour is one of the component in focus; the others stand still, so the *)
(* states add up.                                                             *)
EXTENDS SessionGrants, PrivateImport, Migration, CatalogIndex, DiscoveryCursors,
        RouteValue, EvidenceGraph, CatalogRules, AllowancePeriods, AuditLog,
        BackupRestore, AttachmentFiles, TLC

CONSTANT Focuses  \* the components to look at
VARIABLE focus

-----------------------------------------------------------------------------
(* PrivateImport: two runs, two contents of the sources *)

CONSTANTS p1, p2, l1, o1, n1, n2

Observed(p, o, n) == [pan |-> p, lifecycle |-> l1, offering |-> o, note |-> n]
\* One names a card; the other knows its note only, and names a second card.
MCContents == {{Observed(p1, o1, Unsaid)},
               {Observed(p1, Unsaid, n1), Observed(p2, o1, Unsaid)}}
\* One card may be added by hand, with the first number and a note of its own
\* or none; a run that reads the sources for an approved plan has the plan of
\* its own revision or the one of the journal.
FewImports ==
  /\ \A c, d \in byHand : c = d /\ cards[c].pan = p1 /\ cards[c].note # n1
  /\ \A p \in Runs : importer[p].at = "parsed" =>
       \/ importer[p].approved \in PendingPlan
       \/ /\ importer[p].approved = [src |-> importer[p].src, rev |-> importer[p].rev]
          /\ importer[p].action = "consolidate_apply"

-----------------------------------------------------------------------------
(* DiscoveryCursors: three rules, a release without the last *)

CONSTANTS r1, r2, r3

MCRules == <<r1, r2, r3>>
MCCatalogs == {{r1, r2, r3}, {r1, r2}}
MCHoldings == {{r2, r3}}
\* Two of: a release, a change of the cards, and up to two searches.
FewReleases == catalog.rev + owned.rev + searches <= 2

-----------------------------------------------------------------------------
(* RouteValue: ten components, values that are and are not whole units *)

CONSTANTS g1, g2

Part(r, class, group, least, most, cap, allowance) ==
  [rule |-> r, class |-> class, group |-> group, min |-> least, max |-> most,
   cap |-> cap, allowance |-> allowance, with |-> BenefitRules \ {r}, age |-> 1,
   limited |-> FALSE, left |-> Uncapped, reviewed |-> TRUE]
MCParts ==
  {Part(1, "guaranteed", Uncapped, 20, 20, Uncapped, Uncapped),
   Part(2, "guaranteed", g1, 10, 10, 20, Uncapped),
   Part(3, "guaranteed", g1, 20, 20, 20, Uncapped),
   Part(4, "estimated", g1, 5, 20, 20, Uncapped),
   Part(5, "guaranteed", g2, 25, 25, 15, Uncapped),
   Part(6, "estimated", g2, 10, 30, 15, 10),
   Part(7, "estimated", Uncapped, 10, 25, 25, 15),
   Part(8, "guaranteed", Uncapped, 10, 10, Uncapped, 5),
   [Part(9, "guaranteed", g1, 10, 10, 20, Uncapped) EXCEPT !.limited = TRUE, !.age = 2],
   [Part(9, "estimated", Uncapped, 10, 10, 20, Uncapped) EXCEPT !.with = {1}, !.left = 0]}

-----------------------------------------------------------------------------
(* EvidenceGraph: one rule with two assertions about one span *)

MCEditions == {<<1, "h1">>, <<2, "h2">>}
Assertion(version, review) ==
  [rule |-> "r", document |-> "d", version |-> version, observation |-> "o",
   spans |-> {"s"}, cites |-> [f \in {"offer"} |-> {"s"}], review |-> review]
MCGraphs ==
  {[rules |-> [r \in {"r"} |->
      [version |-> 1, content |-> "terms", fields |-> {"offer", "title"},
       cites |-> [f \in {"offer"} |-> {"s"}], window |-> {1, 2}]],
    derivations |-> {[rule |-> "r", field |-> "title", value |-> "terms", inputs |-> {"s"}]},
    admissions |-> [n \in {"n"} |-> [origin |-> "url", state |-> state, window |-> window]],
    documents |-> [d \in {"d"} |-> [admission |-> "n", origin |-> "url", edition |-> e1,
                                    tier |-> tier, window |-> {1, 2}]],
    observations |-> [o \in {"o"} |-> [document |-> "d", edition |-> e2, result |-> result]],
    spans |-> [s \in {"s"} |-> [observation |-> "o", document |-> "d", edition |-> e3]],
    assertions |-> ("a" :> Assertion(v, "approved")) @@ ("b" :> Assertion(v, review)),
    candidates |-> [c \in {"c"} |->
      [rule |-> "r", payload |-> "terms", assertions |-> cited, document |-> document,
       version |-> e2[1], at |-> 1]],
    reviews |-> {[target |-> "c", decision |-> decision, at |-> 1],
                 [target |-> "c", decision |-> "approve", at |-> later]},
    states |-> {[target |-> "r", state |-> "active", window |-> active]}] :
   e1 \in MCEditions, e2 \in MCEditions, e3 \in MCEditions, v \in {1, 2}, tier \in {1, 6},
   window \in {{1, 2}, {1}}, state \in {"approved", "candidate", "revoked"},
   result \in {"matched", "ambiguous"}, review \in {"approved", "needs_review"},
   cited \in {{"a"}, {"a", "b"}}, document \in {"d", NoDocument},
   decision \in {"approve", "reject"}, later \in {1, 2}, active \in {{1, 2}, {2}}}

-----------------------------------------------------------------------------
(* CatalogRules: three rules in every shape; renames among four offerings *)

Evidence(discovery, personalized, confident, review, decisions) ==
  [discovery |-> discovery, personalized |-> personalized, confident |-> confident,
   review |-> review, decisions |-> decisions, retrieved |-> 1, reviewed |-> 2]
Good == Evidence(FALSE, FALSE, TRUE, "approved", {"approved"})
MCEvidence ==
  {{Good}, {Good, Evidence(FALSE, FALSE, TRUE, "rejected", {"rejected"})},
   {Evidence(FALSE, FALSE, FALSE, "approved", {"approved"})},
   {Evidence(FALSE, TRUE, TRUE, "approved", {"approved"})},
   {Evidence(FALSE, FALSE, TRUE, "needs_review", {})},
   {[Good EXCEPT !.reviewed = 4]}}
Plain(offering, version) ==
  [shape |-> "legacy", state |-> NoValue, status |-> "active", offering |-> offering,
   type |-> "lounge", version |-> version, supersedes |-> NoValue, conflicts |-> {},
   evidence |-> {Good}, window |-> CatalogDays, inheritance |-> NoValue]
Shapes ==
  ({<<"legacy", NoValue>>} \X {"active", "needs_review", "superseded"})
  \cup ({<<"rescued", "verified">>, <<"rescued", "sources_differ">>} \X {"active", "needs_review"})
  \cup ({<<"retained", "verified">>, <<"retained", "check_before_use">>} \X {"active", "superseded"})
Offering(market, window, owner) == [market |-> market, window |-> window, owner |-> owner]
Inherited == [source |-> "c", sourceOffering |-> "x2", targetOffering |-> "x1",
              sourceOwner |-> "n2", targetOwner |-> "n1", approved |-> TRUE, window |-> {2}]
MCRuleTrees ==
  {[offerings |-> ("x1" :> Offering("IN", CatalogDays, "n1"))
                  @@ ("x2" :> Offering(second[1], second[2], "n2")),
    relations |-> <<>>, markets |-> {"IN"}, released |-> 3,
    rules |->
      ("a" :> [Plain("x1", 2) EXCEPT !.shape = shape[1][1], !.state = shape[1][2],
                 !.status = shape[2], !.supersedes = prior, !.conflicts = conflict[1],
                 !.evidence = evidence, !.inheritance = inheritance])
      @@ ("b" :> [Plain("x1", 1) EXCEPT !.status = "superseded"])
      @@ ("c" :> [Plain("x2", 1) EXCEPT !.conflicts = conflict[2], !.window = window])] :
    second \in {<<"IN", CatalogDays>>, <<"IN", {1}>>, <<"US", CatalogDays>>},
    shape \in Shapes, prior \in {NoValue, "b"}, evidence \in MCEvidence,
    conflict \in {<<{}, {}>>, <<{"c"}, {"a"}>>, <<{"c"}, {}>>},
    inheritance \in {NoValue, Inherited}, window \in {CatalogDays, {2}}}

MCOfferings == {"x1", "x2", "x3", "x4"}
Pairs(N) == {p \in N \X N : p[1] # p[2]}
\* All graphs of at most three renames, and all on three of the offerings.
Renames == UNION {kSubset(k, Pairs(MCOfferings)) : k \in 0 .. 3}
           \cup SUBSET Pairs(MCOfferings \ {"x4"})
\* The first is of another kind.
Relations(E, kind) ==
  LET s == SetToSeq(E)
  IN [i \in DOMAIN s |-> [from |-> s[i][1], to |-> s[i][2], approved |-> TRUE,
                          kind |-> IF i = 1 THEN kind ELSE "renamed", evidence |-> {Good}]]
MCLineageTrees ==
  {[offerings |-> [x \in MCOfferings |-> Offering("IN", CatalogDays, "n1")],
    rules |-> [i \in {} |-> Plain("x1", 1)], markets |-> {"IN"}, released |-> 3,
    relations |-> Relations(E, kind)] : E \in Renames, kind \in {"cloned", "legacy"}}
MCRawCatalogs == MCRuleTrees \cup MCLineageTrees

-----------------------------------------------------------------------------
(* AllowancePeriods: a leap year between two others *)

MCAnniversaries == {<<2, 29>>, <<1, 1>>, <<12, 31>>, <<4, 31>>}

-----------------------------------------------------------------------------
(* AuditLog: one edits and purges; the other retries that edit, uses its id for *)
(* another kind of action, or edits under an id of its own                     *)

CONSTANTS q1, q2

FewActions ==
  /\ actor[q1].event.id = 1 => actor[q1].event.kind = "edit"
  /\ actor[q1].event.id # 2 /\ actor[q2].at # "purging"
  /\ actor[q2].event.id = 2 => actor[q2].event.kind = "edit"
  /\ Cardinality(effects) + Cardinality(cut) <= 2

-----------------------------------------------------------------------------
(* BackupRestore: either backups or an export; three of the others' steps *)

FewSaves ==
  /\ export = NoBytes \/ made = 0
  /\ saves + touches + made <= 3

-----------------------------------------------------------------------------

SomeContents == CHOOSE s \in Contents : TRUE

MCInit ==
  /\ focus \in Focuses
  /\ IF focus = "grants" THEN GrantsInit
     ELSE /\ disk = [rev |-> 0, attempts |-> Nothing, cards |-> Nothing, events |-> 0]
          /\ snap = disk /\ unlocked = FALSE
          /\ contracts = Nothing /\ permits = Nothing
          /\ reply = NoGrant /\ drawn = {} /\ applied = {}
  /\ IF focus = "import" THEN ImportInit
     ELSE /\ sources = SomeContents /\ vaultRev = 0 /\ cards = Nothing
          /\ journal = Unsaid /\ importer = [p \in Runs |-> IdleRun]
          /\ lockedBy = Unsaid /\ byHand = {} /\ written = {}
  /\ MigrationInit
  /\ IndexInit
  /\ IF focus = "discovery" THEN DiscoveryInit
     ELSE /\ catalog = NoRequest /\ owned = NoRequest
          /\ cursors = <<>> /\ request = NoRequest
          /\ tokens = 0 /\ searches = 0 /\ pages = <<>>
  /\ IF focus = "route" THEN RouteInit
     ELSE /\ route = <<>> /\ amount = 0 /\ valued = <<>>
          /\ leftClass = Nothing /\ leftGroup = Nothing
  /\ IF focus = "evidence" THEN EvidenceInit
     ELSE /\ graph = [rules |-> Nothing, candidates |-> Nothing]
          /\ today = 1 /\ asked = NoDocument
  /\ IF focus = "loading" THEN RulesInit
     ELSE /\ tree = NoValue /\ loading = "parse" /\ color = Nothing /\ stack = <<>>
  /\ IF focus = "period" THEN PeriodInit
     ELSE /\ period = "monthly" /\ anniversary = <<1, 1>> /\ date = <<FirstYear, 1, 1>>
  /\ AuditInit
  /\ IF focus = "restore" THEN RestoreInit
     ELSE /\ vault = NoBytes /\ swapped = FALSE /\ saves = 0 /\ touches = 0
          /\ backups = {} /\ export = NoBytes /\ rotation = NoRotation
          /\ lease = NoLease /\ activated = <<>> /\ tampered = FALSE
          /\ made = 0 /\ fresh = FALSE
  /\ AttachmentsInit

\* The components that are not in focus stand still.
MCNext ==
  \/ /\ focus = "grants" /\ GrantsNext
     /\ UNCHANGED <<focus, importVars, migrationVars, indexVars, discoveryVars, routeVars, evidenceVars,
                    rulesVars, periodVars, auditVars, restoreVars, attachmentVars>>
  \/ /\ focus = "import" /\ ImportNext
     /\ UNCHANGED <<focus, grantVars, migrationVars, indexVars, discoveryVars, routeVars, evidenceVars,
                    rulesVars, periodVars, auditVars, restoreVars, attachmentVars>>
  \/ /\ focus = "migration" /\ MigrationNext
     /\ UNCHANGED <<focus, grantVars, importVars, indexVars, discoveryVars, routeVars, evidenceVars,
                    rulesVars, periodVars, auditVars, restoreVars, attachmentVars>>
  \/ /\ focus = "index" /\ IndexNext
     /\ UNCHANGED <<focus, grantVars, importVars, migrationVars, discoveryVars, routeVars, evidenceVars,
                    rulesVars, periodVars, auditVars, restoreVars, attachmentVars>>
  \/ /\ focus = "discovery" /\ DiscoveryNext
     /\ UNCHANGED <<focus, grantVars, importVars, migrationVars, indexVars, routeVars, evidenceVars,
                    rulesVars, periodVars, auditVars, restoreVars, attachmentVars>>
  \/ /\ focus = "route" /\ RouteNext
     /\ UNCHANGED <<focus, grantVars, importVars, migrationVars, indexVars, discoveryVars, evidenceVars,
                    rulesVars, periodVars, auditVars, restoreVars, attachmentVars>>
  \/ /\ focus = "evidence" /\ EvidenceNext
     /\ UNCHANGED <<focus, grantVars, importVars, migrationVars, indexVars, discoveryVars, routeVars,
                    rulesVars, periodVars, auditVars, restoreVars, attachmentVars>>
  \/ /\ focus = "loading" /\ RulesNext
     /\ UNCHANGED <<focus, grantVars, importVars, migrationVars, indexVars, discoveryVars, routeVars,
                    evidenceVars, periodVars, auditVars, restoreVars, attachmentVars>>
  \/ /\ focus = "period" /\ PeriodNext
     /\ UNCHANGED <<focus, grantVars, importVars, migrationVars, indexVars, discoveryVars, routeVars,
                    evidenceVars, rulesVars, auditVars, restoreVars, attachmentVars>>
  \/ /\ focus = "audit" /\ AuditNext
     /\ UNCHANGED <<focus, grantVars, importVars, migrationVars, indexVars, discoveryVars, routeVars,
                    evidenceVars, rulesVars, periodVars, restoreVars, attachmentVars>>
  \/ /\ focus = "restore" /\ RestoreNext
     /\ UNCHANGED <<focus, grantVars, importVars, migrationVars, indexVars, discoveryVars, routeVars,
                    evidenceVars, rulesVars, periodVars, auditVars, attachmentVars>>
  \/ /\ focus = "attachments" /\ AttachmentsNext
     /\ UNCHANGED <<focus, grantVars, importVars, migrationVars, indexVars, discoveryVars, routeVars,
                    evidenceVars, rulesVars, periodVars, auditVars, restoreVars>>

MCSpec ==
  MCInit /\ [][MCNext]_<<focus, grantVars, importVars, migrationVars, indexVars, discoveryVars, routeVars,
                         evidenceVars, rulesVars, periodVars, auditVars, restoreVars, attachmentVars>>

MCSymmetry == Permutations(Runs) \cup Permutations(CardIds)
MCConstraint ==
  /\ focus = "import" => FewImports
  /\ focus = "audit" => FewActions
  /\ focus = "restore" => FewSaves
  /\ focus = "discovery" => FewReleases

=============================================================================
