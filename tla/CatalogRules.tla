---------------------------- MODULE CatalogRules ----------------------------
(***************************************************************************)
(* Loading a catalog tree (catalog/loader.py): the gates every record        *)
(* passes, the checks across records, and the two walks of _detect_cycle,    *)
(* one node per step; and what a loaded catalog answers on a day.            *)
(*                                                                          *)
(* A catalog is [offerings, rules, relations, markets, released]; offerings  *)
(* and rules are functions of their IDs, relations the sequence of the files *)
(* read.  A window stands for the days an optional date range holds.  Files, *)
(* text, owners, conditions, quantities and earning rules are left out.      *)
(***************************************************************************)
EXTENDS Integers, SequencesExt, FiniteSets

CONSTANTS
  RawCatalogs,  \* the trees that may be loaded
  CatalogDays,  \* days that are asked for
  NoValue       \* no superseded rule, no state, no inheritance

\* Files are finitely many; times are compared as numbers.
ASSUME TreesAreRead ==
  \A c \in RawCatalogs :
    /\ IsFiniteSet(DOMAIN c.rules) /\ IsFiniteSet(DOMAIN c.relations)
    /\ c.released \in Int

VARIABLES
  tree,     \* the tree being loaded
  loading,  \* "parse", "check", "rules", "offerings"; "loaded" or why it was refused
  color,    \* of the nodes of the walk
  stack     \* of the walk

rulesVars == <<tree, loading, color, stack>>

-----------------------------------------------------------------------------
(* The gates of one record *)

\* _assertion: what review state an evidence assertion may claim.
AssertionAllowed(e) ==
  /\ e.decisions # {} => e.reviewed >= e.retrieved
  /\ e.review = "approved" => ~e.discovery /\ ~e.personalized /\ e.decisions = {"approved"}
  /\ e.review = "rejected" => "rejected" \in e.decisions

\* _validate_active_review_gate, _validate_approved_relationship_evidence.
ReviewGate(evidence) ==
  /\ \A e \in evidence : e.decisions # {}
  /\ \E e \in evidence : e.review = "approved" /\ e.confident /\ "approved" \in e.decisions

\* _parse_legacy_benefit.
LegacyAllowed(r) ==
  /\ r.evidence # {} /\ \A e \in r.evidence : AssertionAllowed(e)
  /\ r.status = "active" => ReviewGate(r.evidence)

\* _parse_rescued_provenance: an item without review fields needs review and
\* has no decision; in a verified record the review gate refuses it too.
ProvenanceAllowed(r) == r.evidence # {} /\ \A e \in r.evidence : AssertionAllowed(e)

\* _parse_rescued_only_benefit: the state decides the status.
RescuedAllowed(r) ==
  /\ ProvenanceAllowed(r)
  /\ r.status = IF r.state = "verified" THEN "active" ELSE "needs_review"
  /\ r.supersedes = NoValue /\ r.inheritance = NoValue
  /\ r.state = "verified" => ReviewGate(r.evidence)

\* _parse_rescued_benefit of a record that kept its reviewed fields.
RetainedAllowed(r) ==
  /\ LegacyAllowed(r)
  /\ r.state # "verified" => r.status # "active"

RuleAllowed(r) ==
  /\ r.version >= 1
  /\ \/ r.shape = "legacy" /\ r.state = NoValue /\ LegacyAllowed(r)
     \/ r.shape = "rescued" /\ RescuedAllowed(r)
     \/ r.shape = "retained" /\ RetainedAllowed(r)

RelationAllowed(e) ==
  /\ e.from # e.to
  /\ e.evidence # {} /\ \A x \in e.evidence : AssertionAllowed(x)
  /\ e.approved => ReviewGate(e.evidence)

-----------------------------------------------------------------------------
(* Across records *)

SeqRange(s) == {s[i] : i \in DOMAIN s}

EvidenceInTime(c, r) ==
  \A e \in r.evidence :
    e.retrieved <= c.released /\ (e.decisions # {} => e.reviewed <= c.released)

InheritanceBound(c, i) ==
  LET rule == c.rules[i]
      from == rule.inheritance
  IN from # NoValue =>
       /\ from.source \in DOMAIN c.rules \ {i}
       /\ c.rules[from.source].offering = from.sourceOffering
       /\ rule.offering = from.targetOffering
       /\ c.offerings[from.sourceOffering].owner = from.sourceOwner
       /\ c.offerings[from.targetOffering].owner = from.targetOwner
       /\ rule.status = "active" => from.approved

ConflictsAgree(c, i) ==
  /\ c.rules[i].conflicts \subseteq DOMAIN c.rules \ {i}
  /\ \A j \in c.rules[i].conflicts : i \in c.rules[j].conflicts

SupersedesOlder(c, i) ==
  LET rule == c.rules[i]
  IN rule.supersedes # NoValue =>
       /\ rule.supersedes \in DOMAIN c.rules \ {i}
       /\ LET prior == c.rules[rule.supersedes]
          IN /\ prior.offering = rule.offering /\ prior.type = rule.type
             /\ rule.version > prior.version
             /\ prior.status \in {"superseded", "historical"}

RelationsKnown(c) ==
  /\ \A e \in SeqRange(c.relations) : {e.from, e.to} \subseteq DOMAIN c.offerings
  /\ \A i, j \in DOMAIN c.relations : i # j =>
       <<c.relations[i].from, c.relations[i].to, c.relations[i].kind>>
         # <<c.relations[j].from, c.relations[j].to, c.relations[j].kind>>

\* _validate_cross_records, but for the cycles.
CrossChecked(c) ==
  /\ \A i \in DOMAIN c.rules : c.rules[i].offering \in DOMAIN c.offerings
  /\ \A i \in DOMAIN c.rules :
       /\ EvidenceInTime(c, c.rules[i])
       /\ InheritanceBound(c, i) /\ ConflictsAgree(c, i) /\ SupersedesOlder(c, i)
  /\ RelationsKnown(c)

-----------------------------------------------------------------------------
(* The walk of _detect_cycle *)

\* The entries of the adjacency lists: which file puts which node in whose list.
RuleEdges(c) ==
  {[file |-> i, from |-> i, to |-> c.rules[i].supersedes] :
     i \in {i \in DOMAIN c.rules : c.rules[i].supersedes # NoValue}}

OfferingEdges(c) ==
  {[file |-> k, from |-> c.relations[k].from, to |-> c.relations[k].to] :
     k \in {k \in DOMAIN c.relations : c.relations[k].kind \in {"renamed", "legacy"}}}

Edges == IF loading = "rules" THEN RuleEdges(tree) ELSE OfferingEdges(tree)

\* Both nodes of every edge, white.
WalkNodes(edges) == [n \in UNION {{e.from, e.to} : e \in edges} |-> "white"]

BeginRules ==
  /\ loading = "check" /\ CrossChecked(tree)
  /\ loading' = "rules"
  /\ color' = WalkNodes(RuleEdges(tree))
  /\ UNCHANGED <<tree, stack>>

AllWalked == stack = <<>> /\ \A n \in DOMAIN color : color[n] # "white"

BeginOfferings ==
  /\ loading = "rules" /\ AllWalked
  /\ loading' = "offerings"
  /\ color' = WalkNodes(OfferingEdges(tree))
  /\ UNCHANGED <<tree, stack>>

StartNode(n) ==
  /\ loading \in {"rules", "offerings"} /\ stack = <<>> /\ color[n] = "white"
  /\ stack' = <<n>>
  /\ UNCHANGED <<tree, loading, color>>

\* The walk goes on with every white neighbour of n, in the order of its list,
\* which is left open.
Push(n) ==
  LET white == {e \in Edges : e.from = n /\ e.to # n /\ color[e.to] = "white"}
  IN \E list \in Surjection(1 .. Cardinality(white), white) :
       /\ stack' = stack \o [i \in DOMAIN list |-> list[i].to]
       /\ color' = [color EXCEPT ![n] = "gray"]
       /\ UNCHANGED loading

MeetCycle ==
  /\ loading' = "cycle" /\ stack' = <<>>
  /\ UNCHANGED color

\* Variant: a node met again is taken for a cycle.
VisitMeetsAgain ==
  /\ stack # <<>> /\ color[Last(stack)] = "white"
  /\ LET n == Last(stack)
     IN IF \E e \in Edges : e.from = n /\ (e.to = n \/ color[e.to] # "white")
        THEN MeetCycle ELSE Push(n)
  /\ UNCHANGED tree

\* A white node turns gray and pushes its white neighbours; a gray one, the node
\* itself among them, is a cycle.
Visit ==
  /\ stack # <<>> /\ color[Last(stack)] = "white"
  /\ LET n == Last(stack)
     IN IF \E e \in Edges : e.from = n /\ (e.to = n \/ color[e.to] = "gray")
        THEN MeetCycle ELSE Push(n)
  /\ UNCHANGED tree

Leave ==
  /\ stack # <<>> /\ color[Last(stack)] # "white"
  /\ color' = [color EXCEPT ![Last(stack)] = "black"]
  /\ stack' = Front(stack)
  /\ UNCHANGED <<tree, loading>>

-----------------------------------------------------------------------------
(* load_catalog *)

RulesInit ==
  /\ tree \in RawCatalogs
  /\ loading = "parse"
  /\ color = [n \in {} |-> "white"]
  /\ stack = <<>>

Parse ==
  /\ loading = "parse"
  /\ loading' = IF /\ \A i \in DOMAIN tree.rules : RuleAllowed(tree.rules[i])
                   /\ \A e \in SeqRange(tree.relations) : RelationAllowed(e)
                THEN "check" ELSE "refused"
  /\ UNCHANGED <<tree, color, stack>>

CheckFails ==
  /\ loading = "check" /\ ~CrossChecked(tree)
  /\ loading' = "refused"
  /\ UNCHANGED <<tree, color, stack>>

Load ==
  /\ loading = "offerings" /\ AllWalked
  /\ loading' = "loaded"
  /\ UNCHANGED <<tree, color, stack>>

RulesNext ==
  \/ Parse \/ CheckFails \/ BeginRules \/ BeginOfferings
  \/ \E n \in DOMAIN color : StartNode(n)
  \/ Visit \/ Leave \/ Load

RulesSpec == RulesInit /\ [][RulesNext]_rulesVars

-----------------------------------------------------------------------------
(* What a loaded catalog answers *)

\* InheritanceRule.applies, or nothing inherited.
StillInherited(r, day) ==
  r.inheritance # NoValue => r.inheritance.approved /\ day \in r.inheritance.window

\* Catalog._benefit_applies.
Applies(r, day) == day \in r.window /\ StillInherited(r, day)

\* Catalog.benefits_for.
BenefitsFor(c, o, day) ==
  {i \in DOMAIN c.rules :
     c.rules[i].offering = o /\ c.rules[i].status = "active" /\ Applies(c.rules[i], day)}

\* Catalog.consumer_visible_benefits_for.
ConsumerVisible(c, o, day) ==
  {i \in DOMAIN c.rules :
     /\ c.rules[i].offering = o /\ Applies(c.rules[i], day)
     /\ c.rules[i].state # NoValue \/ c.rules[i].status = "active"}

\* Catalog.visible_benefits with the historical ones.
VisibleWithHistory(c, day) ==
  {i \in DOMAIN c.rules :
     LET r == c.rules[i]
     IN \/ r.status = "active" /\ Applies(r, day)
        \/ r.status \in {"historical", "superseded"} /\ StillInherited(r, day)}

\* Catalog.historical_benefits_for.
HistoricalFor(c, o, day) ==
  {i \in DOMAIN c.rules :
     /\ c.rules[i].offering = o /\ c.rules[i].status \in {"historical", "superseded"}
     /\ StillInherited(c.rules[i], day)}

InForce(r, day) == r.status \in {"active", "needs_review"} /\ day \in r.window

\* The declaration of a conflict with j by i, in force, counts as resolved.
Resolved(c, i, j, day) ==
  /\ day \in c.offerings[c.rules[j].offering].window
  /\ InForce(c.rules[j], day) /\ c.rules[j].status = "active"
  /\ c.offerings[c.rules[i].offering].market = c.offerings[c.rules[j].offering].market
  /\ c.offerings[c.rules[i].offering].market \in c.markets
  /\ c.rules[i].status = "active"

\* An offering's rule i declares a conflict with rule j.
Declares(c, o, i, j, day) ==
  /\ day \in c.offerings[o].window
  /\ c.rules[i].offering = o /\ InForce(c.rules[i], day)
  /\ j \in c.rules[i].conflicts /\ Resolved(c, i, j, day)

\* Catalog.conflicts_for.
ConflictsFor(c, o, day) ==
  {pair \in {{i, j} : i, j \in DOMAIN c.rules} : \E i, j \in pair : Declares(c, o, i, j, day)}

-----------------------------------------------------------------------------
(* Properties *)

RulesTypeOK ==
  /\ tree \in RawCatalogs
  /\ loading \in {"parse", "check", "rules", "offerings", "loaded", "refused", "cycle"}
  /\ \A n \in DOMAIN color : color[n] \in {"white", "gray", "black"}
  /\ SeqRange(stack) \subseteq DOMAIN color

\* A cycle, with what can be reached from it, is a set of nodes each of which
\* another or itself in the set points to; and only a cycle makes one.
Cyclic(edges) ==
  \E S \in SUBSET {e.to : e \in edges} :
    S # {} /\ \A n \in S : \E e \in edges : e.to = n /\ e.from \in S
HasCycle == Cyclic(RuleEdges(tree)) \/ Cyclic(OfferingEdges(tree))

\* Exactly the trees with a cycle of renames or of supersessions are refused
\* for a cycle.
CyclesRefused == /\ loading = "loaded" => ~HasCycle
                 /\ loading = "cycle" => HasCycle

\* A conflict is shown on the cards of both its rules or on neither.
ConflictsMutual ==
  loading = "loaded" =>
    \A day \in CatalogDays : \A i, j \in DOMAIN tree.rules :
      ({i, j} \in ConflictsFor(tree, tree.rules[i].offering, day))
        <=> ({i, j} \in ConflictsFor(tree, tree.rules[j].offering, day))

\* A benefit in force was approved by a person before the release, on evidence
\* that a person may approve, whichever of the three parsers read it; and
\* consumers see it.
ActiveIsReviewed ==
  loading = "loaded" =>
    \A day \in CatalogDays : \A o \in DOMAIN tree.offerings :
      \A i \in BenefitsFor(tree, o, day) :
        /\ i \in ConsumerVisible(tree, o, day)
        /\ \E e \in tree.rules[i].evidence :
             /\ e.review = "approved" /\ e.confident /\ ~e.discovery /\ ~e.personalized
             /\ e.decisions = {"approved"}
             /\ e.retrieved <= e.reviewed /\ e.reviewed <= tree.released

\* A rule that another in force replaced is in force on no offering and no day;
\* the offering it was of shows it with its history, unless it was inherited
\* and its inheritance does not hold that day.
SupersededIsHistory ==
  loading = "loaded" =>
    \A day \in CatalogDays : \A o \in DOMAIN tree.offerings :
      \A i \in BenefitsFor(tree, o, day) :
        LET old == tree.rules[i].supersedes
        IN old # NoValue =>
             /\ \A any \in DOMAIN tree.offerings : old \notin BenefitsFor(tree, any, day)
             /\ StillInherited(tree.rules[old], day) =>
                  old \in VisibleWithHistory(tree, day) \cap HistoricalFor(tree, o, day)

\* What a loaded catalog may be relied on for.
CatalogSound == CyclesRefused /\ ConflictsMutual /\ ActiveIsReviewed /\ SupersededIsHistory

=============================================================================
