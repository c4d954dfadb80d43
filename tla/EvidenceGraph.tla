---------------------------- MODULE EvidenceGraph ----------------------------
(***************************************************************************)
(* The canonical evidence graph (evidence_graph.py): which graphs its        *)
(* constructor accepts, when a candidate may be promoted by a human, when a  *)
(* rule may be exported to the catalog, and the revalidation of a candidate. *)
(*                                                                          *)
(* A graph maps node names to nodes; a reference is a name that may be       *)
(* absent.  An edition <<version, hash>> stands for a document's version     *)
(* number and its two content hashes; a window for the days an optional date *)
(* range holds; an origin for a URL and its scope; a content for the fields' *)
(* values.  Offerings, lineage edges and the parsing of node fields are left *)
(* out.                                                                      *)
(***************************************************************************)
EXTENDS Naturals, FiniteSets

CONSTANTS
  Graphs,     \* the graphs that may be handed to the constructor
  LastDay,    \* bound of the days that pass
  NoDocument  \* a candidate not revalidated; no call made yet

ASSUME DaysExist == LastDay \in Nat \ {0}

VARIABLES
  graph,  \* the graph held
  today,  \* the day the questions are asked for
  asked   \* the last revalidation: [candidate, document, version, done]

evidenceVars == <<graph, today, asked>>

-----------------------------------------------------------------------------
(* The constructor *)

AssertionsOf(g, A) == {a \in DOMAIN g.assertions : a \in A}
AssertionsAbout(g, r) == {a \in DOMAIN g.assertions : g.assertions[a].rule = r}
DerivedFields(g, r) == {d.field : d \in {d \in g.derivations : d.rule = r}}

\* _validate_payload_bindings does not raise.
PayloadBound(g, r, payload, A) ==
  LET rule == g.rules[r]
  IN /\ payload = rule.content
     /\ rule.fields = DOMAIN rule.cites \cup DerivedFields(g, r)
     /\ \A a \in A : DOMAIN g.assertions[a].cites = DOMAIN rule.cites
     /\ \A f \in DOMAIN rule.cites :
          /\ rule.cites[f] # {}
          /\ rule.cites[f] = UNION {g.assertions[a].cites[f] : a \in A}

RulesResolve(g) ==
  \A r \in DOMAIN g.rules : \A f \in DOMAIN g.rules[r].cites :
    g.rules[r].cites[f] \subseteq DOMAIN g.spans

SpansResolve(g) ==
  \A s \in DOMAIN g.spans :
    g.spans[s].observation \in DOMAIN g.observations /\ g.spans[s].document \in DOMAIN g.documents

ObservationsExact(g) ==
  \A o \in DOMAIN g.observations :
    /\ g.observations[o].document \in DOMAIN g.documents
    /\ g.observations[o].edition = g.documents[g.observations[o].document].edition

DocumentsAdmitted(g) ==
  \A d \in DOMAIN g.documents :
    /\ g.documents[d].admission \in DOMAIN g.admissions
    /\ LET admission == g.admissions[g.documents[d].admission]
       IN /\ g.documents[d].origin = admission.origin
          /\ admission.state \in {"candidate", "approved"}

SpanExact(g, a, s) ==
  /\ g.spans[s].document = g.assertions[a].document
  /\ g.spans[s].edition = g.documents[g.assertions[a].document].edition
  /\ g.spans[s].observation = g.assertions[a].observation
  /\ g.spans[s].edition = g.observations[g.assertions[a].observation].edition

AssertionsExact(g) ==
  \A a \in DOMAIN g.assertions :
    LET said == g.assertions[a]
    IN /\ said.rule \in DOMAIN g.rules
       /\ said.observation \in DOMAIN g.observations
       /\ said.document \in DOMAIN g.documents
       /\ said.spans # {} /\ said.spans \subseteq DOMAIN g.spans
       /\ said.version = g.documents[said.document].edition[1]
       /\ g.documents[said.document].tier < 6
       /\ g.observations[said.observation].document = said.document
       /\ g.observations[said.observation].edition[1] = said.version
       /\ \A s \in said.spans : SpanExact(g, a, s)
       /\ \A f \in DOMAIN said.cites : said.cites[f] # {} /\ said.cites[f] \subseteq said.spans
       /\ DOMAIN said.cites = DOMAIN g.rules[said.rule].cites

CandidatesBound(g) ==
  \A c \in DOMAIN g.candidates :
    LET candidate == g.candidates[c]
        A == AssertionsOf(g, candidate.assertions)
    IN /\ candidate.rule \in DOMAIN g.rules
       /\ candidate.assertions # {} /\ candidate.assertions \subseteq DOMAIN g.assertions
       /\ \A a \in A : g.assertions[a].rule = candidate.rule
       /\ candidate.document # NoDocument =>
            \A a \in A : <<g.assertions[a].document, g.assertions[a].version>>
                           = <<candidate.document, candidate.version>>
       /\ PayloadBound(g, candidate.rule, candidate.payload, A)

DerivationsBound(g) ==
  \A d \in g.derivations :
    /\ d.rule \in DOMAIN g.rules
    /\ d.field \in g.rules[d.rule].fields \ DOMAIN g.rules[d.rule].cites
    /\ d.value = g.rules[d.rule].content
    /\ d.inputs # {}
    /\ d.inputs \subseteq UNION {g.assertions[a].spans : a \in AssertionsAbout(g, d.rule)}

ValidGraph(g) ==
  /\ RulesResolve(g) /\ SpansResolve(g) /\ ObservationsExact(g) /\ DocumentsAdmitted(g)
  /\ AssertionsExact(g) /\ CandidatesBound(g) /\ DerivationsBound(g)
  /\ \A review \in g.reviews : review.target \in DOMAIN g.candidates
  /\ \A state \in g.states : state.target \in DOMAIN g.rules

-----------------------------------------------------------------------------
(* The two questions *)

HasActiveState(g, r, day) ==
  \E state \in g.states : state.target = r /\ state.state = "active" /\ day \in state.window

AdmissionOf(g, d) == g.admissions[g.documents[d].admission]

SourceActive(g, d, day) == day \in g.documents[d].window /\ day \in AdmissionOf(g, d).window

\* The candidate was revalidated, by that day, against a document that is still there.
Revalidated(g, c, day) ==
  LET candidate == g.candidates[c]
  IN /\ candidate.document # NoDocument /\ candidate.at # NoDocument /\ candidate.at <= day
     /\ candidate.document \in DOMAIN g.documents
     /\ g.documents[candidate.document].edition[1] = candidate.version
     /\ g.documents[candidate.document].tier < 6

\* Variant: one approved assertion is enough.
EvidenceApprovedOnce(g, A) ==
  \E a \in A : /\ g.assertions[a].review = "approved"
               /\ g.observations[g.assertions[a].observation].result = "matched"

EvidenceApproved(g, A) ==
  /\ A # {}
  /\ \A a \in A : /\ g.assertions[a].review = "approved"
                  /\ g.observations[g.assertions[a].observation].result = "matched"

Endorsed(g, c, day) ==
  LET approvals == {review \in g.reviews : review.target = c /\ review.decision = "approve"}
  IN approvals # {} /\ \A review \in approvals : review.at <= day

\* eligible_for_human_promotion.
Promotable(g, c, day) ==
  LET candidate == g.candidates[c]
      A == AssertionsOf(g, candidate.assertions)
  IN /\ Revalidated(g, c, day)
     /\ AdmissionOf(g, candidate.document).state = "approved"
     /\ SourceActive(g, candidate.document, day)
     /\ PayloadBound(g, candidate.rule, candidate.payload, A)
     /\ EvidenceApproved(g, A)
     /\ Endorsed(g, c, day)
     /\ day \in g.rules[candidate.rule].window
     /\ HasActiveState(g, candidate.rule, day)

\* One assertion is good evidence for a catalog record.
Backs(g, a, day) ==
  LET said == g.assertions[a]
  IN /\ said.review = "approved"
     /\ said.document \in DOMAIN g.documents
     /\ g.documents[said.document].edition[1] = said.version
     /\ g.documents[said.document].tier < 6
     /\ AdmissionOf(g, said.document).state = "approved"
     /\ g.observations[said.observation].result = "matched"
     /\ SourceActive(g, said.document, day)

\* eligible_for_catalog_export.
Exportable(g, r, payload, version, day) ==
  /\ r \in DOMAIN g.rules
  /\ g.rules[r].version = version /\ g.rules[r].content = payload
  /\ PayloadBound(g, r, payload, AssertionsAbout(g, r))
  /\ AssertionsAbout(g, r) # {}
  /\ \A a \in AssertionsAbout(g, r) : Backs(g, a, day)
  /\ day \in g.rules[r].window
  /\ HasActiveState(g, r, day)

-----------------------------------------------------------------------------
(* Revalidation *)

\* The candidates the loop of revalidate_candidate collects.
Collected(g, c, d, v) ==
  [x \in DOMAIN g.candidates |->
     IF x = c THEN [g.candidates[x] EXCEPT !.document = d, !.version = v, !.at = today]
     ELSE g.candidates[x]]

Admitted(g, d, v) ==
  d \in DOMAIN g.documents /\ g.documents[d].edition[1] = v /\ g.documents[d].tier # 6

\* All the citations of the candidate bind the document's exact version.
CitationsBind(g, c, d, v) ==
  /\ c \in DOMAIN g.candidates
  /\ \A a \in g.candidates[c].assertions :
       g.assertions[a].document = d /\ g.assertions[a].version = v

\* The collected candidates are the new ones unless their number is the old one.
Revalidate(c, d, v) ==
  LET marked == Collected(graph, c, d, v)
      done   == /\ Admitted(graph, d, v)
                /\ c \in DOMAIN graph.candidates => CitationsBind(graph, c, d, v)
                /\ Cardinality(DOMAIN marked) # Cardinality(DOMAIN graph.candidates)
  IN /\ asked' = [candidate |-> c, document |-> d, version |-> v, done |-> done]
     /\ graph' = IF done THEN [graph EXCEPT !.candidates = marked] ELSE graph
     /\ UNCHANGED today

-----------------------------------------------------------------------------

EvidenceInit ==
  /\ graph \in Graphs /\ ValidGraph(graph)
  /\ today = 1
  /\ asked = NoDocument

DayPasses ==
  /\ today < LastDay
  /\ today' = today + 1
  /\ UNCHANGED <<graph, asked>>

EvidenceNext ==
  \/ DayPasses
  \/ \E c \in DOMAIN graph.candidates, d \in DOMAIN graph.documents :
       Revalidate(c, d, graph.documents[d].edition[1])

EvidenceSpec == EvidenceInit /\ [][EvidenceNext]_evidenceVars

-----------------------------------------------------------------------------
(* Properties *)

EvidenceTypeOK ==
  /\ ValidGraph(graph)
  /\ today \in 1 .. LastDay
  /\ asked # NoDocument => asked.done \in BOOLEAN

\* A candidate that cites all that is asserted of its rule is never promotable
\* on a day the rule could not be exported.
PromotableIsExportable ==
  \A c \in DOMAIN graph.candidates :
    LET candidate == graph.candidates[c]
    IN /\ AssertionsAbout(graph, candidate.rule) \subseteq candidate.assertions
       /\ Promotable(graph, c, today)
       => Exportable(graph, candidate.rule, candidate.payload,
                     graph.rules[candidate.rule].version, today)

\* Every cited field of an exportable rule rests only on spans of what an
\* official document says now.
ExportIsEvidenced ==
  \A r \in DOMAIN graph.rules :
    LET rule == graph.rules[r]
    IN Exportable(graph, r, rule.content, rule.version, today) =>
         \A f \in DOMAIN rule.cites : \A s \in rule.cites[f] :
           LET span == graph.spans[s]
           IN /\ span.edition = graph.documents[span.document].edition
              /\ graph.documents[span.document].tier < 6
              /\ SourceActive(graph, span.document, today)

\* Evidence decides alike when a human promotes and when the catalog is
\* exported, and nothing is exported on a superseded edition of a source.
EvidenceSound == PromotableIsExportable /\ ExportIsEvidenced

=============================================================================
