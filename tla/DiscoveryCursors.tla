--------------------------- MODULE DiscoveryCursors ---------------------------
(***************************************************************************)
(* Paged discovery of benefits (catalog/router.py).  Every request loads the *)
(* catalog and the owned rules afresh, so the list it pages through may have *)
(* changed since the last page; a one-use cursor remembers which list the    *)
(* next page belongs to.  Requests run in threads and share the cursors; a   *)
(* browser may send one twice.                                              *)
(*                                                                          *)
(* A cursor expires by the clock, that is, at any time, the oldest first.   *)
(***************************************************************************)
EXTENDS Integers, Sequences, SequencesExt

CONSTANTS
  Rules,         \* the sequence of all benefit rules, as results are sorted
  Catalogs,      \* the sets of rules a release may hold
  Holdings,      \* the sets of rules the user's cards may have
  Browsers,      \* discovery session cookies
  Threads,       \* requests handled at the same time
  PageSize,
  CursorLimit,   \* _CURSOR_CACHE_LIMIT
  MaxTokens,     \* bound of the cursors ever issued
  MaxSearches,   \* bound of the searches begun
  MaxReleases,   \* bound of the catalog revisions and of the ownership revisions
  NoRequest

ASSUME DiscoveryLimits ==
  /\ PageSize \in Nat \ {0} /\ CursorLimit \in Nat \ {0}
  /\ MaxTokens \in Nat /\ MaxSearches \in Nat /\ MaxReleases \in Nat

VARIABLES
  catalog,   \* [rev, rules]: the release on disk and the rules it holds
  owned,     \* [rev, rules]: the rules of the user's cards
  cursors,   \* _items: the cursors issued and not used, oldest first
  request,   \* what each thread is working on
  tokens,    \* history: cursors issued
  searches,  \* history: searches begun
  pages      \* history: the pages served, in order

discoveryVars == <<catalog, owned, cursors, request, tokens, searches, pages>>

Filters == {"all", "owned_only"}

\* The list: owned rules first, then the order of Rules.
Results(filter, rules, own) ==
  LET listed == SelectSeq(Rules, LAMBDA r : r \in rules)
      mine   == SelectSeq(listed, LAMBDA r : r \in own)
      others == SelectSeq(listed, LAMBDA r : r \notin own)
  IN IF filter = "owned_only" THEN mine ELSE mine \o others

\* The lists there may be.
Lists == {Results(filter, rules, own) : filter \in Filters, rules \in Catalogs, own \in Holdings}
\* Which list a request is about.
Scope == [filter : Filters, catalog : 0 .. MaxReleases, owned : 0 .. MaxReleases,
          browser : Browsers]
Cursor == [token : 1 .. MaxTokens, scope : Scope, offset : Nat, ids : Lists,
           search : 1 .. MaxSearches]
Work == [browser : Browsers, filter : Filters, token : 0 .. MaxTokens,
         scope : Scope, ids : Lists, at : {"loaded", "answering"},
         offset : Nat, search : 0 .. MaxSearches]

DiscoveryTypeOK ==
  /\ catalog \in [rev : 0 .. MaxReleases, rules : Catalogs]
  /\ owned \in [rev : 0 .. MaxReleases, rules : Holdings]
  /\ cursors \in Seq(Cursor)
  /\ Len(cursors) <= CursorLimit
  /\ \A t \in Threads : request[t] = NoRequest \/ request[t] \in Work
  /\ tokens \in 0 .. MaxTokens /\ searches \in 0 .. MaxSearches
  /\ \A i \in DOMAIN pages : pages[i].from < pages[i].to

DiscoveryInit ==
  /\ \E rules \in Catalogs : catalog = [rev |-> 0, rules |-> rules]
  /\ \E own \in Holdings : owned = [rev |-> 0, rules |-> own]
  /\ cursors = <<>>
  /\ request = [t \in Threads |-> NoRequest]
  /\ tokens = 0 /\ searches = 0
  /\ pages = <<>>

-----------------------------------------------------------------------------
(* What requests read *)

\* A new release; its rules may have changed or not.
Release ==
  /\ catalog.rev < MaxReleases
  /\ \E rules \in Catalogs : catalog' = [rev |-> catalog.rev + 1, rules |-> rules]
  /\ UNCHANGED <<owned, cursors, request, tokens, searches, pages>>

\* The tree is edited in place under the same release metadata.
EditInPlace ==
  /\ \E rules \in Catalogs \ {catalog.rules} :
       catalog' = [catalog EXCEPT !.rules = rules]
  /\ UNCHANGED <<owned, cursors, request, tokens, searches, pages>>

CardsChange ==
  /\ owned.rev < MaxReleases
  /\ \E rules \in Holdings : owned' = [rev |-> owned.rev + 1, rules |-> rules]
  /\ UNCHANGED <<catalog, cursors, request, tokens, searches, pages>>

-----------------------------------------------------------------------------
(* A request *)

\* The catalog and the owned rules are loaded, the list is what they make it.
LoadRequest(t, b, filter, token) ==
  /\ request[t] = NoRequest
  /\ token = 0 => searches < MaxSearches
  /\ request' = [request EXCEPT ![t] =
       [browser |-> b, filter |-> filter, token |-> token, at |-> "loaded",
        scope |-> [filter |-> filter, catalog |-> catalog.rev, owned |-> owned.rev, browser |-> b],
        ids |-> Results(filter, catalog.rules, owned.rules), offset |-> 0, search |-> 0]]
  /\ UNCHANGED <<catalog, owned, cursors, tokens, searches, pages>>

BeginSearch(t) ==
  /\ request[t] # NoRequest /\ request[t].at = "loaded" /\ request[t].token = 0
  /\ searches < MaxSearches
  /\ searches' = searches + 1
  /\ request' = [request EXCEPT ![t].at = "answering", ![t].search = searches']
  /\ UNCHANGED <<catalog, owned, cursors, tokens, pages>>

\* Variant: a cursor stays usable after its page.
ConsumedKept(i) == cursors

Consumed(i) == RemoveAt(cursors, i)
SameList(t, c) == c.scope = request[t].scope /\ c.ids = request[t].ids

\* consume: the cursor is gone whether it fits or not; if not, and also if the
\* list turns out to be another one, the search must be restarted.
ConsumeCursor(t, i) ==
  /\ request[t] # NoRequest /\ request[t].at = "loaded"
  /\ i \in DOMAIN cursors /\ cursors[i].token = request[t].token
  /\ cursors' = Consumed(i)
  /\ request' = [request EXCEPT ![t] =
       IF SameList(t, cursors[i])
       THEN [@ EXCEPT !.at = "answering", !.offset = cursors[i].offset, !.search = cursors[i].search]
       ELSE NoRequest]
  /\ UNCHANGED <<catalog, owned, tokens, searches, pages>>

\* The cursor is not there (any more).
RestartRequired(t) ==
  /\ request[t] # NoRequest /\ request[t].at = "loaded" /\ request[t].token # 0
  /\ \A i \in DOMAIN cursors : cursors[i].token # request[t].token
  /\ request' = [request EXCEPT ![t] = NoRequest]
  /\ UNCHANGED <<catalog, owned, cursors, tokens, searches, pages>>

\* issue: the oldest cursors make room.
Issued(c) == Append(IF Len(cursors) < CursorLimit THEN cursors
                    ELSE SubSeq(cursors, Len(cursors) - CursorLimit + 2, Len(cursors)), c)

ServePage(t) ==
  LET w       == request[t]
      pageEnd == IF w.offset + PageSize < Len(w.ids) THEN w.offset + PageSize ELSE Len(w.ids)
  IN /\ w # NoRequest /\ w.at = "answering"
     /\ IF w.offset + PageSize < Len(w.ids)
        THEN /\ tokens < MaxTokens
             /\ tokens' = tokens + 1
             /\ cursors' = Issued([token |-> tokens', scope |-> w.scope, offset |-> pageEnd,
                                   ids |-> w.ids, search |-> w.search])
        ELSE UNCHANGED <<tokens, cursors>>
     /\ pages' = IF w.offset < pageEnd
                 THEN Append(pages, [search |-> w.search, ids |-> w.ids, from |-> w.offset,
                                     to |-> pageEnd])
                 ELSE pages
     /\ request' = [request EXCEPT ![t] = NoRequest]
     /\ UNCHANGED <<catalog, owned, searches>>

\* _discard_expired.
CursorExpires ==
  /\ cursors # <<>>
  /\ cursors' = Tail(cursors)
  /\ UNCHANGED <<catalog, owned, request, tokens, searches, pages>>

DiscoveryNext ==
  \/ Release \/ EditInPlace \/ CardsChange \/ CursorExpires
  \/ \E t \in Threads :
       \/ BeginSearch(t) \/ RestartRequired(t) \/ ServePage(t)
       \/ \E i \in 1 .. CursorLimit : ConsumeCursor(t, i)
       \/ \E b \in Browsers, f \in Filters, token \in 0 .. tokens : LoadRequest(t, b, f, token)

DiscoverySpec == DiscoveryInit /\ [][DiscoveryNext]_discoveryVars

-----------------------------------------------------------------------------
(* Properties *)

\* The pages of one search are slices of one list, and no entry is served
\* twice, whatever changed between the requests and however often a browser
\* repeats one (_DiscoveryCursorStore.consume, discover_benefits).
PagesContinue ==
  \A i, j \in DOMAIN pages :
    i < j /\ pages[i].search = pages[j].search =>
      pages[j].ids = pages[i].ids /\ pages[i].to <= pages[j].from

=============================================================================
