----------------------------- MODULE CatalogIndex -----------------------------
(***************************************************************************)
(* The derived catalog index (catalog/index.py).  A builder and a reader run *)
(* while the JSON catalog they both read is edited; neither takes a lock.    *)
(* The builder fingerprints the source before and after loading it, and the  *)
(* index carries the fingerprint; the reader compares it with the source     *)
(* before and after its query.  The source is files read one after another:  *)
(* here the catalog proper and the reward records.                          *)
(*                                                                          *)
(* A fingerprint is the contents it digests, and an edit brings contents the *)
(* part never had: a part that returned to old contents between two looks    *)
(* would deceive both comparisons.  One builder runs at a time.              *)
(***************************************************************************)
EXTENDS Integers, Sequences

CONSTANTS MaxEdits,  \* bound of the edits of the source
          NoIndex

ASSUME EditBound == MaxEdits \in Nat
ASSUME NoIndexIsNone ==
  LET contents == [catalog : Nat, rewards : Nat]
  IN NoIndex \notin contents \cup [data : contents, manifest : contents]

VARIABLES
  source,    \* the JSON tree: what each of its two parts holds
  index,     \* [data, manifest] of derived/catalog.sqlite3, or NoIndex
  builder,   \* the parts the build under way has read, in order, or NoIndex
  reader,    \* the query under way
  current    \* history: the contents the source has had since the query began

indexVars == <<source, index, builder, reader, current>>

Parts == <<"catalog", "rewards">>
Source == [catalog : 0 .. MaxEdits, rewards : 0 .. MaxEdits]
ReaderPlaces == {"idle", "checking", "query", "rechecking", "answered"}

\* The i-th read of a walk over the source is of this part.
PartOf(i) == Parts[((i - 1) % 2) + 1]
\* What a walk that starts with read i of s saw.
WalkAt(s, i) == [catalog |-> s[i], rewards |-> s[i + 1]]

IndexTypeOK ==
  /\ source \in Source /\ current \subseteq Source
  /\ index \in [data : Source, manifest : Source] \cup {NoIndex}
  /\ builder = NoIndex \/ (Len(builder) <= 6 /\ \A i \in 1 .. Len(builder) : builder[i] \in 0 .. MaxEdits)
  /\ reader \in [at : ReaderPlaces, manifest : Source \cup {NoIndex},
                 walked : {<<>>} \cup {<<n>> : n \in 0 .. MaxEdits}, rows : Source \cup {NoIndex}]

IdleReader == [at |-> "idle", manifest |-> NoIndex, walked |-> <<>>, rows |-> NoIndex]

IndexInit ==
  /\ source = [catalog |-> 0, rewards |-> 0]
  /\ index = NoIndex
  /\ builder = NoIndex
  /\ reader = IdleReader
  /\ current = {}

-----------------------------------------------------------------------------
(* The source *)

\* Someone replaces one part.
EditSource(part) ==
  /\ source[part] < MaxEdits
  /\ source' = [source EXCEPT ![part] = @ + 1]
  /\ current' = IF reader.at = "idle" THEN {} ELSE current \cup {source'}
  /\ UNCHANGED <<index, builder, reader>>

-----------------------------------------------------------------------------
(* The builder *)

BeginBuild ==
  /\ builder = NoIndex
  /\ builder' = <<>>
  /\ UNCHANGED <<source, index, reader, current>>

\* The fingerprint before, the catalog and its rewards, the fingerprint after.
BuildReads ==
  /\ builder # NoIndex /\ Len(builder) < 6
  /\ builder' = Append(builder, source[PartOf(Len(builder) + 1)])
  /\ UNCHANGED <<source, index, reader, current>>

UnchangedDuringBuild == WalkAt(builder, 1) = WalkAt(builder, 5)

\* Variant: one fingerprint, taken after the catalog has been loaded.
ReplaceUnguarded ==
  /\ builder # NoIndex /\ Len(builder) = 6
  /\ index' = [data |-> WalkAt(builder, 3), manifest |-> WalkAt(builder, 5)]
  /\ builder' = NoIndex
  /\ UNCHANGED <<source, reader, current>>

\* The temporary database replaces the index in one step.
ReplaceIndex ==
  /\ builder # NoIndex /\ Len(builder) = 6
  /\ UnchangedDuringBuild
  /\ index' = [data |-> WalkAt(builder, 3), manifest |-> WalkAt(builder, 1)]
  /\ builder' = NoIndex
  /\ UNCHANGED <<source, reader, current>>

\* The build raises or the process dies; the old index stays.
BuildEnds ==
  /\ builder # NoIndex
  /\ builder' = NoIndex
  /\ UNCHANGED <<source, index, reader, current>>

-----------------------------------------------------------------------------
(* The reader *)

\* _query: _assert_current reads the index's fingerprint, ...
BeginQuery ==
  /\ reader.at = "idle"
  /\ index # NoIndex
  /\ reader' = [IdleReader EXCEPT !.at = "checking", !.manifest = index.manifest]
  /\ current' = {source}
  /\ UNCHANGED <<source, index, builder>>

\* ... walks the source, and compares.
WalkSource ==
  /\ reader.at \in {"checking", "rechecking"}
  /\ \/ /\ reader.walked = <<>>
        /\ reader' = [reader EXCEPT !.walked = <<source.catalog>>]
     \/ /\ Len(reader.walked) = 1
        /\ WalkAt(Append(reader.walked, source.rewards), 1) = reader.manifest
        /\ reader' = [reader EXCEPT !.walked = <<>>, !.manifest = NoIndex,
                                    !.at = IF @ = "checking" THEN "query" ELSE "answered"]
  /\ UNCHANGED <<source, index, builder, current>>

\* The rows come from one immutable connection, the second check of the
\* fingerprint from another: a build may have replaced the file in between.
ReadRows ==
  /\ reader.at = "query"
  /\ reader' = [reader EXCEPT !.rows = index.data, !.at = "rechecking", !.manifest = NoIndex]
  /\ UNCHANGED <<source, index, builder, current>>

RereadFingerprint ==
  /\ reader.at = "rechecking" /\ reader.manifest = NoIndex
  /\ reader' = [reader EXCEPT !.manifest = index.manifest]
  /\ UNCHANGED <<source, index, builder, current>>

\* The answer is given, or CatalogIndexStaleError is raised.
EndQuery ==
  /\ reader.at # "idle"
  /\ reader' = IdleReader
  /\ current' = {}
  /\ UNCHANGED <<source, index, builder>>

IndexNext ==
  \/ \E part \in {"catalog", "rewards"} : EditSource(part)
  \/ BeginBuild \/ BuildReads \/ ReplaceIndex \/ BuildEnds
  \/ BeginQuery \/ WalkSource \/ ReadRows \/ RereadFingerprint \/ EndQuery

IndexSpec == IndexInit /\ [][IndexNext]_indexVars

-----------------------------------------------------------------------------
(* Properties *)

\* An answer is the catalog as it was, whole, at some moment of the query,
\* however edits and a build interleave with it: the index is only a projection
\* and a changed source makes it stale (DECISIONS.md).
QueryCurrent == reader.at = "answered" => reader.rows \in current

=============================================================================
