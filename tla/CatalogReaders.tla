---------------------------- MODULE CatalogReaders ----------------------------
(***************************************************************************)
(* The catalog as its readers see it: every handler of the catalog API      *)
(* loads the active tree anew, part by part and without the install lock,   *)
(* while release.py may be moving it.                                       *)
(*                                                                          *)
(* The model has one load at a time, since loads do not meet.  A part, a    *)
(* file or a directory of files, is read in one step; a part whose          *)
(* directory goes away between its listing and its last file is a failure.  *)
(***************************************************************************)
EXTENDS CatalogInstall, Sequences

VARIABLE load   \* the load under way or the last one: what it read, part by part,
                \* and (history) whether the active tree was moved meanwhile

Parts == <<"release", "offerings", "benefits", "relationships">>
\* The parts a catalog may be without.
Optional == {"benefits", "relationships"}

LoadTypeOK ==
  /\ load \in [at : {"idle", "reading", "loaded"}, parts : Seq(Trees), moved : BOOLEAN]
  /\ Len(load.parts) <= Len(Parts)

NoLoad == [at |-> "idle", parts |-> <<>>, moved |-> FALSE]

LoadInit == Init /\ load = NoLoad

-----------------------------------------------------------------------------
(* load_catalog, called by catalog_or_unavailable *)

BeginLoad ==
  /\ load.at # "reading"
  /\ load' = [NoLoad EXCEPT !.at = "reading"]
  /\ UNCHANGED vars

\* Variant: no part is required.
ReadPartIfAny ==
  /\ load.at = "reading" /\ Len(load.parts) < Len(Parts)
  /\ load' = [load EXCEPT !.parts = Append(@, active)]
  /\ UNCHANGED vars

\* _read_json, _read_many: the next part, from the tree that is active now.  An
\* optional part of a tree that is not there reads as an empty one.
ReadPart ==
  /\ load.at = "reading" /\ Len(load.parts) < Len(Parts)
  /\ active # None \/ Parts[Len(load.parts) + 1] \in Optional
  /\ load' = [load EXCEPT !.parts = Append(@, active)]
  /\ UNCHANGED vars

\* _validate_cross_records finds nothing wrong.
LoadReturns ==
  /\ load.at = "reading" /\ Len(load.parts) = Len(Parts)
  /\ load' = [load EXCEPT !.at = "loaded"]
  /\ UNCHANGED vars

\* A required part is not there, a file cannot be read or parsed, or the parts
\* do not fit together: the request is answered "Catalog unavailable".
LoadFails ==
  /\ load.at = "reading"
  /\ load' = NoLoad
  /\ UNCHANGED vars

-----------------------------------------------------------------------------

\* release.py takes a step, and no notice of the load.
InstallStep ==
  /\ Next
  /\ load' = [load EXCEPT !.moved = @ \/ (load.at = "reading" /\ active' # active)]

LoadNext == BeginLoad \/ ReadPart \/ LoadReturns \/ LoadFails \/ InstallStep

LoadSpec == LoadInit /\ [][LoadNext]_<<vars, load>>

-----------------------------------------------------------------------------
(* Properties *)

\* A load returns the parts of one tree that is there.
Whole(parts) == \E t \in Trees \ {None} : \A i \in DOMAIN parts : parts[i] = t

\* A load that returns without the active tree having been moved under it returns
\* one tree, whichever state an install, a rollback or a recovery was in, dead
\* or alive, when it began.
LoadsMixOnlyOverMoves ==
  load.at = "loaded" /\ ~load.moved => Whole(load.parts)

\* install_snapshot's docstring (release.py:433) "an atomic switch-over" and
\* TASKS.md:859 "update is atomic": whoever loads the catalog gets the one from
\* before an update or the one from after it, if nobody damaged either.
LoadsWhole ==
  load.at = "loaded" /\ (\A i \in DOMAIN load.parts : load.parts[i] # Bad) => Whole(load.parts)

=============================================================================
