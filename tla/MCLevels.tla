------------------------------ MODULE MCLevels ------------------------------
(***************************************************************************)
(* TLC instances of Levels.                                                *)
(***************************************************************************)
EXTENDS Levels

AllKeys    == {<<Min(Keys), Max(Keys)>>}
OneKey     == {<<Min(Keys), Min(Keys)>>}
NoRanges   == {}

\* Bounds: nothing is deleted; or CompactRange is called only after all writes,
\* when no snapshot is held and nothing was deleted.
NoDeletions == \A e \in Merged : ~e.del
ManualLate  == manual # <<>> => snaps = {} /\ lastSeq = MaxSeq /\ NoDeletions
=============================================================================
