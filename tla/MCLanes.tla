------------------------------- MODULE MCLanes -------------------------------
(* Small instances of Lanes for TLC. *)
EXTENDS Lanes, TLC

CONSTANTS d1, d2, r1, r2, none

MCDocuments == {d1, d2}
MCRevisions == {r1, r2}
MCSymmetry  == Permutations(MCDocuments) \cup Permutations(MCRevisions)
=============================================================================
