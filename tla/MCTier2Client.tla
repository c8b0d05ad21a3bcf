--------------------------- MODULE MCTier2Client ---------------------------
(***************************************************************************)
(* Instances of Tier2Client for TLC.                                       *)
(***************************************************************************)
EXTENDS Tier2Client, TLC

CONSTANTS r1, r2

MCReports == {r1, r2}
Symmetry  == Permutations(MCReports)
=============================================================================
