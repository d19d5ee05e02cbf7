---------------------------- MODULE MCUnitTests ----------------------------
(***************************************************************************)
(* An instance of UnitTests for TLC.                                       *)
(***************************************************************************)
EXTENDS UnitTests, TLC

BlockSymmetry == Permutations(Block)

=============================================================================
