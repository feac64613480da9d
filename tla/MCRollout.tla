------------------------------ MODULE MCRollout ------------------------------
(* Small instances of Rollout for TLC.                                     *)
EXTENDS Rollout, TLC

CONSTANTS i1, i2

InstanceSymmetry == Permutations(Instances)
=============================================================================
