--------------------------- MODULE MCExtendCountdown ---------------------------
(* Instances of ExtendCountdown for TLC.                                   *)
EXTENDS ExtendCountdown, TLC

OwnerSymmetry == Permutations(Owners)
================================================================================
