----------------------------- MODULE MCGracePeriod -----------------------------
(* Instances of GracePeriod for TLC.                                       *)
EXTENDS GracePeriod, TLC

ClientSymmetry == Permutations(Sockets) \cup Permutations(Tokens)
================================================================================
