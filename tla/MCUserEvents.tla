---------------------------- MODULE MCUserEvents ----------------------------
(* Instances of UserEvents for TLC; the groups are interchangeable.         *)
EXTENDS UserEvents, TLC

GroupSymmetry == Permutations(Groups)
=============================================================================
