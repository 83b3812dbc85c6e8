----------------------------- MODULE MCEnqueuer -----------------------------
(* Instances of Enqueuer for TLC. *)
EXTENDS Enqueuer, TLC

CONSTANTS h1, h2, s1, s2

Symmetry == Permutations({h1, h2}) \cup Permutations({s1, s2})
=============================================================================
