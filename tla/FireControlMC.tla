--------------------------- MODULE FireControlMC ---------------------------
(***************************************************************************)
(* TLC instances of FireControl: model values are assigned in the .cfg     *)
(* files; the symmetry below is used by the safety runs only.              *)
(***************************************************************************)
EXTENDS FireControl, TLC

Symmetry == Permutations(Engagements) \cup Permutations(Requests)
              \cup Permutations(AbortRequests) \cup Permutations(Calls)
              \cup Permutations(Effectors)
=============================================================================
