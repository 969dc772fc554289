------------------------ MODULE MCContinuityRepository ------------------------
(***************************************************************************)
(* ContinuityRepository for TLC: arbitrary callers on a small project.     *)
(***************************************************************************)
EXTENDS ContinuityRepository, TLC

\* Ids are opaque: permuting them maps behaviours to behaviours.
IdSymmetry ==
  Permutations(Operations) \cup Permutations(Keys) \cup Permutations(Sessions)
    \cup Permutations(Contents)

================================================================================
