------------------------- MODULE ResearchDialogueMC -------------------------
(* ResearchDialogue for TLC: interchangeable requests and sources.          *)
EXTENDS ResearchDialogue, TLC

Symmetry == Permutations(Calls) \cup Permutations(Evidence)
=============================================================================
