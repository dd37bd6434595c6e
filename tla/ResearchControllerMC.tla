------------------------ MODULE ResearchControllerMC ------------------------
(* Small instances of ResearchController for TLC. Two contents of a raw    *)
(* file are treated alike.                                                 *)
EXTENDS ResearchController, TLC

SameFiles == Permutations(Datasets)
=============================================================================
