-------------------------- MODULE MCResultsRefresh --------------------------
(* ResultsRefresh on small instances; the .cfg files give the constants.   *)
EXTENDS ResultsRefresh, TLC

(* Workers are alike, and so are projects.                                 *)
Alike == Permutations(Workers) \union Permutations(Projects)
=============================================================================
