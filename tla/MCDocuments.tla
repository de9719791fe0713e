---------------------------- MODULE MCDocuments ----------------------------
(* Instances of Documents for TLC.  A file is as declared, or has neither  *)
(* the type nor the size declared.                                         *)
EXTENDS Documents, TLC

CONSTANTS fine, wrong

Interchangeable == Permutations(Keys) \cup Permutations(Calls)
=============================================================================
