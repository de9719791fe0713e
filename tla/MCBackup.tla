------------------------------ MODULE MCBackup ------------------------------
(* Instances of ObjectBackup for TLC.                                      *)
EXTENDS ObjectBackup

CONSTANTS fine, altered, resized
=============================================================================
