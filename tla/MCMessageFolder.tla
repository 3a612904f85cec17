-------------------------- MODULE MCMessageFolder ---------------------------
(* Three messages and two folders, which are third parties to each other.  *)
EXTENDS MessageFolder
=============================================================================
