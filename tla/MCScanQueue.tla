------------------------------- MODULE MCScanQueue -------------------------------
(***************************************************************************)
(* Small instances of ScanQueue for TLC.                                   *)
(***************************************************************************)
EXTENDS ScanQueue

MCOwner == [s \in Sids |-> CHOOSE u \in Users : TRUE]
==============================================================================
