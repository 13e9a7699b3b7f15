------------------------ MODULE MCDistributedHsmService ------------------------
(* Two nodes with their own names, three ids for the records, one failed
   store request and two restarts (set in the .cfg). *)
EXTENDS DistributedHsmService

CONSTANTS n1, n2

MCIds == {"id1", "id2", "id3"}
MCNames == {"node1", "node2", "default"}
MCNodeName == [n \in {n1, n2} |-> IF n = n1 THEN "node1" ELSE "node2"]
MCMods == {"size"}
MCLockTypes == {"w"}
=============================================================================
