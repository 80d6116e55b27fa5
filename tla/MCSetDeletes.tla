---------------------------- MODULE MCSetDeletes ----------------------------
(* The instance of graph_concurrent, with the sets that have been deleted. *)
EXTENDS MCGraphStore, SetDeletes
=============================================================================
