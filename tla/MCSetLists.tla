----------------------------- MODULE MCSetLists -----------------------------
(* The instance of graph_single_writer, with a list of the sets. *)
EXTENDS MCGraphStore, SetLists
=============================================================================
