----------------------------- MODULE SetDeletes -----------------------------
(***************************************************************************)
(* What a client that deletes a tracking set may rely on.                  *)
(*                                                                         *)
(* Handlers read the graph of a set, and write it, in different steps, and *)
(* a delete may come between the two.  A variable that no step of the      *)
(* program reads, gone, watches the deletes: the sets whose DELETE has     *)
(* been answered "ok" and whose directory neither a create nor the write   *)
(* of a ticket has made since.                                             *)
(***************************************************************************)
EXTENDS GraphStore

VARIABLE gone

varsD == <<yaml, dir, pc, req, ts, res, gone>>

InitD == Init /\ gone = {}

Deletes(w) == RemoveDir(w) \/ RemoveNothing(w)

\* The directories above a file are made on purpose in two places only.
MakesDir(s) ==
    \/ \E w \in Workers : MakeSetDir(w) /\ req[w].set = s
    \/ MakeTicketDir(s)

Observe ==
    gone' = {s \in Sets :
        /\ s \in gone \/ \E w \in Workers : Deletes(w) /\ req[w].set = s
        /\ ~ MakesDir(s)}

NextD == Next /\ Observe

SpecD == InitD /\ [][NextD]_varsD

-----------------------------------------------------------------------------

\* A set that has been deleted stays deleted, for as long as nobody creates it or
\* writes a ticket to it: the handlers that had read its graph before the delete,
\* and creates that had made their directory before it, fail when they come to
\* write, since the write does not make the directory.
DeletedStaysDeleted == \A s \in gone : yaml[s] = None
=============================================================================
