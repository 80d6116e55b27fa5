----------------------------- MODULE MCTracker -----------------------------
(* Small instances of Tracker and TrackerApi for TLC. *)
EXTENDS TrackerApi, TLC

CONSTANTS t1, t2, t3

MCTickets == {t1, t2, t3}

MCPlans == {t1}

\* A meta-plan whose ID a task of the plan has.
MCMetaPlans == {t2}

\* A plan with up to two tasks, and a task that blocks the plan.
MCEdges == {Parent(t1, t2), Parent(t1, t3), [from |-> t2, to |-> t1, type |-> "blocks"]}

\* Every mutation, the two queries, which several calls make, and no other read: no
\* property of the runs speaks of those, and they change nothing.
MCOps == AllOps \ {"GetTicket", "GetPlan", "GetMetaPlan", "GetSet", "ListEdges"}

WorkerSymmetry == Permutations(Workers)
=============================================================================
