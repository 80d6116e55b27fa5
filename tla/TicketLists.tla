---------------------------- MODULE TicketLists ----------------------------
(***************************************************************************)
(* What a list of tickets owes its client, which reads the directory and   *)
(* the files one after the other while tickets change, and what the index  *)
(* that it asks may miss.  Three variables that no step of the program     *)
(* reads watch TicketStore:                                                *)
(*                                                                         *)
(*   kept[w]  the tickets that matched the filter of list w when it came   *)
(*            in, with no change to them half done or given up, and have   *)
(*            matched ever since, without a delete about to remove them;   *)
(*   seen[w]  those that have matched at some time since it came in;       *)
(*   cut      the tickets that a delete has taken out of the index before  *)
(*            it failed to remove the file.                                *)
(***************************************************************************)
EXTENDS TicketStore

VARIABLES kept, seen, cut

varsL == <<md, index, pc, req, mem, todo, hits, res, kept, seen, cut>>

InitL ==
    /\ Init
    /\ kept = [w \in Workers |-> {}]
    /\ seen = [w \in Workers |-> {}]
    /\ cut = {}

Lists(w) == pc[w] # "idle" /\ req[w].op \in ListOps

Matching(w) == {t \in Tickets : Lists(w) /\ Matches(md[t], req[w].labels)}

\* Deleting t fails at the last step.
GivenUp(t) == \E w \in Workers : HasUnindexed(w) /\ req[w].id = t /\ IOError(w)

\* A create puts t into the index under all of its labels, a restart each ticket.
\* An update puts it there under the labels that are new to it, if any.
PutBack(t) == Restart \/ \E w \in Workers : IndexCreated(w) /\ req[w].id = t

Observe ==
    /\ cut' = {t \in Tickets : (t \in cut \/ GivenUp(t)) /\ ~ PutBack(t)}
    /\ kept' = [w \in Workers |->
          IF pc[w] = "idle"
          THEN {t \in Matching(w)' : ~ Unsettled(t)' /\ t \notin cut'}
          ELSE {t \in kept[w] \cap Matching(w)' : ~ Removing(t)'}]
    /\ seen' = [w \in Workers |-> IF Lists(w)' THEN seen[w] \cup Matching(w)' ELSE {}]

NextL == Next /\ Observe

SpecL == InitL /\ [][NextL]_varsL

\* The index misses a ticket in the moment between the two steps of a change to it,
\* or after a delete that has failed to remove the file and until a create of it or
\* a restart: at no other time, also where updates, comments and a second delete
\* follow the failed one.
IndexMissesOnlyCut ==
    \A t \in Tickets \ cut :
        md[t] # None /\ ~ Unsettled(t) => t \in MatchLabels(index, md[t].labels)

\* A list that succeeds has found every ticket that matched all the time while
\* it ran, also when the ticket was rewritten meanwhile: an update that keeps a
\* label never takes the ticket out of the index under it.
ListComplete ==
    \A w \in Workers : Lists(w) /\ pc[w] = "done" /\ res[w] = "ok" => kept[w] \subseteq hits[w]

\* A list returns no ticket that has not matched while it ran, whatever the
\* index says: an overwritten ticket, a deleted set and every plan leave wrong
\* entries behind, and the filter is checked again on the file.
ListSound == \A w \in Workers : hits[w] \subseteq seen[w]

=============================================================================
