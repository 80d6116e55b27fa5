--------------------------- MODULE MCTicketLists ---------------------------
(* Small instances of TicketLists for TLC. *)
EXTENDS TicketLists, TLC

Symmetry == Permutations(Tickets) \cup Permutations(Labels) \cup Permutations(Workers)

\* No step reads seen, kept or cut: a run whose properties do not read one of them
\* can leave it out.
WithoutSeen == <<md, index, pc, req, mem, todo, hits, res, kept, cut>>
OnlySeen == <<md, index, pc, req, mem, todo, hits, res, seen>>

\* Two tickets with one label, or one ticket with two.
Changing(w) == pc[w] # "idle" /\ Mutates(req[w])

TicketUnused(t) ==
    /\ md[t] = None
    /\ \A l \in Labels : t \notin index[l]
    /\ \A w \in Workers : Changing(w) => req[w].id # t

LabelUnused(l) ==
    /\ index[l] = {}
    /\ \A t \in Tickets : md[t] # None => l \notin md[t].labels
    /\ \A w \in Workers : Changing(w) /\ req[w].op \in {"Create", "Update"} => l \notin req[w].labels

OneAndTwo == (\E t \in Tickets : TicketUnused(t)) \/ (\E l \in Labels : LabelUnused(l))
=============================================================================
