--------------------------- MODULE MetaPlanStore ---------------------------
(***************************************************************************)
(* The meta-plans of one tracking set.                                     *)
(*                                                                         *)
(* A meta-plan is two files: its ticket, a markdown file like any other,   *)
(* and a yaml file with its stages and checkpoints.  The store writes,     *)
(* reads and removes them one after the other, the ticket first; an error  *)
(* or a crash may come between.  A meta-plan is there when both files are; *)
(* a list takes the yaml files of the directory and looks for the ticket   *)
(* of each.  The ticket endpoints and the delete of the set know nothing   *)
(* of meta-plans, and change the files as well.                            *)
(*                                                                         *)
(* Clients send one mutation at a time, beside any number of reads.  What  *)
(* a file holds is told apart by the request that wrote it.                *)
(***************************************************************************)
EXTENDS Naturals

CONSTANTS
    Plans,          \* IDs of meta-plans; the service refuses an empty one
    Values,         \* what a request carries
    Workers,        \* goroutines that serve requests
    None

ASSUME NoValueAssumption == None \notin Values

Requests ==
    [op : {"Create", "Update"}, id : Plans, value : Values]
        \cup [op : {"Delete", "Get"}, id : Plans]
        \cup [op : {"List"}]

ASSUME NoRequestAssumption == None \notin Requests

VARIABLES
    md,      \* md[i]: the content of tickets/<i>.md, or None
    yaml,    \* yaml[i]: the content of tickets/<i>.metaplan.yaml, or None
    pc,      \* pc[w]: the next call of worker w
    req,     \* req[w]: the request it serves, or None
    half,    \* half[w]: the plan whose ticket it has read, with it, or None
    todo,    \* todo[w]: the plans it has still to read
    hits,    \* hits[w]: the plans it has read, with ticket and stages
    res,     \* res[w]: the answer
    failed,  \* failed[w]: one of its calls has failed   (read by no step)
    whole    \* whole[w]: the plans that were there all the time since the
             \* request came in                          (read by no step)

disk == <<md, yaml>>
vars == <<md, yaml, pc, req, half, todo, hits, res, failed, whole>>

-----------------------------------------------------------------------------

Whole(i) == md[i] # None /\ yaml[i] # None

Mutates(q) == q.op \in {"Create", "Update", "Delete"}

Quiet == \A w \in Workers : pc[w] # "idle" => ~ Mutates(req[w])

Init ==
    /\ md = [i \in Plans |-> None]
    /\ yaml = [i \in Plans |-> None]
    /\ pc = [w \in Workers |-> "idle"]
    /\ req = [w \in Workers |-> None]
    /\ half = [w \in Workers |-> None]
    /\ todo = [w \in Workers |-> {}]
    /\ hits = [w \in Workers |-> {}]
    /\ res = [w \in Workers |-> "ok"]
    /\ failed = [w \in Workers |-> FALSE]
    /\ whole = [w \in Workers |-> {}]

\* The first call of each method of the store.
FirstStep(q) ==
    CASE q.op = "Create" -> "writeTicket"
      [] q.op = "Update" -> "readOld"
      [] q.op = "Delete" -> "removeTicket"
      [] q.op = "Get" -> "readTicket"
      [] q.op = "List" -> "scan"

\* A mutation that comes in waits for the others; so do the ticket endpoints.
Begin(w, q) ==
    /\ pc[w] = "idle"
    /\ Mutates(q) => Quiet
    /\ req' = [req EXCEPT ![w] = q]
    /\ pc' = [pc EXCEPT ![w] = FirstStep(q)]
    /\ todo' = [todo EXCEPT ![w] = IF q.op = "Get" THEN {q.id} ELSE {}]
    /\ UNCHANGED <<md, yaml, half, hits, res, failed>>

Goes(w, step) ==
    /\ pc' = [pc EXCEPT ![w] = step]
    /\ UNCHANGED <<req, half, todo, hits, res, failed>>

Answer(w, r) ==
    /\ pc' = [pc EXCEPT ![w] = "done"]
    /\ res' = [res EXCEPT ![w] = r]
    /\ half' = [half EXCEPT ![w] = None]
    /\ todo' = [todo EXCEPT ![w] = {}]
    /\ hits' = [hits EXCEPT ![w] = IF r = "ok" THEN @ ELSE {}]
    /\ UNCHANGED <<req, failed>>

-----------------------------------------------------------------------------
(***************************************************************************)
(* Writes.                                                                 *)
(***************************************************************************)

\* Update keeps the creation time of the ticket it finds.
ReadOld(w) ==
    /\ pc[w] = "readOld"
    /\ IF md[req[w].id] = None THEN Answer(w, "notfound") ELSE Goes(w, "writeTicket")
    /\ UNCHANGED disk

WriteYamlFirst(w) ==
    /\ pc[w] = "writeTicket"
    /\ yaml' = [yaml EXCEPT ![req[w].id] = req[w].value]
    /\ Goes(w, "writeYaml")
    /\ UNCHANGED md

\* A create does not look whether there is such a plan.
WriteTicket(w) ==
    /\ pc[w] = "writeTicket"
    /\ md' = [md EXCEPT ![req[w].id] = req[w].value]
    /\ Goes(w, "writeYaml")
    /\ UNCHANGED yaml

\* The service reads an updated plan once more, to answer with it.
WriteYaml(w) ==
    /\ pc[w] = "writeYaml"
    /\ yaml' = [yaml EXCEPT ![req[w].id] = req[w].value]
    /\ \/ req[w].op = "Create" /\ Answer(w, "ok")
       \/ /\ req[w].op = "Update"
          /\ pc' = [pc EXCEPT ![w] = "readTicket"]
          /\ todo' = [todo EXCEPT ![w] = {req[w].id}]
          /\ UNCHANGED <<req, half, hits, res, failed>>
    /\ UNCHANGED md

\* The yaml file is removed even when the ticket cannot be; until then res[w]
\* is how the removal of the ticket went.
ThenYaml(w, r) ==
    /\ pc' = [pc EXCEPT ![w] = "removeYaml"]
    /\ res' = [res EXCEPT ![w] = r]
    /\ UNCHANGED <<req, half, todo, hits, failed>>

RemoveTicketOrEnd(w) ==
    /\ pc[w] = "removeTicket"
    /\ md' = [md EXCEPT ![req[w].id] = None]
    /\ IF md[req[w].id] = None THEN Answer(w, "notfound") ELSE ThenYaml(w, "ok")
    /\ UNCHANGED yaml

RemoveTicket(w) ==
    /\ pc[w] = "removeTicket"
    /\ md' = [md EXCEPT ![req[w].id] = None]
    /\ ThenYaml(w, IF md[req[w].id] = None THEN "notfound" ELSE "ok")
    /\ UNCHANGED yaml

\* What happened to the ticket is answered first.
Worst(ticketRes, yamlRes) == IF ticketRes = "ok" THEN yamlRes ELSE ticketRes

RemoveYaml(w) ==
    /\ pc[w] = "removeYaml"
    /\ yaml' = [yaml EXCEPT ![req[w].id] = None]
    /\ Answer(w, Worst(res[w], IF yaml[req[w].id] = None THEN "notfound" ELSE "ok"))
    /\ UNCHANGED md

-----------------------------------------------------------------------------
(***************************************************************************)
(* Reads.                                                                  *)
(***************************************************************************)

Scan(w) ==
    /\ pc[w] = "scan"
    /\ todo' = [todo EXCEPT ![w] = {i \in Plans : yaml[i] # None}]
    /\ pc' = [pc EXCEPT ![w] = "readTicket"]
    /\ UNCHANGED <<md, yaml, req, half, hits, res, failed>>

ReadTicket(w, i) ==
    /\ pc[w] = "readTicket"
    /\ i \in todo[w]
    /\ md[i] # None
    /\ half' = [half EXCEPT ![w] = <<i, md[i]>>]
    /\ pc' = [pc EXCEPT ![w] = "readYaml"]
    /\ UNCHANGED <<md, yaml, req, todo, hits, res, failed>>

ReadYamlUnchecked(w) ==
    /\ pc[w] = "readYaml"
    /\ LET i == half[w][1] IN
          /\ hits' = [hits EXCEPT ![w] = @ \cup {<<i, half[w][2], yaml[i]>>}]
          /\ todo' = [todo EXCEPT ![w] = @ \ {i}]
    /\ half' = [half EXCEPT ![w] = None]
    /\ pc' = [pc EXCEPT ![w] = "readTicket"]
    /\ UNCHANGED <<md, yaml, req, res, failed>>

ReadYaml(w) ==
    /\ pc[w] = "readYaml"
    /\ LET i == half[w][1] IN
          /\ yaml[i] # None
          /\ hits' = [hits EXCEPT ![w] = @ \cup {<<i, half[w][2], yaml[i]>>}]
          /\ todo' = [todo EXCEPT ![w] = @ \ {i}]
    /\ half' = [half EXCEPT ![w] = None]
    /\ pc' = [pc EXCEPT ![w] = "readTicket"]
    /\ UNCHANGED <<md, yaml, req, res, failed>>

HalfMissing(w) ==
    \/ pc[w] = "readTicket" /\ \E i \in todo[w] : md[i] = None
    \/ pc[w] = "readYaml" /\ yaml[half[w][1]] = None

HalfGoneSkipped(w) ==
    /\ HalfMissing(w)
    /\ Answer(w, IF req[w].op = "List" THEN "ok" ELSE "notfound")
    /\ UNCHANGED disk

\* One plan without its ticket, or one that goes away while the list runs, fails
\* the whole list.
HalfGone(w) ==
    /\ HalfMissing(w)
    /\ Answer(w, IF req[w].op = "List" THEN "error" ELSE "notfound")
    /\ UNCHANGED disk

AllRead(w) ==
    /\ pc[w] = "readTicket"
    /\ todo[w] = {}
    /\ Answer(w, "ok")
    /\ UNCHANGED disk

-----------------------------------------------------------------------------

\* A file-system call fails.
IOError(w) ==
    /\ pc[w] \notin {"idle", "done"}
    /\ failed' = [failed EXCEPT ![w] = TRUE]
    /\ \/ /\ pc[w] = "removeTicket"
          /\ pc' = [pc EXCEPT ![w] = "removeYaml"]
          /\ res' = [res EXCEPT ![w] = "error"]
          /\ UNCHANGED <<half, todo, hits>>
       \/ /\ pc[w] # "removeTicket"
          /\ pc' = [pc EXCEPT ![w] = "done"]
          /\ res' = [res EXCEPT ![w] = Worst(@, "error")]
          /\ half' = [half EXCEPT ![w] = None]
          /\ todo' = [todo EXCEPT ![w] = {}]
          /\ hits' = [hits EXCEPT ![w] = {}]
    /\ UNCHANGED <<md, yaml, req>>

Respond(w) ==
    /\ pc[w] = "done"
    /\ pc' = [pc EXCEPT ![w] = "idle"]
    /\ req' = [req EXCEPT ![w] = None]
    /\ hits' = [hits EXCEPT ![w] = {}]
    /\ res' = [res EXCEPT ![w] = "ok"]
    /\ failed' = [failed EXCEPT ![w] = FALSE]
    /\ UNCHANGED <<md, yaml, half, todo>>

\* The ticket endpoints write and remove the ticket of a meta-plan as any other.
TicketEndpoint(i) ==
    /\ Quiet
    /\ \E v \in Values \cup {None} : md' = [md EXCEPT ![i] = v]
    /\ UNCHANGED <<yaml, pc, req, half, todo, hits, res, failed>>

\* Deleting the tracking set removes the files in the order it finds them.
DropFile(i) ==
    /\ Quiet
    /\ \/ md' = [md EXCEPT ![i] = None] /\ UNCHANGED yaml
       \/ yaml' = [yaml EXCEPT ![i] = None] /\ UNCHANGED md
    /\ UNCHANGED <<pc, req, half, todo, hits, res, failed>>

\* The program stops at any point and starts again.
Crash ==
    /\ pc' = [w \in Workers |-> "idle"]
    /\ req' = [w \in Workers |-> None]
    /\ half' = [w \in Workers |-> None]
    /\ todo' = [w \in Workers |-> {}]
    /\ hits' = [w \in Workers |-> {}]
    /\ res' = [w \in Workers |-> "ok"]
    /\ failed' = [w \in Workers |-> FALSE]
    /\ UNCHANGED disk

Step(w) ==
    \/ ReadOld(w)       \/ WriteTicket(w)  \/ WriteYaml(w)
    \/ RemoveTicket(w)  \/ RemoveYaml(w)
    \/ Scan(w)          \/ ReadYaml(w)     \/ HalfGone(w)   \/ AllRead(w)
    \/ \E i \in Plans : ReadTicket(w, i)
    \/ Respond(w)

Observe ==
    whole' = [w \in Workers |-> {i \in IF pc[w] = "idle" THEN Plans ELSE whole[w] : Whole(i)'}]

Next ==
    /\ \/ \E w \in Workers : Step(w) \/ IOError(w) \/ \E q \in Requests : Begin(w, q)
       \/ \E i \in Plans : TicketEndpoint(i) \/ DropFile(i)
       \/ Crash
    /\ Observe

Spec == Init /\ [][Next]_vars

-----------------------------------------------------------------------------
(***************************************************************************)
(* Properties.                                                             *)
(***************************************************************************)

Steps ==
    {"idle", "readOld", "writeTicket", "writeYaml", "removeTicket", "removeYaml", "scan",
     "readTicket", "readYaml", "done"}

Serves(w, ops) == req[w] # None /\ req[w].op \in ops

\* The files hold what requests carry, and a worker waits at a call only with a
\* request that makes it and with what the calls before it have read.
TypeOK ==
    /\ md \in [Plans -> Values \cup {None}]
    /\ yaml \in [Plans -> Values \cup {None}]
    /\ pc \in [Workers -> Steps]
    /\ req \in [Workers -> Requests \cup {None}]
    /\ half \in [Workers -> (Plans \X Values) \cup {None}]
    /\ todo \in [Workers -> SUBSET Plans]
    /\ hits \in [Workers -> SUBSET (Plans \X Values \X Values)]
    /\ res \in [Workers -> {"ok", "notfound", "error"}]
    /\ failed \in [Workers -> BOOLEAN]
    /\ whole \in [Workers -> SUBSET Plans]
    /\ \A w \in Workers :
          /\ pc[w] = "idle" <=> req[w] = None
          /\ pc[w] = "readOld" => Serves(w, {"Update"})
          /\ pc[w] \in {"writeTicket", "writeYaml"} => Serves(w, {"Create", "Update"})
          /\ pc[w] \in {"removeTicket", "removeYaml"} => Serves(w, {"Delete"})
          /\ pc[w] = "scan" => Serves(w, {"List"})
          /\ pc[w] \in {"readTicket", "readYaml"} => Serves(w, {"Get", "Update", "List"})
          /\ pc[w] = "readYaml" => half[w] \in Plans \X Values /\ half[w][1] \in todo[w]

\* A mutation that succeeds has changed both files: a create and an update leave
\* the plan of the request, which an update also answers with, and a delete
\* nothing.  So does a delete that is answered "not found", unless a call of it
\* has failed: tried again, it removes what a delete that was cut has left.
MutationsAreWhole ==
    \A w \in Workers : pc[w] = "done" =>
        /\ Serves(w, {"Create", "Update"}) /\ res[w] = "ok" =>
              md[req[w].id] = req[w].value /\ yaml[req[w].id] = req[w].value
        /\ Serves(w, {"Update"}) /\ res[w] = "ok" =>
              hits[w] = {<<req[w].id, req[w].value, req[w].value>>}
        /\ Serves(w, {"Delete"}) /\ (res[w] = "ok" \/ ~ failed[w]) =>
              md[req[w].id] = None /\ yaml[req[w].id] = None

Orphan(i) == yaml[i] # None /\ md[i] = None

\* A yaml file without a ticket, which fails every list, is left only by a step
\* that removes the ticket: in whatever state errors and crashes have left the
\* files, none is written for a plan that has no ticket.
OrphanByDelete == [][\A i \in Plans : Orphan(i)' /\ ~ Orphan(i) => yaml'[i] = yaml[i]]_vars

\* A read finds each plan that is there all the time while it runs, whatever
\* happens to this one and to others: a get does not miss it, and a list that
\* succeeds has it.
ReadsFindWhole ==
    \A w \in Workers : pc[w] = "done" =>
        /\ Serves(w, {"Get"}) /\ res[w] = "notfound" => req[w].id \notin whole[w]
        /\ Serves(w, {"List"}) /\ res[w] = "ok" =>
              \A i \in whole[w] : \E a, b \in Values : <<i, a, b>> \in hits[w]
=============================================================================
