------------------------------ MODULE SetLists ------------------------------
(***************************************************************************)
(* The list of tracking sets beside the requests of GraphStore.            *)
(*                                                                         *)
(* One more goroutine lists the sets: it reads the directory above them    *)
(* once, and then one graph file after the other while sets come and go    *)
(* and graphs are renamed into place.  It gives up at the first directory  *)
(* without a graph.  A variable that no step reads, kept, watches it: the  *)
(* sets whose graph has been there all the time since the list came in.    *)
(***************************************************************************)
EXTENDS GraphStore

VARIABLES
    lpc,    \* the next step of the list
    todo,   \* the directories it has still to look into
    hits,   \* the sets it has found
    lres,   \* its answer
    kept

lister == <<lpc, todo, hits, lres>>
varsL == <<yaml, dir, pc, req, ts, res, lpc, todo, hits, lres, kept>>

Present == {s \in Sets : yaml[s] # None}

InitL ==
    /\ Init
    /\ lpc = "idle" /\ todo = {} /\ hits = {} /\ lres = "ok"
    /\ kept = {}

-----------------------------------------------------------------------------

BeginList ==
    /\ lpc = "idle"
    /\ lpc' = "begin"
    /\ kept' = Present
    /\ UNCHANGED <<vars, todo, hits, lres>>

\* A set's directory is listed whether or not it has a graph.
ReadSetsDir ==
    /\ lpc = "begin"
    /\ lpc' = "read"
    /\ todo' = {s \in Sets : dir[s] # "none"}
    /\ UNCHANGED <<vars, hits, lres, kept>>

ReadSet(s) ==
    /\ lpc = "read"
    /\ s \in todo
    /\ yaml[s] # None
    /\ todo' = todo \ {s}
    /\ hits' = hits \cup {s}
    /\ UNCHANGED <<vars, lpc, lres, kept>>

\* The list returns r, with what it has found if it succeeds.
AnswerList(r) ==
    /\ lpc' = "done"
    /\ lres' = r
    /\ todo' = {}
    /\ hits' = IF r = "ok" THEN hits ELSE {}
    /\ UNCHANGED <<vars, kept>>

SetWithoutGraphEnds(s) == lpc = "read" /\ s \in todo /\ yaml[s] = None /\ AnswerList("ok")

\* A directory without a graph, of a set that is being created or deleted or
\* that only a ticket write has made, fails the list.
SetWithoutGraph(s) == lpc = "read" /\ s \in todo /\ yaml[s] = None /\ AnswerList("error")

ListFails == lpc \in {"begin", "read"} /\ AnswerList("error")

ListEnds == lpc = "read" /\ todo = {} /\ AnswerList("ok")

RespondList ==
    /\ lpc = "done"
    /\ lpc' = "idle" /\ todo' = {} /\ hits' = {} /\ lres' = "ok"
    /\ kept' = {}
    /\ UNCHANGED vars

ListStep ==
    \/ ReadSetsDir \/ ListEnds \/ RespondList
    \/ \E s \in Sets : ReadSet(s) \/ SetWithoutGraph(s)

\* Another request, or a ticket write, takes a step.
Elsewhere ==
    /\ \/ \E w \in Workers : Step(w) \/ IOError(w) \/ \E q \in Requests : Begin(w, q)
       \/ \E s \in Sets : MakeTicketDir(s)
    /\ kept' = kept \cap Present'
    /\ UNCHANGED lister

CrashL ==
    /\ Crash
    /\ lpc' = "idle" /\ todo' = {} /\ hits' = {} /\ lres' = "ok"
    /\ kept' = {}

NextL == BeginList \/ ListStep \/ ListFails \/ Elsewhere \/ CrashL

SpecL == InitL /\ [][NextL]_varsL

-----------------------------------------------------------------------------

\* A list that succeeds has every set whose graph was there all the time: no
\* set that is created, deleted or written meanwhile makes it skip another, and
\* a set is never in its directory without being where the list looks for it.
SetsComplete == lpc = "done" /\ lres = "ok" => kept \subseteq hits
=============================================================================
