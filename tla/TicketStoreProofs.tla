------------------------- MODULE TicketStoreProofs -------------------------
(***************************************************************************)
(* Proofs about TicketStore, for every set of tickets, labels, comments    *)
(* and workers.                                                            *)
(***************************************************************************)
EXTENDS TicketStore, TLAPS

\* What a request carries depends on its operation alone.
LEMMA RequestFields ==
    ASSUME NEW q \in Requests
    PROVE  /\ q.op \in {"Create", "Update", "Delete", "AddComment", "Get", "List", "ListPlans"}
           /\ q.op \notin {"List", "ListPlans"} => q.id \in Tickets
           /\ q.op \in {"Create", "Update", "Delete"} => q.kind \in Kinds
           /\ q.op \in {"Create", "Update", "List", "ListPlans"} => q.labels \in SUBSET Labels
           /\ q.op = "AddComment" => q.comment \in Comments
  BY DEF Requests

\* A worker that is not idle serves a request.
LEMMA Serving ==
    ASSUME TypeOK, NEW w \in Workers, pc[w] # "idle"
    PROVE  req[w] \in Requests
  BY DEF TypeOK

\* The calls of the index keep it an index.
LEMMA IndexTyped ==
    ASSUME NEW ix \in [Labels -> SUBSET Tickets], NEW t \in Tickets, NEW K, NEW L
    PROVE  /\ Add(ix, t, L) \in [Labels -> SUBSET Tickets]
           /\ Remove(ix, t, L) \in [Labels -> SUBSET Tickets]
           /\ Update(ix, t, K, L) \in [Labels -> SUBSET Tickets]
  BY DEF Add, Remove, Update

-----------------------------------------------------------------------------
(***************************************************************************)
(* Type correctness.                                                       *)
(***************************************************************************)

\* A worker that answers leaves a well-typed state, whatever it did to the
\* files and the index.
LEMMA AnswerTyped ==
    ASSUME TypeOK, NEW w \in Workers, pc[w] # "idle",
           NEW r \in {"ok", "notfound", "error"}, Answer(w, r),
           md' \in [Tickets -> Contents \cup {None}], index' \in [Labels -> SUBSET Tickets]
    PROVE  TypeOK'
  BY DEF TypeOK, Answer, Goes, Steps

\* Every step keeps the types.
LEMMA TypeStep == TypeOK /\ [Next]_vars => TypeOK'
  <1> SUFFICES ASSUME TypeOK, [Next]_vars PROVE TypeOK'
    OBVIOUS
  <1>1. ASSUME NEW w \in Workers, NEW q \in Requests, Begin(w, q) PROVE TypeOK'
    <2>1. q # None
      BY NoRequestAssumption
    <2>2. /\ FirstStep(q) \in {"begin", "write", "remove"}
          /\ FirstStep(q) = "begin" => q.op # "Create"
          /\ FirstStep(q) = "write" => q.op = "Create"
          /\ FirstStep(q) = "remove" => q.op = "Delete"
      BY DEF FirstStep
    <2> QED BY <1>1, <2>1, <2>2 DEF Begin, Goes, TypeOK, Steps
  <1>2. ASSUME NEW w \in Workers, Step(w) PROVE TypeOK'
    <2>1. CASE NotFound(w)
      BY <2>1, AnswerTyped DEF NotFound, ReadOp, files, TypeOK
    <2>2. CASE Read(w)
      <3>1. File(w) \in Contents
        BY <2>2, Serving, RequestFields DEF Read, ReadOp, File, TypeOK
      <3> QED BY <2>2, <3>1, NoContentAssumption DEF Read, ReadOp, Goes, TypeOK, Steps
    <2>3. CASE WriteTicket(w)
      <3>1. req[w] \in Requests /\ req[w].id \in Tickets /\ req[w].labels \in SUBSET Labels
        BY <2>3, Serving, RequestFields DEF WriteTicket
      <3>2. md' \in [Tickets -> Contents \cup {None}] /\ index' = index
        BY <2>3, <3>1 DEF WriteTicket, WriteFile, Contents, TypeOK
      <3>3. CASE Answer(w, "ok")
        BY <2>3, <3>2, <3>3, AnswerTyped DEF WriteTicket, TypeOK
      <3>4. CASE ~ Answer(w, "ok")
        BY <2>3, <3>2, <3>4 DEF WriteTicket, Goes, TypeOK, Steps
      <3> QED BY <3>3, <3>4
    <2>4. CASE IndexCreated(w)
      <3>1. index' \in [Labels -> SUBSET Tickets]
        BY <2>4, Serving, RequestFields, IndexTyped DEF IndexCreated, At, TypeOK
      <3> QED BY <2>4, <3>1, AnswerTyped DEF IndexCreated, At, TypeOK
    <2>5. CASE IndexUpdated(w)
      <3>1. index' \in [Labels -> SUBSET Tickets]
        BY <2>5, Serving, RequestFields, IndexTyped DEF IndexUpdated, At, TypeOK
      <3> QED BY <2>5, <3>1, AnswerTyped DEF IndexUpdated, At, TypeOK
    <2>6. CASE WriteComment(w)
      <3>1. req[w] \in Requests /\ req[w].id \in Tickets /\ req[w].comment \in Comments
        BY <2>6, Serving, RequestFields DEF WriteComment, At
      <3>2. mem[w] \in Contents
        BY <2>6 DEF WriteComment, At, TypeOK
      <3>3. md' \in [Tickets -> Contents \cup {None}]
        BY <2>6, <3>1, <3>2 DEF WriteComment, WriteFile, Contents, TypeOK
      <3> QED BY <2>6, <3>3, AnswerTyped DEF WriteComment, At, TypeOK
    <2>7. CASE ReadForDelete(w)
      <3>1. File(w) \in Contents \cup {None}
        BY <2>7, Serving, RequestFields DEF ReadForDelete, At, File, TypeOK
      <3> QED BY <2>7, <3>1 DEF ReadForDelete, At, Goes, TypeOK, Steps
    <2>8. CASE Unindex(w)
      <3>1. index' \in [Labels -> SUBSET Tickets]
        BY <2>8, Serving, RequestFields, IndexTyped DEF Unindex, At, TypeOK
      <3> QED BY <2>8, <3>1 DEF Unindex, At, Goes, TypeOK, Steps
    <2>9. CASE RemoveFile(w)
      BY <2>9, AnswerTyped DEF RemoveFile, WriteFile, TypeOK
    <2>10. CASE AskIndex(w)
      <3>1. Candidates(w) \in SUBSET Tickets
        BY DEF Candidates, MatchLabels
      <3> QED BY <2>10, <3>1 DEF AskIndex, At, Goes, TypeOK, Steps
    <2>11. CASE ReadDir(w)
      BY <2>11 DEF ReadDir, Goes, TypeOK, Steps
    <2>12. CASE ListDone(w)
      BY <2>12, AnswerTyped DEF ListDone, files, TypeOK
    <2>13. ASSUME NEW t \in Tickets, ReadListed(w, t) PROVE TypeOK'
      BY <2>13 DEF ReadListed, TypeOK
    <2>14. ASSUME NEW t \in Tickets, ListedFileGone(w, t) PROVE TypeOK'
      BY <2>14, AnswerTyped DEF ListedFileGone, files, TypeOK
    <2>15. CASE Respond(w)
      BY <2>15 DEF Respond, Goes, files, TypeOK, Steps
    <2> QED
      BY <1>2, <2>1, <2>2, <2>3, <2>4, <2>5, <2>6, <2>7, <2>8, <2>9, <2>10, <2>11, <2>12,
         <2>13, <2>14, <2>15 DEF Step
  <1>3. ASSUME NEW w \in Workers, IOError(w) PROVE TypeOK'
    <2>1. pc[w] # "idle"
      BY <1>3, MayFailAssumption DEF IOError
    <2>2. CASE At(w, "begin", "Delete")
      BY <1>3, <2>2 DEF IOError, At, Goes, files, TypeOK, Steps
    <2>3. CASE ~ At(w, "begin", "Delete")
      BY <1>3, <2>1, <2>3, AnswerTyped DEF IOError, files, TypeOK
    <2> QED BY <2>2, <2>3
  <1>4. ASSUME NEW t \in Tickets, DropFile(t) PROVE TypeOK'
    BY <1>4 DEF DropFile, TypeOK
  <1>5. CASE Restart
    BY <1>5 DEF Restart, BuildIndex, TypeOK, Steps
  <1>6. CASE UNCHANGED vars
    BY <1>6 DEF vars, TypeOK
  <1> QED BY <1>1, <1>2, <1>3, <1>4, <1>5, <1>6 DEF Next

\* The program starts in a well-typed state.
LEMMA TypeInit == Init => TypeOK
  BY DEF Init, TypeOK, Steps

\* The files always hold tickets, and a worker waits at a step only with the
\* request that has this step and with what the steps before it have read.
THEOREM TypeCorrect == Spec => []TypeOK
  BY TypeInit, TypeStep, PTL DEF Spec
-----------------------------------------------------------------------------
(***************************************************************************)
(* The index is complete.                                                  *)
(*                                                                         *)
(* IndexComplete is not inductive: an update applies to the index the      *)
(* difference between the labels it has read and those it writes, so the   *)
(* ticket has to be under the labels it has read when the update comes to  *)
(* the index, long after it has read them.                                 *)
(*                                                                         *)
(* It is also not complete for a ticket that a delete has taken out before *)
(* it failed.  So the invariant is about a set S of tickets: a step keeps  *)
(* it for those in S that no delete gives up, and extends it to a ticket   *)
(* that is put back.                                                       *)
(***************************************************************************)

Under(t, L) == t \in MatchLabels(index, L)

\* Mutations of one ticket do not overlap.
OneMutation ==
    \A v, w \in Workers :
        /\ v # w
        /\ pc[v] # "idle" /\ Mutates(req[v])
        /\ pc[w] # "idle" /\ Mutates(req[w])
        => req[v].id # req[w].id

\* What w has read is still in the index, and what it has written is still in
\* the file, unless the tracking set has been deleted.
OnTheWay(w, S) ==
    /\ pc[w] \in {"write", "index"} /\ req[w].op # "Create" /\ req[w].id \in S
          => Under(req[w].id, mem[w].labels)
    /\ pc[w] = "index" => File(w) = None \/ File(w).labels = req[w].labels

CompleteFor(S) ==
    \A t \in S : md[t] # None /\ ~ Unsettled(t) => t \in MatchLabels(index, md[t].labels)

IndexInv(S) == OneMutation /\ CompleteFor(S) /\ \A w \in Workers : OnTheWay(w, S)

\* A change of the ticket of w is half done.
HalfDone(w) == pc[w] = "index" \/ HasUnindexed(w)

\* Adding a ticket puts it under the labels; an update moves it from the labels
\* it was under to the new ones.  Neither touches another ticket.
LEMMA IndexCalls ==
    ASSUME NEW ix \in [Labels -> SUBSET Tickets], NEW t \in Tickets,
           NEW K \in SUBSET Labels, NEW L \in SUBSET Labels
    PROVE  /\ t \in MatchLabels(Add(ix, t, L), L)
           /\ t \in MatchLabels(ix, K) => t \in MatchLabels(Update(ix, t, K, L), L)
           /\ \A u \in Tickets \ {t} : \A l \in Labels :
                 /\ u \in Add(ix, t, L)[l] <=> u \in ix[l]
                 /\ u \in Remove(ix, t, L)[l] <=> u \in ix[l]
                 /\ u \in Update(ix, t, K, L)[l] <=> u \in ix[l]
  BY DEF Add, Remove, Update, MatchLabels

\* A mutation that is under way is the only one of its ticket.
LEMMA OnlyOne ==
    ASSUME TypeOK, OneMutation, NEW v \in Workers, NEW w \in Workers, v # w,
           pc[w] # "idle", Mutates(req[w]),
           pc[v] \in {"write", "index", "unindex", "remove"}
    PROVE  req[v].id # req[w].id
  BY DEF TypeOK, OneMutation, Mutates

\* Worker w moves, and the others stay where they are.
Moves(w) ==
    /\ pc[w] # "idle"
    /\ \A v \in Workers \ {w} : pc'[v] = pc[v] /\ req'[v] = req[v] /\ mem'[v] = mem[v]
    /\ pc'[w] = "idle" \/ req'[w] = req[w]

\* A step that changes neither files nor index and settles nothing.
LEMMA FilesKept ==
    ASSUME NEW S \in SUBSET Tickets, TypeOK, IndexInv(S), NEW w \in Workers, Moves(w),
           UNCHANGED files, ~ HalfDone(w), OnTheWay(w, S)'
    PROVE  IndexInv(S)'
  <1>1. OneMutation'
    BY DEF IndexInv, OneMutation, Moves, Mutates
  <1>2. CompleteFor(S)'
    <2> SUFFICES ASSUME NEW t \in S, md'[t] # None, ~ Unsettled(t)'
                 PROVE  t \in MatchLabels(index, md[t].labels)
      BY DEF CompleteFor, MatchLabels, files
    <2>1. ~ Unsettled(t)
      BY DEF Unsettled, Removing, HasUnindexed, HalfDone, Moves
    <2> QED BY <2>1 DEF IndexInv, CompleteFor, files
  <1>3. ASSUME NEW v \in Workers PROVE OnTheWay(v, S)'
    BY DEF IndexInv, OnTheWay, Under, MatchLabels, File, Moves, files
  <1> QED BY <1>1, <1>2, <1>3 DEF IndexInv

\* A step of a mutation that changes the file or the index entries of its own
\* ticket, and leaves that ticket indexed or unsettled, if it is one of R.
LEMMA TicketChanged ==
    ASSUME NEW S \in SUBSET Tickets, TypeOK, IndexInv(S), NEW w \in Workers, Moves(w),
           Mutates(req[w]), req[w].id \in Tickets,
           NEW R \in SUBSET (S \cup {req[w].id}), OnTheWay(w, R)',
           \A u \in Tickets \ {req[w].id} :
              md'[u] = md[u] /\ \A l \in Labels : u \in index'[l] <=> u \in index[l],
           req[w].id \in R /\ md'[req[w].id] # None /\ ~ HalfDone(w)'
              => req[w].id \in MatchLabels(index', md'[req[w].id].labels)
    PROVE  IndexInv(R)'
  <1>1. OneMutation'
    BY DEF IndexInv, OneMutation, Moves, Mutates
  <1>2. CompleteFor(R)'
    <2> SUFFICES ASSUME NEW t \in R, md'[t] # None, ~ Unsettled(t)'
                 PROVE  t \in MatchLabels(index', md'[t].labels)
      BY DEF CompleteFor
    <2>1. CASE t = req[w].id
      <3>1. ~ HalfDone(w)'
        BY <2>1 DEF Unsettled, Removing, HasUnindexed, HalfDone, Moves
      <3> QED BY <2>1, <3>1
    <2>2. CASE t # req[w].id
      <3>1. ~ Unsettled(t)
        BY <2>2 DEF Unsettled, Removing, HasUnindexed, Moves
      <3>2. t \in S /\ md'[t] = md[t] /\ md[t].labels \in SUBSET Labels
        BY <2>2 DEF TypeOK, Contents
      <3> QED BY <2>2, <3>1, <3>2 DEF IndexInv, CompleteFor, MatchLabels
    <2> QED BY <2>1, <2>2
  <1>3. ASSUME NEW v \in Workers, v # w PROVE OnTheWay(v, R)'
    <2>1. pc'[v] = pc[v] /\ req'[v] = req[v] /\ mem'[v] = mem[v] /\ OnTheWay(v, S)
      BY <1>3 DEF Moves, IndexInv
    <2> SUFFICES ASSUME pc[v] \in {"write", "index"} PROVE OnTheWay(v, R)'
      BY <2>1 DEF OnTheWay
    <2>2. req[v].id \in Tickets \ {req[w].id}
      BY <1>3, OnlyOne, Serving, RequestFields DEF IndexInv, Moves, TypeOK
    <2>3. req[v].op # "Create" => mem[v].labels \in SUBSET Labels
      BY DEF TypeOK, Contents
    <2>4. req[v].id \in R => req[v].id \in S
      BY <2>2
    <2> QED BY <2>1, <2>2, <2>3, <2>4 DEF OnTheWay, Under, MatchLabels, File
  <1> QED BY <1>1, <1>2, <1>3 DEF IndexInv

\* What holds for tickets holds for some of them.
LEMMA IndexInvFewer ==
    ASSUME NEW S, NEW R \in SUBSET S, IndexInv(S)'
    PROVE  IndexInv(R)'
  BY DEF IndexInv, CompleteFor, OnTheWay

\* A restart makes the index complete for every ticket.
LEMMA RestartComplete ==
    ASSUME TypeOK, Restart
    PROVE  IndexInv(Tickets)'
  <1>1. OneMutation' /\ \A v \in Workers : OnTheWay(v, Tickets)'
    BY DEF Restart, OneMutation, OnTheWay
  <1>2. CompleteFor(Tickets)'
    <2> SUFFICES ASSUME NEW t \in Tickets, md[t] # None
                 PROVE  t \in MatchLabels(BuildIndex(md), md[t].labels)
      BY DEF Restart, CompleteFor
    <2>1. md[t].labels \in SUBSET Labels
      BY DEF TypeOK, Contents
    <2> QED BY <2>1 DEF BuildIndex, MatchLabels
  <1> QED BY <1>1, <1>2 DEF IndexInv

\* A create makes it complete for the ticket it has written.
LEMMA CreateComplete ==
    ASSUME TypeOK, NEW S \in SUBSET Tickets, IndexInv(S), NEW w \in Workers, IndexCreated(w)
    PROVE  \A R \in SUBSET (S \cup {req[w].id}) : IndexInv(R)'
  <1>1. /\ req[w] \in Requests /\ req[w].id \in Tickets /\ pc[w] = "index" /\ Mutates(req[w])
        /\ req[w].labels \in SUBSET Labels
    BY Serving, RequestFields DEF IndexCreated, At, Mutates
  <1>2. /\ md' = md /\ Moves(w) /\ \A R : OnTheWay(w, R)'
        /\ index' = Add(index, req[w].id, req[w].labels)
    BY <1>1 DEF IndexCreated, Answer, Goes, Moves, OnTheWay, TypeOK
  <1>3. /\ req[w].id \in MatchLabels(index', req[w].labels)
        /\ \A u \in Tickets \ {req[w].id} : \A l \in Labels : u \in index'[l] <=> u \in index[l]
    BY <1>1, <1>2, IndexCalls DEF TypeOK
  <1>4. md[req[w].id] = None \/ md[req[w].id].labels = req[w].labels
    BY <1>1 DEF IndexInv, OnTheWay, File
  <1> QED BY <1>1, <1>2, <1>3, <1>4, TicketChanged

\* Every step keeps the index complete for the tickets that no delete gives up.
LEMMA IndexKept ==
    ASSUME IndexMaintained, TypeOK, NEW S \in SUBSET Tickets, IndexInv(S), [Next]_vars,
           \A w \in Workers : HasUnindexed(w) /\ IOError(w) => req[w].id \notin S
    PROVE  IndexInv(S)'
  <1>1. ASSUME NEW w \in Workers, NEW q \in Requests, Begin(w, q) PROVE IndexInv(S)'
    <2>1. pc[w] = "idle" /\ pc'[w] = FirstStep(q) /\ req'[w] = q
      BY <1>1 DEF Begin, Goes, TypeOK
    <2>2. /\ \A v \in Workers \ {w} : pc'[v] = pc[v] /\ req'[v] = req[v] /\ mem'[v] = mem[v]
          /\ UNCHANGED files
      BY <1>1 DEF Begin, Goes, TypeOK, files
    <2>3. FirstStep(q) \in {"begin", "write"} /\ (FirstStep(q) = "write" => q.op = "Create")
      BY RequestFields DEF IndexMaintained, FirstStep
    <2>4. OneMutation'
      <3> SUFFICES ASSUME NEW v \in Workers \ {w}, pc[v] # "idle", Mutates(req[v]), Mutates(q)
                   PROVE  req[v].id # q.id
        BY <2>1, <2>2 DEF IndexInv, OneMutation, Mutates
      <3> QED BY <1>1 DEF Begin, IndexMaintained
    <2>5. CompleteFor(S)'
      <3> SUFFICES ASSUME NEW t \in S, md'[t] # None, ~ Unsettled(t)'
                   PROVE  t \in MatchLabels(index, md[t].labels)
        BY <2>2 DEF CompleteFor, MatchLabels, files
      <3>1. ~ Unsettled(t)
        BY <2>1, <2>2 DEF Unsettled, Removing, HasUnindexed
      <3> QED BY <2>2, <3>1 DEF IndexInv, CompleteFor, files
    <2>6. ASSUME NEW v \in Workers PROVE OnTheWay(v, S)'
      BY <2>1, <2>2, <2>3 DEF IndexInv, OnTheWay, Under, MatchLabels, File, files
    <2> QED BY <2>4, <2>5, <2>6 DEF IndexInv
  <1>2. ASSUME NEW w \in Workers, NEW r, Answer(w, r), UNCHANGED files,
               pc[w] # "idle", ~ HalfDone(w)
        PROVE  IndexInv(S)'
    <2>1. Moves(w) /\ OnTheWay(w, S)'
      BY <1>2 DEF Answer, Goes, Moves, OnTheWay, TypeOK
    <2> QED BY <1>2, <2>1, FilesKept
  <1> USE DEF HalfDone, HasUnindexed
  <1>3. ASSUME NEW w \in Workers, Step(w) PROVE IndexInv(S)'
    <2>1. CASE NotFound(w)
      BY <2>1, <1>2 DEF NotFound, ReadOp
    <2>2. CASE Read(w)
      <3>1. req[w] \in Requests /\ req[w].id \in Tickets /\ pc[w] = "begin" /\ File(w) # None
        BY <2>2, Serving, RequestFields DEF Read, ReadOp
      <3>2. Moves(w) /\ UNCHANGED files /\ mem'[w] = File(w) /\ req'[w] = req[w]
            /\ pc'[w] = IF req[w].op = "Get" THEN "done" ELSE "write"
        BY <2>2 DEF Read, ReadOp, Goes, Moves, TypeOK, files
      <3>3. Mutates(req[w]) => ~ Unsettled(req[w].id)
        <4> SUFFICES ASSUME Mutates(req[w]), NEW v \in Workers, pc[v] \in {"index", "remove"}
                     PROVE  req[v].id # req[w].id
          BY DEF Unsettled, Removing
        <4> QED BY <3>1, OnlyOne DEF IndexInv
      <3>4. OnTheWay(w, S)'
        BY <2>2, <3>1, <3>2, <3>3
        DEF Read, ReadOp, Mutates, OnTheWay, IndexInv, CompleteFor, Under, MatchLabels, File, files
      <3> QED BY <3>1, <3>2, <3>4, FilesKept
    <2>3. CASE WriteTicket(w)
      <3>1. /\ req[w] \in Requests /\ req[w].id \in Tickets /\ pc[w] = "write"
            /\ Mutates(req[w]) /\ req[w].kind = "ticket"
        BY <2>3, Serving, RequestFields DEF WriteTicket, Mutates, IndexMaintained
      <3>2. /\ pc'[w] = "index" /\ req' = req /\ mem' = mem /\ index' = index
            /\ md' = [md EXCEPT ![req[w].id] = [labels |-> req[w].labels, comments |-> {}]]
            /\ Moves(w)
        BY <2>3, <3>1 DEF WriteTicket, WriteFile, Goes, Moves, TypeOK
      <3>3. OnTheWay(w, S)'
        BY <3>1, <3>2 DEF IndexInv, OnTheWay, Under, MatchLabels, File, TypeOK
      <3> QED BY <3>1, <3>2, <3>3, TicketChanged DEF TypeOK
    <2>4. CASE IndexCreated(w)
      BY <2>4, CreateComplete
    <2>15. CASE IndexUpdated(w)
      <3>1. /\ req[w] \in Requests /\ req[w].id \in Tickets /\ pc[w] = "index" /\ Mutates(req[w])
            /\ req[w].labels \in SUBSET Labels /\ mem[w].labels \in SUBSET Labels
        BY <2>15, Serving, RequestFields DEF IndexUpdated, At, Mutates, TypeOK, Contents
      <3>2. /\ md' = md /\ Moves(w) /\ OnTheWay(w, S)'
            /\ index' = Update(index, req[w].id, mem[w].labels, req[w].labels)
        BY <2>15, <3>1 DEF IndexUpdated, Answer, Goes, Moves, OnTheWay, TypeOK
      <3>3. req[w].id \in S => req[w].id \in MatchLabels(index, mem[w].labels)
        BY <2>15, <3>1 DEF IndexUpdated, At, IndexInv, OnTheWay, Under
      <3>4. req[w].id \in S => req[w].id \in MatchLabels(index', req[w].labels)
        BY <3>1, <3>2, <3>3, IndexCalls DEF TypeOK
      <3>5. \A u \in Tickets \ {req[w].id} : \A l \in Labels : u \in index'[l] <=> u \in index[l]
        BY <3>1, <3>2, IndexCalls DEF TypeOK
      <3>6. md[req[w].id] = None \/ md[req[w].id].labels = req[w].labels
        BY <3>1 DEF IndexInv, OnTheWay, File
      <3> QED BY <3>1, <3>2, <3>4, <3>5, <3>6, TicketChanged
    <2>5. CASE WriteComment(w)
      <3>1. req[w] \in Requests /\ req[w].id \in Tickets /\ pc[w] = "write" /\ Mutates(req[w])
        BY <2>5, Serving, RequestFields DEF WriteComment, At, Mutates
      <3>2. Moves(w) /\ OnTheWay(w, S)' /\ index' = index
        BY <2>5, <3>1 DEF WriteComment, Answer, Goes, Moves, OnTheWay, TypeOK
      <3>3. /\ mem[w] \in Contents
            /\ req[w].id \in S => req[w].id \in MatchLabels(index, mem[w].labels)
        BY <2>5, <3>1 DEF WriteComment, At, IndexInv, OnTheWay, Under, TypeOK
      <3>4. [mem[w] EXCEPT !.comments = @ \cup {req[w].comment}].labels = mem[w].labels
        BY <3>3 DEF Contents
      <3>5. /\ \A u \in Tickets \ {req[w].id} : md'[u] = md[u]
            /\ md'[req[w].id].labels = mem[w].labels
        BY <2>5, <3>1, <3>4 DEF WriteComment, WriteFile, TypeOK
      <3> QED BY <3>1, <3>2, <3>3, <3>5, TicketChanged
    <2>6. CASE ReadForDelete(w)
      <3>1. Moves(w) /\ OnTheWay(w, S)' /\ UNCHANGED files /\ pc[w] = "begin"
        BY <2>6 DEF ReadForDelete, At, Goes, Moves, OnTheWay, TypeOK, files
      <3> QED BY <3>1, FilesKept
    <2>7. CASE Unindex(w)
      <3>1. /\ req[w] \in Requests /\ req[w].id \in Tickets /\ pc[w] = "unindex" /\ Mutates(req[w])
            /\ mem[w].labels \in SUBSET Labels
        BY <2>7, Serving, RequestFields DEF Unindex, At, Mutates, TypeOK, Contents
      <3>2. /\ Moves(w) /\ OnTheWay(w, S)' /\ md' = md /\ HasUnindexed(w)'
            /\ index' = Remove(index, req[w].id, mem[w].labels)
        BY <2>7, <3>1 DEF Unindex, Goes, Moves, OnTheWay, TypeOK
      <3>3. \A u \in Tickets \ {req[w].id} : \A l \in Labels : u \in index'[l] <=> u \in index[l]
        BY <3>1, <3>2, IndexCalls DEF TypeOK
      <3> QED BY <3>1, <3>2, <3>3, TicketChanged
    <2>8. CASE RemoveFile(w)
      <3>1. req[w] \in Requests /\ req[w].id \in Tickets /\ pc[w] = "remove" /\ Mutates(req[w])
        BY <2>8, Serving, RequestFields DEF RemoveFile, Mutates, TypeOK
      <3>2. Moves(w) /\ OnTheWay(w, S)' /\ index' = index /\ md' = [md EXCEPT ![req[w].id] = None]
        BY <2>8, <3>1 DEF RemoveFile, WriteFile, Answer, Goes, Moves, OnTheWay, TypeOK
      <3> QED BY <3>1, <3>2, TicketChanged DEF TypeOK
    <2>9. CASE AskIndex(w)
      <3>1. Moves(w) /\ OnTheWay(w, S)' /\ UNCHANGED files /\ pc[w] = "begin"
        BY <2>9 DEF AskIndex, At, Goes, Moves, OnTheWay, TypeOK, files
      <3> QED BY <3>1, FilesKept
    <2>10. CASE ReadDir(w)
      <3>1. Moves(w) /\ OnTheWay(w, S)' /\ UNCHANGED files /\ pc[w] = "scan"
        BY <2>10 DEF ReadDir, Goes, Moves, OnTheWay, TypeOK, files
      <3> QED BY <3>1, FilesKept
    <2>11. CASE ListDone(w)
      BY <2>11, <1>2 DEF ListDone
    <2>12. ASSUME NEW t \in Tickets, ReadListed(w, t) PROVE IndexInv(S)'
      <3>1. Moves(w) /\ OnTheWay(w, S)' /\ UNCHANGED files /\ pc[w] = "read"
        BY <2>12 DEF ReadListed, Moves, OnTheWay, files
      <3> QED BY <3>1, FilesKept
    <2>13. ASSUME NEW t \in Tickets, ListedFileGone(w, t) PROVE IndexInv(S)'
      BY <2>13, <1>2 DEF ListedFileGone
    <2>14. CASE Respond(w)
      <3>1. Moves(w) /\ OnTheWay(w, S)' /\ UNCHANGED files /\ pc[w] = "done"
        BY <2>14 DEF Respond, Goes, Moves, OnTheWay, TypeOK
      <3> QED BY <3>1, FilesKept
    <2> QED
      BY <1>3, <2>1, <2>2, <2>3, <2>4, <2>5, <2>6, <2>7, <2>8, <2>9, <2>10, <2>11, <2>12,
         <2>13, <2>14, <2>15 DEF Step
  <1>4. ASSUME NEW w \in Workers, IOError(w) PROVE IndexInv(S)'
    <2>1. pc[w] \notin {"idle", "index"} /\ UNCHANGED files
      BY <1>4, MayFailAssumption DEF IOError
    <2>2. CASE At(w, "begin", "Delete")
      <3>1. Moves(w) /\ OnTheWay(w, S)' /\ pc[w] = "begin"
        BY <1>4, <2>2 DEF IOError, At, Goes, Moves, OnTheWay, TypeOK
      <3> QED BY <2>1, <3>1, FilesKept
    <2>3. CASE ~ At(w, "begin", "Delete") /\ ~ HasUnindexed(w)
      BY <1>4, <2>1, <2>3, <1>2 DEF IOError
    <2>4. CASE HasUnindexed(w)
      <3>1. req[w] \in Requests /\ req[w].id \in Tickets /\ Mutates(req[w]) /\ pc[w] = "remove"
        BY <2>4, Serving, RequestFields DEF Mutates, TypeOK
      <3>2. Answer(w, "error")
        BY <1>4, <3>1 DEF IOError, At
      <3>3. Moves(w) /\ OnTheWay(w, S)'
        BY <3>1, <3>2 DEF Answer, Goes, Moves, OnTheWay, TypeOK
      <3>4. req[w].id \notin S
        BY <1>4, <2>4
      <3> QED BY <2>1, <3>1, <3>3, <3>4, TicketChanged DEF files
    <2> QED BY <2>2, <2>3, <2>4
  <1>5. ASSUME NEW t \in Tickets, DropFile(t) PROVE IndexInv(S)'
    <2>1. /\ \A u \in Tickets : md'[u] = md[u] \/ md'[u] = None
          /\ UNCHANGED <<index, pc, req, mem>>
      BY <1>5 DEF DropFile, TypeOK
    <2>2. OneMutation'
      BY <2>1 DEF IndexInv, OneMutation, Mutates
    <2>3. CompleteFor(S)'
      BY <2>1 DEF IndexInv, CompleteFor, Unsettled, Removing, MatchLabels
    <2>4. ASSUME NEW v \in Workers PROVE OnTheWay(v, S)'
      <3>1. pc[v] = "index" => req[v].id \in Tickets
        BY Serving, RequestFields DEF TypeOK
      <3> QED BY <2>1, <3>1 DEF IndexInv, OnTheWay, Under, MatchLabels, File
    <2> QED BY <2>2, <2>3, <2>4 DEF IndexInv
  <1>6. CASE Restart
    BY <1>6, RestartComplete, IndexInvFewer
  <1>7. CASE UNCHANGED vars
    BY <1>7 DEF vars, IndexInv, OneMutation, Mutates, CompleteFor, Unsettled, Removing, MatchLabels,
                OnTheWay, Under, File
  <1> QED BY <1>1, <1>3, <1>4, <1>5, <1>6, <1>7 DEF Next

\* Every step keeps the index complete for the tickets that no delete gives up,
\* and makes it so for those that are put back.
LEMMA IndexStep ==
    ASSUME IndexMaintained, TypeOK, [Next]_vars,
           NEW S \in SUBSET Tickets, IndexInv(S), NEW R \in SUBSET Tickets,
           \A w \in Workers : HasUnindexed(w) /\ IOError(w) => req[w].id \notin R,
           \A t \in R \ S : Restart \/ \E w \in Workers : IndexCreated(w) /\ req[w].id = t
    PROVE  IndexInv(R)'
  <1>1. CASE Restart
    BY <1>1, RestartComplete, IndexInvFewer
  <1>2. CASE R \subseteq S
    <2>1. IndexInv(R)
      BY <1>2 DEF IndexInv, CompleteFor, OnTheWay
    <2> QED BY <2>1, IndexKept
  <1>3. ASSUME ~ Restart, NEW t \in R \ S PROVE IndexInv(R)'
    <2>1. PICK w \in Workers : IndexCreated(w) /\ req[w].id = t
      BY <1>3
    <2>2. ASSUME NEW v \in Workers, IndexCreated(v) PROVE v = w
      BY <2>1, <2>2 DEF IndexCreated, At, Answer, Goes, TypeOK
    <2>3. R \in SUBSET (S \cup {req[w].id})
      BY <1>3, <2>2
    <2> QED BY <2>1, <2>3, CreateComplete
  <1> QED BY <1>1, <1>2, <1>3

\* The program starts without tickets.
LEMMA IndexInit == Init => \A S \in SUBSET Tickets : IndexInv(S)
  BY DEF Init, IndexInv, OneMutation, CompleteFor, OnTheWay

\* As long as mutations of one ticket do not overlap, no plan is written and a
\* file that is to be removed is removed, every ticket is in the index under
\* each of its labels, but for the moment between the two steps of a change.
THEOREM IndexAlwaysComplete ==
    IndexMaintained /\ "remove" \notin MayFail => (Spec => []IndexComplete)
  <1> SUFFICES ASSUME IndexMaintained, "remove" \notin MayFail PROVE Spec => []IndexComplete
    OBVIOUS
  <1>1. TypeOK /\ IndexInv(Tickets) /\ [Next]_vars => IndexInv(Tickets)'
    <2>1. ASSUME NEW w \in Workers, HasUnindexed(w), IOError(w) PROVE FALSE
      BY <2>1 DEF HasUnindexed, IOError
    <2> QED BY <2>1, IndexStep
  <1>2. IndexInv(Tickets) => IndexComplete
    BY DEF IndexInv, CompleteFor, IndexComplete
  <1>3. Init => TypeOK /\ IndexInv(Tickets)
    BY TypeInit, IndexInit
  <1> QED BY <1>1, <1>2, <1>3, TypeStep, PTL DEF Spec
-----------------------------------------------------------------------------
(***************************************************************************)
(* Comments are appended.                                                  *)
(*                                                                         *)
(* AddComment reads the ticket and writes it back in another step.  If     *)
(* mutations of one ticket do not overlap, nothing changes its file in     *)
(* between but the delete of the whole tracking set.                       *)
(***************************************************************************)

\* What w will write back is still in the file.
ReadIsCurrent(w) == At(w, "write", "AddComment") => File(w) \in {None, mem[w]}

CommentInv == OneMutation /\ \A w \in Workers : ReadIsCurrent(w)

\* A worker that writes a file is mutating the ticket of its request.
LEMMA OnlyOwnFile ==
    ASSUME TypeOK, NEW w \in Workers, Step(w) \/ IOError(w)
    PROVE  /\ Moves(w)
           /\ \A t \in Tickets : md'[t] = md[t] \/ (Mutates(req[w]) /\ t = req[w].id)
           /\ ReadIsCurrent(w)'
  <1>1. ASSUME NEW r, Answer(w, r), pc[w] # "idle" PROVE Moves(w) /\ ReadIsCurrent(w)'
    BY <1>1 DEF Answer, Goes, Moves, ReadIsCurrent, At, TypeOK
  <1>2. ASSUME NEW t \in Tickets, NEW c, md' = [md EXCEPT ![req[w].id] = c]
        PROVE  md'[t] = md[t] \/ t = req[w].id
    BY <1>2 DEF TypeOK
  <1>3. CASE NotFound(w) \/ IndexCreated(w) \/ IndexUpdated(w) \/ ListDone(w)
    BY <1>3, <1>1 DEF NotFound, ReadOp, IndexCreated, IndexUpdated, ListDone, At, files
  <1>4. CASE Read(w)
    BY <1>4 DEF Read, ReadOp, Goes, Moves, ReadIsCurrent, At, File, TypeOK
  <1>5. CASE WriteTicket(w)
    <2>1. Moves(w) /\ ReadIsCurrent(w)'
      BY <1>5, <1>1 DEF WriteTicket, Goes, Moves, ReadIsCurrent, At, TypeOK
    <2> QED BY <1>5, <1>2, <2>1 DEF WriteTicket, WriteFile, Mutates
  <1>6. CASE WriteComment(w)
    BY <1>6, <1>1, <1>2 DEF WriteComment, WriteFile, Mutates, At
  <1>7. CASE ReadForDelete(w) \/ Unindex(w)
    BY <1>7 DEF ReadForDelete, Unindex, Goes, Moves, ReadIsCurrent, At, TypeOK
  <1>8. CASE RemoveFile(w)
    <2>1. Mutates(req[w])
      BY <1>8 DEF RemoveFile, Mutates, TypeOK
    <2> QED BY <1>8, <1>1, <1>2, <2>1 DEF RemoveFile, WriteFile
  <1>9. CASE AskIndex(w) \/ ReadDir(w)
    BY <1>9 DEF AskIndex, ReadDir, Goes, Moves, ReadIsCurrent, At, TypeOK
  <1>10. ASSUME NEW t \in Tickets, ReadListed(w, t) \/ ListedFileGone(w, t)
         PROVE  Moves(w) /\ ReadIsCurrent(w)' /\ md' = md
    BY <1>10, <1>1 DEF ReadListed, ListedFileGone, Moves, ReadIsCurrent, At, files
  <1>11. CASE Respond(w)
    BY <1>11 DEF Respond, Goes, Moves, ReadIsCurrent, At, files, TypeOK
  <1>12. CASE IOError(w)
    BY <1>12, <1>1, MayFailAssumption
    DEF IOError, At, Goes, Moves, ReadIsCurrent, files, TypeOK
  <1> QED
    BY <1>3, <1>4, <1>5, <1>6, <1>7, <1>8, <1>9, <1>10, <1>11, <1>12 DEF Step

\* Every step keeps what the comments under way have read.
LEMMA CommentStep == Exclusive /\ TypeOK /\ CommentInv /\ [Next]_vars => CommentInv'
  <1> SUFFICES ASSUME Exclusive, TypeOK, CommentInv, [Next]_vars PROVE CommentInv'
    OBVIOUS
  <1>1. ASSUME NEW w \in Workers, NEW q \in Requests, Begin(w, q) PROVE CommentInv'
    <2>1. /\ pc[w] = "idle" /\ pc'[w] = FirstStep(q) /\ req'[w] = q /\ md' = md
          /\ \A v \in Workers \ {w} : pc'[v] = pc[v] /\ req'[v] = req[v] /\ mem'[v] = mem[v]
      BY <1>1 DEF Begin, Goes, TypeOK
    <2>2. OneMutation'
      <3> SUFFICES ASSUME NEW v \in Workers \ {w}, pc[v] # "idle", Mutates(req[v]), Mutates(q)
                   PROVE  req[v].id # q.id
        BY <2>1 DEF CommentInv, OneMutation, Mutates
      <3> QED BY <1>1 DEF Begin
    <2>3. FirstStep(q) = "write" => q.op = "Create"
      BY DEF FirstStep
    <2>4. ASSUME NEW v \in Workers PROVE ReadIsCurrent(v)'
      BY <2>1, <2>3 DEF CommentInv, ReadIsCurrent, At, File
    <2> QED BY <2>2, <2>4 DEF CommentInv
  <1>2. ASSUME NEW w \in Workers, Step(w) \/ IOError(w) PROVE CommentInv'
    <2>1. /\ Moves(w)
          /\ \A t \in Tickets : md'[t] = md[t] \/ (Mutates(req[w]) /\ t = req[w].id)
          /\ ReadIsCurrent(w)'
      BY <1>2, OnlyOwnFile
    <2>2. OneMutation'
      BY <2>1 DEF CommentInv, OneMutation, Moves, Mutates
    <2>3. ASSUME NEW v \in Workers, v # w PROVE ReadIsCurrent(v)'
      <3> SUFFICES ASSUME At(v, "write", "AddComment") PROVE md'[req[v].id] = md[req[v].id]
        BY <2>1, <2>3 DEF CommentInv, ReadIsCurrent, Moves, At, File
      <3>1. req[v].id \in Tickets
        BY Serving, RequestFields DEF At
      <3>2. Mutates(req[w]) => req[v].id # req[w].id
        BY <2>1, <2>3 DEF CommentInv, OneMutation, Moves, Mutates, At
      <3> QED BY <2>1, <3>1, <3>2
    <2> QED BY <2>1, <2>2, <2>3 DEF CommentInv
  <1>3. ASSUME NEW t \in Tickets, DropFile(t) PROVE CommentInv'
    <2>1. \A u \in Tickets : md'[u] = md[u] \/ md'[u] = None
      BY <1>3 DEF DropFile, TypeOK
    <2>2. OneMutation'
      BY <1>3 DEF DropFile, CommentInv, OneMutation, Mutates
    <2>3. ASSUME NEW v \in Workers PROVE ReadIsCurrent(v)'
      <3>1. At(v, "write", "AddComment") => req[v].id \in Tickets
        BY Serving, RequestFields DEF At
      <3> QED BY <1>3, <2>1, <3>1 DEF DropFile, CommentInv, ReadIsCurrent, At, File
    <2> QED BY <2>2, <2>3 DEF CommentInv
  <1>4. CASE Restart
    BY <1>4 DEF Restart, CommentInv, OneMutation, ReadIsCurrent, At
  <1>5. CASE UNCHANGED vars
    BY <1>5 DEF vars, CommentInv, OneMutation, Mutates, ReadIsCurrent, At, File
  <1> QED BY <1>1, <1>2, <1>3, <1>4, <1>5 DEF Next

\* A step in which a comment is answered as added has written it to what the
\* file held.
LEMMA CommentWritten ==
    ASSUME TypeOK, CommentInv, [Next]_vars, NEW w \in Workers,
           At(w, "write", "AddComment"), pc'[w] = "done", res'[w] = "ok", File(w) # None
    PROVE  md'[req[w].id] = [File(w) EXCEPT !.comments = @ \cup {req[w].comment}]
  <1>1. ASSUME NEW v \in Workers, Step(v) \/ IOError(v) PROVE v = w
    BY <1>1, OnlyOwnFile DEF Moves, At
  <1>2. ASSUME NEW v \in Workers, NEW q \in Requests, Begin(v, q) PROVE FALSE
    BY <1>2 DEF Begin, Goes, At, TypeOK, FirstStep
  <1>3. ~ IOError(w)
    BY DEF IOError, Answer, At, TypeOK
  <1>4. Step(w)
    BY <1>1, <1>2, <1>3 DEF Next, DropFile, Restart, vars, At
  <1>5. WriteComment(w)
    BY <1>4 DEF Step, NotFound, ReadOp, Read, WriteTicket, IndexCreated, IndexUpdated,
                ReadForDelete, Unindex, RemoveFile, AskIndex, ReadDir, ListDone, ReadListed,
                ListedFileGone, Respond, At
  <1>6. req[w].id \in Tickets /\ File(w) = mem[w]
    BY Serving, RequestFields DEF CommentInv, ReadIsCurrent, At
  <1> QED BY <1>5, <1>6 DEF WriteComment, WriteFile, TypeOK

\* As long as mutations of one ticket do not overlap, an added comment is added
\* to what the file holds when it is written, however many other requests run,
\* whatever fails and wherever the program stops.
THEOREM CommentsAreAppended == Exclusive => (Spec => CommentAppended)
  <1> SUFFICES ASSUME Exclusive PROVE Spec => CommentAppended
    OBVIOUS
  <1>1. Init => CommentInv
    BY DEF Init, CommentInv, OneMutation, ReadIsCurrent, At
  <1>2. TypeOK /\ CommentInv /\ [Next]_vars => CommentInv'
    BY CommentStep
  <1>3. TypeOK /\ CommentInv /\ [Next]_vars =>
            [\A w \in Workers :
                At(w, "write", "AddComment") /\ pc'[w] = "done" /\ res'[w] = "ok" /\ File(w) # None
                   => md'[req[w].id] = [File(w) EXCEPT !.comments = @ \cup {req[w].comment}]]_vars
    BY CommentWritten
  <1> QED BY <1>1, <1>2, <1>3, TypeInit, TypeStep, PTL DEF Spec, CommentAppended
=============================================================================
