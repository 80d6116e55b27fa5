------------------------ MODULE MetaPlanStoreProofs ------------------------
(***************************************************************************)
(* Proofs about MetaPlanStore, for every set of plans, contents and        *)
(* workers.                                                                *)
(***************************************************************************)
EXTENDS MetaPlanStore, TLAPS

\* What a request carries depends on its operation alone.
LEMMA RequestFields ==
    ASSUME NEW q \in Requests
    PROVE  /\ q.op \in {"Create", "Update", "Delete", "Get", "List"}
           /\ q.op # "List" => q.id \in Plans
           /\ q.op \in {"Create", "Update"} => q.value \in Values
  BY DEF Requests

\* A worker that serves a mutation or a get has a plan to serve.
LEMMA Serving ==
    ASSUME TypeOK, NEW w \in Workers, pc[w] # "idle"
    PROVE  /\ req[w] \in Requests
           /\ req[w].op # "List" => req[w].id \in Plans
           /\ req[w].op \in {"Create", "Update"} => req[w].value \in Values
  BY RequestFields DEF TypeOK

\* What a step of a worker, or a call of it that fails, changes for that worker.
LEMMA AnswerIs ==
    ASSUME TypeOK, NEW w \in Workers, NEW r, Answer(w, r)
    PROVE  /\ pc'[w] = "done" /\ res'[w] = r /\ half'[w] = None /\ todo'[w] = {}
           /\ hits'[w] = IF r = "ok" THEN hits[w] ELSE {}
           /\ req' = req /\ failed' = failed
  BY DEF Answer, TypeOK

\* A worker moves alone.
LEMMA OthersStay ==
    ASSUME TypeOK, NEW v \in Workers, NEW w \in Workers, v # w,
           Step(v) \/ IOError(v) \/ \E q \in Requests : Begin(v, q)
    PROVE  /\ pc'[w] = pc[w] /\ req'[w] = req[w] /\ half'[w] = half[w] /\ todo'[w] = todo[w]
           /\ hits'[w] = hits[w] /\ res'[w] = res[w] /\ failed'[w] = failed[w]
  <1> DEFINE Stays == /\ pc'[w] = pc[w] /\ req'[w] = req[w] /\ half'[w] = half[w]
                      /\ todo'[w] = todo[w] /\ hits'[w] = hits[w] /\ res'[w] = res[w]
                      /\ failed'[w] = failed[w]
  <1>1. ASSUME NEW r, Answer(v, r) PROVE Stays
    BY <1>1 DEF Answer, TypeOK
  <1>2. CASE ReadOld(v) \/ RemoveYaml(v) \/ HalfGone(v) \/ AllRead(v)
    BY <1>1, <1>2 DEF ReadOld, RemoveYaml, HalfGone, AllRead, Goes, TypeOK
  <1>3. CASE WriteTicket(v) \/ RemoveTicket(v) \/ Scan(v) \/ ReadYaml(v) \/ Respond(v)
             \/ \E i \in Plans : ReadTicket(v, i)
    BY <1>3 DEF WriteTicket, RemoveTicket, ThenYaml, Scan, ReadYaml, Respond, ReadTicket, Goes, TypeOK
  <1>4. CASE WriteYaml(v)
    BY <1>1, <1>4 DEF WriteYaml, TypeOK
  <1>5. CASE IOError(v)
    BY <1>5 DEF IOError, TypeOK
  <1>6. CASE \E q \in Requests : Begin(v, q)
    BY <1>6 DEF Begin, TypeOK
  <1> QED BY <1>2, <1>3, <1>4, <1>5, <1>6 DEF Step

-----------------------------------------------------------------------------
(***************************************************************************)
(* Type correctness.                                                       *)
(***************************************************************************)

\* A worker that answers leaves a well-typed state, whatever it did to the files.
LEMMA AnswerTyped ==
    ASSUME TypeOK, NEW w \in Workers, pc[w] # "idle",
           NEW r \in {"ok", "notfound", "error"}, Answer(w, r),
           md' \in [Plans -> Values \cup {None}], yaml' \in [Plans -> Values \cup {None}],
           whole' \in [Workers -> SUBSET Plans]
    PROVE  TypeOK'
  BY DEF TypeOK, Answer, Serves, Steps

\* Every step keeps the types.
LEMMA TypeStep == TypeOK /\ [Next]_vars => TypeOK'
  <1> SUFFICES ASSUME TypeOK, [Next]_vars PROVE TypeOK'
    OBVIOUS
  <1>1. CASE UNCHANGED vars
    <2>1. /\ UNCHANGED <<md, yaml, pc, req, half>>
          /\ UNCHANGED <<todo, hits, res, failed, whole>>
      BY <1>1 DEF vars
    <2> QED BY <2>1 DEF TypeOK, Serves
  <1> SUFFICES ASSUME Next PROVE TypeOK'
    BY <1>1
  <1>2. whole' \in [Workers -> SUBSET Plans]
    BY DEF Next, Observe, TypeOK
  <1>3. ASSUME NEW w \in Workers, NEW q \in Requests, Begin(w, q) PROVE TypeOK'
    <2>1. q # None /\ (q.op = "Get" => q.id \in Plans)
      BY NoRequestAssumption, RequestFields
    <2>2. /\ q.op = "Create" => FirstStep(q) = "writeTicket"
          /\ q.op = "Update" => FirstStep(q) = "readOld"
          /\ q.op = "Delete" => FirstStep(q) = "removeTicket"
          /\ q.op = "Get" => FirstStep(q) = "readTicket"
          /\ q.op = "List" => FirstStep(q) = "scan"
          /\ q.op \in {"Create", "Update", "Delete", "Get", "List"}
      BY RequestFields DEF FirstStep
    <2>3. pc' \in [Workers -> Steps] /\ todo' \in [Workers -> SUBSET Plans]
      BY <1>3, <2>1, <2>2 DEF Begin, TypeOK, Steps
    <2> QED BY <1>2, <1>3, <2>1, <2>2, <2>3 DEF Begin, TypeOK, Serves
  <1>4. ASSUME NEW w \in Workers, Step(w) PROVE TypeOK'
    <2>1. CASE ReadOld(w)
      <3>1. pc[w] # "idle" /\ md' = md /\ yaml' = yaml /\ Serves(w, {"Update"})
        BY <2>1 DEF ReadOld, disk, TypeOK
      <3>2. CASE Answer(w, "notfound")
        BY <1>2, <3>1, <3>2, AnswerTyped DEF TypeOK
      <3>3. CASE Goes(w, "writeTicket")
        BY <1>2, <3>1, <3>3 DEF Goes, TypeOK, Serves, Steps
      <3> QED BY <2>1, <3>2, <3>3 DEF ReadOld
    <2>2. CASE WriteTicket(w)
      <3>1. req[w].id \in Plans /\ req[w].value \in Values
        BY <2>2, Serving DEF WriteTicket, TypeOK, Serves
      <3> QED BY <1>2, <2>2, <3>1 DEF WriteTicket, Goes, TypeOK, Serves, Steps
    <2>3. CASE WriteYaml(w)
      <3>1. req[w].id \in Plans /\ req[w].value \in Values
        BY <2>3, Serving DEF WriteYaml, TypeOK, Serves
      <3>2. /\ pc[w] = "writeYaml" /\ md' = md /\ yaml' \in [Plans -> Values \cup {None}]
        BY <2>3, <3>1 DEF WriteYaml, TypeOK
      <3>3. CASE Answer(w, "ok")
        BY <1>2, <3>2, <3>3, AnswerTyped DEF TypeOK
      <3>4. CASE ~ Answer(w, "ok")
        BY <1>2, <2>3, <3>1, <3>2, <3>4 DEF WriteYaml, TypeOK, Serves, Steps
      <3> QED BY <3>3, <3>4
    <2>4. CASE RemoveTicket(w)
      <3>1. md' \in [Plans -> Values \cup {None}] /\ pc[w] = "removeTicket" /\ yaml' = yaml
        BY <2>4 DEF RemoveTicket, TypeOK
      <3>2. PICK r \in {"ok", "notfound"} : ThenYaml(w, r)
        BY <2>4 DEF RemoveTicket
      <3> QED BY <1>2, <3>1, <3>2 DEF ThenYaml, TypeOK, Serves, Steps
    <2>5. CASE RemoveYaml(w)
      <3>1. yaml' \in [Plans -> Values \cup {None}] /\ pc[w] = "removeYaml" /\ md' = md
        BY <2>5 DEF RemoveYaml, TypeOK
      <3>2. PICK r \in {"ok", "notfound", "error"} : Answer(w, r)
        BY <2>5 DEF RemoveYaml, Worst, TypeOK
      <3> QED BY <1>2, <3>1, <3>2, AnswerTyped DEF TypeOK
    <2>6. CASE Scan(w)
      BY <1>2, <2>6 DEF Scan, TypeOK, Serves, Steps
    <2>7. CASE ReadYaml(w)
      <3>1. /\ half[w] \in Plans \X Values /\ yaml[half[w][1]] \in Values
            /\ pc[w] = "readYaml"
        BY <2>7 DEF ReadYaml, TypeOK
      <3>2. hits' \in [Workers -> SUBSET (Plans \X Values \X Values)]
        BY <2>7, <3>1 DEF ReadYaml, TypeOK
      <3>3. todo' \in [Workers -> SUBSET Plans]
        BY <2>7 DEF ReadYaml, TypeOK
      <3> QED BY <1>2, <2>7, <3>1, <3>2, <3>3 DEF ReadYaml, TypeOK, Serves, Steps
    <2>8. CASE HalfGone(w)
      <3>1. pc[w] # "idle" /\ md' = md /\ yaml' = yaml
        BY <2>8 DEF HalfGone, HalfMissing, disk
      <3>2. PICK r \in {"error", "notfound"} : Answer(w, r)
        BY <2>8 DEF HalfGone
      <3> QED BY <1>2, <3>1, <3>2, AnswerTyped DEF TypeOK
    <2>9. CASE AllRead(w)
      BY <1>2, <2>9, AnswerTyped DEF AllRead, disk, TypeOK
    <2>10. ASSUME NEW i \in Plans, ReadTicket(w, i) PROVE TypeOK'
      <3>1. <<i, md[i]>> \in Plans \X Values /\ pc[w] = "readTicket"
        BY <2>10 DEF ReadTicket, TypeOK
      <3> QED BY <1>2, <2>10, <3>1 DEF ReadTicket, TypeOK, Serves, Steps
    <2>11. CASE Respond(w)
      BY <1>2, <2>11 DEF Respond, TypeOK, Serves, Steps
    <2> QED
      BY <1>4, <2>1, <2>2, <2>3, <2>4, <2>5, <2>6, <2>7, <2>8, <2>9, <2>10, <2>11 DEF Step
  <1>5. ASSUME NEW w \in Workers, IOError(w) PROVE TypeOK'
    <2>1. res' \in [Workers -> {"ok", "notfound", "error"}]
      BY <1>5 DEF IOError, Worst, TypeOK
    <2> QED BY <1>2, <1>5, <2>1 DEF IOError, TypeOK, Serves, Steps
  <1>6. ASSUME NEW i \in Plans, TicketEndpoint(i) \/ DropFile(i) PROVE TypeOK'
    BY <1>2, <1>6 DEF TicketEndpoint, DropFile, TypeOK, Serves
  <1>7. CASE Crash
    BY <1>2, <1>7 DEF Crash, disk, TypeOK, Steps
  <1> QED BY <1>3, <1>4, <1>5, <1>6, <1>7 DEF Next

\* The program starts without meta-plans.
LEMMA TypeInit == Init => TypeOK
  BY DEF Init, TypeOK, Steps

\* The files always hold what requests carry, and a worker waits at a call only
\* with a request that makes it and with what the calls before it have read.
THEOREM TypeCorrect == Spec => []TypeOK
  BY TypeInit, TypeStep, PTL DEF Spec

-----------------------------------------------------------------------------
(***************************************************************************)
(* A mutation that succeeds has changed both files.                        *)
(*                                                                         *)
(* A mutation under way is the only one, and the files have what its calls *)
(* so far have written to them.                                            *)
(***************************************************************************)

OneMutation ==
    \A v, w \in Workers :
        v # w /\ pc[v] # "idle" /\ Mutates(req[v]) => pc[w] = "idle" \/ ~ Mutates(req[w])

Written(w) == md[req[w].id] = req[w].value /\ yaml[req[w].id] = req[w].value

OnTheWay(w) ==
    /\ pc[w] \in {"idle", "readOld", "writeTicket", "writeYaml"} => hits[w] = {}
    /\ pc[w] \notin {"removeYaml", "done"} => res[w] = "ok"
    /\ pc[w] = "writeYaml" => md[req[w].id] = req[w].value
    /\ pc[w] = "removeYaml" =>
          \/ md[req[w].id] = None
          \/ res[w] = "error" /\ failed[w]
    /\ Serves(w, {"Update"}) /\ pc[w] \in {"readTicket", "readYaml"} =>
          /\ Written(w)
          /\ todo[w] \subseteq {req[w].id}
          /\ hits[w] = IF todo[w] = {} THEN {<<req[w].id, req[w].value, req[w].value>>} ELSE {}
    /\ Serves(w, {"Update"}) /\ pc[w] = "readYaml" => half[w] = <<req[w].id, req[w].value>>
    /\ pc[w] = "done" =>
          /\ Serves(w, {"Create", "Update"}) /\ res[w] = "ok" => Written(w)
          /\ Serves(w, {"Update"}) /\ res[w] = "ok" =>
                hits[w] = {<<req[w].id, req[w].value, req[w].value>>}
          /\ Serves(w, {"Delete"}) /\ (res[w] = "ok" \/ ~ failed[w]) =>
                md[req[w].id] = None /\ yaml[req[w].id] = None

MutationInv == OneMutation /\ \A w \in Workers : OnTheWay(w)

\* A worker that moves keeps its request until it is idle.
LEMMA KeepsRequest ==
    ASSUME TypeOK, NEW w \in Workers, Step(w) \/ IOError(w)
    PROVE  pc[w] # "idle" /\ (pc'[w] = "idle" \/ req'[w] = req[w])
  <1>1. ASSUME NEW r, Answer(w, r) PROVE req'[w] = req[w]
    BY <1>1 DEF Answer
  <1>2. CASE Respond(w)
    BY <1>2 DEF Respond, TypeOK
  <1>3. CASE ~ Respond(w)
    <2>1. pc[w] # "idle"
      BY <1>3 DEF Step, ReadOld, WriteTicket, WriteYaml, RemoveTicket, RemoveYaml, Scan, ReadYaml,
                  HalfGone, HalfMissing, AllRead, ReadTicket, IOError
    <2>2. req'[w] = req[w]
      BY <1>1, <1>3
      DEF Step, ReadOld, WriteTicket, WriteYaml, RemoveTicket, RemoveYaml, Scan, ReadYaml,
          HalfGone, AllRead, ReadTicket, IOError, Goes, ThenYaml
    <2> QED BY <2>1, <2>2
  <1> QED BY <1>2, <1>3

\* Mutations do not overlap.
LEMMA OneMutationStep == TypeOK /\ OneMutation /\ [Next]_vars => OneMutation'
  <1> SUFFICES ASSUME TypeOK, OneMutation, [Next]_vars PROVE OneMutation'
    OBVIOUS
  <1>1. ASSUME NEW v \in Workers, NEW q \in Requests, Begin(v, q) PROVE OneMutation'
    BY <1>1 DEF Begin, OneMutation, Quiet, Mutates, TypeOK
  <1>2. ASSUME NEW v \in Workers, Step(v) \/ IOError(v) PROVE OneMutation'
    <2>1. ASSUME NEW w \in Workers
          PROVE  pc'[w] = "idle" \/ (req'[w] = req[w] /\ (pc[w] # "idle" \/ pc'[w] = pc[w]))
      <3>1. CASE w = v
        BY <1>2, <3>1, KeepsRequest
      <3>2. CASE w # v
        BY <1>2, <3>2, OthersStay
      <3> QED BY <3>1, <3>2
    <2> QED BY <2>1 DEF OneMutation, Mutates
  <1>3. ASSUME NEW i \in Plans, TicketEndpoint(i) \/ DropFile(i) PROVE OneMutation'
    BY <1>3 DEF TicketEndpoint, DropFile, OneMutation, Mutates
  <1>4. CASE Crash
    BY <1>4 DEF Crash, OneMutation
  <1>5. CASE UNCHANGED vars
    BY <1>5 DEF vars, OneMutation, Mutates
  <1> QED BY <1>1, <1>2, <1>3, <1>4, <1>5 DEF Next

\* Nobody changes the files while a mutation of another worker is under way.
LEMMA FilesStay ==
    ASSUME TypeOK, OneMutation, NEW v \in Workers, NEW w \in Workers, v # w,
           Step(v) \/ IOError(v) \/ \E q \in Requests : Begin(v, q),
           pc[w] # "idle", Mutates(req[w])
    PROVE  md' = md /\ yaml' = yaml
  <1>1. pc[v] \notin {"writeTicket", "writeYaml", "removeTicket", "removeYaml"}
    BY DEF TypeOK, OneMutation, Serves, Mutates
  <1> QED
    BY <1>1
    DEF Step, ReadOld, WriteTicket, WriteYaml, RemoveTicket, RemoveYaml, Scan, ReadYaml,
        HalfGone, AllRead, ReadTicket, Respond, IOError, Begin, disk

\* Every step of a mutation keeps what the mutation has achieved so far.
LEMMA OnTheWayOwn ==
    ASSUME TypeOK, TypeOK', NEW w \in Workers, OnTheWay(w), Step(w) \/ IOError(w)
    PROVE  OnTheWay(w)'
  <1>1. CASE ReadOld(w)
    <2>1. Serves(w, {"Update"}) /\ pc[w] = "readOld"
      BY <1>1 DEF ReadOld, TypeOK
    <2>2. CASE Answer(w, "notfound")
      BY <1>1, <2>1, <2>2, AnswerIs DEF OnTheWay, Serves
    <2>3. CASE Goes(w, "writeTicket")
      BY <1>1, <2>1, <2>3 DEF OnTheWay, Goes, TypeOK
    <2> QED BY <1>1, <2>2, <2>3 DEF ReadOld
  <1>2. CASE WriteTicket(w)
    <2>1. req[w].id \in Plans
      BY <1>2, Serving DEF WriteTicket, TypeOK, Serves
    <2> QED BY <1>2, <2>1 DEF WriteTicket, Goes, OnTheWay, TypeOK
  <1>3. CASE WriteYaml(w)
    <2>1. /\ req[w].id \in Plans /\ pc[w] = "writeYaml" /\ Serves(w, {"Create", "Update"})
          /\ hits[w] = {} /\ res[w] = "ok"
      BY <1>3, Serving DEF WriteYaml, TypeOK, Serves, OnTheWay
    <2>2. md' = md /\ yaml'[req[w].id] = req[w].value /\ md[req[w].id] = req[w].value /\ req' = req
      BY <1>3, <2>1 DEF WriteYaml, Answer, TypeOK, OnTheWay
    <2>3. CASE req[w].op = "Create" /\ Answer(w, "ok")
      BY <2>1, <2>2, <2>3, AnswerIs DEF OnTheWay, Serves, Written
    <2>4. CASE req[w].op = "Update" /\ ~ Answer(w, "ok")
      <3>1. /\ pc'[w] = "readTicket" /\ todo'[w] = {req[w].id}
            /\ UNCHANGED <<half, hits, res, failed>>
        BY <1>3, <2>4 DEF WriteYaml, TypeOK
      <3> QED BY <2>1, <2>2, <3>1 DEF OnTheWay, Serves, Written
    <2>5. CASE req[w].op = "Update" /\ Answer(w, "ok")
      <3>1. pc'[w] = "readTicket"
        BY <1>3, <2>5 DEF WriteYaml, TypeOK
      <3> QED BY <2>5, <3>1, AnswerIs
    <2> QED BY <1>3, <2>3, <2>4, <2>5 DEF WriteYaml
  <1>4. CASE RemoveTicket(w)
    <2>1. req[w].id \in Plans /\ Serves(w, {"Delete"})
      BY <1>4, Serving DEF RemoveTicket, TypeOK, Serves
    <2> QED BY <1>4, <2>1 DEF RemoveTicket, ThenYaml, OnTheWay, Serves, TypeOK
  <1>5. CASE RemoveYaml(w)
    <2>1. req[w].id \in Plans /\ Serves(w, {"Delete"}) /\ pc[w] = "removeYaml"
      BY <1>5, Serving DEF RemoveYaml, TypeOK, Serves
    <2>2. md' = md /\ yaml'[req[w].id] = None
      BY <1>5, <2>1 DEF RemoveYaml, TypeOK
    <2>3. PICK r : Answer(w, Worst(res[w], r))
      BY <1>5 DEF RemoveYaml
    <2>4. /\ pc'[w] = "done" /\ res'[w] = Worst(res[w], r) /\ req' = req /\ failed' = failed
      BY <2>3, AnswerIs
    <2>5. res[w] = "error" => res'[w] = "error"
      BY <2>4 DEF Worst
    <2> QED BY <2>1, <2>2, <2>4, <2>5 DEF OnTheWay, Serves
  <1>6. CASE Scan(w)
    BY <1>6 DEF Scan, OnTheWay, TypeOK, Serves
  <1>7. CASE ReadYaml(w)
    <2>1. /\ pc[w] = "readYaml" /\ pc'[w] = "readTicket" /\ UNCHANGED <<md, yaml, req, res, failed>>
          /\ todo'[w] = todo[w] \ {half[w][1]}
          /\ hits'[w] = hits[w] \cup {<<half[w][1], half[w][2], yaml[half[w][1]]>>}
          /\ half[w][1] \in todo[w]
      BY <1>7 DEF ReadYaml, TypeOK
    <2>2. CASE Serves(w, {"Update"})
      <3>1. /\ half[w] = <<req[w].id, req[w].value>> /\ Written(w)
            /\ todo[w] = {req[w].id} /\ hits[w] = {}
        BY <2>1, <2>2 DEF OnTheWay
      <3> QED BY <2>1, <2>2, <3>1 DEF OnTheWay, Serves, Written
    <2>3. CASE ~ Serves(w, {"Update"})
      BY <2>1, <2>3 DEF OnTheWay, Serves
    <2> QED BY <2>2, <2>3
  <1>8. CASE HalfGone(w)
    <2>1. PICK r \in {"error", "notfound"} : Answer(w, r)
      BY <1>8 DEF HalfGone
    <2>2. pc[w] \in {"readTicket", "readYaml"} /\ Serves(w, {"Get", "Update", "List"})
      BY <1>8 DEF HalfGone, HalfMissing, TypeOK
    <2> QED BY <2>1, <2>2, AnswerIs DEF OnTheWay, Serves
  <1>9. CASE AllRead(w)
    <2>1. /\ pc[w] = "readTicket" /\ Serves(w, {"Get", "Update", "List"}) /\ todo[w] = {}
          /\ Answer(w, "ok") /\ UNCHANGED disk
      BY <1>9 DEF AllRead, TypeOK
    <2> QED BY <2>1, AnswerIs DEF OnTheWay, Serves, Written, disk
  <1>10. ASSUME NEW i \in Plans, ReadTicket(w, i) PROVE OnTheWay(w)'
    <2>1. /\ pc[w] = "readTicket" /\ pc'[w] = "readYaml" /\ half'[w] = <<i, md[i]>> /\ i \in todo[w]
          /\ UNCHANGED <<md, yaml, req, todo, hits, res, failed>>
      BY <1>10 DEF ReadTicket, TypeOK
    <2>2. CASE Serves(w, {"Update"})
      <3>1. i = req[w].id /\ md[i] = req[w].value
        BY <2>1, <2>2 DEF OnTheWay, Written
      <3> QED BY <2>1, <2>2, <3>1 DEF OnTheWay, Serves, Written
    <2>3. CASE ~ Serves(w, {"Update"})
      BY <2>1, <2>3 DEF OnTheWay, Serves
    <2> QED BY <2>2, <2>3
  <1>11. CASE Respond(w)
    BY <1>11 DEF Respond, OnTheWay, Serves, TypeOK
  <1>12. CASE IOError(w)
    <2>1. CASE pc[w] = "removeTicket"
      BY <1>12, <2>1 DEF IOError, OnTheWay, Serves, TypeOK
    <2>2. CASE pc[w] # "removeTicket"
      <3>1. /\ pc'[w] = "done" /\ res'[w] # "ok" /\ failed'[w] /\ req' = req
        BY <1>12, <2>2 DEF IOError, Worst, TypeOK
      <3> QED BY <3>1 DEF OnTheWay, Serves
    <2> QED BY <2>1, <2>2
  <1> QED
    BY <1>1, <1>2, <1>3, <1>4, <1>5, <1>6, <1>7, <1>8, <1>9, <1>10, <1>11, <1>12 DEF Step

\* Every step keeps what the mutations have achieved so far.
LEMMA MutationStep == TypeOK /\ TypeOK' /\ MutationInv /\ [Next]_vars => MutationInv'
  <1> SUFFICES ASSUME TypeOK, TypeOK', OneMutation, \A w \in Workers : OnTheWay(w), [Next]_vars,
                      NEW w \in Workers
               PROVE  OnTheWay(w)'
    BY OneMutationStep DEF MutationInv
  <1>1. CASE \E v \in Workers \ {w} : Step(v) \/ IOError(v) \/ \E q \in Requests : Begin(v, q)
    <2>1. PICK v \in Workers \ {w} : Step(v) \/ IOError(v) \/ \E q \in Requests : Begin(v, q)
      BY <1>1
    <2>2. /\ pc'[w] = pc[w] /\ req'[w] = req[w] /\ half'[w] = half[w] /\ todo'[w] = todo[w]
          /\ hits'[w] = hits[w] /\ res'[w] = res[w] /\ failed'[w] = failed[w]
      BY <2>1, OthersStay
    <2>3. CASE pc[w] # "idle" /\ Mutates(req[w])
      <3>1. md' = md /\ yaml' = yaml
        BY <2>1, <2>3, FilesStay
      <3> QED BY <2>2, <3>1 DEF OnTheWay, Serves, Written
    <2>4. CASE pc[w] = "idle"
      BY <2>2, <2>4 DEF OnTheWay
    <2>5. CASE pc[w] # "idle" /\ ~ Mutates(req[w])
      <3>1. pc[w] \notin {"writeYaml", "removeYaml"} /\ ~ Serves(w, {"Create", "Update", "Delete"})
        BY <2>5 DEF TypeOK, Serves, Mutates
      <3> QED BY <2>2, <3>1 DEF OnTheWay, Serves
    <2> QED BY <2>3, <2>4, <2>5
  <1>2. CASE Step(w) \/ IOError(w)
    BY <1>2, OnTheWayOwn
  <1>3. ASSUME NEW q \in Requests, Begin(w, q) PROVE OnTheWay(w)'
    <2>1. pc[w] = "idle" /\ req'[w] = q /\ pc'[w] = FirstStep(q) /\ hits' = hits /\ res' = res
      BY <1>3 DEF Begin, TypeOK
    <2>2. pc'[w] \in {"writeTicket", "readOld", "removeTicket", "readTicket", "scan"}
      BY <2>1, RequestFields DEF FirstStep
    <2>3. res[w] = "ok" /\ hits[w] = {}
      BY <2>1 DEF OnTheWay
    <2>4. ~ (q.op = "Update" /\ pc'[w] \in {"readTicket", "readYaml"})
      BY <2>1 DEF FirstStep
    <2> QED BY <2>1, <2>2, <2>3, <2>4 DEF OnTheWay, Serves
  <1>4. ASSUME NEW i \in Plans, TicketEndpoint(i) \/ DropFile(i) PROVE OnTheWay(w)'
    <2>1. /\ UNCHANGED <<pc, req, half, todo, hits, res, failed>>
          /\ pc[w] = "idle" \/ ~ Mutates(req[w])
      BY <1>4 DEF TicketEndpoint, DropFile, Quiet
    <2>2. /\ pc[w] \notin {"writeYaml", "removeYaml"}
          /\ pc[w] # "idle" => ~ Serves(w, {"Create", "Update", "Delete"})
      BY <2>1 DEF TypeOK, Serves, Mutates
    <2> QED BY <2>1, <2>2 DEF OnTheWay, Serves
  <1>5. CASE Crash
    BY <1>5 DEF Crash, OnTheWay, TypeOK
  <1>6. CASE UNCHANGED vars
    <2>1. /\ UNCHANGED <<md, yaml, pc, req, half>>
          /\ UNCHANGED <<todo, hits, res, failed>>
      BY <1>6 DEF vars
    <2> QED BY <2>1 DEF OnTheWay, Serves, Written
  <1> QED BY <1>1, <1>2, <1>3, <1>4, <1>5, <1>6 DEF Next

\* The program starts without meta-plans and requests.
LEMMA MutationInit == Init => MutationInv
  BY DEF Init, MutationInv, OneMutation, OnTheWay, Serves

\* A mutation that is answered ok has changed both files, and a delete that is
\* answered "not found" leaves neither, unless a call of it has failed.
THEOREM MutationsWhole == Spec => []MutationsAreWhole
  <1>1. MutationInv => MutationsAreWhole
    BY DEF MutationInv, OnTheWay, Written, MutationsAreWhole, Serves
  <1> QED BY <1>1, TypeInit, TypeStep, MutationInit, MutationStep, PTL DEF Spec

\* Only a step that removes the ticket leaves a yaml file without one: a yaml
\* file is written for a plan whose ticket has just been written.
THEOREM OrphansOnlyByDelete == Spec => OrphanByDelete
  <1> DEFINE OrphanStep == \A i \in Plans : Orphan(i)' /\ ~ Orphan(i) => yaml'[i] = yaml[i]
  <1>1. ASSUME TypeOK, MutationInv, [Next]_vars, NEW i \in Plans, Orphan(i)', ~ Orphan(i)
        PROVE  yaml'[i] = yaml[i]
    <2>1. CASE \E w \in Workers : WriteYaml(w)
      <3>1. PICK w \in Workers : WriteYaml(w)
        BY <2>1
      <3>2. /\ Serves(w, {"Create", "Update"}) /\ md[req[w].id] = req[w].value
            /\ req[w].value \in Values
        BY <1>1, <3>1, Serving DEF WriteYaml, TypeOK, Serves, MutationInv, OnTheWay
      <3>3. md' = md /\ yaml' = [yaml EXCEPT ![req[w].id] = req[w].value]
        BY <3>1 DEF WriteYaml
      <3> QED BY <1>1, <3>2, <3>3, NoValueAssumption DEF Orphan, TypeOK
    <2>2. CASE ~ \E w \in Workers : WriteYaml(w)
      <3>1. yaml'[i] = yaml[i] \/ yaml'[i] = None
        <4>1. CASE UNCHANGED vars
          BY <4>1 DEF vars
        <4>2. ASSUME NEW w \in Workers, Step(w) \/ IOError(w) \/ \E q \in Requests : Begin(w, q)
              PROVE  yaml'[i] = yaml[i] \/ yaml'[i] = None
          BY <1>1, <2>2, <4>2
          DEF Step, ReadOld, WriteTicket, RemoveTicket, RemoveYaml, Scan, ReadYaml, HalfGone, AllRead,
              ReadTicket, Respond, IOError, Begin, disk, TypeOK
        <4>3. ASSUME NEW j \in Plans, TicketEndpoint(j) \/ DropFile(j)
              PROVE  yaml'[i] = yaml[i] \/ yaml'[i] = None
          BY <1>1, <4>3 DEF TicketEndpoint, DropFile, TypeOK
        <4>4. CASE Crash
          BY <4>4 DEF Crash, disk
        <4> QED BY <1>1, <4>1, <4>2, <4>3, <4>4 DEF Next
      <3> QED BY <1>1, <3>1 DEF Orphan
    <2> QED BY <2>1, <2>2
  <1>2. TypeOK /\ MutationInv /\ [Next]_vars => [OrphanStep]_vars
    BY <1>1
  <1> QED
    BY <1>2, TypeInit, TypeStep, MutationInit, MutationStep, PTL DEF Spec, OrphanByDelete

-----------------------------------------------------------------------------
(***************************************************************************)
(* Reads find the plans that are there all the time.                       *)
(***************************************************************************)

Found(w, i) == \E a, b \in Values : <<i, a, b>> \in hits[w]

Reads(w) ==
    /\ \A i \in whole[w] : Whole(i)
    /\ Serves(w, {"Get"}) /\ pc[w] \in {"readTicket", "readYaml"} => todo[w] \subseteq {req[w].id}
    /\ Serves(w, {"List"}) /\ pc[w] \in {"readTicket", "readYaml"} =>
          \A i \in whole[w] : i \in todo[w] \/ Found(w, i)
    /\ pc[w] = "done" =>
          /\ Serves(w, {"Get"}) /\ res[w] = "notfound" => req[w].id \notin whole[w]
          /\ Serves(w, {"List"}) /\ res[w] = "ok" => \A i \in whole[w] : Found(w, i)

\* Each step drops the plans that have lost a file, and adds none to a request
\* under way.
LEMMA WholeStep ==
    ASSUME TypeOK, Next, NEW w \in Workers
    PROVE  /\ \A i \in whole'[w] : i \in Plans /\ Whole(i)'
           /\ pc[w] # "idle" => whole'[w] \subseteq whole[w]
  BY DEF Next, Observe, TypeOK

\* Every step of a read keeps what it owes.
LEMMA ReadsOwn ==
    ASSUME TypeOK, NEW w \in Workers, OnTheWay(w), Reads(w), Step(w) \/ IOError(w), Next
    PROVE  Reads(w)'
  <1>1. /\ \A i \in whole'[w] : i \in Plans /\ Whole(i)'
        /\ pc[w] # "idle" /\ whole'[w] \subseteq whole[w]
    BY WholeStep, KeepsRequest
  <1>2. CASE ~ Serves(w, {"Get", "List"})
    <2>1. pc'[w] = "idle" \/ req'[w] = req[w]
      BY KeepsRequest
    <2>2. CASE pc'[w] = "idle"
      BY <1>1, <2>2 DEF Reads
    <2>3. CASE req'[w] = req[w]
      BY <1>1, <1>2, <2>3 DEF Reads, Serves
    <2> QED BY <2>1, <2>2, <2>3
  <1> SUFFICES ASSUME Serves(w, {"Get", "List"}) PROVE Reads(w)'
    BY <1>2
  <1>3. pc[w] \notin {"readOld", "writeTicket", "writeYaml", "removeTicket", "removeYaml"}
    BY DEF TypeOK, Serves
  <1>4. CASE Scan(w)
    <2>1. /\ todo'[w] = {i \in Plans : yaml[i] # None} /\ yaml' = yaml /\ req' = req
          /\ pc'[w] = "readTicket" /\ Serves(w, {"List"})
      BY <1>4 DEF Scan, TypeOK
    <2>2. \A i \in whole'[w] : i \in todo'[w]
      BY <1>1, <2>1 DEF Whole
    <2> QED BY <1>1, <2>1, <2>2 DEF Reads, Serves
  <1>5. ASSUME NEW i \in Plans, ReadTicket(w, i) PROVE Reads(w)'
    <2>1. /\ pc[w] = "readTicket" /\ pc'[w] = "readYaml"
          /\ UNCHANGED <<md, yaml, req, todo, hits, res>>
      BY <1>5 DEF ReadTicket, TypeOK
    <2> QED BY <1>1, <2>1 DEF Reads, Serves, Found
  <1>6. CASE ReadYaml(w)
    <2>1. /\ pc[w] = "readYaml" /\ half[w] \in Plans \X Values
          /\ yaml[half[w][1]] \in Values
      BY <1>6 DEF ReadYaml, TypeOK
    <2> PICK i \in Plans, a \in Values, b \in Values : half[w] = <<i, a>> /\ yaml[i] = b
      BY <2>1
    <2>2. /\ pc'[w] = "readTicket" /\ UNCHANGED <<req, res>>
          /\ todo'[w] = todo[w] \ {i}
          /\ hits'[w] = hits[w] \cup {<<i, a, b>>}
      BY <1>6 DEF ReadYaml, TypeOK
    <2>3. Found(w, i)' /\ \A j \in Plans : Found(w, j) => Found(w, j)'
      BY <2>2 DEF Found
    <2>4. Serves(w, {"List"}) => \A j \in whole'[w] : j \in todo'[w] \/ Found(w, j)'
      BY <1>1, <2>1, <2>2, <2>3 DEF Reads
    <2> QED BY <1>1, <2>1, <2>2, <2>4 DEF Reads, Serves
  <1>7. CASE HalfGone(w)
    <2>1. PICK r \in {"error", "notfound"} : Answer(w, r)
      BY <1>7 DEF HalfGone
    <2>2. /\ pc'[w] = "done" /\ res'[w] = r /\ req' = req
      BY <2>1, AnswerIs
    <2>3. Serves(w, {"Get"}) => \E j \in todo[w] : j = req[w].id /\ ~ Whole(j)'
      <3>1. PICK j \in todo[w] : md[j] = None \/ yaml[j] = None
        BY <1>7 DEF HalfGone, HalfMissing, TypeOK
      <3>2. pc[w] \in {"readTicket", "readYaml"}
        BY <1>7 DEF HalfGone, HalfMissing
      <3> QED BY <1>7, <3>1, <3>2 DEF HalfGone, disk, Whole, Reads
    <2> QED BY <1>1, <2>2, <2>3 DEF Reads, Serves
  <1>8. CASE AllRead(w)
    <2>1. /\ pc[w] = "readTicket" /\ todo[w] = {} /\ Answer(w, "ok")
      BY <1>8 DEF AllRead
    <2> QED BY <1>1, <2>1, AnswerIs DEF Reads, Serves, Found
  <1>9. CASE Respond(w)
    BY <1>1, <1>9 DEF Respond, Reads, TypeOK
  <1>10. CASE IOError(w)
    <2>1. pc'[w] = "done" /\ res'[w] = "error" /\ req' = req
      BY <1>3, <1>10 DEF IOError, Worst, OnTheWay, TypeOK
    <2> QED BY <1>1, <2>1 DEF Reads, Serves
  <1> QED
    BY <1>3, <1>4, <1>5, <1>6, <1>7, <1>8, <1>9, <1>10
    DEF Step, ReadOld, WriteTicket, WriteYaml, RemoveTicket, RemoveYaml

\* Every step keeps what the reads owe.
LEMMA ReadsStep ==
    TypeOK /\ MutationInv /\ (\A w \in Workers : Reads(w)) /\ [Next]_vars => \A w \in Workers : Reads(w)'
  <1> SUFFICES ASSUME TypeOK, MutationInv, NEW w \in Workers, Reads(w), [Next]_vars PROVE Reads(w)'
    OBVIOUS
  <1>1. CASE UNCHANGED vars
    <2>1. /\ UNCHANGED <<md, yaml, pc, req, whole>>
          /\ UNCHANGED <<todo, hits, res>>
      BY <1>1 DEF vars
    <2> QED BY <2>1 DEF Reads, Serves, Found, Whole
  <1> SUFFICES ASSUME Next PROVE Reads(w)'
    BY <1>1
  <1>2. /\ \A i \in whole'[w] : i \in Plans /\ Whole(i)'
        /\ pc[w] # "idle" => whole'[w] \subseteq whole[w]
    BY WholeStep
  <1>3. ASSUME /\ pc'[w] = pc[w] /\ req'[w] = req[w] /\ todo'[w] = todo[w]
               /\ hits'[w] = hits[w] /\ res'[w] = res[w]
        PROVE  Reads(w)'
    BY <1>2, <1>3 DEF Reads, Serves, Found
  <1>4. CASE \E v \in Workers \ {w} : Step(v) \/ IOError(v) \/ \E q \in Requests : Begin(v, q)
    BY <1>3, <1>4, OthersStay
  <1>5. CASE Step(w) \/ IOError(w)
    BY <1>5, ReadsOwn DEF MutationInv
  <1>6. ASSUME NEW q \in Requests, Begin(w, q) PROVE Reads(w)'
    <2>1. pc'[w] = FirstStep(q) /\ req'[w] = q /\ todo'[w] = IF q.op = "Get" THEN {q.id} ELSE {}
      BY <1>6 DEF Begin, TypeOK
    <2>2. /\ pc'[w] \notin {"readYaml", "done"}
          /\ pc'[w] = "readTicket" => q.op = "Get"
      BY <2>1, RequestFields DEF FirstStep
    <2> QED BY <1>2, <2>1, <2>2 DEF Reads, Serves
  <1>7. ASSUME NEW i \in Plans, TicketEndpoint(i) \/ DropFile(i) PROVE Reads(w)'
    BY <1>3, <1>7 DEF TicketEndpoint, DropFile
  <1>8. CASE Crash
    BY <1>2, <1>8 DEF Crash, Reads
  <1> QED BY <1>4, <1>5, <1>6, <1>7, <1>8 DEF Next

\* A read finds each plan whose two files are there all the time while it runs.
THEOREM ReadsFind == Spec => []ReadsFindWhole
  <1> DEFINE AllReads == \A w \in Workers : Reads(w)
  <1>1. Init => AllReads
    BY DEF Init, Reads, Serves
  <1>2. TypeOK /\ MutationInv /\ AllReads /\ [Next]_vars => AllReads'
    BY ReadsStep
  <1>3. AllReads => ReadsFindWhole
    BY DEF Reads, Found, ReadsFindWhole
  <1> HIDE DEF AllReads
  <1> QED
    BY <1>1, <1>2, <1>3, TypeInit, TypeStep, MutationInit, MutationStep, PTL DEF Spec
=============================================================================
