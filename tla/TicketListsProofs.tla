------------------------- MODULE TicketListsProofs -------------------------
(***************************************************************************)
(* Proofs about TicketLists, for every set of tickets, labels, comments    *)
(* and workers.                                                            *)
(***************************************************************************)
EXTENDS TicketLists, TicketStoreProofs

\* A list has seen every ticket that matches now, and only a list finds any.
SoundInv ==
    \A w \in Workers :
        /\ Matching(w) \subseteq seen[w]
        /\ hits[w] \subseteq seen[w]
        /\ Lists(w) \/ hits[w] = {}

\* A step finds no more than what matches now.
LEMMA FoundNow ==
    ASSUME TypeOK, SoundInv, [Next]_vars, NEW w \in Workers
    PROVE  /\ hits'[w] \subseteq hits[w] \cup Matching(w)
           /\ Lists(w)' \/ hits'[w] = {}
  <1>1. hits[w] # {} => Lists(w)
    BY DEF SoundInv
  <1>2. ASSUME NEW v \in Workers, NEW q \in Requests, Begin(v, q)
        PROVE  hits' = hits /\ (Lists(w) => Lists(w)')
    BY <1>2 DEF Begin, Goes, Lists, TypeOK
  <1>3. ASSUME NEW v \in Workers, Step(v) \/ IOError(v)
        PROVE  /\ hits'[w] \subseteq hits[w] \cup Matching(w)
               /\ Lists(w)' \/ hits'[w] = {}
    <2>1. CASE \E t \in Tickets : ReadListed(v, t)
      <3>1. PICK t \in Tickets : ReadListed(v, t)
        BY <2>1
      <3>2. v = w => Lists(w)
        BY <3>1 DEF ReadListed, Lists, TypeOK
      <3>3. hits'[w] = hits[w] \/ (v = w /\ hits'[w] = hits[w] \cup {t} /\ t \in Matching(w))
        BY <3>1, <3>2 DEF ReadListed, Matching, TypeOK
      <3> QED BY <3>1, <3>2, <3>3, <1>1 DEF ReadListed, Lists
    <2>2. CASE Respond(v)
      <3>1. hits'[w] \subseteq hits[w] /\ (v = w => hits'[w] = {})
        BY <2>2 DEF Respond, TypeOK
      <3>2. v # w => pc'[w] = pc[w] /\ req'[w] = req[w]
        BY <2>2 DEF Respond, Goes, TypeOK
      <3> QED BY <3>1, <3>2, <1>1 DEF Lists
    <2>3. CASE ~ Respond(v) /\ \A t \in Tickets : ~ ReadListed(v, t)
      <3>1. hits'[w] \subseteq hits[w] /\ req' = req
        <4>1. ASSUME NEW r, Answer(v, r) PROVE hits'[w] \subseteq hits[w] /\ req' = req
          BY <4>1 DEF Answer, TypeOK
        <4>2. (\E r : Answer(v, r)) \/ (hits' = hits /\ req' = req)
          BY <1>3, <2>3
          DEF Step, NotFound, Read, WriteTicket, IndexCreated, IndexUpdated, WriteComment,
              ReadForDelete, Unindex, RemoveFile, AskIndex, ReadDir, ListDone, ListedFileGone, IOError
        <4> QED BY <4>1, <4>2
      <3>2. \E s \in Steps \ {"idle"} : Goes(v, s)
        <4>1. \A s \in {"write", "index", "unindex", "remove", "scan", "read", "done"} :
                 s \in Steps \ {"idle"}
          BY DEF Steps
        <4>2. (\E r : Answer(v, r)) => Goes(v, "done")
          BY DEF Answer
        <4>3. CASE Step(v)
          BY <4>3, <4>1, <4>2, <2>3
          DEF Step, NotFound, Read, WriteTicket, IndexCreated, IndexUpdated, WriteComment,
              ReadForDelete, Unindex, RemoveFile, AskIndex, ReadDir, ListDone, ListedFileGone
        <4>4. CASE IOError(v)
          BY <4>4, <4>1, <4>2 DEF IOError
        <4> QED BY <1>3, <4>3, <4>4
      <3>3. pc'[w] = "idle" => pc[w] = "idle"
        BY <3>2 DEF Goes, TypeOK
      <3> QED BY <3>1, <3>3, <1>1 DEF Lists
    <2> QED BY <2>1, <2>2, <2>3
  <1>4. ASSUME NEW t \in Tickets, DropFile(t) PROVE hits' = hits /\ (Lists(w) => Lists(w)')
    BY <1>4 DEF DropFile, Lists
  <1>5. CASE Restart
    BY <1>5 DEF Restart
  <1>6. CASE UNCHANGED vars
    BY <1>6, <1>1 DEF vars, Lists
  <1> QED BY <1>1, <1>2, <1>3, <1>4, <1>5, <1>6 DEF Next

\* Every step keeps what the lists have found among what they have seen.
LEMMA SoundStep == TypeOK /\ SoundInv /\ [NextL]_varsL => SoundInv'
  <1> SUFFICES ASSUME TypeOK, SoundInv, [NextL]_varsL, NEW w \in Workers
               PROVE  /\ Matching(w)' \subseteq seen'[w]
                      /\ hits'[w] \subseteq seen'[w]
                      /\ Lists(w)' \/ hits'[w] = {}
    BY DEF SoundInv
  <1>1. CASE NextL
    <2>1. seen'[w] = IF Lists(w)' THEN seen[w] \cup Matching(w)' ELSE {}
      BY <1>1 DEF NextL, Observe
    <2>2. hits'[w] \subseteq hits[w] \cup Matching(w) /\ (Lists(w)' \/ hits'[w] = {})
      BY <1>1, FoundNow DEF NextL
    <2>3. ~ Lists(w)' => Matching(w)' = {}
      BY DEF Matching
    <2> QED BY <2>1, <2>2, <2>3 DEF SoundInv
  <1>2. CASE UNCHANGED varsL
    BY <1>2 DEF varsL, SoundInv, Matching, Matches, Lists
  <1> QED BY <1>1, <1>2

\* A list returns no ticket that has not matched its filter while it ran,
\* whatever the index says: the filter is checked again on the file.
THEOREM ListsAreSound == SpecL => []ListSound
  <1>1. InitL => TypeOK /\ SoundInv
    BY TypeInit DEF InitL, Init, SoundInv, Matching, Lists
  <1>2. [NextL]_varsL => [Next]_vars
    BY DEF NextL, varsL, vars
  <1>3. SoundInv => ListSound
    BY DEF SoundInv, ListSound
  <1> QED BY <1>1, <1>2, <1>3, TypeStep, SoundStep, PTL DEF SpecL

-----------------------------------------------------------------------------
(***************************************************************************)
(* What the index misses.  The invariant of TicketStoreProofs holds for    *)
(* the tickets that are not cut.                                           *)
(***************************************************************************)

CutInv == IndexInv(Tickets \ cut)

\* Every step keeps the index complete for all tickets that are not cut.
LEMMA CutStep == IndexMaintained /\ TypeOK /\ CutInv /\ [NextL]_varsL => CutInv'
  <1> SUFFICES ASSUME IndexMaintained, TypeOK, CutInv, [NextL]_varsL PROVE CutInv'
    OBVIOUS
  <1>1. PICK S \in SUBSET Tickets : S = Tickets \ cut
    OBVIOUS
  <1>2. PICK R \in SUBSET Tickets : R = Tickets \ cut'
    OBVIOUS
  <1>3. IndexInv(S) /\ [Next]_vars
    BY <1>1 DEF CutInv, NextL, varsL, vars
  <1>4. IndexInv(R)'
    <2>1. CASE NextL
      <3>1. cut' = {t \in Tickets : (t \in cut \/ GivenUp(t)) /\ ~ PutBack(t)}
        BY <2>1 DEF NextL, Observe
      <3>2. CASE Restart
        BY <1>2, <3>2, RestartComplete, IndexInvFewer
      <3>3. CASE ~ Restart
        <4>1. ASSUME NEW w \in Workers, HasUnindexed(w), IOError(w) PROVE req[w].id \notin R
          <5>1. req[w] \in Requests /\ req[w].id \in Tickets
            BY <4>1, Serving, RequestFields DEF HasUnindexed, TypeOK
          <5>2. ASSUME NEW v \in Workers, IndexCreated(v) PROVE FALSE
            BY <4>1, <5>2 DEF HasUnindexed, IOError, IndexCreated, At, Answer, Goes, TypeOK
          <5> QED BY <1>2, <3>1, <3>3, <4>1, <5>1, <5>2 DEF GivenUp, PutBack
        <4>2. \A t \in R \ S : \E w \in Workers : IndexCreated(w) /\ req[w].id = t
          BY <1>1, <1>2, <3>1, <3>3 DEF PutBack
        <4> QED BY <1>3, <4>1, <4>2, IndexStep
      <3> QED BY <3>2, <3>3
    <2>2. CASE UNCHANGED varsL
      <3>1. R = S /\ UNCHANGED vars
        BY <1>1, <1>2, <2>2 DEF varsL, vars
      <3>2. ASSUME NEW w \in Workers, HasUnindexed(w), IOError(w) PROVE FALSE
        BY <3>1, <3>2 DEF HasUnindexed, IOError, At, Answer, Goes, vars, TypeOK
      <3> QED BY <1>3, <3>1, <3>2, IndexStep
    <2> QED BY <2>1, <2>2
  <1> QED BY <1>2, <1>4 DEF CutInv, IndexInv, CompleteFor, OnTheWay

\* The types and the completeness of the index, for every behaviour.
LEMMA AlwaysMaintained ==
    IndexMaintained => (SpecL => [](TypeOK /\ CutInv /\ IndexMissesOnlyCut))
  <1> SUFFICES ASSUME IndexMaintained PROVE SpecL => [](TypeOK /\ CutInv /\ IndexMissesOnlyCut)
    OBVIOUS
  <1>1. InitL => TypeOK /\ CutInv
    <2> SUFFICES ASSUME InitL PROVE CutInv
      BY TypeInit DEF InitL
    <2>1. Tickets \ cut \in SUBSET Tickets
      OBVIOUS
    <2> QED BY <2>1, IndexInit DEF InitL, CutInv
  <1>2. TypeOK /\ CutInv /\ [NextL]_varsL => TypeOK' /\ CutInv'
    <2>1. [NextL]_varsL => [Next]_vars
      BY DEF NextL, varsL, vars
    <2> QED BY <2>1, TypeStep, CutStep
  <1>3. CutInv => IndexMissesOnlyCut
    BY DEF CutInv, IndexInv, CompleteFor, IndexMissesOnlyCut
  <1> QED BY <1>1, <1>2, <1>3, PTL DEF SpecL

\* As long as mutations of one ticket do not overlap and no plan is written, the
\* index misses a ticket only between the two steps of a change to it, or after a
\* delete that has failed to remove it and until a create or a restart.
THEOREM OnlyCutIsMissed == IndexMaintained => (SpecL => []IndexMissesOnlyCut)
  BY AlwaysMaintained, PTL

-----------------------------------------------------------------------------
(***************************************************************************)
(* A list that succeeds is complete.                                       *)
(*                                                                         *)
(* What it still owes its client is kept[w]: before it asks the index, the *)
(* index must have these tickets; afterwards they are among those it has   *)
(* still to look at or has found.                                          *)
(***************************************************************************)

Owes(w) ==
    /\ kept[w] \subseteq Matching(w)
    /\ pc[w] = "begin" /\ req[w].op = "List" => \A t \in kept[w] : Under(t, req[w].labels)
    /\ pc[w] \in {"scan", "read"} => kept[w] \subseteq todo[w] \cup hits[w]
    /\ Lists(w) /\ pc[w] = "done" /\ res[w] = "ok" => kept[w] \subseteq hits[w]

\* A request is one of a list at the steps of lists alone.
LEMMA ListSteps ==
    ASSUME TypeOK, NEW w \in Workers
    PROVE  /\ Lists(w) => pc[w] \in {"begin", "scan", "read", "done"}
           /\ pc[w] \in {"scan", "read"} => Lists(w)
           /\ pc[w] = "begin" /\ req[w].op = "List" => Lists(w)
  BY DEF TypeOK, Lists, ListOps, Steps

\* A list that is not over keeps no more tickets than before, and only those
\* that match and that no delete is about to remove; a new one starts with no
\* ticket that the index may miss.
LEMMA KeptStep ==
    ASSUME NextL, NEW w \in Workers
    PROVE  /\ kept'[w] \subseteq Matching(w)'
           /\ pc[w] # "idle" =>
                 kept'[w] \subseteq kept[w] /\ \A t \in kept'[w] : ~ Removing(t)'
           /\ pc[w] = "idle" => \A t \in kept'[w] : ~ Unsettled(t)' /\ t \notin cut'
  BY DEF NextL, Observe

\* A worker moves alone.
LEMMA OthersStay ==
    ASSUME TypeOK, NEW v \in Workers, NEW w \in Workers, v # w, Step(v) \/ IOError(v)
    PROVE  /\ pc'[w] = pc[w] /\ req'[w] = req[w] /\ res'[w] = res[w]
           /\ todo'[w] = todo[w] /\ hits'[w] = hits[w]
  <1>1. ASSUME NEW r, Answer(v, r)
        PROVE  /\ pc'[w] = pc[w] /\ req'[w] = req[w] /\ res'[w] = res[w]
               /\ todo'[w] = todo[w] /\ hits'[w] = hits[w]
    BY <1>1 DEF Answer, Goes, TypeOK
  <1>2. CASE \E r : Answer(v, r)
    BY <1>1, <1>2
  <1>3. CASE ~ \E r : Answer(v, r)
    <2>1. CASE AskIndex(v) \/ ReadDir(v) \/ Respond(v) \/ \E t \in Tickets : ReadListed(v, t)
      BY <2>1 DEF AskIndex, ReadDir, Respond, ReadListed, Goes, TypeOK
    <2>2. CASE ~ (AskIndex(v) \/ ReadDir(v) \/ Respond(v) \/ \E t \in Tickets : ReadListed(v, t))
      <3>1. /\ UNCHANGED <<req, todo, hits, res>>
            /\ \E s : Goes(v, s)
        BY <1>3, <2>2
        DEF Step, NotFound, Read, WriteTicket, IndexCreated, IndexUpdated, WriteComment,
            ReadForDelete, Unindex, RemoveFile, ListDone, ListedFileGone, IOError
      <3> QED BY <3>1 DEF Goes, TypeOK
    <2> QED BY <2>1, <2>2
  <1> QED BY <1>2, <1>3

\* A step of another worker leaves a ticket that still matches, and that is not
\* about to be removed, in the index under labels it was under: an update takes
\* it out only of labels that are not in the file it has written.
LEMMA StaysUnder ==
    ASSUME TypeOK, NEW S, IndexInv(S), NEW v \in Workers, Step(v) \/ IOError(v), NEW t \in Tickets,
           NEW L \in SUBSET Labels, Under(t, L), Matches(md'[t], L), ~ Removing(t)'
    PROVE  Under(t, L)'
  <1>1. CASE index' = index
    BY <1>1 DEF Under, MatchLabels
  <1>2. CASE IndexCreated(v)
    BY <1>2 DEF IndexCreated, Add, Under, MatchLabels, TypeOK
  <1>3. CASE IndexUpdated(v)
    <2>1. /\ md' = md /\ pc[v] = "index" /\ req[v] \in Requests /\ req[v].id \in Tickets
          /\ req[v].labels \in SUBSET Labels
          /\ index' = Update(index, req[v].id, mem[v].labels, req[v].labels)
          /\ mem[v].labels \in SUBSET Labels
      BY <1>3, Serving, RequestFields DEF IndexUpdated, At, TypeOK, Contents
    <2>2. CASE req[v].id = t
      <3>1. L \subseteq req[v].labels
        BY <2>1, <2>2 DEF IndexInv, OnTheWay, File, Matches
      <3> QED BY <2>1, <2>2, <3>1 DEF Update, Add, Remove, Under, MatchLabels, TypeOK
    <2>3. CASE req[v].id # t
      BY <2>1, <2>3, IndexCalls DEF Under, MatchLabels, TypeOK
    <2> QED BY <2>2, <2>3
  <1>4. CASE Unindex(v)
    <2>1. /\ req[v] \in Requests /\ req[v].id \in Tickets /\ mem[v].labels \in SUBSET Labels
          /\ index' = Remove(index, req[v].id, mem[v].labels)
          /\ HasUnindexed(v)' /\ req'[v] = req[v]
      BY <1>4, Serving, RequestFields DEF Unindex, At, Goes, HasUnindexed, TypeOK, Contents
    <2>2. req[v].id # t
      BY <2>1 DEF Removing
    <2> QED BY <2>1, <2>2, IndexCalls DEF Under, MatchLabels, TypeOK
  <1> QED
    BY <1>1, <1>2, <1>3, <1>4
    DEF Step, NotFound, Read, WriteTicket, WriteComment, ReadForDelete, RemoveFile, AskIndex,
        ReadDir, ListDone, ReadListed, ListedFileGone, Respond, IOError, files

\* Every step of a list keeps what it owes.
LEMMA OwnStep ==
    ASSUME TypeOK, NEW w \in Workers, Owes(w), Lists(w), Step(w) \/ IOError(w), NextL
    PROVE  Owes(w)'
  <1>1. /\ kept'[w] \subseteq Matching(w)' /\ kept'[w] \subseteq kept[w]
    BY KeptStep DEF Lists
  <1>2. pc[w] \in {"begin", "scan", "read", "done"} /\ req[w].op \in ListOps
    BY ListSteps DEF Lists
  <1>3. ASSUME NEW r, Answer(w, r)
        PROVE  /\ pc'[w] = "done" /\ req' = req /\ res'[w] = r
               /\ hits'[w] = IF r = "ok" THEN hits[w] ELSE {}
    BY <1>3 DEF Answer, Goes, TypeOK
  <1>4. CASE AskIndex(w)
    <2>1. kept[w] \subseteq Candidates(w)
      <3>1. CASE req[w].op = "List" /\ req[w].labels # {}
        BY <1>4, <3>1 DEF AskIndex, Owes, Under, Candidates
      <3>2. CASE ~ (req[w].op = "List" /\ req[w].labels # {})
        BY <1>2, <3>2 DEF Owes, Matching, Candidates, ListOps
      <3> QED BY <3>1, <3>2
    <2>2. todo'[w] = Candidates(w) /\ pc'[w] \in {"done", "scan"} /\ req' = req /\ hits' = hits
      BY <1>4 DEF AskIndex, Goes, TypeOK
    <2>3. pc'[w] = "done" => Candidates(w) = {}
      BY <1>4 DEF AskIndex, Goes, TypeOK
    <2> QED BY <1>1, <2>1, <2>2, <2>3 DEF Owes
  <1>5. CASE ReadDir(w)
    <2>1. /\ todo'[w] = {t \in todo[w] : md[t] # None} /\ hits' = hits /\ md' = md
          /\ pc'[w] = "read" /\ pc[w] = "scan"
      BY <1>5 DEF ReadDir, Goes, TypeOK
    <2>2. \A t \in Matching(w)' : md[t] # None
      BY <2>1 DEF Matching, Matches
    <2> QED BY <1>1, <2>1, <2>2 DEF Owes
  <1>6. ASSUME NEW t \in Tickets, ReadListed(w, t) PROVE Owes(w)'
    <2>1. /\ todo'[w] = todo[w] \ {t} /\ pc[w] = "read" /\ pc'[w] = "read"
          /\ hits'[w] = IF Matches(md[t], req[w].labels) THEN hits[w] \cup {t} ELSE hits[w]
          /\ md' = md /\ req' = req
      BY <1>6 DEF ReadListed, TypeOK
    <2>2. t \in Matching(w)' => Matches(md[t], req[w].labels)
      BY <2>1 DEF Matching
    <2> QED BY <1>1, <2>1, <2>2 DEF Owes
  <1>7. CASE ListDone(w)
    <2>1. pc[w] = "read" /\ todo[w] = {} /\ pc'[w] = "done" /\ hits'[w] = hits[w]
      BY <1>7, <1>3 DEF ListDone
    <2> QED BY <1>1, <2>1 DEF Owes
  <1>8. CASE Answer(w, "error")
    BY <1>1, <1>3, <1>8 DEF Owes
  <1>9. CASE Respond(w)
    <2>1. pc'[w] = "idle"
      BY <1>9 DEF Respond, Goes, TypeOK
    <2> QED BY <1>1, <2>1 DEF Owes, Lists
  <1>10. \/ AskIndex(w) \/ ReadDir(w) \/ ListDone(w) \/ Respond(w) \/ Answer(w, "error")
         \/ \E t \in Tickets : ReadListed(w, t)
    <2>1. CASE Step(w)
      BY <1>2, <2>1
      DEF Step, NotFound, Read, ReadOp, WriteTicket, IndexCreated, IndexUpdated, WriteComment,
          ReadForDelete, Unindex, RemoveFile, ListedFileGone, At, ListOps
    <2>2. CASE IOError(w)
      BY <1>2, <2>2 DEF IOError, At, ListOps
    <2> QED BY <2>1, <2>2
  <1> QED BY <1>4, <1>5, <1>6, <1>7, <1>8, <1>9, <1>10

\* A step of another worker keeps what the list owes.
LEMMA OtherStep ==
    ASSUME TypeOK, NEW S, IndexInv(S), NEW w \in Workers, Owes(w), NEW v \in Workers, v # w,
           Step(v) \/ IOError(v), NextL, pc[w] # "idle"
    PROVE  Owes(w)'
  <1>1. /\ pc'[w] = pc[w] /\ req'[w] = req[w] /\ res'[w] = res[w]
        /\ todo'[w] = todo[w] /\ hits'[w] = hits[w]
    BY OthersStay
  <1>2. /\ kept'[w] \subseteq Matching(w)' /\ kept'[w] \subseteq kept[w]
        /\ \A t \in kept'[w] : ~ Removing(t)'
    BY KeptStep
  <1>3. ASSUME pc[w] = "begin", req[w].op = "List", NEW t \in kept'[w]
        PROVE  Under(t, req[w].labels)'
    <2>1. req[w] \in Requests /\ req[w].labels \in SUBSET Labels
      BY <1>3, Serving, RequestFields
    <2>2. t \in Tickets /\ Matches(md'[t], req[w].labels)
      BY <1>1, <1>2 DEF Matching
    <2>3. Under(t, req[w].labels) /\ ~ Removing(t)'
      BY <1>2, <1>3 DEF Owes
    <2>4. \A L \in SUBSET Labels :
             Under(t, L) /\ Matches(md'[t], L) => t \in MatchLabels(index', L)
      BY <2>2, <2>3, StaysUnder DEF Under
    <2> QED BY <1>1, <2>1, <2>2, <2>3, <2>4 DEF Under
  <1> QED BY <1>1, <1>2, <1>3 DEF Owes, Lists

\* Every step keeps what the lists owe, as long as the index misses no more than
\* it may.
LEMMA OwesStep ==
    ASSUME TypeOK, TypeOK', NEW S, IndexInv(S), IndexMissesOnlyCut', [NextL]_varsL,
           NEW w \in Workers, Owes(w)
    PROVE  Owes(w)'
  <1>1. CASE UNCHANGED varsL
    BY <1>1 DEF varsL, Owes, Matching, Matches, Lists, Under, MatchLabels
  <1>2. CASE NextL /\ pc[w] = "idle"
    <2>1. /\ kept'[w] \subseteq Matching(w)'
          /\ \A t \in kept'[w] : ~ Unsettled(t)' /\ t \notin cut'
      BY <1>2, KeptStep
    <2>2. pc'[w] \in {"idle", "begin", "write", "remove"}
      <3>1. ASSUME NEW v \in Workers, NEW q \in Requests, Begin(v, q)
            PROVE  pc'[w] \in {"idle", "begin", "write", "remove"}
        BY <1>2, <3>1 DEF Begin, Goes, FirstStep, TypeOK
      <3>2. ASSUME NEW v \in Workers, Step(v) \/ IOError(v) PROVE pc'[w] = "idle"
        <4>1. v # w
          BY <1>2, <3>2, MayFailAssumption
          DEF Step, NotFound, Read, ReadOp, WriteTicket, IndexCreated, IndexUpdated, WriteComment,
              ReadForDelete, Unindex, RemoveFile, AskIndex, ReadDir, ListDone, ReadListed,
              ListedFileGone, Respond, IOError, At
        <4> QED BY <1>2, <3>2, <4>1, OthersStay
      <3>3. (\E t \in Tickets : DropFile(t)) \/ Restart => pc'[w] = "idle"
        BY <1>2 DEF DropFile, Restart
      <3> QED BY <1>2, <3>1, <3>2, <3>3 DEF NextL, Next
    <2>3. ASSUME pc'[w] = "begin", req'[w].op = "List", NEW t \in kept'[w]
          PROVE  Under(t, req[w].labels)'
      <3>1. t \in Tickets /\ md'[t] # None /\ req'[w].labels \subseteq md'[t].labels
        BY <2>1 DEF Matching, Matches
      <3>2. t \in MatchLabels(index', md'[t].labels)
        BY <2>1, <3>1 DEF IndexMissesOnlyCut
      <3> QED BY <3>1, <3>2 DEF Under, MatchLabels
    <2>4. pc'[w] # "done" /\ pc'[w] \notin {"scan", "read"}
      BY <2>2
    <2> QED BY <2>1, <2>3, <2>4 DEF Owes
  <1>3. CASE NextL /\ pc[w] # "idle"
    <2>1. /\ kept'[w] \subseteq Matching(w)'
          /\ kept'[w] \subseteq kept[w]
      BY <1>3, KeptStep
    <2>2. ASSUME NEW v \in Workers, NEW q \in Requests, Begin(v, q) PROVE Owes(w)'
      <3>1. /\ v # w /\ UNCHANGED <<index, todo, hits, res>>
            /\ pc'[w] = pc[w] /\ req'[w] = req[w]
        BY <1>3, <2>2 DEF Begin, Goes, TypeOK
      <3> QED BY <2>1, <3>1 DEF Owes, Lists, Under, MatchLabels
    <2>3. ASSUME NEW v \in Workers, Step(v) \/ IOError(v) PROVE Owes(w)'
      <3>1. CASE v # w
        BY <1>3, <2>3, <3>1, OtherStep
      <3>2. CASE v = w /\ Lists(w)
        BY <1>3, <2>3, <3>2, OwnStep
      <3>3. CASE v = w /\ ~ Lists(w)
        <4>1. kept[w] = {} /\ kept'[w] = {}
          BY <2>1, <3>3 DEF Owes, Matching
        <4> QED BY <4>1 DEF Owes
      <3> QED BY <3>1, <3>2, <3>3
    <2>4. ASSUME NEW t \in Tickets, DropFile(t) PROVE Owes(w)'
      BY <2>1, <2>4 DEF DropFile, Owes, Lists, Under, MatchLabels
    <2>5. CASE Restart
      <3>1. pc'[w] = "idle" /\ kept'[w] = {}
        BY <2>1, <2>5 DEF Restart, Matching, Lists
      <3> QED BY <3>1 DEF Owes
    <2> QED BY <1>3, <2>2, <2>3, <2>4, <2>5 DEF NextL, Next
  <1> QED BY <1>1, <1>2, <1>3

\* As long as the index is maintained, a list that succeeds has found every
\* ticket that matched its filter all the time while it ran, although the index,
\* the directory and the files are read one after the other.
THEOREM ListsAreComplete == IndexMaintained => (SpecL => []ListComplete)
  <1> SUFFICES ASSUME IndexMaintained PROVE SpecL => []ListComplete
    OBVIOUS
  <1> DEFINE Owed == \A w \in Workers : Owes(w)
  <1>1. InitL => Owed
    BY DEF InitL, Init, Owes, Matching, Lists
  <1>2. TypeOK /\ TypeOK' /\ CutInv /\ IndexMissesOnlyCut' /\ Owed /\ [NextL]_varsL => Owed'
    BY OwesStep DEF CutInv
  <1>3. Owed => ListComplete
    BY DEF Owes, ListComplete
  <1> HIDE DEF Owed
  <1> QED BY <1>1, <1>2, <1>3, AlwaysMaintained, PTL DEF SpecL
=============================================================================
