----------------------------- MODULE OutboxProofs -----------------------------
(***************************************************************************)
(* Proofs about Outbox, for every number of replies, chunks, instances and *)
(* attempts, and whichever of crashes, reloads, pacing and lost            *)
(* acknowledgements are switched on.                                       *)
(***************************************************************************)
EXTENDS Outbox, TLAPS

\* Rows and the pairs before and after one are pairs of naturals.
LEMMA RowFacts ==
    ASSUME NEW r \in Rows
    PROVE  /\ r[1] \in Groups /\ r[2] \in 0 .. Chunks - 1
           /\ r = <<r[1], r[2]>>
           /\ Earlier(r) \subseteq Rows
           /\ Later(r) \subseteq Rows
           /\ <<r[1], 0>> \in Rows
           /\ \A e \in Earlier(r) : e[1] = r[1] /\ Earlier(e) \subseteq Earlier(r)
BY OutboxConstants DEF Rows, Groups, Earlier, Later

\* Moving an attempt to another step keeps it an attempt on the same row.
LEMMA StepFacts ==
    ASSUME NEW f \in Flight, NEW st \in {"read", "sending", "accepted", "failing", "telling"}
    PROVE  /\ [f EXCEPT !.step = st] \in Flight
           /\ [f EXCEPT !.step = st].row = f.row
           /\ [f EXCEPT !.step = st].step = st
BY DEF Flight

\* Step keeps the set of attempts well typed.
LEMMA StepType ==
    ASSUME flight \subseteq Flight, NEW f \in flight,
           NEW st \in {"read", "sending", "accepted", "failing", "telling"}, Step(f, st)
    PROVE  flight' \subseteq Flight
<1>1. [f EXCEPT !.step = st] \in Flight
  BY StepFacts
<1>2. QED
  BY <1>1 DEF Step

------------------------------------------------------------------------------
\* The columns, the instances and the running attempts keep their shapes.
THEOREM TypeCorrect == Spec => []TypeOK
<1>1. Init => TypeOK
  BY OutboxConstants DEF Init, TypeOK, Status, DrainState, Inst, Flight
<1>2. TypeOK /\ [Next]_vars => TypeOK'
  <2> SUFFICES ASSUME TypeOK, [Next]_vars PROVE TypeOK'
    OBVIOUS
  <2> USE DEF TypeOK, events
  <2>1. CASE StartAgent
    BY <2>1, OutboxConstants DEF StartAgent, RecoverInflight, Status, Inst
  <2>2. CASE Unregister
    BY <2>2, OutboxConstants DEF Unregister, table
  <2>3. CASE Crash
    <3>1. \A f \in flight : f.row \in Rows
      BY DEF Flight
    <3>2. silent' \subseteq Rows
      BY <2>3, <3>1 DEF Crash
    <3>3. QED
      BY <2>3, <3>2, OutboxConstants DEF Crash, table, DrainState
  <2>4. ASSUME NEW i \in Inst, NEW g \in Groups, Deliver(i, g) PROVE TypeOK'
    <3>1. drain' \in [Inst -> [Slots -> DrainState]]
      BY <2>4 DEF Deliver, DrainState, Slots
    <3>2. status' \in [Rows -> Status] /\ due' \in [Rows -> BOOLEAN]
      BY <2>4 DEF Deliver, Insert, Status
    <3>3. QED
      BY <2>4, <3>1, <3>2 DEF Deliver, Insert, objects
  <2>5. ASSUME NEW i \in Inst, PollTick(i) \/ GapElapses(i) PROVE TypeOK'
    <3>1. CASE PollTick(i)
      BY <3>1 DEF PollTick, table, objects, DrainState, Slots
    <3>2. CASE GapElapses(i)
      BY <3>2 DEF GapElapses, table, objects
    <3>3. QED
      BY <2>5, <3>1, <3>2
  <2>6. ASSUME NEW i \in Inst, NEW s \in Slots, ReadDue(i, s) PROVE TypeOK'
    <3>1. \A r \in DueBatch : [inst |-> i, slot |-> s, row |-> r,
             attempts |-> attempts[r], step |-> "read"] \in Flight
      BY DEF DueBatch, Flight
    <3>2. QED
      BY <2>6, <3>1 DEF ReadDue, table, objects, DrainState
  <2>7. ASSUME NEW i \in Inst, NEW s \in Slots, EndPass(i, s) PROVE TypeOK'
    BY <2>7 DEF EndPass, table, objects, DrainState
  <2>8. ASSUME NEW f \in flight, Attempt(f) PROVE TypeOK'
    <3>0. f \in Flight /\ f.row \in Rows /\ f.inst \in Inst /\ f.slot \in Slots
      BY DEF Flight
    <3>1. CASE UnknownChannel(f)
      <4>1. flight' \subseteq Flight
        BY <3>1, StepType DEF UnknownChannel
      <4>2. QED
        BY <3>0, <3>1, <4>1 DEF UnknownChannel, MarkFailed, objects, Status
    <3>2. CASE Skip(f)
      BY <3>2 DEF Skip, table, objects
    <3>3. CASE Claim(f)
      <4>1. flight' \subseteq Flight
        BY <3>3, StepType DEF Claim
      <4>2. QED
        BY <3>0, <3>3, <4>1 DEF Claim, objects, Status
    <3>4. CASE ProviderAccepts(f)
      <4>1. flight' \subseteq Flight
        BY <3>4, StepType DEF ProviderAccepts
      <4>2. QED
        BY <3>0, <3>4, <4>1 DEF ProviderAccepts, table, objects
    <3>5. CASE Sent(f)
      BY <3>0, <3>5, OutboxConstants
      DEF Sent, MarkSent, CoolDown, Progress, objects, Status, DrainState
    <3>6. CASE Retry(f)
      BY <3>0, <3>6, OutboxConstants DEF Retry, MarkRetry, CoolDown, objects, Status
    <3>7. CASE Abandon(f)
      <4>1. flight' \subseteq Flight
        BY <3>7, StepType DEF Abandon
      <4>2. QED
        BY <3>0, <3>7, <4>1 DEF Abandon, AbandonGroupAfter, objects, Status
    <3>8. CASE Report(f)
      BY <3>0, <3>8 DEF Report, Progress, table, objects, DrainState
    <3>9. ASSUME NEW retryable \in BOOLEAN, GiveUp(f, retryable) PROVE TypeOK'
      <4>1. flight' \subseteq Flight
        BY <3>9, StepType DEF GiveUp
      <4>2. QED
        BY <3>0, <3>9, <4>1, OutboxConstants DEF GiveUp, MarkFailed, CoolDown, objects, Status
    <3>10. QED
      BY <2>8, <3>1, <3>2, <3>3, <3>4, <3>5, <3>6, <3>7, <3>8, <3>9 DEF Attempt
  <2>9. ASSUME NEW r \in Rows, BackoffElapses(r) PROVE TypeOK'
    BY <2>9 DEF BackoffElapses, objects
  <2>10. CASE UNCHANGED vars
    BY <2>10 DEF vars, table, objects
  <2>11. QED
    BY <2>1, <2>2, <2>3, <2>4, <2>5, <2>6, <2>7, <2>8, <2>9, <2>10 DEF Next
<1>3. QED
  BY <1>1, <1>2, PTL DEF Spec

------------------------------------------------------------------------------
\* The strengthening of InOrder: a sent row was taken by the provider, and an
\* attempt is only ever made on a row whose earlier chunks were taken.
OrderInv ==
    /\ \A r \in Rows : status[r] = "sent" => accepted[r] > 0
    /\ \A f \in flight : \A e \in Earlier(f.row) : accepted[e] > 0
    /\ \A f \in flight : f.step = "accepted" => accepted[f.row] > 0
    /\ InOrder

\* The attempt that takes Step(f, st) stands on the row f stood on.
LEMMA StepMember ==
    ASSUME flight \subseteq Flight, NEW f \in flight,
           NEW st \in {"read", "sending", "accepted", "failing", "telling"}, Step(f, st),
           NEW h \in flight'
    PROVE  \/ h \in flight \ {f}
           \/ h.row = f.row /\ h.step = st /\ h = [f EXCEPT !.step = st]
<1>1. /\ [f EXCEPT !.step = st].row = f.row
      /\ [f EXCEPT !.step = st].step = st
  BY StepFacts
<1>2. QED
  BY <1>1 DEF Step

LEMMA OrderAlways == Spec => []OrderInv
<1>1. Init => OrderInv
  BY RowFacts DEF Init, OrderInv, InOrder
<1>2. TypeOK /\ OrderInv /\ [Next]_vars => OrderInv'
  <2> SUFFICES ASSUME TypeOK, OrderInv, [Next]_vars PROVE OrderInv'
    OBVIOUS
  <2> USE DEF TypeOK, OrderInv, InOrder
  <2>1. CASE StartAgent
    BY <2>1 DEF StartAgent, RecoverInflight
  <2>2. CASE Unregister
    BY <2>2 DEF Unregister, table
  <2>3. CASE Crash
    BY <2>3 DEF Crash, table
  <2>4. ASSUME NEW i \in Inst, NEW g \in Groups, Deliver(i, g) PROVE OrderInv'
    BY <2>4 DEF Deliver, Insert
  <2>5. ASSUME NEW i \in Inst, PollTick(i) \/ GapElapses(i) PROVE OrderInv'
    BY <2>5 DEF PollTick, GapElapses, table
  <2>6. ASSUME NEW i \in Inst, NEW s \in Slots, ReadDue(i, s) PROVE OrderInv'
    <3>1. \A r \in DueBatch : \A e \in Earlier(r) : accepted[e] > 0
      BY RowFacts DEF DueBatch, IsDue
    <3>2. \A h \in flight' : h \in flight \/ (h.row \in DueBatch /\ h.step = "read")
      BY <2>6 DEF ReadDue
    <3>3. UNCHANGED <<status, accepted>>
      BY <2>6 DEF ReadDue, table
    <3>4. QED
      BY <3>1, <3>2, <3>3
  <2>7. ASSUME NEW i \in Inst, NEW s \in Slots, EndPass(i, s) PROVE OrderInv'
    BY <2>7 DEF EndPass, table
  <2>8. ASSUME NEW f \in flight, Attempt(f) PROVE OrderInv'
    <3>0. f \in Flight /\ f.row \in Rows
      BY DEF Flight
    <3>1. CASE UnknownChannel(f)
      <4>1. \A h \in flight' : h \in flight \/ (h.row = f.row /\ h.step = "failing")
        BY <3>1, StepMember DEF UnknownChannel
      <4>2. QED
        BY <3>0, <3>1, <4>1 DEF UnknownChannel, MarkFailed
    <3>2. CASE Skip(f)
      BY <3>2 DEF Skip, table
    <3>3. CASE Claim(f)
      <4>1. \A h \in flight' : h \in flight \/ (h.row = f.row /\ h.step = "sending")
        BY <3>3, StepMember DEF Claim
      <4>2. QED
        BY <3>0, <3>3, <4>1 DEF Claim
    <3>4. CASE ProviderAccepts(f)
      <4>1. \A h \in flight' : h \in flight \/ (h.row = f.row /\ h.step = "accepted")
        BY <3>4, StepMember DEF ProviderAccepts
      <4>2. \A r \in Rows : accepted'[r] >= accepted[r]
        BY <3>0, <3>4 DEF ProviderAccepts
      <4>3. accepted'[f.row] > 0
        BY <3>0, <3>4 DEF ProviderAccepts
      <4>4. \A r \in Rows : r # f.row => accepted'[r] = accepted[r]
        BY <3>0, <3>4 DEF ProviderAccepts
      <4>5. status' = status /\ accepted' \in [Rows -> Nat]
        BY <3>0, <3>4 DEF ProviderAccepts, table
      <4>6. \A h \in flight : h.row \in Rows
        BY DEF Flight
      <4>7. \A r \in Rows : Earlier(r) \subseteq Rows
        BY RowFacts
      <4>8. QED
        BY <3>0, <4>1, <4>2, <4>3, <4>4, <4>5, <4>6, <4>7
    <3>5. CASE Sent(f)
      BY <3>0, <3>5 DEF Sent, MarkSent
    <3>6. CASE Retry(f)
      BY <3>0, <3>6 DEF Retry, MarkRetry
    <3>7. CASE Abandon(f)
      <4>1. \A h \in flight' : h \in flight \/ (h.row = f.row /\ h.step = "telling")
        BY <3>7, StepMember DEF Abandon
      <4>2. QED
        BY <3>0, <3>7, <4>1 DEF Abandon, AbandonGroupAfter
    <3>8. CASE Report(f)
      BY <3>0, <3>8 DEF Report, table
    <3>9. ASSUME NEW retryable \in BOOLEAN, GiveUp(f, retryable) PROVE OrderInv'
      <4>1. \A h \in flight' : h \in flight \/ (h.row = f.row /\ h.step = "failing")
        BY <3>9, StepMember DEF GiveUp
      <4>2. QED
        BY <3>0, <3>9, <4>1 DEF GiveUp, MarkFailed
    <3>10. QED
      BY <2>8, <3>1, <3>2, <3>3, <3>4, <3>5, <3>6, <3>7, <3>8, <3>9 DEF Attempt
  <2>9. ASSUME NEW r \in Rows, BackoffElapses(r) PROVE OrderInv'
    BY <2>9 DEF BackoffElapses
  <2>10. CASE UNCHANGED vars
    BY <2>10 DEF vars, table
  <2>11. QED
    BY <2>1, <2>2, <2>3, <2>4, <2>5, <2>6, <2>7, <2>8, <2>9, <2>10 DEF Next
<1>3. QED
  BY <1>1, <1>2, TypeCorrect, PTL DEF Spec

\* Chunks reach the provider in order, in every behaviour of the queue.
THEOREM ChunksInOrder == Spec => []InOrder
<1>1. OrderInv => InOrder
  BY DEF OrderInv
<1>2. QED
  BY <1>1, OrderAlways, PTL

------------------------------------------------------------------------------
Active(f) == f.step \in {"sending", "accepted"}

\* The strengthening of DuplicateFlagged: as long as recovery has not flagged a
\* row, one attempt at most has it in hand, the row is not up for another claim
\* while that lasts or once a copy is out, and no send starts after a copy.
CopyInv ==
    \A r \in Rows : ~uncertain[r] =>
        /\ accepted[r] <= 1
        /\ accepted[r] > 0 => status[r] \notin {"pending", "absent"}
        /\ \A f \in flight : f.row = r /\ Active(f) =>
             status[r] \notin {"pending", "absent"}
        /\ \A f, h \in flight : f.row = r /\ h.row = r /\ Active(f) /\ Active(h) => f = h
        /\ \A f \in flight : f.row = r /\ f.step = "sending" => accepted[r] = 0

LEMMA CopyAlways == ~LostAcks => (Spec => []CopyInv)
<1> SUFFICES ASSUME ~LostAcks PROVE Spec => []CopyInv
  OBVIOUS
<1>1. Init => CopyInv
  BY DEF Init, CopyInv
<1>2. TypeOK /\ CopyInv /\ [Next]_vars => CopyInv'
  <2> SUFFICES ASSUME TypeOK, CopyInv, [Next]_vars PROVE CopyInv'
    OBVIOUS
  <2> USE DEF TypeOK, CopyInv
  <2>1. CASE StartAgent
    BY <2>1 DEF StartAgent, RecoverInflight, Active
  <2>2. CASE Unregister
    BY <2>2 DEF Unregister, table
  <2>3. CASE Crash
    BY <2>3 DEF Crash, table
  <2>4. ASSUME NEW i \in Inst, NEW g \in Groups, Deliver(i, g) PROVE CopyInv'
    BY <2>4 DEF Deliver, Insert
  <2>5. ASSUME NEW i \in Inst, PollTick(i) \/ GapElapses(i) PROVE CopyInv'
    BY <2>5 DEF PollTick, GapElapses, table
  <2>6. ASSUME NEW i \in Inst, NEW s \in Slots, ReadDue(i, s) PROVE CopyInv'
    <3>1. \A h \in flight' : h \in flight \/ h.step = "read"
      BY <2>6 DEF ReadDue
    <3>2. UNCHANGED <<status, uncertain, accepted>>
      BY <2>6 DEF ReadDue, table
    <3>3. QED
      BY <3>1, <3>2 DEF Active
  <2>7. ASSUME NEW i \in Inst, NEW s \in Slots, EndPass(i, s) PROVE CopyInv'
    BY <2>7 DEF EndPass, table
  <2>8. ASSUME NEW f \in flight, Attempt(f) PROVE CopyInv'
    <3>0. f \in Flight /\ f.row \in Rows
      BY DEF Flight
    <3>1. CASE UnknownChannel(f)
      <4>1. \A h \in flight' : h \in flight \/ h.step = "failing"
        BY <3>1, StepMember DEF UnknownChannel
      <4>2. QED
        BY <3>0, <3>1, <4>1 DEF UnknownChannel, MarkFailed, Active
    <3>2. CASE Skip(f)
      BY <3>2 DEF Skip, table
    <3>3. CASE Claim(f)
      <4>1. \A h \in flight' : \/ h \in flight \ {f}
                               \/ h.row = f.row /\ h = [f EXCEPT !.step = "sending"]
        BY <3>3, StepMember DEF Claim
      <4>2. QED
        BY <3>0, <3>3, <4>1 DEF Claim
    <3>4. CASE ProviderAccepts(f)
      <4>1. \A h \in flight' : \/ h \in flight \ {f}
                               \/ /\ h.row = f.row /\ h.step = "accepted"
                                  /\ h = [f EXCEPT !.step = "accepted"]
        BY <3>4, StepMember DEF ProviderAccepts
      <4>2. QED
        BY <3>0, <3>4, <4>1 DEF ProviderAccepts, table, Active
    <3>5. CASE Sent(f)
      BY <3>0, <3>5 DEF Sent, MarkSent
    <3>6. CASE Retry(f)
      BY <3>0, <3>6 DEF Retry, MarkRetry, Failable, Active
    <3>7. CASE Abandon(f)
      <4>1. \A h \in flight' : h \in flight \/ h.step = "telling"
        BY <3>7, StepMember DEF Abandon
      <4>2. QED
        BY <3>0, <3>7, <4>1 DEF Abandon, AbandonGroupAfter, Active
    <3>8. CASE Report(f)
      BY <3>0, <3>8 DEF Report, table
    <3>9. ASSUME NEW retryable \in BOOLEAN, GiveUp(f, retryable) PROVE CopyInv'
      <4>1. \A h \in flight' : h \in flight \/ h.step = "failing"
        BY <3>9, StepMember DEF GiveUp
      <4>2. QED
        BY <3>0, <3>9, <4>1 DEF GiveUp, MarkFailed, Active
    <3>10. QED
      BY <2>8, <3>1, <3>2, <3>3, <3>4, <3>5, <3>6, <3>7, <3>8, <3>9 DEF Attempt
  <2>9. ASSUME NEW r \in Rows, BackoffElapses(r) PROVE CopyInv'
    BY <2>9 DEF BackoffElapses
  <2>10. CASE UNCHANGED vars
    BY <2>10 DEF vars, table
  <2>11. QED
    BY <2>1, <2>2, <2>3, <2>4, <2>5, <2>6, <2>7, <2>8, <2>9, <2>10 DEF Next
<1>3. QED
  BY <1>1, <1>2, TypeCorrect, PTL DEF Spec

\* When transports report their sends truthfully, a chunk the provider took
\* twice is a chunk that recovery flagged, across any crashes and reloads.
THEOREM DuplicatesAreFlagged == ~LostAcks => (Spec => []DuplicateFlagged)
<1> SUFFICES ASSUME ~LostAcks PROVE Spec => []DuplicateFlagged
  OBVIOUS
<1>1. TypeOK /\ CopyInv => DuplicateFlagged
  BY DEF TypeOK, CopyInv, DuplicateFlagged
<1>2. Spec => []CopyInv
  BY CopyAlways
<1>3. QED
  BY <1>1, <1>2, TypeCorrect, PTL

------------------------------------------------------------------------------
(* The queue implements the promise *)

\* A reply is queued whole, and only what is queued is attempted.
QueueInv ==
    /\ \A r \in Rows : status[r] = "absent" <=> status[<<r[1], 0>>] = "absent"
    /\ \A f \in flight : status[f.row] # "absent"

\* The chunks in the queue, and what the promise sees of them.
Queued == {g \in Groups : status[<<g, 0>>] # "absent"}
Present == {r \in Rows : status[r] # "absent"}

\* What every step but a new reply does: no chunk enters or leaves the queue.
LEMMA QueueKept ==
    ASSUME TypeOK, QueueInv, status' \in [Rows -> Status],
           \A r \in Rows : status'[r] = "absent" <=> status[r] = "absent",
           \A h \in flight' : \E f \in flight : h.row = f.row
    PROVE  QueueInv' /\ Queued' = Queued
<1>1. \A f \in flight : f.row \in Rows
  BY DEF TypeOK, Flight
<1>2. \A r \in Rows : <<r[1], 0>> \in Rows
  BY RowFacts
<1>3. \A g \in Groups : <<g, 0>> \in Rows
  BY OutboxConstants DEF Rows
<1>4. QueueInv'
  BY <1>1, <1>2 DEF QueueInv
<1>5. QED
  BY <1>3, <1>4 DEF Queued

\* How the promise sees a step: a reply is taken on, recovery doubts what was in
\* flight, the provider takes a copy, or nothing.
Seen ==
    \/ \E g \in Groups : Queued' = Queued \cup {g} /\ UNCHANGED <<accepted, uncertain>>
    \/ \E S \in SUBSET Present :
          /\ uncertain' = [r \in Rows |-> uncertain[r] \/ r \in S]
          /\ Queued' = Queued /\ UNCHANGED accepted
    \/ \E f \in flight :
          /\ f.step = "sending" /\ accepted' = [accepted EXCEPT ![f.row] = @ + 1]
          /\ Queued' = Queued /\ UNCHANGED uncertain
    \/ Queued' = Queued /\ UNCHANGED <<accepted, uncertain>>

LEMMA QueueStep ==
    ASSUME TypeOK, TypeOK', QueueInv, [Next]_vars
    PROVE  QueueInv' /\ Seen
<1>0. /\ status \in [Rows -> Status] /\ status' \in [Rows -> Status]
      /\ flight \subseteq Flight /\ \A f \in flight : f.row \in Rows
  BY DEF TypeOK, Flight
<1>1. CASE StartAgent
  <2>1. \A r \in Rows : status'[r] = "absent" <=> status[r] = "absent"
    BY <1>0, <1>1 DEF StartAgent, RecoverInflight
  <2>2. QueueInv' /\ Queued' = Queued
    BY <1>0, <1>1, <2>1, QueueKept DEF StartAgent
  <2> DEFINE S == {r \in Rows : status[r] = "inflight"}
  <2>3. S \in SUBSET Present
    BY DEF Present
  <2>4. uncertain' = [r \in Rows |-> uncertain[r] \/ r \in S] /\ UNCHANGED accepted
    BY <1>1 DEF StartAgent, RecoverInflight
  <2>5. QED
    BY <2>2, <2>3, <2>4 DEF Seen
<1>2. CASE Unregister \/ Crash \/ UNCHANGED vars
  <2>1. status' = status /\ UNCHANGED <<accepted, uncertain>> /\ flight' \subseteq flight
    BY <1>2 DEF Unregister, Crash, vars, table
  <2>2. QueueInv' /\ Queued' = Queued
    BY <1>0, <2>1, QueueKept
  <2>3. QED
    BY <2>1, <2>2 DEF Seen
<1>3. ASSUME NEW i \in Inst, NEW g \in Groups, Deliver(i, g)
      PROVE  QueueInv' /\ Seen
  <2>1. \A r \in Rows : status'[r] = IF r[1] = g /\ status[r] = "absent" THEN "pending" ELSE status[r]
    BY <1>3 DEF Deliver, Insert
  <2>2. UNCHANGED <<flight, accepted, uncertain>>
    BY <1>3 DEF Deliver, Insert
  <2>3. \A r \in Rows : status'[r] = "absent" <=> status[r] = "absent" /\ r[1] # g
    BY <2>1
  <2>4. \A r \in Rows : <<r[1], 0>> \in Rows /\ <<r[1], 0>>[1] = r[1]
    BY RowFacts
  <2>5. QueueInv'
    BY <1>0, <2>2, <2>3, <2>4 DEF QueueInv
  <2>6. \A h \in Groups : <<h, 0>> \in Rows /\ <<h, 0>>[1] = h
    BY OutboxConstants DEF Rows
  <2>7. Queued' = Queued \cup {g}
    BY <2>3, <2>6 DEF Queued
  <2>8. QED
    BY <2>2, <2>5, <2>7 DEF Seen
<1>4. ASSUME NEW i \in Inst, PollTick(i) \/ GapElapses(i)
      PROVE  QueueInv' /\ Seen
  <2>1. status' = status /\ UNCHANGED <<accepted, uncertain, flight>>
    BY <1>4 DEF PollTick, GapElapses, table
  <2>2. QueueInv' /\ Queued' = Queued
    BY <1>0, <2>1, QueueKept
  <2>3. QED
    BY <2>1, <2>2 DEF Seen
<1>5. ASSUME NEW i \in Inst, NEW s \in Slots, ReadDue(i, s)
      PROVE  QueueInv' /\ Seen
  <2>1. status' = status /\ UNCHANGED <<accepted, uncertain>>
    BY <1>5 DEF ReadDue, table
  <2>2. \A h \in flight' : h \in flight \/ h.row \in DueBatch
    BY <1>5 DEF ReadDue
  <2>3. \A r \in DueBatch : status[r] # "absent"
    BY DEF DueBatch, IsDue
  <2>4. QueueInv' /\ Queued' = Queued
    BY <2>1, <2>2, <2>3 DEF QueueInv, Queued
  <2>5. QED
    BY <2>1, <2>4 DEF Seen
<1>6. ASSUME NEW i \in Inst, NEW s \in Slots, EndPass(i, s)
      PROVE  QueueInv' /\ Seen
  <2>1. status' = status /\ UNCHANGED <<accepted, uncertain, flight>>
    BY <1>6 DEF EndPass, table
  <2>2. QueueInv' /\ Queued' = Queued
    BY <1>0, <2>1, QueueKept
  <2>3. QED
    BY <2>1, <2>2 DEF Seen
<1>7. ASSUME NEW r \in Rows, BackoffElapses(r)
      PROVE  QueueInv' /\ Seen
  <2>1. status' = status /\ UNCHANGED <<accepted, uncertain, flight>>
    BY <1>7 DEF BackoffElapses
  <2>2. QueueInv' /\ Queued' = Queued
    BY <1>0, <2>1, QueueKept
  <2>3. QED
    BY <2>1, <2>2 DEF Seen
<1>8. ASSUME NEW f \in flight, Attempt(f)
      PROVE  QueueInv' /\ Seen
  <2>1. f.row \in Rows /\ status[f.row] # "absent"
    BY <1>0 DEF QueueInv
  <2>2. \A st \in {"read", "sending", "accepted", "failing", "telling"} :
          Step(f, st) => \A h \in flight' : h \in flight \/ h.row = f.row
    BY <1>0, StepMember
  <2>3. \A h \in flight' : \E e \in flight : h.row = e.row
    BY <1>8, <2>2 DEF Attempt, UnknownChannel, Skip, Claim, ProviderAccepts, Sent, Retry, Abandon, Report, GiveUp
  <2>4. \A r \in Rows : status'[r] = "absent" <=> status[r] = "absent"
    BY <1>0, <1>8, <2>1 DEF Attempt, UnknownChannel, Skip, Claim, ProviderAccepts, Sent, Retry, Abandon,
       Report, GiveUp, MarkFailed, MarkSent, MarkRetry, AbandonGroupAfter, table
  <2>5. QueueInv' /\ Queued' = Queued
    BY <1>0, <2>3, <2>4, QueueKept
  <2>6. UNCHANGED uncertain
    BY <1>8 DEF Attempt, UnknownChannel, Skip, Claim, ProviderAccepts, Sent, Retry, Abandon,
       Report, GiveUp, MarkFailed, MarkSent, MarkRetry, AbandonGroupAfter, table
  <2>7. \/ f.step = "sending" /\ accepted' = [accepted EXCEPT ![f.row] = @ + 1]
        \/ UNCHANGED accepted
    BY <1>8 DEF Attempt, UnknownChannel, Skip, Claim, ProviderAccepts, Sent, Retry, Abandon, Report, GiveUp
  <2>8. QED
    BY <2>5, <2>6, <2>7 DEF Seen
<1>9. QED
  BY <1>1, <1>2, <1>3, <1>4, <1>5, <1>6, <1>7, <1>8 DEF Next

\* What the promise sees of a step is a step of the promise or nothing.
LEMMA SeenIsPromised ==
    ASSUME TypeOK, OrderInv, CopyInv, QueueInv, Seen
    PROVE  [Promise!PromiseNext]_(Promise!promiseVars)
<1>0. /\ \A f \in flight : f.row \in Rows /\ f.row[1] \in Queued
      /\ \A r \in Present : r \in Rows /\ r[1] \in Queued
  <2>1. \A f \in flight : f.row \in Rows
    BY DEF TypeOK, Flight
  <2>2. \A r \in Rows : r[1] \in Groups /\ (status[r] # "absent" => r[1] \in Queued)
    BY RowFacts DEF QueueInv, Queued
  <2>3. QED
    BY <2>1, <2>2 DEF QueueInv, Present
<1>1. Promise!Rows = Rows /\ \A r : Promise!Earlier(r) = Earlier(r)
  BY DEF Promise!Rows, Rows, Promise!Earlier, Earlier
<1>2. ASSUME NEW g \in Groups, Queued' = Queued \cup {g}, UNCHANGED <<accepted, uncertain>>
      PROVE  Promise!PromiseNext
  BY <1>2 DEF Promise!PromiseNext, Promise!Queue, Queued
<1>3. ASSUME NEW S \in SUBSET Present, uncertain' = [r \in Rows |-> uncertain[r] \/ r \in S],
             Queued' = Queued, UNCHANGED accepted
      PROVE  Promise!PromiseNext
  <2>1. S \in SUBSET Promise!Rows /\ \A r \in S : r[1] \in Queued
    BY <1>0, <1>1
  <2>2. Promise!Doubt(S)
    BY <1>1, <1>3, <2>1 DEF Promise!Doubt, Queued
  <2>3. QED
    BY <2>1, <2>2 DEF Promise!PromiseNext
<1>4. ASSUME NEW f \in flight, f.step = "sending", accepted' = [accepted EXCEPT ![f.row] = @ + 1],
             Queued' = Queued, UNCHANGED uncertain
      PROVE  Promise!PromiseNext
  <2>1. \A e \in Earlier(f.row) : accepted[e] > 0
    BY DEF OrderInv
  <2>2. accepted[f.row] = 0 \/ uncertain[f.row]
    BY <1>0, <1>4 DEF CopyInv
  <2>3. Promise!Copy(f.row)
    BY <1>0, <1>1, <1>4, <2>1, <2>2 DEF Promise!Copy, Queued
  <2>4. QED
    BY <1>0, <1>1, <2>3 DEF Promise!PromiseNext
<1>5. ASSUME Queued' = Queued, UNCHANGED <<accepted, uncertain>>
      PROVE  UNCHANGED Promise!promiseVars
  BY <1>5 DEF Promise!promiseVars, Queued
<1>6. QED
  BY <1>2, <1>3, <1>4, <1>5 DEF Seen

\* The queue of outbox.ts implements what it promises a recipient, when transports
\* report their sends truthfully: whatever drains, retries, reloads and crashes there
\* are, each step is one of DeliveryPromise or invisible to the recipient.
THEOREM QueueKeepsPromise == ~LostAcks => (Spec => KeepsPromise)
<1> SUFFICES ASSUME ~LostAcks PROVE Spec => KeepsPromise
  OBVIOUS
<1>1. Init => QueueInv /\ Promise!PromiseInit
  <2> SUFFICES ASSUME Init PROVE QueueInv /\ Promise!PromiseInit
    OBVIOUS
  <2>1. \A g \in Groups : <<g, 0>> \in Rows
    BY OutboxConstants DEF Rows
  <2>2. QueueInv
    BY RowFacts DEF Init, QueueInv
  <2>3. Promise!PromiseInit
    BY <2>1 DEF Init, Promise!PromiseInit, Promise!Rows, Rows
  <2>4. QED
    BY <2>2, <2>3
<1>2. TypeOK /\ TypeOK' /\ QueueInv /\ [Next]_vars => QueueInv' /\ Seen
  BY QueueStep
<1>3. TypeOK /\ OrderInv /\ CopyInv /\ QueueInv /\ Seen => [Promise!PromiseNext]_(Promise!promiseVars)
  BY SeenIsPromised
<1>4. Spec => []CopyInv
  BY CopyAlways
<1>5. QED
  BY <1>1, <1>2, <1>3, <1>4, TypeCorrect, OrderAlways, PTL DEF Spec, KeepsPromise, Promise!PromiseSpec
==============================================================================
