---------------------------- MODULE SchedulerProofs ----------------------------
(***************************************************************************)
(* Proofs about Scheduler for every set of schedules and every bound: the  *)
(* overlap policy and what lastStatus says, whatever the writers, crashes  *)
(* and sleeps; the types; and the one fate of every occurrence.            *)
(*                                                                         *)
(* The first two do not depend on when a schedule is due: DecideDue is any *)
(* value there, and a row is only known to have its fields.  The last two  *)
(* are about nothing else, and begin with what decideDue computes.         *)
(***************************************************************************)
EXTENDS Scheduler, FiniteSetTheorems, WellFoundedInduction, TLAPS

Fields == {"here", "enabled", "origin", "anchor", "next", "lastRun", "status"}

\* A row that is not in the table describes no run.
IsRow(r) == DOMAIN r = Fields /\ r.here \in BOOLEAN /\ (~r.here => r.lastRun = 0)

Rows == rows = [s \in Schedules |-> rows[s]] /\ \A s \in Schedules : IsRow(rows[s])

RunType ==
    /\ inflight \in [Schedules -> {"none", "running", "deferred"}]
    /\ active \in [Schedules -> SUBSET RunIds]
    /\ pending \in [Schedules -> SUBSET RunIds]
    /\ bad \in [Schedules -> SUBSET RunIds]
    /\ early \in [Schedules -> SUBSET RunIds]
    /\ lastId \in [Schedules -> 0 .. MaxRuns]

\* Run ids are minted in order: an id above lastId names nothing yet.
Minted ==
    \A s \in Schedules : \A id \in active[s] \cup pending[s] \cup bad[s] \cup early[s] : id <= lastId[s]

\* A run that is going has no outcome yet, and a delivery failed or is in the outbox.
Open ==
    \A s \in Schedules : /\ active[s] \cap (pending[s] \cup bad[s] \cup early[s]) = {}
                         /\ pending[s] \cap early[s] = {}

RunInv == RunType /\ Rows /\ Minted /\ Open /\ OneRunAtATime

------------------------------------------------------------------------------
(* What the writes of a row keep *)

\* The row q tells of the same run as r.
SameRun(q, r) == q.lastRun = r.lastRun /\ q.status = r.status

\* reschedule moves the due time and nothing else.
LEMMA PlaceKeeps ==
    ASSUME NEW r, NEW d, IsRow(r)
    PROVE  IsRow(Place(r, d)) /\ SameRun(Place(r, d), r)
  BY DEF IsRow, Fields, Place, SameRun

\* upsert leaves what the row says of its last run.
LEMMA UpsertKeeps ==
    ASSUME NEW r, NEW d, NEW e, NEW o, IsRow(r)
    PROVE  IsRow(Upsert(r, d, e, o)) /\ SameRun(Upsert(r, d, e, o), r)
<1> DEFINE q == Place(r, d)
<1>1. IsRow(q) /\ SameRun(q, r)
  BY PlaceKeeps
<1>2. Upsert(r, d, e, o) = [q EXCEPT !.here = TRUE, !.enabled = e, !.origin = o]
  BY DEF Upsert
<1> HIDE DEF q
<1> QED
  BY <1>1, <1>2 DEF IsRow, Fields, SameRun

\* A row that is not there tells of no run.
LEMMA NoRowIsRow == IsRow(NoRow) /\ NoRow.lastRun = 0
  BY DEF IsRow, Fields, NoRow

\* Boot: reconciliation and the recompute change the place only.
LEMMA BootKeeps ==
    ASSUME Rows, NEW s \in Schedules
    PROVE  /\ IsRow(Recomputed(s, Reconciled(s)))
           /\ SameRun(Recomputed(s, Reconciled(s)), rows[s])
<1> DEFINE r == Reconciled(s)
<1>1. IsRow(r) /\ SameRun(r, rows[s])
  <2>1. IsRow(rows[s])
    BY DEF Rows
  <2>2. ASSUME NEW d, NEW e, NEW o
        PROVE  IsRow(Upsert(rows[s], d, e, o)) /\ SameRun(Upsert(rows[s], d, e, o), rows[s])
    BY <2>1, UpsertKeeps
  <2>3. r = rows[s] \/ \E d, e, o : r = Upsert(rows[s], d, e, o)
    BY DEF Reconciled
  <2> QED
    BY <2>1, <2>2, <2>3 DEF SameRun
<1>2. Recomputed(s, r) = r \/ \E d : Recomputed(s, r) = Place(r, d)
  BY DEF Recomputed
<1> HIDE DEF r
<1>3. IsRow(Recomputed(s, r)) /\ SameRun(Recomputed(s, r), r)
  BY <1>1, <1>2, PlaceKeeps DEF SameRun
<1> QED
  BY <1>1, <1>3 DEF SameRun, r

\* A wake moves the row on and says nothing of a run.
LEMMA MoveOnKeeps ==
    ASSUME Rows, NEW s \in Schedules
    PROVE  IsRow(MoveOn(s)) /\ SameRun(MoveOn(s), rows[s])
  BY PlaceKeeps DEF Rows, MoveOn

\* #record names the run and its status, on a row that is there.
LEMMA RecordKeeps ==
    ASSUME NEW r, NEW id, NEW v, IsRow(r)
    PROVE  /\ IsRow(Record(r, id, v))
           /\ \/ Record(r, id, v).lastRun = 0
              \/ Record(r, id, v).lastRun = id /\ Record(r, id, v).status = v
  BY DEF IsRow, Fields, Record

\* markDeliveryFailed touches only the run it names.
LEMMA MarkKeeps ==
    ASSUME NEW r, NEW id, IsRow(r)
    PROVE  /\ IsRow(MarkDeliveryFailed(r, id))
           /\ MarkDeliveryFailed(r, id).lastRun = r.lastRun
           /\ r.lastRun # id => MarkDeliveryFailed(r, id).status = r.status
           /\ r.lastRun = id /\ id # 0 => MarkDeliveryFailed(r, id).status = "error"
  BY DEF IsRow, Fields, MarkDeliveryFailed


\* Writing one row keeps the table.
LEMMA RowsSet ==
    ASSUME Rows, NEW s \in Schedules, NEW v, IsRow(v), rows' = Set(rows, s, v)
    PROVE  Rows'
<1>1. rows' = [rows EXCEPT ![s] = v]
  BY DEF Set
<1> QED
  BY <1>1 DEF Rows

------------------------------------------------------------------------------
(* The inductive invariant *)

\* Steps that leave the runs alone.
LEMMA QuietKeeps ==
    ASSUME RunInv, Rows', UNCHANGED <<inflight, active, pending, bad, early, lastId>>
    PROVE  RunInv'
  BY DEF RunInv, RunType, Minted, Open, OneRunAtATime

\* The process ends: its runs end with it, and the outbox keeps its rows.
LEMMA EndsKeeps ==
    ASSUME RunInv, Rows', NEW more, Ends(more), UNCHANGED <<pending, bad, early, lastId>>
    PROVE  RunInv'
  BY DEF RunInv, RunType, Minted, Open, OneRunAtATime, Ends

\* The end of a run, with what its outcome may add to `pending`, `bad` and `early`.
LEMMA BoundaryKeeps ==
    ASSUME RunInv, Rows', NEW s \in Schedules, NEW id \in active[s], Boundary(s, id),
           pending' \in {pending, Set(pending, s, pending[s] \cup {id})},
           bad' \in {bad, Set(bad, s, bad[s] \cup {id})},
           early' \in {early, Set(early, s, early[s] \cup {id})},
           pending' = pending \/ early' = early
    PROVE  RunInv'
<1> USE SchedulerConstants DEF RunInv, RunType, RunIds
<1>1. active[s] = {id} /\ id \in RunIds /\ id <= lastId[s]
  BY DEF OneRunAtATime, Minted
<1> DEFINE again == inflight[s] = "deferred" /\ proc = "up" /\ rows[s].here /\ rows[s].enabled
<1>2. /\ again => lastId[s] < MaxRuns
      /\ inflight' = [inflight EXCEPT ![s] = IF again THEN "running" ELSE "none"]
      /\ lastId' = [lastId EXCEPT ![s] = lastId[s] + IF again THEN 1 ELSE 0]
      /\ active' = [active EXCEPT ![s] = (active[s] \ {id}) \cup IF again THEN {lastId'[s]} ELSE {}]
  BY DEF Boundary, Set
<1> HIDE DEF again
<1>21. \A x \in Schedules : x # s =>
         inflight'[x] = inflight[x] /\ lastId'[x] = lastId[x] /\ active'[x] = active[x]
  BY <1>2
<1>22. \/ /\ lastId[s] < MaxRuns /\ inflight'[s] = "running" /\ lastId'[s] = lastId[s] + 1
          /\ active'[s] = {lastId[s] + 1}
       \/ inflight'[s] = "none" /\ lastId'[s] = lastId[s] /\ active'[s] = {}
  <2>1. CASE again
    <3>1. lastId'[s] = lastId[s] + 1 /\ inflight'[s] = "running" /\ lastId[s] < MaxRuns
      BY <1>2, <2>1
    <3>2. active'[s] = (active[s] \ {id}) \cup {lastId'[s]}
      BY <1>2, <2>1
    <3> QED
      BY <1>1, <3>1, <3>2
  <2>2. CASE ~again
    <3>1. lastId'[s] = lastId[s] /\ inflight'[s] = "none"
      BY <1>2, <2>2
    <3>2. active'[s] = (active[s] \ {id}) \cup {}
      BY <1>2, <2>2
    <3> QED
      BY <1>1, <3>1, <3>2
  <2> QED
    BY <2>1, <2>2
<1>3. /\ pending' \in [Schedules -> SUBSET RunIds] /\ bad' \in [Schedules -> SUBSET RunIds]
      /\ early' \in [Schedules -> SUBSET RunIds]
      /\ \A x \in Schedules : x # s => /\ pending'[x] = pending[x] /\ bad'[x] = bad[x]
                                       /\ early'[x] = early[x]
      /\ pending'[s] \subseteq pending[s] \cup {id} /\ bad'[s] \subseteq bad[s] \cup {id}
      /\ early'[s] \subseteq early[s] \cup {id}
      /\ pending'[s] = pending[s] \/ early'[s] = early[s]
  BY <1>1 DEF Set
<1>4. RunType'
  <2>1. /\ inflight' = [x \in Schedules |-> inflight'[x]] /\ lastId' = [x \in Schedules |-> lastId'[x]]
        /\ active' = [x \in Schedules |-> active'[x]]
    BY <1>2
  <2>2. \A x \in Schedules : /\ inflight'[x] \in {"none", "running", "deferred"}
                             /\ lastId'[x] \in 0 .. MaxRuns /\ active'[x] \in SUBSET RunIds
    BY <1>21, <1>22
  <2> QED
    BY <1>3, <2>1, <2>2
<1>5. Minted'
  BY <1>1, <1>21, <1>22, <1>3 DEF Minted
<1>6. Open'
  BY <1>1, <1>21, <1>22, <1>3 DEF Open, Minted
<1>7. OneRunAtATime'
  <2>1. ASSUME NEW x \in Schedules, x # s
        PROVE  (\A a, b \in active'[x] : a = b) /\ (active'[x] # {} <=> inflight'[x] # "none")
    BY <1>21, <2>1 DEF OneRunAtATime
  <2>2. (\A a, b \in active'[s] : a = b) /\ (active'[s] # {} <=> inflight'[s] # "none")
    BY <1>22
  <2> QED
    BY <2>1, <2>2 DEF OneRunAtATime
<1> QED
  BY <1>4, <1>5, <1>6, <1>7

\* The rows a wake moves on keep their fields and what they say of a run.
LEMMA AdvanceKeeps ==
    ASSUME Rows, NEW M, Advance(M)
    PROVE  Rows' /\ \A s \in Schedules : SameRun(rows'[s], rows[s])
<1>1. rows' = [s \in Schedules |-> IF s \in M THEN MoveOn(s) ELSE rows[s]]
  BY DEF Advance
<1>2. ASSUME NEW s \in Schedules PROVE IsRow(rows'[s]) /\ SameRun(rows'[s], rows[s])
  BY <1>1, MoveOnKeeps DEF Rows, SameRun
<1> QED
  BY <1>1, <1>2 DEF Rows

\* A wake starts at most one run of a schedule, under a new id.
LEMMA WakeKeeps == ASSUME RunInv, Wake PROVE RunInv'
<1> USE SchedulerConstants DEF RunInv, RunType, RunIds
<1>1. Rows'
  BY AdvanceKeeps DEF Wake
<1>2. ASSUME NEW s \in Schedules
      PROVE  \/ inflight[s] = "none" /\ lastId[s] < MaxRuns /\ inflight'[s] = "running"
                /\ lastId'[s] = lastId[s] + 1 /\ active'[s] = active[s] \cup {lastId[s] + 1}
             \/ inflight'[s] \in {inflight[s], "deferred"} /\ (inflight'[s] = "none" <=> inflight[s] = "none")
                /\ lastId'[s] = lastId[s] /\ active'[s] = active[s]
  <2>1. CASE WillRun(s)
    <3>1. lastId'[s] = lastId[s] + 1
      BY <2>1 DEF Wake
    <3> QED
      BY <2>1, <3>1 DEF Wake, WillRun
  <2>2. CASE ~WillRun(s)
    BY <2>2 DEF Wake, WillRun
  <2> QED
    BY <2>1, <2>2
<1>3. UNCHANGED <<pending, bad, early>>
  BY DEF Wake, outcomes
<1>4. RunType'
  <2>1. /\ inflight' = [s \in Schedules |-> inflight'[s]] /\ lastId' = [s \in Schedules |-> lastId'[s]]
        /\ active' = [s \in Schedules |-> active'[s]]
    BY DEF Wake
  <2>2. \A s \in Schedules : /\ inflight'[s] \in {"none", "running", "deferred"}
                             /\ lastId'[s] \in 0 .. MaxRuns /\ active'[s] \in SUBSET RunIds
    BY <1>2
  <2> QED
    BY <1>3, <2>1, <2>2
<1>5. Minted'
  BY <1>2, <1>3 DEF Minted
<1>6. Open'
  BY <1>2, <1>3 DEF Open, Minted
<1>7. OneRunAtATime'
  BY <1>2 DEF OneRunAtATime
<1> QED
  BY <1>1, <1>4, <1>5, <1>6, <1>7

\* Every step keeps the invariant.
LEMMA RunInvStep == RunInv /\ [Next]_vars => RunInv'
<1> SUFFICES ASSUME RunInv, [Next]_vars PROVE RunInv'
  OBVIOUS
<1> USE DEF memory, history, places, fates, causes, outcomes
<1>0. Rows
  BY DEF RunInv
<1>1. CASE Boot
  <2>1. rows' = [s \in Schedules |-> Recomputed(s, Reconciled(s))]
    BY <1>1 DEF Boot
  <2>2. ASSUME NEW s \in Schedules PROVE IsRow(rows'[s])
    BY <1>0, <2>1, BootKeeps
  <2>3. Rows'
    BY <2>1, <2>2 DEF Rows
  <2> QED
    BY <1>1, <2>3, QuietKeeps DEF Boot
<1>2. CASE Wake
  BY <1>2, WakeKeeps
<1>3. CASE Stop
  <2>1. Rows'
    BY <1>0, <1>3 DEF Rows, Stop
  <2> QED
    BY <1>3, <2>1, QuietKeeps DEF Stop
<1>4. CASE Exit
  <2>1. Rows'
    BY <1>0, <1>4 DEF Rows, Exit
  <2> QED
    BY <1>4, <2>1, EndsKeeps DEF Exit
<1>5. CASE Crash
  <2>1. Rows'
    BY <1>0, <1>5 DEF Rows, Crash
  <2> QED
    BY <1>5, <2>1, EndsKeeps DEF Crash
<1>6. CASE Tick
  <2>1. Rows'
    BY <1>0, <1>6 DEF Rows, Tick
  <2> QED
    BY <1>6, <2>1, QuietKeeps DEF Tick
<1>7. ASSUME NEW s \in Schedules, NEW M \in SUBSET Schedules, CrashInWake(M, s) PROVE RunInv'
  <2>1. Rows'
    BY <1>0, <1>7, AdvanceKeeps DEF CrashInWake
  <2> QED
    BY <1>7, <2>1, EndsKeeps DEF CrashInWake
<1>8. ASSUME NEW s \in Schedules, NEW e \in BOOLEAN, Write(s, e) PROVE RunInv'
  <2>1. IsRow(Upsert(rows[s], Fresh(s), e, "api"))
    BY <1>0, UpsertKeeps DEF Rows
  <2>2. Rows'
    BY <1>0, <1>8, <2>1, RowsSet DEF Write
  <2> QED
    BY <1>8, <2>2, QuietKeeps DEF Write
<1>9. ASSUME NEW s \in Schedules, NEW e \in BOOLEAN, SetEnabled(s, e) PROVE RunInv'
  <2>1. IsRow([rows[s] EXCEPT !.enabled = e])
    BY <1>0 DEF Rows, IsRow, Fields
  <2>2. Rows'
    BY <1>0, <1>9, <2>1, RowsSet DEF SetEnabled
  <2> QED
    BY <1>9, <2>2, QuietKeeps DEF SetEnabled
<1>10. ASSUME NEW s \in Schedules, Remove(s) PROVE RunInv'
  <2>1. Rows'
    BY <1>0, <1>10, NoRowIsRow, RowsSet DEF Remove
  <2> QED
    BY <1>10, <2>1, QuietKeeps DEF Remove
<1>11. ASSUME NEW s \in Schedules, StrangerReads(s) PROVE RunInv'
  <2>1. Rows'
    BY <1>0, <1>11 DEF Rows, StrangerReads
  <2> QED
    BY <1>11, <2>1, QuietKeeps DEF StrangerReads
<1>12. ASSUME NEW s \in Schedules, StrangerWrites(s) PROVE RunInv'
  <2>1. IsRow(Upsert(rows[s], copy[s], TRUE, "manifest"))
    BY <1>0, UpsertKeeps DEF Rows
  <2>2. Rows'
    BY <1>0, <1>12, <2>1, RowsSet DEF StrangerWrites
  <2> QED
    BY <1>12, <2>2, QuietKeeps DEF StrangerWrites
<1>13. ASSUME NEW s \in Schedules, NEW id \in RunIds, RunFails(s, id) PROVE RunInv'
  <2>1. Rows'
    BY <1>0, <1>13, RecordKeeps, RowsSet DEF RunFails, Rows
  <2> QED
    BY <1>13, <2>1, BoundaryKeeps DEF RunFails
<1>14. ASSUME NEW s \in Schedules, NEW id \in RunIds, RunSucceeds(s, id) PROVE RunInv'
  <2>1. Rows'
    BY <1>0, <1>14, RecordKeeps, RowsSet DEF RunSucceeds, Rows
  <2> QED
    BY <1>14, <2>1, BoundaryKeeps DEF RunSucceeds
<1>15. ASSUME NEW s \in Schedules, NEW id \in RunIds, RunUndelivered(s, id) PROVE RunInv'
  <2>1. IsRow(MarkDeliveryFailed(rows[s], id))
    BY <1>0, MarkKeeps DEF Rows
  <2>2. Rows'
    BY <1>0, <1>15, <2>1, RecordKeeps, RowsSet DEF RunUndelivered
  <2> QED
    BY <1>15, <2>2, BoundaryKeeps DEF RunUndelivered
<1>16. ASSUME NEW s \in Schedules, NEW id \in RunIds, DeliveryFails(s, id) PROVE RunInv'
  <2>1. Rows'
    BY <1>0, <1>16, MarkKeeps, RowsSet DEF DeliveryFails, Rows
  <2> QED
    BY <1>16, <2>1 DEF RunInv, RunType, Minted, Open, OneRunAtATime, DeliveryFails, Set
<1>17. ASSUME NEW s \in Schedules, NEW id \in RunIds, Delivered(s, id) PROVE RunInv'
  <2>1. Rows'
    BY <1>0, <1>17 DEF Rows, Delivered
  <2> QED
    BY <1>17, <2>1 DEF RunInv, RunType, Minted, Open, OneRunAtATime, Delivered, Set
<1>18. CASE UNCHANGED vars
  <2>1. Rows'
    BY <1>0, <1>18 DEF Rows, vars
  <2> QED
    BY <1>18, <2>1, QuietKeeps DEF vars
<1> QED
  BY <1>1, <1>2, <1>3, <1>4, <1>5, <1>6, <1>7, <1>8, <1>9, <1>10, <1>11, <1>12, <1>13,
     <1>14, <1>15, <1>16, <1>17, <1>18
  DEF Next, WriterStep, RunStep, OutboxStep

\* It holds at first.
LEMMA RunInvInit == Init => RunInv
<1> SUFFICES ASSUME Init PROVE RunInv
  OBVIOUS
<1>1. Rows
  BY NoRowIsRow DEF Init, Rows
<1> QED
  BY <1>1, SchedulerConstants DEF Init, RunInv, RunType, Minted, Open, OneRunAtATime

\* The overlap policy (#wake, #fire): whatever the timer, the writers, another
\* process, crashes and sleeps do, two runs of one schedule never go at once,
\* and the in-flight map names exactly the schedules that run.
THEOREM OverlapPolicy == Spec => []OneRunAtATime
<1>1. RunInv => OneRunAtATime
  BY DEF RunInv
<1> QED
  BY <1>1, RunInvInit, RunInvStep, PTL DEF Spec

------------------------------------------------------------------------------
(* The truth of lastStatus *)

\* What the row of s says of its last run is true of the failed runs b.
Says(row, b) == row.lastRun # 0 => (row.status = "error" <=> row.lastRun \in b)

\* StatusTrue, row by row.
LEMMA StatusByRow == StatusTrue <=> \A s \in Schedules : Says(rows[s], bad[s] \ early[s])
  BY DEF StatusTrue, Says

\* Steps that tell of no run.
LEMMA SameRunKeeps ==
    ASSUME StatusTrue, bad' = bad, early' = early,
           \A s \in Schedules : SameRun(rows'[s], rows[s]) \/ rows'[s].lastRun = 0
    PROVE  StatusTrue'
  BY DEF StatusTrue, SameRun

\* Steps that write one row and the failures of one schedule.
LEMMA OneRowKeeps ==
    ASSUME StatusTrue, Rows, NEW s \in Schedules, NEW v, rows' = Set(rows, s, v),
           NEW b, bad' \in {bad, Set(bad, s, b)}, bad = [x \in Schedules |-> bad[x]],
           NEW c, early' \in {early, Set(early, s, c)}, early = [x \in Schedules |-> early[x]],
           Says(v, bad'[s] \ early'[s])
    PROVE  StatusTrue'
<1>1. rows' = [rows EXCEPT ![s] = v]
  BY DEF Set
<1>2. rows'[s] = v /\ \A x \in Schedules : x # s => /\ rows'[x] = rows[x] /\ bad'[x] = bad[x]
                                                     /\ early'[x] = early[x]
  BY <1>1 DEF Rows, Set
<1> QED
  BY <1>2 DEF StatusTrue, Says

\* The end of a turn: the run's id is recorded for the first time.
LEMMA RecordSays ==
    ASSUME RunInv, NEW s \in Schedules, NEW id \in active[s], NEW v \in {"ok", "error"},
           NEW b, v = "error" <=> id \in b
    PROVE  Says(Record(rows[s], id, v), b)
  BY RecordKeeps DEF RunInv, Rows, Says

\* Every step keeps lastStatus true.
LEMMA StatusStep == RunInv /\ StatusTrue /\ [Next]_vars => StatusTrue'
<1> SUFFICES ASSUME RunInv, StatusTrue, [Next]_vars PROVE StatusTrue'
  OBVIOUS
<1> USE DEF memory, history, places, fates, causes, outcomes
<1>0. Rows /\ RunType
  BY DEF RunInv
<1>1. CASE Boot
  <2>1. rows' = [s \in Schedules |-> Recomputed(s, Reconciled(s))]
    BY <1>1 DEF Boot
  <2>2. ASSUME NEW s \in Schedules PROVE SameRun(rows'[s], rows[s])
    BY <1>0, <2>1, BootKeeps
  <2> QED
    BY <1>1, <2>2, SameRunKeeps DEF Boot
<1>2. CASE Wake
  BY <1>0, <1>2, AdvanceKeeps, SameRunKeeps DEF Wake
<1>3. CASE Stop \/ Exit \/ Crash \/ Tick
  BY <1>3 DEF Stop, Exit, Crash, Tick, StatusTrue
<1>4. ASSUME NEW s \in Schedules, NEW M \in SUBSET Schedules, CrashInWake(M, s) PROVE StatusTrue'
  BY <1>0, <1>4, AdvanceKeeps, SameRunKeeps DEF CrashInWake
<1>5. ASSUME NEW s \in Schedules, NEW e \in BOOLEAN, Write(s, e) PROVE StatusTrue'
  <2>1. Says(Upsert(rows[s], Fresh(s), e, "api"), bad[s] \ early[s])
    <3>1. IsRow(rows[s]) /\ Says(rows[s], bad[s] \ early[s])
      BY <1>0, StatusByRow DEF Rows
    <3>2. SameRun(Upsert(rows[s], Fresh(s), e, "api"), rows[s])
      BY <3>1, UpsertKeeps
    <3> QED
      BY <3>1, <3>2 DEF SameRun, Says
  <2> QED
    BY <1>0, <1>5, <2>1, OneRowKeeps DEF Write, RunType
<1>6. ASSUME NEW s \in Schedules, NEW e \in BOOLEAN, SetEnabled(s, e) PROVE StatusTrue'
  <2>1. Says([rows[s] EXCEPT !.enabled = e], bad[s] \ early[s])
    BY <1>0, StatusByRow DEF Rows, IsRow, Fields, Says
  <2> QED
    BY <1>0, <1>6, <2>1, OneRowKeeps DEF SetEnabled, RunType
<1>7. ASSUME NEW s \in Schedules, Remove(s) PROVE StatusTrue'
  <2>1. Says(NoRow, bad[s] \ early[s])
    BY NoRowIsRow DEF Says
  <2> QED
    BY <1>0, <1>7, <2>1, OneRowKeeps DEF Remove, RunType
<1>8. ASSUME NEW s \in Schedules, StrangerReads(s) PROVE StatusTrue'
  BY <1>8 DEF StrangerReads, StatusTrue
<1>9. ASSUME NEW s \in Schedules, StrangerWrites(s) PROVE StatusTrue'
  <2>1. Says(Upsert(rows[s], copy[s], TRUE, "manifest"), bad[s] \ early[s])
    <3>1. IsRow(rows[s]) /\ Says(rows[s], bad[s] \ early[s])
      BY <1>0, StatusByRow DEF Rows
    <3>2. SameRun(Upsert(rows[s], copy[s], TRUE, "manifest"), rows[s])
      BY <3>1, UpsertKeeps
    <3> QED
      BY <3>1, <3>2 DEF SameRun, Says
  <2> QED
    BY <1>0, <1>9, <2>1, OneRowKeeps DEF StrangerWrites, RunType
<1>10. ASSUME NEW s \in Schedules, NEW id \in RunIds, RunFails(s, id) PROVE StatusTrue'
  <2>1. /\ bad' = Set(bad, s, bad[s] \cup {id}) /\ bad'[s] = bad[s] \cup {id} /\ early' = early
        /\ id \notin early[s]
    BY <1>0, <1>10 DEF RunFails, Set, RunType, RunInv, Open
  <2>2. Says(Record(rows[s], id, "error"), bad'[s] \ early'[s])
    BY <1>10, <2>1, RecordSays DEF RunFails
  <2>3. /\ rows' = Set(rows, s, Record(rows[s], id, "error")) /\ bad = [x \in Schedules |-> bad[x]]
        /\ early = [x \in Schedules |-> early[x]]
    BY <1>0, <1>10 DEF RunFails, RunType
  <2> QED
    BY <1>0, <2>1, <2>2, <2>3, OneRowKeeps
<1>11. ASSUME NEW s \in Schedules, NEW id \in RunIds, RunSucceeds(s, id) PROVE StatusTrue'
  <2>1. id \in active[s] /\ id \notin bad[s]
    BY <1>11 DEF RunSucceeds, RunInv, Open
  <2>2. Says(Record(rows[s], id, "ok"), bad[s] \ early[s])
    BY <2>1, RecordSays
  <2> QED
    BY <1>0, <1>11, <2>2, OneRowKeeps DEF RunSucceeds, RunType
<1>12. ASSUME NEW s \in Schedules, NEW id \in RunIds, RunUndelivered(s, id) PROVE StatusTrue'
  <2>1. PICK r : r = MarkDeliveryFailed(rows[s], id)
    OBVIOUS
  <2>2. IsRow(r)
    BY <1>0, <2>1, MarkKeeps DEF Rows
  <2>3. /\ bad' = Set(bad, s, bad[s] \cup {id}) /\ early' = Set(early, s, early[s] \cup {id})
        /\ id \notin bad'[s] \ early'[s]
        /\ bad = [x \in Schedules |-> bad[x]] /\ early = [x \in Schedules |-> early[x]]
    BY <1>0, <1>12 DEF RunUndelivered, Set, RunType
  <2>4. Says(Record(r, id, "ok"), bad'[s] \ early'[s])
    BY <2>2, <2>3, RecordKeeps DEF Says
  <2>5. rows' = Set(rows, s, Record(r, id, "ok"))
    BY <1>12, <2>1 DEF RunUndelivered
  <2>6. PICK b, c : bad' = Set(bad, s, b) /\ early' = Set(early, s, c)
    BY <2>3
  <2>7. bad' \in {bad, Set(bad, s, b)} /\ early' \in {early, Set(early, s, c)}
    BY <2>6
  <2>8. PICK v : v = Record(r, id, "ok")
    OBVIOUS
  <2>9. rows' = Set(rows, s, v) /\ Says(v, bad'[s] \ early'[s])
    BY <2>4, <2>5, <2>8
  <2>10. bad = [x \in Schedules |-> bad[x]] /\ early = [x \in Schedules |-> early[x]]
    BY <2>3
  <2> QED
    BY <1>0, <2>7, <2>9, <2>10, OneRowKeeps
<1>13. ASSUME NEW s \in Schedules, NEW id \in RunIds, DeliveryFails(s, id) PROVE StatusTrue'
  <2>1. /\ bad' = Set(bad, s, bad[s] \cup {id}) /\ bad'[s] = bad[s] \cup {id} /\ early' = early
        /\ id \notin early[s]
    BY <1>0, <1>13 DEF DeliveryFails, Set, RunType, RunInv, Open
  <2>2. id # 0
    BY SchedulerConstants DEF RunIds
  <2>3. Says(MarkDeliveryFailed(rows[s], id), bad'[s] \ early'[s])
    <3>1. IsRow(rows[s]) /\ Says(rows[s], bad[s] \ early[s])
      BY <1>0, StatusByRow DEF Rows
    <3> QED
      BY <2>1, <2>2, <3>1, MarkKeeps DEF Says
  <2>4. /\ rows' = Set(rows, s, MarkDeliveryFailed(rows[s], id)) /\ bad = [x \in Schedules |-> bad[x]]
        /\ early = [x \in Schedules |-> early[x]]
    BY <1>0, <1>13 DEF DeliveryFails, RunType
  <2>5. PICK b : bad' = Set(bad, s, b)
    BY <2>1
  <2>6. bad' \in {bad, Set(bad, s, b)} /\ early' \in {early, Set(early, s, {})}
    BY <2>1, <2>5
  <2>7. PICK v : v = MarkDeliveryFailed(rows[s], id)
    OBVIOUS
  <2> QED
    BY <1>0, <2>3, <2>4, <2>6, <2>7, OneRowKeeps
<1>14. ASSUME NEW s \in Schedules, NEW id \in RunIds, Delivered(s, id) PROVE StatusTrue'
  BY <1>14 DEF Delivered, StatusTrue
<1>15. CASE UNCHANGED vars
  BY <1>15 DEF vars, StatusTrue
<1> QED
  BY <1>1, <1>2, <1>3, <1>4, <1>5, <1>6, <1>7, <1>8, <1>9, <1>10, <1>11, <1>12, <1>13, <1>14, <1>15
  DEF Next, WriterStep, RunStep, OutboxStep

\* lastStatus (markFired, markDeliveryFailed): the row says error of exactly the runs
\* whose turn failed or whose delivery failed after they were recorded, however late
\* that failure arrives and whatever was fired, edited or lost meanwhile.  A delivery
\* that failed before the record is the one failure the row does not tell.
THEOREM StatusTruthful == Spec => []StatusTrue
<1>1. Init => StatusTrue
  BY DEF Init, StatusTrue, NoRow
<1>2. RunInv /\ StatusTrue /\ [Next]_vars => StatusTrue'
  BY StatusStep
<1> QED
  BY <1>1, <1>2, RunInvInit, RunInvStep, PTL DEF Spec

------------------------------------------------------------------------------
(* Due times *)

Recurring(s) == KindOf[s] \in {"cron", "every"}

\* A set of numbers that is not empty has a least one, and Min is it.
LEMMA MinIs ==
    ASSUME NEW S \in SUBSET Nat, S # {}
    PROVE  Min(S) \in S /\ \A y \in S : Min(S) <= y
<1> DEFINE R == {p \in Nat \X Nat : p[1] < p[2]}
<1>1. IsWellFoundedOn(R, Nat)
  BY NatLessThanWellFounded DEF OpToRel
<1>2. ASSUME NEW x \in Nat, NEW y \in Nat, x < y PROVE <<x, y>> \in R
  BY <1>2
<1> HIDE DEF R
<1>3. PICK m \in S : \A k \in S : ~(<<k, m>> \in R)
  BY <1>1, WFMin
<1>4. ASSUME NEW k \in S PROVE m <= k
  <2>1. m \in Nat /\ k \in Nat
    OBVIOUS
  <2>2. ~(k < m)
    BY <1>2, <1>3, <2>1
  <2> QED
    BY <2>1, <2>2
<1>5. \E x \in S : \A y \in S : x <= y
  BY <1>4
<1> QED
  BY <1>5, Zenon DEF Min

\* Every interval of time has the next multiple of the interval in it.
LEMMA NextMultiple ==
    ASSUME NEW x \in Nat, NEW n \in Nat \ {0}
    PROVE  \E y \in Nat : x < y /\ y <= x + n /\ y % n = 0
<1>1. (x + n - (x % n)) % n = 0 /\ x % n \in 0 .. n - 1
  <2>1. x % n \in 0 .. n - 1
    OBVIOUS
  <2>2. (x + n - (x % n)) % n = 0
    OBVIOUS
  <2> QED
    BY <2>1, <2>2
<1>2. PICK y \in Nat : y = x + n - (x % n)
  BY <1>1
<1> QED
  BY <1>1, <1>2

\* A positive multiple of the interval is at least the interval.
LEMMA MultipleIsLong ==
    ASSUME NEW x \in Nat, NEW n \in Nat \ {0}, x > 0, x % n = 0
    PROVE  x >= n
<1>1. x < n => x % n = x
  OBVIOUS
<1> QED
  BY <1>1

LEMMA Bounds ==
    /\ Interval \in Nat \ {0} /\ AtTime \in Nat \ {0} /\ MissedCap \in Nat \ {0}
    /\ Horizon \in Nat \ {0} /\ MaxTime \in Nat \ {0} /\ MaxRuns \in Nat \ {0}
    /\ Jitter \in Nat /\ Jitter < Interval
    /\ \A s \in Schedules : KindOf[s] \in {"cron", "every", "at"}
  BY SchedulerConstants

\* A recurring schedule has an occurrence within an interval of every moment.
LEMMA OccurrenceAhead ==
    ASSUME NEW s \in Schedules, Recurring(s), NEW from \in Nat, NEW t \in 1 .. MaxTime, from <= t
    PROVE  /\ Occurrences(s, from) \in SUBSET Nat /\ Occurrences(s, from) \in SUBSET Times
           /\ \A o \in Occurrences(s, from) : o > from
           /\ \E o \in Occurrences(s, from) : o > t /\ o <= t + Interval
<1>1. /\ Occurrences(s, from) \in SUBSET Nat /\ Occurrences(s, from) \in SUBSET Times
      /\ \A o \in Occurrences(s, from) : o > from
  BY Bounds DEF Occurrences, Occurrence, Times
<1>2. t \in Nat
  BY Bounds
<1>3. ASSUME NEW o \in Nat, o > t, o <= t + Interval PROVE o \in Times /\ o > from
  BY <1>3, Bounds DEF Times
<1>4. CASE KindOf[s] = "cron"
  <2>1. PICK o \in Nat : t < o /\ o <= t + Interval /\ o % Interval = 0
    BY <1>2, Bounds, NextMultiple
  <2>2. o \in Occurrences(s, from)
    BY <1>3, <1>4, <2>1 DEF Occurrences, Occurrence
  <2> QED
    BY <1>1, <2>1, <2>2
<1>5. CASE KindOf[s] = "every"
  <2>1. t - from \in Nat
    BY <1>2
  <2>2. PICK y \in Nat : t - from < y /\ y <= (t - from) + Interval /\ y % Interval = 0
    BY <2>1, Bounds, NextMultiple
  <2>3. PICK o \in Nat : o = y + from
    OBVIOUS
  <2>4. o > t /\ o <= t + Interval /\ o - from = y
    BY <1>2, <2>2, <2>3, Bounds
  <2>5. o \in Occurrences(s, from)
    BY <1>3, <1>5, <2>2, <2>4 DEF Occurrences, Occurrence
  <2> QED
    BY <1>1, <2>4, <2>5
<1> QED
  BY <1>4, <1>5 DEF Recurring

\* The next fire of a recurring schedule: within an interval, later than now, and, when the
\* pending one is taken at its moment, the very next occurrence.
LEMMA NextFire ==
    ASSUME NEW s \in Schedules, Recurring(s), NEW from \in Nat, NEW t \in 1 .. MaxTime, from <= t,
           NEW consumed
    PROVE  LET d == DecideDue(s, from, t, consumed)
           IN  /\ d.anchor \in Occurrences(s, from) /\ d.anchor <= t + Interval
               /\ d.next = d.anchor + Jitter /\ d.next > t
               /\ t = from + Jitter => \A o \in Occurrences(s, from) : d.anchor <= o
<1> DEFINE O == Occurrences(s, from)
           A == {o \in O : o > t}
           B == {o \in O : o + Jitter > t}
           D == {o \in O : o + Jitter <= t}
<1>0. t \in Nat /\ Jitter \in Nat /\ Interval \in Nat
  BY Bounds
<1>1. /\ O \in SUBSET Nat /\ \A o \in O : o > from
      /\ \E o \in O : o > t /\ o <= t + Interval
  BY OccurrenceAhead
<1> HIDE DEF O
<1>2. PICK w \in O : w > t /\ w <= t + Interval
  BY <1>1
<1>3. w \in A /\ w \in B
  BY <1>0, <1>1, <1>2
<1>4. A \in SUBSET Nat /\ B \in SUBSET Nat
  BY <1>1
<1> HIDE DEF A, B, D
<1>5. Min(A) \in A /\ \A y \in A : Min(A) <= y
  BY <1>3, <1>4, MinIs
<1>6. Min(B) \in B /\ \A y \in B : Min(B) <= y
  BY <1>3, <1>4, MinIs
<1>7. /\ Min(A) \in O /\ Min(A) <= t + Interval /\ Min(A) + Jitter > t
      /\ Min(B) \in O /\ Min(B) <= t + Interval /\ Min(B) + Jitter > t
  <2>1. Min(A) <= w /\ Min(B) <= w
    BY <1>3, <1>5, <1>6
  <2>2. Min(A) \in Nat /\ Min(B) \in Nat /\ w \in Nat
    BY <1>1, <1>4, <1>5, <1>6
  <2>3. Min(A) \in O /\ Min(A) > t
    BY <1>5 DEF A
  <2>4. Min(B) \in O /\ Min(B) + Jitter > t
    BY <1>6 DEF B
  <2> QED
    BY <1>0, <1>2, <2>1, <2>2, <2>3, <2>4
<1>8. CASE KindOf[s] = "every"
  <2> DEFINE a == Min(A)
  <2>1. DecideDue(s, from, t, consumed) = [anchor |-> a, next |-> a + Jitter]
    BY <1>8 DEF DecideDue, EveryNext, A, O
  <2>2. ASSUME t = from + Jitter, NEW o \in O PROVE a <= o
    <3>1. o - from \in Nat /\ o - from > 0 /\ (o - from) % Interval = 0
      BY <1>1, <1>8 DEF O, Occurrences, Occurrence
    <3>2. o - from >= Interval
      BY <3>1, Bounds, MultipleIsLong
    <3>3. o > t
      BY <1>0, <1>1, <2>2, <3>2, Bounds
    <3> QED
      BY <1>5, <3>3 DEF A
  <2> HIDE DEF a
  <2>3. a \in O /\ a <= t + Interval /\ a + Jitter > t
    BY <1>7 DEF a
  <2> QED
    BY <2>1, <2>2, <2>3 DEF O
<1>9. CASE KindOf[s] = "cron"
  <2> DEFINE a == CronNext(s, from, t)
  <2>1. DecideDue(s, from, t, consumed) = [anchor |-> a, next |-> a + Jitter]
    BY <1>9 DEF DecideDue
  <2>2. a = IF Cardinality(D) >= MissedCap THEN Min(A) ELSE Min(B)
    BY DEF CronNext, A, B, D, O
  <2>3. ASSUME t = from + Jitter, NEW o \in O PROVE a <= o
    <3>1. \A p \in O : p + Jitter > t
      BY <1>0, <1>1, <2>3
    <3>2. D = {}
      <4>1. ASSUME NEW p \in D PROVE FALSE
        <5>1. p \in O /\ p + Jitter <= t
          BY <4>1 DEF D
        <5>2. p \in Nat /\ p + Jitter > t
          BY <1>1, <3>1, <5>1
        <5> QED
          BY <1>0, <5>1, <5>2
      <4> QED
        BY <4>1
    <3>3. ~(Cardinality(D) >= MissedCap)
      <4>1. Cardinality(D) = 0
        BY <3>2, FS_EmptySet
      <4> QED
        BY <4>1, Bounds
    <3>4. a = Min(B)
      BY <2>2, <3>3
    <3>5. o \in B
      BY <3>1 DEF B
    <3> QED
      BY <1>6, <3>4, <3>5
  <2> HIDE DEF a
  <2>4. a \in O /\ a <= t + Interval /\ a + Jitter > t
    BY <1>7, <2>2
  <2> QED
    BY <2>1, <2>3, <2>4 DEF O
<1> QED
  BY <1>8, <1>9 DEF Recurring

------------------------------------------------------------------------------
(* The shape of a row *)

\* Where a row stands in its sequence: a one-shot at its instant, due then, at the boot that
\* found it overdue, or no more; a recurring one at an occurrence, due a jitter later.
GoodPlace(s, d) ==
    /\ KindOf[s] = "at" => d.anchor = AtTime /\ d.next \in 0 .. MaxTime + AtTime
    /\ Recurring(s) => d.anchor \in 1 .. MaxTime + Interval /\ d.next = d.anchor + Jitter

Shape(s, r) ==
    /\ r \in Row
    /\ ~r.here => r = NoRow
    /\ r.here => GoodPlace(s, r)

LEMMA Kinds == \A s \in Schedules : KindOf[s] = "at" \/ Recurring(s)
  BY Bounds DEF Recurring

LEMMA GoodIsTime ==
    ASSUME NEW s \in Schedules, NEW d, GoodPlace(s, d)
    PROVE  d.anchor \in Times /\ d.next \in Times /\ d.anchor \in Nat /\ d.next \in Nat
<1>1. CASE KindOf[s] = "at"
  BY <1>1, Bounds DEF GoodPlace, Times
<1>2. CASE Recurring(s)
  BY <1>2, Bounds DEF GoodPlace, Times
<1> QED
  BY <1>1, <1>2, Kinds

\* decideDue gives a place, from the present or from a place that has come due.
LEMMA DecidedIsGood ==
    ASSUME NEW s \in Schedules, NEW from \in Nat, NEW t \in 1 .. MaxTime, NEW consumed \in BOOLEAN,
           KindOf[s] = "at" /\ consumed => from = AtTime, Recurring(s) => from <= t
    PROVE  GoodPlace(s, DecideDue(s, from, t, consumed))
<1>0. t \in Nat /\ t >= 1 /\ t <= MaxTime
  BY Bounds
<1>1. CASE KindOf[s] = "at"
  <2>1. CASE consumed
    <3>1. DecideDue(s, from, t, consumed) = [anchor |-> from, next |-> 0]
      BY <1>1, <2>1 DEF DecideDue
    <3>2. from = AtTime
      BY <1>1, <2>1, Zenon
    <3>3. ~Recurring(s) /\ 0 \in 0 .. MaxTime + AtTime
      BY <1>1, Bounds DEF Recurring
    <3> QED
      BY <3>1, <3>2, <3>3 DEF GoodPlace
  <2>2. CASE ~consumed
    <3>1. DecideDue(s, from, t, consumed) = [anchor |-> AtTime, next |-> IF AtTime <= t THEN t ELSE AtTime]
      BY <1>1, <2>2 DEF DecideDue
    <3>2. (IF AtTime <= t THEN t ELSE AtTime) \in 0 .. MaxTime + AtTime
      BY <1>0, Bounds
    <3>3. ~Recurring(s)
      BY <1>1 DEF Recurring
    <3> QED
      BY <3>1, <3>2, <3>3 DEF GoodPlace
  <2> QED
    BY <2>1, <2>2
<1>2. CASE Recurring(s)
  <2> DEFINE d == DecideDue(s, from, t, consumed)
  <2>1. d.anchor \in Occurrences(s, from) /\ d.anchor <= t + Interval /\ d.next = d.anchor + Jitter
    BY <1>2, NextFire
  <2>2. d.anchor \in Nat /\ d.anchor > from
    BY <1>2, <2>1, OccurrenceAhead
  <2> HIDE DEF d
  <2>3. d.anchor \in 1 .. MaxTime + Interval
    BY <1>0, <2>1, <2>2, Bounds
  <2>4. KindOf[s] # "at"
    BY <1>2 DEF Recurring
  <2>5. GoodPlace(s, d)
    BY <2>1, <2>3, <2>4 DEF GoodPlace
  <2> QED
    BY <2>5 DEF d
<1> QED
  BY <1>1, <1>2, Kinds

LEMMA PlaceShape ==
    ASSUME NEW s \in Schedules, NEW r \in Row, NEW d, GoodPlace(s, d)
    PROVE  /\ Place(r, d) \in Row
           /\ Place(r, d).anchor = d.anchor /\ Place(r, d).next = d.next
           /\ Place(r, d).here = r.here /\ Place(r, d).enabled = r.enabled
           /\ Place(r, d).origin = r.origin /\ Place(r, d).lastRun = r.lastRun
           /\ Place(r, d).status = r.status
<1>1. d.anchor \in Times /\ d.next \in Times
  BY GoodIsTime
<1> QED
  BY <1>1 DEF Place, Row

\* What an upsert sets.
SamePlace(q, d) == q.anchor = d.anchor /\ q.next = d.next
Listed(q, e, o) == q.here /\ q.enabled = e /\ q.origin = o

LEMMA UpsertShape ==
    ASSUME NEW s \in Schedules, NEW r \in Row, NEW d, NEW e \in BOOLEAN,
           NEW o \in {"manifest", "api"}, GoodPlace(s, d)
    PROVE  /\ Shape(s, Upsert(r, d, e, o)) /\ SamePlace(Upsert(r, d, e, o), d)
           /\ SameRun(Upsert(r, d, e, o), r) /\ Listed(Upsert(r, d, e, o), e, o)
<1>1. PICK p \in Row : /\ p = Place(r, d) /\ p.anchor = d.anchor /\ p.next = d.next
                       /\ p.lastRun = r.lastRun /\ p.status = r.status
  BY PlaceShape
<1>2. PICK q : q = [p EXCEPT !.here = TRUE, !.enabled = e, !.origin = o]
  OBVIOUS
<1>3. q = Upsert(r, d, e, o)
  BY <1>1, <1>2 DEF Upsert
<1>4. /\ q \in Row /\ q.anchor = p.anchor /\ q.next = p.next /\ q.lastRun = p.lastRun
      /\ q.status = p.status /\ q.here = TRUE /\ q.enabled = e /\ q.origin = o
  BY <1>2 DEF Row
<1>5. GoodPlace(s, q)
  BY <1>1, <1>4 DEF GoodPlace
<1>6. Shape(s, q)
  BY <1>4, <1>5 DEF Shape
<1> QED
  BY <1>1, <1>3, <1>4, <1>6 DEF SamePlace, SameRun, Listed

LEMMA NoRowShape == \A s \in Schedules : Shape(s, NoRow)
<1>1. NoRow \in Row
  BY Bounds DEF NoRow, Row, Times
<1>2. ~NoRow.here
  BY DEF NoRow
<1> QED
  BY <1>1, <1>2 DEF Shape

\* The place of a schedule that starts now.
LEMMA FreshIsGood == ASSUME NEW s \in Schedules, now \in 1 .. MaxTime PROVE GoodPlace(s, Fresh(s))
<1>1. now \in Nat /\ now <= now
  BY Bounds
<1>2. GoodPlace(s, DecideDue(s, now, now, FALSE))
  BY <1>1, DecidedIsGood
<1> QED
  BY <1>2 DEF Fresh

\* Occurrences are times.
LEMMA PassedTimes ==
    ASSUME NEW s \in Schedules, NEW r, r.anchor \in Times, NEW to
    PROVE  Passed(s, r, to) \in SUBSET Times
  BY DEF Passed, Occurrences

\* A row that has come due, in a wake or at a boot, and where it goes.
LEMMA Advances ==
    ASSUME now \in 1 .. MaxTime, NEW s \in Schedules, NEW r, Shape(s, r), Overdue(r),
           NEW consumed \in BOOLEAN
    PROVE  LET d == DecideDue(s, r.anchor, now, consumed)
               q == Place(r, d)
           IN  /\ GoodPlace(s, d) /\ Shape(s, q) /\ q.lastRun = r.lastRun /\ q.enabled = r.enabled
               /\ q.origin = r.origin /\ q.here = TRUE /\ q.anchor = d.anchor /\ q.next = d.next
               /\ r.anchor \in Nat /\ (Recurring(s) => r.anchor <= now)
<1>1. r \in Row /\ GoodPlace(s, r) /\ r.here = TRUE /\ r.next # 0 /\ r.next <= now
  BY DEF Shape, Overdue, Row
<1>2. r.anchor \in Nat /\ r.next \in Nat /\ now \in Nat
  BY <1>1, GoodIsTime, Bounds
<1>3. KindOf[s] = "at" => r.anchor = AtTime
  BY <1>1 DEF GoodPlace
<1>4. Recurring(s) => r.anchor <= now
  BY <1>1, <1>2, Bounds DEF GoodPlace
<1> DEFINE d == DecideDue(s, r.anchor, now, consumed)
<1>5. GoodPlace(s, d)
  BY <1>2, <1>3, <1>4, DecidedIsGood
<1> HIDE DEF d
<1>6. PICK q : q = Place(r, d)
  OBVIOUS
<1>7. /\ q \in Row /\ q.anchor = d.anchor /\ q.next = d.next /\ q.here = r.here
      /\ q.enabled = r.enabled /\ q.origin = r.origin /\ q.lastRun = r.lastRun
  BY <1>1, <1>5, <1>6, PlaceShape
<1>8. GoodPlace(s, q)
  BY <1>5, <1>7 DEF GoodPlace
<1>9. Shape(s, q)
  BY <1>1, <1>7, <1>8 DEF Shape
<1> QED
  BY <1>1, <1>2, <1>4, <1>5, <1>6, <1>7, <1>9, Zenon DEF d

\* At a boot, the overdue occurrence stays to be taken if it is a one-shot.
LEMMA RecomputedShape ==
    ASSUME now \in 1 .. MaxTime, NEW s \in Schedules, NEW r, Shape(s, r), Overdue(r)
    PROVE  /\ Shape(s, Recomputed(s, r)) /\ Recomputed(s, r).lastRun = r.lastRun
           /\ Recomputed(s, r).enabled = r.enabled /\ Recomputed(s, r).origin = r.origin
           /\ Recomputed(s, r).here = TRUE
           /\ Recomputed(s, r).anchor = DecideDue(s, r.anchor, now, FALSE).anchor
           /\ Recomputed(s, r).next = DecideDue(s, r.anchor, now, FALSE).next
           /\ r.anchor \in Nat /\ (Recurring(s) => r.anchor <= now)
  BY Advances DEF Recomputed

------------------------------------------------------------------------------
(* Type correctness *)

Clock == now \in 1 .. MaxTime /\ timer \in Nat /\ proc \in {"down", "up", "stopping"}

\* A table of rows, each in the shape its kind gives it.
Table(f) == f = [s \in Schedules |-> f[s]] /\ \A s \in Schedules : Shape(s, f[s])

LastRuns == \A s \in Schedules : rows[s].lastRun <= lastId[s]

TimeSets == [Schedules -> SUBSET Times]
Histories == taken \in TimeSets /\ repeated \in TimeSets /\ skipped \in TimeSets /\ dropped \in TimeSets

PlaceInv == Clock /\ Table(rows) /\ Table(copy) /\ LastRuns /\ Histories

\* The timer is armed for the soonest due time or the horizon.
LEMMA Armed ==
    ASSUME NEW r, \A s \in Schedules : r[s].next \in Nat, now \in Nat
    PROVE  /\ Arm(r) \in Nat
           /\ \A s \in Schedules : r[s].here /\ r[s].enabled /\ r[s].next # 0 => Arm(r) <= r[s].next
           /\ \/ Arm(r) = now + Horizon
              \/ \E s \in Schedules : /\ r[s].here /\ r[s].enabled /\ r[s].next # 0
                                      /\ Arm(r) = r[s].next
<1> DEFINE soon == {r[s].next : s \in {x \in Schedules : r[x].here /\ r[x].enabled /\ r[x].next # 0}}
           S == {now + Horizon} \cup soon
<1>1. S \in SUBSET Nat /\ S # {}
  BY Bounds
<1>2. Arm(r) = Min(S)
  BY DEF Arm
<1>3. \A s \in Schedules : r[s].here /\ r[s].enabled /\ r[s].next # 0 => r[s].next \in S
  OBVIOUS
<1>4. \A x \in S : \/ x = now + Horizon
                   \/ \E s \in Schedules : r[s].here /\ r[s].enabled /\ r[s].next # 0 /\ x = r[s].next
  OBVIOUS
<1> HIDE DEF S
<1>5. Arm(r) \in S /\ \A y \in S : Arm(r) <= y
  BY <1>1, <1>2, MinIs
<1> QED
  BY <1>1, <1>3, <1>4, <1>5

LEMMA ReconciledShape ==
    ASSUME now \in 1 .. MaxTime, Table(rows), NEW s \in Schedules
    PROVE  Shape(s, Reconciled(s)) /\ Reconciled(s).lastRun = rows[s].lastRun
<1>1. rows[s] \in Row /\ Shape(s, rows[s]) /\ (rows[s].here => GoodPlace(s, rows[s]))
  BY DEF Table, Shape
<1>2. CASE s \in Manifest
  <2>1. PICK p : p = IF rows[s].here THEN rows[s] ELSE Fresh(s)
    OBVIOUS
  <2>2. GoodPlace(s, p)
    BY <1>1, <2>1, FreshIsGood
  <2>3. Reconciled(s) = Upsert(rows[s], p, TRUE, "manifest")
    BY <1>2, <2>1 DEF Reconciled
  <2>4. /\ Shape(s, Upsert(rows[s], p, TRUE, "manifest"))
        /\ SameRun(Upsert(rows[s], p, TRUE, "manifest"), rows[s])
    BY <1>1, <2>2, UpsertShape
  <2> QED
    BY <2>3, <2>4 DEF SameRun
<1>3. CASE s \notin Manifest
  BY <1>1, <1>3 DEF Reconciled
<1> QED
  BY <1>2, <1>3

\* What a boot makes of a row, and what it reports of it.
LEMMA BootShape ==
    ASSUME now \in 1 .. MaxTime, Table(rows), NEW s \in Schedules
    PROVE  LET r == Reconciled(s)
               q == Recomputed(s, r)
           IN  /\ Shape(s, r) /\ r.lastRun = rows[s].lastRun
               /\ Shape(s, q) /\ q.lastRun = rows[s].lastRun
               /\ Reported(s, r) \in SUBSET Times /\ Passed(s, r, q.anchor) \in SUBSET Times
<1> DEFINE r == Reconciled(s)
           q == Recomputed(s, r)
<1>1. Shape(s, rows[s])
  BY DEF Table
<1>2. Shape(s, r) /\ r.lastRun = rows[s].lastRun
  BY ReconciledShape
<1> HIDE DEF r
<1>3. Shape(s, q) /\ q.lastRun = r.lastRun
  <2>1. CASE Overdue(r)
    BY <1>2, <2>1, RecomputedShape
  <2>2. CASE ~Overdue(r)
    BY <1>2, <2>2 DEF Recomputed
  <2> QED
    BY <2>1, <2>2
<1>4. r.anchor \in Times
  BY <1>2 DEF Shape, Row
<1>5. \A to : Passed(s, r, to) \in SUBSET Times
  BY <1>4, PassedTimes
<1>6. Reported(s, r) \in SUBSET Times
  BY <1>4, <1>5 DEF Reported
<1> QED
  BY <1>2, <1>3, <1>5, <1>6 DEF r

LEMMA TableSet ==
    ASSUME NEW f, Table(f), NEW s \in Schedules, NEW v, Shape(s, v), NEW g, g = Set(f, s, v)
    PROVE  Table(g) /\ g[s] = v /\ \A x \in Schedules \ {s} : g[x] = f[x]
<1>1. g = [f EXCEPT ![s] = v] /\ f = [x \in Schedules |-> f[x]]
  BY DEF Set, Table
<1>2. g = [x \in Schedules |-> g[x]] /\ g[s] = v /\ \A x \in Schedules \ {s} : g[x] = f[x]
  BY <1>1
<1> QED
  BY <1>2 DEF Table

LEMMA TableRow ==
    ASSUME NEW f, Table(f), NEW s \in Schedules
    PROVE  /\ Shape(s, f[s]) /\ f[s] \in Row /\ f[s].next \in Nat /\ f[s].anchor \in Nat
           /\ f[s].anchor \in Times /\ f[s].lastRun \in Nat /\ f[s].here \in BOOLEAN
           /\ f[s].enabled \in BOOLEAN
           /\ f[s].here => GoodPlace(s, f[s])
<1>1. Shape(s, f[s]) /\ f[s] \in Row
  BY DEF Table, Shape
<1> QED
  BY <1>1, Bounds DEF Row, Times, Shape

\* A write of the table rows at one place, with the timer armed or not.
LEMMA OneRowShape ==
    ASSUME PlaceInv, NEW s \in Schedules, NEW v, Shape(s, v), rows' = Set(rows, s, v),
           lastId \in [Schedules -> 0 .. MaxRuns], lastId' \in [Schedules -> 0 .. MaxRuns],
           v.lastRun <= lastId'[s], \A x \in Schedules : lastId[x] <= lastId'[x]
    PROVE  Table(rows)' /\ LastRuns'
<1>1. Table(rows') /\ rows'[s] = v /\ \A x \in Schedules \ {s} : rows'[x] = rows[x]
  BY TableSet DEF PlaceInv
<1>2. \A x \in Schedules : rows[x].lastRun \in Nat
  BY TableRow DEF PlaceInv
<1>3. \A x \in Schedules : lastId[x] \in Nat /\ lastId'[x] \in Nat
  BY Bounds
<1>4. \A x \in Schedules \ {s} : rows'[x].lastRun <= lastId'[x]
  BY <1>1, <1>2, <1>3 DEF PlaceInv, LastRuns
<1>5. LastRuns'
  BY <1>1, <1>4 DEF LastRuns
<1> QED
  BY <1>1, <1>5 DEF Table

\* The outcome of a run on a row.
LEMMA RecordShape ==
    ASSUME NEW s \in Schedules, NEW r, Shape(s, r), NEW id \in RunIds, NEW v \in {"ok", "error"}
    PROVE  /\ Shape(s, Record(r, id, v))
           /\ Record(r, id, v).lastRun \in {r.lastRun, id}
<1>1. CASE r.here
  <2>1. PICK q : q = [r EXCEPT !.lastRun = id, !.status = v]
    OBVIOUS
  <2>2. r \in Row /\ GoodPlace(s, r)
    BY <1>1 DEF Shape
  <2>3. /\ q \in Row /\ q.here = r.here /\ q.anchor = r.anchor /\ q.next = r.next /\ q.lastRun = id
    <3>1. id \in 0 .. MaxRuns
      BY Bounds DEF RunIds
    <3> QED
      BY <2>1, <2>2, <3>1 DEF Row
  <2>4. Shape(s, q)
    BY <1>1, <2>2, <2>3 DEF Shape, GoodPlace
  <2> QED
    BY <1>1, <2>1, <2>3, <2>4 DEF Record
<1>2. CASE ~r.here
  BY <1>2 DEF Record
<1> QED
  BY <1>1, <1>2

LEMMA MarkShape ==
    ASSUME NEW s \in Schedules, NEW r, Shape(s, r), NEW id
    PROVE  /\ Shape(s, MarkDeliveryFailed(r, id))
           /\ MarkDeliveryFailed(r, id).lastRun = r.lastRun
<1>1. CASE r.here /\ r.lastRun = id
  <2>1. PICK q : q = [r EXCEPT !.status = "error"]
    OBVIOUS
  <2>2. r \in Row /\ GoodPlace(s, r)
    BY <1>1 DEF Shape
  <2>3. /\ q \in Row /\ q.here = r.here /\ q.anchor = r.anchor /\ q.next = r.next
        /\ q.lastRun = r.lastRun
    BY <2>1, <2>2 DEF Row
  <2>4. Shape(s, q)
    BY <1>1, <2>2, <2>3 DEF Shape, GoodPlace
  <2> QED
    BY <1>1, <2>1, <2>3, <2>4 DEF MarkDeliveryFailed
<1>2. CASE ~(r.here /\ r.lastRun = id)
  BY <1>2 DEF MarkDeliveryFailed
<1> QED
  BY <1>1, <1>2

\* A wake moves a due row on to its next place.
LEMMA MoveOnShape ==
    ASSUME PlaceInv, NEW s \in Schedules, Due(s)
    PROVE  /\ Shape(s, MoveOn(s)) /\ MoveOn(s).lastRun = rows[s].lastRun
           /\ MoveOn(s).enabled = rows[s].enabled /\ MoveOn(s).origin = rows[s].origin
           /\ MoveOn(s).here = TRUE
           /\ MoveOn(s).anchor = DecideDue(s, rows[s].anchor, now, TRUE).anchor
           /\ MoveOn(s).next = DecideDue(s, rows[s].anchor, now, TRUE).next
           /\ rows[s].anchor \in Nat /\ (Recurring(s) => rows[s].anchor <= now)
<1>1. Overdue(rows[s]) /\ Shape(s, rows[s]) /\ now \in 1 .. MaxTime
  BY TableRow DEF PlaceInv, Due, Overdue, Clock
<1> QED
  BY <1>1, Advances DEF MoveOn

LEMMA BootTyped == ASSUME PlaceInv, RunInv, Boot PROVE PlaceInv'
<1>0. now \in 1 .. MaxTime /\ Table(rows) /\ Table(copy) /\ Histories /\ LastRuns /\ now \in Nat
  BY Bounds DEF PlaceInv, Clock
<1>1. rows' = [s \in Schedules |-> Recomputed(s, Reconciled(s))]
  BY DEF Boot
<1>2. ASSUME NEW s \in Schedules
      PROVE  Shape(s, rows'[s]) /\ rows'[s].lastRun = rows[s].lastRun
  BY <1>0, <1>1, BootShape
<1>3. Table(rows')
  BY <1>1, <1>2 DEF Table
<1>4. skipped' = [s \in Schedules |-> skipped[s] \cup Reported(s, Reconciled(s))]
  BY DEF Boot
<1>5. skipped' \in TimeSets
  BY <1>0, <1>4, BootShape DEF Histories, TimeSets
<1>6. dropped' \in TimeSets
  <2>1. dropped' = [s \in Schedules |->
                dropped[s] \cup IF Reconciled(s).enabled
                                THEN Passed(s, Reconciled(s), rows'[s].anchor)
                                       \ Reported(s, Reconciled(s)) ELSE {}]
    BY DEF Boot
  <2>2. ASSUME NEW s \in Schedules PROVE Passed(s, Reconciled(s), rows'[s].anchor) \in SUBSET Times
    BY <1>0, <1>1, BootShape
  <2> QED
    BY <1>0, <2>1, <2>2 DEF Histories, TimeSets
<1>7. timer' = Arm(rows')
  BY DEF Boot
<1>8. timer' \in Nat
  <2>1. \A s \in Schedules : rows'[s].next \in Nat
    BY <1>3, TableRow
  <2> QED
    BY <1>0, <1>7, <2>1, Armed
<1>9. now' = now /\ proc' = "up" /\ UNCHANGED <<copy, lastId, taken, repeated>>
  BY DEF Boot
<1>10. LastRuns'
  BY <1>0, <1>2, <1>9 DEF LastRuns
<1> QED
  BY <1>0, <1>3, <1>5, <1>6, <1>8, <1>9, <1>10 DEF PlaceInv, Clock, Histories, Table

\* The rows a wake moves on, and the occurrences it takes or goes past, are typed.
LEMMA AdvanceTyped ==
    ASSUME PlaceInv, NEW M, M \subseteq AllDue, Advance(M)
    PROVE  /\ Table(rows') /\ \A s \in Schedules : rows'[s].lastRun = rows[s].lastRun
           /\ taken' \in TimeSets /\ repeated' \in TimeSets /\ dropped' \in TimeSets
<1>0. Table(rows) /\ Histories
  BY DEF PlaceInv
<1>1. rows' = [s \in Schedules |-> IF s \in M THEN MoveOn(s) ELSE rows[s]]
  BY DEF Advance
<1>2. ASSUME NEW s \in Schedules
      PROVE  Shape(s, rows'[s]) /\ rows'[s].lastRun = rows[s].lastRun
  <2>1. CASE s \in M
    <3>1. Due(s)
      BY <2>1 DEF AllDue
    <3> QED
      BY <1>1, <2>1, <3>1, MoveOnShape
  <2>2. CASE s \notin M
    BY <1>0, <1>1, <2>2, TableRow
  <2> QED
    BY <2>1, <2>2
<1>3. Table(rows')
  BY <1>1, <1>2 DEF Table
<1>4. \A s \in Schedules : Occurring(s) \in SUBSET Times
  BY <1>0, TableRow DEF Occurring
<1>5. taken' \in TimeSets /\ repeated' \in TimeSets
  BY <1>0, <1>4 DEF Advance, Histories, TimeSets
<1>6. dropped' \in TimeSets
  <2>1. ASSUME NEW s \in Schedules PROVE Passed(s, rows[s], MoveOn(s).anchor) \in SUBSET Times
    BY <1>0, TableRow, PassedTimes
  <2> QED
    BY <1>0, <2>1 DEF Advance, Histories, TimeSets
<1> QED
  BY <1>2, <1>3, <1>5, <1>6

LEMMA WakeTyped == ASSUME PlaceInv, RunInv, Wake PROVE PlaceInv'
<1>0. now \in 1 .. MaxTime /\ Table(copy) /\ Histories /\ LastRuns /\ now \in Nat /\ Table(rows)
  BY Bounds DEF PlaceInv, Clock
<1>1. /\ Table(rows') /\ \A s \in Schedules : rows'[s].lastRun = rows[s].lastRun
      /\ taken' \in TimeSets /\ repeated' \in TimeSets /\ dropped' \in TimeSets
  BY AdvanceTyped DEF Wake
<1>2. timer' \in Nat
  <2>1. timer' = Arm(rows')
    BY DEF Wake
  <2>2. \A s \in Schedules : rows'[s].next \in Nat
    BY <1>1, TableRow
  <2> QED
    BY <1>0, <2>1, <2>2, Armed
<1>3. now' = now /\ proc' = proc /\ UNCHANGED <<copy, skipped>>
  BY DEF Wake
<1>4. LastRuns'
  <2>1. \A s \in Schedules : rows[s].lastRun \in Nat
    BY <1>0, TableRow
  <2>2. \A s \in Schedules : lastId[s] \in Nat
    BY Bounds DEF RunInv, RunType
  <2>3. \A s \in Schedules : lastId'[s] \in {lastId[s], lastId[s] + 1}
    BY DEF Wake
  <2> QED
    BY <1>0, <1>1, <2>1, <2>2, <2>3 DEF LastRuns
<1>5. Clock'
  BY <1>0, <1>2, <1>3 DEF Clock, PlaceInv
<1> QED
  BY <1>0, <1>1, <1>3, <1>4, <1>5 DEF PlaceInv, Histories, Table

\* The end of a run mints at most one id.
LEMMA BoundaryMints ==
    ASSUME RunInv, NEW s \in Schedules, NEW id, Boundary(s, id)
    PROVE  /\ lastId \in [Schedules -> 0 .. MaxRuns] /\ lastId' \in [Schedules -> 0 .. MaxRuns]
           /\ \A x \in Schedules : lastId[x] <= lastId'[x]
<1>1. lastId \in [Schedules -> 0 .. MaxRuns]
  BY DEF RunInv, RunType
<1> DEFINE again == inflight[s] = "deferred" /\ proc = "up" /\ rows[s].here /\ rows[s].enabled
<1>2. /\ again => lastId[s] < MaxRuns
      /\ lastId' = [lastId EXCEPT ![s] = lastId[s] + IF again THEN 1 ELSE 0]
  BY DEF Boundary, Set
<1> HIDE DEF again
<1>3. CASE again
  <2>1. lastId' = [lastId EXCEPT ![s] = lastId[s] + 1] /\ lastId[s] < MaxRuns
    BY <1>2, <1>3
  <2> QED
    BY <1>1, <2>1, Bounds
<1>4. CASE ~again
  <2>1. lastId' = [lastId EXCEPT ![s] = lastId[s] + 0]
    BY <1>2, <1>4
  <2> QED
    BY <1>1, <2>1, Bounds
<1> QED
  BY <1>3, <1>4

\* Steps that write one row, and not the histories.
LEMMA OneRowTyped ==
    ASSUME PlaceInv, NEW s \in Schedules, NEW v, Shape(s, v), rows' = Set(rows, s, v),
           lastId \in [Schedules -> 0 .. MaxRuns], lastId' \in [Schedules -> 0 .. MaxRuns],
           v.lastRun <= lastId'[s], \A x \in Schedules : lastId[x] <= lastId'[x],
           Clock', Table(copy'), UNCHANGED <<taken, repeated, skipped, dropped>>
    PROVE  PlaceInv'
<1>1. Table(rows)' /\ LastRuns'
  BY OneRowShape
<1> QED
  BY <1>1 DEF PlaceInv, Histories, Table

LEMMA RunTyped ==
    ASSUME PlaceInv, RunInv, NEW s \in Schedules, NEW id \in active[s], Boundary(s, id),
           NEW v, Shape(s, v), v.lastRun \in {rows[s].lastRun, id}, rows' = Set(rows, s, v),
           UNCHANGED <<now, proc, timer, copy, taken, repeated, skipped, dropped>>
    PROVE  PlaceInv'
<1>1. /\ lastId \in [Schedules -> 0 .. MaxRuns] /\ lastId' \in [Schedules -> 0 .. MaxRuns]
      /\ \A x \in Schedules : lastId[x] <= lastId'[x]
  BY BoundaryMints
<1>2. rows[s].lastRun <= lastId[s] /\ rows[s].lastRun \in Nat
  BY TableRow DEF PlaceInv, LastRuns
<1>3. id <= lastId[s] /\ id \in Nat
  BY Bounds DEF RunInv, Minted, RunType, RunIds
<1>4. lastId[s] \in Nat /\ lastId'[s] \in Nat /\ lastId[s] <= lastId'[s]
  BY <1>1, Bounds
<1>5. v.lastRun <= lastId'[s]
  BY <1>2, <1>3, <1>4
<1>6. Clock' /\ Table(copy')
  BY DEF PlaceInv, Clock
<1> QED
  BY <1>1, <1>5, <1>6, OneRowTyped

\* A write outside a run names no new run.
LEMMA WriterTyped ==
    ASSUME PlaceInv, RunInv, NEW s \in Schedules, NEW v, Shape(s, v), v.lastRun \in {0, rows[s].lastRun},
           rows' = Set(rows, s, v), Clock', Table(copy'),
           UNCHANGED <<lastId, taken, repeated, skipped, dropped>>
    PROVE  PlaceInv'
<1>1. lastId \in [Schedules -> 0 .. MaxRuns]
  BY DEF RunInv, RunType
<1>2. \A x \in Schedules : lastId[x] \in Nat /\ lastId[x] <= lastId[x]
  BY <1>1, Bounds
<1>3. rows[s].lastRun <= lastId[s]
  BY DEF PlaceInv, LastRuns
<1>4. v.lastRun <= lastId'[s]
  BY <1>2, <1>3
<1> QED
  BY <1>1, <1>2, <1>4, OneRowTyped

LEMMA PlaceStep == PlaceInv /\ RunInv /\ [Next]_vars => PlaceInv'
<1> SUFFICES ASSUME PlaceInv, RunInv, [Next]_vars PROVE PlaceInv'
  OBVIOUS
<1> USE DEF memory, history, places, fates, causes, outcomes
<1>0. /\ Clock /\ Table(rows) /\ Table(copy) /\ Histories /\ LastRuns
      /\ now \in 1 .. MaxTime /\ now \in Nat
  BY Bounds DEF PlaceInv, Clock
<1>1. CASE Boot
  BY <1>1, BootTyped
<1>2. CASE Wake
  BY <1>2, WakeTyped
<1>3. CASE Stop \/ Exit \/ Crash \/ Tick \/ UNCHANGED vars
  <2>1. UNCHANGED <<rows, copy, lastId, taken, repeated, skipped, dropped>>
    BY <1>3 DEF Stop, Exit, Crash, Tick, vars
  <2>2. Clock'
    BY <1>0, <1>3, Bounds DEF Stop, Exit, Crash, Tick, Ends, Clock, vars
  <2> QED
    BY <1>0, <2>1, <2>2 DEF PlaceInv, Table, Histories, LastRuns
<1>4. ASSUME NEW s \in Schedules, NEW M \in SUBSET Schedules, CrashInWake(M, s) PROVE PlaceInv'
  <2>1. /\ Table(rows') /\ \A x \in Schedules : rows'[x].lastRun = rows[x].lastRun
        /\ taken' \in TimeSets /\ repeated' \in TimeSets /\ dropped' \in TimeSets
    BY <1>4, AdvanceTyped DEF CrashInWake
  <2>2. Clock' /\ UNCHANGED <<copy, skipped, lastId>>
    BY <1>0, <1>4 DEF CrashInWake, Ends, Clock
  <2> QED
    BY <1>0, <2>1, <2>2 DEF PlaceInv, Table, Histories, LastRuns
\* A write of the API arms the timer again.
<1>5. ASSUME NEW r, Table(r), proc' = proc, now' = now, Changed(r) PROVE Clock'
  <2>1. \A s \in Schedules : r[s].next \in Nat
    BY <1>5, TableRow
  <2>2. Arm(r) \in Nat
    BY <1>0, <2>1, Armed
  <2> QED
    BY <1>0, <1>5, <2>2 DEF Changed, Clock
<1>6. ASSUME NEW s \in Schedules, NEW e \in BOOLEAN, Write(s, e) PROVE PlaceInv'
  <2>1. rows[s] \in Row /\ GoodPlace(s, Fresh(s))
    BY <1>0, TableRow, FreshIsGood
  <2>2. PICK v : v = Upsert(rows[s], Fresh(s), e, "api")
    OBVIOUS
  <2>3. Shape(s, v) /\ SameRun(v, rows[s])
    BY <2>1, <2>2, UpsertShape
  <2>4. rows' = Set(rows, s, v)
    BY <1>6, <2>2 DEF Write
  <2>5. Table(rows')
    BY <1>0, <2>3, <2>4, TableSet
  <2>6. Clock'
    BY <1>5, <1>6, <2>5 DEF Write
  <2>7. Table(copy') /\ UNCHANGED <<lastId, taken, repeated, skipped, dropped>>
    BY <1>0, <1>6 DEF Write
  <2> QED
    BY <2>3, <2>4, <2>6, <2>7, WriterTyped DEF SameRun
<1>7. ASSUME NEW s \in Schedules, NEW e \in BOOLEAN, SetEnabled(s, e) PROVE PlaceInv'
  <2>1. rows[s] \in Row /\ rows[s].here /\ GoodPlace(s, rows[s])
    BY <1>0, <1>7, TableRow DEF SetEnabled, MayChange
  <2>2. PICK v : v = [rows[s] EXCEPT !.enabled = e]
    OBVIOUS
  <2>3. /\ v \in Row /\ v.here = rows[s].here /\ v.anchor = rows[s].anchor /\ v.next = rows[s].next
        /\ v.lastRun = rows[s].lastRun
    BY <2>1, <2>2 DEF Row
  <2>4. Shape(s, v)
    BY <2>1, <2>3 DEF Shape, GoodPlace
  <2>5. /\ rows' = Set(rows, s, v) /\ Clock' /\ Table(copy')
        /\ UNCHANGED <<lastId, taken, repeated, skipped, dropped>>
    BY <1>0, <1>7, <2>2 DEF SetEnabled, Clock
  <2> QED
    BY <2>3, <2>4, <2>5, WriterTyped
<1>8. ASSUME NEW s \in Schedules, Remove(s) PROVE PlaceInv'
  <2>1. Shape(s, NoRow) /\ NoRow.lastRun = 0
    BY NoRowShape, NoRowIsRow
  <2>2. rows' = Set(rows, s, NoRow)
    BY <1>8 DEF Remove
  <2>3. Table(rows')
    BY <1>0, <2>1, <2>2, TableSet
  <2>4. Clock'
    BY <1>5, <1>8, <2>3 DEF Remove
  <2>5. Table(copy') /\ UNCHANGED <<lastId, taken, repeated, skipped, dropped>>
    BY <1>0, <1>8 DEF Remove
  <2> QED
    BY <2>1, <2>2, <2>4, <2>5, WriterTyped
<1>9. ASSUME NEW s \in Schedules, StrangerReads(s) PROVE PlaceInv'
  <2>1. copy' = Set(copy, s, rows[s]) /\ UNCHANGED <<now, rows, proc, timer, lastId>>
        /\ UNCHANGED <<taken, repeated, skipped, dropped>>
    BY <1>9 DEF StrangerReads
  <2>2. Table(copy')
    BY <1>0, <2>1, TableRow, TableSet
  <2> QED
    BY <1>0, <2>1, <2>2 DEF PlaceInv, Clock, Table, LastRuns, Histories
<1>10. ASSUME NEW s \in Schedules, StrangerWrites(s) PROVE PlaceInv'
  <2>1. rows[s] \in Row /\ GoodPlace(s, copy[s])
    BY <1>0, <1>10, TableRow DEF StrangerWrites
  <2>2. PICK v : v = Upsert(rows[s], copy[s], TRUE, "manifest")
    OBVIOUS
  <2>3. Shape(s, v) /\ SameRun(v, rows[s])
    BY <2>1, <2>2, UpsertShape
  <2>4. /\ rows' = Set(rows, s, v) /\ Clock' /\ copy' = Set(copy, s, NoRow)
        /\ UNCHANGED <<lastId, taken, repeated, skipped, dropped>>
    BY <1>0, <1>10, <2>2 DEF StrangerWrites, Clock
  <2>5. Table(copy')
    BY <1>0, <2>4, NoRowShape, TableSet
  <2> QED
    BY <2>3, <2>4, <2>5, WriterTyped DEF SameRun
<1>11. ASSUME NEW s \in Schedules, NEW id \in RunIds, NEW v \in {"ok", "error"}, NEW r,
              Shape(s, r), r.lastRun = rows[s].lastRun, id \in active[s],
              rows' = Set(rows, s, Record(r, id, v)), Boundary(s, id),
              UNCHANGED <<now, proc, timer, copy, taken, repeated, skipped, dropped>>
       PROVE  PlaceInv'
  <2>1. PICK q : q = Record(r, id, v)
    OBVIOUS
  <2>2. Shape(s, q) /\ q.lastRun \in {rows[s].lastRun, id}
    BY <1>11, <2>1, RecordShape
  <2> QED
    BY <1>11, <2>1, <2>2, RunTyped
<1>12. ASSUME NEW s \in Schedules, NEW id \in RunIds, RunFails(s, id) PROVE PlaceInv'
  BY <1>0, <1>11, <1>12, TableRow DEF RunFails
<1>13. ASSUME NEW s \in Schedules, NEW id \in RunIds, RunSucceeds(s, id) PROVE PlaceInv'
  BY <1>0, <1>11, <1>13, TableRow DEF RunSucceeds
<1>14. ASSUME NEW s \in Schedules, NEW id \in RunIds, RunUndelivered(s, id) PROVE PlaceInv'
  <2>1. PICK r : r = MarkDeliveryFailed(rows[s], id)
    OBVIOUS
  <2>2. Shape(s, r) /\ r.lastRun = rows[s].lastRun
    BY <1>0, <2>1, MarkShape, TableRow
  <2> QED
    BY <1>11, <1>14, <2>1, <2>2 DEF RunUndelivered
<1>15. ASSUME NEW s \in Schedules, NEW id \in RunIds, DeliveryFails(s, id) PROVE PlaceInv'
  <2>1. PICK v : v = MarkDeliveryFailed(rows[s], id)
    OBVIOUS
  <2>2. Shape(s, v) /\ v.lastRun = rows[s].lastRun
    BY <1>0, <2>1, MarkShape, TableRow
  <2>3. /\ rows' = Set(rows, s, v) /\ Clock' /\ Table(copy')
        /\ UNCHANGED <<lastId, taken, repeated, skipped, dropped>>
    BY <1>0, <1>15, <2>1 DEF DeliveryFails, Clock
  <2> QED
    BY <2>2, <2>3, WriterTyped
<1>16. ASSUME NEW s \in Schedules, NEW id \in RunIds, Delivered(s, id) PROVE PlaceInv'
  BY <1>0, <1>16 DEF Delivered, PlaceInv, Clock, Table, LastRuns, Histories
<1> QED
  BY <1>1, <1>2, <1>3, <1>4, <1>6, <1>7, <1>8, <1>9, <1>10, <1>12, <1>13, <1>14, <1>15, <1>16
  DEF Next, WriterStep, RunStep, OutboxStep

LEMMA PlaceInit == Init => PlaceInv
<1> SUFFICES ASSUME Init PROVE PlaceInv
  OBVIOUS
<1>1. Clock
  BY Bounds DEF Init, Clock
<1>2. Table(rows) /\ Table(copy)
  BY NoRowShape DEF Init, Table
<1>3. LastRuns
  BY NoRowIsRow DEF Init, LastRuns
<1>4. Histories
  BY DEF Init, Histories, TimeSets
<1> QED
  BY <1>1, <1>2, <1>3, <1>4 DEF PlaceInv

LEMMA PlaceAlways == Spec => []PlaceInv
  BY PlaceInit, PlaceStep, RunInvInit, RunInvStep, PTL DEF Spec

------------------------------------------------------------------------------
(* What becomes of what a wake took *)

\* The fates are sets of times, and the causes what they should be.
FateSets ==
    /\ begun \in TimeSets /\ held \in TimeSets /\ lost \in TimeSets
    /\ edited \subseteq Schedules /\ overslept \in BOOLEAN

KeptInv == FateSets /\ TakenRuns

\* Steps that leave the taken occurrences and their fates alone.
LEMMA KeptQuiet ==
    ASSUME KeptInv, UNCHANGED <<taken, begun, held, lost, inflight>>,
           edited' \subseteq Schedules, overslept' \in BOOLEAN
    PROVE  KeptInv'
  BY DEF KeptInv, FateSets, TakenRuns

\* A wake begins or holds what it takes.
LEMMA KeptWake == ASSUME PlaceInv, KeptInv, Wake PROVE KeptInv'
<1>0. \A s \in Schedules : Occurring(s) \in SUBSET Times
  BY TableRow DEF PlaceInv, Occurring
<1>1. UNCHANGED <<lost, edited, overslept>>
  BY DEF Wake, causes
<1>2. /\ taken' = [s \in Schedules |-> taken[s] \cup IF s \in AllDue THEN Occurring(s) ELSE {}]
      /\ begun' = [s \in Schedules |-> begun[s] \cup Starting(s)]
      /\ held' = [s \in Schedules |-> held[s] \cup Waiting(s)]
      /\ inflight' = [s \in Schedules |->
                      IF WillRun(s) THEN "running" ELSE IF Due(s) THEN "deferred" ELSE inflight[s]]
  BY DEF Wake, Advance
<1>3. ASSUME NEW s \in Schedules
      PROVE  /\ Starting(s) \in SUBSET Times /\ Waiting(s) \in SUBSET Times
             /\ Occurring(s) \subseteq Starting(s) \cup Waiting(s)
             /\ Waiting(s) # {} => Due(s) /\ ~WillRun(s)
  BY <1>0 DEF Starting, Waiting, Occurring
<1>4. FateSets'
  BY <1>1, <1>2, <1>3 DEF KeptInv, FateSets, TimeSets
<1>5. ASSUME NEW s \in Schedules
      PROVE  /\ taken'[s] \subseteq begun'[s] \cup held'[s] \cup lost'[s]
             /\ held'[s] # {} => inflight'[s] = "deferred"
  <2>1. /\ taken[s] \subseteq begun[s] \cup held[s] \cup lost[s]
        /\ held[s] # {} => inflight[s] = "deferred"
    BY DEF KeptInv, TakenRuns
  <2>2. taken'[s] \subseteq taken[s] \cup Occurring(s)
    BY <1>2
  <2>3. begun'[s] = begun[s] \cup Starting(s) /\ held'[s] = held[s] \cup Waiting(s) /\ lost'[s] = lost[s]
    BY <1>1, <1>2
  <2>4. held'[s] # {} => inflight'[s] = "deferred"
    BY <1>2, <1>3, <2>1, <2>3 DEF WillRun
  <2> QED
    BY <1>3, <2>1, <2>2, <2>3, <2>4
<1> QED
  BY <1>4, <1>5 DEF KeptInv, TakenRuns

\* The end of a run begins what was held, or loses it.
LEMMA KeptBoundary ==
    ASSUME KeptInv, RunInv, NEW s \in Schedules, NEW id, Boundary(s, id),
           UNCHANGED <<taken, edited, overslept>>
    PROVE  KeptInv'
<1> DEFINE again == inflight[s] = "deferred" /\ proc = "up" /\ rows[s].here /\ rows[s].enabled
<1>1. /\ begun' = [begun EXCEPT ![s] = begun[s] \cup IF again THEN held[s] ELSE {}]
      /\ lost' = [lost EXCEPT ![s] = lost[s] \cup IF again THEN {} ELSE held[s]]
      /\ held' = [held EXCEPT ![s] = {}]
      /\ inflight' = [inflight EXCEPT ![s] = IF again THEN "running" ELSE "none"]
  BY DEF Boundary, Set
<1> HIDE DEF again
<1>2. begun \in TimeSets /\ held \in TimeSets /\ lost \in TimeSets
  BY DEF KeptInv, FateSets
<1>3. FateSets'
  BY <1>1, <1>2 DEF KeptInv, FateSets, TimeSets
<1>4. ASSUME NEW x \in Schedules
      PROVE  /\ taken'[x] \subseteq begun'[x] \cup held'[x] \cup lost'[x]
             /\ held'[x] # {} => inflight'[x] = "deferred"
  <2>1. /\ taken[x] \subseteq begun[x] \cup held[x] \cup lost[x]
        /\ held[x] # {} => inflight[x] = "deferred"
    BY DEF KeptInv, TakenRuns
  <2>2. CASE x = s
    <3>1. held'[s] = {} /\ begun'[s] \cup lost'[s] = begun[s] \cup lost[s] \cup held[s]
      BY <1>1, <1>2 DEF TimeSets
    <3> QED
      BY <2>1, <2>2, <3>1
  <2>3. CASE x # s
    <3>1. begun'[x] = begun[x] /\ held'[x] = held[x] /\ lost'[x] = lost[x]
      BY <1>1, <1>2, <2>3 DEF TimeSets
    <3>2. inflight'[x] = inflight[x]
      BY <1>1, <2>3 DEF RunInv, RunType
    <3> QED
      BY <2>1, <3>1, <3>2
  <2> QED
    BY <2>2, <2>3
<1> QED
  BY <1>3, <1>4 DEF KeptInv, TakenRuns

\* The process ends: what was held is lost, and so is what it was about to run.
LEMMA KeptEnds ==
    ASSUME KeptInv, NEW more \in TimeSets, Ends(more), begun' \in TimeSets,
           UNCHANGED <<edited, overslept>>,
           \A s \in Schedules : /\ begun[s] \subseteq begun'[s]
                                /\ taken'[s] \subseteq taken[s] \cup begun'[s] \cup more[s]
    PROVE  KeptInv'
<1>1. /\ lost' = [s \in Schedules |-> lost[s] \cup held[s] \cup more[s]]
      /\ held' = [s \in Schedules |-> {}]
  BY DEF Ends
<1>2. FateSets'
  BY <1>1 DEF KeptInv, FateSets, TimeSets
<1>3. ASSUME NEW s \in Schedules PROVE taken'[s] \subseteq begun'[s] \cup held'[s] \cup lost'[s]
  BY <1>1 DEF KeptInv, TakenRuns
<1> QED
  BY <1>1, <1>2, <1>3 DEF KeptInv, TakenRuns

LEMMA KeptStep == PlaceInv /\ RunInv /\ KeptInv /\ [Next]_vars => KeptInv'
<1> SUFFICES ASSUME PlaceInv, RunInv, KeptInv, [Next]_vars PROVE KeptInv'
  OBVIOUS
<1> USE DEF memory, history, places, fates, causes, outcomes
<1>0. edited \subseteq Schedules /\ overslept \in BOOLEAN /\ begun \in TimeSets
  BY DEF KeptInv, FateSets
<1>1. CASE Boot \/ Stop \/ UNCHANGED vars
  BY <1>0, <1>1, KeptQuiet DEF Boot, Stop, vars
<1>2. CASE Wake
  BY <1>2, KeptWake
<1>3. CASE Tick
  <2>1. overslept' \in BOOLEAN
    BY <1>0, <1>3 DEF Tick
  <2> QED
    BY <1>0, <1>3, <2>1, KeptQuiet DEF Tick
<1>4. CASE Exit \/ Crash
  <2>1. Nothing \in TimeSets
    BY DEF Nothing, TimeSets
  <2>2. Ends(Nothing) /\ UNCHANGED <<taken, begun, edited, overslept>>
    BY <1>4 DEF Exit, Crash
  <2> QED
    BY <1>0, <2>1, <2>2, KeptEnds
<1>5. ASSUME NEW s \in Schedules, NEW M \in SUBSET Schedules, CrashInWake(M, s) PROVE KeptInv'
  <2>0. \A x \in Schedules : Occurring(x) \in SUBSET Times
    BY TableRow DEF PlaceInv, Occurring
  <2>1. \A x \in Schedules : /\ Starting(x) \in SUBSET Times /\ Waiting(x) \in SUBSET Times
                             /\ Occurring(x) \subseteq Starting(x) \cup Waiting(x)
    BY <2>0 DEF Starting, Waiting
  <2>2. PICK more : more = [x \in Schedules |-> CASE x = s -> Occurring(s)
                                                  [] x \in M \ {s} -> Waiting(x)
                                                  [] OTHER -> {}]
    OBVIOUS
  <2>3. ASSUME NEW x \in Schedules
        PROVE  /\ x = s => more[x] = Occurring(x)
               /\ x \in M \ {s} => more[x] = Waiting(x)
               /\ x \notin M /\ x # s => more[x] = {}
    BY <2>2
  <2>4. more \in TimeSets
    <3>1. \A x \in Schedules : more[x] \in SUBSET Times
      BY <2>0, <2>1, <2>3
    <3> QED
      BY <2>2, <3>1 DEF TimeSets
  <2>5. /\ Ends(more) /\ UNCHANGED <<edited, overslept>>
        /\ begun' = [x \in Schedules |-> begun[x] \cup IF x \in M \ {s} THEN Starting(x) ELSE {}]
        /\ taken' = [x \in Schedules |-> taken[x] \cup IF x \in M THEN Occurring(x) ELSE {}]
    BY <1>5, <2>2 DEF CrashInWake, Advance
  <2>6. begun' \in TimeSets
    BY <1>0, <2>1, <2>5 DEF TimeSets
  <2>7. ASSUME NEW x \in Schedules
        PROVE  /\ begun[x] \subseteq begun'[x]
               /\ taken'[x] \subseteq taken[x] \cup begun'[x] \cup more[x]
    <3>1. CASE x = s
      BY <2>3, <2>5, <3>1
    <3>2. CASE x \in M \ {s}
      BY <2>1, <2>3, <2>5, <3>2
    <3>3. CASE x \notin M /\ x # s
      BY <2>5, <3>3
    <3> QED
      BY <3>1, <3>2, <3>3
  <2> QED
    BY <2>4, <2>5, <2>6, <2>7, KeptEnds
<1>6. ASSUME NEW s \in Schedules, WriterStep(s) PROVE KeptInv'
  <2>1. UNCHANGED <<taken, begun, held, lost, inflight, overslept>> /\ edited' \subseteq Schedules
    BY <1>0, <1>6 DEF WriterStep, Write, SetEnabled, Remove, StrangerReads, StrangerWrites
  <2> QED
    BY <1>0, <2>1, KeptQuiet
<1>7. ASSUME NEW s \in Schedules, NEW id \in RunIds, RunStep(s, id) PROVE KeptInv'
  <2>1. Boundary(s, id) /\ UNCHANGED <<taken, edited, overslept>>
    BY <1>7 DEF RunStep, RunFails, RunSucceeds, RunUndelivered
  <2> QED
    BY <2>1, KeptBoundary
<1>8. ASSUME NEW s \in Schedules, NEW id \in RunIds, OutboxStep(s, id) PROVE KeptInv'
  BY <1>0, <1>8, KeptQuiet DEF OutboxStep, DeliveryFails, Delivered
<1> QED
  BY <1>1, <1>2, <1>3, <1>4, <1>5, <1>6, <1>7, <1>8 DEF Next

LEMMA KeptInit == Init => KeptInv
  BY DEF Init, KeptInv, FateSets, TakenRuns, TimeSets

LEMMA KeptAlways == Spec => []KeptInv
  BY KeptInit, KeptStep, PlaceInit, PlaceStep, RunInvInit, RunInvStep, PTL DEF Spec

\* Type correctness, for any schedules, intervals and jitters: every due time decideDue
\* computes is a time within an interval and a jitter of the clock, so that no row is ever
\* given a place that does not exist, whatever boots, wakes, writes or copies a stale row.
THEOREM SchedulerTypeCorrect == Spec => []TypeOK
<1>1. PlaceInv /\ RunInv /\ KeptInv => TypeOK
  <2> SUFFICES ASSUME PlaceInv, RunInv, KeptInv PROVE TypeOK
    OBVIOUS
  <2>1. rows \in [Schedules -> Row] /\ copy \in [Schedules -> Row]
    BY TableRow DEF PlaceInv, Table, Shape
  <2>2. \A s \in Schedules : /\ taken[s] \cup repeated[s] \cup skipped[s] \cup dropped[s] \subseteq Times
                             /\ begun[s] \cup held[s] \cup lost[s] \subseteq Times
    BY DEF PlaceInv, Histories, TimeSets, KeptInv, FateSets
  <2> QED
    BY <2>1, <2>2 DEF PlaceInv, Clock, LastRuns, RunInv, RunType, TypeOK, KeptInv, FateSets
<1> QED
  BY <1>1, PlaceAlways, KeptAlways, RunInvInit, RunInvStep, PTL DEF Spec

------------------------------------------------------------------------------
(* One fate for every occurrence *)

\* What was taken or reported lies before the pending occurrence q, and is apart.
Fate(s, q, tk, sk) ==
    /\ ~q.here => tk = {} /\ sk = {}
    /\ Recurring(s) => tk \cap sk = {} /\ \A o \in tk \cup sk : o < q.anchor
    /\ KindOf[s] = "at" /\ q.next # 0 => tk = {}

Ordered ==
    \A s \in Schedules \ edited : Fate(s, rows[s], taken[s], skipped[s]) /\ repeated[s] = {}

\* Until the machine sleeps through it, the timer of a running process is not late for
\* a row no other writer touched.
Pends(r) == r.here /\ r.enabled /\ r.next # 0

Punctual ==
    proc = "up" /\ ~overslept =>
        /\ timer # 0
        /\ \A s \in Schedules \ edited : Pends(rows[s]) => rows[s].next >= now /\ timer <= rows[s].next

FateInv == edited \subseteq Schedules /\ overslept \in BOOLEAN /\ Ordered /\ NoSilentDrop /\ Punctual

LEMMA LaterOccurrences ==
    ASSUME NEW s \in Schedules, NEW from \in Nat, NEW o \in Occurrences(s, from)
    PROVE  o > from /\ o \in Nat
  BY Bounds DEF Occurrences, Occurrence, Times

LEMMA KindsApart == \A s \in Schedules : ~(KindOf[s] = "at" /\ Recurring(s))
  BY DEF Recurring

\* The due time after a wake or a boot is not before the present.
LEMMA AtDecided ==
    ASSUME NEW s \in Schedules, KindOf[s] = "at", NEW from, NEW t \in Nat
    PROVE  /\ DecideDue(s, from, t, TRUE).next = 0
           /\ DecideDue(s, from, t, FALSE).next >= t
<1>1. DecideDue(s, from, t, TRUE) = [anchor |-> from, next |-> 0]
  BY DEF DecideDue
<1>2. PICK n : n = IF AtTime <= t THEN t ELSE AtTime
  OBVIOUS
<1>3. n >= t
  <2>1. AtTime \in Nat
    BY Bounds
  <2> QED
    BY <1>2, <2>1
<1>4. DecideDue(s, from, t, FALSE) = [anchor |-> AtTime, next |-> n]
  BY <1>2 DEF DecideDue
<1>5. [anchor |-> from, next |-> 0].next = 0 /\ [anchor |-> AtTime, next |-> n].next = n
  OBVIOUS
<1> QED
  BY <1>1, <1>3, <1>4, <1>5, Zenon

\* A row that a wake takes: its occurrence is new and it goes on to a later one, to the very
\* next when it is taken at its moment.
LEMMA TakeIsNew ==
    ASSUME PlaceInv, NEW s \in Schedules, Due(s), Fate(s, rows[s], taken[s], skipped[s])
    PROVE  /\ taken[s] \cap Occurring(s) = {}
           /\ Fate(s, MoveOn(s), taken[s] \cup Occurring(s), skipped[s])
           /\ MoveOn(s).next # 0 => MoveOn(s).next >= now
           /\ rows[s].next = now => Passed(s, rows[s], MoveOn(s).anchor) \ {rows[s].anchor} = {}
<1>0. Table(rows) /\ now \in 1 .. MaxTime /\ now \in Nat
  BY Bounds DEF PlaceInv, Clock
<1>1. /\ rows[s].here /\ rows[s].next # 0 /\ rows[s].next <= now
      /\ rows[s].next \in Nat /\ rows[s].anchor \in Nat /\ GoodPlace(s, rows[s])
  BY <1>0, TableRow DEF Due
<1> DEFINE a == rows[s].anchor
           f == DecideDue(s, a, now, TRUE)
           m == MoveOn(s)
<1>3. m.here = TRUE /\ m.anchor = f.anchor /\ m.next = f.next /\ (Recurring(s) => a <= now)
  BY MoveOnShape
<1>5. Occurring(s) = {a}
  BY DEF Occurring
<1>7. CASE KindOf[s] = "at"
  <2>1. taken[s] = {}
    BY <1>1, <1>7 DEF Fate
  <2>2. Passed(s, rows[s], m.anchor) = {}
    BY <1>7 DEF Passed
  <2>3. m.next = 0
    BY <1>0, <1>3, <1>7, AtDecided
  <2>4. ~Recurring(s)
    BY <1>7, KindsApart
  <2> HIDE DEF m
  <2>5. Fate(s, m, taken[s] \cup Occurring(s), skipped[s])
    BY <1>3, <2>3, <2>4 DEF Fate
  <2> QED
    BY <2>1, <2>2, <2>3, <2>5 DEF m
<1>8. CASE Recurring(s)
  <2>1. rows[s].next = now => now = a + Jitter
    BY <1>1, <1>8 DEF GoodPlace
  <2>2. /\ f.anchor \in Occurrences(s, a) /\ f.next > now
        /\ now = a + Jitter => \A o \in Occurrences(s, a) : f.anchor <= o
    BY <1>0, <1>1, <1>3, <1>8, NextFire
  <2>3. f.anchor > a /\ f.anchor \in Nat
    BY <1>1, <2>2, LaterOccurrences
  <2> HIDE DEF f, m
  <2>4. m.anchor > a /\ m.anchor \in Nat /\ m.next > now /\ m.next \in Nat
    <3>1. Shape(s, m)
      BY MoveOnShape DEF m
    <3>2. m.next \in Nat
      BY <1>3, <3>1, GoodIsTime DEF Shape
    <3> QED
      BY <1>3, <2>2, <2>3, <3>2
  <2>5. taken[s] \cap skipped[s] = {} /\ \A o \in taken[s] \cup skipped[s] : o < a
    BY <1>8 DEF Fate
  <2>6. taken[s] \subseteq Nat /\ skipped[s] \subseteq Nat
    BY Bounds DEF PlaceInv, Histories, TimeSets, Times
  <2>7. taken[s] \cap Occurring(s) = {} /\ Occurring(s) \cap skipped[s] = {}
    BY <1>1, <1>5, <2>5, <2>6
  <2>8. \A o \in (taken[s] \cup Occurring(s)) \cup skipped[s] : o < m.anchor
    BY <1>1, <1>5, <2>4, <2>5, <2>6
  <2>9. ASSUME rows[s].next = now PROVE Passed(s, rows[s], m.anchor) \ {a} = {}
    <3>1. Passed(s, rows[s], m.anchor) = {o \in {a} \cup Occurrences(s, a) : o < m.anchor}
      BY <1>8, KindsApart DEF Passed
    <3>2. ASSUME NEW o \in Occurrences(s, a) PROVE ~(o < m.anchor)
      BY <1>1, <1>3, <2>1, <2>2, <2>4, <2>9, LaterOccurrences
    <3> QED
      BY <3>1, <3>2
  <2>10. KindOf[s] # "at" /\ m.next >= now
    BY <1>0, <1>8, <2>4, KindsApart
  <2>11. (taken[s] \cup Occurring(s)) \cap skipped[s] = {}
    BY <2>5, <2>7
  <2>12. Fate(s, m, taken[s] \cup Occurring(s), skipped[s])
    BY <1>3, <2>8, <2>10, <2>11 DEF Fate
  <2> QED
    BY <2>7, <2>9, <2>10, <2>12 DEF m
<1> QED
  BY <1>7, <1>8, Kinds

\* What a boot makes of a row, and what it reports: everything up to the new place.
LEMMA BootFate ==
    ASSUME PlaceInv, NEW s \in Schedules, Fate(s, rows[s], taken[s], skipped[s]),
           NEW r, r = Reconciled(s), NEW q, q = Recomputed(s, r)
    PROVE  /\ Fate(s, q, taken[s], skipped[s] \cup Reported(s, r))
           /\ q.here /\ q.next # 0 => q.next >= now
           /\ r.enabled => Passed(s, r, q.anchor) \ Reported(s, r) = {}
<1>0. Table(rows) /\ now \in 1 .. MaxTime /\ now \in Nat
  BY Bounds DEF PlaceInv, Clock
<1>1. /\ rows[s] \in Row /\ Shape(s, rows[s]) /\ rows[s].here \in BOOLEAN
      /\ (rows[s].here => GoodPlace(s, rows[s]))
  BY <1>0, TableRow
<1>2. ~rows[s].here => taken[s] = {} /\ skipped[s] = {}
  BY DEF Fate
<1>3. Shape(s, r)
  BY <1>0, ReconciledShape
\* Reconciliation: the row stays where it was, or is new.
<1>4. /\ ~r.here => ~rows[s].here
      /\ rows[s].here => r.anchor = rows[s].anchor /\ r.next = rows[s].next
  <2>1. CASE s \in Manifest
    <3>1. PICK p : p = IF rows[s].here THEN rows[s] ELSE Fresh(s)
      OBVIOUS
    <3>2. GoodPlace(s, p)
      BY <1>0, <1>1, <3>1, FreshIsGood
    <3>3. r = Upsert(rows[s], p, TRUE, "manifest")
      BY <2>1, <3>1 DEF Reconciled
    <3>4. SamePlace(r, p) /\ Listed(r, TRUE, "manifest")
      BY <1>1, <3>2, <3>3, UpsertShape
    <3> QED
      BY <3>1, <3>4 DEF SamePlace, Listed
  <2>2. CASE s \notin Manifest
    <3>1. r = rows[s]
      BY <2>2 DEF Reconciled
    <3> QED
      BY <3>1
  <2> QED
    BY <2>1, <2>2
<1>5. /\ r \in Row /\ r.here \in BOOLEAN /\ r.enabled \in BOOLEAN
      /\ (r.here => GoodPlace(s, r)) /\ (~r.here => r = NoRow)
  BY <1>3 DEF Shape, Row
<1>6. r.anchor \in Nat /\ r.next \in Nat
  BY <1>5, Bounds DEF Row, Times
<1>7. taken[s] \subseteq Nat /\ skipped[s] \subseteq Nat
  BY Bounds DEF PlaceInv, Histories, TimeSets, Times
<1>8. Fate(s, r, taken[s], skipped[s])
  <2>1. CASE rows[s].here
    BY <1>4, <2>1 DEF Fate
  <2>2. CASE ~rows[s].here
    BY <1>2, <2>2 DEF Fate
  <2> QED
    BY <2>1, <2>2
<1>9. /\ ~r.here => taken[s] = {} /\ skipped[s] = {}
      /\ Recurring(s) => taken[s] \cap skipped[s] = {} /\ \A o \in taken[s] \cup skipped[s] : o < r.anchor
      /\ KindOf[s] = "at" /\ r.next # 0 => taken[s] = {}
  BY <1>8 DEF Fate
<1>10. CASE ~Overdue(r)
  <2>1. q = r
    BY <1>10 DEF Recomputed
  <2>2. Reported(s, r) = {}
    BY <1>10 DEF Reported
  <2>3. r.here /\ r.next # 0 => r.next >= now
    BY <1>0, <1>6, <1>10 DEF Overdue
  <2>4. Passed(s, r, r.anchor) = {}
    <3>1. CASE KindOf[s] = "at"
      BY <3>1 DEF Passed
    <3>2. CASE Recurring(s)
      <4>1. Passed(s, r, r.anchor) = {o \in {r.anchor} \cup Occurrences(s, r.anchor) : o < r.anchor}
        BY <3>2, KindsApart DEF Passed
      <4>2. ASSUME NEW o \in {r.anchor} \cup Occurrences(s, r.anchor) PROVE ~(o < r.anchor)
        BY <1>6, LaterOccurrences
      <4> QED
        BY <4>1, <4>2
    <3> QED
      BY <3>1, <3>2, Kinds
  <2>5. skipped[s] \cup Reported(s, r) = skipped[s]
    BY <2>2
  <2> QED
    BY <1>8, <2>1, <2>3, <2>4, <2>5
<1>11. CASE Overdue(r)
  <2>1. r.here /\ r.next # 0 /\ r.next <= now
    BY <1>11 DEF Overdue
  <2> DEFINE f == DecideDue(s, r.anchor, now, FALSE)
  <2>4. /\ q.here = TRUE /\ q.anchor = f.anchor /\ q.next = f.next
        /\ (Recurring(s) => r.anchor <= now)
    BY <1>0, <1>3, <1>11, RecomputedShape
  <2>6. /\ r.enabled => Reported(s, r) = {r.anchor} \cup Passed(s, r, q.anchor)
        /\ ~r.enabled => Reported(s, r) = {}
    BY <1>11 DEF Reported
  <2>7. r.enabled => Passed(s, r, q.anchor) \ Reported(s, r) = {}
    BY <2>6
  <2>8. CASE KindOf[s] = "at"
    <3>1. q.next >= now
      BY <1>0, <2>4, <2>8, AtDecided
    <3>2. ~Recurring(s) /\ taken[s] = {}
      BY <1>9, <2>1, <2>8, KindsApart
    <3>3. Fate(s, q, taken[s], skipped[s] \cup Reported(s, r))
      BY <2>4, <3>2 DEF Fate
    <3> QED
      BY <2>7, <3>1, <3>3
  <2>9. CASE Recurring(s)
    <3>1. f.anchor \in Occurrences(s, r.anchor) /\ f.next > now /\ f.next = f.anchor + Jitter
      <4>1. r.anchor <= now
        BY <2>4, <2>9
      <4>2. PICK a \in Nat : a = r.anchor
        BY <1>6
      <4>3. \A c : LET d == DecideDue(s, a, now, c)
                   IN  d.anchor \in Occurrences(s, a) /\ d.next = d.anchor + Jitter /\ d.next > now
        BY <1>0, <2>9, <4>1, <4>2, NextFire
      <4> QED
        BY <4>2, <4>3
    <3> HIDE DEF f
    <3>2. f.anchor > r.anchor /\ f.anchor \in Nat
      BY <1>6, <3>1, LaterOccurrences
    <3>3. q.anchor > r.anchor /\ q.anchor \in Nat /\ q.next > now /\ q.next \in Nat
      BY <2>4, <3>1, <3>2, Bounds
    <3>4. \A o \in Reported(s, r) : o < q.anchor /\ o >= r.anchor /\ o \in Nat
      <4>1. Passed(s, r, q.anchor) = {o \in {r.anchor} \cup Occurrences(s, r.anchor) : o < q.anchor}
        BY <2>9, KindsApart DEF Passed
      <4>2. \A o \in Occurrences(s, r.anchor) : o > r.anchor /\ o \in Nat
        BY <1>6, LaterOccurrences
      <4>3. \A o \in {r.anchor} \cup Passed(s, r, q.anchor) : o < q.anchor /\ o >= r.anchor /\ o \in Nat
        BY <1>6, <3>3, <4>1, <4>2
      <4> QED
        BY <1>5, <2>6, <4>3
    <3>5. \A o \in taken[s] \cup (skipped[s] \cup Reported(s, r)) : o < q.anchor
      BY <1>6, <1>7, <1>9, <2>9, <3>3, <3>4
    <3>6. taken[s] \cap Reported(s, r) = {}
      BY <1>6, <1>7, <1>9, <2>9, <3>4
    <3>7. KindOf[s] # "at" /\ q.next >= now
      BY <1>0, <2>9, <3>3, KindsApart
    <3>8. taken[s] \cap (skipped[s] \cup Reported(s, r)) = {}
      BY <1>9, <2>9, <3>6
    <3>9. Fate(s, q, taken[s], skipped[s] \cup Reported(s, r))
      BY <2>4, <3>5, <3>7, <3>8 DEF Fate
    <3> QED
      BY <2>7, <3>7, <3>9
  <2> QED
    BY <2>8, <2>9, Kinds
<1> QED
  BY <1>10, <1>11

\* A timer that is armed is set, and not after a row's due time.
LEMMA ArmedInTime ==
    ASSUME PlaceInv, NEW r, Table(r)
    PROVE  Arm(r) # 0 /\ \A s \in Schedules : Pends(r[s]) => Arm(r) <= r[s].next
<1>1. now \in Nat /\ now >= 1 /\ \A s \in Schedules : r[s].next \in Nat
  BY TableRow, Bounds DEF PlaceInv, Clock
<1>2. /\ \A s \in Schedules : r[s].here /\ r[s].enabled /\ r[s].next # 0 => Arm(r) <= r[s].next
      /\ \/ Arm(r) = now + Horizon
         \/ \E s \in Schedules : r[s].here /\ r[s].enabled /\ r[s].next # 0 /\ Arm(r) = r[s].next
  BY <1>1, Armed
<1>3. now + Horizon # 0
  BY <1>1, Bounds
<1> QED
  BY <1>2, <1>3 DEF Pends

LEMMA BootsTrue == ASSUME PlaceInv, RunInv, FateInv, Boot PROVE FateInv'
<1>1. PlaceInv'
  BY BootTyped
<1>2. /\ rows' = [s \in Schedules |-> Recomputed(s, Reconciled(s))]
      /\ skipped' = [s \in Schedules |-> skipped[s] \cup Reported(s, Reconciled(s))]
      /\ dropped' = [s \in Schedules |->
                dropped[s] \cup IF Reconciled(s).enabled
                                THEN Passed(s, Reconciled(s), rows'[s].anchor)
                                       \ Reported(s, Reconciled(s)) ELSE {}]
      /\ timer' = Arm(rows') /\ UNCHANGED <<now, taken, repeated, edited, overslept>>
  BY DEF Boot, causes
<1>3. ASSUME NEW s \in Schedules \ edited
      PROVE  /\ Fate(s, rows'[s], taken'[s], skipped'[s]) /\ repeated'[s] = {}
             /\ overslept \/ dropped'[s] = {}
             /\ rows'[s].here /\ rows'[s].next # 0 => rows'[s].next >= now
  <2>1. PICK r, q : r = Reconciled(s) /\ q = Recomputed(s, r)
    OBVIOUS
  <2>2. /\ rows'[s] = q /\ skipped'[s] = skipped[s] \cup Reported(s, r) /\ taken'[s] = taken[s]
        /\ dropped'[s] = dropped[s] \cup (IF r.enabled THEN Passed(s, r, q.anchor) \ Reported(s, r) ELSE {})
    BY <1>2, <2>1
  <2>3. Fate(s, rows[s], taken[s], skipped[s]) /\ repeated[s] = {} /\ (overslept \/ dropped[s] = {})
    BY DEF FateInv, Ordered, NoSilentDrop
  <2>4. /\ Fate(s, q, taken[s], skipped[s] \cup Reported(s, r))
        /\ q.here /\ q.next # 0 => q.next >= now
        /\ r.enabled => Passed(s, r, q.anchor) \ Reported(s, r) = {}
    BY <2>1, <2>3, BootFate
  <2>5. dropped'[s] = dropped[s]
    BY <2>2, <2>4
  <2> QED
    BY <1>2, <2>2, <2>3, <2>4, <2>5
<1>4. Ordered' /\ NoSilentDrop'
  BY <1>2, <1>3 DEF Ordered, NoSilentDrop
<1>5. Table(rows')
  BY <1>1 DEF PlaceInv, Table
<1>6. Punctual'
  BY <1>2, <1>3, <1>5, ArmedInTime DEF Punctual, Pends
<1> QED
  BY <1>2, <1>4, <1>6 DEF FateInv

\* The rows of a wake, or of the part of it that happened.
LEMMA AdvancesTrue ==
    ASSUME PlaceInv, FateInv, proc = "up", NEW M, M \subseteq AllDue, Advance(M),
           UNCHANGED <<now, skipped, edited, overslept>>
    PROVE  /\ Ordered' /\ NoSilentDrop'
           /\ ~overslept => \A s \in Schedules \ edited : Pends(rows'[s]) => rows'[s].next >= now
<1>0. now \in Nat /\ Table(rows)
  BY Bounds DEF PlaceInv, Clock
<1>1. ASSUME NEW s \in Schedules \ edited
      PROVE  /\ Fate(s, rows'[s], taken'[s], skipped'[s]) /\ repeated'[s] = {}
             /\ overslept \/ dropped'[s] = {}
             /\ ~overslept /\ Pends(rows'[s]) => rows'[s].next >= now
  <2>1. Fate(s, rows[s], taken[s], skipped[s]) /\ repeated[s] = {} /\ (overslept \/ dropped[s] = {})
    BY DEF FateInv, Ordered, NoSilentDrop
  <2>2. ~overslept /\ Pends(rows[s]) => rows[s].next >= now
    BY DEF FateInv, Punctual
  <2>3. CASE s \in M
    <3>1. Due(s)
      BY <2>3 DEF AllDue
    <3>2. PICK q : q = MoveOn(s)
      OBVIOUS
    <3>3. /\ taken[s] \cap Occurring(s) = {}
          /\ Fate(s, q, taken[s] \cup Occurring(s), skipped[s])
          /\ q.next # 0 => q.next >= now
          /\ rows[s].next = now => Passed(s, rows[s], q.anchor) \ {rows[s].anchor} = {}
      BY <2>1, <3>1, <3>2, TakeIsNew
    <3>4. ~overslept => rows[s].next = now
      <4>1. rows[s].next \in Nat
        BY <1>0, TableRow
      <4> QED
        BY <1>0, <2>2, <3>1, <4>1 DEF Due, Pends
    <3>5. /\ rows'[s] = q /\ taken'[s] = taken[s] \cup Occurring(s)
          /\ repeated'[s] = repeated[s] \cup (taken[s] \cap Occurring(s))
          /\ dropped'[s] = dropped[s] \cup (Passed(s, rows[s], q.anchor) \ {rows[s].anchor})
      BY <2>3, <3>2 DEF Advance
    <3>6. repeated'[s] = {} /\ (overslept \/ dropped'[s] = {})
      BY <2>1, <3>3, <3>4, <3>5
    <3> QED
      BY <3>3, <3>5, <3>6 DEF Pends
  <2>4. CASE s \notin M
    <3>1. /\ rows'[s] = rows[s] /\ taken'[s] = taken[s] \cup {} /\ repeated'[s] = repeated[s] \cup {}
          /\ dropped'[s] = dropped[s] \cup {}
      BY <2>4 DEF Advance
    <3>2. taken'[s] = taken[s] /\ repeated'[s] = repeated[s] /\ dropped'[s] = dropped[s]
      BY <3>1
    <3> QED
      BY <2>1, <2>2, <3>1, <3>2
  <2> QED
    BY <2>3, <2>4
<1> QED
  BY <1>1 DEF Ordered, NoSilentDrop

LEMMA WakesTrue == ASSUME PlaceInv, RunInv, FateInv, Wake PROVE FateInv'
<1>1. /\ Advance(AllDue) /\ proc = "up" /\ timer' = Arm(rows')
      /\ UNCHANGED <<now, skipped, edited, overslept>>
  BY DEF Wake, TimerFires, causes
<1>2. /\ Ordered' /\ NoSilentDrop'
      /\ ~overslept => \A s \in Schedules \ edited : Pends(rows'[s]) => rows'[s].next >= now
  BY <1>1, AdvancesTrue
<1>3. Table(rows')
  BY WakeTyped DEF PlaceInv, Table
<1>4. Punctual'
  BY <1>1, <1>2, <1>3, ArmedInTime DEF Punctual
<1> QED
  BY <1>1, <1>2, <1>4 DEF FateInv

\* Killed inside a wake: the rows of M had moved on, and no timer is left.
LEMMA CrashesTrue ==
    ASSUME PlaceInv, FateInv, NEW s \in Schedules, NEW M, CrashInWake(M, s)
    PROVE  FateInv'
<1>1. /\ Advance(M) /\ M \subseteq AllDue /\ proc = "up" /\ proc' = "down"
      /\ UNCHANGED <<now, skipped, edited, overslept>>
  BY DEF CrashInWake, TimerFires, Ends, causes
<1>2. Ordered' /\ NoSilentDrop'
  BY <1>1, AdvancesTrue
<1> QED
  BY <1>1, <1>2 DEF FateInv, Punctual

\* The outcome of a run leaves a row in its place.
Stands(q, r) ==
    /\ q.here = r.here /\ q.enabled = r.enabled /\ q.origin = r.origin
    /\ q.anchor = r.anchor /\ q.next = r.next

LEMMA OutcomeStands ==
    ASSUME NEW r \in Row, NEW id, NEW v
    PROVE  /\ Stands(Record(r, id, v), r)
           /\ Stands(MarkDeliveryFailed(r, id), r)
           /\ Stands(Record(MarkDeliveryFailed(r, id), id, v), r)
<1>1. ASSUME NEW a, DOMAIN a = Fields PROVE Stands(Record(a, id, v), a)
  BY <1>1 DEF Record, Stands, Fields
<1>2. DOMAIN r = Fields
  BY DEF Row, Fields
<1>3. /\ Stands(MarkDeliveryFailed(r, id), r) /\ DOMAIN MarkDeliveryFailed(r, id) = Fields
  BY <1>2 DEF MarkDeliveryFailed, Stands, Fields
<1>4. PICK m : m = MarkDeliveryFailed(r, id)
  OBVIOUS
<1>5. Stands(Record(m, id, v), m)
  BY <1>1, <1>3, <1>4
<1>6. Stands(Record(m, id, v), r)
  BY <1>3, <1>4, <1>5 DEF Stands
<1> QED
  BY <1>1, <1>2, <1>3, <1>4, <1>6

\* Steps that leave every row in its place, and the clock and the timer alone.
LEMMA StandsTrue ==
    ASSUME FateInv,
           UNCHANGED <<now, proc, timer, taken, repeated, skipped, dropped, edited, overslept>>,
           \A s \in Schedules : Stands(rows'[s], rows[s])
    PROVE  FateInv'
<1>1. Ordered'
  BY DEF FateInv, Ordered, Fate, Stands
<1>2. Punctual'
  BY DEF FateInv, Punctual, Pends, Stands
<1>3. NoSilentDrop'
  BY DEF FateInv, NoSilentDrop
<1> QED
  BY <1>1, <1>2, <1>3 DEF FateInv

LEMMA OneStands ==
    ASSUME PlaceInv, NEW s \in Schedules, NEW v, Stands(v, rows[s]), rows' = Set(rows, s, v)
    PROVE  \A x \in Schedules : Stands(rows'[x], rows[x])
<1>1. rows' = [rows EXCEPT ![s] = v] /\ rows = [x \in Schedules |-> rows[x]]
  BY DEF Set, PlaceInv, Table
<1>2. rows'[s] = v /\ \A x \in Schedules \ {s} : rows'[x] = rows[x]
  BY <1>1
<1> QED
  BY <1>2 DEF Stands

\* A writer touches one row, which is set aside; a timer that is armed again is in time.
LEMMA TouchedTrue ==
    ASSUME PlaceInv, FateInv, NEW s \in Schedules, NEW v, Shape(s, v), rows' = Set(rows, s, v),
           edited' = edited \cup {s}, timer' = timer \/ timer' = Arm(rows'),
           UNCHANGED <<now, proc, taken, repeated, skipped, dropped, overslept>>
    PROVE  FateInv'
<1>1. Table(rows') /\ \A x \in Schedules \ edited' : x \in Schedules \ edited /\ rows'[x] = rows[x]
  BY TableSet DEF PlaceInv
<1>2. Ordered' /\ NoSilentDrop'
  BY <1>1 DEF FateInv, Ordered, NoSilentDrop
<1>3. Punctual'
  BY <1>1, ArmedInTime DEF FateInv, Punctual
<1> QED
  BY <1>2, <1>3 DEF FateInv

\* A row that is new: nothing happened to it yet, and it is not due before now.
LEMMA CreatedTrue ==
    ASSUME PlaceInv, FateInv, NEW s \in Schedules, ~rows[s].here, NEW e \in BOOLEAN,
           rows' = Set(rows, s, Upsert(rows[s], Fresh(s), e, "api")), timer' = Arm(rows'),
           UNCHANGED <<now, proc, taken, repeated, skipped, dropped, edited, overslept>>
    PROVE  FateInv'
<1>0. Table(rows) /\ now \in 1 .. MaxTime /\ now \in Nat
  BY Bounds DEF PlaceInv, Clock
<1>1. PICK v : v = Upsert(rows[s], Fresh(s), e, "api")
  OBVIOUS
<1>2. Shape(s, v) /\ v.here /\ v.next = Fresh(s).next
  BY <1>0, <1>1, FreshIsGood, TableRow, UpsertShape DEF SamePlace, Listed
<1>3. Table(rows') /\ rows'[s] = v /\ \A x \in Schedules \ {s} : rows'[x] = rows[x]
  BY <1>0, <1>1, <1>2, TableSet
<1>4. v.next >= now
  <2>1. CASE KindOf[s] = "at"
    BY <1>0, <1>2, <2>1, AtDecided DEF Fresh
  <2>2. CASE Recurring(s)
    <3>1. now <= now
      BY <1>0
    <3>2. Fresh(s).next > now
      BY <1>0, <2>2, <3>1, NextFire DEF Fresh
    <3>3. v.next \in Nat
      BY <1>2, GoodIsTime DEF Shape
    <3> QED
      BY <1>0, <1>2, <3>2, <3>3
  <2> QED
    BY <2>1, <2>2, Kinds
<1>5. s \notin edited => Fate(s, v, taken[s], skipped[s])
  BY DEF FateInv, Ordered, Fate
<1>6. Ordered' /\ NoSilentDrop'
  BY <1>3, <1>5 DEF FateInv, Ordered, NoSilentDrop
<1>7. Punctual'
  BY <1>3, <1>4, ArmedInTime DEF FateInv, Punctual
<1> QED
  BY <1>6, <1>7 DEF FateInv

LEMMA FateStep == PlaceInv /\ RunInv /\ FateInv /\ [Next]_vars => FateInv'
<1> SUFFICES ASSUME PlaceInv, RunInv, FateInv, [Next]_vars PROVE FateInv'
  OBVIOUS
<1> USE DEF memory, history, places, fates, causes, outcomes
<1>0. /\ Table(rows) /\ Table(copy) /\ now \in 1 .. MaxTime /\ now \in Nat /\ timer \in Nat
      /\ edited \subseteq Schedules /\ overslept \in BOOLEAN /\ Ordered /\ NoSilentDrop /\ Punctual
  BY Bounds DEF PlaceInv, Clock, FateInv
<1>1. CASE Boot
  BY <1>1, BootsTrue
<1>2. CASE Wake
  BY <1>2, WakesTrue
<1>3. CASE Stop \/ Exit \/ Crash \/ UNCHANGED vars
  <2>1. UNCHANGED <<now, rows, taken, repeated, skipped, dropped, edited, overslept>>
    BY <1>3 DEF Stop, Exit, Crash, vars
  <2>2. Ordered' /\ NoSilentDrop'
    BY <1>0, <2>1 DEF Ordered, NoSilentDrop
  <2>3. proc' # "up" \/ UNCHANGED <<proc, timer>>
    BY <1>3 DEF Stop, Exit, Crash, Ends, vars
  <2>4. Punctual'
    BY <1>0, <2>1, <2>3 DEF Punctual
  <2> QED
    BY <1>0, <2>1, <2>2, <2>4 DEF FateInv
<1>4. CASE Tick
  <2>1. /\ now' = now + 1 /\ overslept' = (overslept \/ TimerFires)
        /\ UNCHANGED <<rows, proc, timer, taken, repeated, skipped, dropped, edited>>
    BY <1>4 DEF Tick
  <2>2. Ordered'
    BY <1>0, <2>1 DEF Ordered
  <2>3. NoSilentDrop' /\ overslept' \in BOOLEAN
    BY <1>0, <2>1 DEF NoSilentDrop, TimerFires
  <2>4. Punctual'
    <3>1. SUFFICES ASSUME proc = "up", ~overslept, ~TimerFires,
                          NEW s \in Schedules \ edited, Pends(rows[s])
                   PROVE  rows[s].next >= now + 1
      BY <1>0, <2>1 DEF Punctual
    <3>2. timer # 0 /\ timer <= rows[s].next
      BY <1>0, <3>1 DEF Punctual
    <3>3. timer > now
      BY <1>0, <3>1, <3>2 DEF TimerFires
    <3>4. rows[s].next \in Nat
      BY <1>0, TableRow
    <3> QED
      BY <1>0, <3>2, <3>3, <3>4
  <2> QED
    BY <1>0, <2>1, <2>2, <2>3, <2>4 DEF FateInv
<1>5. ASSUME NEW s \in Schedules, NEW M, CrashInWake(M, s) PROVE FateInv'
  BY <1>5, CrashesTrue
<1>6. ASSUME NEW s \in Schedules, NEW e \in BOOLEAN, Write(s, e) PROVE FateInv'
  <2>1. /\ rows' = Set(rows, s, Upsert(rows[s], Fresh(s), e, "api")) /\ timer' = Arm(rows')
        /\ edited' = edited \cup (IF rows[s].here THEN {s} ELSE {})
        /\ UNCHANGED <<now, proc, taken, repeated, skipped, dropped, overslept>>
    BY <1>6 DEF Write, Changed
  <2>2. Shape(s, Upsert(rows[s], Fresh(s), e, "api"))
    BY <1>0, FreshIsGood, TableRow, UpsertShape
  <2>3. CASE rows[s].here
    BY <2>1, <2>2, <2>3, TouchedTrue
  <2>4. CASE ~rows[s].here
    <3>1. edited' = edited
      BY <2>1, <2>4
    <3> QED
      BY <2>1, <2>4, <3>1, CreatedTrue
  <2> QED
    BY <2>3, <2>4
<1>7. ASSUME NEW s \in Schedules, NEW e \in BOOLEAN, SetEnabled(s, e) PROVE FateInv'
  <2>1. PICK v : v = [rows[s] EXCEPT !.enabled = e]
    OBVIOUS
  <2>2. Shape(s, v)
    <3>1. rows[s] \in Row /\ rows[s].here /\ GoodPlace(s, rows[s])
      BY <1>0, <1>7, TableRow DEF SetEnabled, MayChange
    <3>2. v \in Row /\ v.here = rows[s].here /\ v.anchor = rows[s].anchor /\ v.next = rows[s].next
      BY <2>1, <3>1 DEF Row
    <3> QED
      BY <3>1, <3>2 DEF Shape, GoodPlace
  <2> QED
    BY <1>7, <2>1, <2>2, TouchedTrue DEF SetEnabled
<1>8. ASSUME NEW s \in Schedules, Remove(s) PROVE FateInv'
  <2>1. Shape(s, NoRow)
    BY NoRowShape
  <2> QED
    BY <1>8, <2>1, TouchedTrue DEF Remove, Changed
<1>9. ASSUME NEW s \in Schedules, StrangerWrites(s) PROVE FateInv'
  <2>1. GoodPlace(s, copy[s]) /\ rows[s] \in Row
    BY <1>0, <1>9, TableRow DEF StrangerWrites
  <2>2. Shape(s, Upsert(rows[s], copy[s], TRUE, "manifest"))
    BY <2>1, UpsertShape
  <2> QED
    BY <1>9, <2>2, TouchedTrue DEF StrangerWrites
<1>10. ASSUME NEW s \in Schedules, NEW v, Stands(v, rows[s]), rows' = Set(rows, s, v),
              UNCHANGED <<now, proc, timer, taken, repeated, skipped, dropped, edited, overslept>>
       PROVE  FateInv'
  BY <1>10, OneStands, StandsTrue
<1>11. ASSUME NEW s \in Schedules, NEW id \in RunIds
       PROVE  /\ Stands(Record(rows[s], id, "ok"), rows[s])
              /\ Stands(Record(rows[s], id, "error"), rows[s])
              /\ Stands(MarkDeliveryFailed(rows[s], id), rows[s])
              /\ Stands(Record(MarkDeliveryFailed(rows[s], id), id, "ok"), rows[s])
  BY <1>0, TableRow, OutcomeStands
<1>12. ASSUME NEW s \in Schedules, NEW id \in RunIds, RunFails(s, id) PROVE FateInv'
  BY <1>10, <1>11, <1>12 DEF RunFails
<1>13. ASSUME NEW s \in Schedules, NEW id \in RunIds, RunSucceeds(s, id) PROVE FateInv'
  BY <1>10, <1>11, <1>13 DEF RunSucceeds
<1>14. ASSUME NEW s \in Schedules, NEW id \in RunIds, RunUndelivered(s, id) PROVE FateInv'
  BY <1>10, <1>11, <1>14 DEF RunUndelivered
<1>15. ASSUME NEW s \in Schedules, NEW id \in RunIds, DeliveryFails(s, id) PROVE FateInv'
  BY <1>10, <1>11, <1>15 DEF DeliveryFails
<1>16. ASSUME NEW s \in Schedules, NEW id \in RunIds, Delivered(s, id) PROVE FateInv'
  <2>1. \A x \in Schedules : Stands(rows'[x], rows[x])
    BY <1>16 DEF Delivered, Stands
  <2> QED
    BY <1>16, <2>1, StandsTrue DEF Delivered
<1>17. ASSUME NEW s \in Schedules, StrangerReads(s) PROVE FateInv'
  <2>1. \A x \in Schedules : Stands(rows'[x], rows[x])
    BY <1>17 DEF StrangerReads, Stands
  <2> QED
    BY <1>17, <2>1, StandsTrue DEF StrangerReads
<1> QED
  BY <1>1, <1>2, <1>3, <1>4, <1>5, <1>6, <1>7, <1>8, <1>9, <1>12, <1>13, <1>14, <1>15, <1>16, <1>17
  DEF Next, WriterStep, RunStep, OutboxStep

LEMMA FateInit == Init => FateInv
<1> SUFFICES ASSUME Init PROVE FateInv
  OBVIOUS
<1>1. \A s \in Schedules : rows[s] = NoRow /\ taken[s] = {} /\ skipped[s] = {}
                           /\ repeated[s] = {} /\ dropped[s] = {}
  BY DEF Init
<1>2. proc = "down" /\ edited = {} /\ overslept = FALSE
  BY DEF Init
<1> QED
  BY <1>1, <1>2 DEF FateInv, Ordered, Fate, Punctual, NoSilentDrop

\* One fate for every occurrence, for any manifest, interval, jitter, horizon and cap, and
\* whatever sleeps, is killed or restarted, a wake half way through included (#wake,
\* #moveOn, #recompute, decideDue): of a schedule no other writer touched, no occurrence is
\* taken by two wakes or both taken and reported, none goes by in silence before the machine
\* sleeps through a timer, and of any schedule what was taken has its run, waits for it, or
\* is one of those TakenRuns names as lost.
THEOREM OneFateEach == Spec => []OccurrenceFate
<1>1. \A s \in Schedules : KindOf[s] # "at" => Recurring(s)
  BY Kinds
<1>2. FateInv /\ KeptInv => OccurrenceFate
  BY <1>1 DEF FateInv, KeptInv, Ordered, Fate, OccurrenceFate, TakenOnce, SkippedNotRun
<1> QED
  BY <1>2, FateInit, FateStep, KeptAlways, PlaceInit, PlaceStep, RunInvInit, RunInvStep, PTL DEF Spec
==============================================================================
