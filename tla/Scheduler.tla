------------------------------ MODULE Scheduler ------------------------------
(***************************************************************************)
(* One agent's schedules: the timer of schedule/scheduler.ts, the due time *)
(* of schedule/kinds.ts, the rows of the `schedules` table, reconciliation *)
(* with the manifest and the run of runtime/schedules.ts, the HTTP and CLI *)
(* writers, and the delivery.failed listener of runtime/runtime.ts.        *)
(*                                                                         *)
(* Inside the process, everything between two waits for a timer, a turn or *)
(* a request is one step: the SQLite store answers within microtasks, so   *)
(* no other handler runs in between.  Another process may write the rows   *)
(* at any moment.  Times are small integers, 0 is "no time".               *)
(***************************************************************************)
EXTENDS Integers, FiniteSets

CONSTANTS
    Schedules,   \* schedule ids
    KindOf,      \* [Schedules -> {"cron", "every", "at"}]
    Manifest,    \* the schedules the manifest declares; the others are the API's
    Interval,    \* gap between two occurrences of a recurring schedule
    Jitter,      \* fixed displacement of its fires
    AtTime,      \* the instant of a one-shot
    MissedCap,   \* MISSED_CAP
    Horizon,     \* SCHEDULER_HORIZON_MS
    MaxTime,     \* bound on the clock
    MaxRuns,     \* bound on the runs of one schedule
    Suspends,    \* the machine may sleep through a timer
    Crashes,     \* the process may be killed, or stop before its runs end
    Edits,       \* API and CLI writes happen
    Patches,     \* ... among them writes over a row: PATCH, or POST of an id in use
    Strangers    \* another process may boot the same agent and reconcile

ASSUME SchedulerConstants ==
    /\ KindOf \in [Schedules -> {"cron", "every", "at"}]
    /\ Manifest \subseteq Schedules
    /\ {Interval, AtTime, MissedCap, Horizon, MaxTime, MaxRuns} \subseteq Nat \ {0}
    /\ Jitter \in Nat /\ Jitter < Interval
    /\ {Suspends, Crashes, Edits, Patches, Strangers} \subseteq BOOLEAN

VARIABLES
    now,       \* Date.now()
    rows,      \* [Schedules -> Row], the schedules table
    proc,      \* the serving process: "down", "up" or "stopping"
    timer,     \* when the armed timer fires, 0 when none is armed
    inflight,  \* #inFlight: "none", "running" or "deferred" per schedule
    active,    \* [Schedules -> SUBSET RunIds], runs that have not ended
    pending,   \* [Schedules -> SUBSET RunIds], runs whose delivery is in the outbox
    copy,      \* [Schedules -> Row or NoRow], what the other process read
    lastId,    \* [Schedules -> 0..MaxRuns], run ids minted so far
    \* History.
    taken,     \* occurrences a wake moved the row past, to run or to hold
    repeated,  \* occurrences a wake took for the second time
    skipped,   \* occurrences schedule.skipped reported
    dropped,   \* occurrences the row went past, neither taken nor reported
    begun,     \* taken occurrences whose run began
    held,      \* taken occurrences that wait for the run before them
    lost,      \* taken occurrences no run will begin for
    edited,    \* schedules whose row another writer changed or removed
    overslept, \* the clock went past an armed timer of a running process
    bad,       \* runs whose turn or delivery failed
    early      \* runs whose delivery failed before they were recorded

memory == <<timer, inflight, active>>
places == <<taken, repeated, skipped, dropped>>
fates == <<begun, held, lost>>
causes == <<edited, overslept>>
outcomes == <<bad, early>>
history == <<places, fates, causes, outcomes>>
vars == <<now, rows, proc, memory, pending, copy, lastId, history>>

RunIds == 1 .. MaxRuns
Times == 0 .. MaxTime + Interval + Jitter + AtTime

NoRow == [here |-> FALSE, enabled |-> FALSE, origin |-> "api", anchor |-> 0, next |-> 0,
          lastRun |-> 0, status |-> "none"]

Row == [here: BOOLEAN, enabled: BOOLEAN, origin: {"manifest", "api"}, anchor: Times, next: Times,
        lastRun: 0 .. MaxRuns, status: {"none", "ok", "error"}]

Set(f, s, v) == [f EXCEPT ![s] = v]

------------------------------------------------------------------------------
(* decideDue *)

Min(S) == CHOOSE x \in S : \A y \in S : x <= y

\* Occurrences of a recurring schedule that follow `from`: whole intervals from
\* it for `every`, the times the expression names for `cron` (nextCron).
Occurrence(s, from, o) ==
    o > from /\ IF KindOf[s] = "every" THEN (o - from) % Interval = 0 ELSE o % Interval = 0
Occurrences(s, from) == {o \in Times : Occurrence(s, from, o)}

\* The cron loop, with the jump past MISSED_CAP occurrences.
CronNext(s, from, t) ==
    IF Cardinality({o \in Occurrences(s, from) : o + Jitter <= t}) >= MissedCap
    THEN Min({o \in Occurrences(s, from) : o > t})
    ELSE Min({o \in Occurrences(s, from) : o + Jitter > t})

EveryNext(s, from, t) == Min({o \in Occurrences(s, from) : o > t})

\* [anchor, next] of the following fire; `consumed` says the pending one is taken.
DecideDue(s, from, t, consumed) ==
    CASE KindOf[s] = "at" /\ consumed -> [anchor |-> from, next |-> 0]
      [] KindOf[s] = "at" /\ ~consumed ->
           [anchor |-> AtTime, next |-> IF AtTime <= t THEN t ELSE AtTime]
      [] KindOf[s] = "every" ->
           LET o == EveryNext(s, from, t) IN [anchor |-> o, next |-> o + Jitter]
      [] KindOf[s] = "cron" ->
           LET o == CronNext(s, from, t) IN [anchor |-> o, next |-> o + Jitter]

Place(row, d) == [row EXCEPT !.anchor = d.anchor, !.next = d.next]

\* The place in the sequence of a schedule that starts now.
Fresh(s) == DecideDue(s, now, now, FALSE)

\* upsert: what the row says of its last run survives.
Upsert(row, place, enabled, origin) ==
    [Place(row, place) EXCEPT !.here = TRUE, !.enabled = enabled, !.origin = origin]

\* Mutant: a wake asks for the due time as a boot does.
MoveOnUnconsumed(s) == Place(rows[s], DecideDue(s, rows[s].anchor, now, FALSE))

\* #moveOn: the pending occurrence is being taken.
MoveOn(s) == Place(rows[s], DecideDue(s, rows[s].anchor, now, TRUE))

\* Occurrences from the pending one of row r up to the anchor `to`.
Passed(s, r, to) ==
    IF KindOf[s] = "at" THEN {}
    ELSE {o \in {r.anchor} \cup Occurrences(s, r.anchor) : o < to}

------------------------------------------------------------------------------
(* The timer *)

Due(s) == rows[s].here /\ rows[s].enabled /\ rows[s].next # 0 /\ rows[s].next <= now

\* Mutant: the timer waits for the soonest due time, whatever the distance.
ArmNoHorizon(r) ==
    LET soon == {r[s].next : s \in {x \in Schedules : r[x].here /\ r[x].enabled /\ r[x].next # 0}}
    IN  IF soon = {} THEN 0 ELSE Min(soon)

\* #arm over rows r; nextDue is clamped to the horizon.
Arm(r) ==
    LET soon == {r[s].next : s \in {x \in Schedules : r[x].here /\ r[x].enabled /\ r[x].next # 0}}
    IN  Min({now + Horizon} \cup soon)

\* changed(): a write in this process arms the timer again.
Changed(r) == timer' = IF proc = "up" THEN Arm(r) ELSE timer

\* #recompute of one row at start: a pending occurrence is left alone.
Overdue(r) == r.here /\ r.next # 0 /\ r.next <= now

\* Mutant: an overdue one-shot counts as spent.
RecomputedSpent(s, r) == IF Overdue(r) THEN Place(r, DecideDue(s, r.anchor, now, TRUE)) ELSE r

Recomputed(s, r) == IF Overdue(r) THEN Place(r, DecideDue(s, r.anchor, now, FALSE)) ELSE r

\* What schedule.skipped counts: the overdue occurrence and those after it.
Reported(s, r) ==
    IF Overdue(r) /\ r.enabled
    THEN {r.anchor} \cup Passed(s, r, Recomputed(s, r).anchor)
    ELSE {}

\* reconcileSchedules for the manifest's rows: an unchanged one keeps its place.
Reconciled(s) ==
    IF s \in Manifest
    THEN Upsert(rows[s], IF rows[s].here THEN rows[s] ELSE Fresh(s), TRUE, "manifest")
    ELSE rows[s]

Init ==
    /\ now = 1
    /\ rows = [s \in Schedules |-> NoRow]
    /\ proc = "down" /\ timer = 0
    /\ inflight = [s \in Schedules |-> "none"]
    /\ active = [s \in Schedules |-> {}]
    /\ pending = [s \in Schedules |-> {}]
    /\ copy = [s \in Schedules |-> NoRow]
    /\ lastId = [s \in Schedules |-> 0]
    /\ taken = [s \in Schedules |-> {}]
    /\ repeated = [s \in Schedules |-> {}]
    /\ skipped = [s \in Schedules |-> {}]
    /\ dropped = [s \in Schedules |-> {}]
    /\ begun = [s \in Schedules |-> {}]
    /\ held = [s \in Schedules |-> {}]
    /\ lost = [s \in Schedules |-> {}]
    /\ edited = {} /\ overslept = FALSE
    /\ bad = [s \in Schedules |-> {}]
    /\ early = [s \in Schedules |-> {}]

\* Boot: reconcile, then Scheduler.start recomputes and arms.  Nothing fires.
Boot ==
    /\ proc = "down" /\ proc' = "up"
    /\ LET r == [s \in Schedules |-> Reconciled(s)]
       IN  /\ rows' = [s \in Schedules |-> Recomputed(s, r[s])]
           /\ skipped' = [s \in Schedules |-> skipped[s] \cup Reported(s, r[s])]
           /\ dropped' = [s \in Schedules |->
                dropped[s] \cup IF r[s].enabled
                                THEN Passed(s, r[s], rows'[s].anchor) \ Reported(s, r[s]) ELSE {}]
    /\ timer' = Arm(rows')
    /\ UNCHANGED <<now, inflight, active, pending, copy, lastId, taken, repeated, fates,
                   causes, outcomes>>

\* Mutant: an overlapping fire starts a run of its own.
WillRunOverlap(s) == Due(s)

\* A due schedule starts a run unless one is in flight, which then is deferred.
WillRun(s) == Due(s) /\ inflight[s] = "none"

Occurring(s) == IF Due(s) THEN {rows[s].anchor} ELSE {}
Starting(s) == IF WillRun(s) THEN Occurring(s) ELSE {}
Waiting(s) == IF WillRun(s) THEN {} ELSE Occurring(s)

\* #moveOn of the due rows of M: each leaves its occurrence, and the ones a late
\* wake finds behind it, for the next.
Advance(M) ==
    /\ rows' = [s \in Schedules |-> IF s \in M THEN MoveOn(s) ELSE rows[s]]
    /\ taken' = [s \in Schedules |-> taken[s] \cup IF s \in M THEN Occurring(s) ELSE {}]
    /\ repeated' = [s \in Schedules |->
                      repeated[s] \cup IF s \in M THEN taken[s] \cap Occurring(s) ELSE {}]
    /\ dropped' = [s \in Schedules |->
                     dropped[s] \cup IF s \in M
                                     THEN Passed(s, rows[s], MoveOn(s).anchor) \ {rows[s].anchor}
                                     ELSE {}]

AllDue == {s \in Schedules : Due(s)}

TimerFires == proc = "up" /\ timer # 0 /\ timer <= now

\* #wake: every due row moves on, then runs or is held, at most one deep.
Wake ==
    /\ TimerFires
    /\ \A s \in Schedules : WillRun(s) => lastId[s] < MaxRuns
    /\ Advance(AllDue)
    /\ timer' = Arm(rows')
    /\ inflight' = [s \in Schedules |->
                      IF WillRun(s) THEN "running" ELSE IF Due(s) THEN "deferred" ELSE inflight[s]]
    /\ lastId' = [s \in Schedules |-> IF WillRun(s) THEN lastId[s] + 1 ELSE lastId[s]]
    /\ active' = [s \in Schedules |-> active[s] \cup IF WillRun(s) THEN {lastId'[s]} ELSE {}]
    /\ begun' = [s \in Schedules |-> begun[s] \cup Starting(s)]
    /\ held' = [s \in Schedules |-> held[s] \cup Waiting(s)]
    /\ UNCHANGED <<now, proc, pending, copy, skipped, lost, causes, outcomes>>

------------------------------------------------------------------------------
(* A run *)

\* Mutant: the failure is written on the row whichever run it describes.
MarkDeliveryFailedAny(row, id) == IF row.here THEN [row EXCEPT !.status = "error"] ELSE row

MarkDeliveryFailed(row, id) ==
    IF row.here /\ row.lastRun = id THEN [row EXCEPT !.status = "error"] ELSE row

\* Mutant: the row names the run after the one it describes.
RecordNextId(row, id, status) ==
    IF row.here THEN [row EXCEPT !.lastRun = id + 1, !.status = status] ELSE row

\* #record: the outcome of the turn, on a row re-read after it.
Record(row, id, status) ==
    IF row.here THEN [row EXCEPT !.lastRun = id, !.status = status] ELSE row

\* The end of #fire: the entry goes, and a deferred fire is taken if it may run.
\* Whatever fires were held become that one run, or none.
Boundary(s, id) ==
    LET again == inflight[s] = "deferred" /\ proc = "up" /\ rows[s].here /\ rows[s].enabled
    IN  /\ again => lastId[s] < MaxRuns
        /\ inflight' = Set(inflight, s, IF again THEN "running" ELSE "none")
        /\ lastId' = Set(lastId, s, lastId[s] + IF again THEN 1 ELSE 0)
        /\ active' = Set(active, s, (active[s] \ {id}) \cup IF again THEN {lastId'[s]} ELSE {})
        /\ begun' = Set(begun, s, begun[s] \cup IF again THEN held[s] ELSE {})
        /\ lost' = Set(lost, s, lost[s] \cup IF again THEN {} ELSE held[s])
        /\ held' = Set(held, s, {})

\* The turn of run `id` fails, or its end is bad: recorded as an error.
RunFails(s, id) ==
    /\ proc # "down" /\ id \in active[s]
    /\ rows' = Set(rows, s, Record(rows[s], id, "error"))
    /\ bad' = Set(bad, s, bad[s] \cup {id})
    /\ Boundary(s, id)
    /\ UNCHANGED <<now, proc, timer, pending, copy, places, causes, early>>

\* The turn ends well and its reply is in the outbox, sent or to be retried.
RunSucceeds(s, id) ==
    /\ proc # "down" /\ id \in active[s]
    /\ rows' = Set(rows, s, Record(rows[s], id, "ok"))
    /\ pending' = Set(pending, s, pending[s] \cup {id})
    /\ Boundary(s, id)
    /\ UNCHANGED <<now, proc, timer, copy, places, causes, outcomes>>

\* hub.deliver enqueues and drains before it returns: the first send can fail
\* for good inside the run, so delivery.failed is heard before the run is
\* recorded.  The listener finds no row that names the run, and the record that
\* follows says ok.
RunUndelivered(s, id) ==
    /\ proc # "down" /\ id \in active[s]
    /\ rows' = Set(rows, s, Record(MarkDeliveryFailed(rows[s], id), id, "ok"))
    /\ bad' = Set(bad, s, bad[s] \cup {id})
    /\ early' = Set(early, s, early[s] \cup {id})
    /\ Boundary(s, id)
    /\ UNCHANGED <<now, proc, timer, pending, copy, places, causes>>

\* The outbox settles a scheduled reply later.
DeliveryFails(s, id) ==
    /\ proc = "up" /\ id \in pending[s]
    /\ pending' = Set(pending, s, pending[s] \ {id})
    /\ rows' = Set(rows, s, MarkDeliveryFailed(rows[s], id))
    /\ bad' = Set(bad, s, bad[s] \cup {id})
    /\ UNCHANGED <<now, proc, memory, copy, lastId, places, fates, causes, early>>

Delivered(s, id) ==
    /\ proc = "up" /\ id \in pending[s]
    /\ pending' = Set(pending, s, pending[s] \ {id})
    /\ UNCHANGED <<now, rows, proc, memory, copy, lastId, history>>

------------------------------------------------------------------------------
(* The life of the process *)

Stop ==
    /\ proc = "up" /\ proc' = "stopping" /\ timer' = 0
    /\ UNCHANGED <<now, rows, inflight, active, pending, copy, lastId, history>>

\* The process is gone, and with it the runs, the fires that were held and the
\* occurrences `more` that it had only just taken.
Ends(more) ==
    /\ proc' = "down" /\ timer' = 0
    /\ inflight' = [s \in Schedules |-> "none"]
    /\ active' = [s \in Schedules |-> {}]
    /\ lost' = [s \in Schedules |-> lost[s] \cup held[s] \cup more[s]]
    /\ held' = [s \in Schedules |-> {}]

Nothing == [s \in Schedules |-> {}]

\* stop() has waited for the runs, or has lost patience with them.
Exit ==
    /\ proc = "stopping" /\ Ends(Nothing)
    /\ Crashes \/ \A s \in Schedules : active[s] = {}
    /\ UNCHANGED <<now, rows, pending, copy, lastId, places, begun, causes, outcomes>>

Crash ==
    /\ Crashes /\ proc # "down" /\ Ends(Nothing)
    /\ UNCHANGED <<now, rows, pending, copy, lastId, places, begun, causes, outcomes>>

\* Killed inside a wake, which takes the due rows in the order of their due
\* times: those of M have moved on, and the run of s, the last of them, has not
\* begun.  (The runs of the others began and leave no trace.)
CrashInWake(M, s) ==
    /\ Crashes /\ TimerFires
    /\ s \in M /\ M \subseteq AllDue
    /\ \A x \in AllDue : /\ rows[x].next < rows[s].next => x \in M
                         /\ x \in M => rows[x].next <= rows[s].next
    /\ Advance(M)
    /\ begun' = [x \in Schedules |-> begun[x] \cup IF x \in M \ {s} THEN Starting(x) ELSE {}]
    /\ Ends([x \in Schedules |-> CASE x = s -> Occurring(s)
                                   [] x \in M \ {s} -> Waiting(x)
                                   [] OTHER -> {}])
    /\ UNCHANGED <<now, pending, copy, lastId, skipped, causes, outcomes>>

\* The clock waits for a timer that is due, unless the machine sleeps.
Tick ==
    /\ now < MaxTime
    /\ Suspends \/ ~TimerFires
    /\ now' = now + 1
    /\ overslept' = (overslept \/ TimerFires)
    /\ UNCHANGED <<rows, proc, memory, pending, copy, lastId, places, fates, edited, outcomes>>

------------------------------------------------------------------------------
(* Other writers *)

\* manifestOwned, and the same refusal in the CLI.
MayChange(row) == row.here /\ row.origin = "api"

\* POST (which reads no row) and PATCH, through writeSchedule; `e` is the enabled
\* field.  Both compute the place from the present.
Write(s, e) ==
    /\ Edits /\ proc = "up"
    /\ rows[s].here \/ s \in Manifest => Patches
    /\ rows' = Set(rows, s, Upsert(rows[s], Fresh(s), e, "api"))
    /\ edited' = edited \cup (IF rows[s].here THEN {s} ELSE {})
    /\ Changed(rows')
    /\ UNCHANGED <<now, proc, inflight, active, pending, copy, lastId, places, fates, overslept,
                   outcomes>>

Remove(s) ==
    /\ Edits /\ proc = "up" /\ MayChange(rows[s])
    /\ rows' = Set(rows, s, NoRow)
    /\ edited' = edited \cup {s}
    /\ Changed(rows')
    /\ UNCHANGED <<now, proc, inflight, active, pending, copy, lastId, places, fates, overslept,
                   outcomes>>

\* `schedules --enable` and `--disable`, in a process of their own.
SetEnabled(s, e) ==
    /\ Edits /\ MayChange(rows[s])
    /\ rows' = Set(rows, s, [rows[s] EXCEPT !.enabled = e])
    /\ edited' = edited \cup {s}
    /\ UNCHANGED <<now, proc, memory, pending, copy, lastId, places, fates, overslept, outcomes>>

\* Another process boots the agent: its reconcile reads a row ...
StrangerReads(s) ==
    /\ Strangers /\ s \in Manifest /\ rows[s].here /\ ~copy[s].here
    /\ copy' = Set(copy, s, rows[s])
    /\ UNCHANGED <<now, rows, proc, memory, pending, lastId, history>>

\* ... and writes the place it read back.
StrangerWrites(s) ==
    /\ copy[s].here
    /\ rows' = Set(rows, s, Upsert(rows[s], copy[s], TRUE, "manifest"))
    /\ copy' = Set(copy, s, NoRow)
    /\ edited' = edited \cup {s}
    /\ UNCHANGED <<now, proc, memory, pending, lastId, places, fates, overslept, outcomes>>

------------------------------------------------------------------------------
RunStep(s, id) ==
    RunFails(s, id) \/ RunSucceeds(s, id) \/ RunUndelivered(s, id)

OutboxStep(s, id) == DeliveryFails(s, id) \/ Delivered(s, id)

WriterStep(s) ==
    \/ \E e \in BOOLEAN : Write(s, e) \/ SetEnabled(s, e)
    \/ Remove(s) \/ StrangerReads(s) \/ StrangerWrites(s)

Next ==
    \/ Boot \/ Wake \/ Stop \/ Exit \/ Crash \/ Tick
    \/ \E s \in Schedules :
         \/ WriterStep(s)
         \/ \E M \in SUBSET Schedules : CrashInWake(M, s)
         \/ \E id \in RunIds : RunStep(s, id) \/ OutboxStep(s, id)

Spec == Init /\ [][Next]_vars

\* The timer fires, a turn ends (its timeout sees to that), the clock advances,
\* and a process that went away is started again and stays up long enough for
\* an armed timer to fire.
FairSpec ==
    /\ Spec
    /\ SF_vars(Wake) /\ WF_vars(Boot) /\ WF_vars(Exit) /\ WF_vars(Tick)
    /\ \A s \in Schedules : WF_vars(\E id \in RunIds : RunStep(s, id))

------------------------------------------------------------------------------
(* Properties *)

TypeOK ==
    /\ now \in 1 .. MaxTime
    /\ rows \in [Schedules -> Row]
    /\ proc \in {"down", "up", "stopping"}
    /\ timer \in Nat
    /\ inflight \in [Schedules -> {"none", "running", "deferred"}]
    /\ active \in [Schedules -> SUBSET RunIds]
    /\ pending \in [Schedules -> SUBSET RunIds]
    /\ copy \in [Schedules -> Row]
    /\ lastId \in [Schedules -> 0 .. MaxRuns]
    /\ \A s \in Schedules : rows[s].lastRun <= lastId[s]
    /\ \A s \in Schedules : taken[s] \cup repeated[s] \cup skipped[s] \cup dropped[s] \subseteq Times
    /\ \A s \in Schedules : begun[s] \cup held[s] \cup lost[s] \subseteq Times
    /\ edited \subseteq Schedules /\ overslept \in BOOLEAN
    /\ bad \in [Schedules -> SUBSET RunIds] /\ early \in [Schedules -> SUBSET RunIds]

\* The overlap policy: two runs of one schedule are never going at once, and
\* a run that is going is the one the in-flight map knows of.
OneRunAtATime ==
    \A s \in Schedules :
        /\ \A a, b \in active[s] : a = b
        /\ active[s] # {} <=> inflight[s] # "none"

\* `lastStatus` of the run `lastRunId` names is error exactly when its turn failed, or
\* its delivery did once the run was recorded, however late and whatever ran since.  A
\* delivery that fails before the record, as the drain inside hub.deliver can make it,
\* leaves ok (early), against 9.21 of docs/00-DECISIONS.md and the listener's comment.
StatusTrue ==
    \A s \in Schedules :
        rows[s].lastRun # 0 =>
            (rows[s].status = "error" <=> rows[s].lastRun \in bad[s] \ early[s])

\* No occurrence is taken by two wakes, across restarts: an `at` schedule does
\* not run again, a recurring one does not repeat a time.
TakenOnce == \A s \in Schedules \ edited : repeated[s] = {}

\* An occurrence of a recurring schedule that schedule.skipped reports as not
\* replayed is not run, before or after.
SkippedNotRun ==
    \A s \in Schedules \ edited : KindOf[s] # "at" => taken[s] \cap skipped[s] = {}

\* No occurrence of an enabled schedule goes by untaken and unreported, unless the
\* machine slept through a timer.
NoSilentDrop == overslept \/ \A s \in Schedules \ edited : dropped[s] = {}

\* What a wake took has its run, or waits behind the run that is going, or was lost:
\* the process ended in the wake before the run began or with the fire held, or at
\* the boundary the scheduler was stopped or the schedule off.
TakenRuns ==
    \A s \in Schedules :
        /\ taken[s] \subseteq begun[s] \cup held[s] \cup lost[s]
        /\ held[s] # {} => inflight[s] = "deferred"

\* Every occurrence of a schedule no other writer touched has one fate, across
\* restarts and reports: taken by one wake, or reported as skipped and not run; and
\* what is taken runs unless it is lost in one of the ways TakenRuns names.
OccurrenceFate == TakenOnce /\ SkippedNotRun /\ NoSilentDrop /\ TakenRuns

\* A due schedule is taken in the end, also one another process enabled.  (The
\* clock must be able to reach the horizon before its bound.)
DueIsTaken == \A s \in Schedules : (Due(s) /\ now + Horizon <= MaxTime) ~> ~Due(s)

\* The run of a one-shot of the manifest begins in the end, also when nothing was
\* running at its moment.  It is lost only if the process is killed in the wake
\* between #moveOn, which leaves no due time behind, and the run (lost).
OneShotRuns ==
    \A s \in Manifest :
        KindOf[s] = "at" =>
            (rows[s].here /\ rows[s].enabled ~> begun[s] \cup lost[s] # {} \/ s \in edited)
==============================================================================
