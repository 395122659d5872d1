-------------------------------- MODULE Outbox --------------------------------
(***************************************************************************)
(* The durable outbound queue of one agent: channels/outbox.ts over the    *)
(* `outbox` table of store/sqlite/store.ts, and the part of                *)
(* runtime/channels.ts that creates, starts and retires an Outbox object.  *)
(*                                                                         *)
(* An *instance* is one Outbox object.  A reload retires one and registers *)
(* the next in the same process; the retired object's sends, drains and    *)
(* captured turns go on.  A crash takes every instance of the process and  *)
(* leaves the table.                                                       *)
(*                                                                         *)
(* The SQLite driver is synchronous, so a store call is one step and an    *)
(* await on it yields to the microtask queue only: other drains may run    *)
(* between two store calls, while timers, provider answers and reload      *)
(* steps wait for the queue to empty (EventLoop).  A crash waits for       *)
(* nothing.                                                                *)
(***************************************************************************)
EXTENDS Naturals, FiniteSets

CONSTANTS
    NumGroups,    \* replies, numbered in the order they are first enqueued
    Chunks,       \* chunks a reply is split into
    MaxAttempts,  \* OutboxOptions.maxAttempts
    Concurrency,  \* OutboxOptions.concurrency, the LIMIT of `due`
    MaxInst,      \* bound: Outbox objects created over a behaviour
    Paced,        \* the channel declares a minSendIntervalMs
    Crashes,      \* the process may die
    Reloads,      \* the agent may be reloaded in a running process
    LostAcks      \* a send may time out after the provider took the message

ASSUME OutboxConstants ==
    /\ NumGroups \in Nat \ {0} /\ Chunks \in Nat \ {0}
    /\ MaxAttempts \in Nat \ {0} /\ Concurrency \in Nat \ {0}
    /\ MaxInst \in Nat \ {0}
    /\ {Paced, Crashes, Reloads, LostAcks} \subseteq BOOLEAN

Groups == 1 .. NumGroups
Rows == Groups \X (0 .. Chunks - 1)
Inst == 1 .. MaxInst

\* A drain is started by the poll timer or by the delivery of one reply.
Poll == 0
Slots == {Poll} \cup Groups

VARIABLES
    status,     \* [Rows -> Status], the row's status column
    attempts,   \* [Rows -> Nat], the attempts column
    due,        \* [Rows -> BOOLEAN], next_attempt_at <= now
    uncertain,  \* [Rows -> BOOLEAN], the uncertain column
    gen,        \* the newest instance, 0 before the first
    serving,    \* the instance the hub has registered and started, or 0
    live,       \* instances whose process is alive
    knows,      \* instances whose transports still include the channel
    drain,      \* [Inst -> [Slots -> DrainState]]
    flight,     \* the running #attempt calls
    cooling,    \* [Inst -> BOOLEAN], #nextSendAt is in the future
    accepted,   \* history: [Rows -> Nat], copies the provider took
    reported,   \* history: rows a delivery.failed event was emitted for
    silent      \* history: failed rows whose event a crash prevented

table == <<status, attempts, due, uncertain>>
objects == <<gen, serving, live, knows>>
events == <<reported, silent>>
vars == <<table, objects, drain, flight, cooling, accepted, events>>

Status == {"absent", "pending", "inflight", "sent", "failed"}
\* "stalled" and "moved" are a pass under way, without and with progress.
DrainState == {"idle", "ready", "stalled", "moved"}
\* "read" is between `due` and `claim`; "accepted" is taken by the provider but
\* not yet answered; "failing" is between markFailed and abandonGroupAfter,
\* "telling" between that and the delivery.failed event.
Flight == [inst : Inst, slot : Slots, row : Rows, attempts : Nat,
           step : {"read", "sending", "accepted", "failing", "telling"}]

------------------------------------------------------------------------------
\* The store.

Earlier(r) == {<<r[1], c>> : c \in 0 .. r[2] - 1}
Later(r) == {<<r[1], c>> : c \in r[2] + 1 .. Chunks - 1}

\* Mutant: the NOT EXISTS clause is missing.
IsDueAnyChunk(r) == status[r] = "pending" /\ due[r]

\* Head of line: a chunk waits for every earlier chunk of its group.
IsDue(r) ==
    /\ status[r] = "pending" /\ due[r]
    /\ \A e \in Earlier(r) : status[e] = "sent"

\* ORDER BY id: ids follow the order of enqueue, chunks inside a reply in order.
Before(r, s) == r[1] < s[1] \/ (r[1] = s[1] /\ r[2] < s[2])

DueBatch ==
    {r \in Rows : IsDue(r) /\
        Cardinality({s \in Rows : IsDue(s) /\ Before(s, r)}) < Concurrency}

\* INSERT ... ON CONFLICT DO NOTHING, all chunks of a reply in one transaction.
Insert(g) ==
    /\ status' = [r \in Rows |->
         IF r[1] = g /\ status[r] = "absent" THEN "pending" ELSE status[r]]
    /\ due' = [r \in Rows |->
         IF r[1] = g /\ status[r] = "absent" THEN TRUE ELSE due[r]]
    /\ UNCHANGED <<attempts, uncertain>>

MarkSent(r) ==
    /\ status' = [status EXCEPT ![r] = "sent"]
    /\ attempts' = [attempts EXCEPT ![r] = @ + 1]
    /\ UNCHANGED <<due, uncertain>>

\* Mutant: the retry writes a status the schema does not have.
MarkRetryNewStatus(r) ==
    /\ status' = [status EXCEPT ![r] = "retry"]
    /\ attempts' = [attempts EXCEPT ![r] = @ + 1]
    /\ due' = [due EXCEPT ![r] = FALSE]
    /\ UNCHANGED uncertain

MarkRetry(r) ==
    /\ status' = [status EXCEPT ![r] = "pending"]
    /\ attempts' = [attempts EXCEPT ![r] = @ + 1]
    /\ due' = [due EXCEPT ![r] = FALSE]
    /\ UNCHANGED uncertain

MarkFailed(r) ==
    /\ status' = [status EXCEPT ![r] = "failed"]
    /\ attempts' = [attempts EXCEPT ![r] = @ + 1]
    /\ UNCHANGED <<due, uncertain>>

\* Mutant: only a chunk being sent is abandoned, the queued ones stay.
AbandonInflightOnly(r) ==
    /\ status' = [s \in Rows |->
         IF s \in Later(r) /\ status[s] = "inflight" THEN "failed" ELSE status[s]]
    /\ UNCHANGED <<attempts, due, uncertain>>

AbandonGroupAfter(r) ==
    /\ status' = [s \in Rows |->
         IF s \in Later(r) /\ status[s] \in {"pending", "inflight"}
         THEN "failed" ELSE status[s]]
    /\ UNCHANGED <<attempts, due, uncertain>>

\* Mutant: recovery re-queues without flagging.
RecoverUnflagged ==
    /\ status' = [r \in Rows |->
         IF status[r] = "inflight" THEN "pending" ELSE status[r]]
    /\ due' = [r \in Rows |-> due[r] \/ status[r] = "inflight"]
    /\ UNCHANGED <<attempts, uncertain>>

RecoverInflight ==
    /\ status' = [r \in Rows |->
         IF status[r] = "inflight" THEN "pending" ELSE status[r]]
    /\ uncertain' = [r \in Rows |-> uncertain[r] \/ status[r] = "inflight"]
    /\ due' = [r \in Rows |-> due[r] \/ status[r] = "inflight"]
    /\ UNCHANGED attempts

------------------------------------------------------------------------------
Init ==
    /\ status = [r \in Rows |-> "absent"]
    /\ attempts = [r \in Rows |-> 0]
    /\ due = [r \in Rows |-> FALSE]
    /\ uncertain = [r \in Rows |-> FALSE]
    /\ gen = 0 /\ serving = 0 /\ live = {} /\ knows = {}
    /\ drain = [i \in Inst |-> [s \in Slots |-> "idle"]]
    /\ flight = {}
    /\ cooling = [i \in Inst |-> FALSE]
    /\ accepted = [r \in Rows |-> 0]
    /\ reported = {} /\ silent = {}

PassOver(i, s) ==
    /\ drain[i][s] \in {"stalled", "moved"}
    /\ ~ \E f \in flight : f.inst = i /\ f.slot = s

\* The microtask queue is empty: no drain or attempt waits on the store alone.
EventLoop ==
    /\ ~ \E f \in flight : f.step \in {"read", "failing", "telling"}
    /\ ~ \E i \in Inst, s \in Slots : drain[i][s] = "ready" \/ PassOver(i, s)

------------------------------------------------------------------------------
\* The hub: one registration per instance.

\* register + startAgent: recover what is in flight, then start the poll timer.
\* The new manifest may have dropped the channel.
StartAgent ==
    /\ EventLoop
    /\ serving = 0 /\ gen < MaxInst
    /\ gen' = gen + 1
    /\ serving' = gen + 1
    /\ live' = live \cup {gen + 1}
    /\ knows' \in {knows, knows \cup {gen + 1}}
    /\ RecoverInflight
    /\ UNCHANGED <<drain, flight, cooling, accepted, events>>

\* unregister, the first half of a reload: the poll timer stops, nothing waits
\* for the sends and drains under way.  (gen < MaxInst here and in Crash: the
\* last instance of a behaviour stays, so the bound is not a deadlock.)
Unregister ==
    /\ EventLoop
    /\ Reloads /\ serving # 0 /\ gen < MaxInst
    /\ serving' = 0
    /\ UNCHANGED <<table, gen, live, knows, drain, flight, cooling, accepted, events>>

Crash ==
    /\ Crashes /\ live # {} /\ gen < MaxInst
    /\ live' = {} /\ serving' = 0
    /\ drain' = [i \in Inst |-> [s \in Slots |-> "idle"]]
    /\ flight' = {}
    /\ cooling' = [i \in Inst |-> FALSE]
    /\ silent' = silent \cup {f.row : f \in {g \in flight : g.step \in {"failing", "telling"}}}
    /\ UNCHANGED <<table, gen, knows, accepted, reported>>

------------------------------------------------------------------------------
\* Entry points of an instance.

\* deliver, and the tail of #runTurn: enqueue and drain.  The turn holds the
\* instance it captured, registered still or not.  The guard on smaller groups
\* is the numbering; the one on the slot bounds concurrent deliveries of g.  Two
\* replies can finish in one macrotask; a replay begins in one of its own.
Deliver(i, g) ==
    /\ i \in live \cap knows
    /\ EventLoop \/ status[<<g, 0>>] = "absent"
    /\ \A h \in 1 .. g - 1 : status[<<h, 0>>] # "absent"
    /\ drain[i][g] = "idle"
    /\ Insert(g)
    /\ drain' = [drain EXCEPT ![i][g] = "ready"]
    /\ UNCHANGED <<objects, flight, cooling, accepted, events>>

\* The interval tick of start(): suppressed while its own drain is running.
PollTick(i) ==
    /\ EventLoop
    /\ i = serving
    /\ drain[i][Poll] = "idle"
    /\ drain' = [drain EXCEPT ![i][Poll] = "ready"]
    /\ UNCHANGED <<table, objects, flight, cooling, accepted, events>>

------------------------------------------------------------------------------
\* drain(): passes until one finds nothing due or makes no progress.

ReadDue(i, s) ==
    /\ drain[i][s] = "ready"
    /\ drain' = [drain EXCEPT ![i][s] = IF DueBatch = {} THEN "idle" ELSE "stalled"]
    /\ flight' = flight \cup
         {[inst |-> i, slot |-> s, row |-> r, attempts |-> attempts[r],
           step |-> "read"] : r \in DueBatch}
    /\ UNCHANGED <<table, objects, cooling, accepted, events>>

\* Promise.all has every outcome.  MAX_PASSES may end the loop after any pass.
EndPass(i, s) ==
    /\ PassOver(i, s)
    /\ \E next \in {"idle"} \cup (IF drain[i][s] = "moved" THEN {"ready"} ELSE {}) :
         drain' = [drain EXCEPT ![i][s] = next]
    /\ UNCHANGED <<table, objects, flight, cooling, accepted, events>>

Progress(f) == drain' = [drain EXCEPT ![f.inst][f.slot] = "moved"]

------------------------------------------------------------------------------
\* #attempt, from the due row to its outcome.

Step(f, step) == flight' = (flight \ {f}) \cup {[f EXCEPT !.step = step]}

\* The row names a channel this instance was not given.
UnknownChannel(f) ==
    /\ f.step = "read" /\ f.inst \notin knows
    /\ MarkFailed(f.row)
    /\ Step(f, "failing")
    /\ UNCHANGED <<objects, drain, cooling, accepted, events>>

\* "skipped": too soon after the last send, or another drain claimed the row.
Skip(f) ==
    /\ f.step = "read" /\ f.inst \in knows
    /\ cooling[f.inst] \/ status[f.row] # "pending"
    /\ flight' = flight \ {f}
    /\ UNCHANGED <<table, objects, drain, cooling, accepted, events>>

Claim(f) ==
    /\ f.step = "read" /\ f.inst \in knows
    /\ ~cooling[f.inst] /\ status[f.row] = "pending"
    /\ status' = [status EXCEPT ![f.row] = "inflight"]
    /\ Step(f, "sending")
    /\ UNCHANGED <<attempts, due, uncertain, objects, drain, cooling, accepted, events>>

\* The provider takes the message; its answer is still on the way.
ProviderAccepts(f) ==
    /\ EventLoop
    /\ f.step = "sending"
    /\ accepted' = [accepted EXCEPT ![f.row] = @ + 1]
    /\ Step(f, "accepted")
    /\ UNCHANGED <<table, objects, drain, cooling, events>>

CoolDown(f) == cooling' = [cooling EXCEPT ![f.inst] = Paced]

Sent(f) ==
    /\ EventLoop
    /\ f.step = "accepted"
    /\ MarkSent(f.row)
    /\ CoolDown(f)
    /\ Progress(f)
    /\ flight' = flight \ {f}
    /\ UNCHANGED <<objects, accepted, events>>

\* send() failed, threw or timed out; only a timeout can follow an acceptance.
Failable(f, retryable) ==
    \/ f.step = "sending"
    \/ f.step = "accepted" /\ LostAcks /\ retryable

Exhausted(f) == f.attempts + 1 >= MaxAttempts

Retry(f) ==
    /\ EventLoop
    /\ Failable(f, TRUE) /\ ~Exhausted(f)
    /\ MarkRetry(f.row)
    /\ CoolDown(f)
    /\ flight' = flight \ {f}
    /\ UNCHANGED <<objects, drain, accepted, events>>

\* #fail, first store call: refused for good, or out of attempts.
GiveUp(f, retryable) ==
    /\ EventLoop
    /\ Failable(f, retryable)
    /\ retryable => Exhausted(f)
    /\ MarkFailed(f.row)
    /\ CoolDown(f)
    /\ Step(f, "failing")
    /\ UNCHANGED <<objects, drain, accepted, events>>

\* #fail, second store call: the rest of the reply goes with it.
Abandon(f) ==
    /\ f.step = "failing"
    /\ AbandonGroupAfter(f.row)
    /\ Step(f, "telling")
    /\ UNCHANGED <<objects, drain, cooling, accepted, events>>

\* Mutant: an unknown channel's failure is logged and not emitted.
ReportKnown(f) ==
    /\ f.step = "telling"
    /\ reported' = IF f.inst \in knows THEN reported \cup {f.row} ELSE reported
    /\ Progress(f)
    /\ flight' = flight \ {f}
    /\ UNCHANGED <<table, objects, cooling, accepted, silent>>

\* #fail, last: one delivery.failed event, for the chunk and those abandoned.
Report(f) ==
    /\ f.step = "telling"
    /\ reported' = reported \cup {f.row}
    /\ Progress(f)
    /\ flight' = flight \ {f}
    /\ UNCHANGED <<table, objects, cooling, accepted, silent>>

------------------------------------------------------------------------------
\* Time: a row's backoff elapses, a channel's minimum gap elapses.

BackoffElapses(r) ==
    /\ EventLoop
    /\ status[r] = "pending" /\ ~due[r]
    /\ due' = [due EXCEPT ![r] = TRUE]
    /\ UNCHANGED <<status, attempts, uncertain, objects, drain, flight, cooling, accepted, events>>

GapElapses(i) ==
    /\ EventLoop
    /\ cooling[i]
    /\ cooling' = [cooling EXCEPT ![i] = FALSE]
    /\ UNCHANGED <<table, objects, drain, flight, accepted, events>>

------------------------------------------------------------------------------
Attempt(f) ==
    \/ UnknownChannel(f) \/ Skip(f) \/ Claim(f) \/ ProviderAccepts(f)
    \/ Sent(f) \/ Retry(f) \/ Abandon(f) \/ Report(f)
    \/ \E retryable \in BOOLEAN : GiveUp(f, retryable)

Next ==
    \/ StartAgent \/ Unregister \/ Crash
    \/ \E i \in Inst, g \in Groups : Deliver(i, g)
    \/ \E i \in Inst : PollTick(i) \/ GapElapses(i)
    \/ \E i \in Inst, s \in Slots : ReadDue(i, s) \/ EndPass(i, s)
    \/ \E f \in flight : Attempt(f)
    \/ \E r \in Rows : BackoffElapses(r)

Spec == Init /\ [][Next]_vars

\* The event loop comes back to every timer and every answer, however many
\* other macrotasks run meanwhile: strong fairness for those, weak for the
\* microtasks.  A send ends because sendTimeoutMs aborts it, and a dead or
\* half-reloaded agent is started again.
Fairness ==
    /\ SF_vars(StartAgent)
    /\ \A i \in Inst : SF_vars(PollTick(i)) /\ SF_vars(GapElapses(i))
    /\ \A i \in Inst, s \in Slots : WF_vars(ReadDue(i, s)) /\ WF_vars(EndPass(i, s))
    /\ \A r \in Rows : SF_vars(\E f \in flight : f.row = r /\ Attempt(f))
    /\ \A r \in Rows : SF_vars(BackoffElapses(r))

FairSpec == Spec /\ Fairness

------------------------------------------------------------------------------
\* Properties.

\* Shapes of the table's columns, the instances and the running attempts.
TypeOK ==
    /\ status \in [Rows -> Status]
    /\ attempts \in [Rows -> Nat]
    /\ due \in [Rows -> BOOLEAN]
    /\ uncertain \in [Rows -> BOOLEAN]
    /\ gen \in 0 .. MaxInst /\ serving \in 0 .. MaxInst
    /\ live \subseteq Inst /\ knows \subseteq Inst
    /\ drain \in [Inst -> [Slots -> DrainState]]
    /\ flight \subseteq Flight
    /\ cooling \in [Inst -> BOOLEAN]
    /\ accepted \in [Rows -> Nat]
    /\ reported \subseteq Rows /\ silent \subseteq Rows

\* The provider never takes a chunk of a reply before it has taken every
\* earlier chunk, whatever crashes, reloads, retries and lost acknowledgements
\* happen (the NOT EXISTS of outboxDue, read before the claim it guards).
InOrder ==
    \A r \in Rows : accepted[r] > 0 => \A e \in Earlier(r) : accepted[e] > 0

\* A chunk the provider took twice carries the uncertain flag: when a transport
\* reports its sends truthfully, the only second copy is one recovery excused.
DuplicateFlagged ==
    \A r \in Rows : accepted[r] > 1 => uncertain[r]

\* (Not so when the agent is reloaded.)  "after markSent: row is terminal, never
\* resent" (head of outbox.ts).
SentIsFinal ==
    [][\A r \in Rows : status[r] = "sent" => status'[r] = "sent"]_vars

\* The first process is up, and the agent was not built again in it.
FirstInstance == gen = 1 /\ live # {}

\* Chunks of r's reply.
Siblings(r) == {<<r[1], c>> : c \in 0 .. Chunks - 1}

Settled(r) ==
    \/ status[r] = "sent"
    \/ status[r] = "failed" /\ Siblings(r) \cap reported # {}

\* While the first process stays up and the agent is not built again in it,
\* every queued chunk is eventually sent, or failed under a delivery.failed
\* event about its reply.
EverySettles == \A r \in Rows : (status[r] # "absent") ~> (Settled(r) \/ ~FirstInstance)

\* Across crashes and reloads: every queued reply is eventually delivered whole,
\* or a delivery.failed event was emitted about it, or a crash came between
\* markFailed and that event, which then never comes (#fail).
ReplyResolved ==
    \A g \in Groups :
        (status[<<g, 0>>] # "absent") ~>
            \/ \A r \in Siblings(<<g, 0>>) : status[r] = "sent"
            \/ Siblings(<<g, 0>>) \cap (reported \cup silent) # {}

\* The queue implements the promise: replies are taken on, chunks reach the
\* provider in order, and a second copy only after recovery flagged the row.
Promise == INSTANCE DeliveryPromise
             WITH queued <- {g \in Groups : status[<<g, 0>>] # "absent"},
                  copies <- accepted
KeepsPromise == Promise!PromiseSpec
==============================================================================
