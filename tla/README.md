# dispach: TLA+ specifications

Models, model-checking runs and machine-checked proofs for the runtime of
dispach (`packages/core`): the parts of it that are durable, concurrent and hard
to test. Paths below are relative to `packages/core/src` unless they name a
package.

## 1. The system

A *runtime* is an object inside an operating-system process. It hosts *agents*
that were loaded from manifests, and shares one SQLite file with any other
process that was started over the same workspace (`serve`, `run`, `schedules`).
The JavaScript event loop runs one handler at a time; an `await` on the SQLite
store only yields to the microtask queue, because the driver is synchronous,
while an `await` on the network, a timer or a turn lets anything else run.

| component | state it keeps | operations | talks to |
| --- | --- | --- | --- |
| **Outbound queue** `channels/outbox.ts` | rows of `outbox` (status, attempts, next attempt, uncertain), per-channel send gap, drains | enqueue, drain, claim, send, mark sent/retry/failed, abandon the rest, recover, poll timer | transports, channel hub, `delivery.*` events |
| **Serving lease** `runtime/lease.ts` | rows of `runtime_leases`, `LIVE_RUNTIMES` of the process | probe, claim, beat, release | boot, adopt, dispose and stop of the runtime |
| **Scheduler** `schedule/`, `runtime/schedules.ts` | rows of `schedules`, one timer, the in-flight map | start and recompute, wake, fire, record, reconcile, stop | agents' turns, the hub, HTTP and CLI writers |
| **Channel hub** `runtime/channels.ts` | bound transports, inboxes, outboxes, a promise chain per session | start, unregister, deliver, inbound turn | outbox, inbox, agents |
| **Turn admission and reload** `runtime/agent.ts`, `runtime/runtime.ts` | slots in use, successor, held turns, pending reload | admit, send, reload, replace, dispose | every surface that starts a turn |
| **Turn loop** `loop/`, `tools/` | messages, steps, approvals, budgets | model call, tool calls, end of turn | providers, store, event bus |
| **Turn streams** `store/buffer.ts` | one event buffer per turn, listeners, count of chunk interest | open, record, attach, evict | event bus, HTTP and WebSocket clients |
| **Webhook dispatcher** `webhooks/` | rows of deliveries, cached subscriptions | enqueue, claim, send, retry, recover | event bus |
| **Inbox** `channels/inbox.ts` | a bounded set of seen message ids | accept | hub |
| **Conversations, teams** `runtime/conversations.ts`, `team/` | rooms, members, handoffs | post, ask, hand off | agents |
| **Manifest, context, memory, skills, plugins, model providers, media** | mostly files and pure functions | load, validate, assemble, retrieve | agents |
| **Server, client, CLI, web, control plane** (`packages/server`, `client`, `cli`, `web`, `control`) | connections and presentation; the control plane keeps placements | routes, commands | runtime |

What makes them correct, and why it is hard:

* *Outbox*: a reply reaches a person in order, whole or reported; never twice
  unless a crash made it unknowable, and then flagged. Hard because two drains,
  a reload's new object and a dying process all work on one table, and a
  provider's answer may be lost.
* *Lease*: one process serves an agent, and a dead one does not lock it out.
  Hard because the evidence is a pid (which is given out again) and a clock
  (which stops when a laptop sleeps), and is read some steps before it is used.
* *Scheduler*: an occurrence runs once or is reported, runs of one schedule do
  not overlap, and `lastStatus` is true. Hard because the place in the sequence
  is a row that restarts, writers and other processes share, and an outcome may
  arrive before or long after the run it belongs to.
* *Admission and reload*: every admitted turn ends, on one instance; a reload
  happens and never hangs a turn. Hard because each step of a reload awaits.
* *Inbound messages and turns*: a message is acted on once, turns of one
  conversation do not interleave, and what was answered is remembered. Hard
  because chats, requests and retries meet in one session, and a process may end
  between any two of the four writes of a turn.
* *Turn loop*: nothing mutating runs unauthorised once untrusted text is in the
  turn, what was done is on record, and every turn ends. Hard because calls of
  one step run concurrently and a person, a timer and an abort race for each.
* *Turn streams*: no gap and no duplicate between replay and tail, at any moment
  of the turn, under the cap and the eviction, with subagents merged in.
* *Webhooks*: at least once, a second time known to be one, not for ever, with
  several processes over one table and caches that only one of them refreshes.

`PROJECT.json` lists every component with what is modelled of it, and every
hazard with the line it bites at.

## 2. Modules

| module | models |
| --- | --- |
| `DeliveryPromise` | abstract: what the queue promises a recipient |
| `Outbox` | one agent's queue, over Outbox objects that come and go |
| `Lease` | one agent's lease row, runtimes, processes, pids |
| `Scheduler` | one agent's schedules, the serving process and other writers |
| `AgentReload` | one agent id, its instances, reloads and turns |
| `Inbound` | one conversation of one agent: chats, requests, slots, turn rows, history |
| `TurnLoop` | one turn: steps, calls, authorisation, approvals, abort |
| `TurnStreams` | the buffers of a turn and its subagent, and the streams of clients |
| `Webhooks` | the deliveries of one agent, two or more dispatchers, subscriptions |
| `OutboxProofs`, `LeaseProofs`, `SchedulerProofs`, `ReloadProofs`, `InboundProofs`, `LoopProofs`, `StreamsProofs`, `WebhooksProofs` | theorems about the module of that name (`ReloadProofs`: `AgentReload`, `LoopProofs`: `TurnLoop`, `StreamsProofs`: `TurnStreams`) |
| `MCOutbox`, `MCLease`, `MCScheduler`, `MCReload`, `MCInbound`, `MCLoop`, `MCStreams`, `MCWebhooks` | instances for TLC; the `.cfg` files only give constants |

The modules meet where one component's step is another's environment: a turn that
`Inbound` runs is the turn of `TurnLoop`, admitted as in `AgentReload`; its events are
those `TurnStreams` records; the reply it queues is a group of `Outbox`; `Scheduler`
starts turns of its own and hears of their delivery.

**Outbox.** `status`, `attempts`, `due`, `uncertain` are the columns of the table
(`due` is "next_attempt_at <= now"). An *instance* is one `Outbox` object;
`live`, `knows`, `serving` say whose process lives, which still has its
transports, and which the hub registered. `drain` is the progress of each drain
loop (one for the poll timer, one per delivery) and `flight` holds the running
`#attempt` calls, each at the await it stands at. One action per store call or
answer: `ReadDue`, `Claim`, `ProviderAccepts`, `Sent`, `Retry`, `GiveUp`,
`Abandon`, ... The operator `EventLoop` is the rule that timers, provider
answers and reload steps wait until the microtask queue is empty; a crash waits
for nothing. A row's group is numbered by the order of enqueue, which is the
order of ids. `MAX_PASSES` bounds the loop in `drain` against a store that
misbehaves and is left out. `GiveUp`, `Abandon` and `Report` are the three steps of `#fail`:
the store's two writes and the `delivery.failed` event. `accepted`, `reported` (rows whose
event was emitted) and `silent` (failed rows whose event a crash prevented) are history.

**Lease.** `holder`, `leasePid`, `age` are the row, with time in heartbeats;
`run` is where each runtime stands between `Runtime.create` and its end,
`built` is `LIVE_RUNTIMES`. `Probe` (`leases.get` and the liveness verdict) and
`Claim` (with `stealFrom`) are separate steps, as they are separate awaits.
The operating system gives pids out again, to runtimes and to unrelated
programs. `Recycle` stands for the next fresh runtime id, so a finite set of
ids covers any number of boots. Ids are distinct: that two boots within one
millisecond get the same default id (`rt_` and the time, `runtime.ts:477`) is left out.
`slept` is a history variable.

**Scheduler.** `rows` is the table with a row's due time (`next`) and the occurrence
it belongs to (`anchor`); `timer`, `inflight`, `active` are the memory of the
serving process. `Boot` reconciles the manifest and recomputes, `Wake` is the
timer's handler, `RunFails`, `RunSucceeds` and `RunUndelivered` the end of a
turn with its record and the deferred fire, `DeliveryFails` the listener. `Write`,
`Remove` and `SetEnabled` are the HTTP and CLI writers; `StrangerReads` and
`StrangerWrites` the reconcile of another process. Occurrences are equally
spaced and the jitter is fixed. History says of an occurrence whether a wake moved the
row past it (`taken`), and then whether its run began (`begun`), waits behind the one that
is going (`held`) or will never begin (`lost`: the process was killed in the wake after
`#moveOn`, or a held fire was given up); whether it was reported (`skipped`) or went by
(`dropped`). `bad` are the runs that failed, `early` those whose delivery failed before
they were recorded, as the drain inside `hub.deliver` can make it; `edited` the rows
another writer changed, `overslept` that the machine slept through a timer. Left out: a manifest whose definitions change between boots,
expressions that no longer parse, the manual run (it writes no row), and bodies
of POST and PATCH that change the timing.

**AgentReload.** An *instance* is one `Agent` object: 0 is the booted one, `r` the
one that reload `r` adopts. `phase` is the await a reload stands at: the first
trial of a busy reload (`checking`), pending (`waiting`), then the trial, dispose
and adoption of `replace`; anything may run in between. `retire` and `holding`
are `#successor`/`#onIdle` and `#holding` of an instance, `pending` the entry of
`#reloads`, `settled` and `heir` the successor promise. A turn is a surface that
finds the agent (`Find`), asks for admission some awaits later (`Admit`, `Defer`),
runs and ends, or goes on with the promised instance (`Resume`); it may do so
again and again. `TurnEnds` includes the idle callback and with it
`complete()` up to its first await. Reloads overlap and turns end as they like; history
notes the reloads that began to wait when no turn was left (`raced`), those whose entry in
`#reloads` another overwrote (`superseded`), and the instances whose reload a dispose gave up
before it refused (`orphaned`). A trial or an adoption may fail for reasons of its
own. A team is one unit, as it is loaded; the token budget is a slot taken and
given back; a hold time of 0 is a timer that fires at once. Left out: adopting
the agent again after a dispose, and a second requested dispose during the first.

**Inbound.** `rows`, `hist`, `keys`, `outbox`, `head` are what the store has; `seen`,
`hub`, `chain`, `slots` and `job` what the process has. A job is a message or a
request on its way: in the queue of its chat (`#queues`), admitted, in the chain of
its session (`#sessionChains`), running (row written), finished (outcome written),
returned to the hub, and replying: what the hub has to say is queued and it waits for the
drain, still at the head of the chat's queue. Each `await` between two writes is a step boundary: `Start` reads
the history and writes the row, `Finish` writes the outcome, `AppendTurn` the
messages, `Reply` the outbox row, and `Drained` lets the next message of the chat go. `Throw` is a failure of the store at any of
them, `ClaimThrows` one in the claim of a key, `Crash` and `Boot` (with
`reapRunning`) a restart. `Post` and `Claim` are POST /messages up to its answer,
with the hash of its text compared on a replay. All senders are the owner, so all
share one conversation, which `Rotate` replaces by a new one.

**TurnLoop.** `pc` is the top of the loop, the model call, the execution of a step, or
the end. The reply is any record of `Replies`, a subset of what the dialect can parse
(`Reply`): calls of a tool with an argument, where `"bad"` stands for arguments that
do not coerce and the argument of `phase_set` is a phase. `Planned` is what is left of
a step without the calls that are withheld or come beside a lone one; a withheld call is refused
before its arguments are looked at, so it makes no step malformed. Each planned call has a status (asking,
running, done, ...) and handlers, timers, people and the abort move it. `GroupAt` is
`batch`: a mutating call is a group of its own, reads run up to `MaxParallel`.
`Authorize` is `decidePolicy` and `authorize` with the taint of the step so far.
`trace` is what the turn will append, `kept` whether it did; `starts`, `effects`, `seen`
are history. A signature is the sequence of calls of a step.

**TurnStreams.** The bus dispatches synchronously, so `Record` is one step: the push
with the cap, the fan-out to the turn's and the parent's listeners, the end of the
streams this event closes and, at `turn.end`, the eviction. `Attach` is snapshot and
subscription, with the teardown of a stream that closed in `start`. An event that comes after
the eviction opens the buffer again. `log` is history:
every event, never cut, against which a client's `got` is compared, and `base` how much of it
came before the buffer was opened. `GaplessHandover` compares, as sets, the events a client has
of its turn with those it is owed (what it asked for, from the first event not reported
dropped) and those it may have besides (tokens of the replay); `InArrivalOrder` says that they
came in order, each once; `TokenProvenance` compares what an attachment is told of tokens with
the replay it comes with.

**Webhooks.** `rows` are the deliveries by subscription and event, `cache` is the
`#subscriptions` of each process, `work` what its drain is sending. `Start` is
`recoverInflight`, `Drain` the claim with the look-up of the subscription, `Send` the
request, `Mark` the write of its outcome by the row's key alone, `MarkThrows` a write that
fails, and the outcome `caught` a 2xx after which something throws inside the `try` of
`#attempt`; both end in its `catch` as a retry. `Emit` includes the
warning a failed enqueue emits. `acked`, `caught` and `recovered` are history.

The boolean constants (`Crashes`, `Reloads`, `LostAcks`, `Wedges`, `Overlap`,
`Lapses`, `Suspends`, `Edits`, `Patches`, `Strangers`, `Disposes`, `Stops`, `Silent`,
`StoreFails`) switch parts of the environment on. Where the code itself breaks what a
property asks for, no switch hides it: a history variable names the steps that do, the
property excepts exactly those, and section 4 lists each exception with what happens.

## 3. Runs

| run | shows |
| --- | --- |
| `outbox_crash` | two replies of two chunks, two drains, a paced channel, lost acknowledgements, a crash anywhere: `InOrder` |
| `outbox_reload` | reloads and crashes, truthful transports: `DuplicateFlagged`, the refinement `KeepsPromise`, `ReplyResolved` across crashes (delivered whole, or a `delivery.failed` event, or a crash between `markFailed` and that event), `EverySettles` (sent, or failed under an event) in a process that stays |
| `lease_sole` | three runtimes, two pids, wedged processes: `SoleOwner`, `HolderKeepsRow` for those that never slept |
| `lease_recovered` | a dead holder's row is recovered although its pid is in use for good and `/proc` cannot be read |
| `scheduler_overlap` | an `every` schedule with every environment step switched on: `OneRunAtATime`, and `DueIsTaken` |
| `scheduler_once` | a jittered cron schedule of the API, which is edited and turned off and on, and a one-shot of the manifest, through restarts, sleep, the missed cap, and crashes also in the middle of a wake: `OccurrenceFate` (taken by one wake, or reported and not run; what is taken runs, waits or is lost in a named way), `StatusTrue`, `OneShotRuns` |
| `reload_served` | two reloads that overlap in any way, two surfaces, a dispose, a stop: `SwappedStaysIdle`; `NeverWedged`, `ReloadResolves` but for the reloads that section 4 names |
| `inbound` | a chat, a key with two texts and requests without one over one conversation, with rotation, crashes and store failures: `ConversationOrder`, `RunsOnce`, `ReplyRemembered`, `NothingLeaks`, `Answered` |
| `loop` | a turn of three steps, every reply, four policies, abort anywhere: `WriteGate`, `SideEffectsKept`, `RepairsSound`, `RepeatsBounded`, `TurnEnds` |
| `loop_phase` | **violation** of `SideEffectsKept` when a step writes and then changes phase |
| `streams` | a turn and its subagent, two clients, the cap, eviction, reopening and stop: `StreamTruth`, `InterestOwned`, `BufferLife` |
| `webhooks` | two dispatchers, two events, one subscription that comes and goes, an exit, answers that are lost or cannot be recorded: `AckTruth`, `AttemptsBounded`, `DeliverySettles` |

Every run of a module's first configuration checks its `TypeOK` as well. A property
that joins several named parts (`OccurrenceFate`, `NeverWedged`, `ConversationOrder`,
`RunsOnce`, `NothingLeaks`, `WriteGate`, `RepairsSound`, `StreamTruth`, `BufferLife`,
`AckTruth`) is one promise seen from its sides; the parts have comments of their own.

**Bounds.** Outbox: two groups are needed for drains that carry rows of two
replies, two chunks for an order to exist, three for a middle chunk; two
attempts make one retry and one exhaustion; two instances one restart. Lease: two pids
allow reuse and a foreign program; three runtimes allow a holder and two rival
probers, or two in one process; `Reuse = 2` is the
least window in which a row ages, is beaten in time, or is not. Scheduler: the clock runs over two to three
intervals, so that a missed, a pending and a coming occurrence exist together;
three runs are a run, its overlap and its successor; `Interval = 3`, `Jitter = 1` leaves moments
before, between and after boundary and fire time, and a cap of one missed occurrence makes
the jump past it. `SkippedNotRun` is stated for
recurring kinds only, and the run has a cron schedule and no `every` one
(see section 4). Reload: two reloads are one after another, one that joins, or two that
overlap; two surfaces with two slots make a last and a not-last turn, and one that is held;
a surface starts any number of turns. More reloads and turns are covered by the proofs.
Inbound: two turns are what an interleaving, a retry or a duplicate needs, three
messages and a window of one let the window forget and keep, two sessions a
rotation, two faults a crash and a failure, or a crash after a crash; with a cap of
two both turns are admitted together. Loop: three steps are a step, its repetition
and a step after the guard has answered, with `IdenticalCalls = 2`, one temporary
failure forgiven and a repair in between; the shapes of a step have an untrusted
read before and after a write, a malformed call beside a good one, and a call each
that is refused, withheld, alone and moves the phase. Streams: a buffer of two events and turns of up to four, one of them a token, overflow it
once and twice and drop tokens too; one ended buffer is kept, so the
subagent's and its parent's compete; a client attaches before, between and after
the events, and each client asks for all (tokens, children) or nothing.
Webhooks: one retry gives a first, a last and a refused attempt; a batch of one
leaves one of two deliveries waiting; two processes and an exit allow one to
recover from another that lives, and from one that died.

**Fairness.** Outbox: strong fairness for timers and for what a send ends in,
because those are enabled only when the microtask queue is empty and the event
loop comes back to each of them however often others run; a send ends because
`sendTimeoutMs` aborts it. Starting the agent is strongly fair: a dead process
is started again and in the end stays up (`MaxInst` bounds the objects, so a
behaviour has finitely many crashes). Lease: somebody keeps trying to boot or
adopt the agent, and an attempt that goes on comes to its claim; nothing
obliges a process to end or a foreign program to go away. Scheduler: the clock
advances, turns end (they have a timeout), a stopped process is started again,
and strong fairness of `Wake` says that some life of the process is long enough
for the armed timer. `DueIsTaken` asks only of due times that leave the clock
room for the horizon.

Reload: every await comes back (a trial, a provider's stop and an adoption end
or throw), the hold timer fires, a surface goes on with the agent it found, and
a turn ends. Weak fairness is enough: no other step takes these away for good.
Nobody is obliged to reload, dispose or start a turn.

Inbound: a job that may go on goes on (weak fairness of each of its steps: promises
settle and a turn ends, which is what `TurnEnds` is about; a drain returns because
`sendTimeoutMs` ends each send), and a dead process is
started again. Loop: the model call ends or is aborted, a group that is decided is
begun and a finished one is collected, and the turn's timer fires (`Abort`); nothing
is assumed of handlers, people or the model's choice of words. Webhooks: a boot is
completed, the interval fires, a request is answered or times out, an outcome is
written, a backoff passes; nothing is assumed of what the receiver answers, and no
process has to come back.

**Deadlock** is checked in the runs of the outbox, the lease and the scheduler,
which always have a step. A disposed agent with no turns left really stops, a turn
ends, a runtime that was stopped keeps no streams, and messages, events and time are
bounded, so the other runs do not check it.

## 4. Where code and words disagree

Kept as a run, with the quoted lines in `PROJECT.json`:

* `loop_phase`: after a step the loop looks the successful calls up again in the
  catalogue, to note side effects. A `phase_set` of the same step has replaced that
  catalogue, and `resolve` throws for a tool the new phase hides. The turn ends in
  an error that has not noted the write, so its trace is discarded, against
  `loop/turn.ts:1620` ("a turn that both acted and failed keeps its trace").

Seen with the same modules under other constants, or as properties of the modules
that are marked *not so* there, and not kept as runs. Each is one change to the
configuration named, or to the property: "without `x`" means the property without
the exception that the history variable `x` makes in it.

| configuration | property | what happens, and what is said |
| --- | --- | --- |
| `MCOutboxReload` | `SentIsFinal` | `startAgent` recovers all in-flight rows, also those the retired object of this very process is still sending; the late failure of the old send moves the row from `sent` to `pending`. `outbox.ts:16`: "after `markSent` ... row is terminal, never resent" |
| `MCOutboxReload` | `ReplyResolved` without `silent` | `#fail` writes `markFailed`, then `abandonGroupAfter`, and only then emits `delivery.failed` (`outbox.ts:477-505`): after a crash in between, a reply has failed and nobody is told; a failed row is not recovered |
| `MCOutboxReload` | `EverySettles` without `FirstInstance` | the same crash before `abandonGroupAfter` leaves a tail that nothing sends or reports |
| `MCLeaseSole` with `Overlap = TRUE`, `Wedges = FALSE` | `SoleOwner` | a boot overlapping another boot or a stop in its own process does not find it in `LIVE_RUNTIMES` |
| `MCLeaseSole` with `Lapses = TRUE`, `Wedges = FALSE` | `SoleOwner` | a runtime that adopts an agent again over the row it left is robbed by an old verdict on that row |
| `MCSchedulerOnce` with `Patches = TRUE` | `TakenOnce` without `edited` | a PATCH of a one-shot that has fired makes it due again |
| `MCSchedulerOnce` with `Strangers = TRUE` | `TakenOnce` without `edited` | a second process that reconciles writes back the place it read, and an occurrence fires twice |
| `MCSchedulerOnce` | `SkippedNotRun` also for `at` | an overdue one-shot is announced as skipped at boot and then run |
| `MCSchedulerOnce` | `NoSilentDrop` without `overslept` | a wake after sleep advances past occurrences without an event |
| `MCSchedulerOnce` | `TakenRuns`, `OneShotRuns` without `lost` | the row is advanced before the run begins: a process killed in that wake has neither run nor reported the occurrence, and a one-shot, whose row then says that nothing is due, never runs. `schedule/kinds.ts:13-14`: "nobody else will ever fire it, so dropping it silently is rule 8's shape" |
| `MCSchedulerOnce` | `StatusTrue` without `early` | a delivery that fails inside `hub.deliver`, which drains before it returns (`channels.ts:386-400`), is reported before the run is recorded; the record then says `ok`. `runtime.ts:809-812` says that a delivery fails after the run, and `docs/00-DECISIONS.md` 9.21 that the failure shows |
| `MCReloadServed` | `NeverWedged`, `ReloadResolves` without `raced` | `reload` counts the running turns, awaits the trial load and then waits for the idle moment without counting again (`runtime.ts:1637`); a last turn that ends meanwhile leaves it pending for ever, and after `reloadHoldMs` new turns hang. `runtime.ts:1649`: "A held turn that is never resolved is a hang" |
| `MCReloadServed` | `ReloadResolves` without `superseded` (with three reloads also `NeverWedged`) | of two reloads in their first trial the later replaces the successor, the idle callback and the entry of the earlier (`runtime.ts:1584`), whose held turns and swap are forgotten |
| `MCReloadServed` | `NeverWedged` without `orphaned` | `dispose` gives up the pending reload and then refuses because turns run (`runtime.ts:1800`); the agent goes on handing new turns to the rejected successor |
| `MCInbound` | `NothingLeaks` without `leaked` | the slot of a request is taken before its key is claimed; a claim that throws fails the route and nobody gives the slot back (`server/src/handler.ts:2142`, `runtime/agent.ts:1500`), until the process ends |
| `MCInbound` | `KeyNamesTurn` | the key is claimed before the turn has a row: after a crash in between, every retry is answered with a turn that never ran (`docs/04-SPEC-WIRE.md:812`) |
| `MCInbound` | `RetryReplayed` | a request that names no session goes to the head of the conversation; a rotation between two attempts moves the head, and the retry of the same request is refused as a conflict |
| `MCInbound` | `CompleteRemembered` | the outcome is written before the messages: after a crash in between the row says complete and the history lacks the turn |
| `MCLoop` | `TurnAlwaysEnds` | a call begun after the abort joins a signal that has fired already and hears neither it nor its own timeout. `tools/execute.ts:18`: "A timeout ends the call, not the handler" |
| `MCLoop` | `QuestionsAwaited` | a question asked after the abort stays in the registry (`server/src/approvals.ts:120`) |
| `MCStreams` | `BufferLife` without `Reopened` | a delivery event that comes after the eviction opens a running buffer that nothing ends; a client that attaches tails it for ever, against the comment on `finishedStream` that the loop "sees a terminal frame" |
| `MCStreams` | `RunningIsRunning` | the same; and a `wrapTurn` middleware that answers by itself emits nothing: the buffer the route opened stays running, and is never evicted |
| `MCStreams` | `OnlyAskedTokens` | the fan-out is filtered by what a client asked for, the replay is not: a client that did not ask is sent the tokens recorded for another, against the comment in `streamTurn` (`server/src/handler.ts:5778-5782`) and `docs/04-SPEC-WIRE.md:831` |
| `MCStreams` | `TokenProvenance` with all tokens in the replay | a buffer at its cap has dropped tokens and still says `start`, of which `store/buffer.ts:47` says that the replay has all of them; what holds is that it lacks only tokens among the events it reports as dropped |
| `MCWebhooks` | `OneSender` | a start takes back what another process is sending. `docs/04-SPEC-WIRE.md:560`: "two processes on one store never send the same one" |
| `MCWebhooks` | `AckTruth` without `caught` | `body.cancel()` and `markSent` are inside the `try` of `#attempt` (`webhooks.ts:452-466`): when one throws after a 2xx, or the answer comes after the abort, the delivery is put up again by `markRetry` without the uncertain mark. The mark itself is the store's: no header tells a receiver (438-449), who has the `webhook-id` |
| `MCWebhooks` | `FailedWasDeleted` | a process that has not seen a new subscription fails its deliveries as "subscription deleted" |
| `MCWebhooks` | `NeverSpins` | a failed enqueue warns, the warning is an event, and a subscription that hears warnings fails to enqueue it: the process does not leave the microtask queue |

More follows from reading the models. A sleeping holder is taken over after the
reuse window (`Live`), although the head of `lease.ts` says that a wedged process
is reported as held; `HolderKeepsRow` is therefore about those that never slept.
A reload of an idle agent holds nothing back, so a turn may start on an instance
whose dispose has begun; `SwappedStaysIdle` is about the reloads that waited. One drain pass may start
`Concurrency` sends on a channel with a minimum gap, because the gap is read
before and written after a send (`Skip`, `CoolDown`); and `schedules --enable`
makes a schedule due at once in a process that passed over it while disabled. For
`every` schedules, and past the cap of missed occurrences, the jitter is left out of the
comparison at boot (`schedule/kinds.ts`), so an occurrence still ahead may be reported
as missed; and a POST with the id of a manifest schedule replaces its row. A second repair in a row ends the turn and leaves the announced
call unanswered in the trace (`RepairFails`), which `CallsAnswered` excuses for the
last call of a turn that failed.

## 5. Proofs

TLAPS checks every theorem for all values of the constants that satisfy the
named assumptions of the modules.

* `OutboxProofs!TypeCorrect`, `ChunksInOrder`, `DuplicatesAreFlagged`, `QueueKeepsPromise`. `InOrder` alone is
  not inductive: the chunk being sent was read as due some steps ago. `OrderInv`
  adds that a sent row was taken by the provider and that every running attempt,
  from the moment it was read, stands on a row whose earlier chunks were taken;
  taken is for ever, which is why the stale read is harmless. `CopyInv`, for
  duplicates, says of a row that recovery has not flagged that one attempt at
  most has it in hand, that the row is not up for another claim while this
  lasts or after a copy is out, and that no send starts after a copy. It needs
  `~LostAcks`: a transport that reports a failure after the provider took the
  message causes a second copy that nothing flags. `QueueKeepsPromise` is the
  refinement of `DeliveryPromise`, under the same condition: `QueueStep` says what a
  recipient can see of a step (`Seen`: a reply taken on, recovery's doubt, one more copy, nothing)
  and `SeenIsPromised` that the promise allows it, with `OrderInv` for the order of a copy and
  `CopyInv` for its excuse. `QueueInv` adds that a reply is enqueued whole.
* `LeaseProofs!LeaseTypeCorrect`, `SoleServer`, `RowIsKept`, beside processes that sleep and
  wake. `OwnInv`: an owner that never slept is the row's holder with its own pid and a
  fresh heartbeat, a row without an owner was left by a runtime that is gone, a
  prober's verdict names a runtime that is gone or has slept, and one process boots
  or stops one runtime at a time. "Gone or has slept" is stable, which is what makes
  the old verdict safe at the claim. The lemma `VerdictSound` is the heart: whoever
  the probe calls dead is no owner that never slept. `RowIsKept` is the action property
  `HolderKeepsRow`, from `OwnInv` before and after the step. The assumptions `~Overlap`
  and `~Lapses` are necessary: section 4 has a counterexample without each.
* `SchedulerProofs!OverlapPolicy`, `StatusTruthful`, `SchedulerTypeCorrect`, `OneFateEach`.
  `RunInv`: run ids are minted in order, a run that is going has no outcome yet, and
  the in-flight map names exactly the schedules with one run going. `StatusTruthful`
  rests on it: a late failure only changes the row when `lastRun` is still the run it
  belongs to, and one that came too early (`early`) changes none. Neither of these two needs
  anything of occurrences, and none of the four has a hypothesis. The other two begin with what `decideDue` computes: the
  next occurrence exists, lies ahead of what it was asked from, and is the first that
  does (`OccurrenceAhead`, `NextFire`, `DecidedIsGood`). `PlaceInv` then bounds every
  due time, in the table and in another process's copy of it. `FateInv`, for
  `OccurrenceFate`, says of a schedule no other writer touched that everything taken or
  reported lies before the anchor of the row, apart from each other (`Ordered`), and, as long as
  the machine has not slept through a timer, that the timer of a live process is not late
  (`Punctual`); an occurrence is then passed over only by the step that takes or reports it.
  `KeptInv` follows what is taken: its run begins, is held with the in-flight map saying so, or
  is lost, in each step that can do it.
* `ReloadProofs!ReloadTypeCorrect`, `SwapsIdle`, without any restriction on races
  and overlaps. `SwappedStaysIdle` is not inductive: a turn is kept out only
  while the old instance defers, and a failing reload switches that off.
  `SwapInv` says that from `complete()` on the old instance defers and has no
  turn (`Sealed`), that no two waiting reloads swap one instance (`OneSwap`, since
  the second would need a turn to end there), and that an instance that left
  `#agents` does not return (`GoneForGood`), so the only reload that can reopen
  it is its own, when it has failed. `OrderInv` ties promises, instances and
  reloads together.
  `NothingWedges` has no hypothesis either. `WedgeInv`: the instance a pending reload waits
  for calls it back unless the reload was `raced` (`PendingRetires`), and an instance that still
  serves retires, holding or not, only into a reload that goes on or a dispose, but for
  `superseded` reloads and `orphaned` instances (`RetireIsAnswered`).
* `InboundProofs!InboundTypeCorrect`, `ConversationsInOrder`, `ActedOnOnce`,
  `RepliesAreRemembered`, `NothingIsLeftBehind`, with every failure and crash on. The slots of
  requests whose claim threw are excepted in the last, since the code loses them. The
  invariant joins, for each stage of a job, where it is queued and what the store says of it.
  `ChainInv`: the chain of a session has each of its turns once, and one that runs
  or has run is its head, so no other turn of the session is between reading and
  appending (`HistoryCurrent`: the history is still the one it read). `HubInv` is the
  same of a chat's queue, with ids in order, and `HistInv` that what a history holds came before what
  the chat still queues, from which the order of messages follows. `SeenInv` says that the window holds
  exactly the last messages heard, each at the place its number gives; `KeyInv` that
  a turn past its claim is the one its key names; `Balance` that the slots are the
  jobs inside `send`, plus those leaked by a claim that threw.
* `LoopProofs!LoopTypeCorrect`, `WritesAreGated`, `RepairsAreSound`, `WhatWasDoneIsKept`,
  `RepeatsAreBounded`. `WriteGate`: the taint that a decision reads is joined only when a
  group is done, and `SeenInv` bounds the lag (what was returned is known to the turn
  between steps, and within a step to the executor from the current group on), which
  suffices because a write is a group of its own (`GroupInv`). Repairs: no entry
  of the trace is of a step to come (`PastInv`), an executing step has no entry that
  forbids it (`IdleInv`), and after a repair the flag is set (`LastRepaired`).
  `WhatWasDoneIsKept` has the condition `NoMoveWithWrite`, that no reply both writes and
  moves the phase; `loop_phase` is the counterexample, so the theorem says that this is the
  only one: `NotedInv` (a write that worked is noted, or is among the results of the
  step), `VisibleInv` (a step with a write is still in the catalogue it was resolved
  in), and `DeferInv`. `RepeatsAreBounded`: the loop never counts a row of
  equal calls. It has a ring that forgets and a count of retries per signature;
  `RunInv` says of every suffix of the trace how long it can be, given the two.
* `StreamsProofs!StreamTypeCorrect`, `InterestIsOwned`, `BuffersLiveLongEnough`,
  `StreamsTellTheTruth`, buffers that are opened again included. `Reading`: the listeners of a
  buffer are the open streams of its turn, and such a buffer is running. `Mirrored`: a
  buffer is the log since it was opened (`base`) without the events it reports dropped. `Handed`: a client has of its
  turn what the log had at the attach, from the first event not dropped, tokens and all, and since then
  all it asked for; `Rising`:
  numbers only grow in what it has, which with the numbering of the bus gives order and no
  repetition, also across the merge of the subagents' events (`#withChildren`, whose
  sort is characterised by lemmas about `InOrder`). `Provenance`: the claim of a buffer to have tokens
  from the start is backed by interest it holds, so the log has every token, and by `Mirrored` the
  buffer has those it does not count as dropped (`ProvenanceTells`).
* `WebhooksProofs!WebhookTypeCorrect`, `AcknowledgedTruly`, `AttemptsAreBounded`, for any
  number of processes. `AckInv`: as long as no start took a row back and no answer was caught, one process at most has
  an attempt of it, the row is in flight while it does, and it is acknowledged only
  through that attempt; a row once taken back keeps its mark. `CountInv` is needed because a
  late outcome of an attempt with a low number can put up a row whose counter is
  past the backoff: it gives every attempt in hand a number of its own and lets the
  enqueue, a start that took the row back, or a number that is then spent pay for each
  attempt (`Paid`).

Where a proof needs induction over data (the last call of a group, the first
occurrence after a time, the sort of a replay), it takes a least element instead:
`WFMin` and `NatLessThanWellFounded` have no operator parameter and give the least number of a set
(`LeastNumber`, `MinIs`).

Every safety property that a passing run checks, invariant, action property or
refinement, is stated by a theorem. Only model-checked are the liveness properties,
since fairness is out of the prover's reach: `ReplyResolved`, `EverySettles`,
`DeadLeaseRecovered`, `DueIsTaken`, `OneShotRuns`, `ReloadResolves`, `Answered`,
`TurnEnds`, `DeliverySettles`.

## 6. Not modelled, and the plan

Not modelled because a model would say little: text splitting and formatting,
manifests and their edits, context assembly, memory search, model protocols,
transports, web and CLI presentation, calendar arithmetic. These are most of the
repository by lines: the web interface, the command line with its dialogues, the
client, the transports and providers, the schemas and the documentation tools hold no
state that two steps share. The models cover the part of `packages/core` and
`packages/server` that does.

Left out of modelled components: plugin middleware, compaction and usage in the turn
loop; voice, images and speech in the hub; the WebSocket bridge, a second reader of
the turn streams that takes its interest in tokens before it checks the scope of the
connection; the health columns of a webhook subscription.

Planned, in this order:

1. The safety part of the liveness properties as theorems
   (that a row which is due has a timer armed, that a held turn has a promise somebody settles), and
   `SoleOwner` under weaker conditions than `~Overlap` and `~Lapses`.
2. Shorter proofs: `StreamsProofs`, `LoopProofs` and `InboundProofs` prove facts about
   sequences that could be lemmas of one module.
3. **Conversations and teams** (`runtime/conversations.ts`, `team/`), the WebSocket bridge,
   then the control plane's placement.
4. A second process in `Inbound` that takes the lease of a sleeping one: `turns.finish`
   updates by id alone, so a turn that was reaped as abandoned may be written back.
