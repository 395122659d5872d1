------------------------------ MODULE Webhooks ------------------------------
(***************************************************************************)
(* The webhook dispatcher of webhooks/webhooks.ts, one per process, over   *)
(* the subscriptions and deliveries they share in the store.               *)
(*                                                                         *)
(* The events are those of one agent that every process lists.  A delivery *)
(* is the row of a subscription and an event; its webhook-id is derived    *)
(* from the two, so the pair is its identity.  The backoff of a retry is   *)
(* reduced to due or not due, and the health columns of a subscription are *)
(* left out.                                                               *)
(***************************************************************************)
EXTENDS Integers, FiniteSets

CONSTANTS
    Procs, Subs, Events,
    Heard,        \* [Events -> SUBSET Subs], who hears an event (webhookHears)
    Warned,       \* the subscriptions that hear agent.warning
    Retries,      \* the length of the backoff
    Batch,        \* BATCH, what one drain claims at most
    MaxExits,     \* bound: how often a process ends
    StoreFails    \* a write may fail: a store that is full or read-only

ASSUME WebhookConstants ==
    /\ Heard \in [Events -> SUBSET Subs] /\ Warned \subseteq Subs
    /\ Retries \in Nat /\ Batch \in Nat \ {0} /\ MaxExits \in Nat
    /\ StoreFails \in BOOLEAN
    /\ IsFiniteSet(Procs) /\ IsFiniteSet(Subs) /\ IsFiniteSet(Events)

VARIABLES
    subs,       \* webhook_subscriptions
    made,       \* subscription ids that were ever created
    rows,       \* webhook_deliveries, [Subs \X Events -> Row]
    phase,      \* [Procs -> {"down", "attached", "started", "spinning"}]
    cache,      \* #subscriptions of each process
    work,       \* [Procs -> SUBSET Attempt], what a drain of the process is sending
    emitted,    \* the events that happened
    exits,
    acked,      \* history: the deliveries a receiver answered with 2xx
    caught,     \* history: those whose answer ended in the catch of #attempt
    recovered   \* history: [Subs \X Events -> Nat], times a start took the row back

storeVars == <<subs, made, rows>>
procVars == <<phase, cache, work>>
histVars == <<acked, caught, recovered>>
vars == <<storeVars, procVars, emitted, exits, histVars>>

Keys == Subs \X Events

Row == [status : {"none", "pending", "inflight", "sent", "failed"}, attempts : Nat,
        uncertain : BOOLEAN, due : BOOLEAN]

NoRow == [status |-> "none", attempts |-> 0, uncertain |-> FALSE, due |-> FALSE]

\* An attempt holds the row as it was claimed and, once there is one, its outcome.
\* "caught" is a 2xx that the sender did not get to record.
Outcomes == {"ok", "caught", "error", "permanent"}
Attempt == [key : Keys, attempts : Nat, outcome : Outcomes \cup {"none"}]

Up(p) == phase[p] \in {"attached", "started"}

Init ==
    /\ subs = {} /\ made = {} /\ rows = [k \in Keys |-> NoRow]
    /\ phase = [p \in Procs |-> "down"] /\ cache = [p \in Procs |-> {}]
    /\ work = [p \in Procs |-> {}]
    /\ emitted = {} /\ exits = 0
    /\ acked = {} /\ caught = {} /\ recovered = [k \in Keys |-> 0]

------------------------------------------------------------------------------
(* Processes *)

\* attach, during the boot: the subscriptions are read and events are heard.
Attach(p) ==
    /\ phase[p] = "down"
    /\ phase' = [phase EXCEPT ![p] = "attached"]
    /\ cache' = [cache EXCEPT ![p] = subs]
    /\ UNCHANGED <<storeVars, work, emitted, exits, histVars>>

\* Mutant: a recovered row is not marked as uncertain.
StartCertain(p) ==
    LET left == {k \in Keys : rows[k].status = "inflight"}
    IN  /\ phase[p] = "attached"
        /\ phase' = [phase EXCEPT ![p] = "started"]
        /\ rows' = [k \in Keys |-> IF k \in left THEN [rows[k] EXCEPT !.status = "pending"]
                                   ELSE rows[k]]
        /\ recovered' = [k \in Keys |-> recovered[k] + (IF k \in left THEN 1 ELSE 0)]
        /\ UNCHANGED <<subs, made, cache, work, emitted, exits, acked, caught>>

\* start: every row of the agent that is in flight is taken back, whoever sends it.
Start(p) ==
    LET left == {k \in Keys : rows[k].status = "inflight"}
    IN  /\ phase[p] = "attached"
        /\ phase' = [phase EXCEPT ![p] = "started"]
        /\ rows' = [k \in Keys |->
                      IF k \in left
                      THEN [rows[k] EXCEPT !.status = "pending", !.uncertain = TRUE]
                      ELSE rows[k]]
        /\ recovered' = [k \in Keys |-> recovered[k] + (IF k \in left THEN 1 ELSE 0)]
        /\ UNCHANGED <<subs, made, cache, work, emitted, exits, acked, caught>>

\* A stop or a crash: what was being sent is not recorded any more.
Exit(p) ==
    /\ phase[p] # "down" /\ exits < MaxExits
    /\ exits' = exits + 1
    /\ phase' = [phase EXCEPT ![p] = "down"]
    /\ cache' = [cache EXCEPT ![p] = {}] /\ work' = [work EXCEPT ![p] = {}]
    /\ UNCHANGED <<storeVars, emitted, histVars>>

------------------------------------------------------------------------------
(* Subscriptions and events *)

\* The routes: the store is written and the process that did re-reads it (changed).
Create(p, s) ==
    /\ Up(p) /\ s \notin made
    /\ made' = made \cup {s} /\ subs' = subs \cup {s}
    /\ cache' = [cache EXCEPT ![p] = subs']
    /\ UNCHANGED <<rows, phase, work, emitted, exits, histVars>>

\* The deliveries go with their subscription (ON DELETE CASCADE).
Delete(p, s) ==
    /\ Up(p) /\ s \in subs
    /\ subs' = subs \ {s}
    /\ rows' = [k \in Keys |-> IF k[1] = s THEN NoRow ELSE rows[k]]
    /\ cache' = [cache EXCEPT ![p] = subs']
    /\ UNCHANGED <<made, phase, work, emitted, exits, histVars>>

Fresh == [NoRow EXCEPT !.status = "pending", !.due = TRUE]

\* #enqueue on the process whose bus carried the event: INSERT OR IGNORE for each
\* subscription it knows of.  A subscription that is gone fails the foreign key.  A
\* failure is reported as an agent.warning, an event as well: when enqueueing that
\* one fails too, the next warning follows in the same turn of the event loop, and
\* the process never leaves it.
Emit(p, e, full) ==
    LET hearing == cache[p] \cap Heard[e]
        lost(S) == IF full THEN S ELSE S \ subs
        loops == lost(hearing) # {} /\ lost(cache[p] \cap Warned) # {}
    IN  /\ Up(p) /\ (full => StoreFails)
        /\ e \notin emitted /\ emitted' = emitted \cup {e}
        /\ rows' = [k \in Keys |->
                      IF k[2] = e /\ k[1] \in hearing \ lost(hearing) /\ rows[k].status = "none"
                      THEN Fresh ELSE rows[k]]
        /\ phase' = IF loops THEN [phase EXCEPT ![p] = "spinning"] ELSE phase
        /\ UNCHANGED <<subs, made, cache, work, exits, histVars>>

------------------------------------------------------------------------------
(* Sending *)

\* The time of a row's next attempt comes.
Elapse(k) ==
    /\ rows[k].status = "pending" /\ ~rows[k].due
    /\ rows' = [rows EXCEPT ![k].due = TRUE]
    /\ UNCHANGED <<subs, made, procVars, emitted, exits, histVars>>

\* Mutant: only a first attempt is ever due.
DueFirst == {k \in Keys : rows[k].status = "pending" /\ rows[k].due /\ rows[k].attempts = 0}

Due == {k \in Keys : rows[k].status = "pending" /\ rows[k].due}

Most(S) == IF Cardinality(S) < Batch THEN Cardinality(S) ELSE Batch

\* drain, when the last one is over: up to a batch is claimed, and a row whose
\* subscription this process does not know, or that is gone, is failed.
Drain(p) ==
    /\ phase[p] = "started" /\ work[p] = {} /\ Due # {}
    /\ \E claim \in SUBSET Due :
        LET known == {k \in claim : k[1] \in cache[p] \cap subs}
        IN  /\ Cardinality(claim) = Most(Due)
            /\ rows' = [k \in Keys |->
                          IF k \in claim
                          THEN [rows[k] EXCEPT !.attempts = @ + 1,
                                               !.status = IF k \in known THEN "inflight" ELSE "failed"]
                          ELSE rows[k]]
            /\ work' = [work EXCEPT ![p] =
                          {[key |-> k, attempts |-> rows[k].attempts + 1, outcome |-> "none"]
                             : k \in known}]
    /\ UNCHANGED <<subs, made, phase, cache, emitted, exits, histVars>>

\* The attempt of process p goes on with outcome o.
Answered(p, a, o) == work' = [work EXCEPT ![p] = (@ \ {a}) \cup {[a EXCEPT !.outcome = o]}]

\* The target is checked and the request sent.  It is acknowledged; or it is, and
\* the sender does not hear of it: the answer comes after the abort, or to discard its
\* body throws; or the failure is permanent, a refused target (nothing was sent) or
\* an answer of 410 or a redirect; or it may pass: another answer, a timeout, a name
\* that does not resolve.
Send(p, a, o) ==
    /\ phase[p] = "started" /\ a \in work[p] /\ a.outcome = "none" /\ o \in Outcomes
    /\ Answered(p, a, o)
    /\ acked' = IF o \in {"ok", "caught"} THEN acked \cup {a.key} ELSE acked
    /\ caught' = IF o = "caught" THEN caught \cup {a.key} ELSE caught
    /\ UNCHANGED <<storeVars, phase, cache, emitted, exits, recovered>>

\* markSent throws, and its throw is caught like one of the request.  (A throw of
\* markRetry or markFailed is caught by nobody and ends the process: Exit.)
MarkThrows(p, a) ==
    /\ StoreFails
    /\ phase[p] = "started" /\ a \in work[p] /\ a.outcome = "ok"
    /\ Answered(p, a, "caught")
    /\ caught' = caught \cup {a.key}
    /\ UNCHANGED <<storeVars, phase, cache, emitted, exits, acked, recovered>>

\* Mutant: the last retry is not counted.
VerdictOneMore(a) ==
    IF a.outcome = "ok" THEN "sent"
    ELSE IF a.outcome = "permanent" \/ a.attempts > Retries + 1 THEN "failed"
    ELSE "pending"

\* Mutant: a refused target has a status of its own.
VerdictRefused(a) ==
    IF a.outcome = "ok" THEN "sent"
    ELSE IF a.outcome = "permanent" THEN "refused"
    ELSE IF a.attempts > Retries THEN "failed"
    ELSE "pending"

\* #retryOrFail, with the attempts of the row as it was claimed.
Verdict(a) ==
    IF a.outcome = "ok" THEN "sent"
    ELSE IF a.outcome = "permanent" \/ a.attempts > Retries THEN "failed"
    ELSE "pending"

\* markSent, markRetry and markFailed: by the row's key alone.
Mark(p, a) ==
    /\ phase[p] = "started" /\ a \in work[p] /\ a.outcome # "none"
    /\ work' = [work EXCEPT ![p] = @ \ {a}]
    /\ rows' = IF rows[a.key].status = "none" THEN rows
               ELSE [rows EXCEPT ![a.key].status = Verdict(a),
                                 ![a.key].due = IF Verdict(a) = "pending" THEN FALSE ELSE @]
    /\ UNCHANGED <<subs, made, phase, cache, emitted, exits, histVars>>

Next ==
    \/ \E p \in Procs : Attach(p) \/ Start(p) \/ Exit(p) \/ Drain(p)
    \/ \E p \in Procs, s \in Subs : Create(p, s) \/ Delete(p, s)
    \/ \E p \in Procs, e \in Events, full \in BOOLEAN : Emit(p, e, full)
    \/ \E k \in Keys : Elapse(k)
    \/ \E p \in Procs : \E a \in work[p] :
          Mark(p, a) \/ MarkThrows(p, a) \/ \E o \in Outcomes : Send(p, a, o)

Spec == Init /\ [][Next]_vars

\* A boot is completed, the interval fires, a request is answered or times out, and
\* an outcome is recorded.  Nothing is assumed of the receiver's answers.
Fairness ==
    /\ \A p \in Procs : /\ WF_vars(Start(p)) /\ WF_vars(Drain(p))
                        /\ WF_vars(\E a \in work[p], o \in Outcomes : Send(p, a, o))
                        /\ WF_vars(\E a \in work[p] : Mark(p, a))
    /\ \A k \in Keys : WF_vars(Elapse(k))

FairSpec == Spec /\ Fairness

------------------------------------------------------------------------------
(* Properties *)

\* Every variable keeps its type, a process sends nothing before it started, and
\* attempts are counted on the rows.
TypeOK ==
    /\ subs \subseteq made /\ made \subseteq Subs /\ rows \in [Keys -> Row]
    /\ phase \in [Procs -> {"down", "attached", "started", "spinning"}]
    /\ cache \in [Procs -> SUBSET Subs] /\ work \in [Procs -> SUBSET Attempt]
    /\ emitted \subseteq Events /\ exits \in 0..MaxExits
    /\ acked \subseteq Keys /\ caught \subseteq Keys /\ recovered \in [Keys -> Nat]

\* A delivery that is recorded as sent was acknowledged by its receiver.
SentWasAcked == \A k \in Keys : rows[k].status = "sent" => k \in acked

\* An acknowledged delivery that is owed again is known to be one: its row carries the
\* uncertain mark, or its acknowledgement ended in the catch of #attempt, which puts
\* the row up for a retry without the mark.  (The mark is the store's: the receiver has
\* the webhook-id to tell a copy by.)
AckedResendUncertain ==
    \A k \in acked : rows[k].status = "pending" => rows[k].uncertain \/ k \in caught

\* The record is true to what receivers acknowledged, and so is the mark where the
\* answer was heard.
AckTruth == SentWasAcked /\ AckedResendUncertain

\* A receiver is not sent a delivery for ever: once per step of the backoff and once
\* more, plus once for every time a start took the row back.
AttemptsBounded == \A k \in Keys : rows[k].attempts <= Retries + 1 + recovered[k]

\* A delivery does not wait for ever: it is sent, failed or deleted, or it is in
\* flight and its sender ended or hangs, or no process that sends is up.
DeliverySettles ==
    \A k \in Keys :
        rows[k].status = "pending" ~>
            \/ rows[k].status \in {"sent", "failed", "none"}
            \/ rows[k].status = "inflight"
                 /\ \A p \in Procs : phase[p] = "started" => \A a \in work[p] : a.key # k
            \/ \A p \in Procs : phase[p] \notin {"attached", "started"}

\* "Deliveries are sent by the process hosting the agent, so two processes on one
\* store never send the same one."
OneSender ==
    \A p, q \in Procs : \A a \in work[p], b \in work[q] : a.key = b.key => p = q

\* The error of a delivery that failed as "subscription deleted" is true.
\* (Drain with a subscription the store still has.)
FailedWasDeleted ==
    [][\A k \in Keys : rows[k].status = "pending" /\ rows'[k].status = "failed"
                         => k[1] \notin subs]_vars

\* A failed enqueue costs one delivery, and the process goes on.
NeverSpins == \A p \in Procs : phase[p] # "spinning"

=============================================================================
