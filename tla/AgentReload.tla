----------------------------- MODULE AgentReload -----------------------------
(***************************************************************************)
(* Reloading an agent while turns run: Runtime.reload, replace, dispose    *)
(* and adopt of runtime/runtime.ts, and the admission of turns in          *)
(* runtime/agent.ts.                                                       *)
(*                                                                         *)
(* One agent id.  An instance is one Agent object; 0 is the one the        *)
(* runtime booted with and r the one that reload r adopted.  Each await of *)
(* a reload is a phase it stands in: anything else may run before its next *)
(* step.  A turn is a surface (a route, a channel, a socket) that finds    *)
(* the agent, asks it for admission later, and then runs or is held with a *)
(* ticket for the successor a reload promised.                             *)
(***************************************************************************)
EXTENDS Naturals, FiniteSets

CONSTANTS
    Turns,        \* surfaces that start turns, one after another
    MaxReloads,   \* bound: reloads asked for over a behaviour
    Cap,          \* limits.maxConcurrentTurns
    None,         \* no instance, no reload
    Disposes      \* the agent may be disposed, and the runtime stopped

ASSUME ReloadConstants ==
    /\ MaxReloads \in Nat /\ Cap \in Nat \ {0}
    /\ None \notin Nat
    /\ Disposes \in BOOLEAN

Reloads == 1 .. MaxReloads
Instances == {0} \cup Reloads

VARIABLES
    hosted,   \* the instance in #agents, or None
    stopped,  \* #stopped
    closing,  \* a requested dispose is between its checks and its deletions
    pending,  \* the reload in #reloads, or None
    phase,    \* [Reloads -> Phase]
    waited,   \* reloads that found turns running and waited for them
    old,      \* [Reloads -> Instances \cup {None}], agents[0] of the reload
    armed,    \* reloads whose hold timer runs
    settled,  \* reloads whose successor promise is settled
    heir,     \* [Reloads -> Instances \cup {None}], its value; None when rejected
    retire,   \* [Instances -> Reloads \cup {None}], #successor and #onIdle
    holding,  \* instances with #holding
    seen,     \* [Turns -> Instances \cup {None}], the object a surface has found
    running,  \* [Turns -> Instances \cup {None}], where a turn has its slot
    ticket,   \* [Turns -> Reloads \cup {None}], DEFERRED
    \* History.
    raced,      \* reloads that began to wait when no turn was running any more
    superseded, \* reloads whose entry in #reloads another one overwrote
    orphaned    \* instances whose reload a dispose gave up before it refused

runtime == <<hosted, stopped, closing>>
reload == <<pending, phase, waited, old, armed, settled, heir>>
agent == <<retire, holding>>
turns == <<seen, running, ticket>>
history == <<raced, superseded, orphaned>>
vars == <<runtime, reload, agent, turns, history>>

\* "checking" is the trial of a busy reload, "trial", "dispose" and "adopt" the
\* awaits of replace, "starting" the rest of adopt once the agent is hosted.
Phase == {"off", "checking", "waiting", "trial", "dispose", "adopt", "starting", "done"}

InFlight(i) == {t \in Turns : running[t] = i}
Going(r) == phase[r] \notin {"off", "done"}

Init ==
    /\ hosted = 0 /\ stopped = FALSE /\ closing = FALSE
    /\ pending = None
    /\ phase = [r \in Reloads |-> "off"]
    /\ waited = {} /\ armed = {} /\ settled = {}
    /\ old = [r \in Reloads |-> None]
    /\ heir = [r \in Reloads |-> None]
    /\ retire = [i \in Instances |-> None]
    /\ holding = {}
    /\ seen = [t \in Turns |-> None]
    /\ running = [t \in Turns |-> None]
    /\ ticket = [t \in Turns |-> None]
    /\ raced = {} /\ superseded = {} /\ orphaned = {}

------------------------------------------------------------------------------
(* Reloads *)

Go(r, p) == phase' = [phase EXCEPT ![r] = p]

\* PendingReload.abandon of the pending reload, if there is one: its timer is
\* cleared and its successor rejected.
Unarmed == armed \ {pending}
Abandoned == settled \cup ({pending} \ {None})
Orphans == IF pending = None THEN {} ELSE {old[pending]}
GivenUp == [q \in Reloads |-> IF q = pending THEN "done" ELSE phase[q]]

\* reload(): joins the pending one, replaces an idle agent, or tries the
\* manifest first when turns are running.
Ask(r) ==
    /\ phase[r] = "off" /\ hosted # None
    /\ \A q \in Reloads : q < r => phase[q] # "off"
    /\ old' = [old EXCEPT ![r] = hosted]
    /\ Go(r, IF pending # None THEN "done"
             ELSE IF InFlight(hosted) = {} THEN "trial" ELSE "checking")
    /\ UNCHANGED <<runtime, pending, waited, armed, settled, heir, agent, turns, history>>

\* The first trial of a busy reload refuses the manifest ...
CheckFails(r) ==
    /\ phase[r] = "checking"
    /\ Go(r, "done")
    /\ UNCHANGED <<runtime, pending, waited, old, armed, settled, heir, agent, turns, history>>

\* ... or the reload is pending: retireInto, the hold timer, #reloads.set.  Neither
\* the running turns nor #reloads are looked at again after the trial.
Retire(r) ==
    /\ phase[r] = "checking"
    /\ Go(r, "waiting")
    /\ retire' = [retire EXCEPT ![old[r]] = r]
    /\ pending' = r
    /\ waited' = waited \cup {r}
    /\ armed' = armed \cup {r}
    /\ raced' = IF InFlight(old[r]) = {} THEN raced \cup {r} ELSE raced
    /\ superseded' = superseded \cup ({pending} \ {None})
    /\ orphaned' = orphaned \ {old[r]}
    /\ UNCHANGED <<runtime, old, settled, heir, holding, turns>>

\* holdNewTurns of an instance that is being replaced.
Held(i) == IF retire[i] # None THEN holding \cup {i} ELSE holding

\* Mutant: the hold timer fires and nothing is held.
HoldElapsesIdle(r) ==
    /\ r \in armed
    /\ armed' = armed \ {r}
    /\ UNCHANGED <<runtime, pending, phase, waited, old, settled, heir, agent, turns, history>>

\* reloadHoldMs has passed.
HoldElapses(r) ==
    /\ r \in armed
    /\ armed' = armed \ {r}
    /\ holding' = Held(old[r])
    /\ UNCHANGED <<runtime, pending, phase, waited, old, settled, heir, retire, turns, history>>

\* Mutant: the swap begins without holding new turns.
CompleteOpen(r) ==
    IF pending = r
    THEN /\ pending' = None
         /\ armed' = armed \ {r}
         /\ Go(r, "trial")
         /\ UNCHANGED <<holding, settled>>
    ELSE UNCHANGED <<pending, armed, phase, holding, settled>>

\* complete(), up to the trial of replace; replace refuses an id nobody hosts,
\* and the held turns are rejected.
Complete(r) ==
    IF pending = r
    THEN /\ pending' = None
         /\ armed' = armed \ {r}
         /\ holding' = Held(old[r])
         /\ Go(r, IF hosted = None THEN "done" ELSE "trial")
         /\ settled' = IF hosted = None THEN settled \cup {r} ELSE settled
    ELSE UNCHANGED <<pending, armed, phase, holding, settled>>

\* Mutant: the held turns get the old instance back, which goes on holding.
FailedHolds(r, h, s) ==
    /\ settled' = IF r \in waited THEN s \cup {r} ELSE s
    /\ heir' = IF r \in waited /\ h = old[r] THEN [heir EXCEPT ![r] = old[r]] ELSE heir
    /\ UNCHANGED <<retire, holding>>

\* The catch of complete(), with h hosted and the promises s settled: while the
\* old instance is hosted, cancelRetire, and the held turns run on it; otherwise
\* they are rejected.  A reload that did not wait just reports.
Failed(r, h, s) ==
    IF r \in waited
    THEN /\ settled' = s \cup {r}
         /\ IF h = old[r]
            THEN /\ heir' = [heir EXCEPT ![r] = old[r]]
                 /\ retire' = [retire EXCEPT ![old[r]] = None]
                 /\ holding' = holding \ {old[r]}
            ELSE UNCHANGED <<heir, retire, holding>>
    ELSE settled' = s /\ UNCHANGED <<heir, retire, holding>>

\* replace(): the trial refuses the manifest, ...
TrialFails(r) ==
    /\ phase[r] = "trial"
    /\ Go(r, "done")
    /\ Failed(r, hosted, settled)
    /\ UNCHANGED <<runtime, pending, waited, old, armed, turns, history>>

\* dispose returned: adopt() begins, unless the runtime has stopped.
AdoptBegins(r) ==
    IF stopped THEN Go(r, "done") /\ Failed(r, None, settled)
    ELSE Go(r, "adopt") /\ UNCHANGED <<settled, heir, agent>>

\* ... or passes, and dispose finds nobody, ...
NothingToDispose(r) ==
    /\ phase[r] = "trial" /\ hosted = None
    /\ AdoptBegins(r)
    /\ UNCHANGED <<runtime, pending, waited, old, armed, turns, history>>

\* ... or gives up the pending reload and then refuses a busy agent, ...
DisposeRefuses(r) ==
    /\ phase[r] = "trial" /\ hosted # None /\ InFlight(hosted) # {}
    /\ pending' = None /\ armed' = Unarmed
    /\ phase' = [GivenUp EXCEPT ![r] = "done"]
    /\ Failed(r, hosted, Abandoned)
    /\ orphaned' = orphaned \cup Orphans
    /\ UNCHANGED <<runtime, waited, old, turns, raced, superseded>>

\* ... or goes on: channels and providers are closed, and it is forgotten.
DisposeBegins(r) ==
    /\ phase[r] = "trial" /\ hosted # None /\ InFlight(hosted) = {}
    /\ pending' = None /\ armed' = Unarmed /\ settled' = Abandoned
    /\ phase' = [GivenUp EXCEPT ![r] = "dispose"]
    /\ UNCHANGED <<runtime, waited, old, heir, agent, turns, history>>

Disposed(r) ==
    /\ phase[r] = "dispose"
    /\ hosted' = None
    /\ AdoptBegins(r)
    /\ UNCHANGED <<stopped, closing, pending, waited, old, armed, turns, history>>

\* adopt() is refused because the id is hosted again, or throws on its own,
\* before #admit of the new instance or after it.
AdoptFails(r) ==
    /\ phase[r] \in {"adopt", "starting"}
    /\ Go(r, "done")
    /\ Failed(r, hosted, settled)
    /\ UNCHANGED <<runtime, pending, waited, old, armed, turns, history>>

Adopted(r) ==
    /\ phase[r] = "adopt" /\ hosted = None
    /\ hosted' = r
    /\ Go(r, "starting")
    /\ UNCHANGED <<stopped, closing, pending, waited, old, armed, settled, heir, agent, turns, history>>

\* Mutant: a promise is settled that was never made.
SettleAny(r) == settled' = settled \cup {r} /\ heir' = [heir EXCEPT ![r] = hosted]

\* The held turns get whoever is hosted now, or a refusal when nobody is.
Settle(r) ==
    IF r \in waited
    THEN /\ settled' = settled \cup {r}
         /\ heir' = [heir EXCEPT ![r] = hosted]
    ELSE UNCHANGED <<settled, heir>>

Loaded(r) ==
    /\ phase[r] = "starting"
    /\ Go(r, "done")
    /\ Settle(r)
    /\ UNCHANGED <<runtime, pending, waited, old, armed, agent, turns, history>>

------------------------------------------------------------------------------
(* A dispose of its own, and stop *)

\* The pending reload is given up before the running turns are counted.
AskDispose ==
    /\ Disposes /\ hosted # None /\ ~closing
    /\ pending' = None /\ armed' = Unarmed /\ settled' = Abandoned /\ phase' = GivenUp
    /\ closing' = (InFlight(hosted) = {})
    /\ orphaned' = orphaned \cup IF InFlight(hosted) = {} THEN {} ELSE Orphans
    /\ UNCHANGED <<hosted, stopped, waited, old, heir, agent, turns, raced, superseded>>

CloseEnds ==
    /\ closing
    /\ closing' = FALSE /\ hosted' = None
    /\ UNCHANGED <<stopped, reload, agent, turns, history>>

\* stop() gives up every pending reload; running turns are not cancelled.
Stop ==
    /\ Disposes /\ ~stopped
    /\ stopped' = TRUE
    /\ pending' = None /\ armed' = Unarmed /\ settled' = Abandoned /\ phase' = GivenUp
    /\ UNCHANGED <<hosted, closing, waited, old, heir, agent, turns, history>>

------------------------------------------------------------------------------
(* Turns *)

\* A surface finds the agent, and awaits a body, an image or a transcript.
Find(t) ==
    /\ seen[t] = None /\ running[t] = None /\ ticket[t] = None
    /\ hosted # None
    /\ seen' = [seen EXCEPT ![t] = hosted]
    /\ UNCHANGED <<runtime, reload, agent, running, ticket, history>>

Deferring(i) == i \in holding /\ retire[i] # None

\* #deferred: a ticket for the successor, and no slot.
Defer(t) ==
    /\ seen[t] # None /\ Deferring(seen[t])
    /\ ticket' = [ticket EXCEPT ![t] = retire[seen[t]]]
    /\ seen' = [seen EXCEPT ![t] = None]
    /\ UNCHANGED <<runtime, reload, agent, running, history>>

\* #takeSlot, and its refusal.
Admit(t) ==
    /\ seen[t] # None /\ ~Deferring(seen[t])
    /\ running' = IF Cardinality(InFlight(seen[t])) < Cap
                  THEN [running EXCEPT ![t] = seen[t]] ELSE running
    /\ seen' = [seen EXCEPT ![t] = None]
    /\ UNCHANGED <<runtime, reload, agent, ticket, history>>

\* send() of a held turn goes on with the instance it was promised, or throws.
Resume(t) ==
    /\ ticket[t] \in settled
    /\ seen' = [seen EXCEPT ![t] = heir[ticket[t]]]
    /\ ticket' = [ticket EXCEPT ![t] = None]
    /\ UNCHANGED <<runtime, reload, agent, running, history>>

\* #settle: a turn ends or gives its slot back, and the last one calls #onIdle.
TurnEnds(t) ==
    /\ running[t] # None
    /\ running' = [running EXCEPT ![t] = None]
    /\ LET i == running[t]
           last == InFlight(i) = {t}
       IN  IF last /\ retire[i] # None THEN Complete(retire[i])
           ELSE UNCHANGED <<pending, armed, phase, holding, settled>>
    /\ UNCHANGED <<runtime, waited, old, heir, retire, seen, ticket, history>>

------------------------------------------------------------------------------
ReloadStep(r) ==
    \/ CheckFails(r) \/ Retire(r)
    \/ TrialFails(r) \/ NothingToDispose(r) \/ DisposeRefuses(r) \/ DisposeBegins(r)
    \/ Disposed(r) \/ AdoptFails(r) \/ Adopted(r) \/ Loaded(r)

Surface(t) == Defer(t) \/ Admit(t) \/ Resume(t)

Next ==
    \/ \E r \in Reloads : Ask(r) \/ HoldElapses(r) \/ ReloadStep(r)
    \/ AskDispose \/ CloseEnds \/ Stop
    \/ \E t \in Turns : Find(t) \/ Surface(t) \/ TurnEnds(t)

Spec == Init /\ [][Next]_vars

\* Every await of a reload comes back, the hold timer fires, a surface goes on
\* with the agent it found, and a turn ends (its timeout sees to that).  Nobody
\* is obliged to ask for anything.
FairSpec ==
    /\ Spec
    /\ WF_vars(CloseEnds)
    /\ \A r \in Reloads : WF_vars(ReloadStep(r)) /\ WF_vars(HoldElapses(r))
    /\ \A t \in Turns : WF_vars(Surface(t)) /\ WF_vars(TurnEnds(t))

------------------------------------------------------------------------------
(* Properties *)

TypeOK ==
    /\ hosted \in Instances \cup {None}
    /\ {stopped, closing} \subseteq BOOLEAN
    /\ pending \in Reloads \cup {None}
    /\ phase \in [Reloads -> Phase]
    /\ waited \subseteq Reloads /\ armed \subseteq waited /\ settled \subseteq waited
    /\ old \in [Reloads -> Instances \cup {None}]
    /\ heir \in [Reloads -> Instances \cup {None}]
    /\ retire \in [Instances -> Reloads \cup {None}]
    /\ holding \subseteq Instances
    /\ seen \in [Turns -> Instances \cup {None}]
    /\ running \in [Turns -> Instances \cup {None}]
    /\ ticket \in [Turns -> Reloads \cup {None}]
    /\ raced \subseteq waited /\ superseded \subseteq waited /\ orphaned \subseteq Instances

\* "the swap happens the moment none is left": a pending reload has a running turn
\* whose end will complete it, unless its last turn ended in its trial (raced).
PendingHasTurn == pending # None => InFlight(old[pending]) # {} \/ pending \in raced

\* A reload that waited swaps an idle instance, and no turn gets in on it from
\* the moment its dispose begins, not even from a surface that found it before.
SwappedStaysIdle ==
    \A r \in waited :
        (phase[r] \in {"dispose", "adopt", "starting"} \/ heir[r] \notin {None, old[r]})
        => InFlight(old[r]) = {}

\* The reload is waited for by #onIdle, or is on its way through replace.
Alive(r) == phase[r] \in {"trial", "dispose", "adopt", "starting"} \/ pending = r

Leaving == closing \/ \E r \in Reloads : phase[r] = "dispose"

\* The hosted agent holds turns back only for a reload that will let it go, or while
\* it is being disposed; unless that reload was overwritten by another, or given up
\* by a dispose that then refused.
HoldIsAnswered ==
    hosted # None /\ ~stopped /\ Deferring(hosted) =>
        Alive(retire[hosted]) \/ Leaving \/ retire[hosted] \in superseded \/ hosted \in orphaned

\* Reloads, turns, disposals and a stop wedge the agent in three ways and no other:
\* what is pending has something to complete it and who holds has somebody to answer,
\* but for a reload whose last turn ended in its first trial, one that another reload
\* overwrote, and one that a dispose gave up before it refused a busy agent.
NeverWedged == PendingHasTurn /\ HoldIsAnswered

\* Reloads that nothing will complete.
Stranded == raced \cup superseded

\* A held turn is let go, since "a held turn that is never resolved is a hang"; unless
\* it was promised the successor of a stranded reload.
HeldResolved == \A t \in Turns : ticket[t] # None ~> ticket[t] \in {None} \cup Stranded

\* An agent that is never idle by itself cannot postpone a reload for ever.
ReloadHappens == \A r \in Reloads : Going(r) ~> ~Going(r) \/ r \in Stranded

\* Neither a held turn nor a reload is left hanging, but for a reload whose last turn
\* ended in its first trial or that another reload overwrote.
ReloadResolves == HeldResolved /\ ReloadHappens
==============================================================================
