------------------------------ MODULE TurnLoop ------------------------------
(***************************************************************************)
(* One turn: the loop of loop/turn.ts, the execution of what a step asks   *)
(* for in tools/execute.ts, the authorisation of a call in tools/policy.ts *)
(* and the registry of pending approvals in server/approvals.ts.           *)
(*                                                                         *)
(* The model and the handlers answer as they like.  A call of a tool is    *)
(* [tool, arg]; argument "bad" is one coercion refuses.  Text is kept as   *)
(* what the loop tells apart: nothing, prose, or a promise or claim to act *)
(* (silence.ts).  Prompt assembly, usage and events are left out, and so   *)
(* is plugin middleware: the agent has tools and no plugin.                *)
(***************************************************************************)
EXTENDS Integers, Sequences, FiniteSets

CONSTANTS
    Tools, Args,       \* a call is of a tool, with arguments
    Mutating, Untrusted, Alone, Withheld,   \* subsets of Tools: what their specs say
    PhaseTool,         \* phase_set; its argument is the phase to move to
    Phases, Visible,   \* [Phases -> SUBSET Tools], the catalogue in each phase
    Home,              \* the phase the session is in
    Policies,          \* configurations to choose from, records as in Policy
    Replies,           \* what a model call may return, records as in Reply
    MaxSteps, MaxParallel, IdenticalCalls, SameTool, TransientRetries,
    None

Actions == {"deny", "allow", "ask"}

\* tools.policy, tools.untrusted.onMutate, whether somebody can be asked, whether
\* a stand-in's mutating calls are deferred to the owner, and the sender's trust.
Policy ==
    [rule : [Tools -> {"deny", "allow", "none"}], mode : Actions,
     onMutate : {"refuse", "confirm", "allow"}, approver : BOOLEAN,
     noApprover : {"allow", "deny"}, defer : BOOLEAN, stranger : BOOLEAN]

Calls == [tool : Tools, arg : Args]

\* What a model call returns: its calls, its text, why it stopped, and whether one
\* of its calls could not be read.
Reply ==
    [intents : Seq(Calls), says : {"nothing", "prose", "promise"},
     finish : {"stop", "length", "refusal"}, malformed : BOOLEAN]

ASSUME LoopConstants ==
    /\ Mutating \cup Untrusted \cup Alone \cup Withheld \subseteq Tools
    /\ PhaseTool \in Tools \ (Mutating \cup Untrusted \cup Alone \cup Withheld)
    /\ Home \in Phases /\ Visible \in [Phases -> SUBSET Tools]
    /\ \A p \in Phases : PhaseTool \in Visible[p]
    /\ Policies \subseteq Policy
    /\ Replies \subseteq Reply
    /\ \A r \in Replies : \A i \in DOMAIN r.intents :     \* an enum of the phases
          r.intents[i].tool = PhaseTool => r.intents[i].arg \in Phases \cup {"bad"}
    /\ MaxSteps \in Nat \ {0} /\ MaxParallel \in Nat
    /\ IdenticalCalls \in Nat \ {0, 1} /\ SameTool \in Nat \ {0} /\ TransientRetries \in Nat
    /\ None \notin {r.intents : r \in Replies}

Signatures == {r.intents : r \in Replies}

VARIABLES
    policy, phase,
    pc,            \* "top" of the loop, "model" call, "exec"uting a step, "ended"
    cause,         \* link.cause: None, "stopped" or "timeout"; not None: aborted
    steps, repairs, nudged, answered, reason,
    recent,        \* recentCalls, the ring of the last signatures
    transient,     \* transientFailed
    retries,       \* transientRetries
    calls,         \* callsByTool
    said,          \* text # ""
    sideEffects, untrusted,
    trace,         \* what the turn would append, Seq of [kind, step, sig]
    kept,          \* the trace was appended
    plan, at,      \* the step's planned calls, and the first one not started
    group,         \* the calls of the running group, indices of plan
    st,            \* the status of each planned call
    taint,         \* executeIntents' own taint
    approvals,     \* the registry's entries, [step, call]
    deaf,          \* calls started, or asked about, when the turn was aborted already
    starts,        \* history: the handlers that were called
    effects,       \* history: the mutating calls that returned ok
    seen           \* history: an untrusted result has been returned

guardVars == <<recent, transient, retries>>
replyVars == <<calls, said>>
factVars == <<sideEffects, untrusted>>
endVars == <<answered, reason, kept>>
execVars == <<plan, at, group, st, taint>>
doneVars == <<phase, approvals, deaf, starts, effects, seen>>
vars == <<policy, pc, cause, steps, repairs, nudged, trace, guardVars, replyVars, factVars,
          endVars, execVars, doneVars>>

Entry(k) == [kind |-> k, step |-> steps, sig |-> <<>>]

Init ==
    /\ policy \in Policies /\ phase = Home
    /\ pc = "top" /\ cause = None
    /\ steps = 0 /\ repairs = 0 /\ nudged = FALSE /\ answered = FALSE /\ reason = "final"
    /\ recent = <<>> /\ transient = None
    /\ retries = [s \in Signatures |-> 0] /\ calls = [t \in Tools |-> 0]
    /\ said = FALSE
    /\ sideEffects = FALSE /\ untrusted = policy.stranger
    /\ trace = <<>> /\ kept = FALSE
    /\ plan = <<>> /\ at = 1 /\ group = {} /\ st = <<>> /\ taint = FALSE
    /\ approvals = {} /\ deaf = {} /\ starts = {} /\ effects = {} /\ seen = policy.stranger

------------------------------------------------------------------------------
(* How a turn ends *)

\* Mutant: a failed turn appends nothing, whatever it did.
AppendsForgets(why, acted) == why # "error"

\* The trace is appended unless the turn failed without having acted.
Appends(why, acted) == why # "error" \/ acted

\* The trace with the text of a reply that no message carries yet.
Written(r) == IF r.says = "nothing" THEN trace ELSE Append(trace, Entry("said"))

\* A break that has a reason, or a throw; an abort outranks both.
Finish(why, acted, written) ==
    LET r == IF cause # None THEN cause ELSE why
    IN  /\ pc' = "ended" /\ reason' = r
        /\ kept' = Appends(r, acted)
        /\ trace' = written
        /\ UNCHANGED <<policy, cause, steps>>

\* The loop's condition fails, or the abort check at its top breaks it.
Exhausted ==
    /\ pc = "top" /\ (steps >= MaxSteps \/ cause # None)
    /\ Finish("max_steps", sideEffects, trace)
    /\ UNCHANGED <<answered, repairs, nudged, guardVars, replyVars, factVars, execVars,
                   doneVars>>

------------------------------------------------------------------------------
(* A step up to its calls *)

BeginStep ==
    /\ pc = "top" /\ steps < MaxSteps /\ cause = None
    /\ pc' = "model" /\ steps' = steps + 1
    /\ UNCHANGED <<policy, cause, repairs, nudged, trace, guardVars, replyVars, factVars,
                   endVars, execVars, doneVars>>

\* The model call throws, or storing what compaction displaced does.
ModelThrows ==
    /\ pc = "model"
    /\ Finish("error", sideEffects, trace)
    /\ UNCHANGED <<answered, repairs, nudged, guardVars, replyVars, factVars, execVars,
                   doneVars>>

\* An aborted call returns the text it had and no more of the step.
ModelAborted(r) ==
    /\ pc = "model" /\ cause # None
    /\ said' = (said \/ r.says # "nothing")
    /\ Finish("final", sideEffects, Written(r))
    /\ UNCHANGED <<answered, repairs, nudged, guardVars, calls, factVars, execVars,
                   doneVars>>

\* callsByTool after the step.  Past the limit the count stops at the call that
\* passed it, and so does the turn.
Counted(s) ==
    [t \in Tools |-> calls[t] + Cardinality({i \in DOMAIN s : s[i].tool = t})]

\* The reason of a reply that ends the turn before its calls are looked at.
Verdict(r) ==
    IF r.finish = "length" /\ ~said /\ r.says = "nothing" /\ r.intents = <<>> THEN "error"
    ELSE IF \E t \in {r.intents[i].tool : i \in DOMAIN r.intents} :
               Counted(r.intents)[t] > SameTool THEN "no_progress"
    ELSE IF r.finish = "length" /\ r.intents = <<>> THEN "truncated"
    ELSE IF r.finish = "refusal" THEN "error"
    ELSE "none"

Returns(r) ==
    /\ pc = "model" /\ cause = None
    /\ said' = (said \/ r.says # "nothing")
    /\ calls' = Counted(r.intents)

EndsOnReply(r) ==
    /\ Returns(r) /\ Verdict(r) # "none"
    /\ Finish(Verdict(r), sideEffects, Written(r))
    /\ UNCHANGED <<answered, repairs, nudged, guardVars, factVars, execVars, doneVars>>

\* silenceOf: an empty reply after an observation, or a promise or a claim when
\* nothing has acted.
Silent(r) ==
    \/ r.says = "nothing" /\ \E i \in DOMAIN trace : trace[i].kind = "answer"
    \/ r.says = "promise" /\ ~sideEffects

NoCalls(r) == Verdict(r) = "none" /\ r.intents = <<>> /\ ~r.malformed

Answers(r) ==
    /\ Returns(r) /\ NoCalls(r) /\ (nudged \/ ~Silent(r))
    /\ answered' = TRUE
    /\ Finish("final", sideEffects, Written(r))
    /\ UNCHANGED <<repairs, nudged, guardVars, factVars, execVars, doneVars>>

Nudge(r) ==
    /\ Returns(r) /\ NoCalls(r) /\ ~nudged /\ Silent(r)
    /\ nudged' = TRUE /\ pc' = "top"
    /\ trace' = Append(Written(r), Entry("note"))
    /\ UNCHANGED <<policy, cause, steps, repairs, guardVars, factVars, endVars, execVars,
                   doneVars>>

\* Mutant: the ring is one short of the limit.
RingShort(s) ==
    IF s = <<>> THEN recent
    ELSE LET longer == Append(recent, s)
         IN  IF Len(longer) >= IdenticalCalls THEN Tail(longer) ELSE longer

\* The ring after this step's signature.
Ring(s) ==
    IF s = <<>> THEN recent
    ELSE LET longer == Append(recent, s)
         IN  IF Len(longer) > IdenticalCalls THEN Tail(longer) ELSE longer

\* Mutant: every identical call after a temporary failure is forgiven.
ForgivenAlways(s) == s = transient

Forgiven(s) == s = transient /\ retries[s] < TransientRetries

Loops(s) ==
    /\ ~Forgiven(s)
    /\ Len(Ring(s)) = IdenticalCalls
    /\ \A i \in DOMAIN Ring(s) : Ring(s)[i] = s

Calling(r) ==
    /\ Returns(r) /\ Verdict(r) = "none" /\ (r.intents # <<>> \/ r.malformed)
    /\ recent' = Ring(r.intents)
    /\ retries' = IF Forgiven(r.intents) THEN [retries EXCEPT ![r.intents] = @ + 1]
                  ELSE retries

NoProgress(r) ==
    /\ Calling(r) /\ Loops(r.intents)
    /\ Finish("no_progress", sideEffects, Written(r))
    /\ UNCHANGED <<answered, repairs, nudged, transient, factVars, execVars, doneVars>>

\* The trace with the call, which is pushed before anything runs.
Called(r) == Append(trace, [kind |-> "call", step |-> steps, sig |-> r.intents])

\* What of a step is planned: its calls in their order, without those of personal
\* tools, which are answered apart.
Planned(s) ==
    LET rest == {i \in DOMAIN s : s[i].tool \notin Withheld}
        nth(k) == CHOOSE i \in rest : Cardinality({j \in rest : j <= i}) = k
    IN  [k \in 1..Cardinality(rest) |-> s[nth(k)]]

Unusable(c) == c.arg = "bad" \/ c.tool \notin Visible[phase]

\* A step with a call that cannot be read, is not in the catalogue or does not
\* coerce: nothing of it runs.
Broken(r) ==
    LET p == Planned(r.intents)
    IN  r.malformed \/ \E i \in DOMAIN p : Unusable(p[i])

\* Mutant: the repair is told to the model and not kept in the trace.
RepairUnrecorded(r) ==
    /\ Calling(r) /\ ~Loops(r.intents) /\ Broken(r) /\ repairs = 0
    /\ repairs' = 1 /\ transient' = None /\ pc' = "top"
    /\ trace' = Called(r)
    /\ UNCHANGED <<policy, cause, steps, nudged, factVars, endVars, execVars, doneVars>>

Repair(r) ==
    /\ Calling(r) /\ ~Loops(r.intents) /\ Broken(r) /\ repairs = 0
    /\ repairs' = 1 /\ transient' = None /\ pc' = "top"
    /\ trace' = Append(Called(r), Entry("repair"))
    /\ UNCHANGED <<policy, cause, steps, nudged, factVars, endVars, execVars, doneVars>>

\* A second repair in a row ends the turn, its call on the trace.
RepairFails(r) ==
    /\ Calling(r) /\ ~Loops(r.intents) /\ Broken(r) /\ repairs > 0
    /\ transient' = None
    /\ Finish("error", sideEffects, Called(r))
    /\ UNCHANGED <<answered, repairs, nudged, factVars, execVars, doneVars>>

Execute(r) ==
    /\ Calling(r) /\ ~Loops(r.intents) /\ ~Broken(r)
    /\ pc' = "exec" /\ trace' = Called(r)
    /\ plan' = Planned(r.intents) /\ at' = 1 /\ group' = {}
    /\ st' = [i \in DOMAIN Planned(r.intents) |-> "waiting"]
    /\ taint' = untrusted
    /\ UNCHANGED <<policy, cause, steps, repairs, nudged, transient, factVars, endVars,
                   doneVars>>

------------------------------------------------------------------------------
(* Authorising a call *)

\* decidePolicy: a rule, and the mode when none matches.
Ruled(t) == IF policy.rule[t] # "none" THEN policy.rule[t] ELSE policy.mode

\* Mutant: the mode counts as a rule that authorises a tainted write.
AuthorizeByMode(t, tainted) ==
    IF Ruled(t) = "ask" /\ ~policy.approver THEN policy.noApprover ELSE Ruled(t)

\* authorize: a tainted write needs a rule or an approval.
Authorize(t, tainted) ==
    IF Ruled(t) = "deny" THEN "deny"
    ELSE IF /\ tainted /\ t \in Mutating
            /\ policy.onMutate # "allow" /\ policy.rule[t] = "none"
         THEN IF policy.onMutate = "confirm" /\ policy.approver THEN "ask" ELSE "deny"
    ELSE IF Ruled(t) = "ask" /\ ~policy.approver THEN policy.noApprover
    ELSE Ruled(t)

Decide(t) ==
    IF t \in Alone /\ Len(plan) > 1 THEN "deny"
    ELSE IF t \in Mutating /\ policy.defer /\ Ruled(t) # "deny" THEN "defer"
    ELSE Authorize(t, taint)

------------------------------------------------------------------------------
(* Running the calls of a step *)

Pending == {"asking", "running", "deferring"}

\* batch: a mutating call alone, or a run of reads up to the limit.
GroupAt(i) ==
    {j \in DOMAIN plan :
        /\ i <= j
        /\ j = i \/ /\ j < i + MaxParallel
                    /\ \A k \in i..j : plan[k].tool \notin Mutating}

\* How a call of the group begins.  A question asked after an abort is dropped at
\* once (abandonedWhen), and its entry stays in the registry.
Begun(i) ==
    LET d == Decide(plan[i].tool)
    IN  IF d = "allow" THEN "running"
        ELSE IF d = "defer" THEN "deferring"
        ELSE IF d = "ask" /\ cause = None THEN "asking"
        ELSE "refused"

\* The record of a handler's call: what it was allowed by, and whether anything
\* untrusted had been returned before it.
Start(i, by) ==
    [step |-> steps, call |-> i, tool |-> plan[i].tool, seen |-> seen, by |-> by]

\* phase_set moves the phase as its handler begins, before it stores it.
Moved(runs) ==
    LET moves == {i \in runs : plan[i].tool = PhaseTool}
    IN  IF moves = {} THEN phase
        ELSE plan[CHOOSE i \in moves : \A j \in moves : j <= i].arg

StartGroup ==
    /\ pc = "exec" /\ group = {} /\ at <= Len(plan)
    /\ LET g == GroupAt(at)
           asked == {i \in g : Decide(plan[i].tool) = "ask"}
           runs == {i \in g : Begun(i) = "running"}
           key(i) == [step |-> steps, call |-> i]
       IN  /\ group' = g
           /\ at' = at + Cardinality(g)
           /\ st' = [i \in DOMAIN st |-> IF i \in g THEN Begun(i) ELSE st[i]]
           /\ approvals' = approvals \cup {key(i) : i \in asked}
           /\ deaf' = IF cause = None THEN deaf
                      ELSE deaf \cup {key(i) : i \in asked \cup runs}
           /\ starts' = starts \cup {Start(i, "policy") : i \in runs}
           /\ phase' = Moved(runs)
    /\ UNCHANGED <<policy, pc, cause, steps, repairs, nudged, trace, guardVars, replyVars,
                   factVars, endVars, plan, taint, effects, seen>>

\* An answer to a question; one nobody waits for any more only leaves the registry.
Resolve(a, granted) ==
    /\ a \in approvals /\ approvals' = approvals \ {a}
    /\ IF a.step = steps /\ a.call \in group /\ st[a.call] = "asking"
       THEN /\ st' = [st EXCEPT ![a.call] = IF granted THEN "running" ELSE "refused"]
            /\ starts' = IF granted THEN starts \cup {Start(a.call, "person")} ELSE starts
            /\ phase' = IF granted THEN Moved({a.call}) ELSE phase
       ELSE UNCHANGED <<st, starts, phase>>
    /\ UNCHANGED <<policy, pc, cause, steps, repairs, nudged, trace, guardVars, replyVars,
                   factVars, endVars, plan, at, group, taint, deaf, effects, seen>>

\* The handler returns or throws, in words that say the failure is temporary or not.
HandlerReturns(i, o) ==
    /\ pc = "exec" /\ i \in group /\ st[i] = "running"
    /\ o \in {"ok", "failed", "unavailable"}
    /\ st' = [st EXCEPT ![i] = o]
    /\ effects' = IF o = "ok" /\ plan[i].tool \in Mutating
                  THEN effects \cup {[step |-> steps, call |-> i]} ELSE effects
    /\ seen' = (seen \/ plan[i].tool \in Untrusted)
    /\ UNCHANGED <<policy, pc, cause, steps, repairs, nudged, trace, guardVars, replyVars,
                   factVars, endVars, plan, at, group, taint, phase, approvals, deaf, starts>>

\* The call's own timer.  The union of the signals of a call that began after the
\* abort was aborted already, and tells nobody any more.
CallTimeout(i) ==
    /\ pc = "exec" /\ i \in group /\ st[i] = "running"
    /\ [step |-> steps, call |-> i] \notin deaf
    /\ st' = [st EXCEPT ![i] = "unavailable"]
    /\ seen' = (seen \/ plan[i].tool \in Untrusted)
    /\ UNCHANGED <<policy, pc, cause, steps, repairs, nudged, trace, guardVars, replyVars,
                   factVars, endVars, plan, at, group, taint, phase, approvals, deaf,
                   starts, effects>>

Deferred(i) ==
    /\ pc = "exec" /\ i \in group /\ st[i] = "deferring"
    /\ st' = [st EXCEPT ![i] = "ok"]
    /\ UNCHANGED <<policy, pc, cause, steps, repairs, nudged, trace, guardVars, replyVars,
                   factVars, endVars, plan, at, group, taint, doneVars>>

\* The deferral's store throws: out of the executor and of the loop.
DeferThrows(i) ==
    /\ pc = "exec" /\ i \in group /\ st[i] = "deferring"
    /\ Finish("error", sideEffects, trace)
    /\ UNCHANGED <<answered, repairs, nudged, guardVars, replyVars, factVars, execVars,
                   doneVars>>

\* Mutant: an abort does not reach a question that is waiting.
AbortDeafToQuestions(why) ==
    /\ pc # "ended" /\ (pc = "exec" => at > 1)
    /\ cause = None /\ cause' = why
    /\ st' = [i \in DOMAIN st |-> IF i \in group /\ st[i] = "running" THEN "failed" ELSE st[i]]
    /\ seen' = (seen \/ \E i \in group : st[i] = "running" /\ plan[i].tool \in Untrusted)
    /\ UNCHANGED <<policy, pc, steps, repairs, nudged, trace, guardVars, replyVars, factVars,
                   endVars, plan, at, group, taint, phase, approvals, deaf, starts, effects>>

\* A stop or the turn's timer, at any await: a step's first group starts in the
\* same turn of the event loop as its reply.  The first cause stays.  A running
\* call is reported as cancelled, a waiting question as abandoned, and its entry
\* leaves the registry.
Abort(why) ==
    /\ pc # "ended" /\ (pc = "exec" => at > 1)
    /\ cause = None /\ cause' = why
    /\ st' = [i \in DOMAIN st |->
                 IF i \in group /\ st[i] = "running" THEN "failed"
                 ELSE IF i \in group /\ st[i] = "asking" THEN "refused" ELSE st[i]]
    /\ seen' = (seen \/ \E i \in group : st[i] = "running" /\ plan[i].tool \in Untrusted)
    /\ approvals' = {}
    /\ UNCHANGED <<policy, pc, steps, repairs, nudged, trace, guardVars, replyVars, factVars,
                   endVars, plan, at, group, taint, phase, deaf, starts, effects>>

Ran(i) == \E s \in starts : s.step = steps /\ s.call = i

\* An untrusted result: of a tool that is, and that ran.
Tainting == {i \in DOMAIN plan : plan[i].tool \in Untrusted /\ Ran(i)}

\* Mutant: the taint of a step is the one it began with.
GroupDoneUntainted ==
    /\ pc = "exec" /\ group # {} /\ \A i \in group : st[i] \notin Pending
    /\ group' = {}
    /\ UNCHANGED <<policy, pc, cause, steps, repairs, nudged, trace, guardVars, replyVars,
                   factVars, endVars, plan, at, st, taint, doneVars>>

GroupDone ==
    /\ pc = "exec" /\ group # {} /\ \A i \in group : st[i] \notin Pending
    /\ group' = {}
    /\ taint' = (taint \/ Tainting \cap group # {})
    /\ UNCHANGED <<policy, pc, cause, steps, repairs, nudged, trace, guardVars, replyVars,
                   factVars, endVars, plan, at, st, doneVars>>

StepOver == pc = "exec" /\ group = {} /\ at > Len(plan)

Worked == {i \in DOMAIN plan : st[i] = "ok"}

\* The results are scanned in order for a mutating one, each looked up in the
\* catalogue as it is now: the scan stops at a mutating tool, and throws at one
\* that a phase_set of the same step has hidden.
Hidden(i) == plan[i].tool \notin Visible[phase]

Throws ==
    \E i \in Worked : Hidden(i) /\ \A j \in Worked : j < i => plan[j].tool \notin Mutating

\* failedTransiently of every result, those of withheld calls included.
AllUnavailable(sig) ==
    /\ sig # <<>> /\ Len(plan) = Len(sig)
    /\ \A i \in DOMAIN plan : st[i] = "unavailable"

Signature == trace[Len(trace)].sig

StepDone ==
    /\ StepOver /\ ~Throws
    /\ transient' = IF AllUnavailable(Signature) THEN Signature ELSE None
    /\ sideEffects' = (sideEffects \/ \E i \in Worked : plan[i].tool \in Mutating)
    /\ untrusted' = (untrusted \/ Tainting # {})
    /\ repairs' = 0
    /\ trace' = Append(trace, Entry("answer")) /\ pc' = "top"
    /\ UNCHANGED <<policy, cause, steps, nudged, recent, retries, replyVars, endVars,
                   execVars, doneVars>>

StepThrows ==
    /\ StepOver /\ Throws
    /\ transient' = IF AllUnavailable(Signature) THEN Signature ELSE None
    /\ Finish("error", sideEffects, trace)
    /\ UNCHANGED <<answered, repairs, nudged, recent, retries, replyVars, factVars,
                   execVars, doneVars>>

Replied(r) ==
    \/ EndsOnReply(r) \/ Answers(r) \/ Nudge(r) \/ NoProgress(r)
    \/ Repair(r) \/ RepairFails(r) \/ Execute(r)

Next ==
    \/ BeginStep \/ Exhausted \/ ModelThrows
    \/ \E r \in Replies : ModelAborted(r) \/ Replied(r)
    \/ StartGroup \/ GroupDone \/ StepDone \/ StepThrows
    \/ \E a \in approvals, g \in BOOLEAN : Resolve(a, g)
    \/ \E i \in group, o \in {"ok", "failed", "unavailable"} : HandlerReturns(i, o)
    \/ \E i \in group : CallTimeout(i) \/ Deferred(i) \/ DeferThrows(i)
    \/ \E why \in {"stopped", "timeout"} : Abort(why)

Spec == Init /\ [][Next]_vars

\* The loop runs on, timers fire, an aborted model call returns and a store call
\* settles.  Nothing is assumed of a model that is not aborted, of a handler or of
\* the person asked.
Fairness ==
    /\ WF_vars(BeginStep) /\ WF_vars(Exhausted)
    /\ WF_vars(\E r \in Replies : ModelAborted(r))
    /\ WF_vars(StartGroup) /\ WF_vars(GroupDone) /\ WF_vars(StepDone) /\ WF_vars(StepThrows)
    /\ WF_vars(\E i \in group : CallTimeout(i))
    /\ WF_vars(\E i \in group : Deferred(i) \/ DeferThrows(i))
    /\ WF_vars(Abort("timeout"))

FairSpec == Spec /\ Fairness

------------------------------------------------------------------------------
(* Properties *)

\* Every variable keeps its type; the counters stay within the loop's limits.
TypeOK ==
    /\ policy \in Policies /\ phase \in Phases
    /\ pc \in {"top", "model", "exec", "ended"}
    /\ cause \in {None, "stopped", "timeout"}
    /\ steps \in 0..MaxSteps /\ repairs \in 0..1
    /\ {nudged, answered, said, sideEffects, untrusted, kept, taint, seen} \subseteq BOOLEAN
    /\ reason \in {"final", "max_steps", "no_progress", "truncated", "error",
                   "stopped", "timeout"}
    /\ Len(recent) <= IdenticalCalls /\ transient \in Signatures \cup {None}
    /\ retries \in [Signatures -> 0..TransientRetries]
    /\ at \in 1..Len(plan) + 1 /\ group \subseteq DOMAIN plan
    /\ DOMAIN st = DOMAIN plan

\* What was done is not forgotten: once a mutating call has succeeded, the turn's
\* trace is appended however the turn ends, so that the next turn knows of it.
SideEffectsKept == pc = "ended" /\ effects # {} => kept

\* The write gate (authorize, executeIntents): a mutating handler is called after
\* anything untrusted was returned in the turn, in the same step too, only on a
\* rule, a person's approval or onMutate allow.
TaintedWriteAuthorised ==
    \A s \in starts : s.tool \in Mutating /\ s.seen =>
        \/ policy.onMutate = "allow"
        \/ policy.rule[s.tool] = "allow"
        \/ s.by = "person"

\* A call that planning refuses whatever the phase.
Uncoercible(c) == c.arg = "bad" /\ c.tool \notin Withheld

\* Nothing runs if anything in the step is malformed: no handler was called in a
\* step that has a call whose arguments do not coerce, or that a repair answered.
\* The call of a personal tool is answered apart, and is no part of the question.
RepairedStepIdle ==
    \A i \in DOMAIN trace :
        \/ trace[i].kind = "repair"
        \/ trace[i].kind = "call" /\ \E j \in DOMAIN trace[i].sig : Uncoercible(trace[i].sig[j])
        => \A s \in starts : s.step # trace[i].step

\* Writes serialise: while a mutating handler runs, no other call of the turn does.
WriteRunsAlone ==
    \A i \in group : st[i] = "running" /\ plan[i].tool \in Mutating => group = {i}

\* What may write, and when: authorised after anything untrusted, and alone.
WriteGate == TaintedWriteAuthorised /\ WriteRunsAlone

\* One repair, and only one: two calls in a row are never both answered by a repair.
RepairOnce ==
    \A i \in DOMAIN trace :
        (trace[i].kind = "repair" /\ i + 2 \in DOMAIN trace) => trace[i + 2].kind # "repair"

\* The repeat guard: the same call is executed in a row at most as often as the
\* limit and the retries of temporary failures allow.
RepeatsBounded ==
    \A i, j \in DOMAIN trace :
        (/\ i <= j
         /\ \A k \in i..j : /\ trace[k].kind \in {"call", "answer"}
                            /\ trace[k].kind = "call" => trace[k].sig = trace[i].sig)
        => Cardinality({k \in i..j : trace[k].kind = "call"})
             <= IdenticalCalls - 1 + TransientRetries

\* Every announced call is answered: a call of the trace is followed by its
\* observation or its repair; only the last may lack one, while it is executed or
\* when an error, or a throw during an abort, ended the turn.
CallsAnswered ==
    \A i \in DOMAIN trace : trace[i].kind = "call" =>
        IF i < Len(trace) THEN trace[i + 1].kind \in {"answer", "repair"}
        ELSE pc = "exec" \/ (pc = "ended" /\ reason \in {"error", "stopped", "timeout"})

\* A malformed step is repaired once and answered, and none of it runs.
RepairsSound == RepairedStepIdle /\ RepairOnce /\ CallsAnswered

\* The turn ends, whatever the model, the handlers and the person asked do, unless
\* a call was begun after the abort: then its handler is waited for (CallTimeout).
TurnEnds == <>(pc = "ended" \/ deaf # {})

\* "A timeout ends the call, not the handler": the turn ends.
TurnAlwaysEnds == <>(pc = "ended")

\* "what it buys is that the entry leaves the map instead of sitting in a listing
\* forever as a question nobody is waiting on".
QuestionsAwaited ==
    \A a \in approvals : a.step = steps /\ a.call \in group /\ st[a.call] = "asking"

=============================================================================
