------------------------------ MODULE Inbound ------------------------------
(***************************************************************************)
(* How a message becomes a turn of a conversation: the gate of             *)
(* channels/inbox.ts and the hub's queue per chat, POST /messages with its *)
(* idempotency key, admission, the one-at-a-time chain of a session, and   *)
(* the order in which Agent.#send writes the turn row, the history and the *)
(* hub the reply.  A process may end between any two writes.               *)
(*                                                                         *)
(* Every sender is the owner and sessions.scope is owner, so that all      *)
(* chats and requests share one conversation, whose head a rotation moves. *)
(* What the turn itself does is TurnLoop, what becomes of a reply that was *)
(* queued is Outbox, and a reload is AgentReload.                          *)
(***************************************************************************)
EXTENDS Integers, Sequences, FiniteSets

CONSTANTS
    Messages, Chats,   \* provider message ids, and the chats they come from
    ChatOf,            \* [Messages -> Chats]
    Allowed,           \* the messages whose sender allowFrom permits
    Keys, NoKey,       \* idempotency keys, and a request that carries none
    Requests,          \* the requests clients send and retry, [key, text]
    Window,            \* dedupeWindow
    Cap,               \* limits.maxConcurrentTurns
    MaxTurns,          \* bound: messages and requests that are taken on
    MaxHeard,          \* bound: messages one process remembers
    MaxSessions,       \* bound: conversations the owner starts
    MaxFaults          \* bound: crashes, and turns or claims the store fails

ASSUME InboundConstants ==
    /\ ChatOf \in [Messages -> Chats] /\ Allowed \subseteq Messages
    /\ NoKey \notin Keys /\ \A r \in Requests : r.key \in Keys \cup {NoKey}
    /\ Window \in Nat \ {0} /\ Cap \in Nat \ {0}
    /\ MaxTurns \in Nat /\ MaxHeard \in Nat /\ MaxSessions \in Nat \ {0} /\ MaxFaults \in Nat
    /\ IsFiniteSet(Messages) /\ IsFiniteSet(Keys)

Ids == 1 .. MaxTurns
Sessions == 1 .. MaxSessions

\* Where a message comes from: a chat, or a request with a key and a text.
Sent(m) == [by |-> "chat", msg |-> m]
Asked(r) == [by |-> "post", key |-> r.key, text |-> r.text]
Origins == {Sent(m) : m \in Messages} \cup {Asked(r) : r \in Requests}

\* "hub": in the chat's queue; "admitted": a request has its slot; "chain": in the
\* session's chain; "running": the row is written; "finished": the row has its outcome;
\* "returned": send has returned to the hub; "replying": the hub has queued what it has
\* to say and waits for the drain, still at the head of the chat's queue.
Going == {"hub", "admitted", "chain", "running", "finished", "returned", "replying"}
InSend == {"admitted", "chain", "running", "finished"}

VARIABLES
    \* the store
    rows,      \* [Ids -> status of the turn's row]
    hist,      \* [Sessions -> Seq(Ids)], the turns whose messages a history holds
    keys,      \* [Keys -> the turn, text and session that claimed it, or None]
    outbox,    \* the turns whose reply is queued
    head,      \* session_heads
    \* the process
    up,
    seen,      \* #seen of the inbox, oldest first
    hub,       \* [Chats -> Seq(Ids)], #queues
    chain,     \* [Sessions -> Seq(Ids)], #sessionChains
    slots,     \* #inFlight
    job,       \* [Ids -> Job]
    \* history
    heard,     \* how many ids this process has remembered
    crashes,
    leaked,    \* slots of requests whose claim threw
    threw      \* the turns a failure of the store ended

store == <<rows, hist, keys, outbox, head>>
process == <<up, seen, hub, chain, slots, job>>
vars == <<store, process, heard, crashes, leaked, threw>>

None == [turn |-> 0]

NoJob == [stage |-> "none"]
Origin(t) == job[t].origin
IsChat(t) == Origin(t).by = "chat"
Chat(t) == ChatOf[Origin(t).msg]
Stage(t) == job[t].stage
Active(t) == Stage(t) \in Going

\* Ids are handed out in order.
Unused == {t \in Ids : Stage(t) = "none"}
IsNext(t) == t \in Unused /\ \A u \in Unused : t <= u

\* snap: how long the history was that it read; appends: whether it has messages to
\* append; born and nth: the process that took it on, and its place among what that
\* process heard.
Job(o, s, stage, n) ==
    [origin |-> o, session |-> s, stage |-> stage, snap |-> 0, appends |-> FALSE,
     born |-> crashes, nth |-> n]

Init ==
    /\ rows = [t \in Ids |-> "none"] /\ hist = [s \in Sessions |-> <<>>]
    /\ keys = [k \in Keys |-> None] /\ outbox = {} /\ head = 1
    /\ up = TRUE /\ seen = <<>> /\ slots = 0
    /\ hub = [c \in Chats |-> <<>>] /\ chain = [s \in Sessions |-> <<>>]
    /\ job = [t \in Ids |-> NoJob]
    /\ heard = 0 /\ crashes = 0 /\ leaked = 0 /\ threw = {}

MayFail == crashes + Cardinality(threw) < MaxFaults

Go(t, stage) == job' = [job EXCEPT ![t].stage = stage]

\* The end of a job: what it held is forgotten.
End(t, stage) ==
    job' = [job EXCEPT ![t].stage = stage, ![t].snap = 0, ![t].appends = FALSE]
Has(q, x) == \E i \in 1 .. Len(q) : q[i] = x

\* A queue without t, which is its head or not in it.
Without(q, t) == IF q # <<>> /\ Head(q) = t THEN Tail(q) ELSE q
LeaveHub(t) ==
    hub' = IF IsChat(t) THEN [hub EXCEPT ![Chat(t)] = Without(@, t)] ELSE hub
LeaveChain(t) == chain' = [chain EXCEPT ![job[t].session] = Without(@, t)]

------------------------------------------------------------------------------
(* The channel *)

\* #remember: the oldest id makes room.
Remembered(m) == IF Len(seen) < Window THEN Append(seen, m) ELSE Append(Tail(seen), m)

\* #onInbound: a duplicate is rejected (no step); the id of a sender who is not
\* allowed is remembered too; the others join the queue of their chat.
Inbound(m) ==
    /\ up /\ ~Has(seen, m) /\ heard < MaxHeard
    /\ seen' = Remembered(m) /\ heard' = heard + 1
    /\ IF m \in Allowed
       THEN \E t \in Ids :
              /\ IsNext(t)
              /\ job' = [job EXCEPT ![t] = Job(Sent(m), 0, "hub", heard + 1)]
              /\ hub' = [hub EXCEPT ![ChatOf[m]] = Append(@, t)]
       ELSE UNCHANGED <<job, hub>>
    /\ UNCHANGED <<store, up, chain, slots, crashes, leaked, threw>>

AtHub(t) == Stage(t) = "hub" /\ Head(hub[Chat(t)]) = t

\* Nothing is run: a voice note or a photo could not be read, or the governor refuses.
\* The sender is told in either case, through the outbox (not under a turn's id).
Decline(t) ==
    /\ AtHub(t)
    /\ End(t, "replying")
    /\ UNCHANGED <<store, up, seen, hub, chain, slots, heard, crashes, leaked, threw>>

\* A slot, resolveSessionKey, and the place in the session's chain.
Admit(t) ==
    /\ AtHub(t) /\ slots < Cap
    /\ slots' = slots + 1
    /\ job' = [job EXCEPT ![t].stage = "chain", ![t].session = head]
    /\ chain' = [chain EXCEPT ![head] = Append(@, t)]
    /\ UNCHANGED <<store, up, seen, hub, heard, crashes, leaked, threw>>

\* The reply is queued under the turn's id; the hub is done at once when there is nothing
\* to say, or when the queue does not take it.
QueuesReply(t) ==
    \/ End(t, "replying") /\ outbox' = outbox \cup {t} /\ UNCHANGED hub
    \/ End(t, "over") /\ LeaveHub(t) /\ UNCHANGED outbox

\* Mutant: the hub gives back the slot that send has given back.
ReplyReleases(t) ==
    /\ Stage(t) = "returned" /\ QueuesReply(t) /\ slots' = slots - 1
    /\ UNCHANGED <<rows, hist, keys, head, up, seen, chain, heard, crashes, leaked, threw>>

Reply(t) ==
    /\ Stage(t) = "returned" /\ QueuesReply(t)
    /\ UNCHANGED <<rows, hist, keys, head, up, seen, chain, slots, heard, crashes, leaked, threw>>

\* The drain, and the speech after it, return: the next message of the chat has its turn.
Drained(t) ==
    /\ Stage(t) = "replying"
    /\ End(t, "over") /\ LeaveHub(t)
    /\ UNCHANGED <<store, up, seen, chain, slots, heard, crashes, leaked, threw>>

------------------------------------------------------------------------------
(* POST /messages *)

\* The session is resolved and a slot is taken; a refusal is a 429 and no step.
Post(t, r) ==
    /\ up /\ IsNext(t) /\ slots < Cap
    /\ slots' = slots + 1
    /\ job' = [job EXCEPT ![t] = Job(Asked(r), head, "admitted", 0)]
    /\ UNCHANGED <<store, up, seen, hub, chain, heard, crashes, leaked, threw>>

Claimant(t) == [turn |-> t, text |-> Origin(t).text, session |-> job[t].session]

\* Mutant: a later claim moves the key on to its own turn.
ClaimUpserts(t) ==
    LET k == Origin(t).key
    IN  /\ Stage(t) = "admitted" /\ ~IsChat(t)
        /\ Go(t, "chain") /\ chain' = [chain EXCEPT ![job[t].session] = Append(@, t)]
        /\ keys' = IF k = NoKey THEN keys ELSE [keys EXCEPT ![k] = Claimant(t)]
        /\ UNCHANGED <<slots, rows, hist, outbox, head, up, seen, hub, heard, crashes, leaked, threw>>

\* Mutant: a replay keeps the slot it was admitted with.
ClaimKeepsSlot(t) ==
    LET k == Origin(t).key
        won == k = NoKey \/ keys[k] = None
    IN  /\ Stage(t) = "admitted" /\ ~IsChat(t)
        /\ IF won
           THEN /\ Go(t, "chain") /\ chain' = [chain EXCEPT ![job[t].session] = Append(@, t)]
                /\ keys' = IF k = NoKey THEN keys ELSE [keys EXCEPT ![k] = Claimant(t)]
           ELSE End(t, "replayed") /\ UNCHANGED <<chain, keys>>
        /\ UNCHANGED <<slots, rows, hist, outbox, head, up, seen, hub, heard, crashes, leaked, threw>>

\* claimInboundKey: the first to come keeps the key and its turn is detached; one that
\* sends the same text to the same session is told the first turn's id, another one
\* gets a 409, and both give their slot back.  (A key is forgotten after 24 hours; the
\* model covers that span.)
Claim(t) ==
    LET k == Origin(t).key
        won == k = NoKey \/ keys[k] = None
        same == ~won /\ keys[k].text = Origin(t).text /\ keys[k].session = job[t].session
    IN  /\ Stage(t) = "admitted" /\ ~IsChat(t)
        /\ IF won
           THEN /\ Go(t, "chain") /\ chain' = [chain EXCEPT ![job[t].session] = Append(@, t)]
                /\ keys' = IF k = NoKey THEN keys ELSE [keys EXCEPT ![k] = Claimant(t)]
                /\ UNCHANGED slots
           ELSE /\ End(t, IF same THEN "replayed" ELSE "conflict") /\ slots' = slots - 1
                /\ UNCHANGED <<chain, keys>>
        /\ UNCHANGED <<rows, hist, outbox, head, up, seen, hub, heard, crashes, leaked, threw>>

\* The claim throws: the route fails, and nobody gives the slot back.
ClaimThrows(t) ==
    /\ Stage(t) = "admitted" /\ ~IsChat(t) /\ Origin(t).key # NoKey
    /\ MayFail /\ End(t, "over") /\ leaked' = leaked + 1 /\ threw' = threw \cup {t}
    /\ UNCHANGED <<store, up, seen, hub, chain, slots, heard, crashes>>

------------------------------------------------------------------------------
(* Agent.#send *)

\* Mutant: a turn does not wait for the one before it in its session.
AtChainAny(t) == Stage(t) = "chain"

AtChain(t) == Stage(t) = "chain" /\ Head(chain[job[t].session]) = t

\* The history is read and the row written, before anything is run.
Start(t) ==
    /\ AtChain(t)
    /\ job' = [job EXCEPT ![t].stage = "running", ![t].snap = Len(hist[job[t].session])]
    /\ rows' = [rows EXCEPT ![t] = "running"]
    /\ UNCHANGED <<hist, keys, outbox, head, up, seen, hub, chain, slots, heard, crashes, leaked, threw>>

\* turns.finish with what runTurn returned: a turn that failed has something to append
\* only when it acted.
Finish(t, status, appends) ==
    /\ Stage(t) = "running" /\ (status = "complete" => appends)
    /\ rows' = [rows EXCEPT ![t] = status]
    /\ job' = [job EXCEPT ![t].stage = "finished", ![t].appends = appends]
    /\ UNCHANGED <<hist, keys, outbox, head, up, seen, hub, chain, slots, heard, crashes, leaked, threw>>

\* Mutant: the reply goes out before the messages are appended.
AppendLater(t) ==
    /\ Stage(t) = "finished"
    /\ End(t, IF IsChat(t) THEN "returned" ELSE "over") /\ LeaveChain(t)
    /\ slots' = slots - 1
    /\ UNCHANGED <<hist, rows, keys, outbox, head, up, seen, hub, heard, crashes, leaked, threw>>

\* messages.append, for a turn that has anything to append.
Appended(t) ==
    IF job[t].appends THEN [hist EXCEPT ![job[t].session] = Append(@, t)] ELSE hist

\* The append, the end of the session's turn, and the slot.
AppendTurn(t) ==
    /\ Stage(t) = "finished"
    /\ hist' = Appended(t)
    /\ End(t, IF IsChat(t) THEN "returned" ELSE "over") /\ LeaveChain(t)
    /\ slots' = slots - 1
    /\ UNCHANGED <<rows, keys, outbox, head, up, seen, hub, heard, crashes, leaked, threw>>

\* Mutant: a turn that fails on its way leaves the chain blocked.
ThrowBlocks(t) ==
    /\ Stage(t) \in {"running", "finished"}
    /\ MayFail /\ End(t, "over") /\ LeaveHub(t) /\ UNCHANGED chain
    /\ slots' = slots - 1 /\ threw' = threw \cup {t}
    /\ UNCHANGED <<store, up, seen, heard, crashes, leaked>>

\* The store fails a read or a write of #send, the append or what follows it: the
\* chain goes on, the slot is given back, the row stays as it is and the hub queues
\* no reply.
Throw(t) ==
    /\ Stage(t) \in {"running", "finished"} \/ AtChain(t)
    /\ MayFail /\ End(t, "over") /\ LeaveHub(t) /\ LeaveChain(t)
    /\ hist' \in {hist} \cup (IF Stage(t) = "finished" THEN {Appended(t)} ELSE {})
    /\ slots' = slots - 1 /\ threw' = threw \cup {t}
    /\ UNCHANGED <<rows, keys, outbox, head, up, seen, heard, crashes, leaked>>

------------------------------------------------------------------------------
(* The conversation and the process *)

\* rotateSession, from any surface.
Rotate ==
    /\ up /\ head < MaxSessions /\ head' = head + 1
    /\ UNCHANGED <<rows, hist, keys, outbox, process, heard, crashes, leaked, threw>>

Crash ==
    /\ up /\ MayFail
    /\ crashes' = crashes + 1 /\ up' = FALSE
    /\ seen' = <<>> /\ heard' = 0 /\ slots' = 0 /\ leaked' = 0
    /\ hub' = [c \in Chats |-> <<>>] /\ chain' = [s \in Sessions |-> <<>>]
    /\ job' = [t \in Ids |-> IF Active(t) THEN [job[t] EXCEPT !.stage = "lost", !.snap = 0, !.appends = FALSE] ELSE job[t]]
    /\ UNCHANGED <<store, threw>>

\* The next process reaps the rows that are still running.
Boot ==
    /\ ~up /\ up' = TRUE
    /\ rows' = [t \in Ids |-> IF rows[t] = "running" THEN "abandoned" ELSE rows[t]]
    /\ UNCHANGED <<hist, keys, outbox, head, seen, hub, chain, slots, job, heard, crashes, leaked, threw>>

HubStep(t) == Decline(t) \/ Admit(t) \/ Reply(t) \/ Drained(t)

SendStep(t) ==
    \/ Claim(t) \/ Start(t) \/ AppendTurn(t)
    \/ \E status \in {"complete", "error"}, appends \in BOOLEAN : Finish(t, status, appends)

Next ==
    \/ \E m \in Messages : Inbound(m)
    \/ \E t \in Ids, r \in Requests : Post(t, r)
    \/ \E t \in Ids : HubStep(t) \/ SendStep(t) \/ ClaimThrows(t) \/ Throw(t)
    \/ Rotate \/ Crash \/ Boot

Spec == Init /\ [][Next]_vars

\* A promise that is resolved runs its continuation, a turn ends (turnTimeoutMs), so does
\* a drain (sendTimeoutMs), and a process that ended is started again.
Fairness == WF_vars(Boot) /\ \A t \in Ids : WF_vars(HubStep(t) \/ SendStep(t))

FairSpec == Spec /\ Fairness

------------------------------------------------------------------------------
(* Properties *)

Stages == Going \cup {"none", "replayed", "conflict", "over", "lost"}

\* Every variable keeps its type, and a slot is never given back twice.
TypeOK ==
    /\ rows \in [Ids -> {"none", "running", "complete", "error", "abandoned"}]
    /\ \A s \in Sessions : \A i \in 1 .. Len(hist[s]) : hist[s][i] \in Ids
    /\ \A k \in Keys : keys[k] = None \/ keys[k].turn \in Ids
    /\ outbox \subseteq Ids /\ head \in Sessions /\ up \in BOOLEAN
    /\ Len(seen) <= Window /\ slots \in 0 .. Cap
    /\ \A t \in Ids : /\ Stage(t) \in Stages
                      /\ Stage(t) # "none" => Origin(t) \in Origins
    /\ leaked \in Nat /\ threw \subseteq Ids /\ crashes \in 0 .. MaxFaults /\ heard \in 0 .. MaxHeard

\* One turn at a time per conversation: whatever surfaces the messages came from, no
\* turn is appended to a history between the moment another turn of that session read
\* it and the moment it is appended itself.
HistoryCurrent ==
    \A t \in Ids : Stage(t) \in {"running", "finished"} =>
        job[t].snap = Len(hist[job[t].session])

\* The messages of one chat stand in the history in the order they arrived in.
ChatOrder ==
    \A s \in Sessions : \A i, j \in 1 .. Len(hist[s]) :
        LET t == hist[s][i]
            u == hist[s][j]
        IN  i < j /\ IsChat(t) /\ IsChat(u) /\ Chat(t) = Chat(u) => t < u

\* A conversation is one sequence of turns, each having read all before it, and in
\* it the messages of a chat are in order.
ConversationOrder == HistoryCurrent /\ ChatOrder

\* An idempotency key runs one turn: retries that overlap, that come after a crash or
\* that carry another text run nothing.
KeyRunsOnce ==
    \A t, u \in Ids :
        (/\ t # u /\ rows[t] # "none" /\ rows[u] # "none" /\ ~IsChat(t) /\ ~IsChat(u)
         /\ Origin(t).key # NoKey)
        => Origin(t).key # Origin(u).key

\* A provider's message is taken on a second time only by another process, or when a
\* window of other messages has come between.
DuplicateExcused ==
    \A t, u \in Ids :
        (/\ t < u /\ Stage(t) # "none" /\ Stage(u) # "none" /\ Origin(t).by = "chat"
         /\ Origin(t) = Origin(u) /\ job[t].born = job[u].born)
        => job[u].nth - job[t].nth > Window

\* A message is not acted on twice: not a request under its key, not a chat message
\* within the window.
RunsOnce == KeyRunsOnce /\ DuplicateExcused

\* A reply is queued only for a turn whose outcome is recorded and, when it completed,
\* whose messages are in the history: nobody is sent what the agent will not remember,
\* whenever the process ends.
ReplyRemembered ==
    \A t \in outbox : /\ rows[t] \in {"complete", "error"}
                      /\ rows[t] = "complete" => Has(hist[job[t].session], t)

\* A row that says running has a turn in this process, unless the store failed that
\* turn on its way.
RunningOwned ==
    up => \A t \in Ids : rows[t] = "running" => Stage(t) = "running" \/ t \in threw

\* The slots in use are those of the turns between admission and end, and of the
\* requests whose claim threw.
SlotsBalanced == slots = leaked + Cardinality({t \in Ids : Stage(t) \in InSend})

\* Nothing is left behind by turns that end, fail or die: no running row without its
\* turn, and no slot without its user but that of a request whose claim threw, which is
\* lost until the process ends.
NothingLeaks == RunningOwned /\ SlotsBalanced

\* Whatever is taken on ends: no message waits for ever in the chat's queue, in the
\* session's chain or for a slot.
Answered == \A t \in Ids : Active(t) ~> ~Active(t)

\* (Not so.)  A key that is claimed has a turn to name: one that runs or is recorded.
KeyNamesTurn ==
    \A k \in Keys : keys[k] # None => rows[keys[k].turn] # "none" \/ Active(keys[k].turn)

\* (Not so.)  A retry that sends the same text is not refused.
RetryReplayed ==
    \A t \in Ids : Stage(t) = "conflict" => keys[Origin(t).key].text # Origin(t).text

\* (Not so.)  What the record says was completed is in the history.
CompleteRemembered ==
    \A t \in Ids : rows[t] = "complete" => Stage(t) = "finished" \/ Has(hist[job[t].session], t)
============================================================================
