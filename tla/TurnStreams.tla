----------------------------- MODULE TurnStreams -----------------------------
(***************************************************************************)
(* The per-turn event buffers a client attaches to: TurnStreams of         *)
(* store/buffer.ts, the streams built on it by streamTurn of the HTTP      *)
(* handler, and their teardown in sse.ts.                                  *)
(*                                                                         *)
(* The bus dispatches synchronously, so an event is recorded, fanned out   *)
(* and, when it is turn.end, followed by the eviction in one step.  A      *)
(* client is one SSE response: it replays what the buffer holds, then      *)
(* tails.  Token events (model.chunk) exist on the bus only while somebody *)
(* holds interest in them.                                                 *)
(***************************************************************************)
EXTENDS Integers, Sequences, FiniteSets

CONSTANTS
    Turns, Clients,
    Asks,          \* what a request may ask for, records [chunks, children]
    Parent,        \* [Turns -> Turns \cup {None}], the turn that started a subagent
    None,
    MaxEvents,     \* maxEventsPerTurn, the cap on one buffer
    RetainMs,      \* retainEndedMs, in clock ticks
    RetainCount,   \* retainEndedCount
    MaxRecorded,   \* bound: events of a turn besides its tokens and turn.end
    MaxTokens,     \* bound: tokens the model produces in a turn
    MaxTime,       \* bound: the clock
    Stops,         \* the runtime may be stopped
    Silent         \* a turn may finish without having emitted anything

ASSUME StreamConstants ==
    /\ Parent \in [Turns -> Turns \cup {None}] /\ None \notin Turns
    /\ \A t \in Turns : Parent[t] # t
    /\ Asks \subseteq [chunks : BOOLEAN, children : BOOLEAN]
    /\ IsFiniteSet(Turns) /\ IsFiniteSet(Clients)
    /\ MaxEvents \in Nat \ {0} /\ RetainCount \in Nat /\ RetainMs \in Nat
    /\ MaxRecorded \in Nat \ {0} /\ MaxTokens \in Nat /\ MaxTime \in Nat
    /\ {Stops, Silent} \subseteq BOOLEAN

VARIABLES
    phase,     \* [Turns -> {"new", "due", "live", "ended", "silent"}]
    tokens,    \* [Turns -> Nat], tokens the model has produced
    log,       \* [Turns -> Seq(Event)], every event the streams recorded, never cut
    base,      \* [Turns -> Nat], how many of them came before the buffer was opened
    seq,       \* #seq, the arrival order across the buffers
    buf,       \* #buffers
    client,    \* [Clients -> Client]
    interest,  \* #chunkInterest
    now,       \* the clock of the retention policy
    stopped    \* close() has run

turnVars == <<phase, tokens>>
vars == <<phase, tokens, log, base, seq, buf, client, interest, now, stopped>>

Event == [turn : Turns, kind : {"plain", "chunk", "end"}, n : Nat]

\* A buffer; one in state "none" is not in the map.
Buffer ==
    [events : Seq(Event), state : {"none", "running", "ended"}, endedAt : Nat,
     listeners : SUBSET Clients, children : SUBSET Turns,
     dropped : Nat, chunks : {"start", "partial", "none"}, holds : BOOLEAN]

\* The stream of a client: the turn, what it asked for, the events sent to it,
\* and what stream.replay told it.  Positions in the turn's log: from, the last event
\* the buffer no longer had; at, the last one of the replay; until, its end.
Client ==
    [phase : {"idle", "open", "ended", "gone", "refused"},
     turn : Turns \cup {None}, chunks : BOOLEAN, children : BOOLEAN,
     got : Seq(Event), from : Nat, at : Nat, until : Nat,
     provenance : {"start", "partial", "none"}]

Quiet(p) ==
    [phase |-> p, turn |-> None, chunks |-> FALSE, children |-> FALSE, got |-> <<>>,
     from |-> 0, at |-> 0, until |-> 0, provenance |-> "none"]

\* The interest of the streams is one exact subscription on the bus while the
\* count is positive; close() lets go of it and of the bus.
Subscribed == interest > 0

NoBuffer ==
    [events |-> <<>>, state |-> "none", endedAt |-> 0, listeners |-> {},
     children |-> {}, dropped |-> 0, chunks |-> "none", holds |-> FALSE]

Init ==
    /\ phase = [t \in Turns |-> "new"]
    /\ tokens = [t \in Turns |-> 0]
    /\ log = [t \in Turns |-> <<>>]
    /\ base = [t \in Turns |-> 0]
    /\ seq = 0
    /\ buf = [t \in Turns |-> NoBuffer]
    /\ client = [c \in Clients |-> Quiet("idle")]
    /\ interest = 0 /\ now = 0 /\ stopped = FALSE

------------------------------------------------------------------------------
(* Buffers *)

\* A buffer opened by `open`, or, with chunks FALSE, by the first event.
Fresh(chunks) ==
    [NoBuffer EXCEPT !.state = "running",
                     !.chunks = IF chunks THEN "start" ELSE "none",
                     !.holds = chunks]

\* Mutant: an event past the cap is discarded and not counted.
PushSilently(b, e) ==
    LET grown == Append(b.events, e)
    IN  [b EXCEPT !.events = IF Len(grown) > MaxEvents THEN Tail(grown) ELSE grown,
                  !.chunks = IF e.kind = "chunk" /\ @ = "none" THEN "partial" ELSE @]

Push(b, e) ==
    LET grown == Append(b.events, e)
        over == Len(grown) > MaxEvents
    IN  [b EXCEPT !.events = IF over THEN Tail(grown) ELSE grown,
                  !.dropped = IF over THEN @ + 1 ELSE @,
                  !.chunks = IF e.kind = "chunk" /\ @ = "none" THEN "partial" ELSE @]

\* Mutant: a release takes the count below zero.
LessUnguarded(n, k) == n - k

\* A release is a no-op at zero.
Less(n, k) == IF n > k THEN n - k ELSE 0

Unlistened(b) ==
    {t \in Turns : /\ b[t].state = "ended"
                   /\ b[t].listeners = {}}

\* #evict: the ended buffers nobody reads go by age, then the oldest of the rest
\* beyond the count.  Buffers that ended in the same tick are taken in any order.
Evictions(b) ==
    LET idle == Unlistened(b)
        aged == {t \in idle : now - b[t].endedAt >= RetainMs}
        rest == idle \ aged
        excess == Less(Cardinality(rest), RetainCount)
    IN  {aged \cup d : d \in {d \in SUBSET rest :
            /\ Cardinality(d) = excess
            /\ \A x \in d, y \in rest \ d : b[x].endedAt <= b[y].endedAt}}

------------------------------------------------------------------------------
(* Recording an event *)

\* fanOut: the turn's own listeners, and the parent's that asked for children.
Hears(c, e, b) ==
    /\ client[c].phase = "open"
    /\ e.kind = "chunk" => client[c].chunks
    /\ \/ c \in b[e.turn].listeners
       \/ /\ Parent[e.turn] # None
          /\ c \in b[Parent[e.turn]].listeners
          /\ client[c].children

\* The stream of a client closes on the end of its own turn; finish() then runs
\* the teardown, which unsubscribes.
EndsStream(c, e, b) == Hears(c, e, b) /\ e.kind = "end" /\ client[c].turn = e.turn

\* The buffers with the event pushed, its turn noted by the parent's buffer, and,
\* at turn.end, the buffer ended with no listener left.
Grown(e) ==
    LET t == e.turn
        pushed == [buf EXCEPT ![t] = Push(IF @.state = "none" THEN Fresh(FALSE) ELSE @, e)]
        p == Parent[t]
        noted == IF p # None /\ pushed[p].state # "none"
                 THEN [pushed EXCEPT ![p].children = @ \cup {t}] ELSE pushed
    IN  noted

\* Mutant: a subagent's turn.end ends the buffer of its parent as well.
SettledParent(e, b) ==
    IF e.kind # "end" THEN b
    ELSE [x \in Turns |->
            IF x = e.turn \/ x = Parent[e.turn]
            THEN [b[x] EXCEPT !.state = IF @ = "none" THEN @ ELSE "ended", !.endedAt = now,
                              !.listeners = {c \in @ : ~EndsStream(c, e, b)}]
            ELSE b[x]]

Settled(e, b) ==
    IF e.kind # "end" THEN b
    ELSE [b EXCEPT ![e.turn].state = "ended", ![e.turn].endedAt = now,
                   ![e.turn].listeners = {c \in @ : ~EndsStream(c, e, b)}]

Record(t, kind) ==
    LET e == [turn |-> t, kind |-> kind, n |-> seq]
        grown == Grown(e)
        left == {c \in Clients : EndsStream(c, e, grown) /\ client[c].chunks}
        settled == Settled(e, grown)
    IN  /\ seq' = seq + 1
        /\ log' = [log EXCEPT ![t] = Append(@, e)]
        /\ base' = IF buf[t].state = "none" THEN [base EXCEPT ![t] = Len(log[t])] ELSE base
        /\ client' = [c \in Clients |->
              IF ~Hears(c, e, grown) THEN client[c]
              ELSE LET told == [client[c] EXCEPT !.got = Append(@, e)]
                   IN  IF EndsStream(c, e, grown)
                       THEN [told EXCEPT !.phase = "ended", !.until = Len(log[t]) + 1]
                       ELSE told]
        /\ \E gone \in IF kind = "end" THEN Evictions(settled) ELSE {{}} :
              /\ buf' = [x \in Turns |-> IF x \in gone THEN NoBuffer ELSE settled[x]]
              /\ interest' = Less(interest, Cardinality(left)
                                + Cardinality({x \in gone : settled[x].holds}))

------------------------------------------------------------------------------
(* Turns, while the streams listen to the bus *)

\* What the bound on a turn's events counts.
Counted(t) == Cardinality({k \in DOMAIN log[t] : log[t][k].kind # "chunk"})

\* A channel, a schedule or a socket starts a turn and opens no buffer; a
\* subagent is started by a turn that runs.
StartElsewhere(t) ==
    /\ ~stopped /\ phase[t] = "new"
    /\ Parent[t] # None => phase[Parent[t]] = "live"
    /\ phase' = [phase EXCEPT ![t] = "due"]
    /\ UNCHANGED <<tokens, log, base, seq, buf, client, interest, now, stopped>>

\* POST /messages without stream, and POST /schedules/:sid/run (no chunks): the
\* buffer exists before the caller can hold the turn's id.
Post(t, chunks) ==
    /\ ~stopped /\ phase[t] = "new" /\ Parent[t] = None
    /\ phase' = [phase EXCEPT ![t] = "due"]
    /\ buf' = [buf EXCEPT ![t] = Fresh(chunks)]
    /\ interest' = IF chunks THEN interest + 1 ELSE interest
    /\ UNCHANGED <<tokens, log, base, seq, client, now, stopped>>

\* The first event and the ones up to the last: turn.start, steps, tool calls.
Emit(t) ==
    /\ ~stopped /\ phase[t] \in {"due", "live"} /\ Counted(t) < MaxRecorded
    /\ phase' = [phase EXCEPT ![t] = "live"]
    /\ Record(t, "plain")
    /\ UNCHANGED <<tokens, now, stopped>>

\* A token: the bus builds its event only for a subscriber.
Token(t) ==
    /\ ~stopped /\ phase[t] = "live" /\ tokens[t] < MaxTokens
    /\ tokens' = [tokens EXCEPT ![t] = @ + 1]
    /\ IF Subscribed THEN Record(t, "chunk")
                     ELSE UNCHANGED <<log, base, seq, buf, client, interest>>
    /\ UNCHANGED <<phase, now, stopped>>

End(t) ==
    /\ ~stopped /\ phase[t] = "live"
    /\ phase' = [phase EXCEPT ![t] = "ended"]
    /\ Record(t, "end")
    /\ UNCHANGED <<tokens, now, stopped>>

\* A wrapTurn middleware that answers by itself, or a failure before the loop:
\* the turn is over and the bus never hears of it.
EndSilently(t) ==
    /\ ~stopped /\ Silent /\ phase[t] = "due"
    /\ phase' = [phase EXCEPT ![t] = "silent"]
    /\ UNCHANGED <<tokens, log, base, seq, buf, client, interest, now, stopped>>

\* delivery.sent, .retry and .failed carry the turn of the reply they deliver; one
\* that comes when the turn's buffer was evicted opens another, running buffer.
Delivered(t) ==
    /\ ~stopped /\ phase[t] = "ended" /\ Counted(t) <= MaxRecorded
    /\ Record(t, "plain")
    /\ UNCHANGED <<phase, tokens, now, stopped>>

------------------------------------------------------------------------------
(* Clients *)

\* #withChildren: the events of the turn and those of its subagents that are
\* still buffered, by their arrival order.
Replay(t, children) ==
    LET kids == IF children THEN buf[t].children ELSE {}
        all == UNION {{buf[x].events[i] : i \in 1 .. Len(buf[x].events)} : x \in {t} \cup kids}
        rank(e) == Cardinality({d \in all : d.n <= e.n})
    IN  [i \in 1 .. Cardinality(all) |-> CHOOSE e \in all : rank(e) = i]

Streaming(t, ask, b, replay) ==
    [phase |-> IF b.state = "ended" THEN "ended" ELSE "open",
     turn |-> t, chunks |-> ask.chunks, children |-> ask.children, got |-> replay,
     from |-> base[t] + b.dropped, at |-> Len(log[t]), until |-> Len(log[t]),
     provenance |-> b.chunks]

\* POST /messages with stream: open, then attach, with no await between them.
PostStream(t, c, ask) ==
    /\ ~stopped /\ phase[t] = "new" /\ Parent[t] = None /\ client[c].phase = "idle"
    /\ phase' = [phase EXCEPT ![t] = "due"]
    /\ buf' = [buf EXCEPT ![t] = [Fresh(ask.chunks) EXCEPT !.listeners = {c}]]
    /\ client' = [client EXCEPT ![c] = Streaming(t, ask, Fresh(ask.chunks), <<>>)]
    /\ interest' = IF ask.chunks THEN interest + 2 ELSE interest
    /\ UNCHANGED <<tokens, log, base, seq, now, stopped>>

\* Mutant: the teardown of a stream that closed while it was starting is lost.
AttachLeaks(t, c, ask) ==
    /\ ~stopped /\ client[c].phase = "idle" /\ phase[t] # "new"
    /\ IF buf[t].state = "none"
       THEN client' = [client EXCEPT ![c] = Quiet("refused")] /\ UNCHANGED <<buf, interest>>
       ELSE /\ client' = [client EXCEPT ![c] =
                   Streaming(t, ask, buf[t], Replay(t, ask.children))]
            /\ buf' = [buf EXCEPT ![t].listeners = @ \cup {c}]
            /\ interest' = IF ask.chunks THEN interest + 1 ELSE interest
    /\ UNCHANGED <<phase, tokens, log, base, seq, now, stopped>>

\* GET .../stream: snapshot and subscription in one block.  A turn that has ended
\* is replayed and closed at once, its subscription undone as soon as start
\* returns it; a turn without a buffer is answered from its row.
Attach(t, c, ask) ==
    /\ ~stopped /\ client[c].phase = "idle" /\ phase[t] # "new"
    /\ IF buf[t].state = "none"
       THEN client' = [client EXCEPT ![c] = Quiet("refused")] /\ UNCHANGED <<buf, interest>>
       ELSE /\ client' = [client EXCEPT ![c] =
                   Streaming(t, ask, buf[t], Replay(t, ask.children))]
            /\ IF buf[t].state = "ended"
               THEN UNCHANGED <<buf, interest>>
               ELSE /\ buf' = [buf EXCEPT ![t].listeners = @ \cup {c}]
                    /\ interest' = IF ask.chunks THEN interest + 1 ELSE interest
    /\ UNCHANGED <<phase, tokens, log, base, seq, now, stopped>>

\* cancel(), or an enqueue that fails: the teardown runs once.  The listener goes
\* with its buffer when close() has dropped that.
Disconnect(c) ==
    /\ client[c].phase = "open"
    /\ LET t == client[c].turn
       IN  buf' = [buf EXCEPT ![t].listeners = @ \ {c}]
    /\ interest' = IF client[c].chunks THEN Less(interest, 1) ELSE interest
    /\ client' = [client EXCEPT ![c] = Quiet("gone")]
    /\ UNCHANGED <<phase, tokens, log, base, seq, now, stopped>>

------------------------------------------------------------------------------

Tick ==
    /\ now < MaxTime
    /\ now' = now + 1
    /\ UNCHANGED <<phase, tokens, log, base, seq, buf, client, interest, stopped>>

\* close, from Runtime.stop, after the server has stopped: turns that run go on, and
\* the streams, off the bus, hear no more of them.
Close ==
    /\ Stops /\ ~stopped
    /\ stopped' = TRUE
    /\ buf' = [t \in Turns |-> NoBuffer]
    /\ interest' = 0
    /\ UNCHANGED <<phase, tokens, log, base, seq, client, now>>

TurnStep(t) ==
    \/ StartElsewhere(t) \/ Emit(t) \/ Token(t) \/ End(t) \/ EndSilently(t) \/ Delivered(t)
    \/ \E ask \in Asks : Post(t, ask.chunks)

ClientStep(c) ==
    \/ Disconnect(c)
    \/ \E t \in Turns, ask \in Asks :
          PostStream(t, c, ask) \/ Attach(t, c, ask)

Next ==
    \/ \E t \in Turns : TurnStep(t)
    \/ \E c \in Clients : ClientStep(c)
    \/ Tick
    \/ Close

Spec == Init /\ [][Next]_vars

------------------------------------------------------------------------------
(* Properties *)

\* Every variable has its type.
TypeOK ==
    /\ phase \in [Turns -> {"new", "due", "live", "ended", "silent"}]
    /\ tokens \in [Turns -> Nat]
    /\ log \in [Turns -> Seq(Event)]
    /\ base \in [Turns -> Nat]
    /\ buf \in [Turns -> Buffer]
    /\ client \in [Clients -> Client]
    /\ seq \in Nat /\ interest \in Nat /\ now \in Nat /\ stopped \in BOOLEAN

IsChunk(e) == e.kind = "chunk"

\* What a client has of its own turn.
Own(c) ==
    {client[c].got[i] : i \in {i \in DOMAIN client[c].got :
                                  client[c].got[i].turn = client[c].turn}}

\* The positions in its turn's log that a stream covers: from the first event not
\* reported dropped up to now or, when turn.end closed it, up to that event.
Span(c) ==
    client[c].from + 1 .. IF client[c].phase = "open" THEN Len(log[client[c].turn])
                                                      ELSE client[c].until

\* What it is owed: those events, the tokens only if it asked for them.
Owed(c) ==
    LET r == client[c]
    IN  {log[r.turn][k] : k \in {k \in Span(c) : IsChunk(log[r.turn][k]) => r.chunks}}

\* What it may have on top: the tokens of the replay, which attach hands over unfiltered.
Replayed(c) ==
    LET r == client[c]
    IN  {log[r.turn][k] : k \in {k \in Span(c) : k <= r.at /\ IsChunk(log[r.turn][k])}}

\* The handover from replay to tail loses nothing (attach): a stream holds every event
\* of its turn that it is owed and, of the turn, nothing else but tokens that were
\* buffered when it attached.  That none is repeated, and that they are in the order of
\* the log, is InArrivalOrder.
GaplessHandover ==
    \A c \in Clients : client[c].phase \in {"open", "ended"} =>
        /\ Owed(c) \subseteq Own(c)
        /\ Own(c) \subseteq Owed(c) \cup Replayed(c)

\* A stream, with the events of subagents merged into it (#withChildren and the
\* fan-out to the parent's listeners), has them in the order they happened, each once.
InArrivalOrder ==
    \A c \in Clients : \A i, j \in 1 .. Len(client[c].got) :
        i < j => client[c].got[i].n < client[c].got[j].n

\* #evict never takes a buffer from under its reader: until the runtime stops, an
\* open stream is a listener of the running buffer of its turn.
ReaderKeepsBuffer ==
    \A c \in Clients : client[c].phase = "open" /\ ~stopped =>
        /\ c \in buf[client[c].turn].listeners
        /\ buf[client[c].turn].state = "running"

Holders == {t \in Turns : buf[t].holds}
Readers == {c \in Clients : client[c].phase = "open" /\ client[c].chunks}

\* The reference count of token interest is exactly its owners, the buffers that
\* hold a unit and the open streams that asked: it neither leaks a unit nor drops
\* another reader's (#takeChunkInterest, #releaseChunkInterest, #drop).
InterestOwned ==
    IF stopped THEN interest = 0
               ELSE interest = Cardinality(Holders) + Cardinality(Readers)

ChunksOf(t) == {k \in DOMAIN log[t] : IsChunk(log[t][k])}

Held(t) == {buf[t].events[i] : i \in DOMAIN buf[t].events}

\* The provenance an attachment reports is the truth about the replay it comes with.
\* "start": every token the model produced was recorded, and each is buffered unless it
\* is among the first `dropped` events, which the attachment reports too; with none
\* dropped the replay has all of them.  "none": the replay has no token.
TokenProvenance ==
    \A t \in Turns : buf[t].state # "none" =>
        /\ buf[t].chunks = "start" =>
              /\ Cardinality(ChunksOf(t)) = tokens[t]
              /\ \A k \in ChunksOf(t) : k <= buf[t].dropped \/ log[t][k] \in Held(t)
        /\ buf[t].chunks = "none" => \A e \in Held(t) : ~IsChunk(e)

\* What a client holds is the turn, without gap, and what it was told of it is true.
StreamTruth == GaplessHandover /\ InArrivalOrder /\ TokenProvenance

\* Ended buffers never outnumber the retention count.
RetentionBound ==
    Cardinality({t \in Turns : buf[t].state = "ended"}) <= RetainCount

\* The buffer of a turn that was opened again: it lacks what came before.
Reopened(t) == base[t] > 0

\* A turn that has ended is not shown as running, unless a delivery event came for it
\* after its buffer was evicted and opened another, which no turn.end will end.
EndedIsEnded ==
    \A t \in Turns : phase[t] = "ended" /\ ~Reopened(t) => buf[t].state # "running"

\* Buffers live as long as they should: not taken from a reader, not shown as running
\* after the end, not kept beyond the retention.
BufferLife == ReaderKeepsBuffer /\ RetentionBound /\ EndedIsEnded

\* A buffer that says "running" is the buffer of a turn that has not ended, so a
\* client that loops over a stream always comes to a terminal frame.
RunningIsRunning ==
    \A t \in Turns : buf[t].state = "running" =>
        phase[t] \in {"due", "live"}

\* A client that did not ask for tokens never receives any.
OnlyAskedTokens ==
    \A c \in Clients : ~client[c].chunks =>
        \A i \in 1 .. Len(client[c].got) : ~IsChunk(client[c].got[i])
==============================================================================
