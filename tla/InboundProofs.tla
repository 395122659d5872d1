--------------------------- MODULE InboundProofs ---------------------------
(***************************************************************************)
(* Proofs about Inbound, for every set of messages, chats and requests and *)
(* every window, cap and bound: a conversation is one sequence of turns in *)
(* which the messages of a chat keep their order, a message is not acted   *)
(* on twice, a reply is remembered, and nothing is left behind.            *)
(***************************************************************************)
EXTENDS Inbound, FiniteSetTheorems, TLAPS

InChain == {"chain", "running", "finished"}
Statuses == {"none", "running", "complete", "error", "abandoned"}

Jobs ==
    [origin : Origins, session : 0 .. MaxSessions, stage : Stages \ {"none"}, snap : Nat,
     appends : BOOLEAN, born : Nat, nth : Nat]

\* The full types, of which TypeOK is what a reader of the model wants to know.
Typed ==
    /\ rows \in [Ids -> Statuses] /\ hist \in [Sessions -> Seq(Ids)]
    /\ DOMAIN keys = Keys /\ keys = [k \in Keys |-> keys[k]]
    /\ \A k \in Keys : keys[k] = None \/ keys[k].turn \in Ids
    /\ outbox \subseteq Ids /\ head \in Sessions /\ up \in BOOLEAN
    /\ seen \in Seq(Messages) /\ hub \in [Chats -> Seq(Ids)]
    /\ chain \in [Sessions -> Seq(Ids)] /\ slots \in Int
    /\ job \in [Ids -> {NoJob} \cup Jobs]
    /\ heard \in 0 .. MaxHeard /\ crashes \in 0 .. MaxFaults
    /\ leaked \in Nat /\ threw \subseteq Ids

\* What a stage says of the job that is in it.
Staged ==
    \A t \in Ids :
        /\ Stage(t) \in InChain \cup {"admitted"} => job[t].session \in Sessions
        /\ Stage(t) \in {"hub", "returned", "replying"} => IsChat(t)
        /\ Stage(t) = "admitted" => ~IsChat(t)
        /\ Stage(t) # "none" => job[t].born <= crashes

\* The slots, and that they stay within the cap.
Users == {t \in Ids : Stage(t) \in InSend}
Balance == slots = leaked + Cardinality(Users) /\ slots <= Cap

\* Ids are used in order, and no job is under way while the process is down.
UsedInOrder ==
    /\ \A t, u \in Ids : t < u /\ Stage(u) # "none" => Stage(t) # "none"
    /\ ~up => \A t \in Ids : ~Active(t)

\* The chain of a session holds the turns of that session between admission and
\* append, each once, and the one that runs or has run is its head.
ChainInv ==
    /\ \A s \in Sessions : \A i \in 1 .. Len(chain[s]) :
          Stage(chain[s][i]) \in InChain /\ job[chain[s][i]].session = s
    /\ \A s \in Sessions : \A i, j \in 1 .. Len(chain[s]) : chain[s][i] = chain[s][j] => i = j
    /\ \A t \in Ids : Stage(t) \in InChain => Has(chain[job[t].session], t)
    /\ \A t \in Ids : Stage(t) \in {"running", "finished"} => Head(chain[job[t].session]) = t

\* The queue of a chat holds the messages of that chat that are not done with, in the
\* order of their ids, and the one that has left the hub is its head.
HubInv ==
    /\ \A c \in Chats : \A i \in 1 .. Len(hub[c]) :
          Active(hub[c][i]) /\ IsChat(hub[c][i]) /\ Chat(hub[c][i]) = c
    /\ \A c \in Chats : \A i, j \in 1 .. Len(hub[c]) : i < j => hub[c][i] < hub[c][j]
    /\ \A t \in Ids : Active(t) /\ IsChat(t) => Has(hub[Chat(t)], t)
    /\ \A t \in Ids : Active(t) /\ IsChat(t) /\ Stage(t) # "hub" => Head(hub[Chat(t)]) = t

\* What a history holds is done with, and came before what its chat still queues.
HistInv ==
    /\ \A s \in Sessions : \A i \in 1 .. Len(hist[s]) :
          Stage(hist[s][i]) \in {"returned", "replying", "over", "lost"}
    /\ \A s \in Sessions : \A i \in 1 .. Len(hist[s]) : IsChat(hist[s][i]) =>
          \A j \in 1 .. Len(hub[Chat(hist[s][i])]) : hist[s][i] <= hub[Chat(hist[s][i])][j]
    /\ ChatOrder

\* What the row, the key and the outbox say at each stage.
RowInv ==
    /\ \A t \in Ids : Stage(t) \in {"none", "hub", "admitted", "chain"} => rows[t] = "none"
    /\ \A t \in Ids : Stage(t) = "finished" =>
          rows[t] \in {"complete", "error"} /\ (rows[t] = "complete" => job[t].appends)
    /\ \A t \in Ids : Stage(t) = "returned" \/ t \in outbox =>
          rows[t] \in {"complete", "error"} /\ job[t].session \in Sessions
          /\ (rows[t] = "complete" => Has(hist[job[t].session], t))
    /\ \A t \in Ids : t \in outbox => Stage(t) \in {"replying", "over", "lost"}
    /\ RunningOwned

\* A turn that carries a key and is past its claim is the one the key names.
KeyInv ==
    \A t \in Ids : Stage(t) \in InChain \/ rows[t] # "none" =>
        (~IsChat(t) /\ Origin(t).key # NoKey => keys[Origin(t).key].turn = t)

\* The ids remembered are those of the last messages heard, up to the window.
SeenInv ==
    /\ Len(seen) = IF heard < Window THEN heard ELSE Window
    /\ \A t \in Ids : Stage(t) # "none" /\ IsChat(t) /\ job[t].born = crashes =>
          /\ job[t].nth \in 1 .. heard
          /\ heard - job[t].nth < Window =>
                seen[Len(seen) - (heard - job[t].nth)] = Origin(t).msg
    /\ DuplicateExcused

-----------------------------------------------------------------------------
(* What the steps do to a job *)

\* Job t goes to stage st, with its origin, and no other job is touched.
Moves(t, st) ==
    /\ job' \in [Ids -> {NoJob} \cup Jobs]
    /\ \A u \in Ids : u # t => job'[u] = job[u]
    /\ job[t] \in Jobs /\ job'[t] \in Jobs
    /\ job'[t].stage = st /\ job'[t].origin = job[t].origin
    /\ job'[t].born = job[t].born /\ job'[t].nth = job[t].nth

\* A job that is not unused has all its fields.
LEMMA UsedJob ==
    ASSUME Typed, NEW t \in Ids, Stage(t) # "none"
    PROVE  job[t] \in Jobs
BY DEF Typed, Stage, NoJob

\* Go and End move the job to the stage they name and leave its session alone.
LEMMA GoMoves ==
    ASSUME Typed, NEW t \in Ids, Stage(t) # "none", NEW st \in Stages \ {"none"}, Go(t, st)
    PROVE  Moves(t, st) /\ job'[t].session = job[t].session
<1>1. job[t] \in Jobs
  BY UsedJob
<1> DEFINE q == [job[t] EXCEPT !.stage = st]
<1>2. q \in Jobs /\ q.stage = st /\ q.origin = job[t].origin /\ q.born = job[t].born
      /\ q.nth = job[t].nth /\ q.session = job[t].session
  BY <1>1 DEF Jobs
<1>3. job' = [job EXCEPT ![t] = q]
  BY DEF Go
<1> HIDE DEF q
<1>4. QED
  BY <1>1, <1>2, <1>3 DEF Moves, Typed

LEMMA EndMoves ==
    ASSUME Typed, NEW t \in Ids, Stage(t) # "none", NEW st \in Stages \ {"none"}, End(t, st)
    PROVE  Moves(t, st) /\ job'[t].session = job[t].session
<1>1. job[t] \in Jobs
  BY UsedJob
<1> DEFINE q == [[[job[t] EXCEPT !.stage = st] EXCEPT !.snap = 0] EXCEPT !.appends = FALSE]
<1>2. q \in Jobs /\ q.stage = st /\ q.origin = job[t].origin /\ q.born = job[t].born
      /\ q.nth = job[t].nth /\ q.session = job[t].session
  BY <1>1 DEF Jobs
<1>3. job' = [job EXCEPT ![t] = q]
  BY DEF End, Typed
<1> HIDE DEF q
<1>4. QED
  BY <1>1, <1>2, <1>3 DEF Moves, Typed

LEMMA AdmitMoves ==
    ASSUME Typed, NEW t \in Ids, Admit(t)
    PROVE  /\ Moves(t, "chain") /\ job'[t].session = head
           /\ AtHub(t) /\ slots < Cap /\ slots' = slots + 1
           /\ chain' = [chain EXCEPT ![head] = Append(@, t)]
           /\ UNCHANGED <<store, up, seen, hub, heard, crashes, leaked, threw>>
<1>1. job[t] \in Jobs
  BY UsedJob DEF Admit, AtHub
<1> DEFINE q == [[job[t] EXCEPT !.stage = "chain"] EXCEPT !.session = head]
<1>0. head \in 0 .. MaxSessions
  BY InboundConstants DEF Typed, Sessions
<1>2. q \in Jobs /\ q.stage = "chain" /\ q.origin = job[t].origin /\ q.born = job[t].born
      /\ q.nth = job[t].nth /\ q.session = head
  BY <1>0, <1>1 DEF Jobs, Stages, Going
<1>3. job' = [job EXCEPT ![t] = q]
  BY DEF Admit, Typed
<1> HIDE DEF q
<1>4. Moves(t, "chain") /\ job'[t].session = head
  BY <1>1, <1>2, <1>3 DEF Moves, Typed
<1>5. QED
  BY <1>4 DEF Admit

LEMMA StartMoves ==
    ASSUME Typed, Staged, NEW t \in Ids, Start(t)
    PROVE  /\ Moves(t, "running") /\ job'[t].session = job[t].session
           /\ job'[t].snap = Len(hist[job[t].session])
           /\ AtChain(t) /\ rows' = [rows EXCEPT ![t] = "running"]
           /\ UNCHANGED <<hist, keys, outbox, head, up, seen, hub, chain, slots, heard,
                          crashes, leaked, threw>>
<1>1. job[t] \in Jobs /\ job[t].session \in Sessions
  BY UsedJob DEF Start, AtChain, Staged, InChain
<1> DEFINE n == Len(hist[job[t].session])
           q == [[job[t] EXCEPT !.stage = "running"] EXCEPT !.snap = n]
<1>2. n \in Nat
  BY <1>1 DEF Typed
<1>3. job' = [job EXCEPT ![t] = q]
  BY DEF Start, Typed
<1> HIDE DEF n
<1>4. q \in Jobs /\ q.stage = "running" /\ q.origin = job[t].origin /\ q.born = job[t].born
      /\ q.nth = job[t].nth /\ q.session = job[t].session /\ q.snap = n
  BY <1>1, <1>2 DEF Jobs, Stages, Going
<1> HIDE DEF q
<1>5. Moves(t, "running") /\ job'[t].session = job[t].session /\ job'[t].snap = n
  BY <1>1, <1>3, <1>4 DEF Moves, Typed
<1>6. QED
  BY <1>5 DEF Start, n

LEMMA FinishMoves ==
    ASSUME Typed, NEW t \in Ids, NEW status, NEW appends \in BOOLEAN, Finish(t, status, appends)
    PROVE  /\ Moves(t, "finished") /\ job'[t].session = job[t].session
           /\ job'[t].snap = job[t].snap /\ job'[t].appends = appends
           /\ Stage(t) = "running" /\ (status = "complete" => appends)
           /\ rows' = [rows EXCEPT ![t] = status]
           /\ UNCHANGED <<hist, keys, outbox, head, up, seen, hub, chain, slots, heard,
                          crashes, leaked, threw>>
<1>1. job[t] \in Jobs
  BY UsedJob DEF Finish
<1> DEFINE q == [[job[t] EXCEPT !.stage = "finished"] EXCEPT !.appends = appends]
<1>2. q \in Jobs /\ q.stage = "finished" /\ q.origin = job[t].origin /\ q.born = job[t].born
      /\ q.nth = job[t].nth /\ q.session = job[t].session /\ q.snap = job[t].snap
      /\ q.appends = appends
  BY <1>1 DEF Jobs, Stages, Going
<1>3. job' = [job EXCEPT ![t] = q]
  BY DEF Finish, Typed
<1> HIDE DEF q
<1>4. /\ Moves(t, "finished") /\ job'[t].session = job[t].session
      /\ job'[t].snap = job[t].snap /\ job'[t].appends = appends
  BY <1>1, <1>2, <1>3 DEF Moves, Typed
<1>5. QED
  BY <1>4 DEF Finish

\* A new job takes an unused id.
Takes(t, o, s, st, n) ==
    /\ job' \in [Ids -> {NoJob} \cup Jobs]
    /\ \A u \in Ids : u # t => job'[u] = job[u]
    /\ Stage(t) = "none" /\ job'[t] \in Jobs
    /\ job'[t].stage = st /\ job'[t].origin = o /\ job'[t].session = s
    /\ job'[t].born = crashes /\ job'[t].nth = n

LEMMA JobTakes ==
    ASSUME Typed, NEW t \in Ids, IsNext(t), NEW o \in Origins, NEW s \in 0 .. MaxSessions,
           NEW st \in {"hub", "admitted"}, NEW n \in Nat,
           job' = [job EXCEPT ![t] = Job(o, s, st, n)]
    PROVE  Takes(t, o, s, st, n)
<1> DEFINE q == Job(o, s, st, n)
<1>1. q \in Jobs /\ q.stage = st /\ q.origin = o /\ q.session = s /\ q.born = crashes
      /\ q.nth = n
  BY InboundConstants DEF Jobs, Job, Stages, Going, Typed
<1>2. Stage(t) = "none"
  BY DEF IsNext, Unused
<1> HIDE DEF q
<1>3. job' = [job EXCEPT ![t] = q]
  BY DEF q
<1>4. QED
  BY <1>1, <1>2, <1>3 DEF Takes, Typed

\* A crash loses what was active.
LEMMA CrashLoses ==
    ASSUME Typed, Crash
    PROVE  /\ job' \in [Ids -> {NoJob} \cup Jobs]
           /\ \A t \in Ids : ~Active(t) => job'[t] = job[t]
           /\ \A t \in Ids : Active(t) =>
                 /\ job[t] \in Jobs /\ job'[t] \in Jobs /\ job'[t].stage = "lost"
                 /\ job'[t].origin = job[t].origin /\ job'[t].session = job[t].session
                 /\ job'[t].born = job[t].born /\ job'[t].nth = job[t].nth
           /\ up /\ MayFail /\ up' = FALSE /\ crashes' = crashes + 1
           /\ seen' = <<>> /\ heard' = 0 /\ slots' = 0 /\ leaked' = 0
           /\ \A c \in Chats : hub'[c] = <<>>
           /\ \A s \in Sessions : chain'[s] = <<>>
           /\ hub' \in [Chats -> Seq(Ids)] /\ chain' \in [Sessions -> Seq(Ids)]
           /\ UNCHANGED <<store, threw>>
<1> DEFINE q(t) == [job[t] EXCEPT !.stage = "lost", !.snap = 0, !.appends = FALSE]
<1>1. job' = [t \in Ids |-> IF Active(t) THEN q(t) ELSE job[t]]
  BY DEF Crash
<1>2. ASSUME NEW t \in Ids, Active(t)
      PROVE  /\ job[t] \in Jobs /\ q(t) \in Jobs /\ q(t).stage = "lost"
             /\ q(t).origin = job[t].origin /\ q(t).session = job[t].session
             /\ q(t).born = job[t].born /\ q(t).nth = job[t].nth
  <2>1. job[t] \in Jobs
    BY <1>2, UsedJob DEF Active, Going
  <2>2. QED
    BY <2>1 DEF Jobs, Stages
<1> HIDE DEF q
<1>3. /\ job' \in [Ids -> {NoJob} \cup Jobs]
      /\ \A t \in Ids : ~Active(t) => job'[t] = job[t]
      /\ \A t \in Ids : Active(t) => job'[t] = q(t)
  BY <1>1, <1>2 DEF Typed
<1>4. /\ hub' = [c \in Chats |-> <<>>] /\ chain' = [s \in Sessions |-> <<>>]
  BY DEF Crash
<1>5. /\ up /\ MayFail /\ up' = FALSE /\ crashes' = crashes + 1
      /\ seen' = <<>> /\ heard' = 0 /\ slots' = 0 /\ leaked' = 0
      /\ UNCHANGED <<store, threw>>
  BY DEF Crash
<1>6. /\ \A c \in Chats : hub'[c] = <<>>
      /\ \A s \in Sessions : chain'[s] = <<>>
      /\ hub' \in [Chats -> Seq(Ids)] /\ chain' \in [Sessions -> Seq(Ids)]
  BY <1>4
<1>7. QED
  BY <1>2, <1>3, <1>5, <1>6
LEMMA DeclineMoves ==
    ASSUME Typed, NEW t \in Ids, Decline(t)
    PROVE  Moves(t, "replying") /\ job'[t].session = job[t].session
BY EndMoves DEF Decline, AtHub, Stages, Going

LEMMA ReplyMoves ==
    ASSUME Typed, NEW t \in Ids, Reply(t)
    PROVE  /\ job'[t].session = job[t].session
           /\ \E st \in {"over", "replying"} :
                 /\ Moves(t, st)
                 /\ st = "over" => LeaveHub(t) /\ UNCHANGED outbox
                 /\ st = "replying" => UNCHANGED hub /\ outbox' = outbox \cup {t}
<1>1. CASE End(t, "over") /\ LeaveHub(t) /\ UNCHANGED outbox
  BY <1>1, EndMoves DEF Reply, Stages
<1>2. CASE End(t, "replying") /\ outbox' = outbox \cup {t} /\ UNCHANGED hub
  BY <1>2, EndMoves DEF Reply, Stages, Going
<1>3. QED
  BY <1>1, <1>2 DEF Reply, QueuesReply

LEMMA DrainedMoves ==
    ASSUME Typed, NEW t \in Ids, Drained(t)
    PROVE  Moves(t, "over") /\ job'[t].session = job[t].session
BY EndMoves DEF Drained, Stages

\* A claim wins, and its job goes on to the chain, or it is over.
Wins(t) == Origin(t).key = NoKey \/ keys[Origin(t).key] = None

LEMMA ClaimMoves ==
    ASSUME Typed, NEW t \in Ids, Claim(t)
    PROVE  /\ job'[t].session = job[t].session
           /\ Stage(t) = "admitted" /\ ~IsChat(t)
           /\ Wins(t) => /\ Moves(t, "chain") /\ slots' = slots
                         /\ chain' = [chain EXCEPT ![job[t].session] = Append(@, t)]
                         /\ keys' = IF Origin(t).key = NoKey THEN keys
                                    ELSE [keys EXCEPT ![Origin(t).key] = Claimant(t)]
           /\ ~Wins(t) => /\ \E st \in {"replayed", "conflict"} : Moves(t, st)
                          /\ slots' = slots - 1 /\ UNCHANGED <<chain, keys>>
           /\ UNCHANGED <<rows, hist, outbox, head, up, seen, hub, heard, crashes, leaked,
                          threw>>
<1>1. CASE Wins(t)
  BY <1>1, GoMoves DEF Claim, Wins, Stages, Going
<1>2. CASE ~Wins(t)
  BY <1>2, EndMoves DEF Claim, Wins, Stages
<1>3. QED
  BY <1>1, <1>2

LEMMA ClaimThrowsMoves ==
    ASSUME Typed, NEW t \in Ids, ClaimThrows(t)
    PROVE  Moves(t, "over") /\ job'[t].session = job[t].session
BY EndMoves DEF ClaimThrows, Stages

LEMMA AppendMoves ==
    ASSUME Typed, NEW t \in Ids, AppendTurn(t)
    PROVE  /\ Moves(t, IF IsChat(t) THEN "returned" ELSE "over")
           /\ job'[t].session = job[t].session
BY EndMoves DEF AppendTurn, Stages, Going

LEMMA ThrowMoves ==
    ASSUME Typed, NEW t \in Ids, Throw(t)
    PROVE  Moves(t, "over") /\ job'[t].session = job[t].session
BY EndMoves DEF Throw, AtChain, Stages

LEMMA PostTakes ==
    ASSUME Typed, NEW t \in Ids, NEW r \in Requests, Post(t, r)
    PROVE  /\ Takes(t, Asked(r), head, "admitted", 0) /\ IsNext(t)
           /\ up /\ slots < Cap /\ slots' = slots + 1
           /\ UNCHANGED <<store, up, seen, hub, chain, heard, crashes, leaked, threw>>
<1>1. head \in 0 .. MaxSessions
  BY InboundConstants DEF Typed, Sessions
<1>2. Asked(r) \in Origins
  BY DEF Origins
<1>3. QED
  BY <1>1, <1>2, JobTakes DEF Post

LEMMA InboundTakes ==
    ASSUME Typed, NEW m \in Allowed, Inbound(m)
    PROVE  /\ \E t \in Ids : /\ Takes(t, Sent(m), 0, "hub", heard + 1) /\ IsNext(t)
                             /\ hub' = [hub EXCEPT ![ChatOf[m]] = Append(@, t)]
<1>1. PICK t \in Ids : /\ IsNext(t)
                       /\ job' = [job EXCEPT ![t] = Job(Sent(m), 0, "hub", heard + 1)]
                       /\ hub' = [hub EXCEPT ![ChatOf[m]] = Append(@, t)]
  BY DEF Inbound
<1>2. Sent(m) \in Origins
  BY InboundConstants DEF Origins
<1>3. heard + 1 \in Nat /\ 0 \in 0 .. MaxSessions
  BY InboundConstants DEF Typed
<1>4. Takes(t, Sent(m), 0, "hub", heard + 1)
  BY <1>1, <1>2, <1>3, JobTakes
<1>5. QED
  BY <1>1, <1>4

-----------------------------------------------------------------------------
(* Types *)

\* Taking the head off a queue leaves a queue.
LEMMA WithoutIsSeq ==
    ASSUME NEW q \in Seq(Ids), NEW t
    PROVE  Without(q, t) \in Seq(Ids)
BY DEF Without

\* Adding a turn to one of several queues leaves queues.
LEMMA QueueGrows ==
    ASSUME NEW D, NEW f \in [D -> Seq(Ids)], NEW d \in D, NEW t \in Ids
    PROVE  [f EXCEPT ![d] = Append(@, t)] \in [D -> Seq(Ids)]
OBVIOUS

LEMMA LeaveTyped ==
    ASSUME Typed, NEW t \in Ids, Stage(t) # "none"
    PROVE  /\ LeaveHub(t) => hub' \in [Chats -> Seq(Ids)]
           /\ LeaveChain(t) => chain' \in [Sessions -> Seq(Ids)]
<1>1. ASSUME LeaveHub(t) PROVE hub' \in [Chats -> Seq(Ids)]
  <2>1. CASE IsChat(t)
    BY <1>1, <2>1, WithoutIsSeq DEF LeaveHub, Typed
  <2>2. QED
    BY <1>1, <2>1 DEF LeaveHub, Typed
<1>2. ASSUME LeaveChain(t) PROVE chain' \in [Sessions -> Seq(Ids)]
  BY <1>2, WithoutIsSeq DEF LeaveChain, Typed
<1>3. QED
  BY <1>1, <1>2

\* The appended histories.
LEMMA AppendedTyped ==
    ASSUME Typed, NEW t \in Ids
    PROVE  Appended(t) \in [Sessions -> Seq(Ids)]
<1>1. CASE job[t].session \in Sessions
  BY <1>1 DEF Appended, Typed
<1>2. CASE job[t].session \notin Sessions
  BY <1>2 DEF Appended, Typed
<1>3. QED
  BY <1>1, <1>2

LEMMA FiniteTurns == \A S \in SUBSET Ids : IsFiniteSet(S) /\ Cardinality(S) \in Nat
<1>1. 1 \in Int /\ MaxTurns \in Int
  BY InboundConstants
<1>2. IsFiniteSet(1 .. MaxTurns)
  BY <1>1, FS_Interval
<1>3. QED
  BY <1>2, FS_Subset, FS_CardinalityType DEF Ids
\* Every step keeps the types.
LEMMA TypedStep ==
    ASSUME Typed, Staged, [Next]_vars
    PROVE  Typed'
<1> USE InboundConstants
<1>1. ASSUME NEW m \in Messages, Inbound(m)
      PROVE  Typed'
  <2>1. seen' \in Seq(Messages)
    BY <1>1 DEF Inbound, Remembered, Typed
  <2>2. heard' \in 0 .. MaxHeard
    <3>1. heard < MaxHeard /\ heard' = heard + 1
      BY <1>1 DEF Inbound
    <3>2. heard \in 0 .. MaxHeard
      BY DEF Typed
    <3>3. MaxHeard \in Nat
      OBVIOUS
    <3> HIDE InboundConstants
    <3>4. QED
      BY <3>1, <3>2, <3>3
  <2>3. job' \in [Ids -> {NoJob} \cup Jobs] /\ hub' \in [Chats -> Seq(Ids)]
    <3>1. CASE m \in Allowed
      <4>1. PICK t \in Ids : /\ Takes(t, Sent(m), 0, "hub", heard + 1)
                             /\ hub' = [hub EXCEPT ![ChatOf[m]] = Append(@, t)]
        BY <1>1, <3>1, InboundTakes
      <4>2. QED
        <5>1. hub \in [Chats -> Seq(Ids)] /\ ChatOf[m] \in Chats
          BY DEF Typed
        <5>2. QED
          BY <4>1, <5>1, QueueGrows DEF Takes
    <3>2. QED
      BY <1>1, <3>1 DEF Inbound, Typed
  <2>4. QED
    BY <1>1, <2>1, <2>2, <2>3 DEF Inbound, Typed, store
<1>2. ASSUME NEW t \in Ids, NEW r \in Requests, Post(t, r)
      PROVE  Typed'
  <2>1. job' \in [Ids -> {NoJob} \cup Jobs]
    BY <1>2, PostTakes DEF Takes
  <2>2. QED
    BY <1>2, <2>1, PostTakes DEF Typed, store
<1>3. ASSUME NEW t \in Ids, Decline(t)
      PROVE  Typed'
  BY <1>3, DeclineMoves, LeaveTyped DEF Decline, AtHub, Typed, Moves, store
<1>4. ASSUME NEW t \in Ids, Admit(t)
      PROVE  Typed'
  <2>1. job' \in [Ids -> {NoJob} \cup Jobs]
    BY <1>4, AdmitMoves DEF Moves
  <2>2. chain' \in [Sessions -> Seq(Ids)]
    <3>1. chain \in [Sessions -> Seq(Ids)] /\ head \in Sessions
      BY DEF Typed
    <3>2. [chain EXCEPT ![head] = Append(@, t)] \in [Sessions -> Seq(Ids)]
      BY <3>1, QueueGrows
    <3>3. chain' = [chain EXCEPT ![head] = Append(@, t)]
      BY <1>4, AdmitMoves
    <3>4. QED
      BY <3>2, <3>3
  <2>3. QED
    BY <1>4, <2>1, <2>2, AdmitMoves DEF Typed, store
<1>5. ASSUME NEW t \in Ids, Reply(t)
      PROVE  Typed'
  <2>1. PICK st \in {"over", "replying"} :
            /\ Moves(t, st)
            /\ st = "over" => LeaveHub(t) /\ UNCHANGED outbox
            /\ st = "replying" => UNCHANGED hub /\ outbox' = outbox \cup {t}
    BY <1>5, ReplyMoves
  <2>2. hub' \in [Chats -> Seq(Ids)] /\ outbox' \subseteq Ids
    BY <1>5, <2>1, LeaveTyped DEF Reply, Typed
  <2>3. QED
    BY <1>5, <2>1, <2>2 DEF Reply, Typed, Moves
<1>5a. ASSUME NEW t \in Ids, Drained(t)
      PROVE  Typed'
  BY <1>5a, DrainedMoves, LeaveTyped DEF Drained, Typed, Moves, store
<1>6. ASSUME NEW t \in Ids, Claim(t)
      PROVE  Typed'
  <2>1. job' \in [Ids -> {NoJob} \cup Jobs]
    BY <1>6, ClaimMoves DEF Moves
  <2>2. chain' \in [Sessions -> Seq(Ids)] /\ slots' \in Int
    <3>1. chain \in [Sessions -> Seq(Ids)] /\ job[t].session \in Sessions /\ slots \in Int
      BY <1>6 DEF Claim, Staged, Typed
    <3>2. [chain EXCEPT ![job[t].session] = Append(@, t)] \in [Sessions -> Seq(Ids)]
      BY <3>1, QueueGrows
    <3>3. CASE Wins(t)
      <4>1. chain' = [chain EXCEPT ![job[t].session] = Append(@, t)] /\ slots' = slots
        BY <1>6, <3>3, ClaimMoves
      <4>2. QED
        BY <3>1, <3>2, <4>1
    <3>4. CASE ~Wins(t)
      <4>1. chain' = chain /\ slots' = slots - 1
        BY <1>6, <3>4, ClaimMoves
      <4>2. QED
        BY <3>1, <4>1
    <3>5. QED
      BY <3>3, <3>4
  <2>3. /\ DOMAIN keys' = Keys /\ keys' = [k \in Keys |-> keys'[k]]
        /\ \A k \in Keys : keys'[k] = None \/ keys'[k].turn \in Ids
    <3>1. CASE keys' = keys
      BY <3>1 DEF Typed
    <3>2. CASE keys' = [keys EXCEPT ![Origin(t).key] = Claimant(t)]
      BY <3>2 DEF Typed, Claimant
    <3>3. QED
      BY <1>6, <3>1, <3>2, ClaimMoves
  <2>4. QED
    BY <1>6, <2>1, <2>2, <2>3, ClaimMoves DEF Typed
<1>7. ASSUME NEW t \in Ids, Start(t)
      PROVE  Typed'
  <2>1. job' \in [Ids -> {NoJob} \cup Jobs]
    BY <1>7, StartMoves DEF Moves
  <2>2. rows' \in [Ids -> Statuses]
    BY <1>7 DEF Start, Typed, Statuses
  <2>3. QED
    BY <1>7, <2>1, <2>2, StartMoves DEF Typed
<1>8. ASSUME NEW t \in Ids, AppendTurn(t)
      PROVE  Typed'
  BY <1>8, AppendMoves, LeaveTyped, AppendedTyped DEF AppendTurn, Typed, Moves
<1>9. ASSUME NEW t \in Ids, NEW status \in {"complete", "error"}, NEW appends \in BOOLEAN,
             Finish(t, status, appends)
      PROVE  Typed'
  <2>1. job' \in [Ids -> {NoJob} \cup Jobs]
    BY <1>9, FinishMoves DEF Moves
  <2>2. rows' \in [Ids -> Statuses]
    BY <1>9 DEF Finish, Typed, Statuses
  <2>3. QED
    BY <1>9, <2>1, <2>2, FinishMoves DEF Typed
<1>10. ASSUME NEW t \in Ids, ClaimThrows(t)
      PROVE  Typed'
  BY <1>10, ClaimThrowsMoves DEF ClaimThrows, Typed, Takes, Moves, store
<1>11. ASSUME NEW t \in Ids, Throw(t)
      PROVE  Typed'
  <2>1. job' \in [Ids -> {NoJob} \cup Jobs]
    BY <1>11, ThrowMoves DEF Moves
  <2>2. hub' \in [Chats -> Seq(Ids)] /\ chain' \in [Sessions -> Seq(Ids)]
    BY <1>11, LeaveTyped DEF Throw, AtChain
  <2>3. hist' \in [Sessions -> Seq(Ids)]
    BY <1>11, AppendedTyped DEF Throw, Typed
  <2>4. QED
    BY <1>11, <2>1, <2>2, <2>3 DEF Throw, Typed
<1>12. CASE Rotate
  BY <1>12 DEF Rotate, Typed, Sessions, process
<1>13. CASE Crash
  <2>1. crashes' \in 0 .. MaxFaults
    <3>1. Cardinality(threw) \in Nat
      BY FiniteTurns DEF Typed
    <3>2. MayFail /\ crashes' = crashes + 1
      BY <1>13, CrashLoses
    <3>3. QED
      BY <3>1, <3>2 DEF MayFail, Typed
  <2>2. /\ seen' = <<>> /\ heard' = 0 /\ slots' = 0 /\ leaked' = 0 /\ up' = FALSE
    BY <1>13, CrashLoses
  <2>3. seen' \in Seq(Messages) /\ heard' \in 0 .. MaxHeard /\ slots' \in Int
        /\ leaked' \in Nat /\ up' \in BOOLEAN
    <3>1. heard' \in 0 .. MaxHeard /\ slots' \in Int /\ leaked' \in Nat
      BY <2>2
    <3>2. seen' \in Seq(Messages)
      BY <2>2
    <3>3. up' \in BOOLEAN
      BY <2>2
    <3>4. QED
      BY <3>1, <3>2, <3>3
  <2>4. /\ job' \in [Ids -> {NoJob} \cup Jobs]
        /\ hub' \in [Chats -> Seq(Ids)] /\ chain' \in [Sessions -> Seq(Ids)]
        /\ UNCHANGED <<rows, hist, keys, outbox, head, threw>>
    BY <1>13, CrashLoses DEF store
  <2>5. /\ rows' \in [Ids -> Statuses] /\ hist' \in [Sessions -> Seq(Ids)]
        /\ outbox' \subseteq Ids /\ head' \in Sessions /\ threw' \subseteq Ids
    BY <2>4 DEF Typed
  <2>6. /\ DOMAIN keys' = Keys /\ keys' = [k \in Keys |-> keys'[k]]
        /\ \A k \in Keys : keys'[k] = None \/ keys'[k].turn \in Ids
    <3>1. keys' = keys
      BY <2>4
    <3>2. QED
      BY <3>1, Zenon DEF Typed
  <2>7. QED
    BY <2>1, <2>3, <2>4, <2>5, <2>6, Zenon DEF Typed
<1>14. CASE Boot
  BY <1>14 DEF Boot, Typed, Statuses
<1>15. CASE UNCHANGED vars
  BY <1>15 DEF vars, store, process, Typed, Takes, Moves, store
<1>16. QED
  BY <1>1, <1>2, <1>3, <1>4, <1>5, <1>5a, <1>6, <1>7, <1>8, <1>9, <1>10, <1>11, <1>12,
     <1>13, <1>14, <1>15
  DEF Next, HubStep, SendStep

-----------------------------------------------------------------------------
(* Jobs and slots *)

\* Every step keeps what the stages say.
LEMMA StagedStep ==
    ASSUME Typed, Staged, [Next]_vars
    PROVE  Staged'
<1>1. ASSUME NEW m \in Messages, Inbound(m)
      PROVE  Staged'
  <2>1. CASE m \in Allowed
    <3>1. PICK t \in Ids : /\ Takes(t, Sent(m), 0, "hub", heard + 1) /\ IsNext(t)
                           /\ hub' = [hub EXCEPT ![ChatOf[m]] = Append(@, t)]
      BY <1>1, <2>1, InboundTakes
    <3>2. UNCHANGED crashes /\ crashes \in Nat
      BY <1>1 DEF Inbound, Typed
    <3>3. QED
      BY <3>1, <3>2 DEF Staged, Takes, InChain, Stage, IsChat, Origin, Sent
  <2>2. CASE m \notin Allowed
    <3>1. UNCHANGED <<job, hub>>
        /\ UNCHANGED crashes /\ crashes \in Nat
      BY <1>1, <2>2 DEF Inbound, Typed
    <3>2. QED
      BY <3>1 DEF Staged, Takes, InChain, Stage, IsChat, Origin
  <2>3. QED
    BY <2>1, <2>2
<1>2. ASSUME NEW t \in Ids, NEW r \in Requests, Post(t, r)
      PROVE  Staged'
  <2>1. /\ Takes(t, Asked(r), head, "admitted", 0)
        /\ UNCHANGED crashes /\ head \in Sessions /\ crashes \in Nat
    BY <1>2, PostTakes DEF Typed
  <2>2. QED
    BY <2>1 DEF Staged, Takes, InChain, Stage, IsChat, Origin, Asked
<1>3. ASSUME NEW t \in Ids, Decline(t)
      PROVE  Staged'
  <2>1. /\ Moves(t, "replying") /\ job'[t].session = job[t].session /\ Stage(t) = "hub"
        /\ UNCHANGED crashes
    BY <1>3, DeclineMoves DEF Decline, AtHub
  <2>2. QED
    BY <2>1 DEF Staged, Moves, InChain, Stage, IsChat, Origin, AtHub
<1>4. ASSUME NEW t \in Ids, Admit(t)
      PROVE  Staged'
  <2>1. /\ Moves(t, "chain") /\ job'[t].session = head /\ AtHub(t)
        /\ UNCHANGED crashes /\ head \in Sessions
    BY <1>4, AdmitMoves DEF Typed
  <2>2. QED
    BY <2>1 DEF Staged, Moves, InChain, Stage, IsChat, Origin, AtHub
<1>5. ASSUME NEW t \in Ids, Reply(t)
      PROVE  Staged'
  <2>0. PICK st \in {"over", "replying"} : Moves(t, st)
    BY <1>5, ReplyMoves
  <2>1. /\ Moves(t, st) /\ job'[t].session = job[t].session /\ Stage(t) = "returned"
        /\ UNCHANGED crashes
    BY <1>5, <2>0, ReplyMoves DEF Reply
  <2>2. QED
    BY <2>1 DEF Staged, Moves, InChain, Stage, IsChat, Origin
<1>5a. ASSUME NEW t \in Ids, Drained(t)
      PROVE  Staged'
  <2>1. /\ Moves(t, "over") /\ job'[t].session = job[t].session /\ Stage(t) = "replying"
        /\ UNCHANGED crashes
    BY <1>5a, DrainedMoves DEF Drained, store
  <2>2. QED
    BY <2>1 DEF Staged, Moves, InChain, Stage, IsChat, Origin
<1>6. ASSUME NEW t \in Ids, Claim(t)
      PROVE  Staged'
  <2>1. Stage(t) = "admitted" /\ ~IsChat(t) /\ job'[t].session = job[t].session
        /\ UNCHANGED crashes
    BY <1>6, ClaimMoves
  <2>2. CASE Wins(t)
    <3>1. /\ Moves(t, "chain") /\ slots' = slots
          /\ chain' = [chain EXCEPT ![job[t].session] = Append(@, t)]
      BY <1>6, <2>2, ClaimMoves
    <3>2. QED
      BY <2>1, <3>1 DEF Staged, Moves, InChain, Stage, IsChat, Origin
  <2>3. CASE ~Wins(t)
    <3>1. PICK st \in {"replayed", "conflict"} : Moves(t, st)
      BY <1>6, <2>3, ClaimMoves
    <3>2. slots' = slots - 1 /\ UNCHANGED <<chain, keys>>
      BY <1>6, <2>3, ClaimMoves
    <3>3. QED
      BY <2>1, <3>1, <3>2 DEF Staged, Moves, InChain, Stage, IsChat, Origin
  <2>4. QED
    BY <2>2, <2>3
<1>7. ASSUME NEW t \in Ids, Start(t)
      PROVE  Staged'
  <2>1. /\ Moves(t, "running") /\ job'[t].session = job[t].session /\ AtChain(t)
        /\ UNCHANGED crashes
    BY <1>7, StartMoves
  <2>2. QED
    BY <2>1 DEF Staged, Moves, InChain, Stage, IsChat, Origin, AtChain
<1>8. ASSUME NEW t \in Ids, AppendTurn(t)
      PROVE  Staged'
  <2>1. /\ Moves(t, IF IsChat(t) THEN "returned" ELSE "over")
        /\ job'[t].session = job[t].session /\ Stage(t) = "finished"
        /\ UNCHANGED crashes
    BY <1>8, AppendMoves DEF AppendTurn
  <2>2. QED
    BY <2>1 DEF Staged, Moves, InChain, Stage, IsChat, Origin
<1>9. ASSUME NEW t \in Ids, NEW status \in {"complete", "error"}, NEW appends \in BOOLEAN,
             Finish(t, status, appends)
      PROVE  Staged'
  <2>1. /\ Moves(t, "finished") /\ job'[t].session = job[t].session /\ Stage(t) = "running"
        /\ UNCHANGED crashes
    BY <1>9, FinishMoves
  <2>2. QED
    BY <2>1 DEF Staged, Moves, InChain, Stage, IsChat, Origin
<1>10. ASSUME NEW t \in Ids, ClaimThrows(t)
      PROVE  Staged'
  <2>1. /\ Moves(t, "over") /\ job'[t].session = job[t].session /\ Stage(t) = "admitted"
        /\ UNCHANGED crashes
    BY <1>10, ClaimThrowsMoves DEF ClaimThrows
  <2>2. QED
    BY <2>1 DEF Staged, Moves, InChain, Stage, IsChat, Origin
<1>11. ASSUME NEW t \in Ids, Throw(t)
      PROVE  Staged'
  <2>1. /\ Moves(t, "over") /\ job'[t].session = job[t].session
        /\ Stage(t) \in {"chain", "running", "finished"}
        /\ UNCHANGED crashes
    BY <1>11, ThrowMoves DEF Throw, AtChain
  <2>2. QED
    BY <2>1 DEF Staged, Moves, InChain, Stage, IsChat, Origin, AtChain
<1>12. CASE Rotate
  <2>1. /\ UNCHANGED job
        /\ UNCHANGED crashes
    BY <1>12 DEF Rotate, process
  <2>2. QED
    BY <2>1 DEF Staged, InChain, Stage, IsChat, Origin
<1>13. CASE Crash
  <2>1. /\ \A t \in Ids : ~Active(t) => job'[t] = job[t]
        /\ \A t \in Ids : Active(t) =>
              /\ job[t] \in Jobs /\ job'[t].stage = "lost" /\ job'[t].born = job[t].born
    BY <1>13, CrashLoses
  <2>2. crashes' = crashes + 1
    BY <1>13, CrashLoses
  <2>3. crashes \in Nat
    BY DEF Typed
  <2>4. \A t \in Ids : Stage(t) # "none" => job[t].born \in Nat
    BY UsedJob DEF Jobs
  <2>5. QED
    BY <2>1, <2>2, <2>3, <2>4 DEF Staged, InChain, Active, Going, Stage, IsChat, Origin
<1>14. CASE Boot
  <2>1. /\ UNCHANGED job
        /\ UNCHANGED crashes
    BY <1>14 DEF Boot
  <2>2. QED
    BY <2>1 DEF Staged, InChain, Stage, IsChat, Origin
<1>15. CASE UNCHANGED vars
  BY <1>15 DEF vars, store, process, Staged, Stage, IsChat, Origin
<1>16. QED
  BY <1>1, <1>2, <1>3, <1>4, <1>5, <1>5a, <1>6, <1>7, <1>8, <1>9, <1>10, <1>11, <1>12,
     <1>13, <1>14, <1>15
  DEF Next, HubStep, SendStep

\* How the number of the turns that have a slot follows a job that moves.
Held(stage) == IF stage \in InSend THEN 1 ELSE 0

LEMMA UsersMove ==
    ASSUME Typed, NEW t \in Ids, NEW st,
           \A u \in Ids : u # t => job'[u] = job[u], job'[t].stage = st
    PROVE  Cardinality(Users') = Cardinality(Users) + Held(st) - Held(Stage(t))
<1>1. Users' = IF st \in InSend THEN Users \cup {t} ELSE Users \ {t}
  BY DEF Users, Stage
<1>2. IsFiniteSet(Users) /\ Cardinality(Users) \in Nat
  BY FiniteTurns DEF Users
<1>3. t \in Users <=> Stage(t) \in InSend
  BY DEF Users
<1>4. CASE st \in InSend
  <2>1. Cardinality(Users \cup {t}) =
          IF t \in Users THEN Cardinality(Users) ELSE Cardinality(Users) + 1
    BY <1>2, FS_AddElement
  <2>2. QED
    BY <1>1, <1>2, <1>3, <1>4, <2>1 DEF Held
<1>5. CASE st \notin InSend
  <2>1. Cardinality(Users \ {t}) =
          IF t \in Users THEN Cardinality(Users) - 1 ELSE Cardinality(Users)
    BY <1>2, FS_RemoveElement
  <2>2. QED
    BY <1>1, <1>2, <1>3, <1>5, <2>1 DEF Held
<1>6. QED
  BY <1>4, <1>5

LEMMA UsersNat ==
     Typed => Cardinality(Users) \in Nat /\ leaked \in Nat /\ slots \in Int /\ Cap \in Nat
BY FiniteTurns, InboundConstants DEF Users, Typed

\* Every step keeps the count of the slots.
LEMMA BalanceStep ==
    ASSUME Typed, Staged, Balance, [Next]_vars
    PROVE  Balance'
<1>1. ASSUME NEW m \in Messages, Inbound(m)
      PROVE  Balance'
  <2>1. UNCHANGED <<slots, leaked>>
    BY <1>1 DEF Inbound
  <2>2. CASE m \in Allowed
    <3>1. PICK t \in Ids : Takes(t, Sent(m), 0, "hub", heard + 1)
      BY <1>1, <2>2, InboundTakes
    <3>2. Cardinality(Users') = Cardinality(Users) + Held("hub") - Held(Stage(t))
      BY <3>1, UsersMove DEF Takes
    <3>3. Stage(t) = "none"
      BY <3>1 DEF Takes
    <3>4. QED
      BY <2>1, <3>2, <3>3, UsersNat DEF Balance, Held, InSend
  <2>3. CASE m \notin Allowed
    BY <1>1, <2>1, <2>3 DEF Inbound, Balance, Users, Stage
  <2>4. QED
    BY <2>2, <2>3
<1>2. ASSUME NEW t \in Ids, NEW r \in Requests, Post(t, r)
      PROVE  Balance'
  <2>1. /\ Takes(t, Asked(r), head, "admitted", 0)
        /\ slots < Cap /\ slots' = slots + 1 /\ UNCHANGED leaked
    BY <1>2, PostTakes
  <2>2. Cardinality(Users') = Cardinality(Users) + Held("admitted") - Held(Stage(t))
    BY <2>1, UsersMove DEF Takes
  <2>3. Stage(t) = "none"
    BY <2>1 DEF Takes
  <2>4. QED
    BY <2>1, <2>2, <2>3, UsersNat DEF Balance, Held, InSend
<1>3. ASSUME NEW t \in Ids, Decline(t)
      PROVE  Balance'
  <2>1. /\ Moves(t, "replying") /\ Stage(t) = "hub" /\ UNCHANGED <<slots, leaked>>
    BY <1>3, DeclineMoves DEF Decline, AtHub
  <2>2. Cardinality(Users') = Cardinality(Users) + Held("replying") - Held(Stage(t))
    BY <2>1, UsersMove DEF Moves
  <2>3. QED
    BY <2>1, <2>2, UsersNat DEF Balance, Held, InSend
<1>4. ASSUME NEW t \in Ids, Admit(t)
      PROVE  Balance'
  <2>1. /\ Moves(t, "chain") /\ Stage(t) = "hub"
        /\ slots < Cap /\ slots' = slots + 1 /\ UNCHANGED leaked
    BY <1>4, AdmitMoves DEF AtHub
  <2>2. Cardinality(Users') = Cardinality(Users) + Held("chain") - Held(Stage(t))
    BY <2>1, UsersMove DEF Moves
  <2>3. QED
    BY <2>1, <2>2, UsersNat DEF Balance, Held, InSend
<1>5. ASSUME NEW t \in Ids, Reply(t)
      PROVE  Balance'
  <2>0. PICK st \in {"over", "replying"} : Moves(t, st)
    BY <1>5, ReplyMoves
  <2>1. /\ Moves(t, st) /\ Stage(t) = "returned" /\ UNCHANGED <<slots, leaked>>
    BY <1>5, <2>0, ReplyMoves DEF Reply
  <2>2. Cardinality(Users') = Cardinality(Users) + Held(st) - Held(Stage(t))
    BY <2>1, UsersMove DEF Moves
  <2>3. QED
    BY <2>1, <2>2, UsersNat DEF Balance, Held, InSend
<1>5a. ASSUME NEW t \in Ids, Drained(t)
      PROVE  Balance'
  <2>1. /\ Moves(t, "over") /\ Stage(t) = "replying" /\ UNCHANGED <<slots, leaked>>
    BY <1>5a, DrainedMoves DEF Drained, store
  <2>2. Cardinality(Users') = Cardinality(Users) + Held("over") - Held(Stage(t))
    BY <2>1, UsersMove DEF Moves
  <2>3. QED
    BY <2>1, <2>2, UsersNat DEF Balance, Held, InSend
<1>6. ASSUME NEW t \in Ids, Claim(t)
      PROVE  Balance'
  <2>1. Stage(t) = "admitted" /\ UNCHANGED leaked
    BY <1>6, ClaimMoves
  <2>2. CASE Wins(t)
    <3>1. Moves(t, "chain") /\ slots' = slots
      BY <1>6, <2>2, ClaimMoves
    <3>2. Cardinality(Users') = Cardinality(Users) + Held("chain") - Held(Stage(t))
      BY <3>1, UsersMove DEF Moves
    <3>3. QED
      BY <2>1, <3>1, <3>2, UsersNat DEF Balance, Held, InSend
  <2>3. CASE ~Wins(t)
    <3>1. PICK st \in {"replayed", "conflict"} : Moves(t, st)
      BY <1>6, <2>3, ClaimMoves
    <3>2. slots' = slots - 1
      BY <1>6, <2>3, ClaimMoves
    <3>3. Cardinality(Users') = Cardinality(Users) + Held(st) - Held(Stage(t))
      BY <3>1, UsersMove DEF Moves
    <3>4. QED
      BY <2>1, <3>2, <3>3, UsersNat DEF Balance, Held, InSend
  <2>4. QED
    BY <2>2, <2>3
<1>7. ASSUME NEW t \in Ids, Start(t)
      PROVE  Balance'
  <2>1. /\ Moves(t, "running") /\ Stage(t) = "chain" /\ UNCHANGED <<slots, leaked>>
    BY <1>7, StartMoves DEF AtChain
  <2>2. Cardinality(Users') = Cardinality(Users) + Held("running") - Held(Stage(t))
    BY <2>1, UsersMove DEF Moves
  <2>3. QED
    BY <2>1, <2>2, UsersNat DEF Balance, Held, InSend
<1>8. ASSUME NEW t \in Ids, AppendTurn(t)
      PROVE  Balance'
  <2>1. /\ Moves(t, IF IsChat(t) THEN "returned" ELSE "over") /\ Stage(t) = "finished"
        /\ slots' = slots - 1 /\ UNCHANGED leaked
    BY <1>8, AppendMoves DEF AppendTurn
  <2>2. Cardinality(Users') = Cardinality(Users) + Held(IF IsChat(t) THEN "returned" ELSE "over") - Held(Stage(t))
    BY <2>1, UsersMove DEF Moves
  <2>3. QED
    BY <2>1, <2>2, UsersNat DEF Balance, Held, InSend
<1>9. ASSUME NEW t \in Ids, NEW status \in {"complete", "error"}, NEW appends \in BOOLEAN,
             Finish(t, status, appends)
      PROVE  Balance'
  <2>1. /\ Moves(t, "finished") /\ Stage(t) = "running" /\ UNCHANGED <<slots, leaked>>
    BY <1>9, FinishMoves
  <2>2. Cardinality(Users') = Cardinality(Users) + Held("finished") - Held(Stage(t))
    BY <2>1, UsersMove DEF Moves
  <2>3. QED
    BY <2>1, <2>2, UsersNat DEF Balance, Held, InSend
<1>10. ASSUME NEW t \in Ids, ClaimThrows(t)
      PROVE  Balance'
  <2>1. /\ Moves(t, "over") /\ Stage(t) = "admitted" /\ UNCHANGED slots
        /\ leaked' = leaked + 1
    BY <1>10, ClaimThrowsMoves DEF ClaimThrows
  <2>2. Cardinality(Users') = Cardinality(Users) + Held("over") - Held(Stage(t))
    BY <2>1, UsersMove DEF Moves
  <2>3. QED
    BY <2>1, <2>2, UsersNat DEF Balance, Held, InSend
<1>11. ASSUME NEW t \in Ids, Throw(t)
      PROVE  Balance'
  <2>1. /\ Moves(t, "over") /\ Stage(t) \in InChain
        /\ slots' = slots - 1 /\ UNCHANGED leaked
    BY <1>11, ThrowMoves DEF Throw, AtChain, InChain
  <2>2. Cardinality(Users') = Cardinality(Users) + Held("over") - Held(Stage(t))
    BY <2>1, UsersMove DEF Moves
  <2>3. QED
    BY <2>1, <2>2, UsersNat DEF Balance, Held, InSend, InChain
<1>12. CASE Rotate
  BY <1>12 DEF Rotate, process, Balance, Users, Stage
<1>13. CASE Crash
  <2>1. \A t \in Ids : ~(job'[t].stage \in InSend)
    BY <1>13, CrashLoses DEF Active, Going, InSend, Stage
  <2>2. Users' = {}
    BY <2>1 DEF Users, Stage
  <2>3. slots' = 0 /\ leaked' = 0
    BY <1>13, CrashLoses
  <2>4. QED
    BY <2>2, <2>3, FS_EmptySet, InboundConstants DEF Balance
<1>14. CASE Boot
  BY <1>14 DEF Boot, Balance, Users, Stage
<1>15. CASE UNCHANGED vars
  BY <1>15 DEF vars, store, process, Balance, Users, Stage
<1>16. QED
  BY <1>1, <1>2, <1>3, <1>4, <1>5, <1>5a, <1>6, <1>7, <1>8, <1>9, <1>10, <1>11, <1>12,
     <1>13, <1>14, <1>15
  DEF Next, HubStep, SendStep

\* Ids stay used in order, and a process that is down works on nothing.
LEMMA UsedStep ==
    ASSUME Typed, Staged, UsedInOrder, [Next]_vars
    PROVE  UsedInOrder'
<1>1. ASSUME NEW m \in Messages, Inbound(m)
      PROVE  UsedInOrder'
  <2>1. CASE m \in Allowed
    <3>1. PICK t \in Ids : /\ Takes(t, Sent(m), 0, "hub", heard + 1) /\ IsNext(t)
                           /\ hub' = [hub EXCEPT ![ChatOf[m]] = Append(@, t)]
      BY <1>1, <2>1, InboundTakes
    <3>2. up /\ UNCHANGED up
      BY <1>1 DEF Inbound
    <3>3. QED
      BY <3>1, <3>2 DEF UsedInOrder, Takes, Active, Going, Stage, IsNext, Unused, Ids, Sent
  <2>2. CASE m \notin Allowed
    <3>1. UNCHANGED <<job, hub>>
        /\ up /\ UNCHANGED up
      BY <1>1, <2>2 DEF Inbound
    <3>2. QED
      BY <3>1 DEF UsedInOrder, Takes, Active, Going, Stage, IsNext, Unused, Ids
  <2>3. QED
    BY <2>1, <2>2
<1>2. ASSUME NEW t \in Ids, NEW r \in Requests, Post(t, r)
      PROVE  UsedInOrder'
  <2>1. /\ Takes(t, Asked(r), head, "admitted", 0)
        /\ up /\ UNCHANGED up /\ IsNext(t)
    BY <1>2, PostTakes
  <2>2. QED
    BY <2>1 DEF UsedInOrder, Takes, Active, Going, Stage, IsNext, Unused, Ids
<1>3. ASSUME NEW t \in Ids, Decline(t)
      PROVE  UsedInOrder'
  <2>1. /\ Moves(t, "replying") /\ job'[t].session = job[t].session /\ Stage(t) = "hub"
        /\ UNCHANGED up
    BY <1>3, DeclineMoves DEF Decline, AtHub, Active, Going
  <2>2. QED
    BY <2>1 DEF UsedInOrder, Moves, Active, Going, Stage, AtHub, IsNext, Unused, Ids
<1>4. ASSUME NEW t \in Ids, Admit(t)
      PROVE  UsedInOrder'
  <2>1. /\ Moves(t, "chain") /\ job'[t].session = head /\ AtHub(t)
        /\ UNCHANGED up
    BY <1>4, AdmitMoves
  <2>2. QED
    BY <2>1 DEF UsedInOrder, Moves, Active, Going, Stage, AtHub, IsNext, Unused, Ids
<1>5. ASSUME NEW t \in Ids, Reply(t)
      PROVE  UsedInOrder'
  <2>0. PICK st \in {"over", "replying"} : Moves(t, st)
    BY <1>5, ReplyMoves
  <2>1. /\ Moves(t, st) /\ job'[t].session = job[t].session /\ Stage(t) = "returned"
        /\ UNCHANGED up
    BY <1>5, <2>0, ReplyMoves DEF Reply, Active, Going
  <2>2. QED
    BY <2>1 DEF UsedInOrder, Moves, Active, Going, Stage, IsNext, Unused, Ids
<1>5a. ASSUME NEW t \in Ids, Drained(t)
      PROVE  UsedInOrder'
  <2>1. /\ Moves(t, "over") /\ job'[t].session = job[t].session /\ Stage(t) = "replying"
        /\ UNCHANGED up
    BY <1>5a, DrainedMoves DEF Drained, Active, Going, store
  <2>2. QED
    BY <2>1 DEF UsedInOrder, Moves, Active, Going, Stage, IsNext, Unused, Ids
<1>6. ASSUME NEW t \in Ids, Claim(t)
      PROVE  UsedInOrder'
  <2>1. Stage(t) = "admitted" /\ ~IsChat(t) /\ job'[t].session = job[t].session
        /\ UNCHANGED up
    BY <1>6, ClaimMoves
  <2>2. CASE Wins(t)
    <3>1. /\ Moves(t, "chain") /\ slots' = slots
          /\ chain' = [chain EXCEPT ![job[t].session] = Append(@, t)]
      BY <1>6, <2>2, ClaimMoves
    <3>2. QED
      BY <2>1, <3>1 DEF UsedInOrder, Moves, Active, Going, Stage, IsNext, Unused, Ids
  <2>3. CASE ~Wins(t)
    <3>1. PICK st \in {"replayed", "conflict"} : Moves(t, st)
      BY <1>6, <2>3, ClaimMoves
    <3>2. slots' = slots - 1 /\ UNCHANGED <<chain, keys>>
      BY <1>6, <2>3, ClaimMoves
    <3>3. QED
      BY <2>1, <3>1, <3>2 DEF UsedInOrder, Moves, Active, Going, Stage, IsNext, Unused, Ids
  <2>4. QED
    BY <2>2, <2>3
<1>7. ASSUME NEW t \in Ids, Start(t)
      PROVE  UsedInOrder'
  <2>1. /\ Moves(t, "running") /\ job'[t].session = job[t].session /\ AtChain(t)
        /\ UNCHANGED up
    BY <1>7, StartMoves
  <2>2. QED
    BY <2>1 DEF UsedInOrder, Moves, Active, Going, Stage, AtChain, IsNext, Unused, Ids
<1>8. ASSUME NEW t \in Ids, AppendTurn(t)
      PROVE  UsedInOrder'
  <2>1. /\ Moves(t, IF IsChat(t) THEN "returned" ELSE "over")
        /\ job'[t].session = job[t].session /\ Stage(t) = "finished"
        /\ UNCHANGED up
    BY <1>8, AppendMoves DEF AppendTurn
  <2>2. QED
    BY <2>1 DEF UsedInOrder, Moves, Active, Going, Stage, IsNext, Unused, Ids
<1>9. ASSUME NEW t \in Ids, NEW status \in {"complete", "error"}, NEW appends \in BOOLEAN,
             Finish(t, status, appends)
      PROVE  UsedInOrder'
  <2>1. /\ Moves(t, "finished") /\ job'[t].session = job[t].session /\ Stage(t) = "running"
        /\ UNCHANGED up
    BY <1>9, FinishMoves
  <2>2. QED
    BY <2>1 DEF UsedInOrder, Moves, Active, Going, Stage, IsNext, Unused, Ids
<1>10. ASSUME NEW t \in Ids, ClaimThrows(t)
      PROVE  UsedInOrder'
  <2>1. /\ Moves(t, "over") /\ job'[t].session = job[t].session /\ Stage(t) = "admitted"
        /\ UNCHANGED up
    BY <1>10, ClaimThrowsMoves DEF ClaimThrows
  <2>2. QED
    BY <2>1 DEF UsedInOrder, Moves, Active, Going, Stage, IsNext, Unused, Ids
<1>11. ASSUME NEW t \in Ids, Throw(t)
      PROVE  UsedInOrder'
  <2>1. /\ Moves(t, "over") /\ job'[t].session = job[t].session
        /\ Stage(t) \in {"chain", "running", "finished"}
        /\ UNCHANGED up
    BY <1>11, ThrowMoves DEF Throw, AtChain
  <2>2. QED
    BY <2>1 DEF UsedInOrder, Moves, Active, Going, Stage, AtChain, IsNext, Unused, Ids
<1>12. CASE Rotate
  <2>1. /\ UNCHANGED job
        /\ UNCHANGED up
    BY <1>12 DEF Rotate, process
  <2>2. QED
    BY <2>1 DEF UsedInOrder, Active, Going, Stage, IsNext, Unused, Ids
<1>13. CASE Crash
  BY <1>13, CrashLoses DEF UsedInOrder, Active, Going, Stage
<1>14. CASE Boot
  <2>1. /\ UNCHANGED job
        /\ up'
    BY <1>14 DEF Boot
  <2>2. QED
    BY <2>1 DEF UsedInOrder, Active, Going, Stage, IsNext, Unused, Ids
<1>15. CASE UNCHANGED vars
  BY <1>15 DEF vars, store, process, UsedInOrder, Active, Stage
<1>16. QED
  BY <1>1, <1>2, <1>3, <1>4, <1>5, <1>5a, <1>6, <1>7, <1>8, <1>9, <1>10, <1>11, <1>12,
     <1>13, <1>14, <1>15
  DEF Next, HubStep, SendStep

-----------------------------------------------------------------------------
(* The chain of a session *)

\* What Append and Tail do to a queue, element by element.
LEMMA QueueAppend ==
    ASSUME NEW q \in Seq(Ids), NEW t \in Ids
    PROVE  /\ Append(q, t) \in Seq(Ids) /\ Append(q, t) # <<>>
           /\ Len(Append(q, t)) = Len(q) + 1 /\ Append(q, t)[Len(q) + 1] = t
           /\ \A i \in 1 .. Len(q) : Append(q, t)[i] = q[i]
           /\ q # <<>> => Head(Append(q, t)) = Head(q)
           /\ q = <<>> => Head(Append(q, t)) = t
OBVIOUS

LEMMA QueueTail ==
    ASSUME NEW q \in Seq(Ids), q # <<>>
    PROVE  /\ Tail(q) \in Seq(Ids) /\ Len(q) \in Nat \ {0} /\ Head(q) = q[1]
           /\ Len(Tail(q)) = Len(q) - 1
           /\ \A i \in 1 .. Len(Tail(q)) : Tail(q)[i] = q[i + 1]
OBVIOUS

\* Who is in a queue after Append and Tail.
LEMMA HasAppend ==
    ASSUME NEW q \in Seq(Ids), NEW t \in Ids
    PROVE  \A u : Has(Append(q, t), u) <=> Has(q, u) \/ u = t
<1> DEFINE r == Append(q, t)
<1>1. /\ Len(r) = Len(q) + 1 /\ r[Len(q) + 1] = t /\ Len(q) \in Nat
      /\ \A i \in 1 .. Len(q) : r[i] = q[i]
  BY QueueAppend
<1> HIDE DEF r
<1>2. SUFFICES ASSUME NEW u PROVE Has(r, u) <=> Has(q, u) \/ u = t
  BY DEF r
<1>3. QED
  BY <1>1 DEF Has

LEMMA HasTail ==
    ASSUME NEW q \in Seq(Ids), q # <<>>
    PROVE  \A u : Has(q, u) /\ u # Head(q) => Has(Tail(q), u)
<1> DEFINE r == Tail(q)
<1>1. /\ Len(q) \in Nat \ {0} /\ Head(q) = q[1] /\ Len(r) = Len(q) - 1
      /\ \A i \in 1 .. Len(r) : r[i] = q[i + 1]
  BY QueueTail
<1> HIDE DEF r
<1>2. SUFFICES ASSUME NEW u, Has(q, u), u # Head(q) PROVE Has(r, u)
  BY DEF r
<1>3. PICK i \in 1 .. Len(q) : q[i] = u
  BY <1>2 DEF Has
<1>4. i # 1
  BY <1>1, <1>2, <1>3
<1>5. i - 1 \in 1 .. Len(r) /\ r[i - 1] = u
  BY <1>1, <1>3, <1>4
<1>6. QED
  BY <1>5 DEF Has

LEMMA HasSome == ASSUME NEW q \in Seq(Ids), NEW u, Has(q, u) PROVE q # <<>>
BY DEF Has

\* A turn joins the chain.
LEMMA ChainJoined ==
    ASSUME Typed, Staged, ChainInv, NEW t \in Ids, NEW s \in Sessions,
           Moves(t, "chain"), Stage(t) \notin InChain, job'[t].session = s,
           chain' = [chain EXCEPT ![s] = Append(@, t)]
    PROVE  ChainInv'
<1> DEFINE q == chain[s]
<1>1. q \in Seq(Ids) /\ chain'[s] = Append(q, t)
      /\ \A x \in Sessions : x # s => chain'[x] = chain[x]
  BY DEF Typed
<1>2. /\ Len(chain'[s]) = Len(q) + 1 /\ chain'[s][Len(q) + 1] = t /\ Len(q) \in Nat
      /\ \A i \in 1 .. Len(q) : chain'[s][i] = q[i]
      /\ q # <<>> => Head(chain'[s]) = Head(q)
      /\ \A u : Has(chain'[s], u) <=> Has(q, u) \/ u = t
  BY <1>1, QueueAppend, HasAppend
<1>3. \A x \in Sessions : \A i \in 1 .. Len(chain[x]) :
         chain[x][i] # t /\ chain[x][i] \in Ids
  BY DEF ChainInv, Typed
<1>4. (\A x \in Sessions : \A i \in 1 .. Len(chain[x]) :
         Stage(chain[x][i]) \in InChain /\ job[chain[x][i]].session = x)'
  <2>1. ASSUME NEW x \in Sessions, NEW i \in 1 .. Len(chain[x])
        PROVE  job'[chain[x][i]].stage \in InChain /\ job'[chain[x][i]].session = x
    BY <1>3 DEF ChainInv, Moves, Stage
  <2>2. ASSUME NEW x \in Sessions, x # s, NEW i \in 1 .. Len(chain'[x])
        PROVE  job'[chain'[x][i]].stage \in InChain /\ job'[chain'[x][i]].session = x
    BY <1>1, <2>1, <2>2
  <2>3. ASSUME NEW i \in 1 .. Len(chain'[s])
        PROVE  job'[chain'[s][i]].stage \in InChain /\ job'[chain'[s][i]].session = s
    <3>1. CASE i = Len(q) + 1
      BY <1>2, <3>1 DEF Moves, InChain
    <3>2. CASE i # Len(q) + 1
      BY <1>2, <2>1, <2>3, <3>2
    <3>3. QED
      BY <3>1, <3>2
  <2>4. QED
    BY <2>2, <2>3 DEF Stage
<1>5. (\A x \in Sessions : \A i, j \in 1 .. Len(chain[x]) : chain[x][i] = chain[x][j] => i = j)'
  <2>1. ASSUME NEW i \in 1 .. Len(chain'[s]), NEW j \in 1 .. Len(chain'[s]),
               chain'[s][i] = chain'[s][j]
        PROVE  i = j
    BY <1>2, <1>3, <2>1 DEF ChainInv
  <2>2. QED
    BY <1>1, <2>1 DEF ChainInv
<1>6. ASSUME NEW u \in Ids, job'[u].stage \in InChain
      PROVE  /\ Has(chain'[job'[u].session], u)
             /\ job'[u].stage \in {"running", "finished"} => Head(chain'[job'[u].session]) = u
  <2>1. CASE u = t
    BY <1>2, <2>1 DEF Moves
  <2>2. CASE u # t
    <3>1. job'[u] = job[u]
      BY <2>2 DEF Moves
    <3>2. /\ job[u].session \in Sessions /\ Has(chain[job[u].session], u)
          /\ job[u].stage \in {"running", "finished"} => Head(chain[job[u].session]) = u
      BY <1>6, <3>1 DEF ChainInv, Staged, Stage
    <3>3. CASE job[u].session = s
      <4>1. q # <<>>
        BY <1>1, <3>2, <3>3, HasSome
      <4>2. QED
        BY <1>2, <3>1, <3>2, <3>3, <4>1
    <3>4. CASE job[u].session # s
      BY <1>1, <3>1, <3>2, <3>4
    <3>5. QED
      BY <3>3, <3>4
  <2>3. QED
    BY <2>1, <2>2
<1>7. QED
  <2>1. (\A u \in Ids : Stage(u) \in InChain => Has(chain[job[u].session], u))'
    BY <1>6 DEF Stage
  <2>2. (\A u \in Ids : Stage(u) \in {"running", "finished"} => Head(chain[job[u].session]) = u)'
    BY <1>6 DEF Stage, InChain
  <2>3. QED
    BY <1>4, <1>5, <2>1, <2>2 DEF ChainInv

\* The head of the chain leaves it.
LEMMA ChainLeft ==
    ASSUME Typed, Staged, ChainInv, NEW t \in Ids, NEW st, Moves(t, st), st \notin InChain,
           Stage(t) \in InChain, Head(chain[job[t].session]) = t, LeaveChain(t)
    PROVE  ChainInv'
<1> DEFINE s == job[t].session
           q == chain[s]
<1>1. s \in Sessions /\ Has(q, t)
  BY DEF Staged, ChainInv
<1>2. q \in Seq(Ids)
  BY <1>1 DEF Typed
<1>3. q # <<>>
  BY <1>1, <1>2, HasSome
<1>4. chain'[s] = Tail(q) /\ \A x \in Sessions : x # s => chain'[x] = chain[x]
  BY <1>1, <1>3 DEF Typed, LeaveChain, Without
<1>5. /\ Len(q) \in Nat \ {0} /\ q[1] = t /\ Len(chain'[s]) = Len(q) - 1
      /\ \A i \in 1 .. Len(chain'[s]) : chain'[s][i] = q[i + 1]
      /\ \A u : Has(q, u) /\ u # t => Has(chain'[s], u)
  BY <1>2, <1>3, <1>4, QueueTail, HasTail
<1>6. \A i \in 1 .. Len(chain'[s]) : chain'[s][i] # t
  BY <1>1, <1>5 DEF ChainInv
<1>7. \A x \in Sessions : x # s => \A i \in 1 .. Len(chain[x]) : chain[x][i] # t
  BY DEF ChainInv
<1> HIDE DEF s, q
<1>8. \A x \in Sessions : \A i \in 1 .. Len(chain'[x]) :
         /\ chain'[x][i] # t
         /\ \E j \in 1 .. Len(chain[x]) : chain'[x][i] = chain[x][j]
  <2>1. ASSUME NEW i \in 1 .. Len(chain'[s])
        PROVE  \E j \in 1 .. Len(chain[s]) : chain'[s][i] = chain[s][j]
    <3>1. i + 1 \in 1 .. Len(q) /\ chain'[s][i] = q[i + 1]
      BY <1>5
    <3>2. QED
      BY <3>1 DEF q
  <2>2. QED
    BY <1>4, <1>6, <1>7, <2>1
<1>9. (\A x \in Sessions : \A i \in 1 .. Len(chain[x]) :
         Stage(chain[x][i]) \in InChain /\ job[chain[x][i]].session = x)'
  <2>1. SUFFICES ASSUME NEW x \in Sessions, NEW i \in 1 .. Len(chain'[x])
                 PROVE  job'[chain'[x][i]].stage \in InChain /\ job'[chain'[x][i]].session = x
    BY DEF Stage
  <2>2. PICK j \in 1 .. Len(chain[x]) : chain'[x][i] = chain[x][j]
    BY <1>8
  <2>3. chain[x][j] # t /\ chain[x][j] \in Ids
    BY <1>8, <2>2 DEF Typed
  <2>4. QED
    BY <2>2, <2>3 DEF ChainInv, Moves, Stage
<1>10. (\A x \in Sessions : \A i, j \in 1 .. Len(chain[x]) : chain[x][i] = chain[x][j] => i = j)'
  <2>1. ASSUME NEW i \in 1 .. Len(chain'[s]), NEW j \in 1 .. Len(chain'[s]),
               chain'[s][i] = chain'[s][j]
        PROVE  i = j
    <3>1. q[i + 1] = q[j + 1] /\ i + 1 \in 1 .. Len(q) /\ j + 1 \in 1 .. Len(q)
      BY <1>5, <2>1
    <3>2. i + 1 = j + 1
      BY <1>1, <3>1 DEF ChainInv, q
    <3>3. QED
      BY <3>2
  <2>2. QED
    BY <1>4, <2>1 DEF ChainInv
<1>11. ASSUME NEW u \in Ids, job'[u].stage \in InChain
       PROVE  /\ Has(chain'[job'[u].session], u)
              /\ job'[u].stage \in {"running", "finished"} => Head(chain'[job'[u].session]) = u
  <2>1. u # t
    BY <1>11 DEF Moves
  <2>2. job'[u] = job[u]
    BY <2>1 DEF Moves
  <2>3. /\ job[u].session \in Sessions /\ Has(chain[job[u].session], u)
        /\ job[u].stage \in {"running", "finished"} => Head(chain[job[u].session]) = u
    BY <1>11, <2>2 DEF ChainInv, Staged, Stage
  <2>4. job[u].session = s => job[u].stage \notin {"running", "finished"}
    BY <2>1, <2>3 DEF s
  <2>5. job[u].session = s => Has(chain'[s], u)
    BY <1>5, <2>1, <2>3 DEF q
  <2>6. QED
    BY <1>4, <2>2, <2>3, <2>4, <2>5
<1>12. QED
  <2>1. (\A u \in Ids : Stage(u) \in InChain => Has(chain[job[u].session], u))'
    BY <1>11 DEF Stage
  <2>2. (\A u \in Ids : Stage(u) \in {"running", "finished"} => Head(chain[job[u].session]) = u)'
    BY <1>11 DEF Stage, InChain
  <2>3. QED
    BY <1>9, <1>10, <2>1, <2>2 DEF ChainInv

\* A job that moves within the chain, or outside of it, leaves the chain as it is.
LEMMA ChainStays ==
    ASSUME Typed, Staged, ChainInv, NEW t \in Ids, UNCHANGED chain,
           \A u \in Ids : u # t => job'[u] = job[u],
           job'[t].stage \in InChain <=> Stage(t) \in InChain,
           Stage(t) \in InChain =>
              job'[t].session = job[t].session /\ Head(chain[job[t].session]) = t
    PROVE  ChainInv'
<1>1. \A x \in Sessions : \A i \in 1 .. Len(chain[x]) : chain[x][i] \in Ids
  BY DEF Typed
<1>2. (\A x \in Sessions : \A i \in 1 .. Len(chain[x]) :
         Stage(chain[x][i]) \in InChain /\ job[chain[x][i]].session = x)'
  BY <1>1 DEF ChainInv, Stage
<1>3. (\A u \in Ids : Stage(u) \in InChain => Has(chain[job[u].session], u))'
  BY DEF ChainInv, Stage
<1>4. (\A u \in Ids : Stage(u) \in {"running", "finished"} => Head(chain[job[u].session]) = u)'
  BY DEF ChainInv, Stage, InChain
<1>5. QED
  BY <1>2, <1>3, <1>4 DEF ChainInv

\* Every step keeps the chains.
LEMMA ChainStep ==
    ASSUME Typed, Staged, ChainInv, [Next]_vars
    PROVE  ChainInv'
<1>1. ASSUME NEW m \in Messages, Inbound(m)
      PROVE  ChainInv'
  <2>1. UNCHANGED chain
    BY <1>1 DEF Inbound
  <2>2. CASE m \in Allowed
    <3>1. PICK t \in Ids : Takes(t, Sent(m), 0, "hub", heard + 1)
      BY <1>1, <2>2, InboundTakes
    <3>2. QED
      BY <2>1, <3>1, ChainStays DEF Takes, InChain
  <2>3. CASE m \notin Allowed
    BY <1>1, <2>1, <2>3 DEF Inbound, ChainInv, Stage
  <2>4. QED
    BY <2>2, <2>3
<1>2. ASSUME NEW t \in Ids, NEW r \in Requests, Post(t, r)
      PROVE  ChainInv'
  <2>1. /\ Takes(t, Asked(r), head, "admitted", 0) /\ UNCHANGED chain
    BY <1>2, PostTakes
  <2>2. QED
    BY <2>1, ChainStays DEF Takes, InChain
<1>3. ASSUME NEW t \in Ids, Decline(t)
      PROVE  ChainInv'
  <2>1. /\ Moves(t, "replying") /\ Stage(t) = "hub" /\ UNCHANGED chain
    BY <1>3, DeclineMoves DEF Decline, AtHub
  <2>2. QED
    BY <2>1, ChainStays DEF Moves, InChain
<1>4. ASSUME NEW t \in Ids, Admit(t)
      PROVE  ChainInv'
  <2>1. /\ Moves(t, "chain") /\ job'[t].session = head /\ Stage(t) = "hub" /\ head \in Sessions
        /\ chain' = [chain EXCEPT ![head] = Append(@, t)]
    BY <1>4, AdmitMoves DEF AtHub, Typed
  <2>2. QED
    BY <2>1, ChainJoined DEF InChain
<1>5. ASSUME NEW t \in Ids, Reply(t)
      PROVE  ChainInv'
  <2>0. PICK st \in {"over", "replying"} : Moves(t, st)
    BY <1>5, ReplyMoves
  <2>1. /\ Moves(t, st) /\ Stage(t) = "returned" /\ UNCHANGED chain
    BY <1>5, <2>0, ReplyMoves DEF Reply
  <2>2. QED
    BY <2>1, ChainStays DEF Moves, InChain
<1>5a. ASSUME NEW t \in Ids, Drained(t)
      PROVE  ChainInv'
  <2>1. /\ Moves(t, "over") /\ Stage(t) = "replying" /\ UNCHANGED chain
    BY <1>5a, DrainedMoves DEF Drained, store
  <2>2. QED
    BY <2>1, ChainStays DEF Moves, InChain
<1>6. ASSUME NEW t \in Ids, Claim(t)
      PROVE  ChainInv'
  <2>1. Stage(t) = "admitted" /\ job'[t].session = job[t].session
    BY <1>6, ClaimMoves
  <2>2. CASE Wins(t)
    <3>1. /\ Moves(t, "chain")
          /\ chain' = [chain EXCEPT ![job[t].session] = Append(@, t)]
      BY <1>6, <2>2, ClaimMoves
    <3>2. job[t].session \in Sessions
      BY <2>1 DEF Staged
    <3>3. QED
      BY <2>1, <3>1, <3>2, ChainJoined DEF InChain
  <2>3. CASE ~Wins(t)
    <3>1. PICK st \in {"replayed", "conflict"} : Moves(t, st)
      BY <1>6, <2>3, ClaimMoves
    <3>2. UNCHANGED chain
      BY <1>6, <2>3, ClaimMoves
    <3>3. QED
      BY <2>1, <3>1, <3>2, ChainStays DEF Moves, InChain
  <2>4. QED
    BY <2>2, <2>3
<1>7. ASSUME NEW t \in Ids, Start(t)
      PROVE  ChainInv'
  <2>1. /\ Moves(t, "running") /\ AtChain(t) /\ UNCHANGED chain
        /\ job'[t].session = job[t].session
    BY <1>7, StartMoves
  <2>2. QED
    BY <2>1, ChainStays DEF Moves, AtChain, InChain
<1>8. ASSUME NEW t \in Ids, AppendTurn(t)
      PROVE  ChainInv'
  <2>1. /\ Moves(t, IF IsChat(t) THEN "returned" ELSE "over")
        /\ Stage(t) = "finished" /\ LeaveChain(t)
    BY <1>8, AppendMoves DEF AppendTurn
  <2>2. Head(chain[job[t].session]) = t
    BY <2>1 DEF ChainInv
  <2>3. QED
    BY <2>1, <2>2, ChainLeft DEF InChain
<1>9. ASSUME NEW t \in Ids, NEW status \in {"complete", "error"}, NEW appends \in BOOLEAN,
             Finish(t, status, appends)
      PROVE  ChainInv'
  <2>1. /\ Moves(t, "finished") /\ Stage(t) = "running" /\ UNCHANGED chain
        /\ job'[t].session = job[t].session
    BY <1>9, FinishMoves
  <2>2. Head(chain[job[t].session]) = t
    BY <2>1 DEF ChainInv
  <2>3. QED
    BY <2>1, <2>2, ChainStays DEF Moves, InChain
<1>10. ASSUME NEW t \in Ids, ClaimThrows(t)
      PROVE  ChainInv'
  <2>1. /\ Moves(t, "over") /\ Stage(t) = "admitted" /\ UNCHANGED chain
    BY <1>10, ClaimThrowsMoves DEF ClaimThrows
  <2>2. QED
    BY <2>1, ChainStays DEF Moves, InChain
<1>11. ASSUME NEW t \in Ids, Throw(t)
      PROVE  ChainInv'
  <2>1. /\ Moves(t, "over") /\ LeaveChain(t)
        /\ Stage(t) \in {"running", "finished"} \/ AtChain(t)
    BY <1>11, ThrowMoves DEF Throw
  <2>2. Head(chain[job[t].session]) = t
    BY <2>1 DEF ChainInv, AtChain
  <2>3. Stage(t) \in InChain
    BY <2>1 DEF InChain, AtChain
  <2>4. QED
    BY <2>1, <2>2, <2>3, ChainLeft DEF InChain
<1>12. CASE Rotate
  BY <1>12 DEF Rotate, process, ChainInv, Stage
<1>13. CASE Crash
  <2>1. \A t \in Ids : job'[t].stage \notin InChain
    BY <1>13, CrashLoses DEF Active, Going, InChain, Stage
  <2>2. \A s \in Sessions : chain'[s] = <<>>
    BY <1>13, CrashLoses
  <2>3. \A s \in Sessions : Len(chain'[s]) = 0
    BY <2>2
  <2>4. QED
    BY <2>1, <2>3 DEF ChainInv, Stage, InChain
<1>14. CASE Boot
  BY <1>14 DEF Boot, ChainInv, Stage
<1>15. CASE UNCHANGED vars
  BY <1>15 DEF vars, store, process, ChainInv, Stage
<1>16. QED
  BY <1>1, <1>2, <1>3, <1>4, <1>5, <1>5a, <1>6, <1>7, <1>8, <1>9, <1>10, <1>11, <1>12,
     <1>13, <1>14, <1>15
  DEF Next, HubStep, SendStep

-----------------------------------------------------------------------------
(* The history is current *)

\* A step that appends nothing keeps the histories current, when its own job is.
LEMMA CurrentStays ==
    ASSUME HistoryCurrent, UNCHANGED hist, NEW t \in Ids,
           \A u \in Ids : u # t => job'[u] = job[u],
           job'[t].stage \in {"running", "finished"} =>
              job'[t].snap = Len(hist[job'[t].session])
    PROVE  HistoryCurrent'
BY DEF HistoryCurrent, Stage

\* A turn that runs is the head of its chain, so no other turn of its session holds a
\* snapshot when its messages are appended.
LEMMA CurrentAppended ==
    ASSUME Typed, Staged, ChainInv, HistoryCurrent, NEW t \in Ids, NEW st, Moves(t, st),
           st \notin {"running", "finished"}, Stage(t) \in InChain,
           Head(chain[job[t].session]) = t,
           hist' = hist \/ hist' = [hist EXCEPT ![job[t].session] = Append(@, t)]
    PROVE  HistoryCurrent'
<1> SUFFICES ASSUME NEW u \in Ids, job'[u].stage \in {"running", "finished"}
             PROVE  job'[u].snap = Len(hist'[job'[u].session])
  BY DEF HistoryCurrent, Stage
<1>1. u # t /\ job'[u] = job[u]
  BY DEF Moves
<1>2. job[u].session # job[t].session
  BY <1>1 DEF ChainInv, Stage
<1>3. hist'[job[u].session] = hist[job[u].session]
  <2>1. job[u].session \in Sessions
    BY <1>1 DEF Staged, Stage, InChain
  <2>2. QED
    BY <1>2, <2>1 DEF Typed
<1>4. QED
  BY <1>1, <1>3 DEF HistoryCurrent, Stage

\* Every step keeps the histories current.
LEMMA CurrentStep ==
    ASSUME Typed, Staged, ChainInv, HistoryCurrent, [Next]_vars
    PROVE  HistoryCurrent'
<1>1. ASSUME NEW m \in Messages, Inbound(m)
      PROVE  HistoryCurrent'
  <2>1. UNCHANGED hist
    BY <1>1 DEF Inbound, store
  <2>2. CASE m \in Allowed
    <3>1. PICK t \in Ids : Takes(t, Sent(m), 0, "hub", heard + 1)
      BY <1>1, <2>2, InboundTakes
    <3>2. QED
      BY <2>1, <3>1, CurrentStays DEF Takes
  <2>3. CASE m \notin Allowed
    BY <1>1, <2>1, <2>3 DEF Inbound, HistoryCurrent, Stage
  <2>4. QED
    BY <2>2, <2>3
<1>2. ASSUME NEW t \in Ids, NEW r \in Requests, Post(t, r)
      PROVE  HistoryCurrent'
  <2>1. /\ Takes(t, Asked(r), head, "admitted", 0) /\ UNCHANGED hist
    BY <1>2, PostTakes DEF store
  <2>2. QED
    BY <2>1, CurrentStays DEF Takes
<1>3. ASSUME NEW t \in Ids, Decline(t)
      PROVE  HistoryCurrent'
  <2>1. /\ Moves(t, "replying") /\ UNCHANGED hist
    BY <1>3, DeclineMoves DEF Decline, store
  <2>2. QED
    BY <2>1, CurrentStays DEF Moves
<1>4. ASSUME NEW t \in Ids, Admit(t)
      PROVE  HistoryCurrent'
  <2>1. /\ Moves(t, "chain") /\ UNCHANGED hist
    BY <1>4, AdmitMoves DEF store
  <2>2. QED
    BY <2>1, CurrentStays DEF Moves
<1>5. ASSUME NEW t \in Ids, Reply(t)
      PROVE  HistoryCurrent'
  <2>0. PICK st \in {"over", "replying"} : Moves(t, st)
    BY <1>5, ReplyMoves
  <2>1. /\ Moves(t, st) /\ UNCHANGED hist
    BY <1>5, <2>0, ReplyMoves DEF Reply
  <2>2. QED
    BY <2>1, CurrentStays DEF Moves
<1>5a. ASSUME NEW t \in Ids, Drained(t)
      PROVE  HistoryCurrent'
  <2>1. /\ Moves(t, "over") /\ UNCHANGED hist
    BY <1>5a, DrainedMoves DEF Drained, store
  <2>2. QED
    BY <2>1, CurrentStays DEF Moves
<1>6. ASSUME NEW t \in Ids, Claim(t)
      PROVE  HistoryCurrent'
  <2>1. UNCHANGED hist
    BY <1>6, ClaimMoves
  <2>2. PICK st \in {"chain", "replayed", "conflict"} : Moves(t, st)
    BY <1>6, ClaimMoves
  <2>3. QED
    BY <2>1, <2>2, CurrentStays DEF Moves
<1>7. ASSUME NEW t \in Ids, Start(t)
      PROVE  HistoryCurrent'
  <2>1. /\ Moves(t, "running") /\ UNCHANGED hist
        /\ job'[t].session = job[t].session /\ job'[t].snap = Len(hist[job[t].session])
    BY <1>7, StartMoves
  <2>2. QED
    BY <2>1, CurrentStays DEF Moves
<1>8. ASSUME NEW t \in Ids, AppendTurn(t)
      PROVE  HistoryCurrent'
  <2>1. /\ Moves(t, IF IsChat(t) THEN "returned" ELSE "over") /\ Stage(t) = "finished"
        /\ hist' = hist \/ hist' = [hist EXCEPT ![job[t].session] = Append(@, t)]
    BY <1>8, AppendMoves DEF AppendTurn, Appended
  <2>2. Head(chain[job[t].session]) = t
    BY <2>1 DEF ChainInv
  <2>3. QED
    BY <2>1, <2>2, CurrentAppended DEF InChain
<1>9. ASSUME NEW t \in Ids, NEW status \in {"complete", "error"}, NEW appends \in BOOLEAN,
             Finish(t, status, appends)
      PROVE  HistoryCurrent'
  <2>1. /\ Moves(t, "finished") /\ Stage(t) = "running" /\ UNCHANGED hist
        /\ job'[t].session = job[t].session /\ job'[t].snap = job[t].snap
    BY <1>9, FinishMoves
  <2>2. QED
    BY <2>1, CurrentStays DEF Moves, HistoryCurrent
<1>10. ASSUME NEW t \in Ids, ClaimThrows(t)
      PROVE  HistoryCurrent'
  <2>1. /\ Moves(t, "over") /\ UNCHANGED hist
    BY <1>10, ClaimThrowsMoves DEF ClaimThrows, store
  <2>2. QED
    BY <2>1, CurrentStays DEF Moves
<1>11. ASSUME NEW t \in Ids, Throw(t)
      PROVE  HistoryCurrent'
  <2>1. /\ Moves(t, "over") /\ (Stage(t) \in {"running", "finished"} \/ AtChain(t))
        /\ hist' = hist \/ hist' = [hist EXCEPT ![job[t].session] = Append(@, t)]
    BY <1>11, ThrowMoves DEF Throw, Appended
  <2>2. Head(chain[job[t].session]) = t
    BY <2>1 DEF ChainInv, AtChain
  <2>3. Stage(t) \in InChain
    BY <2>1 DEF InChain, AtChain
  <2>4. QED
    BY <2>1, <2>2, <2>3, CurrentAppended
<1>12. CASE Rotate
  BY <1>12 DEF Rotate, process, HistoryCurrent, Stage
<1>13. CASE Crash
  <2>1. \A t \in Ids : job'[t].stage \notin {"running", "finished"}
    BY <1>13, CrashLoses DEF Active, Going, Stage
  <2>2. QED
    BY <2>1 DEF HistoryCurrent, Stage
<1>14. CASE Boot
  BY <1>14 DEF Boot, HistoryCurrent, Stage
<1>15. CASE UNCHANGED vars
  BY <1>15 DEF vars, store, process, HistoryCurrent, Stage
<1>16. QED
  BY <1>1, <1>2, <1>3, <1>4, <1>5, <1>5a, <1>6, <1>7, <1>8, <1>9, <1>10, <1>11, <1>12,
     <1>13, <1>14, <1>15
  DEF Next, HubStep, SendStep

-----------------------------------------------------------------------------
(* The queue of a chat *)

\* A message of a chat that is not done with.
Queued(t) == Active(t) /\ IsChat(t)

\* A new message has a greater id than all before it.
LEMMA NextIsGreater ==
    ASSUME UsedInOrder, NEW t \in Ids, IsNext(t), NEW u \in Ids, Stage(u) # "none"
    PROVE  u < t
BY DEF UsedInOrder, IsNext, Unused, Ids

\* The chat of a message is one of the chats.
LEMMA ChatIsChat ==
    ASSUME Typed, NEW u \in Ids, Stage(u) # "none", IsChat(u)
    PROVE  Chat(u) \in Chats
<1>1. job[u] \in Jobs
  BY UsedJob
<1>2. PICK w \in Messages : Origin(u) = Sent(w)
  BY <1>1 DEF Jobs, Origins, Origin, IsChat, Asked
<1>3. QED
  BY <1>2, InboundConstants DEF Chat, Sent

LEMMA HubJoined ==
    ASSUME Typed, UsedInOrder, HubInv, NEW m \in Allowed, NEW t \in Ids, IsNext(t), NEW n,
           Takes(t, Sent(m), 0, "hub", n), hub' = [hub EXCEPT ![ChatOf[m]] = Append(@, t)]
    PROVE  HubInv'
<1> DEFINE c == ChatOf[m]
           q == hub[c]
<1>0. c \in Chats
  BY InboundConstants
<1>1. q \in Seq(Ids) /\ hub'[c] = Append(q, t)
      /\ \A x \in Chats : x # c => hub'[x] = hub[x]
  BY <1>0 DEF Typed
<1>2. /\ Len(hub'[c]) = Len(q) + 1 /\ hub'[c][Len(q) + 1] = t /\ Len(q) \in Nat
      /\ \A i \in 1 .. Len(q) : hub'[c][i] = q[i]
      /\ q # <<>> => Head(hub'[c]) = Head(q)
      /\ \A u : Has(hub'[c], u) <=> Has(q, u) \/ u = t
  BY <1>1, QueueAppend, HasAppend
<1>3. job'[t].stage = "hub" /\ job'[t].origin = Sent(m) /\ Stage(t) = "none"
      /\ \A u \in Ids : u # t => job'[u] = job[u]
  BY DEF Takes
<1>4. \A x \in Chats : \A i \in 1 .. Len(hub[x]) : hub[x][i] \in Ids /\ Stage(hub[x][i]) # "none"
  <2>1. ASSUME NEW x \in Chats, NEW i \in 1 .. Len(hub[x])
        PROVE  hub[x][i] \in Ids
    <3>1. hub[x] \in Seq(Ids)
      BY DEF Typed
    <3>2. QED
      BY <3>1
  <2>2. QED
    BY <2>1 DEF HubInv, Active, Going
<1>5. \A x \in Chats : \A i \in 1 .. Len(hub[x]) : hub[x][i] < t
  BY <1>4, NextIsGreater
<1> HIDE DEF c, q
<1>6. (\A x \in Chats : \A i \in 1 .. Len(hub[x]) :
         Active(hub[x][i]) /\ IsChat(hub[x][i]) /\ Chat(hub[x][i]) = x)'
  <2>1. ASSUME NEW x \in Chats, NEW i \in 1 .. Len(hub[x])
        PROVE  /\ job'[hub[x][i]].stage \in Going /\ job'[hub[x][i]].origin.by = "chat"
               /\ ChatOf[job'[hub[x][i]].origin.msg] = x
    BY <1>3, <1>4 DEF HubInv, Active, IsChat, Chat, Origin, Stage
  <2>2. ASSUME NEW x \in Chats, x # c, NEW i \in 1 .. Len(hub'[x])
        PROVE  /\ job'[hub'[x][i]].stage \in Going /\ job'[hub'[x][i]].origin.by = "chat"
               /\ ChatOf[job'[hub'[x][i]].origin.msg] = x
    <3>1. hub'[x] = hub[x] /\ i \in 1 .. Len(hub[x])
      BY <1>1, <2>2
    <3>2. QED
      BY <2>1, <3>1
  <2>3. ASSUME NEW i \in 1 .. Len(hub'[c])
        PROVE  /\ job'[hub'[c][i]].stage \in Going /\ job'[hub'[c][i]].origin.by = "chat"
               /\ ChatOf[job'[hub'[c][i]].origin.msg] = c
    <3>1. CASE i = Len(q) + 1
      BY <1>2, <1>3, <3>1 DEF Going, Sent, c
    <3>2. CASE i # Len(q) + 1
      BY <1>0, <1>2, <2>1, <2>3, <3>2 DEF q
    <3>3. QED
      BY <3>1, <3>2
  <2>4. QED
    BY <2>2, <2>3 DEF Active, IsChat, Chat, Origin, Stage
<1>7. (\A x \in Chats : \A i, j \in 1 .. Len(hub[x]) : i < j => hub[x][i] < hub[x][j])'
  <2>1. ASSUME NEW i \in 1 .. Len(hub'[c]), NEW j \in 1 .. Len(hub'[c]), i < j
        PROVE  hub'[c][i] < hub'[c][j]
    BY <1>0, <1>2, <1>5, <2>1 DEF HubInv, q
  <2>2. QED
    BY <1>1, <2>1 DEF HubInv
<1>8. ASSUME NEW u \in Ids, job'[u].stage \in Going, job'[u].origin.by = "chat"
      PROVE  /\ Has(hub'[ChatOf[job'[u].origin.msg]], u)
             /\ job'[u].stage # "hub" => Head(hub'[ChatOf[job'[u].origin.msg]]) = u
  <2>1. CASE u = t
    BY <1>2, <1>3, <2>1 DEF Sent, c
  <2>2. CASE u # t
    <3>1. job'[u] = job[u]
      BY <1>3, <2>2
    <3>2. /\ Has(hub[Chat(u)], u)
          /\ job[u].stage # "hub" => Head(hub[Chat(u)]) = u
      BY <1>8, <3>1 DEF HubInv, Active, IsChat, Origin, Stage
    <3>3. Chat(u) \in Chats
      BY <1>8, <3>1, ChatIsChat DEF Stage, Going, IsChat, Origin
    <3>4. CASE Chat(u) = c
      <4>1. q # <<>>
        BY <1>1, <3>2, <3>4, HasSome DEF q
      <4>2. QED
        BY <1>2, <3>1, <3>2, <3>4, <4>1 DEF Chat, Origin, q
    <3>5. CASE Chat(u) # c
      BY <1>1, <3>1, <3>2, <3>3, <3>5 DEF Chat, Origin
    <3>6. QED
      BY <3>4, <3>5
  <2>3. QED
    BY <2>1, <2>2
<1>9. QED
  <2>1. (\A u \in Ids : Active(u) /\ IsChat(u) => Has(hub[Chat(u)], u))'
    BY <1>8 DEF Active, IsChat, Chat, Origin, Stage
  <2>2. (\A u \in Ids : Active(u) /\ IsChat(u) /\ Stage(u) # "hub" => Head(hub[Chat(u)]) = u)'
    BY <1>8 DEF Active, IsChat, Chat, Origin, Stage
  <2>3. QED
    BY <1>6, <1>7, <2>1, <2>2 DEF HubInv

\* The head of the queue leaves it.
LEMMA HubLeft ==
    ASSUME Typed, HubInv, NEW t \in Ids, NEW st, Moves(t, st), st \notin Going,
           Queued(t), Head(hub[Chat(t)]) = t, LeaveHub(t)
    PROVE  HubInv'
<1> DEFINE c == Chat(t)
           q == hub[c]
<1>1. c \in Chats /\ Has(q, t)
  BY ChatIsChat DEF HubInv, Queued, Active, Going
<1>2. q \in Seq(Ids)
  BY <1>1 DEF Typed
<1>3. q # <<>>
  BY <1>1, <1>2, HasSome
<1>4. hub'[c] = Tail(q) /\ \A x \in Chats : x # c => hub'[x] = hub[x]
  BY <1>1, <1>3 DEF Typed, LeaveHub, Without, Queued
<1>5. /\ Len(q) \in Nat \ {0} /\ q[1] = t /\ Len(hub'[c]) = Len(q) - 1
      /\ \A i \in 1 .. Len(hub'[c]) : hub'[c][i] = q[i + 1]
      /\ \A u : Has(q, u) /\ u # t => Has(hub'[c], u)
  BY <1>2, <1>3, <1>4, QueueTail, HasTail
<1>6. \A i, j \in 1 .. Len(q) : i < j => q[i] < q[j]
  BY <1>1 DEF HubInv
<1>7. \A i \in 1 .. Len(hub'[c]) : hub'[c][i] # t
  <2>1. ASSUME NEW i \in 1 .. Len(hub'[c]) PROVE hub'[c][i] # t
    <3>1. 1 \in 1 .. Len(q) /\ i + 1 \in 1 .. Len(q) /\ 1 < i + 1
      BY <1>5
    <3>2. q[1] < q[i + 1] /\ q[1] \in Ids
      BY <1>2, <1>6, <3>1
    <3>3. QED
      BY <1>5, <3>2 DEF Ids
  <2>2. QED
    BY <2>1
<1>8. \A x \in Chats : x # c => \A i \in 1 .. Len(hub[x]) : hub[x][i] # t
  BY DEF HubInv
<1> HIDE DEF c, q
<1>9. \A x \in Chats : \A i \in 1 .. Len(hub'[x]) :
         /\ hub'[x][i] # t
         /\ \E j \in 1 .. Len(hub[x]) : hub'[x][i] = hub[x][j]
  <2>1. ASSUME NEW i \in 1 .. Len(hub'[c])
        PROVE  \E j \in 1 .. Len(hub[c]) : hub'[c][i] = hub[c][j]
    <3>1. i + 1 \in 1 .. Len(q) /\ hub'[c][i] = q[i + 1]
      BY <1>5
    <3>2. QED
      BY <3>1 DEF q
  <2>2. QED
    BY <1>4, <1>7, <1>8, <2>1
<1>10. (\A x \in Chats : \A i \in 1 .. Len(hub[x]) :
          Active(hub[x][i]) /\ IsChat(hub[x][i]) /\ Chat(hub[x][i]) = x)'
  <2>1. SUFFICES ASSUME NEW x \in Chats, NEW i \in 1 .. Len(hub'[x])
                 PROVE  /\ job'[hub'[x][i]].stage \in Going
                        /\ job'[hub'[x][i]].origin.by = "chat"
                        /\ ChatOf[job'[hub'[x][i]].origin.msg] = x
    BY DEF Active, IsChat, Chat, Origin, Stage
  <2>2. PICK j \in 1 .. Len(hub[x]) : hub'[x][i] = hub[x][j]
    BY <1>9
  <2>3. hub[x] \in Seq(Ids)
    BY DEF Typed
  <2>4. hub[x][j] # t /\ hub[x][j] \in Ids
    BY <1>9, <2>2, <2>3
  <2>5. QED
    BY <2>2, <2>4 DEF HubInv, Moves, Active, IsChat, Chat, Origin, Stage
<1>11. (\A x \in Chats : \A i, j \in 1 .. Len(hub[x]) : i < j => hub[x][i] < hub[x][j])'
  <2>1. ASSUME NEW i \in 1 .. Len(hub'[c]), NEW j \in 1 .. Len(hub'[c]), i < j
        PROVE  hub'[c][i] < hub'[c][j]
    <3>1. i + 1 \in 1 .. Len(q) /\ j + 1 \in 1 .. Len(q) /\ i + 1 < j + 1
      BY <1>5, <2>1
    <3>2. QED
      BY <1>5, <1>6, <3>1
  <2>2. QED
    BY <1>4, <2>1 DEF HubInv
<1>12. ASSUME NEW u \in Ids, job'[u].stage \in Going, job'[u].origin.by = "chat"
       PROVE  /\ Has(hub'[ChatOf[job'[u].origin.msg]], u)
              /\ job'[u].stage # "hub" => Head(hub'[ChatOf[job'[u].origin.msg]]) = u
  <2>1. u # t
    BY <1>12 DEF Moves
  <2>2. job'[u] = job[u]
    BY <2>1 DEF Moves
  <2>3. /\ Has(hub[Chat(u)], u)
        /\ job[u].stage # "hub" => Head(hub[Chat(u)]) = u
    BY <1>12, <2>2 DEF HubInv, Active, IsChat, Origin, Stage
  <2>4. Chat(u) \in Chats
    BY <1>12, <2>2, ChatIsChat DEF Stage, Going, IsChat, Origin
  <2>5. Chat(u) = c => job[u].stage = "hub" /\ Has(hub'[c], u)
    BY <1>5, <2>1, <2>3 DEF c, q
  <2>6. QED
    BY <1>4, <2>2, <2>3, <2>4, <2>5 DEF Chat, Origin
<1>13. QED
  <2>1. (\A u \in Ids : Active(u) /\ IsChat(u) => Has(hub[Chat(u)], u))'
    BY <1>12 DEF Active, IsChat, Chat, Origin, Stage
  <2>2. (\A u \in Ids : Active(u) /\ IsChat(u) /\ Stage(u) # "hub" => Head(hub[Chat(u)]) = u)'
    BY <1>12 DEF Active, IsChat, Chat, Origin, Stage
  <2>3. QED
    BY <1>10, <1>11, <2>1, <2>2 DEF HubInv

\* A job that goes on, or that is not of a chat, leaves the queues as they are.
LEMMA HubStays ==
    ASSUME Typed, HubInv, NEW t \in Ids, UNCHANGED hub,
           \A u \in Ids : u # t => job'[u] = job[u],
           job'[t].stage \in Going /\ job'[t].origin.by = "chat" <=> Queued(t),
           Queued(t) => /\ job'[t].origin = job[t].origin
                        /\ job'[t].stage # "hub" => Head(hub[Chat(t)]) = t
    PROVE  HubInv'
<1>1. \A x \in Chats : \A i \in 1 .. Len(hub[x]) : hub[x][i] \in Ids
  <2>1. ASSUME NEW x \in Chats PROVE hub[x] \in Seq(Ids)
    BY DEF Typed
  <2>2. QED
    BY <2>1
<1>2. ASSUME NEW u \in Ids, Queued(u)
      PROVE  job'[u].stage \in Going /\ job'[u].origin = job[u].origin
  BY <1>2 DEF Queued, Active, IsChat, Origin, Stage
<1>3. ASSUME NEW u \in Ids, job'[u].stage \in Going, job'[u].origin.by = "chat"
      PROVE  /\ Queued(u) /\ Chat(u) = ChatOf[job'[u].origin.msg]
             /\ job'[u].stage # "hub" => Head(hub[Chat(u)]) = u
  BY <1>3 DEF HubInv, Queued, Active, IsChat, Chat, Origin, Stage
<1>4. (\A x \in Chats : \A i \in 1 .. Len(hub[x]) :
         Active(hub[x][i]) /\ IsChat(hub[x][i]) /\ Chat(hub[x][i]) = x)'
  BY <1>1, <1>2 DEF HubInv, Queued, Active, IsChat, Chat, Origin, Stage
<1>5. (\A u \in Ids : Active(u) /\ IsChat(u) => Has(hub[Chat(u)], u))'
  BY <1>3 DEF HubInv, Queued, Active, IsChat, Chat, Origin, Stage
<1>6. (\A u \in Ids : Active(u) /\ IsChat(u) /\ Stage(u) # "hub" => Head(hub[Chat(u)]) = u)'
  BY <1>3 DEF Active, IsChat, Chat, Origin, Stage
<1>7. QED
  BY <1>4, <1>5, <1>6 DEF HubInv

\* Every step keeps the queues of the chats.
LEMMA QueueStep ==
    ASSUME Typed, Staged, UsedInOrder, HubInv, [Next]_vars
    PROVE  HubInv'
<1>1. ASSUME NEW m \in Messages, Inbound(m)
      PROVE  HubInv'
  <2>1. CASE m \in Allowed
    <3>1. PICK t \in Ids : /\ Takes(t, Sent(m), 0, "hub", heard + 1) /\ IsNext(t)
                           /\ hub' = [hub EXCEPT ![ChatOf[m]] = Append(@, t)]
      BY <1>1, <2>1, InboundTakes
    <3>2. QED
      BY <2>1, <3>1, HubJoined
  <2>2. CASE m \notin Allowed
    BY <1>1, <2>2 DEF Inbound, HubInv, Active, IsChat, Chat, Origin, Stage
  <2>3. QED
    BY <2>1, <2>2
<1>2. ASSUME NEW t \in Ids, NEW r \in Requests, Post(t, r)
      PROVE  HubInv'
  <2>1. Takes(t, Asked(r), head, "admitted", 0) /\ UNCHANGED hub
    BY <1>2, PostTakes
  <2>2. /\ job'[t].origin.by # "chat" /\ ~Queued(t)
        /\ \A u \in Ids : u # t => job'[u] = job[u]
    BY <2>1 DEF Takes, Asked, Queued, Active, Going
  <2>3. QED
    BY <2>1, <2>2, HubStays
<1>3. ASSUME NEW t \in Ids, Decline(t)
      PROVE  HubInv'
  <2>1. Moves(t, "replying") /\ AtHub(t) /\ UNCHANGED hub
    BY <1>3, DeclineMoves DEF Decline
  <2>2. QED
    BY <2>1, HubStays
    DEF Moves, AtHub, Queued, Active, Going, IsChat, Origin, Stage
<1>4. ASSUME NEW t \in Ids, Admit(t)
      PROVE  HubInv'
  <2>1. /\ Moves(t, "chain") /\ AtHub(t) /\ UNCHANGED hub
    BY <1>4, AdmitMoves
  <2>2. QED
    BY <2>1, HubStays
    DEF Moves, AtHub, Queued, Active, Going, IsChat, Origin, Stage
<1>5. ASSUME NEW t \in Ids, Reply(t)
      PROVE  HubInv'
  <2>0. PICK st \in {"over", "replying"} :
            /\ Moves(t, st)
            /\ st = "over" => LeaveHub(t) /\ UNCHANGED outbox
            /\ st = "replying" => UNCHANGED hub /\ outbox' = outbox \cup {t}
    BY <1>5, ReplyMoves
  <2>1. Moves(t, st) /\ Stage(t) = "returned"
    BY <1>5, <2>0 DEF Reply
  <2>2. Queued(t)
    BY <2>1 DEF Staged, Queued, Active, Going
  <2>3. Head(hub[Chat(t)]) = t
    BY <2>1, <2>2 DEF HubInv, Queued
  <2>4. CASE st = "over"
    BY <2>0, <2>1, <2>2, <2>3, <2>4, HubLeft DEF Going
  <2>5. CASE st = "replying"
    BY <2>0, <2>1, <2>2, <2>3, <2>5, HubStays
    DEF Moves, Queued, Active, Going, IsChat, Origin, Stage
  <2>6. QED
    BY <2>4, <2>5
<1>5a. ASSUME NEW t \in Ids, Drained(t)
      PROVE  HubInv'
  <2>1. Moves(t, "over") /\ Stage(t) = "replying" /\ LeaveHub(t)
    BY <1>5a, DrainedMoves DEF Drained, store
  <2>2. Queued(t)
    BY <2>1 DEF Staged, Queued, Active, Going
  <2>3. Head(hub[Chat(t)]) = t
    BY <2>1, <2>2 DEF HubInv, Queued
  <2>4. QED
    BY <2>1, <2>2, <2>3, HubLeft DEF Going
<1>6. ASSUME NEW t \in Ids, Claim(t)
      PROVE  HubInv'
  <2>1. Stage(t) = "admitted" /\ ~IsChat(t) /\ UNCHANGED hub
    BY <1>6, ClaimMoves
  <2>2. PICK st \in {"chain", "replayed", "conflict"} : Moves(t, st)
    BY <1>6, ClaimMoves
  <2>3. QED
    BY <2>1, <2>2, HubStays DEF Moves, Queued, IsChat, Origin
<1>7. ASSUME NEW t \in Ids, Start(t)
      PROVE  HubInv'
  <2>1. /\ Moves(t, "running") /\ AtChain(t) /\ UNCHANGED hub
    BY <1>7, StartMoves
  <2>2. QED
    BY <2>1, HubStays
    DEF Moves, AtChain, HubInv, Queued, Active, Going, IsChat, Origin, Stage
<1>8. ASSUME NEW t \in Ids, AppendTurn(t)
      PROVE  HubInv'
  <2>1. /\ Moves(t, IF IsChat(t) THEN "returned" ELSE "over") /\ Stage(t) = "finished"
        /\ UNCHANGED hub
    BY <1>8, AppendMoves DEF AppendTurn
  <2>2. QED
    BY <2>1, HubStays DEF Moves, HubInv, Queued, Active, Going, IsChat, Origin, Stage
<1>9. ASSUME NEW t \in Ids, NEW status \in {"complete", "error"}, NEW appends \in BOOLEAN,
             Finish(t, status, appends)
      PROVE  HubInv'
  <2>1. /\ Moves(t, "finished") /\ Stage(t) = "running" /\ UNCHANGED hub
    BY <1>9, FinishMoves
  <2>2. QED
    BY <2>1, HubStays DEF Moves, HubInv, Queued, Active, Going, IsChat, Origin, Stage
<1>10. ASSUME NEW t \in Ids, ClaimThrows(t)
      PROVE  HubInv'
  <2>1. Moves(t, "over") /\ Stage(t) = "admitted" /\ UNCHANGED hub
    BY <1>10, ClaimThrowsMoves DEF ClaimThrows
  <2>2. ~Queued(t)
    BY <2>1 DEF Staged, Queued
  <2>3. QED
    BY <2>1, <2>2, HubStays DEF Moves, Going
<1>11. ASSUME NEW t \in Ids, Throw(t)
      PROVE  HubInv'
  <2>1. /\ Moves(t, "over") /\ (Stage(t) \in {"running", "finished"} \/ AtChain(t))
        /\ LeaveHub(t)
    BY <1>11, ThrowMoves DEF Throw
  <2>2. Active(t) /\ Stage(t) # "hub"
    BY <2>1 DEF AtChain, Active, Going
  <2>3. CASE IsChat(t)
    <3>1. Queued(t) /\ Head(hub[Chat(t)]) = t
      BY <2>2, <2>3 DEF HubInv, Queued
    <3>2. QED
      BY <2>1, <3>1, HubLeft DEF Going
  <2>4. CASE ~IsChat(t)
    <3>1. UNCHANGED hub /\ ~Queued(t)
      BY <2>1, <2>4 DEF LeaveHub, Queued
    <3>2. QED
      BY <2>1, <3>1, HubStays DEF Moves, Going
  <2>5. QED
    BY <2>3, <2>4
<1>12. CASE Rotate
  BY <1>12 DEF Rotate, process, HubInv, Active, IsChat, Chat, Origin, Stage
<1>13. CASE Crash
  <2>1. \A t \in Ids : job'[t].stage \notin Going
    BY <1>13, CrashLoses DEF Active, Going, Stage
  <2>2. \A c \in Chats : hub'[c] = <<>>
    BY <1>13, CrashLoses
  <2>3. \A c \in Chats : Len(hub'[c]) = 0
    BY <2>2
  <2>4. QED
    BY <2>1, <2>3 DEF HubInv, Active, Stage
<1>14. CASE Boot
  BY <1>14 DEF Boot, HubInv, Active, IsChat, Chat, Origin, Stage
<1>15. CASE UNCHANGED vars
  BY <1>15 DEF vars, store, process, HubInv, Active, IsChat, Chat, Origin, Stage
<1>16. QED
  BY <1>1, <1>2, <1>3, <1>4, <1>5, <1>5a, <1>6, <1>7, <1>8, <1>9, <1>10, <1>11, <1>12,
     <1>13, <1>14, <1>15
  DEF Next, HubStep, SendStep

-----------------------------------------------------------------------------
(* The order of a chat in the history *)

Done == {"returned", "replying", "over", "lost"}

\* What a queue holds after the step it held before, or it came after every job.
QueuesFollow ==
    \A c \in Chats : \A j \in 1 .. Len(hub'[c]) :
        \/ \E k \in 1 .. Len(hub[c]) : hub'[c][j] = hub[c][k]
        \/ \A u \in Ids : Stage(u) # "none" => u < hub'[c][j]

LEMMA LeaveFollows ==
    ASSUME Typed, NEW t \in Ids, LeaveHub(t)
    PROVE  QueuesFollow
<1>1. ASSUME NEW c \in Chats, NEW j \in 1 .. Len(hub'[c])
      PROVE  \E k \in 1 .. Len(hub[c]) : hub'[c][j] = hub[c][k]
  <2>1. hub[c] \in Seq(Ids)
    BY DEF Typed
  <2>2. CASE hub'[c] = hub[c]
    BY <2>2
  <2>3. CASE hub'[c] = Tail(hub[c]) /\ hub[c] # <<>>
    <3>1. j + 1 \in 1 .. Len(hub[c]) /\ hub'[c][j] = hub[c][j + 1]
      BY <2>1, <2>3, QueueTail
    <3>2. QED
      BY <3>1
  <2>4. QED
    BY <2>2, <2>3 DEF LeaveHub, Without, Typed
<1>2. QED
  BY <1>1 DEF QueuesFollow

LEMMA HistTyped ==
    ASSUME Typed, NEW s \in Sessions, NEW i \in 1 .. Len(hist[s])
    PROVE  hist[s][i] \in Ids
<1>1. hist[s] \in Seq(Ids)
  BY DEF Typed
<1>2. QED
  BY <1>1

LEMMA HubTyped ==
    ASSUME Typed, NEW c \in Chats, NEW j \in 1 .. Len(hub[c])
    PROVE  hub[c][j] \in Ids
<1>1. hub[c] \in Seq(Ids)
  BY DEF Typed
<1>2. QED
  BY <1>1

\* What is done with before the step is done with, and of the same origin, after it.
StaysDone ==
    \A u \in Ids : Stage(u) \in Done =>
        job'[u].stage \in Done /\ job'[u].origin = job[u].origin

\* What is in a history and of a chat is before what that chat still queues.
LEMMA BeforeKept ==
    ASSUME Typed, Typed', HistInv, StaysDone, QueuesFollow, NEW s \in Sessions,
           NEW i \in 1 .. Len(hist[s]), job'[hist[s][i]].origin.by = "chat",
           NEW c, c = ChatOf[job'[hist[s][i]].origin.msg], NEW j \in 1 .. Len(hub'[c])
    PROVE  hist[s][i] <= hub'[c][j]
<1> DEFINE u == hist[s][i]
<1>1. u \in Ids /\ Stage(u) \in Done
  BY HistTyped DEF HistInv, Done
<1>2. job'[u].origin = job[u].origin
  BY <1>1 DEF StaysDone
<1>3. IsChat(u) /\ Chat(u) = c
  BY <1>2 DEF IsChat, Chat, Origin
<1>4. c \in Chats
  BY <1>1, <1>3, ChatIsChat DEF Done
<1>5. hub'[c][j] \in Ids
  <2>1. hub'[c] \in Seq(Ids)
    BY <1>4 DEF Typed
  <2>2. QED
    BY <2>1
<1>6. CASE \E k \in 1 .. Len(hub[c]) : hub'[c][j] = hub[c][k]
  BY <1>3, <1>6 DEF HistInv
<1>7. CASE \A x \in Ids : Stage(x) # "none" => x < hub'[c][j]
  <2>1. u < hub'[c][j]
    BY <1>1, <1>7 DEF Done
  <2>2. QED
    BY <1>1, <1>5, <2>1 DEF Ids
<1>8. QED
  BY <1>4, <1>6, <1>7 DEF QueuesFollow

\* A step that appends nothing.
LEMMA HistKept ==
    ASSUME Typed, Typed', HistInv, StaysDone, QueuesFollow, UNCHANGED hist
    PROVE  HistInv'
<1>1. ASSUME NEW s \in Sessions, NEW i \in 1 .. Len(hist[s])
      PROVE  /\ hist[s][i] \in Ids /\ Stage(hist[s][i]) \in Done
             /\ job'[hist[s][i]].stage \in Done
             /\ job'[hist[s][i]].origin = job[hist[s][i]].origin
  BY HistTyped DEF HistInv, StaysDone, Done
<1>2. (\A s \in Sessions : \A i \in 1 .. Len(hist[s]) :
         Stage(hist[s][i]) \in {"returned", "replying", "over", "lost"})'
  BY <1>1 DEF Stage, Done
<1>3. (\A s \in Sessions : \A i \in 1 .. Len(hist[s]) : IsChat(hist[s][i]) =>
         \A j \in 1 .. Len(hub[Chat(hist[s][i])]) : hist[s][i] <= hub[Chat(hist[s][i])][j])'
  BY BeforeKept DEF IsChat, Chat, Origin
<1>4. ChatOrder'
  <2>1. SUFFICES ASSUME NEW s \in Sessions, NEW i \in 1 .. Len(hist[s]),
                        NEW j \in 1 .. Len(hist[s]), i < j,
                        job'[hist[s][i]].origin.by = "chat",
                        job'[hist[s][j]].origin.by = "chat",
                        ChatOf[job'[hist[s][i]].origin.msg] = ChatOf[job'[hist[s][j]].origin.msg]
                 PROVE  hist[s][i] < hist[s][j]
    BY DEF ChatOrder, IsChat, Chat, Origin
  <2>2. IsChat(hist[s][i]) /\ IsChat(hist[s][j]) /\ Chat(hist[s][i]) = Chat(hist[s][j])
    BY <1>1, <2>1 DEF IsChat, Chat, Origin
  <2>3. QED
    BY <2>1, <2>2 DEF HistInv, ChatOrder
<1>5. QED
  BY <1>2, <1>3, <1>4 DEF HistInv

\* A step that appends the turn of job t, the head of its chat's queue.
LEMMA HistGrown ==
    ASSUME Typed, Typed', HubInv, HistInv, QueuesFollow, NEW t \in Ids,
           \A u \in Ids : u # t => job'[u] = job[u],
           Stage(t) = "finished", job'[t].stage \in Done, job'[t].origin = job[t].origin,
           NEW s \in Sessions, hist' = [hist EXCEPT ![s] = Append(@, t)]
    PROVE  HistInv'
<1> DEFINE q == hist[s]
<1>1. /\ q \in Seq(Ids) /\ hist'[s] = Append(q, t)
      /\ \A x \in Sessions : x # s => hist'[x] = hist[x]
  BY DEF Typed
<1>2. /\ Len(hist'[s]) = Len(q) + 1 /\ hist'[s][Len(q) + 1] = t /\ Len(q) \in Nat
      /\ \A i \in 1 .. Len(q) : hist'[s][i] = q[i]
  BY <1>1, QueueAppend
<1>3. StaysDone
  BY DEF StaysDone, Done, Stage
<1>4. ASSUME NEW x \in Sessions, NEW i \in 1 .. Len(hist[x])
      PROVE  /\ hist[x][i] \in Ids /\ Stage(hist[x][i]) \in Done /\ hist[x][i] # t
             /\ job'[hist[x][i]] = job[hist[x][i]]
  BY HistTyped DEF HistInv, Done
<1>5. ASSUME IsChat(t)
      PROVE  /\ Chat(t) \in Chats
             /\ \A k \in 1 .. Len(hub[Chat(t)]) : t <= hub[Chat(t)][k]
             /\ 1 \in 1 .. Len(hub[Chat(t)]) /\ hub[Chat(t)][1] = t
  <2>1. Chat(t) \in Chats
    BY <1>5, ChatIsChat
  <2>2. Has(hub[Chat(t)], t) /\ Head(hub[Chat(t)]) = t /\ hub[Chat(t)] \in Seq(Ids)
    BY <1>5, <2>1 DEF HubInv, Active, Going, Typed
  <2>3. hub[Chat(t)] # <<>>
    BY <2>2, HasSome
  <2>4. 1 \in 1 .. Len(hub[Chat(t)]) /\ hub[Chat(t)][1] = t
    BY <2>2, <2>3, QueueTail
  <2>5. ASSUME NEW k \in 1 .. Len(hub[Chat(t)])
        PROVE  t <= hub[Chat(t)][k]
    <3>1. CASE k = 1
      BY <2>4, <3>1 DEF Ids
    <3>2. CASE k # 1
      <4>1. hub[Chat(t)][1] < hub[Chat(t)][k] /\ hub[Chat(t)][k] \in Ids
        BY <2>1, <2>4, <3>2, HubTyped DEF HubInv
      <4>2. QED
        BY <2>4, <4>1 DEF Ids
    <3>3. QED
      BY <3>1, <3>2
  <2>6. QED
    BY <2>1, <2>4, <2>5
<1> HIDE DEF q
<1>6. (\A x \in Sessions : \A i \in 1 .. Len(hist[x]) :
         Stage(hist[x][i]) \in {"returned", "replying", "over", "lost"})'
  <2>1. ASSUME NEW i \in 1 .. Len(hist'[s]) PROVE job'[hist'[s][i]].stage \in Done
    <3>1. CASE i = Len(q) + 1
      BY <1>2, <3>1
    <3>2. CASE i # Len(q) + 1
      <4>1. i \in 1 .. Len(q) /\ hist'[s][i] = q[i]
        BY <1>2, <3>2
      <4>2. QED
        BY <1>4, <4>1 DEF q, Stage
    <3>3. QED
      BY <3>1, <3>2
  <2>2. QED
    BY <1>1, <1>4, <2>1 DEF Stage, Done
<1>7. (\A x \in Sessions : \A i \in 1 .. Len(hist[x]) : IsChat(hist[x][i]) =>
         \A j \in 1 .. Len(hub[Chat(hist[x][i])]) : hist[x][i] <= hub[Chat(hist[x][i])][j])'
  <2>1. SUFFICES ASSUME NEW x \in Sessions, NEW i \in 1 .. Len(hist'[x]),
                        job'[hist'[x][i]].origin.by = "chat",
                        NEW c, c = ChatOf[job'[hist'[x][i]].origin.msg],
                        NEW j \in 1 .. Len(hub'[c])
                 PROVE  hist'[x][i] <= hub'[c][j]
    BY DEF IsChat, Chat, Origin
  <2>2. CASE x = s /\ i = Len(q) + 1
    <3>1. hist'[x][i] = t /\ IsChat(t) /\ Chat(t) = c
      BY <1>2, <2>1, <2>2 DEF IsChat, Chat, Origin
    <3>2. CASE \E k \in 1 .. Len(hub[c]) : hub'[c][j] = hub[c][k]
      BY <1>5, <3>1, <3>2
    <3>3. CASE \A u \in Ids : Stage(u) # "none" => u < hub'[c][j]
      <4>1. t < hub'[c][j]
        BY <3>3
      <4>2. c \in Chats
        BY <1>5, <3>1
      <4>3. hub'[c] \in Seq(Ids)
        BY <4>2 DEF Typed
      <4>4. hub'[c][j] \in Ids
        BY <4>3
      <4>5. QED
        BY <3>1, <4>1, <4>4 DEF Ids
    <3>4. QED
      BY <1>5, <3>1, <3>2, <3>3 DEF QueuesFollow
  <2>3. CASE ~(x = s /\ i = Len(q) + 1)
    <3>1. i \in 1 .. Len(hist[x]) /\ hist'[x][i] = hist[x][i]
      BY <1>1, <1>2, <2>3 DEF q
    <3>2. QED
      BY <1>3, <2>1, <3>1, BeforeKept
  <2>4. QED
    BY <2>2, <2>3
<1>8. ChatOrder'
  <2>1. ASSUME NEW i \in 1 .. Len(q), IsChat(q[i]), IsChat(t), Chat(q[i]) = Chat(t)
        PROVE  q[i] < t
    <3>1. q[i] \in Ids /\ q[i] # t
      BY <1>4 DEF q
    <3>2. q[i] <= t
      BY <1>5, <2>1 DEF HistInv, q
    <3>3. QED
      BY <3>1, <3>2 DEF Ids
  <2>2. \A i \in 1 .. Len(q) : q[i] \in Ids /\ job'[q[i]] = job[q[i]]
    BY <1>4 DEF q
  <2>3. SUFFICES ASSUME NEW x \in Sessions, NEW i \in 1 .. Len(hist'[x]),
                        NEW j \in 1 .. Len(hist'[x]), i < j,
                        job'[hist'[x][i]].origin.by = "chat",
                        job'[hist'[x][j]].origin.by = "chat",
                        ChatOf[job'[hist'[x][i]].origin.msg] = ChatOf[job'[hist'[x][j]].origin.msg]
                 PROVE  hist'[x][i] < hist'[x][j]
    BY DEF ChatOrder, IsChat, Chat, Origin
  <2>4. CASE x = s /\ j = Len(q) + 1
    <3>1. i \in 1 .. Len(q) /\ hist'[x][i] = q[i] /\ hist'[x][j] = t
      BY <1>2, <2>3, <2>4
    <3>2. IsChat(q[i]) /\ IsChat(t) /\ Chat(q[i]) = Chat(t)
      BY <2>2, <2>3, <3>1 DEF IsChat, Chat, Origin
    <3>3. QED
      BY <2>1, <3>1, <3>2
  <2>5. CASE ~(x = s /\ j = Len(q) + 1)
    <3>1. /\ i \in 1 .. Len(hist[x]) /\ hist'[x][i] = hist[x][i]
          /\ j \in 1 .. Len(hist[x]) /\ hist'[x][j] = hist[x][j]
      BY <1>1, <1>2, <2>3, <2>5 DEF q
    <3>2. /\ job'[hist[x][i]] = job[hist[x][i]] /\ job'[hist[x][j]] = job[hist[x][j]]
      BY <1>4, <3>1
    <3>3. IsChat(hist[x][i]) /\ IsChat(hist[x][j]) /\ Chat(hist[x][i]) = Chat(hist[x][j])
      BY <2>3, <3>1, <3>2 DEF IsChat, Chat, Origin
    <3>4. hist[x][i] < hist[x][j]
      BY <2>3, <3>1, <3>3 DEF HistInv, ChatOrder
    <3>5. QED
      BY <3>1, <3>4
  <2>6. QED
    BY <2>4, <2>5
<1>9. QED
  BY <1>6, <1>7, <1>8 DEF HistInv

LEMMA HubSame == ASSUME UNCHANGED hub PROVE QueuesFollow
BY DEF QueuesFollow

\* Every step keeps the order of the chats.
LEMMA HistStep ==
    ASSUME Typed, Typed', Staged, UsedInOrder, HubInv, HistInv, [Next]_vars
    PROVE  HistInv'
<1>1. ASSUME NEW m \in Messages, Inbound(m)
      PROVE  HistInv'
  <2>1. UNCHANGED hist
    BY <1>1 DEF Inbound, store
  <2>2. CASE m \in Allowed
    <3>1. PICK t \in Ids : /\ Takes(t, Sent(m), 0, "hub", heard + 1) /\ IsNext(t)
                           /\ hub' = [hub EXCEPT ![ChatOf[m]] = Append(@, t)]
      BY <1>1, <2>2, InboundTakes
    <3>2. StaysDone
      BY <3>1 DEF Takes, StaysDone, Done, Stage
    <3>3. ASSUME NEW c \in Chats, NEW j \in 1 .. Len(hub'[c])
          PROVE  \/ \E k \in 1 .. Len(hub[c]) : hub'[c][j] = hub[c][k]
                 \/ \A u \in Ids : Stage(u) # "none" => u < hub'[c][j]
      <4>1. hub[c] \in Seq(Ids)
        BY DEF Typed
      <4>2. CASE hub'[c] = hub[c]
        BY <4>2
      <4>3. CASE hub'[c] = Append(hub[c], t)
        <5>1. \A u \in Ids : Stage(u) # "none" => u < t
          BY <3>1, NextIsGreater
        <5>2. CASE j = Len(hub[c]) + 1
          BY <4>1, <4>3, <5>1, <5>2, QueueAppend
        <5>3. CASE j # Len(hub[c]) + 1
          <6>1. j \in 1 .. Len(hub[c]) /\ hub'[c][j] = hub[c][j]
            BY <4>1, <4>3, <5>3, QueueAppend
          <6>2. QED
            BY <6>1
        <5>4. QED
          BY <5>2, <5>3
      <4>4. QED
        BY <3>1, <4>2, <4>3 DEF Typed
    <3>4. QED
      BY <2>1, <3>2, <3>3, HistKept DEF QueuesFollow
  <2>3. CASE m \notin Allowed
    <3>1. UNCHANGED <<job, hub>>
      BY <1>1, <2>3 DEF Inbound
    <3>2. QED
      BY <2>1, <3>1, HubSame, HistKept DEF StaysDone, Stage
  <2>4. QED
    BY <2>2, <2>3
<1>2. ASSUME NEW t \in Ids, NEW r \in Requests, Post(t, r)
      PROVE  HistInv'
  <2>1. /\ Takes(t, Asked(r), head, "admitted", 0) /\ UNCHANGED <<hist, hub>>
    BY <1>2, PostTakes DEF store
  <2>2. QueuesFollow
    BY <2>1, HubSame
  <2>3. StaysDone
    BY <2>1 DEF Takes, StaysDone, Done, Stage
  <2>4. QED
    BY <2>1, <2>2, <2>3, HistKept
<1>3. ASSUME NEW t \in Ids, Decline(t)
      PROVE  HistInv'
  <2>1. /\ Moves(t, "replying") /\ Stage(t) = "hub" /\ UNCHANGED <<hist, hub>>
    BY <1>3, DeclineMoves DEF Decline, AtHub, store
  <2>2. QueuesFollow
    BY <2>1, HubSame
  <2>3. StaysDone
    BY <2>1 DEF Moves, StaysDone, Done, Stage
  <2>4. QED
    BY <2>1, <2>2, <2>3, HistKept
<1>4. ASSUME NEW t \in Ids, Admit(t)
      PROVE  HistInv'
  <2>1. /\ Moves(t, "chain") /\ Stage(t) = "hub" /\ UNCHANGED <<hist, hub>>
    BY <1>4, AdmitMoves DEF AtHub, store
  <2>2. QueuesFollow
    BY <2>1, HubSame
  <2>3. StaysDone
    BY <2>1 DEF Moves, StaysDone, Done, Stage
  <2>4. QED
    BY <2>1, <2>2, <2>3, HistKept
<1>5. ASSUME NEW t \in Ids, Reply(t)
      PROVE  HistInv'
  <2>0. PICK st \in {"over", "replying"} :
            /\ Moves(t, st)
            /\ st = "over" => LeaveHub(t) /\ UNCHANGED outbox
            /\ st = "replying" => UNCHANGED hub /\ outbox' = outbox \cup {t}
    BY <1>5, ReplyMoves
  <2>1. /\ Moves(t, st) /\ UNCHANGED hist
    BY <1>5, <2>0 DEF Reply
  <2>2. QueuesFollow
    BY <2>0, HubSame, LeaveFollows
  <2>3. StaysDone
    BY <2>1 DEF Moves, StaysDone, Done, Stage
  <2>4. QED
    BY <2>1, <2>2, <2>3, HistKept
<1>5a. ASSUME NEW t \in Ids, Drained(t)
      PROVE  HistInv'
  <2>1. /\ Moves(t, "over") /\ UNCHANGED hist /\ LeaveHub(t)
    BY <1>5a, DrainedMoves DEF Drained, store
  <2>2. QueuesFollow
    BY <2>1, LeaveFollows
  <2>3. StaysDone
    BY <2>1 DEF Moves, StaysDone, Done, Stage
  <2>4. QED
    BY <2>1, <2>2, <2>3, HistKept
<1>6. ASSUME NEW t \in Ids, Claim(t)
      PROVE  HistInv'
  <2>1. Stage(t) = "admitted" /\ UNCHANGED <<hist, hub>>
    BY <1>6, ClaimMoves
  <2>2. PICK st \in {"chain", "replayed", "conflict"} : Moves(t, st)
    BY <1>6, ClaimMoves
  <2>3. StaysDone
    BY <2>1, <2>2 DEF Moves, StaysDone, Done, Stage
  <2>4. QED
    BY <2>1, <2>3, HubSame, HistKept
<1>7. ASSUME NEW t \in Ids, Start(t)
      PROVE  HistInv'
  <2>1. /\ Moves(t, "running") /\ Stage(t) = "chain" /\ UNCHANGED <<hist, hub>>
    BY <1>7, StartMoves DEF AtChain
  <2>2. QueuesFollow
    BY <2>1, HubSame
  <2>3. StaysDone
    BY <2>1 DEF Moves, StaysDone, Done, Stage
  <2>4. QED
    BY <2>1, <2>2, <2>3, HistKept
<1>8. ASSUME NEW t \in Ids, AppendTurn(t)
      PROVE  HistInv'
  <2>1. /\ Moves(t, IF IsChat(t) THEN "returned" ELSE "over") /\ Stage(t) = "finished"
        /\ hist' = hist \/ hist' = [hist EXCEPT ![job[t].session] = Append(@, t)]
        /\ UNCHANGED hub
    BY <1>8, AppendMoves DEF AppendTurn, Appended
  <2>2. QueuesFollow
    BY <2>1, HubSame
  <2>3. job[t].session \in Sessions
    BY <2>1 DEF Staged, InChain
  <2>4. /\ job'[t].stage \in Done /\ job'[t].origin = job[t].origin
        /\ \A u \in Ids : u # t => job'[u] = job[u]
    BY <2>1 DEF Moves, Done
  <2>5. StaysDone
    BY <2>4 DEF StaysDone, Stage
  <2>6. CASE UNCHANGED hist
    BY <2>2, <2>5, <2>6, HistKept
  <2>7. QED
    BY <2>1, <2>2, <2>3, <2>4, <2>6, HistGrown
<1>9. ASSUME NEW t \in Ids, NEW status \in {"complete", "error"}, NEW appends \in BOOLEAN,
             Finish(t, status, appends)
      PROVE  HistInv'
  <2>1. /\ Moves(t, "finished") /\ Stage(t) = "running" /\ UNCHANGED <<hist, hub>>
    BY <1>9, FinishMoves
  <2>2. QueuesFollow
    BY <2>1, HubSame
  <2>3. StaysDone
    BY <2>1 DEF Moves, StaysDone, Done, Stage
  <2>4. QED
    BY <2>1, <2>2, <2>3, HistKept
<1>10. ASSUME NEW t \in Ids, ClaimThrows(t)
      PROVE  HistInv'
  <2>1. /\ Moves(t, "over") /\ UNCHANGED <<hist, hub>>
    BY <1>10, ClaimThrowsMoves DEF ClaimThrows, store
  <2>2. QueuesFollow
    BY <2>1, HubSame
  <2>3. StaysDone
    BY <2>1 DEF Moves, StaysDone, Done, Stage
  <2>4. QED
    BY <2>1, <2>2, <2>3, HistKept
<1>11. ASSUME NEW t \in Ids, Throw(t)
      PROVE  HistInv'
  <2>1. /\ Moves(t, "over") /\ LeaveHub(t)
        /\ \/ hist' = hist
           \/ /\ hist' = [hist EXCEPT ![job[t].session] = Append(@, t)]
              /\ Stage(t) = "finished"
    BY <1>11, ThrowMoves DEF Throw, Appended
  <2>2. QueuesFollow
    BY <2>1, LeaveFollows
  <2>3. Stage(t) = "finished" => job[t].session \in Sessions
    BY DEF Staged, InChain
  <2>4. /\ job'[t].stage \in Done /\ job'[t].origin = job[t].origin
        /\ \A u \in Ids : u # t => job'[u] = job[u]
    BY <2>1 DEF Moves, Done
  <2>5. StaysDone
    BY <2>4 DEF StaysDone, Stage
  <2>6. CASE UNCHANGED hist
    BY <2>2, <2>5, <2>6, HistKept
  <2>7. QED
    BY <2>1, <2>2, <2>3, <2>4, <2>6, HistGrown
<1>12. CASE Rotate
  <2>1. UNCHANGED <<hist, hub, job>>
    BY <1>12 DEF Rotate, process
  <2>2. QED
    BY <2>1, HubSame, HistKept DEF StaysDone, Stage
<1>13. CASE Crash
  <2>1. StaysDone
    BY <1>13, CrashLoses DEF StaysDone, Done, Active, Going, Stage
  <2>2. \A c \in Chats : hub'[c] = <<>>
    BY <1>13, CrashLoses
  <2>3. \A c \in Chats : Len(hub'[c]) = 0
    BY <2>2
  <2>4. QueuesFollow
    BY <2>3 DEF QueuesFollow
  <2>5. UNCHANGED hist
    BY <1>13, CrashLoses DEF store
  <2>6. QED
    BY <2>1, <2>4, <2>5, HistKept
<1>14. CASE Boot
  <2>1. UNCHANGED <<hist, hub, job>>
    BY <1>14 DEF Boot
  <2>2. QED
    BY <2>1, HubSame, HistKept DEF StaysDone, Stage
<1>15. CASE UNCHANGED vars
  <2>1. UNCHANGED <<hist, hub, job>>
    BY <1>15 DEF vars, store, process
  <2>2. QED
    BY <2>1, HubSame, HistKept DEF StaysDone, Stage
<1>16. QED
  BY <1>1, <1>2, <1>3, <1>4, <1>5, <1>5a, <1>6, <1>7, <1>8, <1>9, <1>10, <1>11, <1>12,
     <1>13, <1>14, <1>15
  DEF Next, HubStep, SendStep

-----------------------------------------------------------------------------
(* Rows, keys and what is remembered *)

\* What an append leaves in the histories.
LEMMA AppendedHas ==
    ASSUME Typed, NEW t \in Ids, job[t].session \in Sessions, NEW h,
           h = [hist EXCEPT ![job[t].session] = Append(@, t)]
    PROVE  /\ Has(h[job[t].session], t)
           /\ \A s \in Sessions : \A u : Has(hist[s], u) => Has(h[s], u)
<1>1. \A s \in Sessions : s # job[t].session => h[s] = hist[s]
  BY DEF Typed
<1>2. hist[job[t].session] \in Seq(Ids)
      /\ h[job[t].session] = Append(hist[job[t].session], t)
  BY DEF Typed
<1>3. QED
  BY <1>1, <1>2, HasAppend

\* Every step keeps what the rows and the outbox say.
LEMMA RowStep ==
    ASSUME Typed, Staged, UsedInOrder, RowInv, [Next]_vars
    PROVE  RowInv'
<1>1. ASSUME NEW m \in Messages, Inbound(m)
      PROVE  RowInv'
  <2>1. CASE m \in Allowed
    <3>1. PICK t \in Ids : /\ Takes(t, Sent(m), 0, "hub", heard + 1) /\ IsNext(t)
                           /\ hub' = [hub EXCEPT ![ChatOf[m]] = Append(@, t)]
      BY <1>1, <2>1, InboundTakes
    <3>2. UNCHANGED <<rows, outbox, hist, up, threw>>
      BY <1>1 DEF Inbound, store
    <3>3. QED
      BY <3>1, <3>2 DEF RowInv, RunningOwned, Takes, Stage, Sent
  <2>2. CASE m \notin Allowed
    <3>1. UNCHANGED <<job, hub>>
        /\ UNCHANGED <<rows, outbox, hist, up, threw>>
      BY <1>1, <2>2 DEF Inbound, store
    <3>2. QED
      BY <3>1 DEF RowInv, RunningOwned, Takes, Stage
  <2>3. QED
    BY <2>1, <2>2
<1>2. ASSUME NEW t \in Ids, NEW r \in Requests, Post(t, r)
      PROVE  RowInv'
  <2>1. /\ Takes(t, Asked(r), head, "admitted", 0)
        /\ UNCHANGED <<rows, outbox, hist, up, threw>>
    BY <1>2, PostTakes DEF store
  <2>2. QED
    BY <2>1 DEF RowInv, RunningOwned, Takes, Stage
<1>3. ASSUME NEW t \in Ids, Decline(t)
      PROVE  RowInv'
  <2>1. /\ Moves(t, "replying") /\ job'[t].session = job[t].session /\ Stage(t) = "hub"
        /\ UNCHANGED <<rows, outbox, hist, up, threw>>
    BY <1>3, DeclineMoves DEF Decline, AtHub, store
  <2>2. QED
    BY <2>1 DEF RowInv, RunningOwned, Moves, Stage, AtHub
<1>4. ASSUME NEW t \in Ids, Admit(t)
      PROVE  RowInv'
  <2>1. /\ Moves(t, "chain") /\ job'[t].session = head /\ AtHub(t)
        /\ UNCHANGED <<rows, outbox, hist, up, threw>>
    BY <1>4, AdmitMoves DEF store
  <2>2. QED
    BY <2>1 DEF RowInv, RunningOwned, Moves, Stage, AtHub
<1>5. ASSUME NEW t \in Ids, Reply(t)
      PROVE  RowInv'
  <2>0. PICK st \in {"over", "replying"} :
            /\ Moves(t, st)
            /\ st = "over" => LeaveHub(t) /\ UNCHANGED outbox
            /\ st = "replying" => UNCHANGED hub /\ outbox' = outbox \cup {t}
    BY <1>5, ReplyMoves
  <2>1. /\ Moves(t, st) /\ job'[t].session = job[t].session /\ Stage(t) = "returned"
        /\ IF st = "over" THEN outbox' = outbox ELSE outbox' = outbox \cup {t}
        /\ UNCHANGED <<rows, hist, up, threw>>
    BY <1>5, <2>0, ReplyMoves DEF Reply
  <2>2. QED
    BY <2>1 DEF RowInv, RunningOwned, Moves, Stage
<1>5a. ASSUME NEW t \in Ids, Drained(t)
      PROVE  RowInv'
  <2>1. /\ Moves(t, "over") /\ job'[t].session = job[t].session /\ Stage(t) = "replying"
        /\ UNCHANGED <<rows, outbox, hist, up, threw>>
    BY <1>5a, DrainedMoves DEF Drained, store
  <2>2. QED
    BY <2>1 DEF RowInv, RunningOwned, Moves, Stage
<1>6. ASSUME NEW t \in Ids, Claim(t)
      PROVE  RowInv'
  <2>1. Stage(t) = "admitted" /\ ~IsChat(t) /\ job'[t].session = job[t].session
        /\ UNCHANGED <<rows, outbox, hist, up, threw>>
    BY <1>6, ClaimMoves
  <2>2. CASE Wins(t)
    <3>1. /\ Moves(t, "chain") /\ slots' = slots
          /\ chain' = [chain EXCEPT ![job[t].session] = Append(@, t)]
      BY <1>6, <2>2, ClaimMoves
    <3>2. QED
      BY <2>1, <3>1 DEF RowInv, RunningOwned, Moves, Stage
  <2>3. CASE ~Wins(t)
    <3>1. PICK st \in {"replayed", "conflict"} : Moves(t, st)
      BY <1>6, <2>3, ClaimMoves
    <3>2. slots' = slots - 1 /\ UNCHANGED <<chain, keys>>
      BY <1>6, <2>3, ClaimMoves
    <3>3. QED
      BY <2>1, <3>1, <3>2 DEF RowInv, RunningOwned, Moves, Stage
  <2>4. QED
    BY <2>2, <2>3
<1>7. ASSUME NEW t \in Ids, Start(t)
      PROVE  RowInv'
  <2>1. /\ Moves(t, "running") /\ job'[t].session = job[t].session /\ AtChain(t)
        /\ rows' = [rows EXCEPT ![t] = "running"] /\ rows \in [Ids -> Statuses]
        /\ UNCHANGED <<outbox, hist, up, threw>>
    BY <1>7, StartMoves DEF Typed
  <2>2. QED
    BY <2>1 DEF RowInv, RunningOwned, Moves, Stage, AtChain
<1>8. ASSUME NEW t \in Ids, AppendTurn(t)
      PROVE  RowInv'
  <2>1. /\ Moves(t, IF IsChat(t) THEN "returned" ELSE "over")
        /\ job'[t].session = job[t].session /\ Stage(t) = "finished"
        /\ UNCHANGED <<rows, outbox, up, threw>>
    BY <1>8, AppendMoves DEF AppendTurn
  <2>2. job[t].session \in Sessions
    BY <2>1 DEF Staged, InChain
  <2>3. hist' = IF job[t].appends THEN [hist EXCEPT ![job[t].session] = Append(@, t)] ELSE hist
    BY <1>8 DEF AppendTurn, Appended
  <2>4. /\ \A s \in Sessions : \A u : Has(hist[s], u) => Has(hist'[s], u)
        /\ job[t].appends => Has(hist'[job[t].session], t)
    BY <2>2, <2>3, AppendedHas
  <2>5. QED
    BY <2>1, <2>2, <2>4 DEF RowInv, RunningOwned, Moves, Stage
<1>9. ASSUME NEW t \in Ids, NEW status \in {"complete", "error"}, NEW appends \in BOOLEAN,
             Finish(t, status, appends)
      PROVE  RowInv'
  <2>1. /\ Moves(t, "finished") /\ job'[t].session = job[t].session /\ Stage(t) = "running"
        /\ rows' = [rows EXCEPT ![t] = status] /\ rows \in [Ids -> Statuses]
        /\ (status = "complete" => appends) /\ job'[t].appends = appends
        /\ UNCHANGED <<outbox, hist, up, threw>>
    BY <1>9, FinishMoves DEF Typed
  <2>2. QED
    BY <2>1 DEF RowInv, RunningOwned, Moves, Stage
<1>10. ASSUME NEW t \in Ids, ClaimThrows(t)
      PROVE  RowInv'
  <2>1. /\ Moves(t, "over") /\ job'[t].session = job[t].session /\ Stage(t) = "admitted"
        /\ threw' = threw \cup {t} /\ UNCHANGED <<rows, outbox, hist, up>>
    BY <1>10, ClaimThrowsMoves DEF ClaimThrows, store
  <2>2. QED
    BY <2>1 DEF RowInv, RunningOwned, Moves, Stage
<1>11. ASSUME NEW t \in Ids, Throw(t)
      PROVE  RowInv'
  <2>1. /\ Moves(t, "over") /\ job'[t].session = job[t].session
        /\ Stage(t) \in InChain /\ threw' = threw \cup {t}
        /\ UNCHANGED <<rows, outbox, up>>
    BY <1>11, ThrowMoves DEF Throw, AtChain, InChain
  <2>2. job[t].session \in Sessions
    BY <2>1 DEF Staged
  <2>3. hist' = hist \/ hist' = [hist EXCEPT ![job[t].session] = Append(@, t)]
    BY <1>11 DEF Throw, Appended
  <2>4. \A s \in Sessions : \A u : Has(hist[s], u) => Has(hist'[s], u)
    BY <2>2, <2>3, AppendedHas
  <2>5. QED
    BY <2>1, <2>2, <2>4 DEF RowInv, RunningOwned, Moves, Stage, InChain
<1>12. CASE Rotate
  <2>1. /\ UNCHANGED job
        /\ UNCHANGED <<rows, outbox, hist, up, threw>>
    BY <1>12 DEF Rotate, process, store
  <2>2. QED
    BY <2>1 DEF RowInv, RunningOwned, Stage
<1>13. CASE Crash
  <2>1. /\ \A t \in Ids : ~Active(t) => job'[t] = job[t]
        /\ \A t \in Ids : Active(t) =>
              job'[t].stage = "lost" /\ job'[t].session = job[t].session
    BY <1>13, CrashLoses
  <2>2. up' = FALSE /\ UNCHANGED <<rows, outbox, hist>>
    BY <1>13, CrashLoses DEF store
  <2>3. QED
    BY <2>1, <2>2 DEF RowInv, RunningOwned, Active, Going, Stage
<1>14. CASE Boot
  <2>1. /\ UNCHANGED job
        /\ /\ rows' = [x \in Ids |-> IF rows[x] = "running" THEN "abandoned" ELSE rows[x]]
        /\ ~up /\ UNCHANGED <<outbox, hist, threw>>
    BY <1>14 DEF Boot
  <2>2. QED
    BY <2>1 DEF RowInv, RunningOwned, Stage, UsedInOrder, Active, Going
<1>15. CASE UNCHANGED vars
  BY <1>15 DEF vars, store, process, RowInv, RunningOwned, Stage
<1>16. QED
  BY <1>1, <1>2, <1>3, <1>4, <1>5, <1>5a, <1>6, <1>7, <1>8, <1>9, <1>10, <1>11, <1>12,
     <1>13, <1>14, <1>15
  DEF Next, HubStep, SendStep

\* Every step keeps what the keys name.
LEMMA KeyStep ==
    ASSUME Typed, Staged, RowInv, KeyInv, [Next]_vars
    PROVE  KeyInv'
<1>1. ASSUME NEW m \in Messages, Inbound(m)
      PROVE  KeyInv'
  <2>1. CASE m \in Allowed
    <3>1. PICK t \in Ids : /\ Takes(t, Sent(m), 0, "hub", heard + 1) /\ IsNext(t)
                           /\ hub' = [hub EXCEPT ![ChatOf[m]] = Append(@, t)]
      BY <1>1, <2>1, InboundTakes
    <3>2. UNCHANGED <<rows, keys>>
      BY <1>1 DEF Inbound, store
    <3>3. QED
      BY <3>1, <3>2 DEF KeyInv, InChain, Takes, IsChat, Origin, Stage, RowInv, Sent
  <2>2. CASE m \notin Allowed
    <3>1. UNCHANGED <<job, hub>>
        /\ UNCHANGED <<rows, keys>>
      BY <1>1, <2>2 DEF Inbound, store
    <3>2. QED
      BY <3>1 DEF KeyInv, InChain, Takes, IsChat, Origin, Stage, RowInv
  <2>3. QED
    BY <2>1, <2>2
<1>2. ASSUME NEW t \in Ids, NEW r \in Requests, Post(t, r)
      PROVE  KeyInv'
  <2>1. /\ Takes(t, Asked(r), head, "admitted", 0)
        /\ UNCHANGED <<rows, keys>>
    BY <1>2, PostTakes DEF store
  <2>2. QED
    BY <2>1 DEF KeyInv, InChain, Takes, IsChat, Origin, Stage, RowInv
<1>3. ASSUME NEW t \in Ids, Decline(t)
      PROVE  KeyInv'
  <2>1. /\ Moves(t, "replying") /\ job'[t].session = job[t].session /\ Stage(t) = "hub"
        /\ UNCHANGED <<rows, keys>>
    BY <1>3, DeclineMoves DEF Decline, AtHub, store
  <2>2. QED
    BY <2>1 DEF KeyInv, InChain, Moves, IsChat, Origin, Stage, AtHub
<1>4. ASSUME NEW t \in Ids, Admit(t)
      PROVE  KeyInv'
  <2>1. /\ Moves(t, "chain") /\ job'[t].session = head /\ AtHub(t)
        /\ UNCHANGED <<rows, keys>>
    BY <1>4, AdmitMoves DEF store
  <2>2. QED
    BY <2>1 DEF KeyInv, InChain, Moves, IsChat, Origin, Stage, AtHub, Staged
<1>5. ASSUME NEW t \in Ids, Reply(t)
      PROVE  KeyInv'
  <2>0. PICK st \in {"over", "replying"} : Moves(t, st)
    BY <1>5, ReplyMoves
  <2>1. /\ Moves(t, st) /\ job'[t].session = job[t].session /\ Stage(t) = "returned"
        /\ UNCHANGED <<rows, keys>>
    BY <1>5, <2>0, ReplyMoves DEF Reply
  <2>2. QED
    BY <2>1 DEF KeyInv, InChain, Moves, IsChat, Origin, Stage
<1>5a. ASSUME NEW t \in Ids, Drained(t)
      PROVE  KeyInv'
  <2>1. /\ Moves(t, "over") /\ job'[t].session = job[t].session /\ Stage(t) = "replying"
        /\ UNCHANGED <<rows, keys>>
    BY <1>5a, DrainedMoves DEF Drained, store
  <2>2. QED
    BY <2>1 DEF KeyInv, InChain, Moves, IsChat, Origin, Stage
<1>6. ASSUME NEW t \in Ids, Claim(t)
      PROVE  KeyInv'
  <2>1. /\ Stage(t) = "admitted" /\ ~IsChat(t) /\ UNCHANGED rows
        /\ job'[t].session = job[t].session
    BY <1>6, ClaimMoves
  <2>2. CASE Wins(t)
    <3>1. /\ Moves(t, "chain")
          /\ keys' = IF Origin(t).key = NoKey THEN keys
                     ELSE [keys EXCEPT ![Origin(t).key] = Claimant(t)]
      BY <1>6, <2>2, ClaimMoves
    <3>2. CASE Origin(t).key = NoKey
      BY <2>1, <3>1, <3>2 DEF KeyInv, InChain, Moves, IsChat, Origin, Stage
    <3>3. CASE Origin(t).key # NoKey
      <4>1. Origin(t).key \in Keys
        <5>1. job[t] \in Jobs
          BY <2>1, UsedJob
        <5>2. PICK r \in Requests : Origin(t) = Asked(r)
          BY <2>1, <5>1 DEF Jobs, Origins, Origin, IsChat, Sent
        <5>3. QED
          BY <3>3, <5>2, InboundConstants DEF Asked
      <4>2. keys'[Origin(t).key].turn = t
            /\ \A k \in Keys : k # Origin(t).key => keys'[k] = keys[k]
        BY <3>1, <3>3, <4>1 DEF Typed, Claimant
      <4>3. keys[Origin(t).key].turn \notin Ids
        BY <2>2, <3>3 DEF Wins, None, Ids
      <4>4. ASSUME NEW u \in Ids, u # t, job'[u].stage \in InChain \/ rows'[u] # "none",
                   job'[u].origin.by # "chat", job'[u].origin.key # NoKey
            PROVE  keys'[job'[u].origin.key].turn = u
        <5>1. job'[u] = job[u]
          BY <3>1, <4>4 DEF Moves
        <5>2. keys[Origin(u).key].turn = u
          BY <2>1, <4>4, <5>1 DEF KeyInv, Stage, IsChat, Origin
        <5>3. Origin(u).key # Origin(t).key
          BY <4>3, <5>2
        <5>4. keys'[Origin(u).key] = keys[Origin(u).key]
          BY <3>1, <5>3 DEF Typed
        <5>5. QED
          BY <5>1, <5>2, <5>4 DEF Origin
      <4>5. job'[t].origin = job[t].origin
        BY <3>1 DEF Moves
      <4>6. QED
        BY <4>2, <4>4, <4>5 DEF KeyInv, Stage, IsChat, Origin
    <3>4. QED
      BY <3>2, <3>3
  <2>3. CASE ~Wins(t)
    <3>1. PICK st \in {"replayed", "conflict"} : Moves(t, st)
      BY <1>6, <2>3, ClaimMoves
    <3>2. UNCHANGED keys
      BY <1>6, <2>3, ClaimMoves
    <3>3. QED
      BY <2>1, <3>1, <3>2 DEF KeyInv, InChain, Moves, IsChat, Origin, Stage
  <2>4. QED
    BY <2>2, <2>3
<1>7. ASSUME NEW t \in Ids, Start(t)
      PROVE  KeyInv'
  <2>1. /\ Moves(t, "running") /\ job'[t].session = job[t].session /\ AtChain(t)
        /\ rows' = [rows EXCEPT ![t] = "running"] /\ rows \in [Ids -> Statuses]
        /\ UNCHANGED keys
    BY <1>7, StartMoves DEF Typed
  <2>2. QED
    BY <2>1 DEF KeyInv, InChain, Moves, IsChat, Origin, Stage, AtChain
<1>8. ASSUME NEW t \in Ids, AppendTurn(t)
      PROVE  KeyInv'
  <2>1. /\ Moves(t, IF IsChat(t) THEN "returned" ELSE "over")
        /\ job'[t].session = job[t].session /\ Stage(t) = "finished"
        /\ UNCHANGED <<rows, keys>>
    BY <1>8, AppendMoves DEF AppendTurn, store
  <2>2. QED
    BY <2>1 DEF KeyInv, InChain, Moves, IsChat, Origin, Stage
<1>9. ASSUME NEW t \in Ids, NEW status \in {"complete", "error"}, NEW appends \in BOOLEAN,
             Finish(t, status, appends)
      PROVE  KeyInv'
  <2>1. /\ Moves(t, "finished") /\ job'[t].session = job[t].session /\ Stage(t) = "running"
        /\ rows' = [rows EXCEPT ![t] = status] /\ rows \in [Ids -> Statuses]
        /\ UNCHANGED keys
    BY <1>9, FinishMoves DEF Typed
  <2>2. QED
    BY <2>1 DEF KeyInv, InChain, Moves, IsChat, Origin, Stage
<1>10. ASSUME NEW t \in Ids, ClaimThrows(t)
      PROVE  KeyInv'
  <2>1. /\ Moves(t, "over") /\ job'[t].session = job[t].session /\ Stage(t) = "admitted"
        /\ UNCHANGED <<rows, keys>>
    BY <1>10, ClaimThrowsMoves DEF ClaimThrows, store
  <2>2. QED
    BY <2>1 DEF KeyInv, InChain, Moves, IsChat, Origin, Stage
<1>11. ASSUME NEW t \in Ids, Throw(t)
      PROVE  KeyInv'
  <2>1. /\ Moves(t, "over") /\ job'[t].session = job[t].session
        /\ Stage(t) \in {"chain", "running", "finished"}
        /\ UNCHANGED <<rows, keys>>
    BY <1>11, ThrowMoves DEF Throw, AtChain, store
  <2>2. QED
    BY <2>1 DEF KeyInv, InChain, Moves, IsChat, Origin, Stage, AtChain
<1>12. CASE Rotate
  <2>1. /\ UNCHANGED job
        /\ UNCHANGED <<rows, keys>>
    BY <1>12 DEF Rotate, process, store
  <2>2. QED
    BY <2>1 DEF KeyInv, InChain, IsChat, Origin, Stage
<1>13. CASE Crash
  <2>1. /\ \A t \in Ids : ~Active(t) => job'[t] = job[t]
        /\ \A t \in Ids : Active(t) =>
              job'[t].stage = "lost" /\ job'[t].origin = job[t].origin
    BY <1>13, CrashLoses
  <2>2. UNCHANGED <<rows, keys>>
    BY <1>13, CrashLoses DEF store
  <2>3. QED
    BY <2>1, <2>2 DEF KeyInv, InChain, IsChat, Origin, Active, Going, Stage
<1>14. CASE Boot
  <2>1. /\ UNCHANGED job
        /\ /\ rows' = [x \in Ids |-> IF rows[x] = "running" THEN "abandoned" ELSE rows[x]]
        /\ UNCHANGED keys
    BY <1>14 DEF Boot
  <2>2. QED
    BY <2>1 DEF KeyInv, InChain, IsChat, Origin, Stage
<1>15. CASE UNCHANGED vars
  BY <1>15 DEF vars, store, process, KeyInv, IsChat, Origin, Stage
<1>16. QED
  BY <1>1, <1>2, <1>3, <1>4, <1>5, <1>5a, <1>6, <1>7, <1>8, <1>9, <1>10, <1>11, <1>12,
     <1>13, <1>14, <1>15
  DEF Next, HubStep, SendStep

\* The place in seen of the n-th message this process heard.
Place(n) == Len(seen) - (heard - n)

\* Remembering one more message shifts the others by one place.
LEMMA SeenShift ==
    ASSUME Typed, SeenInv, NEW m \in Messages, seen' = Remembered(m), heard' = heard + 1
    PROVE  /\ Len(seen') = IF heard' < Window THEN heard' ELSE Window
           /\ seen'[Len(seen')] = m
           /\ \A n \in 1 .. heard : heard' - n < Window =>
                 heard - n < Window /\ seen'[Len(seen') - (heard' - n)] = seen[Place(n)]
<1>1. /\ seen \in Seq(Messages) /\ heard \in Nat /\ Window \in Nat \ {0}
      /\ Len(seen) = IF heard < Window THEN heard ELSE Window
  BY InboundConstants DEF Typed, SeenInv
<1>2. CASE heard < Window
  <2>1. seen' = Append(seen, m) /\ Len(seen) = heard
    BY <1>1, <1>2 DEF Remembered
  <2>2. Len(seen') = heard + 1 /\ seen'[heard + 1] = m /\ \A i \in 1 .. heard : seen'[i] = seen[i]
    BY <1>1, <2>1
  <2>3. QED
    BY <1>1, <1>2, <2>1, <2>2 DEF Place
<1>3. CASE heard >= Window
  <2>1. seen' = Append(Tail(seen), m) /\ Len(seen) = Window /\ seen # <<>>
    BY <1>1, <1>3 DEF Remembered
  <2>2. /\ Len(seen') = Window /\ seen'[Window] = m
        /\ \A i \in 1 .. (Window - 1) : seen'[i] = seen[i + 1]
    BY <1>1, <2>1
  <2>3. ASSUME NEW n \in 1 .. heard, heard' - n < Window
        PROVE  heard - n < Window /\ seen'[Len(seen') - (heard' - n)] = seen[Place(n)]
    <3> DEFINE i == Window - (heard + 1 - n)
    <3>1. i \in 1 .. (Window - 1) /\ heard - n < Window
      BY <1>1, <2>3
    <3>2. seen'[i] = seen[i + 1]
      BY <2>2, <3>1
    <3>3. Len(seen') - (heard' - n) = i /\ Place(n) = i + 1
      BY <1>1, <2>1, <2>2 DEF Place
    <3>4. QED
      BY <3>1, <3>2, <3>3
  <2>4. QED
    BY <1>1, <1>3, <2>2, <2>3
<1>4. QED
  BY <1>1, <1>2, <1>3

\* A message that is not seen was heard by this process a window ago or not at all.
LEMMA NotSeen ==
    ASSUME Typed, SeenInv, NEW m, ~Has(seen, m), NEW u \in Ids, Stage(u) # "none", IsChat(u),
           Origin(u).msg = m, job[u].born = crashes
    PROVE  job[u].nth \in 1 .. heard /\ heard - job[u].nth >= Window
<1>1. /\ heard \in Nat /\ Window \in Nat \ {0} /\ Len(seen) = IF heard < Window THEN heard ELSE Window
      /\ job[u].nth \in 1 .. heard
      /\ heard - job[u].nth < Window => seen[Len(seen) - (heard - job[u].nth)] = m
  BY InboundConstants DEF Typed, SeenInv
<1>2. heard - job[u].nth < Window => Len(seen) - (heard - job[u].nth) \in 1 .. Len(seen)
  BY <1>1
<1>3. ~(heard - job[u].nth < Window)
  BY <1>1, <1>2 DEF Has
<1>4. QED
  BY <1>1, <1>3

\* A step that hears nothing and takes on no message of a chat.
LEMMA SeenKept ==
    ASSUME SeenInv, UNCHANGED <<seen, heard, crashes>>,
           \A u \in Ids : job'[u].stage # "none" /\ job'[u].origin.by = "chat" =>
              /\ Stage(u) # "none" /\ job'[u].origin = job[u].origin
              /\ job'[u].born = job[u].born /\ job'[u].nth = job[u].nth
    PROVE  SeenInv'
<1>1. (\A t \in Ids : Stage(t) # "none" /\ IsChat(t) /\ job[t].born = crashes =>
          /\ job[t].nth \in 1 .. heard
          /\ heard - job[t].nth < Window =>
                seen[Len(seen) - (heard - job[t].nth)] = Origin(t).msg)'
  BY DEF SeenInv, Stage, IsChat, Origin
<1>2. DuplicateExcused'
  BY DEF SeenInv, DuplicateExcused, Stage, Origin
<1>3. QED
  BY <1>1, <1>2 DEF SeenInv

LEMMA MovesKept ==
    ASSUME SeenInv, UNCHANGED <<seen, heard, crashes>>, NEW t \in Ids, NEW st, Moves(t, st)
    PROVE  SeenInv'
<1>1. Stage(t) # "none"
  BY DEF Moves, Jobs, Stage
<1>2. QED
  BY <1>1, SeenKept DEF Moves, Stage

\* A step that hears a message.
LEMMA SeenHeard ==
    ASSUME Typed, Staged, UsedInOrder, SeenInv, NEW m \in Messages, Inbound(m)
    PROVE  SeenInv'
<1>1. seen' = Remembered(m) /\ heard' = heard + 1 /\ ~Has(seen, m) /\ UNCHANGED crashes
  BY DEF Inbound
<1>2. /\ Len(seen') = IF heard' < Window THEN heard' ELSE Window
      /\ seen'[Len(seen')] = m
      /\ \A n \in 1 .. heard : heard' - n < Window =>
            heard - n < Window /\ seen'[Len(seen') - (heard' - n)] = seen[Place(n)]
  BY <1>1, SeenShift
<1>3. heard \in Nat /\ heard' \in Nat /\ Window \in Nat \ {0}
  BY <1>1, InboundConstants DEF Typed
<1>4. ASSUME NEW u \in Ids, Stage(u) # "none", IsChat(u), job[u].born = crashes
      PROVE  /\ job[u].nth \in 1 .. heard'
             /\ heard' - job[u].nth < Window =>
                   seen'[Len(seen') - (heard' - job[u].nth)] = Origin(u).msg
  <2>1. /\ job[u].nth \in 1 .. heard
        /\ heard - job[u].nth < Window => seen[Place(job[u].nth)] = Origin(u).msg
    BY <1>4 DEF SeenInv, Place
  <2>2. QED
    BY <1>1, <1>2, <1>3, <2>1
<1>5. CASE UNCHANGED job
  <2>1. (\A t \in Ids : Stage(t) # "none" /\ IsChat(t) /\ job[t].born = crashes =>
            /\ job[t].nth \in 1 .. heard
            /\ heard - job[t].nth < Window =>
                  seen[Len(seen) - (heard - job[t].nth)] = Origin(t).msg)'
    BY <1>1, <1>4, <1>5 DEF Stage, IsChat, Origin
  <2>2. DuplicateExcused'
    BY <1>5 DEF SeenInv, DuplicateExcused, Stage, Origin
  <2>3. QED
    BY <1>2, <2>1, <2>2 DEF SeenInv
<1>6. ASSUME NEW t \in Ids, Takes(t, Sent(m), 0, "hub", heard + 1), IsNext(t)
      PROVE  SeenInv'
  <2>1. /\ job'[t].stage = "hub" /\ job'[t].origin = Sent(m) /\ job'[t].born = crashes
        /\ job'[t].nth = heard'
        /\ \A u \in Ids : u # t => job'[u] = job[u]
    BY <1>1, <1>6 DEF Takes
  <2>2. (\A u \in Ids : Stage(u) # "none" /\ IsChat(u) /\ job[u].born = crashes =>
            /\ job[u].nth \in 1 .. heard
            /\ heard - job[u].nth < Window =>
                  seen[Len(seen) - (heard - job[u].nth)] = Origin(u).msg)'
    <3>1. ASSUME NEW u \in Ids, job'[u].stage # "none", job'[u].origin.by = "chat",
                 job'[u].born = crashes
          PROVE  /\ job'[u].nth \in 1 .. heard'
                 /\ heard' - job'[u].nth < Window =>
                       seen'[Len(seen') - (heard' - job'[u].nth)] = job'[u].origin.msg
      <4>1. CASE u = t
        <5>1. job'[u].nth = heard' /\ job'[u].origin.msg = m
          BY <2>1, <4>1 DEF Sent
        <5>2. heard' \in 1 .. heard' /\ heard' - heard' = 0 /\ Len(seen') \in Nat
          BY <1>1, <1>2, <1>3
        <5>3. Len(seen') - (heard' - heard') = Len(seen')
          BY <5>2
        <5>4. QED
          BY <1>2, <5>1, <5>2, <5>3
      <4>2. CASE u # t
        <5>1. job'[u] = job[u]
          BY <2>1, <4>2
        <5>2. QED
          BY <1>4, <3>1, <5>1 DEF Stage, IsChat, Origin
      <4>3. QED
        BY <4>1, <4>2
    <3>2. QED
      BY <1>1, <3>1 DEF Stage, IsChat, Origin
  <2>3. ASSUME NEW u \in Ids, Stage(u) # "none", Origin(u) = Sent(m), job[u].born = crashes
        PROVE  u < t /\ heard' - job[u].nth > Window
    <3>1. u < t
      BY <1>6, <2>3, NextIsGreater
    <3>2. IsChat(u) /\ Origin(u).msg = m
      BY <2>3 DEF IsChat, Sent
    <3>3. job[u].nth \in 1 .. heard /\ heard - job[u].nth >= Window
      BY <1>1, <2>3, <3>2, NotSeen
    <3>4. QED
      BY <1>1, <1>3, <3>1, <3>3
  <2>4. DuplicateExcused'
    <3>1. SUFFICES ASSUME NEW u \in Ids, NEW w \in Ids, u < w, job'[u].stage # "none",
                          job'[w].stage # "none", job'[u].origin.by = "chat",
                          job'[u].origin = job'[w].origin, job'[u].born = job'[w].born
                   PROVE  job'[w].nth - job'[u].nth > Window
      BY DEF DuplicateExcused, Stage, Origin
    <3>2. CASE w = t
      <4>1. u # t /\ job'[u] = job[u]
        BY <2>1, <3>1, <3>2 DEF Ids
      <4>2. QED
        BY <2>1, <2>3, <3>1, <3>2, <4>1 DEF Stage, Origin
    <3>3. CASE u = t
      <4>1. w # t /\ job'[w] = job[w]
        BY <2>1, <3>1, <3>3 DEF Ids
      <4>2. w < t
        BY <2>1, <2>3, <3>1, <3>3, <4>1 DEF Stage, Origin
      <4>3. QED
        BY <3>1, <3>3, <4>2 DEF Ids
    <3>4. CASE u # t /\ w # t
      <4>1. job'[u] = job[u] /\ job'[w] = job[w]
        BY <2>1, <3>4
      <4>2. QED
        BY <3>1, <4>1 DEF SeenInv, DuplicateExcused, Stage, Origin
    <3>5. QED
      BY <3>2, <3>3, <3>4
  <2>5. QED
    BY <1>2, <2>2, <2>4 DEF SeenInv
<1>7. QED
  <2>1. CASE m \in Allowed
    BY <1>6, <2>1, InboundTakes
  <2>2. CASE m \notin Allowed
    BY <1>5, <2>2 DEF Inbound
  <2>3. QED
    BY <2>1, <2>2

\* Every step keeps what the inbox remembers.
LEMMA SeenStep ==
    ASSUME Typed, Staged, UsedInOrder, SeenInv, [Next]_vars
    PROVE  SeenInv'
<1>1. ASSUME NEW m \in Messages, Inbound(m)
      PROVE  SeenInv'
  BY <1>1, SeenHeard
<1>2. ASSUME NEW t \in Ids, NEW r \in Requests, Post(t, r)
      PROVE  SeenInv'
  <2>1. Takes(t, Asked(r), head, "admitted", 0) /\ UNCHANGED <<seen, heard, crashes>>
    BY <1>2, PostTakes
  <2>2. job'[t].origin.by # "chat" /\ \A u \in Ids : u # t => job'[u] = job[u]
    BY <2>1 DEF Takes, Asked
  <2>3. QED
    BY <2>1, <2>2, SeenKept DEF Stage
<1>3. ASSUME NEW t \in Ids, Decline(t)
      PROVE  SeenInv'
  <2>1. /\ Moves(t, "replying") /\ UNCHANGED <<seen, heard, crashes>>
    BY <1>3, DeclineMoves DEF Decline
  <2>2. QED
    BY <2>1, MovesKept
<1>4. ASSUME NEW t \in Ids, Admit(t)
      PROVE  SeenInv'
  <2>1. /\ Moves(t, "chain") /\ UNCHANGED <<seen, heard, crashes>>
    BY <1>4, AdmitMoves
  <2>2. QED
    BY <2>1, MovesKept
<1>5. ASSUME NEW t \in Ids, Reply(t)
      PROVE  SeenInv'
  <2>0. PICK st \in {"over", "replying"} : Moves(t, st)
    BY <1>5, ReplyMoves
  <2>1. /\ Moves(t, st) /\ UNCHANGED <<seen, heard, crashes>>
    BY <1>5, <2>0, ReplyMoves DEF Reply
  <2>2. QED
    BY <2>1, MovesKept
<1>5a. ASSUME NEW t \in Ids, Drained(t)
      PROVE  SeenInv'
  <2>1. /\ Moves(t, "over") /\ UNCHANGED <<seen, heard, crashes>>
    BY <1>5a, DrainedMoves DEF Drained, store
  <2>2. QED
    BY <2>1, MovesKept
<1>6. ASSUME NEW t \in Ids, Claim(t)
      PROVE  SeenInv'
  <2>1. UNCHANGED <<seen, heard, crashes>>
    BY <1>6, ClaimMoves
  <2>2. PICK st \in {"chain", "replayed", "conflict"} : Moves(t, st)
    BY <1>6, ClaimMoves
  <2>3. QED
    BY <2>1, <2>2, MovesKept
<1>7. ASSUME NEW t \in Ids, Start(t)
      PROVE  SeenInv'
  <2>1. /\ Moves(t, "running") /\ UNCHANGED <<seen, heard, crashes>>
    BY <1>7, StartMoves
  <2>2. QED
    BY <2>1, MovesKept
<1>8. ASSUME NEW t \in Ids, AppendTurn(t)
      PROVE  SeenInv'
  <2>1. /\ Moves(t, IF IsChat(t) THEN "returned" ELSE "over")
        /\ UNCHANGED <<seen, heard, crashes>>
    BY <1>8, AppendMoves DEF AppendTurn
  <2>2. QED
    BY <2>1, MovesKept
<1>9. ASSUME NEW t \in Ids, NEW status \in {"complete", "error"}, NEW appends \in BOOLEAN,
             Finish(t, status, appends)
      PROVE  SeenInv'
  <2>1. /\ Moves(t, "finished") /\ UNCHANGED <<seen, heard, crashes>>
    BY <1>9, FinishMoves
  <2>2. QED
    BY <2>1, MovesKept
<1>10. ASSUME NEW t \in Ids, ClaimThrows(t)
      PROVE  SeenInv'
  <2>1. /\ Moves(t, "over") /\ UNCHANGED <<seen, heard, crashes>>
    BY <1>10, ClaimThrowsMoves DEF ClaimThrows
  <2>2. QED
    BY <2>1, MovesKept
<1>11. ASSUME NEW t \in Ids, Throw(t)
      PROVE  SeenInv'
  <2>1. /\ Moves(t, "over") /\ UNCHANGED <<seen, heard, crashes>>
    BY <1>11, ThrowMoves DEF Throw
  <2>2. QED
    BY <2>1, MovesKept
<1>12. CASE Rotate
  <2>1. UNCHANGED <<job, seen, heard, crashes>>
    BY <1>12 DEF Rotate, process
  <2>2. QED
    BY <2>1, SeenKept DEF Stage
<1>13. CASE Crash
  <2>1. seen' = <<>> /\ heard' = 0 /\ crashes' = crashes + 1
    BY <1>13, CrashLoses
  <2>2. crashes \in Nat /\ Window \in Nat \ {0}
    BY InboundConstants DEF Typed
  <2>3. ASSUME NEW u \in Ids, job'[u].stage # "none"
        PROVE  /\ Stage(u) # "none" /\ job'[u].origin = job[u].origin
               /\ job'[u].born = job[u].born /\ job'[u].nth = job[u].nth
               /\ job'[u].born # crashes'
    <3>1. /\ Stage(u) # "none" /\ job'[u].origin = job[u].origin
          /\ job'[u].born = job[u].born /\ job'[u].nth = job[u].nth
      BY <1>13, <2>3, CrashLoses DEF Active, Going, Stage
    <3>2. job[u].born \in Nat /\ job[u].born <= crashes
      BY <3>1, UsedJob DEF Jobs, Staged
    <3>3. QED
      BY <2>1, <2>2, <3>1, <3>2
  <2>4. Len(seen') = IF heard' < Window THEN heard' ELSE Window
    BY <2>1, <2>2
  <2>5. DuplicateExcused'
    BY <2>3 DEF SeenInv, DuplicateExcused, Stage, Origin
  <2>6. QED
    BY <2>3, <2>4, <2>5 DEF SeenInv, Stage
<1>14. CASE Boot
  <2>1. UNCHANGED <<job, seen, heard, crashes>>
    BY <1>14 DEF Boot
  <2>2. QED
    BY <2>1, SeenKept DEF Stage
<1>15. CASE UNCHANGED vars
  <2>1. UNCHANGED <<job, seen, heard, crashes>>
    BY <1>15 DEF vars, process
  <2>2. QED
    BY <2>1, SeenKept DEF Stage
<1>16. QED
  BY <1>1, <1>2, <1>3, <1>4, <1>5, <1>5a, <1>6, <1>7, <1>8, <1>9, <1>10, <1>11, <1>12,
     <1>13, <1>14, <1>15
  DEF Next, HubStep, SendStep

-----------------------------------------------------------------------------
(* The invariant and what it gives *)

Inv ==
    /\ Typed /\ Staged /\ Balance /\ UsedInOrder /\ ChainInv /\ HistoryCurrent
    /\ HubInv /\ HistInv /\ RowInv /\ KeyInv /\ SeenInv

LEMMA InvInit == Init => Inv
<1> SUFFICES ASSUME Init PROVE Inv
  OBVIOUS
<1>1. \A t \in Ids : job[t] = NoJob /\ Stage(t) = "none"
  BY DEF Init, NoJob, Stage
<1>2. /\ \A s \in Sessions : hist[s] = <<>> /\ chain[s] = <<>>
      /\ \A c \in Chats : hub[c] = <<>>
  BY DEF Init
<1>3. /\ \A s \in Sessions : Len(hist[s]) = 0 /\ Len(chain[s]) = 0
      /\ \A c \in Chats : Len(hub[c]) = 0
  BY <1>2
<1>4. Typed
  <2>1. rows \in [Ids -> Statuses] /\ hist \in [Sessions -> Seq(Ids)]
        /\ hub \in [Chats -> Seq(Ids)] /\ chain \in [Sessions -> Seq(Ids)]
        /\ job \in [Ids -> {NoJob} \cup Jobs]
    BY DEF Init, Statuses
  <2>2. /\ DOMAIN keys = Keys /\ keys = [k \in Keys |-> keys[k]]
        /\ \A k \in Keys : keys[k] = None
    BY DEF Init
  <2>3. /\ outbox \subseteq Ids /\ head \in Sessions /\ slots \in Int
        /\ heard \in 0 .. MaxHeard /\ crashes \in 0 .. MaxFaults
        /\ leaked \in Nat /\ threw \subseteq Ids
    BY InboundConstants DEF Init, Sessions
  <2>4. seen \in Seq(Messages)
    BY DEF Init
  <2>5. up \in BOOLEAN
    BY DEF Init
  <2>6. QED
    BY <2>1, <2>2, <2>3, <2>4, <2>5 DEF Typed
<1>5. Staged
  BY <1>1 DEF Staged, InChain
<1>6. Balance
  <2>1. Users = {}
    BY <1>1 DEF Users, InSend
  <2>2. QED
    BY <2>1, FS_EmptySet, InboundConstants DEF Balance, Init
<1>7. UsedInOrder
  BY <1>1 DEF UsedInOrder, Init
<1>8. ChainInv /\ HistoryCurrent
  BY <1>1, <1>3 DEF ChainInv, HistoryCurrent, InChain
<1>9. HubInv
  BY <1>1, <1>3 DEF HubInv, Active, Going
<1>10. HistInv
  BY <1>3 DEF HistInv, ChatOrder
<1>11. RowInv
  BY <1>1 DEF RowInv, RunningOwned, Init
<1>12. KeyInv
  BY <1>1 DEF KeyInv, InChain, Init
<1>13. SeenInv
  <2>1. Len(seen) = 0 /\ heard = 0
    BY DEF Init
  <2>2. QED
    BY <1>1, <2>1, InboundConstants DEF SeenInv, DuplicateExcused
<1>14. QED
  BY <1>4, <1>5, <1>6, <1>7, <1>8, <1>9, <1>10, <1>11, <1>12, <1>13 DEF Inv

LEMMA InvStep == Inv /\ [Next]_vars => Inv'
<1> SUFFICES ASSUME Inv, [Next]_vars PROVE Inv'
  OBVIOUS
<1>1. /\ Typed /\ Staged /\ Balance /\ UsedInOrder /\ ChainInv /\ HistoryCurrent
      /\ HubInv /\ HistInv /\ RowInv /\ KeyInv /\ SeenInv
  BY DEF Inv
<1>2. Typed' /\ Staged'
  BY <1>1, TypedStep, StagedStep
<1>3. Balance' /\ UsedInOrder'
  BY <1>1, BalanceStep, UsedStep
<1>4. ChainInv' /\ HistoryCurrent'
  BY <1>1, ChainStep, CurrentStep
<1>5. HubInv' /\ HistInv'
  BY <1>1, <1>2, QueueStep, HistStep
<1>6. RowInv' /\ KeyInv' /\ SeenInv'
  BY <1>1, RowStep, KeyStep, SeenStep
<1>7. QED
  BY <1>2, <1>3, <1>4, <1>5, <1>6 DEF Inv

LEMMA InvHolds == Spec => []Inv
<1>1. QED
  BY InvInit, InvStep, PTL DEF Spec

\* Every variable keeps its type, and of the slots that #inFlight counts none is given
\* back twice and no more than the cap are taken, whatever fails or crashes.
THEOREM InboundTypeCorrect == Spec => []TypeOK
<1>1. Inv => TypeOK
  <2> SUFFICES ASSUME Inv PROVE TypeOK
    OBVIOUS
  <2>1. Typed /\ Balance /\ SeenInv
    BY DEF Inv
  <2>2. \A s \in Sessions : \A i \in 1 .. Len(hist[s]) : hist[s][i] \in Ids
    BY <2>1, HistTyped
  <2>3. Len(seen) <= Window /\ slots \in 0 .. Cap
    BY <2>1, UsersNat, InboundConstants DEF SeenInv, Balance, Typed
  <2>4. \A t \in Ids : Stage(t) \in Stages /\ (Stage(t) # "none" => Origin(t) \in Origins)
    <3>1. ASSUME NEW t \in Ids PROVE job[t] = NoJob \/ job[t] \in Jobs
      BY <2>1 DEF Typed
    <3>2. ASSUME NEW t \in Ids, job[t] \in Jobs PROVE Stage(t) \in Stages /\ Origin(t) \in Origins
      BY <3>2 DEF Jobs, Stage, Origin
    <3>3. ASSUME NEW t \in Ids, job[t] = NoJob PROVE Stage(t) = "none" /\ "none" \in Stages
      BY <3>3 DEF NoJob, Stage, Stages
    <3>4. QED
      BY <3>1, <3>2, <3>3
  <2>5. QED
    BY <2>1, <2>2, <2>3, <2>4 DEF Typed, TypeOK, Statuses
<1>2. QED
  BY <1>1, InvHolds, PTL

\* The chain of a session runs one turn at a time, whatever surfaces the messages came
\* from, so that every turn is appended to the history it read; and the messages of a
\* chat stand in the histories in the order they arrived in.
THEOREM ConversationsInOrder == Spec => []ConversationOrder
<1>1. Inv => ConversationOrder
  BY DEF Inv, HistInv, ConversationOrder
<1>2. QED
  BY <1>1, InvHolds, PTL

\* claimInboundKey gives a key to one turn, through retries and crashes, and the inbox
\* takes a provider's message on again only in another process or a window later.
THEOREM ActedOnOnce == Spec => []RunsOnce
<1>1. Inv => RunsOnce
  <2> SUFFICES ASSUME Inv PROVE RunsOnce
    OBVIOUS
  <2>1. KeyInv /\ SeenInv
    BY DEF Inv
  <2>2. KeyRunsOnce
    BY <2>1 DEF KeyInv, KeyRunsOnce
  <2>3. QED
    BY <2>1, <2>2 DEF SeenInv, RunsOnce
<1>2. QED
  BY <1>1, InvHolds, PTL

\* The order of #send and the hub, row, append, reply: a reply that is queued is of a
\* turn whose outcome is recorded and, when it completed, in the history.
THEOREM RepliesAreRemembered == Spec => []ReplyRemembered
<1>1. Inv => ReplyRemembered
  BY DEF Inv, Typed, RowInv, ReplyRemembered
<1>2. QED
  BY <1>1, InvHolds, PTL

\* Whatever order turns end, fail or die in: a running row has its turn, unless the
\* store failed that turn, and a slot has its user, unless the claim of a key threw.
THEOREM NothingIsLeftBehind == Spec => []NothingLeaks
<1>1. Inv => NothingLeaks
  BY DEF Inv, RowInv, Balance, Users, NothingLeaks, SlotsBalanced
<1>2. QED
  BY <1>1, InvHolds, PTL
============================================================================
