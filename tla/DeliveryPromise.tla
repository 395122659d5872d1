--------------------------- MODULE DeliveryPromise ---------------------------
(***************************************************************************)
(* What the outbound queue promises the person on the other end of a       *)
(* channel, with no queue in it.  A reply is a group of chunks; `copies`   *)
(* counts how often the provider took each chunk and `uncertain` marks the *)
(* chunks whose first copy may already have arrived.                       *)
(*                                                                         *)
(* Abstracts the crash table at the head of channels/outbox.ts and the     *)
(* ordering note on OutboxStore.due; Outbox.tla is shown to implement it.  *)
(***************************************************************************)
EXTENDS Naturals

CONSTANTS Groups,   \* the replies
          Chunks    \* chunks per reply

VARIABLES queued,     \* replies accepted for delivery
          copies,     \* [Rows -> Nat], copies the provider took of each chunk
          uncertain   \* [Rows -> BOOLEAN], a second copy is excused

promiseVars == <<queued, copies, uncertain>>

Rows == Groups \X (0 .. Chunks - 1)

\* The chunks of r's reply that come before r.
Earlier(r) == {<<r[1], c>> : c \in 0 .. r[2] - 1}

PromiseInit ==
    /\ queued = {}
    /\ copies = [r \in Rows |-> 0]
    /\ uncertain = [r \in Rows |-> FALSE]

\* A reply is taken on.
Queue(g) ==
    /\ queued' = queued \cup {g}
    /\ UNCHANGED <<copies, uncertain>>

\* The provider takes a chunk: in order, and a second time only if excused.
Copy(r) ==
    /\ r[1] \in queued
    /\ \A e \in Earlier(r) : copies[e] > 0
    /\ copies[r] = 0 \/ uncertain[r]
    /\ copies' = [copies EXCEPT ![r] = @ + 1]
    /\ UNCHANGED <<queued, uncertain>>

\* A restart finds the chunks S unacknowledged and says so.
Doubt(S) ==
    /\ \A r \in S : r[1] \in queued
    /\ uncertain' = [r \in Rows |-> uncertain[r] \/ r \in S]
    /\ UNCHANGED <<queued, copies>>

PromiseNext ==
    \/ \E g \in Groups : Queue(g)
    \/ \E r \in Rows : Copy(r)
    \/ \E S \in SUBSET Rows : Doubt(S)

PromiseSpec == PromiseInit /\ [][PromiseNext]_promiseVars
==============================================================================
