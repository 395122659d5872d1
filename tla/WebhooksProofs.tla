--------------------------- MODULE WebhooksProofs ---------------------------
(***************************************************************************)
(* Proofs about Webhooks for any number of processes, subscriptions and    *)
(* events, any backoff and batch, and processes that end at any point:     *)
(* type correctness, that the record is true to what receivers             *)
(* acknowledged, and that attempts are bounded.                            *)
(***************************************************************************)
EXTENDS Webhooks, FiniteSetTheorems, TLAPS

\* An event is enqueued once: whatever is known of a delivery came after it.
AfterEvent ==
    \A k \in Keys :
        (rows[k].status # "none" \/ k \in acked \/ recovered[k] > 0
           \/ \E p \in Procs : \E a \in work[p] : a.key = k)
        => k[2] \in emitted

\* A drain holds an answer of 2xx only for what was acknowledged, and a throw after
\* one is on record.
OkWasAcked ==
    \A p \in Procs : \A a \in work[p] :
        /\ a.outcome = "ok" => a.key \in acked
        /\ a.outcome = "caught" => a.key \in caught

\* Of a row that no start took back there is one attempt at most, its row in flight
\* or deleted ...
OneAttempt ==
    \A p, q \in Procs : \A a \in work[p], b \in work[q] :
        a.key = b.key /\ recovered[a.key] = 0 =>
            p = q /\ a = b /\ rows[a.key].status \in {"inflight", "none"}

\* ... and it is not acknowledged while it is owed or the answer has not come, unless
\* a throw took the answer.
NotYetAcked ==
    \A k \in Keys : recovered[k] = 0 /\ k \notin caught =>
        /\ rows[k].status = "pending" => k \notin acked
        /\ \A p \in Procs : \A a \in work[p] : a.key = k /\ a.outcome # "ok" => k \notin acked

\* A row that a start took back carries the mark.
MarkStays == \A k \in Keys : recovered[k] > 0 /\ rows[k].status # "none" => rows[k].uncertain

AckInv == AfterEvent /\ OkWasAcked /\ OneAttempt /\ NotYetAcked /\ MarkStays /\ SentWasAcked

\* Attempts at one delivery have numbers of their own, up to the row's count.
NumbersApart ==
    \A p, q \in Procs : \A a \in work[p], b \in work[q] :
        a.key = b.key /\ a.attempts = b.attempts => p = q /\ a = b

NumbersCounted ==
    \A p \in Procs : \A a \in work[p] :
        /\ a.attempts > 0
        /\ rows[a.key].status # "none" => a.attempts <= rows[a.key].attempts

\* The numbers that can still put the row up for another attempt: those to come and
\* those in hand, within the backoff.
Left(k) ==
    {n \in 1..Retries :
        n > rows[k].attempts \/ \E p \in Procs : \E a \in work[p] : a.key = k /\ a.attempts = n}

Owed(k) == IF rows[k].status = "pending" THEN 1 ELSE 0

\* Every attempt was paid for: by the enqueue, by a start that took the row back, or
\* by a number that is spent.
Paid ==
    \A k \in Keys : rows[k].status # "none" =>
        rows[k].attempts + Owed(k) + Cardinality(Left(k)) <= 1 + recovered[k] + Retries

\* Where there is no row, nothing was attempted.
NoneCountsNothing == \A k \in Keys : rows[k].status = "none" => rows[k].attempts = 0

NumberInv == NumbersApart /\ NumbersCounted /\ NoneCountsNothing
CountInv == NumberInv /\ Paid

------------------------------------------------------------------------------
(* Type correctness *)

LEMMA TypeInit == Init => TypeOK
  BY WebhookConstants DEF Init, TypeOK, Row, NoRow

\* The updates of a row, field by field.
LEMMA TakenBack ==
    ASSUME NEW r \in Row, NEW q, q = [r EXCEPT !.status = "pending", !.uncertain = TRUE]
    PROVE  q \in Row /\ q.status = "pending" /\ q.uncertain /\ q.attempts = r.attempts
  BY DEF Row

LEMMA Claimed ==
    ASSUME NEW r \in Row, NEW q, q = [r EXCEPT !.attempts = @ + 1, !.status = "inflight"]
    PROVE  /\ q \in Row /\ q.status = "inflight"
           /\ q.attempts = r.attempts + 1 /\ q.uncertain = r.uncertain
<1>1. r.attempts + 1 \in Nat
  BY DEF Row
<1>2. q = [r EXCEPT !.attempts = r.attempts + 1, !.status = "inflight"]
  OBVIOUS
<1>3. QED
  BY <1>1, <1>2 DEF Row

LEMMA Orphaned ==
    ASSUME NEW r \in Row, NEW q, q = [r EXCEPT !.attempts = @ + 1, !.status = "failed"]
    PROVE  /\ q \in Row /\ q.status = "failed"
           /\ q.attempts = r.attempts + 1 /\ q.uncertain = r.uncertain
<1>1. r.attempts + 1 \in Nat
  BY DEF Row
<1>2. q = [r EXCEPT !.attempts = r.attempts + 1, !.status = "failed"]
  OBVIOUS
<1>3. QED
  BY <1>1, <1>2 DEF Row

\* What Start and Drain make of one row.
LEMMA StartRow ==
    ASSUME TypeOK, NEW p \in Procs, Start(p), NEW k \in Keys
    PROVE  /\ rows'[k] \in Row /\ recovered'[k] \in Nat
           /\ rows[k].status # "inflight" => rows'[k] = rows[k] /\ recovered'[k] = recovered[k]
           /\ rows[k].status = "inflight" =>
                 /\ rows'[k].status = "pending" /\ rows'[k].uncertain
                 /\ rows'[k].attempts = rows[k].attempts /\ recovered'[k] = recovered[k] + 1
<1>1. rows[k] \in Row /\ recovered[k] \in Nat
  BY DEF TypeOK
<1>2. CASE rows[k].status = "inflight"
  <2>1. rows'[k] = [rows[k] EXCEPT !.status = "pending", !.uncertain = TRUE]
    BY <1>2 DEF Start
  <2>2. recovered'[k] = recovered[k] + 1
    BY <1>2 DEF Start
  <2>3. /\ rows'[k] \in Row /\ rows'[k].status = "pending" /\ rows'[k].uncertain
        /\ rows'[k].attempts = rows[k].attempts
    BY <1>1, <2>1, TakenBack, Zenon
  <2>4. QED
    BY <1>1, <1>2, <2>2, <2>3
<1>3. CASE rows[k].status # "inflight"
  <2>1. rows'[k] = rows[k] /\ recovered'[k] = recovered[k] + 0
    BY <1>3 DEF Start
  <2>2. QED
    BY <1>1, <1>3, <2>1
<1>4. QED
  BY <1>2, <1>3

LEMMA DrainRow ==
    ASSUME TypeOK, NEW p \in Procs, Drain(p), NEW k \in Keys
    PROVE  /\ rows'[k] \in Row
           /\ \/ rows'[k] = rows[k] /\ \A a \in work'[p] : a.key # k
              \/ /\ rows[k].status = "pending" /\ rows'[k].status = "inflight"
                 /\ rows'[k].attempts = rows[k].attempts + 1 /\ rows'[k].uncertain = rows[k].uncertain
                 /\ \A a \in work'[p] : a.key = k =>
                       a.attempts = rows[k].attempts + 1 /\ a.outcome = "none"
                 /\ \A a, b \in work'[p] : a.key = k /\ b.key = k => a = b
                 /\ \E a \in work'[p] : a.key = k
              \/ /\ rows[k].status = "pending" /\ rows'[k].status = "failed"
                 /\ rows'[k].attempts = rows[k].attempts + 1 /\ rows'[k].uncertain = rows[k].uncertain
                 /\ \A a \in work'[p] : a.key # k
<1>1. PICK claim \in SUBSET Due :
         LET known == {x \in claim : x[1] \in cache[p] \cap subs}
         IN  /\ rows' = [x \in Keys |->
                          IF x \in claim
                          THEN [rows[x] EXCEPT !.attempts = @ + 1,
                                               !.status = IF x \in known THEN "inflight" ELSE "failed"]
                          ELSE rows[x]]
             /\ work' = [work EXCEPT ![p] =
                          {[key |-> x, attempts |-> rows[x].attempts + 1, outcome |-> "none"]
                             : x \in known}]
  BY DEF Drain
<1> DEFINE known == {x \in claim : x[1] \in cache[p] \cap subs}
<1>2. work'[p] = {[key |-> x, attempts |-> rows[x].attempts + 1, outcome |-> "none"] : x \in known}
  BY <1>1 DEF TypeOK
<1>3. rows[k] \in Row
  BY DEF TypeOK
<1>4. CASE k \notin claim
  <2>1. rows'[k] = rows[k] /\ k \notin known
    BY <1>1, <1>4
  <2>2. QED
    BY <1>2, <1>3, <2>1
<1>5. CASE k \in claim /\ k \in known
  <2>1. rows'[k] = [rows[k] EXCEPT !.attempts = @ + 1, !.status = "inflight"]
    BY <1>1, <1>5
  <2>2. rows[k].status = "pending"
    BY <1>5 DEF Due
  <2> HIDE DEF known
  <2>3. /\ rows'[k] \in Row /\ rows'[k].status = "inflight"
        /\ rows'[k].attempts = rows[k].attempts + 1 /\ rows'[k].uncertain = rows[k].uncertain
    BY <1>3, <2>1, Claimed, Zenon
  <2>4. \A a \in work'[p] : a.key = k =>
           a = [key |-> k, attempts |-> rows[k].attempts + 1, outcome |-> "none"]
    <3> TAKE a \in work'[p]
    <3>1. PICK x \in known :
             a = [key |-> x, attempts |-> rows[x].attempts + 1, outcome |-> "none"]
      BY <1>2
    <3>2. a.key = x
      BY <3>1
    <3>3. QED
      BY <3>1, <3>2
  <2>5. \E a \in work'[p] : a.key = k
    <3>1. [key |-> k, attempts |-> rows[k].attempts + 1, outcome |-> "none"] \in work'[p]
      BY <1>2, <1>5
    <3>2. QED
      BY <3>1
  <2>6. /\ \A a \in work'[p] : a.key = k => a.attempts = rows[k].attempts + 1 /\ a.outcome = "none"
        /\ \A a, b \in work'[p] : a.key = k /\ b.key = k => a = b
    BY <2>4
  <2>7. QED
    BY <2>2, <2>3, <2>5, <2>6
<1>6. CASE k \in claim /\ k \notin known
  <2>1. rows'[k] = [rows[k] EXCEPT !.attempts = @ + 1, !.status = "failed"]
    BY <1>1, <1>6
  <2>2. rows[k].status = "pending"
    BY <1>6 DEF Due
  <2> HIDE DEF known
  <2>3. /\ rows'[k] \in Row /\ rows'[k].status = "failed"
        /\ rows'[k].attempts = rows[k].attempts + 1 /\ rows'[k].uncertain = rows[k].uncertain
    BY <1>3, <2>1, Orphaned, Zenon
  <2>4. \A a \in work'[p] : a.key # k
    <3> TAKE a \in work'[p]
    <3>1. PICK x \in known :
             a = [key |-> x, attempts |-> rows[x].attempts + 1, outcome |-> "none"]
      BY <1>2
    <3>2. a.key = x
      BY <3>1
    <3>3. QED
      BY <1>6, <3>2
  <2>5. QED
    BY <2>2, <2>3, <2>4
<1>7. QED
  BY <1>4, <1>5, <1>6

LEMMA DrainWork ==
    ASSUME TypeOK, NEW p \in Procs, Drain(p)
    PROVE  /\ rows' \in [Keys -> Row] /\ work' \in [Procs -> SUBSET Attempt]
           /\ work[p] = {} /\ \A q \in Procs : q # p => work'[q] = work[q]
<1>1. PICK known \in SUBSET Keys :
         work' = [work EXCEPT ![p] =
                    {[key |-> x, attempts |-> rows[x].attempts + 1, outcome |-> "none"] : x \in known}]
  BY DEF Drain, Due
<1>2. \A x \in known : [key |-> x, attempts |-> rows[x].attempts + 1, outcome |-> "none"] \in Attempt
  BY DEF TypeOK, Row, Attempt
<1>3. DOMAIN rows' = Keys /\ rows' = [k \in Keys |-> rows'[k]]
  BY DEF Drain
<1>4. rows' \in [Keys -> Row]
  BY <1>3, DrainRow
<1> DEFINE taken == {[key |-> x, attempts |-> rows[x].attempts + 1, outcome |-> "none"] : x \in known}
<1>5. taken \in SUBSET Attempt
  BY <1>2
<1>6. work' = [work EXCEPT ![p] = taken]
  BY <1>1
<1> HIDE DEF taken
<1>7. QED
  BY <1>4, <1>5, <1>6 DEF TypeOK, Drain

LEMMA TypeStep == TypeOK /\ [Next]_vars => TypeOK'
<1> SUFFICES ASSUME TypeOK, [Next]_vars PROVE TypeOK'
  OBVIOUS
<1> USE WebhookConstants DEF TypeOK, Row, Attempt, Outcomes, storeVars, procVars, histVars
<1>1. ASSUME NEW p \in Procs, Attach(p) PROVE TypeOK'
  BY <1>1 DEF Attach
<1>2. ASSUME NEW p \in Procs, Start(p) PROVE TypeOK'
  <2>1. rows' \in [Keys -> Row] /\ recovered' \in [Keys -> Nat]
    BY <1>2, StartRow DEF Start
  <2>2. QED
    BY <1>2, <2>1 DEF Start
<1>3. ASSUME NEW p \in Procs, Exit(p) PROVE TypeOK'
  BY <1>3 DEF Exit
<1>4. ASSUME NEW p \in Procs, Drain(p) PROVE TypeOK'
  BY <1>4, DrainWork DEF Drain
<1>5. ASSUME NEW p \in Procs, NEW s \in Subs, Create(p, s) PROVE TypeOK'
  BY <1>5 DEF Create
<1>6. ASSUME NEW p \in Procs, NEW s \in Subs, Delete(p, s) PROVE TypeOK'
  BY <1>6 DEF Delete, NoRow
<1>7. ASSUME NEW p \in Procs, NEW e \in Events, NEW full \in BOOLEAN, Emit(p, e, full) PROVE TypeOK'
  BY <1>7 DEF Emit, Fresh, NoRow
<1>8. ASSUME NEW k \in Keys, Elapse(k) PROVE TypeOK'
  BY <1>8 DEF Elapse
<1>9. ASSUME NEW p \in Procs, NEW a \in work[p], Mark(p, a) PROVE TypeOK'
  BY <1>9 DEF Mark, Verdict
<1>10. ASSUME NEW p \in Procs, NEW a \in work[p], NEW o \in Outcomes, Send(p, a, o) PROVE TypeOK'
  BY <1>10 DEF Send, Answered
<1>11. CASE UNCHANGED vars
  BY <1>11 DEF vars
<1>12. ASSUME NEW p \in Procs, NEW a \in work[p], MarkThrows(p, a) PROVE TypeOK'
  BY <1>12 DEF MarkThrows, Answered
<1>13. QED
  BY <1>1, <1>2, <1>3, <1>4, <1>5, <1>6, <1>7, <1>8, <1>9, <1>10, <1>11, <1>12 DEF Next

\* The subscriptions, the deliveries and what the processes have in hand keep their
\* types, and only what was created is subscribed.
THEOREM WebhookTypeCorrect == Spec => []TypeOK
<1>1. TypeOK /\ [Next]_vars => TypeOK'
  BY TypeStep
<1>2. QED
  BY <1>1, TypeInit, PTL DEF Spec

------------------------------------------------------------------------------
(* What is recorded was acknowledged *)

LEMMA MarkRow ==
    ASSUME TypeOK, NEW p \in Procs, NEW a \in work[p], Mark(p, a), NEW k \in Keys
    PROVE  /\ a \in Attempt /\ rows[k] \in Row
           /\ k # a.key \/ rows[k].status = "none" => rows'[k] = rows[k]
           /\ k = a.key /\ rows[k].status # "none" =>
                 /\ rows'[k].status = Verdict(a) /\ rows'[k].attempts = rows[k].attempts
                 /\ rows'[k].uncertain = rows[k].uncertain
           /\ work'[p] = work[p] \ {a} /\ \A q \in Procs : q # p => work'[q] = work[q]
<1>1. a \in Attempt /\ rows[k] \in Row /\ DOMAIN rows = Keys
  BY DEF TypeOK
<1>2. work'[p] = work[p] \ {a} /\ \A q \in Procs : q # p => work'[q] = work[q]
  BY DEF TypeOK, Mark
<1>3. CASE rows[a.key].status = "none"
  BY <1>1, <1>2, <1>3 DEF Mark
<1>4. CASE rows[a.key].status # "none" /\ k # a.key
  <2>1. rows'[k] = rows[k]
    BY <1>1, <1>4 DEF Mark
  <2>2. QED
    BY <1>1, <1>2, <1>4, <2>1
<1>5. CASE rows[a.key].status # "none" /\ k = a.key
  <2>1. rows' = [rows EXCEPT ![k].status = Verdict(a),
                             ![k].due = IF Verdict(a) = "pending" THEN FALSE ELSE @]
    BY <1>5 DEF Mark
  <2>2. /\ rows'[k].status = Verdict(a) /\ rows'[k].attempts = rows[k].attempts
        /\ rows'[k].uncertain = rows[k].uncertain
    BY <1>1, <2>1 DEF Row
  <2>3. QED
    BY <1>1, <1>2, <1>5, <2>2
<1>6. QED
  BY <1>3, <1>4, <1>5

LEMMA AckInit == Init => AckInv
  BY DEF Init, AckInv, AfterEvent, OkWasAcked, OneAttempt, NotYetAcked, MarkStays, SentWasAcked, NoRow

LEMMA AckStep == TypeOK /\ AckInv /\ [Next]_vars => AckInv'
<1> SUFFICES ASSUME TypeOK, AckInv, [Next]_vars PROVE AckInv'
  OBVIOUS
<1> USE WebhookConstants DEF TypeOK, Row, Attempt, Outcomes, storeVars, procVars, histVars,
      AckInv, AfterEvent, OkWasAcked, OneAttempt, NotYetAcked, MarkStays, SentWasAcked
<1>1. ASSUME NEW p \in Procs, Attach(p) PROVE AckInv'
  BY <1>1 DEF Attach
<1>2. ASSUME NEW p \in Procs, Start(p) PROVE AckInv'
  <2>1. \A k \in Keys :
          /\ rows[k].status # "inflight" => rows'[k] = rows[k] /\ recovered'[k] = recovered[k]
          /\ rows[k].status = "inflight" =>
                rows'[k].status = "pending" /\ rows'[k].uncertain /\ recovered'[k] = recovered[k] + 1
    BY <1>2, StartRow
  <2>2. UNCHANGED <<work, emitted, acked, caught>>
    BY <1>2 DEF Start
  <2>3. QED
    BY <2>1, <2>2
<1>3. ASSUME NEW p \in Procs, Exit(p) PROVE AckInv'
  BY <1>3 DEF Exit
<1>4. ASSUME NEW p \in Procs, Drain(p) PROVE AckInv'
  <2>1. \A k \in Keys :
          \/ rows'[k] = rows[k] /\ \A a \in work'[p] : a.key # k
          \/ /\ rows[k].status = "pending" /\ rows'[k].status = "inflight"
             /\ rows'[k].uncertain = rows[k].uncertain
             /\ \A a, b \in work'[p] : a.key = k /\ b.key = k => a = b
             /\ \A a \in work'[p] : a.key = k => a.outcome = "none"
          \/ /\ rows[k].status = "pending" /\ rows'[k].status = "failed"
             /\ rows'[k].uncertain = rows[k].uncertain /\ \A a \in work'[p] : a.key # k
    <3> TAKE k \in Keys
    <3>1. QED
      BY <1>4, DrainRow
  <2>2. /\ work' \in [Procs -> SUBSET Attempt] /\ work[p] = {}
        /\ \A q \in Procs : q # p => work'[q] = work[q]
    BY <1>4, DrainWork
  <2>3. UNCHANGED <<emitted, acked, caught, recovered>>
    BY <1>4 DEF Drain
  <2>4. AfterEvent' /\ MarkStays' /\ SentWasAcked'
    BY <2>1, <2>2, <2>3
  <2>5. OkWasAcked'
    BY <2>1, <2>2, <2>3
  <2>6. OneAttempt'
    BY <2>1, <2>2, <2>3
  <2>7. NotYetAcked'
    BY <2>1, <2>2, <2>3
  <2>8. QED
    BY <2>4, <2>5, <2>6, <2>7
<1>5. ASSUME NEW p \in Procs, NEW s \in Subs, Create(p, s) PROVE AckInv'
  BY <1>5 DEF Create
<1>6. ASSUME NEW p \in Procs, NEW s \in Subs, Delete(p, s) PROVE AckInv'
  BY <1>6 DEF Delete, NoRow
<1>7. ASSUME NEW p \in Procs, NEW e \in Events, NEW full \in BOOLEAN, Emit(p, e, full) PROVE AckInv'
  BY <1>7 DEF Emit, Fresh, NoRow
<1>8. ASSUME NEW k \in Keys, Elapse(k) PROVE AckInv'
  BY <1>8 DEF Elapse
<1>9. ASSUME NEW p \in Procs, NEW a \in work[p], Mark(p, a) PROVE AckInv'
  <2>1. \A k \in Keys :
          /\ k # a.key \/ rows[k].status = "none" => rows'[k] = rows[k]
          /\ k = a.key /\ rows[k].status # "none" =>
                rows'[k].status = Verdict(a) /\ rows'[k].uncertain = rows[k].uncertain
    BY <1>9, MarkRow
  <2>2. work'[p] = work[p] \ {a} /\ \A q \in Procs : q # p => work'[q] = work[q]
    BY <1>9 DEF Mark
  <2>3. UNCHANGED <<emitted, acked, caught, recovered>> /\ a.outcome # "none"
    BY <1>9 DEF Mark
  <2>4. Verdict(a) \in {"sent", "failed", "pending"} /\ (Verdict(a) = "sent" <=> a.outcome = "ok")
    BY DEF Verdict
  <2>5. AfterEvent' /\ OkWasAcked'
    <3>1. \A q \in Procs : \A c \in work'[q] : c \in work[q]
      BY <2>2
    <3>2. \A k \in Keys : rows'[k].status # "none" => rows[k].status # "none"
      BY <2>1
    <3>3. AfterEvent'
      BY <2>3, <3>1, <3>2
    <3>4. OkWasAcked'
      BY <2>3, <3>1
    <3>5. QED
      BY <3>3, <3>4
  <2>6. OneAttempt'
    BY <2>1, <2>2, <2>3
  <2>7. NotYetAcked'
    <3> SUFFICES ASSUME NEW k \in Keys, recovered[k] = 0, k \notin caught
                 PROVE  /\ rows'[k].status = "pending" => k \notin acked
                        /\ \A q \in Procs : \A c \in work'[q] :
                              c.key = k /\ c.outcome # "ok" => k \notin acked
      BY <2>3
    <3>1. \A q \in Procs : \A c \in work'[q] : c \in work[q]
      BY <2>2
    <3>2. rows'[k].status = "pending" => rows[k].status = "pending" \/ (k = a.key /\ a.outcome # "ok")
      BY <2>1, <2>4
    <3>3. QED
      BY <3>1, <3>2
  <2>8. MarkStays' /\ SentWasAcked'
    <3>1. MarkStays'
      BY <2>1, <2>3
    <3>2. SentWasAcked'
      BY <2>1, <2>3, <2>4
    <3>3. QED
      BY <3>1, <3>2
  <2>9. QED
    BY <2>5, <2>6, <2>7, <2>8
<1>10. ASSUME NEW p \in Procs, NEW a \in work[p], NEW o \in Outcomes, Send(p, a, o) PROVE AckInv'
  <2> DEFINE b == [a EXCEPT !.outcome = o]
  <2>1. b.key = a.key /\ b.outcome = o /\ a \in Attempt /\ o # "none"
    OBVIOUS
  <2>2. work'[p] = (work[p] \ {a}) \cup {b} /\ \A q \in Procs : q # p => work'[q] = work[q]
    BY <1>10 DEF Send, Answered
  <2>3. /\ UNCHANGED <<emitted, rows, recovered>> /\ a.outcome = "none"
        /\ acked' = IF o \in {"ok", "caught"} THEN acked \cup {a.key} ELSE acked
        /\ caught' = IF o = "caught" THEN caught \cup {a.key} ELSE caught
    BY <1>10 DEF Send, Answered
  <2> HIDE DEF b
  <2>4. AfterEvent' /\ OkWasAcked'
    <3>1. \A q \in Procs : \A c \in work'[q] : c = b \/ c \in work[q]
      BY <2>2
    <3>2. \A k \in Keys : k \in acked' => k \in acked \/ k = a.key
      BY <2>3
    <3>3. (o = "ok" => a.key \in acked') /\ (o = "caught" => a.key \in caught') /\ caught \subseteq caught'
      BY <2>3
    <3>4. AfterEvent'
      BY <2>1, <2>3, <3>1, <3>2
    <3>5. OkWasAcked'
      BY <2>1, <2>3, <3>1, <3>3
    <3>6. QED
      BY <3>4, <3>5
  <2>5. OneAttempt'
    BY <2>1, <2>2, <2>3
  <2>6. NotYetAcked'
    <3> SUFFICES ASSUME NEW k \in Keys, recovered'[k] = 0, k \notin caught'
                 PROVE  /\ rows'[k].status = "pending" => k \notin acked'
                        /\ \A q \in Procs : \A c \in work'[q] :
                              c.key = k /\ c.outcome # "ok" => k \notin acked'
      OBVIOUS
    <3>1. CASE k # a.key
      <4>1. (k \in acked' <=> k \in acked) /\ k \notin caught
        BY <2>3, <3>1
      <4>2. \A q \in Procs : \A c \in work'[q] : c.key = k => c \in work[q]
        BY <2>1, <2>2, <3>1
      <4>3. QED
        BY <2>3, <4>1, <4>2
    <3>2. CASE k = a.key
      <4>1. rows[k].status \in {"inflight", "none"}
        BY <2>3, <3>2
      <4>2. \A q \in Procs : \A c \in work'[q] : c.key = k => c = b
        BY <2>2, <2>3, <3>2
      <4>3. k \notin caught /\ o # "caught" /\ (o # "ok" => k \notin acked')
        BY <2>3, <3>2
      <4>4. QED
        BY <2>1, <2>3, <4>1, <4>2, <4>3
    <3>3. QED
      BY <3>1, <3>2
  <2>7. MarkStays' /\ SentWasAcked'
    BY <2>3
  <2>8. QED
    BY <2>4, <2>5, <2>6, <2>7
<1>11. CASE UNCHANGED vars
  BY <1>11 DEF vars
<1>12. ASSUME NEW p \in Procs, NEW a \in work[p], MarkThrows(p, a) PROVE AckInv'
  <2> DEFINE b == [a EXCEPT !.outcome = "caught"]
  <2>1. b.key = a.key /\ b.outcome = "caught" /\ a \in Attempt
    OBVIOUS
  <2>2. work'[p] = (work[p] \ {a}) \cup {b} /\ \A q \in Procs : q # p => work'[q] = work[q]
    BY <1>12 DEF MarkThrows, Answered
  <2>3. UNCHANGED <<emitted, rows, recovered, acked>> /\ caught' = caught \cup {a.key}
    BY <1>12 DEF MarkThrows
  <2> HIDE DEF b
  <2>4. \A q \in Procs : \A c \in work'[q] : c = b \/ c \in work[q]
    BY <2>2
  <2>5. AfterEvent' /\ OkWasAcked' /\ MarkStays' /\ SentWasAcked'
    BY <2>1, <2>3, <2>4
  <2>6. OneAttempt'
    BY <2>1, <2>2, <2>3
  <2>7. NotYetAcked'
    BY <2>1, <2>3, <2>4
  <2>8. QED
    BY <2>5, <2>6, <2>7
<1>13. QED
  BY <1>1, <1>2, <1>3, <1>4, <1>5, <1>6, <1>7, <1>8, <1>9, <1>10, <1>11, <1>12 DEF Next

\* The record is true to what receivers acknowledged: a delivery recorded as sent was
\* acknowledged, and one that is owed again after an acknowledgement carries the mark in
\* the store or had its answer lost to a throw that #attempt caught, for any number of
\* processes that send, end and take rows back from each other.
THEOREM AcknowledgedTruly == Spec => []AckTruth
<1>1. AckInv /\ TypeOK => AckTruth
  BY DEF AckInv, SentWasAcked, NotYetAcked, MarkStays, AckTruth, AckedResendUncertain, TypeOK
<1>2. AckInv /\ TypeOK /\ [Next]_vars => AckInv'
  BY AckStep
<1>3. Spec => []AckInv
  BY <1>2, AckInit, WebhookTypeCorrect, PTL DEF Spec
<1>4. QED
  BY <1>1, <1>3, WebhookTypeCorrect, PTL

------------------------------------------------------------------------------
(* Attempts *)

LEMMA LeftFinite ==
    ASSUME NEW S \in SUBSET (1..Retries)
    PROVE  IsFiniteSet(S) /\ Cardinality(S) \in 0..Retries
<1>1. IsFiniteSet(1..Retries) /\ Cardinality(1..Retries) = Retries
  BY WebhookConstants, FS_Interval
<1>2. IsFiniteSet(S) /\ Cardinality(S) <= Retries
  BY <1>1, FS_Subset
<1>3. Cardinality(S) \in Nat
  BY <1>2, FS_CardinalityType
<1>4. QED
  BY <1>2, <1>3, WebhookConstants

\* A row's account is settled when no number is added and what is owed is paid for.
LEMMA StillPaid ==
    ASSUME TypeOK, TypeOK', Paid, NEW k \in Keys, rows[k].status # "none", Left(k)' \subseteq Left(k),
           rows'[k].attempts + Owed(k)' + recovered[k] <= rows[k].attempts + Owed(k) + recovered'[k]
    PROVE  rows'[k].attempts + Owed(k)' + Cardinality(Left(k)') <= 1 + recovered'[k] + Retries
<1>1. IsFiniteSet(Left(k)) /\ Cardinality(Left(k)) \in Nat
  BY LeftFinite DEF Left
<1>2. Left(k)' \in SUBSET Left(k)
  OBVIOUS
<1>3. IsFiniteSet(Left(k)') /\ Cardinality(Left(k)') <= Cardinality(Left(k))
  BY <1>1, <1>2, FS_Subset
<1>4. Cardinality(Left(k)') \in Nat
  BY <1>3, FS_CardinalityType
<1>5. /\ rows[k].attempts \in Nat /\ rows'[k].attempts \in Nat
      /\ recovered[k] \in Nat /\ recovered'[k] \in Nat
      /\ Owed(k) \in Nat /\ Owed(k)' \in Nat
  BY DEF TypeOK, Row, Owed
<1>6. rows[k].attempts + Owed(k) + Cardinality(Left(k)) <= 1 + recovered[k] + Retries
  BY DEF Paid
<1>7. QED
  BY <1>1, <1>3, <1>4, <1>5, <1>6, WebhookConstants

\* The same when a number is spent for the next attempt.
LEMMA SpentPaid ==
    ASSUME TypeOK, TypeOK', Paid, NEW k \in Keys, rows[k].status # "none",
           NEW n \in Left(k), Left(k)' \subseteq Left(k) \ {n},
           rows'[k].attempts = rows[k].attempts, recovered'[k] = recovered[k]
    PROVE  rows'[k].attempts + Owed(k)' + Cardinality(Left(k)') <= 1 + recovered'[k] + Retries
<1>1. IsFiniteSet(Left(k)) /\ Cardinality(Left(k)) \in Nat
  BY LeftFinite DEF Left
<1>2. IsFiniteSet(Left(k) \ {n}) /\ Cardinality(Left(k) \ {n}) = Cardinality(Left(k)) - 1
  BY <1>1, FS_RemoveElement
<1>3. Left(k)' \in SUBSET (Left(k) \ {n})
  OBVIOUS
<1>4. IsFiniteSet(Left(k)') /\ Cardinality(Left(k)') <= Cardinality(Left(k)) - 1
  BY <1>2, <1>3, FS_Subset
<1>5. Cardinality(Left(k)') \in Nat
  BY <1>4, FS_CardinalityType
<1>6. /\ rows[k].attempts \in Nat /\ recovered[k] \in Nat
      /\ Owed(k) \in 0..1 /\ Owed(k)' \in 0..1
  BY DEF TypeOK, Row, Owed
<1>7. rows[k].attempts + Owed(k) + Cardinality(Left(k)) <= 1 + recovered[k] + Retries
  BY DEF Paid
<1>8. QED
  BY <1>1, <1>4, <1>5, <1>6, <1>7, WebhookConstants

LEMMA NumberStep == TypeOK /\ AckInv /\ NumberInv /\ [Next]_vars => NumberInv'
<1> SUFFICES ASSUME TypeOK, AckInv, NumberInv, [Next]_vars PROVE NumberInv'
  OBVIOUS
<1> USE WebhookConstants DEF TypeOK, Row, Attempt, Outcomes, storeVars, procVars, histVars,
      AckInv, AfterEvent, NumberInv, NumbersApart, NumbersCounted, NoneCountsNothing
<1>1. ASSUME NEW p \in Procs, Attach(p) PROVE NumberInv'
  BY <1>1 DEF Attach
<1>2. ASSUME NEW p \in Procs, Start(p) PROVE NumberInv'
  <2>1. \A k \in Keys : /\ rows'[k].attempts = rows[k].attempts
                        /\ rows'[k].status = "none" <=> rows[k].status = "none"
    BY <1>2, StartRow
  <2>2. UNCHANGED work
    BY <1>2 DEF Start
  <2>3. QED
    BY <2>1, <2>2
<1>3. ASSUME NEW p \in Procs, Exit(p) PROVE NumberInv'
  BY <1>3 DEF Exit
<1>4. ASSUME NEW p \in Procs, Drain(p) PROVE NumberInv'
  <2>1. \A k \in Keys :
          /\ rows'[k].status = "none" <=> rows[k].status = "none"
          /\ \/ rows'[k].attempts = rows[k].attempts /\ \A a \in work'[p] : a.key # k
             \/ /\ rows'[k].attempts = rows[k].attempts + 1 /\ rows[k].status # "none"
                /\ \A a, b \in work'[p] : a.key = k /\ b.key = k => a = b
                /\ \A a \in work'[p] : a.key = k => a.attempts = rows[k].attempts + 1
    <3> TAKE k \in Keys
    <3>1. QED
      BY <1>4, DrainRow
  <2>2. /\ work' \in [Procs -> SUBSET Attempt] /\ work[p] = {}
        /\ \A q \in Procs : q # p => work'[q] = work[q]
    BY <1>4, DrainWork
  <2>3. \A k \in Keys : rows[k].attempts \in Nat
    OBVIOUS
  <2>4. NumbersApart'
    <3> SUFFICES ASSUME NEW q \in Procs, NEW r \in Procs, NEW a \in work'[q], NEW b \in work'[r],
                        a.key = b.key, a.attempts = b.attempts
                 PROVE  q = r /\ a = b
      OBVIOUS
    <3>1. a \in Attempt /\ b \in Attempt /\ a.key \in Keys
      BY <2>2
    <3>2. CASE q = p /\ r = p
      BY <2>1, <3>1, <3>2
    <3>3. CASE q # p /\ r # p
      BY <2>2, <3>3
    <3>4. ASSUME NEW c \in work'[p], NEW x \in Procs, x # p, NEW d \in work'[x], c.key = d.key
          PROVE  c.attempts # d.attempts
      <4>1. c.key \in Keys /\ d \in work[x] /\ rows[c.key].attempts \in Nat /\ d.attempts \in Nat
        BY <2>2, <2>3, <3>4
      <4>2. rows[c.key].status # "none" /\ c.attempts = rows[c.key].attempts + 1
        BY <2>1, <3>4, <4>1
      <4>3. d.attempts <= rows[c.key].attempts
        BY <3>4, <4>1, <4>2
      <4>4. QED
        BY <4>1, <4>2, <4>3
    <3>5. QED
      BY <3>2, <3>3, <3>4
  <2>5. NumbersCounted' /\ NoneCountsNothing'
    <3>1. NoneCountsNothing'
      BY <2>1
    <3>2. ASSUME NEW q \in Procs, NEW a \in work'[q]
          PROVE  a.attempts > 0 /\ (rows'[a.key].status # "none" => a.attempts <= rows'[a.key].attempts)
      <4>1. a \in Attempt /\ a.key \in Keys /\ a.attempts \in Nat /\ rows[a.key].attempts \in Nat
        BY <2>2, <2>3
      <4>2. CASE q = p
        BY <2>1, <4>1, <4>2
      <4>3. CASE q # p
        <5>1. a \in work[q]
          BY <2>2, <4>3
        <5>2. rows'[a.key].attempts \in {rows[a.key].attempts, rows[a.key].attempts + 1}
          BY <2>1, <4>1
        <5>3. QED
          BY <2>1, <4>1, <5>1, <5>2
      <4>4. QED
        BY <4>2, <4>3
    <3>3. QED
      BY <3>1, <3>2
  <2>6. QED
    BY <2>4, <2>5
<1>5. ASSUME NEW p \in Procs, NEW s \in Subs, Create(p, s) PROVE NumberInv'
  BY <1>5 DEF Create
<1>6. ASSUME NEW p \in Procs, NEW s \in Subs, Delete(p, s) PROVE NumberInv'
  BY <1>6 DEF Delete, NoRow
<1>7. ASSUME NEW p \in Procs, NEW e \in Events, NEW full \in BOOLEAN, Emit(p, e, full) PROVE NumberInv'
  BY <1>7 DEF Emit, Fresh, NoRow
<1>8. ASSUME NEW k \in Keys, Elapse(k) PROVE NumberInv'
  BY <1>8 DEF Elapse
<1>9. ASSUME NEW p \in Procs, NEW a \in work[p], Mark(p, a) PROVE NumberInv'
  BY <1>9 DEF Mark, Verdict
<1>10. ASSUME NEW p \in Procs, NEW a \in work[p], NEW o \in Outcomes, Send(p, a, o) PROVE NumberInv'
  <2> DEFINE b == [a EXCEPT !.outcome = o]
  <2>1. b.key = a.key /\ b.attempts = a.attempts /\ a \in Attempt
    OBVIOUS
  <2>2. work'[p] = (work[p] \ {a}) \cup {b} /\ \A q \in Procs : q # p => work'[q] = work[q]
    BY <1>10 DEF Send, Answered
  <2>3. UNCHANGED rows
    BY <1>10 DEF Send, Answered
  <2> HIDE DEF b
  <2>4. NumbersApart'
    BY <2>1, <2>2
  <2>5. NumbersCounted' /\ NoneCountsNothing'
    BY <2>1, <2>2, <2>3
  <2>6. QED
    BY <2>4, <2>5
<1>11. CASE UNCHANGED vars
  BY <1>11 DEF vars
<1>12. ASSUME NEW p \in Procs, NEW a \in work[p], MarkThrows(p, a) PROVE NumberInv'
  <2> DEFINE b == [a EXCEPT !.outcome = "caught"]
  <2>1. b.key = a.key /\ b.attempts = a.attempts /\ a \in Attempt
    OBVIOUS
  <2>2. work'[p] = (work[p] \ {a}) \cup {b} /\ \A q \in Procs : q # p => work'[q] = work[q]
    BY <1>12 DEF MarkThrows, Answered
  <2>3. UNCHANGED rows
    BY <1>12 DEF MarkThrows
  <2> HIDE DEF b
  <2>4. NumbersApart'
    BY <2>1, <2>2
  <2>5. NumbersCounted' /\ NoneCountsNothing'
    BY <2>1, <2>2, <2>3
  <2>6. QED
    BY <2>4, <2>5
<1>13. QED
  BY <1>1, <1>2, <1>3, <1>4, <1>5, <1>6, <1>7, <1>8, <1>9, <1>10, <1>11, <1>12 DEF Next

LEMMA CountInit == Init => CountInv
<1> SUFFICES ASSUME Init PROVE CountInv
  OBVIOUS
<1>1. (\A k \in Keys : rows[k] = NoRow) /\ \A p \in Procs : work[p] = {}
  BY DEF Init
<1>2. QED
  BY <1>1 DEF CountInv, NumberInv, NumbersApart, NumbersCounted, NoneCountsNothing, Paid, NoRow

\* A step that leaves the account of k alone, or only lets attempts go.
Untouched(k) ==
    /\ rows'[k].attempts = rows[k].attempts /\ rows'[k].status = rows[k].status
    /\ recovered'[k] = recovered[k]
    /\ \A q \in Procs : \A c \in work'[q] : c.key = k =>
          \E d \in work[q] : d.key = k /\ d.attempts = c.attempts

LEMMA PaidStep == TypeOK /\ TypeOK' /\ AckInv /\ CountInv /\ [Next]_vars => Paid'
<1> SUFFICES ASSUME TypeOK, TypeOK', AckInv, CountInv, [Next]_vars, NEW k \in Keys, rows'[k].status # "none"
             PROVE  rows'[k].attempts + Owed(k)' + Cardinality(Left(k)') <= 1 + recovered'[k] + Retries
  BY DEF Paid
<1> DEFINE Goal == rows'[k].attempts + Owed(k)' + Cardinality(Left(k)') <= 1 + recovered'[k] + Retries
<1>a. /\ rows[k] \in Row /\ rows'[k] \in Row /\ recovered[k] \in Nat /\ recovered'[k] \in Nat
      /\ rows[k].attempts \in Nat /\ rows'[k].attempts \in Nat
  BY DEF TypeOK, Row
<1>b. ASSUME Untouched(k) PROVE Goal
  <2>1. Left(k)' \subseteq Left(k)
    BY <1>b DEF Left, Untouched
  <2>2. Owed(k)' = Owed(k) /\ Owed(k) \in Nat
    BY <1>b DEF Owed, Untouched
  <2>3. rows[k].status # "none"
    BY <1>b DEF Untouched
  <2>4. rows'[k].attempts + Owed(k)' + recovered[k] <= rows[k].attempts + Owed(k) + recovered'[k]
    BY <1>a, <1>b, <2>2 DEF Untouched
  <2>5. QED
    BY <2>1, <2>3, <2>4, StillPaid DEF CountInv
<1> HIDE DEF Goal
<1>1. ASSUME NEW p \in Procs, Attach(p) PROVE Goal
  BY <1>1, <1>b DEF Attach, Untouched, storeVars, histVars
<1>2. ASSUME NEW p \in Procs, Start(p) PROVE Goal
  <2>1. CASE rows[k].status # "inflight"
    BY <1>2, <2>1, <1>b, StartRow DEF Untouched, Start
  <2>2. CASE rows[k].status = "inflight"
    <3>1. /\ rows'[k].attempts = rows[k].attempts /\ rows'[k].status = "pending"
          /\ recovered'[k] = recovered[k] + 1 /\ UNCHANGED work
      BY <1>2, <2>2, StartRow DEF Start
    <3>2. Left(k)' \subseteq Left(k)
      BY <3>1 DEF Left
    <3>3. Owed(k)' = 1 /\ Owed(k) = 0
      BY <2>2, <3>1 DEF Owed
    <3>4. QED
      BY <1>a, <2>2, <3>1, <3>2, <3>3, StillPaid DEF CountInv, Goal
  <2>3. QED
    BY <2>1, <2>2
<1>3. ASSUME NEW p \in Procs, Exit(p) PROVE Goal
  BY <1>3, <1>b DEF Exit, Untouched, storeVars, histVars, TypeOK
<1>4. ASSUME NEW p \in Procs, Drain(p) PROVE Goal
  <2>1. /\ recovered' = recovered /\ work[p] = {}
        /\ \A q \in Procs : q # p => work'[q] = work[q]
    BY <1>4, DrainWork DEF Drain, histVars
  <2>2. CASE rows'[k] = rows[k] /\ \A a \in work'[p] : a.key # k
    BY <2>1, <2>2, <1>b DEF Untouched
  <2>3. CASE /\ rows[k].status = "pending" /\ rows'[k].status # "pending"
             /\ rows'[k].attempts = rows[k].attempts + 1
             /\ \A a \in work'[p] : a.key = k => a.attempts = rows[k].attempts + 1
    <3>1. \A q \in Procs : \A c \in work'[q] : c.key = k => c \in work[q] \/ c.attempts > rows[k].attempts
      BY <1>a, <2>1, <2>3
    <3>2. Left(k)' \subseteq Left(k)
      BY <1>a, <2>3, <3>1 DEF Left
    <3>3. Owed(k)' = 0 /\ Owed(k) = 1
      BY <2>3 DEF Owed
    <3>4. QED
      BY <1>a, <2>1, <2>3, <3>2, <3>3, StillPaid DEF CountInv, Goal
  <2>4. QED
    BY <1>4, <2>2, <2>3, DrainRow
<1>5. ASSUME NEW p \in Procs, NEW s \in Subs, Create(p, s) PROVE Goal
  BY <1>5, <1>b DEF Create, Untouched, histVars
<1>6. ASSUME NEW p \in Procs, NEW s \in Subs, Delete(p, s) PROVE Goal
  <2>1. rows'[k] = rows[k]
    BY <1>6 DEF Delete, NoRow
  <2>2. QED
    BY <1>6, <2>1, <1>b DEF Delete, Untouched, histVars
<1>7. ASSUME NEW p \in Procs, NEW e \in Events, NEW full \in BOOLEAN, Emit(p, e, full) PROVE Goal
  <2>1. CASE rows'[k] = rows[k]
    BY <1>7, <2>1, <1>b DEF Emit, Untouched, histVars
  <2>2. CASE rows'[k] = Fresh
    <3>1. Owed(k)' = 1 /\ rows'[k].attempts = 0
      BY <2>2 DEF Owed, Fresh, NoRow
    <3>2. Cardinality(Left(k)') \in 0..Retries
      BY LeftFinite DEF Left
    <3>3. QED
      BY <1>a, <3>1, <3>2, WebhookConstants DEF Goal
  <2>3. QED
    BY <1>7, <2>1, <2>2 DEF Emit
<1>8. ASSUME NEW j \in Keys, Elapse(j) PROVE Goal
  <2>1. rows'[k].attempts = rows[k].attempts /\ rows'[k].status = rows[k].status
    BY <1>8, <1>a DEF Elapse, TypeOK, Row
  <2>2. QED
    BY <1>8, <2>1, <1>b DEF Elapse, Untouched, procVars, histVars
<1>9. ASSUME NEW p \in Procs, NEW a \in work[p], Mark(p, a) PROVE Goal
  <2>1. /\ work'[p] = work[p] \ {a} /\ \A q \in Procs : q # p => work'[q] = work[q]
        /\ recovered' = recovered
    BY <1>9, MarkRow DEF Mark, histVars
  <2>2. CASE k # a.key \/ rows[k].status = "none"
    BY <1>9, <2>1, <2>2, <1>b, MarkRow DEF Untouched
  <2>3. CASE k = a.key /\ rows[k].status # "none"
    <3>1. /\ rows'[k].status = Verdict(a) /\ rows'[k].attempts = rows[k].attempts
      BY <1>9, <2>3, MarkRow
    <3>2. Left(k)' \subseteq Left(k)
      BY <2>1, <3>1 DEF Left
    <3>3. CASE Verdict(a) # "pending"
      <4>1. Owed(k)' = 0 /\ Owed(k) \in 0..1
        BY <3>1, <3>3 DEF Owed
      <4>2. QED
        BY <1>a, <2>1, <2>3, <3>1, <3>2, <4>1, StillPaid DEF CountInv, Goal
    <3>4. CASE Verdict(a) = "pending"
      <4>1. a.attempts \in 1..Retries
        BY <3>4, WebhookConstants DEF Verdict, CountInv, NumberInv, NumbersCounted, TypeOK, Attempt
      <4>2. a.attempts <= rows[k].attempts
        BY <2>3 DEF CountInv, NumberInv, NumbersCounted
      <4>3. a.attempts \in Left(k)
        BY <2>3, <4>1 DEF Left
      <4>4. a.attempts \notin Left(k)'
        <5>1. \A q \in Procs : \A c \in work'[q] : c.key = k => c.attempts # a.attempts
          BY <2>1, <2>3 DEF CountInv, NumberInv, NumbersApart
        <5>2. QED
          BY <1>a, <3>1, <4>1, <4>2, <5>1 DEF Left
      <4>5. QED
        BY <2>1, <2>3, <3>1, <3>2, <4>3, <4>4, SpentPaid DEF CountInv, Goal
    <3>5. QED
      BY <3>3, <3>4
  <2>4. QED
    BY <2>2, <2>3
<1>10. ASSUME NEW p \in Procs, NEW a \in work[p], NEW o \in Outcomes, Send(p, a, o) PROVE Goal
  <2>1. \A q \in Procs : \A c \in work'[q] : c \in work[q] \/ (q = p /\ c = [a EXCEPT !.outcome = o])
    BY <1>10 DEF Send, Answered, TypeOK
  <2>2. a \in Attempt /\ [a EXCEPT !.outcome = o].key = a.key /\ [a EXCEPT !.outcome = o].attempts = a.attempts
    BY DEF TypeOK, Attempt
  <2>3. QED
    BY <1>10, <2>1, <2>2, <1>b DEF Send, Untouched, storeVars
<1>11. CASE UNCHANGED vars
  BY <1>11, <1>b DEF vars, Untouched, storeVars, procVars, histVars, Goal
<1>12. ASSUME NEW p \in Procs, NEW a \in work[p], MarkThrows(p, a) PROVE Goal
  <2>1. \A q \in Procs : \A c \in work'[q] :
           c \in work[q] \/ (q = p /\ c = [a EXCEPT !.outcome = "caught"])
    BY <1>12 DEF MarkThrows, Answered, TypeOK
  <2>2. /\ a \in Attempt /\ [a EXCEPT !.outcome = "caught"].key = a.key
        /\ [a EXCEPT !.outcome = "caught"].attempts = a.attempts
    BY DEF TypeOK, Attempt
  <2>3. QED
    BY <1>12, <2>1, <2>2, <1>b DEF MarkThrows, Untouched, storeVars
<1>13. QED
  BY <1>1, <1>2, <1>3, <1>4, <1>5, <1>6, <1>7, <1>8, <1>9, <1>10, <1>11, <1>12 DEF Next, Goal

\* A delivery is attempted at most once per step of the backoff and once more, plus
\* once for every time a start took its row back, however many processes send it.
THEOREM AttemptsAreBounded == Spec => []AttemptsBounded
<1>1. CountInv /\ TypeOK => AttemptsBounded
  <2> SUFFICES ASSUME CountInv, TypeOK, NEW k \in Keys
               PROVE  rows[k].attempts <= Retries + 1 + recovered[k]
    BY DEF AttemptsBounded
  <2>1. rows[k].attempts \in Nat /\ recovered[k] \in Nat /\ Owed(k) \in Nat
    BY DEF TypeOK, Row, Owed
  <2>2. Cardinality(Left(k)) \in Nat
    BY LeftFinite DEF Left
  <2>3. QED
    BY <2>1, <2>2, WebhookConstants DEF CountInv, NumberInv, NoneCountsNothing, Paid
<1>2. TypeOK /\ AckInv /\ CountInv /\ [Next]_vars => CountInv'
  BY TypeStep, NumberStep, PaidStep DEF CountInv
<1>3. TypeOK /\ AckInv /\ [Next]_vars => AckInv'
  BY AckStep
<1>4. Spec => []AckInv
  BY <1>3, AckInit, WebhookTypeCorrect, PTL DEF Spec
<1>5. Spec => []CountInv
  BY <1>2, <1>4, CountInit, WebhookTypeCorrect, PTL DEF Spec
<1>6. QED
  BY <1>1, <1>5, WebhookTypeCorrect, PTL
=============================================================================
