--------------------------- MODULE StreamsProofs ---------------------------
(***************************************************************************)
(* Proofs about TurnStreams for every family of turns, every set of        *)
(* clients and every cap and retention: its type, that interest in tokens  *)
(* is owned exactly, that buffers live as long as they should, and that    *)
(* what a client has and is told is true.                                  *)
(***************************************************************************)
EXTENDS TurnStreams, FiniteSetTheorems, FunctionTheorems, WellFoundedInduction, TLAPS

-----------------------------------------------------------------------------
(* Events ranked by their number: the order of a replay *)

\* A set of numbers that is not empty has a least one.
LEMMA LeastNumber ==
    ASSUME NEW T \in SUBSET Nat, T # {}
    PROVE  \E m \in T : \A k \in T : m <= k
<1> DEFINE R == {p \in Nat \X Nat : p[1] < p[2]}
<1>1. IsWellFoundedOn(R, Nat)
  BY NatLessThanWellFounded DEF OpToRel
<1> HIDE DEF R
<1>2. PICK m \in T : \A k \in T : ~(<<k, m>> \in R)
  BY <1>1, WFMin
<1>3. ASSUME NEW k \in T
      PROVE  m <= k
  <2>1. ASSUME NEW x \in Nat, NEW y \in Nat, x < y
        PROVE  <<x, y>> \in R
    BY <2>1 DEF R
  <2>2. m \in Nat /\ k \in Nat
    OBVIOUS
  <2>3. ~(k < m)
    BY <1>2, <2>1, <2>2
  <2>4. QED
    BY <2>2, <2>3
<1>4. QED
  BY <1>3

\* A set of events no two of which have the same number, all of them below N.
Distinct(A, N) ==
    /\ A \in SUBSET Event
    /\ \A e \in A : e.n < N
    /\ \A d, e \in A : d.n = e.n => d = e

Below(A, m) == {d \in A : d.n < m}
UpTo(A, e) == {d \in A : d.n <= e.n}

LEMMA DistinctFinite ==
    ASSUME NEW A, NEW N \in Nat, Distinct(A, N)
    PROVE  /\ IsFiniteSet(A) /\ Cardinality(A) \in Nat
           /\ \A m : IsFiniteSet(Below(A, m)) /\ Cardinality(Below(A, m)) \in Nat
           /\ \A e : IsFiniteSet(UpTo(A, e)) /\ Cardinality(UpTo(A, e)) \in Nat
<1> DEFINE f == [e \in A |-> e.n]
<1>0. ASSUME NEW e \in A PROVE e.n \in Nat
  BY DEF Distinct, Event
<1>1. f \in Injection(A, 0..N)
  BY <1>0 DEF Distinct, Injection, IsInjective
<1>2. IsFiniteSet(0..N)
  BY FS_Interval
<1>3. IsFiniteSet(A)
  BY <1>1, <1>2, FS_Injection
<1>4. Cardinality(A) \in Nat
  BY <1>3, FS_CardinalityType
<1>5. ASSUME NEW m PROVE IsFiniteSet(Below(A, m)) /\ Cardinality(Below(A, m)) \in Nat
  <2>1. Below(A, m) \in SUBSET A
    BY DEF Below
  <2>2. IsFiniteSet(Below(A, m))
    BY <1>3, <2>1, FS_Subset
  <2>3. QED
    BY <2>2, FS_CardinalityType
<1>6. ASSUME NEW e PROVE IsFiniteSet(UpTo(A, e)) /\ Cardinality(UpTo(A, e)) \in Nat
  <2>1. UpTo(A, e) \in SUBSET A
    BY DEF UpTo
  <2>2. IsFiniteSet(UpTo(A, e))
    BY <1>3, <2>1, FS_Subset
  <2>3. QED
    BY <2>2, FS_CardinalityType
<1>7. QED
  BY <1>3, <1>4, <1>5, <1>6

\* The rank of an event is a place of the replay, and a later event ranks higher.
LEMMA RankOrder ==
    ASSUME NEW A, NEW N \in Nat, Distinct(A, N), NEW e \in A
    PROVE  /\ Cardinality(UpTo(A, e)) \in 1..Cardinality(A)
           /\ \A d \in A : d.n < e.n => Cardinality(UpTo(A, d)) < Cardinality(UpTo(A, e))
<1>0. \A d \in A : d.n \in Nat
  BY DEF Distinct, Event
<1>1. UpTo(A, e) \in SUBSET A /\ e \in UpTo(A, e)
  BY <1>0 DEF UpTo
<1>2. Cardinality(UpTo(A, e)) <= Cardinality(A)
  BY <1>1, DistinctFinite, FS_Subset
<1>3. Cardinality(UpTo(A, e)) # 0
  BY <1>1, DistinctFinite, FS_EmptySet
<1>4. ASSUME NEW d \in A, d.n < e.n
      PROVE  Cardinality(UpTo(A, d)) < Cardinality(UpTo(A, e))
  <2>1. UpTo(A, d) \in SUBSET UpTo(A, e)
    BY <1>0, <1>4 DEF UpTo
  <2>2. e \notin UpTo(A, d)
    BY <1>0, <1>4 DEF UpTo
  <2>3. UpTo(A, d) # UpTo(A, e)
    BY <1>1, <2>2
  <2>4. /\ Cardinality(UpTo(A, d)) <= Cardinality(UpTo(A, e))
        /\ Cardinality(UpTo(A, e)) # Cardinality(UpTo(A, d))
    BY <2>1, <2>3, DistinctFinite, FS_Subset
  <2>5. QED
    BY <2>4, DistinctFinite
<1>5. Cardinality(UpTo(A, e)) \in Nat /\ Cardinality(A) \in Nat
  BY DistinctFinite
<1>6. Cardinality(UpTo(A, e)) \in 1..Cardinality(A)
  BY <1>2, <1>3, <1>5
<1>7. QED
  BY <1>4, <1>6

\* One number more takes in at most one event.
LEMMA BelowNext ==
    ASSUME NEW A, NEW N \in Nat, Distinct(A, N), NEW m \in Nat
    PROVE  /\ (\A e \in A : e.n # m) => Below(A, m + 1) = Below(A, m)
           /\ \A e \in A : e.n = m =>
                 /\ Below(A, m + 1) = UpTo(A, e)
                 /\ Cardinality(Below(A, m + 1)) = Cardinality(Below(A, m)) + 1
<1>0. \A d \in A : d.n \in Nat
  BY DEF Distinct, Event
<1>1. (\A e \in A : e.n # m) => Below(A, m + 1) = Below(A, m)
  BY <1>0 DEF Below
<1>2. ASSUME NEW e \in A, e.n = m
      PROVE  /\ Below(A, m + 1) = UpTo(A, e)
             /\ Cardinality(Below(A, m + 1)) = Cardinality(Below(A, m)) + 1
  <2>1. Below(A, m + 1) = UpTo(A, e)
    BY <1>0, <1>2 DEF Below, UpTo
  <2>2. \A d \in A : d.n = m => d = e
    BY <1>2 DEF Distinct
  <2>3. Below(A, m + 1) = Below(A, m) \cup {e} /\ e \notin Below(A, m)
    BY <1>0, <1>2, <2>2 DEF Below
  <2>4. IsFiniteSet(Below(A, m))
    BY DistinctFinite
  <2>5. Cardinality(Below(A, m) \cup {e}) = Cardinality(Below(A, m)) + 1
    BY <2>3, <2>4, FS_AddElement
  <2>6. QED
    BY <2>1, <2>3, <2>5
<1>3. QED
  BY <1>1, <1>2

\* Every place of the replay is the rank of an event.
LEMMA RankReached ==
    ASSUME NEW A, NEW N \in Nat, Distinct(A, N), NEW k \in 1..Cardinality(A)
    PROVE  \E e \in A : Cardinality(UpTo(A, e)) = k
<1> DEFINE C(m) == Cardinality(Below(A, m))
<1> DEFINE T == {m \in Nat : C(m) >= k}
<1>0. /\ \A m \in Nat : C(m) \in Nat
      /\ k \in Nat /\ k # 0 /\ Cardinality(A) \in Nat /\ k <= Cardinality(A)
  BY DistinctFinite
<1>1. N \in T
  <2>1. Below(A, N) = A
    BY DEF Below, Distinct
  <2>2. QED
    BY <1>0, <2>1
<1>2. PICK m \in T : \A j \in T : m <= j
  <2> HIDE DEF T
  <2>1. T \in SUBSET Nat
    BY DEF T
  <2>2. QED
    BY <1>1, <2>1, LeastNumber
<1>3. m # 0
  <2>1. \A d \in A : d.n \in Nat
    BY DEF Distinct, Event
  <2>2. Below(A, 0) = {}
    BY <2>1 DEF Below
  <2>3. C(0) = 0
    BY <2>2, FS_EmptySet
  <2>4. QED
    BY <1>0, <2>3
<1>4. PICK p \in Nat : m = p + 1
  <2>1. m \in Nat
    OBVIOUS
  <2>2. m - 1 \in Nat /\ m = (m - 1) + 1
    BY <1>3, <2>1
  <2>3. QED
    BY <2>2
<1>5. C(p) < k
  <2>1. p \notin T
    <3>1. ~(m <= p)
      BY <1>4
    <3>2. QED
      BY <1>2, <3>1
  <2>2. QED
    BY <1>0, <2>1
<1>6. C(p + 1) >= k
  BY <1>4
<1> HIDE DEF T
<1>7. PICK e \in A : e.n = p
  BY <1>0, <1>5, <1>6, BelowNext
<1>8. C(p + 1) = C(p) + 1 /\ Below(A, p + 1) = UpTo(A, e)
  BY <1>7, BelowNext
<1>9. C(p + 1) = k
  <2>1. C(p) \in Nat /\ C(p + 1) \in Nat
    BY <1>0
  <2>2. C(p + 1) = C(p) + 1
    BY <1>8
  <2> HIDE DEF C
  <2>3. QED
    BY <1>0, <1>5, <1>6, <2>1, <2>2
<1>10. QED
  BY <1>8, <1>9

\* The events of a set in the order of their numbers.
InOrder(A) == [i \in 1..Cardinality(A) |-> CHOOSE e \in A : Cardinality({d \in A : d.n <= e.n}) = i]

LEMMA Sorted ==
    ASSUME NEW A, NEW N \in Nat, Distinct(A, N)
    PROVE  /\ InOrder(A) \in Seq(Event) /\ Len(InOrder(A)) = Cardinality(A)
           /\ \A i \in 1..Cardinality(A) : InOrder(A)[i] \in A
           /\ \A e \in A : \E i \in 1..Cardinality(A) : InOrder(A)[i] = e
           /\ \A i, j \in 1..Cardinality(A) : i < j => InOrder(A)[i].n < InOrder(A)[j].n
<1> DEFINE s == InOrder(A)
           Rank(e) == Cardinality(UpTo(A, e))
<1>0. Cardinality(A) \in Nat /\ A \in SUBSET Event
  BY DistinctFinite DEF Distinct
<1>1. ASSUME NEW i \in 1..Cardinality(A)
      PROVE  s[i] \in A /\ Rank(s[i]) = i
  <2>1. s[i] = CHOOSE e \in A : Rank(e) = i
    BY DEF InOrder, UpTo
  <2>2. \E e \in A : Rank(e) = i
    BY RankReached
  <2>3. QED
    BY <2>1, <2>2
<1>2. s \in [1..Cardinality(A) -> Event]
  <2> DEFINE P(i) == CHOOSE e \in A : Cardinality({d \in A : d.n <= e.n}) = i
  <2>1. s = [i \in 1..Cardinality(A) |-> P(i)]
    BY DEF InOrder
  <2> HIDE DEF P, s
  <2>2. \A i \in 1..Cardinality(A) : P(i) \in Event
    BY <1>0, <1>1, <2>1
  <2>3. QED
    BY <2>1, <2>2
<1>3. s \in Seq(Event) /\ Len(s) = Cardinality(A)
  BY <1>0, <1>2
<1>4. \A d, e \in A : Rank(d) \in Nat /\ d.n \in Nat /\ (d.n < e.n => Rank(d) < Rank(e))
  BY RankOrder, DistinctFinite DEF Distinct, Event
<1>5. \A d, e \in A : d.n = e.n => d = e
  BY DEF Distinct
<1> HIDE DEF Rank, s
<1>6. ASSUME NEW i \in 1..Cardinality(A), NEW j \in 1..Cardinality(A), i < j
      PROVE  s[i].n < s[j].n
  <2>1. /\ s[i] \in A /\ s[j] \in A
        /\ Rank(s[i]) < Rank(s[j])
    BY <1>1, <1>6
  <2>2. ~(s[j].n < s[i].n)
    BY <1>4, <2>1
  <2>3. s[i].n # s[j].n
    <3>1. s[i] # s[j]
      BY <1>4, <2>1
    <3>2. QED
      BY <1>5, <2>1, <3>1
  <2>4. s[i].n \in Nat /\ s[j].n \in Nat
    BY <1>4, <2>1
  <2>5. QED
    BY <2>2, <2>3, <2>4
<1>7. ASSUME NEW e \in A
      PROVE  \E i \in 1..Cardinality(A) : s[i] = e
  <2>1. Rank(e) \in 1..Cardinality(A)
    BY RankOrder DEF Rank
  <2>2. PICK i \in 1..Cardinality(A) : i = Rank(e)
    BY <2>1
  <2>3. s[i] \in A /\ Rank(s[i]) = Rank(e)
    BY <1>1, <2>2
  <2>4. s[i].n = e.n
    BY <1>4, <2>3
  <2>5. QED
    BY <1>5, <2>3, <2>4
<1>8. QED
  BY <1>0, <1>1, <1>3, <1>6, <1>7 DEF s

-----------------------------------------------------------------------------
(* Recording an event, field by field *)

\* A buffer that is not in the map holds nothing.
Empty == \A t \in Turns : buf[t].state = "none" => buf[t] = NoBuffer

Ev(t, kind) == [turn |-> t, kind |-> kind, n |-> seq]
Kinds == {"plain", "chunk", "end"}

\* The events of a buffer with one more, within the cap.
Kept(s, e) == IF Len(s) + 1 > MaxEvents THEN Tail(Append(s, e)) ELSE Append(s, e)

LEMMA KeptEvents ==
    ASSUME NEW s \in Seq(Event), NEW e \in Event
    PROVE  /\ Kept(s, e) \in Seq(Event)
           /\ Len(s) + 1 > MaxEvents =>
                 /\ Len(Kept(s, e)) = Len(s) /\ Len(s) # 0
                 /\ \A i \in 1..Len(s) :
                       Kept(s, e)[i] = IF i = Len(s) THEN e ELSE s[i + 1]
           /\ ~(Len(s) + 1 > MaxEvents) =>
                 /\ Len(Kept(s, e)) = Len(s) + 1
                 /\ \A i \in 1..(Len(s) + 1) :
                       Kept(s, e)[i] = IF i = Len(s) + 1 THEN e ELSE s[i]
<1>1. MaxEvents \in Nat \ {0} /\ Len(s) \in Nat
  BY StreamConstants
<1> DEFINE g == Append(s, e)
<1>2. /\ g \in Seq(Event) /\ Len(g) = Len(s) + 1
      /\ \A i \in 1..(Len(s) + 1) : g[i] = IF i = Len(s) + 1 THEN e ELSE s[i]
  OBVIOUS
<1> HIDE DEF g
<1>3. CASE Len(s) + 1 > MaxEvents
  <2>1. Kept(s, e) = Tail(g)
    BY <1>3 DEF Kept, g
  <2>2. g # <<>>
    BY <1>1, <1>2
  <2>3. /\ Tail(g) \in Seq(Event) /\ Len(Tail(g)) = Len(s)
        /\ \A i \in 1..Len(s) : Tail(g)[i] = g[i + 1]
    BY <1>1, <1>2, <2>2
  <2>4. Len(s) # 0
    BY <1>1, <1>3
  <2>5. ASSUME NEW i \in 1..Len(s)
        PROVE  Kept(s, e)[i] = IF i = Len(s) THEN e ELSE s[i + 1]
    <3>1. i + 1 \in 1..(Len(s) + 1) /\ (i + 1 = Len(s) + 1 <=> i = Len(s))
      BY <1>1
    <3>2. QED
      BY <1>2, <2>1, <2>3, <3>1
  <2>6. QED
    BY <1>3, <2>1, <2>3, <2>4, <2>5
<1>4. CASE ~(Len(s) + 1 > MaxEvents)
  <2>1. Kept(s, e) = g
    BY <1>4 DEF Kept, g
  <2>2. QED
    BY <1>2, <1>4, <2>1
<1>5. QED
  BY <1>3, <1>4

\* Whether a client is sent an event of a turn, and whether that ends its stream.
Heard(c, t, kind) ==
    /\ client[c].phase = "open"
    /\ kind = "chunk" => client[c].chunks
    /\ \/ c \in buf[t].listeners
       \/ /\ Parent[t] # None
          /\ c \in buf[Parent[t]].listeners
          /\ client[c].children

Ended(c, t, kind) == Heard(c, t, kind) /\ kind = "end" /\ client[c].turn = t

LEMMA EventType ==
    ASSUME TypeOK, NEW t \in Turns, NEW kind \in Kinds
    PROVE  Ev(t, kind) \in Event
BY DEF TypeOK, Ev, Event, Kinds

LEMMA Pushed ==
    ASSUME NEW b \in Buffer, NEW e \in Event
    PROVE  /\ Push(b, e) \in Buffer
           /\ Push(b, e).events = Kept(b.events, e)
           /\ Push(b, e).dropped = IF Len(b.events) + 1 > MaxEvents THEN b.dropped + 1 ELSE b.dropped
           /\ Push(b, e).chunks = IF e.kind = "chunk" /\ b.chunks = "none" THEN "partial" ELSE b.chunks
           /\ Push(b, e).state = b.state /\ Push(b, e).endedAt = b.endedAt
           /\ Push(b, e).listeners = b.listeners /\ Push(b, e).children = b.children
           /\ Push(b, e).holds = b.holds
<1>1. b.events \in Seq(Event)
  BY DEF Buffer
<1>2. Len(Append(b.events, e)) = Len(b.events) + 1
  BY <1>1
<1> DEFINE k == Kept(b.events, e)
<1>3. Push(b, e) = [b EXCEPT !.events = k,
                  !.dropped = IF Len(b.events) + 1 > MaxEvents THEN @ + 1 ELSE @,
                  !.chunks = IF e.kind = "chunk" /\ @ = "none" THEN "partial" ELSE @]
  BY <1>2 DEF Push, Kept
<1>4. k \in Seq(Event)
  BY <1>1, KeptEvents
<1> HIDE DEF k
<1>5. /\ Push(b, e) \in Buffer
      /\ Push(b, e).events = k
      /\ Push(b, e).dropped = IF Len(b.events) + 1 > MaxEvents THEN b.dropped + 1 ELSE b.dropped
      /\ Push(b, e).chunks = IF e.kind = "chunk" /\ b.chunks = "none" THEN "partial" ELSE b.chunks
      /\ Push(b, e).state = b.state /\ Push(b, e).endedAt = b.endedAt
      /\ Push(b, e).listeners = b.listeners /\ Push(b, e).children = b.children
      /\ Push(b, e).holds = b.holds
  <2> DEFINE d == IF Len(b.events) + 1 > MaxEvents THEN b.dropped + 1 ELSE b.dropped
             ch == IF e.kind = "chunk" /\ b.chunks = "none" THEN "partial" ELSE b.chunks
  <2>1. d \in Nat /\ ch \in {"start", "partial", "none"}
    BY DEF Buffer
  <2>2. Push(b, e) = [b EXCEPT !.events = k, !.dropped = d, !.chunks = ch]
    BY <1>3
  <2>3. b = [events |-> b.events, state |-> b.state, endedAt |-> b.endedAt,
             listeners |-> b.listeners, children |-> b.children,
             dropped |-> b.dropped, chunks |-> b.chunks, holds |-> b.holds]
    BY DEF Buffer
  <2> HIDE DEF d, ch
  <2>4. Push(b, e) = [events |-> k, state |-> b.state, endedAt |-> b.endedAt,
             listeners |-> b.listeners, children |-> b.children,
             dropped |-> d, chunks |-> ch, holds |-> b.holds]
    BY <2>2, <2>3
  <2>5. /\ b.state \in {"none", "running", "ended"} /\ b.endedAt \in Nat
        /\ b.listeners \in SUBSET Clients /\ b.children \in SUBSET Turns
        /\ b.holds \in BOOLEAN
    BY DEF Buffer
  <2>6. Push(b, e) \in Buffer
    BY <1>4, <2>1, <2>4, <2>5 DEF Buffer
  <2>7. QED
    <3>1. /\ Push(b, e).events = k /\ Push(b, e).dropped = d /\ Push(b, e).chunks = ch
          /\ Push(b, e).state = b.state /\ Push(b, e).endedAt = b.endedAt
          /\ Push(b, e).listeners = b.listeners /\ Push(b, e).children = b.children
      BY <2>4
    <3>2. Push(b, e).holds = b.holds
      BY <2>4
    <3>3. QED
      BY <2>6, <3>1, <3>2, Zenon DEF d, ch
<1>6. QED
  BY <1>5 DEF k

LEMMA EmptyBuffer ==
    /\ NoBuffer \in Buffer
    /\ \A b \in BOOLEAN : Fresh(b) \in Buffer
    /\ \A b \in BOOLEAN :
          /\ Fresh(b).state = "running" /\ Fresh(b).events = <<>> /\ Fresh(b).endedAt = 0
          /\ Fresh(b).listeners = {} /\ Fresh(b).children = {} /\ Fresh(b).dropped = 0
          /\ Fresh(b).holds = b /\ Fresh(b).chunks = (IF b THEN "start" ELSE "none")
<1>1. <<>> \in Seq(Event)
  OBVIOUS
<1>2. NoBuffer \in Buffer
  BY <1>1 DEF NoBuffer, Buffer
<1>3. /\ NoBuffer.events = <<>> /\ NoBuffer.endedAt = 0 /\ NoBuffer.listeners = {}
      /\ NoBuffer.children = {} /\ NoBuffer.dropped = 0
  BY DEF NoBuffer
<1>4. /\ Fresh(TRUE) \in Buffer
      /\ Fresh(TRUE).state = "running" /\ Fresh(TRUE).events = <<>> /\ Fresh(TRUE).endedAt = 0
      /\ Fresh(TRUE).listeners = {} /\ Fresh(TRUE).children = {} /\ Fresh(TRUE).dropped = 0
      /\ Fresh(TRUE).holds = TRUE /\ Fresh(TRUE).chunks = "start"
  <2>1. PICK r : r = [NoBuffer EXCEPT !.state = "running", !.chunks = "start", !.holds = TRUE]
    OBVIOUS
  <2>2. Fresh(TRUE) = r
    BY <2>1, Zenon DEF Fresh
  <2>3. r \in Buffer
    BY <1>2, <2>1 DEF Buffer
  <2>4. /\ r.state = "running" /\ r.events = NoBuffer.events /\ r.endedAt = NoBuffer.endedAt
        /\ r.listeners = NoBuffer.listeners /\ r.children = NoBuffer.children
        /\ r.dropped = NoBuffer.dropped /\ r.chunks = "start" /\ r.holds = TRUE
    BY <1>2, <2>1 DEF Buffer
  <2>5. QED
    BY <1>3, <2>2, <2>3, <2>4, Zenon
<1>5. /\ Fresh(FALSE) \in Buffer
      /\ Fresh(FALSE).state = "running" /\ Fresh(FALSE).events = <<>> /\ Fresh(FALSE).endedAt = 0
      /\ Fresh(FALSE).listeners = {} /\ Fresh(FALSE).children = {} /\ Fresh(FALSE).dropped = 0
      /\ Fresh(FALSE).holds = FALSE /\ Fresh(FALSE).chunks = "none"
  <2>1. PICK r : r = [NoBuffer EXCEPT !.state = "running", !.chunks = "none", !.holds = FALSE]
    OBVIOUS
  <2>2. Fresh(FALSE) = r
    BY <2>1, Zenon DEF Fresh
  <2>3. r \in Buffer
    BY <1>2, <2>1 DEF Buffer
  <2>4. /\ r.state = "running" /\ r.events = NoBuffer.events /\ r.endedAt = NoBuffer.endedAt
        /\ r.listeners = NoBuffer.listeners /\ r.children = NoBuffer.children
        /\ r.dropped = NoBuffer.dropped /\ r.chunks = "none" /\ r.holds = FALSE
    BY <1>2, <2>1 DEF Buffer
  <2>5. QED
    BY <1>3, <2>2, <2>3, <2>4, Zenon
<1>6. ASSUME NEW b \in BOOLEAN
      PROVE  /\ Fresh(b) \in Buffer
             /\ Fresh(b).state = "running" /\ Fresh(b).events = <<>> /\ Fresh(b).endedAt = 0
             /\ Fresh(b).listeners = {} /\ Fresh(b).children = {} /\ Fresh(b).dropped = 0
             /\ Fresh(b).holds = b /\ Fresh(b).chunks = (IF b THEN "start" ELSE "none")
  <2>1. b = TRUE \/ b = FALSE
    BY Zenon
  <2>2. QED
    BY <1>4, <1>5, <2>1, Zenon
<1>7. QED
  BY <1>2, <1>6, Zenon

\* What an event leaves as it was, and what it adds to the buffer of its turn.
LEMMA GrownFields ==
    ASSUME TypeOK, Empty, NEW t \in Turns, NEW kind \in Kinds
    PROVE  LET g == Grown(Ev(t, kind))
           IN  /\ g \in [Turns -> Buffer]
               /\ \A x \in Turns :
                     /\ g[x].listeners = buf[x].listeners /\ g[x].holds = buf[x].holds
                     /\ g[x].endedAt = buf[x].endedAt
                     /\ x # t => /\ g[x].events = buf[x].events /\ g[x].state = buf[x].state
                                 /\ g[x].dropped = buf[x].dropped /\ g[x].chunks = buf[x].chunks
               /\ \A x \in Turns : x # t /\ buf[x].state = "none" => g[x] = NoBuffer
               /\ g[t].events = Kept(buf[t].events, Ev(t, kind))
               /\ g[t].state = IF buf[t].state = "none" THEN "running" ELSE buf[t].state
               /\ g[t].dropped = IF Len(buf[t].events) + 1 > MaxEvents
                                 THEN buf[t].dropped + 1 ELSE buf[t].dropped
               /\ g[t].chunks = IF kind = "chunk" /\ buf[t].chunks = "none"
                                THEN "partial" ELSE buf[t].chunks
<1> DEFINE e == Ev(t, kind)
           was == IF buf[t].state = "none" THEN Fresh(FALSE) ELSE buf[t]
           push == Push(was, e)
           pushed == [buf EXCEPT ![t] = push]
           p == Parent[t]
           g == Grown(e)
<1>1. e \in Event /\ e.turn = t /\ e.kind = kind
  BY EventType DEF Ev
<1>2. /\ was \in Buffer /\ was.events = buf[t].events /\ was.dropped = buf[t].dropped
      /\ was.chunks = buf[t].chunks /\ was.endedAt = buf[t].endedAt
      /\ was.listeners = buf[t].listeners /\ was.holds = buf[t].holds
      /\ was.state = IF buf[t].state = "none" THEN "running" ELSE buf[t].state
  <2>1. CASE buf[t].state = "none"
    <3>1. was = Fresh(FALSE) /\ buf[t] = NoBuffer
      BY <2>1 DEF Empty
    <3>2. /\ NoBuffer.events = <<>> /\ NoBuffer.dropped = 0 /\ NoBuffer.chunks = "none"
          /\ NoBuffer.endedAt = 0 /\ NoBuffer.listeners = {} /\ NoBuffer.holds = FALSE
      BY DEF NoBuffer
    <3>3. /\ Fresh(FALSE) \in Buffer /\ Fresh(FALSE).state = "running"
          /\ Fresh(FALSE).events = <<>> /\ Fresh(FALSE).endedAt = 0
          /\ Fresh(FALSE).listeners = {} /\ Fresh(FALSE).dropped = 0
          /\ Fresh(FALSE).holds = FALSE /\ Fresh(FALSE).chunks = "none"
      BY EmptyBuffer, Zenon
    <3>4. QED
      BY <2>1, <3>1, <3>2, <3>3, Zenon
  <2>2. CASE buf[t].state # "none"
    BY <2>2 DEF TypeOK
  <2>3. QED
    BY <2>1, <2>2
<1>3. buf \in [Turns -> Buffer] /\ Parent \in [Turns -> Turns \cup {None}] /\ p # t
  BY StreamConstants DEF TypeOK
<1>4. g = IF p # None /\ pushed[p].state # "none"
          THEN [pushed EXCEPT ![p].children = @ \cup {t}] ELSE pushed
  BY DEF Grown, Ev
<1>5. /\ push \in Buffer /\ push.events = Kept(was.events, e)
      /\ push.dropped = (IF Len(was.events) + 1 > MaxEvents THEN was.dropped + 1 ELSE was.dropped)
      /\ push.chunks = (IF e.kind = "chunk" /\ was.chunks = "none" THEN "partial" ELSE was.chunks)
      /\ push.state = was.state /\ push.endedAt = was.endedAt
      /\ push.listeners = was.listeners /\ push.holds = was.holds
  <2> HIDE DEF was, e
  <2> QED
    BY <1>1, <1>2, Pushed
<1>6. pushed \in [Turns -> Buffer] /\ pushed[t] = push /\ \A x \in Turns \ {t} : pushed[x] = buf[x]
  <2> HIDE DEF push
  <2> QED
    BY <1>3, <1>5
<1> HIDE DEF was, push, pushed, g, p
<1>7. /\ g \in [Turns -> Buffer]
      /\ \A x \in Turns : /\ g[x].listeners = pushed[x].listeners /\ g[x].holds = pushed[x].holds
                          /\ g[x].endedAt = pushed[x].endedAt /\ g[x].events = pushed[x].events
                          /\ g[x].state = pushed[x].state /\ g[x].dropped = pushed[x].dropped
                          /\ g[x].chunks = pushed[x].chunks
      /\ \A x \in Turns : pushed[x].state = "none" => g[x] = pushed[x]
  <2>1. CASE p # None /\ pushed[p].state # "none"
    <3>1. p \in Turns
      BY <1>3, <2>1 DEF p
    <3>2. g = [pushed EXCEPT ![p].children = @ \cup {t}]
      BY <1>4, <2>1
    <3> DEFINE r == [pushed[p] EXCEPT !.children = @ \cup {t}]
    <3>3. /\ r \in Buffer /\ r.listeners = pushed[p].listeners /\ r.holds = pushed[p].holds
          /\ r.endedAt = pushed[p].endedAt /\ r.events = pushed[p].events
          /\ r.state = pushed[p].state /\ r.dropped = pushed[p].dropped
          /\ r.chunks = pushed[p].chunks
      <4>1. pushed[p] \in Buffer
        BY <1>6, <3>1
      <4>2. QED
        BY <4>1 DEF Buffer
    <3>4. g = [pushed EXCEPT ![p] = r]
      BY <1>6, <3>1, <3>2
    <3> HIDE DEF r
    <3>5. /\ g \in [Turns -> Buffer] /\ g[p] = r
          /\ \A x \in Turns \ {p} : g[x] = pushed[x]
      BY <1>6, <3>1, <3>3, <3>4
    <3>6. QED
      BY <2>1, <3>3, <3>5
  <2>2. CASE ~(p # None /\ pushed[p].state # "none")
    BY <1>4, <1>6, <2>2
  <2>3. QED
    BY <2>1, <2>2
<1>8. \A x \in Turns : x # t /\ buf[x].state = "none" => g[x] = NoBuffer
  BY <1>6, <1>7 DEF Empty
<1>9. /\ \A x \in Turns :
            /\ g[x].listeners = buf[x].listeners /\ g[x].holds = buf[x].holds
            /\ g[x].endedAt = buf[x].endedAt
            /\ x # t => /\ g[x].events = buf[x].events /\ g[x].state = buf[x].state
                        /\ g[x].dropped = buf[x].dropped /\ g[x].chunks = buf[x].chunks
      /\ g[t].events = Kept(buf[t].events, e)
      /\ g[t].state = IF buf[t].state = "none" THEN "running" ELSE buf[t].state
      /\ g[t].dropped = IF Len(buf[t].events) + 1 > MaxEvents
                        THEN buf[t].dropped + 1 ELSE buf[t].dropped
      /\ g[t].chunks = IF kind = "chunk" /\ buf[t].chunks = "none"
                       THEN "partial" ELSE buf[t].chunks
  BY <1>1, <1>2, <1>5, <1>6, <1>7
<1>10. QED
  BY <1>7, <1>8, <1>9 DEF g

LEMMA HearsHeard ==
    ASSUME TypeOK, Empty, NEW t \in Turns, NEW kind \in Kinds
    PROVE  \A c : /\ Hears(c, Ev(t, kind), Grown(Ev(t, kind))) <=> Heard(c, t, kind)
                  /\ EndsStream(c, Ev(t, kind), Grown(Ev(t, kind))) <=> Ended(c, t, kind)
<1> DEFINE e == Ev(t, kind)
           g == Grown(e)
<1>1. \A x \in Turns : g[x].listeners = buf[x].listeners
  BY GrownFields
<1>2. e.turn = t /\ e.kind = kind
  BY DEF Ev
<1>3. Parent[t] # None => Parent[t] \in Turns
  BY StreamConstants
<1> HIDE DEF e, g
<1>4. ASSUME NEW c PROVE Hears(c, e, g) <=> Heard(c, t, kind)
  BY <1>1, <1>2, <1>3, Zenon DEF Hears, Heard
<1>5. ASSUME NEW c PROVE EndsStream(c, e, g) <=> Ended(c, t, kind)
  BY <1>2, <1>4, Zenon DEF EndsStream, Ended
<1>6. QED
  BY <1>4, <1>5, Zenon DEF e, g

\* The buffers once an event is recorded, before the eviction.
After(t, kind) == Settled(Ev(t, kind), Grown(Ev(t, kind)))

StaysOpen(t, kind) == {c \in buf[t].listeners : ~Ended(c, t, kind)}

LEMMA AfterFields ==
    ASSUME TypeOK, Empty, NEW t \in Turns, NEW kind \in Kinds
    PROVE  LET a == After(t, kind)
           IN  /\ a \in [Turns -> Buffer]
               /\ \A x \in Turns :
                     /\ a[x].holds = buf[x].holds
                     /\ x # t => /\ a[x].events = buf[x].events /\ a[x].state = buf[x].state
                                 /\ a[x].dropped = buf[x].dropped /\ a[x].chunks = buf[x].chunks
                                 /\ a[x].listeners = buf[x].listeners
               /\ \A x \in Turns : x # t /\ buf[x].state = "none" => a[x] = NoBuffer
               /\ a[t].events = Kept(buf[t].events, Ev(t, kind))
               /\ a[t].state = IF kind = "end" THEN "ended"
                               ELSE IF buf[t].state = "none" THEN "running" ELSE buf[t].state
               /\ a[t].listeners = IF kind = "end" THEN StaysOpen(t, kind) ELSE buf[t].listeners
               /\ a[t].dropped = IF Len(buf[t].events) + 1 > MaxEvents
                                 THEN buf[t].dropped + 1 ELSE buf[t].dropped
               /\ a[t].chunks = IF kind = "chunk" /\ buf[t].chunks = "none"
                                THEN "partial" ELSE buf[t].chunks
<1> DEFINE e == Ev(t, kind)
           g == Grown(e)
           a == After(t, kind)
           l == {c \in g[t].listeners : ~EndsStream(c, e, g)}
           r == [g[t] EXCEPT !.state = "ended", !.endedAt = now, !.listeners = l]
<1>1. /\ g \in [Turns -> Buffer]
      /\ \A x \in Turns :
            /\ g[x].listeners = buf[x].listeners /\ g[x].holds = buf[x].holds
            /\ x # t => /\ g[x].events = buf[x].events /\ g[x].state = buf[x].state
                        /\ g[x].dropped = buf[x].dropped /\ g[x].chunks = buf[x].chunks
      /\ \A x \in Turns : x # t /\ buf[x].state = "none" => g[x] = NoBuffer
      /\ g[t].events = Kept(buf[t].events, e)
      /\ g[t].state = (IF buf[t].state = "none" THEN "running" ELSE buf[t].state)
      /\ g[t].dropped = (IF Len(buf[t].events) + 1 > MaxEvents
                         THEN buf[t].dropped + 1 ELSE buf[t].dropped)
      /\ g[t].chunks = (IF kind = "chunk" /\ buf[t].chunks = "none"
                        THEN "partial" ELSE buf[t].chunks)
  BY GrownFields, Zenon
<1>2. l = StaysOpen(t, kind)
  <2>1. g[t].listeners = buf[t].listeners
    BY <1>1
  <2>2. \A c : EndsStream(c, e, g) <=> Ended(c, t, kind)
    BY HearsHeard
  <2>3. QED
    BY <2>1, <2>2, Zenon DEF StaysOpen
<1>3. e.turn = t /\ e.kind = kind
  BY DEF Ev
<1> HIDE DEF e, g
<1>4. a = IF kind = "end" THEN [g EXCEPT ![t] = r] ELSE g
  <2>1. a = Settled(e, g)
    BY DEF After, e, g
  <2>2. g \in [Turns -> Buffer] /\ t \in Turns
    BY <1>1
  <2>3. CASE kind = "end"
    <3>1. a = [g EXCEPT ![t].state = "ended", ![t].endedAt = now, ![t].listeners = l]
      BY <1>3, <2>1, <2>3, Zenon DEF Settled
    <3>2. QED
      BY <2>2, <2>3, <3>1
  <2>4. CASE kind # "end"
    BY <1>3, <2>1, <2>4, Zenon DEF Settled
  <2>5. QED
    BY <2>3, <2>4
<1>5. /\ r \in Buffer /\ r.state = "ended" /\ r.listeners = l /\ r.events = g[t].events
      /\ r.dropped = g[t].dropped /\ r.chunks = g[t].chunks /\ r.holds = g[t].holds
  <2>1. g[t] \in Buffer /\ now \in Nat
    BY <1>1 DEF TypeOK
  <2>2. l \in SUBSET Clients
    BY <2>1 DEF Buffer
  <2> HIDE DEF l
  <2>3. QED
    BY <2>1, <2>2 DEF Buffer
<1> HIDE DEF l, r, a
<1>6. CASE kind = "end"
  <2>1. a \in [Turns -> Buffer] /\ a[t] = r /\ \A x \in Turns \ {t} : a[x] = g[x]
    BY <1>1, <1>4, <1>5, <1>6
  <2>2. /\ \A x \in Turns :
              /\ a[x].holds = buf[x].holds
              /\ x # t => /\ a[x].events = buf[x].events /\ a[x].state = buf[x].state
                          /\ a[x].dropped = buf[x].dropped /\ a[x].chunks = buf[x].chunks
                          /\ a[x].listeners = buf[x].listeners
        /\ \A x \in Turns : x # t /\ buf[x].state = "none" => a[x] = NoBuffer
    BY <1>1, <1>5, <2>1
  <2>3. QED
    BY <1>1, <1>2, <1>5, <1>6, <2>1, <2>2, Zenon DEF a, e
<1>7. CASE kind # "end"
  <2>1. a = g
    BY <1>4, <1>7
  <2>2. /\ a \in [Turns -> Buffer]
        /\ \A x \in Turns :
              /\ a[x].listeners = buf[x].listeners /\ a[x].holds = buf[x].holds
              /\ x # t => /\ a[x].events = buf[x].events /\ a[x].state = buf[x].state
                          /\ a[x].dropped = buf[x].dropped /\ a[x].chunks = buf[x].chunks
        /\ \A x \in Turns : x # t /\ buf[x].state = "none" => a[x] = NoBuffer
        /\ a[t].events = Kept(buf[t].events, e)
        /\ a[t].state = (IF buf[t].state = "none" THEN "running" ELSE buf[t].state)
        /\ a[t].dropped = (IF Len(buf[t].events) + 1 > MaxEvents
                           THEN buf[t].dropped + 1 ELSE buf[t].dropped)
        /\ a[t].chunks = (IF kind = "chunk" /\ buf[t].chunks = "none"
                          THEN "partial" ELSE buf[t].chunks)
    BY <1>1, <2>1, Zenon
  <2>3. QED
    BY <1>7, <2>2, Zenon DEF a, e
<1>8. QED
  BY <1>6, <1>7

\* A record step: what it does to every buffer, when the eviction takes those in gone.
Recorded(t, kind, gone) ==
    /\ gone \in SUBSET Turns /\ (kind # "end" => gone = {})
    /\ \A x \in gone : /\ buf'[x] = NoBuffer
                       /\ x # t => buf[x].state = "ended" /\ buf[x].listeners = {}
                       /\ x = t => StaysOpen(t, kind) = {}
    /\ \A x \in Turns \ gone :
          /\ buf'[x].holds = buf[x].holds
          /\ x # t => /\ buf'[x].events = buf[x].events /\ buf'[x].state = buf[x].state
                      /\ buf'[x].dropped = buf[x].dropped /\ buf'[x].chunks = buf[x].chunks
                      /\ buf'[x].listeners = buf[x].listeners
                      /\ buf[x].state = "none" => buf'[x] = NoBuffer
    /\ t \notin gone =>
          /\ buf'[t].events = Kept(buf[t].events, Ev(t, kind))
          /\ buf'[t].state = IF kind = "end" THEN "ended"
                             ELSE IF buf[t].state = "none" THEN "running" ELSE buf[t].state
          /\ buf'[t].listeners = IF kind = "end" THEN StaysOpen(t, kind) ELSE buf[t].listeners
          /\ buf'[t].dropped = IF Len(buf[t].events) + 1 > MaxEvents
                               THEN buf[t].dropped + 1 ELSE buf[t].dropped
          /\ buf'[t].chunks = IF kind = "chunk" /\ buf[t].chunks = "none"
                              THEN "partial" ELSE buf[t].chunks
    /\ buf' = [x \in Turns |-> IF x \in gone THEN NoBuffer ELSE After(t, kind)[x]]
    /\ kind = "end" => gone \in Evictions(After(t, kind))
    /\ interest' = Less(interest,
          Cardinality({c \in Clients : Ended(c, t, kind) /\ client[c].chunks})
            + Cardinality({x \in gone : buf[x].holds}))

\* The clients after an event: who hears it has it, and who reads its turn ends with it.
Told(t, kind) ==
    [c \in Clients |->
        IF ~Heard(c, t, kind) THEN client[c]
        ELSE LET told == [client[c] EXCEPT !.got = Append(@, Ev(t, kind))]
             IN  IF Ended(c, t, kind)
                 THEN [told EXCEPT !.phase = "ended", !.until = Len(log[t]) + 1]
                 ELSE told]

LEMMA RecordDoes ==
    ASSUME TypeOK, Empty, NEW t \in Turns, NEW kind \in Kinds, Record(t, kind)
    PROVE  /\ seq' = seq + 1
           /\ log' = [log EXCEPT ![t] = Append(@, Ev(t, kind))]
           /\ base' = (IF buf[t].state = "none" THEN [base EXCEPT ![t] = Len(log[t])] ELSE base)
           /\ client' = Told(t, kind)
           /\ buf' \in [Turns -> Buffer]
           /\ \E gone : Recorded(t, kind, gone)
<1> DEFINE e == Ev(t, kind)
           g == Grown(e)
           a == After(t, kind)
<1>1. \A c : /\ Hears(c, e, g) <=> Heard(c, t, kind)
             /\ EndsStream(c, e, g) <=> Ended(c, t, kind)
  BY HearsHeard
<1>2. /\ seq' = seq + 1
      /\ log' = [log EXCEPT ![t] = Append(@, e)]
      /\ base' = (IF buf[t].state = "none" THEN [base EXCEPT ![t] = Len(log[t])] ELSE base)
  BY Zenon DEF Record, Ev
<1>3. client' = Told(t, kind)
  <2>1. client' = [c \in Clients |->
              IF ~Hears(c, e, g) THEN client[c]
              ELSE LET told == [client[c] EXCEPT !.got = Append(@, e)]
                   IN  IF EndsStream(c, e, g)
                       THEN [told EXCEPT !.phase = "ended", !.until = Len(log[t]) + 1]
                       ELSE told]
    BY Zenon DEF Record, Ev
  <2> HIDE DEF e, g
  <2>2. QED
    BY <1>1, <2>1, Zenon DEF Told, e
<1>4. PICK gone \in (IF kind = "end" THEN Evictions(a) ELSE {{}}) :
          /\ buf' = [x \in Turns |-> IF x \in gone THEN NoBuffer ELSE a[x]]
          /\ interest' = Less(interest,
                Cardinality({c \in Clients : EndsStream(c, e, g) /\ client[c].chunks})
                  + Cardinality({x \in gone : a[x].holds}))
  <2>1. \E gone \in (IF kind = "end" THEN Evictions(a) ELSE {{}}) :
          /\ buf' = [x \in Turns |-> IF x \in gone THEN NoBuffer ELSE a[x]]
          /\ interest' = Less(interest,
                Cardinality({c \in Clients : EndsStream(c, e, g) /\ client[c].chunks})
                  + Cardinality({x \in gone : a[x].holds}))
    BY DEF Record, Ev, After
  <2>2. QED
    BY <2>1, Zenon
<1>5. /\ a \in [Turns -> Buffer]
      /\ \A x \in Turns :
            /\ a[x].holds = buf[x].holds
            /\ x # t => /\ a[x].events = buf[x].events /\ a[x].state = buf[x].state
                        /\ a[x].dropped = buf[x].dropped /\ a[x].chunks = buf[x].chunks
                        /\ a[x].listeners = buf[x].listeners
      /\ \A x \in Turns : x # t /\ buf[x].state = "none" => a[x] = NoBuffer
      /\ a[t].events = Kept(buf[t].events, Ev(t, kind))
      /\ a[t].state = (IF kind = "end" THEN "ended"
                       ELSE IF buf[t].state = "none" THEN "running" ELSE buf[t].state)
      /\ a[t].listeners = (IF kind = "end" THEN StaysOpen(t, kind) ELSE buf[t].listeners)
      /\ a[t].dropped = (IF Len(buf[t].events) + 1 > MaxEvents
                         THEN buf[t].dropped + 1 ELSE buf[t].dropped)
      /\ a[t].chunks = (IF kind = "chunk" /\ buf[t].chunks = "none"
                        THEN "partial" ELSE buf[t].chunks)
  BY AfterFields, Zenon
<1>6. {c \in Clients : EndsStream(c, e, g) /\ client[c].chunks}
        = {c \in Clients : Ended(c, t, kind) /\ client[c].chunks}
  <2> HIDE DEF e, g
  <2> QED
    BY <1>1, Zenon
<1> HIDE DEF e, g, a
<1>7. /\ gone \in SUBSET Turns /\ (kind # "end" => gone = {})
      /\ \A x \in gone : a[x].state = "ended" /\ a[x].listeners = {} /\ kind = "end"
      /\ kind = "end" => gone \in Evictions(a)
  <2>1. CASE kind = "end"
    <3>1. gone \in Evictions(a)
      BY <2>1
    <3>2. gone \in SUBSET Unlistened(a)
      BY <3>1 DEF Evictions
    <3>3. QED
      BY <2>1, <3>1, <3>2 DEF Unlistened
  <2>2. CASE kind # "end"
    BY <2>2
  <2>3. QED
    BY <2>1, <2>2
<1>8. {x \in gone : a[x].holds} = {x \in gone : buf[x].holds}
  BY <1>5, <1>7, Zenon
<1>9. interest' = Less(interest,
          Cardinality({c \in Clients : Ended(c, t, kind) /\ client[c].chunks})
            + Cardinality({x \in gone : buf[x].holds}))
  BY <1>4, <1>6, <1>8, Zenon
<1>10. /\ \A x \in gone : buf'[x] = NoBuffer
       /\ \A x \in Turns \ gone : buf'[x] = a[x]
       /\ buf' \in [Turns -> Buffer]
  BY <1>4, <1>5, <1>7, EmptyBuffer
<1>11. \A x \in gone : /\ x # t => buf[x].state = "ended" /\ buf[x].listeners = {}
                       /\ x = t => StaysOpen(t, kind) = {}
  BY <1>5, <1>7
<1>12. \A x \in Turns \ gone :
          /\ buf'[x].holds = buf[x].holds
          /\ x # t => /\ buf'[x].events = buf[x].events /\ buf'[x].state = buf[x].state
                      /\ buf'[x].dropped = buf[x].dropped /\ buf'[x].chunks = buf[x].chunks
                      /\ buf'[x].listeners = buf[x].listeners
                      /\ buf[x].state = "none" => buf'[x] = NoBuffer
  BY <1>5, <1>10, Zenon
<1>13. Recorded(t, kind, gone)
  <2>1. t \notin gone => buf'[t] = a[t]
    BY <1>10
  <2>2. buf' = [x \in Turns |-> IF x \in gone THEN NoBuffer ELSE a[x]]
    BY <1>4
  <2>3. QED
    BY <1>5, <1>7, <1>9, <1>10, <1>11, <1>12, <2>1, <2>2, Zenon DEF Recorded, a
<1>14. QED
  BY <1>2, <1>3, <1>10, <1>13 DEF e

-----------------------------------------------------------------------------
(* Types *)

Events(x) == {buf[x].events[i] : i \in 1..Len(buf[x].events)}

\* The buffered events are told apart by their number: a number is given once.
Numbered ==
    /\ \A x \in Turns : \A e \in Events(x) : e.n < seq /\ e.turn = x
    /\ \A x, y \in Turns : \A d \in Events(x), e \in Events(y) : d.n = e.n => d = e

\* The events a replay is made of.
Buffered(t, children) ==
    UNION {{buf[x].events[i] : i \in 1..Len(buf[x].events)} :
              x \in {t} \cup (IF children THEN buf[t].children ELSE {})}

LEMMA BufferedEvents ==
    ASSUME TypeOK, NEW t \in Turns, NEW children \in BOOLEAN
    PROVE  /\ \A e \in Buffered(t, children) : \E x \in Turns : e \in Events(x)
           /\ Events(t) \subseteq Buffered(t, children)
<1> DEFINE kids == IF children THEN buf[t].children ELSE {}
<1>1. kids \in SUBSET Turns
  <2>1. buf[t].children \in SUBSET Turns
    BY DEF TypeOK, Buffer
  <2>2. QED
    BY <2>1
<1>2. Buffered(t, children) = UNION {Events(x) : x \in {t} \cup kids}
  BY Zenon DEF Buffered, Events
<1> HIDE DEF kids
<1>3. QED
  BY <1>1, <1>2, Zenon

LEMMA EventsTyped ==
    ASSUME TypeOK, NEW x \in Turns
    PROVE  Events(x) \in SUBSET Event
<1>1. buf[x].events \in Seq(Event)
  BY DEF TypeOK, Buffer
<1>2. QED
  BY <1>1 DEF Events

LEMMA ReplayIsSorted ==
    ASSUME TypeOK, Numbered, NEW t \in Turns, NEW children \in BOOLEAN
    PROVE  /\ Distinct(Buffered(t, children), seq)
           /\ Replay(t, children) = InOrder(Buffered(t, children))
<1> DEFINE A == Buffered(t, children)
<1>1. \A e \in A : \E x \in Turns : e \in Events(x)
  BY BufferedEvents
<1>2. Replay(t, children) = InOrder(A)
  BY DEF Replay, InOrder, Buffered
<1> HIDE DEF A
<1>3. A \in SUBSET Event
  BY <1>1, EventsTyped, Zenon
<1>4. \A e \in A : e.n < seq
  BY <1>1, Zenon DEF Numbered
<1>5. \A d, e \in A : d.n = e.n => d = e
  BY <1>1, Zenon DEF Numbered
<1>6. Distinct(A, seq)
  BY <1>3, <1>4, <1>5 DEF Distinct
<1>7. QED
  BY <1>2, <1>6 DEF A

LEMMA ReplayType ==
    ASSUME TypeOK, Numbered, NEW t \in Turns, NEW children \in BOOLEAN
    PROVE  Replay(t, children) \in Seq(Event)
<1>1. seq \in Nat
  BY DEF TypeOK
<1>2. InOrder(Buffered(t, children)) \in Seq(Event)
  BY <1>1, ReplayIsSorted, Sorted
<1>3. QED
  BY <1>2, ReplayIsSorted

LEMMA LessType ==
    ASSUME NEW n \in Nat, NEW k \in Nat
    PROVE  Less(n, k) \in Nat /\ (k <= n => Less(n, k) = n - k)
BY DEF Less

LEMMA CountType ==
    ASSUME NEW S
    PROVE  /\ S \in SUBSET Turns => IsFiniteSet(S) /\ Cardinality(S) \in Nat
           /\ S \in SUBSET Clients => IsFiniteSet(S) /\ Cardinality(S) \in Nat
<1>1. IsFiniteSet(Turns) /\ IsFiniteSet(Clients)
  BY StreamConstants
<1>2. S \in SUBSET Turns => IsFiniteSet(S)
  BY <1>1, FS_Subset
<1>3. S \in SUBSET Clients => IsFiniteSet(S)
  BY <1>1, FS_Subset
<1>4. QED
  BY <1>2, <1>3, FS_CardinalityType

\* The clients of a record step, field by field.
LEMMA ToldFields ==
    ASSUME TypeOK, NEW t \in Turns, NEW kind \in Kinds
    PROVE  /\ Told(t, kind) \in [Clients -> Client]
           /\ \A c \in Clients :
                 /\ Told(t, kind)[c].turn = client[c].turn
                 /\ Told(t, kind)[c].chunks = client[c].chunks
                 /\ Told(t, kind)[c].at = client[c].at
                 /\ Told(t, kind)[c].from = client[c].from
                 /\ Told(t, kind)[c].phase = IF Ended(c, t, kind) THEN "ended" ELSE client[c].phase
                 /\ Told(t, kind)[c].until = IF Ended(c, t, kind) THEN Len(log[t]) + 1
                                             ELSE client[c].until
                 /\ Told(t, kind)[c].got = IF Heard(c, t, kind)
                                           THEN Append(client[c].got, Ev(t, kind))
                                           ELSE client[c].got
<1> DEFINE e == Ev(t, kind)
           w == Told(t, kind)
<1>1. e \in Event
  BY EventType
<1>2. log[t] \in Seq(Event) /\ client \in [Clients -> Client]
  BY DEF TypeOK
<1>3. Len(log[t]) + 1 \in Nat
  BY <1>2
<1>4. ASSUME NEW c \in Clients
      PROVE  /\ w[c] \in Client /\ w[c].turn = client[c].turn /\ w[c].chunks = client[c].chunks
             /\ w[c].at = client[c].at /\ w[c].from = client[c].from
             /\ w[c].phase = (IF Ended(c, t, kind) THEN "ended" ELSE client[c].phase)
             /\ w[c].until = (IF Ended(c, t, kind) THEN Len(log[t]) + 1 ELSE client[c].until)
             /\ w[c].got = (IF Heard(c, t, kind) THEN Append(client[c].got, e) ELSE client[c].got)
  <2> DEFINE told == [client[c] EXCEPT !.got = Append(@, e)]
             n == Len(log[t]) + 1
             over == [told EXCEPT !.phase = "ended", !.until = n]
  <2>0. client[c] \in Client /\ client[c].got \in Seq(Event)
    BY <1>2 DEF Client
  <2>1. PICK a \in Seq(Event) : a = Append(client[c].got, e)
    <3>1. Append(client[c].got, e) \in Seq(Event)
      BY <1>1, <2>0
    <3>2. QED
      BY <3>1, Zenon
  <2>2. told = [client[c] EXCEPT !.got = a]
    BY <2>0, <2>1
  <2>3. w[c] = IF ~Heard(c, t, kind) THEN client[c]
               ELSE IF Ended(c, t, kind) THEN over ELSE told
    BY Zenon DEF Told
  <2>4. Ended(c, t, kind) => Heard(c, t, kind)
    BY DEF Ended
  <2> HIDE DEF told
  <2>5. /\ told \in Client /\ told.turn = client[c].turn /\ told.chunks = client[c].chunks
        /\ told.at = client[c].at /\ told.from = client[c].from /\ told.got = a
        /\ told.phase = client[c].phase /\ told.until = client[c].until
    BY <2>0, <2>2 DEF Client
  <2>6. n \in Nat
    BY <1>3
  <2> HIDE DEF n
  <2>7. /\ over \in Client /\ over.turn = told.turn /\ over.chunks = told.chunks
        /\ over.at = told.at /\ over.from = told.from /\ over.got = told.got
        /\ over.phase = "ended" /\ over.until = n
    BY <2>5, <2>6 DEF Client
  <2> HIDE DEF over, e, w
  <2>8. CASE ~Heard(c, t, kind)
    BY <2>0, <2>3, <2>4, <2>8, Zenon
  <2>9. CASE Heard(c, t, kind) /\ Ended(c, t, kind)
    <3>1. w[c] = over
      BY <2>3, <2>9
    <3>2. QED
      BY <2>1, <2>5, <2>7, <2>9, <3>1, Zenon DEF n
  <2>10. CASE Heard(c, t, kind) /\ ~Ended(c, t, kind)
    <3>1. w[c] = told
      BY <2>3, <2>10
    <3>2. QED
      BY <2>1, <2>5, <2>10, <3>1, Zenon
  <2>11. QED
    BY <2>8, <2>9, <2>10
<1>5. w = [c \in Clients |-> w[c]]
  BY Zenon DEF Told
<1> HIDE DEF w
<1>6. w \in [Clients -> Client]
  BY <1>4, <1>5, Zenon
<1>7. QED
  BY <1>4, <1>6, Zenon DEF w, e

LEMMA RecordTypes ==
    ASSUME TypeOK, Empty, NEW t \in Turns, NEW kind \in Kinds, Record(t, kind)
    PROVE  /\ log' \in [Turns -> Seq(Event)] /\ base' \in [Turns -> Nat]
           /\ buf' \in [Turns -> Buffer]
           /\ client' \in [Clients -> Client] /\ seq' \in Nat /\ interest' \in Nat
<1>0. base' \in [Turns -> Nat]
  <2>1. base' = (IF buf[t].state = "none" THEN [base EXCEPT ![t] = Len(log[t])] ELSE base)
    BY RecordDoes
  <2>2. base \in [Turns -> Nat] /\ Len(log[t]) \in Nat
    BY DEF TypeOK
  <2>3. QED
    BY <2>1, <2>2
<1>1. /\ seq' = seq + 1
      /\ log' = [log EXCEPT ![t] = Append(@, Ev(t, kind))]
      /\ client' = Told(t, kind)
      /\ buf' \in [Turns -> Buffer]
  BY RecordDoes
<1>2. PICK gone : Recorded(t, kind, gone)
  BY RecordDoes
<1>3. log' \in [Turns -> Seq(Event)]
  <2>1. log \in [Turns -> Seq(Event)] /\ Ev(t, kind) \in Event
    BY EventType DEF TypeOK
  <2>2. Append(log[t], Ev(t, kind)) \in Seq(Event)
    BY <2>1
  <2>3. QED
    BY <1>1, <2>1, <2>2
<1>4. client' \in [Clients -> Client]
  BY <1>1, ToldFields
<1>5. seq' \in Nat
  BY <1>1 DEF TypeOK
<1>6. interest' \in Nat
  <2> DEFINE L == {c \in Clients : Ended(c, t, kind) /\ client[c].chunks}
             H == {x \in gone : buf[x].holds}
  <2>1. interest' = Less(interest, Cardinality(L) + Cardinality(H)) /\ gone \in SUBSET Turns
    BY <1>2 DEF Recorded
  <2>2. L \in SUBSET Clients /\ H \in SUBSET Turns
    BY <2>1
  <2> HIDE DEF L, H
  <2>3. Cardinality(L) \in Nat /\ Cardinality(H) \in Nat
    BY <2>2, CountType
  <2>4. Cardinality(L) + Cardinality(H) \in Nat
    BY <2>3
  <2>5. interest \in Nat
    BY DEF TypeOK
  <2>6. QED
    BY <2>1, <2>4, <2>5, LessType
<1>7. QED
  BY <1>0, <1>1, <1>3, <1>4, <1>5, <1>6

LEMMA RecordEmpty ==
    ASSUME TypeOK, Empty, NEW t \in Turns, NEW kind \in Kinds, Record(t, kind)
    PROVE  Empty'
<1>1. PICK gone : Recorded(t, kind, gone)
  BY RecordDoes
<1>2. SUFFICES ASSUME NEW x \in Turns, buf'[x].state = "none"
               PROVE  buf'[x] = NoBuffer
  BY DEF Empty
<1>3. CASE x \in gone
  BY <1>1, <1>3 DEF Recorded
<1>4. CASE x \notin gone /\ x # t
  BY <1>1, <1>2, <1>4 DEF Recorded
<1>5. CASE x \notin gone /\ x = t
  BY <1>1, <1>2, <1>5 DEF Recorded
<1>6. QED
  BY <1>3, <1>4, <1>5

\* An event is in the buffer of its turn, and nowhere else.
LEMMA RecordEvents ==
    ASSUME TypeOK, Empty, NEW t \in Turns, NEW kind \in Kinds, Record(t, kind)
    PROVE  /\ \A x \in Turns : x # t => Events(x)' \subseteq Events(x)
           /\ Events(t)' \subseteq Events(t) \cup {Ev(t, kind)}
<1>1. PICK gone : Recorded(t, kind, gone)
  BY RecordDoes
<1>2. ASSUME NEW x \in Turns, x \in gone PROVE Events(x)' = {}
  <2>1. buf'[x] = NoBuffer
    BY <1>1, <1>2 DEF Recorded
  <2>2. buf'[x].events = <<>>
    BY <2>1 DEF NoBuffer
  <2>3. QED
    BY <2>2 DEF Events
<1>3. ASSUME NEW x \in Turns, x \notin gone, x # t PROVE Events(x)' = Events(x)
  <2>1. buf'[x].events = buf[x].events
    BY <1>1, <1>3 DEF Recorded
  <2>2. QED
    BY <2>1 DEF Events
<1>4. ASSUME t \notin gone PROVE Events(t)' \subseteq Events(t) \cup {Ev(t, kind)}
  <2> DEFINE s == buf[t].events
             e == Ev(t, kind)
  <2>1. buf'[t].events = Kept(s, e)
    BY <1>1, <1>4 DEF Recorded
  <2>2. s \in Seq(Event) /\ e \in Event
    BY EventType DEF TypeOK, Buffer
  <2> HIDE DEF s, e
  <2>3. ASSUME NEW i \in 1..Len(Kept(s, e))
        PROVE  Kept(s, e)[i] = e \/ \E j \in 1..Len(s) : Kept(s, e)[i] = s[j]
    <3>1. CASE Len(s) + 1 > MaxEvents
      <4>1. i \in 1..Len(s) /\ Kept(s, e)[i] = IF i = Len(s) THEN e ELSE s[i + 1]
        BY <2>2, <3>1, KeptEvents
      <4>2. i # Len(s) => i + 1 \in 1..Len(s)
        BY <2>2, <4>1
      <4>3. QED
        BY <4>1, <4>2
    <3>2. CASE ~(Len(s) + 1 > MaxEvents)
      <4>1. i \in 1..(Len(s) + 1) /\ Kept(s, e)[i] = IF i = Len(s) + 1 THEN e ELSE s[i]
        BY <2>2, <3>2, KeptEvents
      <4>2. i # Len(s) + 1 => i \in 1..Len(s)
        BY <2>2, <4>1
      <4>3. QED
        BY <4>1, <4>2
    <3>3. QED
      BY <3>1, <3>2
  <2>4. Events(t)' = {Kept(s, e)[i] : i \in 1..Len(Kept(s, e))}
    BY <2>1 DEF Events
  <2>5. Events(t) = {s[i] : i \in 1..Len(s)}
    BY DEF Events, s
  <2>6. QED
    BY <2>3, <2>4, <2>5, Zenon DEF e
<1>5. QED
  BY <1>2, <1>3, <1>4, Zenon

LEMMA RecordNumbered ==
    ASSUME TypeOK, Empty, Numbered, NEW t \in Turns, NEW kind \in Kinds, Record(t, kind)
    PROVE  Numbered'
<1>1. \A x \in Turns : x # t => Events(x)' \subseteq Events(x)
  BY RecordEvents
<1>2. Events(t)' \subseteq Events(t) \cup {Ev(t, kind)}
  BY RecordEvents
<1>3. seq' = seq + 1 /\ seq \in Nat
  BY RecordDoes DEF TypeOK
<1> DEFINE New(x, e) == x = t /\ e = Ev(t, kind)
<1>4. ASSUME NEW x \in Turns, NEW e \in Events(x)'
      PROVE  e \in Events(x) \/ New(x, e)
  BY <1>1, <1>2, Zenon
<1>5. Ev(t, kind).n = seq /\ Ev(t, kind).turn = t
  BY DEF Ev
<1>6. ASSUME NEW x \in Turns, NEW e \in Events(x)
      PROVE  e.n \in Nat /\ e.n < seq /\ e.turn = x
  <2>1. e \in Event
    BY EventsTyped
  <2>2. QED
    BY <2>1 DEF Numbered, Event
<1>7. \A x \in Turns : \A e \in Events(x)' : e.n < seq' /\ e.turn = x
  <2>1. SUFFICES ASSUME NEW x \in Turns, NEW e \in Events(x)'
                 PROVE  e.n < seq' /\ e.turn = x
    OBVIOUS
  <2>2. CASE e \in Events(x)
    BY <1>3, <1>6, <2>2
  <2>3. CASE New(x, e)
    BY <1>3, <1>5, <2>3
  <2>4. QED
    BY <1>4, <2>2, <2>3
<1>8. \A x, y \in Turns : \A d \in Events(x)', e \in Events(y)' : d.n = e.n => d = e
  <2>1. SUFFICES ASSUME NEW x \in Turns, NEW y \in Turns, NEW d \in Events(x)',
                        NEW e \in Events(y)', d.n = e.n
                 PROVE  d = e
    BY Zenon
  <2>2. CASE d \in Events(x) /\ e \in Events(y)
    BY <2>1, <2>2, Zenon DEF Numbered
  <2>3. CASE d \in Events(x) /\ New(y, e)
    BY <1>3, <1>5, <1>6, <2>1, <2>3
  <2>4. CASE New(x, d) /\ e \in Events(y)
    BY <1>3, <1>5, <1>6, <2>1, <2>4
  <2>5. CASE New(x, d) /\ New(y, e)
    BY <2>5
  <2>6. QED
    BY <1>4, <2>2, <2>3, <2>4, <2>5
<1>9. QED
  BY <1>7, <1>8 DEF Numbered

\* A step that adds no event keeps the numbers apart.
LEMMA NumbersStay ==
    ASSUME Numbered, seq' = seq, \A x \in Turns : Events(x)' \subseteq Events(x)
    PROVE  Numbered'
BY Zenon DEF Numbered

LEMMA AskType ==
    ASSUME NEW ask \in Asks
    PROVE  ask.chunks \in BOOLEAN /\ ask.children \in BOOLEAN
BY StreamConstants

LEMMA StreamingFields ==
    ASSUME TypeOK, NEW t \in Turns, NEW ask \in Asks, NEW b \in Buffer, NEW replay \in Seq(Event)
    PROVE  LET r == Streaming(t, ask, b, replay)
           IN  /\ r \in Client
               /\ r.phase = IF b.state = "ended" THEN "ended" ELSE "open"
               /\ r.turn = t /\ r.chunks = ask.chunks /\ r.got = replay
               /\ r.at = Len(log[t]) /\ r.until = Len(log[t])
               /\ r.from = base[t] + b.dropped
<1> DEFINE n == Len(log[t])
           f == base[t] + b.dropped
           ph == IF b.state = "ended" THEN "ended" ELSE "open"
<1>1. n \in Nat /\ f \in Nat
  BY DEF TypeOK, Buffer
<1>2. b.chunks \in {"start", "partial", "none"}
  BY DEF Buffer
<1>3. ph \in {"idle", "open", "ended", "gone", "refused"}
  OBVIOUS
<1>4. ask.chunks \in BOOLEAN /\ ask.children \in BOOLEAN
  BY AskType
<1>5. PICK r : r = [phase |-> ph, turn |-> t, chunks |-> ask.chunks, children |-> ask.children,
                    got |-> replay, from |-> f, at |-> n, until |-> n,
                    provenance |-> b.chunks]
  OBVIOUS
<1>6. Streaming(t, ask, b, replay) = r
  BY <1>5, Zenon DEF Streaming
<1> HIDE DEF n, ph, f
<1>7. r \in Client
  BY <1>1, <1>2, <1>3, <1>4, <1>5 DEF Client
<1>8. /\ r.phase = ph /\ r.turn = t /\ r.chunks = ask.chunks /\ r.got = replay
      /\ r.at = n /\ r.until = n /\ r.from = f
  BY <1>5
<1>9. QED
  BY <1>6, <1>7, <1>8, Zenon DEF n, ph, f

LEMMA QuietFields ==
    /\ Quiet("gone") \in Client /\ Quiet("gone").phase = "gone" /\ Quiet("gone").got = <<>>
    /\ Quiet("refused") \in Client /\ Quiet("refused").phase = "refused"
    /\ Quiet("refused").got = <<>>
    /\ Quiet("idle") \in Client /\ Quiet("idle").phase = "idle" /\ Quiet("idle").got = <<>>
<1>1. <<>> \in Seq(Event)
  OBVIOUS
<1>2. ASSUME NEW p \in {"idle", "gone", "refused"}
      PROVE  Quiet(p) \in Client /\ Quiet(p).phase = p /\ Quiet(p).got = <<>>
  BY <1>1 DEF Quiet, Client
<1>3. QED
  BY <1>2

\* What the routes and the streams do to the buffers and the clients.
LEMMA PostDoes ==
    ASSUME TypeOK, NEW t \in Turns, NEW ask \in Asks, Post(t, ask.chunks)
    PROVE  /\ buf' \in [Turns -> Buffer] /\ buf'[t] = Fresh(ask.chunks)
           /\ \A x \in Turns \ {t} : buf'[x] = buf[x]
           /\ interest' \in Nat
<1>1. Fresh(ask.chunks) \in Buffer
  BY AskType, EmptyBuffer
<1>2. buf' = [buf EXCEPT ![t] = Fresh(ask.chunks)]
  BY DEF Post
<1>3. interest' = IF ask.chunks THEN interest + 1 ELSE interest
  BY DEF Post
<1>4. buf \in [Turns -> Buffer] /\ interest \in Nat
  BY DEF TypeOK
<1>5. interest' \in Nat
  BY <1>3, <1>4
<1>6. QED
  BY <1>1, <1>2, <1>4, <1>5

LEMMA PostStreamDoes ==
    ASSUME TypeOK, NEW t \in Turns, NEW c \in Clients, NEW ask \in Asks, PostStream(t, c, ask)
    PROVE  /\ buf' \in [Turns -> Buffer] /\ client' \in [Clients -> Client] /\ interest' \in Nat
           /\ \A x \in Turns \ {t} : buf'[x] = buf[x]
           /\ \A d \in Clients \ {c} : client'[d] = client[d]
           /\ buf'[t].state = "running" /\ buf'[t].events = <<>> /\ buf'[t].listeners = {c}
           /\ buf'[t].holds = ask.chunks /\ buf'[t].dropped = 0
           /\ buf'[t].chunks = IF ask.chunks THEN "start" ELSE "none"
           /\ client'[c].phase = "open" /\ client'[c].turn = t /\ client'[c].got = <<>>
           /\ client'[c].chunks = ask.chunks /\ client'[c].at = Len(log[t])
           /\ client'[c].until = Len(log[t]) /\ client'[c].from = base[t]
<1>1. /\ Fresh(ask.chunks) \in Buffer
      /\ Fresh(ask.chunks).state = "running" /\ Fresh(ask.chunks).events = <<>>
      /\ Fresh(ask.chunks).dropped = 0 /\ Fresh(ask.chunks).holds = ask.chunks
      /\ Fresh(ask.chunks).chunks = (IF ask.chunks THEN "start" ELSE "none")
  BY AskType, EmptyBuffer, Zenon
<1>2. /\ buf' = [buf EXCEPT ![t] = [Fresh(ask.chunks) EXCEPT !.listeners = {c}]]
      /\ client' = [client EXCEPT ![c] = Streaming(t, ask, Fresh(ask.chunks), <<>>)]
      /\ interest' = IF ask.chunks THEN interest + 2 ELSE interest
  BY DEF PostStream
<1>3. buf \in [Turns -> Buffer] /\ interest \in Nat /\ client \in [Clients -> Client]
  BY DEF TypeOK
<1>4. interest' \in Nat
  BY <1>2, <1>3
<1>5. PICK f \in Buffer : f = Fresh(ask.chunks)
  BY <1>1
<1>6. PICK r : r = [f EXCEPT !.listeners = {c}]
  OBVIOUS
<1>7. /\ r \in Buffer /\ r.state = f.state /\ r.events = f.events /\ r.listeners = {c}
      /\ r.holds = f.holds /\ r.dropped = f.dropped /\ r.chunks = f.chunks
  BY <1>6 DEF Buffer
<1>8. buf' \in [Turns -> Buffer] /\ buf'[t] = r /\ \A x \in Turns \ {t} : buf'[x] = buf[x]
  BY <1>2, <1>3, <1>5, <1>6, <1>7
<1>9. PICK z \in Seq(Event) : z = <<>>
  BY <<>> \in Seq(Event)
<1> DEFINE s == Streaming(t, ask, f, z)
<1>10. /\ s \in Client /\ s.phase = (IF f.state = "ended" THEN "ended" ELSE "open")
       /\ s.turn = t /\ s.chunks = ask.chunks /\ s.got = z /\ s.at = Len(log[t])
       /\ s.until = Len(log[t]) /\ s.from = base[t] + f.dropped
  BY StreamingFields
<1> HIDE DEF s
<1>11. /\ client' \in [Clients -> Client] /\ client'[c] = s
       /\ \A d \in Clients \ {c} : client'[d] = client[d]
  BY <1>2, <1>3, <1>5, <1>9, <1>10 DEF s
<1>12. s.phase = "open"
  BY <1>1, <1>5, <1>10
<1>13. /\ r.state = "running" /\ r.events = <<>> /\ r.listeners = {c}
       /\ r.holds = ask.chunks /\ r.dropped = 0
       /\ r.chunks = (IF ask.chunks THEN "start" ELSE "none")
  BY <1>1, <1>5, <1>7, <1>10, Zenon
<1>14. s.from = base[t]
  <2>1. base[t] \in Nat /\ s.from = base[t] + 0
    BY <1>1, <1>5, <1>10 DEF TypeOK
  <2>2. QED
    BY <2>1
<1>15. QED
  BY <1>14, <1>4, <1>8, <1>9, <1>10, <1>11, <1>12, <1>13, Zenon

\* An attachment that finds no buffer, one that finds an ended one, and one that tails.
LEMMA AttachDoes ==
    ASSUME TypeOK, Numbered, NEW t \in Turns, NEW c \in Clients, NEW ask \in Asks,
           Attach(t, c, ask)
    PROVE  /\ buf' \in [Turns -> Buffer] /\ client' \in [Clients -> Client] /\ interest' \in Nat
           /\ \A d \in Clients \ {c} : client'[d] = client[d]
           /\ \/ /\ buf[t].state = "none" /\ client'[c] = Quiet("refused")
                 /\ buf' = buf /\ interest' = interest
              \/ /\ buf[t].state # "none"
                 /\ client'[c].phase = IF buf[t].state = "ended" THEN "ended" ELSE "open"
                 /\ client'[c].turn = t /\ client'[c].got = Replay(t, ask.children)
                 /\ client'[c].chunks = ask.chunks /\ client'[c].at = Len(log[t])
                 /\ client'[c].until = Len(log[t])
                 /\ client'[c].from = base[t] + buf[t].dropped
                 /\ \/ buf[t].state = "ended" /\ buf' = buf /\ interest' = interest
                    \/ /\ buf[t].state = "running"
                       /\ \A x \in Turns \ {t} : buf'[x] = buf[x]
                       /\ buf'[t].state = "running" /\ buf'[t].events = buf[t].events
                       /\ buf'[t].listeners = buf[t].listeners \cup {c}
                       /\ buf'[t].holds = buf[t].holds /\ buf'[t].dropped = buf[t].dropped
                       /\ buf'[t].chunks = buf[t].chunks
                       /\ interest' = IF ask.chunks THEN interest + 1 ELSE interest
<1>1. buf \in [Turns -> Buffer] /\ interest \in Nat /\ client \in [Clients -> Client]
  BY DEF TypeOK
<1>2. buf[t] \in Buffer /\ buf[t].state \in {"none", "running", "ended"}
  BY <1>1 DEF Buffer
<1>3. CASE buf[t].state = "none"
  <2>1. client' = [client EXCEPT ![c] = Quiet("refused")] /\ buf' = buf /\ interest' = interest
    BY <1>3 DEF Attach
  <2>2. /\ client' \in [Clients -> Client] /\ client'[c] = Quiet("refused")
        /\ \A d \in Clients \ {c} : client'[d] = client[d]
    BY <1>1, <2>1, QuietFields
  <2>3. buf' \in [Turns -> Buffer] /\ interest' \in Nat
    BY <1>1, <2>1
  <2>4. QED
    BY <1>3, <2>1, <2>2, <2>3, Zenon
<1>4. CASE buf[t].state # "none"
  <2> DEFINE s == Streaming(t, ask, buf[t], Replay(t, ask.children))
  <2>2. /\ client' = [client EXCEPT ![c] = s]
        /\ IF buf[t].state = "ended"
           THEN UNCHANGED <<buf, interest>>
           ELSE /\ buf' = [buf EXCEPT ![t].listeners = @ \cup {c}]
                /\ interest' = IF ask.chunks THEN interest + 1 ELSE interest
    BY <1>4, Zenon DEF Attach
  <2>3. Replay(t, ask.children) \in Seq(Event)
    BY AskType, ReplayType
  <2>4. /\ s \in Client /\ s.phase = (IF buf[t].state = "ended" THEN "ended" ELSE "open")
        /\ s.turn = t /\ s.chunks = ask.chunks /\ s.got = Replay(t, ask.children)
        /\ s.at = Len(log[t]) /\ s.until = Len(log[t])
        /\ s.from = base[t] + buf[t].dropped
    BY <1>2, <2>3, StreamingFields
  <2> HIDE DEF s
  <2>5. /\ client' \in [Clients -> Client] /\ client'[c] = s
        /\ \A d \in Clients \ {c} : client'[d] = client[d]
    BY <1>1, <2>2, <2>4
  <2>6. CASE buf[t].state = "ended"
    <3>1. buf' = buf /\ interest' = interest
      BY <2>2, <2>6
    <3>2. buf' \in [Turns -> Buffer] /\ interest' \in Nat
      BY <1>1, <3>1
    <3>3. QED
      BY <1>4, <2>4, <2>5, <2>6, <3>1, <3>2, Zenon
  <2>7. CASE buf[t].state = "running"
    <3>1. /\ buf' = [buf EXCEPT ![t].listeners = @ \cup {c}]
          /\ interest' = IF ask.chunks THEN interest + 1 ELSE interest
      BY <2>2, <2>7
    <3>2. interest' \in Nat
      BY <1>1, <3>1
    <3>3. PICK r : r = [buf[t] EXCEPT !.listeners = @ \cup {c}]
      OBVIOUS
    <3>4. /\ r \in Buffer /\ r.state = buf[t].state /\ r.events = buf[t].events
          /\ r.listeners = buf[t].listeners \cup {c} /\ r.holds = buf[t].holds
          /\ r.dropped = buf[t].dropped /\ r.chunks = buf[t].chunks
      BY <1>2, <3>3 DEF Buffer
    <3>5. /\ buf' \in [Turns -> Buffer] /\ buf'[t] = r
          /\ \A x \in Turns \ {t} : buf'[x] = buf[x]
      <4>1. buf' = [buf EXCEPT ![t] = r]
        BY <1>1, <3>1, <3>3
      <4>2. QED
        BY <1>1, <3>4, <4>1
    <3>6. QED
      BY <1>4, <2>4, <2>5, <2>7, <3>1, <3>2, <3>4, <3>5, Zenon
  <2>8. QED
    BY <1>2, <1>4, <2>6, <2>7
<1>5. QED
  BY <1>3, <1>4

LEMMA DisconnectDoes ==
    ASSUME TypeOK, NEW c \in Clients, Disconnect(c), client[c].turn \in Turns
    PROVE  /\ buf' \in [Turns -> Buffer] /\ client' \in [Clients -> Client] /\ interest' \in Nat
           /\ \A d \in Clients \ {c} : client'[d] = client[d]
           /\ client'[c] = Quiet("gone")
           /\ \A x \in Turns \ {client[c].turn} : buf'[x] = buf[x]
           /\ \A x \in Turns :
                 /\ buf'[x].state = buf[x].state /\ buf'[x].events = buf[x].events
                 /\ buf'[x].holds = buf[x].holds /\ buf'[x].dropped = buf[x].dropped
                 /\ buf'[x].chunks = buf[x].chunks
                 /\ buf'[x].listeners = IF x = client[c].turn THEN buf[x].listeners \ {c}
                                        ELSE buf[x].listeners
                 /\ buf[x] = NoBuffer => buf'[x] = NoBuffer
<1> DEFINE t == client[c].turn
<1>1. buf \in [Turns -> Buffer] /\ interest \in Nat /\ client \in [Clients -> Client] /\ t \in Turns
  BY DEF TypeOK
<1>2. /\ client' = [client EXCEPT ![c] = Quiet("gone")]
      /\ buf' = [buf EXCEPT ![t].listeners = @ \ {c}]
      /\ interest' = IF client[c].chunks THEN Less(interest, 1) ELSE interest
  BY DEF Disconnect
<1>3. interest' \in Nat
  BY <1>1, <1>2, LessType
<1>4. /\ client' \in [Clients -> Client] /\ client'[c] = Quiet("gone")
      /\ \A d \in Clients \ {c} : client'[d] = client[d]
  BY <1>1, <1>2, QuietFields
<1> HIDE DEF t
<1>5. PICK r : r = [buf[t] EXCEPT !.listeners = @ \ {c}]
  OBVIOUS
<1>6. /\ r \in Buffer /\ r.state = buf[t].state /\ r.events = buf[t].events
      /\ r.listeners = buf[t].listeners \ {c} /\ r.holds = buf[t].holds
      /\ r.dropped = buf[t].dropped /\ r.chunks = buf[t].chunks
  <2>1. buf[t] \in Buffer
    BY <1>1
  <2>2. QED
    BY <1>5, <2>1 DEF Buffer
<1>7. /\ buf' \in [Turns -> Buffer] /\ buf'[t] = r
      /\ \A x \in Turns \ {t} : buf'[x] = buf[x]
  <2>1. buf' = [buf EXCEPT ![t] = r]
    BY <1>1, <1>2, <1>5
  <2>2. QED
    BY <1>1, <1>6, <2>1
<1>8. buf[t] = NoBuffer => r = NoBuffer
  <2>1. SUFFICES ASSUME buf[t] = NoBuffer PROVE r = NoBuffer
    OBVIOUS
  <2>2. NoBuffer.listeners = {}
    BY DEF NoBuffer
  <2>3. buf[t].listeners \ {c} = buf[t].listeners
    BY <2>1, <2>2
  <2>4. r = [buf[t] EXCEPT !.listeners = buf[t].listeners]
    BY <1>5, <2>3
  <2>5. r = buf[t]
    BY <1>1, <2>4 DEF Buffer
  <2>6. QED
    BY <2>1, <2>5
<1>9. \A x \in Turns :
          /\ buf'[x].state = buf[x].state /\ buf'[x].events = buf[x].events
          /\ buf'[x].holds = buf[x].holds /\ buf'[x].dropped = buf[x].dropped
          /\ buf'[x].chunks = buf[x].chunks
          /\ buf'[x].listeners = (IF x = t THEN buf[x].listeners \ {c} ELSE buf[x].listeners)
          /\ buf[x] = NoBuffer => buf'[x] = NoBuffer
  BY <1>1, <1>6, <1>7, <1>8, Zenon
<1>10. QED
  BY <1>3, <1>4, <1>7, <1>9, Zenon DEF t

LEMMA CloseDoes ==
    ASSUME TypeOK, Close
    PROVE  /\ buf' \in [Turns -> Buffer] /\ \A x \in Turns : buf'[x] = NoBuffer
           /\ interest' = 0 /\ stopped' = TRUE
BY EmptyBuffer DEF Close

-----------------------------------------------------------------------------
(* The kinds of step *)

\* A step the streams do not hear of.
Unheard ==
    /\ UNCHANGED <<log, base, seq, buf, client, interest, stopped>>
    /\ \A x \in Turns :
          /\ \/ phase'[x] = phase[x]
             \/ phase[x] = "new" /\ phase'[x] = "due"
             \/ phase[x] = "due" /\ phase'[x] = "silent"
          /\ \/ tokens'[x] = tokens[x]
             \/ ~Subscribed /\ ~stopped /\ phase[x] = "live"

RecordStep(t, kind) ==
    /\ Record(t, kind) /\ ~stopped /\ stopped' = stopped
    /\ phase[t] \in {"due", "live", "ended"}
    /\ phase'[t] = IF kind = "end" THEN "ended" ELSE IF phase[t] = "ended" THEN "ended" ELSE "live"
    /\ \A x \in Turns \ {t} : phase'[x] = phase[x] /\ tokens'[x] = tokens[x]
    /\ tokens'[t] = IF kind = "chunk" THEN tokens[t] + 1 ELSE tokens[t]
    /\ kind # "plain" => phase[t] = "live"

LEMMA Steps ==
    ASSUME TypeOK, [Next]_vars
    PROVE  \/ Unheard
           \/ \E t \in Turns, kind \in Kinds : RecordStep(t, kind)
           \/ \E t \in Turns, ask \in Asks : Post(t, ask.chunks)
           \/ \E c \in Clients : Disconnect(c)
           \/ \E t \in Turns, c \in Clients, ask \in Asks : PostStream(t, c, ask)
           \/ \E t \in Turns, c \in Clients, ask \in Asks : Attach(t, c, ask)
           \/ Close
<1>0. /\ phase \in [Turns -> {"new", "due", "live", "ended", "silent"}]
      /\ tokens \in [Turns -> Nat]
  BY DEF TypeOK
<1>1. ASSUME NEW t \in Turns, StartElsewhere(t) PROVE Unheard
  BY <1>0, <1>1 DEF StartElsewhere, Unheard
<1>2. ASSUME NEW t \in Turns, EndSilently(t) PROVE Unheard
  BY <1>0, <1>2 DEF EndSilently, Unheard
<1>3. ASSUME NEW t \in Turns, Emit(t) PROVE RecordStep(t, "plain")
  <2>1. Record(t, "plain")
    BY <1>3 DEF Emit
  <2>2. /\ ~stopped /\ stopped' = stopped /\ phase[t] \in {"due", "live"}
        /\ phase' = [phase EXCEPT ![t] = "live"] /\ tokens' = tokens
    BY <1>3 DEF Emit
  <2>3. QED
    BY <1>0, <2>1, <2>2 DEF RecordStep
<1>4. ASSUME NEW t \in Turns, Token(t) PROVE Unheard \/ RecordStep(t, "chunk")
  <2>1. /\ ~stopped /\ stopped' = stopped /\ phase[t] = "live"
        /\ tokens' = [tokens EXCEPT ![t] = @ + 1] /\ phase' = phase
    BY <1>4 DEF Token
  <2>2. CASE Subscribed
    <3>1. Record(t, "chunk")
      BY <1>4, <2>2 DEF Token
    <3>2. QED
      BY <1>0, <2>1, <3>1 DEF RecordStep
  <2>3. CASE ~Subscribed
    <3>1. UNCHANGED <<log, base, seq, buf, client, interest>>
      BY <1>4, <2>3 DEF Token
    <3>2. QED
      BY <1>0, <2>1, <2>3, <3>1 DEF Unheard
  <2>4. QED
    BY <2>2, <2>3
<1>5. ASSUME NEW t \in Turns, End(t) PROVE RecordStep(t, "end")
  <2>1. Record(t, "end")
    BY <1>5 DEF End
  <2>2. /\ ~stopped /\ stopped' = stopped /\ phase[t] = "live"
        /\ phase' = [phase EXCEPT ![t] = "ended"] /\ tokens' = tokens
    BY <1>5 DEF End
  <2>3. QED
    BY <1>0, <2>1, <2>2 DEF RecordStep
<1>6. ASSUME NEW t \in Turns, Delivered(t) PROVE RecordStep(t, "plain")
  <2>1. Record(t, "plain")
    BY <1>6 DEF Delivered
  <2>2. /\ ~stopped /\ stopped' = stopped /\ phase[t] = "ended"
        /\ phase' = phase /\ tokens' = tokens
    BY <1>6 DEF Delivered
  <2>3. QED
    BY <1>0, <2>1, <2>2 DEF RecordStep
<1>7. ASSUME Tick PROVE Unheard
  BY <1>7 DEF Tick, Unheard
<1>8. ASSUME UNCHANGED vars PROVE Unheard
  BY <1>8 DEF vars, Unheard
<1>9. "plain" \in Kinds /\ "chunk" \in Kinds /\ "end" \in Kinds
  BY DEF Kinds
<1>10. ASSUME NEW t \in Turns, TurnStep(t)
       PROVE  \/ Unheard
              \/ \E kind \in Kinds : RecordStep(t, kind)
              \/ \E ask \in Asks : Post(t, ask.chunks)
  BY <1>1, <1>2, <1>3, <1>4, <1>5, <1>6, <1>9, <1>10, Zenon DEF TurnStep
<1>11. ASSUME NEW c \in Clients, ClientStep(c)
       PROVE  \/ Disconnect(c)
              \/ \E t \in Turns, ask \in Asks : PostStream(t, c, ask)
              \/ \E t \in Turns, ask \in Asks : Attach(t, c, ask)
  BY <1>11, Zenon DEF ClientStep
<1>12. \/ \E t \in Turns : TurnStep(t)
       \/ \E c \in Clients : ClientStep(c)
       \/ Tick \/ Close \/ UNCHANGED vars
  BY Zenon DEF Next
<1>13. QED
  BY <1>7, <1>8, <1>10, <1>11, <1>12, Zenon

LEMMA ClockTypes ==
    ASSUME TypeOK, [Next]_vars
    PROVE  /\ phase' \in [Turns -> {"new", "due", "live", "ended", "silent"}]
           /\ tokens' \in [Turns -> Nat] /\ now' \in Nat /\ stopped' \in BOOLEAN
<1>0. /\ phase \in [Turns -> {"new", "due", "live", "ended", "silent"}]
      /\ tokens \in [Turns -> Nat] /\ now \in Nat /\ stopped \in BOOLEAN
  BY DEF TypeOK
<1> DEFINE P == phase' \in [Turns -> {"new", "due", "live", "ended", "silent"}]
           T == tokens' \in [Turns -> Nat]
           N == now' \in Nat
           S == stopped' \in BOOLEAN
<1>1. ASSUME NEW t \in Turns, TurnStep(t) PROVE P /\ T /\ N /\ S
  <2>1. /\ tokens' = tokens \/ tokens' = [tokens EXCEPT ![t] = @ + 1]
        /\ phase' = phase \/ \E p \in {"due", "live", "ended", "silent"} :
                                phase' = [phase EXCEPT ![t] = p]
        /\ now' = now /\ stopped' = stopped
    BY <1>1, Zenon DEF TurnStep, StartElsewhere, Emit, Token, End, EndSilently, Delivered, Post
  <2>2. QED
    BY <1>0, <2>1
<1>2. ASSUME NEW c \in Clients, ClientStep(c) PROVE P /\ T /\ N /\ S
  <2>1. /\ tokens' = tokens /\ now' = now /\ stopped' = stopped
        /\ phase' = phase \/ \E t \in Turns : phase' = [phase EXCEPT ![t] = "due"]
    BY <1>2, Zenon DEF ClientStep, Disconnect, PostStream, Attach
  <2>2. QED
    BY <1>0, <2>1
<1>3. ASSUME Tick PROVE P /\ T /\ N /\ S
  BY <1>0, <1>3 DEF Tick
<1>4. ASSUME Close PROVE P /\ T /\ N /\ S
  BY <1>0, <1>4 DEF Close
<1>5. ASSUME UNCHANGED vars PROVE P /\ T /\ N /\ S
  BY <1>0, <1>5 DEF vars
<1>6. QED
  BY <1>1, <1>2, <1>3, <1>4, <1>5, Zenon DEF Next

\* A stream has a turn.
Placed == \A c \in Clients : client[c].phase \in {"open", "ended"} => client[c].turn \in Turns

Typed == TypeOK /\ Empty /\ Numbered /\ Placed

LEMMA InitTyped == Init => Typed
<1>1. SUFFICES ASSUME Init PROVE Typed
  OBVIOUS
<1>2. /\ buf = [t \in Turns |-> NoBuffer] /\ client = [c \in Clients |-> Quiet("idle")]
      /\ log = [t \in Turns |-> <<>>] /\ base = [t \in Turns |-> 0]
  BY <1>1 DEF Init
<1>3. buf \in [Turns -> Buffer] /\ \A x \in Turns : buf[x] = NoBuffer
  BY <1>2, EmptyBuffer
<1>4. client \in [Clients -> Client] /\ \A c \in Clients : client[c].phase = "idle"
  BY <1>2, QuietFields
<1>5. log \in [Turns -> Seq(Event)] /\ base \in [Turns -> Nat]
  <2>1. <<>> \in Seq(Event)
    OBVIOUS
  <2>2. QED
    BY <1>2, <2>1
<1>6. TypeOK
  BY <1>1, <1>3, <1>4, <1>5 DEF Init, TypeOK
<1>7. Empty /\ Placed
  BY <1>3, <1>4 DEF Empty, Placed
<1>8. \A x \in Turns : Events(x) = {}
  BY <1>3 DEF Events, NoBuffer
<1>9. Numbered
  BY <1>8, Zenon DEF Numbered
<1>10. QED
  BY <1>6, <1>7, <1>9 DEF Typed

LEMMA TypedStep ==
    ASSUME Typed, [Next]_vars
    PROVE  Typed'
<1> DEFINE Rest == /\ log' \in [Turns -> Seq(Event)] /\ base' \in [Turns -> Nat]
                   /\ buf' \in [Turns -> Buffer]
                   /\ client' \in [Clients -> Client] /\ seq' \in Nat /\ interest' \in Nat
<1>0. /\ TypeOK /\ Empty /\ Numbered /\ Placed
      /\ log \in [Turns -> Seq(Event)] /\ base \in [Turns -> Nat] /\ buf \in [Turns -> Buffer]
      /\ client \in [Clients -> Client] /\ seq \in Nat /\ interest \in Nat
  BY DEF Typed, TypeOK
<1> DEFINE Goal == Rest /\ Empty' /\ Numbered' /\ Placed'
<1>1. ASSUME Unheard PROVE Goal
  <2>1. log' = log /\ base' = base /\ seq' = seq /\ buf' = buf /\ client' = client /\ interest' = interest
    BY <1>1 DEF Unheard
  <2>2. Rest
    BY <1>0, <2>1
  <2>3. Empty' /\ Placed'
    BY <1>0, <2>1 DEF Empty, Placed
  <2>4. Numbered'
    <3>1. \A x \in Turns : Events(x)' \subseteq Events(x)
      BY <2>1 DEF Events
    <3>2. QED
      BY <1>0, <2>1, <3>1, NumbersStay
  <2>5. QED
    BY <2>2, <2>3, <2>4
<1>2. ASSUME NEW t \in Turns, NEW kind \in Kinds, RecordStep(t, kind) PROVE Goal
  <2>1. Record(t, kind)
    BY <1>2 DEF RecordStep
  <2>2. Rest
    BY <1>0, <2>1, RecordTypes
  <2>3. Empty'
    BY <1>0, <2>1, RecordEmpty
  <2>4. Numbered'
    BY <1>0, <2>1, RecordNumbered
  <2>5. client' = Told(t, kind)
    BY <1>0, <2>1, RecordDoes
  <2>6. \A c \in Clients :
           /\ client'[c].turn = client[c].turn
           /\ client'[c].phase = (IF Ended(c, t, kind) THEN "ended" ELSE client[c].phase)
    BY <1>0, <2>5, ToldFields
  <2>7. Placed'
    BY <1>0, <2>6 DEF Placed, Ended, Heard
  <2>8. QED
    BY <2>2, <2>3, <2>4, <2>7
<1>3. ASSUME NEW t \in Turns, NEW ask \in Asks, Post(t, ask.chunks) PROVE Goal
  <2>1. /\ buf' \in [Turns -> Buffer] /\ buf'[t] = Fresh(ask.chunks)
        /\ \A x \in Turns \ {t} : buf'[x] = buf[x]
        /\ interest' \in Nat
    BY <1>0, <1>3, PostDoes
  <2>2. log' = log /\ base' = base /\ seq' = seq /\ client' = client
    BY <1>3 DEF Post
  <2>3. Fresh(ask.chunks).state = "running" /\ Fresh(ask.chunks).events = <<>>
    BY AskType, EmptyBuffer, Zenon
  <2>4. Empty'
    BY <1>0, <2>1, <2>3 DEF Empty
  <2>5. \A x \in Turns : Events(x)' \subseteq Events(x)
    BY <2>1, <2>3 DEF Events
  <2>6. Numbered'
    BY <1>0, <2>2, <2>5, NumbersStay
  <2>7. QED
    BY <1>0, <2>1, <2>2, <2>4, <2>6 DEF Placed
<1>4. ASSUME NEW c \in Clients, Disconnect(c) PROVE Goal
  <2>1. client[c].turn \in Turns
    BY <1>0, <1>4 DEF Placed, Disconnect
  <2>2. /\ buf' \in [Turns -> Buffer] /\ client' \in [Clients -> Client] /\ interest' \in Nat
        /\ \A d \in Clients \ {c} : client'[d] = client[d]
        /\ client'[c] = Quiet("gone")
        /\ \A x \in Turns :
              /\ buf'[x].state = buf[x].state /\ buf'[x].events = buf[x].events
              /\ buf[x] = NoBuffer => buf'[x] = NoBuffer
    BY <1>0, <1>4, <2>1, DisconnectDoes
  <2>3. log' = log /\ base' = base /\ seq' = seq
    BY <1>4 DEF Disconnect
  <2>4. Empty'
    BY <1>0, <2>2 DEF Empty
  <2>5. \A x \in Turns : Events(x)' \subseteq Events(x)
    BY <2>2 DEF Events
  <2>6. Numbered'
    BY <1>0, <2>3, <2>5, NumbersStay
  <2>7. Placed'
    BY <1>0, <2>2, QuietFields DEF Placed
  <2>8. QED
    BY <1>0, <2>2, <2>3, <2>4, <2>6, <2>7
<1>5. ASSUME NEW t \in Turns, NEW c \in Clients, NEW ask \in Asks, PostStream(t, c, ask)
      PROVE  Goal
  <2>1. /\ buf' \in [Turns -> Buffer] /\ client' \in [Clients -> Client] /\ interest' \in Nat
        /\ \A x \in Turns \ {t} : buf'[x] = buf[x]
        /\ \A d \in Clients \ {c} : client'[d] = client[d]
        /\ buf'[t].state = "running" /\ buf'[t].events = <<>> /\ client'[c].turn = t
    BY <1>0, <1>5, PostStreamDoes
  <2>2. log' = log /\ base' = base /\ seq' = seq
    BY <1>5 DEF PostStream
  <2>3. Empty'
    BY <1>0, <2>1 DEF Empty
  <2>4. \A x \in Turns : Events(x)' \subseteq Events(x)
    BY <2>1 DEF Events
  <2>5. Numbered'
    BY <1>0, <2>2, <2>4, NumbersStay
  <2>6. Placed'
    BY <1>0, <2>1 DEF Placed
  <2>7. QED
    BY <1>0, <2>1, <2>2, <2>3, <2>5, <2>6
<1>6. ASSUME NEW t \in Turns, NEW c \in Clients, NEW ask \in Asks, Attach(t, c, ask)
      PROVE  Goal
  <2>1. /\ buf' \in [Turns -> Buffer] /\ client' \in [Clients -> Client] /\ interest' \in Nat
        /\ \A d \in Clients \ {c} : client'[d] = client[d]
    BY <1>0, <1>6, AttachDoes
  <2>2. client'[c].turn = t \/ client'[c] = Quiet("refused")
    BY <1>0, <1>6, AttachDoes
  <2>3. \/ buf' = buf
        \/ /\ \A x \in Turns \ {t} : buf'[x] = buf[x]
           /\ buf'[t].state = "running" /\ buf'[t].events = buf[t].events
    BY <1>0, <1>6, AttachDoes
  <2>4. log' = log /\ base' = base /\ seq' = seq
    BY <1>6 DEF Attach
  <2>5. Empty'
    BY <1>0, <2>3 DEF Empty
  <2>6. \A x \in Turns : Events(x)' \subseteq Events(x)
    BY <2>3 DEF Events
  <2>7. Numbered'
    BY <1>0, <2>4, <2>6, NumbersStay
  <2>8. Placed'
    BY <1>0, <2>1, <2>2, QuietFields DEF Placed
  <2>9. QED
    BY <1>0, <2>1, <2>4, <2>5, <2>7, <2>8
<1>7. ASSUME Close PROVE Goal
  <2>1. buf' \in [Turns -> Buffer] /\ (\A x \in Turns : buf'[x] = NoBuffer) /\ interest' = 0
    BY <1>0, <1>7, CloseDoes
  <2>2. log' = log /\ base' = base /\ seq' = seq /\ client' = client
    BY <1>7 DEF Close
  <2>3. Empty' /\ Placed'
    BY <1>0, <2>1, <2>2 DEF Empty, Placed
  <2>4. \A x \in Turns : Events(x)' \subseteq Events(x)
    BY <2>1 DEF Events, NoBuffer
  <2>5. Numbered'
    BY <1>0, <2>2, <2>4, NumbersStay
  <2>6. QED
    BY <1>0, <2>1, <2>2, <2>3, <2>5
<1> HIDE DEF Goal
<1>8. Goal
  BY <1>0, <1>1, <1>2, <1>3, <1>4, <1>5, <1>6, <1>7, Steps, Zenon
<1>9. QED
  BY <1>0, <1>8, ClockTypes DEF Goal, Typed, TypeOK

LEMMA TypedAlways == Spec => []Typed
BY InitTyped, TypedStep, PTL DEF Spec

\* Every variable has its type, whatever is recorded, evicted, attached and closed: in
\* particular a replay merges the events of subagents into a sequence (#withChildren).
THEOREM StreamTypeCorrect == Spec => []TypeOK
<1>1. Typed => TypeOK
  BY DEF Typed
<1>2. QED
  BY <1>1, TypedAlways, PTL

-----------------------------------------------------------------------------
(* Readers and their buffers *)

\* A listener of a buffer is an open stream of its turn, and the buffer is running.
Listening ==
    \A t \in Turns :
        /\ \A c \in buf[t].listeners : client[c].phase = "open" /\ client[c].turn = t
        /\ buf[t].listeners # {} => buf[t].state = "running"

\* A turn has no buffer before it starts.
Unopened == \A t \in Turns : phase[t] = "new" => buf[t].state = "none"

Reading == Listening /\ Unopened /\ ReaderKeepsBuffer

LEMMA ListenersAreClients ==
    ASSUME TypeOK, NEW x \in Turns
    PROVE  buf[x].listeners \in SUBSET Clients
BY DEF TypeOK, Buffer

LEMMA NothingHeld ==
    /\ NoBuffer.state = "none" /\ NoBuffer.listeners = {} /\ NoBuffer.holds = FALSE
    /\ NoBuffer.events = <<>> /\ NoBuffer.dropped = 0 /\ NoBuffer.chunks = "none"
BY DEF NoBuffer

\* The end of a turn leaves its buffer without a listener.
LEMMA EndFreesBuffer ==
    ASSUME TypeOK, Listening, NEW t \in Turns
    PROVE  StaysOpen(t, "end") = {}
BY DEF Listening, StaysOpen, Ended, Heard

LEMMA RecordReading ==
    ASSUME Typed, Reading, NEW t \in Turns, NEW kind \in Kinds, RecordStep(t, kind)
    PROVE  Reading'
<1>0. TypeOK /\ Empty /\ Record(t, kind) /\ Listening /\ Unopened /\ ReaderKeepsBuffer
  BY DEF Typed, RecordStep, Reading
<1>1. PICK gone : Recorded(t, kind, gone)
  BY <1>0, RecordDoes
<1>2. \A c \in Clients :
         /\ client'[c].turn = client[c].turn
         /\ client'[c].phase = (IF Ended(c, t, kind) THEN "ended" ELSE client[c].phase)
  BY <1>0, RecordDoes, ToldFields
<1>3. /\ ~stopped /\ stopped' = stopped /\ phase[t] # "new" /\ phase'[t] # "new"
      /\ \A x \in Turns \ {t} : phase'[x] = phase[x]
  BY DEF RecordStep
<1>4. kind = "end" => StaysOpen(t, kind) = {}
  BY <1>0, EndFreesBuffer
<1>5. \A x \in gone : buf'[x].state = "none" /\ buf'[x].listeners = {}
  BY <1>1, NothingHeld DEF Recorded
<1>6. gone \in SUBSET Turns /\ (kind # "end" => gone = {})
  BY <1>1 DEF Recorded
<1>7. ASSUME NEW x \in Turns, x \notin gone, x # t
      PROVE  buf'[x].state = buf[x].state /\ buf'[x].listeners = buf[x].listeners
  BY <1>1, <1>7 DEF Recorded
<1>8. ASSUME t \notin gone
      PROVE  /\ buf'[t].state = (IF kind = "end" THEN "ended"
                                 ELSE IF buf[t].state = "none" THEN "running" ELSE buf[t].state)
             /\ buf'[t].listeners = (IF kind = "end" THEN {} ELSE buf[t].listeners)
  <2>1. /\ buf'[t].state = (IF kind = "end" THEN "ended"
                            ELSE IF buf[t].state = "none" THEN "running" ELSE buf[t].state)
        /\ buf'[t].listeners = (IF kind = "end" THEN StaysOpen(t, kind) ELSE buf[t].listeners)
    BY <1>1, <1>8 DEF Recorded
  <2>2. QED
    BY <1>4, <2>1
<1>9. ASSUME NEW x \in Turns, NEW c \in buf'[x].listeners
      PROVE  c \in buf[x].listeners /\ ~Ended(c, t, kind)
  <2>1. x \notin gone
    BY <1>5, <1>9
  <2>2. CASE x # t
    <3>1. c \in buf[x].listeners
      BY <1>7, <1>9, <2>1, <2>2
    <3>2. client[c].turn = x
      BY <1>0, <3>1 DEF Listening
    <3>3. QED
      BY <2>2, <3>1, <3>2 DEF Ended
  <2>3. CASE x = t
    BY <1>8, <1>9, <2>1, <2>3 DEF Ended
  <2>4. QED
    BY <2>2, <2>3
<1>10. Listening'
  <2>1. ASSUME NEW x \in Turns, NEW c \in buf'[x].listeners
        PROVE  client'[c].phase = "open" /\ client'[c].turn = x
    <3>1. c \in buf[x].listeners /\ ~Ended(c, t, kind)
      BY <1>9
    <3>2. c \in Clients
      BY <1>0, <3>1, ListenersAreClients
    <3>3. client[c].phase = "open" /\ client[c].turn = x
      BY <1>0, <3>1 DEF Listening
    <3>4. QED
      BY <1>2, <3>1, <3>2, <3>3
  <2>2. ASSUME NEW x \in Turns, buf'[x].listeners # {}
        PROVE  buf'[x].state = "running"
    <3>1. x \notin gone
      BY <1>5, <2>2
    <3>2. CASE x # t
      BY <1>0, <1>7, <2>2, <3>1, <3>2 DEF Listening
    <3>3. CASE x = t
      BY <1>0, <1>8, <2>2, <3>1, <3>3 DEF Listening
    <3>4. QED
      BY <3>2, <3>3
  <2>3. QED
    BY <2>1, <2>2 DEF Listening
<1>11. Unopened'
  <2>1. SUFFICES ASSUME NEW x \in Turns, phase'[x] = "new"
                 PROVE  buf'[x].state = "none"
    BY DEF Unopened
  <2>2. x # t /\ phase[x] = "new"
    BY <1>3, <2>1
  <2>3. QED
    BY <1>0, <1>5, <1>7, <2>2 DEF Unopened
<1>12. ReaderKeepsBuffer'
  <2>1. SUFFICES ASSUME NEW c \in Clients, client'[c].phase = "open"
                 PROVE  /\ c \in buf'[client'[c].turn].listeners
                        /\ buf'[client'[c].turn].state = "running"
    BY DEF ReaderKeepsBuffer
  <2>2. /\ ~Ended(c, t, kind) /\ client[c].phase = "open" /\ client'[c].turn = client[c].turn
    BY <1>2, <2>1
  <2>3. PICK x \in Turns : x = client[c].turn
    BY <2>2 DEF Typed, Placed
  <2>4. c \in buf[x].listeners /\ buf[x].state = "running"
    BY <1>0, <1>3, <2>2, <2>3 DEF ReaderKeepsBuffer
  <2>5. CASE x # t
    <3>1. x \notin gone
      BY <1>1, <2>4, <2>5 DEF Recorded
    <3>2. QED
      BY <1>7, <2>2, <2>3, <2>4, <2>5, <3>1
  <2>6. CASE x = t
    <3>1. kind # "end"
      BY <2>2, <2>3, <2>4, <2>6 DEF Ended, Heard
    <3>2. t \notin gone
      BY <1>6, <3>1
    <3>3. QED
      BY <1>8, <2>2, <2>3, <2>4, <2>6, <3>1, <3>2
  <2>7. QED
    BY <2>5, <2>6
<1>13. QED
  BY <1>10, <1>11, <1>12 DEF Reading

LEMMA ReadingStep ==
    ASSUME Typed, Reading, [Next]_vars
    PROVE  Reading'
<1>0. TypeOK /\ Empty /\ Numbered /\ Placed /\ Listening /\ Unopened /\ ReaderKeepsBuffer
  BY DEF Typed, Reading
<1>0a. phase \in [Turns -> {"new", "due", "live", "ended", "silent"}]
  BY <1>0 DEF TypeOK
<1>0b. \A x \in Turns : buf[x].listeners \in SUBSET Clients
  BY <1>0, ListenersAreClients
<1>1. ASSUME Unheard PROVE Reading'
  <2>1. buf' = buf /\ client' = client /\ stopped' = stopped
    BY <1>1 DEF Unheard
  <2>2. \A x \in Turns : phase'[x] = "new" => phase[x] = "new"
    BY <1>1 DEF Unheard
  <2>3. QED
    BY <1>0, <2>1, <2>2 DEF Reading, Listening, Unopened, ReaderKeepsBuffer
<1>2. ASSUME NEW t \in Turns, NEW kind \in Kinds, RecordStep(t, kind) PROVE Reading'
  BY <1>2, RecordReading
<1>3. ASSUME NEW t \in Turns, NEW ask \in Asks, Post(t, ask.chunks) PROVE Reading'
  <2>1. buf'[t] = Fresh(ask.chunks) /\ \A x \in Turns \ {t} : buf'[x] = buf[x]
    BY <1>0, <1>3, PostDoes
  <2>2. Fresh(ask.chunks).state = "running" /\ Fresh(ask.chunks).listeners = {}
    BY AskType, EmptyBuffer, Zenon
  <2>3. /\ client' = client /\ stopped' = stopped /\ ~stopped /\ phase[t] = "new"
        /\ phase' = [phase EXCEPT ![t] = "due"]
    BY <1>3 DEF Post
  <2>4. buf[t].listeners = {}
    BY <1>0, <2>3, NothingHeld DEF Unopened, Empty
  <2>5. Listening'
    BY <1>0, <2>1, <2>2, <2>3 DEF Listening
  <2>6. Unopened'
    BY <1>0, <1>0a, <2>1, <2>3 DEF Unopened
  <2>7. ReaderKeepsBuffer'
    <3>1. SUFFICES ASSUME NEW c \in Clients, client[c].phase = "open"
                   PROVE  /\ c \in buf'[client[c].turn].listeners
                          /\ buf'[client[c].turn].state = "running"
      BY <2>3 DEF ReaderKeepsBuffer
    <3>2. client[c].turn \in Turns
      BY <1>0, <3>1 DEF Placed
    <3>3. c \in buf[client[c].turn].listeners /\ buf[client[c].turn].state = "running"
      BY <1>0, <2>3, <3>1 DEF ReaderKeepsBuffer
    <3>4. client[c].turn # t
      BY <2>4, <3>3
    <3>5. QED
      BY <2>1, <3>2, <3>3, <3>4
  <2>8. QED
    BY <2>5, <2>6, <2>7 DEF Reading
<1>4. ASSUME NEW c \in Clients, Disconnect(c) PROVE Reading'
  <2>1. client[c].turn \in Turns /\ client[c].phase = "open"
    BY <1>0, <1>4 DEF Placed, Disconnect
  <2>2. /\ \A d \in Clients \ {c} : client'[d] = client[d]
        /\ client'[c] = Quiet("gone")
        /\ \A x \in Turns :
              /\ buf'[x].state = buf[x].state
              /\ buf'[x].listeners = IF x = client[c].turn THEN buf[x].listeners \ {c}
                                     ELSE buf[x].listeners
    BY <1>0, <1>4, <2>1, DisconnectDoes
  <2>3. phase' = phase /\ stopped' = stopped
    BY <1>4 DEF Disconnect
  <2>4. client'[c].phase = "gone"
    BY <2>2, QuietFields
  <2>5. \A x \in Turns : c \in buf[x].listeners => x = client[c].turn
    BY <1>0 DEF Listening
  <2>6. Listening'
    <3>1. ASSUME NEW x \in Turns, NEW d \in buf'[x].listeners
          PROVE  client'[d].phase = "open" /\ client'[d].turn = x
      <4>1. d \in buf[x].listeners /\ d # c
        BY <2>2, <2>5, <3>1
      <4>2. d \in Clients
        BY <1>0b, <4>1
      <4>3. QED
        BY <1>0, <2>2, <4>1, <4>2 DEF Listening
    <3>2. ASSUME NEW x \in Turns, buf'[x].listeners # {}
          PROVE  buf'[x].state = "running"
      BY <1>0, <2>2, <3>2 DEF Listening
    <3>3. QED
      BY <3>1, <3>2 DEF Listening
  <2>7. Unopened'
    BY <1>0, <2>2, <2>3 DEF Unopened
  <2>8. ReaderKeepsBuffer'
    <3>1. SUFFICES ASSUME NEW d \in Clients, client'[d].phase = "open", ~stopped
                   PROVE  /\ d \in buf'[client'[d].turn].listeners
                          /\ buf'[client'[d].turn].state = "running"
      BY <2>3 DEF ReaderKeepsBuffer
    <3>2. d # c /\ client'[d] = client[d]
      BY <2>2, <2>4, <3>1
    <3>3. client[d].turn \in Turns /\ client[d].phase = "open"
      BY <1>0, <3>1, <3>2 DEF Placed
    <3>4. d \in buf[client[d].turn].listeners /\ buf[client[d].turn].state = "running"
      BY <1>0, <3>1, <3>3 DEF ReaderKeepsBuffer
    <3>5. QED
      BY <2>2, <3>2, <3>3, <3>4
  <2>9. QED
    BY <2>6, <2>7, <2>8 DEF Reading
<1>5. ASSUME NEW t \in Turns, NEW c \in Clients, NEW ask \in Asks, PostStream(t, c, ask)
      PROVE  Reading'
  <2>1. /\ \A x \in Turns \ {t} : buf'[x] = buf[x]
        /\ \A d \in Clients \ {c} : client'[d] = client[d]
        /\ buf'[t].state = "running" /\ buf'[t].listeners = {c}
        /\ client'[c].phase = "open" /\ client'[c].turn = t
    BY <1>0, <1>5, PostStreamDoes
  <2>2. /\ phase' = [phase EXCEPT ![t] = "due"] /\ stopped' = stopped /\ ~stopped
        /\ phase[t] = "new" /\ client[c].phase = "idle"
    BY <1>5 DEF PostStream
  <2>3. buf[t].listeners = {}
    BY <1>0, <2>2, NothingHeld DEF Unopened, Empty
  <2>4. Listening'
    <3>1. ASSUME NEW x \in Turns, NEW d \in buf'[x].listeners
          PROVE  client'[d].phase = "open" /\ client'[d].turn = x
      <4>1. CASE x = t
        BY <2>1, <3>1, <4>1
      <4>2. CASE x # t
        <5>1. d \in buf[x].listeners
          BY <2>1, <3>1, <4>2
        <5>2. d \in Clients /\ client[d].phase = "open" /\ client[d].turn = x
          BY <1>0, <1>0b, <5>1 DEF Listening
        <5>3. QED
          BY <2>1, <2>2, <5>2
      <4>3. QED
        BY <4>1, <4>2
    <3>2. ASSUME NEW x \in Turns, buf'[x].listeners # {}
          PROVE  buf'[x].state = "running"
      BY <1>0, <2>1, <3>2 DEF Listening
    <3>3. QED
      BY <3>1, <3>2 DEF Listening
  <2>5. Unopened'
    BY <1>0, <1>0a, <2>1, <2>2 DEF Unopened
  <2>6. ReaderKeepsBuffer'
    <3>1. SUFFICES ASSUME NEW d \in Clients, client'[d].phase = "open"
                   PROVE  /\ d \in buf'[client'[d].turn].listeners
                          /\ buf'[client'[d].turn].state = "running"
      BY DEF ReaderKeepsBuffer
    <3>2. CASE d = c
      BY <2>1, <3>2
    <3>3. CASE d # c
      <4>1. client'[d] = client[d]
        BY <2>1, <3>3
      <4>2. client[d].turn \in Turns /\ client[d].phase = "open"
        BY <1>0, <3>1, <4>1 DEF Placed
      <4>3. d \in buf[client[d].turn].listeners /\ buf[client[d].turn].state = "running"
        BY <1>0, <2>2, <4>2 DEF ReaderKeepsBuffer
      <4>4. client[d].turn # t
        BY <2>3, <4>3
      <4>5. QED
        BY <2>1, <4>1, <4>2, <4>3, <4>4
    <3>4. QED
      BY <3>2, <3>3
  <2>7. QED
    BY <2>4, <2>5, <2>6 DEF Reading
<1>6. ASSUME NEW t \in Turns, NEW c \in Clients, NEW ask \in Asks, Attach(t, c, ask)
      PROVE  Reading'
  <2>1. \A d \in Clients \ {c} : client'[d] = client[d]
    BY <1>0, <1>6, AttachDoes
  <2>2. phase' = phase /\ stopped' = stopped /\ ~stopped /\ client[c].phase = "idle"
    BY <1>6 DEF Attach
  <2>3. \/ buf' = buf /\ client'[c].phase # "open"
        \/ /\ buf[t].state = "running" /\ client'[c].phase = "open" /\ client'[c].turn = t
           /\ \A x \in Turns \ {t} : buf'[x] = buf[x]
           /\ buf'[t].state = "running" /\ buf'[t].listeners = buf[t].listeners \cup {c}
    BY <1>0, <1>6, AttachDoes, QuietFields
  <2>4. \A x \in Turns : c \notin buf[x].listeners
    BY <1>0, <2>2 DEF Listening
  <2>5. CASE buf' = buf /\ client'[c].phase # "open"
    <3>1. Listening'
      BY <1>0, <1>0b, <2>1, <2>4, <2>5 DEF Listening
    <3>2. Unopened'
      BY <1>0, <2>2, <2>5 DEF Unopened
    <3>3. ReaderKeepsBuffer'
      BY <1>0, <2>1, <2>2, <2>5 DEF ReaderKeepsBuffer
    <3>4. QED
      BY <3>1, <3>2, <3>3 DEF Reading
  <2>6. CASE /\ buf[t].state = "running" /\ client'[c].phase = "open" /\ client'[c].turn = t
             /\ \A x \in Turns \ {t} : buf'[x] = buf[x]
             /\ buf'[t].state = "running" /\ buf'[t].listeners = buf[t].listeners \cup {c}
    <3>1. Listening'
      <4>1. ASSUME NEW x \in Turns, NEW d \in buf'[x].listeners
            PROVE  client'[d].phase = "open" /\ client'[d].turn = x
        <5>1. CASE d = c
          <6>1. x = t
            BY <2>4, <2>6, <4>1, <5>1
          <6>2. QED
            BY <2>6, <5>1, <6>1
        <5>2. CASE d # c
          <6>1. d \in buf[x].listeners
            BY <2>6, <4>1, <5>2
          <6>2. d \in Clients /\ client[d].phase = "open" /\ client[d].turn = x
            BY <1>0, <1>0b, <6>1 DEF Listening
          <6>3. QED
            BY <2>1, <5>2, <6>2
        <5>3. QED
          BY <5>1, <5>2
      <4>2. ASSUME NEW x \in Turns, buf'[x].listeners # {}
            PROVE  buf'[x].state = "running"
        BY <1>0, <2>6, <4>2 DEF Listening
      <4>3. QED
        BY <4>1, <4>2 DEF Listening
    <3>2. Unopened'
      BY <1>0, <2>2, <2>6 DEF Unopened
    <3>3. ReaderKeepsBuffer'
      <4>1. SUFFICES ASSUME NEW d \in Clients, client'[d].phase = "open"
                     PROVE  /\ d \in buf'[client'[d].turn].listeners
                            /\ buf'[client'[d].turn].state = "running"
        BY DEF ReaderKeepsBuffer
      <4>2. CASE d = c
        BY <2>6, <4>2
      <4>3. CASE d # c
        <5>1. client'[d] = client[d]
          BY <2>1, <4>3
        <5>2. client[d].turn \in Turns /\ client[d].phase = "open"
          BY <1>0, <4>1, <5>1 DEF Placed
        <5>3. d \in buf[client[d].turn].listeners /\ buf[client[d].turn].state = "running"
          BY <1>0, <2>2, <5>2 DEF ReaderKeepsBuffer
        <5>4. QED
          BY <2>6, <5>1, <5>2, <5>3
      <4>4. QED
        BY <4>2, <4>3
    <3>4. QED
      BY <3>1, <3>2, <3>3 DEF Reading
  <2>7. QED
    BY <2>3, <2>5, <2>6
<1>7. ASSUME Close PROVE Reading'
  <2>1. (\A x \in Turns : buf'[x] = NoBuffer) /\ stopped' = TRUE
    BY <1>0, <1>7, CloseDoes
  <2>2. QED
    BY <2>1, NothingHeld DEF Reading, Listening, Unopened, ReaderKeepsBuffer
<1>8. QED
  BY <1>0, <1>1, <1>2, <1>3, <1>4, <1>5, <1>6, <1>7, Steps, Zenon

LEMMA InitReading == Init => Reading
<1>1. SUFFICES ASSUME Init PROVE Reading
  OBVIOUS
<1>2. \A x \in Turns : buf[x] = NoBuffer
  BY <1>1 DEF Init
<1>3. \A c \in Clients : client[c].phase = "idle"
  BY <1>1, QuietFields DEF Init
<1>4. QED
  BY <1>2, <1>3, NothingHeld DEF Reading, Listening, Unopened, ReaderKeepsBuffer

LEMMA ReadingAlways == Spec => []Reading
BY InitReading, ReadingStep, TypedAlways, PTL DEF Spec

-----------------------------------------------------------------------------
(* Interest in tokens *)

LEMMA LessMembers ==
    ASSUME NEW S, IsFiniteSet(S), NEW T \in SUBSET S
    PROVE  /\ Cardinality(S) \in Nat /\ Cardinality(T) \in Nat /\ Cardinality(T) <= Cardinality(S)
           /\ Cardinality(S \ T) = Cardinality(S) - Cardinality(T)
<1>1. IsFiniteSet(T) /\ Cardinality(T) <= Cardinality(S)
  BY FS_Subset
<1>2. Cardinality(S) \in Nat /\ Cardinality(T) \in Nat
  BY <1>1, FS_CardinalityType
<1>3. Cardinality(S \ T) = Cardinality(S) - Cardinality(S \cap T)
  BY FS_Difference
<1>4. S \cap T = T
  OBVIOUS
<1>5. QED
  BY <1>1, <1>2, <1>3, <1>4

LEMMA Owners ==
    /\ Holders \in SUBSET Turns /\ Readers \in SUBSET Clients
    /\ IsFiniteSet(Holders) /\ IsFiniteSet(Readers)
    /\ Cardinality(Holders) \in Nat /\ Cardinality(Readers) \in Nat
<1>1. Holders \in SUBSET Turns /\ Readers \in SUBSET Clients
  BY DEF Holders, Readers
<1>2. QED
  BY <1>1, CountType

LEMMA RecordOwned ==
    ASSUME Typed, InterestOwned, NEW t \in Turns, NEW kind \in Kinds, RecordStep(t, kind)
    PROVE  InterestOwned'
<1>0. TypeOK /\ Empty /\ Record(t, kind) /\ ~stopped /\ stopped' = stopped
  BY DEF Typed, RecordStep
<1>1. PICK gone : Recorded(t, kind, gone)
  BY <1>0, RecordDoes
<1> DEFINE L == {c \in Clients : Ended(c, t, kind) /\ client[c].chunks}
           H == {x \in gone : buf[x].holds}
<1>2. gone \in SUBSET Turns /\ interest' = Less(interest, Cardinality(L) + Cardinality(H))
  BY <1>1 DEF Recorded
<1>3. \A c \in Clients :
         /\ client'[c].chunks = client[c].chunks
         /\ client'[c].phase = (IF Ended(c, t, kind) THEN "ended" ELSE client[c].phase)
  BY <1>0, RecordDoes, ToldFields
<1>4. L \in SUBSET Readers /\ Readers' = Readers \ L
  <2>1. \A c \in Clients : Ended(c, t, kind) => client[c].phase = "open"
    BY DEF Ended, Heard
  <2>2. \A c \in Clients : client'[c].phase = "open" <=> client[c].phase = "open" /\ ~Ended(c, t, kind)
    BY <1>3
  <2>3. QED
    BY <1>3, <2>1, <2>2, Zenon DEF Readers
<1>5. H \in SUBSET Holders /\ Holders' = Holders \ H
  <2>1. \A x \in gone : buf'[x].holds = FALSE
    BY <1>1, NothingHeld DEF Recorded
  <2>2. \A x \in Turns \ gone : buf'[x].holds = buf[x].holds
    BY <1>1 DEF Recorded
  <2>3. QED
    BY <1>2, <2>1, <2>2, Zenon DEF Holders
<1> HIDE DEF L, H
<1>6. /\ Cardinality(L) \in Nat /\ Cardinality(L) <= Cardinality(Readers)
      /\ Cardinality(Readers') = Cardinality(Readers) - Cardinality(L)
  BY <1>4, LessMembers, Owners
<1>7. /\ Cardinality(H) \in Nat /\ Cardinality(H) <= Cardinality(Holders)
      /\ Cardinality(Holders') = Cardinality(Holders) - Cardinality(H)
  BY <1>5, LessMembers, Owners
<1>8. interest = Cardinality(Holders) + Cardinality(Readers) /\ interest \in Nat
  BY <1>0 DEF InterestOwned, TypeOK
<1>9. Cardinality(Holders) \in Nat /\ Cardinality(Readers) \in Nat
  BY Owners
<1>10. Cardinality(L) + Cardinality(H) \in Nat /\ Cardinality(L) + Cardinality(H) <= interest
  BY <1>6, <1>7, <1>8, <1>9
<1>11. interest' = interest - (Cardinality(L) + Cardinality(H))
  BY <1>2, <1>8, <1>10, LessType
<1>12. interest' = Cardinality(Holders') + Cardinality(Readers')
  BY <1>6, <1>7, <1>8, <1>9, <1>11
<1>13. QED
  BY <1>0, <1>12 DEF InterestOwned

LEMMA OwnedStep ==
    ASSUME Typed, Reading, InterestOwned, [Next]_vars
    PROVE  InterestOwned'
<1>0. TypeOK /\ Empty /\ Numbered /\ Placed /\ Listening /\ Unopened
  BY DEF Typed, Reading
<1>0a. /\ IsFiniteSet(Holders) /\ IsFiniteSet(Readers) /\ interest \in Nat
       /\ Cardinality(Holders) \in Nat /\ Cardinality(Readers) \in Nat
  BY <1>0, Owners DEF TypeOK
<1>0b. ~stopped => interest = Cardinality(Holders) + Cardinality(Readers)
  BY DEF InterestOwned
<1>1. ASSUME Unheard PROVE InterestOwned'
  BY <1>1 DEF Unheard, InterestOwned, Holders, Readers
<1>2. ASSUME NEW t \in Turns, NEW kind \in Kinds, RecordStep(t, kind) PROVE InterestOwned'
  BY <1>2, RecordOwned
<1>3. ASSUME NEW t \in Turns, NEW ask \in Asks, Post(t, ask.chunks) PROVE InterestOwned'
  <2>1. buf'[t] = Fresh(ask.chunks) /\ \A x \in Turns \ {t} : buf'[x] = buf[x]
    BY <1>0, <1>3, PostDoes
  <2>2. Fresh(ask.chunks).holds = ask.chunks
    BY AskType, EmptyBuffer, Zenon
  <2>3. /\ client' = client /\ stopped' = stopped /\ ~stopped /\ phase[t] = "new"
        /\ interest' = IF ask.chunks THEN interest + 1 ELSE interest
    BY <1>3 DEF Post
  <2>4. buf[t].holds = FALSE
    BY <1>0, <2>3, NothingHeld DEF Unopened, Empty
  <2>5. t \notin Holders
    BY <2>4, Zenon DEF Holders
  <2>6. Readers' = Readers
    BY <2>3 DEF Readers
  <2>7. CASE ask.chunks
    <3>1. Holders' = Holders \cup {t}
      BY <2>1, <2>2, <2>7, Zenon DEF Holders
    <3>2. Cardinality(Holders \cup {t}) = Cardinality(Holders) + 1
      BY <1>0a, <2>5, FS_AddElement
    <3>3. interest' = Cardinality(Holders') + Cardinality(Readers')
      BY <1>0a, <1>0b, <2>3, <2>6, <2>7, <3>1, <3>2
    <3>4. QED
      BY <2>3, <3>3 DEF InterestOwned
  <2>8. CASE ~ask.chunks
    <3>1. Holders' = Holders
      BY <2>1, <2>2, <2>4, <2>8, Zenon DEF Holders
    <3>2. interest' = Cardinality(Holders') + Cardinality(Readers')
      BY <1>0b, <2>3, <2>6, <2>8, <3>1
    <3>3. QED
      BY <2>3, <3>2 DEF InterestOwned
  <2>9. QED
    BY <2>7, <2>8
<1>4. ASSUME NEW c \in Clients, Disconnect(c) PROVE InterestOwned'
  <2>1. client[c].turn \in Turns /\ client[c].phase = "open"
    BY <1>0, <1>4 DEF Placed, Disconnect
  <2>2. /\ \A d \in Clients \ {c} : client'[d] = client[d]
        /\ client'[c] = Quiet("gone")
        /\ \A x \in Turns : buf'[x].holds = buf[x].holds
    BY <1>0, <1>4, <2>1, DisconnectDoes
  <2>3. /\ stopped' = stopped
        /\ interest' = IF client[c].chunks THEN Less(interest, 1) ELSE interest
    BY <1>4 DEF Disconnect
  <2>4. client'[c].phase # "open"
    BY <2>2, QuietFields
  <2>5. Holders' = Holders
    BY <2>2, Zenon DEF Holders
  <2>6. Readers' = Readers \ {c}
    BY <2>2, <2>4, Zenon DEF Readers
  <2>7. c \in Readers <=> client[c].chunks
    BY <2>1, Zenon DEF Readers
  <2>8. Cardinality(Readers \ {c}) = IF c \in Readers THEN Cardinality(Readers) - 1
                                     ELSE Cardinality(Readers)
    BY <1>0a, FS_RemoveElement
  <2>9. c \in Readers => Cardinality(Readers) # 0
    BY <1>0a, FS_EmptySet
  <2>10. CASE stopped
    <3>1. interest = 0
      BY <2>10 DEF InterestOwned
    <3>2. Less(0, 1) = 0
      BY DEF Less
    <3>3. interest' = 0
      BY <2>3, <3>1, <3>2
    <3>4. QED
      BY <2>3, <2>10, <3>3 DEF InterestOwned
  <2>11. CASE ~stopped
    <3>1. interest = Cardinality(Holders) + Cardinality(Readers)
      BY <1>0b, <2>11
    <3>2. interest' = Cardinality(Holders') + Cardinality(Readers')
      <4>1. CASE client[c].chunks
        <5>1. c \in Readers
          BY <2>7, <4>1
        <5>2. 1 <= interest
          BY <1>0a, <2>9, <3>1, <5>1
        <5>3. interest' = interest - 1
          BY <1>0a, <2>3, <4>1, <5>2, LessType
        <5>4. QED
          BY <1>0a, <2>5, <2>6, <2>8, <3>1, <5>1, <5>3
      <4>2. CASE ~client[c].chunks
        <5>1. c \notin Readers
          BY <2>7, <4>2
        <5>2. QED
          BY <2>3, <2>5, <2>6, <2>8, <3>1, <4>2, <5>1
      <4>3. QED
        BY <4>1, <4>2
    <3>3. QED
      BY <2>3, <2>11, <3>2 DEF InterestOwned
  <2>12. QED
    BY <2>10, <2>11
<1>5. ASSUME NEW t \in Turns, NEW c \in Clients, NEW ask \in Asks, PostStream(t, c, ask)
      PROVE  InterestOwned'
  <2>1. /\ \A x \in Turns \ {t} : buf'[x] = buf[x]
        /\ \A d \in Clients \ {c} : client'[d] = client[d]
        /\ buf'[t].holds = ask.chunks
        /\ client'[c].phase = "open" /\ client'[c].chunks = ask.chunks
    BY <1>0, <1>5, PostStreamDoes
  <2>2. /\ stopped' = stopped /\ ~stopped /\ phase[t] = "new" /\ client[c].phase = "idle"
        /\ interest' = IF ask.chunks THEN interest + 2 ELSE interest
    BY <1>5 DEF PostStream
  <2>3. buf[t].holds = FALSE
    BY <1>0, <2>2, NothingHeld DEF Unopened, Empty
  <2>4. t \notin Holders
    BY <2>3, Zenon DEF Holders
  <2>5. c \notin Readers
    BY <2>2 DEF Readers
  <2>6. CASE ask.chunks
    <3>1. Holders' = Holders \cup {t}
      BY <2>1, <2>6, Zenon DEF Holders
    <3>2. Readers' = Readers \cup {c}
      BY <2>1, <2>6, Zenon DEF Readers
    <3>3. Cardinality(Holders \cup {t}) = Cardinality(Holders) + 1
      BY <1>0a, <2>4, FS_AddElement
    <3>4. Cardinality(Readers \cup {c}) = Cardinality(Readers) + 1
      BY <1>0a, <2>5, FS_AddElement
    <3>5. interest' = Cardinality(Holders') + Cardinality(Readers')
      BY <1>0a, <1>0b, <2>2, <2>6, <3>1, <3>2, <3>3, <3>4
    <3>6. QED
      BY <2>2, <3>5 DEF InterestOwned
  <2>7. CASE ~ask.chunks
    <3>1. Holders' = Holders
      BY <2>1, <2>3, <2>7, Zenon DEF Holders
    <3>2. Readers' = Readers
      <4>1. \A d \in Clients : d \in Readers' <=> d \in Readers
        BY <2>1, <2>5, <2>7, Zenon DEF Readers
      <4>2. QED
        BY <4>1, Zenon DEF Readers
    <3>3. interest' = Cardinality(Holders') + Cardinality(Readers')
      BY <1>0b, <2>2, <2>7, <3>1, <3>2
    <3>4. QED
      BY <2>2, <3>3 DEF InterestOwned
  <2>8. QED
    BY <2>6, <2>7
<1>6. ASSUME NEW t \in Turns, NEW c \in Clients, NEW ask \in Asks, Attach(t, c, ask)
      PROVE  InterestOwned'
  <2>1. \A d \in Clients \ {c} : client'[d] = client[d]
    BY <1>0, <1>6, AttachDoes
  <2>2. stopped' = stopped /\ ~stopped /\ client[c].phase = "idle"
    BY <1>6 DEF Attach
  <2>3. \/ buf' = buf /\ client'[c].phase # "open" /\ interest' = interest
        \/ /\ client'[c].phase = "open" /\ client'[c].chunks = ask.chunks
           /\ \A x \in Turns : buf'[x].holds = buf[x].holds
           /\ interest' = IF ask.chunks THEN interest + 1 ELSE interest
    <3>1. CASE buf[t].state = "none"
      BY <1>0, <1>6, <3>1, AttachDoes, QuietFields
    <3>2. CASE buf[t].state = "ended"
      BY <1>0, <1>6, <3>2, AttachDoes
    <3>3. CASE buf[t].state = "running"
      <4>1. /\ client'[c].phase = "open" /\ client'[c].chunks = ask.chunks
            /\ \A x \in Turns \ {t} : buf'[x] = buf[x]
            /\ buf'[t].holds = buf[t].holds
            /\ interest' = IF ask.chunks THEN interest + 1 ELSE interest
        BY <1>0, <1>6, <3>3, AttachDoes
      <4>2. \A x \in Turns : buf'[x].holds = buf[x].holds
        BY <4>1
      <4>3. QED
        BY <4>1, <4>2
    <3>4. QED
      BY <1>0, <3>1, <3>2, <3>3 DEF TypeOK, Buffer
  <2>4. c \notin Readers
    BY <2>2 DEF Readers
  <2>5. CASE buf' = buf /\ client'[c].phase # "open" /\ interest' = interest
    <3>1. Holders' = Holders
      BY <2>5 DEF Holders
    <3>2. Readers' = Readers
      <4>1. \A d \in Clients : d \in Readers' <=> d \in Readers
        BY <2>1, <2>4, <2>5, Zenon DEF Readers
      <4>2. QED
        BY <4>1, Zenon DEF Readers
    <3>3. QED
      BY <1>0b, <2>2, <2>5, <3>1, <3>2 DEF InterestOwned
  <2>6. CASE /\ client'[c].phase = "open" /\ client'[c].chunks = ask.chunks
             /\ \A x \in Turns : buf'[x].holds = buf[x].holds
             /\ interest' = IF ask.chunks THEN interest + 1 ELSE interest
    <3>1. Holders' = Holders
      BY <2>6, Zenon DEF Holders
    <3>2. CASE ask.chunks
      <4>1. Readers' = Readers \cup {c}
        BY <2>1, <2>6, <3>2, Zenon DEF Readers
      <4>2. Cardinality(Readers \cup {c}) = Cardinality(Readers) + 1
        BY <1>0a, <2>4, FS_AddElement
      <4>3. interest' = Cardinality(Holders') + Cardinality(Readers')
        BY <1>0a, <1>0b, <2>2, <2>6, <3>1, <3>2, <4>1, <4>2
      <4>4. QED
        BY <2>2, <4>3 DEF InterestOwned
    <3>3. CASE ~ask.chunks
      <4>1. \A d \in Clients : d \in Readers' <=> d \in Readers
        BY <2>1, <2>4, <2>6, <3>3, Zenon DEF Readers
      <4>2. Readers' = Readers
        BY <4>1, Zenon DEF Readers
      <4>3. interest' = Cardinality(Holders') + Cardinality(Readers')
        BY <1>0b, <2>2, <2>6, <3>1, <3>3, <4>2
      <4>4. QED
        BY <2>2, <4>3 DEF InterestOwned
    <3>4. QED
      BY <3>2, <3>3
  <2>7. QED
    BY <2>3, <2>5, <2>6
<1>7. ASSUME Close PROVE InterestOwned'
  <2>1. interest' = 0 /\ stopped' = TRUE
    BY <1>0, <1>7, CloseDoes
  <2>2. QED
    BY <2>1 DEF InterestOwned
<1>8. QED
  BY <1>0, <1>1, <1>2, <1>3, <1>4, <1>5, <1>6, <1>7, Steps, Zenon

LEMMA InitOwned == Init => InterestOwned
<1>1. SUFFICES ASSUME Init PROVE InterestOwned
  OBVIOUS
<1>2. Holders = {}
  <2>1. \A x \in Turns : buf[x].holds = FALSE
    BY <1>1, NothingHeld DEF Init
  <2>2. QED
    BY <2>1, Zenon DEF Holders
<1>3. Readers = {}
  BY <1>1, QuietFields DEF Init, Readers
<1>4. Cardinality(Holders) = 0 /\ Cardinality(Readers) = 0
  BY <1>2, <1>3, FS_EmptySet
<1>5. interest = 0
  BY <1>1 DEF Init
<1>6. QED
  BY <1>4, <1>5 DEF InterestOwned

\* The count of token interest is exactly its owners: no order of openings, attachments,
\* ends, evictions and disconnections leaks a unit or takes another reader's
\* (#takeChunkInterest, #releaseChunkInterest, #drop, the teardown of sseResponse).
THEOREM InterestIsOwned == Spec => []InterestOwned
BY InitOwned, OwnedStep, TypedAlways, ReadingAlways, PTL DEF Spec

-----------------------------------------------------------------------------
(* The life of a buffer *)

EndedOnes == {t \in Turns : buf[t].state = "ended"}

\* What an eviction leaves is within the count.
LEMMA EvictionLeaves ==
    ASSUME NEW b, now \in Nat, NEW gone \in Evictions(b)
    PROVE  Cardinality(Unlistened(b) \ gone) <= RetainCount
<1> DEFINE idle == Unlistened(b)
           aged == {t \in idle : now - b[t].endedAt >= RetainMs}
           rest == idle \ aged
           excess == Less(Cardinality(rest), RetainCount)
<1>1. PICK d \in SUBSET rest : gone = aged \cup d /\ Cardinality(d) = excess
  BY DEF Evictions
<1>2. idle \in SUBSET Turns
  BY DEF Unlistened
<1>3. aged \in SUBSET idle
  OBVIOUS
<1> HIDE DEF idle, aged
<1>4. rest \in SUBSET Turns
  BY <1>2
<1>5. idle \ gone = rest \ d
  BY <1>1
<1> HIDE DEF rest
<1>6. IsFiniteSet(rest) /\ Cardinality(rest) \in Nat
  BY <1>4, CountType
<1>7. Cardinality(rest \ d) = Cardinality(rest) - Cardinality(d)
  BY <1>6, LessMembers
<1>8. RetainCount \in Nat
  BY StreamConstants
<1>9. Cardinality(rest) - excess <= RetainCount
  BY <1>6, <1>8 DEF Less
<1>10. Cardinality(idle \ gone) <= RetainCount
  BY <1>1, <1>5, <1>7, <1>9
<1>11. QED
  BY <1>10 DEF idle

LEMMA RecordRetains ==
    ASSUME Typed, Reading, RetentionBound, NEW t \in Turns, NEW kind \in Kinds,
           RecordStep(t, kind)
    PROVE  RetentionBound'
<1>0. TypeOK /\ Empty /\ Record(t, kind) /\ Listening
  BY DEF Typed, RecordStep, Reading
<1>1. PICK gone : Recorded(t, kind, gone)
  BY <1>0, RecordDoes
<1>2. CASE kind = "end"
  <2> DEFINE a == After(t, kind)
  <2>1. gone \in Evictions(a) /\ buf' = [x \in Turns |-> IF x \in gone THEN NoBuffer ELSE a[x]]
    BY <1>1, <1>2 DEF Recorded
  <2>2. StaysOpen(t, kind) = {}
    BY <1>0, <1>2, EndFreesBuffer
  <2>3. /\ a[t].listeners = {}
        /\ \A x \in Turns : x # t => /\ a[x].state = buf[x].state
                                     /\ a[x].listeners = buf[x].listeners
    BY <1>0, <1>2, <2>2, AfterFields
  <2> HIDE DEF a
  <2>4. \A x \in Turns : a[x].state = "ended" => a[x].listeners = {}
    BY <1>0, <2>3 DEF Listening
  <2>5. \A x \in Turns : x \in Unlistened(a) <=> a[x].state = "ended"
    BY <2>4 DEF Unlistened
  <2>6. EndedOnes' = Unlistened(a) \ gone
    <3>1. \A x \in Turns : buf'[x].state = "ended" <=> x \notin gone /\ a[x].state = "ended"
      BY <2>1, NothingHeld
    <3>2. QED
      BY <2>5, <3>1, Zenon DEF EndedOnes, Unlistened
  <2>7. now \in Nat
    BY <1>0 DEF TypeOK
  <2>8. Cardinality(Unlistened(a) \ gone) <= RetainCount
    BY <2>1, <2>7, EvictionLeaves
  <2>9. QED
    BY <2>6, <2>8 DEF RetentionBound, EndedOnes
<1>3. CASE kind # "end"
  <2>1. gone = {}
    BY <1>1, <1>3 DEF Recorded
  <2>2. \A x \in Turns : buf'[x].state = "ended" <=> buf[x].state = "ended"
    BY <1>1, <1>3, <2>1 DEF Recorded
  <2>3. {x \in Turns : buf'[x].state = "ended"} = {x \in Turns : buf[x].state = "ended"}
    BY <2>2
  <2>4. QED
    BY <2>3 DEF RetentionBound
<1>4. QED
  BY <1>2, <1>3

\* Only the end of a turn makes an ended buffer.
LEMMA RetainsStep ==
    ASSUME Typed, Reading, RetentionBound, [Next]_vars
    PROVE  RetentionBound'
<1>0. TypeOK /\ Empty /\ Numbered /\ Placed /\ Unopened
  BY DEF Typed, Reading
<1> DEFINE Same == \A x \in Turns : buf'[x].state = "ended" <=> buf[x].state = "ended"
<1>1. ASSUME Same PROVE RetentionBound'
  <2>1. {x \in Turns : buf'[x].state = "ended"} = {x \in Turns : buf[x].state = "ended"}
    BY <1>1
  <2>2. QED
    BY <2>1 DEF RetentionBound
<1>2. ASSUME Unheard PROVE Same
  BY <1>2 DEF Unheard
<1>3. ASSUME NEW t \in Turns, NEW kind \in Kinds, RecordStep(t, kind) PROVE RetentionBound'
  BY <1>3, RecordRetains
<1>4. ASSUME NEW t \in Turns, NEW ask \in Asks, Post(t, ask.chunks) PROVE Same
  <2>1. buf'[t] = Fresh(ask.chunks) /\ \A x \in Turns \ {t} : buf'[x] = buf[x]
    BY <1>0, <1>4, PostDoes
  <2>2. Fresh(ask.chunks).state = "running"
    BY AskType, EmptyBuffer, Zenon
  <2>3. buf[t].state = "none"
    BY <1>0, <1>4 DEF Post, Unopened
  <2>4. QED
    BY <2>1, <2>2, <2>3
<1>5. ASSUME NEW c \in Clients, Disconnect(c) PROVE Same
  <2>1. client[c].turn \in Turns
    BY <1>0, <1>5 DEF Placed, Disconnect
  <2>2. \A x \in Turns : buf'[x].state = buf[x].state
    BY <1>0, <1>5, <2>1, DisconnectDoes
  <2>3. QED
    BY <2>2
<1>6. ASSUME NEW t \in Turns, NEW c \in Clients, NEW ask \in Asks, PostStream(t, c, ask)
      PROVE  Same
  <2>1. (\A x \in Turns \ {t} : buf'[x] = buf[x]) /\ buf'[t].state = "running"
    BY <1>0, <1>6, PostStreamDoes
  <2>2. buf[t].state = "none"
    BY <1>0, <1>6 DEF PostStream, Unopened
  <2>3. QED
    BY <2>1, <2>2
<1>7. ASSUME NEW t \in Turns, NEW c \in Clients, NEW ask \in Asks, Attach(t, c, ask)
      PROVE  Same
  <2>1. \/ buf' = buf
        \/ /\ buf[t].state = "running" /\ buf'[t].state = "running"
           /\ \A x \in Turns \ {t} : buf'[x] = buf[x]
    BY <1>0, <1>7, AttachDoes
  <2>2. QED
    BY <2>1
<1>8. ASSUME Close PROVE RetentionBound'
  <2>1. \A x \in Turns : buf'[x].state = "none"
    BY <1>0, <1>8, CloseDoes, NothingHeld
  <2>2. {x \in Turns : buf'[x].state = "ended"} = {}
    BY <2>1
  <2>3. Cardinality({}) = 0 /\ RetainCount \in Nat
    BY FS_EmptySet, StreamConstants
  <2>4. QED
    BY <2>2, <2>3 DEF RetentionBound
<1> HIDE DEF Same
<1>9. QED
  BY <1>0, <1>1, <1>2, <1>3, <1>4, <1>5, <1>6, <1>7, <1>8, Steps, Zenon

LEMMA RetentionAlways == Spec => []RetentionBound
<1>1. Init => RetentionBound
  <2>1. SUFFICES ASSUME Init PROVE RetentionBound
    OBVIOUS
  <2>2. \A x \in Turns : buf[x].state = "none"
    BY <2>1, NothingHeld DEF Init
  <2>3. {x \in Turns : buf[x].state = "ended"} = {}
    BY <2>2
  <2>4. Cardinality({}) = 0 /\ RetainCount \in Nat
    BY FS_EmptySet, StreamConstants
  <2>5. QED
    BY <2>3, <2>4 DEF RetentionBound
<1>2. QED
  BY <1>1, RetainsStep, TypedAlways, ReadingAlways, PTL DEF Spec

-----------------------------------------------------------------------------
(* What a buffer holds of its turn's log *)

\* Only a turn that ended has an ended buffer; a turn without a buffer that has not ended
\* has recorded nothing, one that has ended has recorded something, and only such a one is
\* ever reopened; and a buffer holds its turn's log but for what came before it was opened
\* and what it dropped.
OverIsOver == \A t \in Turns : buf[t].state = "ended" => phase[t] = "ended"
Unlogged ==
    \A t \in Turns : ~stopped /\ buf[t].state = "none" /\ phase[t] # "ended" => Len(log[t]) = 0
Spoken == \A t \in Turns : phase[t] = "ended" => Len(log[t]) > 0
Unbased == \A t \in Turns : phase[t] # "ended" => base[t] = 0
Mirrors(b, l, o) ==
    /\ (o + b.dropped) + Len(b.events) = Len(l)
    /\ \A i \in 1..Len(b.events) : b.events[i] = l[(o + b.dropped) + i]
Mirrored == \A t \in Turns : buf[t].state # "none" => Mirrors(buf[t], log[t], base[t])

Shaped == OverIsOver /\ Unlogged /\ Spoken /\ Unbased /\ Mirrored

LEMMA BufferShape ==
    ASSUME TypeOK, NEW x \in Turns
    PROVE  /\ buf[x].events \in Seq(Event) /\ Len(buf[x].events) \in Nat
           /\ buf[x].dropped \in Nat /\ log[x] \in Seq(Event) /\ Len(log[x]) \in Nat
           /\ base[x] \in Nat
           /\ buf[x].state \in {"none", "running", "ended"}
<1>1. buf[x] \in Buffer /\ log[x] \in Seq(Event) /\ base[x] \in Nat
  BY DEF TypeOK
<1>2. buf[x].events \in Seq(Event) /\ buf[x].dropped \in Nat
      /\ buf[x].state \in {"none", "running", "ended"}
  BY <1>1 DEF Buffer
<1>3. QED
  BY <1>1, <1>2

\* One more event at the end of both, and one dropped at the front beyond the cap.
LEMMA MirrorGrows ==
    ASSUME NEW s \in Seq(Event), NEW l \in Seq(Event), NEW e \in Event, NEW d \in Nat,
           d + Len(s) = Len(l), \A i \in 1..Len(s) : s[i] = l[d + i]
    PROVE  LET k == Kept(s, e)
               m == Append(l, e)
               f == IF Len(s) + 1 > MaxEvents THEN d + 1 ELSE d
           IN  /\ f + Len(k) = Len(m)
               /\ \A i \in 1..Len(k) : k[i] = m[f + i]
<1> DEFINE k == Kept(s, e)
           m == Append(l, e)
<1>1. /\ Len(m) = Len(l) + 1 /\ m[Len(l) + 1] = e
      /\ \A i \in 1..Len(l) : m[i] = l[i]
  OBVIOUS
<1>2. Len(s) \in Nat /\ Len(l) \in Nat
  OBVIOUS
<1> HIDE DEF m
<1>3. CASE Len(s) + 1 > MaxEvents
  <2>1. /\ Len(k) = Len(s)
        /\ \A i \in 1..Len(s) : k[i] = IF i = Len(s) THEN e ELSE s[i + 1]
    BY <1>3, KeptEvents
  <2> HIDE DEF k
  <2>2. (d + 1) + Len(k) = Len(m)
    BY <1>1, <1>2, <2>1
  <2>3. ASSUME NEW i \in 1..Len(k) PROVE k[i] = m[(d + 1) + i]
    <3>1. CASE i = Len(s)
      <4>1. (d + 1) + i = Len(l) + 1
        BY <1>2, <3>1
      <4>2. QED
        BY <1>1, <2>1, <3>1, <4>1
    <3>2. CASE i # Len(s)
      <4>1. i + 1 \in 1..Len(s) /\ d + (i + 1) \in 1..Len(l) /\ (d + 1) + i = d + (i + 1)
        BY <1>2, <2>1, <3>2
      <4>2. k[i] = s[i + 1]
        BY <2>1, <3>2
      <4>3. s[i + 1] = l[d + (i + 1)]
        BY <4>1
      <4>4. m[d + (i + 1)] = l[d + (i + 1)]
        BY <1>1, <4>1
      <4>5. QED
        BY <4>1, <4>2, <4>3, <4>4
    <3>3. QED
      BY <3>1, <3>2
  <2>4. QED
    BY <1>3, <2>2, <2>3 DEF k, m
<1>4. CASE ~(Len(s) + 1 > MaxEvents)
  <2>1. /\ Len(k) = Len(s) + 1
        /\ \A i \in 1..(Len(s) + 1) : k[i] = IF i = Len(s) + 1 THEN e ELSE s[i]
    BY <1>4, KeptEvents
  <2> HIDE DEF k
  <2>2. d + Len(k) = Len(m)
    BY <1>1, <1>2, <2>1
  <2>3. ASSUME NEW i \in 1..Len(k) PROVE k[i] = m[d + i]
    <3>1. CASE i = Len(s) + 1
      <4>1. d + i = Len(l) + 1
        BY <1>2, <3>1
      <4>2. QED
        BY <1>1, <2>1, <3>1, <4>1
    <3>2. CASE i # Len(s) + 1
      <4>1. i \in 1..Len(s) /\ d + i \in 1..Len(l)
        BY <1>2, <2>1, <3>2
      <4>2. k[i] = s[i]
        BY <2>1, <3>2
      <4>3. s[i] = l[d + i] /\ m[d + i] = l[d + i]
        BY <1>1, <4>1
      <4>4. QED
        BY <4>2, <4>3
    <3>3. QED
      BY <3>1, <3>2
  <2>4. QED
    BY <1>4, <2>2, <2>3 DEF k, m
<1>5. QED
  BY <1>3, <1>4

LEMMA RecordShaped ==
    ASSUME Typed, Shaped, NEW t \in Turns, NEW kind \in Kinds, RecordStep(t, kind)
    PROVE  Shaped'
<1>0. TypeOK /\ Empty /\ Record(t, kind) /\ OverIsOver /\ Unlogged /\ Mirrored
      /\ Spoken /\ Unbased
  BY DEF Typed, RecordStep, Shaped
<1>1. PICK gone : Recorded(t, kind, gone)
  BY <1>0, RecordDoes
<1>2. /\ ~stopped /\ stopped' = stopped
      /\ \A x \in Turns \ {t} : phase'[x] = phase[x]
      /\ kind = "end" => phase'[t] = "ended"
      /\ phase[t] = "ended" => phase'[t] = "ended"
  BY DEF RecordStep
<1>3. log' = [log EXCEPT ![t] = Append(@, Ev(t, kind))] /\ log \in [Turns -> Seq(Event)]
  BY <1>0, RecordDoes DEF TypeOK
<1>3a. /\ base' = (IF buf[t].state = "none" THEN [base EXCEPT ![t] = Len(log[t])] ELSE base)
       /\ base \in [Turns -> Nat] /\ base' \in [Turns -> Nat]
  BY <1>0, RecordDoes, RecordTypes DEF TypeOK
<1>3b. /\ \A x \in Turns \ {t} : base'[x] = base[x]
       /\ base'[t] = (IF buf[t].state = "none" THEN Len(log[t]) ELSE base[t])
  BY <1>3a
<1>4. log'[t] = Append(log[t], Ev(t, kind)) /\ \A x \in Turns \ {t} : log'[x] = log[x]
  BY <1>3
<1>5. gone \in SUBSET Turns /\ (kind # "end" => gone = {})
      /\ \A x \in gone : x # t => buf[x].state = "ended"
  BY <1>1 DEF Recorded
<1>6. \A x \in gone : buf'[x].state = "none"
  BY <1>1, NothingHeld DEF Recorded
<1>7. ASSUME NEW x \in Turns, x \notin gone, x # t
      PROVE  /\ buf'[x].state = buf[x].state /\ buf'[x].events = buf[x].events
             /\ buf'[x].dropped = buf[x].dropped
  BY <1>1, <1>7 DEF Recorded
<1>8. ASSUME t \notin gone
      PROVE  /\ buf'[t].events = Kept(buf[t].events, Ev(t, kind))
             /\ buf'[t].dropped = (IF Len(buf[t].events) + 1 > MaxEvents
                                   THEN buf[t].dropped + 1 ELSE buf[t].dropped)
             /\ buf'[t].state = (IF kind = "end" THEN "ended"
                                 ELSE IF buf[t].state = "none" THEN "running" ELSE buf[t].state)
  BY <1>1, <1>8 DEF Recorded
<1>9. OverIsOver'
  <2>1. SUFFICES ASSUME NEW x \in Turns, buf'[x].state = "ended"
                 PROVE  phase'[x] = "ended"
    BY DEF OverIsOver
  <2>2. x \notin gone
    BY <1>6, <2>1
  <2>3. CASE x = t
    BY <1>0, <1>2, <1>8, <2>1, <2>2, <2>3 DEF OverIsOver
  <2>4. CASE x # t
    BY <1>0, <1>2, <1>7, <2>1, <2>2, <2>4 DEF OverIsOver
  <2>5. QED
    BY <2>3, <2>4
<1>10. Unlogged'
  <2>1. SUFFICES ASSUME NEW x \in Turns, buf'[x].state = "none", phase'[x] # "ended"
                 PROVE  Len(log'[x]) = 0
    BY DEF Unlogged
  <2>2. x # t
    <3>1. SUFFICES ASSUME x = t PROVE FALSE
      OBVIOUS
    <3>2. kind # "end"
      BY <1>2, <2>1, <3>1
    <3>3. t \notin gone
      BY <1>5, <3>2
    <3>4. QED
      BY <1>8, <2>1, <3>1, <3>2, <3>3
  <2>3. x \notin gone
    BY <1>0, <1>2, <1>5, <2>1, <2>2 DEF OverIsOver
  <2>4. buf[x].state = "none" /\ phase[x] # "ended"
    BY <1>2, <1>7, <2>1, <2>2, <2>3
  <2>5. Len(log[x]) = 0
    BY <1>0, <1>2, <2>4 DEF Unlogged
  <2>6. QED
    BY <1>4, <2>2, <2>5
<1>11. Mirrored'
  <2>1. SUFFICES ASSUME NEW x \in Turns, buf'[x].state # "none"
                 PROVE  Mirrors(buf'[x], log'[x], base'[x])
    BY DEF Mirrored
  <2>2. x \notin gone
    BY <1>6, <2>1
  <2>3. CASE x # t
    <3>1. Mirrors(buf[x], log[x], base[x])
      BY <1>0, <1>7, <2>1, <2>2, <2>3 DEF Mirrored
    <3>2. QED
      BY <1>3b, <1>4, <1>7, <2>2, <2>3, <3>1 DEF Mirrors
  <2>4. CASE x = t
    <3> DEFINE s == buf[t].events
               l == log[t]
               o == base'[t]
               b == buf[t].dropped
               d == o + b
               e == Ev(t, kind)
    <3>1. /\ s \in Seq(Event) /\ l \in Seq(Event) /\ Len(l) \in Nat /\ d \in Nat /\ e \in Event
          /\ o \in Nat /\ b \in Nat
      BY <1>0, <1>3a, BufferShape, EventType
    <3>2. d + Len(s) = Len(l) /\ \A i \in 1..Len(s) : s[i] = l[d + i]
      <4>1. CASE buf[t].state # "none"
        BY <1>0, <1>3b, <4>1 DEF Mirrored, Mirrors
      <4>2. CASE buf[t].state = "none"
        <5>1. s = <<>> /\ b = 0
          BY <1>0, <4>2, NothingHeld DEF Empty
        <5>2. o = Len(l)
          BY <1>3b, <4>2
        <5>3. Len(s) = 0
          BY <5>1
        <5>4. QED
          BY <3>1, <5>1, <5>2, <5>3
      <4>3. QED
        BY <4>1, <4>2
    <3>3. buf'[t].events = Kept(s, e) /\ log'[t] = Append(l, e)
      BY <1>4, <1>8, <2>2, <2>4
    <3>4. o + buf'[t].dropped = IF Len(s) + 1 > MaxEvents THEN d + 1 ELSE d
      <4>1. buf'[t].dropped = IF Len(s) + 1 > MaxEvents THEN b + 1 ELSE b
        BY <1>8, <2>2, <2>4
      <4>2. QED
        BY <3>1, <4>1
    <3> HIDE DEF s, l, d, e, b
    <3>5. Mirrors(buf'[t], log'[t], o)
      <4> DEFINE f == IF Len(s) + 1 > MaxEvents THEN d + 1 ELSE d
                 k == Kept(s, e)
                 m == Append(l, e)
      <4>1. f + Len(k) = Len(m) /\ \A i \in 1..Len(k) : k[i] = m[f + i]
        BY <3>1, <3>2, MirrorGrows
      <4> HIDE DEF f, k, m
      <4>2. buf'[t].events = k /\ log'[t] = m /\ o + buf'[t].dropped = f
        BY <3>3, <3>4 DEF f, k, m
      <4>3. QED
        BY <4>1, <4>2 DEF Mirrors
    <3>6. QED
      BY <2>4, <3>5
  <2>5. QED
    BY <2>3, <2>4
<1>12. Spoken'
  <2>1. SUFFICES ASSUME NEW x \in Turns, phase'[x] = "ended" PROVE Len(log'[x]) > 0
    BY DEF Spoken
  <2>2. CASE x = t
    <3>1. Len(log'[t]) = Len(log[t]) + 1 /\ Len(log[t]) \in Nat
      BY <1>0, <1>4, BufferShape, EventType
    <3>2. QED
      BY <2>2, <3>1
  <2>3. CASE x # t
    BY <1>0, <1>2, <1>4, <2>1, <2>3 DEF Spoken
  <2>4. QED
    BY <2>2, <2>3
\* A turn that has not ended and has no buffer has recorded nothing.
<1>13. Unbased'
  <2>1. SUFFICES ASSUME NEW x \in Turns, phase'[x] # "ended" PROVE base'[x] = 0
    BY DEF Unbased
  <2>2. CASE x = t
    <3>1. phase[t] # "ended"
      BY <1>2, <2>1, <2>2
    <3>2. QED
      BY <1>0, <1>2, <1>3b, <2>2, <3>1 DEF Unbased, Unlogged
  <2>3. CASE x # t
    BY <1>0, <1>2, <1>3b, <2>1, <2>3 DEF Unbased
  <2>4. QED
    BY <2>2, <2>3
<1>14. QED
  BY <1>9, <1>10, <1>11, <1>12, <1>13 DEF Shaped

LEMMA ShapedStep ==
    ASSUME Typed, Reading, Shaped, [Next]_vars
    PROVE  Shaped'
<1>0. TypeOK /\ Empty /\ Numbered /\ Placed /\ Unopened /\ OverIsOver /\ Unlogged /\ Mirrored
      /\ Spoken /\ Unbased
  BY DEF Typed, Reading, Shaped
<1>0a. phase \in [Turns -> {"new", "due", "live", "ended", "silent"}]
  BY <1>0 DEF TypeOK
<1>1. ASSUME Unheard PROVE Shaped'
  <2>1. buf' = buf /\ log' = log /\ base' = base /\ stopped' = stopped
    BY <1>1 DEF Unheard
  <2>2. \A x \in Turns : phase'[x] = "ended" <=> phase[x] = "ended"
    BY <1>1 DEF Unheard
  <2>3. QED
    BY <1>0, <2>1, <2>2 DEF Shaped, OverIsOver, Unlogged, Spoken, Unbased, Mirrored, Mirrors
<1>2. ASSUME NEW t \in Turns, NEW kind \in Kinds, RecordStep(t, kind) PROVE Shaped'
  BY <1>2, RecordShaped
\* A buffer opened for a turn that has recorded nothing.
<1>3. ASSUME NEW t \in Turns, phase[t] = "new", ~stopped, stopped' = stopped, log' = log, base' = base,
             phase' = [phase EXCEPT ![t] = "due"], \A x \in Turns \ {t} : buf'[x] = buf[x],
             buf'[t].state = "running", buf'[t].events = <<>>, buf'[t].dropped = 0
      PROVE  Shaped'
  <2>1. Len(log[t]) = 0 /\ base[t] = 0
    BY <1>0, <1>3 DEF Unopened, Unlogged, Unbased
  <2>2. OverIsOver'
    BY <1>0, <1>0a, <1>3 DEF OverIsOver
  <2>3. Unlogged'
    BY <1>0, <1>0a, <1>3 DEF Unlogged
  <2>4. Mirrors(buf'[t], log'[t], base'[t])
    BY <1>3, <2>1 DEF Mirrors
  <2>5. Mirrored'
    BY <1>0, <1>3, <2>4 DEF Mirrored, Mirrors
  <2>6. Spoken' /\ Unbased'
    BY <1>0, <1>0a, <1>3 DEF Spoken, Unbased
  <2>7. QED
    BY <2>2, <2>3, <2>5, <2>6 DEF Shaped
<1>4. ASSUME NEW t \in Turns, NEW ask \in Asks, Post(t, ask.chunks) PROVE Shaped'
  <2>1. buf'[t] = Fresh(ask.chunks) /\ \A x \in Turns \ {t} : buf'[x] = buf[x]
    BY <1>0, <1>4, PostDoes
  <2>2. /\ Fresh(ask.chunks).state = "running" /\ Fresh(ask.chunks).events = <<>>
        /\ Fresh(ask.chunks).dropped = 0
    BY AskType, EmptyBuffer, Zenon
  <2>3. /\ phase[t] = "new" /\ ~stopped /\ stopped' = stopped /\ log' = log /\ base' = base
        /\ phase' = [phase EXCEPT ![t] = "due"]
    BY <1>4 DEF Post
  <2>4. QED
    BY <1>3, <2>1, <2>2, <2>3
\* A step that touches only who listens.
<1>5. ASSUME phase' = phase, stopped' = stopped, log' = log, base' = base,
             \A x \in Turns : /\ buf'[x].state = buf[x].state /\ buf'[x].events = buf[x].events
                              /\ buf'[x].dropped = buf[x].dropped
      PROVE  Shaped'
  <2>1. OverIsOver' /\ Unlogged' /\ Spoken' /\ Unbased'
    BY <1>0, <1>5 DEF OverIsOver, Unlogged, Spoken, Unbased
  <2>2. Mirrored'
    BY <1>0, <1>5 DEF Mirrored, Mirrors
  <2>3. QED
    BY <2>1, <2>2 DEF Shaped
<1>6. ASSUME NEW c \in Clients, Disconnect(c) PROVE Shaped'
  <2>1. client[c].turn \in Turns
    BY <1>0, <1>6 DEF Placed, Disconnect
  <2>2. \A x \in Turns : /\ buf'[x].state = buf[x].state /\ buf'[x].events = buf[x].events
                         /\ buf'[x].dropped = buf[x].dropped
    BY <1>0, <1>6, <2>1, DisconnectDoes
  <2>3. phase' = phase /\ stopped' = stopped /\ log' = log /\ base' = base
    BY <1>6 DEF Disconnect
  <2>4. QED
    BY <1>5, <2>2, <2>3
<1>7. ASSUME NEW t \in Turns, NEW c \in Clients, NEW ask \in Asks, PostStream(t, c, ask)
      PROVE  Shaped'
  <2>1. /\ \A x \in Turns \ {t} : buf'[x] = buf[x]
        /\ buf'[t].state = "running" /\ buf'[t].events = <<>> /\ buf'[t].dropped = 0
    BY <1>0, <1>7, PostStreamDoes
  <2>2. /\ phase[t] = "new" /\ ~stopped /\ stopped' = stopped /\ log' = log /\ base' = base
        /\ phase' = [phase EXCEPT ![t] = "due"]
    BY <1>7 DEF PostStream
  <2>3. QED
    BY <1>3, <2>1, <2>2
<1>8. ASSUME NEW t \in Turns, NEW c \in Clients, NEW ask \in Asks, Attach(t, c, ask)
      PROVE  Shaped'
  <2>1. \/ buf' = buf
        \/ /\ buf[t].state = "running" /\ \A x \in Turns \ {t} : buf'[x] = buf[x]
           /\ buf'[t].state = "running" /\ buf'[t].events = buf[t].events
           /\ buf'[t].dropped = buf[t].dropped
    BY <1>0, <1>8, AttachDoes
  <2>2. \A x \in Turns : /\ buf'[x].state = buf[x].state /\ buf'[x].events = buf[x].events
                         /\ buf'[x].dropped = buf[x].dropped
    BY <2>1
  <2>3. phase' = phase /\ stopped' = stopped /\ log' = log /\ base' = base
    BY <1>8 DEF Attach
  <2>4. QED
    BY <1>5, <2>2, <2>3
<1>9. ASSUME Close PROVE Shaped'
  <2>1. (\A x \in Turns : buf'[x].state = "none") /\ stopped' = TRUE
    BY <1>0, <1>9, CloseDoes, NothingHeld
  <2>2. Spoken' /\ Unbased'
    BY <1>0, <1>9 DEF Close, Spoken, Unbased
  <2>3. QED
    BY <2>1, <2>2 DEF Shaped, OverIsOver, Unlogged, Mirrored
<1>10. QED
  BY <1>0, <1>1, <1>2, <1>4, <1>6, <1>7, <1>8, <1>9, Steps, Zenon

LEMMA ShapedAlways == Spec => []Shaped
<1>1. Init => Shaped
  <2>1. SUFFICES ASSUME Init PROVE Shaped
    OBVIOUS
  <2>2. \A x \in Turns : buf[x].state = "none" /\ log[x] = <<>> /\ base[x] = 0 /\ phase[x] = "new"
    BY <2>1, NothingHeld DEF Init
  <2>3. \A x \in Turns : Len(log[x]) = 0
    BY <2>2
  <2>4. QED
    BY <2>2, <2>3 DEF Shaped, OverIsOver, Unlogged, Spoken, Unbased, Mirrored
<1>2. Shaped /\ Typed /\ Reading /\ [Next]_vars => Shaped'
  BY ShapedStep
<1>3. QED
  BY <1>1, <1>2, TypedAlways, ReadingAlways, PTL DEF Spec

LEMMA EndedStep ==
    ASSUME Typed, Reading, Shaped, EndedIsEnded, [Next]_vars
    PROVE  EndedIsEnded'
<1>0. TypeOK /\ Empty /\ Numbered /\ Placed /\ Unopened /\ Spoken
  BY DEF Typed, Reading, Shaped
<1>0b. base \in [Turns -> Nat] /\ log \in [Turns -> Seq(Event)]
  BY <1>0 DEF TypeOK
<1>0a. phase \in [Turns -> {"new", "due", "live", "ended", "silent"}]
  BY <1>0 DEF TypeOK
<1>1. ASSUME Unheard PROVE EndedIsEnded'
  BY <1>1 DEF Unheard, EndedIsEnded, Reopened
<1>2. ASSUME NEW t \in Turns, NEW kind \in Kinds, RecordStep(t, kind) PROVE EndedIsEnded'
  <2>1. PICK gone : Recorded(t, kind, gone)
    BY <1>0, <1>2, RecordDoes DEF RecordStep
  <2>1a. base' = (IF buf[t].state = "none" THEN [base EXCEPT ![t] = Len(log[t])] ELSE base)
    BY <1>0, <1>2, RecordDoes DEF RecordStep
  <2>2. /\ \A x \in Turns \ {t} : phase'[x] = phase[x]
        /\ phase'[t] = "ended" => kind = "end" \/ phase[t] = "ended"
    BY <1>2 DEF RecordStep
  <2>3. SUFFICES ASSUME NEW x \in Turns, phase'[x] = "ended", ~(base'[x] > 0)
                 PROVE  buf'[x].state # "running"
    BY DEF EndedIsEnded, Reopened
  <2>4. CASE x \in gone
    BY <2>1, <2>4, NothingHeld DEF Recorded
  <2>5. CASE x \notin gone /\ x # t
    <3>1. buf'[x].state = buf[x].state
      BY <2>1, <2>5 DEF Recorded
    <3>2. base'[x] = base[x]
      BY <1>0b, <2>1a, <2>5
    <3>3. QED
      BY <2>2, <2>3, <2>5, <3>1, <3>2 DEF EndedIsEnded, Reopened
  <2>6. CASE x \notin gone /\ x = t
    <3>1. buf'[t].state = (IF kind = "end" THEN "ended"
                           ELSE IF buf[t].state = "none" THEN "running" ELSE buf[t].state)
      BY <2>1, <2>6 DEF Recorded
    <3>2. CASE kind = "end"
      BY <2>6, <3>1, <3>2
    \* The turn had ended before: its buffer was evicted, and is now a reopened one, or
    \* it was there, and is what it was.
    <3>3. CASE kind # "end"
      <4>1. phase[t] = "ended" /\ Len(log[t]) > 0
        BY <1>0, <2>2, <2>3, <2>6, <3>3 DEF Spoken
      <4>2. buf[t].state # "none" /\ base'[t] = base[t]
        BY <1>0b, <2>1a, <2>3, <2>6, <4>1
      <4>3. buf[t].state # "running"
        BY <2>3, <2>6, <4>1, <4>2 DEF EndedIsEnded, Reopened
      <4>4. QED
        BY <2>6, <3>1, <3>3, <4>2, <4>3
    <3>4. QED
      BY <3>2, <3>3
  <2>7. QED
    BY <2>4, <2>5, <2>6
<1>3. ASSUME NEW t \in Turns, NEW ask \in Asks, Post(t, ask.chunks) PROVE EndedIsEnded'
  <2>1. \A x \in Turns \ {t} : buf'[x] = buf[x]
    BY <1>0, <1>3, PostDoes
  <2>2. phase' = [phase EXCEPT ![t] = "due"] /\ base' = base
    BY <1>3 DEF Post
  <2>3. QED
    BY <1>0a, <2>1, <2>2 DEF EndedIsEnded, Reopened
<1>4. ASSUME NEW c \in Clients, Disconnect(c) PROVE EndedIsEnded'
  <2>1. client[c].turn \in Turns
    BY <1>0, <1>4 DEF Placed, Disconnect
  <2>2. (\A x \in Turns : buf'[x].state = buf[x].state) /\ phase' = phase /\ base' = base
    BY <1>0, <1>4, <2>1, DisconnectDoes DEF Disconnect
  <2>3. QED
    BY <2>2 DEF EndedIsEnded, Reopened
<1>5. ASSUME NEW t \in Turns, NEW c \in Clients, NEW ask \in Asks, PostStream(t, c, ask)
      PROVE  EndedIsEnded'
  <2>1. \A x \in Turns \ {t} : buf'[x] = buf[x]
    BY <1>0, <1>5, PostStreamDoes
  <2>2. phase' = [phase EXCEPT ![t] = "due"] /\ base' = base
    BY <1>5 DEF PostStream
  <2>3. QED
    BY <1>0a, <2>1, <2>2 DEF EndedIsEnded, Reopened
<1>6. ASSUME NEW t \in Turns, NEW c \in Clients, NEW ask \in Asks, Attach(t, c, ask)
      PROVE  EndedIsEnded'
  <2>1. \/ buf' = buf
        \/ /\ buf[t].state = "running"
           /\ \A x \in Turns \ {t} : buf'[x] = buf[x]
    BY <1>0, <1>6, AttachDoes
  <2>2. phase' = phase /\ base' = base
    BY <1>6 DEF Attach
  <2>3. QED
    BY <2>1, <2>2 DEF EndedIsEnded, Reopened
<1>7. ASSUME Close PROVE EndedIsEnded'
  BY <1>0, <1>7, CloseDoes, NothingHeld DEF EndedIsEnded
<1>8. QED
  BY <1>0, <1>1, <1>2, <1>3, <1>4, <1>5, <1>6, <1>7, Steps, Zenon

LEMMA EndedAlways == Spec => []EndedIsEnded
<1>1. Init => EndedIsEnded
  BY NothingHeld DEF Init, EndedIsEnded
<1>2. EndedIsEnded /\ Typed /\ Reading /\ Shaped /\ [Next]_vars => EndedIsEnded'
  BY EndedStep
<1>3. QED
  BY <1>1, <1>2, TypedAlways, ReadingAlways, ShapedAlways, PTL DEF Spec

\* Buffers live as long as they should, whatever the interleaving: #evict takes none from a
\* reader and leaves no more than the count, and a turn that ended is shown as running only
\* by a buffer that a delivery event opened after the eviction of the turn's own (record).
THEOREM BuffersLiveLongEnough == Spec => []BufferLife
<1>1. Reading /\ RetentionBound /\ EndedIsEnded => BufferLife
  BY DEF Reading, BufferLife
<1>2. QED
  BY <1>1, EndedAlways, ReadingAlways, RetentionAlways, PTL

-----------------------------------------------------------------------------
(* The order of a stream *)

\* A sequence of events in arrival order, all of them below a number.
Rising(s, n) ==
    /\ \A i \in 1..Len(s) : s[i].n < n
    /\ \A i, j \in 1..Len(s) : i < j => s[i].n < s[j].n

Ordered == \A c \in Clients : Rising(client[c].got, seq)

LEMMA RisingGrows ==
    ASSUME NEW s \in Seq(Event), NEW n \in Nat, Rising(s, n), NEW e \in Event
    PROVE  /\ Rising(s, n + 1)
           /\ e.n = n => Rising(Append(s, e), n + 1)
<1>0. \A i \in 1..Len(s) : s[i].n \in Nat
  <2>1. \A i \in 1..Len(s) : s[i] \in Event
    OBVIOUS
  <2>2. \A d \in Event : d.n \in Nat
    BY DEF Event
  <2>3. QED
    BY <2>1, <2>2
<1>1. Rising(s, n + 1)
  BY <1>0 DEF Rising
<1>2. ASSUME e.n = n PROVE Rising(Append(s, e), n + 1)
  <2> DEFINE g == Append(s, e)
  <2>1. /\ Len(g) = Len(s) + 1 /\ g[Len(s) + 1] = e
        /\ \A i \in 1..Len(s) : g[i] = s[i]
    OBVIOUS
  <2> HIDE DEF g
  <2>2. Len(s) \in Nat
    OBVIOUS
  <2>3. ASSUME NEW i \in 1..Len(g)
        PROVE  \/ i \in 1..Len(s) /\ g[i] = s[i]
               \/ i = Len(s) + 1 /\ g[i] = e
    BY <2>1, <2>2
  <2>4. ASSUME NEW i \in 1..Len(g) PROVE g[i].n < n + 1
    BY <1>0, <1>2, <2>3 DEF Rising
  <2>5. ASSUME NEW i \in 1..Len(g), NEW j \in 1..Len(g), i < j PROVE g[i].n < g[j].n
    <3>1. i \in 1..Len(s) /\ g[i] = s[i]
      BY <2>1, <2>2, <2>3, <2>5
    <3>2. CASE j \in 1..Len(s) /\ g[j] = s[j]
      BY <2>5, <3>1, <3>2 DEF Rising
    <3>3. CASE j = Len(s) + 1 /\ g[j] = e
      BY <1>2, <3>1, <3>3 DEF Rising
    <3>4. QED
      BY <2>3, <3>2, <3>3
  <2>6. QED
    BY <2>4, <2>5 DEF Rising, g
<1>3. QED
  BY <1>1, <1>2

LEMMA RisingEmpty == \A n : Rising(<<>>, n)
BY DEF Rising

LEMMA ReplayRises ==
    ASSUME TypeOK, Numbered, NEW t \in Turns, NEW children \in BOOLEAN
    PROVE  Rising(Replay(t, children), seq)
<1> DEFINE A == Buffered(t, children)
           s == InOrder(A)
<1>1. Distinct(A, seq) /\ Replay(t, children) = s /\ seq \in Nat
  BY ReplayIsSorted DEF TypeOK
<1> HIDE DEF A, s
<1>2. /\ Len(s) = Cardinality(A)
      /\ \A i \in 1..Cardinality(A) : s[i] \in A
      /\ \A i, j \in 1..Cardinality(A) : i < j => s[i].n < s[j].n
  BY <1>1, Sorted DEF s
<1>3. \A e \in A : e.n < seq
  BY <1>1 DEF Distinct
<1>4. QED
  BY <1>1, <1>2, <1>3 DEF Rising

LEMMA OrderedStep ==
    ASSUME Typed, Ordered, [Next]_vars
    PROVE  Ordered'
<1>0. TypeOK /\ Empty /\ Numbered /\ Placed /\ seq \in Nat
  BY DEF Typed, TypeOK
<1>0a. \A c \in Clients : client[c].got \in Seq(Event) /\ Rising(client[c].got, seq)
  BY <1>0 DEF TypeOK, Client, Ordered
<1>1. ASSUME Unheard PROVE Ordered'
  BY <1>1 DEF Unheard, Ordered
<1>2. ASSUME NEW t \in Turns, NEW kind \in Kinds, RecordStep(t, kind) PROVE Ordered'
  <2>1. Record(t, kind)
    BY <1>2 DEF RecordStep
  <2>2. seq' = seq + 1 /\ client' = Told(t, kind)
    BY <1>0, <2>1, RecordDoes
  <2>3. SUFFICES ASSUME NEW c \in Clients PROVE Rising(client'[c].got, seq')
    BY DEF Ordered
  <2>4. client'[c].got = IF Heard(c, t, kind) THEN Append(client[c].got, Ev(t, kind))
                         ELSE client[c].got
    BY <1>0, <2>2, ToldFields
  <2>5. Ev(t, kind) \in Event /\ Ev(t, kind).n = seq
    BY <1>0, EventType DEF Ev
  <2>6. client[c].got \in Seq(Event) /\ Rising(client[c].got, seq)
    BY <1>0a
  <2>7. /\ Rising(client[c].got, seq + 1)
        /\ Rising(Append(client[c].got, Ev(t, kind)), seq + 1)
    BY <1>0, <2>5, <2>6, RisingGrows
  <2>8. CASE Heard(c, t, kind)
    <3>1. client'[c].got = Append(client[c].got, Ev(t, kind))
      BY <2>4, <2>8
    <3>2. QED
      BY <2>2, <2>7, <3>1
  <2>9. CASE ~Heard(c, t, kind)
    <3>1. client'[c].got = client[c].got
      BY <2>4, <2>9
    <3>2. QED
      BY <2>2, <2>7, <3>1
  <2>10. QED
    BY <2>8, <2>9
<1>3. ASSUME NEW t \in Turns, NEW ask \in Asks, Post(t, ask.chunks) PROVE Ordered'
  BY <1>3 DEF Post, Ordered
<1>4. ASSUME NEW c \in Clients, Disconnect(c) PROVE Ordered'
  <2>1. client[c].turn \in Turns
    BY <1>0, <1>4 DEF Placed, Disconnect
  <2>2. (\A d \in Clients \ {c} : client'[d] = client[d]) /\ client'[c].got = <<>>
    BY <1>0, <1>4, <2>1, DisconnectDoes, QuietFields
  <2>3. seq' = seq
    BY <1>4 DEF Disconnect
  <2>4. QED
    BY <1>0a, <2>2, <2>3, RisingEmpty DEF Ordered
<1>5. ASSUME NEW t \in Turns, NEW c \in Clients, NEW ask \in Asks, PostStream(t, c, ask)
      PROVE  Ordered'
  <2>1. (\A d \in Clients \ {c} : client'[d] = client[d]) /\ client'[c].got = <<>>
    BY <1>0, <1>5, PostStreamDoes
  <2>2. seq' = seq
    BY <1>5 DEF PostStream
  <2>3. QED
    BY <1>0a, <2>1, <2>2, RisingEmpty DEF Ordered
<1>6. ASSUME NEW t \in Turns, NEW c \in Clients, NEW ask \in Asks, Attach(t, c, ask)
      PROVE  Ordered'
  <2>1. \A d \in Clients \ {c} : client'[d] = client[d]
    BY <1>0, <1>6, AttachDoes
  <2>2. client'[c].got = <<>> \/ client'[c].got = Replay(t, ask.children)
    BY <1>0, <1>6, AttachDoes, QuietFields
  <2>3. Rising(Replay(t, ask.children), seq)
    BY <1>0, AskType, ReplayRises
  <2>4. seq' = seq
    BY <1>6 DEF Attach
  <2>5. Rising(client'[c].got, seq')
    BY <2>2, <2>3, <2>4, RisingEmpty
  <2>6. QED
    BY <1>0a, <2>1, <2>4, <2>5 DEF Ordered
<1>7. ASSUME Close PROVE Ordered'
  BY <1>7 DEF Close, Ordered
<1>8. QED
  BY <1>0, <1>1, <1>2, <1>3, <1>4, <1>5, <1>6, <1>7, Steps, Zenon

LEMMA OrderedAlways == Spec => []Ordered
<1>1. Init => Ordered
  BY QuietFields, RisingEmpty DEF Init, Ordered
<1>2. QED
  BY <1>1, OrderedStep, TypedAlways, PTL DEF Spec

-----------------------------------------------------------------------------
(* The handover from replay to tail *)

OwnOf(g, x) == {g[i] : i \in {i \in DOMAIN g : g[i].turn = x}}

\* The events after the first `from`, and past `at` only those that were asked for.
ExpectedOf(l, from, at, until, chunks) ==
    {l[k] : k \in {k \in from + 1 .. until : k > at /\ IsChunk(l[k]) => chunks}}

LEMMA OwnGrows ==
    ASSUME NEW g \in Seq(Event), NEW e \in Event, NEW x
    PROVE  OwnOf(Append(g, e), x) = IF e.turn = x THEN OwnOf(g, x) \cup {e} ELSE OwnOf(g, x)
<1> DEFINE h == Append(g, e)
<1>1. /\ DOMAIN h = 1..(Len(g) + 1) /\ h[Len(g) + 1] = e
      /\ \A i \in 1..Len(g) : h[i] = g[i]
  OBVIOUS
<1>2. DOMAIN g = 1..Len(g) /\ Len(g) \in Nat
  OBVIOUS
<1> HIDE DEF h
<1>3. \A i \in 1..(Len(g) + 1) : i \in 1..Len(g) \/ i = Len(g) + 1
  BY <1>2
<1>3a. Len(g) + 1 \in DOMAIN h /\ \A i \in 1..Len(g) : i \in DOMAIN h
  BY <1>1, <1>2
<1>4. ASSUME NEW d \in OwnOf(h, x) PROVE d \in OwnOf(g, x) \/ (e.turn = x /\ d = e)
  <2>1. PICK i \in DOMAIN h : h[i].turn = x /\ d = h[i]
    BY Zenon DEF OwnOf
  <2>2. CASE i \in 1..Len(g)
    <3>1. i \in DOMAIN g /\ d = g[i] /\ g[i].turn = x
      BY <1>1, <1>2, <2>1, <2>2
    <3>2. QED
      BY <3>1, Zenon DEF OwnOf
  <2>3. CASE i = Len(g) + 1
    BY <1>1, <2>1, <2>3
  <2>4. QED
    BY <1>1, <1>3, <2>2, <2>3
<1>5. ASSUME NEW d \in OwnOf(g, x) PROVE d \in OwnOf(h, x)
  <2>1. PICK i \in DOMAIN g : g[i].turn = x /\ d = g[i]
    BY Zenon DEF OwnOf
  <2>2. i \in DOMAIN h /\ d = h[i] /\ h[i].turn = x
    BY <1>1, <1>2, <1>3a, <2>1
  <2>3. QED
    BY <2>2, Zenon DEF OwnOf
<1>6. ASSUME e.turn = x PROVE e \in OwnOf(h, x)
  <2>1. Len(g) + 1 \in DOMAIN h /\ e = h[Len(g) + 1] /\ h[Len(g) + 1].turn = x
    BY <1>1, <1>3a, <1>6
  <2>2. PICK i \in DOMAIN h : e = h[i] /\ h[i].turn = x
    BY <2>1
  <2>3. QED
    BY <2>2, Zenon DEF OwnOf
<1>7. OwnOf(h, x) = IF e.turn = x THEN OwnOf(g, x) \cup {e} ELSE OwnOf(g, x)
  BY <1>4, <1>5, <1>6, Zenon
<1>8. QED
  BY <1>7 DEF h

LEMMA ExpectedStays ==
    ASSUME NEW l \in Seq(Event), NEW e \in Event, NEW d \in Nat, NEW a \in Nat, NEW u \in Nat,
           NEW ch, u <= Len(l)
    PROVE  ExpectedOf(Append(l, e), d, a, u, ch) = ExpectedOf(l, d, a, u, ch)
<1> DEFINE m == Append(l, e)
<1>1. \A k \in d + 1 .. u : m[k] = l[k]
  OBVIOUS
<1> HIDE DEF m
<1>2. ExpectedOf(m, d, a, u, ch) = ExpectedOf(l, d, a, u, ch)
  BY <1>1, Zenon DEF ExpectedOf
<1>3. QED
  BY <1>2 DEF m

LEMMA ExpectedGrows ==
    ASSUME NEW l \in Seq(Event), NEW e \in Event, NEW d \in Nat, NEW a \in Nat,
           NEW ch, d <= Len(l), a <= Len(l)
    PROVE  /\ ExpectedOf(l, d, a, Len(l), ch) \subseteq ExpectedOf(Append(l, e), d, a, Len(l) + 1, ch)
           /\ \A x \in ExpectedOf(Append(l, e), d, a, Len(l) + 1, ch) :
                 x \in ExpectedOf(l, d, a, Len(l), ch) \/ (x = e /\ (IsChunk(e) => ch))
           /\ (IsChunk(e) => ch) => e \in ExpectedOf(Append(l, e), d, a, Len(l) + 1, ch)
<1> DEFINE m == Append(l, e)
           n == Len(l)
<1>1. (\A k \in d + 1 .. n : m[k] = l[k]) /\ m[n + 1] = e
  OBVIOUS
<1>2. /\ \A k \in d + 1 .. n + 1 : k \in d + 1 .. n \/ k = n + 1
      /\ \A k \in d + 1 .. n : k \in d + 1 .. n + 1
      /\ n + 1 \in d + 1 .. n + 1 /\ n + 1 > a
  OBVIOUS
<1> HIDE DEF m, n
<1>3. ASSUME NEW x \in ExpectedOf(m, d, a, n + 1, ch)
      PROVE  x \in ExpectedOf(l, d, a, n, ch) \/ (x = e /\ (IsChunk(e) => ch))
  <2>1. PICK k \in d + 1 .. n + 1 : x = m[k] /\ (k > a /\ IsChunk(m[k]) => ch)
    BY Zenon DEF ExpectedOf
  <2>2. CASE k \in d + 1 .. n
    <3>1. x = l[k] /\ (k > a /\ IsChunk(l[k]) => ch)
      BY <1>1, <2>1, <2>2
    <3>2. QED
      BY <2>2, <3>1, Zenon DEF ExpectedOf
  <2>3. CASE k = n + 1
    BY <1>1, <1>2, <2>1, <2>3
  <2>4. QED
    BY <1>2, <2>2, <2>3
<1>4. ASSUME NEW x \in ExpectedOf(l, d, a, n, ch) PROVE x \in ExpectedOf(m, d, a, n + 1, ch)
  <2>1. PICK k \in d + 1 .. n : x = l[k] /\ (k > a /\ IsChunk(l[k]) => ch)
    BY Zenon DEF ExpectedOf
  <2>2. k \in d + 1 .. n + 1 /\ x = m[k] /\ (k > a /\ IsChunk(m[k]) => ch)
    BY <1>1, <1>2, <2>1
  <2>3. QED
    BY <2>2, Zenon DEF ExpectedOf
<1>5. ASSUME IsChunk(e) => ch PROVE e \in ExpectedOf(m, d, a, n + 1, ch)
  <2>1. PICK k \in d + 1 .. n + 1 : e = m[k] /\ (k > a /\ IsChunk(m[k]) => ch)
    BY <1>1, <1>2, <1>5
  <2>2. QED
    BY <2>1, Zenon DEF ExpectedOf
<1>6. QED
  BY <1>3, <1>4, <1>5, Zenon DEF m, n

\* An event that is asked for is expected, and one that is not is not.
LEMMA ExpectedTakes ==
    ASSUME NEW l \in Seq(Event), NEW e \in Event, NEW d \in Nat, NEW a \in Nat,
           NEW ch \in BOOLEAN, d <= Len(l), a <= Len(l), ch \/ ~IsChunk(e)
    PROVE  ExpectedOf(Append(l, e), d, a, Len(l) + 1, ch)
             = ExpectedOf(l, d, a, Len(l), ch) \cup {e}
<1> DEFINE X == ExpectedOf(Append(l, e), d, a, Len(l) + 1, ch)
           Y == ExpectedOf(l, d, a, Len(l), ch)
<1>1. /\ Y \subseteq X
      /\ \A x \in X : x \in Y \/ (x = e /\ (IsChunk(e) => ch))
      /\ (IsChunk(e) => ch) => e \in X
  BY ExpectedGrows, Zenon
<1> HIDE DEF X, Y
<1>2. X = Y \cup {e}
  BY <1>1, Zenon
<1>3. QED
  BY <1>2 DEF X, Y

LEMMA ExpectedSkips ==
    ASSUME NEW l \in Seq(Event), NEW e \in Event, NEW d \in Nat, NEW a \in Nat,
           NEW ch \in BOOLEAN, d <= Len(l), a <= Len(l), ~ch, IsChunk(e)
    PROVE  ExpectedOf(Append(l, e), d, a, Len(l) + 1, ch) = ExpectedOf(l, d, a, Len(l), ch)
<1> DEFINE X == ExpectedOf(Append(l, e), d, a, Len(l) + 1, ch)
           Y == ExpectedOf(l, d, a, Len(l), ch)
<1>1. /\ Y \subseteq X
      /\ \A x \in X : x \in Y \/ (x = e /\ (IsChunk(e) => ch))
  BY ExpectedGrows, Zenon
<1> HIDE DEF X, Y
<1>2. X = Y
  BY <1>1, Zenon
<1>3. QED
  BY <1>2 DEF X, Y

\* The positions a stream reports are within its turn's log.
Bounds(r, l) == r.from <= Len(l) /\ r.at <= Len(l) /\ r.until <= Len(l)

UntilOf(r, l) == IF r.phase = "open" THEN Len(l) ELSE r.until

\* A stream with the log of its turn: what it was replayed, and what it asked for since.
Faithful(r, l) ==
    /\ Bounds(r, l)
    /\ OwnOf(r.got, r.turn) = ExpectedOf(l, r.from, r.at, UntilOf(r, l), r.chunks)

Handed ==
    \A c \in Clients : client[c].phase \in {"open", "ended"} =>
        Faithful(client[c], log[client[c].turn])

LEMMA HandedGapless == TypeOK /\ Handed => GaplessHandover
<1>1. SUFFICES ASSUME TypeOK, Handed, NEW c \in Clients, client[c].phase \in {"open", "ended"}
               PROVE  /\ Owed(c) \subseteq Own(c)
                      /\ Own(c) \subseteq Owed(c) \cup Replayed(c)
  BY DEF GaplessHandover
<1> DEFINE r == client[c]
           l == log[r.turn]
           u == UntilOf(r, l)
<1>2. Own(c) = OwnOf(r.got, r.turn)
  BY Zenon DEF Own, OwnOf
<1>3. OwnOf(r.got, r.turn) = ExpectedOf(l, r.from, r.at, u, r.chunks)
  BY <1>1 DEF Handed, Faithful
<1>4. Span(c) = r.from + 1 .. u
  BY Zenon DEF Span, UntilOf
<1>5. /\ Owed(c) = {l[k] : k \in {k \in Span(c) : IsChunk(l[k]) => r.chunks}}
      /\ Replayed(c) = {l[k] : k \in {k \in Span(c) : k <= r.at /\ IsChunk(l[k])}}
  BY Zenon DEF Owed, Replayed
<1>6. Own(c) = {l[k] : k \in {k \in Span(c) : k > r.at /\ IsChunk(l[k]) => r.chunks}}
  BY <1>2, <1>3, <1>4, Zenon DEF ExpectedOf
<1>7. ASSUME NEW k \in Span(c) PROVE k > r.at \/ k <= r.at
  <2>1. r.from \in Nat /\ r.at \in Nat /\ k \in Int
    BY <1>1, <1>4 DEF TypeOK, Client
  <2>2. QED
    BY <2>1
<1> HIDE DEF r, l, u
<1>8. QED
  BY <1>5, <1>6, <1>7, Zenon

LEMMA ClientShape ==
    ASSUME TypeOK, NEW c \in Clients
    PROVE  /\ client[c].got \in Seq(Event) /\ client[c].from \in Nat /\ client[c].at \in Nat
           /\ client[c].until \in Nat
BY DEF TypeOK, Client

LEMMA RecordHanded ==
    ASSUME Typed, Reading, Handed, NEW t \in Turns, NEW kind \in Kinds, RecordStep(t, kind)
    PROVE  Handed'
<1>0. TypeOK /\ Empty /\ Record(t, kind) /\ Placed /\ ReaderKeepsBuffer /\ ~stopped
  BY DEF Typed, RecordStep, Reading
<1> DEFINE e == Ev(t, kind)
<1>1. /\ log' = [log EXCEPT ![t] = Append(@, e)] /\ log \in [Turns -> Seq(Event)]
      /\ client' = Told(t, kind)
  BY <1>0, RecordDoes DEF TypeOK
<1>2. log'[t] = Append(log[t], e) /\ \A x \in Turns \ {t} : log'[x] = log[x]
  BY <1>1
<1>3. SUFFICES ASSUME NEW c \in Clients, client'[c].phase \in {"open", "ended"}
               PROVE  Faithful(client'[c], log'[client'[c].turn])
  BY DEF Handed
<1>4. /\ client'[c].turn = client[c].turn /\ client'[c].chunks = client[c].chunks
      /\ client'[c].at = client[c].at /\ client'[c].from = client[c].from
      /\ client'[c].phase = (IF Ended(c, t, kind) THEN "ended" ELSE client[c].phase)
      /\ client'[c].until = (IF Ended(c, t, kind) THEN Len(log[t]) + 1 ELSE client[c].until)
      /\ client'[c].got = (IF Heard(c, t, kind) THEN Append(client[c].got, e) ELSE client[c].got)
  BY <1>0, <1>1, ToldFields
<1>5. client[c].phase \in {"open", "ended"}
  BY <1>3, <1>4 DEF Ended, Heard
<1> DEFINE x == client[c].turn
           g == client[c].got
           l == log[x]
           d == client[c].from
           a == client[c].at
           u == client[c].until
           ch == client[c].chunks
<1>6. /\ x \in Turns /\ g \in Seq(Event) /\ d \in Nat /\ a \in Nat /\ u \in Nat
      /\ l \in Seq(Event) /\ Len(l) \in Nat
  BY <1>0, <1>1, <1>5, ClientShape DEF Placed
<1>7. /\ d <= Len(l) /\ a <= Len(l) /\ u <= Len(l)
      /\ OwnOf(g, x) = ExpectedOf(l, d, a, IF client[c].phase = "open" THEN Len(l) ELSE u, ch)
  BY <1>5 DEF Handed, Faithful, Bounds, UntilOf
<1>8. e \in Event /\ e.turn = t /\ (IsChunk(e) <=> kind = "chunk")
  BY <1>0, EventType DEF Ev, IsChunk
<1> HIDE DEF e
<1>9. CASE x # t
  <2>1. ~Ended(c, t, kind)
    BY <1>9 DEF Ended
  <2>2. /\ log'[x] = l /\ client'[c].phase = client[c].phase /\ client'[c].until = u
    BY <1>2, <1>4, <1>6, <1>9, <2>1
  <2>3. OwnOf(Append(g, e), x) = OwnOf(g, x)
    BY <1>6, <1>8, <1>9, OwnGrows
  <2>4. OwnOf(client'[c].got, x) = OwnOf(g, x)
    BY <1>4, <2>3
  <2>5. Bounds(client'[c], l)
    BY <1>4, <1>7, <2>2 DEF Bounds
  <2>6. UntilOf(client'[c], l) = IF client[c].phase = "open" THEN Len(l) ELSE u
    BY <2>2 DEF UntilOf
  <2>7. QED
    BY <1>4, <1>7, <2>2, <2>4, <2>5, <2>6 DEF Faithful
<1>10. CASE x = t
  <2>0. log'[x] = Append(l, e) /\ Len(log'[x]) = Len(l) + 1
    BY <1>2, <1>6, <1>8, <1>10
  <2>1. CASE client[c].phase = "ended"
    <3>1. ~Heard(c, t, kind) /\ ~Ended(c, t, kind)
      BY <2>1 DEF Ended, Heard
    <3>2. /\ client'[c].got = g /\ client'[c].phase = "ended" /\ client'[c].until = u
      BY <1>4, <2>1, <3>1
    <3>3. ExpectedOf(Append(l, e), d, a, u, ch) = ExpectedOf(l, d, a, u, ch)
      BY <1>6, <1>7, <1>8, ExpectedStays
    <3>4. Bounds(client'[c], log'[x])
      BY <1>4, <1>6, <1>7, <2>0, <3>2 DEF Bounds
    <3>5. UntilOf(client'[c], log'[x]) = u
      BY <3>2 DEF UntilOf
    <3>6. OwnOf(g, x) = ExpectedOf(l, d, a, u, ch)
      BY <1>7, <2>1
    <3>7. OwnOf(client'[c].got, client'[c].turn)
            = ExpectedOf(log'[x], client'[c].from, client'[c].at,
                         UntilOf(client'[c], log'[x]), client'[c].chunks)
      BY <1>4, <2>0, <3>2, <3>3, <3>5, <3>6
    <3>8. QED
      BY <1>4, <3>4, <3>7 DEF Faithful
  <2>2. CASE client[c].phase = "open"
    <3>1. c \in buf[t].listeners
      BY <1>0, <1>10, <2>2 DEF ReaderKeepsBuffer
    <3>2. Heard(c, t, kind) <=> (IsChunk(e) => ch)
      <4>1. Heard(c, t, kind) <=> (kind = "chunk" => ch)
        BY <2>2, <3>1, Zenon DEF Heard
      <4>2. QED
        BY <1>8, <4>1, Zenon
    <3>3. OwnOf(g, x) = ExpectedOf(l, d, a, Len(l), ch)
      BY <1>7, <2>2
    <3>4. /\ Heard(c, t, kind) => ExpectedOf(Append(l, e), d, a, Len(l) + 1, ch)
                                     = ExpectedOf(l, d, a, Len(l), ch) \cup {e}
          /\ ~Heard(c, t, kind) => ExpectedOf(Append(l, e), d, a, Len(l) + 1, ch)
                                     = ExpectedOf(l, d, a, Len(l), ch)
      <4>1. d <= Len(l) /\ a <= Len(l)
        BY <1>7
      <4>2. ch \in BOOLEAN
        BY <1>0 DEF TypeOK, Client
      <4>3. /\ Heard(c, t, kind) => ch \/ ~IsChunk(e)
            /\ ~Heard(c, t, kind) => ~ch /\ IsChunk(e)
        BY <3>2, Zenon
      <4> HIDE DEF l, d, a, ch
      <4>4. CASE Heard(c, t, kind)
        <5>1. ch \/ ~IsChunk(e)
          BY <4>3, <4>4
        <5>2. ExpectedOf(Append(l, e), d, a, Len(l) + 1, ch) = ExpectedOf(l, d, a, Len(l), ch) \cup {e}
          BY <1>6, <1>8, <4>1, <4>2, <5>1, ExpectedTakes
        <5>3. QED
          BY <4>4, <5>2, Zenon
      <4>5. CASE ~Heard(c, t, kind)
        <5>1. ~ch /\ IsChunk(e)
          BY <4>3, <4>5
        <5>2. ExpectedOf(Append(l, e), d, a, Len(l) + 1, ch) = ExpectedOf(l, d, a, Len(l), ch)
          BY <1>6, <1>8, <4>1, <4>2, <5>1, ExpectedSkips
        <5>3. QED
          BY <4>5, <5>2, Zenon
      <4>6. QED
        BY <4>4, <4>5
    <3>5. OwnOf(Append(g, e), x) = OwnOf(g, x) \cup {e}
      BY <1>6, <1>8, <1>10, OwnGrows
    <3>6. UntilOf(client'[c], log'[x]) = Len(l) + 1
      BY <1>4, <1>10, <2>0, <2>2 DEF UntilOf
    <3>7. Bounds(client'[c], log'[x])
      <4>1. client'[c].until <= Len(l) + 1
        BY <1>4, <1>6, <1>7, <1>10
      <4>2. QED
        BY <1>4, <1>6, <1>7, <2>0, <4>1 DEF Bounds
    <3>8. OwnOf(client'[c].got, x) = ExpectedOf(log'[x], d, a, Len(l) + 1, ch)
      <4>1. CASE Heard(c, t, kind)
        <5>1. client'[c].got = Append(g, e)
          BY <1>4, <4>1
        <5>2. ExpectedOf(Append(l, e), d, a, Len(l) + 1, ch) = ExpectedOf(l, d, a, Len(l), ch) \cup {e}
          BY <3>4, <4>1, Zenon
        <5>3. QED
          BY <2>0, <3>3, <3>5, <5>1, <5>2
      <4>2. CASE ~Heard(c, t, kind)
        <5>1. client'[c].got = g
          BY <1>4, <4>2
        <5>2. ExpectedOf(Append(l, e), d, a, Len(l) + 1, ch) = ExpectedOf(l, d, a, Len(l), ch)
          BY <3>4, <4>2, Zenon
        <5>3. QED
          BY <2>0, <3>3, <5>1, <5>2
      <4>3. QED
        BY <4>1, <4>2
    <3>9. QED
      BY <1>4, <3>6, <3>7, <3>8 DEF Faithful
  <2>3. QED
    BY <1>5, <2>1, <2>2
<1>11. QED
  BY <1>9, <1>10

\* A replay has, of the turn itself, exactly what the log has after the dropped events.
LEMMA ReplayOwns ==
    ASSUME Typed, Shaped, NEW t \in Turns, NEW children \in BOOLEAN, buf[t].state # "none",
           NEW ch
    PROVE  OwnOf(Replay(t, children), t)
             = ExpectedOf(log[t], base[t] + buf[t].dropped, Len(log[t]), Len(log[t]), ch)
<1>0. TypeOK /\ Numbered /\ Mirrors(buf[t], log[t], base[t])
  BY DEF Typed, Shaped, Mirrored
<1> DEFINE A == Buffered(t, children)
           s == Replay(t, children)
           d == base[t] + buf[t].dropped
           n == Len(log[t])
           X == ExpectedOf(log[t], d, n, n, ch)
<1>1. /\ Distinct(A, seq) /\ s = InOrder(A) /\ seq \in Nat
  BY <1>0, ReplayIsSorted DEF TypeOK
<1>2. /\ DOMAIN s = 1..Cardinality(A)
      /\ \A i \in 1..Cardinality(A) : s[i] \in A
      /\ \A e \in A : \E i \in 1..Cardinality(A) : s[i] = e
  <2> HIDE DEF A
  <2>1. /\ DOMAIN InOrder(A) = 1..Cardinality(A)
        /\ \A i \in 1..Cardinality(A) : InOrder(A)[i] \in A
        /\ \A e \in A : \E i \in 1..Cardinality(A) : InOrder(A)[i] = e
    BY <1>1, Sorted DEF InOrder
  <2>2. QED
    BY <1>1, <2>1
<1>3. /\ \A e \in A : \E x \in Turns : e \in Events(x)
      /\ Events(t) \subseteq A
  BY <1>0, BufferedEvents
<1> HIDE DEF A, s
<1>4. OwnOf(s, t) = {e \in A : e.turn = t}
  BY <1>2, Zenon DEF OwnOf
<1>5. \A e \in A : e.turn = t <=> e \in Events(t)
  BY <1>0, <1>3, Zenon DEF Numbered
<1>6. OwnOf(s, t) = Events(t)
  BY <1>3, <1>4, <1>5, Zenon
<1>7. /\ buf[t].events \in Seq(Event) /\ Len(buf[t].events) \in Nat /\ d \in Nat /\ n \in Nat
  BY <1>0, BufferShape
<1>8. ASSUME NEW e \in Events(t) PROVE e \in X
  <2>1. PICK i \in 1..Len(buf[t].events) : e = buf[t].events[i]
    BY Zenon DEF Events
  <2>2. e = log[t][d + i] /\ d + Len(buf[t].events) = n
    BY <1>0, <2>1 DEF Mirrors
  <2>3. PICK k \in d + 1 .. n : k = d + i
    BY <1>7, <2>2
  <2>4. ~(k > n)
    BY <1>7
  <2>5. e = log[t][k]
    BY <2>2, <2>3
  <2>6. QED
    BY <2>4, <2>5, Zenon DEF ExpectedOf
<1>9. ASSUME NEW e \in X PROVE e \in Events(t)
  <2>1. PICK k \in d + 1 .. n : e = log[t][k]
    BY Zenon DEF ExpectedOf
  <2>2. d + Len(buf[t].events) = n
    BY <1>0 DEF Mirrors
  <2>3. PICK i \in 1..Len(buf[t].events) : k = d + i
    <3>1. k - d \in 1..Len(buf[t].events) /\ k = d + (k - d)
      BY <1>7, <2>2
    <3>2. QED
      BY <3>1
  <2>4. e = buf[t].events[i]
    BY <1>0, <2>1, <2>3 DEF Mirrors
  <2>5. QED
    BY <2>4, Zenon DEF Events
<1> HIDE DEF X
<1>10. OwnOf(s, t) = X
  BY <1>6, <1>8, <1>9, Zenon
<1>11. QED
  BY <1>10 DEF s, X

LEMMA HandedStep ==
    ASSUME Typed, Reading, Shaped, Handed, [Next]_vars
    PROVE  Handed'
<1>0. TypeOK /\ Empty /\ Numbered /\ Placed /\ Unopened /\ Unlogged /\ Unbased /\ Mirrored
  BY DEF Typed, Reading, Shaped
<1>1. ASSUME Unheard PROVE Handed'
  BY <1>1 DEF Unheard, Handed
<1>2. ASSUME NEW t \in Turns, NEW kind \in Kinds, RecordStep(t, kind) PROVE Handed'
  BY <1>2, RecordHanded
<1>3. ASSUME NEW t \in Turns, NEW ask \in Asks, Post(t, ask.chunks) PROVE Handed'
  BY <1>3 DEF Post, Handed
\* A step of one client leaves the others' streams as they were.
<1>4. ASSUME NEW c \in Clients, \A d \in Clients \ {c} : client'[d] = client[d], log' = log,
             client'[c].phase \in {"open", "ended"} => Faithful(client'[c], log[client'[c].turn])
      PROVE  Handed'
  <2>1. SUFFICES ASSUME NEW d \in Clients, client'[d].phase \in {"open", "ended"}
                 PROVE  Faithful(client'[d], log[client'[d].turn])
    BY <1>4 DEF Handed
  <2>2. CASE d = c
    BY <1>4, <2>1, <2>2
  <2>3. CASE d # c
    <3>1. client'[d] = client[d]
      BY <1>4, <2>3
    <3>2. QED
      BY <2>1, <3>1 DEF Handed
  <2>4. QED
    BY <2>2, <2>3
<1>5. ASSUME NEW c \in Clients, Disconnect(c) PROVE Handed'
  <2>1. client[c].turn \in Turns
    BY <1>0, <1>5 DEF Placed, Disconnect
  <2>2. /\ \A d \in Clients \ {c} : client'[d] = client[d]
        /\ client'[c].phase = "gone"
    BY <1>0, <1>5, <2>1, DisconnectDoes, QuietFields
  <2>3. log' = log
    BY <1>5 DEF Disconnect
  <2>4. QED
    BY <1>4, <2>2, <2>3
<1>6. ASSUME NEW t \in Turns, NEW c \in Clients, NEW ask \in Asks, PostStream(t, c, ask)
      PROVE  Handed'
  <2>1. /\ \A d \in Clients \ {c} : client'[d] = client[d]
        /\ client'[c].phase = "open" /\ client'[c].turn = t /\ client'[c].got = <<>>
        /\ client'[c].chunks = ask.chunks /\ client'[c].at = Len(log[t])
        /\ client'[c].until = Len(log[t]) /\ client'[c].from = base[t]
    BY <1>0, <1>6, PostStreamDoes
  <2>2. log' = log /\ phase[t] = "new" /\ ~stopped
    BY <1>6 DEF PostStream
  <2>3. Len(log[t]) = 0 /\ base[t] = 0
    BY <1>0, <2>2 DEF Unopened, Unlogged, Unbased
  <2>4. OwnOf(<<>>, t) = {}
    BY DEF OwnOf
  <2>5. \A a, ch : ExpectedOf(log[t], 0, a, 0, ch) = {}
    <3>1. 0 + 1 .. 0 = {}
      OBVIOUS
    <3>2. QED
      BY <3>1, Zenon DEF ExpectedOf
  <2>6. Bounds(client'[c], log[t])
    BY <2>1, <2>3 DEF Bounds
  <2>7. UntilOf(client'[c], log[t]) = 0
    BY <2>1, <2>3 DEF UntilOf
  <2>8. OwnOf(client'[c].got, t) = ExpectedOf(log[t], client'[c].from, client'[c].at,
                                      UntilOf(client'[c], log[t]), client'[c].chunks)
    BY <2>1, <2>3, <2>4, <2>5, <2>7
  <2>9. Faithful(client'[c], log[client'[c].turn])
    BY <2>1, <2>6, <2>8 DEF Faithful
  <2>10. QED
    BY <1>4, <2>1, <2>2, <2>9
<1>7. ASSUME NEW t \in Turns, NEW c \in Clients, NEW ask \in Asks, Attach(t, c, ask)
      PROVE  Handed'
  <2>1. (\A d \in Clients \ {c} : client'[d] = client[d]) /\ log' = log
    BY <1>0, <1>7, AttachDoes DEF Attach
  <2>2. CASE buf[t].state = "none"
    <3>1. client'[c].phase = "refused"
      BY <1>0, <1>7, <2>2, AttachDoes, QuietFields
    <3>2. QED
      BY <1>4, <2>1, <3>1
  <2>3. CASE buf[t].state # "none"
    <3> DEFINE n == Len(log[t])
    <3>1. /\ client'[c].turn = t /\ client'[c].got = Replay(t, ask.children)
          /\ client'[c].chunks = ask.chunks /\ client'[c].at = n
          /\ client'[c].until = n /\ client'[c].from = base[t] + buf[t].dropped
      BY <1>0, <1>7, <2>3, AttachDoes
    <3>2. OwnOf(Replay(t, ask.children), t)
             = ExpectedOf(log[t], base[t] + buf[t].dropped, n, n, ask.chunks)
      BY <2>3, AskType, ReplayOwns
    <3>3. UntilOf(client'[c], log[t]) = n
      BY <3>1 DEF UntilOf
    <3>4. base[t] + buf[t].dropped <= n /\ n \in Nat
      BY <1>0, <2>3, BufferShape DEF Mirrored, Mirrors
    <3>5. Bounds(client'[c], log[t])
      BY <3>1, <3>4 DEF Bounds
    <3> HIDE DEF n
    <3>6. OwnOf(client'[c].got, t) = ExpectedOf(log[t], client'[c].from, client'[c].at,
                                        UntilOf(client'[c], log[t]), client'[c].chunks)
      BY <3>1, <3>2, <3>3
    <3>7. Faithful(client'[c], log[client'[c].turn])
      BY <3>1, <3>5, <3>6 DEF Faithful
    <3>8. QED
      BY <1>4, <2>1, <3>7
  <2>4. QED
    BY <2>2, <2>3
<1>8. ASSUME Close PROVE Handed'
  BY <1>8 DEF Close, Handed
<1>9. QED
  BY <1>0, <1>1, <1>2, <1>3, <1>5, <1>6, <1>7, <1>8, Steps, Zenon

LEMMA HandedAlways == Spec => []Handed
<1>1. Init => Handed
  BY QuietFields DEF Init, Handed
<1>2. Spec => []Shaped
  BY ShapedAlways
<1>3. QED
  BY <1>1, <1>2, HandedStep, TypedAlways, ReadingAlways, PTL DEF Spec

-----------------------------------------------------------------------------
(* What a buffer says of its tokens *)

ChunkSet(l) == {k \in DOMAIN l : IsChunk(l[k])}

\* A turn produces no token before it runs; a buffer that claims every token holds the
\* interest that makes the bus build their events; and what each buffer claims is true of
\* the events since it was opened, the first of the turn if it claims them all.
TokensZero == \A t \in Turns : phase[t] \in {"new", "due"} => tokens[t] = 0
Holding == \A t \in Turns : buf[t].chunks = "start" => buf[t].holds
Claims(b, l, n, o) ==
    b.state # "none" => /\ b.chunks = "start" => Cardinality(ChunkSet(l)) = n /\ o = 0
                        /\ b.chunks = "none" => \A k \in ChunkSet(l) : k <= o
Truthful == \A t \in Turns : Claims(buf[t], log[t], tokens[t], base[t])

Provenance == TokensZero /\ Holding /\ Truthful

\* What the buffer claims of the log is what the property says of the replay.
LEMMA ProvenanceTells == Typed /\ Shaped /\ Truthful => TokenProvenance
<1>1. SUFFICES ASSUME Typed, Shaped, Truthful, NEW t \in Turns, buf[t].state # "none"
               PROVE  /\ buf[t].chunks = "start" =>
                            /\ Cardinality(ChunksOf(t)) = tokens[t]
                            /\ \A k \in ChunksOf(t) : k <= buf[t].dropped \/ log[t][k] \in Held(t)
                      /\ buf[t].chunks = "none" => \A e \in Held(t) : ~IsChunk(e)
  BY DEF TokenProvenance
<1> DEFINE l == log[t]
           s == buf[t].events
           d == buf[t].dropped
           o == base[t]
<1>2. /\ s \in Seq(Event) /\ l \in Seq(Event) /\ Len(s) \in Nat /\ Len(l) \in Nat
      /\ d \in Nat /\ o \in Nat
  BY <1>1, BufferShape DEF Typed
<1>3. (o + d) + Len(s) = Len(l) /\ \A i \in 1..Len(s) : s[i] = l[(o + d) + i]
  BY <1>1 DEF Shaped, Mirrored, Mirrors
<1>4. /\ buf[t].chunks = "start" => Cardinality(ChunkSet(l)) = tokens[t] /\ o = 0
      /\ buf[t].chunks = "none" => \A k \in ChunkSet(l) : k <= o
  BY <1>1 DEF Truthful, Claims
<1>5. ChunksOf(t) = ChunkSet(l) /\ Held(t) = {s[i] : i \in DOMAIN s}
  BY Zenon DEF ChunksOf, ChunkSet, Held
<1>6. DOMAIN s = 1..Len(s) /\ DOMAIN l = 1..Len(l)
  BY <1>2
<1> HIDE DEF l, s, d, o
<1>7. ASSUME buf[t].chunks = "start", NEW k \in ChunkSet(l), ~(k <= d) PROVE l[k] \in Held(t)
  <2>1. k \in 1..Len(l) /\ o = 0
    BY <1>4, <1>6, <1>7, Zenon DEF ChunkSet
  <2>2. PICK i \in 1..Len(s) : (o + d) + i = k
    <3>1. k - d \in 1..Len(s) /\ (o + d) + (k - d) = k
      BY <1>2, <1>3, <1>7, <2>1
    <3>2. QED
      BY <3>1
  <2>3. l[k] = s[i]
    BY <1>3, <2>2
  <2>4. QED
    BY <1>5, <1>6, <2>2, <2>3, Zenon
<1>8. ASSUME buf[t].chunks = "none", NEW e \in Held(t) PROVE ~IsChunk(e)
  <2>1. PICK i \in 1..Len(s) : e = s[i]
    BY <1>5, <1>6, <1>8, Zenon
  <2>2. PICK k \in 1..Len(l) : k = (o + d) + i
    BY <1>2, <1>3, <2>1
  <2>3. e = l[k] /\ ~(k <= o)
    BY <1>2, <1>3, <2>1, <2>2
  <2>4. k \notin ChunkSet(l)
    BY <1>4, <1>8, <2>3, Zenon
  <2>5. ~IsChunk(l[k])
    BY <1>6, <2>2, <2>4, Zenon DEF ChunkSet
  <2>6. QED
    BY <2>3, <2>5, Zenon
<1>9. QED
  <2>1. buf[t].chunks = "start" => Cardinality(ChunksOf(t)) = tokens[t]
    BY <1>4, <1>5, Zenon
  <2>2. QED
    BY <1>5, <1>7, <1>8, <2>1, Zenon DEF l, d

LEMMA NoChunks ==
    ASSUME NEW l \in Seq(Event), Len(l) = 0
    PROVE  ChunkSet(l) = {} /\ Cardinality(ChunkSet(l)) = 0
<1>1. DOMAIN l = {}
  OBVIOUS
<1>2. ChunkSet(l) = {}
  BY <1>1, Zenon DEF ChunkSet
<1>3. QED
  BY <1>2, FS_EmptySet

LEMMA ChunksGrow ==
    ASSUME NEW l \in Seq(Event), NEW e \in Event
    PROVE  /\ ~IsChunk(e) => ChunkSet(Append(l, e)) = ChunkSet(l)
           /\ IsChunk(e) => Cardinality(ChunkSet(Append(l, e))) = Cardinality(ChunkSet(l)) + 1
<1> DEFINE m == Append(l, e)
           n == Len(l) + 1
<1>1. /\ DOMAIN l = 1..Len(l) /\ DOMAIN m = 1..n /\ Len(l) \in Nat /\ m[n] = e
      /\ \A i \in 1..Len(l) : m[i] = l[i]
  OBVIOUS
<1>2. 1..n = (1..Len(l)) \cup {n} /\ n \notin 1..Len(l)
  BY <1>1
<1> HIDE DEF m, n
<1>3. DOMAIN m = DOMAIN l \cup {n} /\ n \notin DOMAIN l /\ m[n] = e
      /\ \A i \in DOMAIN l : m[i] = l[i]
  BY <1>1, <1>2
<1>4. ~IsChunk(e) => ChunkSet(m) = ChunkSet(l)
  BY <1>3, Zenon DEF ChunkSet
<1>5. IsChunk(e) => ChunkSet(m) = ChunkSet(l) \cup {n}
  BY <1>3, Zenon DEF ChunkSet
<1>6. n \notin ChunkSet(l) /\ ChunkSet(l) \subseteq 1..Len(l)
  BY <1>1, <1>3 DEF ChunkSet
<1>7. IsFiniteSet(ChunkSet(l))
  <2>1. IsFiniteSet(1..Len(l))
    BY <1>1, FS_Interval
  <2>2. QED
    BY <1>6, <2>1, FS_Subset
<1>8. Cardinality(ChunkSet(l) \cup {n}) = Cardinality(ChunkSet(l)) + 1
  BY <1>6, <1>7, FS_AddElement
<1>9. QED
  BY <1>4, <1>5, <1>8 DEF m

LEMMA RecordProvenance ==
    ASSUME Typed, Shaped, Provenance,
           NEW t \in Turns, NEW kind \in Kinds, RecordStep(t, kind)
    PROVE  Provenance'
<1>0. TypeOK /\ Empty /\ Record(t, kind) /\ Unlogged /\ TokensZero /\ Holding /\ Truthful
  BY DEF Typed, RecordStep, Shaped, Provenance
<1>1. PICK gone : Recorded(t, kind, gone)
  BY <1>0, RecordDoes
<1>2. /\ ~stopped
      /\ \A x \in Turns \ {t} : phase'[x] = phase[x] /\ tokens'[x] = tokens[x]
      /\ tokens'[t] = (IF kind = "chunk" THEN tokens[t] + 1 ELSE tokens[t])
      /\ phase'[t] \notin {"new", "due"}
  BY DEF RecordStep
<1>3. log' = [log EXCEPT ![t] = Append(@, Ev(t, kind))] /\ log \in [Turns -> Seq(Event)]
  BY <1>0, RecordDoes DEF TypeOK
<1>3a. /\ \A x \in Turns \ {t} : base'[x] = base[x]
       /\ base'[t] = (IF buf[t].state = "none" THEN Len(log[t]) ELSE base[t])
  <2>1. /\ base' = (IF buf[t].state = "none" THEN [base EXCEPT ![t] = Len(log[t])] ELSE base)
        /\ base \in [Turns -> Nat]
    BY <1>0, RecordDoes DEF TypeOK
  <2>2. QED
    BY <2>1
<1>4. log'[t] = Append(log[t], Ev(t, kind)) /\ \A x \in Turns \ {t} : log'[x] = log[x]
  BY <1>3
<1>5. \A x \in gone : buf'[x].state = "none" /\ buf'[x].chunks = "none"
  <2>1. NoBuffer.state = "none" /\ NoBuffer.chunks = "none"
    BY DEF NoBuffer
  <2>2. QED
    BY <1>1, <2>1 DEF Recorded
<1>6. ASSUME NEW x \in Turns, x \notin gone, x # t
      PROVE  /\ buf'[x].state = buf[x].state /\ buf'[x].chunks = buf[x].chunks
             /\ buf'[x].holds = buf[x].holds
  BY <1>1, <1>6 DEF Recorded
<1>7. ASSUME t \notin gone
      PROVE  /\ buf'[t].holds = buf[t].holds
             /\ buf'[t].chunks = (IF kind = "chunk" /\ buf[t].chunks = "none"
                                  THEN "partial" ELSE buf[t].chunks)
  BY <1>1, <1>7 DEF Recorded
<1>8. TokensZero'
  <2>1. SUFFICES ASSUME NEW x \in Turns, phase'[x] \in {"new", "due"} PROVE tokens'[x] = 0
    BY DEF TokensZero
  <2>2. x # t
    BY <1>2, <2>1
  <2>3. phase'[x] = phase[x] /\ tokens'[x] = tokens[x]
    BY <1>2, <2>2
  <2>4. QED
    BY <1>0, <2>1, <2>3 DEF TokensZero
<1>9. Holding'
  <2>1. SUFFICES ASSUME NEW x \in Turns, buf'[x].chunks = "start" PROVE buf'[x].holds
    BY DEF Holding
  <2>2. x \notin gone
    BY <1>5, <2>1
  <2>3. buf[x].chunks = "start" /\ buf'[x].holds = buf[x].holds
    <3>1. CASE x = t
      BY <1>7, <2>1, <2>2, <3>1
    <3>2. CASE x # t
      BY <1>6, <2>1, <2>2, <3>2
    <3>3. QED
      BY <3>1, <3>2
  <2>4. buf[x].holds
    BY <1>0, <2>3 DEF Holding
  <2>5. QED
    BY <2>3, <2>4
<1>10. Truthful'
  <2>1. SUFFICES ASSUME NEW x \in Turns PROVE Claims(buf'[x], log'[x], tokens'[x], base'[x])
    BY DEF Truthful
  <2>2. CASE x \in gone
    BY <1>5, <2>2 DEF Claims
  <2>3. CASE x \notin gone /\ x # t
    <3>1. Claims(buf[x], log[x], tokens[x], base[x])
      BY <1>0 DEF Truthful
    <3>2. log'[x] = log[x] /\ tokens'[x] = tokens[x] /\ base'[x] = base[x]
      BY <1>2, <1>3a, <1>4, <2>3
    <3>3. buf'[x].state = buf[x].state /\ buf'[x].chunks = buf[x].chunks
      BY <1>6, <2>3
    <3>4. QED
      BY <3>1, <3>2, <3>3, Zenon DEF Claims
  <2>4. CASE x \notin gone /\ x = t
    <3> DEFINE l == log[t]
               e == Ev(t, kind)
               S == ChunkSet(l)
               T == ChunkSet(Append(l, e))
    <3>1. l \in Seq(Event) /\ e \in Event /\ tokens[t] \in Nat
      BY <1>0, EventType DEF TypeOK
    <3>2. IsChunk(e) <=> kind = "chunk"
      BY DEF Ev, IsChunk
    <3> HIDE DEF l, e
    <3>3. /\ kind # "chunk" => T = S
          /\ kind = "chunk" => Cardinality(T) = Cardinality(S) + 1
      BY <3>1, <3>2, ChunksGrow
    <3> HIDE DEF S, T
    <3>4. /\ buf[t].chunks = "start" => Cardinality(S) = tokens[t] /\ base'[t] = 0
          /\ buf[t].chunks = "none" => \A k \in S : k <= base'[t]
      <4>1. CASE buf[t].state # "none"
        <5>1. base'[t] = base[t]
          BY <1>3a, <4>1
        <5>2. QED
          BY <1>0, <4>1, <5>1 DEF Truthful, Claims, S, l
      <4>2. CASE buf[t].state = "none"
        <5>1. buf[t].chunks = "none"
          BY <1>0, <4>2 DEF Empty, NoBuffer
        <5>2. base'[t] = Len(l)
          BY <1>3a, <4>2 DEF l
        <5>3. \A k \in S : k \in 1..Len(l)
          BY <3>1 DEF S, ChunkSet
        <5>4. \A k \in S : k <= Len(l)
          BY <3>1, <5>3
        <5>5. QED
          BY <5>1, <5>2, <5>4
      <4>3. QED
        BY <4>1, <4>2
    <3>5. buf'[t].chunks = "start" => Cardinality(T) = tokens'[t] /\ base'[t] = 0
      <4>1. SUFFICES ASSUME buf'[t].chunks = "start"
                     PROVE  Cardinality(T) = tokens'[t] /\ base'[t] = 0
        OBVIOUS
      <4>2. buf[t].chunks = "start"
        BY <1>7, <2>4, <4>1
      <4>3. QED
        BY <1>2, <3>3, <3>4, <4>2
    <3>6. buf'[t].chunks = "none" => \A k \in T : k <= base'[t]
      <4>1. SUFFICES ASSUME buf'[t].chunks = "none" PROVE \A k \in T : k <= base'[t]
        OBVIOUS
      <4>2. buf[t].chunks = "none" /\ kind # "chunk"
        BY <1>7, <2>4, <4>1
      <4>3. QED
        BY <3>3, <3>4, <4>2
    <3>7. T = ChunkSet(log'[t])
      BY <1>4 DEF T, l, e
    <3>8. Claims(buf'[t], log'[t], tokens'[t], base'[t])
      BY <3>5, <3>6, <3>7, Zenon DEF Claims
    <3>9. QED
      BY <2>4, <3>8
  <2>5. QED
    BY <2>2, <2>3, <2>4
<1>11. QED
  BY <1>8, <1>9, <1>10 DEF Provenance

LEMMA ProvenanceStep ==
    ASSUME Typed, Reading, InterestOwned, Shaped, Provenance, [Next]_vars
    PROVE  Provenance'
<1>0. /\ TypeOK /\ Empty /\ Numbered /\ Placed /\ Unopened /\ Unlogged /\ Unbased
      /\ TokensZero /\ Holding /\ Truthful
  BY DEF Typed, Reading, Shaped, Provenance
<1>0a. /\ phase \in [Turns -> {"new", "due", "live", "ended", "silent"}]
       /\ log \in [Turns -> Seq(Event)]
  BY <1>0 DEF TypeOK
\* A step that touches neither the logs nor what the buffers claim, and produces a token
\* only where no buffer claims to have them all.
<1>1. ASSUME log' = log, base' = base, TokensZero',
             \A x \in Turns : /\ buf'[x].state = buf[x].state /\ buf'[x].chunks = buf[x].chunks
                              /\ buf'[x].holds = buf[x].holds
                              /\ tokens'[x] = tokens[x] \/ buf[x].chunks # "start"
      PROVE  Provenance'
  <2>1. Holding'
    BY <1>0, <1>1 DEF Holding
  <2>2. ASSUME NEW x \in Turns PROVE Claims(buf'[x], log'[x], tokens'[x], base'[x])
    <3>1. Claims(buf[x], log[x], tokens[x], base[x])
      BY <1>0 DEF Truthful
    <3>2. QED
      BY <1>1, <3>1, Zenon DEF Claims
  <2>3. QED
    BY <1>1, <2>1, <2>2 DEF Provenance, Truthful
<1>2. ASSUME Unheard PROVE Provenance'
  <2>1. log' = log /\ base' = base /\ buf' = buf
    BY <1>2 DEF Unheard
  <2>2. ASSUME NEW x \in Turns PROVE tokens'[x] = tokens[x] \/ buf[x].chunks # "start"
    <3>1. SUFFICES ASSUME ~Subscribed, ~stopped, buf[x].chunks = "start" PROVE FALSE
      BY <1>2 DEF Unheard
    <3>2. x \in Holders
      BY <1>0, <3>1 DEF Holding, Holders
    <3>3. Cardinality(Holders) # 0
      BY <3>2, Owners, FS_EmptySet
    <3>4. interest = Cardinality(Holders) + Cardinality(Readers)
      BY <3>1 DEF InterestOwned
    <3>5. QED
      BY <3>1, <3>3, <3>4, Owners DEF Subscribed
  <2>3. TokensZero'
    <3>1. SUFFICES ASSUME NEW x \in Turns, phase'[x] \in {"new", "due"} PROVE tokens'[x] = 0
      BY DEF TokensZero
    <3>2. phase[x] \in {"new", "due"} /\ tokens'[x] = tokens[x]
      BY <1>2, <3>1 DEF Unheard
    <3>3. QED
      BY <1>0, <3>2 DEF TokensZero
  <2>4. QED
    BY <1>1, <2>1, <2>2, <2>3
<1>3. ASSUME NEW t \in Turns, NEW kind \in Kinds, RecordStep(t, kind) PROVE Provenance'
  BY <1>3, RecordProvenance
\* A buffer opened for a turn that has yet to run.
<1>4. ASSUME NEW t \in Turns, phase[t] = "new", ~stopped, log' = log, base' = base, tokens' = tokens,
             phase' = [phase EXCEPT ![t] = "due"], \A x \in Turns \ {t} : buf'[x] = buf[x],
             buf'[t].chunks = "start" => buf'[t].holds
      PROVE  Provenance'
  <2>1. Len(log[t]) = 0 /\ tokens[t] = 0 /\ base[t] = 0
    BY <1>0, <1>4 DEF Unopened, Unlogged, Unbased, TokensZero
  <2>2. ChunkSet(log[t]) = {} /\ Cardinality(ChunkSet(log[t])) = 0
    BY <1>0a, <2>1, NoChunks
  <2>3. TokensZero'
    BY <1>0, <1>0a, <1>4 DEF TokensZero
  <2>4. Holding'
    BY <1>0, <1>4 DEF Holding
  <2>5. Claims(buf'[t], log'[t], tokens'[t], base'[t])
    BY <1>4, <2>1, <2>2, Zenon DEF Claims
  <2>6. ASSUME NEW x \in Turns \ {t} PROVE Claims(buf'[x], log'[x], tokens'[x], base'[x])
    BY <1>0, <1>4 DEF Truthful, Claims
  <2>7. QED
    BY <2>3, <2>4, <2>5, <2>6 DEF Provenance, Truthful
<1>5. ASSUME NEW t \in Turns, NEW ask \in Asks, Post(t, ask.chunks) PROVE Provenance'
  <2>1. buf'[t] = Fresh(ask.chunks) /\ \A x \in Turns \ {t} : buf'[x] = buf[x]
    BY <1>0, <1>5, PostDoes
  <2>2. /\ Fresh(ask.chunks).holds = ask.chunks
        /\ Fresh(ask.chunks).chunks = (IF ask.chunks THEN "start" ELSE "none")
    BY AskType, EmptyBuffer, Zenon
  <2>3. buf'[t].chunks = "start" => buf'[t].holds
    BY <2>1, <2>2, AskType
  <2>4. /\ phase[t] = "new" /\ ~stopped /\ log' = log /\ base' = base /\ tokens' = tokens
        /\ phase' = [phase EXCEPT ![t] = "due"]
    BY <1>5 DEF Post
  <2>5. QED
    BY <1>4, <2>1, <2>3, <2>4
<1>6. ASSUME phase' = phase, tokens' = tokens, log' = log, base' = base,
             \A x \in Turns : /\ buf'[x].state = buf[x].state /\ buf'[x].chunks = buf[x].chunks
                              /\ buf'[x].holds = buf[x].holds
      PROVE  Provenance'
  <2>1. TokensZero'
    BY <1>0, <1>6 DEF TokensZero
  <2>2. QED
    BY <1>1, <1>6, <2>1
<1>7. ASSUME NEW c \in Clients, Disconnect(c) PROVE Provenance'
  <2>1. client[c].turn \in Turns
    BY <1>0, <1>7 DEF Placed, Disconnect
  <2>2. \A x \in Turns : /\ buf'[x].state = buf[x].state /\ buf'[x].chunks = buf[x].chunks
                         /\ buf'[x].holds = buf[x].holds
    BY <1>0, <1>7, <2>1, DisconnectDoes
  <2>3. phase' = phase /\ tokens' = tokens /\ log' = log /\ base' = base
    BY <1>7 DEF Disconnect
  <2>4. QED
    BY <1>6, <2>2, <2>3
<1>8. ASSUME NEW t \in Turns, NEW c \in Clients, NEW ask \in Asks, PostStream(t, c, ask)
      PROVE  Provenance'
  <2>1. /\ \A x \in Turns \ {t} : buf'[x] = buf[x]
        /\ buf'[t].holds = ask.chunks
        /\ buf'[t].chunks = (IF ask.chunks THEN "start" ELSE "none")
    BY <1>0, <1>8, PostStreamDoes
  <2>2. buf'[t].chunks = "start" => buf'[t].holds
    BY <2>1, AskType
  <2>3. /\ phase[t] = "new" /\ ~stopped /\ log' = log /\ base' = base /\ tokens' = tokens
        /\ phase' = [phase EXCEPT ![t] = "due"]
    BY <1>8 DEF PostStream
  <2>4. QED
    BY <1>4, <2>1, <2>2, <2>3
<1>9. ASSUME NEW t \in Turns, NEW c \in Clients, NEW ask \in Asks, Attach(t, c, ask)
      PROVE  Provenance'
  <2>1. \/ buf' = buf
        \/ /\ buf[t].state = "running" /\ \A x \in Turns \ {t} : buf'[x] = buf[x]
           /\ buf'[t].state = "running" /\ buf'[t].chunks = buf[t].chunks
           /\ buf'[t].holds = buf[t].holds
    BY <1>0, <1>9, AttachDoes
  <2>2. \A x \in Turns : /\ buf'[x].state = buf[x].state /\ buf'[x].chunks = buf[x].chunks
                         /\ buf'[x].holds = buf[x].holds
    BY <2>1
  <2>3. phase' = phase /\ tokens' = tokens /\ log' = log /\ base' = base
    BY <1>9 DEF Attach
  <2>4. QED
    BY <1>6, <2>2, <2>3
<1>10. ASSUME Close PROVE Provenance'
  <2>1. \A x \in Turns : buf'[x].state = "none" /\ buf'[x].chunks = "none"
    <3>1. NoBuffer.state = "none" /\ NoBuffer.chunks = "none"
      BY DEF NoBuffer
    <3>2. QED
      BY <1>0, <1>10, <3>1, CloseDoes
  <2>2. TokensZero'
    BY <1>0, <1>10 DEF TokensZero, Close
  <2>3. Holding' /\ Truthful'
    BY <2>1 DEF Holding, Truthful, Claims
  <2>4. QED
    BY <2>2, <2>3 DEF Provenance
<1>11. QED
  BY <1>0, <1>2, <1>3, <1>5, <1>7, <1>8, <1>9, <1>10, Steps, Zenon

LEMMA ProvenanceAlways == Spec => []Provenance
<1>1. Init => Provenance
  <2>1. SUFFICES ASSUME Init PROVE Provenance
    OBVIOUS
  <2>2. NoBuffer.state = "none" /\ NoBuffer.chunks = "none"
    BY DEF NoBuffer
  <2>3. \A x \in Turns : buf[x].state = "none" /\ buf[x].chunks = "none" /\ tokens[x] = 0
    BY <2>1, <2>2 DEF Init
  <2>4. QED
    BY <2>3 DEF Provenance, TokensZero, Holding, Truthful, Claims
<1>2. Spec => []Shaped
  BY ShapedAlways
<1>3. Provenance /\ Typed /\ Reading /\ InterestOwned /\ Shaped /\ [Next]_vars => Provenance'
  BY ProvenanceStep
<1>4. QED
  BY <1>1, <1>2, <1>3, TypedAlways, ReadingAlways, InterestIsOwned, PTL DEF Spec

LEMMA OrderedTells == Ordered => InArrivalOrder
BY DEF Ordered, Rising, InArrivalOrder

\* StreamTruth, for any turns and clients: of its turn, a client of streamTurn holds every
\* event it asked for from the first that was not reported dropped, and besides only
\* tokens of the replay; in arrival order and without repetition, with the subagents'
\* events merged in their place.  A buffer that says "start" lacks no token but those it
\* counts as dropped, and one that says "none" has none (attach, #withChildren and
\* #takeChunkInterest of TurnStreams).
THEOREM StreamsTellTheTruth == Spec => []StreamTruth
<1>1. Typed /\ Shaped /\ Handed /\ Ordered /\ Provenance => StreamTruth
  BY HandedGapless, OrderedTells, ProvenanceTells DEF Typed, Provenance, StreamTruth
<1>2. QED
  BY <1>1, TypedAlways, ShapedAlways, HandedAlways, OrderedAlways, ProvenanceAlways, PTL

=============================================================================
