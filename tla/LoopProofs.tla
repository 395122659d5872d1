----------------------------- MODULE LoopProofs -----------------------------
(***************************************************************************)
(* Proofs about TurnLoop for every catalogue of tools, every set of        *)
(* policies and of replies, and every limit: the gate before writes, the   *)
(* soundness of repairs, that what was done is kept, and the bound on      *)
(* repeated calls.                                                         *)
(***************************************************************************)
EXTENDS TurnLoop, FiniteSetTheorems, WellFoundedInduction, TLAPS

-----------------------------------------------------------------------------
(* What is planned of a step *)

\* A set of numbers that is not empty has a least one.
LEMMA LeastNumber ==
    ASSUME NEW T \in SUBSET Nat, T # {}
    PROVE  \E m \in T : \A k \in T : m <= k
<1> DEFINE R == {p \in Nat \X Nat : p[1] < p[2]}
<1>1. IsWellFoundedOn(R, Nat)
  BY NatLessThanWellFounded DEF OpToRel
<1> HIDE DEF R
<1>2. PICK m \in T : \A k \in T : ~(<<k, m>> \in R)
  BY <1>1, WFMin
<1>3. ASSUME NEW k \in T
      PROVE  m <= k
  <2>1. ASSUME NEW x \in Nat, NEW y \in Nat, x < y
        PROVE  <<x, y>> \in R
    BY <2>1 DEF R
  <2>2. m \in Nat /\ k \in Nat
    OBVIOUS
  <2>3. ~(k < m)
    BY <1>2, <2>1, <2>2
  <2>4. QED
    BY <2>2, <2>3
<1>4. QED
  BY <1>3

\* The calls of a step that are planned, and how many of them come first.
Rest(s) == {i \in DOMAIN s : s[i].tool \notin Withheld}
Upto(s, m) == {j \in Rest(s) : j <= m}

LEMMA UptoFinite ==
    ASSUME NEW s \in Seq(Calls), NEW m
    PROVE  /\ IsFiniteSet(Rest(s)) /\ IsFiniteSet(Upto(s, m))
           /\ Cardinality(Rest(s)) \in Nat /\ Cardinality(Upto(s, m)) \in Nat
           /\ Cardinality(Upto(s, m)) <= Cardinality(Rest(s))
<1>1. IsFiniteSet(1..Len(s))
  BY FS_Interval
<1>2. Rest(s) \subseteq 1..Len(s) /\ Upto(s, m) \subseteq Rest(s)
  BY DEF Rest, Upto
<1>3. IsFiniteSet(Rest(s))
  BY <1>1, <1>2, FS_Subset
<1>4. IsFiniteSet(Upto(s, m)) /\ Cardinality(Upto(s, m)) <= Cardinality(Rest(s))
  BY <1>2, <1>3, FS_Subset
<1>5. QED
  BY <1>3, <1>4, FS_CardinalityType

\* One more place adds at most one call, and it does when the call is planned.
LEMMA UptoNext ==
    ASSUME NEW s \in Seq(Calls), NEW m \in Nat, m # 0
    PROVE  /\ m \notin Rest(s) => Upto(s, m) = Upto(s, m - 1)
           /\ m \in Rest(s) => Cardinality(Upto(s, m)) = Cardinality(Upto(s, m - 1)) + 1
<1>1. Rest(s) \subseteq Nat
  BY DEF Rest
<1>2. m \notin Rest(s) => Upto(s, m) = Upto(s, m - 1)
  BY <1>1 DEF Upto
<1>3. ASSUME m \in Rest(s)
      PROVE  Cardinality(Upto(s, m)) = Cardinality(Upto(s, m - 1)) + 1
  <2>1. Upto(s, m) = Upto(s, m - 1) \cup {m} /\ m \notin Upto(s, m - 1)
    BY <1>1, <1>3 DEF Upto
  <2>2. QED
    BY <2>1, UptoFinite, FS_AddElement
<1>4. QED
  BY <1>2, <1>3

\* Every number up to that of the planned calls is the place of one of them.
LEMMA NthExists ==
    ASSUME NEW s \in Seq(Calls), NEW k \in 1..Cardinality(Rest(s))
    PROVE  \E i \in Rest(s) : Cardinality(Upto(s, i)) = k
<1> DEFINE T == {m \in Nat : Cardinality(Upto(s, m)) >= k}
<1>1. Len(s) \in T
  <2>1. Upto(s, Len(s)) = Rest(s)
    BY DEF Upto, Rest
  <2>2. QED
    BY <2>1, UptoFinite
<1>2. PICK m \in T : \A n \in T : m <= n
  BY <1>1, LeastNumber
<1>3. m # 0
  <2>1. Upto(s, 0) = {}
    BY DEF Upto, Rest
  <2>2. Cardinality(Upto(s, 0)) = 0
    BY <2>1, FS_EmptySet
  <2>3. k \in Nat /\ k # 0
    BY UptoFinite
  <2>4. QED
    BY <2>2, <2>3
<1>4. m - 1 \in Nat /\ m - 1 \notin T
  BY <1>2, <1>3
<1>5. k \in Nat /\ Cardinality(Upto(s, m - 1)) \in Nat /\ Cardinality(Upto(s, m)) \in Nat
  BY UptoFinite
<1>6. Cardinality(Upto(s, m - 1)) < k /\ Cardinality(Upto(s, m)) >= k
  BY <1>4, <1>5
<1>7. m \in Rest(s) /\ Cardinality(Upto(s, m)) = k
  BY <1>3, <1>5, <1>6, UptoNext
<1>8. QED
  BY <1>7

\* A place is the place of one call.
LEMMA NthUnique ==
    ASSUME NEW s \in Seq(Calls), NEW i \in Rest(s), NEW j \in Rest(s),
           Cardinality(Upto(s, i)) = Cardinality(Upto(s, j))
    PROVE  i = j
<1>1. ASSUME NEW a \in Rest(s), NEW b \in Rest(s), a < b
      PROVE  Cardinality(Upto(s, a)) < Cardinality(Upto(s, b))
  <2>1. a \in Nat /\ b \in Nat /\ b # 0 /\ b - 1 \in Nat
    BY <1>1 DEF Rest
  <2>2. Cardinality(Upto(s, b)) = Cardinality(Upto(s, b - 1)) + 1
    BY <2>1, UptoNext
  <2>3. Upto(s, a) \subseteq Upto(s, b - 1)
    BY <1>1, <2>1 DEF Upto, Rest
  <2>4. Cardinality(Upto(s, a)) <= Cardinality(Upto(s, b - 1))
    BY <2>3, UptoFinite, FS_Subset
  <2>5. QED
    BY <2>2, <2>4, UptoFinite
<1>2. i \in Nat /\ j \in Nat
  BY DEF Rest
<1>3. Cardinality(Upto(s, i)) \in Nat /\ Cardinality(Upto(s, j)) \in Nat
  BY UptoFinite
<1>4. ~(i < j) /\ ~(j < i)
  BY <1>1, <1>3
<1>5. QED
  BY <1>2, <1>4

\* What is planned of a step is a sequence of its calls, none of a personal tool,
\* and holds every other call of the step.
LEMMA PlannedCalls ==
    ASSUME NEW s \in Seq(Calls)
    PROVE  /\ Planned(s) \in Seq(Calls)
           /\ \A k \in DOMAIN Planned(s) :
                 \E i \in DOMAIN s : Planned(s)[k] = s[i] /\ s[i].tool \notin Withheld
           /\ \A i \in DOMAIN s : s[i].tool \notin Withheld =>
                 \E k \in DOMAIN Planned(s) : Planned(s)[k] = s[i]
<1> DEFINE n == Cardinality(Rest(s))
           nth(k) == CHOOSE i \in Rest(s) : Cardinality(Upto(s, i)) = k
<1>1. Planned(s) = [k \in 1..n |-> s[nth(k)]]
  BY DEF Planned, Rest, Upto
<1>2. n \in Nat
  BY UptoFinite
<1>3. ASSUME NEW k \in 1..n
      PROVE  nth(k) \in Rest(s) /\ Cardinality(Upto(s, nth(k))) = k
  BY NthExists
<1>4. ASSUME NEW i \in Rest(s)
      PROVE  Cardinality(Upto(s, i)) \in 1..n /\ nth(Cardinality(Upto(s, i))) = i
  <2>1. i \in Upto(s, i)
    BY DEF Upto, Rest
  <2>2. Cardinality(Upto(s, i)) # 0
    BY <2>1, UptoFinite, FS_EmptySet
  <2>3. Cardinality(Upto(s, i)) \in 1..n
    BY <2>2, UptoFinite
  <2>4. QED
    BY <1>3, <2>3, NthUnique
<1> HIDE DEF n, nth
<1>5. Rest(s) \subseteq DOMAIN s /\ \A i \in DOMAIN s : s[i] \in Calls
  BY DEF Rest
<1>6. Planned(s) \in Seq(Calls) /\ DOMAIN Planned(s) = 1..n
  <2>1. \A k \in 1..n : s[nth(k)] \in Calls
    BY <1>3, <1>5
  <2> DEFINE f == [k \in 1..n |-> s[nth(k)]]
  <2>2. f \in [1..n -> Calls]
    BY <2>1
  <2> HIDE DEF f
  <2>3. f \in Seq(Calls) /\ DOMAIN f = 1..n
    BY <1>2, <2>2
  <2>4. QED
    BY <1>1, <2>3 DEF f
<1>7. \A k \in 1..n : Planned(s)[k] = s[nth(k)]
  BY <1>1
<1>8. ASSUME NEW k \in 1..n
      PROVE  \E i \in DOMAIN s : Planned(s)[k] = s[i] /\ s[i].tool \notin Withheld
  BY <1>3, <1>7 DEF Rest
<1>9. ASSUME NEW i \in DOMAIN s, s[i].tool \notin Withheld
      PROVE  \E k \in 1..n : Planned(s)[k] = s[i]
  <2>1. i \in Rest(s)
    BY <1>9 DEF Rest
  <2>2. QED
    BY <1>4, <1>7, <2>1
<1>10. \A k \in DOMAIN Planned(s) :
          \E i \in DOMAIN s : Planned(s)[k] = s[i] /\ s[i].tool \notin Withheld
  BY <1>6, <1>8
<1>11. \A i \in DOMAIN s : s[i].tool \notin Withheld =>
          \E k \in DOMAIN Planned(s) : Planned(s)[k] = s[i]
  BY <1>6, <1>9
<1>12. QED
  BY <1>6, <1>10, <1>11

-----------------------------------------------------------------------------
(* Types *)

Control ==
    /\ policy \in Policies
    /\ pc \in {"top", "model", "exec", "ended"} /\ cause \in {None, "stopped", "timeout"}
    /\ steps \in 0..MaxSteps /\ repairs \in 0..1
    /\ reason \in {"final", "max_steps", "no_progress", "truncated", "error",
                   "stopped", "timeout"}

Flags ==
    /\ nudged \in BOOLEAN /\ answered \in BOOLEAN /\ said \in BOOLEAN
    /\ sideEffects \in BOOLEAN /\ untrusted \in BOOLEAN /\ kept \in BOOLEAN
    /\ taint \in BOOLEAN /\ seen \in BOOLEAN

Entries ==
    [kind : {"said", "note", "call", "repair", "answer"}, step : Nat,
     sig : Signatures \cup {<<>>}]

\* The trace, whose last entry is the call of the step that is executed.
Traced ==
    /\ trace \in Seq(Entries)
    /\ pc = "exec" =>
          /\ trace # <<>> /\ trace[Len(trace)].kind = "call"
          /\ trace[Len(trace)].step = steps /\ trace[Len(trace)].sig # <<>>

Guards ==
    /\ recent \in Seq(Signatures) /\ Len(recent) <= IdenticalCalls
    /\ transient \in Signatures \cup {None}
    /\ retries \in [Signatures -> 0..TransientRetries]

\* The plan of a step, in which a move is to a phase there is.
Planning ==
    /\ plan \in Seq(Calls) /\ at \in 1..Len(plan) + 1
    /\ group \subseteq DOMAIN plan
    /\ DOMAIN st = DOMAIN plan /\ st = [i \in DOMAIN plan |-> st[i]]
    /\ phase \in Phases
    /\ \A i \in DOMAIN plan : plan[i].tool = PhaseTool => plan[i].arg \in Phases

\* What is assumed of a reply.
LEMMA ReplyShape ==
    ASSUME NEW r \in Replies
    PROVE  /\ r.intents \in Seq(Calls) /\ r.intents \in Signatures
           /\ r.says \in {"nothing", "prose", "promise"} /\ r.malformed \in BOOLEAN
           /\ \A i \in DOMAIN r.intents :
                 r.intents[i].tool = PhaseTool => r.intents[i].arg \in Phases \cup {"bad"}
BY LoopConstants DEF Reply, Signatures

\* A reply ends the turn for a reason the loop has, or not at all.
LEMMA Verdicts ==
    ASSUME NEW r
    PROVE  Verdict(r) \in {"error", "no_progress", "truncated", "none"}
BY DEF Verdict

LEMMA FinishControl ==
    ASSUME Control, NEW why \in {"final", "max_steps", "no_progress", "truncated", "error"},
           NEW acted, NEW written, Finish(why, acted, written), UNCHANGED repairs
    PROVE  Control'
BY DEF Finish, Control

LEMMA InitTyped == Init => Control /\ Flags /\ Traced /\ Guards /\ Planning
<1> SUFFICES ASSUME Init PROVE Control /\ Flags /\ Traced /\ Guards /\ Planning
  OBVIOUS
<1>1. Control
  BY LoopConstants DEF Init, Control
<1>2. Flags
  BY LoopConstants DEF Init, Flags, Policy
<1>3. Traced /\ Guards
  BY LoopConstants DEF Init, Traced, Guards
<1>4. Planning
  BY LoopConstants DEF Init, Planning
<1>5. QED
  BY <1>1, <1>2, <1>3, <1>4

\* Every step keeps the types of the control.
LEMMA ControlStep ==
    ASSUME Control, [Next]_vars
    PROVE  Control'
<1>1. CASE BeginStep
  BY <1>1, LoopConstants DEF BeginStep, Control, endVars
<1>2. CASE Exhausted
  <2>1. Finish("max_steps", sideEffects, trace) /\ UNCHANGED repairs
    BY <1>2 DEF Exhausted
  <2>2. QED
    BY <2>1, FinishControl
<1>3. CASE ModelThrows
  <2>1. Finish("error", sideEffects, trace) /\ UNCHANGED repairs
    BY <1>3 DEF ModelThrows
  <2>2. QED
    BY <2>1, FinishControl
<1>4. ASSUME NEW r \in Replies, ModelAborted(r)
      PROVE  Control'
  <2>1. Finish("final", sideEffects, Written(r)) /\ UNCHANGED repairs
    BY <1>4 DEF ModelAborted
  <2>2. QED
    BY <2>1, FinishControl
<1>5. ASSUME NEW r \in Replies, EndsOnReply(r)
      PROVE  Control'
  <2>1. Finish(Verdict(r), sideEffects, Written(r)) /\ UNCHANGED repairs
    BY <1>5 DEF EndsOnReply
  <2>2. Verdict(r) \in {"no_progress", "truncated", "error"}
    BY <1>5, Verdicts DEF EndsOnReply
  <2>3. QED
    BY <2>1, <2>2, FinishControl
<1>6. ASSUME NEW r \in Replies, Answers(r)
      PROVE  Control'
  <2>1. Finish("final", sideEffects, Written(r)) /\ UNCHANGED repairs
    BY <1>6 DEF Answers
  <2>2. QED
    BY <2>1, FinishControl
<1>7. ASSUME NEW r \in Replies, Nudge(r)
      PROVE  Control'
  BY <1>7 DEF Nudge, Control, endVars
<1>8. ASSUME NEW r \in Replies, NoProgress(r)
      PROVE  Control'
  <2>1. Finish("no_progress", sideEffects, Written(r)) /\ UNCHANGED repairs
    BY <1>8 DEF NoProgress
  <2>2. QED
    BY <2>1, FinishControl
<1>9. ASSUME NEW r \in Replies, Repair(r)
      PROVE  Control'
  BY <1>9 DEF Repair, Control, endVars
<1>10. ASSUME NEW r \in Replies, RepairFails(r)
      PROVE  Control'
  <2>1. Finish("error", sideEffects, Called(r)) /\ UNCHANGED repairs
    BY <1>10 DEF RepairFails
  <2>2. QED
    BY <2>1, FinishControl
<1>11. ASSUME NEW r \in Replies, Execute(r)
      PROVE  Control'
  BY <1>11 DEF Execute, Control, endVars
<1>12. CASE StartGroup
  BY <1>12 DEF StartGroup, Control, endVars
<1>13. CASE GroupDone
  BY <1>13 DEF GroupDone, Control, endVars
<1>14. CASE StepDone
  BY <1>14 DEF StepDone, Control, endVars
<1>15. CASE StepThrows
  <2>1. Finish("error", sideEffects, trace) /\ UNCHANGED repairs
    BY <1>15 DEF StepThrows
  <2>2. QED
    BY <2>1, FinishControl
<1>16. ASSUME NEW a \in approvals, NEW g \in BOOLEAN, Resolve(a, g)
      PROVE  Control'
  BY <1>16 DEF Resolve, Control, endVars
<1>17. ASSUME NEW i \in group, NEW o \in {"ok", "failed", "unavailable"}, HandlerReturns(i, o)
      PROVE  Control'
  BY <1>17 DEF HandlerReturns, Control, endVars
<1>18. ASSUME NEW i \in group, CallTimeout(i)
      PROVE  Control'
  BY <1>18 DEF CallTimeout, Control, endVars
<1>19. ASSUME NEW i \in group, Deferred(i)
      PROVE  Control'
  BY <1>19 DEF Deferred, Control, endVars
<1>20. ASSUME NEW i \in group, DeferThrows(i)
      PROVE  Control'
  <2>1. Finish("error", sideEffects, trace) /\ UNCHANGED repairs
    BY <1>20 DEF DeferThrows
  <2>2. QED
    BY <2>1, FinishControl
<1>21. ASSUME NEW why \in {"stopped", "timeout"}, Abort(why)
      PROVE  Control'
  BY <1>21 DEF Abort, Control, endVars
<1>22. CASE UNCHANGED vars
  BY <1>22 DEF vars, guardVars, replyVars, factVars, endVars, execVars, doneVars, Control
<1>23. QED
  BY <1>1, <1>2, <1>3, <1>4, <1>5, <1>6, <1>7, <1>8, <1>9, <1>10, <1>11, <1>12, <1>13,
     <1>14, <1>15, <1>16, <1>17, <1>18, <1>19, <1>20, <1>21, <1>22
  DEF Next, Replied

\* Every step keeps the flags flags.
LEMMA FlagsStep ==
    ASSUME Flags, [Next]_vars
    PROVE  Flags'
<1>1. CASE BeginStep
  BY <1>1 DEF BeginStep, Finish, Appends, Returns, Calling, Tainting, guardVars, replyVars, factVars, endVars, execVars, doneVars, Flags
<1>2. CASE Exhausted
  BY <1>2 DEF Exhausted, Finish, Appends, Returns, Calling, Tainting, guardVars, replyVars, factVars, endVars, execVars, doneVars, Flags
<1>3. CASE ModelThrows
  BY <1>3 DEF ModelThrows, Finish, Appends, Returns, Calling, Tainting, guardVars, replyVars, factVars, endVars, execVars, doneVars, Flags
<1>4. ASSUME NEW r \in Replies, ModelAborted(r)
      PROVE  Flags'
  BY <1>4 DEF ModelAborted, Finish, Appends, Returns, Calling, Tainting, guardVars, replyVars, factVars, endVars, execVars, doneVars, Flags
<1>5. ASSUME NEW r \in Replies, EndsOnReply(r)
      PROVE  Flags'
  BY <1>5 DEF EndsOnReply, Finish, Appends, Returns, Calling, Tainting, guardVars, replyVars, factVars, endVars, execVars, doneVars, Flags
<1>6. ASSUME NEW r \in Replies, Answers(r)
      PROVE  Flags'
  BY <1>6 DEF Answers, Finish, Appends, Returns, Calling, Tainting, guardVars, replyVars, factVars, endVars, execVars, doneVars, Flags
<1>7. ASSUME NEW r \in Replies, Nudge(r)
      PROVE  Flags'
  BY <1>7 DEF Nudge, Finish, Appends, Returns, Calling, Tainting, guardVars, replyVars, factVars, endVars, execVars, doneVars, Flags
<1>8. ASSUME NEW r \in Replies, NoProgress(r)
      PROVE  Flags'
  BY <1>8 DEF NoProgress, Finish, Appends, Returns, Calling, Tainting, guardVars, replyVars, factVars, endVars, execVars, doneVars, Flags
<1>9. ASSUME NEW r \in Replies, Repair(r)
      PROVE  Flags'
  BY <1>9 DEF Repair, Finish, Appends, Returns, Calling, Tainting, guardVars, replyVars, factVars, endVars, execVars, doneVars, Flags
<1>10. ASSUME NEW r \in Replies, RepairFails(r)
      PROVE  Flags'
  BY <1>10 DEF RepairFails, Finish, Appends, Returns, Calling, Tainting, guardVars, replyVars, factVars, endVars, execVars, doneVars, Flags
<1>11. ASSUME NEW r \in Replies, Execute(r)
      PROVE  Flags'
  BY <1>11 DEF Execute, Finish, Appends, Returns, Calling, Tainting, guardVars, replyVars, factVars, endVars, execVars, doneVars, Flags
<1>12. CASE StartGroup
  BY <1>12 DEF StartGroup, Finish, Appends, Returns, Calling, Tainting, guardVars, replyVars, factVars, endVars, execVars, doneVars, Flags
<1>13. CASE GroupDone
  BY <1>13 DEF GroupDone, Finish, Appends, Returns, Calling, Tainting, guardVars, replyVars, factVars, endVars, execVars, doneVars, Flags
<1>14. CASE StepDone
  BY <1>14 DEF StepDone, Finish, Appends, Returns, Calling, Tainting, guardVars, replyVars, factVars, endVars, execVars, doneVars, Flags
<1>15. CASE StepThrows
  BY <1>15 DEF StepThrows, Finish, Appends, Returns, Calling, Tainting, guardVars, replyVars, factVars, endVars, execVars, doneVars, Flags
<1>16. ASSUME NEW a \in approvals, NEW g \in BOOLEAN, Resolve(a, g)
      PROVE  Flags'
  BY <1>16 DEF Resolve, Finish, Appends, Returns, Calling, Tainting, guardVars, replyVars, factVars, endVars, execVars, doneVars, Flags
<1>17. ASSUME NEW i \in group, NEW o \in {"ok", "failed", "unavailable"}, HandlerReturns(i, o)
      PROVE  Flags'
  BY <1>17 DEF HandlerReturns, Finish, Appends, Returns, Calling, Tainting, guardVars, replyVars, factVars, endVars, execVars, doneVars, Flags
<1>18. ASSUME NEW i \in group, CallTimeout(i)
      PROVE  Flags'
  BY <1>18 DEF CallTimeout, Finish, Appends, Returns, Calling, Tainting, guardVars, replyVars, factVars, endVars, execVars, doneVars, Flags
<1>19. ASSUME NEW i \in group, Deferred(i)
      PROVE  Flags'
  BY <1>19 DEF Deferred, Finish, Appends, Returns, Calling, Tainting, guardVars, replyVars, factVars, endVars, execVars, doneVars, Flags
<1>20. ASSUME NEW i \in group, DeferThrows(i)
      PROVE  Flags'
  BY <1>20 DEF DeferThrows, Finish, Appends, Returns, Calling, Tainting, guardVars, replyVars, factVars, endVars, execVars, doneVars, Flags
<1>21. ASSUME NEW why \in {"stopped", "timeout"}, Abort(why)
      PROVE  Flags'
  BY <1>21 DEF Abort, Finish, Appends, Returns, Calling, Tainting, guardVars, replyVars, factVars, endVars, execVars, doneVars, Flags
<1>22. CASE UNCHANGED vars
  BY <1>22 DEF vars, guardVars, replyVars, factVars, endVars, execVars, doneVars, Flags
<1>23. QED
  BY <1>1, <1>2, <1>3, <1>4, <1>5, <1>6, <1>7, <1>8, <1>9, <1>10, <1>11, <1>12, <1>13,
     <1>14, <1>15, <1>16, <1>17, <1>18, <1>19, <1>20, <1>21, <1>22
  DEF Next, Replied

\* Entries of the trace.
LEMMA Wrote ==
    ASSUME Control, Traced, NEW r \in Replies
    PROVE  /\ Written(r) \in Seq(Entries) /\ Called(r) \in Seq(Entries)
           /\ Written(r) = trace \/ Written(r) = Append(trace, Entry("said"))
           /\ Called(r) # <<>> /\ Len(Called(r)) = Len(trace) + 1
           /\ Called(r)[Len(Called(r))] =
                 [kind |-> "call", step |-> steps, sig |-> r.intents]
           /\ \A k \in {"said", "note", "repair", "answer"} : Entry(k) \in Entries
<1>1. steps \in Nat
  BY LoopConstants DEF Control
<1>2. \A k \in {"said", "note", "repair", "answer"} : Entry(k) \in Entries
  BY <1>1 DEF Entry, Entries
<1>3. [kind |-> "call", step |-> steps, sig |-> r.intents] \in Entries
  BY <1>1, ReplyShape DEF Entries
<1> HIDE DEF Entries
<1>4. trace \in Seq(Entries)
  BY DEF Traced
<1>5. Written(r) \in Seq(Entries) /\ (Written(r) = trace \/ Written(r) = Append(trace, Entry("said")))
  BY <1>2, <1>4 DEF Written
<1>6. /\ Called(r) \in Seq(Entries) /\ Called(r) # <<>> /\ Len(Called(r)) = Len(trace) + 1
      /\ Called(r)[Len(Called(r))] = [kind |-> "call", step |-> steps, sig |-> r.intents]
  BY <1>3, <1>4 DEF Called
<1>7. QED
  BY <1>2, <1>5, <1>6

\* Every step keeps what is known of the trace.
LEMMA TracedStep ==
    ASSUME Control, Traced, [Next]_vars
    PROVE  Traced'
<1>1. CASE BeginStep
  <2>1. trace' = trace /\ pc' = "model"
    BY <1>1 DEF BeginStep
  <2>2. QED
    BY <2>1 DEF Traced
<1>2. CASE Exhausted
  <2>1. trace' = trace /\ pc' = "ended"
    BY <1>2 DEF Exhausted, Finish
  <2>2. QED
    BY <2>1 DEF Traced
<1>3. CASE ModelThrows
  <2>1. trace' = trace /\ pc' = "ended"
    BY <1>3 DEF ModelThrows, Finish
  <2>2. QED
    BY <2>1 DEF Traced
<1>4. ASSUME NEW r \in Replies, ModelAborted(r)
      PROVE  Traced'
  <2>1. trace' = Written(r) /\ pc' = "ended"
    BY <1>4 DEF ModelAborted, Finish
  <2>2. QED
    BY <2>1, Wrote DEF Traced
<1>5. ASSUME NEW r \in Replies, EndsOnReply(r)
      PROVE  Traced'
  <2>1. trace' = Written(r) /\ pc' = "ended"
    BY <1>5 DEF EndsOnReply, Finish
  <2>2. QED
    BY <2>1, Wrote DEF Traced
<1>6. ASSUME NEW r \in Replies, Answers(r)
      PROVE  Traced'
  <2>1. trace' = Written(r) /\ pc' = "ended"
    BY <1>6 DEF Answers, Finish
  <2>2. QED
    BY <2>1, Wrote DEF Traced
<1>7. ASSUME NEW r \in Replies, Nudge(r)
      PROVE  Traced'
  <2>1. trace' = Append(Written(r), Entry("note")) /\ pc' = "top"
    BY <1>7 DEF Nudge
  <2>2. Written(r) \in Seq(Entries) /\ Entry("note") \in Entries
    BY Wrote
  <2>3. trace' \in Seq(Entries)
    BY <2>1, <2>2
  <2>4. QED
    BY <2>1, <2>3 DEF Traced
<1>8. ASSUME NEW r \in Replies, NoProgress(r)
      PROVE  Traced'
  <2>1. trace' = Written(r) /\ pc' = "ended"
    BY <1>8 DEF NoProgress, Finish
  <2>2. QED
    BY <2>1, Wrote DEF Traced
<1>9. ASSUME NEW r \in Replies, Repair(r)
      PROVE  Traced'
  <2>1. trace' = Append(Called(r), Entry("repair")) /\ pc' = "top"
    BY <1>9 DEF Repair
  <2>2. Called(r) \in Seq(Entries) /\ Entry("repair") \in Entries
    BY Wrote
  <2>3. trace' \in Seq(Entries)
    BY <2>1, <2>2
  <2>4. QED
    BY <2>1, <2>3 DEF Traced
<1>10. ASSUME NEW r \in Replies, RepairFails(r)
      PROVE  Traced'
  <2>1. trace' = Called(r) /\ pc' = "ended"
    BY <1>10 DEF RepairFails, Finish
  <2>2. QED
    BY <2>1, Wrote DEF Traced
<1>11. ASSUME NEW r \in Replies, Execute(r)
      PROVE  Traced'
  <2>1. trace' = Called(r) /\ pc' = "exec" /\ UNCHANGED steps /\ r.intents # <<>>
    BY <1>11 DEF Execute, Calling, Broken
  <2>2. /\ trace' \in Seq(Entries) /\ trace' # <<>>
        /\ trace'[Len(trace')] = [kind |-> "call", step |-> steps, sig |-> r.intents]
    BY <2>1, Wrote
  <2>3. QED
    BY <2>1, <2>2 DEF Traced
<1>12. CASE StartGroup
  BY <1>12 DEF StartGroup, Traced
<1>13. CASE GroupDone
  BY <1>13 DEF GroupDone, Traced
<1>14. CASE StepDone
  <2>1. trace' = Append(trace, Entry("answer")) /\ pc' = "top"
    BY <1>14 DEF StepDone
  <2>2. Entry("answer") \in Entries
    <3>1. steps \in Nat
      BY LoopConstants DEF Control
    <3>2. QED
      BY <3>1 DEF Entry, Entries
  <2>3. QED
    BY <2>1, <2>2 DEF Traced
<1>15. CASE StepThrows
  <2>1. trace' = trace /\ pc' = "ended"
    BY <1>15 DEF StepThrows, Finish
  <2>2. QED
    BY <2>1 DEF Traced
<1>16. ASSUME NEW a \in approvals, NEW g \in BOOLEAN, Resolve(a, g)
      PROVE  Traced'
  BY <1>16 DEF Resolve, Traced
<1>17. ASSUME NEW i \in group, NEW o \in {"ok", "failed", "unavailable"}, HandlerReturns(i, o)
      PROVE  Traced'
  BY <1>17 DEF HandlerReturns, Traced
<1>18. ASSUME NEW i \in group, CallTimeout(i)
      PROVE  Traced'
  BY <1>18 DEF CallTimeout, Traced
<1>19. ASSUME NEW i \in group, Deferred(i)
      PROVE  Traced'
  BY <1>19 DEF Deferred, Traced
<1>20. ASSUME NEW i \in group, DeferThrows(i)
      PROVE  Traced'
  <2>1. trace' = trace /\ pc' = "ended"
    BY <1>20 DEF DeferThrows, Finish
  <2>2. QED
    BY <2>1 DEF Traced
<1>21. ASSUME NEW why \in {"stopped", "timeout"}, Abort(why)
      PROVE  Traced'
  BY <1>21 DEF Abort, Traced
<1>22. CASE UNCHANGED vars
  BY <1>22 DEF vars, guardVars, replyVars, factVars, endVars, execVars, doneVars, Traced
<1>23. QED
  BY <1>1, <1>2, <1>3, <1>4, <1>5, <1>6, <1>7, <1>8, <1>9, <1>10, <1>11, <1>12, <1>13,
     <1>14, <1>15, <1>16, <1>17, <1>18, <1>19, <1>20, <1>21, <1>22
  DEF Next, Replied

\* The ring after one more signature, with none longer than its limit.
LEMMA RingShape ==
    ASSUME Guards, NEW s \in Signatures
    PROVE  /\ Ring(s) \in Seq(Signatures) /\ Len(Ring(s)) <= IdenticalCalls
           /\ s # <<>> => Ring(s) # <<>> /\ Ring(s)[Len(Ring(s))] = s
           /\ s # <<>> /\ Len(recent) < IdenticalCalls =>
                 /\ Len(Ring(s)) = Len(recent) + 1
                 /\ \A i \in 1..Len(recent) : Ring(s)[i] = recent[i]
           /\ s # <<>> /\ Len(recent) = IdenticalCalls =>
                 /\ Len(Ring(s)) = IdenticalCalls
                 /\ \A i \in 1..Len(recent) - 1 : Ring(s)[i] = recent[i + 1]
<1>1. IdenticalCalls \in Nat /\ IdenticalCalls > 1
  BY LoopConstants
<1>2. recent \in Seq(Signatures) /\ Len(recent) <= IdenticalCalls
  BY DEF Guards
<1> DEFINE longer == Append(recent, s)
<1>3. /\ longer \in Seq(Signatures) /\ Len(longer) = Len(recent) + 1
      /\ \A i \in 1..Len(recent) : longer[i] = recent[i]
      /\ longer[Len(recent) + 1] = s
  BY <1>2
<1>4. Ring(s) = IF s = <<>> THEN recent
                ELSE IF Len(longer) > IdenticalCalls THEN Tail(longer) ELSE longer
  BY DEF Ring
<1> HIDE DEF longer
<1>5. CASE s = <<>>
  BY <1>2, <1>4, <1>5
<1>6. CASE s # <<>> /\ Len(recent) < IdenticalCalls
  <2>1. Ring(s) = longer
    BY <1>1, <1>2, <1>3, <1>4, <1>6
  <2>2. QED
    BY <1>1, <1>2, <1>3, <1>6, <2>1
<1>7. CASE s # <<>> /\ Len(recent) = IdenticalCalls
  <2>1. Ring(s) = Tail(longer)
    BY <1>1, <1>2, <1>3, <1>4, <1>7
  <2>2. /\ Tail(longer) \in Seq(Signatures) /\ Len(Tail(longer)) = IdenticalCalls
        /\ \A i \in 1..IdenticalCalls : Tail(longer)[i] = longer[i + 1]
    BY <1>1, <1>2, <1>3, <1>7
  <2>3. QED
    BY <1>1, <1>2, <1>3, <1>7, <2>1, <2>2
<1>8. QED
  BY <1>1, <1>2, <1>5, <1>6, <1>7

LEMMA CallingGuards ==
    ASSUME Guards, NEW r \in Replies, Calling(r)
    PROVE  /\ recent' \in Seq(Signatures) /\ Len(recent') <= IdenticalCalls
           /\ retries' \in [Signatures -> 0..TransientRetries]
<1>1. r.intents \in Signatures
  BY ReplyShape
<1>2. recent' \in Seq(Signatures) /\ Len(recent') <= IdenticalCalls
  BY <1>1, RingShape DEF Calling
<1>3. retries' \in [Signatures -> 0..TransientRetries]
  BY <1>1, LoopConstants DEF Calling, Forgiven, Guards
<1>4. QED
  BY <1>2, <1>3

LEMMA LastSignature ==
    ASSUME Traced, pc = "exec"
    PROVE  Signature \in Signatures \cup {<<>>}
<1>1. trace \in Seq(Entries) /\ trace # <<>>
  BY DEF Traced
<1>2. trace[Len(trace)] \in Entries
  <2> HIDE DEF Entries
  <2>1. QED
    BY <1>1
<1>3. QED
  BY <1>2 DEF Entries, Signature

\* Every step keeps the types of the repeat guard.
LEMMA GuardsStep ==
    ASSUME Traced, Guards, [Next]_vars
    PROVE  Guards'
<1>1. CASE BeginStep
  BY <1>1 DEF BeginStep, guardVars, Guards
<1>2. CASE Exhausted
  BY <1>2 DEF Exhausted, guardVars, Guards
<1>3. CASE ModelThrows
  BY <1>3 DEF ModelThrows, guardVars, Guards
<1>4. ASSUME NEW r \in Replies, ModelAborted(r)
      PROVE  Guards'
  BY <1>4 DEF ModelAborted, guardVars, Guards
<1>5. ASSUME NEW r \in Replies, EndsOnReply(r)
      PROVE  Guards'
  BY <1>5 DEF EndsOnReply, guardVars, Guards
<1>6. ASSUME NEW r \in Replies, Answers(r)
      PROVE  Guards'
  BY <1>6 DEF Answers, guardVars, Guards
<1>7. ASSUME NEW r \in Replies, Nudge(r)
      PROVE  Guards'
  BY <1>7 DEF Nudge, guardVars, Guards
<1>8. ASSUME NEW r \in Replies, NoProgress(r)
      PROVE  Guards'
  <2>1. Calling(r) /\ transient' = transient
    BY <1>8 DEF NoProgress
  <2>2. QED
    BY <2>1, CallingGuards DEF Guards
<1>9. ASSUME NEW r \in Replies, Repair(r)
      PROVE  Guards'
  <2>1. Calling(r) /\ transient' = None
    BY <1>9 DEF Repair
  <2>2. QED
    BY <2>1, CallingGuards DEF Guards
<1>10. ASSUME NEW r \in Replies, RepairFails(r)
      PROVE  Guards'
  <2>1. Calling(r) /\ transient' = None
    BY <1>10 DEF RepairFails
  <2>2. QED
    BY <2>1, CallingGuards DEF Guards
<1>11. ASSUME NEW r \in Replies, Execute(r)
      PROVE  Guards'
  <2>1. Calling(r) /\ transient' = transient
    BY <1>11 DEF Execute
  <2>2. QED
    BY <2>1, CallingGuards DEF Guards
<1>12. CASE StartGroup
  BY <1>12 DEF StartGroup, guardVars, Guards
<1>13. CASE GroupDone
  BY <1>13 DEF GroupDone, guardVars, Guards
<1>14. CASE StepDone
  <2>1. pc = "exec" /\ transient' \in {Signature, None} /\ UNCHANGED <<recent, retries>>
        /\ (transient' = Signature => Signature # <<>> \/ transient' = None)
    BY <1>14 DEF StepDone, StepOver, AllUnavailable
  <2>2. Signature # <<>> => Signature \in Signatures
    BY <2>1, LastSignature
  <2>3. QED
    BY <2>1, <2>2 DEF Guards
<1>15. CASE StepThrows
  <2>1. pc = "exec" /\ transient' \in {Signature, None} /\ UNCHANGED <<recent, retries>>
        /\ (transient' = Signature => Signature # <<>> \/ transient' = None)
    BY <1>15 DEF StepThrows, StepOver, AllUnavailable
  <2>2. Signature # <<>> => Signature \in Signatures
    BY <2>1, LastSignature
  <2>3. QED
    BY <2>1, <2>2 DEF Guards
<1>16. ASSUME NEW a \in approvals, NEW g \in BOOLEAN, Resolve(a, g)
      PROVE  Guards'
  BY <1>16 DEF Resolve, guardVars, Guards
<1>17. ASSUME NEW i \in group, NEW o \in {"ok", "failed", "unavailable"}, HandlerReturns(i, o)
      PROVE  Guards'
  BY <1>17 DEF HandlerReturns, guardVars, Guards
<1>18. ASSUME NEW i \in group, CallTimeout(i)
      PROVE  Guards'
  BY <1>18 DEF CallTimeout, guardVars, Guards
<1>19. ASSUME NEW i \in group, Deferred(i)
      PROVE  Guards'
  BY <1>19 DEF Deferred, guardVars, Guards
<1>20. ASSUME NEW i \in group, DeferThrows(i)
      PROVE  Guards'
  BY <1>20 DEF DeferThrows, guardVars, Guards
<1>21. ASSUME NEW why \in {"stopped", "timeout"}, Abort(why)
      PROVE  Guards'
  BY <1>21 DEF Abort, guardVars, Guards
<1>22. CASE UNCHANGED vars
  BY <1>22 DEF vars, guardVars, replyVars, factVars, endVars, execVars, doneVars, Guards
<1>23. QED
  BY <1>1, <1>2, <1>3, <1>4, <1>5, <1>6, <1>7, <1>8, <1>9, <1>10, <1>11, <1>12, <1>13,
     <1>14, <1>15, <1>16, <1>17, <1>18, <1>19, <1>20, <1>21, <1>22
  DEF Next, Replied

\* A set of places in a sequence that is not empty has a last one.
LEMMA LastPlace ==
    ASSUME NEW n \in Nat, NEW S \in SUBSET (1..n), S # {}
    PROVE  \E i \in S : \A j \in S : j <= i
<1> DEFINE T == {m \in Nat : \A j \in S : j <= m}
<1>1. n \in T
  OBVIOUS
<1>2. PICK m \in T : \A k \in T : m <= k
  BY <1>1, LeastNumber
<1>3. m # 0
  <2>1. PICK x \in S : x \in 1..n
    OBVIOUS
  <2>2. x <= m
    BY <1>2
  <2>3. QED
    BY <2>1, <2>2
<1>4. m - 1 \in Nat /\ m - 1 \notin T
  BY <1>2, <1>3
<1>5. PICK j \in S : ~(j <= m - 1)
  BY <1>4
<1>6. j = m
  BY <1>2, <1>5
<1>7. QED
  BY <1>2, <1>6

\* A move is to a phase there is.
LEMMA MovedPhase ==
    ASSUME Planning, NEW runs \in SUBSET DOMAIN plan
    PROVE  Moved(runs) \in Phases
<1> DEFINE moves == {i \in runs : plan[i].tool = PhaseTool}
<1>1. moves \in SUBSET (1..Len(plan)) /\ Len(plan) \in Nat
  BY DEF Planning
<1>2. CASE moves = {}
  BY <1>2 DEF Moved, Planning
<1>3. CASE moves # {}
  <2> DEFINE last == CHOOSE i \in moves : \A j \in moves : j <= i
  <2>1. last \in moves
    BY <1>1, <1>3, LastPlace
  <2>2. Moved(runs) = plan[last].arg
    BY <1>3 DEF Moved
  <2>3. QED
    BY <2>1, <2>2 DEF Planning
<1>4. QED
  BY <1>2, <1>3

\* A group is made of planned calls from the first one that has not begun.
LEMMA GroupShape ==
    ASSUME NEW i \in 1..Len(plan), plan \in Seq(Calls)
    PROVE  /\ GroupAt(i) \subseteq DOMAIN plan /\ i \in GroupAt(i)
           /\ IsFiniteSet(GroupAt(i)) /\ Cardinality(GroupAt(i)) \in Nat
           /\ i + Cardinality(GroupAt(i)) \in 1..Len(plan) + 1
           /\ \A j \in GroupAt(i) : plan[j].tool \in Mutating => GroupAt(i) = {j}
<1>1. GroupAt(i) \subseteq DOMAIN plan /\ i \in GroupAt(i) /\ GroupAt(i) \subseteq i..Len(plan)
  BY DEF GroupAt
<1>2. IsFiniteSet(i..Len(plan)) /\ Cardinality(i..Len(plan)) = Len(plan) - i + 1
  BY FS_Interval
<1>3. /\ IsFiniteSet(GroupAt(i))
      /\ Cardinality(GroupAt(i)) <= Cardinality(i..Len(plan))
  BY <1>1, <1>2, FS_Subset
<1>4. Cardinality(GroupAt(i)) \in Nat
  BY <1>3, FS_CardinalityType
<1>5. i + Cardinality(GroupAt(i)) \in 1..Len(plan) + 1
  BY <1>2, <1>3, <1>4
<1>6. ASSUME NEW j \in GroupAt(i), plan[j].tool \in Mutating
      PROVE  GroupAt(i) = {j}
  <2>1. j = i
    BY <1>6 DEF GroupAt
  <2>2. \A k \in GroupAt(i) : k = i
    BY <1>6, <2>1 DEF GroupAt
  <2>3. QED
    BY <1>1, <2>1, <2>2
<1>7. QED
  BY <1>1, <1>3, <1>4, <1>5, <1>6

LEMMA ExecutePlans ==
    ASSUME Planning, NEW r \in Replies, Execute(r)
    PROVE  /\ plan' = Planned(r.intents) /\ plan' \in Seq(Calls)
           /\ \A i \in DOMAIN plan' : plan'[i].tool \in Visible[phase]
           /\ \A i \in DOMAIN plan' : plan'[i].arg # "bad"
           /\ \A i \in DOMAIN plan' : plan'[i].tool = PhaseTool => plan'[i].arg \in Phases
           /\ st' = [i \in DOMAIN plan' |-> "waiting"] /\ at' = 1 /\ group' = {}
<1>1. plan' = Planned(r.intents) /\ at' = 1 /\ group' = {} /\ ~Broken(r)
  BY DEF Execute
<1>2. st' = [i \in DOMAIN plan' |-> "waiting"]
  BY <1>1 DEF Execute
<1>3. r.intents \in Seq(Calls)
  BY ReplyShape
<1>4. plan' \in Seq(Calls)
  BY <1>1, <1>3, PlannedCalls
<1>5. \A i \in DOMAIN plan' : plan'[i].arg # "bad" /\ plan'[i].tool \in Visible[phase]
  BY <1>1 DEF Broken, Unusable
<1>6. ASSUME NEW i \in DOMAIN plan', plan'[i].tool = PhaseTool
      PROVE  plan'[i].arg \in Phases
  <2>1. PICK k \in DOMAIN r.intents : plan'[i] = r.intents[k]
    BY <1>1, <1>3, PlannedCalls
  <2>2. plan'[i].arg \in Phases \cup {"bad"}
    BY <1>6, <2>1, ReplyShape
  <2>3. QED
    BY <1>5, <2>2
<1>7. QED
  BY <1>1, <1>2, <1>4, <1>5, <1>6

\* Every step keeps what is known of the plan.
LEMMA PlanningStep ==
    ASSUME Planning, [Next]_vars
    PROVE  Planning'
<1>1. CASE BeginStep
  <2>1. UNCHANGED <<plan, at, group, st, phase>>
    BY <1>1 DEF BeginStep, execVars, doneVars
  <2>2. QED
    BY <2>1 DEF Planning
<1>2. CASE Exhausted
  <2>1. UNCHANGED <<plan, at, group, st, phase>>
    BY <1>2 DEF Exhausted, execVars, doneVars
  <2>2. QED
    BY <2>1 DEF Planning
<1>3. CASE ModelThrows
  <2>1. UNCHANGED <<plan, at, group, st, phase>>
    BY <1>3 DEF ModelThrows, execVars, doneVars
  <2>2. QED
    BY <2>1 DEF Planning
<1>4. ASSUME NEW r \in Replies, ModelAborted(r)
      PROVE  Planning'
  <2>1. UNCHANGED <<plan, at, group, st, phase>>
    BY <1>4 DEF ModelAborted, execVars, doneVars
  <2>2. QED
    BY <2>1 DEF Planning
<1>5. ASSUME NEW r \in Replies, EndsOnReply(r)
      PROVE  Planning'
  <2>1. UNCHANGED <<plan, at, group, st, phase>>
    BY <1>5 DEF EndsOnReply, execVars, doneVars
  <2>2. QED
    BY <2>1 DEF Planning
<1>6. ASSUME NEW r \in Replies, Answers(r)
      PROVE  Planning'
  <2>1. UNCHANGED <<plan, at, group, st, phase>>
    BY <1>6 DEF Answers, execVars, doneVars
  <2>2. QED
    BY <2>1 DEF Planning
<1>7. ASSUME NEW r \in Replies, Nudge(r)
      PROVE  Planning'
  <2>1. UNCHANGED <<plan, at, group, st, phase>>
    BY <1>7 DEF Nudge, execVars, doneVars
  <2>2. QED
    BY <2>1 DEF Planning
<1>8. ASSUME NEW r \in Replies, NoProgress(r)
      PROVE  Planning'
  <2>1. UNCHANGED <<plan, at, group, st, phase>>
    BY <1>8 DEF NoProgress, execVars, doneVars
  <2>2. QED
    BY <2>1 DEF Planning
<1>9. ASSUME NEW r \in Replies, Repair(r)
      PROVE  Planning'
  <2>1. UNCHANGED <<plan, at, group, st, phase>>
    BY <1>9 DEF Repair, execVars, doneVars
  <2>2. QED
    BY <2>1 DEF Planning
<1>10. ASSUME NEW r \in Replies, RepairFails(r)
      PROVE  Planning'
  <2>1. UNCHANGED <<plan, at, group, st, phase>>
    BY <1>10 DEF RepairFails, execVars, doneVars
  <2>2. QED
    BY <2>1 DEF Planning
<1>11. ASSUME NEW r \in Replies, Execute(r)
      PROVE  Planning'
  <2>1. UNCHANGED phase
    BY <1>11 DEF Execute, doneVars
  <2>2. QED
    BY <1>11, <2>1, ExecutePlans DEF Planning
<1>12. CASE StartGroup
  <2> DEFINE g == GroupAt(at)
             runs == {i \in g : Begun(i) = "running"}
  <2>1. /\ at \in 1..Len(plan) /\ UNCHANGED plan /\ group' = g /\ at' = at + Cardinality(g)
        /\ st' = [i \in DOMAIN st |-> IF i \in g THEN Begun(i) ELSE st[i]]
        /\ phase' = Moved(runs) /\ plan \in Seq(Calls)
    BY <1>12 DEF StartGroup, Planning
  <2>2. g \subseteq DOMAIN plan /\ at' \in 1..Len(plan) + 1 /\ runs \in SUBSET DOMAIN plan
    BY <2>1, GroupShape
  <2> HIDE DEF g, runs
  <2>3. phase' \in Phases
    BY <2>1, <2>2, MovedPhase
  <2>4. DOMAIN st' = DOMAIN plan /\ st' = [i \in DOMAIN plan |-> st'[i]]
    BY <2>1 DEF Planning
  <2>5. QED
    BY <2>1, <2>2, <2>3, <2>4 DEF Planning
<1>13. CASE GroupDone
  <2>1. UNCHANGED <<plan, at, st, phase>> /\ group' = {}
    BY <1>13 DEF GroupDone, doneVars
  <2>2. QED
    BY <2>1 DEF Planning
<1>14. CASE StepDone
  <2>1. UNCHANGED <<plan, at, group, st, phase>>
    BY <1>14 DEF StepDone, execVars, doneVars
  <2>2. QED
    BY <2>1 DEF Planning
<1>15. CASE StepThrows
  <2>1. UNCHANGED <<plan, at, group, st, phase>>
    BY <1>15 DEF StepThrows, execVars, doneVars
  <2>2. QED
    BY <2>1 DEF Planning
<1>16. ASSUME NEW a \in approvals, NEW g \in BOOLEAN, Resolve(a, g)
      PROVE  Planning'
  <2>1. UNCHANGED <<plan, at, group>>
    BY <1>16 DEF Resolve
  <2>2. phase' \in Phases
    BY <1>16, MovedPhase DEF Resolve, Planning
  <2>3. DOMAIN st' = DOMAIN plan /\ st' = [i \in DOMAIN plan |-> st'[i]]
    BY <1>16 DEF Resolve, Planning
  <2>4. QED
    BY <2>1, <2>2, <2>3 DEF Planning
<1>17. ASSUME NEW i \in group, NEW o \in {"ok", "failed", "unavailable"}, HandlerReturns(i, o)
      PROVE  Planning'
  <2>1. UNCHANGED <<plan, at, group, phase>>
    BY <1>17 DEF HandlerReturns
  <2>2. DOMAIN st' = DOMAIN plan /\ st' = [j \in DOMAIN plan |-> st'[j]]
    BY <1>17 DEF HandlerReturns, Planning
  <2>3. QED
    BY <2>1, <2>2 DEF Planning
<1>18. ASSUME NEW i \in group, CallTimeout(i)
      PROVE  Planning'
  <2>1. UNCHANGED <<plan, at, group, phase>>
    BY <1>18 DEF CallTimeout
  <2>2. DOMAIN st' = DOMAIN plan /\ st' = [j \in DOMAIN plan |-> st'[j]]
    BY <1>18 DEF CallTimeout, Planning
  <2>3. QED
    BY <2>1, <2>2 DEF Planning
<1>19. ASSUME NEW i \in group, Deferred(i)
      PROVE  Planning'
  <2>1. UNCHANGED <<plan, at, group, phase>>
    BY <1>19 DEF Deferred, doneVars
  <2>2. DOMAIN st' = DOMAIN plan /\ st' = [j \in DOMAIN plan |-> st'[j]]
    BY <1>19 DEF Deferred, Planning
  <2>3. QED
    BY <2>1, <2>2 DEF Planning
<1>20. ASSUME NEW i \in group, DeferThrows(i)
      PROVE  Planning'
  <2>1. UNCHANGED <<plan, at, group, st, phase>>
    BY <1>20 DEF DeferThrows, execVars, doneVars
  <2>2. QED
    BY <2>1 DEF Planning
<1>21. ASSUME NEW why \in {"stopped", "timeout"}, Abort(why)
      PROVE  Planning'
  <2>1. UNCHANGED <<plan, at, group, phase>>
    BY <1>21 DEF Abort
  <2>2. DOMAIN st' = DOMAIN plan /\ st' = [i \in DOMAIN plan |-> st'[i]]
    BY <1>21 DEF Abort, Planning
  <2>3. QED
    BY <2>1, <2>2 DEF Planning
<1>22. CASE UNCHANGED vars
  BY <1>22 DEF vars, guardVars, replyVars, factVars, endVars, execVars, doneVars, Planning
<1>23. QED
  BY <1>1, <1>2, <1>3, <1>4, <1>5, <1>6, <1>7, <1>8, <1>9, <1>10, <1>11, <1>12, <1>13,
     <1>14, <1>15, <1>16, <1>17, <1>18, <1>19, <1>20, <1>21, <1>22
  DEF Next, Replied

Typed == Control /\ Flags /\ Traced /\ Guards /\ Planning

LEMMA TypedAlways == Spec => []Typed
<1>1. Init => Typed
  BY InitTyped DEF Typed
<1>2. Typed /\ [Next]_vars => Typed'
  BY ControlStep, FlagsStep, TracedStep, GuardsStep, PlanningStep DEF Typed
<1>3. QED
  BY <1>1, <1>2, PTL DEF Spec

\* Type correctness: the counters stay within the loop's limits, a retry is never
\* forgiven more often than allowed, the first call not begun is at most one past
\* the plan, and the phase is one there is, whatever the model asks for.
THEOREM LoopTypeCorrect == Spec => []TypeOK
<1>1. Typed => TypeOK
  BY DEF Typed, TypeOK, Control, Flags, Traced, Guards, Planning
<1>2. QED
  BY <1>1, TypedAlways, PTL

-----------------------------------------------------------------------------
(* The write gate *)

\* A group with a write is that write, and what runs has been started.
GroupInv ==
    /\ pc \in {"top", "model"} => group = {}
    /\ \A i \in group : plan[i].tool \in Mutating => group = {i}
    /\ \A i \in group : st[i] = "running" => Ran(i)

\* What untrusted was returned is known where the next decision looks: to the turn
\* between steps, and in a step to the executor, from the group that is under way on.
SeenInv ==
    /\ pc \in {"top", "model"} /\ seen => untrusted
    /\ pc = "exec" /\ seen => taint \/ Tainting \cap group # {}
    /\ pc = "exec" /\ taint => untrusted \/ Tainting # {}

\* What ran stays so during a step.
LEMMA TaintingGrows ==
    ASSUME UNCHANGED <<plan, steps>>, starts \subseteq starts'
    PROVE  Tainting \subseteq Tainting' /\ \A i : Ran(i) => Ran(i)'
BY DEF Tainting, Ran

LEMMA TaintingSame ==
    ASSUME UNCHANGED <<plan, steps, starts>>
    PROVE  Tainting' = Tainting /\ \A i : Ran(i)' <=> Ran(i)
BY DEF Tainting, Ran

\* How a group begins.
LEMMA GroupStarts ==
    ASSUME Planning, StartGroup
    PROVE  /\ at \in 1..Len(plan) /\ group = {} /\ group' = GroupAt(at) /\ pc = "exec" /\ pc' = "exec"
           /\ \A i \in DOMAIN plan : i \in group' => st'[i] = Begun(i)
           /\ \A i \in DOMAIN plan : i \notin group' => st'[i] = st[i]
           /\ starts' = starts \cup {Start(i, "policy") : i \in {j \in group' : Begun(j) = "running"}}
           /\ phase' = Moved({j \in group' : Begun(j) = "running"})
           /\ UNCHANGED <<policy, cause, steps, repairs, trace, plan, taint, effects, seen,
                          sideEffects, untrusted, kept, reason>>
<1>1. /\ at \in 1..Len(plan) /\ group = {} /\ group' = GroupAt(at)  /\ pc = "exec" /\ pc' = "exec"
  BY DEF StartGroup, Planning
<1>2. st' = [i \in DOMAIN plan |-> IF i \in group' THEN Begun(i) ELSE st[i]]
  BY DEF StartGroup, Planning
<1>3. /\ starts' = starts \cup {Start(i, "policy") : i \in {j \in group' : Begun(j) = "running"}}
      /\ phase' = Moved({j \in group' : Begun(j) = "running"})
  BY DEF StartGroup
<1>4. UNCHANGED <<policy, cause, steps, repairs, trace, plan, taint, effects, seen,
                  sideEffects, untrusted, kept, reason>>
  BY DEF StartGroup, factVars, endVars
<1>5. QED
  BY <1>1, <1>2, <1>3, <1>4

\* An answer starts the call it is awaited for, or none.
LEMMA Resolves ==
    ASSUME Planning, NEW a \in approvals, NEW g \in BOOLEAN, Resolve(a, g)
    PROVE  /\ UNCHANGED <<policy, pc, cause, steps, repairs, trace, plan, group, taint, effects,
                          seen, sideEffects, untrusted, kept, reason>>
           /\ \/ UNCHANGED <<st, starts, phase>>
              \/ /\ a.call \in group /\ st[a.call] = "asking" /\ a.step = steps
                 /\ st' = [st EXCEPT ![a.call] = "refused"] /\ UNCHANGED <<starts, phase>>
              \/ /\ a.call \in group /\ st[a.call] = "asking" /\ a.step = steps
                 /\ st' = [st EXCEPT ![a.call] = "running"]
                 /\ starts' = starts \cup {Start(a.call, "person")}
                 /\ phase' = Moved({a.call})
BY DEF Resolve, factVars, endVars

\* decidePolicy and authorize: what lets a write through when something untrusted
\* has been returned.
LEMMA AuthorizedWrite ==
    ASSUME NEW t \in Mutating, policy \in Policies, taint = TRUE, Decide(t) = "allow"
    PROVE  policy.onMutate = "allow" \/ policy.rule[t] = "allow"
<1>1. policy.rule[t] \in {"deny", "allow", "none"} /\ t \in Tools
  BY LoopConstants DEF Policy
<1>2. Authorize(t, TRUE) = "allow"
  BY DEF Decide
<1>3. QED
  BY <1>1, <1>2 DEF Authorize, Ruled

LEMMA BegunRunning ==
    ASSUME NEW i, Begun(i) = "running"
    PROVE  Decide(plan[i].tool) = "allow"
BY DEF Begun

\* Every step keeps the groups.
LEMMA GroupStep ==
    ASSUME Planning, GroupInv, [Next]_vars
    PROVE  GroupInv'
<1>1. CASE BeginStep
  <2>1. UNCHANGED <<plan, group, st>> /\ (pc' \in {"top", "model"} => pc \in {"top", "model"} \/ group = {})
        /\ (group # {} => UNCHANGED <<starts, steps>>)
    BY <1>1 DEF BeginStep, Finish, execVars, doneVars, StepOver, Returns, Calling, GroupInv
  <2>2. QED
    BY <2>1, TaintingSame DEF GroupInv
<1>2. CASE Exhausted
  <2>1. UNCHANGED <<plan, group, st>> /\ (pc' \in {"top", "model"} => pc \in {"top", "model"} \/ group = {})
        /\ (group # {} => UNCHANGED <<starts, steps>>)
    BY <1>2 DEF Exhausted, Finish, execVars, doneVars, StepOver, Returns, Calling, GroupInv
  <2>2. QED
    BY <2>1, TaintingSame DEF GroupInv
<1>3. CASE ModelThrows
  <2>1. UNCHANGED <<plan, group, st>> /\ (pc' \in {"top", "model"} => pc \in {"top", "model"} \/ group = {})
        /\ (group # {} => UNCHANGED <<starts, steps>>)
    BY <1>3 DEF ModelThrows, Finish, execVars, doneVars, StepOver, Returns, Calling, GroupInv
  <2>2. QED
    BY <2>1, TaintingSame DEF GroupInv
<1>4. ASSUME NEW r \in Replies, ModelAborted(r)
      PROVE  GroupInv'
  <2>1. UNCHANGED <<plan, group, st>> /\ (pc' \in {"top", "model"} => pc \in {"top", "model"} \/ group = {})
        /\ (group # {} => UNCHANGED <<starts, steps>>)
    BY <1>4 DEF ModelAborted, Finish, execVars, doneVars, StepOver, Returns, Calling, GroupInv
  <2>2. QED
    BY <2>1, TaintingSame DEF GroupInv
<1>5. ASSUME NEW r \in Replies, EndsOnReply(r)
      PROVE  GroupInv'
  <2>1. UNCHANGED <<plan, group, st>> /\ (pc' \in {"top", "model"} => pc \in {"top", "model"} \/ group = {})
        /\ (group # {} => UNCHANGED <<starts, steps>>)
    BY <1>5 DEF EndsOnReply, Finish, execVars, doneVars, StepOver, Returns, Calling, GroupInv
  <2>2. QED
    BY <2>1, TaintingSame DEF GroupInv
<1>6. ASSUME NEW r \in Replies, Answers(r)
      PROVE  GroupInv'
  <2>1. UNCHANGED <<plan, group, st>> /\ (pc' \in {"top", "model"} => pc \in {"top", "model"} \/ group = {})
        /\ (group # {} => UNCHANGED <<starts, steps>>)
    BY <1>6 DEF Answers, Finish, execVars, doneVars, StepOver, Returns, Calling, GroupInv
  <2>2. QED
    BY <2>1, TaintingSame DEF GroupInv
<1>7. ASSUME NEW r \in Replies, Nudge(r)
      PROVE  GroupInv'
  <2>1. UNCHANGED <<plan, group, st>> /\ (pc' \in {"top", "model"} => pc \in {"top", "model"} \/ group = {})
        /\ (group # {} => UNCHANGED <<starts, steps>>)
    BY <1>7 DEF Nudge, Finish, execVars, doneVars, StepOver, Returns, Calling, GroupInv
  <2>2. QED
    BY <2>1, TaintingSame DEF GroupInv
<1>8. ASSUME NEW r \in Replies, NoProgress(r)
      PROVE  GroupInv'
  <2>1. UNCHANGED <<plan, group, st>> /\ (pc' \in {"top", "model"} => pc \in {"top", "model"} \/ group = {})
        /\ (group # {} => UNCHANGED <<starts, steps>>)
    BY <1>8 DEF NoProgress, Finish, execVars, doneVars, StepOver, Returns, Calling, GroupInv
  <2>2. QED
    BY <2>1, TaintingSame DEF GroupInv
<1>9. ASSUME NEW r \in Replies, Repair(r)
      PROVE  GroupInv'
  <2>1. UNCHANGED <<plan, group, st>> /\ (pc' \in {"top", "model"} => pc \in {"top", "model"} \/ group = {})
        /\ (group # {} => UNCHANGED <<starts, steps>>)
    BY <1>9 DEF Repair, Finish, execVars, doneVars, StepOver, Returns, Calling, GroupInv
  <2>2. QED
    BY <2>1, TaintingSame DEF GroupInv
<1>10. ASSUME NEW r \in Replies, RepairFails(r)
      PROVE  GroupInv'
  <2>1. UNCHANGED <<plan, group, st>> /\ (pc' \in {"top", "model"} => pc \in {"top", "model"} \/ group = {})
        /\ (group # {} => UNCHANGED <<starts, steps>>)
    BY <1>10 DEF RepairFails, Finish, execVars, doneVars, StepOver, Returns, Calling, GroupInv
  <2>2. QED
    BY <2>1, TaintingSame DEF GroupInv
<1>11. ASSUME NEW r \in Replies, Execute(r)
      PROVE  GroupInv'
  <2>1. group' = {}
    BY <1>11 DEF Execute
  <2>2. QED
    BY <2>1 DEF GroupInv
<1>12. CASE StartGroup
  <2>1. plan \in Seq(Calls)
    BY DEF Planning
  <2>2. \A j \in group' : plan'[j].tool \in Mutating => group' = {j}
    BY <1>12, <2>1, GroupStarts, GroupShape
  <2>3. ASSUME NEW j \in group', st'[j] = "running"
        PROVE  Ran(j)'
    <3>1. j \in DOMAIN plan /\ Begun(j) = "running"
      BY <1>12, <2>1, <2>3, GroupStarts, GroupShape
    <3>2. Start(j, "policy") \in starts' /\ UNCHANGED steps
      BY <1>12, <3>1, GroupStarts
    <3>3. QED
      BY <3>2 DEF Ran, Start
  <2>4. QED
    BY <1>12, <2>2, <2>3, GroupStarts DEF GroupInv
<1>13. CASE GroupDone
  <2>1. group' = {}
    BY <1>13 DEF GroupDone
  <2>2. QED
    BY <2>1 DEF GroupInv
<1>14. CASE StepDone
  <2>1. UNCHANGED <<plan, group, st>> /\ (pc' \in {"top", "model"} => pc \in {"top", "model"} \/ group = {})
        /\ (group # {} => UNCHANGED <<starts, steps>>)
    BY <1>14 DEF StepDone, Finish, execVars, doneVars, StepOver, Returns, Calling, GroupInv
  <2>2. QED
    BY <2>1, TaintingSame DEF GroupInv
<1>15. CASE StepThrows
  <2>1. UNCHANGED <<plan, group, st>> /\ (pc' \in {"top", "model"} => pc \in {"top", "model"} \/ group = {})
        /\ (group # {} => UNCHANGED <<starts, steps>>)
    BY <1>15 DEF StepThrows, Finish, execVars, doneVars, StepOver, Returns, Calling, GroupInv
  <2>2. QED
    BY <2>1, TaintingSame DEF GroupInv
<1>16. ASSUME NEW a \in approvals, NEW g \in BOOLEAN, Resolve(a, g)
      PROVE  GroupInv'
  <2>1. UNCHANGED <<pc, plan, group, steps>> /\ starts \subseteq starts'
    BY <1>16, Resolves
  <2>2. ASSUME NEW j \in group, st'[j] = "running", st[j] # "running"
        PROVE  Ran(j)'
    <3>1. j = a.call /\ Start(a.call, "person") \in starts'
      BY <1>16, <2>2, Resolves DEF Planning
    <3>2. QED
      BY <2>1, <3>1 DEF Ran, Start
  <2>3. \A j \in group : st'[j] = "running" => Ran(j)'
    BY <2>1, <2>2, TaintingGrows DEF GroupInv
  <2>4. QED
    BY <2>1, <2>3 DEF GroupInv
<1>17. ASSUME NEW i \in group, NEW o \in {"ok", "failed", "unavailable"}, HandlerReturns(i, o)
      PROVE  GroupInv'
  <2>1. UNCHANGED <<pc, plan, group, steps, starts>>
    BY <1>17 DEF HandlerReturns, doneVars
  <2>2. \A j \in group : st'[j] = "running" => st[j] = "running"
    BY <1>17 DEF HandlerReturns, Planning
  <2>3. QED
    BY <2>1, <2>2, TaintingSame DEF GroupInv
<1>18. ASSUME NEW i \in group, CallTimeout(i)
      PROVE  GroupInv'
  <2>1. UNCHANGED <<pc, plan, group, steps, starts>>
    BY <1>18 DEF CallTimeout, doneVars
  <2>2. \A j \in group : st'[j] = "running" => st[j] = "running"
    BY <1>18 DEF CallTimeout, Planning
  <2>3. QED
    BY <2>1, <2>2, TaintingSame DEF GroupInv
<1>19. ASSUME NEW i \in group, Deferred(i)
      PROVE  GroupInv'
  <2>1. UNCHANGED <<pc, plan, group, steps, starts>>
    BY <1>19 DEF Deferred, doneVars
  <2>2. \A j \in group : st'[j] = "running" => st[j] = "running"
    BY <1>19 DEF Deferred, Planning
  <2>3. QED
    BY <2>1, <2>2, TaintingSame DEF GroupInv
<1>20. ASSUME NEW i \in group, DeferThrows(i)
      PROVE  GroupInv'
  <2>1. UNCHANGED <<plan, group, st>> /\ (pc' \in {"top", "model"} => pc \in {"top", "model"} \/ group = {})
        /\ (group # {} => UNCHANGED <<starts, steps>>)
    BY <1>20 DEF DeferThrows, Finish, execVars, doneVars, StepOver, Returns, Calling, GroupInv
  <2>2. QED
    BY <2>1, TaintingSame DEF GroupInv
<1>21. ASSUME NEW why \in {"stopped", "timeout"}, Abort(why)
      PROVE  GroupInv'
  <2>1. UNCHANGED <<pc, plan, group, steps, starts>>
    BY <1>21 DEF Abort, doneVars
  <2>2. \A j \in group : st'[j] = "running" => st[j] = "running"
    BY <1>21 DEF Abort, Planning
  <2>3. QED
    BY <2>1, <2>2, TaintingSame DEF GroupInv
<1>22. CASE UNCHANGED vars
  BY <1>22 DEF vars, execVars, doneVars, GroupInv, Ran
<1>23. QED
  BY <1>1, <1>2, <1>3, <1>4, <1>5, <1>6, <1>7, <1>8, <1>9, <1>10, <1>11, <1>12, <1>13,
     <1>14, <1>15, <1>16, <1>17, <1>18, <1>19, <1>20, <1>21, <1>22
  DEF Next, Replied

\* Every step keeps the taint ahead of what was returned.
LEMMA SeenStep ==
    ASSUME Planning, GroupInv, SeenInv, [Next]_vars
    PROVE  SeenInv'
<1>1. CASE BeginStep
  <2>1. /\ pc' \in {"top", "model", "ended"} /\ UNCHANGED <<seen, untrusted>>
        /\ pc' \in {"top", "model"} => pc \in {"top", "model"}
    BY <1>1 DEF BeginStep, Finish, factVars, doneVars, Returns, Calling
  <2>2. QED
    BY <2>1 DEF SeenInv
<1>2. CASE Exhausted
  <2>1. /\ pc' \in {"top", "model", "ended"} /\ UNCHANGED <<seen, untrusted>>
        /\ pc' \in {"top", "model"} => pc \in {"top", "model"}
    BY <1>2 DEF Exhausted, Finish, factVars, doneVars, Returns, Calling
  <2>2. QED
    BY <2>1 DEF SeenInv
<1>3. CASE ModelThrows
  <2>1. /\ pc' \in {"top", "model", "ended"} /\ UNCHANGED <<seen, untrusted>>
        /\ pc' \in {"top", "model"} => pc \in {"top", "model"}
    BY <1>3 DEF ModelThrows, Finish, factVars, doneVars, Returns, Calling
  <2>2. QED
    BY <2>1 DEF SeenInv
<1>4. ASSUME NEW r \in Replies, ModelAborted(r)
      PROVE  SeenInv'
  <2>1. /\ pc' \in {"top", "model", "ended"} /\ UNCHANGED <<seen, untrusted>>
        /\ pc' \in {"top", "model"} => pc \in {"top", "model"}
    BY <1>4 DEF ModelAborted, Finish, factVars, doneVars, Returns, Calling
  <2>2. QED
    BY <2>1 DEF SeenInv
<1>5. ASSUME NEW r \in Replies, EndsOnReply(r)
      PROVE  SeenInv'
  <2>1. /\ pc' \in {"top", "model", "ended"} /\ UNCHANGED <<seen, untrusted>>
        /\ pc' \in {"top", "model"} => pc \in {"top", "model"}
    BY <1>5 DEF EndsOnReply, Finish, factVars, doneVars, Returns, Calling
  <2>2. QED
    BY <2>1 DEF SeenInv
<1>6. ASSUME NEW r \in Replies, Answers(r)
      PROVE  SeenInv'
  <2>1. /\ pc' \in {"top", "model", "ended"} /\ UNCHANGED <<seen, untrusted>>
        /\ pc' \in {"top", "model"} => pc \in {"top", "model"}
    BY <1>6 DEF Answers, Finish, factVars, doneVars, Returns, Calling
  <2>2. QED
    BY <2>1 DEF SeenInv
<1>7. ASSUME NEW r \in Replies, Nudge(r)
      PROVE  SeenInv'
  <2>1. /\ pc' \in {"top", "model", "ended"} /\ UNCHANGED <<seen, untrusted>>
        /\ pc' \in {"top", "model"} => pc \in {"top", "model"}
    BY <1>7 DEF Nudge, Finish, factVars, doneVars, Returns, Calling
  <2>2. QED
    BY <2>1 DEF SeenInv
<1>8. ASSUME NEW r \in Replies, NoProgress(r)
      PROVE  SeenInv'
  <2>1. /\ pc' \in {"top", "model", "ended"} /\ UNCHANGED <<seen, untrusted>>
        /\ pc' \in {"top", "model"} => pc \in {"top", "model"}
    BY <1>8 DEF NoProgress, Finish, factVars, doneVars, Returns, Calling
  <2>2. QED
    BY <2>1 DEF SeenInv
<1>9. ASSUME NEW r \in Replies, Repair(r)
      PROVE  SeenInv'
  <2>1. /\ pc' \in {"top", "model", "ended"} /\ UNCHANGED <<seen, untrusted>>
        /\ pc' \in {"top", "model"} => pc \in {"top", "model"}
    BY <1>9 DEF Repair, Finish, factVars, doneVars, Returns, Calling
  <2>2. QED
    BY <2>1 DEF SeenInv
<1>10. ASSUME NEW r \in Replies, RepairFails(r)
      PROVE  SeenInv'
  <2>1. /\ pc' \in {"top", "model", "ended"} /\ UNCHANGED <<seen, untrusted>>
        /\ pc' \in {"top", "model"} => pc \in {"top", "model"}
    BY <1>10 DEF RepairFails, Finish, factVars, doneVars, Returns, Calling
  <2>2. QED
    BY <2>1 DEF SeenInv
<1>11. ASSUME NEW r \in Replies, Execute(r)
      PROVE  SeenInv'
  <2>1. pc = "model" /\ pc' = "exec" /\ taint' = untrusted /\ UNCHANGED <<seen, untrusted>>
    BY <1>11 DEF Execute, Calling, Returns, factVars, doneVars
  <2>2. QED
    BY <2>1 DEF SeenInv
<1>12. CASE StartGroup
  <2>1. /\ pc = "exec" /\ pc' = "exec" /\ group = {} /\ starts \subseteq starts'
        /\ UNCHANGED <<seen, untrusted, taint, plan, steps>>
    BY <1>12, GroupStarts
  <2>2. Tainting \subseteq Tainting'
    BY <2>1, TaintingGrows
  <2>3. QED
    BY <2>1, <2>2 DEF SeenInv
<1>13. CASE GroupDone
  <2>1. /\ pc = "exec" /\ pc' = "exec" /\ group' = {}
        /\ UNCHANGED <<seen, untrusted, plan, steps, starts>>
        /\ taint' = (taint \/ Tainting \cap group # {})
    BY <1>13 DEF GroupDone, doneVars, factVars
  <2>2. Tainting' = Tainting
    BY <2>1, TaintingSame
  <2>3. QED
    BY <2>1, <2>2 DEF SeenInv
<1>14. CASE StepDone
  <2>1. /\ pc = "exec" /\ pc' = "top" /\ group = {} /\ UNCHANGED seen
        /\ untrusted' = (untrusted \/ Tainting # {})
    BY <1>14 DEF StepDone, StepOver, doneVars
  <2>2. QED
    BY <2>1 DEF SeenInv
<1>15. CASE StepThrows
  <2>1. /\ pc' \in {"top", "model", "ended"} /\ UNCHANGED <<seen, untrusted>>
        /\ pc' \in {"top", "model"} => pc \in {"top", "model"}
    BY <1>15 DEF StepThrows, Finish, factVars, doneVars, Returns, Calling
  <2>2. QED
    BY <2>1 DEF SeenInv
<1>16. ASSUME NEW a \in approvals, NEW g \in BOOLEAN, Resolve(a, g)
      PROVE  SeenInv'
  <2>1. /\ starts \subseteq starts'
        /\ UNCHANGED <<pc, group, seen, untrusted, taint, plan, steps>>
    BY <1>16, Resolves
  <2>2. Tainting \subseteq Tainting'
    BY <2>1, TaintingGrows
  <2>3. QED
    BY <2>1, <2>2 DEF SeenInv
<1>17. ASSUME NEW i \in group, NEW o \in {"ok", "failed", "unavailable"}, HandlerReturns(i, o)
      PROVE  SeenInv'
  <2>1. /\ UNCHANGED <<pc, group, untrusted, taint, plan, steps, starts>> /\ pc = "exec"
        /\ seen' = (seen \/ plan[i].tool \in Untrusted) /\ st[i] = "running"
    BY <1>17 DEF HandlerReturns, factVars
  <2>2. Tainting' = Tainting
    BY <2>1, TaintingSame
  <2>3. plan[i].tool \in Untrusted => i \in Tainting
    BY <2>1 DEF Tainting, GroupInv, Planning
  <2>4. QED
    BY <2>1, <2>2, <2>3 DEF SeenInv
<1>18. ASSUME NEW i \in group, CallTimeout(i)
      PROVE  SeenInv'
  <2>1. /\ UNCHANGED <<pc, group, untrusted, taint, plan, steps, starts>> /\ pc = "exec"
        /\ seen' = (seen \/ plan[i].tool \in Untrusted) /\ st[i] = "running"
    BY <1>18 DEF CallTimeout, factVars
  <2>2. Tainting' = Tainting
    BY <2>1, TaintingSame
  <2>3. plan[i].tool \in Untrusted => i \in Tainting
    BY <2>1 DEF Tainting, GroupInv, Planning
  <2>4. QED
    BY <2>1, <2>2, <2>3 DEF SeenInv
<1>19. ASSUME NEW i \in group, Deferred(i)
      PROVE  SeenInv'
  <2>1. UNCHANGED <<pc, group, seen, untrusted, taint, plan, steps, starts>>
    BY <1>19 DEF Deferred, factVars, doneVars
  <2>2. Tainting' = Tainting
    BY <2>1, TaintingSame
  <2>3. QED
    BY <2>1, <2>2 DEF SeenInv
<1>20. ASSUME NEW i \in group, DeferThrows(i)
      PROVE  SeenInv'
  <2>1. /\ pc' \in {"top", "model", "ended"} /\ UNCHANGED <<seen, untrusted>>
        /\ pc' \in {"top", "model"} => pc \in {"top", "model"}
    BY <1>20 DEF DeferThrows, Finish, factVars, doneVars, Returns, Calling
  <2>2. QED
    BY <2>1 DEF SeenInv
<1>21. ASSUME NEW why \in {"stopped", "timeout"}, Abort(why)
      PROVE  SeenInv'
  <2>1. /\ UNCHANGED <<pc, group, untrusted, taint, plan, steps, starts>>
        /\ seen' = (seen \/ \E i \in group : st[i] = "running" /\ plan[i].tool \in Untrusted)
    BY <1>21 DEF Abort, factVars
  <2>2. Tainting' = Tainting
    BY <2>1, TaintingSame
  <2>3. ASSUME NEW i \in group, st[i] = "running", plan[i].tool \in Untrusted
        PROVE  i \in Tainting
    BY <2>3 DEF Tainting, GroupInv, Planning
  <2>4. pc \in {"top", "model"} => group = {}
    BY DEF GroupInv
  <2>5. QED
    BY <2>1, <2>2, <2>3, <2>4 DEF SeenInv
<1>22. CASE UNCHANGED vars
  BY <1>22 DEF vars, factVars, execVars, doneVars, SeenInv, Tainting, Ran
<1>23. QED
  BY <1>1, <1>2, <1>3, <1>4, <1>5, <1>6, <1>7, <1>8, <1>9, <1>10, <1>11, <1>12, <1>13,
     <1>14, <1>15, <1>16, <1>17, <1>18, <1>19, <1>20, <1>21, <1>22
  DEF Next, Replied

\* Every step starts a tainted write on a rule or an approval only.
LEMMA AuthorisedStep ==
    ASSUME Control, Flags, Planning, SeenInv, TaintedWriteAuthorised, [Next]_vars
    PROVE  TaintedWriteAuthorised'
<1>1. CASE BeginStep
  <2>1. UNCHANGED <<policy, starts>>
    BY <1>1 DEF BeginStep, Finish, doneVars
  <2>2. QED
    BY <2>1 DEF TaintedWriteAuthorised
<1>2. CASE Exhausted
  <2>1. UNCHANGED <<policy, starts>>
    BY <1>2 DEF Exhausted, Finish, doneVars
  <2>2. QED
    BY <2>1 DEF TaintedWriteAuthorised
<1>3. CASE ModelThrows
  <2>1. UNCHANGED <<policy, starts>>
    BY <1>3 DEF ModelThrows, Finish, doneVars
  <2>2. QED
    BY <2>1 DEF TaintedWriteAuthorised
<1>4. ASSUME NEW r \in Replies, ModelAborted(r)
      PROVE  TaintedWriteAuthorised'
  <2>1. UNCHANGED <<policy, starts>>
    BY <1>4 DEF ModelAborted, Finish, doneVars
  <2>2. QED
    BY <2>1 DEF TaintedWriteAuthorised
<1>5. ASSUME NEW r \in Replies, EndsOnReply(r)
      PROVE  TaintedWriteAuthorised'
  <2>1. UNCHANGED <<policy, starts>>
    BY <1>5 DEF EndsOnReply, Finish, doneVars
  <2>2. QED
    BY <2>1 DEF TaintedWriteAuthorised
<1>6. ASSUME NEW r \in Replies, Answers(r)
      PROVE  TaintedWriteAuthorised'
  <2>1. UNCHANGED <<policy, starts>>
    BY <1>6 DEF Answers, Finish, doneVars
  <2>2. QED
    BY <2>1 DEF TaintedWriteAuthorised
<1>7. ASSUME NEW r \in Replies, Nudge(r)
      PROVE  TaintedWriteAuthorised'
  <2>1. UNCHANGED <<policy, starts>>
    BY <1>7 DEF Nudge, Finish, doneVars
  <2>2. QED
    BY <2>1 DEF TaintedWriteAuthorised
<1>8. ASSUME NEW r \in Replies, NoProgress(r)
      PROVE  TaintedWriteAuthorised'
  <2>1. UNCHANGED <<policy, starts>>
    BY <1>8 DEF NoProgress, Finish, doneVars
  <2>2. QED
    BY <2>1 DEF TaintedWriteAuthorised
<1>9. ASSUME NEW r \in Replies, Repair(r)
      PROVE  TaintedWriteAuthorised'
  <2>1. UNCHANGED <<policy, starts>>
    BY <1>9 DEF Repair, Finish, doneVars
  <2>2. QED
    BY <2>1 DEF TaintedWriteAuthorised
<1>10. ASSUME NEW r \in Replies, RepairFails(r)
      PROVE  TaintedWriteAuthorised'
  <2>1. UNCHANGED <<policy, starts>>
    BY <1>10 DEF RepairFails, Finish, doneVars
  <2>2. QED
    BY <2>1 DEF TaintedWriteAuthorised
<1>11. ASSUME NEW r \in Replies, Execute(r)
      PROVE  TaintedWriteAuthorised'
  <2>1. UNCHANGED <<policy, starts>>
    BY <1>11 DEF Execute, Finish, doneVars
  <2>2. QED
    BY <2>1 DEF TaintedWriteAuthorised
<1>12. CASE StartGroup
  <2>1. ASSUME NEW s \in starts', s \notin starts, s.tool \in Mutating, s.seen
        PROVE  policy.onMutate = "allow" \/ policy.rule[s.tool] = "allow"
    <3>1. PICK i \in group' : s = Start(i, "policy") /\ Begun(i) = "running"
      BY <1>12, <2>1, GroupStarts
    <3>2. s.tool = plan[i].tool /\ s.seen = seen
      BY <3>1 DEF Start
    <3>3. seen /\ group = {} /\ pc = "exec"
      BY <1>12, <2>1, <3>2, GroupStarts
    <3>4. taint = TRUE
      BY <3>3 DEF SeenInv, Flags
    <3>5. QED
      BY <2>1, <3>1, <3>2, <3>4, BegunRunning, AuthorizedWrite DEF Control
  <2>2. UNCHANGED policy
    BY <1>12, GroupStarts
  <2>3. QED
    BY <2>1, <2>2 DEF TaintedWriteAuthorised
<1>13. CASE GroupDone
  <2>1. UNCHANGED <<policy, starts>>
    BY <1>13 DEF GroupDone, Finish, doneVars
  <2>2. QED
    BY <2>1 DEF TaintedWriteAuthorised
<1>14. CASE StepDone
  <2>1. UNCHANGED <<policy, starts>>
    BY <1>14 DEF StepDone, Finish, doneVars
  <2>2. QED
    BY <2>1 DEF TaintedWriteAuthorised
<1>15. CASE StepThrows
  <2>1. UNCHANGED <<policy, starts>>
    BY <1>15 DEF StepThrows, Finish, doneVars
  <2>2. QED
    BY <2>1 DEF TaintedWriteAuthorised
<1>16. ASSUME NEW a \in approvals, NEW g \in BOOLEAN, Resolve(a, g)
      PROVE  TaintedWriteAuthorised'
  <2>1. UNCHANGED policy /\ \A s \in starts' : s \in starts \/ s = Start(a.call, "person")
    BY <1>16, Resolves
  <2>2. QED
    BY <2>1 DEF TaintedWriteAuthorised, Start
<1>17. ASSUME NEW i \in group, NEW o \in {"ok", "failed", "unavailable"}, HandlerReturns(i, o)
      PROVE  TaintedWriteAuthorised'
  <2>1. UNCHANGED <<policy, starts>>
    BY <1>17 DEF HandlerReturns, Finish, doneVars
  <2>2. QED
    BY <2>1 DEF TaintedWriteAuthorised
<1>18. ASSUME NEW i \in group, CallTimeout(i)
      PROVE  TaintedWriteAuthorised'
  <2>1. UNCHANGED <<policy, starts>>
    BY <1>18 DEF CallTimeout, Finish, doneVars
  <2>2. QED
    BY <2>1 DEF TaintedWriteAuthorised
<1>19. ASSUME NEW i \in group, Deferred(i)
      PROVE  TaintedWriteAuthorised'
  <2>1. UNCHANGED <<policy, starts>>
    BY <1>19 DEF Deferred, Finish, doneVars
  <2>2. QED
    BY <2>1 DEF TaintedWriteAuthorised
<1>20. ASSUME NEW i \in group, DeferThrows(i)
      PROVE  TaintedWriteAuthorised'
  <2>1. UNCHANGED <<policy, starts>>
    BY <1>20 DEF DeferThrows, Finish, doneVars
  <2>2. QED
    BY <2>1 DEF TaintedWriteAuthorised
<1>21. ASSUME NEW why \in {"stopped", "timeout"}, Abort(why)
      PROVE  TaintedWriteAuthorised'
  <2>1. UNCHANGED <<policy, starts>>
    BY <1>21 DEF Abort, Finish, doneVars
  <2>2. QED
    BY <2>1 DEF TaintedWriteAuthorised
<1>22. CASE UNCHANGED vars
  BY <1>22 DEF vars, guardVars, replyVars, factVars, endVars, execVars, doneVars, TaintedWriteAuthorised
<1>23. QED
  BY <1>1, <1>2, <1>3, <1>4, <1>5, <1>6, <1>7, <1>8, <1>9, <1>10, <1>11, <1>12, <1>13,
     <1>14, <1>15, <1>16, <1>17, <1>18, <1>19, <1>20, <1>21, <1>22
  DEF Next, Replied

\* The write gate, for every catalogue, policy and sequence of replies: after anything
\* untrusted was returned in the turn a write is started only on a rule, an approval
\* or onMutate allow, and while it runs nothing else of the turn does.  The taint a
\* decision reads lags behind what was returned (it is joined when a group is done),
\* and SeenInv says by how much: never past the next decision.
THEOREM WritesAreGated == Spec => []WriteGate
<1> DEFINE Inv == GroupInv /\ SeenInv /\ TaintedWriteAuthorised
<1>1. Init => Inv
  BY DEF Init, GroupInv, SeenInv, TaintedWriteAuthorised
<1>2. Typed /\ Inv /\ [Next]_vars => Inv'
  BY GroupStep, SeenStep, AuthorisedStep DEF Typed
<1>3. Inv => WriteGate
  BY DEF GroupInv, WriteGate, WriteRunsAlone
<1>4. QED
  BY <1>1, <1>2, <1>3, TypedAlways, PTL DEF Spec

-----------------------------------------------------------------------------
(* The trace *)

LEMMA AppendsOne ==
    ASSUME trace \in Seq(Entries), NEW e \in Entries
    PROVE  /\ Append(trace, e) \in Seq(Entries) /\ Len(Append(trace, e)) = Len(trace) + 1
           /\ \A i \in 1..Len(trace) : Append(trace, e)[i] = trace[i]
           /\ Append(trace, e)[Len(trace) + 1] = e
OBVIOUS

LEMMA AppendsTwo ==
    ASSUME trace \in Seq(Entries), NEW e \in Entries, NEW f \in Entries
    PROVE  /\ Append(Append(trace, e), f) \in Seq(Entries)
           /\ Len(Append(Append(trace, e), f)) = Len(trace) + 2
           /\ \A i \in 1..Len(trace) : Append(Append(trace, e), f)[i] = trace[i]
           /\ Append(Append(trace, e), f)[Len(trace) + 1] = e
           /\ Append(Append(trace, e), f)[Len(trace) + 2] = f
<1> DEFINE u == Append(trace, e)
<1>1. /\ u \in Seq(Entries) /\ Len(u) = Len(trace) + 1 /\ u[Len(trace) + 1] = e
      /\ \A i \in 1..Len(trace) : u[i] = trace[i]
  BY AppendsOne
<1> HIDE DEF u
<1>2. /\ Append(u, f) \in Seq(Entries) /\ Len(Append(u, f)) = Len(u) + 1
      /\ \A i \in 1..Len(u) : Append(u, f)[i] = u[i]
      /\ Append(u, f)[Len(u) + 1] = f
  BY <1>1
<1>3. Len(trace) \in Nat
  OBVIOUS
<1>4. QED
  BY <1>1, <1>2, <1>3 DEF u

\* The entries a step adds to the trace.
New == Len(trace) + 1 .. Len(trace')

\* An entry that says nothing of its step may run.
Idle(e) ==
    \/ e.kind = "repair"
    \/ e.kind = "call" /\ \E j \in DOMAIN e.sig : Uncoercible(e.sig[j])

\* What a step may do to the trace: entries are added, of the step the turn is in,
\* when a reply is handled or a step is done.
Grows ==
    /\ trace' \in Seq(Entries) /\ Len(trace) <= Len(trace')
    /\ \A i \in 1..Len(trace) : trace'[i] = trace[i]
    /\ \A i \in New : trace'[i].step = steps
    /\ New # {} => steps' = steps /\ pc \in {"model", "exec"} /\ pc' # "model"

\* A repair is added after its call, when there is none to follow up.
Repairs ==
    /\ \A i \in New : trace'[i].kind = "repair" => i = Len(trace) + 2 /\ repairs = 0
    /\ New = {} => repairs' = repairs
    /\ New # {} /\ trace'[Len(trace')].kind = "repair" => repairs' = 1

\* A call is added with its repair, to be executed, or to end the turn.
Announces ==
    /\ \A i \in New : trace'[i].kind = "call" =>
          IF i < Len(trace') THEN trace'[i + 1].kind = "repair"
          ELSE pc' = "exec" \/ (pc' = "ended" /\ reason' = "error")
    /\ pc = "exec" /\ New # {} => \A i \in New : trace'[i].kind = "answer"
    /\ pc = "exec" /\ New = {} =>
          pc' = "exec" \/ (pc' = "ended" /\ reason' \in {"error", "stopped", "timeout"})
    /\ pc = "ended" => pc' = "ended" /\ reason' = reason

\* A step that goes on executing, and one that begins to.
Executes ==
    (pc' = "exec" \/ group' # {}) =>
        \/ (pc = "exec" \/ group # {}) /\ UNCHANGED <<trace, steps>>
        \/ pc = "model" /\ UNCHANGED steps /\ \A i \in New : ~Idle(trace'[i])

\* A handler is called in the step the turn is in, while it executes.
Runs ==
    /\ starts \subseteq starts'
    /\ \A s \in starts' : s \notin starts =>
          s.step = steps /\ UNCHANGED <<steps, trace>> /\ (pc = "exec" \/ group # {})
    /\ steps' = steps \/ (steps' = steps + 1 /\ pc = "top" /\ UNCHANGED starts)
    /\ pc' = "model" => pc = "model" \/ steps' = steps + 1

Moving == Grows /\ Repairs /\ Announces /\ Executes /\ Runs

\* A step that leaves the trace and what has run.
LEMMA MovesNothing ==
    ASSUME trace \in Seq(Entries), UNCHANGED <<trace, starts, repairs>>,
           pc = "exec" => pc' = "exec" \/ (pc' = "ended" /\ reason' \in {"error", "stopped", "timeout"}),
           pc = "ended" => pc' = "ended" /\ reason' = reason,
           pc' = "exec" => pc = "exec", group' # {} => group # {},
           steps' = steps \/ (steps' = steps + 1 /\ pc = "top" /\ pc' = "model" /\ group = {}),
           pc' = "model" => pc = "model" \/ steps' = steps + 1
    PROVE  Moving
<1>1. New = {} /\ Len(trace') = Len(trace)
  BY DEF New
<1>2. Grows /\ Repairs
  BY <1>1 DEF Grows, Repairs
<1>3. Announces
  BY <1>1 DEF Announces
<1>4. Executes /\ Runs
  BY <1>1 DEF Executes, Runs
<1>5. QED
  BY <1>2, <1>3, <1>4 DEF Moving

\* A step that adds one entry.
LEMMA MovesOne ==
    ASSUME trace \in Seq(Entries), NEW e \in Entries, trace' = Append(trace, e),
           e.step = steps, e.kind # "repair", UNCHANGED <<steps, starts>>,
           pc \in {"model", "exec"}, pc' # "model", group' = {},
           e.kind = "call" => pc' = "exec" \/ (pc' = "ended" /\ reason' = "error"),
           pc = "exec" => e.kind = "answer",
           pc' = "exec" => pc = "model" /\ ~Idle(e)
    PROVE  Moving
<1>1. /\ trace' \in Seq(Entries) /\ Len(trace') = Len(trace) + 1
      /\ \A i \in 1..Len(trace) : trace'[i] = trace[i]
      /\ trace'[Len(trace) + 1] = e
  BY AppendsOne
<1>2. New = {Len(trace) + 1} /\ Len(trace) \in Nat
  BY <1>1 DEF New
<1>3. Grows /\ Repairs
  BY <1>1, <1>2 DEF Grows, Repairs
<1>4. Announces
  BY <1>1, <1>2 DEF Announces
<1>5. Executes /\ Runs
  BY <1>1, <1>2 DEF Executes, Runs
<1>6. QED
  BY <1>3, <1>4, <1>5 DEF Moving

\* A reply that is answered at once adds two.
LEMMA MovesTwo ==
    ASSUME trace \in Seq(Entries), NEW e \in Entries, NEW f \in Entries,
           trace' = Append(Append(trace, e), f), e.step = steps, f.step = steps,
           UNCHANGED <<steps, starts>>, pc = "model", pc' = "top", group' = {},
           e.kind \in {"said", "call"}, f.kind \in {"note", "repair"},
           e.kind = "call" => f.kind = "repair",
           f.kind = "repair" => repairs = 0 /\ repairs' = 1
    PROVE  Moving
<1>1. /\ trace' \in Seq(Entries) /\ Len(trace') = Len(trace) + 2
      /\ \A i \in 1..Len(trace) : trace'[i] = trace[i]
      /\ trace'[Len(trace) + 1] = e /\ trace'[Len(trace) + 2] = f
  BY AppendsTwo
<1>2. New = {Len(trace) + 1, Len(trace) + 2} /\ Len(trace) \in Nat
  BY <1>1 DEF New
<1>3. Grows /\ Repairs
  BY <1>1, <1>2 DEF Grows, Repairs
<1>4. Announces
  BY <1>1, <1>2 DEF Announces
<1>5. Executes /\ Runs
  BY <1>1, <1>2 DEF Executes, Runs
<1>6. QED
  BY <1>3, <1>4, <1>5 DEF Moving

\* The entries the loop writes are of the step it is in.
LEMMA EntryShape ==
    ASSUME Control, NEW k \in {"said", "note", "repair", "answer"}
    PROVE  Entry(k) \in Entries /\ Entry(k).kind = k /\ Entry(k).step = steps
<1>1. steps \in Nat
  BY LoopConstants DEF Control
<1>2. QED
  BY <1>1 DEF Entry, Entries

\* A step that ends the turn on a reply, with its text on the trace.
LEMMA MovesWritten ==
    ASSUME Control, trace \in Seq(Entries), NEW r \in Replies, trace' = Written(r),
           UNCHANGED <<steps, starts, repairs>>, pc = "model", pc' = "ended", group' = {}
    PROVE  Moving
<1>1. CASE trace' = trace
  BY <1>1, MovesNothing
<1>2. CASE trace' = Append(trace, Entry("said"))
  BY <1>2, MovesOne, EntryShape
<1>3. QED
  BY <1>1, <1>2 DEF Written

\* The call of a reply.
CallOf(r) == [kind |-> "call", step |-> steps, sig |-> r.intents]

LEMMA CallShape ==
    ASSUME Control, NEW r \in Replies
    PROVE  /\ CallOf(r) \in Entries /\ CallOf(r).kind = "call" /\ CallOf(r).step = steps
           /\ CallOf(r).sig = r.intents /\ Called(r) = Append(trace, CallOf(r))
           /\ ~Broken(r) => ~Idle(CallOf(r))
<1>1. steps \in Nat
  BY LoopConstants DEF Control
<1>2. /\ CallOf(r) \in Entries /\ CallOf(r).kind = "call" /\ CallOf(r).step = steps
      /\ CallOf(r).sig = r.intents
  BY <1>1, ReplyShape DEF CallOf, Entries
<1>3. Called(r) = Append(trace, CallOf(r))
  BY DEF Called, CallOf
<1>4. ASSUME NEW j \in DOMAIN r.intents, Uncoercible(r.intents[j])
      PROVE  Broken(r)
  <2>1. r.intents[j].arg = "bad" /\ r.intents[j].tool \notin Withheld
    BY <1>4 DEF Uncoercible
  <2>2. PICK k \in DOMAIN Planned(r.intents) : Planned(r.intents)[k] = r.intents[j]
    BY <2>1, ReplyShape, PlannedCalls
  <2>3. QED
    BY <2>1, <2>2 DEF Broken, Unusable
<1>5. QED
  BY <1>2, <1>3, <1>4 DEF Idle

\* Every step is such a step.
LEMMA MovingStep ==
    ASSUME Control, Traced, Planning, GroupInv, [Next]_vars
    PROVE  Moving
<1>0. trace \in Seq(Entries)
  BY DEF Traced
<1>1. CASE BeginStep
  <2>1. UNCHANGED <<trace, starts, repairs, group>> /\ steps' = steps + 1
        /\ pc = "top" /\ pc' = "model" /\ group = {}
    BY <1>1 DEF BeginStep, execVars, doneVars, GroupInv
  <2>2. QED
    BY <2>1, <1>0, MovesNothing
<1>2. CASE Exhausted
  <2>1. UNCHANGED <<trace, starts, repairs, group, steps>> /\ pc = "top" /\ pc' = "ended"
    BY <1>2 DEF Exhausted, Finish, execVars, doneVars
  <2>2. QED
    BY <2>1, <1>0, MovesNothing
<1>3. CASE ModelThrows
  <2>1. UNCHANGED <<trace, starts, repairs, group, steps>> /\ pc = "model" /\ pc' = "ended"
    BY <1>3 DEF ModelThrows, Finish, execVars, doneVars
  <2>2. QED
    BY <2>1, <1>0, MovesNothing
<1>4. ASSUME NEW r \in Replies, ModelAborted(r)
      PROVE  Moving
  <2>1. /\ trace' = Written(r) /\ UNCHANGED <<steps, starts, repairs, group>>
        /\ pc = "model" /\ pc' = "ended" /\ group = {}
    BY <1>4 DEF ModelAborted, Finish, Returns, Calling, execVars, doneVars, GroupInv
  <2>2. QED
    BY <2>1, <1>0, MovesWritten
<1>5. ASSUME NEW r \in Replies, EndsOnReply(r)
      PROVE  Moving
  <2>1. /\ trace' = Written(r) /\ UNCHANGED <<steps, starts, repairs, group>>
        /\ pc = "model" /\ pc' = "ended" /\ group = {}
    BY <1>5 DEF EndsOnReply, Finish, Returns, Calling, execVars, doneVars, GroupInv
  <2>2. QED
    BY <2>1, <1>0, MovesWritten
<1>6. ASSUME NEW r \in Replies, Answers(r)
      PROVE  Moving
  <2>1. /\ trace' = Written(r) /\ UNCHANGED <<steps, starts, repairs, group>>
        /\ pc = "model" /\ pc' = "ended" /\ group = {}
    BY <1>6 DEF Answers, Finish, Returns, Calling, execVars, doneVars, GroupInv
  <2>2. QED
    BY <2>1, <1>0, MovesWritten
<1>7. ASSUME NEW r \in Replies, Nudge(r)
      PROVE  Moving
  <2>1. /\ trace' = Append(Written(r), Entry("note")) /\ UNCHANGED <<steps, starts, repairs, group>>
        /\ pc = "model" /\ pc' = "top" /\ group = {}
    BY <1>7 DEF Nudge, Returns, execVars, doneVars, GroupInv
  <2>2. CASE Written(r) = trace
    BY <2>1, <2>2, <1>0, MovesOne, EntryShape
  <2>3. CASE Written(r) = Append(trace, Entry("said"))
    BY <2>1, <2>3, <1>0, MovesTwo, EntryShape
  <2>4. QED
    BY <2>2, <2>3 DEF Written
<1>8. ASSUME NEW r \in Replies, NoProgress(r)
      PROVE  Moving
  <2>1. /\ trace' = Written(r) /\ UNCHANGED <<steps, starts, repairs, group>>
        /\ pc = "model" /\ pc' = "ended" /\ group = {}
    BY <1>8 DEF NoProgress, Finish, Returns, Calling, execVars, doneVars, GroupInv
  <2>2. QED
    BY <2>1, <1>0, MovesWritten
<1>9. ASSUME NEW r \in Replies, Repair(r)
      PROVE  Moving
  <2>1. /\ trace' = Append(Called(r), Entry("repair")) /\ UNCHANGED <<steps, starts, group>>
        /\ pc = "model" /\ pc' = "top" /\ group = {} /\ repairs = 0 /\ repairs' = 1
    BY <1>9 DEF Repair, Calling, Returns, execVars, doneVars, GroupInv
  <2>2. QED
    BY <2>1, <1>0, MovesTwo, EntryShape, CallShape
<1>10. ASSUME NEW r \in Replies, RepairFails(r)
      PROVE  Moving
  <2>1. /\ trace' = Called(r) /\ UNCHANGED <<steps, starts, group>>
        /\ pc = "model" /\ pc' = "ended" /\ group = {} /\ reason' = "error"
    BY <1>10 DEF RepairFails, Finish, Calling, Returns, execVars, doneVars, GroupInv
  <2>2. QED
    BY <2>1, <1>0, MovesOne, CallShape
<1>11. ASSUME NEW r \in Replies, Execute(r)
      PROVE  Moving
  <2>1. /\ trace' = Called(r) /\ UNCHANGED <<steps, starts>>
        /\ pc = "model" /\ pc' = "exec" /\ group' = {} /\ ~Broken(r)
    BY <1>11 DEF Execute, Calling, Returns, doneVars
  <2>2. QED
    BY <2>1, <1>0, MovesOne, CallShape
<1>12. CASE StartGroup
  <2>1. /\ UNCHANGED <<trace, steps, repairs, reason>> /\ pc = "exec" /\ pc' = "exec"
        /\ starts \subseteq starts'
    BY <1>12, GroupStarts
  <2>2. \A s \in starts' : s \notin starts => s.step = steps
    BY <1>12, GroupStarts DEF Start
  <2>3. New = {} /\ Len(trace') = Len(trace)
    BY <2>1 DEF New
  <2>4. Grows /\ Repairs /\ Announces
    BY <1>0, <2>1, <2>3 DEF Grows, Repairs, Announces
  <2>5. Executes /\ Runs
    BY <2>1, <2>2, <2>3 DEF Executes, Runs
  <2>6. QED
    BY <2>4, <2>5 DEF Moving
<1>13. CASE GroupDone
  <2>1. UNCHANGED <<trace, starts, repairs, steps, pc, reason>> /\ pc = "exec" /\ group' = {}
    BY <1>13 DEF GroupDone, endVars, doneVars
  <2>2. QED
    BY <2>1, <1>0, MovesNothing
<1>14. CASE StepDone
  <2>1. /\ trace' = Append(trace, Entry("answer")) /\ UNCHANGED <<steps, starts, group>>
        /\ pc = "exec" /\ pc' = "top" /\ group = {}
    BY <1>14 DEF StepDone, StepOver, execVars, doneVars
  <2>2. QED
    BY <2>1, <1>0, MovesOne, EntryShape
<1>15. CASE StepThrows
  <2>1. UNCHANGED <<trace, starts, repairs, group, steps>>
        /\ pc = "exec" /\ pc' = "ended" /\ reason' \in {"error", "stopped", "timeout"}
    BY <1>15 DEF StepThrows, Finish, StepOver, execVars, doneVars, Control
  <2>2. QED
    BY <2>1, <1>0, MovesNothing
<1>16. ASSUME NEW a \in approvals, NEW g \in BOOLEAN, Resolve(a, g)
      PROVE  Moving
  <2>1. UNCHANGED <<trace, steps, repairs, reason, pc, group>> /\ starts \subseteq starts'
    BY <1>16, Resolves
  <2>2. ASSUME NEW s \in starts', s \notin starts
        PROVE  s.step = steps /\ group # {}
    <3>1. s = Start(a.call, "person") /\ a.call \in group
      BY <1>16, <2>2, Resolves
    <3>2. QED
      BY <3>1 DEF Start
  <2>3. New = {} /\ Len(trace') = Len(trace)
    BY <2>1 DEF New
  <2>4. Grows /\ Repairs /\ Announces
    BY <1>0, <2>1, <2>3 DEF Grows, Repairs, Announces
  <2>5. Executes /\ Runs
    BY <2>1, <2>2, <2>3 DEF Executes, Runs
  <2>6. QED
    BY <2>4, <2>5 DEF Moving
<1>17. ASSUME NEW i \in group, NEW o \in {"ok", "failed", "unavailable"}, HandlerReturns(i, o)
      PROVE  Moving
  <2>1. UNCHANGED <<trace, starts, repairs, group, steps, pc, reason>>
    BY <1>17 DEF HandlerReturns, endVars, doneVars
  <2>2. QED
    BY <2>1, <1>0, MovesNothing
<1>18. ASSUME NEW i \in group, CallTimeout(i)
      PROVE  Moving
  <2>1. UNCHANGED <<trace, starts, repairs, group, steps, pc, reason>>
    BY <1>18 DEF CallTimeout, endVars, doneVars
  <2>2. QED
    BY <2>1, <1>0, MovesNothing
<1>19. ASSUME NEW i \in group, Deferred(i)
      PROVE  Moving
  <2>1. UNCHANGED <<trace, starts, repairs, group, steps, pc, reason>>
    BY <1>19 DEF Deferred, endVars, doneVars
  <2>2. QED
    BY <2>1, <1>0, MovesNothing
<1>20. ASSUME NEW i \in group, DeferThrows(i)
      PROVE  Moving
  <2>1. UNCHANGED <<trace, starts, repairs, group, steps>>
        /\ pc = "exec" /\ pc' = "ended" /\ reason' \in {"error", "stopped", "timeout"}
    BY <1>20 DEF DeferThrows, Finish, StepOver, execVars, doneVars, Control
  <2>2. QED
    BY <2>1, <1>0, MovesNothing
<1>21. ASSUME NEW why \in {"stopped", "timeout"}, Abort(why)
      PROVE  Moving
  <2>1. UNCHANGED <<trace, starts, repairs, group, steps, pc, reason>>
    BY <1>21 DEF Abort, endVars, doneVars
  <2>2. QED
    BY <2>1, <1>0, MovesNothing
<1>22. CASE UNCHANGED vars
  BY <1>22, <1>0, MovesNothing DEF vars, endVars, execVars, doneVars
<1>23. QED
  BY <1>1, <1>2, <1>3, <1>4, <1>5, <1>6, <1>7, <1>8, <1>9, <1>10, <1>11, <1>12, <1>13,
     <1>14, <1>15, <1>16, <1>17, <1>18, <1>19, <1>20, <1>21, <1>22
  DEF Next, Replied

-----------------------------------------------------------------------------
(* Repairs *)

\* Nothing on the trace, and no handler's call, is of a step to come.
PastInv ==
    /\ \A s \in starts : s.step <= steps /\ s.step \in Nat /\ (pc = "model" => s.step < steps)
    /\ \A i \in DOMAIN trace : trace[i].step <= steps /\ (pc = "model" => trace[i].step < steps)

\* No step that executes has an entry that forbids it.
IdleInv ==
    pc = "exec" \/ group # {} => \A i \in DOMAIN trace : Idle(trace[i]) => trace[i].step < steps

\* While the last entry is a repair, a second one is not allowed.
LastRepaired == trace # <<>> /\ trace[Len(trace)].kind = "repair" => repairs = 1

LEMMA TraceSteps ==
    ASSUME Traced, Control
    PROVE  /\ trace \in Seq(Entries) /\ Len(trace) \in Nat /\ DOMAIN trace = 1..Len(trace)
           /\ steps \in Nat /\ \A i \in DOMAIN trace : trace[i].step \in Nat
<1>1. trace \in Seq(Entries) /\ steps \in Nat
  BY LoopConstants DEF Traced, Control
<1>2. Len(trace) \in Nat /\ DOMAIN trace = 1..Len(trace)
  BY <1>1
<1>3. \A i \in DOMAIN trace : trace[i] \in Entries
  BY <1>1
<1>4. \A i \in DOMAIN trace : trace[i].step \in Nat
  BY <1>3 DEF Entries
<1>5. QED
  BY <1>1, <1>2, <1>4

LEMMA NextNumber ==
    ASSUME NEW a \in Nat, NEW b \in Nat, a <= b, b # a
    PROVE  a + 1 \in a + 1 .. b
OBVIOUS

\* The places of the trace after a step.
LEMMA Places ==
    ASSUME Traced, Control, Grows
    PROVE  /\ DOMAIN trace' = 1..Len(trace') /\ Len(trace') \in Nat
           /\ \A i \in DOMAIN trace' : i \in DOMAIN trace \/ i \in New
           /\ \A i \in DOMAIN trace : i \in DOMAIN trace' /\ trace'[i] = trace[i]
           /\ New = {} => Len(trace') = Len(trace)
<1>1. Len(trace) \in Nat /\ DOMAIN trace = 1..Len(trace)
  BY TraceSteps
<1>2. Len(trace') \in Nat /\ DOMAIN trace' = 1..Len(trace')
  BY DEF Grows
<1>3. Len(trace) <= Len(trace') /\ \A i \in 1..Len(trace) : trace'[i] = trace[i]
  BY DEF Grows
<1>4. New = {} => Len(trace') = Len(trace)
  <2>1. ASSUME Len(trace') # Len(trace)
        PROVE  Len(trace) + 1 \in New
    <3>1. Len(trace) \in Nat /\ Len(trace') \in Nat /\ Len(trace) <= Len(trace')
      BY <1>1, <1>2, <1>3
    <3>2. Len(trace) + 1 \in Len(trace) + 1 .. Len(trace')
      BY <2>1, <3>1, NextNumber
    <3>3. QED
      BY <3>2 DEF New
  <2>2. QED
    BY <2>1
<1>5. \A i \in DOMAIN trace' : i \in DOMAIN trace \/ i \in New
  BY <1>1, <1>2 DEF New
<1>6. \A i \in DOMAIN trace : i \in DOMAIN trace' /\ trace'[i] = trace[i]
  BY <1>1, <1>2, <1>3
<1>7. QED
  BY <1>2, <1>4, <1>5, <1>6

LEMMA PastStep ==
    ASSUME Traced, Control, GroupInv, PastInv, Moving
    PROVE  PastInv'
<1>1. Grows /\ Runs
  BY DEF Moving
<1>2. steps \in Nat /\ \A i \in DOMAIN trace : trace[i].step \in Nat
  BY TraceSteps
<1>3. ASSUME NEW s \in starts'
      PROVE  s.step \in Nat /\ s.step <= steps' /\ (pc' = "model" => s.step < steps')
  <2>1. pc = "model" => group = {}
    BY DEF GroupInv
  <2>2. QED
    BY <1>1, <1>2, <2>1 DEF Runs, PastInv
<1>4. ASSUME NEW i \in DOMAIN trace'
      PROVE  trace'[i].step <= steps' /\ (pc' = "model" => trace'[i].step < steps')
  <2>1. CASE i \in New
    BY <1>1, <1>2, <2>1 DEF Grows
  <2>2. CASE i \in DOMAIN trace
    <3>1. trace'[i] = trace[i]
      BY <1>1, <2>2, Places
    <3>2. QED
      BY <1>1, <1>2, <2>2, <3>1 DEF Runs, PastInv
  <2>3. QED
    BY <1>1, <2>1, <2>2, Places
<1>5. QED
  BY <1>3, <1>4 DEF PastInv

LEMMA IdleStep ==
    ASSUME Traced, Control, PastInv, IdleInv, RepairedStepIdle, Moving
    PROVE  IdleInv' /\ RepairedStepIdle'
<1>1. Grows /\ Runs /\ Executes /\ Announces
  BY DEF Moving
<1>2. RepairedStepIdle <=> \A i \in DOMAIN trace : Idle(trace[i]) => \A s \in starts : s.step # trace[i].step
  BY DEF RepairedStepIdle, Idle
<1>3. RepairedStepIdle' <=> \A i \in DOMAIN trace' : Idle(trace'[i]) => \A s \in starts' : s.step # trace'[i].step
  BY DEF RepairedStepIdle, Idle
<1>4. steps \in Nat /\ \A i \in DOMAIN trace : trace[i].step \in Nat
  BY TraceSteps
<1>5. ASSUME pc' = "exec" \/ group' # {}, NEW i \in DOMAIN trace', Idle(trace'[i])
      PROVE  trace'[i].step < steps'
  <2>1. CASE (pc = "exec" \/ group # {}) /\ UNCHANGED <<trace, steps>>
    BY <1>5, <2>1 DEF IdleInv
  <2>2. CASE pc = "model" /\ UNCHANGED steps /\ \A k \in New : ~Idle(trace'[k])
    BY <1>1, <1>5, <2>2, Places DEF PastInv
  <2>3. QED
    BY <1>1, <1>5, <2>1, <2>2 DEF Executes
<1>6. ASSUME NEW i \in DOMAIN trace', Idle(trace'[i]), NEW s \in starts'
      PROVE  s.step # trace'[i].step
  <2>1. CASE i \in New
    <3>1. trace'[i].step = steps /\ pc \in {"model", "exec"}
      BY <1>1, <2>1 DEF Grows
    <3>2. pc = "model"
      BY <1>1, <1>6, <2>1, <3>1 DEF Announces, Idle
    <3>3. s \in starts
      BY <1>1, <2>1, <3>2 DEF Runs, New
    <3>4. QED
      BY <1>4, <3>1, <3>2, <3>3 DEF PastInv
  <2>2. CASE i \in DOMAIN trace /\ s \in starts
    BY <1>1, <1>2, <1>6, <2>2, Places
  <2>3. CASE i \in DOMAIN trace /\ s \notin starts
    BY <1>1, <1>4, <1>6, <2>3, Places DEF Runs, IdleInv
  <2>4. QED
    BY <1>1, <2>1, <2>2, <2>3, Places
<1>7. QED
  BY <1>3, <1>5, <1>6 DEF IdleInv

LEMMA OnceStep ==
    ASSUME Traced, Control, LastRepaired, RepairOnce, Moving
    PROVE  LastRepaired' /\ RepairOnce'
<1>1. Grows /\ Repairs
  BY DEF Moving
<1>2. Len(trace) \in Nat /\ DOMAIN trace = 1..Len(trace) /\ trace \in Seq(Entries)
  BY TraceSteps
<1>3. Len(trace') \in Nat /\ DOMAIN trace' = 1..Len(trace') /\ trace' \in Seq(Entries)
  BY <1>1, Places DEF Grows
<1>4. LastRepaired'
  <2>1. CASE New = {}
    <3>1. Len(trace') = Len(trace)
      BY <1>1, <2>1, Places
    <3>2. ASSUME trace' # <<>>
          PROVE  trace # <<>> /\ trace'[Len(trace')] = trace[Len(trace)]
      BY <1>1, <1>2, <1>3, <3>1, <3>2 DEF Grows
    <3>3. QED
      BY <1>1, <2>1, <3>2 DEF LastRepaired, Repairs
  <2>2. CASE New # {}
    BY <1>1, <2>2 DEF LastRepaired, Repairs
  <2>3. QED
    BY <2>1, <2>2
<1>5. ASSUME NEW i \in DOMAIN trace', trace'[i].kind = "repair", i + 2 \in DOMAIN trace',
             trace'[i + 2].kind = "repair"
      PROVE  FALSE
  <2>1. CASE i + 2 \in DOMAIN trace
    <3>1. i \in DOMAIN trace
      BY <1>2, <1>3, <2>1
    <3>2. trace[i].kind = "repair" /\ trace[i + 2].kind = "repair"
      BY <1>1, <1>5, <2>1, <3>1, Places
    <3>3. QED
      BY <2>1, <3>1, <3>2 DEF RepairOnce
  <2>2. CASE i + 2 \in New
    <3>1. i = Len(trace) /\ repairs = 0
      BY <1>1, <1>2, <1>3, <1>5, <2>2 DEF Repairs
    <3>2. trace # <<>> /\ trace[Len(trace)].kind = "repair"
      BY <1>1, <1>2, <1>3, <1>5, <3>1 DEF Grows
    <3>3. QED
      BY <3>1, <3>2 DEF LastRepaired
  <2>3. QED
    BY <1>1, <1>5, <2>1, <2>2, Places
<1>6. QED
  BY <1>4, <1>5 DEF RepairOnce

LEMMA AnsweredStep ==
    ASSUME Traced, Control, CallsAnswered, Moving
    PROVE  CallsAnswered'
<1>1. Grows /\ Announces
  BY DEF Moving
<1>2. Len(trace) \in Nat /\ DOMAIN trace = 1..Len(trace)
  BY TraceSteps
<1>3. Len(trace') \in Nat /\ DOMAIN trace' = 1..Len(trace')
  BY <1>1, Places
<1> SUFFICES ASSUME NEW i \in DOMAIN trace', trace'[i].kind = "call"
             PROVE  IF i < Len(trace') THEN trace'[i + 1].kind \in {"answer", "repair"}
                    ELSE pc' = "exec"
                         \/ (pc' = "ended" /\ reason' \in {"error", "stopped", "timeout"})
  BY DEF CallsAnswered
<1>4. CASE i \in New
  BY <1>1, <1>3, <1>4 DEF Announces
<1>5. CASE i \in DOMAIN trace
  <2>1. trace[i].kind = "call"
    BY <1>1, <1>5, Places
  <2>2. CASE i < Len(trace)
    BY <1>1, <1>2, <1>3, <1>5, <2>1, <2>2 DEF CallsAnswered, Grows
  <2>3. CASE i = Len(trace)
    <3>1. pc = "exec" \/ (pc = "ended" /\ reason \in {"error", "stopped", "timeout"})
      BY <1>2, <1>5, <2>1, <2>3 DEF CallsAnswered
    <3>2. CASE New = {}
      <4>1. Len(trace') = Len(trace)
        BY <1>1, <3>2, Places
      <4>2. QED
        BY <1>1, <1>2, <2>3, <3>1, <3>2, <4>1 DEF Announces
    <3>3. CASE New # {}
      <4>1. pc = "exec"
        BY <1>1, <3>1, <3>3 DEF Grows
      <4>2. Len(trace) + 1 \in New /\ i < Len(trace')
        BY <1>2, <1>3, <2>3, <3>3 DEF New
      <4>3. QED
        BY <1>1, <2>3, <3>3, <4>1, <4>2 DEF Announces
    <3>4. QED
      BY <3>2, <3>3
  <2>4. QED
    BY <1>2, <1>5, <2>2, <2>3
<1>6. QED
  BY <1>1, <1>4, <1>5, Places

\* A malformed step is repaired once and answered, and none of it runs, for every
\* catalogue and sequence of replies: no handler is called in a step with a call that
\* does not coerce, two calls in a row are never both repaired, and a call on the
\* trace lacks its answer only where an error or an abort ended the turn.  The repair
\* flag, the step counter and the trace are kept apart in the loop; PastInv, IdleInv
\* and LastRepaired relate them.
THEOREM RepairsAreSound == Spec => []RepairsSound
<1> DEFINE Inv == /\ GroupInv /\ PastInv /\ IdleInv /\ RepairedStepIdle
                  /\ LastRepaired /\ RepairOnce /\ CallsAnswered
<1>1. Init => Inv
  BY DEF Init, GroupInv, PastInv, IdleInv, RepairedStepIdle, LastRepaired, RepairOnce,
         CallsAnswered
<1>2. Typed /\ Inv /\ [Next]_vars => Inv'
  <2> SUFFICES ASSUME Typed, Inv, [Next]_vars PROVE Inv'
    OBVIOUS
  <2>1. Control /\ Traced /\ Planning
    BY DEF Typed
  <2>2. Moving
    BY <2>1, MovingStep
  <2>3. GroupInv'
    BY <2>1, GroupStep
  <2>4. PastInv' /\ IdleInv' /\ RepairedStepIdle'
    BY <2>1, <2>2, PastStep, IdleStep
  <2>5. LastRepaired' /\ RepairOnce' /\ CallsAnswered'
    BY <2>1, <2>2, OnceStep, AnsweredStep
  <2>6. QED
    BY <2>3, <2>4, <2>5
<1>3. Inv => RepairsSound
  BY DEF RepairsSound
<1>4. QED
  BY <1>1, <1>2, <1>3, TypedAlways, PTL DEF Spec

-----------------------------------------------------------------------------
(* What was done is kept *)

\* No reply both writes and moves to another phase.
NoMoveWithWrite ==
    \A r \in Replies : \A i, j \in DOMAIN r.intents :
        ~(r.intents[i].tool = PhaseTool /\ r.intents[j].tool \in Mutating)

Writes == {i \in DOMAIN plan : plan[i].tool \in Mutating}

\* A step with a write keeps its phase, and so every tool of it.
VisibleInv ==
    pc = "exec" /\ Writes # {} =>
        \A i \in DOMAIN plan : plan[i].tool # PhaseTool /\ plan[i].tool \in Visible[phase]

\* The calls from the first one not begun on wait, and the group is before it.
WaitInv ==
    pc = "exec" =>
        /\ \A i \in DOMAIN plan : i >= at => st[i] = "waiting"
        /\ \A i \in group : i < at

\* Where writes are deferred none runs, and a deferral is made only there.
DeferInv ==
    /\ policy.defer => effects = {}
    /\ \A i \in group : st[i] \in {"running", "asking"} /\ i \in Writes => ~policy.defer
    /\ \A i \in group : st[i] = "deferring" => policy.defer

\* A write that succeeded is noted by the turn, or is among the results of the step
\* that is executed.
NotedInv ==
    effects # {} =>
        /\ pc \in {"top", "model"} => sideEffects
        /\ pc = "exec" => sideEffects \/ Worked \cap Writes # {}
        /\ pc = "ended" => kept

\* A group is an interval, and the next one begins after it.
LEMMA GroupInterval ==
    ASSUME NEW i \in 1..Len(plan), plan \in Seq(Calls)
    PROVE  \A j \in GroupAt(i) : i <= j /\ j < i + Cardinality(GroupAt(i))
<1>1. GroupAt(i) \in SUBSET (1..Len(plan)) /\ GroupAt(i) # {} /\ Len(plan) \in Nat
  BY GroupShape
<1>2. PICK m \in GroupAt(i) : \A j \in GroupAt(i) : j <= m
  BY <1>1, LastPlace
<1>3. m \in 1..Len(plan) /\ i <= m
  BY <1>1, <1>2 DEF GroupAt
<1>4. ASSUME NEW j \in i..m
      PROVE  j \in GroupAt(i)
  <2>1. j \in DOMAIN plan /\ i <= j /\ j <= m /\ MaxParallel \in Nat
    BY <1>3, LoopConstants
  <2>2. CASE i = m
    BY <1>2, <1>3, <2>1, <2>2
  <2>3. CASE i # m
    <3>1. m < i + MaxParallel /\ \A k \in i..m : plan[k].tool \notin Mutating
      BY <1>2, <2>3 DEF GroupAt
    <3>2. j < i + MaxParallel /\ \A k \in i..j : plan[k].tool \notin Mutating
      BY <1>3, <2>1, <3>1
    <3>3. QED
      BY <2>1, <3>2 DEF GroupAt
  <2>4. QED
    BY <2>2, <2>3
<1>5. \A j \in GroupAt(i) : j \in i..m
  BY <1>1, <1>2 DEF GroupAt
<1>6. GroupAt(i) = i..m
  BY <1>4, <1>5
<1>7. Cardinality(i..m) = m - i + 1
  BY <1>3, FS_Interval
<1>8. QED
  BY <1>3, <1>5, <1>6, <1>7

\* decideAndRun: a write is deferred or refused where writes are deferred.
LEMMA DeferredWrite ==
    ASSUME NEW t \in Tools, policy \in Policies
    PROVE  /\ t \in Mutating /\ policy.defer => Decide(t) \notin {"allow", "ask"}
           /\ Decide(t) = "defer" => policy.defer
<1>1. /\ policy.rule[t] \in {"deny", "allow", "none"} /\ policy.mode \in Actions
      /\ policy.noApprover \in {"allow", "deny"}
  BY LoopConstants DEF Policy
<1>2. Ruled(t) \in Actions
  BY <1>1 DEF Ruled, Actions
<1>3. Authorize(t, taint) \in Actions /\ (Ruled(t) = "deny" => Authorize(t, taint) = "deny")
  BY <1>1, <1>2 DEF Authorize, Actions
<1>4. QED
  BY <1>2, <1>3 DEF Decide, Actions

\* Every step keeps the tools of a step that writes in sight.
LEMMA VisibleStep ==
    ASSUME NoMoveWithWrite, Planning, VisibleInv, [Next]_vars
    PROVE  VisibleInv'
<1>1. CASE BeginStep
  <2>1. pc' # "exec"
    BY <1>1 DEF BeginStep, Finish
  <2>2. QED
    BY <2>1 DEF VisibleInv
<1>2. CASE Exhausted
  <2>1. pc' # "exec"
    BY <1>2 DEF Exhausted, Finish
  <2>2. QED
    BY <2>1 DEF VisibleInv
<1>3. CASE ModelThrows
  <2>1. pc' # "exec"
    BY <1>3 DEF ModelThrows, Finish
  <2>2. QED
    BY <2>1 DEF VisibleInv
<1>4. ASSUME NEW r \in Replies, ModelAborted(r)
      PROVE  VisibleInv'
  <2>1. pc' # "exec"
    BY <1>4 DEF ModelAborted, Finish
  <2>2. QED
    BY <2>1 DEF VisibleInv
<1>5. ASSUME NEW r \in Replies, EndsOnReply(r)
      PROVE  VisibleInv'
  <2>1. pc' # "exec"
    BY <1>5 DEF EndsOnReply, Finish
  <2>2. QED
    BY <2>1 DEF VisibleInv
<1>6. ASSUME NEW r \in Replies, Answers(r)
      PROVE  VisibleInv'
  <2>1. pc' # "exec"
    BY <1>6 DEF Answers, Finish
  <2>2. QED
    BY <2>1 DEF VisibleInv
<1>7. ASSUME NEW r \in Replies, Nudge(r)
      PROVE  VisibleInv'
  <2>1. pc' # "exec"
    BY <1>7 DEF Nudge, Finish
  <2>2. QED
    BY <2>1 DEF VisibleInv
<1>8. ASSUME NEW r \in Replies, NoProgress(r)
      PROVE  VisibleInv'
  <2>1. pc' # "exec"
    BY <1>8 DEF NoProgress, Finish
  <2>2. QED
    BY <2>1 DEF VisibleInv
<1>9. ASSUME NEW r \in Replies, Repair(r)
      PROVE  VisibleInv'
  <2>1. pc' # "exec"
    BY <1>9 DEF Repair, Finish
  <2>2. QED
    BY <2>1 DEF VisibleInv
<1>10. ASSUME NEW r \in Replies, RepairFails(r)
      PROVE  VisibleInv'
  <2>1. pc' # "exec"
    BY <1>10 DEF RepairFails, Finish
  <2>2. QED
    BY <2>1 DEF VisibleInv
<1>11. ASSUME NEW r \in Replies, Execute(r)
      PROVE  VisibleInv'
  <2>1. /\ plan' = Planned(r.intents) /\ UNCHANGED phase
        /\ \A i \in DOMAIN plan' : plan'[i].tool \in Visible[phase]
    BY <1>11, ExecutePlans DEF Execute, doneVars
  <2>2. r.intents \in Seq(Calls)
    BY ReplyShape
  <2>3. ASSUME NEW i \in DOMAIN plan', NEW j \in DOMAIN plan', plan'[j].tool \in Mutating
        PROVE  plan'[i].tool # PhaseTool
    <3>1. PICK k \in DOMAIN r.intents : plan'[i] = r.intents[k]
      BY <2>1, <2>2, PlannedCalls
    <3>2. PICK l \in DOMAIN r.intents : plan'[j] = r.intents[l]
      BY <2>1, <2>2, PlannedCalls
    <3>3. QED
      BY <2>3, <3>1, <3>2 DEF NoMoveWithWrite
  <2>4. QED
    BY <2>1, <2>3 DEF VisibleInv, Writes
<1>12. CASE StartGroup
  <2> DEFINE runs == {j \in group' : Begun(j) = "running"}
  <2>1. UNCHANGED <<plan, pc>> /\ phase' = Moved(runs) /\ runs \subseteq DOMAIN plan
    BY <1>12, GroupStarts, GroupShape DEF Planning
  <2> HIDE DEF runs
  <2>2. ASSUME Writes # {}, pc = "exec"
        PROVE  phase' = phase
    BY <2>1, <2>2 DEF VisibleInv, Moved
  <2>3. QED
    BY <2>1, <2>2 DEF VisibleInv, Writes
<1>13. CASE GroupDone
  <2>1. UNCHANGED <<plan, pc, phase>>
    BY <1>13 DEF GroupDone, doneVars
  <2>2. QED
    BY <2>1 DEF VisibleInv, Writes
<1>14. CASE StepDone
  <2>1. pc' # "exec"
    BY <1>14 DEF StepDone, Finish
  <2>2. QED
    BY <2>1 DEF VisibleInv
<1>15. CASE StepThrows
  <2>1. pc' # "exec"
    BY <1>15 DEF StepThrows, Finish
  <2>2. QED
    BY <2>1 DEF VisibleInv
<1>16. ASSUME NEW a \in approvals, NEW g \in BOOLEAN, Resolve(a, g)
      PROVE  VisibleInv'
  <2>1. /\ UNCHANGED <<plan, pc>>
        /\ phase' = phase \/ (phase' = Moved({a.call}) /\ {a.call} \subseteq DOMAIN plan)
    BY <1>16, Resolves DEF Planning
  <2>2. ASSUME Writes # {}, pc = "exec"
        PROVE  phase' = phase
    BY <2>1, <2>2 DEF VisibleInv, Moved
  <2>3. QED
    BY <2>1, <2>2 DEF VisibleInv, Writes
<1>17. ASSUME NEW i \in group, NEW o \in {"ok", "failed", "unavailable"}, HandlerReturns(i, o)
      PROVE  VisibleInv'
  <2>1. UNCHANGED <<plan, pc, phase>>
    BY <1>17 DEF HandlerReturns, doneVars
  <2>2. QED
    BY <2>1 DEF VisibleInv, Writes
<1>18. ASSUME NEW i \in group, CallTimeout(i)
      PROVE  VisibleInv'
  <2>1. UNCHANGED <<plan, pc, phase>>
    BY <1>18 DEF CallTimeout, doneVars
  <2>2. QED
    BY <2>1 DEF VisibleInv, Writes
<1>19. ASSUME NEW i \in group, Deferred(i)
      PROVE  VisibleInv'
  <2>1. UNCHANGED <<plan, pc, phase>>
    BY <1>19 DEF Deferred, doneVars
  <2>2. QED
    BY <2>1 DEF VisibleInv, Writes
<1>20. ASSUME NEW i \in group, DeferThrows(i)
      PROVE  VisibleInv'
  <2>1. pc' # "exec"
    BY <1>20 DEF DeferThrows, Finish
  <2>2. QED
    BY <2>1 DEF VisibleInv
<1>21. ASSUME NEW why \in {"stopped", "timeout"}, Abort(why)
      PROVE  VisibleInv'
  <2>1. UNCHANGED <<plan, pc, phase>>
    BY <1>21 DEF Abort, doneVars
  <2>2. QED
    BY <2>1 DEF VisibleInv, Writes
<1>22. CASE UNCHANGED vars
  BY <1>22 DEF vars, execVars, doneVars, VisibleInv, Writes
<1>23. QED
  BY <1>1, <1>2, <1>3, <1>4, <1>5, <1>6, <1>7, <1>8, <1>9, <1>10, <1>11, <1>12, <1>13,
     <1>14, <1>15, <1>16, <1>17, <1>18, <1>19, <1>20, <1>21, <1>22
  DEF Next, Replied

\* Every step keeps the calls not begun waiting.
LEMMA WaitStep ==
    ASSUME Planning, WaitInv, [Next]_vars
    PROVE  WaitInv'
<1>1. CASE BeginStep
  <2>1. pc' # "exec"
    BY <1>1 DEF BeginStep, Finish
  <2>2. QED
    BY <2>1 DEF WaitInv
<1>2. CASE Exhausted
  <2>1. pc' # "exec"
    BY <1>2 DEF Exhausted, Finish
  <2>2. QED
    BY <2>1 DEF WaitInv
<1>3. CASE ModelThrows
  <2>1. pc' # "exec"
    BY <1>3 DEF ModelThrows, Finish
  <2>2. QED
    BY <2>1 DEF WaitInv
<1>4. ASSUME NEW r \in Replies, ModelAborted(r)
      PROVE  WaitInv'
  <2>1. pc' # "exec"
    BY <1>4 DEF ModelAborted, Finish
  <2>2. QED
    BY <2>1 DEF WaitInv
<1>5. ASSUME NEW r \in Replies, EndsOnReply(r)
      PROVE  WaitInv'
  <2>1. pc' # "exec"
    BY <1>5 DEF EndsOnReply, Finish
  <2>2. QED
    BY <2>1 DEF WaitInv
<1>6. ASSUME NEW r \in Replies, Answers(r)
      PROVE  WaitInv'
  <2>1. pc' # "exec"
    BY <1>6 DEF Answers, Finish
  <2>2. QED
    BY <2>1 DEF WaitInv
<1>7. ASSUME NEW r \in Replies, Nudge(r)
      PROVE  WaitInv'
  <2>1. pc' # "exec"
    BY <1>7 DEF Nudge, Finish
  <2>2. QED
    BY <2>1 DEF WaitInv
<1>8. ASSUME NEW r \in Replies, NoProgress(r)
      PROVE  WaitInv'
  <2>1. pc' # "exec"
    BY <1>8 DEF NoProgress, Finish
  <2>2. QED
    BY <2>1 DEF WaitInv
<1>9. ASSUME NEW r \in Replies, Repair(r)
      PROVE  WaitInv'
  <2>1. pc' # "exec"
    BY <1>9 DEF Repair, Finish
  <2>2. QED
    BY <2>1 DEF WaitInv
<1>10. ASSUME NEW r \in Replies, RepairFails(r)
      PROVE  WaitInv'
  <2>1. pc' # "exec"
    BY <1>10 DEF RepairFails, Finish
  <2>2. QED
    BY <2>1 DEF WaitInv
<1>11. ASSUME NEW r \in Replies, Execute(r)
      PROVE  WaitInv'
  <2>1. at' = 1 /\ group' = {} /\ st' = [i \in DOMAIN plan' |-> "waiting"]
    BY <1>11, ExecutePlans
  <2>2. QED
    BY <2>1 DEF WaitInv
<1>12. CASE StartGroup
  <2>1. /\ at \in 1..Len(plan) /\ plan \in Seq(Calls) /\ group' = GroupAt(at)
        /\ pc = "exec" /\ UNCHANGED plan
    BY <1>12, GroupStarts DEF Planning
  <2>2. at' = at + Cardinality(GroupAt(at)) /\ Cardinality(GroupAt(at)) \in Nat
    BY <1>12, <2>1, GroupShape DEF StartGroup
  <2>3. \A j \in group' : j < at'
    BY <2>1, <2>2, GroupInterval
  <2>4. ASSUME NEW j \in DOMAIN plan, j >= at'
        PROVE  st'[j] = "waiting"
    <3>1. j \notin group' /\ j >= at
      BY <2>1, <2>2, <2>3, <2>4
    <3>2. QED
      BY <1>12, <2>1, <3>1, GroupStarts DEF WaitInv
  <2>5. QED
    BY <2>1, <2>3, <2>4 DEF WaitInv
<1>13. CASE GroupDone
  <2>1. UNCHANGED <<plan, pc, at, st>> /\ group' = {}
    BY <1>13 DEF GroupDone
  <2>2. QED
    BY <2>1 DEF WaitInv
<1>14. CASE StepDone
  <2>1. pc' # "exec"
    BY <1>14 DEF StepDone, Finish
  <2>2. QED
    BY <2>1 DEF WaitInv
<1>15. CASE StepThrows
  <2>1. pc' # "exec"
    BY <1>15 DEF StepThrows, Finish
  <2>2. QED
    BY <2>1 DEF WaitInv
<1>16. ASSUME NEW a \in approvals, NEW g \in BOOLEAN, Resolve(a, g)
      PROVE  WaitInv'
  <2>1. UNCHANGED <<plan, pc, at, group>>
    BY <1>16 DEF Resolve
  <2>2. \A j \in DOMAIN plan : j \notin group => st'[j] = st[j]
    BY <1>16, Resolves DEF Planning
  <2>3. at \in Nat /\ group \subseteq DOMAIN plan /\ DOMAIN plan \subseteq Nat
    BY DEF Planning
  <2>4. QED
    BY <2>1, <2>2, <2>3 DEF WaitInv
<1>17. ASSUME NEW i \in group, NEW o \in {"ok", "failed", "unavailable"}, HandlerReturns(i, o)
      PROVE  WaitInv'
  <2>1. UNCHANGED <<plan, pc, at, group>>
    BY <1>17 DEF HandlerReturns
  <2>2. \A j \in DOMAIN plan : j \notin group => st'[j] = st[j]
    BY <1>17 DEF HandlerReturns, Planning
  <2>3. at \in Nat /\ group \subseteq DOMAIN plan /\ DOMAIN plan \subseteq Nat
    BY DEF Planning
  <2>4. QED
    BY <2>1, <2>2, <2>3 DEF WaitInv
<1>18. ASSUME NEW i \in group, CallTimeout(i)
      PROVE  WaitInv'
  <2>1. UNCHANGED <<plan, pc, at, group>>
    BY <1>18 DEF CallTimeout
  <2>2. \A j \in DOMAIN plan : j \notin group => st'[j] = st[j]
    BY <1>18 DEF CallTimeout, Planning
  <2>3. at \in Nat /\ group \subseteq DOMAIN plan /\ DOMAIN plan \subseteq Nat
    BY DEF Planning
  <2>4. QED
    BY <2>1, <2>2, <2>3 DEF WaitInv
<1>19. ASSUME NEW i \in group, Deferred(i)
      PROVE  WaitInv'
  <2>1. UNCHANGED <<plan, pc, at, group>>
    BY <1>19 DEF Deferred
  <2>2. \A j \in DOMAIN plan : j \notin group => st'[j] = st[j]
    BY <1>19 DEF Deferred, Planning
  <2>3. at \in Nat /\ group \subseteq DOMAIN plan /\ DOMAIN plan \subseteq Nat
    BY DEF Planning
  <2>4. QED
    BY <2>1, <2>2, <2>3 DEF WaitInv
<1>20. ASSUME NEW i \in group, DeferThrows(i)
      PROVE  WaitInv'
  <2>1. pc' # "exec"
    BY <1>20 DEF DeferThrows, Finish
  <2>2. QED
    BY <2>1 DEF WaitInv
<1>21. ASSUME NEW why \in {"stopped", "timeout"}, Abort(why)
      PROVE  WaitInv'
  <2>1. UNCHANGED <<plan, pc, at, group>>
    BY <1>21 DEF Abort
  <2>2. \A j \in DOMAIN plan : j \notin group => st'[j] = st[j]
    BY <1>21 DEF Abort, Planning
  <2>3. at \in Nat /\ group \subseteq DOMAIN plan /\ DOMAIN plan \subseteq Nat
    BY DEF Planning
  <2>4. QED
    BY <2>1, <2>2, <2>3 DEF WaitInv
<1>22. CASE UNCHANGED vars
  BY <1>22 DEF vars, execVars, doneVars, WaitInv
<1>23. QED
  BY <1>1, <1>2, <1>3, <1>4, <1>5, <1>6, <1>7, <1>8, <1>9, <1>10, <1>11, <1>12, <1>13,
     <1>14, <1>15, <1>16, <1>17, <1>18, <1>19, <1>20, <1>21, <1>22
  DEF Next, Replied

\* Every step keeps deferred writes apart.
LEMMA DeferStep ==
    ASSUME Control, Planning, DeferInv, [Next]_vars
    PROVE  DeferInv'
<1>1. CASE BeginStep
  <2>1. UNCHANGED <<policy, effects, group, st, plan>>
    BY <1>1 DEF BeginStep, Finish, execVars, doneVars
  <2>2. QED
    BY <2>1 DEF DeferInv, Writes
<1>2. CASE Exhausted
  <2>1. UNCHANGED <<policy, effects, group, st, plan>>
    BY <1>2 DEF Exhausted, Finish, execVars, doneVars
  <2>2. QED
    BY <2>1 DEF DeferInv, Writes
<1>3. CASE ModelThrows
  <2>1. UNCHANGED <<policy, effects, group, st, plan>>
    BY <1>3 DEF ModelThrows, Finish, execVars, doneVars
  <2>2. QED
    BY <2>1 DEF DeferInv, Writes
<1>4. ASSUME NEW r \in Replies, ModelAborted(r)
      PROVE  DeferInv'
  <2>1. UNCHANGED <<policy, effects, group, st, plan>>
    BY <1>4 DEF ModelAborted, Finish, execVars, doneVars
  <2>2. QED
    BY <2>1 DEF DeferInv, Writes
<1>5. ASSUME NEW r \in Replies, EndsOnReply(r)
      PROVE  DeferInv'
  <2>1. UNCHANGED <<policy, effects, group, st, plan>>
    BY <1>5 DEF EndsOnReply, Finish, execVars, doneVars
  <2>2. QED
    BY <2>1 DEF DeferInv, Writes
<1>6. ASSUME NEW r \in Replies, Answers(r)
      PROVE  DeferInv'
  <2>1. UNCHANGED <<policy, effects, group, st, plan>>
    BY <1>6 DEF Answers, Finish, execVars, doneVars
  <2>2. QED
    BY <2>1 DEF DeferInv, Writes
<1>7. ASSUME NEW r \in Replies, Nudge(r)
      PROVE  DeferInv'
  <2>1. UNCHANGED <<policy, effects, group, st, plan>>
    BY <1>7 DEF Nudge, Finish, execVars, doneVars
  <2>2. QED
    BY <2>1 DEF DeferInv, Writes
<1>8. ASSUME NEW r \in Replies, NoProgress(r)
      PROVE  DeferInv'
  <2>1. UNCHANGED <<policy, effects, group, st, plan>>
    BY <1>8 DEF NoProgress, Finish, execVars, doneVars
  <2>2. QED
    BY <2>1 DEF DeferInv, Writes
<1>9. ASSUME NEW r \in Replies, Repair(r)
      PROVE  DeferInv'
  <2>1. UNCHANGED <<policy, effects, group, st, plan>>
    BY <1>9 DEF Repair, Finish, execVars, doneVars
  <2>2. QED
    BY <2>1 DEF DeferInv, Writes
<1>10. ASSUME NEW r \in Replies, RepairFails(r)
      PROVE  DeferInv'
  <2>1. UNCHANGED <<policy, effects, group, st, plan>>
    BY <1>10 DEF RepairFails, Finish, execVars, doneVars
  <2>2. QED
    BY <2>1 DEF DeferInv, Writes
<1>11. ASSUME NEW r \in Replies, Execute(r)
      PROVE  DeferInv'
  <2>1. UNCHANGED <<policy, effects>> /\ group' = {}
    BY <1>11 DEF Execute, doneVars
  <2>2. QED
    BY <2>1 DEF DeferInv
<1>12. CASE StartGroup
  <2>1. UNCHANGED <<policy, effects, plan>> /\ group' \subseteq DOMAIN plan
    BY <1>12, GroupStarts, GroupShape DEF Planning
  <2>2. ASSUME NEW i \in group'
        PROVE  /\ st'[i] \in {"running", "asking"} /\ plan[i].tool \in Mutating => ~policy.defer
               /\ st'[i] = "deferring" => policy.defer
    <3>1. st'[i] = Begun(i) /\ i \in DOMAIN plan
      BY <1>12, <2>1, GroupStarts
    <3>2. plan[i].tool \in Tools
      <4>1. plan[i] \in Calls
        BY <3>1 DEF Planning
      <4>2. QED
        BY <4>1 DEF Calls
    <3>3. /\ Begun(i) \in {"running", "asking"} => Decide(plan[i].tool) \in {"allow", "ask"}
          /\ Begun(i) = "deferring" => Decide(plan[i].tool) = "defer"
      BY DEF Begun
    <3>4. QED
      BY <3>1, <3>2, <3>3, DeferredWrite DEF Control
  <2>3. QED
    BY <2>1, <2>2 DEF DeferInv, Writes
<1>13. CASE GroupDone
  <2>1. UNCHANGED <<policy, effects>> /\ group' = {}
    BY <1>13 DEF GroupDone, doneVars
  <2>2. QED
    BY <2>1 DEF DeferInv
<1>14. CASE StepDone
  <2>1. UNCHANGED <<policy, effects, group, st, plan>>
    BY <1>14 DEF StepDone, Finish, execVars, doneVars
  <2>2. QED
    BY <2>1 DEF DeferInv, Writes
<1>15. CASE StepThrows
  <2>1. UNCHANGED <<policy, effects, group, st, plan>>
    BY <1>15 DEF StepThrows, Finish, execVars, doneVars
  <2>2. QED
    BY <2>1 DEF DeferInv, Writes
<1>16. ASSUME NEW a \in approvals, NEW g \in BOOLEAN, Resolve(a, g)
      PROVE  DeferInv'
  <2>1. UNCHANGED <<policy, effects, plan, group>>
    BY <1>16, Resolves
  <2>2. \A i \in group : st'[i] = st[i] \/ (st[i] = "asking" /\ st'[i] \in {"running", "refused"})
    BY <1>16, Resolves DEF Planning
  <2>3. QED
    BY <2>1, <2>2 DEF DeferInv, Writes
<1>17. ASSUME NEW i \in group, NEW o \in {"ok", "failed", "unavailable"}, HandlerReturns(i, o)
      PROVE  DeferInv'
  <2>1. UNCHANGED <<policy, plan, group>> /\ st[i] = "running"
    BY <1>17 DEF HandlerReturns
  <2>2. \A j \in group : st'[j] = st[j] \/ st'[j] = o
    BY <1>17 DEF HandlerReturns, Planning
  <2>3. effects' # effects => i \in Writes
    BY <1>17 DEF HandlerReturns, Writes, Planning
  <2>4. QED
    BY <2>1, <2>2, <2>3 DEF DeferInv, Writes
<1>18. ASSUME NEW i \in group, CallTimeout(i)
      PROVE  DeferInv'
  <2>1. UNCHANGED <<policy, plan, group, effects>>
    BY <1>18 DEF CallTimeout, doneVars
  <2>2. \A j \in group : st'[j] = st[j] \/ st'[j] \in {"ok", "failed", "unavailable", "refused"}
    BY <1>18 DEF CallTimeout, Planning
  <2>3. QED
    BY <2>1, <2>2 DEF DeferInv, Writes
<1>19. ASSUME NEW i \in group, Deferred(i)
      PROVE  DeferInv'
  <2>1. UNCHANGED <<policy, plan, group, effects>>
    BY <1>19 DEF Deferred, doneVars
  <2>2. \A j \in group : st'[j] = st[j] \/ st'[j] \in {"ok", "failed", "unavailable", "refused"}
    BY <1>19 DEF Deferred, Planning
  <2>3. QED
    BY <2>1, <2>2 DEF DeferInv, Writes
<1>20. ASSUME NEW i \in group, DeferThrows(i)
      PROVE  DeferInv'
  <2>1. UNCHANGED <<policy, effects, group, st, plan>>
    BY <1>20 DEF DeferThrows, Finish, execVars, doneVars
  <2>2. QED
    BY <2>1 DEF DeferInv, Writes
<1>21. ASSUME NEW why \in {"stopped", "timeout"}, Abort(why)
      PROVE  DeferInv'
  <2>1. UNCHANGED <<policy, plan, group, effects>>
    BY <1>21 DEF Abort, doneVars
  <2>2. \A j \in group : st'[j] = st[j] \/ st'[j] \in {"ok", "failed", "unavailable", "refused"}
    BY <1>21 DEF Abort, Planning
  <2>3. QED
    BY <2>1, <2>2 DEF DeferInv, Writes
<1>22. CASE UNCHANGED vars
  BY <1>22 DEF vars, execVars, doneVars, DeferInv, Writes
<1>23. QED
  BY <1>1, <1>2, <1>3, <1>4, <1>5, <1>6, <1>7, <1>8, <1>9, <1>10, <1>11, <1>12, <1>13,
     <1>14, <1>15, <1>16, <1>17, <1>18, <1>19, <1>20, <1>21, <1>22
  DEF Next, Replied

\* Results of a step are not unmade: a call that has worked stays so until the step is over.
LEMMA WorkedStays ==
    ASSUME Planning, WaitInv, pc = "exec", pc' = "exec", [Next]_vars
    PROVE  UNCHANGED plan /\ Worked \subseteq Worked'
<1>1. ASSUME UNCHANGED plan, \A i \in DOMAIN plan : st[i] = "ok" => st'[i] = "ok"
      PROVE  UNCHANGED plan /\ Worked \subseteq Worked'
  BY <1>1 DEF Worked
<1>2. CASE StartGroup
  <2>1. ASSUME NEW i \in DOMAIN plan, st[i] = "ok"
        PROVE  st'[i] = "ok"
    <3>1. i < at
      BY <2>1 DEF WaitInv, Planning
    <3>2. i \notin group'
      BY <1>2, <3>1, GroupStarts, GroupInterval DEF Planning
    <3>3. QED
      BY <1>2, <2>1, <3>2, GroupStarts
  <2>2. QED
    BY <1>1, <1>2, <2>1, GroupStarts
<1>3. ASSUME NEW a \in approvals, NEW g \in BOOLEAN, Resolve(a, g)
      PROVE  UNCHANGED plan /\ \A i \in DOMAIN plan : st[i] = "ok" => st'[i] = "ok"
  BY <1>3, Resolves DEF Planning
<1>4. ASSUME NEW i \in group, NEW o \in {"ok", "failed", "unavailable"}, HandlerReturns(i, o)
      PROVE  UNCHANGED plan /\ \A j \in DOMAIN plan : st[j] = "ok" => st'[j] = "ok"
  BY <1>4 DEF HandlerReturns, Planning
<1>5. ASSUME NEW i \in group, CallTimeout(i)
      PROVE  UNCHANGED plan /\ \A j \in DOMAIN plan : st[j] = "ok" => st'[j] = "ok"
  BY <1>5 DEF CallTimeout, Planning
<1>6. ASSUME NEW i \in group, Deferred(i)
      PROVE  UNCHANGED plan /\ \A j \in DOMAIN plan : st[j] = "ok" => st'[j] = "ok"
  BY <1>6 DEF Deferred, Planning
<1>7. ASSUME NEW why \in {"stopped", "timeout"}, Abort(why)
      PROVE  UNCHANGED plan /\ \A j \in DOMAIN plan : st[j] = "ok" => st'[j] = "ok"
  BY <1>7 DEF Abort, Planning
<1>8. CASE GroupDone \/ UNCHANGED vars
  BY <1>1, <1>8 DEF GroupDone, vars, execVars
<1>9. ASSUME \/ BeginStep \/ Exhausted \/ ModelThrows \/ StepDone \/ StepThrows
             \/ \E r \in Replies : ModelAborted(r) \/ Replied(r)
             \/ \E i \in group : DeferThrows(i)
      PROVE  FALSE
  BY <1>9 DEF BeginStep, Exhausted, ModelThrows, StepDone, StepThrows, ModelAborted, Replied,
     EndsOnReply, Answers, Nudge, NoProgress, Repair, RepairFails, Execute, Calling, Returns,
     DeferThrows, Finish
<1>10. QED
  BY <1>1, <1>2, <1>3, <1>4, <1>5, <1>6, <1>7, <1>8, <1>9 DEF Next

\* An end of the turn keeps what was noted.
LEMMA FinishKeeps ==
    ASSUME Control, NEW why, NEW written, Finish(why, sideEffects, written), sideEffects
    PROVE  pc' = "ended" /\ kept'
BY DEF Finish, Appends

\* Every step keeps what was done noted.
LEMMA NotedStep ==
    ASSUME Control, Planning, VisibleInv, WaitInv, DeferInv, NotedInv, [Next]_vars
    PROVE  NotedInv'
<1>1. CASE BeginStep
  <2>1. UNCHANGED <<effects, sideEffects>> /\ pc \in {"top", "model"} /\ pc' \in {"top", "model"}
    BY <1>1 DEF BeginStep, Returns, Calling, factVars, doneVars
  <2>2. QED
    BY <2>1 DEF NotedInv
<1>2. CASE Exhausted
  <2>1. /\ Finish("max_steps", sideEffects, trace) /\ UNCHANGED effects
        /\ pc \in {"top", "model"}
    BY <1>2 DEF Exhausted, Returns, Calling, doneVars
  <2>2. QED
    BY <2>1, FinishKeeps DEF NotedInv
<1>3. CASE ModelThrows
  <2>1. /\ Finish("error", sideEffects, trace) /\ UNCHANGED effects
        /\ pc \in {"top", "model"}
    BY <1>3 DEF ModelThrows, Returns, Calling, doneVars
  <2>2. QED
    BY <2>1, FinishKeeps DEF NotedInv
<1>4. ASSUME NEW r \in Replies, ModelAborted(r)
      PROVE  NotedInv'
  <2>1. /\ Finish("final", sideEffects, Written(r)) /\ UNCHANGED effects
        /\ pc \in {"top", "model"}
    BY <1>4 DEF ModelAborted, Returns, Calling, doneVars
  <2>2. QED
    BY <2>1, FinishKeeps DEF NotedInv
<1>5. ASSUME NEW r \in Replies, EndsOnReply(r)
      PROVE  NotedInv'
  <2>1. /\ Finish(Verdict(r), sideEffects, Written(r)) /\ UNCHANGED effects
        /\ pc \in {"top", "model"}
    BY <1>5 DEF EndsOnReply, Returns, Calling, doneVars
  <2>2. QED
    BY <2>1, FinishKeeps DEF NotedInv
<1>6. ASSUME NEW r \in Replies, Answers(r)
      PROVE  NotedInv'
  <2>1. /\ Finish("final", sideEffects, Written(r)) /\ UNCHANGED effects
        /\ pc \in {"top", "model"}
    BY <1>6 DEF Answers, Returns, Calling, doneVars
  <2>2. QED
    BY <2>1, FinishKeeps DEF NotedInv
<1>7. ASSUME NEW r \in Replies, Nudge(r)
      PROVE  NotedInv'
  <2>1. UNCHANGED <<effects, sideEffects>> /\ pc \in {"top", "model"} /\ pc' \in {"top", "model"}
    BY <1>7 DEF Nudge, Returns, Calling, factVars, doneVars
  <2>2. QED
    BY <2>1 DEF NotedInv
<1>8. ASSUME NEW r \in Replies, NoProgress(r)
      PROVE  NotedInv'
  <2>1. /\ Finish("no_progress", sideEffects, Written(r)) /\ UNCHANGED effects
        /\ pc \in {"top", "model"}
    BY <1>8 DEF NoProgress, Returns, Calling, doneVars
  <2>2. QED
    BY <2>1, FinishKeeps DEF NotedInv
<1>9. ASSUME NEW r \in Replies, Repair(r)
      PROVE  NotedInv'
  <2>1. UNCHANGED <<effects, sideEffects>> /\ pc \in {"top", "model"} /\ pc' \in {"top", "model"}
    BY <1>9 DEF Repair, Returns, Calling, factVars, doneVars
  <2>2. QED
    BY <2>1 DEF NotedInv
<1>10. ASSUME NEW r \in Replies, RepairFails(r)
      PROVE  NotedInv'
  <2>1. /\ Finish("error", sideEffects, Called(r)) /\ UNCHANGED effects
        /\ pc \in {"top", "model"}
    BY <1>10 DEF RepairFails, Returns, Calling, doneVars
  <2>2. QED
    BY <2>1, FinishKeeps DEF NotedInv
<1>11. ASSUME NEW r \in Replies, Execute(r)
      PROVE  NotedInv'
  <2>1. UNCHANGED <<effects, sideEffects>> /\ pc = "model" /\ pc' = "exec"
    BY <1>11 DEF Execute, Returns, Calling, factVars, doneVars
  <2>2. QED
    BY <2>1 DEF NotedInv
<1>12. CASE StartGroup
  <2>1. UNCHANGED <<effects, sideEffects>> /\ pc = "exec" /\ pc' = "exec"
    BY <1>12, GroupStarts
  <2>2. UNCHANGED plan /\ Worked \subseteq Worked'
    BY <2>1, WorkedStays
  <2>3. QED
    BY <2>1, <2>2 DEF NotedInv, Writes
<1>13. CASE GroupDone
  <2>1. UNCHANGED <<effects, sideEffects>> /\ pc = "exec" /\ pc' = "exec"
    BY <1>13 DEF GroupDone, factVars, doneVars
  <2>2. UNCHANGED plan /\ Worked \subseteq Worked'
    BY <2>1, WorkedStays
  <2>3. QED
    BY <2>1, <2>2 DEF NotedInv, Writes
<1>14. CASE StepDone
  <2>1. /\ UNCHANGED effects /\ pc = "exec" /\ pc' = "top"
        /\ sideEffects' = (sideEffects \/ \E i \in Worked : plan[i].tool \in Mutating)
    BY <1>14 DEF StepDone, StepOver, doneVars
  <2>2. QED
    BY <2>1 DEF NotedInv, Worked, Writes
<1>15. CASE StepThrows
  <2>1. /\ Finish("error", sideEffects, trace) /\ UNCHANGED effects /\ pc = "exec" /\ Throws
    BY <1>15 DEF StepThrows, StepOver, doneVars
  <2>2. ASSUME Worked \cap Writes # {}
        PROVE  FALSE
    <3>1. \A i \in DOMAIN plan : ~Hidden(i)
      BY <2>1, <2>2 DEF VisibleInv, Hidden
    <3>2. QED
      BY <2>1, <3>1 DEF Throws, Worked
  <2>3. QED
    BY <2>1, <2>2, FinishKeeps DEF NotedInv
<1>16. ASSUME NEW a \in approvals, NEW g \in BOOLEAN, Resolve(a, g)
      PROVE  NotedInv'
  <2>1. UNCHANGED <<effects, sideEffects, pc, kept>>
    BY <1>16, Resolves
  <2>2. pc = "exec" => UNCHANGED plan /\ Worked \subseteq Worked'
    BY <2>1, WorkedStays
  <2>3. QED
    BY <2>1, <2>2 DEF NotedInv, Writes
<1>17. ASSUME NEW i \in group, NEW o \in {"ok", "failed", "unavailable"}, HandlerReturns(i, o)
      PROVE  NotedInv'
  <2>1. /\ UNCHANGED <<sideEffects, pc>> /\ pc = "exec"
        /\ effects' # effects => i \in Worked' \cap Writes'
    BY <1>17 DEF HandlerReturns, factVars, Planning, Worked, Writes
  <2>2. UNCHANGED plan /\ Worked \subseteq Worked'
    BY <2>1, WorkedStays
  <2>3. QED
    BY <2>1, <2>2 DEF NotedInv, Writes
<1>18. ASSUME NEW i \in group, CallTimeout(i)
      PROVE  NotedInv'
  <2>1. UNCHANGED <<effects, sideEffects, pc, kept>>
    BY <1>18 DEF CallTimeout, factVars, doneVars, endVars
  <2>2. pc = "exec" => UNCHANGED plan /\ Worked \subseteq Worked'
    BY <2>1, WorkedStays
  <2>3. QED
    BY <2>1, <2>2 DEF NotedInv, Writes
<1>19. ASSUME NEW i \in group, Deferred(i)
      PROVE  NotedInv'
  <2>1. UNCHANGED <<effects, sideEffects, pc, kept>>
    BY <1>19 DEF Deferred, factVars, doneVars, endVars
  <2>2. pc = "exec" => UNCHANGED plan /\ Worked \subseteq Worked'
    BY <2>1, WorkedStays
  <2>3. QED
    BY <2>1, <2>2 DEF NotedInv, Writes
<1>20. ASSUME NEW i \in group, DeferThrows(i)
      PROVE  NotedInv'
  <2>1. /\ UNCHANGED effects /\ i \in group /\ st[i] = "deferring"
    BY <1>20 DEF DeferThrows, doneVars
  <2>2. effects = {}
    BY <2>1 DEF DeferInv
  <2>3. QED
    BY <2>1, <2>2 DEF NotedInv
<1>21. ASSUME NEW why \in {"stopped", "timeout"}, Abort(why)
      PROVE  NotedInv'
  <2>1. UNCHANGED <<effects, sideEffects, pc, kept>>
    BY <1>21 DEF Abort, factVars, doneVars, endVars
  <2>2. pc = "exec" => UNCHANGED plan /\ Worked \subseteq Worked'
    BY <2>1, WorkedStays
  <2>3. QED
    BY <2>1, <2>2 DEF NotedInv, Writes
<1>22. CASE UNCHANGED vars
  BY <1>22 DEF vars, factVars, endVars, execVars, doneVars, NotedInv, Worked, Writes
<1>23. QED
  BY <1>1, <1>2, <1>3, <1>4, <1>5, <1>6, <1>7, <1>8, <1>9, <1>10, <1>11, <1>12, <1>13,
     <1>14, <1>15, <1>16, <1>17, <1>18, <1>19, <1>20, <1>21, <1>22
  DEF Next, Replied

\* What was done is not forgotten where no reply both writes and moves to another
\* phase: once a write has succeeded the trace of the turn is appended however the
\* turn ends.  Such a reply is therefore the only way to lose it (the lookup of its
\* results throws before the write is noted): neither an error of the model or of a
\* store, nor an abort or a repair that fails, can.
THEOREM WhatWasDoneIsKept == NoMoveWithWrite => (Spec => []SideEffectsKept)
<1> SUFFICES ASSUME NoMoveWithWrite PROVE Spec => []SideEffectsKept
  OBVIOUS
<1> DEFINE Inv == VisibleInv /\ WaitInv /\ DeferInv /\ NotedInv
<1>1. Init => Inv
  BY DEF Init, VisibleInv, WaitInv, DeferInv, NotedInv
<1>2. Typed /\ Inv /\ [Next]_vars => Inv'
  BY VisibleStep, WaitStep, DeferStep, NotedStep DEF Typed
<1>3. Inv => SideEffectsKept
  BY DEF NotedInv, SideEffectsKept
<1>4. QED
  BY <1>1, <1>2, <1>3, TypedAlways, PTL DEF Spec

-----------------------------------------------------------------------------
(* The repeat guard *)

\* The calls between two places, and that they and their answers are all there is,
\* with one signature.
CallsOf(u, i, j) == {k \in i..j : u[k].kind = "call"}
SameCalls(u, s, i, j) ==
    \A k \in i..j : u[k].kind \in {"call", "answer"} /\ (u[k].kind = "call" => u[k].sig = s)

Sigs == Signatures \cup {<<>>}

\* RepeatsBounded, of any trace.
Bounded(u) ==
    \A s \in Sigs : \A i, j \in DOMAIN u :
        i <= j /\ SameCalls(u, s, i, j) =>
            Cardinality(CallsOf(u, i, j)) <= IdenticalCalls - 1 + TransientRetries

\* What the ring and the retries know of n calls in a row at the end of the trace:
\* those the ring has room for are its last entries, and those past the limit were
\* forgiven.
RunFits(s, n) ==
    /\ s # <<>> /\ n <= IdenticalCalls - 1 + retries[s]
    /\ n <= Len(recent) \/ Len(recent) = IdenticalCalls
    /\ \A m \in 0..n - 1 : m < Len(recent) => recent[Len(recent) - m] = s

RunInv ==
    pc # "ended" =>
        \A s \in Sigs : \A i \in 1..Len(trace) + 1 :
            SameCalls(trace, s, i, Len(trace)) /\ CallsOf(trace, i, Len(trace)) # {} =>
                RunFits(s, Cardinality(CallsOf(trace, i, Len(trace))))

LEMMA CallsFinite ==
    ASSUME NEW u, NEW i \in Nat, NEW j \in Nat
    PROVE  /\ IsFiniteSet(CallsOf(u, i, j)) /\ Cardinality(CallsOf(u, i, j)) \in Nat
           /\ (Cardinality(CallsOf(u, i, j)) = 0 <=> CallsOf(u, i, j) = {})
<1>1. IsFiniteSet(i..j)
  BY FS_Interval
<1>2. CallsOf(u, i, j) \subseteq i..j
  BY DEF CallsOf
<1>3. IsFiniteSet(CallsOf(u, i, j))
  BY <1>1, <1>2, FS_Subset
<1>4. QED
  BY <1>3, FS_CardinalityType, FS_EmptySet

\* One more entry.
LEMMA CallsNext ==
    ASSUME NEW u \in Seq(Entries), NEW e \in Entries, NEW i \in 1..Len(u) + 1
    PROVE  /\ \A j \in 0..Len(u) :
                 /\ CallsOf(Append(u, e), i, j) = CallsOf(u, i, j)
                 /\ \A s : SameCalls(Append(u, e), s, i, j) <=> SameCalls(u, s, i, j)
           /\ \A s : SameCalls(Append(u, e), s, i, Len(u) + 1) =>
                 /\ SameCalls(u, s, i, Len(u)) /\ e.kind \in {"call", "answer"}
                 /\ e.kind = "call" => e.sig = s
           /\ e.kind = "call" =>
                 Cardinality(CallsOf(Append(u, e), i, Len(u) + 1)) = Cardinality(CallsOf(u, i, Len(u))) + 1
           /\ e.kind # "call" => CallsOf(Append(u, e), i, Len(u) + 1) = CallsOf(u, i, Len(u))
<1> DEFINE v == Append(u, e)
           n == Len(u)
<1>1. /\ v \in Seq(Entries) /\ Len(v) = n + 1 /\ v[n + 1] = e /\ n \in Nat
      /\ \A k \in 1..n : v[k] = u[k]
  OBVIOUS
<1> HIDE DEF v, n
<1>2. i \in Nat /\ i >= 1 /\ i <= n + 1
  BY <1>1 DEF n
<1>3. ASSUME NEW j \in 0..n
      PROVE  /\ CallsOf(v, i, j) = CallsOf(u, i, j)
             /\ \A s : SameCalls(v, s, i, j) <=> SameCalls(u, s, i, j)
  <2>1. \A k \in i..j : v[k] = u[k]
    BY <1>1, <1>2
  <2>2. CallsOf(v, i, j) = CallsOf(u, i, j)
    BY <2>1 DEF CallsOf
  <2>3. \A s : SameCalls(v, s, i, j) <=> SameCalls(u, s, i, j)
    BY <2>1 DEF SameCalls
  <2>4. QED
    BY <2>2, <2>3
<1>4. n \in 0..n /\ n + 1 \in i..n + 1 /\ n + 1 \notin i..n /\ i..n + 1 = (i..n) \cup {n + 1}
  BY <1>1, <1>2
<1>5. ASSUME NEW s, SameCalls(v, s, i, n + 1)
      PROVE  SameCalls(u, s, i, n) /\ e.kind \in {"call", "answer"} /\ (e.kind = "call" => e.sig = s)
  <2>1. SameCalls(v, s, i, n)
    BY <1>4, <1>5 DEF SameCalls
  <2>2. QED
    BY <1>1, <1>3, <1>4, <1>5, <2>1 DEF SameCalls
<1>6. CallsOf(v, i, n + 1) = IF e.kind = "call" THEN CallsOf(v, i, n) \cup {n + 1} ELSE CallsOf(v, i, n)
  BY <1>1, <1>4 DEF CallsOf
<1>7. n + 1 \notin CallsOf(v, i, n)
  BY <1>4 DEF CallsOf
<1>8. CallsOf(v, i, n) = CallsOf(u, i, n)
  BY <1>3, <1>4
<1>9. e.kind = "call" => Cardinality(CallsOf(v, i, n + 1)) = Cardinality(CallsOf(u, i, n)) + 1
  BY <1>1, <1>2, <1>6, <1>7, <1>8, CallsFinite, FS_AddElement
<1>10. QED
  BY <1>3, <1>5, <1>6, <1>8, <1>9 DEF v, n

\* A longer trace is bounded when the runs that end with its last entry are.
LEMMA BoundedNext ==
    ASSUME NEW u \in Seq(Entries), NEW e \in Entries, Bounded(u),
           e.kind \in {"call", "answer"} =>
              \A s \in Sigs : \A i \in 1..Len(u) + 1 :
                 SameCalls(Append(u, e), s, i, Len(u) + 1) =>
                    Cardinality(CallsOf(Append(u, e), i, Len(u) + 1))
                       <= IdenticalCalls - 1 + TransientRetries
    PROVE  Bounded(Append(u, e))
<1> DEFINE v == Append(u, e)
<1>1. v \in Seq(Entries) /\ DOMAIN v = 1..Len(u) + 1 /\ DOMAIN u = 1..Len(u) /\ Len(u) \in Nat
  OBVIOUS
<1> SUFFICES ASSUME NEW s \in Sigs, NEW i \in DOMAIN v, NEW j \in DOMAIN v, i <= j,
                    SameCalls(v, s, i, j)
             PROVE  Cardinality(CallsOf(v, i, j)) <= IdenticalCalls - 1 + TransientRetries
  BY DEF Bounded
<1>2. i \in 1..Len(u) + 1
  BY <1>1
<1>3. CASE j = Len(u) + 1
  <2>1. e.kind \in {"call", "answer"}
    BY <1>2, <1>3, CallsNext
  <2>2. QED
    BY <1>2, <1>3, <2>1
<1>4. CASE j # Len(u) + 1
  <2>1. j \in 0..Len(u) /\ i \in DOMAIN u /\ j \in DOMAIN u
    BY <1>1, <1>4
  <2>2. SameCalls(u, s, i, j) /\ CallsOf(v, i, j) = CallsOf(u, i, j)
    BY <1>2, <2>1, CallsNext
  <2>3. QED
    BY <2>1, <2>2 DEF Bounded
<1>5. QED
  BY <1>3, <1>4

\* The guard lets a call through: the run it ends fits the ring and the retries.
LEMMA CallingFits ==
    ASSUME Control, Traced, Guards, RunInv, NEW r \in Replies, Calling(r), ~Loops(r.intents),
           NEW i \in 1..Len(trace) + 1, SameCalls(trace, r.intents, i, Len(trace)),
           NEW n, n = Cardinality(CallsOf(trace, i, Len(trace)))
    PROVE  /\ n + 1 <= IdenticalCalls - 1 + TransientRetries
           /\ r.intents # <<>> => RunFits(r.intents, n + 1)'
<1> DEFINE s == r.intents
<1>1. /\ IdenticalCalls \in Nat /\ IdenticalCalls > 1 /\ TransientRetries \in Nat
      /\ s \in Signatures /\ s \in Sigs
  BY LoopConstants, ReplyShape DEF Sigs
<1>2. /\ pc = "model" /\ recent' = Ring(s)
      /\ retries' = IF Forgiven(s) THEN [retries EXCEPT ![s] = @ + 1] ELSE retries
  BY DEF Calling, Returns
<1>3. /\ recent \in Seq(Signatures) /\ Len(recent) <= IdenticalCalls /\ Len(recent) \in Nat
      /\ retries \in [Signatures -> 0..TransientRetries]
  BY DEF Guards
<1>4. n \in Nat /\ (n = 0 <=> CallsOf(trace, i, Len(trace)) = {})
  <2>1. i \in Nat /\ Len(trace) \in Nat
    BY DEF Traced
  <2>2. QED
    BY <2>1, CallsFinite
<1>5. n # 0 => RunFits(s, n)
  BY <1>1, <1>2, <1>4 DEF RunInv
<1>6. retries' \in [Signatures -> 0..TransientRetries]
  BY CallingGuards
<1> HIDE DEF s
<1>7. CASE s = <<>>
  <2>1. n = 0
    BY <1>5, <1>7 DEF RunFits
  <2>2. QED
    BY <1>1, <1>7, <2>1 DEF s
<1>8. CASE s # <<>>
  <2>1. /\ recent' \in Seq(Signatures) /\ Len(recent') \in Nat /\ Len(recent') <= IdenticalCalls
        /\ Len(recent') >= 1 /\ recent'[Len(recent')] = s
    BY <1>1, <1>2, <1>8, RingShape
  <2>2. Len(recent') = Len(recent) + 1 \/ (Len(recent') = IdenticalCalls /\ Len(recent) = IdenticalCalls)
    BY <1>1, <1>2, <1>3, <1>8, RingShape
  <2>3. n + 1 <= Len(recent') \/ Len(recent') = IdenticalCalls
    <3>1. CASE n = 0
      BY <2>1, <3>1
    <3>2. CASE n # 0
      <4>1. n <= Len(recent) \/ Len(recent) = IdenticalCalls
        BY <1>5, <3>2 DEF RunFits
      <4>2. QED
        BY <1>1, <1>3, <1>4, <2>1, <2>2, <4>1
    <3>3. QED
      BY <3>1, <3>2
  <2>4. ASSUME NEW m \in 0..n, m < Len(recent')
        PROVE  recent'[Len(recent') - m] = s
    <3>1. CASE m = 0
      BY <2>1, <3>1
    <3>2. CASE m # 0
      <4>1. m - 1 \in 0..n - 1 /\ n # 0 /\ m \in Nat
        BY <1>4, <3>2
      <4>2. m - 1 < Len(recent) => recent[Len(recent) - (m - 1)] = s
        BY <1>5, <4>1 DEF RunFits
      <4>3. CASE Len(recent) < IdenticalCalls
        <5>1. /\ Len(recent') = Len(recent) + 1
              /\ \A k \in 1..Len(recent) : recent'[k] = recent[k]
          BY <1>1, <1>2, <1>8, <4>3, RingShape
        <5>2. /\ Len(recent') - m = Len(recent) - (m - 1) /\ m - 1 < Len(recent)
              /\ Len(recent) - (m - 1) \in 1..Len(recent)
          BY <1>3, <2>4, <3>2, <4>1, <5>1
        <5>3. QED
          BY <4>2, <5>1, <5>2
      <4>4. CASE Len(recent) = IdenticalCalls
        <5>1. /\ Len(recent') = IdenticalCalls
              /\ \A k \in 1..Len(recent) - 1 : recent'[k] = recent[k + 1]
          BY <1>1, <1>2, <1>8, <4>4, RingShape
        <5>2. /\ Len(recent') - m \in 1..Len(recent) - 1 /\ m - 1 < Len(recent)
              /\ Len(recent') - m + 1 = Len(recent) - (m - 1)
          BY <1>3, <2>4, <3>2, <4>1, <4>4, <5>1
        <5>3. QED
          BY <4>2, <5>1, <5>2
      <4>5. QED
        BY <1>1, <1>3, <4>3, <4>4
    <3>3. QED
      BY <3>1, <3>2
  <2>5. n + 1 <= IdenticalCalls - 1 + retries'[s]
    <3>1. retries[s] \in Nat /\ retries'[s] \in Nat
      BY <1>1, <1>3, <1>6
    <3>2. CASE Forgiven(s)
      <4>1. retries'[s] = retries[s] + 1
        BY <1>1, <1>2, <1>3, <3>2
      <4>2. n # 0 => n <= IdenticalCalls - 1 + retries[s]
        BY <1>5 DEF RunFits
      <4>3. QED
        BY <1>1, <1>4, <3>1, <4>1, <4>2
    <3>3. CASE ~Forgiven(s)
      <4>1. ~(Len(recent') = IdenticalCalls /\ \A k \in DOMAIN recent' : recent'[k] = s)
        BY <1>2, <3>3 DEF Loops, s
      <4>2. ASSUME n + 1 >= IdenticalCalls
            PROVE  FALSE
        <5>1. Len(recent') = IdenticalCalls
          BY <1>1, <1>4, <2>1, <2>3, <4>2
        <5>2. ASSUME NEW k \in DOMAIN recent'
              PROVE  recent'[k] = s
          <6>1. k \in 1..Len(recent')
            BY <2>1
          <6>2. Len(recent') - k \in 0..n /\ Len(recent') - k < Len(recent')
            BY <1>1, <1>4, <4>2, <5>1, <6>1
          <6>3. Len(recent') - (Len(recent') - k) = k
            BY <2>1, <6>1
          <6>4. QED
            BY <2>4, <6>2, <6>3
        <5>3. QED
          BY <4>1, <5>1, <5>2
      <4>3. QED
        BY <1>1, <1>4, <3>1, <4>2
    <3>4. QED
      BY <3>2, <3>3
  <2>6. n + 1 <= IdenticalCalls - 1 + TransientRetries
    <3>1. retries'[s] \in 0..TransientRetries
      BY <1>1, <1>6
    <3>2. QED
      BY <1>1, <1>4, <2>5, <3>1
  <2>7. (n + 1) - 1 = n
    BY <1>4
  <2>8. /\ s # <<>> /\ n + 1 <= IdenticalCalls - 1 + retries'[s]
        /\ n + 1 <= Len(recent') \/ Len(recent') = IdenticalCalls
        /\ \A m \in 0..(n + 1) - 1 : m < Len(recent') => recent'[Len(recent') - m] = s
    BY <1>8, <2>3, <2>4, <2>5, <2>7
  <2>9. RunFits(s, n + 1)'
    BY <2>8, Zenon DEF RunFits, s
  <2>10. QED
    BY <2>6, <2>9 DEF s
<1>9. QED
  BY <1>7, <1>8

LEMMA RunSame ==
    ASSUME RunInv, UNCHANGED <<trace, recent, retries>>, pc' # "ended" => pc # "ended"
    PROVE  RunInv'
BY DEF RunInv, RunFits

\* What is not a call or its answer ends every run.
LEMMA RunCut ==
    ASSUME NEW u \in Seq(Entries), NEW e \in Entries, e.kind \notin {"call", "answer"},
           trace' = Append(u, e)
    PROVE  RunInv'
<1>1. Len(trace') = Len(u) + 1 /\ Len(u) \in Nat
  OBVIOUS
<1>2. ASSUME NEW s \in Sigs, NEW i \in 1..Len(u) + 1
      PROVE  ~SameCalls(trace', s, i, Len(u) + 1)
  BY <1>2, CallsNext
<1>3. CallsOf(trace', Len(u) + 2, Len(u) + 1) = {}
  BY <1>1 DEF CallsOf
<1>4. ASSUME NEW s \in Sigs, NEW i \in 1..Len(trace') + 1
      PROVE  ~(SameCalls(trace', s, i, Len(trace')) /\ CallsOf(trace', i, Len(trace')) # {})
  <2>1. CASE i \in 1..Len(u) + 1
    BY <1>1, <1>2, <2>1
  <2>2. CASE i = Len(u) + 2
    BY <1>1, <1>3, <2>2
  <2>3. QED
    BY <1>1, <2>1, <2>2
<1>5. QED
  BY <1>4 DEF RunInv

\* The bound of the runs that end with a call the guard lets through.
LEMMA CallBounded ==
    ASSUME Control, Traced, Guards, RunInv, NEW r \in Replies, Calling(r), ~Loops(r.intents),
           Bounded(trace)
    PROVE  Bounded(Called(r))
<1> DEFINE e == CallOf(r)
<1>1. /\ e \in Entries /\ e.kind = "call" /\ e.sig = r.intents /\ Called(r) = Append(trace, e)
      /\ trace \in Seq(Entries)
  BY CallShape DEF Traced
<1> HIDE DEF e
<1>2. ASSUME NEW s \in Sigs, NEW i \in 1..Len(trace) + 1,
             SameCalls(Append(trace, e), s, i, Len(trace) + 1)
      PROVE  Cardinality(CallsOf(Append(trace, e), i, Len(trace) + 1))
                <= IdenticalCalls - 1 + TransientRetries
  <2>1. s = r.intents /\ SameCalls(trace, r.intents, i, Len(trace))
    BY <1>1, <1>2, CallsNext
  <2>2. Cardinality(CallsOf(trace, i, Len(trace))) + 1 <= IdenticalCalls - 1 + TransientRetries
    BY <2>1, CallingFits
  <2>3. QED
    BY <1>1, <2>2, CallsNext
<1>3. QED
  BY <1>1, <1>2, BoundedNext

LEMMA RunExecute ==
    ASSUME Control, Traced, Guards, RunInv, NEW r \in Replies, Execute(r)
    PROVE  RunInv'
<1> DEFINE e == CallOf(r)
<1>1. /\ e \in Entries /\ e.kind = "call" /\ e.sig = r.intents /\ trace' = Append(trace, e)
      /\ trace \in Seq(Entries) /\ Calling(r) /\ ~Loops(r.intents) /\ r.intents # <<>>
  BY CallShape DEF Traced, Execute, Calling, Broken
<1> HIDE DEF e
<1>2. Len(trace') = Len(trace) + 1 /\ Len(trace) \in Nat
  BY <1>1
<1> SUFFICES ASSUME NEW s \in Sigs, NEW i \in 1..Len(trace') + 1,
                    SameCalls(trace, s, i, Len(trace))', (CallsOf(trace, i, Len(trace)) # {})'
             PROVE  RunFits(s, Cardinality(CallsOf(trace, i, Len(trace))))'
  BY DEF RunInv
<1>3. i \in 1..Len(trace) + 1
  <2>1. CallsOf(trace', Len(trace) + 2, Len(trace) + 1) = {}
    BY <1>2 DEF CallsOf
  <2>2. i # Len(trace) + 2
    BY <1>2, <2>1
  <2>3. QED
    BY <1>2, <2>2
<1>4. s = r.intents /\ SameCalls(trace, r.intents, i, Len(trace))
  <2>1. SameCalls(Append(trace, e), s, i, Len(trace) + 1)
    BY <1>1, <1>2
  <2>2. SameCalls(trace, s, i, Len(trace)) /\ (e.kind = "call" => e.sig = s)
    BY <1>1, <1>3, <2>1, CallsNext
  <2>3. s = r.intents
    BY <1>1, <2>2
  <2>4. QED
    BY <2>2, <2>3
<1>5. PICK n : n = Cardinality(CallsOf(trace, i, Len(trace)))
  OBVIOUS
<1>6. RunFits(r.intents, n + 1)'
  BY <1>1, <1>3, <1>4, <1>5, CallingFits
<1>7. Cardinality(CallsOf(trace', i, Len(trace'))) = n + 1
  BY <1>1, <1>2, <1>3, <1>5, CallsNext
<1>8. QED
  BY <1>4, <1>6, <1>7 DEF RunFits

LEMMA RunStepDone ==
    ASSUME Control, Traced, RunInv, StepDone
    PROVE  RunInv'
<1> DEFINE e == Entry("answer")
<1>1. /\ e \in Entries /\ e.kind = "answer" /\ trace' = Append(trace, e) /\ trace \in Seq(Entries)
      /\ UNCHANGED <<recent, retries>> /\ pc # "ended"
  BY EntryShape DEF Traced, StepDone, StepOver
<1> HIDE DEF e
<1>2. Len(trace') = Len(trace) + 1 /\ Len(trace) \in Nat
  BY <1>1
<1> SUFFICES ASSUME NEW s \in Sigs, NEW i \in 1..Len(trace') + 1,
                    SameCalls(trace, s, i, Len(trace))', (CallsOf(trace, i, Len(trace)) # {})'
             PROVE  RunFits(s, Cardinality(CallsOf(trace, i, Len(trace))))'
  BY DEF RunInv
<1>3. i \in 1..Len(trace) + 1
  <2>1. CallsOf(trace', Len(trace) + 2, Len(trace) + 1) = {}
    BY <1>2 DEF CallsOf
  <2>2. i # Len(trace) + 2
    BY <1>2, <2>1
  <2>3. QED
    BY <1>2, <2>2
<1>4. SameCalls(trace, s, i, Len(trace))
  <2>1. SameCalls(Append(trace, e), s, i, Len(trace) + 1)
    BY <1>1, <1>2
  <2>2. QED
    BY <1>1, <1>3, <2>1, CallsNext
<1>5. CallsOf(trace', i, Len(trace')) = CallsOf(trace, i, Len(trace))
  BY <1>1, <1>2, <1>3, CallsNext
<1>6. PICK n : n = Cardinality(CallsOf(trace, i, Len(trace)))
  OBVIOUS
<1>7. RunFits(s, n)
  BY <1>1, <1>3, <1>4, <1>5, <1>6 DEF RunInv
<1>8. RunFits(s, n)'
  BY <1>1, <1>7 DEF RunFits
<1>9. Cardinality(CallsOf(trace', i, Len(trace'))) = n
  BY <1>5, <1>6
<1>10. QED
  BY <1>8, <1>9 DEF RunFits

\* The answer of a step adds no call.
LEMMA AnswerBounded ==
    ASSUME Control, Traced, Bounded(trace)
    PROVE  Bounded(Append(trace, Entry("answer")))
<1> DEFINE e == Entry("answer")
<1>1. e \in Entries /\ e.kind = "answer" /\ trace \in Seq(Entries)
  BY EntryShape DEF Traced
<1>2. IdenticalCalls \in Nat /\ IdenticalCalls > 1 /\ TransientRetries \in Nat
  BY LoopConstants
<1> HIDE DEF e
<1>3. ASSUME NEW s \in Sigs, NEW i \in 1..Len(trace) + 1,
             SameCalls(Append(trace, e), s, i, Len(trace) + 1)
      PROVE  Cardinality(CallsOf(Append(trace, e), i, Len(trace) + 1))
                <= IdenticalCalls - 1 + TransientRetries
  <2>1. /\ SameCalls(trace, s, i, Len(trace))
        /\ CallsOf(Append(trace, e), i, Len(trace) + 1) = CallsOf(trace, i, Len(trace))
    BY <1>1, <1>3, CallsNext
  <2>2. CASE i \in 1..Len(trace)
    <3>1. i \in DOMAIN trace /\ Len(trace) \in DOMAIN trace /\ i <= Len(trace)
      BY <1>1, <2>2
    <3>2. QED
      BY <2>1, <3>1 DEF Bounded
  <2>3. CASE i = Len(trace) + 1
    <3>1. CallsOf(trace, i, Len(trace)) = {}
      BY <1>1, <2>3 DEF CallsOf
    <3>2. Cardinality(CallsOf(Append(trace, e), i, Len(trace) + 1)) = 0
      BY <2>1, <3>1, FS_EmptySet
    <3>3. QED
      BY <1>2, <3>2
  <2>4. QED
    BY <1>1, <2>2, <2>3
<1>4. QED
  BY <1>1, <1>3, BoundedNext DEF e

\* Text and notes are no calls.
LEMMA TextBounded ==
    ASSUME Control, NEW u \in Seq(Entries), Bounded(u), NEW k \in {"said", "note", "repair"}
    PROVE  Bounded(Append(u, Entry(k)))
BY EntryShape, BoundedNext

LEMMA WrittenBounded ==
    ASSUME Control, Traced, Bounded(trace), NEW r \in Replies
    PROVE  Bounded(Written(r)) /\ Written(r) \in Seq(Entries)
BY TextBounded, Wrote DEF Traced

\* Every step keeps the runs of a call within the limit.
LEMMA RepeatStep ==
    ASSUME Control, Traced, Guards, RunInv, Bounded(trace), [Next]_vars
    PROVE  RunInv' /\ Bounded(trace')
<1>1. CASE BeginStep
  <2>1. UNCHANGED <<trace, recent, retries>> /\ pc # "ended"
    BY <1>1 DEF BeginStep, guardVars
  <2>2. QED
    BY <2>1, RunSame DEF Bounded
<1>2. CASE Exhausted
  <2>1. UNCHANGED trace /\ pc' = "ended"
    BY <1>2 DEF Exhausted, Finish
  <2>2. QED
    BY <2>1 DEF RunInv, Bounded
<1>3. CASE ModelThrows
  <2>1. UNCHANGED trace /\ pc' = "ended"
    BY <1>3 DEF ModelThrows, Finish
  <2>2. QED
    BY <2>1 DEF RunInv, Bounded
<1>4. ASSUME NEW r \in Replies, ModelAborted(r)
      PROVE  RunInv' /\ Bounded(trace')
  <2>1. trace' = Written(r) /\ pc' = "ended"
    BY <1>4 DEF ModelAborted, Finish
  <2>2. Bounded(Written(r))
    BY WrittenBounded
  <2>3. QED
    BY <2>1, <2>2 DEF RunInv, Bounded
<1>5. ASSUME NEW r \in Replies, EndsOnReply(r)
      PROVE  RunInv' /\ Bounded(trace')
  <2>1. trace' = Written(r) /\ pc' = "ended"
    BY <1>5 DEF EndsOnReply, Finish
  <2>2. Bounded(Written(r))
    BY WrittenBounded
  <2>3. QED
    BY <2>1, <2>2 DEF RunInv, Bounded
<1>6. ASSUME NEW r \in Replies, Answers(r)
      PROVE  RunInv' /\ Bounded(trace')
  <2>1. trace' = Written(r) /\ pc' = "ended"
    BY <1>6 DEF Answers, Finish
  <2>2. Bounded(Written(r))
    BY WrittenBounded
  <2>3. QED
    BY <2>1, <2>2 DEF RunInv, Bounded
<1>7. ASSUME NEW r \in Replies, Nudge(r)
      PROVE  RunInv' /\ Bounded(trace')
  <2>1. trace' = Append(Written(r), Entry("note"))
    BY <1>7 DEF Nudge
  <2>2. Bounded(Append(Written(r), Entry("note")))
    BY WrittenBounded, TextBounded
  <2>3. RunInv'
    BY <2>1, WrittenBounded, EntryShape, RunCut
  <2>4. QED
    BY <2>1, <2>2, <2>3 DEF Bounded
<1>8. ASSUME NEW r \in Replies, NoProgress(r)
      PROVE  RunInv' /\ Bounded(trace')
  <2>1. trace' = Written(r) /\ pc' = "ended"
    BY <1>8 DEF NoProgress, Finish
  <2>2. Bounded(Written(r))
    BY WrittenBounded
  <2>3. QED
    BY <2>1, <2>2 DEF RunInv, Bounded
<1>9. ASSUME NEW r \in Replies, Repair(r)
      PROVE  RunInv' /\ Bounded(trace')
  <2>1. trace' = Append(Called(r), Entry("repair")) /\ Calling(r) /\ ~Loops(r.intents)
    BY <1>9 DEF Repair
  <2>2. Called(r) \in Seq(Entries) /\ Bounded(Called(r))
    BY <2>1, Wrote, CallBounded
  <2>3. Bounded(Append(Called(r), Entry("repair")))
    BY <2>2, TextBounded
  <2>4. RunInv'
    BY <2>1, <2>2, EntryShape, RunCut
  <2>5. QED
    BY <2>1, <2>3, <2>4 DEF Bounded
<1>10. ASSUME NEW r \in Replies, RepairFails(r)
      PROVE  RunInv' /\ Bounded(trace')
  <2>1. trace' = Called(r) /\ pc' = "ended" /\ Calling(r) /\ ~Loops(r.intents)
    BY <1>10 DEF RepairFails, Finish
  <2>2. Bounded(Called(r))
    BY <2>1, CallBounded
  <2>3. QED
    BY <2>1, <2>2 DEF RunInv, Bounded
<1>11. ASSUME NEW r \in Replies, Execute(r)
      PROVE  RunInv' /\ Bounded(trace')
  <2>1. trace' = Called(r) /\ Calling(r) /\ ~Loops(r.intents)
    BY <1>11 DEF Execute
  <2>2. Bounded(Called(r))
    BY <2>1, CallBounded
  <2>3. RunInv'
    BY <1>11, RunExecute
  <2>4. QED
    BY <2>1, <2>2, <2>3 DEF Bounded
<1>12. CASE StartGroup
  <2>1. UNCHANGED <<trace, recent, retries, pc>>
    BY <1>12 DEF StartGroup, guardVars
  <2>2. QED
    BY <2>1, RunSame DEF Bounded
<1>13. CASE GroupDone
  <2>1. UNCHANGED <<trace, recent, retries, pc>>
    BY <1>13 DEF GroupDone, guardVars
  <2>2. QED
    BY <2>1, RunSame DEF Bounded
<1>14. CASE StepDone
  <2>1. trace' = Append(trace, Entry("answer"))
    BY <1>14 DEF StepDone
  <2>2. Bounded(Append(trace, Entry("answer")))
    BY AnswerBounded
  <2>3. RunInv'
    BY <1>14, RunStepDone
  <2>4. QED
    BY <2>1, <2>2, <2>3 DEF Bounded
<1>15. CASE StepThrows
  <2>1. UNCHANGED trace /\ pc' = "ended"
    BY <1>15 DEF StepThrows, Finish
  <2>2. QED
    BY <2>1 DEF RunInv, Bounded
<1>16. ASSUME NEW a \in approvals, NEW g \in BOOLEAN, Resolve(a, g)
      PROVE  RunInv' /\ Bounded(trace')
  <2>1. UNCHANGED <<trace, recent, retries, pc>>
    BY <1>16 DEF Resolve, guardVars
  <2>2. QED
    BY <2>1, RunSame DEF Bounded
<1>17. ASSUME NEW i \in group, NEW o \in {"ok", "failed", "unavailable"}, HandlerReturns(i, o)
      PROVE  RunInv' /\ Bounded(trace')
  <2>1. UNCHANGED <<trace, recent, retries, pc>>
    BY <1>17 DEF HandlerReturns, guardVars
  <2>2. QED
    BY <2>1, RunSame DEF Bounded
<1>18. ASSUME NEW i \in group, CallTimeout(i)
      PROVE  RunInv' /\ Bounded(trace')
  <2>1. UNCHANGED <<trace, recent, retries, pc>>
    BY <1>18 DEF CallTimeout, guardVars
  <2>2. QED
    BY <2>1, RunSame DEF Bounded
<1>19. ASSUME NEW i \in group, Deferred(i)
      PROVE  RunInv' /\ Bounded(trace')
  <2>1. UNCHANGED <<trace, recent, retries, pc>>
    BY <1>19 DEF Deferred, guardVars
  <2>2. QED
    BY <2>1, RunSame DEF Bounded
<1>20. ASSUME NEW i \in group, DeferThrows(i)
      PROVE  RunInv' /\ Bounded(trace')
  <2>1. UNCHANGED trace /\ pc' = "ended"
    BY <1>20 DEF DeferThrows, Finish
  <2>2. QED
    BY <2>1 DEF RunInv, Bounded
<1>21. ASSUME NEW why \in {"stopped", "timeout"}, Abort(why)
      PROVE  RunInv' /\ Bounded(trace')
  <2>1. UNCHANGED <<trace, recent, retries, pc>>
    BY <1>21 DEF Abort, guardVars
  <2>2. QED
    BY <2>1, RunSame DEF Bounded
<1>22. CASE UNCHANGED vars
  BY <1>22, RunSame DEF vars, guardVars, Bounded
<1>23. QED
  BY <1>1, <1>2, <1>3, <1>4, <1>5, <1>6, <1>7, <1>8, <1>9, <1>10, <1>11, <1>12, <1>13,
     <1>14, <1>15, <1>16, <1>17, <1>18, <1>19, <1>20, <1>21, <1>22
  DEF Next, Replied

\* The repeat guard, for every ring, limit and sequence of replies: the same call is
\* announced in a row at most as often as the limit and the retries of temporary
\* failures allow.  The loop never counts the calls of a row: the ring forgets what
\* came before it and the retries are kept per signature, and RunInv says what of a
\* row the two still know.
THEOREM RepeatsAreBounded == Spec => []RepeatsBounded
<1> DEFINE Inv == RunInv /\ Bounded(trace)
<1>1. Init => Inv
  <2> SUFFICES ASSUME Init PROVE Inv
    OBVIOUS
  <2>1. trace = <<>>
    BY DEF Init
  <2>2. Bounded(trace)
    BY <2>1 DEF Bounded
  <2>3. \A i \in 1..Len(trace) + 1 : CallsOf(trace, i, Len(trace)) = {}
    BY <2>1 DEF CallsOf
  <2>4. QED
    BY <2>2, <2>3 DEF RunInv
<1>2. Typed /\ Inv /\ [Next]_vars => Inv'
  BY RepeatStep DEF Typed
<1>3. Typed /\ Inv => RepeatsBounded
  <2> SUFFICES ASSUME Typed, Inv, NEW i \in DOMAIN trace, NEW j \in DOMAIN trace, i <= j,
                      SameCalls(trace, trace[i].sig, i, j)
               PROVE  Cardinality(CallsOf(trace, i, j)) <= IdenticalCalls - 1 + TransientRetries
    BY DEF RepeatsBounded, SameCalls, CallsOf
  <2>1. trace[i] \in Entries
    BY DEF Typed, Traced
  <2>2. trace[i].sig \in Sigs
    BY <2>1 DEF Entries, Sigs
  <2>3. QED
    BY <2>2 DEF Bounded
<1>4. QED
  BY <1>1, <1>2, <1>3, TypedAlways, PTL DEF Spec

=============================================================================
