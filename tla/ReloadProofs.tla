---------------------------- MODULE ReloadProofs ----------------------------
(***************************************************************************)
(* Proofs about AgentReload for any number of turns and reloads, any cap   *)
(* and every overlap of reloads, disposes and stops: type correctness,     *)
(* that an instance a waiting reload swaps stays idle, and that the agent  *)
(* is wedged in no way but the three that the histories record.            *)
(***************************************************************************)
EXTENDS AgentReload, TLAPS

\* The entry of #reloads belongs to a reload that waits.
PendingWaits == pending # None => pending \in waited /\ phase[pending] = "waiting"

\* A reload that was asked for knows the instance it replaces, and one that
\* waited is past its first trial.
Asked ==
    /\ \A r \in Reloads : phase[r] # "off" => old[r] \in Instances
    /\ \A r \in waited : phase[r] \notin {"off", "checking"}

TypeInv == TypeOK /\ PendingWaits /\ Asked

\* An instance retires into a reload that replaces it.
RetiresItsOwn ==
    \A i \in Instances : retire[i] # None => retire[i] \in waited /\ old[retire[i]] = i

\* A successor is promised by a reload that waited, when it is done.
HeirAtEnd == \A r \in Reloads : heir[r] # None => r \in waited /\ phase[r] = "done"

\* An instance that was ever hosted has been adopted, and is adopted once.
BornOnce ==
    \A q \in Reloads :
        (hosted = q \/ \E r \in Reloads : old[r] = q) => phase[q] \in {"starting", "done"}

OrderInv == RetiresItsOwn /\ HeirAtEnd /\ BornOnce

Swapping(r) == r \in waited /\ phase[r] \in {"trial", "dispose", "adopt", "starting"}
Replaced(r) == r \in waited /\ heir[r] \notin {None, old[r]}

\* From complete() on, the old instance of a reload defers every new turn and
\* has none running.
Sealed ==
    \A r \in Reloads : Swapping(r) \/ Replaced(r) =>
        Deferring(old[r]) /\ InFlight(old[r]) = {}

\* One waiting reload at a time swaps an instance: only its own refusal reopens it ...
OneSwap ==
    \A q, r \in Reloads : Swapping(q) /\ Swapping(r) /\ old[q] = old[r] => q = r

\* ... and an instance that left #agents never comes back to be reopened.
GoneForGood ==
    \A r \in Reloads :
        (Swapping(r) /\ phase[r] \in {"adopt", "starting"}) \/ Replaced(r) => hosted # old[r]

SwapInv ==
    /\ Sealed /\ OneSwap /\ GoneForGood

\* The instance of the pending reload calls it back, unless the reload began to
\* wait too late: only then does another reload's failure take the callback away.
PendingRetires == pending # None => retire[old[pending]] = pending \/ pending \in raced

\* A hosted instance retires, holding or not, into a reload that will let it go.
RetireIsAnswered ==
    hosted # None /\ ~stopped /\ retire[hosted] # None =>
        Alive(retire[hosted]) \/ Leaving \/ retire[hosted] \in superseded \/ hosted \in orphaned

\* A surface looks, waits or runs, one at a time.
OnePlace ==
    \A t \in Turns : /\ seen[t] # None => running[t] = None /\ ticket[t] = None
                     /\ ticket[t] # None => running[t] = None

WedgeInv == OnePlace /\ PendingRetires /\ RetireIsAnswered /\ PendingHasTurn

------------------------------------------------------------------------------
(* Type correctness *)

LEMMA NoneIsNoNumber == None \notin Reloads /\ None \notin Instances /\ Reloads \subseteq Instances
  BY ReloadConstants DEF Reloads, Instances

\* The instance that a given-up reload was to replace.
LEMMA OrphansAre ==
    TypeInv => /\ Orphans \subseteq Instances
               /\ pending # None => old[pending] \in Instances /\ old[pending] \in Orphans
  BY NoneIsNoNumber DEF TypeInv, TypeOK, PendingWaits, Asked, Orphans

LEMMA TypeInit == Init => TypeInv
  BY NoneIsNoNumber DEF Init, TypeInv, TypeOK, PendingWaits, Asked, Phase, Instances

LEMMA TypeStep == TypeInv /\ [Next]_vars => TypeInv'
<1> SUFFICES ASSUME TypeInv, [Next]_vars PROVE TypeInv'
  OBVIOUS
<1> USE NoneIsNoNumber DEF TypeInv, TypeOK, PendingWaits, Asked, Phase, runtime, reload, agent, turns, history
<1>1. ASSUME NEW r \in Reloads, Ask(r) PROVE TypeInv'
  BY <1>1 DEF Ask, Go
<1>2. ASSUME NEW r \in Reloads, HoldElapses(r) PROVE TypeInv'
  BY <1>2 DEF HoldElapses, Held
<1>3. ASSUME NEW r \in Reloads, CheckFails(r) PROVE TypeInv'
  BY <1>3 DEF CheckFails, Go
<1>4. ASSUME NEW r \in Reloads, Retire(r) PROVE TypeInv'
  BY <1>4 DEF Retire, Go
<1>5. ASSUME NEW r \in Reloads, TrialFails(r) PROVE TypeInv'
  BY <1>5 DEF TrialFails, Go, Failed
<1>6. ASSUME NEW r \in Reloads, NothingToDispose(r) PROVE TypeInv'
  BY <1>6 DEF NothingToDispose, Go, AdoptBegins, Failed
<1>7. ASSUME NEW r \in Reloads, DisposeRefuses(r) PROVE TypeInv'
  BY <1>7, OrphansAre DEF DisposeRefuses, Failed, Unarmed, Abandoned, GivenUp
<1>8. ASSUME NEW r \in Reloads, DisposeBegins(r) PROVE TypeInv'
  BY <1>8 DEF DisposeBegins, Unarmed, Abandoned, GivenUp
<1>9. ASSUME NEW r \in Reloads, Disposed(r) PROVE TypeInv'
  BY <1>9 DEF Disposed, Go, AdoptBegins, Failed
<1>10. ASSUME NEW r \in Reloads, AdoptFails(r) PROVE TypeInv'
  BY <1>10 DEF AdoptFails, Go, Failed
<1>11. ASSUME NEW r \in Reloads, Adopted(r) PROVE TypeInv'
  BY <1>11 DEF Adopted, Go
<1>12. ASSUME NEW r \in Reloads, Loaded(r) PROVE TypeInv'
  BY <1>12 DEF Loaded, Go, Settle
<1>13. CASE AskDispose
  BY <1>13, OrphansAre DEF AskDispose, Unarmed, Abandoned, GivenUp
<1>14. CASE CloseEnds
  BY <1>14 DEF CloseEnds
<1>15. CASE Stop
  BY <1>15 DEF Stop, Unarmed, Abandoned, GivenUp
<1>16. ASSUME NEW t \in Turns, Find(t) PROVE TypeInv'
  BY <1>16 DEF Find
<1>17. ASSUME NEW t \in Turns, Defer(t) PROVE TypeInv'
  BY <1>17 DEF Defer
<1>18. ASSUME NEW t \in Turns, Admit(t) PROVE TypeInv'
  BY <1>18 DEF Admit
<1>19. ASSUME NEW t \in Turns, Resume(t) PROVE TypeInv'
  BY <1>19 DEF Resume
<1>20. ASSUME NEW t \in Turns, TurnEnds(t) PROVE TypeInv'
  BY <1>20 DEF TurnEnds, Complete, Go, Held
<1>21. CASE UNCHANGED vars
  BY <1>21 DEF vars
<1>22. QED
  BY <1>1, <1>2, <1>3, <1>4, <1>5, <1>6, <1>7, <1>8, <1>9, <1>10, <1>11, <1>12, <1>13, <1>14, <1>15, <1>16, <1>17, <1>18, <1>19, <1>20, <1>21 DEF Next, ReloadStep, Surface

LEMMA TypeAlways == Spec => []TypeInv
<1>1. TypeInv /\ [Next]_vars => TypeInv'
  BY TypeStep
<1>2. QED
  BY <1>1, TypeInit, PTL DEF Spec

\* The runtime, its reloads, the instances and the turns keep their types, and
\* only a reload that waited has a hold timer or a successor promise.
THEOREM ReloadTypeCorrect == Spec => []TypeOK
<1>1. TypeInv => TypeOK
  BY DEF TypeInv
<1>2. QED
  BY <1>1, TypeAlways, PTL

------------------------------------------------------------------------------
(* Swaps *)

LEMMA SwapInit == Init => OrderInv /\ SwapInv
  BY NoneIsNoNumber DEF Init, OrderInv, RetiresItsOwn, HeirAtEnd, BornOnce, SwapInv,
     Sealed, OneSwap, GoneForGood, Swapping, Replaced, Reloads

LEMMA OrderStep == TypeInv /\ OrderInv /\ [Next]_vars => OrderInv'
<1> SUFFICES ASSUME TypeInv, OrderInv, [Next]_vars PROVE OrderInv'
  OBVIOUS
<1> USE NoneIsNoNumber DEF TypeInv, TypeOK, PendingWaits, Asked, Phase,
        OrderInv, RetiresItsOwn, HeirAtEnd, BornOnce, runtime, reload, agent, turns, history
<1>1. ASSUME NEW r \in Reloads, Ask(r) PROVE OrderInv'
  BY <1>1 DEF Ask, Go
<1>2. ASSUME NEW r \in Reloads, HoldElapses(r) PROVE OrderInv'
  BY <1>2 DEF HoldElapses, Held
<1>3. ASSUME NEW r \in Reloads, CheckFails(r) PROVE OrderInv'
  BY <1>3 DEF CheckFails, Go
<1>4. ASSUME NEW r \in Reloads, Retire(r) PROVE OrderInv'
  BY <1>4 DEF Retire, Go
<1>5. ASSUME NEW r \in Reloads, TrialFails(r) PROVE OrderInv'
  BY <1>5 DEF TrialFails, Go, Failed
<1>6. ASSUME NEW r \in Reloads, NothingToDispose(r) PROVE OrderInv'
  BY <1>6 DEF NothingToDispose, Go, AdoptBegins, Failed
<1>7. ASSUME NEW r \in Reloads, DisposeRefuses(r) PROVE OrderInv'
  BY <1>7 DEF DisposeRefuses, Failed, GivenUp
<1>8. ASSUME NEW r \in Reloads, DisposeBegins(r) PROVE OrderInv'
  BY <1>8 DEF DisposeBegins, GivenUp
<1>9. ASSUME NEW r \in Reloads, Disposed(r) PROVE OrderInv'
  BY <1>9 DEF Disposed, Go, AdoptBegins, Failed
<1>10. ASSUME NEW r \in Reloads, AdoptFails(r) PROVE OrderInv'
  BY <1>10 DEF AdoptFails, Go, Failed
<1>11. ASSUME NEW r \in Reloads, Adopted(r) PROVE OrderInv'
  BY <1>11 DEF Adopted, Go
<1>12. ASSUME NEW r \in Reloads, Loaded(r) PROVE OrderInv'
  BY <1>12 DEF Loaded, Go, Settle
<1>13. CASE AskDispose
  BY <1>13 DEF AskDispose, GivenUp
<1>14. CASE CloseEnds
  BY <1>14 DEF CloseEnds
<1>15. CASE Stop
  BY <1>15 DEF Stop, GivenUp
<1>16. ASSUME NEW t \in Turns, Find(t) PROVE OrderInv'
  BY <1>16 DEF Find
<1>17. ASSUME NEW t \in Turns, Defer(t) PROVE OrderInv'
  BY <1>17 DEF Defer
<1>18. ASSUME NEW t \in Turns, Admit(t) PROVE OrderInv'
  BY <1>18 DEF Admit
<1>19. ASSUME NEW t \in Turns, Resume(t) PROVE OrderInv'
  BY <1>19 DEF Resume
<1>20. ASSUME NEW t \in Turns, TurnEnds(t) PROVE OrderInv'
  BY <1>20 DEF TurnEnds, Complete, Go, Held
<1>21. CASE UNCHANGED vars
  BY <1>21 DEF vars
<1>22. QED
  BY <1>1, <1>2, <1>3, <1>4, <1>5, <1>6, <1>7, <1>8, <1>9, <1>10, <1>11, <1>12, <1>13, <1>14, <1>15, <1>16, <1>17, <1>18, <1>19, <1>20, <1>21 DEF Next, ReloadStep, Surface

LEMMA SwapStep == TypeInv /\ OrderInv /\ SwapInv /\ [Next]_vars => SwapInv'
<1> SUFFICES ASSUME TypeInv, OrderInv, SwapInv, [Next]_vars PROVE SwapInv'
  OBVIOUS
<1> USE NoneIsNoNumber DEF TypeInv, TypeOK, PendingWaits, Asked, Phase,
        OrderInv, RetiresItsOwn, HeirAtEnd, BornOnce, SwapInv, Sealed, OneSwap,
        GoneForGood, Swapping, Replaced, Deferring, InFlight, runtime, reload, agent, turns, history
<1>1. ASSUME NEW r \in Reloads, Ask(r) PROVE SwapInv'
  BY <1>1 DEF Ask, Go
<1>2. ASSUME NEW r \in Reloads, HoldElapses(r) PROVE SwapInv'
  BY <1>2 DEF HoldElapses, Held
<1>3. ASSUME NEW r \in Reloads, CheckFails(r) PROVE SwapInv'
  BY <1>3 DEF CheckFails, Go
<1>4. ASSUME NEW r \in Reloads, Retire(r) PROVE SwapInv'
  BY <1>4 DEF Retire, Go
<1>5. ASSUME NEW r \in Reloads, TrialFails(r) PROVE SwapInv'
  BY <1>5 DEF TrialFails, Go, Failed
<1>6. ASSUME NEW r \in Reloads, NothingToDispose(r) PROVE SwapInv'
  BY <1>6 DEF NothingToDispose, Go, AdoptBegins, Failed
<1>7. ASSUME NEW r \in Reloads, DisposeRefuses(r) PROVE SwapInv'
  BY <1>7 DEF DisposeRefuses, Failed, GivenUp
<1>8. ASSUME NEW r \in Reloads, DisposeBegins(r) PROVE SwapInv'
  BY <1>8 DEF DisposeBegins, GivenUp
<1>9. ASSUME NEW r \in Reloads, Disposed(r) PROVE SwapInv'
  BY <1>9 DEF Disposed, Go, AdoptBegins, Failed
<1>10. ASSUME NEW r \in Reloads, AdoptFails(r) PROVE SwapInv'
  BY <1>10 DEF AdoptFails, Go, Failed
<1>11. ASSUME NEW r \in Reloads, Adopted(r) PROVE SwapInv'
  BY <1>11 DEF Adopted, Go
<1>12. ASSUME NEW r \in Reloads, Loaded(r) PROVE SwapInv'
  BY <1>12 DEF Loaded, Go, Settle
<1>13. CASE AskDispose
  BY <1>13 DEF AskDispose, GivenUp
<1>14. CASE CloseEnds
  BY <1>14 DEF CloseEnds
<1>15. CASE Stop
  BY <1>15 DEF Stop, GivenUp
<1>16. ASSUME NEW t \in Turns, Find(t) PROVE SwapInv'
  BY <1>16 DEF Find
<1>17. ASSUME NEW t \in Turns, Defer(t) PROVE SwapInv'
  BY <1>17 DEF Defer
<1>18. ASSUME NEW t \in Turns, Admit(t) PROVE SwapInv'
  BY <1>18 DEF Admit
<1>19. ASSUME NEW t \in Turns, Resume(t) PROVE SwapInv'
  BY <1>19 DEF Resume
<1>20. ASSUME NEW t \in Turns, TurnEnds(t) PROVE SwapInv'
  BY <1>20 DEF TurnEnds, Complete, Go, Held
<1>21. CASE UNCHANGED vars
  BY <1>21 DEF vars
<1>22. QED
  BY <1>1, <1>2, <1>3, <1>4, <1>5, <1>6, <1>7, <1>8, <1>9, <1>10, <1>11, <1>12, <1>13, <1>14, <1>15, <1>16, <1>17, <1>18, <1>19, <1>20, <1>21 DEF Next, ReloadStep, Surface

LEMMA SwapSafe == TypeInv /\ SwapInv => SwappedStaysIdle
  BY DEF TypeInv, TypeOK, SwapInv, Sealed, Swapping, Replaced, SwappedStaysIdle

\* A reload that waited for running turns swaps an idle instance, and no turn
\* gets in on it afterwards, for any number of turns and reloads and every
\* overlap of reloads, disposes and stops.
THEOREM SwapsIdle == Spec => []SwappedStaysIdle
<1>1. OrderInv /\ SwapInv /\ TypeInv /\ [Next]_vars => (OrderInv /\ SwapInv)'
  BY OrderStep, SwapStep
<1>2. Spec => [](OrderInv /\ SwapInv)
  BY <1>1, SwapInit, TypeAlways, PTL DEF Spec
<1>3. QED
  BY <1>2, SwapSafe, TypeAlways, PTL

------------------------------------------------------------------------------
(* Nothing is wedged *)

LEMMA WedgeInit == Init => WedgeInv
  BY NoneIsNoNumber DEF Init, WedgeInv, OnePlace, PendingRetires, RetireIsAnswered, PendingHasTurn, Instances

LEMMA WedgeStep == TypeInv /\ OrderInv /\ SwapInv /\ WedgeInv /\ [Next]_vars => WedgeInv'
<1> SUFFICES ASSUME TypeInv, OrderInv, SwapInv, WedgeInv, [Next]_vars PROVE WedgeInv'
  OBVIOUS
<1> USE NoneIsNoNumber DEF TypeInv, TypeOK, PendingWaits, Asked, Phase,
        OrderInv, RetiresItsOwn, HeirAtEnd, BornOnce, SwapInv, Sealed, GoneForGood, Swapping, Replaced,
        WedgeInv, OnePlace, PendingRetires, RetireIsAnswered, PendingHasTurn, Alive, Leaving,
        InFlight, runtime, reload, agent, turns, history
<1>1. ASSUME NEW r \in Reloads, Ask(r) PROVE WedgeInv'
  BY <1>1 DEF Ask, Go
<1>2. ASSUME NEW r \in Reloads, HoldElapses(r) PROVE WedgeInv'
  BY <1>2 DEF HoldElapses, Held
<1>3. ASSUME NEW r \in Reloads, CheckFails(r) PROVE WedgeInv'
  BY <1>3 DEF CheckFails, Go
<1>4. ASSUME NEW r \in Reloads, Retire(r) PROVE WedgeInv'
  BY <1>4 DEF Retire, Go
<1>5. ASSUME NEW r \in Reloads, TrialFails(r) PROVE WedgeInv'
  BY <1>5 DEF TrialFails, Go, Failed
<1>6. ASSUME NEW r \in Reloads, NothingToDispose(r) PROVE WedgeInv'
  BY <1>6 DEF NothingToDispose, Go, AdoptBegins, Failed
<1>7. ASSUME NEW r \in Reloads, DisposeRefuses(r) PROVE WedgeInv'
  <2>1. OnePlace' /\ PendingRetires' /\ PendingHasTurn'
    BY <1>7 DEF DisposeRefuses
  <2>2. /\ hosted' = hosted /\ stopped' = stopped /\ closing' = closing /\ pending' = None
        /\ \A q \in Reloads : phase'[q] = IF q \in {r, pending} THEN "done" ELSE phase[q]
        /\ superseded' = superseded /\ orphaned \subseteq orphaned'
        /\ pending # None => old[pending] \in orphaned'
        /\ phase[r] = "trial"
    BY <1>7, OrphansAre DEF DisposeRefuses, GivenUp
  <2>3. hosted # None =>
          \/ retire'[hosted] = retire[hosted] /\ retire[hosted] # r
          \/ retire'[hosted] = None
    BY <1>7 DEF DisposeRefuses, Failed
  <2>4. RetireIsAnswered'
    BY <2>2, <2>3
  <2>5. QED
    BY <2>1, <2>4
<1>8. ASSUME NEW r \in Reloads, DisposeBegins(r) PROVE WedgeInv'
  BY <1>8 DEF DisposeBegins, GivenUp
<1>9. ASSUME NEW r \in Reloads, Disposed(r) PROVE WedgeInv'
  BY <1>9 DEF Disposed, Go, AdoptBegins, Failed
<1>10. ASSUME NEW r \in Reloads, AdoptFails(r) PROVE WedgeInv'
  BY <1>10 DEF AdoptFails, Go, Failed
<1>11. ASSUME NEW r \in Reloads, Adopted(r) PROVE WedgeInv'
  BY <1>11 DEF Adopted, Go
<1>12. ASSUME NEW r \in Reloads, Loaded(r) PROVE WedgeInv'
  BY <1>12 DEF Loaded, Go, Settle
<1>13. ASSUME NEW t \in Turns, Find(t) PROVE WedgeInv'
  BY <1>13 DEF Find
<1>14. ASSUME NEW t \in Turns, Defer(t) PROVE WedgeInv'
  BY <1>14 DEF Defer
<1>15. ASSUME NEW t \in Turns, Admit(t) PROVE WedgeInv'
  BY <1>15 DEF Admit
<1>16. ASSUME NEW t \in Turns, Resume(t) PROVE WedgeInv'
  BY <1>16 DEF Resume
<1>17. ASSUME NEW t \in Turns, TurnEnds(t) PROVE WedgeInv'
  BY <1>17 DEF TurnEnds, Complete, Go, Held
<1>18. CASE AskDispose
  <2>1. OnePlace' /\ PendingRetires' /\ PendingHasTurn'
    BY <1>18 DEF AskDispose
  <2>2. /\ hosted' = hosted /\ stopped' = stopped /\ retire' = retire /\ superseded' = superseded
        /\ \A q \in Reloads : q # pending => phase'[q] = phase[q]
        /\ closing' \/ (orphaned \subseteq orphaned' /\ (pending # None => old[pending] \in orphaned'))
        /\ ~closing
    BY <1>18, OrphansAre DEF AskDispose, GivenUp
  <2>3. RetireIsAnswered'
    BY <2>2
  <2>4. QED
    BY <2>1, <2>3
<1>19. CASE CloseEnds
  BY <1>19 DEF CloseEnds
<1>20. CASE Stop
  BY <1>20 DEF Stop, GivenUp
<1>21. CASE UNCHANGED vars
  BY <1>21 DEF vars
<1>22. QED
  BY <1>1, <1>2, <1>3, <1>4, <1>5, <1>6, <1>7, <1>8, <1>9, <1>10, <1>11, <1>12, <1>13, <1>14, <1>15, <1>16, <1>17, <1>18, <1>19, <1>20, <1>21 DEF Next, ReloadStep, Surface

\* Whatever reloads, disposes, stops and turns do, a pending reload has a running turn
\* to complete it and an agent that holds turns back has somebody to answer them, but
\* for a reload whose last turn ended in its first trial, one that another reload
\* overwrote, and an agent whose reload a dispose gave up before it refused.
THEOREM NothingWedges == Spec => []NeverWedged
<1>1. WedgeInv => NeverWedged
  BY DEF WedgeInv, RetireIsAnswered, NeverWedged, HoldIsAnswered, Deferring
<1>2. TypeInv /\ OrderInv /\ SwapInv /\ [Next]_vars => (OrderInv /\ SwapInv)'
  BY OrderStep, SwapStep
<1>3. TypeInv /\ OrderInv /\ SwapInv /\ WedgeInv /\ [Next]_vars => WedgeInv'
  BY WedgeStep
<1>4. Spec => [](OrderInv /\ SwapInv)
  BY <1>2, SwapInit, TypeAlways, PTL DEF Spec
<1>5. Spec => []WedgeInv
  BY <1>3, <1>4, WedgeInit, TypeAlways, PTL DEF Spec
<1>6. QED
  BY <1>1, <1>5, PTL
=============================================================================
