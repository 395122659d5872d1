----------------------------- MODULE LeaseProofs -----------------------------
(***************************************************************************)
(* Proofs about Lease for every number of runtimes and processes: type     *)
(* correctness and, where runtimes do not overlap in one process and leave *)
(* no row behind while they live, sole ownership and that an owner keeps   *)
(* its row, for all that never slept and beside any that did.              *)
(***************************************************************************)
EXTENDS Lease, TLAPS

Active == Phase \ {"off", "gone"}
Changing == {"starting", "probing", "booting", "stopping"}

\* A runtime that acts has a process, which no unrelated program is.
Hosted ==
    /\ procs \cap foreign = {}
    /\ \A r \in Runtimes : run[r] \in Active => pid[r] \in procs

\* LIVE_RUNTIMES: every serving runtime is in it, no finished one is.
Registered ==
    /\ \A r \in Runtimes : run[r] = "serving" => r \in built
    /\ \A r \in built : run[r] \notin {"off", "gone", "stopping"}

\* Whoever lives in a wedged process has slept.
Asleep == \A r \in Runtimes : run[r] \in Active /\ pid[r] \in wedged => r \in slept

\* An owner that never slept is the row's holder, with its pid and a fresh heartbeat.
OwnerHolds ==
    \A r \in Runtimes \ slept : Owner(r) => holder = r /\ leasePid = pid[r] /\ age < Reuse

\* A row that names no owner was left by a runtime that is gone.
RowExplained == holder # None => Owner(holder) \/ run[holder] = "gone"

\* What a prober found dead is dead and stays so, or has slept.
VerdictsTrue ==
    \A r \in Runtimes : verdict[r] # None => run[verdict[r]] = "gone" \/ verdict[r] \in slept

\* One boot, adoption or stop at a time in one process.
OneAtATime ==
    \A r, x \in Runtimes :
        run[r] \in Changing /\ run[x] \in Changing /\ pid[r] = pid[x] => r = x

OwnInv ==
    /\ Asleep /\ Hosted /\ Registered
    /\ OwnerHolds /\ RowExplained /\ VerdictsTrue /\ OneAtATime

------------------------------------------------------------------------------
(* Type correctness *)

LEMMA TypeStep == TypeOK /\ [Next]_vars => TypeOK'
<1> SUFFICES ASSUME TypeOK, [Next]_vars PROVE TypeOK'
  OBVIOUS
<1> USE LeaseConstants DEF TypeOK, Phase
<1>1. ASSUME NEW r \in Runtimes, NEW p \in Pids, Start(r, p) PROVE TypeOK'
  BY <1>1 DEF Start, Go, row
<1>2. ASSUME NEW r \in Runtimes, Adopt(r) PROVE TypeOK'
  BY <1>2 DEF Adopt, At, Go, row, machine
<1>3. ASSUME NEW r \in Runtimes, Probe(r) PROVE TypeOK'
  BY <1>3 DEF Probe, At, Go, row, machine
<1>4. ASSUME NEW r \in Runtimes, Claim(r) PROVE TypeOK'
  BY <1>4 DEF Claim, At, Go, row, machine
<1>5. ASSUME NEW r \in Runtimes, Decline(r) PROVE TypeOK'
  BY <1>5 DEF Decline, At, Go, row, machine
<1>6. ASSUME NEW r \in Runtimes, Construct(r) PROVE TypeOK'
  BY <1>6 DEF Construct, At, Go, row, machine
<1>7. ASSUME NEW r \in Runtimes, BootFails(r) PROVE TypeOK'
  BY <1>7 DEF BootFails, At, Go, row, machine
<1>8. ASSUME NEW r \in Runtimes, Beat(r) PROVE TypeOK'
  BY <1>8 DEF Beat, At, Go, row, machine
<1>9. ASSUME NEW r \in Runtimes, Dispose(r) PROVE TypeOK'
  BY <1>9 DEF Dispose, At, Go, row, machine, DeleteRow
<1>10. ASSUME NEW r \in Runtimes, Stop(r) PROVE TypeOK'
  BY <1>10 DEF Stop, At, Go, row, machine
<1>11. ASSUME NEW r \in Runtimes, Stopped(r) PROVE TypeOK'
  BY <1>11 DEF Stopped, At, Go, row, machine, DeleteRow
<1>12. ASSUME NEW r \in Runtimes, Recycle(r) PROVE TypeOK'
  BY <1>12 DEF Recycle, At, Go, row, machine
<1>13. ASSUME NEW p \in Pids, ProcessEnds(p) PROVE TypeOK'
  BY <1>13 DEF ProcessEnds, row
<1>14. ASSUME NEW p \in Pids, ForeignStarts(p) PROVE TypeOK'
  BY <1>14 DEF ForeignStarts, row
<1>15. ASSUME NEW p \in Pids, ForeignEnds(p) PROVE TypeOK'
  BY <1>15 DEF ForeignEnds, row
<1>16. ASSUME NEW p \in Pids, Wedge(p) PROVE TypeOK'
  BY <1>16 DEF Wedge, row
<1>17. ASSUME NEW p \in Pids, Wake(p) PROVE TypeOK'
  BY <1>17 DEF Wake, row
<1>18. CASE Tick
  BY <1>18 DEF Tick, machine
<1>19. CASE UNCHANGED vars
  BY <1>19 DEF vars, row, machine
<1>20. QED
  BY <1>1, <1>2, <1>3, <1>4, <1>5, <1>6, <1>7, <1>8, <1>9, <1>10, <1>11, <1>12, <1>13, <1>14, <1>15, <1>16, <1>17, <1>18, <1>19 DEF Next, RuntimeStep, MachineStep

\* The lease row, the runtimes and the machine keep their types in every
\* behaviour, and the row has a pid exactly when it has a holder.
THEOREM LeaseTypeCorrect == Spec => []TypeOK
<1>1. Init => TypeOK
  BY LeaseConstants DEF Init, TypeOK, Phase
<1> QED
  BY <1>1, TypeStep, PTL DEF Spec

------------------------------------------------------------------------------
(* Sole ownership *)

\* A prober's verdict of death is right: the holder it names is gone, or has slept.
LEMMA VerdictSound ==
    ASSUME TypeOK, OwnInv, ~Overlap,
           NEW r \in Runtimes, run[r] = "starting", holder \notin {None, r}, ~Live(r)
    PROVE  run[holder] = "gone" \/ holder \in slept
<1>1. SUFFICES ASSUME Owner(holder), holder \notin slept PROVE FALSE
  BY DEF OwnInv, RowExplained
<1>2. holder \in Runtimes /\ leasePid = pid[holder] /\ age < Reuse
  BY <1>1 DEF TypeOK, OwnInv, OwnerHolds
<1>3. leasePid \in procs /\ leasePid \notin foreign
  BY <1>1, <1>2 DEF OwnInv, Hosted, Owner, Active, Phase
<1>4. leasePid = pid[r] /\ holder \notin built
  BY <1>2, <1>3 DEF Live
<1>5. run[holder] \in Changing
  BY <1>1, <1>2, <1>4 DEF OwnInv, Registered, Owner, Changing
<1> QED
  BY <1>2, <1>4, <1>5 DEF OwnInv, OneAtATime, Changing

LEMMA OwnStep ==
    ASSUME ~Overlap, ~Lapses
    PROVE  TypeOK /\ OwnInv /\ [Next]_vars => OwnInv'
<1> SUFFICES ASSUME TypeOK, OwnInv, [Next]_vars PROVE OwnInv'
  OBVIOUS
<1> USE LeaseConstants DEF OwnInv
<1>1. ASSUME NEW r \in Runtimes, NEW p \in Pids, Start(r, p) PROVE OwnInv'
  <2>1. Asleep'
    BY <1>1 DEF Asleep, Start, At, Go, Active, Phase, TypeOK, row, machine
  <2>2. Hosted'
    BY <1>1 DEF Hosted, Start, Free, Busy, At, Go, Owner, Active, Changing, Phase, TypeOK, row, machine
  <2>3. Registered'
    BY <1>1 DEF Registered, Start, Free, Busy, At, Go, Owner, Active, Changing, Phase, TypeOK, row, machine
  <2>4. OwnerHolds'
    BY <1>1 DEF OwnerHolds, Start, Free, Busy, At, Go, Owner, Active, Changing, Phase, TypeOK, row, machine
  <2>5. RowExplained'
    BY <1>1 DEF RowExplained, Start, Free, Busy, At, Go, Owner, Active, Changing, Phase, TypeOK, row, machine
  <2>6. VerdictsTrue'
    BY <1>1 DEF VerdictsTrue, Start, Free, Busy, At, Go, Owner, Active, Changing, Phase, TypeOK, row, machine
  <2>7. OneAtATime'
    BY <1>1 DEF OneAtATime, Hosted, Start, Free, Busy, At, Go, Owner, Active, Changing, Phase, TypeOK, row, machine
  <2> QED
    BY <2>1, <2>2, <2>3, <2>4, <2>5, <2>6, <2>7
<1>2. ASSUME NEW r \in Runtimes, Adopt(r) PROVE OwnInv'
  <2>1. Asleep'
    BY <1>2 DEF Asleep, Adopt, At, Go, Active, Phase, TypeOK, row, machine
  <2>2. Hosted'
    BY <1>2 DEF Hosted, Adopt, Free, Busy, At, Go, Owner, Active, Changing, Phase, TypeOK, row, machine
  <2>3. Registered'
    BY <1>2 DEF Registered, Adopt, Free, Busy, At, Go, Owner, Active, Changing, Phase, TypeOK, row, machine
  <2>4. OwnerHolds'
    BY <1>2 DEF OwnerHolds, Adopt, Free, Busy, At, Go, Owner, Active, Changing, Phase, TypeOK, row, machine
  <2>5. RowExplained'
    BY <1>2 DEF RowExplained, Adopt, Free, Busy, At, Go, Owner, Active, Changing, Phase, TypeOK, row, machine
  <2>6. VerdictsTrue'
    BY <1>2 DEF VerdictsTrue, Adopt, Free, Busy, At, Go, Owner, Active, Changing, Phase, TypeOK, row, machine
  <2>7. OneAtATime'
    BY <1>2 DEF OneAtATime, Adopt, Free, Busy, At, Go, Owner, Active, Changing, Phase, TypeOK, row, machine
  <2> QED
    BY <2>1, <2>2, <2>3, <2>4, <2>5, <2>6, <2>7
<1>3. ASSUME NEW r \in Runtimes, Probe(r) PROVE OwnInv'
  <2>1. Asleep'
    BY <1>3 DEF Asleep, Probe, At, Go, Active, Phase, TypeOK, row, machine
  <2>2. Hosted'
    BY <1>3 DEF Hosted, Probe, At, Go, Owner, Active, Changing, Phase, TypeOK, row, machine
  <2>3. Registered'
    BY <1>3 DEF Registered, Probe, At, Go, Owner, Active, Changing, Phase, TypeOK, row, machine
  <2>4. OwnerHolds'
    BY <1>3 DEF OwnerHolds, Probe, At, Go, Owner, Active, Changing, Phase, TypeOK, row, machine
  <2>5. RowExplained'
    BY <1>3 DEF RowExplained, Probe, At, Go, Owner, Active, Changing, Phase, TypeOK, row, machine
  <2>6. VerdictsTrue'
    BY <1>3, VerdictSound DEF VerdictsTrue, Probe, At, Go, Owner, Active, Changing, Phase, TypeOK, row, machine
  <2>7. OneAtATime'
    BY <1>3 DEF OneAtATime, Probe, At, Go, Owner, Active, Changing, Phase, TypeOK, row, machine
  <2> QED
    BY <2>1, <2>2, <2>3, <2>4, <2>5, <2>6, <2>7
<1>4. ASSUME NEW r \in Runtimes, Claim(r) PROVE OwnInv'
  <2>1. Asleep'
    BY <1>4 DEF Asleep, Claim, At, Go, Active, Phase, TypeOK, row, machine
  <2>2. Hosted'
    BY <1>4 DEF Hosted, OwnerHolds, RowExplained, VerdictsTrue, Claim, MayTake, At, Go, Owner, Active, Changing, Phase, TypeOK, row, machine
  <2>3. Registered'
    BY <1>4 DEF Registered, OwnerHolds, RowExplained, VerdictsTrue, Claim, MayTake, At, Go, Owner, Active, Changing, Phase, TypeOK, row, machine
  <2>4. OwnerHolds'
    BY <1>4 DEF OwnerHolds, RowExplained, VerdictsTrue, Claim, MayTake, At, Go, Owner, Active, Changing, Phase, TypeOK, row, machine
  <2>5. RowExplained'
    BY <1>4 DEF RowExplained, OwnerHolds, VerdictsTrue, Claim, MayTake, At, Go, Owner, Active, Changing, Phase, TypeOK, row, machine
  <2>6. VerdictsTrue'
    BY <1>4 DEF VerdictsTrue, OwnerHolds, RowExplained, Claim, MayTake, At, Go, Owner, Active, Changing, Phase, TypeOK, row, machine
  <2>7. OneAtATime'
    BY <1>4 DEF OneAtATime, OwnerHolds, RowExplained, VerdictsTrue, Claim, MayTake, At, Go, Owner, Active, Changing, Phase, TypeOK, row, machine
  <2> QED
    BY <2>1, <2>2, <2>3, <2>4, <2>5, <2>6, <2>7
<1>5. ASSUME NEW r \in Runtimes, Decline(r) PROVE OwnInv'
  <2>1. Asleep'
    BY <1>5 DEF Asleep, Decline, At, Go, Active, Phase, TypeOK, row, machine
  <2>2. Hosted'
    BY <1>5 DEF Hosted, Decline, MayTake, At, Go, Owner, Active, Changing, Phase, TypeOK, row, machine
  <2>3. Registered'
    BY <1>5 DEF Registered, Decline, MayTake, At, Go, Owner, Active, Changing, Phase, TypeOK, row, machine
  <2>4. OwnerHolds'
    BY <1>5 DEF OwnerHolds, Decline, MayTake, At, Go, Owner, Active, Changing, Phase, TypeOK, row, machine
  <2>5. RowExplained'
    BY <1>5 DEF RowExplained, Decline, MayTake, At, Go, Owner, Active, Changing, Phase, TypeOK, row, machine
  <2>6. VerdictsTrue'
    BY <1>5 DEF VerdictsTrue, Decline, MayTake, At, Go, Owner, Active, Changing, Phase, TypeOK, row, machine
  <2>7. OneAtATime'
    BY <1>5 DEF OneAtATime, Decline, MayTake, At, Go, Owner, Active, Changing, Phase, TypeOK, row, machine
  <2> QED
    BY <2>1, <2>2, <2>3, <2>4, <2>5, <2>6, <2>7
<1>6. ASSUME NEW r \in Runtimes, Construct(r) PROVE OwnInv'
  <2>1. Asleep'
    BY <1>6 DEF Asleep, Construct, At, Go, Active, Phase, TypeOK, row, machine
  <2>2. Hosted'
    BY <1>6 DEF Hosted, Construct, At, Go, Owner, Active, Changing, Phase, TypeOK, row, machine
  <2>3. Registered'
    BY <1>6 DEF Registered, Construct, At, Go, Owner, Active, Changing, Phase, TypeOK, row, machine
  <2>4. OwnerHolds'
    BY <1>6 DEF OwnerHolds, Construct, At, Go, Owner, Active, Changing, Phase, TypeOK, row, machine
  <2>5. RowExplained'
    BY <1>6 DEF RowExplained, Construct, At, Go, Owner, Active, Changing, Phase, TypeOK, row, machine
  <2>6. VerdictsTrue'
    BY <1>6 DEF VerdictsTrue, Construct, At, Go, Owner, Active, Changing, Phase, TypeOK, row, machine
  <2>7. OneAtATime'
    BY <1>6 DEF OneAtATime, Construct, At, Go, Owner, Active, Changing, Phase, TypeOK, row, machine
  <2> QED
    BY <2>1, <2>2, <2>3, <2>4, <2>5, <2>6, <2>7
<1>7. ASSUME NEW r \in Runtimes, BootFails(r) PROVE OwnInv'
  <2>1. Asleep'
    BY <1>7 DEF Asleep, BootFails, At, Go, Active, Phase, TypeOK, row, machine
  <2>2. Hosted'
    BY <1>7 DEF Hosted, BootFails, At, Go, Owner, Active, Changing, Phase, TypeOK, row, machine
  <2>3. Registered'
    BY <1>7 DEF Registered, BootFails, At, Go, Owner, Active, Changing, Phase, TypeOK, row, machine
  <2>4. OwnerHolds'
    BY <1>7 DEF OwnerHolds, BootFails, At, Go, Owner, Active, Changing, Phase, TypeOK, row, machine
  <2>5. RowExplained'
    BY <1>7 DEF RowExplained, BootFails, At, Go, Owner, Active, Changing, Phase, TypeOK, row, machine
  <2>6. VerdictsTrue'
    BY <1>7 DEF VerdictsTrue, BootFails, At, Go, Owner, Active, Changing, Phase, TypeOK, row, machine
  <2>7. OneAtATime'
    BY <1>7 DEF OneAtATime, BootFails, At, Go, Owner, Active, Changing, Phase, TypeOK, row, machine
  <2> QED
    BY <2>1, <2>2, <2>3, <2>4, <2>5, <2>6, <2>7
<1>8. ASSUME NEW r \in Runtimes, Beat(r) PROVE OwnInv'
  <2>1. Asleep'
    BY <1>8 DEF Asleep, Beat, At, Go, Active, Phase, TypeOK, row, machine
  <2>2. Hosted'
    BY <1>8 DEF Hosted, Beat, At, Go, Owner, Active, Changing, Phase, TypeOK, row, machine
  <2>3. Registered'
    BY <1>8 DEF Registered, Beat, At, Go, Owner, Active, Changing, Phase, TypeOK, row, machine
  <2>4. OwnerHolds'
    BY <1>8 DEF OwnerHolds, Beat, At, Go, Owner, Active, Changing, Phase, TypeOK, row, machine
  <2>5. RowExplained'
    BY <1>8 DEF RowExplained, Beat, At, Go, Owner, Active, Changing, Phase, TypeOK, row, machine
  <2>6. VerdictsTrue'
    BY <1>8 DEF VerdictsTrue, Beat, At, Go, Owner, Active, Changing, Phase, TypeOK, row, machine
  <2>7. OneAtATime'
    BY <1>8 DEF OneAtATime, Beat, At, Go, Owner, Active, Changing, Phase, TypeOK, row, machine
  <2> QED
    BY <2>1, <2>2, <2>3, <2>4, <2>5, <2>6, <2>7
<1>9. ASSUME NEW r \in Runtimes, Dispose(r) PROVE OwnInv'
  <2>1. Asleep'
    BY <1>9 DEF Asleep, Dispose, At, Go, Active, Phase, TypeOK, row, machine
  <2>2. Hosted'
    BY <1>9 DEF Hosted, OwnerHolds, RowExplained, Registered, Dispose, DeleteRow, At, Go, Owner, Active, Changing, Phase, TypeOK, row, machine
  <2>3. Registered'
    BY <1>9 DEF Registered, OwnerHolds, RowExplained, Hosted, Dispose, DeleteRow, At, Go, Owner, Active, Changing, Phase, TypeOK, row, machine
  <2>4. OwnerHolds'
    BY <1>9 DEF OwnerHolds, RowExplained, Registered, Hosted, Dispose, DeleteRow, At, Go, Owner, Active, Changing, Phase, TypeOK, row, machine
  <2>5. RowExplained'
    BY <1>9 DEF RowExplained, OwnerHolds, Registered, Hosted, Dispose, DeleteRow, At, Go, Owner, Active, Changing, Phase, TypeOK, row, machine
  <2>6. VerdictsTrue'
    BY <1>9 DEF VerdictsTrue, OwnerHolds, RowExplained, Registered, Hosted, Dispose, DeleteRow, At, Go, Owner, Active, Changing, Phase, TypeOK, row, machine
  <2>7. OneAtATime'
    BY <1>9 DEF OneAtATime, OwnerHolds, RowExplained, Registered, Hosted, Dispose, DeleteRow, At, Go, Owner, Active, Changing, Phase, TypeOK, row, machine
  <2> QED
    BY <2>1, <2>2, <2>3, <2>4, <2>5, <2>6, <2>7
<1>10. ASSUME NEW r \in Runtimes, Stop(r) PROVE OwnInv'
  <2>1. Asleep'
    BY <1>10 DEF Asleep, Stop, At, Go, Active, Phase, TypeOK, row, machine
  <2>2. Hosted'
    BY <1>10 DEF Hosted, Stop, Free, Busy, At, Go, Owner, Active, Changing, Phase, TypeOK, row, machine
  <2>3. Registered'
    BY <1>10 DEF Registered, Stop, Free, Busy, At, Go, Owner, Active, Changing, Phase, TypeOK, row, machine
  <2>4. OwnerHolds'
    BY <1>10 DEF OwnerHolds, Stop, Free, Busy, At, Go, Owner, Active, Changing, Phase, TypeOK, row, machine
  <2>5. RowExplained'
    BY <1>10 DEF RowExplained, Stop, Free, Busy, At, Go, Owner, Active, Changing, Phase, TypeOK, row, machine
  <2>6. VerdictsTrue'
    BY <1>10 DEF VerdictsTrue, Stop, Free, Busy, At, Go, Owner, Active, Changing, Phase, TypeOK, row, machine
  <2>7. OneAtATime'
    BY <1>10 DEF OneAtATime, Stop, Free, Busy, At, Go, Owner, Active, Changing, Phase, TypeOK, row, machine
  <2> QED
    BY <2>1, <2>2, <2>3, <2>4, <2>5, <2>6, <2>7
<1>11. ASSUME NEW r \in Runtimes, Stopped(r) PROVE OwnInv'
  <2>1. Asleep'
    BY <1>11 DEF Asleep, Stopped, At, Go, Active, Phase, TypeOK, row, machine
  <2>2. Hosted'
    BY <1>11 DEF Hosted, OwnerHolds, RowExplained, Registered, Stopped, DeleteRow, At, Go, Owner, Active, Changing, Phase, TypeOK, row, machine
  <2>3. Registered'
    BY <1>11 DEF Registered, OwnerHolds, RowExplained, Hosted, Stopped, DeleteRow, At, Go, Owner, Active, Changing, Phase, TypeOK, row, machine
  <2>4. OwnerHolds'
    BY <1>11 DEF OwnerHolds, RowExplained, Registered, Hosted, Stopped, DeleteRow, At, Go, Owner, Active, Changing, Phase, TypeOK, row, machine
  <2>5. RowExplained'
    BY <1>11 DEF RowExplained, OwnerHolds, Registered, Hosted, Stopped, DeleteRow, At, Go, Owner, Active, Changing, Phase, TypeOK, row, machine
  <2>6. VerdictsTrue'
    BY <1>11 DEF VerdictsTrue, OwnerHolds, RowExplained, Registered, Hosted, Stopped, DeleteRow, At, Go, Owner, Active, Changing, Phase, TypeOK, row, machine
  <2>7. OneAtATime'
    BY <1>11 DEF OneAtATime, OwnerHolds, RowExplained, Registered, Hosted, Stopped, DeleteRow, At, Go, Owner, Active, Changing, Phase, TypeOK, row, machine
  <2> QED
    BY <2>1, <2>2, <2>3, <2>4, <2>5, <2>6, <2>7
<1>12. ASSUME NEW r \in Runtimes, Recycle(r) PROVE OwnInv'
  <2>1. Asleep'
    BY <1>12 DEF Asleep, Recycle, At, Go, Active, Phase, TypeOK, row, machine
  <2>2. Hosted'
    BY <1>12 DEF Hosted, Recycle, At, Go, Owner, Active, Changing, Phase, TypeOK, row, machine
  <2>3. Registered'
    BY <1>12 DEF Registered, Recycle, At, Go, Owner, Active, Changing, Phase, TypeOK, row, machine
  <2>4. OwnerHolds'
    BY <1>12 DEF OwnerHolds, Recycle, At, Go, Owner, Active, Changing, Phase, TypeOK, row, machine
  <2>5. RowExplained'
    BY <1>12 DEF RowExplained, Recycle, At, Go, Owner, Active, Changing, Phase, TypeOK, row, machine
  <2>6. VerdictsTrue'
    BY <1>12 DEF VerdictsTrue, Recycle, At, Go, Owner, Active, Changing, Phase, TypeOK, row, machine
  <2>7. OneAtATime'
    BY <1>12 DEF OneAtATime, Recycle, At, Go, Owner, Active, Changing, Phase, TypeOK, row, machine
  <2> QED
    BY <2>1, <2>2, <2>3, <2>4, <2>5, <2>6, <2>7
<1>13. ASSUME NEW p \in Pids, ProcessEnds(p) PROVE OwnInv'
  <2>1. Asleep'
    BY <1>13 DEF Asleep, ProcessEnds, At, Go, Active, Phase, TypeOK, row, machine
  <2>2. Hosted'
    BY <1>13 DEF Hosted, ProcessEnds, At, Go, Owner, Active, Changing, Phase, TypeOK, row, machine
  <2>3. Registered'
    BY <1>13 DEF Registered, ProcessEnds, At, Go, Owner, Active, Changing, Phase, TypeOK, row, machine
  <2>4. OwnerHolds'
    BY <1>13 DEF OwnerHolds, ProcessEnds, At, Go, Owner, Active, Changing, Phase, TypeOK, row, machine
  <2>5. RowExplained'
    BY <1>13 DEF RowExplained, ProcessEnds, At, Go, Owner, Active, Changing, Phase, TypeOK, row, machine
  <2>6. VerdictsTrue'
    BY <1>13 DEF VerdictsTrue, ProcessEnds, At, Go, Owner, Active, Changing, Phase, TypeOK, row, machine
  <2>7. OneAtATime'
    BY <1>13 DEF OneAtATime, ProcessEnds, At, Go, Owner, Active, Changing, Phase, TypeOK, row, machine
  <2> QED
    BY <2>1, <2>2, <2>3, <2>4, <2>5, <2>6, <2>7
<1>14. ASSUME NEW p \in Pids, ForeignStarts(p) PROVE OwnInv'
  <2>1. Asleep'
    BY <1>14 DEF Asleep, ForeignStarts, At, Go, Active, Phase, TypeOK, row, machine
  <2>2. Hosted'
    BY <1>14 DEF Hosted, ForeignStarts, At, Go, Owner, Active, Changing, Phase, TypeOK, row, machine
  <2>3. Registered'
    BY <1>14 DEF Registered, ForeignStarts, At, Go, Owner, Active, Changing, Phase, TypeOK, row, machine
  <2>4. OwnerHolds'
    BY <1>14 DEF OwnerHolds, ForeignStarts, At, Go, Owner, Active, Changing, Phase, TypeOK, row, machine
  <2>5. RowExplained'
    BY <1>14 DEF RowExplained, ForeignStarts, At, Go, Owner, Active, Changing, Phase, TypeOK, row, machine
  <2>6. VerdictsTrue'
    BY <1>14 DEF VerdictsTrue, ForeignStarts, At, Go, Owner, Active, Changing, Phase, TypeOK, row, machine
  <2>7. OneAtATime'
    BY <1>14 DEF OneAtATime, ForeignStarts, At, Go, Owner, Active, Changing, Phase, TypeOK, row, machine
  <2> QED
    BY <2>1, <2>2, <2>3, <2>4, <2>5, <2>6, <2>7
<1>15. ASSUME NEW p \in Pids, ForeignEnds(p) PROVE OwnInv'
  <2>1. Asleep'
    BY <1>15 DEF Asleep, ForeignEnds, At, Go, Active, Phase, TypeOK, row, machine
  <2>2. Hosted'
    BY <1>15 DEF Hosted, ForeignEnds, At, Go, Owner, Active, Changing, Phase, TypeOK, row, machine
  <2>3. Registered'
    BY <1>15 DEF Registered, ForeignEnds, At, Go, Owner, Active, Changing, Phase, TypeOK, row, machine
  <2>4. OwnerHolds'
    BY <1>15 DEF OwnerHolds, ForeignEnds, At, Go, Owner, Active, Changing, Phase, TypeOK, row, machine
  <2>5. RowExplained'
    BY <1>15 DEF RowExplained, ForeignEnds, At, Go, Owner, Active, Changing, Phase, TypeOK, row, machine
  <2>6. VerdictsTrue'
    BY <1>15 DEF VerdictsTrue, ForeignEnds, At, Go, Owner, Active, Changing, Phase, TypeOK, row, machine
  <2>7. OneAtATime'
    BY <1>15 DEF OneAtATime, ForeignEnds, At, Go, Owner, Active, Changing, Phase, TypeOK, row, machine
  <2> QED
    BY <2>1, <2>2, <2>3, <2>4, <2>5, <2>6, <2>7
<1>16. ASSUME NEW p \in Pids, Wedge(p) PROVE OwnInv'
  <2>1. Asleep'
    BY <1>16 DEF Asleep, Wedge, At, Go, Active, Phase, TypeOK, row, machine
  <2>2. Hosted'
    BY <1>16 DEF Hosted, Wedge, At, Go, Owner, Active, Changing, Phase, TypeOK, row, machine
  <2>3. Registered'
    BY <1>16 DEF Registered, Wedge, At, Go, Owner, Active, Changing, Phase, TypeOK, row, machine
  <2>4. OwnerHolds'
    BY <1>16 DEF OwnerHolds, Wedge, At, Go, Owner, Active, Changing, Phase, TypeOK, row, machine
  <2>5. RowExplained'
    BY <1>16 DEF RowExplained, Wedge, At, Go, Owner, Active, Changing, Phase, TypeOK, row, machine
  <2>6. VerdictsTrue'
    BY <1>16 DEF VerdictsTrue, Wedge, At, Go, Owner, Active, Changing, Phase, TypeOK, row, machine
  <2>7. OneAtATime'
    BY <1>16 DEF OneAtATime, Wedge, At, Go, Owner, Active, Changing, Phase, TypeOK, row, machine
  <2> QED
    BY <2>1, <2>2, <2>3, <2>4, <2>5, <2>6, <2>7
<1>17. ASSUME NEW p \in Pids, Wake(p) PROVE OwnInv'
  <2>1. Asleep'
    BY <1>17 DEF Asleep, Wake, At, Go, Active, Phase, TypeOK, row, machine
  <2>2. Hosted'
    BY <1>17 DEF Hosted, Wake, At, Go, Owner, Active, Changing, Phase, TypeOK, row, machine
  <2>3. Registered'
    BY <1>17 DEF Registered, Wake, At, Go, Owner, Active, Changing, Phase, TypeOK, row, machine
  <2>4. OwnerHolds'
    BY <1>17 DEF OwnerHolds, Wake, At, Go, Owner, Active, Changing, Phase, TypeOK, row, machine
  <2>5. RowExplained'
    BY <1>17 DEF RowExplained, Wake, At, Go, Owner, Active, Changing, Phase, TypeOK, row, machine
  <2>6. VerdictsTrue'
    BY <1>17 DEF VerdictsTrue, Wake, At, Go, Owner, Active, Changing, Phase, TypeOK, row, machine
  <2>7. OneAtATime'
    BY <1>17 DEF OneAtATime, Wake, At, Go, Owner, Active, Changing, Phase, TypeOK, row, machine
  <2> QED
    BY <2>1, <2>2, <2>3, <2>4, <2>5, <2>6, <2>7
<1>18. ASSUME Tick PROVE OwnInv'
  <2>1. Asleep'
    BY <1>18 DEF Asleep, Tick, At, Go, Active, Phase, TypeOK, row, machine
  <2>2. Hosted'
    BY <1>18 DEF Hosted, OwnerHolds, RowExplained, Registered, Tick, At, Go, Owner, Active, Changing, Phase, TypeOK, row, machine
  <2>3. Registered'
    BY <1>18 DEF Registered, OwnerHolds, RowExplained, Hosted, Tick, At, Go, Owner, Active, Changing, Phase, TypeOK, row, machine
  <2>4. OwnerHolds'
    BY <1>18 DEF Asleep, OwnerHolds, RowExplained, Registered, Hosted, Tick, At, Go, Owner, Active, Changing, Phase, TypeOK, row, machine
  <2>5. RowExplained'
    BY <1>18 DEF RowExplained, OwnerHolds, Registered, Hosted, Tick, At, Go, Owner, Active, Changing, Phase, TypeOK, row, machine
  <2>6. VerdictsTrue'
    BY <1>18 DEF VerdictsTrue, OwnerHolds, RowExplained, Registered, Hosted, Tick, At, Go, Owner, Active, Changing, Phase, TypeOK, row, machine
  <2>7. OneAtATime'
    BY <1>18 DEF OneAtATime, OwnerHolds, RowExplained, Registered, Hosted, Tick, At, Go, Owner, Active, Changing, Phase, TypeOK, row, machine
  <2> QED
    BY <2>1, <2>2, <2>3, <2>4, <2>5, <2>6, <2>7
<1>19. CASE UNCHANGED vars
  BY <1>19 DEF vars, row, machine, Asleep, Hosted, Registered, OwnerHolds, RowExplained, VerdictsTrue, OneAtATime, Owner
<1>20. QED
  BY <1>1, <1>2, <1>3, <1>4, <1>5, <1>6, <1>7, <1>8, <1>9, <1>10, <1>11, <1>12, <1>13, <1>14, <1>15, <1>16, <1>17, <1>18, <1>19 DEF Next, RuntimeStep, MachineStep

LEMMA OwnAlways ==
    ASSUME ~Overlap, ~Lapses
    PROVE  Spec => []OwnInv
<1>1. Init => OwnInv
  BY LeaseConstants DEF Init, OwnInv, Asleep, Hosted, Registered, OwnerHolds, RowExplained,
                        VerdictsTrue, OneAtATime, Owner, Active, Changing, Phase
<1> QED
  BY <1>1, OwnStep, LeaseTypeCorrect, PTL DEF Spec

\* In every behaviour in which no runtime overlaps another's boot or stop in its own
\* process and none leaves a row behind while it lives, at most one of the runtimes
\* that never slept owns the agent, whatever those that slept believe.
THEOREM SoleServer ==
    ASSUME ~Overlap, ~Lapses
    PROVE  Spec => []SoleOwner
<1>1. OwnInv => SoleOwner
  BY DEF OwnInv, OwnerHolds, SoleOwner
<1> QED
  BY <1>1, OwnAlways, PTL

\* Only the machine puts runtimes to sleep, and it leaves the row alone.
LEMMA SleepKeepsRow ==
    ASSUME TypeOK, [Next]_vars
    PROVE  slept' \subseteq slept \/ UNCHANGED row
BY DEF TypeOK, Next, RuntimeStep, MachineStep, Start, Adopt, Probe, Claim, Decline, Construct, BootFails, Beat,
       Dispose, Stop, Stopped, Recycle, ProcessEnds, ForeignStarts, ForeignEnds, Wedge, Wake,
       Tick, vars, machine

\* Under the same conditions a runtime that owns the agent and never slept keeps its
\* row in every step: no claim on an old verdict, and no late beat, release or stop of
\* another (leases.claim, beat and release), takes it away.
THEOREM RowIsKept ==
    ASSUME ~Overlap, ~Lapses
    PROVE  Spec => HolderKeepsRow
<1>1. TypeOK /\ OwnInv /\ OwnInv' /\ [Next]_vars =>
        [\A r \in Runtimes \ slept : holder = r /\ Owner(r) /\ Owner(r)' => holder' = r]_vars
  <2> SUFFICES ASSUME TypeOK, OwnInv', [Next]_vars,
                      NEW r \in Runtimes \ slept, holder = r, Owner(r)'
               PROVE  holder' = r
    OBVIOUS
  <2>1. CASE slept' \subseteq slept
    BY <2>1 DEF OwnInv, OwnerHolds
  <2>2. CASE UNCHANGED row
    BY <2>2 DEF row
  <2>3. QED
    BY <2>1, <2>2, SleepKeepsRow
<1> QED
  BY <1>1, OwnAlways, LeaseTypeCorrect, PTL DEF Spec, HolderKeepsRow

==============================================================================
