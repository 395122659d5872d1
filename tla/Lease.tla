-------------------------------- MODULE Lease --------------------------------
(***************************************************************************)
(* Who serves an agent: runtime/lease.ts over the `runtime_leases` table,  *)
(* and the parts of runtime/runtime.ts that claim the lease at boot or     *)
(* adoption, beat it while serving and release it on dispose and stop.     *)
(* One agent, so one lease row.                                            *)
(*                                                                         *)
(* A runtime is one Runtime object with its own runtime id, living in an   *)
(* operating-system process known by its pid.  Processes share nothing but *)
(* the row; a pid is given out again once its process is gone, to another  *)
(* runtime's process or to an unrelated program.  Time counts heartbeat    *)
(* intervals (LEASE_BEAT_MS).                                              *)
(***************************************************************************)
EXTENDS Naturals

CONSTANTS
    Runtimes,      \* runtime ids
    None,          \* no runtime
    Pids,          \* operating-system process numbers, positive
    InitPid,       \* pid 1, the number every container hands out
    Reuse,         \* LEASE_STALE_MS * LEASE_REUSE_FACTOR, in beats
    ProcReadable,  \* /proc/<pid>/exe can be read
    Overlap,       \* one process may boot a runtime while it boots or stops another
    Lapses,        \* a runtime that lives on may leave its row behind, unbeaten
    Wedges         \* a process may stop running for any length of time

ASSUME LeaseConstants ==
    /\ None \notin Runtimes
    /\ Pids \subseteq Nat \ {0}
    /\ Reuse \in Nat /\ Reuse > 1
    /\ {ProcReadable, Overlap, Lapses, Wedges} \subseteq BOOLEAN

VARIABLES
    holder,    \* runtime_id of the lease row, None when there is no row
    leasePid,  \* pid of the row
    age,       \* beats since heartbeat_at, up to Reuse
    run,       \* [Runtimes -> Phase]
    pid,       \* [Runtimes -> Pids \cup {0}]
    built,     \* LIVE_RUNTIMES of all processes together
    verdict,   \* [Runtimes -> Runtimes \cup {None}], stealFrom of a claim
    procs,     \* pids of the processes that host runtimes
    foreign,   \* pids of unrelated programs
    wedged,    \* processes that are asleep or stopped in a debugger
    slept      \* runtimes whose process was ever wedged under them (history)

row == <<holder, leasePid, age>>
machine == <<procs, foreign, wedged, slept>>
vars == <<row, run, pid, built, verdict, machine>>

\* "starting" and "probing" are in claimLeases, before and after leases.get;
\* "booting" has claimed and does not serve yet; "idle" is a built runtime
\* without the agent; "stopping" has left LIVE_RUNTIMES and still holds its
\* channels; "gone" never acts again.
Phase == {"off", "starting", "probing", "booting", "serving", "idle", "stopping", "gone"}

At(r, phase) == run[r] = phase /\ pid[r] \in procs \ wedged
Go(r, phase) == run' = [run EXCEPT ![r] = phase]

\* Runtimes that own the agent: they may recover its rows and poll its channels.
Owner(r) == run[r] \in {"booting", "serving", "stopping"}

\* A process in the middle of a boot, an adoption or a stop.
Busy(p) == \E r \in Runtimes : pid[r] = p /\ run[r] \in {"starting", "probing", "booting", "stopping"}
Free(p) == Overlap \/ ~Busy(p)

Init ==
    /\ holder = None /\ leasePid = 0 /\ age = 0
    /\ run = [r \in Runtimes |-> "off"]
    /\ pid = [r \in Runtimes |-> 0]
    /\ built = {}
    /\ verdict = [r \in Runtimes |-> None]
    /\ procs = {} /\ foreign = {} /\ wedged = {} /\ slept = {}

------------------------------------------------------------------------------
(* claimLeases *)

\* Mutant: the pid alone decides.
LiveByPid(r) == leasePid \in procs \cup foreign

\* live(): is the row's holder alive, as far as runtime r can tell?
Live(r) ==
    /\ leasePid \in procs \cup foreign
    /\ leasePid = pid[r] => holder \in built
    /\ ~(leasePid = InitPid /\ ProcReadable /\ leasePid \in foreign)
    /\ age < Reuse

\* Runtime.create, in a new process or in one that runs already.  Its id is its own: that two
\* boots in one millisecond get the same default id (rt_ and the time) is left out.
Start(r, p) ==
    /\ run[r] = "off"
    /\ p \notin foreign \cup wedged
    /\ p \in procs => Free(p)
    /\ procs' = procs \cup {p}
    /\ pid' = [pid EXCEPT ![r] = p]
    /\ Go(r, "starting")
    /\ UNCHANGED <<row, built, verdict, foreign, wedged, slept>>

\* Runtime.adopt of an agent this runtime does not host.
Adopt(r) ==
    /\ At(r, "idle") /\ Free(pid[r])
    /\ Go(r, "starting")
    /\ UNCHANGED <<row, pid, built, verdict, machine>>

\* leases.get and the verdict on the row it returned.
Probe(r) ==
    /\ At(r, "starting")
    /\ verdict' = [verdict EXCEPT ![r] =
                     IF holder \notin {None, r} /\ ~Live(r) THEN holder ELSE None]
    /\ Go(r, "probing")
    /\ UNCHANGED <<row, pid, built, machine>>

\* Mutant: any verdict of death forces the claim, whoever holds the row now.
MayTakeForced(r) == holder \in {None, r} \/ verdict[r] # None

MayTake(r) == holder \in {None, r} \/ verdict[r] = holder

\* leases.claim succeeds.
Claim(r) ==
    /\ At(r, "probing")
    /\ MayTake(r)
    /\ holder' = r /\ leasePid' = pid[r] /\ age' = 0
    /\ Go(r, "booting")
    /\ verdict' = [verdict EXCEPT ![r] = None]
    /\ UNCHANGED <<pid, built, machine>>

\* leases.claim is refused.  An adoption fails; a boot throws when it owns
\* nothing else, and otherwise goes on without the agent.
Decline(r) ==
    /\ At(r, "probing")
    /\ ~MayTake(r)
    /\ verdict' = [verdict EXCEPT ![r] = None]
    /\ \/ Go(r, "idle") /\ built' = built \cup {r}
       \/ Go(r, "gone") /\ r \notin built /\ UNCHANGED built
    /\ UNCHANGED <<row, pid, machine>>

------------------------------------------------------------------------------
(* Runtime *)

\* The constructor enters LIVE_RUNTIMES; the channels and the heartbeat start.
Construct(r) ==
    /\ At(r, "booting")
    /\ Go(r, "serving")
    /\ built' = built \cup {r}
    /\ UNCHANGED <<row, pid, verdict, machine>>

\* A boot or an adoption that throws after the claim leaves the row behind.
BootFails(r) ==
    /\ At(r, "booting")
    /\ Lapses \/ r \notin built
    /\ Go(r, IF r \in built THEN "idle" ELSE "gone")
    /\ UNCHANGED <<row, pid, built, verdict, machine>>

\* The interval's leases.beat; it matches no row once the lease is another's.
Beat(r) ==
    /\ At(r, "serving") \/ At(r, "stopping")
    /\ holder = r /\ age' = 0
    /\ UNCHANGED <<holder, leasePid, run, pid, built, verdict, machine>>

\* Mutant: release deletes the agent's row whoever holds it.
DeleteAnyRow(r) ==
    /\ holder' = None /\ leasePid' = 0 /\ age' = 0

\* Mutant: release forgets the holder and leaves the rest of the row.
DeleteHolderOnly(r) ==
    IF holder = r THEN holder' = None /\ UNCHANGED <<leasePid, age>> ELSE UNCHANGED row

\* leases.release deletes the row of this runtime only.
DeleteRow(r) ==
    IF holder = r
    THEN holder' = None /\ leasePid' = 0 /\ age' = 0
    ELSE UNCHANGED row

\* Runtime.dispose: the channels are closed before the row is released, and
\* a release that throws is swallowed.
Dispose(r) ==
    /\ At(r, "serving")
    /\ DeleteRow(r) \/ (Lapses /\ UNCHANGED row)
    /\ Go(r, "idle")
    /\ UNCHANGED <<pid, built, verdict, machine>>

\* stop() leaves LIVE_RUNTIMES first and releases what it owns last.
Stop(r) ==
    /\ At(r, "serving") \/ At(r, "idle")
    /\ Free(pid[r])
    /\ Go(r, IF run[r] = "serving" THEN "stopping" ELSE "gone")
    /\ built' = built \ {r}
    /\ UNCHANGED <<row, pid, verdict, machine>>

Stopped(r) ==
    /\ At(r, "stopping")
    /\ DeleteRow(r) \/ UNCHANGED row
    /\ Go(r, "gone")
    /\ UNCHANGED <<pid, built, verdict, machine>>

------------------------------------------------------------------------------
(* The operating system *)

\* Clean exit, kill or crash: every runtime of the process is gone with it.
ProcessEnds(p) ==
    /\ p \in procs
    /\ procs' = procs \ {p}
    /\ wedged' = wedged \ {p}
    /\ run' = [r \in Runtimes |-> IF pid[r] = p THEN "gone" ELSE run[r]]
    /\ built' = {r \in built : pid[r] # p}
    /\ UNCHANGED <<row, pid, verdict, foreign, slept>>

\* An unrelated program is given a free number, and ends.  The machine does
\* not run out of numbers.
ForeignStarts(p) ==
    /\ p \notin procs \cup foreign
    /\ Pids \ (foreign \cup {p}) # {}
    /\ foreign' = foreign \cup {p}
    /\ UNCHANGED <<row, run, pid, built, verdict, procs, wedged, slept>>

ForeignEnds(p) ==
    /\ p \in foreign
    /\ foreign' = foreign \ {p}
    /\ UNCHANGED <<row, run, pid, built, verdict, procs, wedged, slept>>

Wedge(p) ==
    /\ Wedges /\ p \in procs \ wedged
    /\ wedged' = wedged \cup {p}
    /\ slept' = slept \cup {r \in Runtimes : pid[r] = p}
    /\ UNCHANGED <<row, run, pid, built, verdict, procs, foreign>>

Wake(p) ==
    /\ p \in wedged
    /\ wedged' = wedged \ {p}
    /\ UNCHANGED <<row, run, pid, built, verdict, procs, foreign, slept>>

\* One beat passes.  A process that runs beats its row in every interval, and
\* boots within the 45 minutes; a wedged process or a dead one does not.
Tick ==
    /\ holder # None /\ age < Reuse
    /\ pid[holder] \in procs \ wedged =>
         /\ run[holder] \in {"serving", "stopping"} => age = 0
         /\ run[holder] = "booting" => age < Reuse - 1
    /\ age' = age + 1
    /\ UNCHANGED <<holder, leasePid, run, pid, built, verdict, machine>>

\* A finished runtime that nothing names stands for the next fresh runtime id.
Recycle(r) ==
    /\ run[r] = "gone" /\ holder # r
    /\ \A x \in Runtimes : verdict[x] # r
    /\ Go(r, "off")
    /\ pid' = [pid EXCEPT ![r] = 0]
    /\ verdict' = [verdict EXCEPT ![r] = None]
    /\ slept' = slept \ {r}
    /\ UNCHANGED <<row, built, procs, foreign, wedged>>

------------------------------------------------------------------------------
RuntimeStep(r) ==
    \/ \E p \in Pids : Start(r, p)
    \/ Adopt(r) \/ Probe(r) \/ Claim(r) \/ Decline(r)
    \/ Construct(r) \/ BootFails(r) \/ Beat(r) \/ Dispose(r) \/ Stop(r) \/ Stopped(r)
    \/ Recycle(r)

MachineStep(p) ==
    ProcessEnds(p) \/ ForeignStarts(p) \/ ForeignEnds(p) \/ Wedge(p) \/ Wake(p)

Next ==
    \/ \E r \in Runtimes : RuntimeStep(r)
    \/ \E p \in Pids : MachineStep(p)
    \/ Tick

Spec == Init /\ [][Next]_vars

\* Somebody keeps trying to boot or adopt the agent, an attempt that runs goes
\* through the claim, a stop finishes, and time passes.  Nothing makes a process end or a program go away.
Attempts(r) ==
    /\ SF_vars(\E p \in Pids : Start(r, p)) /\ SF_vars(Adopt(r))
    /\ SF_vars(Probe(r)) /\ SF_vars(Claim(r)) /\ SF_vars(Decline(r))
    /\ WF_vars(Stopped(r)) /\ WF_vars(Recycle(r))

FairSpec == Spec /\ WF_vars(Tick) /\ \A r \in Runtimes : Attempts(r)

------------------------------------------------------------------------------
(* Properties *)

TypeOK ==
    /\ holder \in Runtimes \cup {None}
    /\ leasePid \in Pids \cup {0}
    /\ holder = None <=> leasePid = 0
    /\ age \in 0 .. Reuse
    /\ run \in [Runtimes -> Phase]
    /\ pid \in [Runtimes -> Pids \cup {0}]
    /\ built \subseteq Runtimes
    /\ verdict \in [Runtimes -> Runtimes \cup {None}]
    /\ procs \subseteq Pids /\ foreign \subseteq Pids
    /\ wedged \subseteq procs
    /\ slept \subseteq Runtimes

\* Two runtimes whose processes always ran never own one agent at the same
\* time: no second poller on one bot token, and nobody recovers rows another
\* runtime is working on.
SoleOwner ==
    \A r, x \in Runtimes \ slept : Owner(r) /\ Owner(x) => r = x

\* A runtime that owns the agent in a process that always ran keeps its row:
\* neither a prober with an old verdict nor the late beat, release or stop of
\* a runtime that lost the lease while asleep takes it away.
HolderKeepsRow ==
    [][\A r \in Runtimes \ slept :
         holder = r /\ Owner(r) /\ Owner(r)' => holder' = r]_vars

\* A row whose holder is gone does not lock the agent out for good, whatever
\* program was given the dead process's number: the row moves on, or somebody
\* owns the agent already.
DeadLeaseRecovered ==
    \A r \in Runtimes :
        (holder = r /\ run[r] = "gone") ~> (holder # r \/ \E x \in Runtimes : Owner(x))
==============================================================================
