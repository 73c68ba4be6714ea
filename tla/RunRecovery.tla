---------------------------- MODULE RunRecovery ----------------------------
(***************************************************************************)
(* One durable orchestrator Run and everybody who writes it: the session   *)
(* that drives it, the recovery workers, the observation sinks that resume *)
(* it, and the requests that cancel it.                                    *)
(*                                                                         *)
(* The Run lives in two Mongo documents that no transaction joins:         *)
(*   run - the aggregate, written only by compare-and-set on its           *)
(*         state_version, except for its embedded recovery_claim, which    *)
(*         any process may refresh without a version check (the mirror);   *)
(*   row - the recovery lease, fenced by its owner_id.                     *)
(*                                                                         *)
(* Every store method is split at its database writes, so the steps of two *)
(* processes interleave there.  The reads a method makes before its first  *)
(* write are one step with the test they feed.                             *)
(*                                                                         *)
(* Until the row exists the embedded claim is the schedule of the Run; from *)
(* then on nothing reads more of it than its kind, so no more is kept.  (A *)
(* canceling aggregate whose row lags is read through its embedded claim,  *)
(* which is then the one its cancellation wrote.)                          *)
(*                                                                         *)
(* state_version is only ever compared for equality with a loaded copy's,  *)
(* and it only grows; `current' is the set of processes whose loaded copy  *)
(* still carries the stored version.                                       *)
(***************************************************************************)
EXTENDS Integers

CONSTANTS
    Drivers,      \* the in-process session that prompts the Run (at most one)
    Workers,      \* recover_generic_runs loops, one per backend instance
    Sinks,        \* run-addressed deliveries of one tool observation each
    Cancellers,   \* cancel requests; they share one command id
    NoOwner,      \* owner_id = None
    LeaseTerm,            \* 60 s in the code
    DeadlineTerm,         \* the profile's deadline
    RetryTerm,            \* the 2 s and 5 s retries and the failure backoff
    Horizon,              \* bound: later instants are not told apart
    MaxInvariantFailures, \* _GENERIC_RECOVERY_MAX_INVARIANT_FAILURES
    MaxCrashes,           \* bound on process deaths
    HostedResume  \* whether a user answer resumes the Run in its session

Procs == Drivers \cup Workers \cup Sinks \cup Cancellers

ASSUME ActorsAssumption ==
    /\ Drivers \cap (Workers \cup Sinks \cup Cancellers) = {}
    /\ Workers \cap (Sinks \cup Cancellers) = {}
    /\ Sinks \cap Cancellers = {}
    /\ NoOwner \notin Procs

ASSUME BoundsAssumption ==
    /\ LeaseTerm \in Nat \ {0}
    /\ DeadlineTerm \in Nat
    /\ RetryTerm \in Nat
    /\ Horizon \in Nat
    /\ MaxInvariantFailures \in Nat \ {0}
    /\ MaxCrashes \in Nat
    /\ HostedResume \in BOOLEAN

VARIABLES
    run,      \* the aggregate: status, cancellation_requested_at, and the kind
              \* and next_attempt_at of its embedded recovery_claim
    row,      \* the dedicated recovery lease, or NoClaim while there is none
    proc,     \* per process: its program counter and what it holds in memory
    current,  \* processes whose loaded copy has the stored state_version
    now,
    crashes

vars == <<run, row, proc, current, now, crashes>>

L == INSTANCE RunLifecycle WITH status <- run.status

\* waiting_external and awaiting_user are not told apart here: every test of
\* the modelled code is membership in SUSPENDED_RUN_STATUSES.
Suspended  == {"suspended"}
Active     == {"running", "finalizing"}
Terminal   == {"completed", "failed", "canceled", "budget_exhausted"}
Status     == Suspended \cup Active \cup Terminal \cup {"canceling"}
Cancelable == Suspended \cup {"running"}
-----------------------------------------------------------------------------
(* Recovery claims.  A timestamp that is None is NoTime, which has always  *)
(* elapsed: every test of the code reads "is None or <= instant".          *)

NoTime  == -1
Dormant == Horizon + 1          \* now + 3650 days: never elapses
Times   == NoTime .. Dormant
Upto(t) == IF t <= Horizon THEN t ELSE Horizon
In(d)   == Upto(now + d)

Kinds  == {"execution", "cancellation"}
Claims == [kind : Kinds, owner : Procs \cup {NoOwner}, lease : Times, next : Times,
           fails : 0 .. MaxInvariantFailures, quarantined : {"no", "yes"}]

RecoveryClaim(kind, next) ==
    [kind |-> kind, owner |-> NoOwner, lease |-> NoTime, next |-> next,
     fails |-> 0, quarantined |-> "no"]

NoClaim == [RecoveryClaim("execution", NoTime) EXCEPT !.kind = "absent"]

HasRow == row.kind # "absent"

\* Fault: a claim that keeps the schedule it was due at.
OwnedKeepingSchedule(c, p, lease) == [c EXCEPT !.owner = p, !.lease = lease]

Owned(c, p, lease) == [c EXCEPT !.owner = p, !.lease = lease, !.next = NoTime]
Unowned(c)         == [c EXCEPT !.owner = NoOwner, !.lease = NoTime]

\* Fault: an owned claim is never due, however long its lease has expired.
DueUnlessOwned(c, t) == c.quarantined = "no" /\ c.next <= t /\ c.lease = NoTime

\* _recovery_claim_is_due
Due(c, t) == c.quarantined = "no" /\ c.next <= t /\ c.lease <= t

\* Faults: the conditional update trusts the read that came before it.
ClaimableIgnoringOwner(c, t) == c.quarantined = "no" /\ c.next <= t

ClaimableIgnoringQuarantine(c, t) == c.next <= t /\ (c.owner = NoOwner \/ c.lease <= t)

\* The conditional update of _claim_dedicated_recovery_lease matches.
Claimable(c, t) ==
    c.quarantined = "no" /\ c.next <= t /\ (c.owner = NoOwner \/ c.lease <= t)

\* load(): the row overlays the embedded claim, unless a canceling aggregate
\* meets a row that still lags behind the cancellation.
Lagging == HasRow /\ run.status = "canceling" /\ row.kind # "cancellation"
LoadedClaim == IF HasRow /\ ~Lagging THEN row ELSE RecoveryClaim(run.kind, run.next)

\* The aggregate's model validator: canceling Runs require cancellation recovery.
Valid(status, kind) == status = "canceling" => kind = "cancellation"
-----------------------------------------------------------------------------
(* Processes                                                               *)

Locations ==
    {"idle", "start", "list", "listed", "done", "dead", "killed",
     "claimRow", "claimCas", "claimUndo", "observe", "exec",
     "settleFailed", "settleCanceled", "commitFailed", "commitCanceled",
     "leave", "releaseRow", "releaseCas", "schedule", "scheduleCas",
     "scheduleRow", "cancelCas", "cancelRow", "repairRow"}

\* status, kind: of the Run as last loaded; seen: its whole claim, where that
\* is needed later; claim: the claim to be written; mirror: the kind of a
\* mirror write still to be made; at: claimed_at or requested_at; prior: the
\* owner a worker's candidate was listed with; goal: what a driver wants the
\* Run for; leased: whether the process believes it holds the lease.
Fresh(where) ==
    [pc |-> where, status |-> "running", kind |-> "execution", seen |-> NoClaim,
     claim |-> NoClaim, mirror |-> "absent", at |-> NoTime, prior |-> NoOwner,
     goal |-> "exec", exc |-> "none", leased |-> "no"]

Init ==
    /\ run = [status |-> "running", requestedAt |-> NoTime,
              kind |-> "execution", next |-> Upto(DeadlineTerm)]
    /\ row = NoClaim
    /\ proc = [p \in Procs |-> Fresh(IF p \in Drivers THEN "start" ELSE "idle")]
    /\ current = {}
    /\ now = 0
    /\ crashes = 0

\* p is at a location and not in the middle of _mirror_recovery_claim.
At(p, where) == proc[p].pc = where /\ proc[p].mirror = "absent"

Become(p, new) == proc' = [proc EXCEPT ![p] = new]

\* p's record of a Run it has just loaded.
Load(p) == [proc[p] EXCEPT !.status = run.status, !.kind = LoadedClaim.kind]

\* p's work on the Run ended with an outcome; what it had loaded is forgotten.
Leaving(p, exc) == [Fresh("leave") EXCEPT !.goal = proc[p].goal, !.exc = exc,
                                          !.leased = proc[p].leased]

\* Fault: a write from whatever copy the process happens to hold.
CasIgnoringVersion(p, status, kind) ==
    /\ run' = [run EXCEPT !.status = status, !.kind = kind]
    /\ current' = {p}

\* cas_mutate by a process whose loaded copy is current: the whole aggregate,
\* embedded claim included, is replaced, and every other copy is out of date.
Cas(p, status, kind) ==
    /\ p \in current
    /\ run' = [run EXCEPT !.status = status, !.kind = kind]
    /\ current' = {p}

\* cas_mutate then mirrors an execution row over an execution claim, when both
\* name the same owner (whose other fields are not kept here).
Overlay(kind) == IF kind = "execution" /\ row.kind = "execution" THEN kind ELSE "absent"

\* Fault: a mirror write that does not look at the status.
MirrorIgnoringStatus(p) ==
    /\ proc[p].mirror # "absent"
    /\ run' = [run EXCEPT !.kind = proc[p].mirror]
    /\ Become(p, [proc[p] EXCEPT !.mirror = "absent"])
    /\ UNCHANGED <<row, current, now, crashes>>

\* _mirror_recovery_claim: no version check, but never an execution claim
\* onto a canceling aggregate.
Mirror(p) ==
    /\ proc[p].mirror # "absent"
    /\ run' = IF proc[p].mirror = "cancellation" \/ run.status # "canceling"
              THEN [run EXCEPT !.kind = proc[p].mirror] ELSE run
    /\ Become(p, [proc[p] EXCEPT !.mirror = "absent"])
    /\ UNCHANGED <<row, current, now, crashes>>
-----------------------------------------------------------------------------
(* claim_recovery                                                          *)

\* A claim that was not accepted: the driver executes without a lease, a
\* worker turns to its next candidate.
Refused(p, me) ==
    IF p \in Drivers THEN [me EXCEPT !.pc = me.goal] ELSE Fresh("idle")

\* Load the Run and the row, and test both before the first write.
BeginClaim(p, me, allowScheduled) ==
    LET cur == LoadedClaim
        refused == \/ ~Due(cur, now) /\ (cur.owner # NoOwner \/ ~allowScheduled)
                   \/ HasRow /\ ~Due(row, now)
        template == IF HasRow THEN row ELSE RecoveryClaim("execution", NoTime)
    IN  /\ Become(p, IF refused THEN Refused(p, me)
                     ELSE [me EXCEPT !.pc = "claimRow", !.status = run.status,
                                     !.kind = cur.kind, !.seen = cur,
                                     !.claim = template, !.at = now])
        /\ current' = IF refused THEN current ELSE current \cup {p}
        /\ UNCHANGED <<run, row, now, crashes>>

\* _claim_dedicated_recovery_lease: a conditional update, or an insert when
\* there is no row.  Everything but owner and times comes from the earlier read.
ClaimRow(p) ==
    LET taken == Owned(proc[p].claim, p, Upto(proc[p].at + LeaseTerm))
    IN  /\ At(p, "claimRow")
        /\ IF ~HasRow \/ Claimable(row, proc[p].at)
           THEN /\ row' = taken
                /\ Become(p, [proc[p] EXCEPT !.pc = "claimCas", !.claim = taken])
           ELSE /\ Become(p, Refused(p, proc[p]))
                /\ UNCHANGED row
        /\ UNCHANGED <<run, current, now, crashes>>

\* What the recovery worker does with the Run it has just claimed.
Dispatch(p, status) ==
    IF p \in Drivers THEN proc[p].goal
    ELSE IF status = "canceling" THEN "settleCanceled"
    ELSE IF status \in Active /\ proc[p].prior \in Drivers THEN "settleFailed"
    ELSE "exec"

ClaimAccepted(p) ==
    /\ At(p, "claimCas")
    /\ Valid(run.status, proc[p].claim.kind)
    /\ Cas(p, run.status, proc[p].claim.kind)
    /\ Become(p, [Fresh(Dispatch(p, run.status)) EXCEPT
                     !.status = run.status, !.kind = proc[p].claim.kind,
                     !.goal = proc[p].goal, !.leased = "yes",
                     !.mirror = Overlay(proc[p].claim.kind)])
    /\ UNCHANGED <<row, now, crashes>>

\* Validation raises out of claim_recovery; nothing gives the row back.
ClaimInvalid(p) ==
    /\ At(p, "claimCas")
    /\ p \in current
    /\ ~Valid(run.status, proc[p].claim.kind)
    /\ Become(p, Fresh("idle"))
    /\ UNCHANGED <<run, row, current, now, crashes>>

ClaimLost(p) ==
    /\ At(p, "claimCas")
    /\ p \notin current
    /\ Become(p, [proc[p] EXCEPT !.pc = "claimUndo"])
    /\ UNCHANGED <<run, row, current, now, crashes>>

ClaimUndo(p) ==
    LET released == Unowned(proc[p].seen)
    IN  /\ At(p, "claimUndo")
        /\ IF row.owner = p
           THEN row' = released /\ Become(p, [Refused(p, proc[p]) EXCEPT !.mirror = released.kind])
           ELSE UNCHANGED row /\ Become(p, Refused(p, proc[p]))
        /\ UNCHANGED <<run, current, now, crashes>>
-----------------------------------------------------------------------------
(* renew_recovery                                                          *)

Working == {"observe", "exec", "settleFailed", "settleCanceled", "commitFailed",
            "commitCanceled"}

Renew(p) ==
    LET renewed == [row EXCEPT !.lease = In(LeaseTerm)]
    IN  /\ proc[p].pc \in Working /\ proc[p].mirror = "absent"
        /\ proc[p].leased = "yes" /\ proc[p].goal # "shutdown"
        /\ ~Lagging /\ row.owner = p
        /\ p \in Drivers => run.status \notin Terminal
        /\ row' = renewed
        /\ Become(p, [proc[p] EXCEPT !.mirror = row.kind])
        /\ UNCHANGED <<run, current, now, crashes>>

\* _run_with_recovery_lease finds another owner and cancels the work.
LoseLease(p) ==
    /\ p \in Workers
    /\ proc[p].pc \in Working /\ proc[p].mirror = "absent"
    /\ LoadedClaim.owner # p
    /\ Become(p, Leaving(p, "adapter"))
    /\ UNCHANGED <<run, row, current, now, crashes>>
-----------------------------------------------------------------------------
(* The kernel, as seen by the aggregate: it loads the Run, and every       *)
(* checkpoint is a compare-and-set from the copy it holds.                 *)

Checkpoints(status) ==
    CASE status = "running"    -> {"running", "finalizing", "failed", "budget_exhausted"}
                                  \cup Suspended
      [] status = "finalizing" -> {"completed", "failed"}
      [] status \in Suspended  -> {"running", "failed"} \cup Suspended
      [] OTHER                 -> {}

\* observe_tool admits a suspended Run only.
Observe(p) ==
    /\ At(p, "observe")
    /\ IF run.status \in Suspended
       THEN /\ Become(p, [Load(p) EXCEPT !.pc = "exec"])
            /\ current' = current \cup {p}
       ELSE /\ Become(p, Leaving(p, "conflict"))
            /\ UNCHANGED current
    /\ UNCHANGED <<run, row, now, crashes>>

KernelLoad(p) ==
    /\ At(p, "exec")
    /\ p \notin current
    /\ Become(p, Load(p))
    /\ current' = current \cup {p}
    /\ UNCHANGED <<run, row, now, crashes>>

KernelReturn(p) ==
    /\ At(p, "exec")
    /\ proc[p].status \notin Active
    /\ Become(p, Leaving(p, "none"))
    /\ UNCHANGED <<run, row, current, now, crashes>>

KernelCheckpoint(p) ==
    /\ At(p, "exec")
    /\ \E s \in Checkpoints(proc[p].status) :
          /\ Cas(p, s, proc[p].kind)
          /\ Become(p, [proc[p] EXCEPT !.status = s, !.mirror = Overlay(proc[p].kind)])
    /\ UNCHANGED <<row, now, crashes>>

\* A lost checkpoint ends the work: quietly when a cancellation won.
KernelLost(p) ==
    /\ At(p, "exec")
    /\ p \notin current
    /\ Checkpoints(proc[p].status) # {}
    /\ Become(p, Leaving(p, IF run.status = "canceling" THEN "none" ELSE "conflict"))
    /\ UNCHANGED <<run, row, current, now, crashes>>

\* An adapter, a provider or an invariant of the transcript fails.
KernelRaise(p) ==
    /\ proc[p].pc \in Working /\ proc[p].mirror = "absent"
    /\ \E e \in {"adapter", "conflict"} : Become(p, Leaving(p, e))
    /\ UNCHANGED <<run, row, current, now, crashes>>

\* terminalize: load, step back for a winner, then commit the terminal status.
Settle(p) ==
    /\ At(p, "settleFailed") \/ At(p, "settleCanceled")
    /\ LET commit == IF proc[p].pc = "settleFailed" THEN "commitFailed" ELSE "commitCanceled"
           lost == \/ run.status \in Terminal
                   \/ run.status = "canceling" /\ proc[p].pc = "settleFailed"
       IN  Become(p, IF lost THEN Leaving(p, "none") ELSE [Load(p) EXCEPT !.pc = commit])
    /\ current' = current \cup {p}
    /\ UNCHANGED <<run, row, now, crashes>>

Commit(p) ==
    LET status == IF proc[p].pc = "commitFailed" THEN "failed" ELSE "canceled"
    IN  /\ At(p, "commitFailed") \/ At(p, "commitCanceled")
        /\ Cas(p, status, proc[p].kind)
        /\ Become(p, [Leaving(p, "none") EXCEPT !.mirror = Overlay(proc[p].kind)])
        /\ UNCHANGED <<row, now, crashes>>

CommitLost(p) ==
    /\ At(p, "commitFailed") \/ At(p, "commitCanceled")
    /\ p \notin current
    /\ Become(p, Leaving(p, IF run.status = "canceling" /\ proc[p].pc = "commitFailed"
                            THEN "none" ELSE "conflict"))
    /\ UNCHANGED <<run, row, current, now, crashes>>
-----------------------------------------------------------------------------
(* release_recovery                                                        *)

\* _generic_recovery_next_attempt and RoomAgentSession._next_recovery_attempt
\* differ only in the watchdog of a Run that still has work to do.
NextAttempt(status, otherwise) ==
    IF status \in Terminal THEN NoTime
    ELSE IF status \in Suspended THEN Dormant ELSE otherwise

\* Fault: quarantine comes one invariant failure late.
WorkerReleaseLate(p, cur) ==
    LET fails == IF proc[p].exc = "conflict" THEN cur.fails + 1 ELSE 0
        quarantine == fails > MaxInvariantFailures
        next == IF proc[p].exc = "none" THEN NextAttempt(run.status, In(RetryTerm))
                ELSE IF quarantine THEN NoTime ELSE In(RetryTerm)
    IN  [RecoveryClaim(cur.kind, next) EXCEPT
            !.fails = fails, !.quarantined = IF quarantine THEN "yes" ELSE "no"]

\* The claim a worker leaves behind: a plain schedule after a good pass, a
\* backoff after a failure, quarantine after too many invariant failures.
WorkerRelease(p, cur) ==
    LET fails == IF proc[p].exc = "conflict" THEN cur.fails + 1 ELSE 0
        quarantine == fails >= MaxInvariantFailures
        next == IF proc[p].exc = "none" THEN NextAttempt(run.status, In(RetryTerm))
                ELSE IF quarantine THEN NoTime ELSE In(RetryTerm)
    IN  [RecoveryClaim(cur.kind, next) EXCEPT
            !.fails = fails, !.quarantined = IF quarantine THEN "yes" ELSE "no"]

DriverRelease(cur) ==
    RecoveryClaim(cur.kind, NextAttempt(run.status, In(DeadlineTerm)))

\* A process that dies holding the lease of a Run that is being executed
\* leaves an interrupted execution behind.
Death(p) ==
    IF proc[p].leased = "yes" /\ row.owner = p /\ run.status \in Active
    THEN "killed" ELSE "dead"

\* Where a process goes when it no longer holds the lease.
Through(p) ==
    IF p \in Cancellers THEN Fresh("done")
    ELSE IF proc[p].goal = "shutdown" THEN Fresh("dead")
    ELSE IF p \notin Workers /\ proc[p].exc = "adapter"
         THEN [Fresh("schedule") EXCEPT !.exc = "adapter"]
    ELSE Fresh("idle")

\* A shutdown that could not settle its Run keeps the claim and dies.
Leave(p) ==
    LET cur == LoadedClaim
        keep == proc[p].goal = "shutdown" /\ proc[p].exc # "none"
        release == ~keep /\ proc[p].leased = "yes" /\ cur.owner = p
    IN  /\ At(p, "leave")
        /\ Become(p, IF release
                     THEN [proc[p] EXCEPT !.leased = "no", !.pc = "releaseRow",
                              !.claim = IF p \in Drivers THEN DriverRelease(cur)
                                        ELSE WorkerRelease(p, cur)]
                     ELSE IF keep THEN Fresh(Death(p)) ELSE Through(p))
        /\ current' = IF release THEN current \cup {p} ELSE current \ {p}
        /\ UNCHANGED <<run, row, now, crashes>>

\* The version and the owner are tested again before the row is released.
ReleaseRow(p) ==
    /\ At(p, "releaseRow")
    /\ IF p \in current /\ LoadedClaim.owner = p /\ row.owner = p
       THEN /\ row' = proc[p].claim
            /\ Become(p, [proc[p] EXCEPT !.pc = "releaseCas"])
       ELSE /\ Become(p, Through(p))
            /\ UNCHANGED row
    /\ UNCHANGED <<run, current, now, crashes>>

ReleaseCas(p) ==
    /\ At(p, "releaseCas")
    /\ Cas(p, run.status, proc[p].claim.kind)
    /\ Become(p, [Through(p) EXCEPT !.mirror = Overlay(proc[p].claim.kind)])
    /\ UNCHANGED <<row, now, crashes>>

\* The row is authoritative: a lost aggregate write is made up by the mirror.
ReleaseMirror(p) ==
    /\ At(p, "releaseCas")
    /\ p \notin current
    /\ Become(p, [Through(p) EXCEPT !.mirror = proc[p].claim.kind])
    /\ UNCHANGED <<run, row, current, now, crashes>>
-----------------------------------------------------------------------------
(* schedule_recovery, retried by schedule_run_recovery                     *)

\* A sink arms the watchdog before it resumes; a failed driver or sink asks
\* for an early wake afterwards.
Target(p) == IF proc[p].exc = "none" THEN In(DeadlineTerm) ELSE In(RetryTerm)

Scheduled(p) == Fresh(IF proc[p].exc = "none" THEN "observe" ELSE "idle")

ScheduleLoad(p) ==
    LET cur == LoadedClaim
        needed == /\ run.status \notin Terminal \cup {"canceling"}
                  /\ cur.kind = "execution"
                  /\ cur.owner = NoOwner
                  /\ cur.quarantined = "no"
                  /\ cur.next > Target(p)
    IN  /\ At(p, "schedule")
        /\ Become(p, IF needed
                     THEN [Load(p) EXCEPT !.pc = "scheduleCas", !.seen = cur,
                                          !.claim = [cur EXCEPT !.next = Target(p)]]
                     ELSE Scheduled(p))
        /\ current' = IF needed THEN current \cup {p} ELSE current
        /\ UNCHANGED <<run, row, now, crashes>>

ScheduleCas(p) ==
    /\ At(p, "scheduleCas")
    /\ p \in current
    /\ run' = [run EXCEPT !.next = proc[p].claim.next]
    /\ current' = {p}
    /\ Become(p, [proc[p] EXCEPT !.pc = "scheduleRow", !.mirror = Overlay("execution")])
    /\ UNCHANGED <<row, now, crashes>>

\* The observed schedule is compared too, so an earlier wake is never delayed.
Unchanged(p) ==
    /\ row.kind = "execution" /\ row.owner = NoOwner
    /\ row.quarantined = "no" /\ row.next = proc[p].seen.next

ScheduleRow(p) ==
    /\ At(p, "scheduleRow")
    /\ HasRow => Unchanged(p)
    /\ row' = IF HasRow THEN [row EXCEPT !.next = proc[p].claim.next] ELSE proc[p].claim
    /\ Become(p, Scheduled(p))
    /\ UNCHANGED <<run, current, now, crashes>>

\* A conflict is retried; the fourth one is raised to the caller.
ScheduleLost(p) ==
    /\ \/ At(p, "scheduleCas") /\ p \notin current
       \/ At(p, "scheduleRow") /\ HasRow /\ ~Unchanged(p)
    /\ \/ Become(p, [Fresh("schedule") EXCEPT !.exc = proc[p].exc])
       \/ Become(p, Fresh("idle"))
    /\ UNCHANGED <<run, row, current, now, crashes>>
-----------------------------------------------------------------------------
(* The driver: RoomAgentSession                                            *)

\* prompt: publish a live lease before executing, unless the Run has ended.
Acquire(p) ==
    /\ At(p, "start")
    /\ run.status \notin Terminal
    /\ BeginClaim(p, proc[p], TRUE)

AcquireNothing(p) ==
    /\ At(p, "start")
    /\ run.status \in Terminal
    /\ Become(p, [proc[p] EXCEPT !.pc = "exec"])
    /\ UNCHANGED <<run, row, current, now, crashes>>

\* The user's answer reaches the session that still hosts the Run: observe_tool
\* takes the lease the same way.
ResumeHosted(p) ==
    /\ HostedResume
    /\ At(p, "idle")
    /\ run.status \in Suspended
    /\ BeginClaim(p, [Fresh("idle") EXCEPT !.goal = "observe"], TRUE)

\* Graceful shutdown cancels the work and settles the Run as failed.
Shutdown(p) ==
    /\ At(p, "exec")
    /\ Become(p, [proc[p] EXCEPT !.pc = "settleFailed", !.goal = "shutdown"])
    /\ UNCHANGED <<run, row, current, now, crashes>>

DriverStep(p) ==
    \/ Acquire(p) \/ AcquireNothing(p) \/ ResumeHosted(p) \/ Shutdown(p)
-----------------------------------------------------------------------------
(* Sinks: RunAddressedToolObservationSink, and the end of a failed HITL    *)

Deliver(p) ==
    /\ At(p, "idle")
    /\ run.status \in Suspended
    /\ Become(p, Fresh("schedule"))
    /\ UNCHANGED <<run, row, current, now, crashes>>

\* terminalize_canonical_hitl_run with terminal_status "failed": whatever the
\* Run is doing, its interaction having failed
FailInteraction(p) ==
    /\ At(p, "idle")
    /\ Become(p, Fresh("settleFailed"))
    /\ UNCHANGED <<run, row, current, now, crashes>>

SinkStep(p) == Deliver(p) \/ FailInteraction(p)
-----------------------------------------------------------------------------
(* Workers: recover_generic_runs                                           *)

\* Fault: a sweep that does not repair.
RepairNothing(p) ==
    /\ At(p, "idle")
    /\ Become(p, Fresh("list"))
    /\ UNCHANGED <<run, row, current, now, crashes>>

\* repair_canceling_recovery scans first; a lagging mirror is restored from
\* the row, a lagging row is replaced in a write of its own.
Repair(p) ==
    LET lagging == /\ run.status = "canceling"
                   /\ row.kind # "cancellation" \/ run.kind # "cancellation"
    IN  /\ At(p, "idle")
        /\ Become(p, IF lagging /\ row.kind # "cancellation" THEN Fresh("repairRow")
                     ELSE [Fresh("list") EXCEPT !.mirror = IF lagging THEN row.kind ELSE "absent"])
        /\ UNCHANGED <<run, row, current, now, crashes>>

\* _replace_cancellation_recovery, here and for the cancel request: the row
\* is replaced whoever owns it.
ReplaceRow(p, requestedAt, then) ==
    LET c == RecoveryClaim("cancellation", requestedAt)
    IN  /\ row' = c
        /\ Become(p, [Fresh(then) EXCEPT !.mirror = c.kind])
        /\ UNCHANGED <<run, current, now, crashes>>

RepairRow(p) == At(p, "repairRow") /\ ReplaceRow(p, run.requestedAt, "list")

\* list_due_runs: the row decides once there is one.
List(p) ==
    LET due == run.status \notin Terminal /\ Due(IF HasRow THEN row ELSE LoadedClaim, now)
    IN  /\ At(p, "list")
        /\ Become(p, IF due THEN [Fresh("listed") EXCEPT !.prior = LoadedClaim.owner]
                     ELSE Fresh("idle"))
        /\ current' = IF due THEN current \cup {p} ELSE current \ {p}
        /\ UNCHANGED <<run, row, now, crashes>>

\* claim_recovery expects the version the candidate was listed with.
ClaimListed(p) ==
    /\ At(p, "listed")
    /\ p \in current
    /\ BeginClaim(p, proc[p], FALSE)

ListedStale(p) ==
    /\ At(p, "listed")
    /\ p \notin current
    /\ Become(p, Fresh("idle"))
    /\ UNCHANGED <<run, row, current, now, crashes>>

WorkerStep(p) ==
    \/ Repair(p) \/ RepairRow(p) \/ List(p) \/ ClaimListed(p) \/ ListedStale(p)
    \/ LoseLease(p)
-----------------------------------------------------------------------------
(* Cancel requests: request_cancellation, then the attempt to settle it    *)

\* Every request carries the same command id, so one that finds the command
\* processed only replaces the row again.
CancelLoad(p) ==
    /\ At(p, "idle")
    /\ run.requestedAt # NoTime \/ run.status \in Cancelable
    /\ Become(p, [Fresh(IF run.requestedAt # NoTime THEN "cancelRow" ELSE "cancelCas")
                     EXCEPT !.status = run.status, !.kind = LoadedClaim.kind, !.at = now])
    /\ current' = current \cup {p}
    /\ UNCHANGED <<run, row, now, crashes>>

CancelCas(p) ==
    /\ At(p, "cancelCas")
    /\ p \in current
    /\ run' = [status |-> "canceling", requestedAt |-> proc[p].at,
               kind |-> "cancellation", next |-> proc[p].at]
    /\ current' = {p}
    /\ Become(p, [proc[p] EXCEPT !.pc = "cancelRow"])
    /\ UNCHANGED <<row, now, crashes>>

CancelLost(p) ==
    /\ At(p, "cancelCas")
    /\ p \notin current
    /\ Become(p, Fresh("idle"))
    /\ UNCHANGED <<run, row, current, now, crashes>>

CancelRow(p) == At(p, "cancelRow") /\ ReplaceRow(p, proc[p].at, "settleCanceled")

CancelStep(p) == CancelLoad(p) \/ CancelCas(p) \/ CancelLost(p) \/ CancelRow(p)
-----------------------------------------------------------------------------
(* Time, process death, the specification                                  *)

Tick ==
    /\ now < Horizon
    /\ now' = now + 1
    /\ UNCHANGED <<run, row, proc, current, crashes>>

\* A dead session is not rebuilt; the other processes are restarted, and a
\* client repeats a cancel request that was not answered.
Crash(p) ==
    /\ crashes < MaxCrashes
    /\ proc[p].pc \notin {"done", "dead", "killed"}
    /\ Become(p, Fresh(IF p \in Drivers THEN Death(p) ELSE "idle"))
    /\ current' = current \ {p}
    /\ crashes' = crashes + 1
    /\ UNCHANGED <<run, row, now>>

LeaseStep(p) ==
    \/ Mirror(p) \/ Renew(p)
    \/ ClaimRow(p) \/ ClaimAccepted(p) \/ ClaimInvalid(p) \/ ClaimLost(p) \/ ClaimUndo(p)
    \/ Leave(p) \/ ReleaseRow(p) \/ ReleaseCas(p) \/ ReleaseMirror(p)

ScheduleStep(p) ==
    ScheduleLoad(p) \/ ScheduleCas(p) \/ ScheduleRow(p) \/ ScheduleLost(p)

KernelStep(p) ==
    \/ Observe(p) \/ KernelLoad(p) \/ KernelReturn(p) \/ KernelCheckpoint(p)
    \/ KernelLost(p) \/ KernelRaise(p) \/ Settle(p) \/ Commit(p) \/ CommitLost(p)

Next ==
    \/ \E p \in Procs : LeaseStep(p) \/ ScheduleStep(p) \/ KernelStep(p) \/ Crash(p)
    \/ \E p \in Drivers : DriverStep(p)
    \/ \E p \in Sinks : SinkStep(p)
    \/ \E p \in Workers : WorkerStep(p)
    \/ \E p \in Cancellers : CancelStep(p)
    \/ Tick

Spec == Init /\ [][Next]_vars

\* Workers sweep on a timer for as long as the backend runs, and time passes.
\* A pass may fail, but not for ever in the same way: work that is attempted
\* again and again is at some point not interrupted.
SweepStep(p) ==
    \/ Mirror(p) \/ Repair(p) \/ RepairRow(p) \/ List(p) \/ ClaimListed(p)
    \/ ListedStale(p) \/ ClaimRow(p) \/ ClaimAccepted(p) \/ ClaimInvalid(p)
    \/ ClaimLost(p) \/ ClaimUndo(p) \/ Leave(p) \/ ReleaseRow(p) \/ ReleaseCas(p)
    \/ ReleaseMirror(p) \/ KernelLoad(p) \/ KernelReturn(p) \/ KernelLost(p)
    \/ CommitLost(p) \/ LoseLease(p)

Fairness ==
    /\ WF_vars(Tick)
    /\ \A w \in Workers :
          WF_vars(SweepStep(w)) /\ SF_vars(Settle(w)) /\ SF_vars(Commit(w))

FairSpec == Spec /\ Fairness
-----------------------------------------------------------------------------
(* Properties                                                              *)

Process ==
    [pc : Locations, status : Status, kind : Kinds,
     seen : Claims \cup {NoClaim}, claim : Claims \cup {NoClaim},
     mirror : Kinds \cup {"absent"}, at : Times, prior : Procs \cup {NoOwner},
     goal : {"exec", "observe", "shutdown"}, exc : {"none", "adapter", "conflict"},
     leased : {"yes", "no"}]

Typed ==
    /\ run \in [status : Status, requestedAt : Times, kind : Kinds, next : Times]
    /\ row \in Claims \cup {NoClaim}
    /\ proc \in [Procs -> Process]
    /\ current \subseteq Procs
    /\ now \in 0 .. Horizon
    /\ crashes \in 0 .. MaxCrashes

\* A claim is quarantined exactly when its invariant failures are used up:
\* neither one failure early nor one late.
Counted(c) == c.quarantined = "yes" <=> c.fails = MaxInvariantFailures

\* Every variable keeps its type, and the row keeps its count of failures.
TypeOK == Typed /\ Counted(row)

\* The Run only moves as RunLifecycle allows: no race of the driver, the
\* recovery workers, the sinks and the cancel requests on the two documents
\* revives an ended Run, ends it twice, or lets a canceling Run end as anything
\* but canceled.
ImplementsLifecycle == L!Spec

\* A canceling aggregate always carries a cancellation claim, whichever
\* unversioned mirror write lands after the cancellation won.
CancelingRunsRecoverAsCancellation ==
    run.status = "canceling" => run.kind = "cancellation"

\* An owned lease is watched by its expiry alone: it has an expiry, no later
\* schedule that would postpone the takeover, and is not quarantined.
OwnedLeaseExpires ==
    row.owner # NoOwner =>
        row.lease # NoTime /\ row.next = NoTime /\ row.quarantined = "no"

\* A live lease never passes directly to another owner.
LiveLeaseIsNotStolen ==
    [][row.owner # NoOwner /\ row.lease > now => row'.owner \in {row.owner, NoOwner}]_vars

\* A quarantined row leaves every scan for good: only a cancel request
\* schedules the Run again.
QuarantineIsFinal ==
    [][HasRow /\ row.quarantined = "yes" => row' = row \/ row'.kind = "cancellation"]_vars

\* A Run that executes is armed: it is under a lease, quarantined, or has a
\* watchdog that will fire.
ActiveRunIsArmed == run.status \in Active => LoadedClaim.next # Dormant

\* An execution whose driver died under its lease is settled, never resumed.
InterruptedRunIsNotResumed ==
    [][\A w \in Workers :
         /\ run.status \in Active
         /\ \E d \in Drivers : proc[d].pc = "killed"
         => ~(proc[w].pc = "claimCas" /\ proc'[w].pc = "exec")]_vars

\* Every durable cancellation is settled, or quarantined after repeated
\* invariant failures, whatever was lost between the cancelling CAS and the
\* replacement of the recovery row.
CancellationSettles ==
    run.status = "canceling" ~> run.status = "canceled" \/ row.quarantined = "yes"

\* An execution whose driver died is taken over once its lease has expired.
InterruptedRunIsTakenOver ==
    (run.status \in Active /\ \E d \in Drivers : proc[d].pc = "killed")
        ~> \/ run.status \notin Active
           \/ row.quarantined = "yes"
           \/ \E w \in Workers : proc[w].pc = "exec"
=============================================================================
